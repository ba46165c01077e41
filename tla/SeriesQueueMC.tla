---------------------------- MODULE SeriesQueueMC ----------------------------
(* A ring of two slots that may double twice, two works. *)
EXTENDS SeriesQueue

CONSTANTS w1, w2
=============================================================================
