----------------------------- MODULE ThrdPoolMC -----------------------------
(* Two threads to begin with and one to be added. *)
EXTENDS ThrdPool

CONSTANTS w1, w2, w3
=============================================================================
