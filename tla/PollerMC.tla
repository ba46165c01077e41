------------------------------ MODULE PollerMC ------------------------------
(* One descriptor and timers, three nodes, a pipe for two pointers, *)
(* two events at a time.                                                    *)
EXTENDS Poller

CONSTANTS f1, n1, n2, n3
=============================================================================
