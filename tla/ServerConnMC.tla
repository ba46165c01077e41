---------------------------- MODULE ServerConnMC ----------------------------
(* A connection with two requests, and another one, for which there is no   *)
(* room until the first one is closed.                                      *)
EXTENDS ServerConn

CONSTANTS c1, c2, h1, h2

Requests == [c \in {c1, c2} |-> IF c = c1 THEN 2 ELSE 0]

HandlersAlike == Permutations({h1, h2})
=============================================================================
