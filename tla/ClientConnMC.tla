---------------------------- MODULE ClientConnMC ----------------------------
(* Small instances of ClientConn: two requests, at most two connections, and *)
(* one or two handler threads.                                               *)
EXTENDS ClientConn, TLC

CONSTANTS s1, s2, c1, c2, h1, h2

Terminating ==
    /\ \A h \in Handlers : hpc[h] = "exit"
    /\ UNCHANGED vars

MCSpec == Init /\ [][Next \/ Terminating]_vars
MCFairSpec == MCSpec /\ Fairness

(* Connections and handlers are interchangeable in the safety runs.          *)
MCSymmetry == Permutations(Conns) \cup Permutations(Handlers)
=============================================================================
