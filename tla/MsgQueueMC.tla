----------------------------- MODULE MsgQueueMC -----------------------------
(* Two producers, two consumers and one switching thread on a queue with   *)
(* maxlen 1: with two puts each, the producers' list fills up while the    *)
(* consumers' list is not yet empty.                                       *)
EXTENDS MsgQueue

CONSTANTS p1, p2, c1, c2

MCProducers == {p1, p2}
MCConsumers == {c1, c2}

(* The run ends when the producers have made their puts: the consumers are *)
(* inside msgqueue_get or were sent away.                                  *)
Terminating ==
    /\ \A p \in Producers : pc[p] = "idle" /\ sent[p] = MaxPuts
    /\ UNCHANGED vars

MCSpec == Init /\ [][Next \/ Terminating]_vars /\ Fairness
=============================================================================
