---------------------------- MODULE SchedHeapMC ----------------------------
(* Six targets: the smallest heap in which the last target can be less       *)
(* loaded than the parent of a removed one.                                  *)
EXTENDS SchedHeap, TLC

CONSTANTS t1, t2, t3, t4, t5, t6

MCMaxLoad == [t \in Targets |-> IF t \in {t1, t2} THEN 2 ELSE 1]
MCSymmetry == Permutations({t1, t2}) \cup Permutations({t3, t4, t5, t6})
=============================================================================
