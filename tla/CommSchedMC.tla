---------------------------- MODULE CommSchedMC ----------------------------
(* Two targets, one of them with two slots, and their group.                *)
EXTENDS CommSched

CONSTANTS r1, r2, r3, r4, t1, t2

MCMaxLoad == [t \in Targets |-> IF t = t2 THEN 2 ELSE 1]

(* Whether no target has left the group while a request waited for the group. *)
VARIABLE calm

CalmInit == Init /\ calm = TRUE
CalmNext == Next /\ calm' = (calm /\ (wait_cnt(Group) # 0 => members \subseteq members'))
CalmSpec == CalmInit /\ [][CalmNext]_<<vars, calm>> /\ Fairness

(* Who waits without a time limit, for a target or for a group that keeps a *)
(* member, is served in the end, if no target leaves the group meanwhile    *)
(* (CommScheduler.cc:111-166, 318-395): then acquire, release and add lose  *)
(* no wakeup.                                                               *)
WaitersServed == []calm => TargetWaiterServed /\ GroupWaiterServed
=============================================================================
