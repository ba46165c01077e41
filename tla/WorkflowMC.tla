----------------------------- MODULE WorkflowMC -----------------------------
(* A series with a parallel work of two branches, one of which holds another *)
(* parallel work of two branches and the other an empty one.                 *)
EXTENDS Workflow, TLC

CONSTANTS a, b, c, d, e, f, x, p1, p2, p3, root, s1, s2, s3, s4

MCContent == root :> <<a, p1, b>> @@ s1 :> <<c, p2>> @@ s2 :> <<d, p3>>
             @@ s3 :> <<e>> @@ s4 :> <<f>>
MCBranches == p1 :> <<s1, s2>> @@ p2 :> <<s3, s4>> @@ p3 :> <<>>
=============================================================================
