-------------------------------- MODULE Deque --------------------------------
(***************************************************************************)
(* What the queue of a series promises (factory/Workflow.h:65-66, 93-105): *)
(* works are taken from the front, wherever they were added, then the last *)
(* task, then nothing.                                                     *)
(***************************************************************************)
EXTENDS Naturals, Sequences

CONSTANTS Works, None

VARIABLES items,   \* the works in the queue, the front one first
          final,   \* the last task, or None
          taken,   \* what the last pop returned
          over     \* a pop has found nothing

dequeVars == <<items, final, taken, over>>

DequeInit == items = <<>> /\ final = None /\ taken = None /\ over = FALSE

AddFront(w) == items' = <<w>> \o items /\ UNCHANGED <<final, taken, over>>
AddBack(w) == items' = Append(items, w) /\ UNCHANGED <<final, taken, over>>
SetFinal(w) == final' = w /\ UNCHANGED <<items, taken, over>>

Take ==
    /\ items # <<>>
    /\ taken' = Head(items)
    /\ items' = Tail(items)
    /\ UNCHANGED <<final, over>>

TakeFinal ==
    /\ items = <<>>
    /\ taken' = final
    /\ final' = None
    /\ over' = (final = None)
    /\ UNCHANGED items

DequeNext ==
    \/ \E w \in Works : AddFront(w) \/ AddBack(w)
    \/ \E w \in Works \cup {None} : SetFinal(w)
    \/ Take
    \/ TakeFinal

DequeSpec == DequeInit /\ [][DequeNext]_dequeVars

=============================================================================
