------------------------------ MODULE SchedHeap ------------------------------
(***************************************************************************)
(* net/CommScheduler.cc: the heap in which a CommSchedGroup keeps its      *)
(* targets, so that the least loaded one is at its root.  tg_heap is a     *)
(* sequence, so the code's index i is i + 1 here.  Each operation is made  *)
(* under the group's mutex; CommSched models who calls it when.            *)
(***************************************************************************)
EXTENDS Naturals, SequencesExt, FiniteSets

CONSTANTS Targets,
          MaxLoad   \* target->max_load, target by target

ASSUME LoadAssumption == MaxLoad \in [Targets -> Nat \ {0}]

VARIABLES tg_heap,   \* the targets in the group
          index,     \* target->index
          cur_load

vars == <<tg_heap, index, cur_load>>

Init ==
    /\ tg_heap = <<>>
    /\ index = [t \in Targets |-> 0]
    /\ cur_load = [t \in Targets |-> 0]

-----------------------------------------------------------------------------
(* The algorithms.  A group is the pair of tg_heap and index; load is the    *)
(* cur_load they see.                                                        *)

(* target_cmp(t, u) < 0, and = 0 *)
Less(load, t, u) == load[t] * MaxLoad[u] < load[u] * MaxLoad[t]
Equal(load, t, u) == load[t] * MaxLoad[u] = load[u] * MaxLoad[t]

(* tg_heap[i] = t; t->index = i; *)
Put(g, i, t) == [heap |-> [g.heap EXCEPT ![i] = t],
                 index |-> [g.index EXCEPT ![t] = i]]

NeverOnEqual(load, t, p, swap_on_equal) == Less(load, t, p)  \* mutant
MovesUp(load, t, p, swap_on_equal) ==
    Less(load, t, p) \/ (swap_on_equal /\ Equal(load, t, p))

(* target t moves from place i towards the root *)
RECURSIVE SiftUp(_, _, _, _, _)
SiftUp(load, g, t, i, swap_on_equal) ==
    IF i > 1 /\ MovesUp(load, t, g.heap[i \div 2], swap_on_equal)
    THEN SiftUp(load, Put(g, i, g.heap[i \div 2]), t, i \div 2, swap_on_equal)
    ELSE Put(g, i, t)

heap_adjust(load, g, i, swap_on_equal) == SiftUp(load, g, g.heap[i], i, swap_on_equal)

LesserChild(load, g, i) ==
    IF 2 * i < Len(g.heap) /\ Less(load, g.heap[2 * i + 1], g.heap[2 * i])
    THEN 2 * i + 1 ELSE 2 * i

(* target t moves from place i towards the leaves *)
RECURSIVE SiftDown(_, _, _, _)
SiftDown(load, g, t, i) ==
    LET c == LesserChild(load, g, i) IN
    IF 2 * i <= Len(g.heap) /\ Less(load, g.heap[c], t)
    THEN SiftDown(load, Put(g, i, g.heap[c]), t, c)
    ELSE Put(g, i, t)

heapify(load, g, top) == SiftDown(load, g, g.heap[top], top)

heap_insert(load, g, t) ==
    LET n == Len(g.heap) + 1 IN
    heap_adjust(load, [heap |-> Append(g.heap, t), index |-> [g.index EXCEPT ![t] = n]],
                n, FALSE)

OnlyDown(load, g, i) == heapify(load, g, i)                  \* mutant
(* Where the last target was put in the removed one's place, it may have to *)
(* go either way.                                                           *)
Settle(load, g, i) ==
    LET up == heap_adjust(load, g, i, FALSE) IN
    heapify(load, up, up.index[g.heap[i]])

heap_remove(load, g, i) ==
    LET n == Len(g.heap)
        last == g.heap[n]
        shrunk == [g EXCEPT !.heap = Front(@)]
    IN IF i = n THEN shrunk ELSE Settle(load, Put(shrunk, i, last), i)

-----------------------------------------------------------------------------
(* The operations *)

members == ToSet(tg_heap)
group == [heap |-> tg_heap, index |-> index]
Becomes(g) == tg_heap' = g.heap /\ index' = g.index

AddTarget(t) ==
    /\ t \notin members
    /\ Becomes(heap_insert(cur_load, group, t))
    /\ UNCHANGED cur_load

RemoveTarget(t) ==
    /\ t \in members
    /\ Becomes(heap_remove(cur_load, group, index[t]))
    /\ UNCHANGED cur_load

(* CommSchedGroup::acquire gives the root away, whatever its own load is.   *)
AcquireGroup ==
    /\ SumFunctionOnSet(cur_load, members) < SumFunctionOnSet(MaxLoad, members)
    /\ cur_load' = [cur_load EXCEPT ![tg_heap[1]] = @ + 1]
    /\ Becomes(heapify(cur_load', group, 1))

(* CommSchedTarget::acquire *)
AcquireTarget(t) ==
    /\ cur_load[t] < MaxLoad[t]
    /\ cur_load' = [cur_load EXCEPT ![t] = @ + 1]
    /\ IF t \in members THEN Becomes(heapify(cur_load', group, index[t]))
       ELSE UNCHANGED <<tg_heap, index>>

(* CommSchedTarget::release *)
Release(t, keep_alive) ==
    /\ cur_load[t] > 0
    /\ cur_load' = [cur_load EXCEPT ![t] = @ - 1]
    /\ IF t \in members
       THEN Becomes(heap_adjust(cur_load', group, index[t], keep_alive))
       ELSE UNCHANGED <<tg_heap, index>>

Next ==
    \/ AcquireGroup
    \/ \E t \in Targets :
          \/ AddTarget(t) \/ RemoveTarget(t) \/ AcquireTarget(t)
          \/ \E keep_alive \in BOOLEAN : Release(t, keep_alive)

Spec == Init /\ [][Next]_vars

-----------------------------------------------------------------------------
(* Properties *)

(* A target in the group knows its place in the heap, which is how remove    *)
(* and release find it.  (It follows that no target is there twice.)         *)
IndexIsPlace == \A i \in 1..Len(tg_heap) : index[tg_heap[i]] = i

(* The root is a least loaded member, so that a group that is not full has a *)
(* root that is not full: acquire does not look at the load of the root it   *)
(* takes.  CommSched takes this for granted.                                 *)
RootIsLeastLoaded ==
    tg_heap # <<>> => \A t \in members : ~Less(cur_load, t, tg_heap[1])

(* The heap stays one that acquire, release and remove may rely on           *)
(* (CommScheduler.cc:181-304).                                               *)
HeapIsRight == IndexIsPlace /\ RootIsLeastLoaded

(* A target that has just got an idle connection is taken before the others  *)
(* of the same load on its path: above it, all are less loaded.              *)
IdleConnectionPreferred ==
    [][\A t \in members : Release(t, TRUE) /\ index'[t] > 1 =>
          Less(cur_load', tg_heap'[index'[t] \div 2], t)]_vars

=============================================================================
