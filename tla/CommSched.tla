------------------------------ MODULE CommSched ------------------------------
(***************************************************************************)
(* net/CommScheduler.cc: who gets one of a target's max_load connections.  *)
(* A request acquires a target, or a group that picks its least loaded     *)
(* member, and waits for a release if it is willing to.                    *)
(*                                                                         *)
(* Every operation is one critical section: a target's own mutex is handed *)
(* over to the group's (hand over hand) when the target is in the group,   *)
(* and the group pointer changes only under both.  A waiting request       *)
(* leaves and enters its critical section, so that is two actions.  The    *)
(* heap is modelled by what its root is, a least loaded member; SchedHeap  *)
(* models the heap itself.                                                 *)
(***************************************************************************)
EXTENDS Integers, FiniteSets

CONSTANTS Requests,   \* each made once, by a thread of its own
          Targets,
          Group,      \* the one CommSchedGroup
          None,
          MaxLoad     \* target->max_load, target by target

(* CommSchedTarget::init refuses max_connections = 0. *)
ASSUME LoadAssumption == MaxLoad \in [Targets -> Nat \ {0}]
ASSUME NamesAssumption == Group \notin Targets /\ None \notin Targets \cup {Group}
ASSUME RequestsAssumption == IsFiniteSet(Requests)

VARIABLES
    cur_load,   \* target->cur_load
    members,    \* the targets whose group pointer is the group
    gmax,       \* group->max_load
    gcur,       \* group->cur_load
    pc,         \* where each request is
    object,     \* the target or group it asks for
    patience,   \* its wait_timeout: "some" or "endless" (-1)
    mutex,      \* the mutex it waits with
    target      \* what it was given

loadVars == <<cur_load, members, gmax, gcur>>
requestVars == <<pc, object, patience, mutex, target>>
vars == <<loadVars, requestVars>>

Init ==
    /\ cur_load = [t \in Targets |-> 0]
    /\ members = {}
    /\ gmax = 0 /\ gcur = 0
    /\ pc = [r \in Requests |-> "new"]
    /\ object = [r \in Requests |-> None]
    /\ patience = [r \in Requests |-> "some"]
    /\ mutex = [r \in Requests |-> None]
    /\ target = [r \in Requests |-> None]

-----------------------------------------------------------------------------

(* wait_cnt counts a waiter until it has the mutex back. *)
Waiters(o) == {r \in Requests : object[r] = o /\ pc[r] = "waiting"}
Counted(o) == {r \in Requests : object[r] = o
                                /\ pc[r] \in {"waiting", "woken", "timedout"}}
wait_cnt(o) == Cardinality(Counted(o))

MutexOf(o) == IF o \in members THEN Group ELSE o

HasRoom(o) == IF o = Group THEN gcur < gmax ELSE cur_load[o] < MaxLoad[o]

(* pthread_cond_signal wakes one of those that wait, if there is one. *)
Signalled(p, o) ==
    IF Waiters(o) = {} THEN {p}
    ELSE {[p EXCEPT ![w] = "woken"] : w \in Waiters(o)}

(* CommSchedGroup::target_cmp compares the loads as fractions. *)
NoMoreLoaded(t, u) == cur_load[t] * MaxLoad[u] <= cur_load[u] * MaxLoad[t]
Roots == {t \in members : \A u \in members : NoMoreLoaded(t, u)}

Candidates(o) == IF o = Group THEN Roots ELSE {o}

ChargedGroup(t) == IF t \in members THEN gcur + 1 ELSE gcur

(* What a call has in its local variables is gone when it returns. *)
Return(r) ==
    /\ object' = [object EXCEPT ![r] = None]
    /\ patience' = [patience EXCEPT ![r] = "some"]
    /\ mutex' = [mutex EXCEPT ![r] = None]

(* The end of both acquire functions: a slot is there and is taken. *)
Grant(r, o) ==
    \E t \in Candidates(o) :
        /\ cur_load' = [cur_load EXCEPT ![t] = @ + 1]
        /\ gcur' = ChargedGroup(t)
        /\ target' = [target EXCEPT ![r] = t]
        /\ pc' = [pc EXCEPT ![r] = "holding"]
        /\ Return(r)
        /\ UNCHANGED <<members, gmax>>

Refuse(r) ==
    /\ pc' = [pc EXCEPT ![r] = "over"]
    /\ Return(r)
    /\ UNCHANGED <<loadVars, target>>

Wait(r, o, w) ==
    /\ pc' = [pc EXCEPT ![r] = "waiting"]
    /\ object' = [object EXCEPT ![r] = o]
    /\ patience' = [patience EXCEPT ![r] = w]
    /\ mutex' = [mutex EXCEPT ![r] = MutexOf(o)]
    /\ UNCHANGED <<loadVars, target>>

(* CommSchedTarget::acquire and CommSchedGroup::acquire, as far as they get *)
(* without giving up the mutex.  A wait_timeout of 0 refuses to wait.       *)
Acquire(r) ==
    /\ pc[r] = "new"
    /\ \E o \in Targets \cup {Group} :
          \/ HasRoom(o) /\ Grant(r, o)
          \/ ~HasRoom(o) /\ (Refuse(r) \/ \E w \in {"some", "endless"} : Wait(r, o, w))

(* PTHREAD_COND_TIMEDWAIT ends without a signal: spuriously, or because the *)
(* time is over.                                                            *)
WakeUnasked(r) ==
    /\ pc[r] = "waiting"
    /\ \/ pc' = [pc EXCEPT ![r] = "woken"]
       \/ patience[r] = "some" /\ pc' = [pc EXCEPT ![r] = "timedout"]
    /\ UNCHANGED <<loadVars, object, patience, mutex, target>>

(* A wait is over and the mutex is there: a free slot is taken even when    *)
(* the time is over; a waiter that was overtaken waits again.               *)
Resume(r) ==
    LET o == object[r] IN
    \/ pc[r] \in {"woken", "timedout"} /\ HasRoom(o) /\ Grant(r, o)
    \/ pc[r] = "woken" /\ ~HasRoom(o) /\ Wait(r, o, patience[r])
    \/ pc[r] = "timedout" /\ ~HasRoom(o) /\ Refuse(r)

OnlyGroupWaiters(t) ==                                      \* mutant
    IF t \in members /\ wait_cnt(Group) > 0 THEN Group ELSE None
(* Whom CommSchedTarget::release wakes. *)
ToSignal(t) ==
    IF wait_cnt(t) > 0 THEN t
    ELSE IF t \in members /\ wait_cnt(Group) > 0 THEN Group ELSE None

(* CommSchedTarget::release, by the session's end or by a request that      *)
(* could not be sent.                                                       *)
Release(r) ==
    LET t == target[r] IN
    /\ pc[r] = "holding"
    /\ cur_load' = [cur_load EXCEPT ![t] = @ - 1]
    /\ gcur' = IF t \in members THEN gcur - 1 ELSE gcur
    /\ pc' \in Signalled([pc EXCEPT ![r] = "over"], ToSignal(t))
    /\ target' = [target EXCEPT ![r] = None]
    /\ UNCHANGED <<members, gmax, object, patience, mutex>>

NotInGroup(t) == t \notin members                           \* mutant
MayJoin(t) == t \notin members /\ wait_cnt(t) = 0

RoomForWaiter == wait_cnt(Group) > 0 /\ gcur' < gmax'

(* CommSchedGroup::add *)
Add(t) ==
    /\ MayJoin(t)
    /\ members' = members \cup {t}
    /\ gmax' = gmax + MaxLoad[t]
    /\ gcur' = gcur + cur_load[t]
    /\ IF RoomForWaiter THEN pc' \in Signalled(pc, Group) ELSE UNCHANGED pc
    /\ UNCHANGED <<cur_load, object, patience, mutex, target>>

LoadForgotten(t) == gcur                                    \* mutant
LoadWithout(t) == gcur - cur_load[t]

(* CommSchedGroup::remove *)
Remove(t) ==
    /\ t \in members /\ wait_cnt(t) = 0
    /\ members' = members \ {t}
    /\ gmax' = gmax - MaxLoad[t]
    /\ gcur' = LoadWithout(t)
    /\ UNCHANGED <<cur_load, requestVars>>

Next ==
    \/ \E r \in Requests : Acquire(r) \/ WakeUnasked(r) \/ Resume(r) \/ Release(r)
    \/ \E t \in Targets : Add(t) \/ Remove(t)

(* A thread that may have the mutex gets it, and every connection is given  *)
(* back: each session ends (ClientConn).                                    *)
Fairness == \A r \in Requests : WF_vars(Resume(r)) /\ WF_vars(Release(r))

Spec == Init /\ [][Next]_vars /\ Fairness

-----------------------------------------------------------------------------
(* Properties *)

(* A target's load is the number of requests that hold it, and never more   *)
(* than its max_load, whether it was acquired itself or as a group's root.  *)
Holders(t) == {r \in Requests : pc[r] = "holding" /\ target[r] = t}
LoadIsHolders ==
    \A t \in Targets : /\ cur_load[t] = Cardinality(Holders(t))
                       /\ cur_load[t] <= MaxLoad[t]

(* The group's two sums are those of its members, through every add and     *)
(* remove of a target that is in use.  A sum of loads is the number of the  *)
(* slots they stand for.                                                    *)
Slots(load, S) == UNION {{t} \X (1 .. load[t]) : t \in S}
GroupLoadIsSum ==
    /\ gmax = Cardinality(Slots(MaxLoad, members))
    /\ gcur = Cardinality(Slots(cur_load, members))

(* Every slot that was acquired is given back once, and counted where its   *)
(* target is (CommScheduler.cc:20-56, 111-176, 318-395; CommScheduler.h:92- *)
(* 112).                                                                    *)
LoadsAreRight == LoadIsHolders /\ GroupLoadIsSum

(* A waiter's mutex is the one that guards what it waits for, when it       *)
(* comes back as well as when it left.  This is why add and remove refuse a *)
(* target with waiters.                                                     *)
WaitersMutexIsRight ==
    \A r \in Requests : pc[r] \in {"waiting", "woken", "timedout"}
        => mutex[r] = MutexOf(object[r])

(* Who waits for a target without a time limit gets it in the end.          *)
TargetWaiterServed ==
    \A r \in Requests :
        pc[r] = "waiting" /\ object[r] \in Targets /\ patience[r] = "endless"
            ~> pc[r] = "holding"

(* So does who waits for a group, if a member stays in it.                  *)
GroupWaiterServed ==
    \A r \in Requests :
        pc[r] = "waiting" /\ object[r] = Group /\ patience[r] = "endless"
            ~> pc[r] = "holding" \/ members = {}

=============================================================================
