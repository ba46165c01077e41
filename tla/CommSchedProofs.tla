--------------------------- MODULE CommSchedProofs ---------------------------
(***************************************************************************)
(* Proofs about CommSched, for any requests, targets and limits: first     *)
(* IInv, which says whom a load counts and whose mutex a waiter has; then, *)
(* on top of it, the group's sums, which no load exceeding its limit rests *)
(* on.                                                                     *)
(***************************************************************************)
EXTENDS CommSched, FiniteSetTheorems, TLAPS

Waiting == {"waiting", "woken", "timedout"}

(* What a request has in its variables, by where it is. *)
ShapeOK ==
    /\ members \subseteq Targets
    /\ pc \in [Requests -> Waiting \cup {"new", "holding", "over"}]
    /\ object \in [Requests -> Targets \cup {Group, None}]
    /\ mutex \in [Requests -> Targets \cup {Group, None}]
    /\ target \in [Requests -> Targets \cup {None}]
    /\ cur_load \in [Targets -> Int]
    /\ \A r \in Requests :
          /\ pc[r] \in Waiting => object[r] \in Targets \cup {Group}
          /\ pc[r] = "holding" => target[r] \in Targets

LoadCounted == \A t \in Targets : cur_load[t] = Cardinality(Holders(t))

IInv == ShapeOK /\ WaitersMutexIsRight /\ LoadCounted

-----------------------------------------------------------------------------

(* No waiter is counted for a target only if there is none. *)
LEMMA NobodyCounted ==
  ASSUME NEW o, wait_cnt(o) = 0
  PROVE  \A r \in Requests : pc[r] \in Waiting => object[r] # o
  <1>1. IsFiniteSet(Counted(o))
    <2>1. Counted(o) \subseteq Requests
      BY DEF Counted
    <2> QED
      BY <2>1, RequestsAssumption, FS_Subset
  <1>2. Counted(o) = {}
    BY <1>1, FS_EmptySet DEF wait_cnt
  <1> QED
    BY <1>2 DEF Counted, Waiting

LEMMA HoldersFinite ==
  ASSUME NEW t
  PROVE  IsFiniteSet(Holders(t)) /\ Cardinality(Holders(t)) \in Nat
  <1>1. Holders(t) \subseteq Requests
    BY DEF Holders
  <1>2. IsFiniteSet(Holders(t))
    BY <1>1, RequestsAssumption, FS_Subset
  <1> QED
    BY <1>2, FS_CardinalityType

(* A signal changes nothing but a waiter, which stays one that is counted. *)
LEMMA SignalKeeps ==
  ASSUME ShapeOK,
         NEW p \in [Requests -> Waiting \cup {"new", "holding", "over"}],
         \A w \in Requests : pc[w] = "waiting" => p[w] = "waiting",
         NEW o, NEW q \in Signalled(p, o)
  PROVE  /\ q \in [Requests -> Waiting \cup {"new", "holding", "over"}]
         /\ \A r \in Requests : \/ q[r] = p[r]
                                \/ q[r] = "woken" /\ p[r] = "waiting"
  <1>1. CASE Waiters(o) = {}
    BY <1>1 DEF Signalled
  <1>2. CASE Waiters(o) # {}
    <2>1. PICK w \in Waiters(o) : q = [p EXCEPT ![w] = "woken"]
      BY <1>2 DEF Signalled
    <2>2. w \in Requests /\ p[w] = "waiting"
      BY DEF Waiters
    <2> QED
      BY <2>1, <2>2 DEF Waiting
  <1> QED
    BY <1>1, <1>2

-----------------------------------------------------------------------------

LEMMA InitIInv == Init => IInv
  <1> SUFFICES ASSUME Init PROVE IInv
    OBVIOUS
  <1>1. ShapeOK
    BY DEF Init, ShapeOK, Waiting
  <1>2. WaitersMutexIsRight
    BY DEF Init, WaitersMutexIsRight
  <1>3. LoadCounted
    <2>1. \A t \in Targets : Holders(t) = {}
      BY DEF Init, Holders
    <2> QED
      BY <2>1, FS_EmptySet DEF Init, LoadCounted
  <1> QED
    BY <1>1, <1>2, <1>3 DEF IInv

(* The shared end of the actions: a request takes a slot, gives up or waits. *)
LEMMA GrantIInv ==
  ASSUME IInv, NEW r \in Requests, pc[r] # "holding",
         NEW o \in Targets \cup {Group}, Grant(r, o)
  PROVE  IInv'
  <1> USE DEF IInv
  <1>1. PICK t \in Candidates(o) :
           /\ cur_load' = [cur_load EXCEPT ![t] = @ + 1]
           /\ target' = [target EXCEPT ![r] = t]
           /\ pc' = [pc EXCEPT ![r] = "holding"]
           /\ Return(r)
           /\ members' = members
    BY DEF Grant
  <1>2. t \in Targets
    BY DEF Candidates, Roots, ShapeOK
  <1>3. ShapeOK'
    BY <1>1, <1>2 DEF ShapeOK, Return, Waiting
  <1>4. WaitersMutexIsRight'
    BY <1>1 DEF WaitersMutexIsRight, ShapeOK, Return, MutexOf
  <1>5. LoadCounted'
    <2>1. Holders(t)' = Holders(t) \cup {r} /\ r \notin Holders(t)
      BY <1>1, <1>2 DEF Holders, ShapeOK
    <2>2. \A u \in Targets : u # t => Holders(u)' = Holders(u)
      BY <1>1, <1>2 DEF Holders, ShapeOK
    <2>3. Cardinality(Holders(t)') = Cardinality(Holders(t)) + 1
      BY <2>1, HoldersFinite, FS_AddElement
    <2>4. cur_load'[t] = cur_load[t] + 1
          /\ \A u \in Targets : u # t => cur_load'[u] = cur_load[u]
      BY <1>1, <1>2 DEF ShapeOK
    <2> QED
      BY <1>2, <2>2, <2>3, <2>4 DEF LoadCounted
  <1> QED
    BY <1>3, <1>4, <1>5

(* A step that leaves the loads, the holders and the group as they are.      *)
LEMMA QuietIInv ==
  ASSUME IInv, UNCHANGED <<cur_load, members, target>>, ShapeOK', WaitersMutexIsRight',
         \A r \in Requests : pc'[r] = "holding" <=> pc[r] = "holding"
  PROVE  IInv'
  <1>1. \A t \in Targets : Holders(t)' = Holders(t)
    BY DEF Holders
  <1> QED
    BY <1>1 DEF IInv, LoadCounted

LEMMA RefuseIInv ==
  ASSUME IInv, NEW r \in Requests, pc[r] # "holding", Refuse(r)
  PROVE  IInv'
  <1>1. ShapeOK'
    BY DEF IInv, ShapeOK, Refuse, Return, loadVars, Waiting
  <1>2. WaitersMutexIsRight'
    BY DEF IInv, ShapeOK, WaitersMutexIsRight, Refuse, Return, loadVars, MutexOf
  <1>3. \A q \in Requests : pc'[q] = "holding" <=> pc[q] = "holding"
    BY DEF IInv, ShapeOK, Refuse
  <1> QED
    BY <1>1, <1>2, <1>3, QuietIInv DEF Refuse, loadVars

LEMMA WaitIInv ==
  ASSUME IInv, NEW r \in Requests, pc[r] # "holding",
         NEW o \in Targets \cup {Group}, NEW w, Wait(r, o, w)
  PROVE  IInv'
  <1>1. MutexOf(o) \in Targets \cup {Group}
    BY DEF MutexOf
  <1>2. ShapeOK'
    BY <1>1 DEF IInv, ShapeOK, Wait, loadVars, Waiting
  <1>3. WaitersMutexIsRight'
    BY DEF IInv, ShapeOK, WaitersMutexIsRight, Wait, loadVars, MutexOf
  <1>4. \A q \in Requests : pc'[q] = "holding" <=> pc[q] = "holding"
    BY DEF IInv, ShapeOK, Wait
  <1> QED
    BY <1>2, <1>3, <1>4, QuietIInv DEF Wait, loadVars

-----------------------------------------------------------------------------
(* One lemma per action. *)

LEMMA AcquireIInv ==
  ASSUME IInv, NEW r \in Requests, Acquire(r)
  PROVE  IInv'
  <1>1. PICK o \in Targets \cup {Group} :
           Grant(r, o) \/ Refuse(r) \/ \E w \in {"some", "endless"} : Wait(r, o, w)
    BY DEF Acquire
  <1>2. pc[r] # "holding"
    BY DEF Acquire
  <1> QED
    BY <1>1, <1>2, GrantIInv, RefuseIInv, WaitIInv

LEMMA WakeUnaskedIInv ==
  ASSUME IInv, NEW r \in Requests, WakeUnasked(r)
  PROVE  IInv'
  <1>1. \/ pc' = [pc EXCEPT ![r] = "woken"]
        \/ pc' = [pc EXCEPT ![r] = "timedout"]
    BY DEF WakeUnasked
  <1>2. pc[r] = "waiting" /\ UNCHANGED <<cur_load, members, target, object, mutex>>
    BY DEF WakeUnasked, loadVars
  <1>3. ShapeOK'
    BY <1>1, <1>2 DEF IInv, ShapeOK, Waiting
  <1>4. WaitersMutexIsRight'
    BY <1>1, <1>2 DEF IInv, ShapeOK, WaitersMutexIsRight, MutexOf
  <1>5. \A q \in Requests : pc'[q] = "holding" <=> pc[q] = "holding"
    BY <1>1, <1>2 DEF IInv, ShapeOK
  <1> QED
    BY <1>2, <1>3, <1>4, <1>5, QuietIInv

LEMMA ResumeIInv ==
  ASSUME IInv, NEW r \in Requests, Resume(r)
  PROVE  IInv'
  <1>1. pc[r] \in Waiting /\ pc[r] # "holding" /\ object[r] \in Targets \cup {Group}
    BY DEF Resume, IInv, ShapeOK, Waiting
  <1>2. \/ Grant(r, object[r])
        \/ Refuse(r)
        \/ Wait(r, object[r], patience[r])
    BY DEF Resume
  <1> QED
    BY <1>1, <1>2, GrantIInv, RefuseIInv, WaitIInv

LEMMA ReleaseIInv ==
  ASSUME IInv, NEW r \in Requests, Release(r)
  PROVE  IInv'
  <1> DEFINE p == [pc EXCEPT ![r] = "over"]
  <1>0. pc[r] = "holding" /\ target[r] \in Targets
    BY DEF Release, IInv, ShapeOK
  <1>1. PICK t \in Targets : t = target[r] /\ pc[r] = "holding"
    BY <1>0
  <1>2. /\ cur_load' = [cur_load EXCEPT ![t] = @ - 1]
        /\ pc' \in Signalled(p, ToSignal(t))
        /\ target' = [target EXCEPT ![r] = None]
        /\ UNCHANGED <<members, object, mutex>>
    BY <1>1 DEF Release
  <1>3. /\ p \in [Requests -> Waiting \cup {"new", "holding", "over"}]
        /\ \A w \in Requests : pc[w] = "waiting" => p[w] = "waiting"
        /\ p[r] = "over" /\ \A q \in Requests : q # r => p[q] = pc[q]
    BY <1>1 DEF IInv, ShapeOK
  <1>4. /\ pc' \in [Requests -> Waiting \cup {"new", "holding", "over"}]
        /\ \A q \in Requests : pc'[q] = p[q] \/ (pc'[q] = "woken" /\ p[q] = "waiting")
    <2>1. ShapeOK /\ pc' \in Signalled(p, ToSignal(t))
      BY <1>2 DEF IInv
    <2> HIDE DEF p
    <2> QED
      BY ONLY <1>3, <2>1, SignalKeeps
  <1> HIDE DEF p
  <1>5. /\ pc'[r] = "over"
        /\ \A q \in Requests : q # r =>
              pc'[q] = pc[q] \/ (pc'[q] = "woken" /\ pc[q] = "waiting")
    BY <1>3, <1>4
  <1>6. ShapeOK'
    <2>1. cur_load' \in [Targets -> Int]
      BY <1>1, <1>2 DEF IInv, ShapeOK
    <2>2. target' \in [Requests -> Targets \cup {None}]
          /\ \A q \in Requests : q # r => target'[q] = target[q]
      BY <1>2 DEF IInv, ShapeOK
    <2>3. \A q \in Requests :
             /\ pc'[q] \in Waiting => object'[q] \in Targets \cup {Group}
             /\ pc'[q] = "holding" => target'[q] \in Targets
      BY <1>2, <1>5, <2>2 DEF IInv, ShapeOK, Waiting
    <2> QED
      BY <1>2, <1>4, <2>1, <2>2, <2>3 DEF IInv, ShapeOK
  <1>7. WaitersMutexIsRight'
    BY <1>2, <1>5 DEF IInv, WaitersMutexIsRight, MutexOf
  <1>8. LoadCounted'
    <2>1. /\ \A q \in Requests : q # r =>
                (pc'[q] = "holding" <=> pc[q] = "holding") /\ target'[q] = target[q]
          /\ pc[r] = "holding" /\ target[r] = t /\ pc'[r] # "holding"
      BY <1>1, <1>2, <1>5 DEF IInv, ShapeOK
    <2>2. Holders(t)' = Holders(t) \ {r} /\ r \in Holders(t)
      BY <2>1 DEF Holders
    <2>3. \A u \in Targets : u # t => Holders(u)' = Holders(u)
      BY <2>1 DEF Holders
    <2>4. Cardinality(Holders(t)') = Cardinality(Holders(t)) - 1
      BY <2>2, HoldersFinite, FS_RemoveElement
    <2>5. cur_load'[t] = cur_load[t] - 1
          /\ \A u \in Targets : u # t => cur_load'[u] = cur_load[u]
      BY <1>1, <1>2 DEF IInv, ShapeOK
    <2>6. cur_load'[t] = Cardinality(Holders(t)')
      BY <1>1, <2>4, <2>5 DEF IInv, LoadCounted
    <2> QED
      BY <1>1, <2>3, <2>5, <2>6 DEF IInv, LoadCounted
  <1> QED
    BY <1>6, <1>7, <1>8 DEF IInv

LEMMA AddIInv ==
  ASSUME IInv, NEW t \in Targets, Add(t)
  PROVE  IInv'
  <1>1. /\ members' = members \cup {t}
        /\ UNCHANGED <<cur_load, object, mutex, target>>
        /\ wait_cnt(t) = 0
    BY DEF Add, MayJoin
  <1>2. /\ pc' \in [Requests -> Waiting \cup {"new", "holding", "over"}]
        /\ \A q \in Requests : pc'[q] = pc[q] \/ (pc'[q] = "woken" /\ pc[q] = "waiting")
    <2>1. CASE pc' \in Signalled(pc, Group)
      <3>1. pc \in [Requests -> Waiting \cup {"new", "holding", "over"}]
        BY DEF IInv, ShapeOK
      <3> QED
        BY <2>1, <3>1, SignalKeeps DEF IInv
    <2>2. CASE pc' = pc
      BY <2>2 DEF IInv, ShapeOK
    <2> QED
      BY <2>1, <2>2 DEF Add
  <1>3. ShapeOK'
    BY <1>1, <1>2 DEF IInv, ShapeOK, Waiting
  <1>4. WaitersMutexIsRight'
    <2>1. \A q \in Requests : pc[q] \in Waiting => object[q] # t
      BY <1>1, NobodyCounted
    <2>2. \A q \in Requests : pc'[q] \in Waiting => pc[q] \in Waiting /\ object[q] # t
      BY <1>2, <2>1 DEF Waiting
    <2>3. \A q \in Requests : object[q] # t => MutexOf(object[q])' = MutexOf(object[q])
      BY <1>1 DEF MutexOf
    <2> QED
      BY <1>1, <2>2, <2>3 DEF IInv, WaitersMutexIsRight, Waiting
  <1>5. \A u \in Targets : Holders(u)' = Holders(u)
    BY <1>1, <1>2 DEF Holders
  <1> QED
    BY <1>1, <1>3, <1>4, <1>5 DEF IInv, LoadCounted

LEMMA RemoveIInv ==
  ASSUME IInv, NEW t \in Targets, Remove(t)
  PROVE  IInv'
  <1>1. /\ members' = members \ {t} /\ wait_cnt(t) = 0
        /\ UNCHANGED <<cur_load, pc, object, mutex, target>>
    BY DEF Remove, requestVars
  <1>2. ShapeOK'
    BY <1>1 DEF IInv, ShapeOK
  <1>3. WaitersMutexIsRight'
    <2>1. \A q \in Requests : pc[q] \in Waiting => object[q] # t
      BY <1>1, NobodyCounted
    <2>2. \A q \in Requests : object[q] # t => MutexOf(object[q])' = MutexOf(object[q])
      BY <1>1 DEF MutexOf
    <2> QED
      BY <1>1, <2>1, <2>2 DEF IInv, WaitersMutexIsRight, Waiting
  <1>4. \A u \in Targets : Holders(u)' = Holders(u)
    BY <1>1 DEF Holders
  <1> QED
    BY <1>1, <1>2, <1>3, <1>4 DEF IInv, LoadCounted

LEMMA StepIInv == IInv /\ [Next]_vars => IInv'
  <1> SUFFICES ASSUME IInv, [Next]_vars PROVE IInv'
    OBVIOUS
  <1>1. CASE \E r \in Requests : Acquire(r) \/ WakeUnasked(r) \/ Resume(r) \/ Release(r)
    BY <1>1, AcquireIInv, WakeUnaskedIInv, ResumeIInv, ReleaseIInv
  <1>2. CASE \E t \in Targets : Add(t) \/ Remove(t)
    BY <1>2, AddIInv, RemoveIInv
  <1>3. CASE UNCHANGED vars
    <2>1. UNCHANGED <<cur_load, members, pc, object, mutex, target>>
      BY <1>3 DEF vars, loadVars, requestVars
    <2>2. \A u \in Targets : Holders(u)' = Holders(u)
      BY <2>1 DEF Holders
    <2> QED
      BY <2>1, <2>2 DEF IInv, ShapeOK, WaitersMutexIsRight, MutexOf, LoadCounted
  <1> QED
    BY <1>1, <1>2, <1>3 DEF Next

-----------------------------------------------------------------------------

(* IInv holds in every reachable state of acquire, release, add and remove. *)
THEOREM Invariance == Spec => []IInv
  BY InitIInv, StepIInv, PTL DEF Spec

-----------------------------------------------------------------------------
(* The sums.  Slots(load, S) is kept a finite set, one target at a time, so   *)
(* that no induction over sets of targets is needed.                          *)

SumsOK ==
    /\ IsFiniteSet(Slots(MaxLoad, members))
    /\ IsFiniteSet(Slots(cur_load, members))
    /\ GroupLoadIsSum
    /\ \A t \in Targets : cur_load[t] <= MaxLoad[t]

(* Slots looks at the loads of its targets only.                              *)
LEMMA SlotsSame ==
  ASSUME NEW f, NEW g, NEW S, \A t \in S : f[t] = g[t]
  PROVE  Slots(f, S) = Slots(g, S)
  BY DEF Slots

LEMMA SlotsMember ==
  ASSUME NEW f, NEW S, NEW t, NEW i
  PROVE  <<t, i>> \in Slots(f, S) <=> t \in S /\ i \in 1 .. f[t]
  BY DEF Slots

(* The slots of one target.                                                   *)
LEMMA SlotsOne ==
  ASSUME NEW t, NEW n \in Nat
  PROVE  IsFiniteSet({t} \X (1 .. n)) /\ Cardinality({t} \X (1 .. n)) = n
  <1>1. IsFiniteSet({t}) /\ Cardinality({t}) = 1
    BY FS_Singleton
  <1>2. IsFiniteSet(1 .. n) /\ Cardinality(1 .. n) = n
    BY FS_Interval
  <1>3. /\ IsFiniteSet({t} \X (1 .. n))
        /\ Cardinality({t} \X (1 .. n)) = Cardinality({t}) * Cardinality(1 .. n)
    BY <1>1, <1>2, FS_Product
  <1> QED
    BY <1>1, <1>2, <1>3

(* A target that joins brings its own slots, and takes them when it leaves.   *)
LEMMA SlotsAdd ==
  ASSUME NEW f, NEW S, NEW t, t \notin S, f[t] \in Nat, IsFiniteSet(Slots(f, S))
  PROVE  /\ IsFiniteSet(Slots(f, S \cup {t}))
         /\ Cardinality(Slots(f, S \cup {t})) = Cardinality(Slots(f, S)) + f[t]
  <1> DEFINE One == {t} \X (1 .. f[t])
  <1>1. Slots(f, S \cup {t}) = Slots(f, S) \cup One
    BY DEF Slots
  <1>2. Slots(f, S) \cap One = {}
    BY DEF Slots
  <1>3. IsFiniteSet(One) /\ Cardinality(One) = f[t]
    BY SlotsOne
  <1> HIDE DEF One
  <1>4. /\ IsFiniteSet(Slots(f, S) \cup One)
        /\ Cardinality(Slots(f, S) \cup One)
              = Cardinality(Slots(f, S)) + Cardinality(One) - Cardinality(Slots(f, S) \cap One)
    BY <1>3, FS_Union
  <1>5. Cardinality(Slots(f, S)) \in Nat /\ Cardinality(Slots(f, S) \cap One) = 0
    BY <1>2, FS_CardinalityType, FS_EmptySet
  <1>6. Cardinality(Slots(f, S) \cup One) = Cardinality(Slots(f, S)) + f[t]
    BY ONLY <1>3, <1>4, <1>5, f[t] \in Nat
  <1> QED
    BY <1>1, <1>4, <1>6

LEMMA SlotsRemove ==
  ASSUME NEW f, NEW S, NEW t \in S, f[t] \in Nat, IsFiniteSet(Slots(f, S))
  PROVE  /\ IsFiniteSet(Slots(f, S \ {t}))
         /\ Cardinality(Slots(f, S \ {t})) = Cardinality(Slots(f, S)) - f[t]
  <1>1. Slots(f, S \ {t}) \in SUBSET Slots(f, S)
    BY DEF Slots
  <1>2. IsFiniteSet(Slots(f, S \ {t}))
    BY <1>1, FS_Subset
  <1>3. (S \ {t}) \cup {t} = S /\ t \notin S \ {t}
    OBVIOUS
  <1>4. Cardinality(Slots(f, S)) = Cardinality(Slots(f, S \ {t})) + f[t]
    BY <1>2, <1>3, SlotsAdd
  <1>5. Cardinality(Slots(f, S \ {t})) \in Nat
    BY <1>2, FS_CardinalityType
  <1> QED
    BY <1>2, <1>4, <1>5

(* One slot more, or one less.                                                *)
LEMMA SlotsGrow ==
  ASSUME NEW f, NEW g, NEW S, NEW t \in S, f[t] \in Nat, g[t] = f[t] + 1,
         \A u \in S : u # t => g[u] = f[u], IsFiniteSet(Slots(f, S))
  PROVE  /\ IsFiniteSet(Slots(g, S))
         /\ Cardinality(Slots(g, S)) = Cardinality(Slots(f, S)) + 1
  <1>1. Slots(g, S \ {t}) = Slots(f, S \ {t})
    BY SlotsSame
  <1>2. /\ IsFiniteSet(Slots(f, S \ {t}))
        /\ Cardinality(Slots(f, S \ {t})) = Cardinality(Slots(f, S)) - f[t]
    BY SlotsRemove
  <1>3. (S \ {t}) \cup {t} = S /\ t \notin S \ {t} /\ g[t] \in Nat
    OBVIOUS
  <1>4. IsFiniteSet(Slots(g, S \ {t}))
    BY <1>1, <1>2
  <1>5. /\ IsFiniteSet(Slots(g, (S \ {t}) \cup {t}))
        /\ Cardinality(Slots(g, (S \ {t}) \cup {t}))
              = Cardinality(Slots(g, S \ {t})) + g[t]
    BY ONLY <1>3, <1>4, SlotsAdd
  <1>6. Cardinality(Slots(f, S)) \in Nat
    BY FS_CardinalityType
  <1>7. Cardinality(Slots(g, S)) = Cardinality(Slots(g, S \ {t})) + g[t]
    BY ONLY <1>3, <1>5
  <1>8. Cardinality(Slots(g, S \ {t})) = Cardinality(Slots(f, S)) - f[t]
    BY ONLY <1>1, <1>2
  <1>9. Cardinality(Slots(g, S)) = (Cardinality(Slots(f, S)) - f[t]) + (f[t] + 1)
    BY ONLY <1>7, <1>8, g[t] = f[t] + 1
  <1>10. Cardinality(Slots(g, S)) = Cardinality(Slots(f, S)) + 1
    BY ONLY <1>6, <1>9, f[t] \in Nat
  <1>11. IsFiniteSet(Slots(g, S))
    BY ONLY <1>3, <1>5
  <1> QED
    BY <1>10, <1>11

LEMMA LoadIsNat ==
  ASSUME IInv, NEW t \in Targets
  PROVE  cur_load[t] \in Nat /\ MaxLoad[t] \in Nat /\ MaxLoad[t] > 0
  BY HoldersFinite, LoadAssumption DEF IInv, LoadCounted

-----------------------------------------------------------------------------

LEMMA InitSums == Init => SumsOK
  <1> SUFFICES ASSUME Init PROVE SumsOK
    OBVIOUS
  <1>1. \A f : Slots(f, members) = {}
    BY DEF Init, Slots
  <1> QED
    BY <1>1, FS_EmptySet, LoadAssumption DEF Init, SumsOK, GroupLoadIsSum

(* A group with room has a root with room: the least loaded member, as a      *)
(* fraction of its limit, can be full only if every member is.                *)
LEMMA RootHasRoom ==
  ASSUME IInv, SumsOK, gcur < gmax, NEW t \in Roots
  PROVE  cur_load[t] < MaxLoad[t]
  <1>1. t \in members /\ members \subseteq Targets
    BY DEF Roots, IInv, ShapeOK
  <1>2. \A u \in members : /\ cur_load[u] \in Nat /\ MaxLoad[u] \in Nat
                           /\ MaxLoad[u] > 0 /\ cur_load[u] <= MaxLoad[u]
    BY <1>1, LoadIsNat DEF SumsOK
  <1>3. SUFFICES ASSUME cur_load[t] = MaxLoad[t] PROVE FALSE
    BY <1>1, <1>2
  <1>4. ASSUME NEW u \in members PROVE cur_load[u] = MaxLoad[u]
    <2>1. MaxLoad[t] * MaxLoad[u] <= cur_load[u] * MaxLoad[t]
      BY <1>3 DEF Roots, NoMoreLoaded
    <2>2. PICK m \in Nat, n \in Nat, c \in Nat :
             /\ m = MaxLoad[t] /\ n = MaxLoad[u] /\ c = cur_load[u]
             /\ m > 0 /\ c <= n
      BY <1>1, <1>2
    <2>3. m * n <= c * m
      BY <2>1, <2>2
    <2>4. c < n => c * m < m * n
      <3>1. SUFFICES ASSUME c < n PROVE c * m < m * n
        OBVIOUS
      <3>2. PICK d \in Nat : n = c + d /\ d > 0
        <4>1. n - c \in Nat /\ n = c + (n - c) /\ n - c > 0
          BY <3>1
        <4> QED
          BY <4>1
      <3>3. m * n = m * c + m * d
        BY <3>2
      <3>4. m * d > 0 /\ m * c = c * m
        BY <2>2, <3>2
      <3> QED
        BY <3>3, <3>4
    <2>5. c * m \in Nat /\ m * n \in Nat
      OBVIOUS
    <2> QED
      BY <2>2, <2>3, <2>4, <2>5
  <1>5. Slots(cur_load, members) = Slots(MaxLoad, members)
    BY <1>4, SlotsSame
  <1>6. gcur = gmax /\ gmax \in Nat
    BY <1>5, FS_CardinalityType DEF SumsOK, GroupLoadIsSum
  <1> QED
    BY <1>6

LEMMA GrantSums ==
  ASSUME IInv, SumsOK, NEW r \in Requests, NEW o \in Targets \cup {Group},
         HasRoom(o), Grant(r, o)
  PROVE  SumsOK'
  <1>1. PICK t \in Candidates(o) :
           /\ cur_load' = [cur_load EXCEPT ![t] = @ + 1]
           /\ gcur' = ChargedGroup(t)
           /\ members' = members /\ gmax' = gmax
    BY DEF Grant
  <1>2. members \subseteq Targets /\ t \in Targets
    BY DEF Candidates, Roots, IInv, ShapeOK
  <1>3. cur_load[t] < MaxLoad[t]
    <2>1. CASE o = Group
      BY <2>1, RootHasRoom DEF HasRoom, Candidates
    <2>2. CASE o # Group
      BY <2>2 DEF HasRoom, Candidates
    <2> QED
      BY <2>1, <2>2
  <1>4. /\ cur_load'[t] = cur_load[t] + 1
        /\ \A u \in Targets : u # t => cur_load'[u] = cur_load[u]
    BY <1>1, <1>2 DEF IInv, ShapeOK
  <1>5. \A u \in Targets : cur_load'[u] <= MaxLoad[u]
    BY <1>2, <1>3, <1>4, LoadIsNat DEF SumsOK
  <1>6. /\ IsFiniteSet(Slots(cur_load', members))
        /\ gcur' = Cardinality(Slots(cur_load', members))
    <2>1. CASE t \in members
      <3>1. /\ IsFiniteSet(Slots(cur_load', members))
            /\ Cardinality(Slots(cur_load', members))
                  = Cardinality(Slots(cur_load, members)) + 1
        BY <1>2, <1>4, <2>1, LoadIsNat, SlotsGrow DEF SumsOK
      <3> QED
        BY <1>1, <2>1, <3>1 DEF SumsOK, GroupLoadIsSum, ChargedGroup
    <2>2. CASE t \notin members
      <3>1. Slots(cur_load', members) = Slots(cur_load, members)
        BY <1>2, <1>4, <2>2, SlotsSame
      <3> QED
        BY <1>1, <2>2, <3>1 DEF SumsOK, GroupLoadIsSum, ChargedGroup
    <2> QED
      BY <2>1, <2>2
  <1> QED
    BY <1>1, <1>5, <1>6 DEF SumsOK, GroupLoadIsSum

(* A step that leaves every load and the group as they are.                   *)
LEMMA QuietSums ==
  ASSUME SumsOK, UNCHANGED loadVars
  PROVE  SumsOK'
  BY DEF SumsOK, GroupLoadIsSum, loadVars, Slots

LEMMA ReleaseSums ==
  ASSUME IInv, SumsOK, NEW r \in Requests, Release(r)
  PROVE  SumsOK'
  <1>1. PICK t \in Targets : t = target[r] /\ pc[r] = "holding"
    BY DEF Release, IInv, ShapeOK
  <1>2. /\ cur_load' = [cur_load EXCEPT ![t] = @ - 1]
        /\ gcur' = IF t \in members THEN gcur - 1 ELSE gcur
        /\ members' = members /\ gmax' = gmax
    BY <1>1 DEF Release
  <1>3. members \subseteq Targets
    BY DEF IInv, ShapeOK
  <1>4. cur_load[t] \in Nat /\ cur_load[t] # 0
    <2>1. r \in Holders(t)
      BY <1>1 DEF Holders
    <2>2. Cardinality(Holders(t)) # 0
      BY <2>1, HoldersFinite, FS_EmptySet
    <2> QED
      BY <1>1, <2>2, LoadIsNat DEF IInv, LoadCounted
  <1>5. /\ cur_load'[t] = cur_load[t] - 1
        /\ cur_load'[t] \in Nat
        /\ cur_load[t] = cur_load'[t] + 1
        /\ \A u \in Targets : u # t => cur_load'[u] = cur_load[u]
    BY <1>1, <1>2, <1>4 DEF IInv, ShapeOK
  <1>6. \A u \in Targets : cur_load'[u] <= MaxLoad[u]
    BY <1>4, <1>5, LoadIsNat DEF SumsOK
  <1>7. /\ IsFiniteSet(Slots(cur_load', members))
        /\ gcur' = Cardinality(Slots(cur_load', members))
    <2>1. CASE t \in members
      <3>1. IsFiniteSet(Slots(cur_load', members))
        <4>1. Slots(cur_load', members) \in SUBSET Slots(cur_load, members)
          <5>1. ASSUME NEW u \in members
                PROVE  1 .. cur_load'[u] \subseteq 1 .. cur_load[u]
            <6>1. CASE u = t
              <7>1. PICK a \in Nat, b \in Nat :
                       a = cur_load[u] /\ b = cur_load'[u] /\ a = b + 1
                BY ONLY <1>4, <1>5, <6>1
              <7>2. 1 .. b \subseteq 1 .. a
                BY ONLY <7>1
              <7> QED
                BY <7>1, <7>2
            <6>2. CASE u # t
              BY <1>3, <1>5, <6>2
            <6> QED
              BY <6>1, <6>2
          <5> QED
            BY <5>1 DEF Slots
        <4> QED
          BY <4>1, FS_Subset DEF SumsOK
      <3>2. Cardinality(Slots(cur_load, members))
               = Cardinality(Slots(cur_load', members)) + 1
        <4>1. \A u \in members : u # t => cur_load[u] = cur_load'[u]
          BY <1>3, <1>5
        <4>2. PICK f, g : f = cur_load' /\ g = cur_load
          OBVIOUS
        <4>3. /\ f[t] \in Nat /\ g[t] = f[t] + 1 /\ IsFiniteSet(Slots(f, members))
              /\ \A u \in members : u # t => g[u] = f[u]
          BY <1>5, <3>1, <4>1, <4>2
        <4>4. Cardinality(Slots(g, members)) = Cardinality(Slots(f, members)) + 1
          BY ONLY <2>1, <4>3, SlotsGrow
        <4> QED
          BY <4>2, <4>4
      <3>3. Cardinality(Slots(cur_load', members)) \in Nat
        BY <3>1, FS_CardinalityType
      <3> QED
        BY <1>2, <2>1, <3>1, <3>2, <3>3 DEF SumsOK, GroupLoadIsSum
    <2>2. CASE t \notin members
      <3>1. Slots(cur_load', members) = Slots(cur_load, members)
        BY <1>3, <1>5, <2>2, SlotsSame
      <3> QED
        BY <1>2, <2>2, <3>1 DEF SumsOK, GroupLoadIsSum
    <2> QED
      BY <2>1, <2>2
  <1> QED
    BY <1>2, <1>6, <1>7 DEF SumsOK, GroupLoadIsSum

LEMMA AddSums ==
  ASSUME IInv, SumsOK, NEW t \in Targets, Add(t)
  PROVE  SumsOK'
  <1>1. /\ t \notin members /\ members' = members \cup {t}
        /\ gmax' = gmax + MaxLoad[t] /\ gcur' = gcur + cur_load[t]
        /\ cur_load' = cur_load
    BY DEF Add, MayJoin
  <1>2. /\ IsFiniteSet(Slots(MaxLoad, members \cup {t}))
        /\ Cardinality(Slots(MaxLoad, members \cup {t}))
              = Cardinality(Slots(MaxLoad, members)) + MaxLoad[t]
    BY <1>1, LoadIsNat, SlotsAdd DEF SumsOK
  <1>3. /\ IsFiniteSet(Slots(cur_load, members \cup {t}))
        /\ Cardinality(Slots(cur_load, members \cup {t}))
              = Cardinality(Slots(cur_load, members)) + cur_load[t]
    BY <1>1, LoadIsNat, SlotsAdd DEF SumsOK
  <1> QED
    BY <1>1, <1>2, <1>3 DEF SumsOK, GroupLoadIsSum

LEMMA RemoveSums ==
  ASSUME IInv, SumsOK, NEW t \in Targets, Remove(t)
  PROVE  SumsOK'
  <1>1. /\ t \in members /\ members' = members \ {t}
        /\ gmax' = gmax - MaxLoad[t] /\ gcur' = gcur - cur_load[t]
        /\ cur_load' = cur_load
    BY DEF Remove, LoadWithout
  <1>2. /\ IsFiniteSet(Slots(MaxLoad, members \ {t}))
        /\ Cardinality(Slots(MaxLoad, members \ {t}))
              = Cardinality(Slots(MaxLoad, members)) - MaxLoad[t]
    BY <1>1, LoadIsNat, SlotsRemove DEF SumsOK
  <1>3. /\ IsFiniteSet(Slots(cur_load, members \ {t}))
        /\ Cardinality(Slots(cur_load, members \ {t}))
              = Cardinality(Slots(cur_load, members)) - cur_load[t]
    BY <1>1, LoadIsNat, SlotsRemove DEF SumsOK
  <1> QED
    BY <1>1, <1>2, <1>3 DEF SumsOK, GroupLoadIsSum

LEMMA StepSums == IInv /\ SumsOK /\ [Next]_vars => SumsOK'
  <1> SUFFICES ASSUME IInv, SumsOK, [Next]_vars PROVE SumsOK'
    OBVIOUS
  <1>1. ASSUME NEW r \in Requests, Acquire(r) PROVE SumsOK'
    <2>1. PICK o \in Targets \cup {Group} :
             \/ HasRoom(o) /\ Grant(r, o)
             \/ Refuse(r) \/ \E w \in {"some", "endless"} : Wait(r, o, w)
      BY <1>1 DEF Acquire
    <2> QED
      BY <2>1, GrantSums, QuietSums DEF Refuse, Wait
  <1>2. ASSUME NEW r \in Requests, WakeUnasked(r) PROVE SumsOK'
    BY <1>2, QuietSums DEF WakeUnasked
  <1>3. ASSUME NEW r \in Requests, Resume(r) PROVE SumsOK'
    <2>1. object[r] \in Targets \cup {Group}
      BY <1>3 DEF Resume, IInv, ShapeOK, Waiting
    <2>2. \/ HasRoom(object[r]) /\ Grant(r, object[r])
          \/ Refuse(r)
          \/ Wait(r, object[r], patience[r])
      BY <1>3 DEF Resume
    <2> QED
      BY <2>1, <2>2, GrantSums, QuietSums DEF Refuse, Wait
  <1>4. CASE UNCHANGED vars
    BY <1>4, QuietSums DEF vars
  <1> QED
    BY <1>1, <1>2, <1>3, <1>4, ReleaseSums, AddSums, RemoveSums DEF Next

THEOREM SumsInvariance == Spec => []SumsOK
  BY InitSums, StepSums, Invariance, PTL DEF Spec

-----------------------------------------------------------------------------

(* A thread that waits in acquire comes back under the mutex that guards what *)
(* it waited for, whatever add and remove did in the meantime: that they      *)
(* refuse a target with waiters is enough.                                    *)
THEOREM MutexRight == Spec => []WaitersMutexIsRight
  <1>1. IInv => WaitersMutexIsRight
    BY DEF IInv
  <1> QED
    BY <1>1, Invariance, PTL

(* No target is ever held by more requests than it has connections for, and   *)
(* the group's two numbers are the sums of its members' whatever is added,    *)
(* removed, acquired and released in between: the root that the group gives   *)
(* out when its sum says there is room has room itself.                       *)
THEOREM LoadsRight == Spec => []LoadsAreRight
  <1>1. IInv /\ SumsOK => LoadsAreRight
    BY DEF IInv, LoadCounted, SumsOK, LoadsAreRight, LoadIsHolders
  <1> QED
    BY <1>1, Invariance, SumsInvariance, PTL

=============================================================================
