-------------------------- MODULE SeriesQueueProofs --------------------------
(***************************************************************************)
(* Proofs about SeriesQueue, for any works, any size of the first ring and *)
(* any number of expansions: the ring is a double-ended queue.             *)
(***************************************************************************)
EXTENDS SeriesQueue, SequenceTheorems, TLAPS

Slots == 0 .. queue_size - 1
Pointers == Works \cup {None}

(* The ends are slots of the ring, and every slot holds a pointer.         *)
RingOK ==
    /\ queue_size \in Nat /\ queue_size >= 2
    /\ queue \in [Slots -> Pointers]
    /\ front \in Slots
    /\ back \in Slots
    /\ doublings \in Nat

LastOK == last \in Pointers /\ popped \in Pointers /\ finished \in BOOLEAN

IInv == RingOK /\ LastOK

-----------------------------------------------------------------------------
(* What the ring holds. *)

LEMMA SlotInRing ==
    ASSUME NEW size \in Nat, NEW f \in 0 .. size - 1, NEW i \in 0 .. size - 1
    PROVE  Slot(f, i, size) \in 0 .. size - 1
  BY DEF Slot

LEMMA HeldInRing ==
    ASSUME NEW size \in Nat, NEW f \in 0 .. size - 1, NEW b \in 0 .. size - 1
    PROVE  Held(f, b, size) \in 0 .. size - 1
  BY DEF Held

(* The contents are a sequence of pointers. *)
LEMMA ItemsSeq ==
    ASSUME RingOK
    PROVE  /\ Items \in Seq(Pointers)
           /\ Len(Items) = Held(front, back, queue_size)
           /\ \A i \in 1 .. Len(Items) :
                 Items[i] = queue[Slot(front, i - 1, queue_size)]
  <1> DEFINE n == Held(front, back, queue_size)
  <1>1. n \in Nat /\ n < queue_size
    <2>1. n \in 0 .. queue_size - 1
      BY HeldInRing DEF RingOK, Slots
    <2> QED
      BY <2>1 DEF RingOK
  <1>2. \A i \in 1 .. n : queue[Slot(front, i - 1, queue_size)] \in Pointers
    <2> SUFFICES ASSUME NEW i \in 1 .. n
                 PROVE  queue[Slot(front, i - 1, queue_size)] \in Pointers
      OBVIOUS
    <2>1. i - 1 \in 0 .. queue_size - 1
      BY <1>1 DEF RingOK
    <2>2. Slot(front, i - 1, queue_size) \in Slots
      BY <2>1, SlotInRing DEF RingOK, Slots
    <2> QED
      BY <2>2 DEF RingOK
  <1>3. Items = [i \in 1 .. n |-> queue[Slot(front, i - 1, queue_size)]]
    BY DEF Items
  <1>4. Items \in [1 .. n -> Pointers]
    BY <1>2, <1>3
  <1>5. Items \in Seq(Pointers) /\ Len(Items) = n
    BY <1>1, <1>4
  <1> QED
    BY <1>3, <1>5

(* The end of a push, whether the ring grows or not: the contents are read *)
(* off q from f on, and a ring whose ends meet is a full one.              *)
LEMMA StoreItems ==
    ASSUME RingOK, NEW q \in [Slots -> Pointers], NEW f \in Slots,
           NEW b \in Slots, Store(q, f, b)
    PROVE  /\ RingOK'
           /\ Items' = [i \in 1 .. IF f = b THEN queue_size
                                   ELSE Held(f, b, queue_size) |->
                          q[Slot(f, i - 1, queue_size)]]
  <1> DEFINE size == queue_size
  <1>0. size \in Nat /\ size >= 2
    BY DEF RingOK
  <1>1. CASE f = b
    <2>1. /\ queue' = Expanded(q, f, size)
          /\ queue_size' = 2 * size
          /\ front' = 0 /\ back' = size
          /\ doublings' \in Nat
      BY <1>1 DEF Store, RingOK
    <2>2. \A i \in 0 .. size - 1 : q[Slot(f, i, size)] \in Pointers
      BY SlotInRing, <1>0 DEF Slots
    <2>3. Expanded(q, f, size) \in [0 .. 2 * size - 1 -> Pointers]
      BY <2>2, <1>0 DEF Expanded, Pointers
    <2>4. RingOK'
      BY <2>1, <2>3, <1>0 DEF RingOK, Slots, Pointers
    <2>5. Held(front', back', queue_size') = size
      BY <2>1, <1>0 DEF Held
    <2>6. \A i \in 1 .. size : queue'[Slot(front', i - 1, queue_size')]
                                   = q[Slot(f, i - 1, size)]
      <3> SUFFICES ASSUME NEW i \in 1 .. size
                   PROVE  queue'[Slot(front', i - 1, queue_size')]
                              = q[Slot(f, i - 1, size)]
        OBVIOUS
      <3>1. Slot(front', i - 1, queue_size') = i - 1
        BY <2>1, <1>0 DEF Slot
      <3>2. i - 1 \in 0 .. 2 * size - 1 /\ i - 1 < size
        BY <1>0
      <3> QED
        BY <2>1, <3>1, <3>2 DEF Expanded
    <2>7. Items' = [i \in 1 .. size |-> q[Slot(f, i - 1, size)]]
      BY <2>5, <2>6 DEF Items
    <2> QED
      BY <1>1, <2>4, <2>7
  <1>2. CASE f # b
    <2>1. /\ queue' = q /\ front' = f /\ back' = b
          /\ queue_size' = size /\ doublings' = doublings
      BY <1>2 DEF Store
    <2> QED
      BY <1>2, <2>1 DEF RingOK, Slots, Pointers, Items
  <1> QED
    BY <1>1, <1>2

(* A sequence is known by its length and its elements. *)
LEMMA SeqIsFunction ==
    ASSUME NEW s \in Seq(Pointers), NEW n \in Nat, Len(s) = n
    PROVE  s = [i \in 1 .. n |-> s[i]]
  BY LenProperties

-----------------------------------------------------------------------------
(* One lemma per operation on the ring. *)

LEMMA PushFrontStep ==
    ASSUME IInv, NEW w \in Works, PushFront(w)
    PROVE  IInv' /\ Abstract!AddFront(w)
  <1> DEFINE size == queue_size
             f == IF front = 0 THEN size - 1 ELSE front - 1
             q == [queue EXCEPT ![f] = w]
             n == Held(front, back, size)
             s == <<w>> \o Items
  <1>1. size \in Nat /\ size >= 2 /\ front \in 0 .. size - 1 /\ back \in 0 .. size - 1
    BY DEF IInv, RingOK, Slots
  <1>2. f \in Slots /\ back \in Slots
    BY <1>1 DEF Slots
  <1>3. q \in [Slots -> Pointers]
    BY <1>2 DEF IInv, RingOK, Pointers
  <1>4. Store(q, f, back) /\ UNCHANGED <<last, popped, finished>>
    BY DEF PushFront
  <1>5. n \in Nat /\ (IF f = back THEN size ELSE Held(f, back, size)) = n + 1
    BY <1>1 DEF Held
  <1>6. /\ RingOK'
        /\ Items' = [i \in 1 .. n + 1 |-> q[Slot(f, i - 1, size)]]
    <2> HIDE DEF f, q, n
    <2>1. /\ RingOK'
          /\ Items' = [i \in 1 .. IF f = back THEN queue_size
                                  ELSE Held(f, back, queue_size) |->
                         q[Slot(f, i - 1, queue_size)]]
      BY <1>2, <1>3, <1>4, StoreItems DEF IInv
    <2> QED
      BY <1>5, <2>1
  <1>7. /\ Items \in Seq(Pointers) /\ Len(Items) = n
        /\ \A i \in 1 .. n : Items[i] = queue[Slot(front, i - 1, size)]
    BY ItemsSeq DEF IInv
  <1>8. <<w>> \in Seq(Pointers) /\ Len(<<w>>) = 1 /\ <<w>>[1] = w
    BY DEF Pointers
  <1>9. /\ s \in Seq(Pointers) /\ Len(s) = n + 1
        /\ \A i \in 1 .. n + 1 : s[i] = IF i = 1 THEN w ELSE Items[i - 1]
    <2> HIDE DEF n
    <2>1. /\ s \in Seq(Pointers) /\ Len(s) = 1 + n
          /\ \A i \in 1 .. 1 + n : s[i] = IF i <= 1 THEN <<w>>[i] ELSE Items[i - 1]
      BY <1>7, <1>8, ConcatProperties
    <2> HIDE DEF s
    <2> QED
      BY <2>1, <1>5, <1>8
  <1>10. \A i \in 1 .. n + 1 : q[Slot(f, i - 1, size)] = s[i]
    <2> SUFFICES ASSUME NEW i \in 1 .. n + 1
                 PROVE  q[Slot(f, i - 1, size)] = s[i]
      OBVIOUS
    <2>1. CASE i = 1
      <3>1. Slot(f, i - 1, size) = f
        BY <1>1, <2>1 DEF Slot
      <3> QED
        BY <1>2, <1>9, <2>1, <3>1 DEF IInv, RingOK
    <2>2. CASE i # 1
      <3>1. i - 1 \in 1 .. n /\ s[i] = queue[Slot(front, i - 2, size)]
        <4>1. i - 1 \in 1 .. n
          BY <1>5, <2>2
        <4>2. Items[i - 1] = queue[Slot(front, (i - 1) - 1, size)]
          BY <1>7, <4>1
        <4>3. (i - 1) - 1 = i - 2
          BY <4>1
        <4> QED
          BY <1>9, <2>2, <4>1, <4>2, <4>3
      <3>2. n < size
        BY <1>1 DEF Held
      <3>3. /\ Slot(f, i - 1, size) = Slot(front, i - 2, size)
            /\ Slot(f, i - 1, size) # f
            /\ Slot(f, i - 1, size) \in Slots
        <4> HIDE DEF n
        <4> QED
          BY <1>1, <1>5, <2>2, <3>2 DEF Slot, Slots
      <3> QED
        BY <3>1, <3>3 DEF IInv, RingOK
    <2> QED
      BY <2>1, <2>2
  <1>11. Items' = s
    <2> HIDE DEF n, s, f, q
    <2>1. s = [i \in 1 .. n + 1 |-> s[i]]
      BY <1>5, <1>9, SeqIsFunction
    <2> QED
      BY <1>6, <1>10, <2>1
  <1> QED
    BY <1>4, <1>6, <1>11 DEF IInv, LastOK, Pointers, Abstract!AddFront

LEMMA PushBackStep ==
    ASSUME IInv, NEW w \in Works, PushBack(w)
    PROVE  IInv' /\ Abstract!AddBack(w)
  <1> DEFINE size == queue_size
             b == IF back + 1 = size THEN 0 ELSE back + 1
             q == [queue EXCEPT ![back] = w]
             n == Held(front, back, size)
             s == Append(Items, w)
  <1>1. size \in Nat /\ size >= 2 /\ front \in 0 .. size - 1 /\ back \in 0 .. size - 1
    BY DEF IInv, RingOK, Slots
  <1>2. b \in Slots /\ front \in Slots /\ back \in Slots
    BY <1>1 DEF Slots
  <1>3. q \in [Slots -> Pointers]
    BY <1>2 DEF IInv, RingOK, Pointers
  <1>4. Store(q, front, b) /\ UNCHANGED <<last, popped, finished>>
    BY DEF PushBack
  <1>5. n \in Nat /\ (IF front = b THEN size ELSE Held(front, b, size)) = n + 1
    BY <1>1 DEF Held
  <1>6. /\ RingOK'
        /\ Items' = [i \in 1 .. n + 1 |-> q[Slot(front, i - 1, size)]]
    <2> HIDE DEF b, q, n
    <2> QED
      BY <1>1, <1>2, <1>3, <1>4, <1>5, StoreItems DEF IInv, Slots
  <1>7. /\ Items \in Seq(Pointers) /\ Len(Items) = n
        /\ \A i \in 1 .. n : Items[i] = queue[Slot(front, i - 1, size)]
    BY ItemsSeq DEF IInv
  <1>9. /\ s \in Seq(Pointers) /\ Len(s) = n + 1
        /\ \A i \in 1 .. n + 1 : s[i] = IF i = n + 1 THEN w ELSE Items[i]
    <2> HIDE DEF n
    <2> QED
      BY <1>5, <1>7, AppendProperties DEF Pointers
  <1>10. \A i \in 1 .. n + 1 : q[Slot(front, i - 1, size)] = s[i]
    <2> SUFFICES ASSUME NEW i \in 1 .. n + 1
                 PROVE  q[Slot(front, i - 1, size)] = s[i]
      OBVIOUS
    <2>0. n < size
      BY <1>1 DEF Held
    <2>1. CASE i = n + 1
      <3>1. Slot(front, i - 1, size) = back
        BY <1>1, <2>1 DEF Slot, Held
      <3> QED
        BY <1>2, <1>9, <2>1, <3>1 DEF IInv, RingOK
    <2>2. CASE i # n + 1
      <3>1. i \in 1 .. n /\ s[i] = queue[Slot(front, i - 1, size)]
        <4>1. i \in 1 .. n
          BY <1>5, <2>2
        <4> QED
          BY <1>7, <1>9, <2>2, <4>1
      <3>2. /\ Slot(front, i - 1, size) # back
            /\ Slot(front, i - 1, size) \in Slots
        BY <1>1, <3>1 DEF Slot, Slots, Held
      <3> QED
        BY <3>1, <3>2 DEF IInv, RingOK
    <2> QED
      BY <2>1, <2>2
  <1>11. Items' = s
    <2> HIDE DEF n, s, b, q
    <2>1. s = [i \in 1 .. n + 1 |-> s[i]]
      BY <1>5, <1>9, SeqIsFunction
    <2> QED
      BY <1>6, <1>10, <2>1
  <1> QED
    BY <1>4, <1>6, <1>11 DEF IInv, LastOK, Pointers, Abstract!AddBack

LEMMA PopTaskStep ==
    ASSUME IInv, PopTask
    PROVE  IInv' /\ Abstract!Take
  <1> DEFINE size == queue_size
             n == Held(front, back, size)
             s == Tail(Items)
  <1>1. size \in Nat /\ size >= 2 /\ front \in 0 .. size - 1 /\ back \in 0 .. size - 1
    BY DEF IInv, RingOK, Slots
  <1>2. /\ front # back /\ popped' = queue[front]
        /\ front' = (IF front + 1 = size THEN 0 ELSE front + 1)
        /\ queue' = queue /\ queue_size' = queue_size /\ back' = back
        /\ UNCHANGED <<last, finished, doublings>>
    BY DEF PopTask
  <1>3. RingOK'
    BY <1>1, <1>2 DEF IInv, RingOK, Slots
  <1>4. n \in Nat /\ n >= 1 /\ Held(front', back', queue_size') = n - 1
    BY <1>1, <1>2 DEF Held
  <1>5. /\ Items \in Seq(Pointers) /\ Len(Items) = n
        /\ \A i \in 1 .. n : Items[i] = queue[Slot(front, i - 1, size)]
    BY ItemsSeq DEF IInv
  <1>6. Items # <<>>
    BY <1>4, <1>5
  <1>7. Head(Items) = queue[front]
    <2>1. Slot(front, 0, size) = front
      BY <1>1 DEF Slot
    <2> QED
      BY <1>4, <1>5, <1>6, <2>1
  <1>8. /\ s \in Seq(Pointers) /\ Len(s) = n - 1
        /\ \A i \in 1 .. n - 1 : s[i] = Items[i + 1]
    <2> HIDE DEF n
    <2> QED
      BY <1>5, <1>6, HeadTailProperties
  <1>9. \A i \in 1 .. n - 1 : queue'[Slot(front', i - 1, queue_size')] = s[i]
    <2> SUFFICES ASSUME NEW i \in 1 .. n - 1
                 PROVE  queue'[Slot(front', i - 1, queue_size')] = s[i]
      OBVIOUS
    <2>1. i + 1 \in 1 .. n /\ (i + 1) - 1 = i
      BY <1>4
    <2>2. s[i] = queue[Slot(front, i, size)]
      BY <1>5, <1>8, <2>1
    <2>3. Slot(front', i - 1, queue_size') = Slot(front, i, size)
      BY <1>1, <1>2, <1>4 DEF Slot, Held
    <2> QED
      BY <1>2, <2>2, <2>3
  <1>10. Items' = [i \in 1 .. n - 1 |-> queue'[Slot(front', i - 1, queue_size')]]
    BY <1>4 DEF Items
  <1>11. Items' = s
    <2> HIDE DEF n, s
    <2>1. s = [i \in 1 .. n - 1 |-> s[i]]
      BY <1>4, <1>8, SeqIsFunction
    <2> QED
      BY <1>9, <1>10, <2>1
  <1>12. popped' \in Pointers
    BY <1>1, <1>2 DEF IInv, RingOK, Slots
  <1> QED
    BY <1>2, <1>3, <1>6, <1>7, <1>11, <1>12 DEF IInv, LastOK, Pointers, Abstract!Take

LEMMA LastStep ==
    ASSUME IInv, PopLast \/ UnsetLastTask \/ \E w \in Works : SetLastTask(w)
    PROVE  IInv' /\ Abstract!DequeNext
  <1>1. UNCHANGED ring /\ doublings' = doublings
    BY DEF PopLast, UnsetLastTask, SetLastTask
  <1>2. RingOK' /\ Items' = Items
    BY <1>1 DEF ring, IInv, RingOK, Slots, Pointers, Items
  <1>3. CASE PopLast
    <2>1. Len(Items) = 0 /\ Items \in Seq(Pointers)
      BY <1>3, ItemsSeq DEF PopLast, Held, IInv, RingOK, Slots
    <2>2. Items = <<>>
      BY <2>1, EmptySeq
    <2> QED
      BY <1>2, <1>3, <2>2 DEF PopLast, IInv, LastOK, Pointers, Abstract!DequeNext, Abstract!TakeFinal
  <1>4. CASE UnsetLastTask
    BY <1>2, <1>4 DEF UnsetLastTask, IInv, LastOK, Pointers, Abstract!DequeNext, Abstract!SetFinal
  <1>5. ASSUME NEW w \in Works, SetLastTask(w)
        PROVE  IInv' /\ Abstract!DequeNext
    BY <1>2, <1>5 DEF SetLastTask, IInv, LastOK, Pointers, Abstract!DequeNext, Abstract!SetFinal
  <1> QED
    BY <1>3, <1>4, <1>5

-----------------------------------------------------------------------------

LEMMA InitIInv == Init => IInv /\ Abstract!DequeInit
  <1> SUFFICES ASSUME Init PROVE IInv /\ Abstract!DequeInit
    OBVIOUS
  <1>1. IInv
    <2>1. BufSize \in Nat /\ BufSize >= 2
      BY SizeAssumption
    <2>2. [i \in 0 .. BufSize - 1 |-> None] \in [0 .. BufSize - 1 -> Pointers]
      BY DEF Pointers
    <2>3. RingOK
      BY <2>1, <2>2 DEF Init, RingOK, Slots
    <2>4. LastOK
      BY DEF Init, LastOK, Pointers
    <2> QED
      BY <2>3, <2>4 DEF IInv
  <1>2. Len(Items) = 0 /\ Items \in Seq(Pointers)
    BY <1>1, ItemsSeq, SizeAssumption DEF Init, Held, IInv
  <1>3. Items = <<>>
    BY <1>2, EmptySeq
  <1> QED
    BY <1>1, <1>3 DEF Init, Abstract!DequeInit

LEMMA NextStep == IInv /\ [Next]_vars => IInv' /\ [Abstract!DequeNext]_(Abstract!dequeVars)
  <1>1. ASSUME IInv, Next
        PROVE  IInv' /\ Abstract!DequeNext
    BY <1>1, PushFrontStep, PushBackStep, PopTaskStep, LastStep DEF Next, Abstract!DequeNext
  <1>2. ASSUME IInv, UNCHANGED vars
        PROVE  IInv' /\ UNCHANGED Abstract!dequeVars
    BY <1>2 DEF vars, ring, IInv, RingOK, LastOK, Slots, Pointers, Items, Abstract!dequeVars
  <1> QED
    BY <1>1, <1>2

(* The ends stay inside the ring and every slot holds a pointer, through   *)
(* pushes at both ends, wrap-arounds and expansions (Workflow.cc:44-94).   *)
THEOREM RingInvariant == Spec => []IInv
  BY InitIInv, NextStep, PTL DEF Spec

(* A series gives its works back as a double-ended queue would, and its    *)
(* last task after them, whatever the size of the ring and however often   *)
(* it is expanded (Workflow.h:65-66, Workflow.cc:44-143).                  *)
THEOREM Refinement == Spec => ImplementsDeque
  BY InitIInv, NextStep, RingInvariant, PTL DEF Spec, ImplementsDeque, Abstract!DequeSpec

=============================================================================
