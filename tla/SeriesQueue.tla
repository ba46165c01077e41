----------------------------- MODULE SeriesQueue -----------------------------
(***************************************************************************)
(* factory/Workflow.cc:26-143: the queue of a SeriesWork, a ring buffer    *)
(* that starts in the object and doubles when front meets back, and the    *)
(* last task that is given out when the ring is empty.  The operations on  *)
(* the ring hold the mutex; set_last_task is one store.  A slot that was   *)
(* never written, or was left behind, keeps what it holds; nothing reads   *)
(* it before it is written.                                                *)
(***************************************************************************)
EXTENDS Integers, Sequences

CONSTANTS Works,       \* the works that may be pushed
          None,        \* NULL
          BufSize,     \* the number of pointers in buf
          MaxDoublings \* bound: how often the ring grows

ASSUME SizeAssumption == BufSize \in Nat \ {0, 1} /\ MaxDoublings \in Nat
ASSUME NoneAssumption == None \notin Works

VARIABLES queue,       \* slot i of the ring, counted from 0
          queue_size, front, back,
          last,
          popped,      \* what pop_task returned last
          finished,
          doublings    \* how often the ring has grown

ring == <<queue, queue_size, front, back>>
vars == <<ring, last, popped, finished, doublings>>

Init ==
    /\ queue = [i \in 0 .. BufSize - 1 |-> None]
    /\ queue_size = BufSize
    /\ front = 0
    /\ back = 0
    /\ last = None
    /\ popped = None
    /\ finished = FALSE
    /\ doublings = 0

(* How many works a ring holds that is not full, and where the i-th is.    *)
Held(f, b, size) == IF f <= b THEN b - f ELSE b - f + size
Slot(f, i, size) == IF f + i < size THEN f + i ELSE f + i - size

UpToTheEnd(q, f, size) ==                \* mutant: does not wrap around
    [i \in 0 .. 2 * size - 1 |->
        IF i < size /\ f + i < size THEN q[f + i] ELSE None]

(* expand_queue on a full ring q: its works from the front on are copied   *)
(* to the beginning of one twice as large.                                 *)
Expanded(q, f, size) ==
    [i \in 0 .. 2 * size - 1 |-> IF i < size THEN q[Slot(f, i, size)] ELSE None]

(* The end of both pushes: q holds the new work, f and b are the new ends. *)
Store(q, f, b) ==
    IF f = b
    THEN /\ doublings < MaxDoublings
         /\ doublings' = doublings + 1
         /\ queue' = Expanded(q, f, queue_size)
         /\ queue_size' = 2 * queue_size
         /\ front' = 0
         /\ back' = queue_size
    ELSE /\ queue' = q
         /\ front' = f
         /\ back' = b
         /\ UNCHANGED <<queue_size, doublings>>

(* A finished series is deleted, or will be, and gets no more works.       *)
PushFront(w) ==
    /\ ~finished
    /\ LET f == IF front = 0 THEN queue_size - 1 ELSE front - 1
       IN Store([queue EXCEPT ![f] = w], f, back)
    /\ UNCHANGED <<last, popped, finished>>

PushBack(w) ==
    /\ ~finished
    /\ LET b == IF back + 1 = queue_size THEN 0 ELSE back + 1
       IN Store([queue EXCEPT ![back] = w], front, b)
    /\ UNCHANGED <<last, popped, finished>>

SetLastTask(w) ==
    /\ ~finished
    /\ last' = w
    /\ UNCHANGED <<ring, popped, finished, doublings>>

UnsetLastTask ==
    /\ ~finished
    /\ last' = None
    /\ UNCHANGED <<ring, popped, finished, doublings>>

PopTask ==
    /\ ~finished
    /\ front # back
    /\ popped' = queue[front]
    /\ front' = IF front + 1 = queue_size THEN 0 ELSE front + 1
    /\ UNCHANGED <<queue, queue_size, back, last, finished, doublings>>

PopLast ==
    /\ ~finished
    /\ front = back
    /\ popped' = last
    /\ last' = None
    /\ finished' = (last = None)
    /\ UNCHANGED <<ring, doublings>>

Next ==
    \/ \E w \in Works : PushFront(w) \/ PushBack(w) \/ SetLastTask(w)
    \/ UnsetLastTask
    \/ PopTask
    \/ PopLast

Spec == Init /\ [][Next]_vars

-----------------------------------------------------------------------------
(* Two ends that meet mean an empty ring, never a full one: a ring that    *)
(* became full has been expanded before the mutex is released.             *)
Items ==
    [i \in 1 .. Held(front, back, queue_size) |->
        queue[Slot(front, i - 1, queue_size)]]

(* Workflow.h:65-66: whatever the sequence of pushes at both ends, pops    *)
(* and expansions (Workflow.cc:44-94, 113-143), the series gets its works  *)
(* back in the order of a double-ended queue, none lost or stale.          *)
Abstract == INSTANCE Deque
                WITH items <- Items, final <- last, taken <- popped,
                     over <- finished

ImplementsDeque == Abstract!DequeSpec

=============================================================================
