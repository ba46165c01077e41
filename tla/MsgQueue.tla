------------------------------ MODULE MsgQueue ------------------------------
(***************************************************************************)
(* common/msgqueue.c: the two-list message queue between the poller        *)
(* threads and the handler threads (Communicator) and under the thread     *)
(* pool.  Producers append to one intrusive list under put_mutex;          *)
(* consumers pop the other one under get_mutex and exchange the two lists  *)
(* when theirs is empty.                                                   *)
(*                                                                         *)
(* put_mutex is never held from one action to the next: each critical      *)
(* section reads the one word written outside of it (nonblock) once, so it *)
(* is an atomic action.  A thread inside pthread_cond_wait has released    *)
(* put_mutex; being woken (by a signal or spuriously) puts it back where   *)
(* it competes for the mutex and tests its condition again.                *)
(***************************************************************************)
EXTENDS Integers, Sequences

CONSTANTS Producers,    \* threads that call msgqueue_put
          Consumers,    \* threads that call msgqueue_get until it gives NULL
          MaxLen,       \* msgqueue_create's maxlen
          SizeMax,      \* the largest size_t
          MaxPuts,      \* bound: calls of msgqueue_put by each producer
          MaxSwitches,  \* bound: calls of msgqueue_set_nonblock
          NoMessage     \* no message was received yet

ASSUME ConstantsAssumption ==
    /\ SizeMax \in Nat
    /\ MaxLen \in 0 .. SizeMax
    /\ MaxPuts \in Nat
    /\ MaxSwitches \in Nat
    /\ Producers \cap Consumers = {}

VARIABLES chain,        \* the messages linked from head1 and from head2
          get_head,     \* which of the two heads the consumers pop
          put_head,     \* which of the two heads the producers extend
          put_tail,     \* the head of the list that *put_tail ends
          spare_head,   \* __msgqueue_swap's local copy of the old get_head
          msg_cnt,
          nonblock,
          get_mutex,    \* the consumer that holds get_mutex, as a set
          pc,           \* where each thread is
          sent,         \* the messages each producer has begun to put
          received,     \* the message each consumer popped last
          switches,     \* calls of msgqueue_set_nonblock so far
          unbounded     \* the queue has been nonblocking at some time

vars == <<chain, get_head, put_head, put_tail, spare_head, msg_cnt, nonblock,
          get_mutex, pc, sent, received, switches, unbounded>>

Controller == "controller"   \* the thread that switches the mode
ASSUME ControllerAssumption == Controller \notin Producers \cup Consumers
Threads == Producers \cup Consumers \cup {Controller}
Heads == {1, 2}
Message == Producers \X (0 .. MaxPuts)

(* msg_max - 1 is computed in size_t: a queue created with maxlen 0 has no *)
(* limit.                                                                  *)
Limit == IF MaxLen = 0 THEN SizeMax ELSE MaxLen - 1
FullInclusive(n) == n > Limit + 1        \* mutant: >= became >
Full(n) == n > Limit

Init ==
    /\ chain = [h \in Heads |-> <<>>]
    /\ get_head = 1
    /\ put_head = 2
    /\ put_tail = 2
    /\ spare_head = 1
    /\ msg_cnt = 0
    /\ nonblock = FALSE
    /\ get_mutex = {}
    /\ pc = [t \in Threads |-> "idle"]
    /\ sent = [p \in Producers |-> 0]
    /\ received = [c \in Consumers |-> NoMessage]
    /\ switches = 0
    /\ unbounded = FALSE

PutCondSignal(f) ==                      \* mutant: wakes a single producer
    IF \E p \in Producers : f[p] = "wait"
    THEN [f EXCEPT ![CHOOSE p \in Producers : f[p] = "wait"] = "put"]
    ELSE f

(* pthread_cond_broadcast(&put_cond): every waiting producer competes for  *)
(* put_mutex again.                                                        *)
PutCondBroadcast(f) ==
    [t \in Threads |-> IF t \in Producers /\ f[t] = "wait" THEN "put" ELSE f[t]]

GetWaiters == {c \in Consumers : pc[c] = "wait"}

SignalForgotten(f, g) == g = f           \* mutant

(* pthread_cond_signal(&get_cond): one waiting consumer, if there is one,  *)
(* competes for put_mutex again; f becomes g.                              *)
GetCondSignal(f, g) ==
    \/ GetWaiters = {} /\ g = f
    \/ \E c \in GetWaiters : g = [f EXCEPT ![c] = "swap"]

-----------------------------------------------------------------------------
(* msgqueue_put *)

PutCall(p) ==
    /\ pc[p] = "idle"
    /\ sent[p] < MaxPuts
    /\ sent' = [sent EXCEPT ![p] = @ + 1]
    /\ pc' = [pc EXCEPT ![p] = "put"]
    /\ UNCHANGED <<chain, get_head, put_head, put_tail, spare_head, msg_cnt,
                   nonblock, get_mutex, received, switches, unbounded>>

PutWait(p) ==
    /\ pc[p] = "put"
    /\ Full(msg_cnt) /\ ~nonblock
    /\ pc' = [pc EXCEPT ![p] = "wait"]
    /\ UNCHANGED <<chain, get_head, put_head, put_tail, spare_head, msg_cnt,
                   nonblock, get_mutex, sent, received, switches, unbounded>>

PutAppend(p) ==
    /\ pc[p] = "put"
    /\ ~Full(msg_cnt) \/ nonblock
    /\ chain' = [chain EXCEPT ![put_tail] = Append(@, <<p, sent[p]>>)]
    /\ msg_cnt' = msg_cnt + 1
    /\ pc' = [pc EXCEPT ![p] = "signal"]
    /\ UNCHANGED <<get_head, put_head, put_tail, spare_head, nonblock, get_mutex,
                   sent, received, switches, unbounded>>

(* put_mutex has been released before the signal. *)
PutSignal(p) ==
    /\ pc[p] = "signal"
    /\ GetCondSignal([pc EXCEPT ![p] = "idle"], pc')
    /\ UNCHANGED <<chain, get_head, put_head, put_tail, spare_head, msg_cnt,
                   nonblock, get_mutex, sent, received, switches, unbounded>>

-----------------------------------------------------------------------------
(* msgqueue_get *)

GetMutexFree == get_mutex = {}

(* Takes get_mutex and finds a message in the consumers' list. *)
GetNonempty(c) ==
    /\ pc[c] = "idle"
    /\ GetMutexFree
    /\ chain[get_head] # <<>>
    /\ get_mutex' = {c}
    /\ pc' = [pc EXCEPT ![c] = "pop"]
    /\ UNCHANGED <<chain, get_head, put_head, put_tail, spare_head, msg_cnt,
                   nonblock, sent, received, switches, unbounded>>

(* Takes get_mutex, finds the consumers' list empty and enters             *)
(* __msgqueue_swap, which redirects get_head before it has put_mutex.      *)
GetEmpty(c) ==
    /\ pc[c] = "idle"
    /\ GetMutexFree
    /\ chain[get_head] = <<>>
    /\ get_mutex' = {c}
    /\ spare_head' = get_head
    /\ get_head' = put_head
    /\ pc' = [pc EXCEPT ![c] = "swap"]
    /\ UNCHANGED <<chain, put_head, put_tail, msg_cnt, nonblock, sent, received,
                   switches, unbounded>>

(* What the loop and the return value of __msgqueue_swap depend on.        *)
MustWait == msg_cnt = 0 /\ ~nonblock
NonblockOnly == nonblock                 \* mutant: gives up without looking
NothingToGet == msg_cnt = 0 /\ nonblock

SwapWait(c) ==
    /\ pc[c] = "swap"
    /\ MustWait
    /\ pc' = [pc EXCEPT ![c] = "wait"]
    /\ UNCHANGED <<chain, get_head, put_head, put_tail, spare_head, msg_cnt,
                   nonblock, get_mutex, sent, received, switches, unbounded>>

(* The rest of __msgqueue_swap: wakes the producers if the list was full   *)
(* and gives them the consumers' old, empty list.                          *)
Exchange ==
    /\ put_head' = spare_head
    /\ put_tail' = spare_head
    /\ msg_cnt' = 0

SwapFilled(c) ==
    /\ pc[c] = "swap"
    /\ msg_cnt > 0
    /\ Exchange
    /\ LET next == [pc EXCEPT ![c] = "pop"]
       IN pc' = IF Full(msg_cnt) THEN PutCondBroadcast(next) ELSE next
    /\ UNCHANGED <<chain, get_head, spare_head, nonblock, get_mutex, sent,
                   received, switches, unbounded>>

(* A nonblocking queue with nothing in it: msgqueue_get returns NULL, and  *)
(* its callers (thrdpool.c:38, Communicator.cc:937) call it no more.       *)
SwapEmpty(c) ==
    /\ pc[c] = "swap"
    /\ NothingToGet
    /\ Exchange
    /\ get_mutex' = {}
    /\ pc' = [pc EXCEPT ![c] = "done"]
    /\ UNCHANGED <<chain, get_head, spare_head, nonblock, sent, received,
                   switches, unbounded>>

GetPop(c) ==
    /\ pc[c] = "pop"
    /\ received' = [received EXCEPT ![c] = Head(chain[get_head])]
    /\ chain' = [chain EXCEPT ![get_head] = Tail(@)]
    /\ get_mutex' = {}
    /\ pc' = [pc EXCEPT ![c] = "idle"]
    /\ UNCHANGED <<get_head, put_head, put_tail, spare_head, msg_cnt, nonblock,
                   sent, switches, unbounded>>

-----------------------------------------------------------------------------
(* The mode *)

(* msgqueue_set_nonblock writes nonblock before it takes put_mutex ... *)
SetNonblock ==
    /\ pc[Controller] = "idle"
    /\ switches < MaxSwitches
    /\ switches' = switches + 1
    /\ nonblock' = TRUE
    /\ unbounded' = TRUE
    /\ pc' = [pc EXCEPT ![Controller] = "wake"]
    /\ UNCHANGED <<chain, get_head, put_head, put_tail, spare_head, msg_cnt,
                   get_mutex, sent, received>>

WakeProducersOnly ==                     \* mutant: get_cond is not signalled
    /\ pc[Controller] = "wake"
    /\ pc' = PutCondBroadcast([pc EXCEPT ![Controller] = "idle"])
    /\ UNCHANGED <<chain, get_head, put_head, put_tail, spare_head, msg_cnt,
                   nonblock, get_mutex, sent, received, switches, unbounded>>

(* ... and then wakes one consumer and every producer. *)
SetNonblockWake ==
    /\ pc[Controller] = "wake"
    /\ GetCondSignal(PutCondBroadcast([pc EXCEPT ![Controller] = "idle"]), pc')
    /\ UNCHANGED <<chain, get_head, put_head, put_tail, spare_head, msg_cnt,
                   nonblock, get_mutex, sent, received, switches, unbounded>>

SetBlock ==
    /\ pc[Controller] = "idle"
    /\ nonblock
    /\ nonblock' = FALSE
    /\ UNCHANGED <<chain, get_head, put_head, put_tail, spare_head, msg_cnt,
                   get_mutex, pc, sent, received, switches, unbounded>>

(* pthread_cond_wait may return without a signal. *)
SpuriousWakeup(t) ==
    /\ t \in Producers \cup Consumers
    /\ pc[t] = "wait"
    /\ pc' = [pc EXCEPT ![t] = IF t \in Producers THEN "put" ELSE "swap"]
    /\ UNCHANGED <<chain, get_head, put_head, put_tail, spare_head, msg_cnt,
                   nonblock, get_mutex, sent, received, switches, unbounded>>

-----------------------------------------------------------------------------

Put(p) == PutCall(p) \/ PutWait(p) \/ PutAppend(p) \/ PutSignal(p)

Get(c) ==
    \/ GetNonempty(c) \/ GetEmpty(c) \/ GetPop(c)
    \/ SwapWait(c) \/ SwapFilled(c) \/ SwapEmpty(c)

Next ==
    \/ \E p \in Producers : Put(p)
    \/ \E c \in Consumers : Get(c)
    \/ SetNonblock
    \/ SetNonblockWake
    \/ SetBlock
    \/ \E t \in Threads : SpuriousWakeup(t)

(* A producer inside msgqueue_put and a consumer inside msgqueue_get (or   *)
(* between two of its calls, which its loop makes again and again) run on, *)
(* and msgqueue_set_nonblock once begun completes.  Nobody is obliged to   *)
(* put a message or to switch the mode, and no wakeup is spurious forever. *)
Fairness ==
    /\ \A p \in Producers : WF_vars(PutWait(p) \/ PutAppend(p) \/ PutSignal(p))
    /\ \A c \in Consumers : WF_vars(Get(c))
    /\ WF_vars(SetNonblockWake)

Spec == Init /\ [][Next]_vars /\ Fairness

-----------------------------------------------------------------------------
(* The type of every variable; at most one consumer is in the part of      *)
(* msgqueue_get that get_mutex protects (msgqueue.c:88-100).               *)
TypeOK ==
    /\ chain \in [Heads -> Seq(Message)]
    /\ get_head \in Heads
    /\ put_head \in Heads
    /\ put_tail \in Heads
    /\ spare_head \in Heads
    /\ msg_cnt \in Nat
    /\ nonblock \in BOOLEAN
    /\ get_mutex \in SUBSET Consumers
    /\ pc \in [Threads -> {"idle", "put", "signal", "swap", "wait", "pop",
                           "done", "wake"}]
    /\ sent \in [Producers -> 0 .. MaxPuts]
    /\ received \in [Consumers -> Message \cup {NoMessage}]
    /\ switches \in Nat
    /\ unbounded \in BOOLEAN
    /\ get_mutex = {c \in Consumers : pc[c] \in {"swap", "wait", "pop"}}
    /\ \A c, d \in get_mutex : c = d

(* The messages pending, the oldest first: what is left of the consumers'  *)
(* list, then the producers'.  While a consumer is inside __msgqueue_swap  *)
(* the two heads coincide and the consumers' list is known to be empty.    *)
Pending ==
    IF get_head = put_head THEN chain[put_head]
    ELSE chain[get_head] \o chain[put_head]

(* msgqueue.h:13: the max pending messages may reach two times maxlen when *)
(* the queue is in blocking mode: a producer is held back by its own list  *)
(* only (msgqueue.c:74), and the list handed over at once may be as long.  *)
PendingBound ==
    (~unbounded /\ MaxLen > 0) => Len(Pending) <= 2 * MaxLen

(* No consumer sleeps on get_cond (msgqueue.c:55) with a message in the    *)
(* queue or the queue nonblocking unless a signal is on its way: the       *)
(* signal of msgqueue_put is sent after the unlock, and the one            *)
(* of msgqueue_set_nonblock long after the store.                          *)
NoLostGetWakeup ==
    (GetWaiters # {} /\ (msg_cnt > 0 \/ nonblock)) =>
        \/ \E p \in Producers : pc[p] = "signal"
        \/ pc[Controller] = "wake"

(* No producer sleeps on put_cond (msgqueue.c:75) beside a list that has   *)
(* room: __msgqueue_swap broadcasts only if it found the list full, which  *)
(* is enough because a list only ever gets room by being handed over.      *)
NoLostPutWakeup ==
    (\E p \in Producers : pc[p] = "wait") =>
        /\ Full(msg_cnt)
        /\ nonblock => pc[Controller] = "wake"

(* The two-list queue does what one bounded queue would: nothing is lost,  *)
(* duplicated or reordered however the list exchange is interleaved with   *)
(* appends and pops (msgqueue.c:47-102).                                   *)
Fifo == INSTANCE FifoQueue
            WITH queue <- Pending,
                 ended <- {c \in Consumers : pc[c] = "done"},
                 blocking <- ~unbounded,
                 Messages <- Message,
                 Capacity <- 2 * (Limit + 1)

ImplementsFifo == Fifo!FifoSpec

InQueue(m) == \E i \in DOMAIN Pending : Pending[i] = m
AllEnded == \A c \in Consumers : pc[c] = "done"

(* Whatever is put is taken, unless every consumer has been sent away.     *)
EveryMessageTaken ==
    \A p \in Producers, n \in 1 .. MaxPuts :
        InQueue(<<p, n>>) ~> (~InQueue(<<p, n>>) \/ AllEnded)

(* Communicator::deinit and thrdpool_destroy rely on it: once the queue is *)
(* nonblocking for good, every producer comes out of msgqueue_put and      *)
(* every consumer ends with NULL (msgqueue.c:33-40).                       *)
NonblockReleasesAll ==
    <>[]nonblock =>
        <>[](AllEnded /\ \A p \in Producers : pc[p] = "idle")

=============================================================================
