--------------------------- MODULE MsgQueueProofs ---------------------------
(***************************************************************************)
(* Proofs about MsgQueue, for any number of producers and consumers, any   *)
(* maxlen and any number of calls.                                         *)
(***************************************************************************)
EXTENDS MsgQueue, SequenceTheorems, TLAPS

(* Which program counters belong to which kind of thread. *)
PcOK ==
    /\ \A p \in Producers : pc[p] \in {"idle", "put", "wait", "signal"}
    /\ \A c \in Consumers : pc[c] \in {"idle", "swap", "wait", "pop", "done"}
    /\ pc[Controller] \in {"idle", "wake"}

(* The two heads are exchanged as a pair: they coincide only while a       *)
(* consumer is inside __msgqueue_swap, and then the list it brought is     *)
(* empty, which is why the producers can be given it.                      *)
HeadsOK ==
    /\ put_tail = put_head
    /\ get_mutex = {} => get_head # put_head
    /\ \A c \in Consumers :
          /\ pc[c] \in {"swap", "wait"} =>
                get_head = put_head /\ spare_head # put_head /\ chain[spare_head] = <<>>
          /\ pc[c] = "pop" => get_head # put_head /\ chain[get_head] # <<>>

(* The producers' counter is the length of the producers' list. *)
CountOK == msg_cnt = Len(chain[put_head])

(* Until the queue is made nonblocking, no list is longer than msg_max. *)
LengthOK ==
    ~unbounded => /\ ~nonblock
                  /\ \A h \in Heads : Len(chain[h]) <= Limit + 1

IInv ==
    /\ TypeOK
    /\ PcOK
    /\ HeadsOK
    /\ CountOK
    /\ LengthOK
    /\ NoLostGetWakeup
    /\ NoLostPutWakeup

-----------------------------------------------------------------------------

LEMMA LimitType == Limit \in Nat
  BY ConstantsAssumption DEF Limit

LEMMA ThreadKinds ==
    /\ Controller \in Threads
    /\ \A p \in Producers : p \in Threads /\ p # Controller /\ p \notin Consumers
    /\ \A c \in Consumers : c \in Threads /\ c # Controller /\ c \notin Producers
  BY ConstantsAssumption, ControllerAssumption DEF Threads

LEMMA InitIInv == Init => IInv
  <1> SUFFICES ASSUME Init PROVE IInv
    OBVIOUS
  <1>1. TypeOK
    <2>1. chain \in [Heads -> Seq(Message)]
      BY EmptySeq DEF Init
    <2>2. /\ {get_head, put_head, put_tail, spare_head} \subseteq Heads
          /\ pc \in [Threads -> {"idle", "put", "signal", "swap", "wait", "pop",
                                 "done", "wake"}]
          /\ received \in [Consumers -> Message \cup {NoMessage}]
      BY DEF Init, Heads
    <2>3. sent \in [Producers -> 0 .. MaxPuts]
      BY ConstantsAssumption DEF Init
    <2>4. get_mutex = {c \in Consumers : pc[c] \in {"swap", "wait", "pop"}}
      BY ThreadKinds DEF Init
    <2> QED
      BY <2>1, <2>2, <2>3, <2>4 DEF Init, TypeOK
  <1>2. PcOK /\ HeadsOK /\ CountOK /\ LengthOK
    BY LimitType, ThreadKinds DEF Init, PcOK, HeadsOK, CountOK, LengthOK, Heads
  <1>3. NoLostGetWakeup /\ NoLostPutWakeup
    BY ThreadKinds DEF Init, NoLostGetWakeup, NoLostPutWakeup, GetWaiters
  <1> QED
    BY <1>1, <1>2, <1>3 DEF IInv

-----------------------------------------------------------------------------
(* One lemma per action. *)

LEMMA PutCallInv ==
    ASSUME NEW p \in Producers, IInv, PutCall(p)
    PROVE  IInv'
  <1> USE ThreadKinds
  <1>1. TypeOK'
    <2>1. sent' \in [Producers -> 0 .. MaxPuts]
      BY ConstantsAssumption DEF IInv, PutCall, TypeOK
    <2> QED
      BY <2>1 DEF IInv, PutCall, TypeOK
  <1>2. PcOK' /\ HeadsOK' /\ CountOK' /\ LengthOK'
    BY DEF IInv, PutCall, TypeOK, PcOK, HeadsOK, CountOK, LengthOK
  <1>3. NoLostGetWakeup' /\ NoLostPutWakeup'
    BY DEF IInv, PutCall, TypeOK, NoLostGetWakeup, NoLostPutWakeup, GetWaiters
  <1> QED
    BY <1>1, <1>2, <1>3 DEF IInv

LEMMA PutWaitInv ==
    ASSUME NEW p \in Producers, IInv, PutWait(p)
    PROVE  IInv'
  <1> USE ThreadKinds
  <1>1. TypeOK'
    BY DEF IInv, PutWait, TypeOK
  <1>2. PcOK' /\ HeadsOK' /\ CountOK' /\ LengthOK'
    BY DEF IInv, PutWait, TypeOK, PcOK, HeadsOK, CountOK, LengthOK
  <1>3. NoLostGetWakeup'
    BY DEF IInv, PutWait, TypeOK, PcOK, NoLostGetWakeup, GetWaiters
  <1>4. NoLostPutWakeup'
    BY DEF IInv, PutWait, TypeOK, NoLostPutWakeup
  <1> QED
    BY <1>1, <1>2, <1>3, <1>4 DEF IInv

LEMMA PutAppendInv ==
    ASSUME NEW p \in Producers, IInv, PutAppend(p)
    PROVE  IInv'
  <1> USE ThreadKinds
  <1> DEFINE m == <<p, sent[p]>>
  <1>1. put_head \in Heads /\ put_tail = put_head /\ chain[put_head] \in Seq(Message)
        /\ DOMAIN chain = Heads
    BY DEF IInv, TypeOK, HeadsOK
  <1>2. m \in Message
    BY DEF IInv, TypeOK, Message
  <1>3. /\ Append(chain[put_head], m) \in Seq(Message)
        /\ Len(Append(chain[put_head], m)) = Len(chain[put_head]) + 1
        /\ Append(chain[put_head], m) # <<>>
    BY <1>1, <1>2, AppendProperties
  <1>4. /\ chain'[put_head] = Append(chain[put_head], m)
        /\ \A h \in Heads : h # put_head => chain'[h] = chain[h]
    BY <1>1 DEF PutAppend
  <1> HIDE DEF m
  <1>5. chain' \in [Heads -> Seq(Message)]
    BY <1>1, <1>3 DEF PutAppend, IInv, TypeOK, m
  <1>6. TypeOK'
    BY <1>5 DEF IInv, PutAppend, TypeOK
  <1>7. PcOK'
    BY DEF IInv, PutAppend, TypeOK, PcOK
  <1>8. HeadsOK'
    BY <1>1, <1>3, <1>4 DEF IInv, PutAppend, TypeOK, HeadsOK, PcOK
  <1>9. CountOK'
    BY <1>1, <1>3, <1>4 DEF IInv, PutAppend, CountOK
  <1>10. LengthOK'
    BY <1>1, <1>3, <1>4, LimitType DEF IInv, PutAppend, CountOK, LengthOK, Full, TypeOK
  <1>11. NoLostGetWakeup'
    BY DEF IInv, PutAppend, TypeOK, NoLostGetWakeup, GetWaiters
  <1>12. NoLostPutWakeup'
    BY LimitType DEF IInv, PutAppend, TypeOK, NoLostPutWakeup, Full
  <1> QED
    BY <1>6, <1>7, <1>8, <1>9, <1>10, <1>11, <1>12 DEF IInv

(* At most one consumer sleeps on get_cond, because it holds get_mutex: a  *)
(* single signal is enough.                                                *)
LEMMA OneGetWaiter ==
    ASSUME IInv
    PROVE  \A c, d \in GetWaiters : c = d
  BY DEF IInv, TypeOK, GetWaiters

LEMMA PutSignalInv ==
    ASSUME NEW p \in Producers, IInv, PutSignal(p)
    PROVE  IInv'
  <1> USE ThreadKinds
  <1> DEFINE f == [pc EXCEPT ![p] = "idle"]
  <1>1. pc[p] = "signal" /\ f \in [Threads -> {"idle", "put", "signal", "swap",
                                                "wait", "pop", "done", "wake"}]
    BY DEF IInv, TypeOK, PutSignal
  <1>2. CASE GetWaiters = {} /\ pc' = f
    <2>1. TypeOK'
      BY <1>1, <1>2 DEF IInv, PutSignal, TypeOK
    <2>2. PcOK' /\ HeadsOK' /\ CountOK' /\ LengthOK'
      BY <1>2 DEF IInv, PutSignal, TypeOK, PcOK, HeadsOK, CountOK, LengthOK
    <2>3. NoLostGetWakeup' /\ NoLostPutWakeup'
      BY <1>2 DEF IInv, PutSignal, TypeOK, NoLostGetWakeup, NoLostPutWakeup, GetWaiters
    <2> QED
      BY <2>1, <2>2, <2>3 DEF IInv
  <1>3. CASE \E c \in GetWaiters : pc' = [f EXCEPT ![c] = "swap"]
    <2>1. PICK c \in GetWaiters : pc' = [f EXCEPT ![c] = "swap"]
      BY <1>3
    <2>2. c \in Consumers /\ pc[c] = "wait" /\ c # p
      BY DEF GetWaiters
    <2>3. TypeOK'
      BY <1>1, <2>1, <2>2 DEF IInv, PutSignal, TypeOK
    <2>4. PcOK' /\ HeadsOK' /\ CountOK' /\ LengthOK'
      <3>1. PcOK'
        BY <2>1, <2>2 DEF IInv, PutSignal, TypeOK, PcOK
      <3>2. HeadsOK'
        BY <2>1, <2>2 DEF IInv, PutSignal, TypeOK, HeadsOK
      <3>3. CountOK'
        BY <2>1, <2>2 DEF IInv, PutSignal, TypeOK, CountOK
      <3>4. LengthOK'
        BY <2>1, <2>2 DEF IInv, PutSignal, TypeOK, LengthOK
      <3> QED
        BY <3>1, <3>2, <3>3, <3>4
    <2>5. GetWaiters' = {}
      BY <2>1, <2>2, OneGetWaiter DEF IInv, TypeOK, GetWaiters
    <2>6. NoLostGetWakeup' /\ NoLostPutWakeup'
      BY <2>1, <2>2, <2>5 DEF IInv, PutSignal, TypeOK, NoLostGetWakeup, NoLostPutWakeup
    <2> QED
      BY <2>3, <2>4, <2>6 DEF IInv
  <1> QED
    BY <1>2, <1>3 DEF PutSignal, GetCondSignal

-----------------------------------------------------------------------------

LEMMA GetNonemptyInv ==
    ASSUME NEW c \in Consumers, IInv, GetNonempty(c)
    PROVE  IInv'
  <1> USE ThreadKinds
  <1>1. TypeOK'
    BY DEF IInv, GetNonempty, GetMutexFree, TypeOK
  <1>2. PcOK' /\ CountOK' /\ LengthOK'
    BY DEF IInv, GetNonempty, TypeOK, PcOK, CountOK, LengthOK
  <1>3. HeadsOK'
    BY DEF IInv, GetNonempty, GetMutexFree, TypeOK, HeadsOK
  <1>4. NoLostGetWakeup' /\ NoLostPutWakeup'
    BY DEF IInv, GetNonempty, TypeOK, NoLostGetWakeup, NoLostPutWakeup, GetWaiters
  <1> QED
    BY <1>1, <1>2, <1>3, <1>4 DEF IInv

LEMMA GetEmptyInv ==
    ASSUME NEW c \in Consumers, IInv, GetEmpty(c)
    PROVE  IInv'
  <1> USE ThreadKinds
  <1>1. TypeOK'
    BY DEF IInv, GetEmpty, GetMutexFree, TypeOK
  <1>2. PcOK' /\ CountOK' /\ LengthOK'
    BY DEF IInv, GetEmpty, TypeOK, PcOK, CountOK, LengthOK
  <1>3. HeadsOK'
    BY DEF IInv, GetEmpty, GetMutexFree, TypeOK, HeadsOK
  <1>4. NoLostGetWakeup' /\ NoLostPutWakeup'
    BY DEF IInv, GetEmpty, TypeOK, NoLostGetWakeup, NoLostPutWakeup, GetWaiters
  <1> QED
    BY <1>1, <1>2, <1>3, <1>4 DEF IInv

LEMMA SwapWaitInv ==
    ASSUME NEW c \in Consumers, IInv, SwapWait(c)
    PROVE  IInv'
  <1> USE ThreadKinds
  <1>1. TypeOK'
    BY DEF IInv, SwapWait, TypeOK
  <1>2. PcOK' /\ HeadsOK' /\ CountOK' /\ LengthOK'
    BY DEF IInv, SwapWait, TypeOK, PcOK, HeadsOK, CountOK, LengthOK
  <1>3. NoLostGetWakeup' /\ NoLostPutWakeup'
    BY DEF IInv, SwapWait, MustWait, TypeOK, NoLostGetWakeup, NoLostPutWakeup, GetWaiters
  <1> QED
    BY <1>1, <1>2, <1>3 DEF IInv

(* The consumer inside __msgqueue_swap is the only one in msgqueue_get. *)
LEMMA SwapperAlone ==
    ASSUME IInv, NEW c \in Consumers, pc[c] \in {"swap", "pop"}
    PROVE  /\ get_mutex = {c}
           /\ GetWaiters = {}
           /\ \A d \in Consumers : d # c => pc[d] \in {"idle", "done"}
  BY DEF IInv, TypeOK, PcOK, GetWaiters

LEMMA SwapFilledInv ==
    ASSUME NEW c \in Consumers, IInv, SwapFilled(c)
    PROVE  IInv'
  <1> USE ThreadKinds
  <1> DEFINE next == [pc EXCEPT ![c] = "pop"]
  <1>1. pc[c] = "swap" /\ msg_cnt > 0
    BY DEF SwapFilled
  <1>2. pc' = IF Full(msg_cnt) THEN PutCondBroadcast(next) ELSE next
    BY DEF SwapFilled
  <1>3. /\ pc'[c] = "pop"
        /\ pc'[Controller] = pc[Controller]
        /\ \A d \in Consumers : d # c => pc'[d] = pc[d]
        /\ \A p \in Producers : pc'[p] = pc[p] \/ pc'[p] = "put"
        /\ Full(msg_cnt) => \A p \in Producers : pc'[p] # "wait"
    BY <1>2 DEF PutCondBroadcast, IInv, TypeOK
  <1>4. pc' \in [Threads -> {"idle", "put", "signal", "swap", "wait", "pop",
                             "done", "wake"}]
    BY <1>2 DEF PutCondBroadcast, IInv, TypeOK
  <1>5. TypeOK'
    <2>1. {d \in Consumers : pc'[d] \in {"swap", "wait", "pop"}} = {c}
      BY <1>1, <1>3, SwapperAlone
    <2>2. get_mutex' = {c}
      BY <1>1, SwapperAlone DEF SwapFilled
    <2> QED
      BY <1>4, <2>1, <2>2 DEF IInv, TypeOK, SwapFilled, Exchange
  <1>6. PcOK'
    BY <1>3 DEF IInv, PcOK
  <1>7. /\ put_head' = spare_head /\ get_head' = get_head /\ get_head # put_head'
        /\ put_tail' = put_head' /\ chain' = chain /\ chain[put_head'] = <<>>
        /\ chain[get_head] # <<>>
    <2>1. get_head = put_head /\ spare_head # put_head /\ chain[spare_head] = <<>>
      BY <1>1 DEF IInv, HeadsOK
    <2>2. chain[put_head] # <<>>
      BY <1>1, EmptySeq DEF IInv, TypeOK, CountOK
    <2> QED
      BY <2>1, <2>2 DEF SwapFilled, Exchange
  <1>8. HeadsOK'
    BY <1>1, <1>3, <1>7, SwapperAlone DEF HeadsOK
  <1>9. CountOK' /\ LengthOK'
    BY <1>7, EmptySeq DEF IInv, CountOK, LengthOK, SwapFilled, Exchange
  <1>10. NoLostGetWakeup'
    BY <1>1, <1>3, SwapperAlone DEF NoLostGetWakeup, GetWaiters
  <1>11. NoLostPutWakeup'
    BY <1>3 DEF IInv, NoLostPutWakeup
  <1> QED
    BY <1>5, <1>6, <1>8, <1>9, <1>10, <1>11 DEF IInv

LEMMA SwapEmptyInv ==
    ASSUME NEW c \in Consumers, IInv, SwapEmpty(c)
    PROVE  IInv'
  <1> USE ThreadKinds
  <1>1. pc[c] = "swap" /\ msg_cnt = 0 /\ pc' = [pc EXCEPT ![c] = "done"]
    BY DEF SwapEmpty, NothingToGet
  <1>2. TypeOK'
    BY <1>1, SwapperAlone DEF IInv, TypeOK, SwapEmpty, Exchange
  <1>3. PcOK'
    BY <1>1 DEF IInv, TypeOK, PcOK
  <1>4. get_head = put_head /\ spare_head # put_head /\ chain[spare_head] = <<>>
    BY <1>1 DEF IInv, HeadsOK
  <1>5. HeadsOK'
    BY <1>1, <1>4, SwapperAlone DEF IInv, TypeOK, HeadsOK, SwapEmpty, Exchange
  <1>6. CountOK' /\ LengthOK'
    BY <1>4, EmptySeq DEF IInv, CountOK, LengthOK, SwapEmpty, Exchange
  <1>7. NoLostGetWakeup'
    BY <1>1, SwapperAlone DEF IInv, TypeOK, NoLostGetWakeup, GetWaiters
  <1>8. NoLostPutWakeup'
    BY <1>1, LimitType DEF IInv, TypeOK, NoLostPutWakeup, Full
  <1> QED
    BY <1>2, <1>3, <1>5, <1>6, <1>7, <1>8 DEF IInv

LEMMA GetPopInv ==
    ASSUME NEW c \in Consumers, IInv, GetPop(c)
    PROVE  IInv'
  <1> USE ThreadKinds
  <1>1. pc[c] = "pop" /\ pc' = [pc EXCEPT ![c] = "idle"] /\ get_mutex' = {}
    BY DEF GetPop
  <1>2. /\ get_head \in Heads /\ put_head \in Heads /\ get_head # put_head
        /\ chain[get_head] \in Seq(Message) /\ chain[get_head] # <<>>
        /\ DOMAIN chain = Heads
    BY <1>1 DEF IInv, TypeOK, HeadsOK
  <1>3. /\ Head(chain[get_head]) \in Message
        /\ Tail(chain[get_head]) \in Seq(Message)
        /\ Len(Tail(chain[get_head])) = Len(chain[get_head]) - 1
        /\ Len(chain[get_head]) \in Nat
    BY <1>2, HeadTailProperties
  <1>4. /\ chain'[get_head] = Tail(chain[get_head])
        /\ chain'[put_head] = chain[put_head]
        /\ \A h \in Heads : h # get_head => chain'[h] = chain[h]
    BY <1>2 DEF GetPop
  <1>5. /\ chain' \in [Heads -> Seq(Message)]
        /\ received' \in [Consumers -> Message \cup {NoMessage}]
    BY <1>3 DEF GetPop, IInv, TypeOK
  <1>6. TypeOK'
    BY <1>1, <1>5, SwapperAlone DEF IInv, TypeOK, GetPop
  <1>7. PcOK'
    BY <1>1 DEF IInv, TypeOK, PcOK
  <1>8. HeadsOK'
    BY <1>1, <1>2, SwapperAlone DEF IInv, TypeOK, HeadsOK, GetPop
  <1>9. CountOK'
    BY <1>4 DEF IInv, CountOK, GetPop
  <1>10. LengthOK'
    BY <1>3, <1>4, LimitType DEF IInv, LengthOK, GetPop
  <1>11. NoLostGetWakeup' /\ NoLostPutWakeup'
    BY <1>1 DEF IInv, TypeOK, GetPop, NoLostGetWakeup, NoLostPutWakeup, GetWaiters
  <1> QED
    BY <1>6, <1>7, <1>8, <1>9, <1>10, <1>11 DEF IInv

-----------------------------------------------------------------------------

LEMMA SetNonblockInv ==
    ASSUME IInv, SetNonblock
    PROVE  IInv'
  <1> USE ThreadKinds
  <1>1. TypeOK'
    BY DEF IInv, SetNonblock, TypeOK
  <1>2. PcOK' /\ HeadsOK' /\ CountOK' /\ LengthOK'
    BY DEF IInv, SetNonblock, TypeOK, PcOK, HeadsOK, CountOK, LengthOK
  <1>3. NoLostGetWakeup' /\ NoLostPutWakeup'
    BY DEF IInv, SetNonblock, TypeOK, NoLostGetWakeup, NoLostPutWakeup, GetWaiters
  <1> QED
    BY <1>1, <1>2, <1>3 DEF IInv

LEMMA SetNonblockWakeInv ==
    ASSUME IInv, SetNonblockWake
    PROVE  IInv'
  <1> USE ThreadKinds
  <1> DEFINE f == PutCondBroadcast([pc EXCEPT ![Controller] = "idle"])
  <1>1. /\ f \in [Threads -> {"idle", "put", "signal", "swap", "wait", "pop",
                              "done", "wake"}]
        /\ f[Controller] = "idle"
        /\ \A c \in Consumers : f[c] = pc[c]
        /\ \A p \in Producers : f[p] = IF pc[p] = "wait" THEN "put" ELSE pc[p]
    BY DEF IInv, TypeOK, PutCondBroadcast
  <1> HIDE DEF f
  <1>2. /\ pc' \in [Threads -> {"idle", "put", "signal", "swap", "wait", "pop",
                                "done", "wake"}]
        /\ pc'[Controller] = "idle"
        /\ \A c \in Consumers : pc'[c] = IF c \in GetWaiters THEN "swap" ELSE pc[c]
        /\ \A p \in Producers : pc'[p] = IF pc[p] = "wait" THEN "put" ELSE pc[p]
    <2>1. CASE GetWaiters = {} /\ pc' = f
      BY <1>1, <2>1
    <2>2. CASE \E c \in GetWaiters : pc' = [f EXCEPT ![c] = "swap"]
      <3>1. PICK c \in GetWaiters : pc' = [f EXCEPT ![c] = "swap"]
        BY <2>2
      <3>2. c \in Consumers /\ \A d \in GetWaiters : d = c
        BY OneGetWaiter DEF GetWaiters
      <3> QED
        BY <1>1, <3>1, <3>2
    <2> QED
      BY <2>1, <2>2 DEF SetNonblockWake, GetCondSignal, f
  <1>3. GetWaiters' = {}
    BY <1>2 DEF GetWaiters
  <1>4. TypeOK'
    BY <1>2 DEF IInv, TypeOK, SetNonblockWake, GetWaiters
  <1>5. PcOK' /\ HeadsOK' /\ CountOK' /\ LengthOK'
    BY <1>2 DEF IInv, PcOK, HeadsOK, CountOK, LengthOK, SetNonblockWake, GetWaiters
  <1>6. NoLostGetWakeup' /\ NoLostPutWakeup'
    BY <1>2, <1>3 DEF IInv, NoLostGetWakeup, NoLostPutWakeup
  <1> QED
    BY <1>4, <1>5, <1>6 DEF IInv

LEMMA SetBlockInv ==
    ASSUME IInv, SetBlock
    PROVE  IInv'
  <1>1. TypeOK'
    BY DEF IInv, SetBlock, TypeOK
  <1>2. PcOK' /\ HeadsOK' /\ CountOK' /\ LengthOK'
    BY DEF IInv, SetBlock, PcOK, HeadsOK, CountOK, LengthOK
  <1>3. NoLostGetWakeup' /\ NoLostPutWakeup'
    BY DEF IInv, SetBlock, NoLostGetWakeup, NoLostPutWakeup, GetWaiters
  <1> QED
    BY <1>1, <1>2, <1>3 DEF IInv

LEMMA SpuriousWakeupInv ==
    ASSUME NEW t \in Threads, IInv, SpuriousWakeup(t)
    PROVE  IInv'
  <1> USE ThreadKinds
  <1>1. TypeOK'
    BY DEF IInv, SpuriousWakeup, TypeOK
  <1>2. PcOK' /\ HeadsOK' /\ CountOK' /\ LengthOK'
    BY DEF IInv, SpuriousWakeup, TypeOK, PcOK, HeadsOK, CountOK, LengthOK
  <1>3. NoLostGetWakeup' /\ NoLostPutWakeup'
    BY DEF IInv, SpuriousWakeup, TypeOK, PcOK, NoLostGetWakeup, NoLostPutWakeup, GetWaiters
  <1> QED
    BY <1>1, <1>2, <1>3 DEF IInv

-----------------------------------------------------------------------------

LEMMA StutterInv ==
    ASSUME IInv, UNCHANGED vars
    PROVE  IInv'
  <1>1. TypeOK'
    BY DEF IInv, vars, TypeOK
  <1>2. PcOK' /\ HeadsOK' /\ CountOK' /\ LengthOK'
    BY DEF IInv, vars, PcOK, HeadsOK, CountOK, LengthOK
  <1>3. NoLostGetWakeup' /\ NoLostPutWakeup'
    BY DEF IInv, vars, NoLostGetWakeup, NoLostPutWakeup, GetWaiters
  <1> QED
    BY <1>1, <1>2, <1>3 DEF IInv

LEMMA NextInv ==
    ASSUME IInv, [Next]_vars
    PROVE  IInv'
  <1>1. ASSUME NEW p \in Producers, Put(p)
        PROVE  IInv'
    BY <1>1, PutCallInv, PutWaitInv, PutAppendInv, PutSignalInv DEF Put
  <1>2. ASSUME NEW c \in Consumers, Get(c)
        PROVE  IInv'
    BY <1>2, GetNonemptyInv, GetEmptyInv, SwapWaitInv, SwapFilledInv, SwapEmptyInv,
       GetPopInv DEF Get
  <1>3. CASE SetNonblock \/ SetNonblockWake \/ SetBlock
    BY <1>3, SetNonblockInv, SetNonblockWakeInv, SetBlockInv
  <1>4. ASSUME NEW t \in Threads, SpuriousWakeup(t)
        PROVE  IInv'
    BY <1>4, SpuriousWakeupInv
  <1>5. CASE UNCHANGED vars
    BY <1>5, StutterInv
  <1> QED
    BY <1>1, <1>2, <1>3, <1>4, <1>5 DEF Next

(* The inductive invariant: the lists, their counter, the thread that      *)
(* exchanges them and the wakeups on their way belong together             *)
(* (msgqueue.c:33-102).                                                    *)
THEOREM Invariance == Spec => []IInv
  <1>1. Init => IInv
    BY InitIInv
  <1>2. IInv /\ [Next]_vars => IInv'
    BY NextInv
  <1> QED
    BY <1>1, <1>2, PTL DEF Spec

(* Every variable keeps its type and at most one consumer is inside the    *)
(* part of msgqueue_get that get_mutex protects (msgqueue.c:88-100).       *)
THEOREM TypeCorrect == Spec => []TypeOK
  BY Invariance, PTL DEF IInv

(* No wakeup of a consumer is lost, though msgqueue_put signals after it   *)
(* has unlocked (msgqueue.c:80-81).                                        *)
THEOREM GetWakeups == Spec => []NoLostGetWakeup
  BY Invariance, PTL DEF IInv

(* No wakeup of a producer is lost, though __msgqueue_swap broadcasts only *)
(* when it found the list full (msgqueue.c:58-59).                         *)
THEOREM PutWakeups == Spec => []NoLostPutWakeup
  BY Invariance, PTL DEF IInv

(* msgqueue.h:13: at most twice maxlen messages are pending in blocking    *)
(* mode.                                                                   *)
THEOREM Bounded == Spec => []PendingBound
  <1>1. IInv => PendingBound
    <2> SUFFICES ASSUME IInv, ~unbounded, MaxLen > 0
                 PROVE  Len(Pending) <= 2 * MaxLen
      BY DEF PendingBound
    <2>1. MaxLen \in Nat /\ Limit + 1 = MaxLen
      BY ConstantsAssumption DEF Limit
    <2>2. /\ chain[get_head] \in Seq(Message) /\ chain[put_head] \in Seq(Message)
          /\ Len(chain[get_head]) <= MaxLen /\ Len(chain[put_head]) <= MaxLen
          /\ Len(chain[get_head]) \in Nat /\ Len(chain[put_head]) \in Nat
      BY <2>1 DEF IInv, TypeOK, LengthOK
    <2>3. Len(chain[get_head] \o chain[put_head])
            = Len(chain[get_head]) + Len(chain[put_head])
      BY <2>2, ConcatProperties
    <2>4. CASE get_head = put_head
      BY <2>1, <2>2, <2>4 DEF Pending
    <2>5. CASE get_head # put_head
      <3>1. Pending = chain[get_head] \o chain[put_head]
        BY <2>5 DEF Pending
      <3>2. Len(Pending) = Len(chain[get_head]) + Len(chain[put_head])
        BY <2>3, <3>1
      <3>3. \A a, b, m \in Nat : a <= m /\ b <= m => a + b <= 2 * m
        OBVIOUS
      <3>4. Len(chain[get_head]) + Len(chain[put_head]) <= 2 * MaxLen
        BY <2>1, <2>2, <3>3
      <3> QED
        BY <3>2, <3>4
    <2> QED
      BY <2>4, <2>5
  <1> QED
    BY <1>1, Invariance, PTL

-----------------------------------------------------------------------------
(* The two lists implement one bounded queue. *)

LEMMA AppendToConcat ==
    ASSUME NEW S, NEW s \in Seq(S), NEW t \in Seq(S), NEW e \in S
    PROVE  s \o Append(t, e) = Append(s \o t, e)
  <1>1. Append(t, e) = t \o <<e>> /\ <<e>> \in Seq(S)
    BY AppendIsConcat
  <1>2. s \o t \in Seq(S)
    BY ConcatProperties
  <1>3. Append(s \o t, e) = (s \o t) \o <<e>>
    BY <1>2, AppendIsConcat
  <1>4. (s \o t) \o <<e>> = s \o (t \o <<e>>)
    BY <1>1, ConcatAssociative
  <1> QED
    BY <1>1, <1>3, <1>4

LEMMA HeadTailConcat ==
    ASSUME NEW S, NEW s \in Seq(S), NEW t \in Seq(S), s # <<>>
    PROVE  Head(s \o t) = Head(s) /\ Tail(s \o t) = Tail(s) \o t
  <1>1. /\ Len(s) \in Nat \ {0} /\ Len(t) \in Nat
        /\ s \o t \in Seq(S) /\ Len(s \o t) = Len(s) + Len(t)
        /\ \A i \in 1 .. Len(s) + Len(t) :
              (s \o t)[i] = IF i <= Len(s) THEN s[i] ELSE t[i - Len(s)]
    BY ConcatProperties, EmptySeq
  <1>2. s \o t # <<>>
    BY <1>1
  <1>3. Head(s \o t) = Head(s)
    BY <1>1, <1>2
  <1>4. /\ Tail(s) \in Seq(S) /\ Len(Tail(s)) = Len(s) - 1
        /\ \A i \in 1 .. Len(Tail(s)) : Tail(s)[i] = s[i + 1]
    BY HeadTailProperties
  <1>5. /\ Tail(s \o t) \in Seq(S) /\ Len(Tail(s \o t)) = Len(s) + Len(t) - 1
        /\ \A i \in 1 .. Len(Tail(s \o t)) : Tail(s \o t)[i] = (s \o t)[i + 1]
    BY <1>1, <1>2, HeadTailProperties
  <1>6. /\ Tail(s) \o t \in Seq(S)
        /\ Len(Tail(s) \o t) = Len(s) - 1 + Len(t)
        /\ \A i \in 1 .. Len(s) - 1 + Len(t) :
              (Tail(s) \o t)[i] = IF i <= Len(s) - 1 THEN Tail(s)[i]
                                  ELSE t[i - (Len(s) - 1)]
    BY <1>4, ConcatProperties
  <1>7. \A i \in 1 .. Len(s) + Len(t) - 1 : Tail(s \o t)[i] = (Tail(s) \o t)[i]
    BY <1>1, <1>4, <1>5, <1>6
  <1>8. Tail(s \o t) = Tail(s) \o t
    BY <1>1, <1>5, <1>6, <1>7, SeqEqual
  <1> QED
    BY <1>3, <1>8

Ended == {c \in Consumers : pc[c] = "done"}

(* A step that leaves the lists, the results and the mode alone. *)
LEMMA StutterStep ==
    ASSUME UNCHANGED <<chain, get_head, put_head, received, unbounded>>,
           Ended' = Ended
    PROVE  UNCHANGED Fifo!fifoVars
  BY DEF Fifo!fifoVars, Pending, Ended

LEMMA PutStep ==
    ASSUME NEW p \in Producers, IInv, Put(p)
    PROVE  Fifo!FifoNext \/ UNCHANGED Fifo!fifoVars
  <1> USE ThreadKinds
  <1>1. CASE PutCall(p) \/ PutWait(p)
    BY <1>1, StutterStep DEF PutCall, PutWait, IInv, TypeOK, Ended
  <1>2. CASE PutSignal(p)
    <2>1. \A c \in Consumers : pc[c] = "done" <=> pc'[c] = "done"
      BY <1>2 DEF PutSignal, GetCondSignal, GetWaiters, IInv, TypeOK
    <2> QED
      BY <1>2, <2>1, StutterStep DEF PutSignal, Ended
  <1>3. CASE PutAppend(p)
    <2> DEFINE m == <<p, sent[p]>>
    <2>1. m \in Message
      BY DEF IInv, TypeOK, Message
    <2>2. /\ put_tail = put_head /\ get_head \in Heads /\ put_head \in Heads
          /\ chain[get_head] \in Seq(Message) /\ chain[put_head] \in Seq(Message)
          /\ get_head' = get_head /\ put_head' = put_head
      BY <1>3 DEF IInv, TypeOK, HeadsOK, PutAppend
    <2>3. /\ chain'[put_head] = Append(chain[put_head], m)
          /\ get_head # put_head => chain'[get_head] = chain[get_head]
      BY <1>3, <2>2 DEF PutAppend, IInv, TypeOK
    <2> HIDE DEF m
    <2>4. Pending' = Append(Pending, m)
      <3>1. CASE get_head = put_head
        BY <2>2, <2>3, <3>1 DEF Pending
      <3>2. CASE get_head # put_head
        <4>1. Pending' = chain[get_head] \o Append(chain[put_head], m)
          BY <2>2, <2>3, <3>2 DEF Pending
        <4>2. chain[get_head] \o Append(chain[put_head], m)
                = Append(chain[get_head] \o chain[put_head], m)
          <5>1. \A s, t \in Seq(Message), e \in Message :
                    s \o Append(t, e) = Append(s \o t, e)
            BY AppendToConcat
          <5> QED
            BY <2>1, <2>2, <5>1
        <4> QED
          BY <3>2, <4>1, <4>2 DEF Pending
      <3> QED
        BY <3>1, <3>2
    <2>5. ~unbounded => Len(Pending) < 2 * (Limit + 1)
      <3> SUFFICES ASSUME ~unbounded PROVE Len(Pending) < 2 * (Limit + 1)
        OBVIOUS
      <3>1. /\ Len(chain[put_head]) \in Nat /\ Len(chain[get_head]) \in Nat
            /\ Len(chain[put_head]) <= Limit /\ Len(chain[get_head]) <= Limit + 1
        BY <1>3, <2>2, LimitType DEF PutAppend, IInv, LengthOK, CountOK, Full, TypeOK
      <3>2. \A a, b, n \in Nat : a <= n /\ b <= n + 1 => a < 2 * (n + 1) /\ b + a < 2 * (n + 1)
        OBVIOUS
      <3>3. Len(chain[get_head] \o chain[put_head])
              = Len(chain[get_head]) + Len(chain[put_head])
        BY <2>2, ConcatProperties
      <3>4. /\ Len(chain[put_head]) < 2 * (Limit + 1)
            /\ Len(chain[get_head]) + Len(chain[put_head]) < 2 * (Limit + 1)
        BY <3>1, <3>2, LimitType
      <3> QED
        BY <3>3, <3>4 DEF Pending
    <2>6. Ended' = Ended /\ UNCHANGED <<received, unbounded>>
      BY <1>3 DEF PutAppend, Ended, IInv, TypeOK
    <2>7. Fifo!Accept(m)
      BY <2>4, <2>5, <2>6 DEF Fifo!Accept, Ended
    <2> QED
      BY <2>1, <2>7 DEF Fifo!FifoNext
  <1> QED
    BY <1>1, <1>2, <1>3 DEF Put

LEMMA GetStep ==
    ASSUME NEW c \in Consumers, IInv, Get(c)
    PROVE  Fifo!FifoNext \/ UNCHANGED Fifo!fifoVars
  <1> USE ThreadKinds
  <1>1. /\ get_head \in Heads /\ put_head \in Heads /\ spare_head \in Heads
        /\ \A h \in Heads : chain[h] \in Seq(Message)
    BY DEF IInv, TypeOK
  <1>2. CASE GetNonempty(c) \/ SwapWait(c)
    BY <1>2, StutterStep DEF GetNonempty, SwapWait, IInv, TypeOK, Ended
  <1>3. CASE GetEmpty(c)
    <2>1. /\ Pending = <<>> \o chain[put_head] /\ Pending' = chain[put_head]
          /\ Ended' = Ended /\ UNCHANGED <<received, unbounded>>
      BY <1>3 DEF GetEmpty, GetMutexFree, IInv, HeadsOK, TypeOK, Pending, Ended
    <2>2. Pending' = Pending
      BY <1>1, <2>1, ConcatEmptySeq
    <2> QED
      BY <2>1, <2>2 DEF Fifo!fifoVars, Ended
  <1>4. ASSUME pc[c] = "swap", Exchange, UNCHANGED <<chain, get_head>>
        PROVE  Pending = chain[put_head] /\ Pending' = Pending
    <2>1. get_head = put_head /\ spare_head # put_head /\ chain[spare_head] = <<>>
      BY <1>4 DEF IInv, HeadsOK
    <2>2. Pending = chain[put_head] /\ Pending' = chain[put_head] \o <<>>
      BY <1>4, <2>1 DEF Pending, Exchange
    <2> QED
      BY <1>1, <2>2, ConcatEmptySeq
  <1>5. CASE SwapFilled(c)
    <2>1. \A d \in Consumers : pc'[d] = "done" <=> pc[d] = "done"
      BY <1>5 DEF SwapFilled, PutCondBroadcast, IInv, TypeOK
    <2>2. Pending' = Pending
      BY <1>4, <1>5 DEF SwapFilled
    <2> QED
      BY <1>5, <2>1, <2>2 DEF Fifo!fifoVars, SwapFilled, Ended
  <1>6. CASE SwapEmpty(c)
    <2>1. Pending = <<>> /\ Pending' = <<>>
      BY <1>1, <1>4, <1>6, EmptySeq DEF SwapEmpty, NothingToGet, IInv, CountOK
    <2>2. /\ unbounded /\ UNCHANGED <<received, unbounded>>
          /\ {d \in Consumers : pc'[d] = "done"}
               = {d \in Consumers : pc[d] = "done"} \cup {c}
      BY <1>6 DEF SwapEmpty, NothingToGet, IInv, LengthOK, TypeOK
    <2>3. Fifo!ReportEmpty(c)
      BY <2>1, <2>2 DEF Fifo!ReportEmpty
    <2> QED
      BY <2>3 DEF Fifo!FifoNext
  <1>7. CASE GetPop(c)
    <2>1. /\ pc[c] = "pop" /\ get_head # put_head /\ chain[get_head] # <<>>
          /\ get_head' = get_head /\ put_head' = put_head
      BY <1>7 DEF GetPop, IInv, HeadsOK
    <2>2. /\ chain'[get_head] = Tail(chain[get_head])
          /\ chain'[put_head] = chain[put_head]
      BY <1>1, <1>7, <2>1 DEF GetPop, IInv, TypeOK
    <2>3. Pending = chain[get_head] \o chain[put_head]
      BY <2>1 DEF Pending
    <2>4. Pending' = Tail(chain[get_head]) \o chain[put_head]
      BY <2>1, <2>2 DEF Pending
    <2>5. /\ Head(Pending) = Head(chain[get_head]) /\ Pending' = Tail(Pending)
          /\ Pending # <<>>
      <3>1. /\ Head(chain[get_head] \o chain[put_head]) = Head(chain[get_head])
            /\ Tail(chain[get_head] \o chain[put_head])
                 = Tail(chain[get_head]) \o chain[put_head]
        BY <1>1, <2>1, HeadTailConcat
      <3>2. chain[get_head] \o chain[put_head] # <<>>
        BY <1>1, <2>1, ConcatEqualIffEmpty
      <3> QED
        BY <2>3, <2>4, <3>1, <3>2
    <2>6. /\ received' = [received EXCEPT ![c] = Head(chain[get_head])]
          /\ Ended' = Ended /\ unbounded' = unbounded /\ c \notin Ended
      BY <1>7 DEF GetPop, Ended, IInv, TypeOK
    <2>7. Fifo!Deliver(c)
      BY <2>5, <2>6 DEF Fifo!Deliver, Ended
    <2> QED
      BY <2>7 DEF Fifo!FifoNext
  <1> QED
    BY <1>2, <1>3, <1>5, <1>6, <1>7 DEF Get

LEMMA ModeStep ==
    ASSUME IInv, SetNonblock \/ SetNonblockWake \/ SetBlock
                 \/ \E t \in Threads : SpuriousWakeup(t)
    PROVE  Fifo!FifoNext \/ UNCHANGED Fifo!fifoVars
  <1> USE ThreadKinds
  <1>1. CASE SetNonblock
    <2>1. /\ UNCHANGED <<chain, get_head, put_head, received>> /\ unbounded'
          /\ Ended' = Ended
      BY <1>1 DEF SetNonblock, Ended, IInv, TypeOK
    <2>2. Fifo!StopBlocking
      BY <2>1 DEF Fifo!StopBlocking, Pending, Ended
    <2> QED
      BY <2>2 DEF Fifo!FifoNext
  <1>2. CASE SetNonblockWake
    <2>1. \A c \in Consumers : pc'[c] = "done" <=> pc[c] = "done"
      BY <1>2 DEF SetNonblockWake, GetCondSignal, GetWaiters, PutCondBroadcast, IInv, TypeOK
    <2> QED
      BY <1>2, <2>1, StutterStep DEF SetNonblockWake, Ended
  <1>3. CASE SetBlock
    BY <1>3, StutterStep DEF SetBlock, Ended
  <1>4. ASSUME NEW t \in Threads, SpuriousWakeup(t)
        PROVE  UNCHANGED Fifo!fifoVars
    BY <1>4, StutterStep DEF SpuriousWakeup, Ended, IInv, TypeOK
  <1> QED
    BY <1>1, <1>2, <1>3, <1>4

(* However the exchange of the two lists is interleaved with appends and   *)
(* pops, the callers of msgqueue.c see one first-in first-out queue that   *)
(* never holds more than twice msg_max messages in blocking mode.          *)
THEOREM Refinement == Spec => ImplementsFifo
  <1>1. Init => Fifo!FifoInit
    <2> SUFFICES ASSUME Init PROVE Fifo!FifoInit
      OBVIOUS
    <2>1. Pending = <<>>
      BY ConcatEmptySeq, EmptySeq DEF Init, Pending, Heads
    <2> QED
      BY <2>1, ThreadKinds DEF Init, Fifo!FifoInit
  <1>2. IInv /\ [Next]_vars => [Fifo!FifoNext]_(Fifo!fifoVars)
    <2>1. ASSUME IInv, Next
          PROVE  Fifo!FifoNext \/ UNCHANGED Fifo!fifoVars
      BY <2>1, PutStep, GetStep, ModeStep DEF Next
    <2>2. ASSUME UNCHANGED vars
          PROVE  UNCHANGED Fifo!fifoVars
      BY <2>2, StutterStep DEF vars, Ended
    <2> QED
      BY <2>1, <2>2
  <1> QED
    BY <1>1, <1>2, Invariance, PTL DEF Spec, ImplementsFifo, Fifo!FifoSpec

=============================================================================
