-------------------------- MODULE ClientConnProofs ---------------------------
(***************************************************************************)
(* Proofs about ClientConn, for any requests, connections and handlers.    *)
(*                                                                         *)
(* As in ServerConnProofs, everything rests on counting what still stands  *)
(* for an entry: the end of its time in the poller (Ending), a complete    *)
(* reply (Complete) and the references that handlers are about to give     *)
(* back (Held).  A session waits for its outcome as long as its entry has  *)
(* a token that will decide about it (Awaiting).                           *)
(***************************************************************************)
EXTENDS ClientConn, FiniteSetTheorems, SequenceTheorems, WellFoundedInduction, TLAPS

(* The results of the poller. *)
Res == [op : {"none", "connect", "read", "write"},
        st : {"none", "SUCCESS", "MODIFIED", "FINISHED", "ERROR", "DELETED", "STOPPED"},
        conn : Conns \cup {None}, for : Sessions \cup {None}]

Ops == {"connect", "read", "write"}

B(b) == IF b THEN 1 ELSE 0

(* How many results in a queue, or in the hands of handlers at some step,   *)
(* are of some kind.                                                        *)
Num(q, S) == Cardinality({i \in 1 .. Len(q) : q[i] \in S})
Jobs(S, P) == {h \in Handlers : hres[h] \in S /\ hpc[h] \in P}
JNum(S, P) == Cardinality(Jobs(S, P))

Ends(e, op) == {m \in Res : m.conn = e /\ m.op = op /\ IsEnd(m)}
Completes(e) == {m \in Res : m.conn = e /\ m.op = "read" /\ IsSuccess(m)}
OfEntry(e, op) == {m \in Res : m.conn = e /\ m.op = op}
Letting == {"finish", "unref"}

(* What stands for an entry: the end of its time in the poller, a complete  *)
(* reply, and the references that handlers are about to give back.          *)
Ending(e, op) == B(node[e] = op) + Num(pipe[e], Ends(e, op))
                 + Num(msgqueue, Ends(e, op)) + JNum(Ends(e, op), {op})
Complete(e) == B(hand[e] = "success") + Num(msgqueue, Completes(e))
               + JNum(Completes(e), {"read"})
Held(e, op) == JNum(OfEntry(e, op), Letting)
Tokens(e) == Ending(e, "connect") + Ending(e, "read") + Ending(e, "write") + Complete(e)
             + Held(e, "connect") + Held(e, "read") + Held(e, "write")

(* A session nobody has decided about, and an entry that waits for somebody *)
(* to decide about its session.                                             *)
Using == {"set_timeout", "send", "unlock"}
Sent == {"unlock", "accepted"}
Finishers(s) == {h \in Handlers : hpc[h] = "finish" /\ hsession[h] = s}
Told(s) == Cardinality(Finishers(s)) + handled[s]
Waits(s) == rpc[s] \in Sent /\ Told(s) = 0
Awaiting(e) == \/ Ending(e, "connect") > 0 \/ Ending(e, "write") > 0 \/ Complete(e) > 0
               \/ state[e] \in {"receiving", "error"} /\ Ending(e, "read") > 0

-----------------------------------------------------------------------------
(* The inductive invariant *)

ShapeOK ==
    /\ state \in [Conns -> {"none", "connecting", "receiving", "success", "idle",
                            "closing", "error"}]
    /\ ref \in [Conns -> Int]
    /\ esession \in [Conns -> Sessions \cup {None}]
    /\ emutex \in [Conns -> Sessions \cup Handlers \cup {None}]
    /\ memory \in [Conns -> {"unborn", "live", "freed"}]
    /\ idle_list \in Seq(Conns)
    /\ node \in [Conns -> Ops \cup {"none"}]
    /\ hand \in [Conns -> {"none", "read", "append", "create", "success"}]
    /\ removed \in [Conns -> BOOLEAN]
    /\ partial \in [Conns -> BOOLEAN]
    /\ pipe \in [Conns -> Seq(Res)]
    /\ stopped \in [Conns -> {"running", "stopped", "swept"}]
    /\ msgqueue \in Seq(Res)
    /\ hpc \in [Handlers -> {"get", "stopcheck", "unlock", "exit"} \cup Ops \cup Letting]
    /\ hres \in [Handlers -> Res]
    /\ hsession \in [Handlers -> Sessions \cup {None}]
    /\ houtcome \in [Handlers -> {"none", "success", "error", "stopped"}]
    /\ rpc \in [Sessions -> {"none", "retry", "new_conn", "failed"} \cup Using \cup Sent]
    /\ rconn \in [Sessions -> Conns \cup {None}]
    /\ keep_alive \in [Sessions -> BOOLEAN]
    /\ released \in [Sessions -> Int] /\ handled \in [Sessions -> Int]
    /\ stop_flag \in BOOLEAN /\ nonblock \in BOOLEAN

(* What comes out of the queue, and what a handler has at each of its steps.*)
GoodResult(m) ==
    /\ m.op \in Ops /\ m.conn \in Conns /\ m.st # "none"
    /\ m.st \in {"SUCCESS", "MODIFIED"} => m.op = "read"
FromPipe(m, e) == GoodResult(m) /\ m.conn = e /\ m.st \in {"DELETED", "MODIFIED"}
ItsSession(m) == m.st = "SUCCESS" => m.for = esession[m.conn]

GoodJob(h) ==
    LET m == hres[h] IN
    /\ hpc[h] \in Ops => GoodResult(m) /\ m.op = hpc[h] /\ ItsSession(m)
    /\ hpc[h] \in Letting => GoodResult(m) /\ m.st # "MODIFIED"
    /\ hpc[h] \in {"stopcheck", "unlock"} => m.conn \in Conns
    /\ hpc[h] = "finish" => hsession[h] \in Sessions
    /\ hpc[h] = "finish" /\ houtcome[h] = "success" => m.st = "SUCCESS" /\ m.for = hsession[h]

ResultsOK ==
    /\ \A i \in 1 .. Len(msgqueue) : GoodResult(msgqueue[i]) /\ ItsSession(msgqueue[i])
    /\ \A e \in Conns : \A i \in 1 .. Len(pipe[e]) : FromPipe(pipe[e][i], e)
    /\ \A h \in Handlers : GoodJob(h)

(* An entry's references; *)
RefOK(e) ==
    /\ memory[e] = "live" => ref[e] >= 1 /\ ref[e] + B(state[e] = "success") = Tokens(e)
    /\ memory[e] # "live" => Tokens(e) = 0
    /\ memory[e] = "unborn" <=> state[e] = "none"

(* which of them there are, by its state; *)
StateOK(e) ==
    /\ Ending(e, "connect") + Ending(e, "read") + Ending(e, "write") <= 1
    /\ Complete(e) <= 1
    /\ Ending(e, "connect") > 0 \/ Held(e, "connect") > 0 => state[e] = "connecting"
    /\ Ending(e, "write") > 0 => state[e] \in {"connecting", "idle"}
    /\ Ending(e, "read") > 0 => state[e] # "connecting"
    /\ state[e] = "success" => Complete(e) = 1 /\ Ending(e, "read") = 1
    /\ Complete(e) > 0 => \/ state[e] = "success"
                          \/ state[e] = "closing" /\ Ending(e, "read") = 0
    /\ state[e] = "connecting" /\ memory[e] = "live" => ref[e] = 1

(* what the poller's thread has in hand; *)
HandOK(e) ==
    /\ hand[e] = "none" => ~removed[e]
    /\ hand[e] # "none" =>
          /\ stopped[e] = "running"
          /\ ~removed[e] => node[e] = "read"
          /\ removed[e] => \/ node[e] = "write"
                           \/ node[e] = "none" /\ \E op \in {"read", "write"} :
                                 Num(pipe[e], Ends(e, op)) > 0
    /\ hand[e] = "append" => state[e] = "receiving"
    /\ partial[e] /\ (IF hand[e] = "none" THEN node[e] = "read" ELSE hand[e] # "success")
          => state[e] = "receiving"
    /\ hand[e] = "success" => state[e] = "success"
    /\ stopped[e] = "swept" => pipe[e] = <<>>

Idle(e) == state[e] = "idle" /\ Ending(e, "read") > 0

(* who has its mutex, and that the requester finds it there.                *)
UseOK(e) ==
    LET s == emutex[e] IN
    /\ s \in Handlers => hpc[s] = "unlock" /\ hres[s].conn = e
    /\ s \in Sessions =>
          /\ rconn[s] = e /\ rpc[s] \in Using
          /\ state[e] \notin {"none", "connecting"}
          /\ rpc[s] \in {"set_timeout", "send"} => Idle(e) /\ e \notin ToSet(idle_list)
          /\ rpc[s] = "send" => esession[e] = s
          /\ Ending(e, "read") + Ending(e, "write") + Held(e, "write") > 0

LockOK ==
    /\ \A s \in Sessions : rpc[s] \in Using => rconn[s] \in Conns /\ emutex[rconn[s]] = s
    /\ \A h \in Handlers : hpc[h] = "unlock" => emutex[hres[h].conn] = h

ListOK ==
    /\ IsInjective(idle_list)
    /\ \A e \in Conns : e \in ToSet(idle_list) => Idle(e)
    /\ \A e \in Conns : Idle(e) =>
          \/ e \in ToSet(idle_list)
          \/ emutex[e] \in Sessions /\ rpc[emutex[e]] \in {"set_timeout", "send"}

(* Whose outcome is still to be decided, and by whom.                       *)
OwnerOK(e) ==
    LET s == esession[e] IN
    Awaiting(e) => s \in Sessions /\ rconn[s] = e /\ Waits(s)
SessionOK(s) ==
    /\ Waits(s) => LET e == rconn[s] IN e \in Conns /\ Awaiting(e) /\ esession[e] = s
    /\ Told(s) <= 1 /\ released[s] = handled[s] /\ handled[s] >= 0
    /\ Told(s) > 0 => rpc[s] \in Sent
    /\ rpc[s] = "accepted" => rconn[s] \in Conns

(* deinit *)
StopOK ==
    /\ \A e \in Conns : stopped[e] # "running" => stop_flag
    /\ \A e \in Conns : stopped[e] = "swept" /\ node[e] \in {"read", "write"} =>
          \E h \in Handlers : hpc[h] = "stopcheck" /\ hres[h].conn = e
    /\ nonblock => /\ \A e \in Conns : stopped[e] = "swept"
                   /\ \A s \in Sessions : rpc[s] \in {"none", "accepted", "failed"}
    /\ \A h \in Handlers : hpc[h] = "exit" => nonblock
    /\ (\A h \in Handlers : hpc[h] = "exit") => msgqueue = <<>>

EntryOK(e) == RefOK(e) /\ StateOK(e) /\ HandOK(e) /\ UseOK(e) /\ OwnerOK(e)

IInv == /\ ShapeOK /\ ResultsOK /\ \A e \in Conns : EntryOK(e)
        /\ LockOK /\ ListOK /\ StopOK /\ \A s \in Sessions : SessionOK(s)

-----------------------------------------------------------------------------
(* Counting *)

LEMMA BOK == \A b : B(b) \in {0, 1} /\ (b => B(b) = 1) /\ (~b => B(b) = 0)
  BY DEF B

(* A set that changes in one element at most. *)
LEMMA CardStep ==
  ASSUME NEW S, NEW T, NEW x, IsFiniteSet(S), \A y : y # x => (y \in S <=> y \in T)
  PROVE  /\ IsFiniteSet(T) /\ Cardinality(S) \in Nat /\ Cardinality(T) \in Nat
         /\ Cardinality(T) = Cardinality(S) - B(x \in S) + B(x \in T)
  <1>1. Cardinality(S) \in Nat
    BY FS_CardinalityType
  <1>2. CASE x \in S /\ x \notin T
    BY <1>1, <1>2, FS_RemoveElement, FS_CardinalityType DEF B
  <1>3. CASE x \notin S /\ x \in T
    BY <1>1, <1>3, FS_AddElement, FS_CardinalityType DEF B
  <1>4. CASE x \in S <=> x \in T
    <2>1. T = S
      BY <1>4
    <2> QED
      BY <1>1, <2>1 DEF B
  <1> QED
    BY <1>2, <1>3, <1>4

LEMMA CardPositive ==
  ASSUME NEW S, IsFiniteSet(S)
  PROVE  Cardinality(S) \in Nat /\ (Cardinality(S) > 0 <=> \E x : x \in S)
  BY FS_CardinalityType, FS_EmptySet

LEMMA PlacesFinite ==
  ASSUME NEW T, NEW q \in Seq(T), NEW S
  PROVE  IsFiniteSet({i \in 1 .. Len(q) : q[i] \in S})
  BY FS_Interval, FS_Subset

LEMMA NumPositive ==
  ASSUME NEW T, NEW q \in Seq(T), NEW S
  PROVE  /\ Num(q, S) \in Nat
         /\ Num(q, S) > 0 <=> \E i \in 1 .. Len(q) : q[i] \in S
  <1>1. PICK I : I = {i \in 1 .. Len(q) : q[i] \in S}
    OBVIOUS
  <1>2. IsFiniteSet(I)
    BY <1>1, PlacesFinite
  <1>3. Cardinality(I) \in Nat /\ (Cardinality(I) > 0 <=> \E x : x \in I)
    BY <1>2, CardPositive
  <1> QED
    BY <1>1, <1>3 DEF Num

LEMMA NumEmpty ==
  ASSUME NEW S
  PROVE  Num(<<>>, S) = 0
  BY FS_EmptySet DEF Num

LEMMA NumAppend ==
  ASSUME NEW T, NEW q \in Seq(T), NEW m \in T, NEW S
  PROVE  Num(Append(q, m), S) = Num(q, S) + B(m \in S)
  <1> DEFINE I == {i \in 1 .. Len(q) : q[i] \in S}
             J == {i \in 1 .. Len(Append(q, m)) : Append(q, m)[i] \in S}
             n == Len(q) + 1
  <1>1. /\ Len(q) \in Nat /\ Len(Append(q, m)) = n
        /\ \A i \in 1 .. Len(q) : Append(q, m)[i] = q[i]
        /\ Append(q, m)[n] = m
    OBVIOUS
  <1>2. \A y : y # n => (y \in I <=> y \in J)
    BY <1>1
  <1>3. n \notin I /\ (n \in J <=> m \in S)
    BY <1>1
  <1>4. IsFiniteSet(I)
    BY PlacesFinite
  <1>5. Num(q, S) = Cardinality(I) /\ Num(Append(q, m), S) = Cardinality(J)
    BY DEF Num
  <1> HIDE DEF I, J, n
  <1>6. Cardinality(J) = Cardinality(I) - B(n \in I) + B(n \in J) /\ Cardinality(I) \in Nat
    BY ONLY <1>2, <1>4, CardStep
  <1> QED
    BY <1>3, <1>5, <1>6 DEF B

LEMMA NumTail ==
  ASSUME NEW T, NEW q \in Seq(T), q # <<>>, NEW S
  PROVE  /\ Tail(q) \in Seq(T) /\ Head(q) \in T
         /\ Num(Tail(q), S) = Num(q, S) - B(Head(q) \in S)
  <1> DEFINE I == {i \in 1 .. Len(q) : q[i] \in S}
             I2 == I \ {1}
             J == {i \in 1 .. Len(Tail(q)) : Tail(q)[i] \in S}
             f == [j \in J |-> j + 1]
  <1>1. /\ Len(q) \in Nat /\ Len(q) >= 1 /\ Len(Tail(q)) = Len(q) - 1
        /\ Tail(q) \in Seq(T) /\ Head(q) = q[1] /\ q[1] \in T
        /\ \A i \in 1 .. Len(q) - 1 : Tail(q)[i] = q[i + 1]
    OBVIOUS
  <1>2. IsFiniteSet(J) /\ IsFiniteSet(I)
    BY <1>1, PlacesFinite
  <1>3. f \in Bijection(J, I2)
    <2>1. \A j \in J : j \in Nat /\ j + 1 \in I2
      BY <1>1
    <2>2. f \in [J -> I2]
      BY <2>1
    <2>3. \A a, b \in J : f[a] = f[b] => a = b
      BY <2>1
    <2>4. ASSUME NEW i \in I2 PROVE \E j \in J : f[j] = i
      <3>1. i - 1 \in 1 .. Len(q) - 1 /\ (i - 1) + 1 = i
        BY <1>1
      <3>2. i - 1 \in J
        BY <1>1, <3>1
      <3>3. f[i - 1] = i
        BY <3>1, <3>2
      <3> QED
        BY <3>2, <3>3
    <2> HIDE DEF f, J, I2
    <2> QED
      BY <2>2, <2>3, <2>4 DEF Bijection, Injection, Surjection, IsInjective, Range
  <1>4. Cardinality(I2) = Cardinality(J)
    <2> HIDE DEF f, J, I2
    <2>1. ExistsBijection(J, I2)
      BY <1>3 DEF ExistsBijection
    <2> QED
      BY <1>2, <2>1, FS_Bijection
  <1>5. Cardinality(I2) = Cardinality(I) - B(1 \in I) /\ Cardinality(I) \in Nat
    <2> HIDE DEF I
    <2>1. Cardinality(I \ {1}) = IF 1 \in I THEN Cardinality(I) - 1 ELSE Cardinality(I)
      BY <1>2, FS_RemoveElement
    <2>2. Cardinality(I) \in Nat
      BY <1>2, FS_CardinalityType
    <2> QED
      BY <2>1, <2>2 DEF B
  <1>6. 1 \in I <=> Head(q) \in S
    BY <1>1
  <1>7. Num(q, S) = Cardinality(I) /\ Num(Tail(q), S) = Cardinality(J)
    BY DEF Num
  <1> QED
    BY <1>1, <1>4, <1>5, <1>6, <1>7 DEF B

-----------------------------------------------------------------------------
(* Names, and the counts of a state *)

LEMMA Names ==
  /\ None \notin Handlers /\ None \notin Conns /\ None \notin Sessions
  /\ \A s \in Sessions : s \notin Handlers
  BY ClientAssumption

LEMMA JNumPositive ==
  ASSUME NEW S, NEW P
  PROVE  JNum(S, P) \in Nat /\ (JNum(S, P) > 0 <=> \E h \in Handlers : hres[h] \in S /\ hpc[h] \in P)
  BY ClientAssumption, FS_Subset, CardPositive DEF Jobs, JNum

(* One handler moves. *)
HandlersElse(h) == \A g \in Handlers : g # h => hres'[g] = hres[g] /\ hpc'[g] = hpc[g]

LEMMA JobMove ==
  ASSUME NEW h \in Handlers, HandlersElse(h), NEW S, NEW P
  PROVE  JNum(S, P)' = JNum(S, P) - B(hres[h] \in S /\ hpc[h] \in P)
                       + B(hres'[h] \in S /\ hpc'[h] \in P)
  <1>1. \A y : y # h => (y \in Jobs(S, P) <=> y \in Jobs(S, P)')
    BY DEF HandlersElse, Jobs
  <1>2. IsFiniteSet(Jobs(S, P))
    BY ClientAssumption, FS_Subset DEF Jobs
  <1>3. /\ h \in Jobs(S, P) <=> hres[h] \in S /\ hpc[h] \in P
        /\ h \in Jobs(S, P)' <=> hres'[h] \in S /\ hpc'[h] \in P
    BY DEF Jobs
  <1>4. PICK X, Y : X = Jobs(S, P) /\ Y = Jobs(S, P)'
    OBVIOUS
  <1>5. Cardinality(Y) = Cardinality(X) - B(h \in X) + B(h \in Y)
    BY ONLY <1>1, <1>2, <1>4, CardStep
  <1> QED
    BY <1>3, <1>4, <1>5 DEF JNum, B

LEMMA JobsStay ==
  ASSUME \A g \in Handlers : hres'[g] = hres[g] /\ hpc'[g] = hpc[g], NEW S, NEW P
  PROVE  JNum(S, P)' = JNum(S, P)
  BY DEF Jobs, JNum

(* The queue and the pipes. *)
LEMMA QueueNum ==
  ASSUME ShapeOK, NEW S
  PROVE  /\ Num(msgqueue, S) \in Nat
         /\ Num(msgqueue, S) > 0 <=> \E i \in 1 .. Len(msgqueue) : msgqueue[i] \in S
  BY NumPositive DEF ShapeOK

LEMMA SendNum ==
  ASSUME ShapeOK, NEW m \in Res, msgqueue' = Append(msgqueue, m), NEW S
  PROVE  Num(msgqueue, S)' = Num(msgqueue, S) + B(m \in S)
  BY NumAppend DEF ShapeOK

LEMMA TakeNum ==
  ASSUME ShapeOK, msgqueue # <<>>, msgqueue' = Tail(msgqueue), NEW S
  PROVE  Num(msgqueue, S)' = Num(msgqueue, S) - B(Head(msgqueue) \in S)
  BY NumTail DEF ShapeOK

LEMMA PipeNum ==
  ASSUME ShapeOK, NEW e \in Conns, NEW S
  PROVE  /\ Num(pipe[e], S) \in Nat
         /\ Num(pipe[e], S) > 0 <=> \E i \in 1 .. Len(pipe[e]) : pipe[e][i] \in S
  <1>1. pipe[e] \in Seq(Res)
    BY DEF ShapeOK
  <1> QED
    BY <1>1, NumPositive

(* All counts are natural numbers. *)
LEMMA CountTypes ==
  ASSUME ShapeOK, NEW e \in Conns
  PROVE  \A op : /\ B(node[e] = op) \in Nat /\ Num(pipe[e], Ends(e, op)) \in Nat
                 /\ Num(msgqueue, Ends(e, op)) \in Nat /\ JNum(Ends(e, op), {op}) \in Nat
                 /\ Ending(e, op) \in Nat /\ Held(e, op) \in Nat
                 /\ B(hand[e] = "success") \in Nat /\ Num(msgqueue, Completes(e)) \in Nat
                 /\ JNum(Completes(e), {"read"}) \in Nat /\ Complete(e) \in Nat
  <1> SUFFICES ASSUME NEW op
               PROVE  /\ B(node[e] = op) \in Nat /\ Num(pipe[e], Ends(e, op)) \in Nat
                      /\ Num(msgqueue, Ends(e, op)) \in Nat /\ JNum(Ends(e, op), {op}) \in Nat
                      /\ Ending(e, op) \in Nat /\ Held(e, op) \in Nat
                      /\ B(hand[e] = "success") \in Nat /\ Num(msgqueue, Completes(e)) \in Nat
                      /\ JNum(Completes(e), {"read"}) \in Nat /\ Complete(e) \in Nat
    OBVIOUS
  <1>1. B(node[e] = op) \in Nat /\ B(hand[e] = "success") \in Nat
    BY DEF B
  <1>2. Num(pipe[e], Ends(e, op)) \in Nat
    BY PipeNum
  <1>3. Num(msgqueue, Ends(e, op)) \in Nat /\ Num(msgqueue, Completes(e)) \in Nat
    BY QueueNum
  <1>4. /\ JNum(Ends(e, op), {op}) \in Nat /\ Held(e, op) \in Nat
        /\ JNum(Completes(e), {"read"}) \in Nat
    BY JNumPositive DEF Held
  <1> QED
    BY <1>1, <1>2, <1>3, <1>4 DEF Ending, Complete

-----------------------------------------------------------------------------
(* What a step leaves alone *)

SameTokens(d) ==
    /\ Ending(d, "connect")' = Ending(d, "connect") /\ Ending(d, "read")' = Ending(d, "read")
    /\ Ending(d, "write")' = Ending(d, "write") /\ Complete(d)' = Complete(d)
    /\ Held(d, "connect")' = Held(d, "connect") /\ Held(d, "read")' = Held(d, "read")
    /\ Held(d, "write")' = Held(d, "write")

SameHand(d) == /\ node'[d] = node[d] /\ hand'[d] = hand[d] /\ removed'[d] = removed[d]
               /\ partial'[d] = partial[d] /\ pipe'[d] = pipe[d] /\ stopped'[d] = stopped[d]

HandlersStay == hres' = hres /\ hpc' = hpc

LEMMA HandKept ==
  ASSUME NEW d \in Conns, HandOK(d), SameHand(d), state'[d] = state[d]
  PROVE  HandOK(d)'
  BY DEF HandOK, SameHand, Num, B

(* No token, mutex, list or session changes, and nobody decides.            *)
Calm ==
    /\ \A d \in Conns : SameTokens(d)
    /\ state' = state /\ ref' = ref /\ esession' = esession /\ emutex' = emutex
    /\ memory' = memory /\ idle_list' = idle_list
    /\ rpc' = rpc /\ rconn' = rconn
    /\ \A h \in Handlers : hpc'[h] = "unlock" <=> hpc[h] = "unlock"
    /\ \A h \in Handlers : hpc[h] = "unlock" => hres'[h] = hres[h]
    /\ \A s \in Sessions :
          /\ Told(s)' = Told(s)
          /\ released[s] = handled[s] /\ handled[s] >= 0
                => released'[s] = handled'[s] /\ handled'[s] >= 0

LEMMA CalmStep ==
  ASSUME IInv, Calm
  PROVE  /\ \A d \in Conns : (RefOK(d) /\ StateOK(d) /\ UseOK(d) /\ OwnerOK(d))'
         /\ LockOK' /\ ListOK' /\ \A s \in Sessions : SessionOK(s)'
  <1>1. ASSUME NEW d \in Conns PROVE RefOK(d)' /\ StateOK(d)'
    <2>1. RefOK(d) /\ StateOK(d) /\ SameTokens(d)
      BY DEF IInv, EntryOK, Calm
    <2>2. Tokens(d)' = Tokens(d)
      BY <2>1 DEF SameTokens, Tokens
    <2>3. state' = state /\ ref' = ref /\ memory' = memory
      BY DEF Calm
    <2>4. RefOK(d)'
      BY <2>1, <2>2, <2>3 DEF RefOK, B
    <2>5. StateOK(d)'
      BY <2>1, <2>3 DEF StateOK, SameTokens
    <2> QED
      BY <2>4, <2>5
  <1>2. ASSUME NEW d \in Conns PROVE UseOK(d)'
    <2>1. UseOK(d) /\ SameTokens(d)
      BY DEF IInv, EntryOK, Calm
    <2>2. emutex[d] \in Handlers => /\ hpc'[emutex[d]] = "unlock" <=> hpc[emutex[d]] = "unlock"
                                    /\ hpc[emutex[d]] = "unlock" => hres'[emutex[d]] = hres[emutex[d]]
      BY DEF Calm
    <2>3. /\ state' = state /\ esession' = esession /\ emutex' = emutex /\ idle_list' = idle_list
          /\ rpc' = rpc /\ rconn' = rconn
      BY DEF Calm
    <2> QED
      BY <2>1, <2>2, <2>3 DEF UseOK, SameTokens, Idle
  <1>3. ASSUME NEW s \in Sessions PROVE Told(s)' = Told(s) /\ (Waits(s)' <=> Waits(s))
    BY DEF Calm, Waits
  <1>4. ASSUME NEW d \in Conns PROVE Awaiting(d)' <=> Awaiting(d)
    <2>1. SameTokens(d) /\ state' = state
      BY DEF Calm
    <2> QED
      BY <2>1 DEF SameTokens, Awaiting
  <1>5. ASSUME NEW d \in Conns PROVE OwnerOK(d)'
    <2>1. OwnerOK(d) /\ esession' = esession /\ rconn' = rconn
      BY DEF IInv, EntryOK, Calm
    <2> QED
      BY <1>3, <1>4, <2>1 DEF OwnerOK
  <1>6. ASSUME NEW s \in Sessions PROVE SessionOK(s)'
    <2>1. /\ SessionOK(s) /\ esession' = esession /\ rconn' = rconn /\ rpc' = rpc
          /\ released[s] = handled[s] /\ handled[s] >= 0
                => released'[s] = handled'[s] /\ handled'[s] >= 0
      BY DEF IInv, Calm
    <2>2. Told(s)' = Told(s) /\ (Waits(s)' <=> Waits(s))
      BY <1>3
    <2>3. Waits(s)' => /\ rconn'[s] \in Conns /\ Awaiting(rconn[s]) /\ esession'[rconn[s]] = s
      BY <2>1, <2>2 DEF SessionOK
    <2>4. Waits(s)' => Awaiting(rconn[s])'
      BY <1>4, <2>1, <2>3
    <2> QED
      BY <2>1, <2>2, <2>3, <2>4 DEF SessionOK
  <1>7. LockOK'
    BY DEF IInv, LockOK, Calm
  <1>8. ListOK'
    <2>1. ASSUME NEW d \in Conns PROVE Idle(d)' <=> Idle(d)
      BY DEF Calm, SameTokens, Idle
    <2>2. ListOK /\ idle_list' = idle_list /\ emutex' = emutex /\ rpc' = rpc
      BY DEF IInv, Calm
    <2> QED
      BY <2>1, <2>2 DEF ListOK
  <1> QED
    BY <1>1, <1>2, <1>5, <1>6, <1>7, <1>8

Quiet ==
    /\ \A d \in Conns : SameTokens(d)
    /\ state' = state /\ ref' = ref /\ esession' = esession /\ emutex' = emutex
    /\ memory' = memory /\ idle_list' = idle_list
    /\ rpc' = rpc /\ rconn' = rconn /\ handled' = handled /\ released' = released
    /\ \A h \in Handlers : hpc'[h] = "unlock" <=> hpc[h] = "unlock"
    /\ \A h \in Handlers : hpc[h] = "unlock" => hres'[h] = hres[h]
    /\ \A s \in Sessions : Finishers(s)' = Finishers(s)

LEMMA QuietStep ==
  ASSUME IInv, Quiet
  PROVE  /\ \A d \in Conns : (RefOK(d) /\ StateOK(d) /\ UseOK(d) /\ OwnerOK(d))'
         /\ LockOK' /\ ListOK' /\ \A s \in Sessions : SessionOK(s)'
  <1>1. \A s \in Sessions : Told(s)' = Told(s)
    BY DEF Quiet, Told
  <1>2. Calm
    BY <1>1 DEF Quiet, Calm
  <1> QED
    BY <1>2, CalmStep

-----------------------------------------------------------------------------
(* The poller's threads *)

LEMMA EndsIs ==
  ASSUME NEW m \in Res, NEW e, NEW op
  PROVE  /\ m \in Ends(e, op) <=> m.conn = e /\ m.op = op /\ IsEnd(m)
         /\ m \in Completes(e) <=> m.conn = e /\ m.op = "read" /\ IsSuccess(m)
         /\ m \in OfEntry(e, op) <=> m.conn = e /\ m.op = op
  BY DEF Ends, Completes, OfEntry

(* What handlers hold of an entry. *)
HandsSame(d) ==
    /\ \A op \in Ops : /\ JNum(Ends(d, op), {op})' = JNum(Ends(d, op), {op})
                       /\ Held(d, op)' = Held(d, op)
    /\ JNum(Completes(d), {"read"})' = JNum(Completes(d), {"read"})

LEMMA HandsStay ==
  ASSUME HandlersStay, NEW d
  PROVE  HandsSame(d)
  <1>1. \A S, P : JNum(S, P)' = JNum(S, P)
    BY JobsStay DEF HandlersStay
  <1> QED
    BY <1>1 DEF Held, HandsSame

LEMMA TokensWith ==
  ASSUME ShapeOK, NEW e \in Conns, HandsSame(e),
         B(hand'[e] = "success") + Num(msgqueue', Completes(e))
            = B(hand[e] = "success") + Num(msgqueue, Completes(e)),
         \A op \in Ops :
            B(node'[e] = op) + Num(pipe'[e], Ends(e, op)) + Num(msgqueue', Ends(e, op))
               = B(node[e] = op) + Num(pipe[e], Ends(e, op)) + Num(msgqueue, Ends(e, op))
  PROVE  SameTokens(e)
  <1>1. \A op \in Ops : Ending(e, op)' = Ending(e, op)
    <2> SUFFICES ASSUME NEW op \in Ops PROVE Ending(e, op)' = Ending(e, op)
      OBVIOUS
    <2>1. JNum(Ends(e, op), {op})' = JNum(Ends(e, op), {op})
      BY DEF HandsSame
    <2> QED
      BY <2>1 DEF Ending
  <1>2. JNum(Completes(e), {"read"})' = JNum(Completes(e), {"read"})
    BY DEF HandsSame
  <1>3. Complete(e)' = Complete(e)
    BY <1>2 DEF Complete
  <1> QED
    BY <1>1, <1>3 DEF SameTokens, Ops, HandsSame

LEMMA TokensFrom ==
  ASSUME ShapeOK, HandlersStay, NEW e \in Conns,
         B(hand'[e] = "success") + Num(msgqueue', Completes(e))
            = B(hand[e] = "success") + Num(msgqueue, Completes(e)),
         \A op \in Ops :
            B(node'[e] = op) + Num(pipe'[e], Ends(e, op)) + Num(msgqueue', Ends(e, op))
               = B(node[e] = op) + Num(pipe[e], Ends(e, op)) + Num(msgqueue, Ends(e, op))
  PROVE  SameTokens(e)
  BY HandsStay, TokensWith

Sends(m) == msgqueue' = Append(msgqueue, m)

LEMMA SentNum ==
  ASSUME ShapeOK, NEW m \in Res, Sends(m), NEW e, NEW op
  PROVE  /\ Num(msgqueue', Ends(e, op)) = Num(msgqueue, Ends(e, op))
                + B(m.conn = e /\ m.op = op /\ IsEnd(m))
         /\ Num(msgqueue', Completes(e)) = Num(msgqueue, Completes(e))
                + B(m.conn = e /\ m.op = "read" /\ IsSuccess(m))
  <1>1. \A S : Num(msgqueue', S) = Num(msgqueue, S) + B(m \in S)
    BY SendNum DEF Sends
  <1>2. /\ m \in Ends(e, op) <=> m.conn = e /\ m.op = op /\ IsEnd(m)
        /\ m \in Completes(e) <=> m.conn = e /\ m.op = "read" /\ IsSuccess(m)
    BY EndsIs
  <1> QED
    BY <1>1, <1>2 DEF B

LEMMA ElsewhereWith ==
  ASSUME ShapeOK, NEW d \in Conns, HandsSame(d), SameHand(d),
         \/ msgqueue' = msgqueue
         \/ \E m \in Res : m.conn # d /\ Sends(m)
  PROVE  SameTokens(d)
  <1>1. \A op : /\ Num(msgqueue', Ends(d, op)) = Num(msgqueue, Ends(d, op))
                /\ Num(msgqueue', Completes(d)) = Num(msgqueue, Completes(d))
    <2>1. CASE msgqueue' = msgqueue
      BY <2>1
    <2>2. ASSUME NEW m \in Res, m.conn # d, Sends(m), NEW op
          PROVE  /\ Num(msgqueue', Ends(d, op)) = Num(msgqueue, Ends(d, op))
                 /\ Num(msgqueue', Completes(d)) = Num(msgqueue, Completes(d))
      <3>1. Num(msgqueue, Ends(d, op)) \in Nat /\ Num(msgqueue, Completes(d)) \in Nat
        BY QueueNum
      <3> QED
        BY <2>2, <3>1, SentNum DEF B
    <2> QED
      BY <2>1, <2>2
  <1> QED
    BY <1>1, TokensWith DEF SameHand

LEMMA TokensElsewhere ==
  ASSUME ShapeOK, HandlersStay, NEW d \in Conns, SameHand(d),
         \/ msgqueue' = msgqueue
         \/ \E m \in Res : m.conn # d /\ Sends(m)
  PROVE  SameTokens(d)
  BY HandsStay, ElsewhereWith

(* A poller's thread passes on at most one result, of its own connection.   *)
PollerFrame(e) ==
    /\ HandlersStay /\ UNCHANGED <<hsession, houtcome>>
    /\ UNCHANGED <<entryVars, requestVars, sessionVars, deinitVars, stopped>>
    /\ \A d \in Conns : d # e => SameHand(d)
    /\ stopped[e] = "running" /\ node'[e] \in {"none", node[e]}
    /\ pipe'[e] = pipe[e] \/ (pipe[e] # <<>> /\ pipe'[e] = Tail(pipe[e]))
    /\ \/ msgqueue' = msgqueue
       \/ \E m \in Res : GoodResult(m) /\ ItsSession(m) /\ m.conn = e /\ Sends(m)

LEMMA PollerQuiet ==
  ASSUME IInv, NEW e \in Conns, PollerFrame(e), SameTokens(e)
  PROVE  Quiet
  <1>1. \A d \in Conns : SameTokens(d)
    <2> SUFFICES ASSUME NEW d \in Conns, d # e PROVE SameTokens(d)
      OBVIOUS
    <2>1. SameHand(d) /\ HandlersStay /\ ShapeOK
      BY DEF PollerFrame, IInv
    <2>2. \/ msgqueue' = msgqueue
          \/ \E m \in Res : m.conn # d /\ Sends(m)
      BY DEF PollerFrame
    <2> QED
      BY <2>1, <2>2, TokensElsewhere
  <1>2. \A s \in Sessions : Finishers(s)' = Finishers(s)
    BY DEF PollerFrame, HandlersStay, Finishers
  <1> QED
    BY <1>1, <1>2 DEF Quiet, PollerFrame, HandlersStay, entryVars, requestVars, sessionVars

LEMMA PollerResults ==
  ASSUME IInv, NEW e \in Conns, PollerFrame(e)
  PROVE  ResultsOK'
  <1>1. ShapeOK /\ ResultsOK
    BY DEF IInv
  <1>2. msgqueue \in Seq(Res) /\ pipe[e] \in Seq(Res)
    BY <1>1 DEF ShapeOK
  <1>3. esession' = esession /\ HandlersStay /\ hsession' = hsession /\ houtcome' = houtcome
    BY DEF PollerFrame, entryVars
  <1>4. \A i \in 1 .. Len(msgqueue') : GoodResult(msgqueue'[i]) /\ ItsSession(msgqueue'[i])
    <2>1. CASE msgqueue' = msgqueue
      BY <1>1, <2>1 DEF ResultsOK
    <2>2. ASSUME NEW m \in Res, GoodResult(m), ItsSession(m), Sends(m),
                 NEW i \in 1 .. Len(msgqueue')
          PROVE  GoodResult(msgqueue'[i]) /\ ItsSession(msgqueue'[i])
      <3>1. \/ i = Len(msgqueue) + 1 /\ msgqueue'[i] = m
            \/ i \in 1 .. Len(msgqueue) /\ msgqueue'[i] = msgqueue[i]
        BY <1>2, <2>2 DEF Sends
      <3> QED
        BY <1>1, <2>2, <3>1 DEF ResultsOK
    <2> QED
      BY <2>1, <2>2 DEF PollerFrame
  <1>5. \A i \in 1 .. Len(msgqueue') : 
          /\ GoodResult(msgqueue'[i])
          /\ msgqueue'[i].st = "SUCCESS" => msgqueue'[i].for = esession'[msgqueue'[i].conn]
    BY <1>3, <1>4 DEF ItsSession
  <1>6. ASSUME NEW d \in Conns, NEW i \in 1 .. Len(pipe'[d]) PROVE FromPipe(pipe'[d][i], d)
    <2>1. CASE pipe'[d] = pipe[d]
      BY <1>1, <2>1 DEF ResultsOK
    <2>2. CASE d = e /\ pipe[e] # <<>> /\ pipe'[e] = Tail(pipe[e])
      <3>1. i + 1 \in 1 .. Len(pipe[e]) /\ pipe'[d][i] = pipe[e][i + 1]
        BY <1>2, <2>2
      <3> QED
        BY <1>1, <2>2, <3>1 DEF ResultsOK
    <2> QED
      BY <2>1, <2>2 DEF PollerFrame, SameHand
  <1>7. ASSUME NEW h \in Handlers PROVE GoodJob(h)'
    BY <1>1, <1>3 DEF ResultsOK, GoodJob, ItsSession, HandlersStay
  <1> QED
    BY <1>5, <1>6, <1>7 DEF ResultsOK, ItsSession

LEMMA PollerStep ==
  ASSUME IInv, NEW e \in Conns, PollerFrame(e), SameTokens(e), ShapeOK', HandOK(e)'
  PROVE  IInv'
  <1>1. /\ \A d \in Conns : (RefOK(d) /\ StateOK(d) /\ UseOK(d) /\ OwnerOK(d))'
        /\ LockOK' /\ ListOK' /\ \A s \in Sessions : SessionOK(s)'
    BY PollerQuiet, QuietStep
  <1>2. ResultsOK'
    BY PollerResults
  <1>3. ASSUME NEW d \in Conns PROVE HandOK(d)'
    <2>1. CASE d # e
      <3>1. HandOK(d) /\ SameHand(d) /\ state' = state
        BY <2>1 DEF IInv, EntryOK, PollerFrame, entryVars
      <3> QED
        BY <3>1, HandKept
    <2> QED
      BY <2>1
  <1>4. StopOK'
    <2>0. StopOK
      BY DEF IInv
    <2>1. /\ stopped' = stopped /\ rpc' = rpc /\ stop_flag' = stop_flag
          /\ nonblock' = nonblock /\ HandlersStay
      BY DEF PollerFrame, entryVars, requestVars, sessionVars, deinitVars
    <2>2. ~nonblock
      BY <2>0 DEF StopOK, PollerFrame
    <2>3. PICK h \in Handlers : hpc[h] # "exit"
      BY <2>0, <2>2, ClientAssumption DEF StopOK
    <2>4. \A d \in Conns : stopped[d] = "swept" => node'[d] = node[d]
      BY DEF PollerFrame, SameHand
    <2> QED
      BY <2>0, <2>1, <2>2, <2>3, <2>4 DEF StopOK, HandlersStay
  <1>5. \A d \in Conns : EntryOK(d)'
    BY <1>1, <1>3 DEF EntryOK
  <1> QED
    BY <1>1, <1>2, <1>4, <1>5 DEF IInv

Elsewise == UNCHANGED <<entryVars, stopped, handlerVars, requestVars, sessionVars, deinitVars>>

LEMMA ElsewiseIs ==
  ASSUME Elsewise
  PROVE  /\ HandlersStay /\ UNCHANGED <<hsession, houtcome>>
         /\ UNCHANGED <<entryVars, requestVars, sessionVars, deinitVars, stopped>>
         /\ state' = state /\ ref' = ref /\ esession' = esession /\ emutex' = emutex
         /\ memory' = memory /\ idle_list' = idle_list /\ stopped' = stopped
         /\ rpc' = rpc /\ rconn' = rconn /\ keep_alive' = keep_alive
         /\ released' = released /\ handled' = handled
         /\ stop_flag' = stop_flag /\ nonblock' = nonblock
  BY DEF Elsewise, entryVars, handlerVars, requestVars, sessionVars, deinitVars, HandlersStay

LEMMA PollerShape ==
  ASSUME ShapeOK, Elsewise,
         node' \in [Conns -> Ops \cup {"none"}],
         hand' \in [Conns -> {"none", "read", "append", "create", "success"}],
         removed' \in [Conns -> BOOLEAN], partial' \in [Conns -> BOOLEAN],
         pipe' \in [Conns -> Seq(Res)], msgqueue' \in Seq(Res)
  PROVE  ShapeOK'
  <1>1. /\ HandlersStay /\ UNCHANGED <<hsession, houtcome>>
        /\ state' = state /\ ref' = ref /\ esession' = esession /\ emutex' = emutex
        /\ memory' = memory /\ idle_list' = idle_list /\ stopped' = stopped
        /\ rpc' = rpc /\ rconn' = rconn /\ keep_alive' = keep_alive
        /\ released' = released /\ handled' = handled
        /\ stop_flag' = stop_flag /\ nonblock' = nonblock
    BY ElsewiseIs
  <1> QED
    BY <1>1 DEF ShapeOK, HandlersStay

LEMMA Types ==
  ASSUME ShapeOK, NEW e \in Conns
  PROVE  /\ node[e] \in Ops \cup {"none"}
         /\ hand[e] \in {"none", "read", "append", "create", "success"}
         /\ removed[e] \in BOOLEAN /\ partial[e] \in BOOLEAN /\ pipe[e] \in Seq(Res)
         /\ esession[e] \in Sessions \cup {None} /\ msgqueue \in Seq(Res)
         /\ stopped[e] \in {"running", "stopped", "swept"}
         /\ state[e] \in {"none", "connecting", "receiving", "success", "idle", "closing", "error"}
         /\ memory[e] \in {"unborn", "live", "freed"} /\ ref[e] \in Int
         /\ emutex[e] \in Sessions \cup Handlers \cup {None}
  BY DEF ShapeOK

LEMMA ResultIs ==
  ASSUME NEW e \in Conns, NEW op \in Ops,
         NEW st \in {"FINISHED", "ERROR", "DELETED", "STOPPED"}
  PROVE  LET m == Result(op, st, e) IN
         /\ m \in Res /\ GoodResult(m) /\ ItsSession(m) /\ IsEnd(m) /\ ~IsSuccess(m)
         /\ m.conn = e /\ m.op = op /\ m.st = st
  BY DEF Result, Res, GoodResult, ItsSession, IsEnd, IsSuccess, Ops

LEMMA EndNodeStep ==
  ASSUME IInv, NEW e \in Conns, NEW st \in {"FINISHED", "ERROR"}, EndNode(e, st),
         hand' = [hand EXCEPT ![e] = "none"], removed' = [removed EXCEPT ![e] = FALSE],
         partial' = partial, pipe' = pipe, Elsewise,
         hand[e] # "success", stopped[e] = "running", hand[e] = "none" => node[e] # "none"
  PROVE  IInv'
  <1>1. ShapeOK /\ HandOK(e)
    BY DEF IInv, EntryOK
  <1>2. /\ node \in [Conns -> Ops \cup {"none"}] /\ removed \in [Conns -> BOOLEAN]
        /\ hand \in [Conns -> {"none", "read", "append", "create", "success"}]
        /\ pipe \in [Conns -> Seq(Res)] /\ msgqueue \in Seq(Res)
        /\ partial \in [Conns -> BOOLEAN]
    BY <1>1 DEF ShapeOK
  <1>3. /\ hand'[e] = "none" /\ removed'[e] = FALSE
        /\ \A d \in Conns : d # e => hand'[d] = hand[d] /\ removed'[d] = removed[d]
    BY <1>2
  <1>4. CASE removed[e]
    <2>1. node' = node /\ msgqueue' = msgqueue
      BY <1>4 DEF EndNode, RemovedByOther
    <2>2. PollerFrame(e)
      BY <1>2, <1>3, <2>1, ElsewiseIs DEF PollerFrame, SameHand
    <2>3. SameTokens(e)
      BY <1>1, <1>3, <2>1, ElsewiseIs, TokensFrom DEF B
    <2>4. ShapeOK'
      BY <1>1, <1>2, <2>1, PollerShape
    <2>5. HandOK(e)'
      BY <1>1, <1>3, <1>4, <2>1, ElsewiseIs DEF HandOK
    <2> QED
      BY <2>2, <2>3, <2>4, <2>5, PollerStep
  <1>5. CASE ~removed[e]
    <2>1. node[e] \in Ops
      BY <1>1, <1>5, Types DEF HandOK, Ops
    <2> DEFINE m == Result(node[e], st, e)
    <2>2. /\ m \in Res /\ GoodResult(m) /\ ItsSession(m) /\ IsEnd(m) /\ ~IsSuccess(m)
          /\ m.conn = e /\ m.op = node[e]
      BY <2>1, ResultIs
    <2>3. node' = [node EXCEPT ![e] = "none"] /\ Sends(m)
      BY <1>5 DEF EndNode, RemovedByOther, Sends
    <2> HIDE DEF m
    <2>4. PollerFrame(e)
      BY <1>2, <1>3, <2>2, <2>3, ElsewiseIs DEF PollerFrame, SameHand
    <2>5. SameTokens(e)
      <3>1. \A op : /\ Num(msgqueue', Ends(e, op)) = Num(msgqueue, Ends(e, op)) + B(m.op = op)
                    /\ Num(msgqueue', Completes(e)) = Num(msgqueue, Completes(e))
        <4> SUFFICES ASSUME NEW op
                     PROVE  /\ Num(msgqueue', Ends(e, op)) = Num(msgqueue, Ends(e, op)) + B(m.op = op)
                            /\ Num(msgqueue', Completes(e)) = Num(msgqueue, Completes(e))
          OBVIOUS
        <4>1. Num(msgqueue, Completes(e)) \in Nat
          BY <1>1, QueueNum
        <4> QED
          BY <1>1, <2>2, <2>3, <4>1, SentNum DEF B
      <3>2. \A op \in Ops : B(node'[e] = op) = 0 /\ (node[e] = op <=> m.op = op)
        BY <1>2, <2>2, <2>3 DEF B, Ops
      <3>3. \A op \in Ops :
               B(node'[e] = op) + Num(pipe'[e], Ends(e, op)) + Num(msgqueue', Ends(e, op))
                  = B(node[e] = op) + Num(pipe[e], Ends(e, op)) + Num(msgqueue, Ends(e, op))
        <4> SUFFICES ASSUME NEW op \in Ops
                     PROVE  B(node'[e] = op) + Num(pipe'[e], Ends(e, op)) + Num(msgqueue', Ends(e, op))
                             = B(node[e] = op) + Num(pipe[e], Ends(e, op)) + Num(msgqueue, Ends(e, op))
          OBVIOUS
        <4>1. PICK x \in Nat, y \in Nat : x = Num(pipe[e], Ends(e, op)) /\ y = Num(msgqueue, Ends(e, op))
          BY <1>1, PipeNum, QueueNum
        <4>2. PICK z \in Nat : z = B(node[e] = op) /\ z = B(m.op = op)
          BY <3>2 DEF B
        <4> QED
          BY <3>1, <3>2, <4>1, <4>2
      <3>4. B(hand'[e] = "success") = B(hand[e] = "success")
        BY <1>3 DEF B
      <3> QED
        BY <1>1, <3>1, <3>3, <3>4, ElsewiseIs, TokensFrom
    <2>6. ShapeOK'
      BY <1>1, <1>2, <2>2, <2>3, PollerShape DEF Sends
    <2>7. HandOK(e)'
      BY <1>1, <1>2, <1>3, <2>3, ElsewiseIs DEF HandOK
    <2> QED
      BY <2>4, <2>5, <2>6, <2>7, PollerStep
  <1> QED
    BY <1>1, <1>4, <1>5, Types

(* Only the poller's thread goes on. *)
LEMMA HandStep ==
  ASSUME IInv, NEW e \in Conns, Elsewise, stopped[e] = "running",
         node' = node, pipe' = pipe, msgqueue' = msgqueue,
         hand' \in [Conns -> {"none", "read", "append", "create", "success"}],
         removed' \in [Conns -> BOOLEAN], partial' \in [Conns -> BOOLEAN],
         \A d \in Conns : d # e => /\ hand'[d] = hand[d] /\ removed'[d] = removed[d]
                                   /\ partial'[d] = partial[d],
         hand[e] # "success", hand'[e] # "success", HandOK(e)'
  PROVE  IInv'
  <1>1. ShapeOK
    BY DEF IInv
  <1>2. PollerFrame(e)
    BY ElsewiseIs DEF PollerFrame, SameHand
  <1>3. SameTokens(e)
    BY <1>1, ElsewiseIs, TokensFrom DEF B
  <1>4. ShapeOK'
    BY <1>1, PollerShape DEF ShapeOK
  <1> QED
    BY <1>2, <1>3, <1>4, PollerStep

LEMMA ConnectOrWriteEventStep ==
  ASSUME IInv, NEW e \in Conns, ConnectOrWriteEvent(e)
  PROVE  IInv'
  <1>1. ShapeOK /\ HandOK(e)
    BY DEF IInv, EntryOK
  <1>2. PICK st \in {"FINISHED", "ERROR"} : EndNode(e, st)
    BY DEF ConnectOrWriteEvent
  <1>3. /\ hand' = hand /\ removed' = removed /\ partial' = partial /\ pipe' = pipe
        /\ hand[e] = "none" /\ ~removed[e] /\ stopped[e] = "running" /\ node[e] # "none"
    BY <1>1 DEF ConnectOrWriteEvent, HandOK
  <1>4. hand' = [hand EXCEPT ![e] = "none"] /\ removed' = [removed EXCEPT ![e] = FALSE]
    BY <1>1, <1>3 DEF ShapeOK
  <1>5. Elsewise
    BY DEF ConnectOrWriteEvent, Elsewise
  <1> QED
    BY <1>2, <1>3, <1>4, <1>5, EndNodeStep

LEMMA ReadEventStep ==
  ASSUME IInv, NEW e \in Conns, ReadEvent(e)
  PROVE  IInv'
  <1>1. ShapeOK /\ HandOK(e)
    BY DEF IInv, EntryOK
  <1>2. /\ node[e] = "read" /\ hand[e] = "none" /\ stopped[e] = "running"
        /\ hand' = [hand EXCEPT ![e] = "read"]
        /\ node' = node /\ removed' = removed /\ partial' = partial /\ pipe' = pipe
        /\ msgqueue' = msgqueue /\ Elsewise
    BY DEF ReadEvent, Elsewise
  <1>3. hand' \in [Conns -> {"none", "read", "append", "create", "success"}]
        /\ hand'[e] = "read" /\ \A d \in Conns : d # e => hand'[d] = hand[d]
    BY <1>1, <1>2 DEF ShapeOK
  <1>4. HandOK(e)'
    BY <1>1, <1>2, <1>3, ElsewiseIs DEF HandOK
  <1>5. removed' \in [Conns -> BOOLEAN] /\ partial' \in [Conns -> BOOLEAN]
    BY <1>1, <1>2 DEF ShapeOK
  <1> QED
    BY <1>2, <1>3, <1>4, <1>5, HandStep

LEMMA ReadAgainStep ==
  ASSUME IInv, NEW e \in Conns, ReadAgain(e)
  PROVE  IInv'
  <1>1. ShapeOK /\ HandOK(e)
    BY DEF IInv, EntryOK
  <1>2. /\ hand[e] = "read"
        /\ hand' = [hand EXCEPT ![e] = "none"] /\ removed' = [removed EXCEPT ![e] = FALSE]
        /\ node' = node /\ partial' = partial /\ pipe' = pipe
        /\ msgqueue' = msgqueue /\ Elsewise
    BY DEF ReadAgain, Elsewise
  <1>3. /\ hand' \in [Conns -> {"none", "read", "append", "create", "success"}]
        /\ removed' \in [Conns -> BOOLEAN] /\ partial' \in [Conns -> BOOLEAN]
        /\ hand'[e] = "none" /\ removed'[e] = FALSE
        /\ \A d \in Conns : d # e => hand'[d] = hand[d] /\ removed'[d] = removed[d]
    BY <1>1, <1>2 DEF ShapeOK
  <1>4. HandOK(e)'
    BY <1>1, <1>2, <1>3, ElsewiseIs DEF HandOK
  <1>5. stopped[e] = "running"
    BY <1>1, <1>2 DEF HandOK
  <1> QED
    BY <1>2, <1>3, <1>4, <1>5, HandStep

LEMMA ReadEndsStep ==
  ASSUME IInv, NEW e \in Conns, ReadEnds(e)
  PROVE  IInv'
  <1>1. HandOK(e)
    BY DEF IInv, EntryOK
  <1>2. PICK st \in {"FINISHED", "ERROR"} : EndNode(e, st)
    BY DEF ReadEnds
  <1>3. /\ hand' = [hand EXCEPT ![e] = "none"] /\ removed' = [removed EXCEPT ![e] = FALSE]
        /\ partial' = partial /\ pipe' = pipe /\ hand[e] = "read" /\ Elsewise
    BY DEF ReadEnds, Elsewise
  <1>4. stopped[e] = "running"
    BY <1>1, <1>3 DEF HandOK
  <1> QED
    BY <1>2, <1>3, <1>4, EndNodeStep

LEMMA AppendErrorStep ==
  ASSUME IInv, NEW e \in Conns, AppendError(e)
  PROVE  IInv'
  <1>1. HandOK(e)
    BY DEF IInv, EntryOK
  <1>3. /\ hand' = [hand EXCEPT ![e] = "none"] /\ removed' = [removed EXCEPT ![e] = FALSE]
        /\ partial' = partial /\ pipe' = pipe /\ hand[e] = "append" /\ Elsewise
        /\ EndNode(e, "ERROR")
    BY DEF AppendError, Elsewise
  <1>4. stopped[e] = "running"
    BY <1>1, <1>3 DEF HandOK
  <1> QED
    BY <1>3, <1>4, EndNodeStep

(* The poller's thread goes on with the bytes: to create_reply or further.  *)
LEMMA HandOn ==
  ASSUME IInv, NEW e \in Conns, NEW to \in {"append", "create"},
         hand[e] \in {"read", "create"}, hand' = [hand EXCEPT ![e] = to],
         to = "append" => state[e] = "receiving",
         UNCHANGED <<node, removed, partial, pipe, msgqueue>>, Elsewise
  PROVE  IInv'
  <1>1. ShapeOK /\ HandOK(e)
    BY DEF IInv, EntryOK
  <1>2. node' = node /\ removed' = removed /\ partial' = partial /\ pipe' = pipe
        /\ msgqueue' = msgqueue
    OBVIOUS
  <1>3. /\ hand' \in [Conns -> {"none", "read", "append", "create", "success"}]
        /\ removed' \in [Conns -> BOOLEAN] /\ partial' \in [Conns -> BOOLEAN]
        /\ hand'[e] = to /\ \A d \in Conns : d # e => hand'[d] = hand[d]
    BY <1>1, <1>2 DEF ShapeOK
  <1>4. HandOK(e)'
    BY <1>1, <1>2, <1>3, ElsewiseIs DEF HandOK
  <1>5. stopped[e] = "running"
    BY <1>1 DEF HandOK
  <1>6. \A d \in Conns : d # e => removed'[d] = removed[d] /\ partial'[d] = partial[d]
    BY <1>2
  <1>7. hand[e] # "success" /\ hand'[e] # "success"
    BY <1>3
  <1> QED
    BY <1>2, <1>3, <1>4, <1>5, <1>6, <1>7, HandStep

LEMMA CreateReplyStep ==
  ASSUME IInv, NEW e \in Conns, CreateReply(e), hand[e] \in {"read", "create"},
         partial' = partial, pipe' = pipe, Elsewise
  PROVE  IInv'
  <1>1. HandOK(e)
    BY DEF IInv, EntryOK
  <1>2. stopped[e] = "running" /\ hand[e] # "success" /\ hand[e] # "none"
    BY <1>1 DEF HandOK
  <1>3. CASE state[e] = "receiving"
    BY <1>3, HandOn DEF CreateReply, ReplyAwaited
  <1>4. CASE state[e] # "receiving"
    BY <1>2, <1>4, EndNodeStep DEF CreateReply, ReplyAwaited
  <1> QED
    BY <1>3, <1>4

LEMMA ReadBytesStep ==
  ASSUME IInv, NEW e \in Conns, ReadBytes(e)
  PROVE  IInv'
  <1>1. HandOK(e)
    BY DEF IInv, EntryOK
  <1>2. hand[e] = "read" /\ partial' = partial /\ pipe' = pipe /\ Elsewise
    BY DEF ReadBytes, Elsewise
  <1>3. CASE partial[e]
    <2>1. state[e] = "receiving"
      BY <1>1, <1>2, <1>3 DEF HandOK
    <2>2. hand' = [hand EXCEPT ![e] = "append"] /\ UNCHANGED <<node, removed, msgqueue>>
      BY <1>3 DEF ReadBytes
    <2> QED
      BY <1>2, <2>1, <2>2, HandOn
  <1>4. CASE ~partial[e] /\ state[e] = "idle"
    <2>1. hand' = [hand EXCEPT ![e] = "create"] /\ UNCHANGED <<node, removed, msgqueue>>
      BY <1>4 DEF ReadBytes
    <2> QED
      BY <1>2, <2>1, HandOn
  <1>5. CASE ~partial[e] /\ state[e] # "idle"
    <2>1. CreateReply(e)
      BY <1>5 DEF ReadBytes
    <2> QED
      BY <1>2, <2>1, CreateReplyStep
  <1> QED
    BY <1>3, <1>4, <1>5

LEMMA CreateReplyWaitedStep ==
  ASSUME IInv, NEW e \in Conns, CreateReplyWaited(e)
  PROVE  IInv'
  BY CreateReplyStep DEF CreateReplyWaited, Elsewise

LEMMA AppendPartStep ==
  ASSUME IInv, NEW e \in Conns, AppendPart(e)
  PROVE  IInv'
  <1>1. ShapeOK /\ HandOK(e)
    BY DEF IInv, EntryOK
  <1>2. /\ hand[e] = "append" /\ hand' = [hand EXCEPT ![e] = "read"]
        /\ partial' = [partial EXCEPT ![e] = TRUE]
        /\ node' = node /\ removed' = removed /\ pipe' = pipe
        /\ msgqueue' = msgqueue /\ Elsewise
    BY DEF AppendPart, Elsewise
  <1>3. /\ hand' \in [Conns -> {"none", "read", "append", "create", "success"}]
        /\ removed' \in [Conns -> BOOLEAN] /\ partial' \in [Conns -> BOOLEAN]
        /\ hand'[e] = "read" /\ partial'[e] = TRUE
        /\ \A d \in Conns : d # e => hand'[d] = hand[d] /\ partial'[d] = partial[d]
    BY <1>1, <1>2 DEF ShapeOK
  <1>4. HandOK(e)'
    BY <1>1, <1>2, <1>3, ElsewiseIs DEF HandOK
  <1>5. stopped[e] = "running"
    BY <1>1, <1>2 DEF HandOK
  <1> QED
    BY <1>2, <1>3, <1>4, <1>5, HandStep

LEMMA PollerSuccessStep ==
  ASSUME IInv, NEW e \in Conns, PollerSuccess(e)
  PROVE  IInv'
  <1>1. ShapeOK /\ HandOK(e)
    BY DEF IInv, EntryOK
  <1> DEFINE m == [op |-> "read", st |-> "SUCCESS", conn |-> e, for |-> esession[e]]
  <1>2. /\ hand[e] = "success" /\ hand' = [hand EXCEPT ![e] = "read"] /\ Sends(m)
        /\ partial' = [partial EXCEPT ![e] = FALSE]
        /\ node' = node /\ removed' = removed /\ pipe' = pipe /\ Elsewise
    BY DEF PollerSuccess, Elsewise, Sends
  <1>3. /\ m \in Res /\ GoodResult(m) /\ ItsSession(m) /\ ~IsEnd(m) /\ IsSuccess(m)
        /\ m.conn = e /\ m.op = "read"
    BY <1>1, Types DEF Res, GoodResult, ItsSession, IsEnd, IsSuccess, Ops
  <1> HIDE DEF m
  <1>4. /\ hand' \in [Conns -> {"none", "read", "append", "create", "success"}]
        /\ removed' \in [Conns -> BOOLEAN] /\ partial' \in [Conns -> BOOLEAN]
        /\ node' \in [Conns -> Ops \cup {"none"}] /\ pipe' \in [Conns -> Seq(Res)]
        /\ hand'[e] = "read" /\ partial'[e] = FALSE
        /\ \A d \in Conns : d # e => hand'[d] = hand[d] /\ partial'[d] = partial[d]
    BY <1>1, <1>2 DEF ShapeOK
  <1>5. stopped[e] = "running"
    BY <1>1, <1>2 DEF HandOK
  <1>6. PollerFrame(e)
    BY <1>2, <1>3, <1>4, <1>5, ElsewiseIs DEF PollerFrame, SameHand
  <1>7. SameTokens(e)
    <2>1. Num(msgqueue, Completes(e)) \in Nat
      BY <1>1, QueueNum
    <2>2. Num(msgqueue', Completes(e)) = Num(msgqueue, Completes(e)) + 1
      BY <1>1, <1>2, <1>3, SentNum DEF B
    <2>3. \A op \in Ops : Num(msgqueue', Ends(e, op)) = Num(msgqueue, Ends(e, op))
      <3> SUFFICES ASSUME NEW op \in Ops
                   PROVE  Num(msgqueue', Ends(e, op)) = Num(msgqueue, Ends(e, op))
        OBVIOUS
      <3>1. Num(msgqueue, Ends(e, op)) \in Nat
        BY <1>1, QueueNum
      <3> QED
        BY <1>1, <1>2, <1>3, <3>1, SentNum DEF B
    <2>4. B(hand[e] = "success") = 1 /\ B(hand'[e] = "success") = 0
      BY <1>2, <1>4 DEF B
    <2>5. B(hand'[e] = "success") + Num(msgqueue', Completes(e))
            = B(hand[e] = "success") + Num(msgqueue, Completes(e))
      BY <2>1, <2>2, <2>4
    <2> QED
      BY <1>1, <1>2, <2>3, <2>5, ElsewiseIs, TokensFrom
  <1>8. msgqueue' \in Seq(Res)
    BY <1>1, <1>2, <1>3, Types DEF Sends
  <1>9. ShapeOK'
    BY <1>1, <1>2, <1>4, <1>8, PollerShape
  <1>10. HandOK(e)'
    BY <1>1, <1>2, <1>4, ElsewiseIs DEF HandOK
  <1> QED
    BY <1>6, <1>7, <1>9, <1>10, PollerStep

LEMMA HandlePipeStep ==
  ASSUME IInv, NEW e \in Conns, HandlePipe(e)
  PROVE  IInv'
  <1>1. ShapeOK /\ HandOK(e) /\ ResultsOK
    BY DEF IInv, EntryOK
  <1>2. PICK m : m = Head(pipe[e])
    OBVIOUS
  <1>3. /\ hand[e] = "none" /\ stopped[e] = "running" /\ pipe[e] # <<>> /\ Sends(m)
        /\ pipe' = [pipe EXCEPT ![e] = Tail(@)]
        /\ node' = node /\ removed' = removed /\ partial' = partial /\ hand' = hand /\ Elsewise
    BY <1>2 DEF HandlePipe, Elsewise, Sends
  <1>4. pipe[e] \in Seq(Res) /\ msgqueue \in Seq(Res)
    BY <1>1, Types
  <1>5. m \in Res /\ m = pipe[e][1] /\ 1 \in 1 .. Len(pipe[e]) /\ Tail(pipe[e]) \in Seq(Res)
    BY <1>2, <1>3, <1>4
  <1>6. FromPipe(m, e)
    BY <1>1, <1>5 DEF ResultsOK
  <1>7. GoodResult(m) /\ ItsSession(m) /\ m.conn = e /\ ~IsSuccess(m)
    BY <1>6 DEF FromPipe, ItsSession, IsSuccess
  <1>8. /\ pipe' \in [Conns -> Seq(Res)] /\ pipe'[e] = Tail(pipe[e])
        /\ \A d \in Conns : d # e => pipe'[d] = pipe[d]
    BY <1>1, <1>3, <1>5 DEF ShapeOK
  <1>9. PollerFrame(e)
    BY <1>3, <1>5, <1>7, <1>8, ElsewiseIs DEF PollerFrame, SameHand
  <1>10. SameTokens(e)
    <2>1. Num(msgqueue', Completes(e)) = Num(msgqueue, Completes(e))
      <3>1. Num(msgqueue, Completes(e)) \in Nat
        BY <1>1, QueueNum
      <3>2. Num(msgqueue', Completes(e)) = Num(msgqueue, Completes(e)) + B(m \in Completes(e))
        BY <1>1, <1>3, <1>5, SendNum DEF Sends
      <3>3. B(m \in Completes(e)) = 0
        BY <1>7 DEF B, Completes
      <3> QED
        BY <3>1, <3>2, <3>3
    <2>2. \A op \in Ops :
             B(node'[e] = op) + Num(pipe'[e], Ends(e, op)) + Num(msgqueue', Ends(e, op))
                = B(node[e] = op) + Num(pipe[e], Ends(e, op)) + Num(msgqueue, Ends(e, op))
      <3> SUFFICES ASSUME NEW op \in Ops
                   PROVE  B(node'[e] = op) + Num(pipe'[e], Ends(e, op)) + Num(msgqueue', Ends(e, op))
                           = B(node[e] = op) + Num(pipe[e], Ends(e, op)) + Num(msgqueue, Ends(e, op))
        OBVIOUS
      <3>1. Num(msgqueue', Ends(e, op)) = Num(msgqueue, Ends(e, op)) + B(m \in Ends(e, op))
        BY <1>1, <1>3, <1>5, SendNum DEF Sends
      <3>2. Num(pipe'[e], Ends(e, op)) = Num(pipe[e], Ends(e, op)) - B(m \in Ends(e, op))
        BY <1>2, <1>3, <1>4, <1>8, NumTail
      <3>3. PICK x \in Nat, y \in Nat : x = Num(pipe[e], Ends(e, op)) /\ y = Num(msgqueue, Ends(e, op))
        BY <1>1, PipeNum, QueueNum
      <3>4. PICK z \in Nat, u \in Nat : z = B(node[e] = op) /\ u = B(m \in Ends(e, op))
        BY DEF B
      <3>5. B(node'[e] = op) = z
        BY <1>3, <3>4
      <3> QED
        BY <3>1, <3>2, <3>3, <3>4, <3>5
    <2> QED
      BY <1>1, <1>3, <2>1, <2>2, ElsewiseIs, TokensFrom
  <1>11. msgqueue' \in Seq(Res)
    BY <1>3, <1>4, <1>5 DEF Sends
  <1>12. ShapeOK'
    <2>1. /\ node' \in [Conns -> Ops \cup {"none"}] /\ removed' \in [Conns -> BOOLEAN]
          /\ hand' \in [Conns -> {"none", "read", "append", "create", "success"}]
          /\ partial' \in [Conns -> BOOLEAN]
      BY <1>1, <1>3 DEF ShapeOK
    <2> QED
      BY <1>1, <1>3, <1>8, <1>11, <2>1, PollerShape
  <1>13. HandOK(e)'
    BY <1>1, <1>3, ElsewiseIs DEF HandOK
  <1> QED
    BY <1>9, <1>10, <1>12, <1>13, PollerStep

-----------------------------------------------------------------------------
(* A step on one entry *)

SessionSame(s) == /\ rpc'[s] = rpc[s] /\ rconn'[s] = rconn[s] /\ Told(s)' = Told(s)
                  /\ released'[s] = released[s] /\ handled'[s] = handled[s]
Concerns(s, d) == rconn[s] = d /\ rpc[s] \in Using \cup Sent
UnlockerSame(d) == \A h \in Handlers : hpc[h] = "unlock" /\ hres[h].conn = d
                      => hpc'[h] = "unlock" /\ hres'[h].conn = d
Elsewhere(d) ==
    /\ SameTokens(d) /\ SameHand(d)
    /\ state'[d] = state[d] /\ ref'[d] = ref[d] /\ esession'[d] = esession[d]
    /\ emutex'[d] = emutex[d] /\ memory'[d] = memory[d]
    /\ d \in ToSet(idle_list') <=> d \in ToSet(idle_list)
    /\ \A s \in Sessions : Concerns(s, d) => SessionSame(s)
    /\ UnlockerSame(d)

LEMMA ElsewhereKept ==
  ASSUME IInv, NEW d \in Conns, Elsewhere(d)
  PROVE  /\ EntryOK(d)' /\ (Awaiting(d)' <=> Awaiting(d)) /\ (Idle(d)' <=> Idle(d))
         /\ emutex[d] \in Sessions => rpc'[emutex[d]] = rpc[emutex[d]]
  <1>1. /\ RefOK(d) /\ StateOK(d) /\ HandOK(d) /\ UseOK(d) /\ OwnerOK(d)
        /\ SameTokens(d) /\ SameHand(d)
    BY DEF IInv, EntryOK, Elsewhere
  <1>2. /\ state'[d] = state[d] /\ ref'[d] = ref[d] /\ esession'[d] = esession[d]
        /\ emutex'[d] = emutex[d] /\ memory'[d] = memory[d]
        /\ d \in ToSet(idle_list') <=> d \in ToSet(idle_list)
    BY DEF Elsewhere
  <1>3. Tokens(d)' = Tokens(d)
    BY <1>1 DEF SameTokens, Tokens
  <1>4. RefOK(d)'
    BY <1>1, <1>2, <1>3 DEF RefOK, B
  <1>5. StateOK(d)'
    BY <1>1, <1>2 DEF StateOK, SameTokens
  <1>6. HandOK(d)'
    BY <1>1, <1>2, HandKept
  <1>7. (Awaiting(d)' <=> Awaiting(d)) /\ (Idle(d)' <=> Idle(d))
    BY <1>1, <1>2 DEF SameTokens, Awaiting, Idle
  <1>8. ASSUME emutex[d] \in Sessions
        PROVE  rpc'[emutex[d]] = rpc[emutex[d]] /\ rconn'[emutex[d]] = rconn[emutex[d]]
    <2>1. rconn[emutex[d]] = d /\ rpc[emutex[d]] \in Using
      BY <1>1, <1>8 DEF UseOK
    <2> QED
      BY <1>8, <2>1 DEF Elsewhere, Concerns, SessionSame
  <1>9. UseOK(d)'
    <2>1. emutex[d] \in Handlers => hpc'[emutex[d]] = "unlock" /\ hres'[emutex[d]].conn = d
      BY <1>1 DEF UseOK, Elsewhere, UnlockerSame
    <2> QED
      BY <1>1, <1>2, <1>7, <1>8, <2>1 DEF UseOK, SameTokens
  <1>10. OwnerOK(d)'
    <2>1. PICK s : s = esession[d]
      OBVIOUS
    <2>2. ASSUME Awaiting(d)
          PROVE  s \in Sessions /\ rconn'[s] = d /\ Waits(s)'
      <3>1. s \in Sessions /\ rconn[s] = d /\ Waits(s)
        BY <1>1, <2>1, <2>2 DEF OwnerOK
      <3>2. SessionSame(s)
        BY <3>1 DEF Elsewhere, Concerns, Waits
      <3> QED
        BY <3>1, <3>2 DEF SessionSame, Waits
    <2>3. esession'[d] = s
      BY <1>2, <2>1
    <2> QED
      BY <1>7, <2>2, <2>3 DEF OwnerOK
  <1> QED
    BY <1>4, <1>5, <1>6, <1>7, <1>8, <1>9, <1>10 DEF EntryOK

(* A session the step is not about. *)
Apart(s, e) == SessionSame(s) /\ (rconn[s] = e /\ Waits(s) => Awaiting(e)' /\ esession'[e] = s)

LEMMA EntryStep ==
  ASSUME IInv, NEW e \in Conns, ShapeOK', ResultsOK', LockOK', StopOK', EntryOK(e)',
         \A d \in Conns : d # e => Elsewhere(d),
         IsInjective(idle_list'),
         e \in ToSet(idle_list') => Idle(e)',
         Idle(e)' => \/ e \in ToSet(idle_list')
                     \/ emutex'[e] \in Sessions /\ rpc'[emutex'[e]] \in {"set_timeout", "send"},
         \A s \in Sessions : Apart(s, e) \/ SessionOK(s)'
  PROVE  IInv'
  <1>1. \A d \in Conns : EntryOK(d)'
    BY ElsewhereKept
  <1>2. ListOK'
    <2>1. ASSUME NEW d \in Conns
          PROVE  /\ d \in ToSet(idle_list') => Idle(d)'
                 /\ Idle(d)' => \/ d \in ToSet(idle_list')
                                \/ emutex'[d] \in Sessions /\ rpc'[emutex'[d]] \in {"set_timeout", "send"}
      <3>1. CASE d = e
        BY <3>1
      <3>2. CASE d # e
        <4>1. /\ Idle(d)' <=> Idle(d)
              /\ emutex[d] \in Sessions => rpc'[emutex[d]] = rpc[emutex[d]]
          BY <3>2, ElsewhereKept
        <4>2. emutex'[d] = emutex[d] /\ (d \in ToSet(idle_list') <=> d \in ToSet(idle_list))
          BY <3>2 DEF Elsewhere
        <4>3. ListOK
          BY DEF IInv
        <4> QED
          BY <4>1, <4>2, <4>3 DEF ListOK
      <3> QED
        BY <3>1, <3>2
    <2> QED
      BY <2>1 DEF ListOK
  <1>3. ASSUME NEW s \in Sessions, Apart(s, e) PROVE SessionOK(s)'
    <2>1. SessionOK(s) /\ SessionSame(s)
      BY <1>3 DEF IInv, Apart
    <2>2. Waits(s)' <=> Waits(s)
      BY <2>1 DEF SessionSame, Waits
    <2>3. PICK x : x = rconn[s]
      OBVIOUS
    <2>4. ASSUME Waits(s)
          PROVE  x \in Conns /\ Awaiting(x)' /\ esession'[x] = s
      <3>1. x \in Conns /\ Awaiting(x) /\ esession[x] = s
        BY <2>1, <2>3, <2>4 DEF SessionOK
      <3>2. CASE x = e
        BY <1>3, <2>3, <2>4, <3>2 DEF Apart
      <3>3. CASE x # e
        BY <3>1, <3>3, ElsewhereKept DEF Elsewhere
      <3> QED
        BY <3>1, <3>2, <3>3
    <2>5. rconn'[s] = x /\ (Waits(s)' => x \in Conns /\ Awaiting(x)' /\ esession'[x] = s)
      BY <2>1, <2>2, <2>3, <2>4 DEF SessionSame
    <2> QED
      BY <2>1, <2>5 DEF SessionOK, SessionSame
  <1> QED
    BY <1>1, <1>2, <1>3 DEF IInv

-----------------------------------------------------------------------------
(* Taking a node out of the poller *)

QueueGood == \A i \in 1 .. Len(msgqueue) : GoodResult(msgqueue[i]) /\ ItsSession(msgqueue[i])
PipesGood == \A d \in Conns : \A i \in 1 .. Len(pipe[d]) : FromPipe(pipe[d][i], d)

LEMMA ResultsAre == ResultsOK <=> QueueGood /\ PipesGood /\ \A h \in Handlers : GoodJob(h)
  BY DEF ResultsOK, QueueGood, PipesGood

LEMMA QueueGoodKept ==
  ASSUME ShapeOK, QueueGood, esession' = esession,
         msgqueue' = msgqueue \/ \E m \in Res : GoodResult(m) /\ ItsSession(m) /\ Sends(m)
  PROVE  QueueGood'
  <1>0. msgqueue \in Seq(Res)
    BY DEF ShapeOK
  <1>1. \A i \in 1 .. Len(msgqueue') : GoodResult(msgqueue'[i]) /\ ItsSession(msgqueue'[i])
    <2>1. CASE msgqueue' = msgqueue
      BY <2>1 DEF QueueGood
    <2>2. ASSUME NEW m \in Res, GoodResult(m), ItsSession(m), Sends(m),
                 NEW i \in 1 .. Len(msgqueue')
          PROVE  GoodResult(msgqueue'[i]) /\ ItsSession(msgqueue'[i])
      <3>1. \/ i = Len(msgqueue) + 1 /\ msgqueue'[i] = m
            \/ i \in 1 .. Len(msgqueue) /\ msgqueue'[i] = msgqueue[i]
        BY <1>0, <2>2 DEF Sends
      <3> QED
        BY <2>2, <3>1 DEF QueueGood
    <2> QED
      BY <2>1, <2>2
  <1> QED
    BY <1>1 DEF QueueGood, ItsSession

(* What Retire does to the connection's pipe and to the queue. *)
LEMMA RetireOK ==
  ASSUME ShapeOK, ResultsOK, NEW e \in Conns, NEW st \in {"DELETED", "MODIFIED"},
         node[e] \in Ops, st = "MODIFIED" => node[e] = "read",
         Retire(e, st, msgqueue), esession' = esession
  PROVE  /\ pipe' \in [Conns -> Seq(Res)] /\ removed' \in [Conns -> BOOLEAN]
         /\ msgqueue' \in Seq(Res) /\ QueueGood' /\ PipesGood'
         /\ \A d \in Conns : d # e => pipe'[d] = pipe[d] /\ removed'[d] = removed[d]
         /\ \/ msgqueue' = msgqueue
            \/ \E m \in Res : m.conn = e /\ Sends(m)
         /\ removed'[e] = IF stopped[e] = "running" THEN hand[e] # "none" ELSE removed[e]
         /\ stopped[e] # "running" => pipe' = pipe
         /\ Num(msgqueue', Completes(e)) = Num(msgqueue, Completes(e))
         /\ \A op : Num(pipe'[e], Ends(e, op)) + Num(msgqueue', Ends(e, op))
                       = Num(pipe[e], Ends(e, op)) + Num(msgqueue, Ends(e, op))
                         + B(node[e] = op /\ st = "DELETED")
         /\ \A op : stopped[e] = "running" =>
                       Num(pipe'[e], Ends(e, op)) = Num(pipe[e], Ends(e, op))
                                                    + B(node[e] = op /\ st = "DELETED")
  <1> DEFINE m == Result(node[e], st, e)
  <1>1. /\ m \in Res /\ m.conn = e /\ m.op = node[e] /\ (IsEnd(m) <=> st = "DELETED")
        /\ ~IsSuccess(m) /\ GoodResult(m) /\ ItsSession(m) /\ FromPipe(m, e)
    BY DEF Result, Res, GoodResult, ItsSession, IsEnd, IsSuccess, Ops, FromPipe
  <1>2. IF stopped[e] # "running"
        THEN Sends(m) /\ pipe' = pipe /\ removed' = removed
        ELSE /\ msgqueue' = msgqueue /\ pipe' = [pipe EXCEPT ![e] = Append(@, m)]
             /\ removed' = [removed EXCEPT ![e] = hand[e] # "none"]
    BY DEF Retire, Sends
  <1> HIDE DEF m
  <1>3. pipe \in [Conns -> Seq(Res)] /\ removed \in [Conns -> BOOLEAN] /\ msgqueue \in Seq(Res)
        /\ pipe[e] \in Seq(Res)
    BY DEF ShapeOK
  <1>4. QueueGood'
    BY <1>1, <1>2, ResultsAre, QueueGoodKept
  <1>5. \A op : B(m \in Ends(e, op)) = B(node[e] = op /\ st = "DELETED")
    BY <1>1 DEF Ends, B
  <1>6. B(m \in Completes(e)) = 0 /\ Num(msgqueue, Completes(e)) \in Nat
    BY <1>1, QueueNum DEF Completes, B
  <1>7. \A op : /\ Num(pipe[e], Ends(e, op)) \in Nat /\ Num(msgqueue, Ends(e, op)) \in Nat
                /\ B(node[e] = op /\ st = "DELETED") \in Nat
    BY PipeNum, QueueNum DEF B
  <1>8. CASE stopped[e] # "running"
    <2>1. Sends(m) /\ pipe' = pipe /\ removed' = removed
      BY <1>2, <1>8
    <2>2. \A S : Num(msgqueue', S) = Num(msgqueue, S) + B(m \in S)
      BY <1>1, <2>1, SendNum DEF Sends
    <2>3. Num(msgqueue', Completes(e)) = Num(msgqueue, Completes(e))
      BY <1>6, <2>2
    <2>4. \A op : Num(pipe'[e], Ends(e, op)) + Num(msgqueue', Ends(e, op))
                       = Num(pipe[e], Ends(e, op)) + Num(msgqueue, Ends(e, op))
                         + B(node[e] = op /\ st = "DELETED")
      BY <1>5, <1>7, <2>1, <2>2
    <2>5. PipesGood'
      BY <2>1, ResultsAre DEF PipesGood
    <2>6. msgqueue' \in Seq(Res)
      BY <1>1, <1>3, <2>1 DEF Sends
    <2> QED
      BY <1>1, <1>3, <1>4, <1>8, <2>1, <2>3, <2>4, <2>5, <2>6
  <1>9. CASE stopped[e] = "running"
    <2>1. /\ msgqueue' = msgqueue /\ pipe' = [pipe EXCEPT ![e] = Append(@, m)]
          /\ removed' = [removed EXCEPT ![e] = hand[e] # "none"]
      BY <1>2, <1>9
    <2>2. /\ pipe' \in [Conns -> Seq(Res)] /\ removed' \in [Conns -> BOOLEAN]
          /\ pipe'[e] = Append(pipe[e], m) /\ removed'[e] = (hand[e] # "none")
          /\ \A d \in Conns : d # e => pipe'[d] = pipe[d] /\ removed'[d] = removed[d]
      BY <1>1, <1>3, <2>1
    <2>3. \A S : Num(pipe'[e], S) = Num(pipe[e], S) + B(m \in S)
      BY <1>1, <1>3, <2>2, NumAppend
    <2>4. \A op : Num(pipe'[e], Ends(e, op)) = Num(pipe[e], Ends(e, op))
                                               + B(node[e] = op /\ st = "DELETED")
      BY <1>5, <2>3
    <2>5. \A op : Num(pipe'[e], Ends(e, op)) + Num(msgqueue', Ends(e, op))
                       = Num(pipe[e], Ends(e, op)) + Num(msgqueue, Ends(e, op))
                         + B(node[e] = op /\ st = "DELETED")
      BY <1>7, <2>1, <2>4
    <2>6. ASSUME NEW d \in Conns, NEW i \in 1 .. Len(pipe'[d]) PROVE FromPipe(pipe'[d][i], d)
      <3>1. CASE d # e
        BY <2>2, <3>1, ResultsAre DEF PipesGood
      <3>2. CASE d = e
        <4>1. \/ i = Len(pipe[e]) + 1 /\ pipe'[d][i] = m
              \/ i \in 1 .. Len(pipe[e]) /\ pipe'[d][i] = pipe[e][i]
          BY <1>3, <2>2, <3>2
        <4> QED
          BY <1>1, <3>2, <4>1, ResultsAre DEF PipesGood
      <3> QED
        BY <3>1, <3>2
    <2>7. PipesGood'
      BY <2>6 DEF PipesGood
    <2> QED
      BY <1>3, <1>4, <1>9, <2>1, <2>2, <2>4, <2>5, <2>7
  <1> QED
    BY <1>8, <1>9

(* And poller_del: the node's token moves, and the thread that has the node *)
(* in hand is left without.                                                 *)
LEMMA PollerDelOK ==
  ASSUME ShapeOK, ResultsOK, NEW e \in Conns, HandOK(e), PollerDel(e), esession' = esession
  PROVE  /\ pipe' \in [Conns -> Seq(Res)] /\ removed' \in [Conns -> BOOLEAN]
         /\ node' \in [Conns -> Ops \cup {"none"}] /\ node'[e] = "none"
         /\ msgqueue' \in Seq(Res) /\ QueueGood' /\ PipesGood'
         /\ \A d \in Conns : d # e => /\ pipe'[d] = pipe[d] /\ removed'[d] = removed[d]
                                      /\ node'[d] = node[d]
         /\ \/ msgqueue' = msgqueue
            \/ \E m \in Res : m.conn = e /\ Sends(m)
         /\ Num(msgqueue', Completes(e)) = Num(msgqueue, Completes(e))
         /\ \A op \in Ops :
               B(node'[e] = op) + Num(pipe'[e], Ends(e, op)) + Num(msgqueue', Ends(e, op))
                  = B(node[e] = op) + Num(pipe[e], Ends(e, op)) + Num(msgqueue, Ends(e, op))
         /\ hand[e] = "none" => ~removed'[e]
         /\ hand[e] # "none" => removed'[e] /\ \E op \in {"read", "write"} :
                                                  Num(pipe'[e], Ends(e, op)) > 0
         /\ stopped[e] # "running" => pipe' = pipe
  <1>1. CASE node[e] = "none"
    <2>1. node' = node /\ pipe' = pipe /\ removed' = removed /\ msgqueue' = msgqueue
      BY <1>1 DEF PollerDel
    <2>2. QueueGood' /\ PipesGood'
      BY <2>1, ResultsAre DEF QueueGood, PipesGood, ItsSession
    <2>3. /\ hand[e] = "none" => ~removed'[e]
          /\ hand[e] # "none" => removed'[e] /\ \E op \in {"read", "write"} :
                                                  Num(pipe'[e], Ends(e, op)) > 0
      BY <1>1, <2>1 DEF HandOK
    <2>4. /\ pipe' \in [Conns -> Seq(Res)] /\ removed' \in [Conns -> BOOLEAN]
          /\ node' \in [Conns -> Ops \cup {"none"}] /\ msgqueue' \in Seq(Res)
      BY <2>1 DEF ShapeOK
    <2> QED
      BY <1>1, <2>1, <2>2, <2>3, <2>4
  <1>2. CASE node[e] # "none"
    <2>1. node[e] \in Ops /\ node \in [Conns -> Ops \cup {"none"}]
      BY <1>2, Types DEF ShapeOK
    <2>2. node' = [node EXCEPT ![e] = "none"] /\ Retire(e, "DELETED", msgqueue)
      BY <1>2 DEF PollerDel
    <2>3. /\ node' \in [Conns -> Ops \cup {"none"}] /\ node'[e] = "none"
          /\ \A d \in Conns : d # e => node'[d] = node[d]
      BY <2>1, <2>2
    <2>4. /\ pipe' \in [Conns -> Seq(Res)] /\ removed' \in [Conns -> BOOLEAN]
          /\ msgqueue' \in Seq(Res) /\ QueueGood' /\ PipesGood'
          /\ \A d \in Conns : d # e => pipe'[d] = pipe[d] /\ removed'[d] = removed[d]
          /\ \/ msgqueue' = msgqueue
             \/ \E m \in Res : m.conn = e /\ Sends(m)
          /\ removed'[e] = IF stopped[e] = "running" THEN hand[e] # "none" ELSE removed[e]
          /\ stopped[e] # "running" => pipe' = pipe
          /\ Num(msgqueue', Completes(e)) = Num(msgqueue, Completes(e))
      BY <2>1, <2>2, RetireOK
    <2>5. \A op : /\ Num(pipe'[e], Ends(e, op)) + Num(msgqueue', Ends(e, op))
                       = Num(pipe[e], Ends(e, op)) + Num(msgqueue, Ends(e, op)) + B(node[e] = op)
                  /\ stopped[e] = "running" =>
                       Num(pipe'[e], Ends(e, op)) = Num(pipe[e], Ends(e, op)) + B(node[e] = op)
      BY <2>1, <2>2, RetireOK
    <2>6. \A op : Num(pipe[e], Ends(e, op)) \in Nat /\ Num(msgqueue, Ends(e, op)) \in Nat
      BY PipeNum, QueueNum
    <2>7. \A op : Num(pipe'[e], Ends(e, op)) \in Nat /\ Num(msgqueue', Ends(e, op)) \in Nat
      <3>1. pipe'[e] \in Seq(Res)
        BY <2>4
      <3> QED
        BY <2>4, <3>1, NumPositive
    <2>8. \A op \in Ops : B(node'[e] = op) = 0 /\ B(node[e] = op) \in Nat
      BY <2>3 DEF B, Ops
    <2>9. \A op \in Ops :
             B(node'[e] = op) + Num(pipe'[e], Ends(e, op)) + Num(msgqueue', Ends(e, op))
                = B(node[e] = op) + Num(pipe[e], Ends(e, op)) + Num(msgqueue, Ends(e, op))
      BY <2>5, <2>6, <2>7, <2>8
    <2>10. /\ hand[e] = "none" => ~removed'[e]
           /\ hand[e] # "none" => removed'[e] /\ \E op \in {"read", "write"} :
                                                   Num(pipe'[e], Ends(e, op)) > 0
      <3>1. CASE hand[e] = "none"
        BY <2>4, <3>1 DEF HandOK
      <3>2. CASE hand[e] # "none"
        <4>1. stopped[e] = "running" /\ node[e] \in {"read", "write"}
          BY <1>2, <3>2 DEF HandOK
        <4>2. Num(pipe'[e], Ends(e, node[e])) > 0
          <5>1. B(node[e] = node[e]) = 1
            BY DEF B
          <5> QED
            BY <2>5, <2>6, <4>1, <5>1
        <4> QED
          BY <2>4, <3>2, <4>1, <4>2
      <3> QED
        BY <3>1, <3>2
    <2> QED
      BY <2>3, <2>4, <2>9, <2>10
  <1> QED
    BY <1>1, <1>2

-----------------------------------------------------------------------------
(* Where a token may be *)

LEMMA NodeIsToken ==
  ASSUME ShapeOK, NEW e \in Conns, NEW op
  PROVE  /\ node[e] = op => Ending(e, op) > 0
         /\ Num(pipe[e], Ends(e, op)) > 0 => Ending(e, op) > 0
  <1>1. PICK x \in Nat, y \in Nat, z \in Nat :
           /\ x = Num(pipe[e], Ends(e, op)) /\ y = Num(msgqueue, Ends(e, op))
           /\ z = JNum(Ends(e, op), {op})
    BY CountTypes
  <1>2. Ending(e, op) = B(node[e] = op) + x + y + z
    BY <1>1 DEF Ending
  <1>3. B(node[e] = op) \in {0, 1} /\ (node[e] = op => B(node[e] = op) = 1)
    BY DEF B
  <1> QED
    BY <1>1, <1>2, <1>3

LEMMA HandIsToken ==
  ASSUME ShapeOK, NEW e \in Conns, HandOK(e), hand[e] # "none"
  PROVE  Ending(e, "read") > 0 \/ Ending(e, "write") > 0
  BY NodeIsToken DEF HandOK

LEMMA AppendCompleteStep ==
  ASSUME IInv, NEW e \in Conns, AppendComplete(e)
  PROVE  IInv'
  <1>1. /\ ShapeOK /\ ResultsOK /\ RefOK(e) /\ StateOK(e) /\ HandOK(e) /\ UseOK(e) /\ OwnerOK(e)
        /\ ListOK /\ LockOK /\ StopOK
    BY DEF IInv, EntryOK
  <1>2. /\ hand[e] = "append" /\ state[e] = "receiving" /\ stopped[e] = "running"
        /\ state' = [state EXCEPT ![e] = "success"] /\ hand' = [hand EXCEPT ![e] = "success"]
        /\ ref' = ref /\ esession' = esession /\ emutex' = emutex /\ memory' = memory
        /\ idle_list' = idle_list /\ partial' = partial /\ stopped' = stopped
        /\ HandlersStay /\ hsession' = hsession /\ houtcome' = houtcome
        /\ rpc' = rpc /\ rconn' = rconn /\ released' = released /\ handled' = handled
        /\ stop_flag' = stop_flag /\ nonblock' = nonblock
    BY <1>1 DEF AppendComplete, HandOK, handlerVars, requestVars, deinitVars, HandlersStay
  <1>3. PICK keep \in BOOLEAN :
           /\ keep_alive' = [keep_alive EXCEPT ![esession[e]] = keep]
           /\ IF keep THEN UNCHANGED <<node, pipe, removed, msgqueue>> ELSE PollerDel(e)
    BY DEF AppendComplete
  <1>4. /\ pipe' \in [Conns -> Seq(Res)] /\ removed' \in [Conns -> BOOLEAN]
        /\ node' \in [Conns -> Ops \cup {"none"}]
        /\ msgqueue' \in Seq(Res) /\ QueueGood' /\ PipesGood'
        /\ \A d \in Conns : d # e => /\ pipe'[d] = pipe[d] /\ removed'[d] = removed[d]
                                     /\ node'[d] = node[d]
        /\ \/ msgqueue' = msgqueue
           \/ \E m \in Res : m.conn = e /\ Sends(m)
        /\ Num(msgqueue', Completes(e)) = Num(msgqueue, Completes(e))
        /\ \A op \in Ops :
              B(node'[e] = op) + Num(pipe'[e], Ends(e, op)) + Num(msgqueue', Ends(e, op))
                 = B(node[e] = op) + Num(pipe[e], Ends(e, op)) + Num(msgqueue, Ends(e, op))
        /\ ~removed'[e] => node'[e] = "read"
        /\ removed'[e] => \/ node'[e] = "write"
                          \/ node'[e] = "none" /\ \E op \in {"read", "write"} :
                                 Num(pipe'[e], Ends(e, op)) > 0
    <2>1. CASE keep
      <3>1. node' = node /\ pipe' = pipe /\ removed' = removed /\ msgqueue' = msgqueue
        BY <1>3, <2>1
      <3>2. QueueGood' /\ PipesGood'
        BY <1>1, <1>2, <3>1, ResultsAre DEF QueueGood, PipesGood, ItsSession
      <3>3. /\ ~removed'[e] => node'[e] = "read"
            /\ removed'[e] => \/ node'[e] = "write"
                              \/ node'[e] = "none" /\ \E op \in {"read", "write"} :
                                     Num(pipe'[e], Ends(e, op)) > 0
        BY <1>1, <1>2, <3>1 DEF HandOK
      <3>4. /\ pipe' \in [Conns -> Seq(Res)] /\ removed' \in [Conns -> BOOLEAN]
            /\ node' \in [Conns -> Ops \cup {"none"}] /\ msgqueue' \in Seq(Res)
        BY <1>1, <3>1 DEF ShapeOK
      <3> QED
        BY <3>1, <3>2, <3>3, <3>4
    <2>2. CASE ~keep
      <3>1. PollerDel(e)
        BY <1>3, <2>2
      <3> QED
        BY <1>1, <1>2, <3>1, PollerDelOK
    <2> QED
      BY <2>1, <2>2
  <1>5. /\ state'[e] = "success" /\ hand'[e] = "success"
        /\ \A d \in Conns : d # e => state'[d] = state[d] /\ hand'[d] = hand[d]
        /\ keep_alive' \in [Sessions -> BOOLEAN]
    BY <1>1, <1>2, <1>3 DEF ShapeOK
  <1>6. ShapeOK'
    BY <1>1, <1>2, <1>4, <1>5 DEF ShapeOK, HandlersStay
  <1>7. ResultsOK'
    <2>1. ASSUME NEW h \in Handlers PROVE GoodJob(h)'
      <3>1. GoodJob(h)
        BY <1>1 DEF ResultsOK
      <3> QED
        BY <1>2, <3>1 DEF GoodJob, ItsSession, HandlersStay
    <2>2. QueueGood' /\ PipesGood'
      BY <1>4
    <2> QED
      BY <2>1, <2>2 DEF ResultsOK, QueueGood, PipesGood
  <1>8. \A s \in Sessions : SessionSame(s)
    BY <1>2 DEF SessionSame, Told, Finishers, HandlersStay
  <1>9. ASSUME NEW d \in Conns, d # e PROVE Elsewhere(d)
    <2>1. SameHand(d) /\ HandsSame(d)
      BY <1>2, <1>4, <1>5, <1>9, HandsStay DEF SameHand
    <2>2. \/ msgqueue' = msgqueue
          \/ \E m \in Res : m.conn # d /\ Sends(m)
      BY <1>4, <1>9
    <2>3. SameTokens(d)
      BY <1>1, <2>1, <2>2, ElsewhereWith
    <2> QED
      BY <1>2, <1>5, <1>8, <1>9, <2>1, <2>3 DEF Elsewhere, UnlockerSame, HandlersStay
  <1>10. /\ Ending(e, "connect")' = Ending(e, "connect") /\ Ending(e, "read")' = Ending(e, "read")
         /\ Ending(e, "write")' = Ending(e, "write") /\ Complete(e)' = Complete(e) + 1
         /\ Held(e, "connect")' = Held(e, "connect") /\ Held(e, "read")' = Held(e, "read")
         /\ Held(e, "write")' = Held(e, "write")
    <2>1. HandsSame(e)
      BY <1>2, HandsStay
    <2>2. \A op \in Ops : Ending(e, op)' = Ending(e, op)
      <3> SUFFICES ASSUME NEW op \in Ops PROVE Ending(e, op)' = Ending(e, op)
        OBVIOUS
      <3>1. JNum(Ends(e, op), {op})' = JNum(Ends(e, op), {op})
        BY <2>1 DEF HandsSame
      <3>2. B(node'[e] = op) + Num(pipe'[e], Ends(e, op)) + Num(msgqueue', Ends(e, op))
                 = B(node[e] = op) + Num(pipe[e], Ends(e, op)) + Num(msgqueue, Ends(e, op))
        BY <1>4
      <3> QED
        BY <3>1, <3>2 DEF Ending
    <2>3. Complete(e)' = Complete(e) + 1
      <3>1. B(hand[e] = "success") = 0 /\ B(hand'[e] = "success") = 1
        BY <1>2, <1>5 DEF B
      <3>2. PICK x \in Nat, y \in Nat : x = Num(msgqueue, Completes(e)) /\ y = JNum(Completes(e), {"read"})
        BY <1>1, CountTypes
      <3>3. x = Num(msgqueue', Completes(e)) /\ y = JNum(Completes(e), {"read"})'
        BY <1>4, <2>1, <3>2 DEF HandsSame
      <3> QED
        BY <3>1, <3>2, <3>3 DEF Complete
    <2> QED
      BY <2>1, <2>2, <2>3 DEF HandsSame, Ops
  <1>11. /\ Ending(e, "connect") = 0 /\ Ending(e, "write") = 0 /\ Ending(e, "read") = 1
         /\ Complete(e) = 0 /\ Held(e, "connect") = 0
         /\ Held(e, "read") \in Nat /\ Held(e, "write") \in Nat
    <2>1. /\ Ending(e, "connect") \in Nat /\ Ending(e, "read") \in Nat /\ Ending(e, "write") \in Nat
          /\ Complete(e) \in Nat /\ Held(e, "connect") \in Nat /\ Held(e, "read") \in Nat
          /\ Held(e, "write") \in Nat
      BY <1>1, CountTypes
    <2>2. Ending(e, "read") > 0 \/ Ending(e, "write") > 0
      BY <1>1, <1>2, HandIsToken
    <2> QED
      BY <1>1, <1>2, <2>1, <2>2 DEF StateOK
  <1>12. RefOK(e)'
    <2>1. B(state[e] = "success") = 0 /\ B(state'[e] = "success") = 1
      BY <1>2, <1>5 DEF B
    <2>2. Tokens(e)' = Tokens(e) + 1 /\ Tokens(e) > 0
      BY <1>10, <1>11 DEF Tokens
    <2>3. memory[e] = "live" /\ ref[e] >= 1 /\ ref[e] \in Int
          /\ ref[e] + B(state[e] = "success") = Tokens(e)
      BY <1>1, <2>2, Types DEF RefOK
    <2>4. Tokens(e) \in Int
      BY <2>1, <2>3
    <2>5. ref'[e] + B(state'[e] = "success") = Tokens(e)'
      BY <1>2, <2>1, <2>2, <2>3, <2>4
    <2> QED
      BY <1>2, <1>5, <2>3, <2>5 DEF RefOK
  <1>13. StateOK(e)'
    BY <1>5, <1>10, <1>11 DEF StateOK
  <1>14. HandOK(e)'
    BY <1>1, <1>2, <1>4, <1>5 DEF HandOK
  <1>15. UseOK(e)'
    <2>1. emutex[e] \in Sessions => rpc[emutex[e]] \notin {"set_timeout", "send"}
      BY <1>1, <1>2 DEF UseOK, Idle
    <2> QED
      BY <1>1, <1>2, <1>5, <1>10, <1>11, <2>1 DEF UseOK, HandlersStay
  <1>16. Awaiting(e) /\ Awaiting(e)'
    BY <1>2, <1>10, <1>11 DEF Awaiting
  <1>17. OwnerOK(e)'
    <2>1. PICK s : s = esession[e]
      OBVIOUS
    <2>2. s \in Sessions /\ rconn[s] = e /\ Waits(s)
      BY <1>1, <1>16, <2>1 DEF OwnerOK
    <2>3. rconn'[s] = e /\ Waits(s)'
      BY <1>8, <2>2 DEF SessionSame, Waits
    <2> QED
      BY <1>2, <2>1, <2>2, <2>3 DEF OwnerOK
  <1>18. ASSUME NEW s \in Sessions PROVE Apart(s, e)
    <2>1. SessionOK(s)
      BY DEF IInv
    <2> QED
      BY <1>2, <1>8, <1>16, <2>1 DEF Apart, SessionOK
  <1>19. LockOK'
    BY <1>1, <1>2 DEF LockOK, HandlersStay
  <1>20. StopOK'
    <2>1. ~nonblock
      BY <1>1, <1>2 DEF StopOK
    <2>2. \A d \in Conns : stopped[d] = "swept" => node'[d] = node[d]
      BY <1>2, <1>4
    <2>3. ~\A h \in Handlers : hpc[h] = "exit"
      BY <1>1, <2>1, ClientAssumption DEF StopOK
    <2> QED
      BY <1>1, <1>2, <2>1, <2>2, <2>3 DEF StopOK, HandlersStay
  <1>21. EntryOK(e)'
    BY <1>12, <1>13, <1>14, <1>15, <1>17 DEF EntryOK
  <1>22. /\ IsInjective(idle_list') /\ ~(e \in ToSet(idle_list')) /\ ~Idle(e)'
    BY <1>1, <1>2, <1>5 DEF ListOK, Idle
  <1> QED
    BY <1>6, <1>7, <1>9, <1>18, <1>19, <1>20, <1>21, <1>22, EntryStep

-----------------------------------------------------------------------------
(* The handler threads *)

EndAt(m, p, d, op) == m.conn = d /\ m.op = op /\ IsEnd(m) /\ p = op
CompleteAt(m, p, d) == m.conn = d /\ m.op = "read" /\ IsSuccess(m) /\ p = "read"
HeldAt(m, p, d, op) == m.conn = d /\ m.op = op /\ p \in Letting
Counted(m, p, d) == \/ \E op \in Ops : EndAt(m, p, d, op) \/ HeldAt(m, p, d, op)
                    \/ CompleteAt(m, p, d)

LEMMA HandsMove ==
  ASSUME NEW h \in Handlers, HandlersElse(h), hres[h] \in Res, hres'[h] \in Res, NEW d, NEW op
  PROVE  /\ JNum(Ends(d, op), {op})' = JNum(Ends(d, op), {op})
               - B(EndAt(hres[h], hpc[h], d, op)) + B(EndAt(hres'[h], hpc'[h], d, op))
         /\ JNum(Completes(d), {"read"})' = JNum(Completes(d), {"read"})
               - B(CompleteAt(hres[h], hpc[h], d)) + B(CompleteAt(hres'[h], hpc'[h], d))
         /\ Held(d, op)' = Held(d, op)
               - B(HeldAt(hres[h], hpc[h], d, op)) + B(HeldAt(hres'[h], hpc'[h], d, op))
  <1>1. \A S, P : JNum(S, P)' = JNum(S, P) - B(hres[h] \in S /\ hpc[h] \in P)
                       + B(hres'[h] \in S /\ hpc'[h] \in P)
    BY JobMove
  <1>2. ASSUME NEW m \in Res, NEW p
        PROVE  /\ m \in Ends(d, op) /\ p \in {op} <=> EndAt(m, p, d, op)
               /\ m \in Completes(d) /\ p \in {"read"} <=> CompleteAt(m, p, d)
               /\ m \in OfEntry(d, op) /\ p \in Letting <=> HeldAt(m, p, d, op)
    BY <1>2, EndsIs DEF EndAt, CompleteAt, HeldAt
  <1>3. \A m \in Res : \A p :
               /\ B(m \in Ends(d, op) /\ p \in {op}) = B(EndAt(m, p, d, op))
               /\ B(m \in Completes(d) /\ p \in {"read"}) = B(CompleteAt(m, p, d))
               /\ B(m \in OfEntry(d, op) /\ p \in Letting) = B(HeldAt(m, p, d, op))
    BY <1>2 DEF B
  <1>4. JNum(Ends(d, op), {op})' = JNum(Ends(d, op), {op})
               - B(EndAt(hres[h], hpc[h], d, op)) + B(EndAt(hres'[h], hpc'[h], d, op))
    BY <1>1, <1>3
  <1>5. JNum(Completes(d), {"read"})' = JNum(Completes(d), {"read"})
               - B(CompleteAt(hres[h], hpc[h], d)) + B(CompleteAt(hres'[h], hpc'[h], d))
    BY <1>1, <1>3
  <1>6. Held(d, op)' = Held(d, op)
               - B(HeldAt(hres[h], hpc[h], d, op)) + B(HeldAt(hres'[h], hpc'[h], d, op))
    BY <1>1, <1>3 DEF Held
  <1> QED
    BY <1>4, <1>5, <1>6

LEMMA CompletesMove ==
  ASSUME NEW h \in Handlers, HandlersElse(h), hres[h] \in Res, hres'[h] \in Res, NEW d
  PROVE  JNum(Completes(d), {"read"})' = JNum(Completes(d), {"read"})
               - B(CompleteAt(hres[h], hpc[h], d)) + B(CompleteAt(hres'[h], hpc'[h], d))
  <1>1. \A op : JNum(Completes(d), {"read"})' = JNum(Completes(d), {"read"})
               - B(CompleteAt(hres[h], hpc[h], d)) + B(CompleteAt(hres'[h], hpc'[h], d))
    BY HandsMove
  <1> QED
    BY <1>1

LEMMA HandsElsewhere ==
  ASSUME NEW h \in Handlers, HandlersElse(h), hres[h] \in Res, hres'[h] \in Res, NEW d,
         ~Counted(hres[h], hpc[h], d), ~Counted(hres'[h], hpc'[h], d)
  PROVE  HandsSame(d)
  <1> SUFFICES ASSUME NEW op \in Ops
               PROVE  /\ JNum(Ends(d, op), {op})' = JNum(Ends(d, op), {op})
                      /\ Held(d, op)' = Held(d, op)
                      /\ JNum(Completes(d), {"read"})' = JNum(Completes(d), {"read"})
    BY DEF HandsSame, Ops
  <1>1. /\ ~EndAt(hres[h], hpc[h], d, op) /\ ~EndAt(hres'[h], hpc'[h], d, op)
        /\ ~HeldAt(hres[h], hpc[h], d, op) /\ ~HeldAt(hres'[h], hpc'[h], d, op)
        /\ ~CompleteAt(hres[h], hpc[h], d) /\ ~CompleteAt(hres'[h], hpc'[h], d)
    BY DEF Counted
  <1>2. /\ B(EndAt(hres[h], hpc[h], d, op)) = 0 /\ B(EndAt(hres'[h], hpc'[h], d, op)) = 0
        /\ B(HeldAt(hres[h], hpc[h], d, op)) = 0 /\ B(HeldAt(hres'[h], hpc'[h], d, op)) = 0
        /\ B(CompleteAt(hres[h], hpc[h], d)) = 0 /\ B(CompleteAt(hres'[h], hpc'[h], d)) = 0
    BY <1>1 DEF B
  <1>3. PICK x \in Nat, y \in Nat, z \in Nat :
           /\ x = JNum(Ends(d, op), {op}) /\ y = Held(d, op) /\ z = JNum(Completes(d), {"read"})
    BY JNumPositive DEF Held
  <1>4. JNum(Ends(d, op), {op})' = x - 0 + 0 /\ Held(d, op)' = y - 0 + 0
        /\ JNum(Completes(d), {"read"})' = z - 0 + 0
    BY <1>2, <1>3, HandsMove
  <1> QED
    BY <1>3, <1>4

LEMMA JobIsToken ==
  ASSUME ShapeOK, NEW e \in Conns, NEW h \in Handlers, hres[h].conn = e
  PROVE  /\ IsEnd(hres[h]) /\ hpc[h] = hres[h].op => Ending(e, hpc[h]) > 0
         /\ IsSuccess(hres[h]) /\ hpc[h] = "read" /\ hres[h].op = "read" => Complete(e) > 0
         /\ hpc[h] \in Letting => Held(e, hres[h].op) > 0
  <1>1. hres[h] \in Res
    BY DEF ShapeOK
  <1>2. PICK p : p = hpc[h]
    OBVIOUS
  <1>3. ASSUME IsEnd(hres[h]), hpc[h] = hres[h].op PROVE Ending(e, p) > 0
    <2>1. JNum(Ends(e, p), {p}) > 0
      BY <1>1, <1>2, <1>3, EndsIs, JNumPositive
    <2>2. PICK x \in Nat, y \in Nat, z \in Nat, u \in Nat :
             /\ x = Num(pipe[e], Ends(e, p)) /\ y = Num(msgqueue, Ends(e, p))
             /\ z = JNum(Ends(e, p), {p}) /\ u = B(node[e] = p)
      BY CountTypes
    <2> QED
      BY <2>1, <2>2 DEF Ending
  <1>4. ASSUME IsSuccess(hres[h]), hpc[h] = "read", hres[h].op = "read" PROVE Complete(e) > 0
    <2>1. JNum(Completes(e), {"read"}) > 0
      BY <1>1, <1>4, EndsIs, JNumPositive
    <2>2. PICK x \in Nat, y \in Nat, z \in Nat :
             /\ x = B(hand[e] = "success") /\ y = Num(msgqueue, Completes(e))
             /\ z = JNum(Completes(e), {"read"})
      BY CountTypes
    <2> QED
      BY <2>1, <2>2 DEF Complete
  <1>5. hpc[h] \in Letting => Held(e, hres[h].op) > 0
    BY <1>1, EndsIs, JNumPositive DEF Held
  <1> QED
    BY <1>2, <1>3, <1>4, <1>5

(* A handler moves on, and no token does.                                   *)
LEMMA HandlerQuiet ==
  ASSUME IInv, NEW h \in Handlers, HandlersElse(h), \A d \in Conns : SameTokens(d),
         entryVars' = entryVars, requestVars' = requestVars, sessionVars' = sessionVars,
         hsession' = hsession, hpc[h] \notin {"finish", "unlock"}, hpc'[h] \notin {"finish", "unlock"}
  PROVE  /\ \A d \in Conns : (RefOK(d) /\ StateOK(d) /\ UseOK(d) /\ OwnerOK(d))'
         /\ LockOK' /\ ListOK' /\ \A s \in Sessions : SessionOK(s)'
  <1>1. \A s \in Sessions : Finishers(s)' = Finishers(s)
    BY DEF Finishers, HandlersElse
  <1>2. Quiet
    BY <1>1 DEF Quiet, entryVars, requestVars, sessionVars, HandlersElse
  <1> QED
    BY <1>2, QuietStep

LEMMA JobsKept ==
  ASSUME ResultsOK, NEW h \in Handlers, HandlersElse(h), esession' = esession,
         \A g \in Handlers : g # h => hsession'[g] = hsession[g] /\ houtcome'[g] = houtcome[g]
  PROVE  \A g \in Handlers : g # h => GoodJob(g)'
  <1> SUFFICES ASSUME NEW g \in Handlers, g # h PROVE GoodJob(g)'
    OBVIOUS
  <1>1. GoodJob(g) /\ hres'[g] = hres[g] /\ hpc'[g] = hpc[g]
        /\ hsession'[g] = hsession[g] /\ houtcome'[g] = houtcome[g]
    BY DEF ResultsOK, HandlersElse
  <1> QED
    BY <1>1 DEF GoodJob, ItsSession

LEMMA JobTypes ==
  ASSUME ShapeOK, NEW h \in Handlers
  PROVE  /\ hres[h] \in Res /\ hpc[h] \in {"get", "stopcheck", "unlock", "exit"} \cup Ops \cup Letting
         /\ hsession[h] \in Sessions \cup {None}
  BY DEF ShapeOK

LEMMA TakeResultStep ==
  ASSUME IInv, NEW h \in Handlers, TakeResult(h)
  PROVE  IInv'
  <1>1. ShapeOK /\ ResultsOK /\ StopOK
    BY DEF IInv
  <1>2. PICK m : m = Head(msgqueue)
    OBVIOUS
  <1>3. /\ hpc[h] = "get" /\ msgqueue # <<>> /\ msgqueue' = Tail(msgqueue)
        /\ hres' = [hres EXCEPT ![h] = m] /\ hpc' = [hpc EXCEPT ![h] = m.op]
        /\ hsession' = hsession /\ houtcome' = houtcome
        /\ UNCHANGED <<entryVars, pollerVars, requestVars, sessionVars, deinitVars>>
    BY <1>2 DEF TakeResult, Goto
  <1>4. msgqueue \in Seq(Res) /\ hres \in [Handlers -> Res]
        /\ hpc \in [Handlers -> {"get", "stopcheck", "unlock", "exit"} \cup Ops \cup Letting]
    BY <1>1 DEF ShapeOK
  <1>5. m \in Res /\ m = msgqueue[1] /\ 1 \in 1 .. Len(msgqueue) /\ Tail(msgqueue) \in Seq(Res)
    BY <1>2, <1>3, <1>4
  <1>6. GoodResult(m) /\ ItsSession(m) /\ m.op \in Ops
    BY <1>1, <1>5 DEF ResultsOK, GoodResult
  <1>7. /\ hres'[h] = m /\ hpc'[h] = m.op /\ HandlersElse(h)
        /\ hres' \in [Handlers -> Res]
        /\ hpc' \in [Handlers -> {"get", "stopcheck", "unlock", "exit"} \cup Ops \cup Letting]
    BY <1>3, <1>4, <1>5, <1>6 DEF HandlersElse
  <1>8. ASSUME NEW d \in Conns PROVE SameTokens(d)
    <2>1. node'[d] = node[d] /\ pipe'[d] = pipe[d] /\ hand'[d] = hand[d]
      BY <1>3 DEF pollerVars
    <2>2. \A S : Num(msgqueue', S) = Num(msgqueue, S) - B(m \in S)
      BY <1>1, <1>2, <1>3, TakeNum
    <2>3. ASSUME NEW op \in Ops PROVE Ending(d, op)' = Ending(d, op) /\ Held(d, op)' = Held(d, op)
      <3>1. /\ ~EndAt(hres[h], hpc[h], d, op) /\ ~HeldAt(hres[h], hpc[h], d, op)
            /\ ~HeldAt(m, m.op, d, op)
            /\ EndAt(m, m.op, d, op) <=> m \in Ends(d, op)
        BY <1>3, <1>5, <1>6, EndsIs DEF EndAt, HeldAt, Ops, Letting
      <3>2. /\ B(EndAt(hres[h], hpc[h], d, op)) = 0 /\ B(HeldAt(hres[h], hpc[h], d, op)) = 0
            /\ B(HeldAt(m, m.op, d, op)) = 0
            /\ B(EndAt(m, m.op, d, op)) = B(m \in Ends(d, op))
        BY <3>1 DEF B
      <3>3. PICK a \in Nat, x \in Nat, y \in Nat, z \in Nat, u \in Nat, v \in Nat :
               /\ a = B(node[d] = op) /\ x = Num(pipe[d], Ends(d, op)) /\ y = Num(msgqueue, Ends(d, op))
               /\ z = JNum(Ends(d, op), {op}) /\ u = Held(d, op) /\ v = B(m \in Ends(d, op))
        <4>1. B(m \in Ends(d, op)) \in Nat
          BY DEF B
        <4> QED
          BY <1>1, <4>1, CountTypes
      <3>4. JNum(Ends(d, op), {op})' = z + v /\ Held(d, op)' = u
        BY <1>4, <1>5, <1>7, <3>2, <3>3, HandsMove
      <3>5. Num(msgqueue', Ends(d, op)) = y - v
        BY <2>2, <3>3
      <3>6. Ending(d, op)' = a + x + (y - v) + (z + v)
        BY <2>1, <3>3, <3>4, <3>5 DEF Ending
      <3>7. Ending(d, op) = a + x + y + z
        BY <3>3 DEF Ending
      <3> QED
        BY <3>3, <3>4, <3>6, <3>7
    <2>4. Complete(d)' = Complete(d)
      <3>1. /\ ~CompleteAt(hres[h], hpc[h], d)
            /\ CompleteAt(m, m.op, d) <=> m \in Completes(d)
        BY <1>3, <1>5, EndsIs DEF CompleteAt
      <3>2. B(CompleteAt(hres[h], hpc[h], d)) = 0
            /\ B(CompleteAt(m, m.op, d)) = B(m \in Completes(d))
        BY <3>1 DEF B
      <3>3. PICK a \in Nat, y \in Nat, z \in Nat, v \in Nat :
               /\ a = B(hand[d] = "success") /\ y = Num(msgqueue, Completes(d))
               /\ z = JNum(Completes(d), {"read"}) /\ v = B(m \in Completes(d))
        <4>1. B(m \in Completes(d)) \in Nat
          BY DEF B
        <4> QED
          BY <1>1, <4>1, CountTypes
      <3>4. JNum(Completes(d), {"read"})' = z + v
        BY <1>4, <1>5, <1>7, <3>2, <3>3, CompletesMove
      <3>5. Num(msgqueue', Completes(d)) = y - v
        BY <2>2, <3>3
      <3>6. Complete(d)' = a + (y - v) + (z + v)
        BY <2>1, <3>3, <3>4, <3>5 DEF Complete
      <3>7. Complete(d) = a + y + z
        BY <3>3 DEF Complete
      <3> QED
        BY <3>3, <3>6, <3>7
    <2> QED
      BY <2>3, <2>4 DEF SameTokens, Ops
  <1>9. /\ \A d \in Conns : (RefOK(d) /\ StateOK(d) /\ UseOK(d) /\ OwnerOK(d))'
        /\ LockOK' /\ ListOK' /\ \A s \in Sessions : SessionOK(s)'
    <2>1. hpc[h] \notin {"finish", "unlock"} /\ hpc'[h] \notin {"finish", "unlock"}
      BY <1>3, <1>6, <1>7 DEF Ops
    <2> QED
      BY <1>3, <1>7, <1>8, <2>1, HandlerQuiet
  <1>10. ShapeOK'
    BY <1>1, <1>3, <1>5, <1>7 DEF ShapeOK, entryVars, pollerVars, requestVars, sessionVars, deinitVars
  <1>11. esession' = esession /\ pipe' = pipe /\ stopped' = stopped /\ node' = node /\ state' = state
         /\ hand' = hand /\ removed' = removed /\ partial' = partial
         /\ rpc' = rpc /\ stop_flag' = stop_flag /\ nonblock' = nonblock
    BY <1>3 DEF entryVars, pollerVars, requestVars, deinitVars
  <1>12. ResultsOK'
    <2>1. ASSUME NEW i \in 1 .. Len(msgqueue')
          PROVE  /\ GoodResult(msgqueue'[i])
                 /\ msgqueue'[i].st = "SUCCESS" => msgqueue'[i].for = esession'[msgqueue'[i].conn]
      <3>1. i + 1 \in 1 .. Len(msgqueue) /\ msgqueue'[i] = msgqueue[i + 1]
        BY <1>3, <1>4
      <3> QED
        BY <1>1, <1>11, <3>1 DEF ResultsOK, ItsSession
    <2>2. GoodJob(h)'
      <3>1. hpc'[h] \in Ops /\ hpc'[h] \notin Letting /\ hpc'[h] \notin {"stopcheck", "unlock", "finish"}
        BY <1>6, <1>7 DEF Ops, Letting
      <3> QED
        BY <1>6, <1>7, <1>11, <3>1 DEF GoodJob, ItsSession
    <2>3. \A g \in Handlers : g # h => GoodJob(g)'
      BY <1>1, <1>3, <1>7, <1>11, JobsKept
    <2> QED
      BY <1>1, <1>11, <2>1, <2>2, <2>3 DEF ResultsOK, ItsSession
  <1>13. ASSUME NEW d \in Conns PROVE HandOK(d)'
    <2>1. HandOK(d)
      BY DEF IInv, EntryOK
    <2> QED
      BY <1>11, <2>1, HandKept DEF SameHand
  <1>14. StopOK'
    <2>1. \A g \in Handlers : hpc[g] = "stopcheck" => hpc'[g] = "stopcheck" /\ hres'[g] = hres[g]
      BY <1>3, <1>7 DEF HandlersElse
    <2>2. \A g \in Handlers : hpc'[g] = "exit" => hpc[g] = "exit"
      BY <1>6, <1>7 DEF HandlersElse, Ops
    <2>3. hpc'[h] # "exit"
      BY <1>6, <1>7 DEF Ops
    <2> QED
      BY <1>1, <1>11, <2>1, <2>2, <2>3 DEF StopOK
  <1>15. \A d \in Conns : EntryOK(d)'
    BY <1>9, <1>13 DEF EntryOK
  <1> QED
    BY <1>9, <1>10, <1>12, <1>14, <1>15 DEF IInv

(* A handler only goes on.                                                  *)
LEMMA HandlerRests ==
  ASSUME IInv, NEW h \in Handlers, NEW p \in {"get", "exit"}, hpc' = [hpc EXCEPT ![h] = p],
         UNCHANGED <<entryVars, pollerVars, msgqueue, hres, hsession, houtcome, requestVars,
                     sessionVars, deinitVars>>,
         hpc[h] = "get" \/ (hpc[h] = "read" /\ hres[h].st = "MODIFIED"),
         p = "exit" => msgqueue = <<>> /\ nonblock
  PROVE  IInv'
  <1>1. ShapeOK /\ ResultsOK /\ StopOK
    BY DEF IInv
  <1>2. /\ esession' = esession /\ pipe' = pipe /\ stopped' = stopped /\ node' = node /\ state' = state
        /\ hand' = hand /\ removed' = removed /\ partial' = partial /\ msgqueue' = msgqueue
        /\ rpc' = rpc /\ stop_flag' = stop_flag /\ nonblock' = nonblock
        /\ hres' = hres /\ hsession' = hsession /\ houtcome' = houtcome
        /\ entryVars' = entryVars /\ requestVars' = requestVars /\ sessionVars' = sessionVars
    BY DEF entryVars, pollerVars, requestVars, deinitVars
  <1>3. /\ HandlersElse(h) /\ hpc'[h] = p /\ hres'[h] = hres[h]
        /\ hpc' \in [Handlers -> {"get", "stopcheck", "unlock", "exit"} \cup Ops \cup Letting]
    BY <1>1, <1>2 DEF ShapeOK, HandlersElse
  <1>4. ASSUME NEW d \in Conns PROVE SameTokens(d)
    <2>1. /\ ~Counted(hres[h], hpc[h], d) /\ ~Counted(hres'[h], hpc'[h], d)
      BY <1>3 DEF Counted, EndAt, HeldAt, CompleteAt, IsEnd, IsSuccess, Ops, Letting
    <2>2. HandsSame(d)
      BY <1>1, <1>3, <2>1, HandsElsewhere, JobTypes
    <2> QED
      BY <1>1, <1>2, <2>2, ElsewhereWith DEF SameHand
  <1>5. /\ \A d \in Conns : (RefOK(d) /\ StateOK(d) /\ UseOK(d) /\ OwnerOK(d))'
        /\ LockOK' /\ ListOK' /\ \A s \in Sessions : SessionOK(s)'
    <2>1. hpc[h] \notin {"finish", "unlock"} /\ hpc'[h] \notin {"finish", "unlock"}
      BY <1>3
    <2> QED
      BY <1>2, <1>3, <1>4, <2>1, HandlerQuiet
  <1>6. ShapeOK'
    BY <1>1, <1>2, <1>3 DEF ShapeOK, entryVars, pollerVars, requestVars, sessionVars, deinitVars
  <1>7. ResultsOK'
    <2>1. \A g \in Handlers : g # h => GoodJob(g)'
      BY <1>1, <1>2, <1>3, JobsKept
    <2>2. GoodJob(h)'
      BY <1>3 DEF GoodJob, Ops, Letting
    <2> QED
      BY <1>1, <1>2, <2>1, <2>2 DEF ResultsOK, ItsSession
  <1>8. ASSUME NEW d \in Conns PROVE HandOK(d)'
    <2>1. HandOK(d)
      BY DEF IInv, EntryOK
    <2> QED
      BY <1>2, <2>1, HandKept DEF SameHand
  <1>9. StopOK'
    <2>1. \A g \in Handlers : hpc[g] = "stopcheck" => hpc'[g] = "stopcheck"
      BY <1>3 DEF HandlersElse
    <2>2. \A g \in Handlers : hpc'[g] = "exit" => hpc[g] = "exit" \/ (msgqueue = <<>> /\ nonblock)
      BY <1>3 DEF HandlersElse
    <2> QED
      BY <1>1, <1>2, <2>1, <2>2 DEF StopOK
  <1>10. \A d \in Conns : EntryOK(d)'
    BY <1>5, <1>8 DEF EntryOK
  <1> QED
    BY <1>5, <1>6, <1>7, <1>9, <1>10 DEF IInv

LEMMA HandlerExitStep ==
  ASSUME IInv, NEW h \in Handlers, HandlerExit(h)
  PROVE  IInv'
  BY HandlerRests DEF HandlerExit, Goto

LEMMA ReadModifiedStep ==
  ASSUME IInv, NEW h \in Handlers, ReadModified(h)
  PROVE  IInv'
  <1>1. UNCHANGED <<entryVars, pollerVars, msgqueue, hres, hsession, houtcome, requestVars,
                    sessionVars, deinitVars>>
    BY DEF ReadModified
  <1>2. hpc' = [hpc EXCEPT ![h] = "get"] /\ hpc[h] = "read" /\ hres[h].st = "MODIFIED"
    BY DEF ReadModified, Goto
  <1> QED
    BY <1>1, <1>2, HandlerRests

(* What a handler does about its own entry is nothing to the others.        *)
LEMMA HandlerElsewhere ==
  ASSUME ShapeOK, NEW h \in Handlers, NEW e \in Conns, hres[h].conn = e, hres' = hres,
         HandlersElse(h), NEW d \in Conns, d # e, SameHand(d),
         \/ msgqueue' = msgqueue
         \/ \E m \in Res : m.conn = e /\ Sends(m)
  PROVE  SameTokens(d) /\ UnlockerSame(d)
  <1>1. ~Counted(hres[h], hpc[h], d) /\ ~Counted(hres'[h], hpc'[h], d)
    BY DEF Counted, EndAt, HeldAt, CompleteAt
  <1>2. hres[h] \in Res /\ hres'[h] \in Res
    BY JobTypes
  <1>3. HandsSame(d)
    BY <1>1, <1>2, HandsElsewhere
  <1>4. \/ msgqueue' = msgqueue
        \/ \E m \in Res : m.conn # d /\ Sends(m)
    OBVIOUS
  <1> QED
    BY <1>3, <1>4, ElsewhereWith DEF UnlockerSame, HandlersElse

LEMMA StopCheckStep ==
  ASSUME IInv, NEW h \in Handlers, StopCheck(h)
  PROVE  IInv'
  <1>1. ShapeOK /\ ResultsOK /\ StopOK
    BY DEF IInv
  <1>2. PICK e : e = hres[h].conn
    OBVIOUS
  <1>3. /\ hpc[h] = "stopcheck" /\ hpc' = [hpc EXCEPT ![h] = "get"]
        /\ IF stop_flag THEN PollerDel(e) ELSE UNCHANGED <<node, pipe, removed, msgqueue>>
        /\ UNCHANGED <<entryVars, hand, partial, stopped, hres, hsession, houtcome,
                       requestVars, sessionVars, deinitVars>>
    BY <1>2 DEF StopCheck, Goto, StopSeen
  <1>4. /\ esession' = esession /\ stopped' = stopped /\ state' = state
        /\ hand' = hand /\ partial' = partial
        /\ rpc' = rpc /\ stop_flag' = stop_flag /\ nonblock' = nonblock
        /\ hres' = hres /\ hsession' = hsession /\ houtcome' = houtcome
        /\ entryVars' = entryVars /\ requestVars' = requestVars /\ sessionVars' = sessionVars
    BY <1>3 DEF entryVars, requestVars, deinitVars
  <1>5. e \in Conns
    BY <1>1, <1>2, <1>3 DEF ResultsOK, GoodJob
  <1>6. HandOK(e)
    BY <1>5 DEF IInv, EntryOK
  <1>7. /\ HandlersElse(h) /\ hpc'[h] = "get" /\ hres'[h] = hres[h]
        /\ hpc' \in [Handlers -> {"get", "stopcheck", "unlock", "exit"} \cup Ops \cup Letting]
    BY <1>1, <1>3, <1>4 DEF ShapeOK, HandlersElse
  <1>8. /\ pipe' \in [Conns -> Seq(Res)] /\ removed' \in [Conns -> BOOLEAN]
        /\ node' \in [Conns -> Ops \cup {"none"}]
        /\ stop_flag => node'[e] = "none"
        /\ ~stop_flag => node' = node
        /\ msgqueue' \in Seq(Res) /\ QueueGood' /\ PipesGood'
        /\ \A d \in Conns : d # e => /\ pipe'[d] = pipe[d] /\ removed'[d] = removed[d]
                                     /\ node'[d] = node[d]
        /\ \/ msgqueue' = msgqueue
           \/ \E m \in Res : m.conn = e /\ Sends(m)
        /\ Num(msgqueue', Completes(e)) = Num(msgqueue, Completes(e))
        /\ \A op \in Ops :
              B(node'[e] = op) + Num(pipe'[e], Ends(e, op)) + Num(msgqueue', Ends(e, op))
                 = B(node[e] = op) + Num(pipe[e], Ends(e, op)) + Num(msgqueue, Ends(e, op))
        /\ HandOK(e)'
    <2>1. CASE ~stop_flag
      <3>1. node' = node /\ pipe' = pipe /\ removed' = removed /\ msgqueue' = msgqueue
        BY <1>3, <2>1
      <3>2. QueueGood' /\ PipesGood'
        BY <1>1, <1>4, <3>1, ResultsAre DEF QueueGood, PipesGood, ItsSession
      <3>3. HandOK(e)'
        BY <1>4, <1>5, <1>6, <3>1, HandKept DEF SameHand
      <3>4. /\ pipe' \in [Conns -> Seq(Res)] /\ removed' \in [Conns -> BOOLEAN]
            /\ node' \in [Conns -> Ops \cup {"none"}] /\ msgqueue' \in Seq(Res)
        BY <1>1, <3>1 DEF ShapeOK
      <3> QED
        BY <2>1, <3>1, <3>2, <3>3, <3>4
    <2>2. CASE stop_flag
      <3>1. PollerDel(e)
        BY <1>3, <2>2
      <3>2. /\ pipe' \in [Conns -> Seq(Res)] /\ removed' \in [Conns -> BOOLEAN]
            /\ node' \in [Conns -> Ops \cup {"none"}] /\ node'[e] = "none"
            /\ msgqueue' \in Seq(Res) /\ QueueGood' /\ PipesGood'
            /\ \A d \in Conns : d # e => /\ pipe'[d] = pipe[d] /\ removed'[d] = removed[d]
                                         /\ node'[d] = node[d]
            /\ \/ msgqueue' = msgqueue
               \/ \E m \in Res : m.conn = e /\ Sends(m)
            /\ Num(msgqueue', Completes(e)) = Num(msgqueue, Completes(e))
            /\ \A op \in Ops :
                  B(node'[e] = op) + Num(pipe'[e], Ends(e, op)) + Num(msgqueue', Ends(e, op))
                     = B(node[e] = op) + Num(pipe[e], Ends(e, op)) + Num(msgqueue, Ends(e, op))
            /\ hand[e] = "none" => ~removed'[e]
            /\ hand[e] # "none" => removed'[e] /\ \E op \in {"read", "write"} :
                                                     Num(pipe'[e], Ends(e, op)) > 0
            /\ stopped[e] # "running" => pipe' = pipe
        BY <1>1, <1>4, <1>5, <1>6, <3>1, PollerDelOK
      <3>3. HandOK(e)'
        BY <1>4, <1>6, <3>2 DEF HandOK
      <3> QED
        BY <2>2, <3>2, <3>3
    <2> QED
      BY <2>1, <2>2
  <1>9. ASSUME NEW d \in Conns, d # e PROVE SameTokens(d) /\ HandOK(d)'
    <2>1. SameHand(d)
      BY <1>4, <1>8, <1>9 DEF SameHand
    <2>2. SameTokens(d)
      BY <1>1, <1>2, <1>4, <1>5, <1>7, <1>8, <1>9, <2>1, HandlerElsewhere
    <2>3. HandOK(d)
      BY DEF IInv, EntryOK
    <2> QED
      BY <1>4, <2>1, <2>2, <2>3, HandKept
  <1>10. SameTokens(e)
    <2>1. ~Counted(hres[h], hpc[h], e) /\ ~Counted(hres'[h], hpc'[h], e)
      BY <1>3, <1>7 DEF Counted, EndAt, HeldAt, CompleteAt, Ops, Letting
    <2>2. HandsSame(e)
      BY <1>1, <1>7, <2>1, HandsElsewhere, JobTypes
    <2>3. B(hand'[e] = "success") + Num(msgqueue', Completes(e))
            = B(hand[e] = "success") + Num(msgqueue, Completes(e))
      BY <1>4, <1>8
    <2> QED
      BY <1>1, <1>5, <1>8, <2>2, <2>3, TokensWith
  <1>11. /\ \A d \in Conns : (RefOK(d) /\ StateOK(d) /\ UseOK(d) /\ OwnerOK(d))'
         /\ LockOK' /\ ListOK' /\ \A s \in Sessions : SessionOK(s)'
    <2>1. hpc[h] \notin {"finish", "unlock"} /\ hpc'[h] \notin {"finish", "unlock"}
      BY <1>3, <1>7
    <2>2. \A d \in Conns : SameTokens(d)
      BY <1>9, <1>10
    <2> QED
      BY <1>4, <1>7, <2>1, <2>2, HandlerQuiet
  <1>12. ShapeOK'
    BY <1>1, <1>3, <1>7, <1>8 DEF ShapeOK, entryVars, requestVars, sessionVars, deinitVars
  <1>13. ResultsOK'
    <2>1. \A g \in Handlers : g # h => GoodJob(g)'
      BY <1>1, <1>4, <1>7, JobsKept
    <2>2. GoodJob(h)'
      BY <1>7 DEF GoodJob, Ops, Letting
    <2>3. QueueGood' /\ PipesGood'
      BY <1>8
    <2> QED
      BY <2>1, <2>2, <2>3 DEF ResultsOK, QueueGood, PipesGood
  <1>14. StopOK'
    <2>1. \A g \in Handlers : g # h => hpc'[g] = hpc[g]
      BY <1>7 DEF HandlersElse
    <2>2. ASSUME NEW d \in Conns, stopped[d] = "swept", node'[d] \in {"read", "write"}
          PROVE  \E g \in Handlers : hpc'[g] = "stopcheck" /\ hres'[g].conn = d
      <3>1. stop_flag
        BY <1>1, <2>2 DEF StopOK
      <3>2. d # e /\ node'[d] = node[d]
        BY <1>8, <2>2, <3>1
      <3>3. PICK g \in Handlers : hpc[g] = "stopcheck" /\ hres[g].conn = d
        BY <1>1, <2>2, <3>2 DEF StopOK
      <3>4. g # h
        BY <1>2, <3>2, <3>3
      <3> QED
        BY <1>4, <2>1, <3>3, <3>4
    <2>3. hpc'[h] # "exit" /\ \A g \in Handlers : hpc'[g] = "exit" => hpc[g] = "exit"
      BY <1>7, <2>1
    <2> QED
      BY <1>1, <1>4, <2>2, <2>3 DEF StopOK
  <1>15. \A d \in Conns : HandOK(d)'
    BY <1>8, <1>9
  <1>16. \A d \in Conns : EntryOK(d)'
    BY <1>11, <1>15 DEF EntryOK
  <1> QED
    BY <1>11, <1>12, <1>13, <1>14, <1>16 DEF IInv

-----------------------------------------------------------------------------
(* A handler decides about its entry *)

(* Which tokens change when a handler goes on and arms the connection.      *)
LEMMA TokenMoves ==
  ASSUME ShapeOK, NEW h \in Handlers, NEW e \in Conns, HandlersElse(h), hres' = hres,
         hand'[e] = hand[e], pipe'[e] = pipe[e], msgqueue' = msgqueue
  PROVE  /\ \A op \in Ops :
               /\ Ending(e, op)' = Ending(e, op) - B(node[e] = op) + B(node'[e] = op)
                     - B(EndAt(hres[h], hpc[h], e, op)) + B(EndAt(hres[h], hpc'[h], e, op))
               /\ Held(e, op)' = Held(e, op) - B(HeldAt(hres[h], hpc[h], e, op))
                     + B(HeldAt(hres[h], hpc'[h], e, op))
         /\ Complete(e)' = Complete(e) - B(CompleteAt(hres[h], hpc[h], e))
                              + B(CompleteAt(hres[h], hpc'[h], e))
  <1>1. hres[h] \in Res /\ hres'[h] = hres[h] /\ hres'[h] \in Res
    BY JobTypes
  <1>2. ASSUME NEW op \in Ops
        PROVE  /\ Ending(e, op)' = Ending(e, op) - B(node[e] = op) + B(node'[e] = op)
                     - B(EndAt(hres[h], hpc[h], e, op)) + B(EndAt(hres[h], hpc'[h], e, op))
               /\ Held(e, op)' = Held(e, op) - B(HeldAt(hres[h], hpc[h], e, op))
                     + B(HeldAt(hres[h], hpc'[h], e, op))
    <2>1. PICK x \in Nat, y \in Nat, z \in Nat, u \in Nat :
             /\ x = Num(pipe[e], Ends(e, op)) /\ y = Num(msgqueue, Ends(e, op))
             /\ z = JNum(Ends(e, op), {op}) /\ u = B(node[e] = op)
      BY CountTypes
    <2>2. PICK a \in {0, 1}, b \in {0, 1}, c \in {0, 1} :
             /\ a = B(EndAt(hres[h], hpc[h], e, op)) /\ b = B(EndAt(hres[h], hpc'[h], e, op))
             /\ c = B(node'[e] = op)
      BY BOK
    <2>3. JNum(Ends(e, op), {op})' = z - a + b
      BY <1>1, <2>1, <2>2, HandsMove
    <2>4. Ending(e, op) = u + x + y + z
      BY <2>1 DEF Ending
    <2>5. Ending(e, op)' = c + x + y + (z - a + b)
      BY <2>1, <2>2, <2>3 DEF Ending
    <2>6. Ending(e, op)' = Ending(e, op) - u + c - a + b
      BY ONLY <2>4, <2>5, x \in Nat, y \in Nat, z \in Nat, u \in Nat,
              a \in {0, 1}, b \in {0, 1}, c \in {0, 1}
    <2>7. Held(e, op)' = Held(e, op) - B(HeldAt(hres[h], hpc[h], e, op))
                            + B(HeldAt(hres[h], hpc'[h], e, op))
      BY <1>1, HandsMove
    <2> QED
      BY <2>1, <2>2, <2>6, <2>7
  <1>3. Complete(e)' = Complete(e) - B(CompleteAt(hres[h], hpc[h], e))
                          + B(CompleteAt(hres[h], hpc'[h], e))
    <2>1. PICK x \in Nat, y \in Nat, z \in Nat :
             /\ x = B(hand[e] = "success") /\ y = Num(msgqueue, Completes(e))
             /\ z = JNum(Completes(e), {"read"})
      BY CountTypes
    <2>2. PICK a \in {0, 1}, b \in {0, 1} :
             a = B(CompleteAt(hres[h], hpc[h], e)) /\ b = B(CompleteAt(hres[h], hpc'[h], e))
      BY BOK
    <2>3. JNum(Completes(e), {"read"})' = z - a + b
      BY <1>1, <2>1, <2>2, CompletesMove
    <2>4. Complete(e) = x + y + z /\ Complete(e)' = x + y + (z - a + b)
      BY <2>1, <2>3 DEF Complete
    <2>5. Complete(e)' = Complete(e) - a + b
      BY ONLY <2>4, x \in Nat, y \in Nat, z \in Nat, a \in {0, 1}, b \in {0, 1}
    <2> QED
      BY <2>2, <2>5
  <1> QED
    BY <1>2, <1>3

(* The handler of an end lets its reference go, *)
LEMMA EndLet ==
  ASSUME ShapeOK, NEW h \in Handlers, NEW e \in Conns, HandlersElse(h), hres' = hres,
         hand'[e] = hand[e], pipe'[e] = pipe[e], msgqueue' = msgqueue, node'[e] = node[e],
         hres[h].conn = e, hres[h].op = hpc[h], hpc[h] \in Ops, IsEnd(hres[h]),
         hpc'[h] \in Letting
  PROVE  /\ \A op \in Ops : /\ Ending(e, op)' = Ending(e, op) - B(op = hpc[h])
                            /\ Held(e, op)' = Held(e, op) + B(op = hpc[h])
         /\ Complete(e)' = Complete(e)
  <1>1. ASSUME NEW op \in Ops
        PROVE  /\ Ending(e, op)' = Ending(e, op) - B(op = hpc[h])
               /\ Held(e, op)' = Held(e, op) + B(op = hpc[h])
    <2>1. /\ B(EndAt(hres[h], hpc[h], e, op)) = B(op = hpc[h])
          /\ B(EndAt(hres[h], hpc'[h], e, op)) = 0
          /\ B(HeldAt(hres[h], hpc[h], e, op)) = 0
          /\ B(HeldAt(hres[h], hpc'[h], e, op)) = B(op = hpc[h])
      BY DEF B, EndAt, HeldAt, Ops, Letting
    <2>2. PICK x \in Nat, y \in Nat, u \in {0, 1}, b \in {0, 1} :
             /\ x = Ending(e, op) /\ y = Held(e, op) /\ u = B(node[e] = op) /\ b = B(op = hpc[h])
      BY CountTypes, BOK
    <2>3. Ending(e, op)' = x - u + u - b + 0 /\ Held(e, op)' = y - 0 + b
      BY <2>1, <2>2, TokenMoves
    <2> QED
      BY <2>2, <2>3
  <1>2. Complete(e)' = Complete(e)
    <2>1. B(CompleteAt(hres[h], hpc[h], e)) = 0 /\ B(CompleteAt(hres[h], hpc'[h], e)) = 0
      BY DEF B, CompleteAt, IsEnd, IsSuccess, Letting
    <2>2. PICK x \in Nat : x = Complete(e)
      BY CountTypes
    <2>3. Complete(e)' = x - 0 + 0
      BY <2>1, <2>2, TokenMoves
    <2> QED
      BY <2>2, <2>3
  <1> QED
    BY <1>1, <1>2

(* and so does the handler of a complete reply.                             *)
LEMMA CompleteLet ==
  ASSUME ShapeOK, NEW h \in Handlers, NEW e \in Conns, HandlersElse(h), hres' = hres,
         hand'[e] = hand[e], pipe'[e] = pipe[e], msgqueue' = msgqueue, node'[e] = node[e],
         hres[h].conn = e, hres[h].op = "read", hpc[h] = "read", IsSuccess(hres[h]),
         hpc'[h] \in Letting
  PROVE  /\ \A op \in Ops : /\ Ending(e, op)' = Ending(e, op)
                            /\ Held(e, op)' = Held(e, op) + B(op = "read")
         /\ Complete(e)' = Complete(e) - 1
  <1>1. ASSUME NEW op \in Ops
        PROVE  /\ Ending(e, op)' = Ending(e, op)
               /\ Held(e, op)' = Held(e, op) + B(op = "read")
    <2>1. /\ B(EndAt(hres[h], hpc[h], e, op)) = 0
          /\ B(EndAt(hres[h], hpc'[h], e, op)) = 0
          /\ B(HeldAt(hres[h], hpc[h], e, op)) = 0
          /\ B(HeldAt(hres[h], hpc'[h], e, op)) = B(op = "read")
      BY DEF B, EndAt, HeldAt, Ops, Letting, IsEnd, IsSuccess
    <2>2. PICK x \in Nat, y \in Nat, u \in {0, 1}, b \in {0, 1} :
             /\ x = Ending(e, op) /\ y = Held(e, op) /\ u = B(node[e] = op) /\ b = B(op = "read")
      BY CountTypes, BOK
    <2>3. Ending(e, op)' = x - u + u - 0 + 0 /\ Held(e, op)' = y - 0 + b
      BY <2>1, <2>2, TokenMoves
    <2> QED
      BY <2>2, <2>3
  <1>2. Complete(e)' = Complete(e) - 1
    <2>1. B(CompleteAt(hres[h], hpc[h], e)) = 1 /\ B(CompleteAt(hres[h], hpc'[h], e)) = 0
      BY DEF B, CompleteAt, Letting
    <2>2. PICK x \in Nat : x = Complete(e)
      BY CountTypes
    <2>3. Complete(e)' = x - 1 + 0
      BY <2>1, <2>2, TokenMoves
    <2> QED
      BY <2>2, <2>3
  <1> QED
    BY <1>1, <1>2

(* A handler goes on with its entry: what has to be shown.                  *)
HandlerFrame(h, e) ==
    /\ hres[h].conn = e /\ hres' = hres /\ HandlersElse(h)
    /\ \A g \in Handlers : g # h => hsession'[g] = hsession[g] /\ houtcome'[g] = houtcome[g]
    /\ esession' = esession /\ requestVars' = requestVars /\ sessionVars' = sessionVars
    /\ deinitVars' = deinitVars /\ hand' = hand /\ removed' = removed /\ pipe' = pipe
    /\ stopped' = stopped /\ msgqueue' = msgqueue
    /\ \A d \in Conns : d # e =>
          /\ state'[d] = state[d] /\ ref'[d] = ref[d] /\ emutex'[d] = emutex[d]
          /\ memory'[d] = memory[d] /\ node'[d] = node[d] /\ partial'[d] = partial[d]
          /\ d \in ToSet(idle_list') <=> d \in ToSet(idle_list)
    /\ hpc[h] \notin {"finish", "unlock", "stopcheck"} /\ hpc'[h] # "exit"
    /\ node'[e] = node[e] \/ hpc'[h] = "stopcheck"
    /\ IF hpc'[h] = "unlock" THEN emutex[e] = None /\ emutex'[e] = h
                             ELSE emutex'[e] = emutex[e]
Decided(h, e) ==
    IF hpc'[h] = "finish" THEN Awaiting(e) /\ ~Awaiting(e)' /\ hsession'[h] = esession[e]
                          ELSE Awaiting(e)' <=> Awaiting(e)
ListGood(e) ==
    /\ IsInjective(idle_list)
    /\ e \in ToSet(idle_list) => Idle(e)
    /\ Idle(e) => \/ e \in ToSet(idle_list)
                  \/ emutex[e] \in Sessions /\ rpc[emutex[e]] \in {"set_timeout", "send"}

LEMMA HandlerStep ==
  ASSUME IInv, NEW h \in Handlers, NEW e \in Conns, HandlerFrame(h, e), Decided(h, e),
         ShapeOK', GoodJob(h)', RefOK(e)', StateOK(e)', HandOK(e)', UseOK(e)', ListGood(e)'
  PROVE  IInv'
  <1>1. ShapeOK /\ ResultsOK /\ StopOK /\ LockOK /\ OwnerOK(e)
    BY DEF IInv, EntryOK
  <1>2. /\ esession' = esession /\ pipe' = pipe /\ stopped' = stopped /\ hand' = hand
        /\ removed' = removed /\ msgqueue' = msgqueue /\ rpc' = rpc /\ rconn' = rconn
        /\ released' = released /\ handled' = handled /\ hres' = hres
        /\ stop_flag' = stop_flag /\ nonblock' = nonblock /\ hres[h].conn = e /\ HandlersElse(h)
    BY DEF HandlerFrame, requestVars, sessionVars, deinitVars
  <1>3. /\ hpc[h] \notin {"finish", "unlock", "stopcheck"} /\ hpc'[h] # "exit"
        /\ node'[e] = node[e] \/ hpc'[h] = "stopcheck"
        /\ IF hpc'[h] = "unlock" THEN emutex[e] = None /\ emutex'[e] = h
                                 ELSE emutex'[e] = emutex[e]
    BY DEF HandlerFrame
  <1>4. \A d \in Conns : d # e =>
          /\ state'[d] = state[d] /\ ref'[d] = ref[d] /\ emutex'[d] = emutex[d]
          /\ memory'[d] = memory[d] /\ node'[d] = node[d] /\ partial'[d] = partial[d]
          /\ d \in ToSet(idle_list') <=> d \in ToSet(idle_list)
    BY DEF HandlerFrame
  <1>5. \A g \in Handlers : g # h => hres'[g] = hres[g] /\ hpc'[g] = hpc[g]
                                     /\ hsession'[g] = hsession[g] /\ houtcome'[g] = houtcome[g]
    BY DEF HandlerFrame, HandlersElse
  <1>6. PICK o : o = esession[e]
    OBVIOUS
  <1>7. ASSUME hpc'[h] = "finish"
        PROVE  o \in Sessions /\ rconn[o] = e /\ Waits(o) /\ hsession'[h] = o
    BY <1>1, <1>6, <1>7 DEF Decided, OwnerOK
  <1>8. ASSUME NEW s \in Sessions, hpc'[h] = "finish" => s # o
        PROVE  SessionSame(s)
    <2>1. Finishers(s)' = Finishers(s)
      BY <1>3, <1>5, <1>7, <1>8 DEF Finishers
    <2> QED
      BY <1>2, <2>1 DEF SessionSame, Told
  <1>9. ASSUME NEW d \in Conns, d # e PROVE Elsewhere(d)
    <2>1. SameHand(d)
      BY <1>2, <1>4, <1>9 DEF SameHand
    <2>2. SameTokens(d) /\ UnlockerSame(d)
      BY <1>1, <1>2, <1>9, <2>1, HandlerElsewhere
    <2>3. ASSUME NEW s \in Sessions, Concerns(s, d) PROVE SessionSame(s)
      BY <1>7, <1>8, <1>9, <2>3 DEF Concerns
    <2> QED
      BY <1>2, <1>4, <1>9, <2>1, <2>2, <2>3 DEF Elsewhere
  <1>10. ASSUME NEW s \in Sessions PROVE Apart(s, e) \/ SessionOK(s)'
    <2>1. SessionOK(s)
      BY DEF IInv
    <2>2. CASE hpc'[h] = "finish" /\ s = o
      <3>1. rconn[s] = e /\ rpc[s] \in Sent /\ Told(s) = 0
        BY <1>7, <2>2 DEF Waits
      <3>2. PICK X, Y : X = Finishers(s) /\ Y = Finishers(s)'
        OBVIOUS
      <3>3. h \notin X /\ h \in Y /\ \A y : y # h => (y \in X <=> y \in Y)
        BY <1>3, <1>5, <1>7, <2>2, <3>2 DEF Finishers
      <3>4. IsFiniteSet(X)
        BY <3>2, ClientAssumption, FS_Subset DEF Finishers
      <3>5. Cardinality(X) \in Nat /\ Cardinality(Y) = Cardinality(X) - B(h \in X) + B(h \in Y)
        BY ONLY <3>3, <3>4, CardStep
      <3>6. Cardinality(Y) = Cardinality(X) + 1
        BY <3>3, <3>5 DEF B
      <3>7. handled[s] >= 0 /\ handled[s] \in Int /\ handled'[s] = handled[s]
            /\ released'[s] = released[s]
        BY <1>1, <1>2, <2>1 DEF SessionOK, ShapeOK
      <3>8. Told(s) = Cardinality(X) + handled[s] /\ Told(s)' = Cardinality(Y) + handled[s]
        BY <3>2, <3>7 DEF Told
      <3>9. Told(s)' = 1
        BY <3>1, <3>5, <3>6, <3>7, <3>8
      <3>10. ~Waits(s)'
        BY <3>9 DEF Waits
      <3> QED
        BY <1>2, <2>1, <3>1, <3>7, <3>9, <3>10 DEF SessionOK, Sent
    <2>3. CASE ~(hpc'[h] = "finish" /\ s = o)
      <3>1. SessionSame(s)
        BY <1>8, <2>3
      <3>2. ASSUME rconn[s] = e, Waits(s) PROVE Awaiting(e)' /\ esession'[e] = s
        <4>1. Awaiting(e) /\ esession[e] = s
          BY <2>1, <3>2 DEF SessionOK
        <4>2. hpc'[h] # "finish"
          BY <1>6, <2>3, <4>1
        <4> QED
          BY <1>2, <4>1, <4>2 DEF Decided
      <3> QED
        BY <3>1, <3>2 DEF Apart
    <2> QED
      BY <2>2, <2>3
  <1>11. OwnerOK(e)'
    <2>1. ASSUME Awaiting(e)' PROVE o \in Sessions /\ rconn'[o] = e /\ Waits(o)'
      <3>1. hpc'[h] # "finish" /\ Awaiting(e)
        BY <2>1 DEF Decided
      <3>2. o \in Sessions /\ rconn[o] = e /\ Waits(o)
        BY <1>1, <1>6, <3>1 DEF OwnerOK
      <3>3. SessionSame(o)
        BY <1>8, <3>1, <3>2
      <3> QED
        BY <3>2, <3>3 DEF SessionSame, Waits
    <2>2. esession'[e] = o
      BY <1>2, <1>6
    <2> QED
      BY <2>1, <2>2 DEF OwnerOK
  <1>12. ResultsOK'
    <2>1. \A g \in Handlers : g # h => GoodJob(g)'
      BY <1>1, <1>2, <1>5, JobsKept
    <2> QED
      BY <1>1, <1>2, <2>1 DEF ResultsOK, ItsSession
  <1>13. LockOK'
    <2>1. ASSUME NEW s \in Sessions, rpc[s] \in Using
          PROVE  rconn[s] \in Conns /\ emutex'[rconn[s]] = s
      <3>1. rconn[s] \in Conns /\ emutex[rconn[s]] = s
        BY <1>1, <2>1 DEF LockOK
      <3> QED
        BY <1>3, <1>4, <3>1, Names
    <2>2. ASSUME NEW g \in Handlers, hpc'[g] = "unlock" PROVE emutex'[hres[g].conn] = g
      <3>1. CASE g = h
        BY <1>2, <1>3, <2>2, <3>1
      <3>2. CASE g # h
        <4>1. hpc[g] = "unlock"
          BY <1>5, <2>2, <3>2
        <4>2. emutex[hres[g].conn] = g /\ hres[g].conn \in Conns
          BY <1>1, <4>1 DEF LockOK, ResultsOK, GoodJob
        <4> QED
          BY <1>3, <1>4, <4>2, Names
      <3> QED
        BY <3>1, <3>2
    <2> QED
      BY <1>2, <2>1, <2>2 DEF LockOK
  <1>14. StopOK'
    <2>1. ASSUME NEW d \in Conns, stopped[d] = "swept", node'[d] \in {"read", "write"}
          PROVE  \E g \in Handlers : hpc'[g] = "stopcheck" /\ hres[g].conn = d
      <3>1. CASE node'[d] = node[d]
        <4>1. PICK g \in Handlers : hpc[g] = "stopcheck" /\ hres[g].conn = d
          BY <1>1, <2>1, <3>1 DEF StopOK
        <4>2. hpc'[g] = "stopcheck"
          BY <1>3, <1>5, <4>1
        <4> QED
          BY <4>1, <4>2
      <3>2. CASE node'[d] # node[d]
        BY <1>2, <1>3, <1>4, <3>2
      <3> QED
        BY <3>1, <3>2
    <2>2. \A g \in Handlers : hpc'[g] = "exit" => hpc[g] = "exit"
      BY <1>3, <1>5
    <2> QED
      BY <1>1, <1>2, <1>3, <2>1, <2>2 DEF StopOK
  <1>15. EntryOK(e)'
    BY <1>11 DEF EntryOK
  <1> QED
    BY <1>9, <1>10, <1>12, <1>13, <1>14, <1>15, EntryStep DEF ListGood

(* The end of an entry that no handler has to decide about any more, or     *)
(* about whose session this handler decides.                                *)
LEMMA EndStep ==
  ASSUME IInv, NEW h \in Handlers, NEW e \in Conns, NEW s, NEW o \in {"error", "stopped", "none"},
         hres[h].conn = e, hpc[h] \in Ops, IsEnd(hres[h]),
         Decide(h, s, o), s = IF Awaiting(e) THEN esession[e] ELSE None,
         UNCHANGED <<ref, esession, emutex, memory, pollerVars, msgqueue, hres, requestVars,
                     sessionVars, deinitVars>>,
         state[e] # "success", hpc[h] = "read" => emutex[e] = None,
         state' = state \/ (hpc[h] = "write" /\ state' = [state EXCEPT ![e] = "receiving"]),
         idle_list' \in Seq(Conns), IsInjective(idle_list'),
         ToSet(idle_list') = ToSet(idle_list) \ {e}
  PROVE  IInv'
  <1>1. /\ ShapeOK /\ ResultsOK /\ GoodJob(h) /\ RefOK(e) /\ StateOK(e) /\ HandOK(e)
        /\ UseOK(e) /\ OwnerOK(e)
    BY DEF IInv, EntryOK, ResultsOK
  <1>2. /\ ref' = ref /\ esession' = esession /\ emutex' = emutex /\ memory' = memory
        /\ node' = node /\ hand' = hand /\ removed' = removed /\ partial' = partial
        /\ pipe' = pipe /\ stopped' = stopped /\ msgqueue' = msgqueue /\ hres' = hres
        /\ rpc' = rpc /\ rconn' = rconn
        /\ requestVars' = requestVars /\ sessionVars' = sessionVars /\ deinitVars' = deinitVars
    BY DEF pollerVars, requestVars
  <1>3. /\ hpc' = [hpc EXCEPT ![h] = IF s = None THEN "unref" ELSE "finish"]
        /\ hsession' = [hsession EXCEPT ![h] = s] /\ houtcome' = [houtcome EXCEPT ![h] = o]
    BY DEF Decide, Goto
  <1>4. Awaiting(e) => esession[e] \in Sessions
    BY <1>1 DEF OwnerOK
  <1>5. s \in Sessions \cup {None} /\ (s = None <=> ~Awaiting(e))
    BY <1>4, Names
  <1>6. /\ HandlersElse(h) /\ hpc'[h] = (IF s = None THEN "unref" ELSE "finish")
        /\ hpc' \in [Handlers -> {"get", "stopcheck", "unlock", "exit"} \cup Ops \cup Letting]
        /\ hsession' \in [Handlers -> Sessions \cup {None}] /\ hsession'[h] = s
        /\ houtcome' \in [Handlers -> {"none", "success", "error", "stopped"}] /\ houtcome'[h] = o
        /\ \A g \in Handlers : g # h => hsession'[g] = hsession[g] /\ houtcome'[g] = houtcome[g]
    BY <1>1, <1>2, <1>3, <1>5 DEF ShapeOK, HandlersElse, Letting
  <1>7. /\ GoodResult(hres[h]) /\ hres[h].op = hpc[h]
        /\ hpc'[h] \in Letting /\ hpc[h] \notin Letting
    BY <1>1, <1>6 DEF GoodJob, Letting, Ops
  <1>8. PICK p \in Ops : p = hpc[h]
    OBVIOUS
  <1>9. /\ \A op \in Ops : /\ Ending(e, op)' = Ending(e, op) - B(op = p)
                           /\ Held(e, op)' = Held(e, op) + B(op = p)
        /\ Complete(e)' = Complete(e)
    BY <1>1, <1>2, <1>6, <1>7, <1>8, EndLet
  <1>10. Ending(e, p) > 0
    BY <1>1, <1>7, <1>8, JobIsToken
  <1>11. PICK ec \in Nat, er \in Nat, ew \in Nat, hc \in Nat, hr \in Nat, hw \in Nat, c \in Nat :
            /\ ec = Ending(e, "connect") /\ er = Ending(e, "read") /\ ew = Ending(e, "write")
            /\ hc = Held(e, "connect") /\ hr = Held(e, "read") /\ hw = Held(e, "write")
            /\ c = Complete(e)
    BY <1>1, CountTypes
  <1>a. PICK x \in {0, 1}, y \in {0, 1}, z \in {0, 1} :
           x = B("connect" = p) /\ y = B("read" = p) /\ z = B("write" = p)
    BY BOK
  <1>b. /\ p = "connect" => x = 1 /\ y = 0 /\ z = 0
        /\ p = "read" => x = 0 /\ y = 1 /\ z = 0
        /\ p = "write" => x = 0 /\ y = 0 /\ z = 1
        /\ p \in {"connect", "read", "write"}
    BY <1>a DEF B, Ops
  <1>12. /\ Ending(e, "connect")' = ec - x /\ Ending(e, "read")' = er - y
         /\ Ending(e, "write")' = ew - z /\ Held(e, "connect")' = hc + x
         /\ Held(e, "read")' = hr + y /\ Held(e, "write")' = hw + z
         /\ Complete(e)' = c
    BY <1>9, <1>11, <1>a DEF Ops
  <1>13. /\ ec + er + ew <= 1
         /\ p = "connect" => ec = 1 /\ er = 0 /\ ew = 0
         /\ p = "read" => ec = 0 /\ er = 1 /\ ew = 0
         /\ p = "write" => ec = 0 /\ er = 0 /\ ew = 1
    BY <1>1, <1>10, <1>11 DEF StateOK
  <1>14. c = 0
    BY <1>1, <1>8, <1>11, <1>13 DEF StateOK, Ops
  <1>15. /\ Ending(e, "connect")' = 0 /\ Ending(e, "read")' = 0 /\ Ending(e, "write")' = 0
         /\ Complete(e)' = 0
         /\ Held(e, "connect")' = hc + x /\ Held(e, "write")' = hw + z
    BY <1>b, <1>12, <1>13, <1>14
  <1>16. Tokens(e)' = Tokens(e)
    <2>1. Tokens(e) = ec + er + ew + c + hc + hr + hw
      BY <1>11 DEF Tokens
    <2>2. Tokens(e)' = (ec - x) + (er - y) + (ew - z) + c + (hc + x) + (hr + y) + (hw + z)
      BY <1>12 DEF Tokens
    <2> QED
      BY ONLY <2>1, <2>2, x \in {0, 1}, y \in {0, 1}, z \in {0, 1}, ec \in Nat, er \in Nat,
              ew \in Nat, hc \in Nat, hr \in Nat, hw \in Nat, c \in Nat
  <1>17. ~Awaiting(e)'
    BY <1>15 DEF Awaiting
  <1>18. /\ state'[e] = state[e] \/ (p = "write" /\ state'[e] = "receiving")
         /\ \A d \in Conns : d # e => state'[d] = state[d]
         /\ state' \in [Conns -> {"none", "connecting", "receiving", "success", "idle",
                                  "closing", "error"}]
    <2>1. state \in [Conns -> {"none", "connecting", "receiving", "success", "idle",
                               "closing", "error"}]
      BY <1>1 DEF ShapeOK
    <2>2. CASE state' = state
      BY <2>1, <2>2
    <2>3. CASE hpc[h] = "write" /\ state' = [state EXCEPT ![e] = "receiving"]
      BY <1>8, <2>1, <2>3
    <2> QED
      BY <2>2, <2>3
  <1>19. /\ p = "connect" => state[e] = "connecting"
         /\ p = "write" => state[e] \in {"connecting", "idle"}
         /\ p = "read" => state[e] # "connecting"
    BY <1>1, <1>10 DEF StateOK
  <1>20. RefOK(e)'
    BY <1>1, <1>2, <1>16, <1>18, <1>19 DEF RefOK, B
  <1>21. StateOK(e)'
    <2>1. hc > 0 => state[e] = "connecting"
      BY <1>1, <1>11 DEF StateOK
    <2>2. Held(e, "connect")' > 0 => state'[e] = "connecting"
      <3>1. CASE p = "connect"
        BY <1>18, <1>19, <3>1
      <3>2. CASE p # "connect"
        <4>1. hc + x = hc
          BY <1>b, <3>2
        <4>2. Held(e, "connect")' > 0 => hc > 0
          BY <1>15, <4>1
        <4>3. hc > 0 => ec + er + ew + c + hc + hr + hw = 1
          <5>1. Tokens(e) = ec + er + ew + c + hc + hr + hw
            BY <1>11 DEF Tokens
          <5>2. hc > 0 => memory[e] = "live" /\ state[e] = "connecting"
            <6>1. hc > 0 => Tokens(e) # 0
              BY ONLY <5>1, ec \in Nat, er \in Nat, ew \in Nat, hc \in Nat, hr \in Nat, hw \in Nat,
                      c \in Nat
            <6>2. memory[e] # "live" => Tokens(e) = 0
              BY <1>1 DEF RefOK
            <6> QED
              BY <2>1, <6>1, <6>2
          <5>3. hc > 0 => ref[e] = 1 /\ B(state[e] = "success") = 0
            BY <1>1, <5>2 DEF StateOK, B
          <5> QED
            BY <1>1, <5>1, <5>2, <5>3 DEF RefOK
        <4>4. p = "write" => ~(hc > 0)
          BY <1>13, <4>3
        <4> QED
          BY <1>18, <2>1, <4>2, <4>4
      <3> QED
        BY <3>1, <3>2
    <2>3. state'[e] # "success"
      BY <1>18
    <2>4. state'[e] = "connecting" => state[e] = "connecting"
      BY <1>18
    <2> QED
      BY <1>1, <1>2, <1>15, <2>2, <2>3, <2>4 DEF StateOK
  <1>22. HandOK(e)'
    BY <1>1, <1>2, <1>18 DEF HandOK
  <1>23. UseOK(e)'
    <2>1. PICK t : t = emutex[e]
      OBVIOUS
    <2>2. t \in Handlers => hpc'[t] = "unlock" /\ hres'[t].conn = e
      BY <1>1, <1>2, <1>6, <1>8, <2>1 DEF UseOK, HandlersElse, Ops
    <2>3. ASSUME t \in Sessions
          PROVE  /\ rconn[t] = e /\ rpc[t] = "unlock" /\ state'[e] \notin {"none", "connecting"}
                 /\ Ending(e, "read")' + Ending(e, "write")' + Held(e, "write")' > 0
      <3>1. p = "write"
        BY <1>1, <1>8, <1>19, <2>1, <2>3, Names DEF UseOK, Ops
      <3>2. rconn[t] = e /\ rpc[t] \in Using /\ state[e] \notin {"none", "connecting"}
            /\ rpc[t] \notin {"set_timeout", "send"}
        <4>1. ~Idle(e)
          BY <1>11, <1>13, <3>1 DEF Idle
        <4> QED
          BY <1>1, <2>1, <2>3, <4>1 DEF UseOK
      <3>3. Held(e, "write")' > 0
        BY <1>b, <1>15, <3>1
      <3> QED
        BY <1>15, <1>18, <3>2, <3>3 DEF Using
    <2>4. emutex'[e] = t /\ rconn' = rconn /\ rpc' = rpc
      BY <1>2, <2>1
    <2> QED
      BY <2>2, <2>3, <2>4, Names DEF UseOK, Using
  <1>24. ListGood(e)'
    BY <1>15 DEF ListGood, Idle
  <1>25. GoodJob(h)'
    BY <1>2, <1>5, <1>6, <1>7 DEF GoodJob, Letting, Ops, IsEnd
  <1>26. ShapeOK'
    BY <1>1, <1>2, <1>6, <1>18 DEF ShapeOK, requestVars, sessionVars, deinitVars
  <1>27. HandlerFrame(h, e)
    BY <1>2, <1>6, <1>7, <1>8, <1>18 DEF HandlerFrame, Ops, Letting
  <1>28. Decided(h, e)
    BY <1>5, <1>6, <1>17 DEF Decided
  <1> QED
    BY <1>20, <1>21, <1>22, <1>23, <1>24, <1>25, <1>26, <1>27, <1>28, HandlerStep

-----------------------------------------------------------------------------
(* Lists without duplicates. *)
LEMMA MinOK ==
  ASSUME NEW I \in SUBSET Nat, I # {}
  PROVE  Min(I) \in I /\ \A j \in I : Min(I) <= j
  <1> DEFINE R == {ss \in Nat \X Nat : ss[1] < ss[2]}
  <1>1. IsWellFoundedOn(R, Nat)
    BY NatLessThanWellFounded DEF OpToRel
  <1>2. PICK k \in I : \A j \in I : ~(<<j, k>> \in R)
    <2> HIDE DEF R
    <2> QED
      BY <1>1, WFMin
  <1>3. ASSUME NEW j \in I PROVE k <= j
    <2>1. j \in Nat /\ k \in Nat /\ <<j, k>> \in Nat \X Nat
      OBVIOUS
    <2>2. ~(<<j, k>>[1] < <<j, k>>[2])
      BY <1>2, <2>1
    <2> QED
      BY <2>1, <2>2
  <1> QED
    BY <1>3 DEF Min

LEMMA ToSetOK ==
  ASSUME NEW S, NEW q \in Seq(S)
  PROVE  /\ ToSet(q) = {q[i] : i \in 1 .. Len(q)} /\ Len(q) \in Nat
         /\ \A i \in 1 .. Len(q) : q[i] \in ToSet(q) /\ q[i] \in S
         /\ \A x \in ToSet(q) : \E i \in 1 .. Len(q) : q[i] = x
         /\ ToSet(q) \subseteq S
         /\ \A x : Contains(q, x) <=> x \in ToSet(q)
  BY DEF ToSet, Contains

LEMMA RemoveFirstIndex ==
  ASSUME NEW S, NEW q \in Seq(S), NEW e, e \in ToSet(q)
  PROVE  \E k \in 1 .. Len(q) : q[k] = e /\ RemoveFirst(q, e) = RemoveAt(q, k)
  <1> DEFINE I == {j \in 1 .. Len(q) : q[j] = e}
  <1>1. PICK i \in 1 .. Len(q) : q[i] = e
    BY ToSetOK
  <1>2. I \in SUBSET Nat /\ i \in I
    BY <1>1
  <1>3. Min(I) \in I
    <2> HIDE DEF I
    <2> QED
      BY <1>2, MinOK
  <1>4. RemoveFirst(q, e) = RemoveAt(q, Min(I))
    BY <1>1 DEF RemoveFirst, SelectInSeq
  <1> QED
    BY <1>3, <1>4

LEMMA RemoveFirstOK ==
  ASSUME NEW S, NEW q \in Seq(S), IsInjective(q), NEW e, NEW r, r = RemoveFirst(q, e)
  PROVE  /\ r \in Seq(S) /\ IsInjective(r)
         /\ ToSet(r) = ToSet(q) \ {e}
  <1>1. CASE e \notin ToSet(q)
    <2>1. \A i \in 1 .. Len(q) : q[i] # e
      BY <1>1, ToSetOK
    <2>2. r = q
      BY <2>1 DEF RemoveFirst
    <2> QED
      BY <1>1, <2>2
  <1>2. CASE e \in ToSet(q)
    <2>1. PICK k \in 1 .. Len(q) : q[k] = e /\ r = RemoveAt(q, k)
      BY <1>2, RemoveFirstIndex
    <2>2. Len(q) \in Nat /\ k \in Nat /\ k >= 1 /\ k <= Len(q)
      OBVIOUS
    <2>3. /\ SubSeq(q, 1, k - 1) \in Seq(S) /\ Len(SubSeq(q, 1, k - 1)) = k - 1
          /\ \A i \in 1 .. k - 1 : SubSeq(q, 1, k - 1)[i] = q[i]
      BY <2>2
    <2>4. /\ SubSeq(q, k + 1, Len(q)) \in Seq(S)
          /\ Len(SubSeq(q, k + 1, Len(q))) = Len(q) - k
          /\ \A i \in 1 .. Len(q) - k : SubSeq(q, k + 1, Len(q))[i] = q[k + i]
      BY <2>2
    <2>5. /\ r \in Seq(S) /\ Len(r) = Len(q) - 1
          /\ \A i \in 1 .. Len(q) - 1 : r[i] = IF i < k THEN q[i] ELSE q[i + 1]
      <3>1. PICK a \in Seq(S) : a = SubSeq(q, 1, k - 1)
        BY <2>3
      <3>2. PICK b \in Seq(S) : b = SubSeq(q, k + 1, Len(q))
        BY <2>4
      <3>3. /\ r = a \o b /\ Len(a) = k - 1 /\ Len(b) = Len(q) - k
            /\ \A i \in 1 .. k - 1 : a[i] = q[i]
            /\ \A i \in 1 .. Len(q) - k : b[i] = q[k + i]
        BY <2>1, <2>3, <2>4, <3>1, <3>2 DEF RemoveAt
      <3>4. /\ r \in Seq(S) /\ Len(r) = Len(q) - 1
            /\ \A i \in 1 .. k - 1 : r[i] = a[i]
            /\ \A i \in k .. Len(q) - 1 : r[i] = b[i - (k - 1)]
        <4>1. /\ a \o b \in Seq(S) /\ Len(a \o b) = Len(a) + Len(b)
              /\ \A i \in 1 .. Len(a) + Len(b) :
                    (a \o b)[i] = IF i <= Len(a) THEN a[i] ELSE b[i - Len(a)]
          BY ConcatProperties
        <4> QED
          BY <2>2, <3>3, <4>1
      <3>5. \A i \in k .. Len(q) - 1 : i - (k - 1) \in 1 .. Len(q) - k /\ k + (i - (k - 1)) = i + 1
        BY <2>2
      <3>6. \A i \in k .. Len(q) - 1 : r[i] = q[i + 1]
        BY <3>3, <3>4, <3>5
      <3>7. \A i \in 1 .. k - 1 : r[i] = q[i]
        BY <3>3, <3>4
      <3>8. \A i \in 1 .. Len(q) - 1 : IF i < k THEN i \in 1 .. k - 1 ELSE i \in k .. Len(q) - 1
        BY <2>2
      <3> QED
        BY ONLY <3>4, <3>6, <3>7, <3>8
    <2> DEFINE at(i) == IF i < k THEN i ELSE i + 1
    <2>6. \A i \in 1 .. Len(r) : /\ at(i) \in 1 .. Len(q) /\ at(i) # k /\ r[i] = q[at(i)]
      BY <2>2, <2>5
    <2>7. /\ \A i, j \in 1 .. Len(r) : i <= j => at(i) <= at(j)
          /\ \A i, j \in 1 .. Len(r) : at(i) = at(j) => i = j
          /\ \A j \in 1 .. Len(q) : j # k => \E i \in 1 .. Len(r) : at(i) = j
      <3>1. /\ \A i, j \in 1 .. Len(r) : i <= j => at(i) <= at(j)
            /\ \A i, j \in 1 .. Len(r) : at(i) = at(j) => i = j
        BY <2>2, <2>5
      <3>2. ASSUME NEW j \in 1 .. Len(q), j # k PROVE \E i \in 1 .. Len(r) : at(i) = j
        <4>1. CASE j < k
          BY <2>2, <2>5, <4>1
        <4>2. CASE j > k
          <5>1. j - 1 \in 1 .. Len(r) /\ at(j - 1) = j
            BY <2>2, <2>5, <4>2
          <5> QED
            BY <5>1
        <4> QED
          BY <3>2, <4>1, <4>2
      <3> QED
        BY <3>1, <3>2
    <2> HIDE DEF at
    <2>8. IsInjective(r)
      BY <2>6, <2>7 DEF IsInjective
    <2>9. ToSet(r) = ToSet(q) \ {e}
      <3>1. \A j \in 1 .. Len(q) : q[j] = e => j = k
        BY <2>1 DEF IsInjective
      <3>2. ASSUME NEW x \in ToSet(r) PROVE x \in ToSet(q) \ {e}
        <4>1. r \in Seq(S)
          BY <2>5
        <4>2. PICK i \in 1 .. Len(r) : r[i] = x
          BY <4>1, ToSetOK
        <4>3. PICK j \in 1 .. Len(q) : q[j] = x /\ j # k
          BY <2>6, <4>2
        <4> QED
          BY <3>1, <4>3, ToSetOK
      <3>3. ASSUME NEW x \in ToSet(q), x # e PROVE x \in ToSet(r)
        <4>1. PICK j \in 1 .. Len(q) : x = q[j]
          BY ToSetOK
        <4>2. PICK i \in 1 .. Len(r) : at(i) = j
          BY <2>1, <2>7, <3>3, <4>1
        <4>3. r[i] = x
          BY <2>6, <4>1, <4>2
        <4> QED
          BY <2>5, <4>3, ToSetOK
      <3> QED
        BY <3>2, <3>3
    <2> QED
      BY <2>5, <2>8, <2>9
  <1> QED
    BY <1>1, <1>2

LEMMA TailOK ==
  ASSUME NEW S, NEW q \in Seq(S), q # <<>>, IsInjective(q)
  PROVE  /\ Tail(q) \in Seq(S) /\ IsInjective(Tail(q)) /\ Head(q) \in S
         /\ Head(q) \in ToSet(q) /\ ToSet(Tail(q)) = ToSet(q) \ {Head(q)}
  <1>0. Tail(q) \in Seq(S)
    OBVIOUS
  <1>1. PICK p \in Seq(S) : p = Tail(q)
    BY <1>0
  <1>2. /\ Len(q) \in Nat /\ Len(q) > 0 /\ Len(p) = Len(q) - 1 /\ Head(q) = q[1]
        /\ \A i \in 1 .. Len(p) : p[i] = q[i + 1]
        /\ DOMAIN q = 1 .. Len(q) /\ DOMAIN p = 1 .. Len(p)
    BY <1>1
  <1>3. \A i, j \in 1 .. Len(q) : q[i] = q[j] => i = j
    BY <1>2 DEF IsInjective
  <1>4. \A i \in 1 .. Len(p) : i + 1 \in 1 .. Len(q) /\ i + 1 # 1
    BY <1>2
  <1>5. IsInjective(p)
    BY <1>2, <1>3, <1>4 DEF IsInjective
  <1>6. 1 \in 1 .. Len(q)
    BY <1>2
  <1>7. \A j \in 1 .. Len(q) : j # 1 => j - 1 \in 1 .. Len(p) /\ p[j - 1] = q[j]
    BY <1>2
  <1>8. ToSet(p) = ToSet(q) \ {q[1]}
    <2>1. ASSUME NEW x \in ToSet(p) PROVE x \in ToSet(q) /\ x # q[1]
      <3>1. PICK i \in 1 .. Len(p) : x = p[i]
        BY ToSetOK
      <3> QED
        BY <1>2, <1>3, <1>4, <1>6, <3>1, ToSetOK
    <2>2. ASSUME NEW x \in ToSet(q), x # q[1] PROVE x \in ToSet(p)
      <3>1. PICK j \in 1 .. Len(q) : x = q[j]
        BY ToSetOK
      <3> QED
        BY <1>7, <2>2, <3>1, ToSetOK
    <2> QED
      BY <2>1, <2>2
  <1>9. q[1] \in S /\ q[1] \in ToSet(q)
    BY <1>6, ToSetOK
  <1> QED
    BY <1>1, <1>2, <1>5, <1>8, <1>9

LEMMA ConsOK ==
  ASSUME NEW S, NEW q \in Seq(S), IsInjective(q), NEW e \in S, e \notin ToSet(q)
  PROVE  /\ <<e>> \o q \in Seq(S) /\ IsInjective(<<e>> \o q)
         /\ ToSet(<<e>> \o q) = ToSet(q) \cup {e}
  <1>0. <<e>> \in Seq(S)
    OBVIOUS
  <1>1. PICK p \in Seq(S) : p = <<e>> \o q
    BY <1>0, ConcatProperties
  <1>2. /\ Len(q) \in Nat /\ Len(p) = Len(q) + 1 /\ p[1] = e
        /\ \A i \in 1 .. Len(q) : p[i + 1] = q[i]
        /\ DOMAIN q = 1 .. Len(q) /\ DOMAIN p = 1 .. Len(p)
    BY <1>1
  <1>3. \A j \in 1 .. Len(p) : j # 1 => j - 1 \in 1 .. Len(q) /\ p[j] = q[j - 1]
    <2>1. ASSUME NEW j \in 1 .. Len(p), j # 1 PROVE j - 1 \in 1 .. Len(q) /\ p[j] = q[j - 1]
      <3>1. j - 1 \in 1 .. Len(q) /\ (j - 1) + 1 = j
        BY <1>2, <2>1
      <3> QED
        BY <1>2, <3>1
    <2> QED
      BY <2>1
  <1>4. \A i, j \in 1 .. Len(q) : q[i] = q[j] => i = j
    BY <1>2 DEF IsInjective
  <1>5. \A i \in 1 .. Len(q) : q[i] # e
    BY ToSetOK
  <1>6. IsInjective(p)
    <2>1. ASSUME NEW i \in 1 .. Len(p), NEW j \in 1 .. Len(p), p[i] = p[j] PROVE i = j
      <3>1. CASE i = 1 \/ j = 1
        BY <1>2, <1>3, <1>5, <2>1, <3>1
      <3>2. CASE i # 1 /\ j # 1
        <4>1. i - 1 = j - 1
          BY <1>3, <1>4, <2>1, <3>2
        <4> QED
          BY <4>1
      <3> QED
        BY <3>1, <3>2
    <2> QED
      BY <1>2, <2>1 DEF IsInjective
  <1>7. \A i \in 1 .. Len(q) : i + 1 \in 1 .. Len(p)
    BY <1>2
  <1>8. ToSet(p) = ToSet(q) \cup {e}
    <2>1. ASSUME NEW x \in ToSet(p) PROVE x \in ToSet(q) \/ x = e
      <3>1. PICK i \in 1 .. Len(p) : x = p[i]
        BY ToSetOK
      <3> QED
        <4>1. CASE i = 1
          BY <1>2, <3>1, <4>1
        <4>2. ASSUME i # 1 PROVE x \in ToSet(q)
          <5>1. i - 1 \in 1 .. Len(q) /\ x = q[i - 1]
            BY <1>3, <3>1, <4>2
          <5>2. \A j \in 1 .. Len(q) : q[j] \in ToSet(q)
            BY ToSetOK
          <5> QED
            BY <5>1, <5>2
        <4> QED
          BY <4>1, <4>2
    <2>2. e \in ToSet(p)
      <3>1. 1 \in 1 .. Len(p)
        BY <1>2
      <3> QED
        BY <1>2, <3>1, ToSetOK
    <2>3. ASSUME NEW x \in ToSet(q) PROVE x \in ToSet(p)
      <3>1. PICK i \in 1 .. Len(q) : x = q[i]
        BY ToSetOK
      <3> QED
        BY <1>2, <1>7, <3>1, ToSetOK
    <2> QED
      BY <2>1, <2>2, <2>3
  <1> QED
    BY <1>1, <1>6, <1>8

(* Who is not idle is not on the list.                                      *)
LEMMA NotListed ==
  ASSUME IInv, NEW e \in Conns, ~Idle(e)
  PROVE  /\ idle_list \in Seq(Conns) /\ IsInjective(idle_list)
         /\ ToSet(idle_list) = ToSet(idle_list) \ {e} /\ e \notin ToSet(idle_list)
  BY DEF IInv, ListOK, ShapeOK

-----------------------------------------------------------------------------
(* The ends that handlers see *)

LEMMA OutcomeIs == \A st : Outcome(st) \in {"error", "stopped"}
  BY DEF Outcome

LEMMA ConnectFailedStep ==
  ASSUME IInv, NEW h \in Handlers, ConnectFailed(h)
  PROVE  IInv'
  <1>1. PICK e, o : e = hres[h].conn /\ o = Outcome(hres[h].st)
    OBVIOUS
  <1>2. /\ hpc[h] = "connect" /\ Decide(h, esession[e], o)
        /\ UNCHANGED <<entryVars, pollerVars, msgqueue, hres, requestVars, sessionVars, deinitVars>>
    BY <1>1 DEF ConnectFailed
  <1>3. /\ UNCHANGED <<ref, esession, emutex, memory, pollerVars, msgqueue, hres, requestVars,
                       sessionVars, deinitVars>>
        /\ state' = state /\ idle_list' = idle_list
    BY <1>2 DEF entryVars
  <1>4. GoodJob(h) /\ ShapeOK
    BY DEF IInv, ResultsOK
  <1>5. e \in Conns /\ hres[h].op = "connect" /\ IsEnd(hres[h])
    BY <1>1, <1>2, <1>4 DEF GoodJob, GoodResult, Ops, IsEnd
  <1>6. StateOK(e)
    BY <1>5 DEF IInv, EntryOK
  <1>7. Ending(e, "connect") > 0
    BY <1>1, <1>2, <1>4, <1>5, JobIsToken
  <1>8. Awaiting(e) /\ state[e] = "connecting"
    BY <1>6, <1>7 DEF Awaiting, StateOK
  <1>9. /\ idle_list \in Seq(Conns) /\ IsInjective(idle_list)
        /\ ToSet(idle_list) = ToSet(idle_list) \ {e}
    BY <1>5, <1>8, NotListed DEF Idle
  <1>10. o \in {"error", "stopped", "none"}
    BY <1>1, OutcomeIs
  <1> QED
    BY <1>1, <1>2, <1>3, <1>5, <1>8, <1>9, <1>10, EndStep DEF Ops

LEMMA RequestFailedStep ==
  ASSUME IInv, NEW h \in Handlers, RequestFailed(h)
  PROVE  IInv'
  <1>1. PICK e, o : e = hres[h].conn /\ o = Outcome(hres[h].st)
    OBVIOUS
  <1>2. /\ hpc[h] = "write" /\ Decide(h, esession[e], o)
        /\ UNCHANGED <<entryVars, pollerVars, msgqueue, hres, requestVars, sessionVars, deinitVars>>
    BY <1>1 DEF RequestFailed
  <1>3. /\ UNCHANGED <<ref, esession, emutex, memory, pollerVars, msgqueue, hres, requestVars,
                       sessionVars, deinitVars>>
        /\ state' = state /\ idle_list' = idle_list
    BY <1>2 DEF entryVars
  <1>4. GoodJob(h) /\ ShapeOK
    BY DEF IInv, ResultsOK
  <1>5. e \in Conns /\ hres[h].op = "write" /\ IsEnd(hres[h])
    BY <1>1, <1>2, <1>4 DEF GoodJob, GoodResult, Ops, IsEnd
  <1>6. StateOK(e)
    BY <1>5 DEF IInv, EntryOK
  <1>7. Ending(e, "write") > 0
    BY <1>1, <1>2, <1>4, <1>5, JobIsToken
  <1>8. Awaiting(e) /\ state[e] \in {"connecting", "idle"} /\ ~Idle(e)
    <2>1. Ending(e, "connect") \in Nat /\ Ending(e, "read") \in Nat /\ Ending(e, "write") \in Nat
      BY <1>4, <1>5, CountTypes
    <2> QED
      BY <1>6, <1>7, <2>1 DEF Awaiting, StateOK, Idle
  <1>9. /\ idle_list \in Seq(Conns) /\ IsInjective(idle_list)
        /\ ToSet(idle_list) = ToSet(idle_list) \ {e}
    BY <1>5, <1>8, NotListed
  <1>10. o \in {"error", "stopped", "none"}
    BY <1>1, OutcomeIs
  <1> QED
    BY <1>1, <1>2, <1>3, <1>5, <1>8, <1>9, <1>10, EndStep DEF Ops

LEMMA ReplyEndDecided ==
  ASSUME IInv, NEW h \in Handlers, ReplyEnd(h), hpc'[h] # "unlock"
  PROVE  IInv'
  <1>1. PICK e : e = hres[h].conn
    OBVIOUS
  <1>2. /\ hpc[h] = "read" /\ hres[h].st \notin {"SUCCESS", "MODIFIED"} /\ emutex[e] = None
        /\ UNCHANGED <<ref, esession, memory, pollerVars, msgqueue, hres, requestVars,
                       sessionVars, deinitVars>>
    BY <1>1 DEF ReplyEnd
  <1>3. GoodJob(h) /\ ShapeOK /\ LockOK
    BY DEF IInv, ResultsOK
  <1>4. e \in Conns /\ hres[h].op = "read" /\ IsEnd(hres[h])
    BY <1>1, <1>2, <1>3 DEF GoodJob, GoodResult, Ops, IsEnd
  <1>5. StateOK(e) /\ OwnerOK(e)
    BY <1>4 DEF IInv, EntryOK
  <1>6. Ending(e, "read") > 0
    BY <1>1, <1>2, <1>3, <1>4, JobIsToken
  <1>7. /\ Ending(e, "connect") = 0 /\ Ending(e, "write") = 0
        /\ Complete(e) > 0 => state[e] = "success"
    <2>1. Ending(e, "connect") \in Nat /\ Ending(e, "read") \in Nat /\ Ending(e, "write") \in Nat
      BY <1>3, <1>4, CountTypes
    <2> QED
      BY <1>5, <1>6, <2>1 DEF StateOK
  <1>8. state[e] # "success" => (Awaiting(e) <=> state[e] \in {"receiving", "error"})
    <2>1. Complete(e) \in Nat
      BY <1>3, <1>4, CountTypes
    <2> QED
      BY <1>6, <1>7, <2>1 DEF Awaiting
  <1>9. PICK a : a = Outcome(hres[h].st)
    OBVIOUS
  <1>10. a \in {"error", "stopped"}
    BY <1>9, OutcomeIs
  <1>11. /\ idle_list \in Seq(Conns) /\ IsInjective(idle_list)
         /\ ~Idle(e) => ToSet(idle_list) = ToSet(idle_list) \ {e}
    BY <1>3, <1>4, NotListed DEF IInv, ListOK, ShapeOK
  <1>12. CASE state[e] = "idle"
    <2>1. /\ idle_list' = RemoveFirst(idle_list, e) /\ Decide(h, None, "none")
          /\ state' = state /\ emutex' = emutex
      BY <1>1, <1>12 DEF ReplyEnd, ListWithout, AwaitsOutcome
    <2>2. /\ idle_list' \in Seq(Conns) /\ IsInjective(idle_list')
          /\ ToSet(idle_list') = ToSet(idle_list) \ {e}
      BY <1>11, <2>1, RemoveFirstOK
    <2>3. ~Awaiting(e)
      BY <1>8, <1>12
    <2> QED
      BY <1>1, <1>2, <1>4, <1>12, <2>1, <2>2, <2>3, EndStep DEF Ops
  <1>13. CASE state[e] \in {"receiving", "error"}
    <2>1. PICK o : o = IF state[e] = "error" THEN "error" ELSE a
      OBVIOUS
    <2>2. /\ Decide(h, esession[e], o) /\ idle_list' = idle_list
          /\ state' = state /\ emutex' = emutex
      BY <1>1, <1>9, <1>13, <2>1 DEF ReplyEnd, AwaitsOutcome
    <2>3. o \in {"error", "stopped", "none"}
      BY <1>10, <2>1
    <2>4. Awaiting(e) /\ ~Idle(e)
      BY <1>8, <1>13 DEF Idle
    <2> QED
      BY <1>1, <1>2, <1>4, <1>11, <1>13, <2>2, <2>3, <2>4, EndStep DEF Ops
  <1>14. CASE state[e] \notin {"idle", "receiving", "error"}
    <2>1. state[e] # "success"
      <3>1. ASSUME state[e] = "success" PROVE FALSE
        <4>1. hpc' = [hpc EXCEPT ![h] = "unlock"]
          BY <1>1, <1>14, <3>1 DEF ReplyEnd, AwaitsOutcome, Goto
        <4> QED
          BY <1>3, <4>1 DEF ShapeOK
      <3> QED
        BY <3>1
    <2>2. /\ idle_list' = idle_list /\ Decide(h, None, "none")
          /\ state' = state /\ emutex' = emutex
      BY <1>1, <1>14, <2>1 DEF ReplyEnd, AwaitsOutcome
    <2>3. ~Awaiting(e) /\ ~Idle(e)
      BY <1>8, <1>14, <2>1 DEF Idle
    <2> QED
      BY <1>1, <1>2, <1>4, <1>11, <2>1, <2>2, <2>3, EndStep DEF Ops
  <1> QED
    BY <1>12, <1>13, <1>14

(* A handler at the end of an entry has its only token of the poller, so    *)
(* the poller's thread has nothing in hand.                                 *)
LEMMA EndIsLast ==
  ASSUME ShapeOK, NEW e \in Conns, HandOK(e), StateOK(e), NEW h \in Handlers, hres[h].conn = e,
         IsEnd(hres[h]), hpc[h] = hres[h].op, hpc[h] \in Ops
  PROVE  hand[e] = "none" /\ node[e] = "none"
  <1>1. PICK p \in Ops : p = hpc[h]
    OBVIOUS
  <1>2. hres[h] \in Res
    BY JobTypes
  <1>3. JNum(Ends(e, p), {p}) > 0
    BY <1>1, <1>2, EndsIs, JNumPositive
  <1>4. Ending(e, "connect") + Ending(e, "read") + Ending(e, "write") <= 1
    BY DEF StateOK
  <1>5. ASSUME NEW op \in Ops, B(node[e] = op) + Num(pipe[e], Ends(e, op)) > 0 PROVE FALSE
    <2>1. PICK x \in Nat, y \in Nat, z \in Nat, u \in Nat :
             /\ x = Num(pipe[e], Ends(e, op)) /\ y = Num(msgqueue, Ends(e, op))
             /\ z = JNum(Ends(e, op), {op}) /\ u = B(node[e] = op)
      BY CountTypes
    <2>2. PICK x2 \in Nat, y2 \in Nat, z2 \in Nat, u2 \in Nat :
             /\ x2 = Num(pipe[e], Ends(e, p)) /\ y2 = Num(msgqueue, Ends(e, p))
             /\ z2 = JNum(Ends(e, p), {p}) /\ u2 = B(node[e] = p)
      BY CountTypes
    <2>3. PICK a \in Nat, b \in Nat, c \in Nat :
             a = Ending(e, "connect") /\ b = Ending(e, "read") /\ c = Ending(e, "write")
      BY CountTypes
    <2>4. Ending(e, op) = u + x + y + z /\ Ending(e, p) = u2 + x2 + y2 + z2
      BY <2>1, <2>2 DEF Ending
    <2>5. u + x > 0 /\ z2 > 0 /\ a + b + c <= 1
      BY <1>3, <1>4, <1>5, <2>1, <2>2, <2>3
    <2>6. CASE op = p
      <3>1. u = u2 /\ x = x2
        BY <2>1, <2>2, <2>6
      <3>2. Ending(e, p) >= 2
        BY ONLY <2>4, <2>5, <3>1, x \in Nat, u \in Nat, y2 \in Nat, z2 \in Nat
      <3> QED
        BY <2>3, <2>5, <3>2 DEF Ops
    <2>7. CASE op # p
      <3>1. Ending(e, op) >= 1 /\ Ending(e, p) >= 1
        BY ONLY <2>4, <2>5, x \in Nat, y \in Nat, z \in Nat, u \in Nat, x2 \in Nat, y2 \in Nat,
                z2 \in Nat, u2 \in Nat
      <3> QED
        BY <2>3, <2>5, <2>7, <3>1 DEF Ops
    <2> QED
      BY <2>6, <2>7
  <1>6. \A op \in Ops : node[e] # op /\ ~(Num(pipe[e], Ends(e, op)) > 0)
    <2>1. ASSUME NEW op \in Ops PROVE node[e] # op /\ ~(Num(pipe[e], Ends(e, op)) > 0)
      <3>1. PICK x \in Nat, u \in Nat : x = Num(pipe[e], Ends(e, op)) /\ u = B(node[e] = op)
        BY CountTypes
      <3>2. ~(u + x > 0)
        BY <1>5, <3>1
      <3>3. u = 0 /\ x = 0
        BY <3>1, <3>2
      <3> QED
        BY <3>1, <3>3 DEF B
    <2> QED
      BY <2>1
  <1>7. node[e] = "none"
    BY <1>6, Types
  <1>8. hand[e] = "none"
    BY <1>6, <1>7 DEF HandOK, Ops
  <1> QED
    BY <1>7, <1>8

(* The same for a complete reply. *)
LEMMA CompleteIsLast ==
  ASSUME ShapeOK, NEW e \in Conns, Complete(e) <= 1, NEW h \in Handlers, hres[h].conn = e,
         IsSuccess(hres[h]), hpc[h] = "read", hres[h].op = "read"
  PROVE  hand[e] # "success"
  <1>1. hres[h] \in Res
    BY JobTypes
  <1>2. JNum(Completes(e), {"read"}) > 0
    BY <1>1, EndsIs, JNumPositive
  <1>3. PICK x \in Nat, y \in Nat, z \in Nat :
           /\ x = B(hand[e] = "success") /\ y = Num(msgqueue, Completes(e))
           /\ z = JNum(Completes(e), {"read"})
    BY CountTypes
  <1>4. x + y + z <= 1 /\ z > 0
    BY <1>2, <1>3 DEF Complete
  <1>5. x = 0
    BY <1>4
  <1> QED
    BY <1>3, <1>5 DEF B

LEMMA ReplyEndNoticed ==
  ASSUME IInv, NEW h \in Handlers, ReplyEnd(h), hpc'[h] = "unlock"
  PROVE  IInv'
  <1>1. PICK e : e = hres[h].conn
    OBVIOUS
  <1>2. /\ hpc[h] = "read" /\ hres[h].st \notin {"SUCCESS", "MODIFIED"} /\ emutex[e] = None
        /\ UNCHANGED <<ref, esession, memory, pollerVars, msgqueue, hres, requestVars,
                       sessionVars, deinitVars>>
    BY <1>1 DEF ReplyEnd
  <1>3. GoodJob(h) /\ ShapeOK
    BY DEF IInv, ResultsOK
  <1>4. e \in Conns /\ hres[h].op = "read" /\ IsEnd(hres[h])
    BY <1>1, <1>2, <1>3 DEF GoodJob, GoodResult, Ops, IsEnd
  <1>5. RefOK(e) /\ StateOK(e) /\ HandOK(e)
    BY <1>4 DEF IInv, EntryOK
  <1>6. state[e] = "success"
    <2>1. ASSUME NEW s, NEW o PROVE ~Decide(h, s, o)
      <3>1. ASSUME Decide(h, s, o) PROVE FALSE
        <4>1. hpc' = [hpc EXCEPT ![h] = IF s = None THEN "unref" ELSE "finish"]
          BY <3>1 DEF Decide, Goto
        <4> QED
          BY <1>3, <4>1 DEF ShapeOK
      <3> QED
        BY <3>1
    <2> QED
      BY <1>1, <2>1 DEF ReplyEnd
  <1>7. /\ state' = [state EXCEPT ![e] = "closing"] /\ emutex' = [emutex EXCEPT ![e] = h]
        /\ hpc' = [hpc EXCEPT ![h] = "unlock"]
        /\ UNCHANGED <<hsession, houtcome, idle_list>>
    BY <1>1, <1>6 DEF ReplyEnd, AwaitsOutcome, Goto
  <1>8. /\ ref' = ref /\ esession' = esession /\ memory' = memory
        /\ node' = node /\ hand' = hand /\ removed' = removed /\ partial' = partial
        /\ pipe' = pipe /\ stopped' = stopped /\ msgqueue' = msgqueue /\ hres' = hres
        /\ hsession' = hsession /\ houtcome' = houtcome /\ idle_list' = idle_list
        /\ requestVars' = requestVars /\ sessionVars' = sessionVars /\ deinitVars' = deinitVars
    BY <1>2, <1>7 DEF pollerVars
  <1>9. /\ HandlersElse(h) /\ hpc'[h] = "unlock"
        /\ hpc' \in [Handlers -> {"get", "stopcheck", "unlock", "exit"} \cup Ops \cup Letting]
        /\ state'[e] = "closing" /\ emutex'[e] = h
        /\ \A d \in Conns : d # e => state'[d] = state[d] /\ emutex'[d] = emutex[d]
        /\ state' \in [Conns -> {"none", "connecting", "receiving", "success", "idle",
                                 "closing", "error"}]
        /\ emutex' \in [Conns -> Sessions \cup Handlers \cup {None}]
    BY <1>3, <1>4, <1>7, <1>8 DEF ShapeOK, HandlersElse
  <1>10. hand[e] = "none" /\ node[e] = "none"
    BY <1>1, <1>2, <1>3, <1>4, <1>5, EndIsLast DEF Ops
  <1>11. PICK ec \in Nat, er \in Nat, ew \in Nat, hc \in Nat, hr \in Nat, hw \in Nat, c \in Nat :
            /\ ec = Ending(e, "connect") /\ er = Ending(e, "read") /\ ew = Ending(e, "write")
            /\ hc = Held(e, "connect") /\ hr = Held(e, "read") /\ hw = Held(e, "write")
            /\ c = Complete(e)
    BY <1>3, <1>4, CountTypes
  <1>12. ASSUME NEW op \in Ops
         PROVE  /\ Ending(e, op)' = Ending(e, op) - B(op = "read")
                /\ Held(e, op)' = Held(e, op) /\ Complete(e)' = Complete(e)
    <2>1. /\ B(EndAt(hres[h], hpc[h], e, op)) = B(op = "read")
          /\ B(EndAt(hres[h], hpc'[h], e, op)) = 0
          /\ B(HeldAt(hres[h], hpc[h], e, op)) = 0 /\ B(HeldAt(hres[h], hpc'[h], e, op)) = 0
          /\ B(CompleteAt(hres[h], hpc[h], e)) = 0 /\ B(CompleteAt(hres[h], hpc'[h], e)) = 0
      BY <1>1, <1>2, <1>4, <1>9 DEF B, EndAt, HeldAt, CompleteAt, Ops, Letting, IsSuccess
    <2>2. PICK x \in Nat, y \in Nat, u \in {0, 1}, b \in {0, 1} :
             /\ x = Ending(e, op) /\ y = Held(e, op) /\ u = B(node[e] = op) /\ b = B(op = "read")
      BY <1>3, <1>4, CountTypes, BOK
    <2>3. /\ Ending(e, op)' = x - u + u - b + 0 /\ Held(e, op)' = y - 0 + 0
          /\ Complete(e)' = c - 0 + 0
      BY <1>3, <1>4, <1>8, <1>9, <1>11, <2>1, <2>2, TokenMoves
    <2> QED
      BY <1>11, <2>2, <2>3
  <1>13. /\ Ending(e, "connect")' = ec /\ Ending(e, "read")' = er - 1 /\ Ending(e, "write")' = ew
         /\ Held(e, "connect")' = hc /\ Held(e, "read")' = hr /\ Held(e, "write")' = hw
         /\ Complete(e)' = c
    <2>1. B("connect" = "read") = 0 /\ B("read" = "read") = 1 /\ B("write" = "read") = 0
      BY DEF B
    <2> QED
      BY <1>11, <1>12, <2>1 DEF Ops
  <1>14. ec = 0 /\ er = 1 /\ ew = 0 /\ c = 1 /\ hc = 0
    BY <1>5, <1>6, <1>11 DEF StateOK
  <1>15. Tokens(e)' = Tokens(e) - 1 /\ Tokens(e) > 0
    <2>1. Tokens(e) = ec + er + ew + c + hc + hr + hw
      BY <1>11 DEF Tokens
    <2>2. Tokens(e)' = ec + (er - 1) + ew + c + hc + hr + hw
      BY <1>13 DEF Tokens
    <2> QED
      BY <1>14, <2>1, <2>2
  <1>16. RefOK(e)'
    <2>1. memory[e] = "live" /\ ref[e] >= 1 /\ ref[e] + B(state[e] = "success") = Tokens(e)
      BY <1>5, <1>15 DEF RefOK
    <2>2. B(state[e] = "success") = 1 /\ B(state'[e] = "success") = 0
      BY <1>6, <1>9 DEF B
    <2>3. ref[e] \in Int
      BY <1>3, <1>4, Types
    <2>4. ref[e] + 0 = Tokens(e)'
      BY <1>15, <2>1, <2>2, <2>3
    <2> QED
      BY <1>8, <1>9, <2>1, <2>2, <2>4 DEF RefOK
  <1>17. StateOK(e)'
    BY <1>9, <1>13, <1>14 DEF StateOK
  <1>18. HandOK(e)'
    BY <1>5, <1>8, <1>10 DEF HandOK
  <1>19. UseOK(e)'
    BY <1>1, <1>8, <1>9, Names DEF UseOK
  <1>20. ListGood(e)'
    BY <1>4, <1>6, <1>8, <1>9, NotListed DEF ListGood, Idle
  <1>21. GoodJob(h)'
    BY <1>1, <1>4, <1>8, <1>9 DEF GoodJob, Ops, Letting
  <1>22. ShapeOK'
    BY <1>3, <1>8, <1>9 DEF ShapeOK, requestVars, sessionVars, deinitVars
  <1>23. HandlerFrame(h, e)
    BY <1>1, <1>2, <1>8, <1>9 DEF HandlerFrame
  <1>24. Decided(h, e)
    BY <1>9, <1>11, <1>13, <1>14 DEF Decided, Awaiting
  <1> QED
    BY <1>4, <1>16, <1>17, <1>18, <1>19, <1>20, <1>21, <1>22, <1>23, <1>24, HandlerStep

LEMMA ReplyEndStep ==
  ASSUME IInv, NEW h \in Handlers, ReplyEnd(h)
  PROVE  IInv'
  BY ReplyEndNoticed, ReplyEndDecided

LEMMA ReplyCompleteStep ==
  ASSUME IInv, NEW h \in Handlers, ReplyComplete(h)
  PROVE  IInv'
  <1>1. PICK e, s : e = hres[h].conn /\ s = esession[e]
    OBVIOUS
  <1>2. /\ hpc[h] = "read" /\ hres[h].st = "SUCCESS" /\ Decide(h, s, "success")
        /\ IF state[e] = "success"
           THEN /\ ref' = [ref EXCEPT ![e] = @ + 1]
                /\ state' = [state EXCEPT ![e] = IF keep_alive[s] THEN "idle" ELSE "closing"]
                /\ idle_list' = IF keep_alive[s] THEN <<e>> \o idle_list ELSE idle_list
           ELSE UNCHANGED <<ref, state, idle_list>>
        /\ UNCHANGED <<esession, emutex, memory, pollerVars, msgqueue, hres,
                       requestVars, sessionVars, deinitVars>>
    BY <1>1 DEF ReplyComplete, EndNotSeen
  <1>3. GoodJob(h) /\ ShapeOK
    BY DEF IInv, ResultsOK
  <1>4. /\ e \in Conns /\ hres[h].op = "read" /\ IsSuccess(hres[h])
        /\ GoodResult(hres[h]) /\ hres[h].for = s
    BY <1>1, <1>2, <1>3 DEF GoodJob, GoodResult, Ops, IsSuccess, ItsSession
  <1>5. RefOK(e) /\ StateOK(e) /\ HandOK(e) /\ UseOK(e) /\ OwnerOK(e)
    BY <1>4 DEF IInv, EntryOK
  <1>6. PICK ec \in Nat, er \in Nat, ew \in Nat, hc \in Nat, hr \in Nat, hw \in Nat, c \in Nat :
            /\ ec = Ending(e, "connect") /\ er = Ending(e, "read") /\ ew = Ending(e, "write")
            /\ hc = Held(e, "connect") /\ hr = Held(e, "read") /\ hw = Held(e, "write")
            /\ c = Complete(e)
    BY <1>3, <1>4, CountTypes
  <1>7. c > 0
    BY <1>1, <1>2, <1>3, <1>4, <1>6, JobIsToken
  <1>8. /\ c = 1 /\ ec = 0 /\ ew = 0 /\ hc = 0 /\ er <= 1
        /\ state[e] = "success" => er = 1
        /\ state[e] # "success" => state[e] = "closing" /\ er = 0
    <2>1. /\ ec + er + ew <= 1 /\ c <= 1
          /\ ec > 0 \/ hc > 0 => state[e] = "connecting"
          /\ ew > 0 => state[e] \in {"connecting", "idle"}
          /\ state[e] = "success" => er = 1
          /\ c > 0 => state[e] = "success" \/ (state[e] = "closing" /\ er = 0)
      BY <1>5, <1>6 DEF StateOK
    <2> QED
      BY <1>7, <2>1
  <1>9. Awaiting(e) /\ s \in Sessions
    BY <1>1, <1>5, <1>6, <1>7 DEF Awaiting, OwnerOK
  <1>10. /\ esession' = esession /\ emutex' = emutex /\ memory' = memory
         /\ node' = node /\ hand' = hand /\ removed' = removed /\ partial' = partial
         /\ pipe' = pipe /\ stopped' = stopped /\ msgqueue' = msgqueue /\ hres' = hres
         /\ rpc' = rpc /\ rconn' = rconn
         /\ requestVars' = requestVars /\ sessionVars' = sessionVars /\ deinitVars' = deinitVars
    BY <1>2 DEF pollerVars, requestVars
  <1>11. /\ hpc' = [hpc EXCEPT ![h] = "finish"]
         /\ hsession' = [hsession EXCEPT ![h] = s] /\ houtcome' = [houtcome EXCEPT ![h] = "success"]
    BY <1>2, <1>9, Names DEF Decide, Goto
  <1>12. /\ HandlersElse(h) /\ hpc'[h] = "finish"
         /\ hpc' \in [Handlers -> {"get", "stopcheck", "unlock", "exit"} \cup Ops \cup Letting]
         /\ hsession' \in [Handlers -> Sessions \cup {None}] /\ hsession'[h] = s
         /\ houtcome' \in [Handlers -> {"none", "success", "error", "stopped"}]
         /\ \A g \in Handlers : g # h => hsession'[g] = hsession[g] /\ houtcome'[g] = houtcome[g]
    BY <1>3, <1>9, <1>10, <1>11 DEF ShapeOK, HandlersElse, Letting
  <1>13. /\ idle_list \in Seq(Conns) /\ IsInjective(idle_list) /\ e \notin ToSet(idle_list)
    BY <1>4, <1>8, NotListed DEF Idle
  <1>14. /\ state[e] = "success" => /\ state'[e] \in {"idle", "closing"} /\ ref'[e] = ref[e] + 1
                                    /\ e \in ToSet(idle_list') <=> state'[e] = "idle"
         /\ state[e] # "success" => /\ state'[e] = "closing" /\ ref'[e] = ref[e]
                                    /\ e \notin ToSet(idle_list')
         /\ \A d \in Conns : d # e => /\ state'[d] = state[d] /\ ref'[d] = ref[d]
                                      /\ d \in ToSet(idle_list') <=> d \in ToSet(idle_list)
         /\ state' \in [Conns -> {"none", "connecting", "receiving", "success", "idle",
                                  "closing", "error"}]
         /\ ref' \in [Conns -> Int] /\ idle_list' \in Seq(Conns) /\ IsInjective(idle_list')
    <2>1. /\ state \in [Conns -> {"none", "connecting", "receiving", "success", "idle",
                                  "closing", "error"}]
          /\ ref \in [Conns -> Int]
      BY <1>3 DEF ShapeOK
    <2>2. CASE state[e] # "success"
      BY <1>2, <1>4, <1>8, <1>13, <2>1, <2>2
    <2>3. CASE state[e] = "success" /\ keep_alive[s]
      <3>1. PICK q \in Seq(Conns) : /\ q = idle_list' /\ IsInjective(q)
                                    /\ ToSet(q) = ToSet(idle_list) \cup {e}
        <4>1. idle_list' = <<e>> \o idle_list
          BY <1>2, <2>3
        <4>2. /\ idle_list' \in Seq(Conns) /\ IsInjective(idle_list')
              /\ ToSet(idle_list') = ToSet(idle_list) \cup {e}
          BY <1>4, <1>13, <4>1, ConsOK
        <4> QED
          BY <4>2
      <3>2. /\ state' = [state EXCEPT ![e] = "idle"] /\ ref' = [ref EXCEPT ![e] = @ + 1]
        BY <1>2, <2>3
      <3> QED
        BY <1>4, <2>1, <2>3, <3>1, <3>2
    <2>4. CASE state[e] = "success" /\ ~keep_alive[s]
      <3>1. /\ state' = [state EXCEPT ![e] = "closing"] /\ ref' = [ref EXCEPT ![e] = @ + 1]
            /\ idle_list' = idle_list
        BY <1>2, <2>4
      <3> QED
        BY <1>4, <1>13, <2>1, <2>4, <3>1
    <2> QED
      BY <2>2, <2>3, <2>4
  <1>15. /\ \A op \in Ops : /\ Ending(e, op)' = Ending(e, op)
                            /\ Held(e, op)' = Held(e, op) + B(op = "read")
         /\ Complete(e)' = Complete(e) - 1
    BY <1>1, <1>2, <1>3, <1>4, <1>10, <1>12, CompleteLet DEF Letting
  <1>16. /\ Ending(e, "connect")' = 0 /\ Ending(e, "read")' = er /\ Ending(e, "write")' = 0
         /\ Held(e, "connect")' = 0 /\ Held(e, "read")' = hr + 1 /\ Held(e, "write")' = hw
         /\ Complete(e)' = 0
    <2>1. B("connect" = "read") = 0 /\ B("read" = "read") = 1 /\ B("write" = "read") = 0
      BY DEF B
    <2>2. /\ Ending(e, "connect")' = ec /\ Ending(e, "read")' = er /\ Ending(e, "write")' = ew
      BY <1>6, <1>15 DEF Ops
    <2>3. /\ Held(e, "connect")' = hc + 0 /\ Held(e, "read")' = hr + 1 /\ Held(e, "write")' = hw + 0
      BY <1>6, <1>15, <2>1 DEF Ops
    <2>4. Complete(e)' = c - 1
      BY <1>6, <1>15
    <2> QED
      BY <1>8, <2>2, <2>3, <2>4
  <1>17. Tokens(e)' = Tokens(e) /\ Tokens(e) > 0
    <2>1. Tokens(e) = ec + er + ew + c + hc + hr + hw
      BY <1>6 DEF Tokens
    <2>2. Tokens(e)' = 0 + er + 0 + 0 + 0 + (hr + 1) + hw
      BY <1>16 DEF Tokens
    <2> QED
      BY <1>8, <2>1, <2>2
  <1>18. RefOK(e)'
    <2>1. memory[e] = "live" /\ ref[e] >= 1 /\ ref[e] + B(state[e] = "success") = Tokens(e)
      BY <1>5, <1>17 DEF RefOK
    <2>2. ref[e] \in Int
      BY <1>3, <1>4, Types
    <2>3. B(state[e] = "success") = (IF state[e] = "success" THEN 1 ELSE 0)
          /\ B(state'[e] = "success") = 0
      BY <1>14 DEF B
    <2>4. ref'[e] >= 1 /\ ref'[e] + B(state'[e] = "success") = Tokens(e)'
      BY <1>14, <1>17, <2>1, <2>2, <2>3
    <2> QED
      BY <1>10, <1>14, <2>1, <2>4 DEF RefOK
  <1>19. StateOK(e)'
    BY <1>8, <1>14, <1>16 DEF StateOK
  <1>20. HandOK(e)'
    <2>1. hand[e] # "success"
      <3>1. Complete(e) <= 1
        BY <1>5 DEF StateOK
      <3> QED
        BY <1>1, <1>2, <1>3, <1>4, <3>1, CompleteIsLast
    <2>2. state[e] # "receiving" /\ state'[e] # "receiving"
      BY <1>8, <1>14
    <2> QED
      BY <1>5, <1>10, <2>1, <2>2 DEF HandOK
  <1>21. UseOK(e)'
    <2>1. PICK t : t = emutex[e]
      OBVIOUS
    <2>2. t \in Handlers => hpc'[t] = "unlock" /\ hres'[t].conn = e
      BY <1>2, <1>5, <1>10, <1>12, <2>1 DEF UseOK, HandlersElse
    <2>3. ASSUME t \in Sessions
          PROVE  /\ rconn[t] = e /\ rpc[t] = "unlock" /\ state'[e] \notin {"none", "connecting"}
                 /\ Ending(e, "read")' + Ending(e, "write")' + Held(e, "write")' > 0
      <3>1. /\ rconn[t] = e /\ rpc[t] \in Using
            /\ rpc[t] \in {"set_timeout", "send"} => Idle(e)
            /\ er + ew + hw > 0
        BY <1>5, <1>6, <2>1, <2>3 DEF UseOK
      <3>2. ~Idle(e) /\ state'[e] \notin {"none", "connecting"}
        BY <1>8, <1>14 DEF Idle
      <3> QED
        BY <1>8, <1>16, <3>1, <3>2 DEF Using
    <2>4. emutex'[e] = t /\ rconn' = rconn /\ rpc' = rpc
      BY <1>10, <2>1
    <2> QED
      BY <2>2, <2>3, <2>4, Names DEF UseOK, Using
  <1>22. ListGood(e)'
    BY <1>8, <1>14, <1>16 DEF ListGood, Idle
  <1>23. GoodJob(h)'
    BY <1>2, <1>4, <1>9, <1>10, <1>12 DEF GoodJob, Ops, Letting
  <1>24. ShapeOK'
    BY <1>3, <1>10, <1>12, <1>14 DEF ShapeOK, requestVars, sessionVars, deinitVars
  <1>25. HandlerFrame(h, e)
    BY <1>1, <1>2, <1>10, <1>12, <1>14 DEF HandlerFrame
  <1>26. Decided(h, e)
    BY <1>1, <1>9, <1>12, <1>14, <1>16 DEF Decided, Awaiting
  <1> QED
    BY <1>4, <1>18, <1>19, <1>20, <1>21, <1>22, <1>23, <1>24, <1>25, <1>26, HandlerStep

-----------------------------------------------------------------------------
(* A handler arms the connection again *)

LEMMA ArmStep ==
  ASSUME IInv, NEW h \in Handlers, NEW e \in Conns, NEW op \in {"read", "write"},
         hres[h].conn = e, hpc[h] \in {"connect", "write"}, IsEnd(hres[h]),
         op = "write" => hpc[h] = "connect" /\ state' = state,
         op = "read" => state' = [state EXCEPT ![e] = "receiving"],
         PollerAdd(e, op), hpc' = [hpc EXCEPT ![h] = "stopcheck"],
         UNCHANGED <<hsession, houtcome, ref, esession, emutex, memory, idle_list, hand, removed,
                     pipe, stopped, msgqueue, hres, requestVars, sessionVars, deinitVars>>
  PROVE  IInv'
  <1>1. /\ ShapeOK /\ ResultsOK /\ GoodJob(h) /\ RefOK(e) /\ StateOK(e) /\ HandOK(e) /\ UseOK(e)
    BY DEF IInv, EntryOK, ResultsOK
  <1>2. rpc' = rpc /\ rconn' = rconn
    BY DEF requestVars
  <1>3. PICK p \in Ops : p = hpc[h]
    BY DEF Ops
  <1>4. p \in {"connect", "write"} /\ hres[h].op = p /\ op # p
    BY <1>1, <1>3 DEF GoodJob
  <1>5. hand[e] = "none" /\ node[e] = "none"
    BY <1>1, <1>3, <1>4, EndIsLast
  <1>6. /\ node' \in [Conns -> Ops \cup {"none"}] /\ node'[e] = op
        /\ partial' \in [Conns -> BOOLEAN] /\ ~partial'[e]
        /\ \A d \in Conns : d # e => /\ node'[d] = node[d] /\ partial'[d] = partial[d]
                                     /\ state'[d] = state[d]
        /\ state' \in [Conns -> {"none", "connecting", "receiving", "success", "idle",
                                 "closing", "error"}]
        /\ op = "read" => state'[e] = "receiving"
        /\ op = "write" => state'[e] = state[e]
    <2>1. /\ node' = [node EXCEPT ![e] = op] /\ partial' = [partial EXCEPT ![e] = FALSE]
      BY DEF PollerAdd
    <2>2. /\ node \in [Conns -> Ops \cup {"none"}] /\ partial \in [Conns -> BOOLEAN]
          /\ state \in [Conns -> {"none", "connecting", "receiving", "success", "idle",
                                  "closing", "error"}]
      BY <1>1 DEF ShapeOK
    <2>3. /\ node' \in [Conns -> Ops \cup {"none"}] /\ node'[e] = op
          /\ partial' \in [Conns -> BOOLEAN] /\ ~partial'[e]
          /\ \A d \in Conns : d # e => node'[d] = node[d] /\ partial'[d] = partial[d]
      BY <2>1, <2>2 DEF Ops
    <2>4. CASE op = "read"
      BY <2>2, <2>3, <2>4
    <2>5. CASE op = "write"
      BY <2>2, <2>3, <2>5
    <2> QED
      BY <2>4, <2>5
  <1>7. /\ HandlersElse(h) /\ hpc'[h] = "stopcheck"
        /\ hpc' \in [Handlers -> {"get", "stopcheck", "unlock", "exit"} \cup Ops \cup Letting]
    BY <1>1 DEF ShapeOK, HandlersElse
  <1>8. PICK ec \in Nat, er \in Nat, ew \in Nat, hc \in Nat, hr \in Nat, hw \in Nat, c \in Nat :
            /\ ec = Ending(e, "connect") /\ er = Ending(e, "read") /\ ew = Ending(e, "write")
            /\ hc = Held(e, "connect") /\ hr = Held(e, "read") /\ hw = Held(e, "write")
            /\ c = Complete(e)
    BY <1>1, CountTypes
  <1>9. Ending(e, p) > 0
    BY <1>1, <1>3, <1>4, JobIsToken
  <1>10. /\ p = "connect" => ec = 1 /\ er = 0 /\ ew = 0 /\ state[e] = "connecting"
         /\ p = "write" => ec = 0 /\ er = 0 /\ ew = 1 /\ state[e] \in {"connecting", "idle"}
         /\ hc > 0 => state[e] = "connecting"
         /\ c > 0 => state[e] \in {"success", "closing"}
    BY <1>1, <1>8, <1>9 DEF StateOK
  <1>11. c = 0
    BY <1>4, <1>10
  <1>12. Tokens(e) = ec + er + ew + c + hc + hr + hw
    BY <1>8 DEF Tokens
  <1>13. memory[e] = "live" /\ ref[e] >= 1 /\ ref[e] = Tokens(e)
    <2>1. Tokens(e) # 0
      BY <1>4, <1>10, <1>12
    <2>2. B(state[e] = "success") = 0
      BY <1>4, <1>10 DEF B
    <2>3. ref[e] \in Int
      BY <1>1, Types
    <2> QED
      BY <1>1, <2>1, <2>2, <2>3 DEF RefOK
  <1>14. hc = 0
    <2>1. state[e] = "connecting" => ref[e] = 1
      BY <1>1, <1>13 DEF StateOK
    <2> QED
      BY <1>4, <1>10, <1>12, <1>13, <2>1
  <1>15. ASSUME NEW o \in Ops
         PROVE  /\ Ending(e, o)' = Ending(e, o) + B(o = op) - B(o = p)
                /\ Held(e, o)' = Held(e, o) /\ Complete(e)' = Complete(e)
    <2>1. /\ B(EndAt(hres[h], hpc[h], e, o)) = B(o = p)
          /\ B(EndAt(hres[h], hpc'[h], e, o)) = 0
          /\ B(HeldAt(hres[h], hpc[h], e, o)) = 0 /\ B(HeldAt(hres[h], hpc'[h], e, o)) = 0
          /\ B(CompleteAt(hres[h], hpc[h], e)) = 0 /\ B(CompleteAt(hres[h], hpc'[h], e)) = 0
      BY <1>3, <1>4, <1>7 DEF B, EndAt, HeldAt, CompleteAt, Ops, Letting
    <2>2. B(node[e] = o) = 0 /\ B(node'[e] = o) = B(o = op)
      BY <1>5, <1>6 DEF B, Ops
    <2>3. PICK x \in Nat, y \in Nat, u \in {0, 1}, b \in {0, 1} :
             /\ x = Ending(e, o) /\ y = Held(e, o) /\ u = B(o = op) /\ b = B(o = p)
      BY <1>1, CountTypes, BOK
    <2>4. /\ Ending(e, o)' = x - 0 + u - b + 0 /\ Held(e, o)' = y - 0 + 0
          /\ Complete(e)' = c - 0 + 0
      BY <1>1, <1>7, <1>8, <2>1, <2>2, <2>3, TokenMoves
    <2> QED
      BY <1>8, <2>3, <2>4
  <1>16. /\ Held(e, "connect")' = 0 /\ Held(e, "read")' = hr /\ Held(e, "write")' = hw
         /\ Complete(e)' = 0
    BY <1>8, <1>11, <1>14, <1>15 DEF Ops
  <1>17. /\ Ending(e, "connect")' = 0
         /\ op = "read" => Ending(e, "read")' = 1 /\ Ending(e, "write")' = 0
         /\ op = "write" => Ending(e, "read")' = 0 /\ Ending(e, "write")' = 1
    <2>1. PICK a \in {0, 1}, b \in {0, 1}, x \in {0, 1}, y \in {0, 1}, z \in {0, 1} :
             /\ a = B("read" = op) /\ b = B("write" = op)
             /\ x = B("connect" = p) /\ y = B("read" = p) /\ z = B("write" = p)
      BY BOK
    <2>2. /\ op = "read" => a = 1 /\ b = 0
          /\ op = "write" => a = 0 /\ b = 1
          /\ p = "connect" => x = 1 /\ y = 0 /\ z = 0
          /\ p = "write" => x = 0 /\ y = 0 /\ z = 1
          /\ B("connect" = op) = 0
      BY <2>1 DEF B
    <2>3. /\ Ending(e, "connect")' = ec + 0 - x /\ Ending(e, "read")' = er + a - y
          /\ Ending(e, "write")' = ew + b - z
      BY <1>8, <1>15, <2>1, <2>2 DEF Ops
    <2> QED
      BY <1>4, <1>10, <2>2, <2>3
  <1>18. Tokens(e)' = Tokens(e)
    <2>1. Tokens(e)' = Ending(e, "connect")' + Ending(e, "read")' + Ending(e, "write")' + 0
                          + 0 + hr + hw
      BY <1>16 DEF Tokens
    <2> QED
      BY <1>4, <1>10, <1>11, <1>12, <1>14, <1>17, <2>1
  <1>19. /\ state'[e] \in {"receiving", "connecting"}
         /\ state'[e] = "connecting" <=> op = "write"
    BY <1>4, <1>6, <1>10
  <1>20. RefOK(e)'
    <2>1. B(state'[e] = "success") = 0
      BY <1>19 DEF B
    <2>2. ref[e] \in Int
      BY <1>1, Types
    <2>3. memory[e] # "unborn" /\ memory'[e] = memory[e] /\ ref'[e] = ref[e]
      BY <1>13
    <2> QED
      BY <1>13, <1>18, <1>19, <2>1, <2>2, <2>3 DEF RefOK
  <1>21. StateOK(e)'
    <2>1. op = "write" => ref[e] = 1
      BY <1>1, <1>3, <1>10, <1>13 DEF StateOK
    <2> QED
      BY <1>16, <1>17, <1>19, <2>1 DEF StateOK
  <1>22. HandOK(e)'
    BY <1>1, <1>5, <1>6 DEF HandOK
  <1>23. UseOK(e)'
    <2>1. PICK t : t = emutex[e]
      OBVIOUS
    <2>2. t \in Handlers => hpc'[t] = "unlock" /\ hres'[t].conn = e
      BY <1>1, <1>7, <2>1 DEF UseOK, HandlersElse
    <2>3. ASSUME t \in Sessions
          PROVE  /\ rconn[t] = e /\ rpc[t] = "unlock" /\ state'[e] \notin {"none", "connecting"}
                 /\ Ending(e, "read")' + Ending(e, "write")' + Held(e, "write")' > 0
      <3>1. /\ rconn[t] = e /\ rpc[t] \in Using /\ state[e] # "connecting"
            /\ rpc[t] \in {"set_timeout", "send"} => Idle(e)
        BY <1>1, <2>1, <2>3 DEF UseOK
      <3>2. p = "write" /\ op = "read" /\ ~Idle(e)
        BY <1>4, <1>8, <1>10, <3>1 DEF Idle
      <3> QED
        BY <1>6, <1>16, <1>17, <3>1, <3>2 DEF Using
    <2>4. emutex'[e] = t /\ rconn' = rconn /\ rpc' = rpc
      BY <1>2, <2>1
    <2> QED
      BY <2>2, <2>3, <2>4, Names DEF UseOK, Using
  <1>24. ListGood(e)'
    <2>1. ~Idle(e)
      BY <1>4, <1>8, <1>10 DEF Idle
    <2> QED
      BY <1>19, <2>1, NotListed DEF ListGood, Idle
  <1>25. GoodJob(h)'
    BY <1>7 DEF GoodJob, Ops, Letting
  <1>26. ShapeOK'
    BY <1>1, <1>6, <1>7 DEF ShapeOK, requestVars, sessionVars, deinitVars
  <1>27. HandlerFrame(h, e)
    BY <1>6, <1>7 DEF HandlerFrame
  <1>28. Decided(h, e)
    <2>1. Awaiting(e)
      BY <1>4, <1>8, <1>10 DEF Awaiting
    <2>2. Awaiting(e)'
      BY <1>17, <1>19 DEF Awaiting
    <2> QED
      BY <1>7, <2>1, <2>2 DEF Decided
  <1> QED
    BY <1>20, <1>21, <1>22, <1>23, <1>24, <1>25, <1>26, <1>27, <1>28, HandlerStep

LEMMA ConnectedStep ==
  ASSUME IInv, NEW h \in Handlers, Connected(h)
  PROVE  IInv'
  <1>1. PICK e : e = hres[h].conn
    OBVIOUS
  <1>2. /\ hpc[h] = "connect"
        /\ UNCHANGED <<ref, esession, emutex, memory, idle_list, hand, removed, pipe,
                       stopped, msgqueue, hres, requestVars, sessionVars, deinitVars>>
    BY <1>1 DEF Connected
  <1>3. GoodJob(h) /\ ShapeOK
    BY DEF IInv, ResultsOK
  <1>4. e \in Conns /\ hres[h].op = "connect" /\ IsEnd(hres[h])
    BY <1>1, <1>2, <1>3 DEF GoodJob, GoodResult, Ops, IsEnd
  <1>5. CASE /\ PollerAdd(e, "read") /\ state' = [state EXCEPT ![e] = "receiving"]
             /\ Goto(h, "stopcheck") /\ UNCHANGED <<hsession, houtcome>>
    BY <1>1, <1>2, <1>4, <1>5, ArmStep DEF Goto
  <1>6. CASE /\ PollerAdd(e, "write") /\ Goto(h, "stopcheck")
             /\ UNCHANGED <<state, hsession, houtcome>>
    BY <1>1, <1>2, <1>4, <1>6, ArmStep DEF Goto
  <1>7. CASE Decide(h, esession[e], "error") /\ UNCHANGED <<state, node, partial>>
    <2>1. StateOK(e)
      BY <1>4 DEF IInv, EntryOK
    <2>2. Ending(e, "connect") > 0
      BY <1>1, <1>2, <1>3, <1>4, JobIsToken
    <2>3. Awaiting(e) /\ state[e] = "connecting"
      BY <2>1, <2>2 DEF Awaiting, StateOK
    <2>4. /\ idle_list \in Seq(Conns) /\ IsInjective(idle_list)
          /\ ToSet(idle_list) = ToSet(idle_list) \ {e}
      BY <1>4, <2>3, NotListed DEF Idle
    <2>5. UNCHANGED <<ref, esession, emutex, memory, pollerVars, msgqueue, hres, requestVars,
                      sessionVars, deinitVars>>
      BY <1>2, <1>7 DEF pollerVars
    <2>6. state' = state /\ idle_list' = idle_list
      BY <1>2, <1>7
    <2> QED
      BY <1>1, <1>2, <1>4, <1>7, <2>3, <2>4, <2>5, <2>6, EndStep DEF Ops
  <1> QED
    BY <1>1, <1>5, <1>6, <1>7 DEF Connected

LEMMA RequestSentStep ==
  ASSUME IInv, NEW h \in Handlers, RequestSent(h)
  PROVE  IInv'
  <1>1. PICK e : e = hres[h].conn
    OBVIOUS
  <1>2. /\ hpc[h] = "write" /\ state' = [state EXCEPT ![e] = "receiving"]
        /\ UNCHANGED <<ref, esession, emutex, memory, idle_list, hand, removed, pipe,
                       stopped, msgqueue, hres, requestVars, sessionVars, deinitVars>>
    BY <1>1 DEF RequestSent
  <1>3. GoodJob(h) /\ ShapeOK
    BY DEF IInv, ResultsOK
  <1>4. e \in Conns /\ hres[h].op = "write" /\ IsEnd(hres[h])
    BY <1>1, <1>2, <1>3 DEF GoodJob, GoodResult, Ops, IsEnd
  <1>5. CASE /\ PollerAdd(e, "read") /\ Goto(h, "stopcheck") /\ UNCHANGED <<hsession, houtcome>>
    BY <1>1, <1>2, <1>4, <1>5, ArmStep DEF Goto
  <1>6. CASE Decide(h, esession[e], "error") /\ UNCHANGED <<node, partial>>
    <2>1. StateOK(e)
      BY <1>4 DEF IInv, EntryOK
    <2>2. Ending(e, "write") > 0
      BY <1>1, <1>2, <1>3, <1>4, JobIsToken
    <2>3. Awaiting(e) /\ state[e] # "success" /\ ~Idle(e)
      <3>1. Ending(e, "connect") \in Nat /\ Ending(e, "read") \in Nat /\ Ending(e, "write") \in Nat
        BY <1>3, <1>4, CountTypes
      <3> QED
        BY <2>1, <2>2, <3>1 DEF Awaiting, StateOK, Idle
    <2>4. /\ idle_list \in Seq(Conns) /\ IsInjective(idle_list)
          /\ ToSet(idle_list) = ToSet(idle_list) \ {e}
      BY <1>4, <2>3, NotListed
    <2>5. UNCHANGED <<ref, esession, emutex, memory, pollerVars, msgqueue, hres, requestVars,
                      sessionVars, deinitVars>>
      BY <1>2, <1>6 DEF pollerVars
    <2>6. idle_list' = idle_list
      BY <1>2
    <2> QED
      BY <1>1, <1>2, <1>4, <1>6, <2>3, <2>4, <2>5, <2>6, EndStep DEF Ops
  <1> QED
    BY <1>1, <1>5, <1>6 DEF RequestSent

(* What remains of an entry whose tokens, state and references do not       *)
(* change,                                                                  *)
LEMMA EntryRest ==
  ASSUME IInv, NEW e \in Conns, SameTokens(e), SameHand(e), state'[e] = state[e],
         ref'[e] = ref[e], memory'[e] = memory[e]
  PROVE  /\ (RefOK(e) /\ StateOK(e) /\ HandOK(e))'
         /\ Awaiting(e)' <=> Awaiting(e)
         /\ Idle(e)' <=> Idle(e)
  <1>1. RefOK(e) /\ StateOK(e) /\ HandOK(e)
    BY DEF IInv, EntryOK
  <1>2. Tokens(e)' = Tokens(e)
    BY DEF SameTokens, Tokens
  <1>3. RefOK(e)'
    BY <1>1, <1>2 DEF RefOK, B
  <1>4. StateOK(e)'
    BY <1>1 DEF StateOK, SameTokens
  <1>5. HandOK(e)'
    BY <1>1, HandKept
  <1>6. (Awaiting(e)' <=> Awaiting(e)) /\ (Idle(e)' <=> Idle(e))
    BY DEF SameTokens, Awaiting, Idle
  <1> QED
    BY <1>3, <1>4, <1>5, <1>6

(* and that still belongs to the same session.                              *)
LEMMA EntrySame ==
  ASSUME IInv, NEW e \in Conns, SameTokens(e), SameHand(e), state'[e] = state[e],
         ref'[e] = ref[e], esession'[e] = esession[e], memory'[e] = memory[e],
         \A s \in Sessions : rconn[s] = e /\ Waits(s) => rconn'[s] = e /\ Waits(s)'
  PROVE  /\ (RefOK(e) /\ StateOK(e) /\ HandOK(e) /\ OwnerOK(e))'
         /\ Awaiting(e)' <=> Awaiting(e)
         /\ Idle(e)' <=> Idle(e)
  <1>1. /\ (RefOK(e) /\ StateOK(e) /\ HandOK(e))'
        /\ Awaiting(e)' <=> Awaiting(e)
        /\ Idle(e)' <=> Idle(e)
    BY EntryRest
  <1>2. OwnerOK(e)'
    <2>1. PICK s : s = esession[e]
      OBVIOUS
    <2>2. OwnerOK(e)
      BY DEF IInv, EntryOK
    <2>3. Awaiting(e)' => s \in Sessions /\ rconn'[s] = e /\ Waits(s)'
      BY <1>1, <2>1, <2>2 DEF OwnerOK
    <2>4. esession'[e] = s
      BY <2>1
    <2> QED
      BY <2>3, <2>4 DEF OwnerOK
  <1> QED
    BY <1>1, <1>2

LEMMA ReplyEndUnlockStep ==
  ASSUME IInv, NEW h \in Handlers, ReplyEndUnlock(h)
  PROVE  IInv'
  <1>1. PICK e : e = hres[h].conn
    OBVIOUS
  <1>2. /\ hpc[h] = "unlock" /\ emutex' = [emutex EXCEPT ![e] = None]
        /\ hpc' = [hpc EXCEPT ![h] = "get"]
        /\ UNCHANGED <<state, ref, esession, memory, idle_list, pollerVars, msgqueue,
                       hres, hsession, houtcome, requestVars, sessionVars, deinitVars>>
    BY <1>1 DEF ReplyEndUnlock, Goto
  <1>3. ShapeOK /\ ResultsOK /\ LockOK /\ ListOK /\ StopOK
    BY DEF IInv
  <1>4. e \in Conns /\ emutex[e] = h
    BY <1>1, <1>2, <1>3 DEF ResultsOK, GoodJob, LockOK
  <1>5. /\ state' = state /\ ref' = ref /\ esession' = esession /\ memory' = memory
        /\ idle_list' = idle_list
        /\ node' = node /\ hand' = hand /\ removed' = removed /\ partial' = partial
        /\ pipe' = pipe /\ stopped' = stopped /\ msgqueue' = msgqueue /\ hres' = hres
        /\ hsession' = hsession /\ houtcome' = houtcome /\ rpc' = rpc /\ rconn' = rconn
        /\ released' = released /\ handled' = handled /\ stop_flag' = stop_flag
        /\ nonblock' = nonblock
        /\ requestVars' = requestVars /\ sessionVars' = sessionVars /\ deinitVars' = deinitVars
    BY <1>2 DEF pollerVars, requestVars, sessionVars, deinitVars
  <1>6. /\ HandlersElse(h) /\ hpc'[h] = "get" /\ hres'[h] = hres[h]
        /\ hpc' \in [Handlers -> {"get", "stopcheck", "unlock", "exit"} \cup Ops \cup Letting]
        /\ emutex' \in [Conns -> Sessions \cup Handlers \cup {None}] /\ emutex'[e] = None
        /\ \A d \in Conns : d # e => emutex'[d] = emutex[d]
    BY <1>2, <1>3, <1>4, <1>5 DEF ShapeOK, HandlersElse
  <1>7. ASSUME NEW d \in Conns PROVE SameTokens(d) /\ SameHand(d)
    <2>1. SameHand(d)
      BY <1>5 DEF SameHand
    <2>2. /\ ~Counted(hres[h], hpc[h], d) /\ ~Counted(hres'[h], hpc'[h], d)
      BY <1>2, <1>6 DEF Counted, EndAt, HeldAt, CompleteAt, Ops, Letting
    <2>3. HandsSame(d)
      BY <1>3, <1>6, <2>2, HandsElsewhere, JobTypes
    <2> QED
      BY <1>3, <1>5, <2>1, <2>3, ElsewhereWith
  <1>8. ASSUME NEW s \in Sessions PROVE SessionSame(s) /\ (Waits(s)' <=> Waits(s))
    <2>1. Finishers(s)' = Finishers(s)
      BY <1>2, <1>5, <1>6 DEF Finishers, HandlersElse
    <2> QED
      BY <1>5, <2>1 DEF SessionSame, Told, Waits
  <1>9. ASSUME NEW d \in Conns, d # e PROVE Elsewhere(d)
    <2>1. UnlockerSame(d)
      BY <1>1, <1>6, <1>9 DEF UnlockerSame, HandlersElse
    <2> QED
      BY <1>5, <1>6, <1>7, <1>8, <1>9, <2>1 DEF Elsewhere
  <1>10. /\ (RefOK(e) /\ StateOK(e) /\ HandOK(e) /\ OwnerOK(e))'
         /\ Awaiting(e)' <=> Awaiting(e)
         /\ Idle(e)' <=> Idle(e)
    BY <1>4, <1>5, <1>7, <1>8, EntrySame
  <1>11. EntryOK(e)'
    <2>1. UseOK(e)'
      BY <1>6, Names DEF UseOK
    <2> QED
      BY <1>10, <2>1 DEF EntryOK
  <1>12. ShapeOK'
    BY <1>3, <1>5, <1>6 DEF ShapeOK, requestVars, sessionVars, deinitVars
  <1>13. ResultsOK'
    <2>1. \A g \in Handlers : g # h => GoodJob(g)'
      BY <1>3, <1>5, <1>6, JobsKept
    <2>2. GoodJob(h)'
      BY <1>6 DEF GoodJob, Ops, Letting
    <2> QED
      BY <1>3, <1>5, <2>1, <2>2 DEF ResultsOK, ItsSession
  <1>14. LockOK'
    <2>1. ASSUME NEW s \in Sessions, rpc[s] \in Using
          PROVE  rconn[s] \in Conns /\ emutex'[rconn[s]] = s
      BY <1>3, <1>4, <1>6, <2>1, Names DEF LockOK
    <2>2. ASSUME NEW g \in Handlers, hpc'[g] = "unlock" PROVE emutex'[hres[g].conn] = g
      <3>1. g # h /\ hpc[g] = "unlock"
        BY <1>6, <2>2 DEF HandlersElse
      <3>2. emutex[hres[g].conn] = g /\ hres[g].conn \in Conns
        BY <1>3, <3>1 DEF LockOK, ResultsOK, GoodJob
      <3> QED
        BY <1>4, <1>6, <3>1, <3>2
    <2> QED
      BY <1>5, <2>1, <2>2 DEF LockOK
  <1>15. StopOK'
    <2>1. \A g \in Handlers : /\ hpc[g] = "stopcheck" => hpc'[g] = "stopcheck"
                              /\ hpc'[g] = "exit" => hpc[g] = "exit"
      BY <1>2, <1>6 DEF HandlersElse
    <2> QED
      BY <1>3, <1>5, <2>1 DEF StopOK
  <1>16. /\ IsInjective(idle_list')
         /\ e \in ToSet(idle_list') => Idle(e)'
    BY <1>3, <1>4, <1>5, <1>10 DEF ListOK
  <1>17. Idle(e)' => e \in ToSet(idle_list')
    BY <1>3, <1>4, <1>5, <1>10, Names DEF ListOK
  <1>18. \A s \in Sessions : Apart(s, e)
    <2>1. ASSUME NEW s \in Sessions, rconn[s] = e, Waits(s) PROVE Awaiting(e)' /\ esession'[e] = s
      BY <1>5, <1>10, <2>1 DEF IInv, SessionOK
    <2> QED
      BY <1>8, <2>1 DEF Apart
  <1> QED
    BY <1>4, <1>9, <1>11, <1>12, <1>13, <1>14, <1>15, <1>16, <1>17, <1>18, EntryStep

(* The session is told: a decision becomes a call of handle.                *)
LEMMA FinishStep ==
  ASSUME IInv, NEW h \in Handlers, Finish(h)
  PROVE  IInv'
  <1>1. PICK o : o = hsession[h]
    OBVIOUS
  <1>2. /\ hpc[h] = "finish" /\ hpc' = [hpc EXCEPT ![h] = "unref"]
        /\ released' = [released EXCEPT ![o] = @ + 1] /\ handled' = [handled EXCEPT ![o] = @ + 1]
        /\ UNCHANGED <<entryVars, pollerVars, msgqueue, hres, hsession, houtcome,
                       requestVars, keep_alive, deinitVars>>
    BY <1>1 DEF Finish, Goto
  <1>3. ShapeOK /\ ResultsOK /\ StopOK /\ GoodJob(h)
    BY DEF IInv, ResultsOK
  <1>4. o \in Sessions
    BY <1>1, <1>2, <1>3 DEF GoodJob
  <1>5. /\ state' = state /\ ref' = ref /\ esession' = esession /\ emutex' = emutex
        /\ memory' = memory /\ idle_list' = idle_list
        /\ node' = node /\ hand' = hand /\ removed' = removed /\ partial' = partial
        /\ pipe' = pipe /\ stopped' = stopped /\ msgqueue' = msgqueue /\ hres' = hres
        /\ hsession' = hsession /\ houtcome' = houtcome /\ rpc' = rpc /\ rconn' = rconn
        /\ keep_alive' = keep_alive /\ stop_flag' = stop_flag /\ nonblock' = nonblock
    BY <1>2 DEF entryVars, pollerVars, requestVars, deinitVars
  <1>6. /\ HandlersElse(h) /\ hpc'[h] = "unref" /\ hres'[h] = hres[h]
        /\ hpc' \in [Handlers -> {"get", "stopcheck", "unlock", "exit"} \cup Ops \cup Letting]
        /\ released' \in [Sessions -> Int] /\ handled' \in [Sessions -> Int]
        /\ released'[o] = released[o] + 1 /\ handled'[o] = handled[o] + 1
        /\ \A s \in Sessions : s # o => released'[s] = released[s] /\ handled'[s] = handled[s]
    BY <1>2, <1>3, <1>4, <1>5 DEF ShapeOK, HandlersElse, Letting
  <1>7. ASSUME NEW d \in Conns PROVE SameTokens(d)
    <2>1. hres[h] \in Res
      BY <1>3, JobTypes
    <2>2. ASSUME NEW op \in Ops
          PROVE  /\ JNum(Ends(d, op), {op})' = JNum(Ends(d, op), {op})
                 /\ Held(d, op)' = Held(d, op)
      <3>1. /\ B(EndAt(hres[h], hpc[h], d, op)) = 0 /\ B(EndAt(hres'[h], hpc'[h], d, op)) = 0
            /\ B(HeldAt(hres'[h], hpc'[h], d, op)) = B(HeldAt(hres[h], hpc[h], d, op))
        BY <1>2, <1>6 DEF EndAt, HeldAt, Ops, Letting, B
      <3>2. PICK x \in Nat, y \in Nat, b \in {0, 1} :
               /\ x = JNum(Ends(d, op), {op}) /\ y = Held(d, op)
               /\ b = B(HeldAt(hres[h], hpc[h], d, op))
        BY JNumPositive, BOK DEF Held
      <3>3. JNum(Ends(d, op), {op})' = x - 0 + 0 /\ Held(d, op)' = y - b + b
        BY <1>6, <2>1, <3>1, <3>2, HandsMove
      <3> QED
        BY <3>2, <3>3
    <2>3. JNum(Completes(d), {"read"})' = JNum(Completes(d), {"read"})
      <3>1. /\ B(CompleteAt(hres[h], hpc[h], d)) = 0 /\ B(CompleteAt(hres'[h], hpc'[h], d)) = 0
        BY <1>2, <1>6 DEF CompleteAt, B
      <3>2. PICK x \in Nat : x = JNum(Completes(d), {"read"})
        BY JNumPositive
      <3>3. JNum(Completes(d), {"read"})' = x - 0 + 0
        BY <1>6, <2>1, <3>1, <3>2, CompletesMove
      <3> QED
        BY <3>2, <3>3
    <2>4. HandsSame(d)
      BY <2>2, <2>3 DEF HandsSame
    <2> QED
      BY <1>3, <1>5, <2>4, ElsewhereWith DEF SameHand
  <1>8. ASSUME NEW s \in Sessions PROVE Told(s)' = Told(s)
    <2>1. CASE s # o
      <3>1. Finishers(s)' = Finishers(s)
        BY <1>1, <1>5, <1>6, <2>1 DEF Finishers, HandlersElse
      <3> QED
        BY <1>6, <2>1, <3>1 DEF Told
    <2>2. CASE s = o
      <3>1. PICK X, Y : X = Finishers(s) /\ Y = Finishers(s)'
        OBVIOUS
      <3>2. h \in X /\ h \notin Y /\ \A y : y # h => (y \in X <=> y \in Y)
        BY <1>1, <1>2, <1>5, <1>6, <2>2, <3>1 DEF Finishers, HandlersElse
      <3>3. IsFiniteSet(X)
        BY <3>1, ClientAssumption, FS_Subset DEF Finishers
      <3>4. Cardinality(X) \in Nat /\ Cardinality(Y) = Cardinality(X) - B(h \in X) + B(h \in Y)
        BY ONLY <3>2, <3>3, CardStep
      <3>5. B(h \in X) = 1 /\ B(h \in Y) = 0
        BY <3>2 DEF B
      <3>6. Told(s) = Cardinality(X) + handled[s] /\ Told(s)' = Cardinality(Y) + handled[s] + 1
        BY <1>3, <1>6, <2>2, <3>1, <3>4, <3>5 DEF Told, ShapeOK
      <3>7. handled[s] \in Int
        BY <1>3 DEF ShapeOK
      <3> QED
        BY <3>4, <3>5, <3>6, <3>7
    <2> QED
      BY <2>1, <2>2
  <1>9. /\ \A d \in Conns : (RefOK(d) /\ StateOK(d) /\ UseOK(d) /\ OwnerOK(d))'
        /\ LockOK' /\ ListOK' /\ \A s \in Sessions : SessionOK(s)'
    <2>1. ASSUME NEW s \in Sessions, released[s] = handled[s], handled[s] >= 0
          PROVE  released'[s] = handled'[s] /\ handled'[s] >= 0
      <3>1. handled[s] \in Int
        BY <1>3 DEF ShapeOK
      <3> QED
        BY <1>6, <2>1, <3>1
    <2>2. Calm
      BY <1>2, <1>5, <1>6, <1>7, <1>8, <2>1 DEF Calm, HandlersElse
    <2> QED
      BY <2>2, CalmStep
  <1>10. ShapeOK'
    BY <1>3, <1>5, <1>6 DEF ShapeOK
  <1>11. ResultsOK'
    <2>1. \A g \in Handlers : g # h => GoodJob(g)'
      BY <1>3, <1>5, <1>6, JobsKept
    <2>2. GoodJob(h)'
      BY <1>2, <1>3, <1>5, <1>6 DEF GoodJob, Ops, Letting
    <2> QED
      BY <1>3, <1>5, <2>1, <2>2 DEF ResultsOK, ItsSession
  <1>12. ASSUME NEW d \in Conns PROVE EntryOK(d)'
    <2>1. HandOK(d)
      BY DEF IInv, EntryOK
    <2>2. HandOK(d)'
      BY <1>5, <2>1, HandKept DEF SameHand
    <2> QED
      BY <1>9, <2>2 DEF EntryOK
  <1>13. StopOK'
    <2>1. \A g \in Handlers : /\ hpc[g] = "stopcheck" => hpc'[g] = "stopcheck"
                              /\ hpc'[g] = "exit" => hpc[g] = "exit"
      BY <1>2, <1>6 DEF HandlersElse
    <2> QED
      BY <1>3, <1>5, <2>1 DEF StopOK
  <1> QED
    BY <1>9, <1>10, <1>11, <1>12, <1>13 DEF IInv

(* A handler's reference is given back, the last one with the entry.        *)
LEMMA UnrefStep ==
  ASSUME IInv, NEW h \in Handlers, Unref(h)
  PROVE  IInv'
  <1>1. PICK e, op : e = hres[h].conn /\ op = hres[h].op
    OBVIOUS
  <1>2. /\ hpc[h] = "unref" /\ hpc' = [hpc EXCEPT ![h] = "get"]
        /\ op = "write" => emutex[e] = None
        /\ ref' = [ref EXCEPT ![e] = @ - 1]
        /\ memory' = IF ref[e] = 1 \/ op = "connect" THEN [memory EXCEPT ![e] = "freed"]
                                                     ELSE memory
        /\ UNCHANGED <<state, esession, emutex, idle_list, pollerVars, msgqueue, hres,
                       hsession, houtcome, requestVars, sessionVars, deinitVars>>
    BY <1>1 DEF Unref, Goto, RequesterGone, ReleaseConn
  <1>3. GoodJob(h) /\ ShapeOK
    BY DEF IInv, ResultsOK
  <1>4. e \in Conns /\ op \in Ops
    BY <1>1, <1>2, <1>3 DEF GoodJob, GoodResult, Letting
  <1>5. RefOK(e) /\ StateOK(e) /\ HandOK(e) /\ UseOK(e)
    BY <1>4 DEF IInv, EntryOK
  <1>6. /\ state' = state /\ esession' = esession /\ emutex' = emutex
        /\ idle_list' = idle_list
        /\ node' = node /\ hand' = hand /\ removed' = removed /\ partial' = partial
        /\ pipe' = pipe /\ stopped' = stopped /\ msgqueue' = msgqueue /\ hres' = hres
        /\ hsession' = hsession /\ houtcome' = houtcome /\ rpc' = rpc /\ rconn' = rconn
        /\ requestVars' = requestVars /\ sessionVars' = sessionVars /\ deinitVars' = deinitVars
    BY <1>2 DEF pollerVars, requestVars
  <1>7. /\ HandlersElse(h) /\ hpc'[h] = "get"
        /\ hpc' \in [Handlers -> {"get", "stopcheck", "unlock", "exit"} \cup Ops \cup Letting]
    BY <1>2, <1>3, <1>6 DEF ShapeOK, HandlersElse
  <1>8. /\ ref' \in [Conns -> Int] /\ ref'[e] = ref[e] - 1
        /\ memory' \in [Conns -> {"unborn", "live", "freed"}]
        /\ memory'[e] = IF ref[e] = 1 \/ op = "connect" THEN "freed" ELSE memory[e]
        /\ \A d \in Conns : d # e => ref'[d] = ref[d] /\ memory'[d] = memory[d]
    <2>1. ref \in [Conns -> Int] /\ memory \in [Conns -> {"unborn", "live", "freed"}]
      BY <1>3 DEF ShapeOK
    <2>2. CASE ref[e] = 1 \/ op = "connect"
      BY <1>2, <1>4, <2>1, <2>2
    <2>3. CASE ~(ref[e] = 1 \/ op = "connect")
      BY <1>2, <1>4, <2>1, <2>3
    <2> QED
      BY <2>2, <2>3
  <1>9. PICK ec \in Nat, er \in Nat, ew \in Nat, hc \in Nat, hr \in Nat, hw \in Nat, c \in Nat :
            /\ ec = Ending(e, "connect") /\ er = Ending(e, "read") /\ ew = Ending(e, "write")
            /\ hc = Held(e, "connect") /\ hr = Held(e, "read") /\ hw = Held(e, "write")
            /\ c = Complete(e)
    BY <1>3, <1>4, CountTypes
  <1>10. Held(e, op) > 0
    BY <1>1, <1>2, <1>3, <1>4, JobIsToken DEF Letting
  <1>11. ASSUME NEW o \in Ops
         PROVE  /\ Ending(e, o)' = Ending(e, o) /\ Held(e, o)' = Held(e, o) - B(o = op)
                /\ Complete(e)' = Complete(e)
    <2>1. /\ B(EndAt(hres[h], hpc[h], e, o)) = 0
          /\ B(EndAt(hres[h], hpc'[h], e, o)) = 0
          /\ B(HeldAt(hres[h], hpc[h], e, o)) = B(o = op)
          /\ B(HeldAt(hres[h], hpc'[h], e, o)) = 0
          /\ B(CompleteAt(hres[h], hpc[h], e)) = 0 /\ B(CompleteAt(hres[h], hpc'[h], e)) = 0
      BY <1>1, <1>2, <1>4, <1>7 DEF B, EndAt, HeldAt, CompleteAt, Ops, Letting
    <2>2. PICK x \in Nat, y \in Nat, u \in {0, 1}, b \in {0, 1} :
             /\ x = Ending(e, o) /\ y = Held(e, o) /\ u = B(node[e] = o) /\ b = B(o = op)
      BY <1>3, <1>4, CountTypes, BOK
    <2>3. /\ Ending(e, o)' = x - u + u - 0 + 0 /\ Held(e, o)' = y - b + 0
          /\ Complete(e)' = c - 0 + 0
      BY <1>3, <1>4, <1>6, <1>7, <1>9, <2>1, <2>2, TokenMoves
    <2> QED
      BY <1>9, <2>2, <2>3
  <1>12. PICK x \in {0, 1}, y \in {0, 1}, z \in {0, 1} :
            x = B("connect" = op) /\ y = B("read" = op) /\ z = B("write" = op)
    BY BOK
  <1>13. /\ op = "connect" => x = 1 /\ y = 0 /\ z = 0
         /\ op = "read" => x = 0 /\ y = 1 /\ z = 0
         /\ op = "write" => x = 0 /\ y = 0 /\ z = 1
         /\ op \in {"connect", "read", "write"}
    BY <1>4, <1>12 DEF B, Ops
  <1>14. /\ Ending(e, "connect")' = ec /\ Ending(e, "read")' = er /\ Ending(e, "write")' = ew
         /\ Held(e, "connect")' = hc - x /\ Held(e, "read")' = hr - y
         /\ Held(e, "write")' = hw - z /\ Complete(e)' = c
    BY <1>9, <1>11, <1>12 DEF Ops
  <1>15. Tokens(e)' = Tokens(e) - 1 /\ Tokens(e) > 0
    <2>1. Tokens(e) = ec + er + ew + c + hc + hr + hw
      BY <1>9 DEF Tokens
    <2>2. Tokens(e)' = ec + er + ew + c + (hc - x) + (hr - y) + (hw - z)
      BY <1>14 DEF Tokens
    <2>3. hc + hr + hw > 0
      BY <1>9, <1>10, <1>13
    <2> QED
      BY <1>13, <2>1, <2>2, <2>3
  <1>16. /\ memory[e] = "live" /\ ref[e] \in Int /\ ref[e] >= 1
         /\ ref[e] + B(state[e] = "success") = Tokens(e)
    BY <1>3, <1>4, <1>5, <1>15, Types DEF RefOK
  <1>17. ref[e] = 1 => state[e] # "success"
    <2>1. ASSUME ref[e] = 1, state[e] = "success" PROVE FALSE
      <3>1. B(state[e] = "success") = 1
        BY <2>1 DEF B
      <3>2. c = 1 /\ er = 1
        BY <1>5, <1>9, <2>1 DEF StateOK
      <3>3. Tokens(e)' = ec + er + ew + c + (hc - x) + (hr - y) + (hw - z)
        BY <1>14 DEF Tokens
      <3>4. hc - x >= 0 /\ hr - y >= 0 /\ hw - z >= 0
        BY <1>9, <1>10, <1>13
      <3> QED
        BY <1>15, <1>16, <2>1, <3>1, <3>2, <3>3, <3>4
    <2> QED
      BY <2>1
  <1>18. op = "connect" => ref[e] = 1
    BY <1>5, <1>10, <1>16 DEF StateOK
  <1>19. RefOK(e)'
    <2>1. CASE ref[e] = 1
      <3>1. memory'[e] = "freed"
        BY <1>8, <2>1
      <3>2. B(state[e] = "success") = 0
        BY <1>17, <2>1 DEF B
      <3>3. Tokens(e)' = 0
        BY <1>15, <1>16, <2>1, <3>2
      <3> QED
        BY <1>5, <1>6, <1>16, <3>1, <3>3 DEF RefOK
    <2>2. CASE ref[e] # 1
      <3>1. memory'[e] = memory[e]
        BY <1>8, <1>18, <2>2
      <3>2. PICK b \in {0, 1} : b = B(state[e] = "success")
        BY BOK
      <3>3. ref'[e] >= 1 /\ ref'[e] + b = Tokens(e)'
        BY <1>8, <1>15, <1>16, <2>2, <3>2
      <3>4. B(state'[e] = "success") = b
        BY <1>6, <3>2
      <3> QED
        BY <1>5, <1>6, <1>16, <3>1, <3>3, <3>4 DEF RefOK
    <2> QED
      BY <2>1, <2>2
  <1>20. StateOK(e)'
    <2>1. /\ ec + er + ew <= 1 /\ c <= 1
          /\ ec > 0 \/ hc > 0 => state[e] = "connecting"
          /\ ew > 0 => state[e] \in {"connecting", "idle"}
          /\ er > 0 => state[e] # "connecting"
          /\ state[e] = "success" => c = 1 /\ er = 1
          /\ c > 0 => state[e] = "success" \/ (state[e] = "closing" /\ er = 0)
      BY <1>5, <1>9 DEF StateOK
    <2>2. state[e] = "connecting" /\ memory'[e] = "live" => ref'[e] = 1
      BY <1>5, <1>8, <1>16 DEF StateOK
    <2>3. hc - x > 0 => hc > 0
      OBVIOUS
    <2> QED
      BY <1>6, <1>14, <2>1, <2>2, <2>3 DEF StateOK
  <1>21. HandOK(e)'
    BY <1>4, <1>5, <1>6, HandKept DEF SameHand
  <1>22. Idle(e)' <=> Idle(e)
    BY <1>6, <1>9, <1>14 DEF Idle
  <1>23. UseOK(e)'
    <2>1. PICK t : t = emutex[e]
      OBVIOUS
    <2>2. t \in Handlers => hpc'[t] = "unlock" /\ hres'[t].conn = e
      BY <1>2, <1>5, <1>6, <1>7, <2>1 DEF UseOK, HandlersElse
    <2>3. ASSUME t \in Sessions
          PROVE  /\ rconn[t] = e /\ rpc[t] \in Using
                 /\ state[e] \notin {"none", "connecting"}
                 /\ rpc[t] \in {"set_timeout", "send"} => Idle(e)' /\ e \notin ToSet(idle_list)
                 /\ rpc[t] = "send" => esession[e] = t
                 /\ Ending(e, "read")' + Ending(e, "write")' + Held(e, "write")' > 0
      <3>1. op # "write"
        BY <1>2, <2>1, <2>3, Names
      <3>2. z = 0 /\ er + ew + hw > 0
        BY <1>5, <1>9, <1>13, <2>1, <2>3, <3>1 DEF UseOK
      <3>3. Ending(e, "read")' + Ending(e, "write")' + Held(e, "write")' > 0
        BY <1>14, <3>2
      <3> QED
        BY <1>5, <1>22, <2>1, <2>3, <3>3 DEF UseOK
    <2>4. emutex'[e] = t
      BY <1>6, <2>1
    <2> QED
      BY <1>6, <2>2, <2>3, <2>4 DEF UseOK
  <1>24. ListGood(e)'
    BY <1>4, <1>6, <1>22 DEF ListGood, IInv, ListOK
  <1>25. GoodJob(h)'
    BY <1>7 DEF GoodJob, Ops, Letting
  <1>26. ShapeOK'
    BY <1>3, <1>6, <1>7, <1>8 DEF ShapeOK, requestVars, sessionVars, deinitVars
  <1>27. HandlerFrame(h, e)
    BY <1>1, <1>2, <1>6, <1>7, <1>8 DEF HandlerFrame
  <1>28. Decided(h, e)
    BY <1>6, <1>7, <1>9, <1>14 DEF Decided, Awaiting
  <1> QED
    BY <1>4, <1>19, <1>20, <1>21, <1>23, <1>24, <1>25, <1>26, <1>27, <1>28, HandlerStep

-----------------------------------------------------------------------------
(* The requesting threads *)

(* A request that has no connection yet goes on.                            *)
LEMMA RequesterAlone ==
  ASSUME IInv, NEW s \in Sessions, NEW p \in {"new_conn", "failed"}, rpc' = [rpc EXCEPT ![s] = p],
         rpc[s] \in {"none", "retry", "new_conn"}, p = "new_conn" => ~nonblock,
         UNCHANGED <<entryVars, pollerVars, msgqueue, handlerVars, rconn, sessionVars, deinitVars>>
  PROVE  IInv'
  <1>1. ShapeOK /\ ResultsOK /\ LockOK /\ ListOK /\ StopOK
    BY DEF IInv
  <1>2. /\ state' = state /\ ref' = ref /\ esession' = esession /\ emutex' = emutex
        /\ memory' = memory /\ idle_list' = idle_list
        /\ node' = node /\ hand' = hand /\ removed' = removed /\ partial' = partial
        /\ pipe' = pipe /\ stopped' = stopped /\ msgqueue' = msgqueue /\ hres' = hres /\ hpc' = hpc
        /\ hsession' = hsession /\ houtcome' = houtcome /\ rconn' = rconn
        /\ keep_alive' = keep_alive /\ released' = released /\ handled' = handled
        /\ stop_flag' = stop_flag /\ nonblock' = nonblock
    BY DEF entryVars, pollerVars, handlerVars, sessionVars, deinitVars
  <1>3. /\ rpc' \in [Sessions -> {"none", "retry", "new_conn", "failed"} \cup Using \cup Sent]
        /\ rpc'[s] = p /\ \A t \in Sessions : t # s => rpc'[t] = rpc[t]
        /\ rpc[s] \notin Using \cup Sent /\ p \notin Using \cup Sent
    BY <1>1 DEF ShapeOK, Using, Sent
  <1>4. \A t \in Sessions : Told(t)' = Told(t)
    BY <1>2 DEF Told, Finishers
  <1>5. ASSUME NEW d \in Conns PROVE Elsewhere(d)
    <2>1. SameHand(d) /\ SameTokens(d)
      BY <1>1, <1>2, TokensElsewhere DEF SameHand, HandlersStay
    <2>2. \A t \in Sessions : Concerns(t, d) => SessionSame(t)
      BY <1>2, <1>3, <1>4 DEF Concerns, SessionSame
    <2> QED
      BY <1>2, <2>1, <2>2 DEF Elsewhere, UnlockerSame
  <1>6. ASSUME NEW t \in Sessions PROVE SessionOK(t)'
    <2>1. SessionOK(t)
      BY DEF IInv
    <2>2. CASE t = s
      <3>1. Told(t) = 0 \/ ~(Told(t) > 0)
        BY <1>3, <2>1, <2>2 DEF SessionOK
      <3>2. ~Waits(t)'
        BY <1>3, <2>2 DEF Waits
      <3> QED
        BY <1>2, <1>3, <1>4, <2>1, <2>2, <3>1, <3>2 DEF SessionOK, Sent
    <2>3. CASE t # s
      <3>1. PICK x : x = rconn[t]
        OBVIOUS
      <3>2. (Waits(t)' <=> Waits(t)) /\ rpc'[t] = rpc[t]
        BY <1>3, <1>4, <2>3 DEF Waits
      <3>3. Waits(t) => x \in Conns /\ Awaiting(x)' /\ esession'[x] = t
        BY <1>2, <1>5, <2>1, <3>1, ElsewhereKept DEF SessionOK
      <3>4. rconn'[t] = x
        BY <1>2, <3>1
      <3> QED
        BY <1>2, <1>4, <2>1, <3>2, <3>3, <3>4 DEF SessionOK
    <2> QED
      BY <2>2, <2>3
  <1>7. \A d \in Conns : EntryOK(d)' /\ (Idle(d)' <=> Idle(d))
                          /\ (emutex[d] \in Sessions => rpc'[emutex[d]] = rpc[emutex[d]])
    BY <1>5, ElsewhereKept
  <1>8. ListOK'
    BY <1>1, <1>2, <1>7 DEF ListOK
  <1>9. LockOK'
    BY <1>1, <1>2, <1>3 DEF LockOK
  <1>10. StopOK'
    <2>1. \A t \in Sessions : rpc[t] \in {"none", "accepted", "failed"} /\ nonblock
                                 => rpc'[t] \in {"none", "accepted", "failed"}
      BY <1>3
    <2> QED
      BY <1>1, <1>2, <2>1 DEF StopOK
  <1>11. ResultsOK'
    BY <1>1, <1>2 DEF ResultsOK, GoodJob, ItsSession
  <1>12. ShapeOK'
    BY <1>1, <1>2, <1>3 DEF ShapeOK
  <1> QED
    BY <1>6, <1>7, <1>8, <1>9, <1>10, <1>11, <1>12 DEF IInv

LEMMA NewConnFailsStep ==
  ASSUME IInv, NEW s \in Sessions, NewConnFails(s)
  PROVE  IInv'
  BY RequesterAlone DEF NewConnFails, RGoto

(* A request has to do with an entry. *)
RequestFrame(s, e) ==
    /\ HandlersStay /\ UNCHANGED <<hsession, houtcome, sessionVars, deinitVars, stopped>>
    /\ \A t \in Sessions : t # s => rpc'[t] = rpc[t] /\ rconn'[t] = rconn[t]
    /\ rconn'[s] = e
    /\ rpc[s] \notin Using \cup Sent \/ rconn[s] = e
    /\ ~nonblock
    /\ \A d \in Conns : d # e =>
          /\ SameHand(d)
          /\ state'[d] = state[d] /\ ref'[d] = ref[d] /\ esession'[d] = esession[d]
          /\ emutex'[d] = emutex[d] /\ memory'[d] = memory[d]
          /\ d \in ToSet(idle_list') <=> d \in ToSet(idle_list)
    /\ \/ msgqueue' = msgqueue
       \/ \E m \in Res : m.conn = e /\ Sends(m)
    /\ node'[e] \in {"read", "write"} => node[e] \in {"read", "write"}
    /\ esession'[e] = esession[e] \/ Complete(e) = 0
    /\ ~Awaiting(e) \/ (Awaiting(e)' /\ esession'[e] = esession[e])
    /\ rpc'[s] \in Using => emutex'[e] = s
    /\ emutex'[e] = emutex[e] \/ emutex[e] \in {None, s}

LEMMA RequestLemma ==
  ASSUME IInv, NEW s \in Sessions, NEW e \in Conns, RequestFrame(s, e), ShapeOK', QueueGood',
         PipesGood', EntryOK(e)', ListGood(e)', SessionOK(s)'
  PROVE  IInv'
  <1>1. ShapeOK /\ ResultsOK /\ LockOK /\ StopOK
    BY DEF IInv
  <1>2. /\ hres' = hres /\ hpc' = hpc /\ hsession' = hsession /\ houtcome' = houtcome
        /\ keep_alive' = keep_alive /\ released' = released /\ handled' = handled
        /\ stop_flag' = stop_flag /\ nonblock' = nonblock /\ stopped' = stopped
    BY DEF RequestFrame, HandlersStay, sessionVars, deinitVars
  <1>3. \A t \in Sessions : t # s => SessionSame(t)
    BY <1>2 DEF RequestFrame, SessionSame, Told, Finishers
  <1>4. ASSUME NEW d \in Conns, d # e PROVE Elsewhere(d)
    <2>1. /\ SameHand(d) /\ state'[d] = state[d] /\ ref'[d] = ref[d] /\ esession'[d] = esession[d]
          /\ emutex'[d] = emutex[d] /\ memory'[d] = memory[d]
          /\ d \in ToSet(idle_list') <=> d \in ToSet(idle_list)
      BY <1>4 DEF RequestFrame
    <2>2. SameTokens(d)
      <3>1. \/ msgqueue' = msgqueue
            \/ \E m \in Res : m.conn # d /\ Sends(m)
        BY <1>4 DEF RequestFrame
      <3> QED
        BY <1>1, <1>2, <2>1, <3>1, TokensElsewhere DEF HandlersStay
    <2>3. \A t \in Sessions : Concerns(t, d) => SessionSame(t)
      BY <1>3, <1>4 DEF RequestFrame, Concerns
    <2> QED
      BY <1>2, <2>1, <2>2, <2>3 DEF Elsewhere, UnlockerSame
  <1>5. ResultsOK'
    <2>1. ASSUME NEW g \in Handlers PROVE GoodJob(g)'
      <3>1. GoodJob(g)
        BY <1>1 DEF ResultsOK
      <3>2. ASSUME hpc[g] \in Ops PROVE ItsSession(hres[g])'
        <4>1. GoodResult(hres[g]) /\ hres[g].op = hpc[g] /\ ItsSession(hres[g])
          BY <3>1, <3>2 DEF GoodJob
        <4>2. CASE hres[g].conn # e
          BY <1>2, <4>1, <4>2 DEF RequestFrame, ItsSession, GoodResult
        <4>3. CASE esession'[e] = esession[e] /\ hres[g].conn = e
          BY <1>2, <4>1, <4>3 DEF ItsSession
        <4>4. CASE Complete(e) = 0 /\ hres[g].conn = e
          <5>1. IsSuccess(hres[g]) => hres[g].op = "read"
            BY <4>1 DEF GoodResult, IsSuccess
          <5>2. ~IsSuccess(hres[g])
            BY <1>1, <3>2, <4>1, <4>4, <5>1, JobIsToken
          <5> QED
            BY <1>2, <5>2 DEF ItsSession, IsSuccess
        <4> QED
          BY <4>2, <4>3, <4>4 DEF RequestFrame
      <3> QED
        BY <1>2, <3>1, <3>2 DEF GoodJob
    <2> QED
      BY <2>1 DEF ResultsOK, QueueGood, PipesGood
  <1>6. LockOK'
    <2>1. ASSUME NEW t \in Sessions, rpc'[t] \in Using
          PROVE  rconn'[t] \in Conns /\ emutex'[rconn'[t]] = t
      <3>1. CASE t = s
        BY <2>1, <3>1 DEF RequestFrame
      <3>2. CASE t # s
        <4>1. rpc'[t] = rpc[t] /\ rconn'[t] = rconn[t]
          BY <3>2 DEF RequestFrame
        <4>2. rconn[t] \in Conns /\ emutex[rconn[t]] = t
          BY <1>1, <2>1, <4>1 DEF LockOK
        <4>3. emutex'[rconn[t]] = t
          BY <3>2, <4>2, Names DEF RequestFrame
        <4> QED
          BY <4>1, <4>2, <4>3
      <3> QED
        BY <3>1, <3>2
    <2>2. ASSUME NEW g \in Handlers, hpc[g] = "unlock" PROVE emutex'[hres[g].conn] = g
      <3>1. emutex[hres[g].conn] = g /\ hres[g].conn \in Conns
        BY <1>1, <2>2 DEF LockOK, ResultsOK, GoodJob
      <3> QED
        BY <3>1, Names DEF RequestFrame
    <2> QED
      BY <1>2, <2>1, <2>2 DEF LockOK
  <1>7. StopOK'
    <2>1. \A d \in Conns : node'[d] \in {"read", "write"} => node[d] \in {"read", "write"}
      BY DEF RequestFrame, SameHand
    <2>2. ~nonblock
      BY DEF RequestFrame
    <2> QED
      BY <1>1, <1>2, <2>1, <2>2, ClientAssumption DEF StopOK
  <1>8. \A t \in Sessions : Apart(t, e) \/ SessionOK(t)'
    <2>1. ASSUME NEW t \in Sessions, t # s PROVE Apart(t, e)
      <3>1. ASSUME rconn[t] = e, Waits(t) PROVE Awaiting(e)' /\ esession'[e] = t
        <4>1. Awaiting(e) /\ esession[e] = t
          BY <3>1 DEF IInv, SessionOK
        <4> QED
          BY <4>1 DEF RequestFrame
      <3> QED
        BY <1>3, <2>1, <3>1 DEF Apart
    <2> QED
      BY <2>1
  <1> QED
    BY <1>4, <1>5, <1>6, <1>7, <1>8, EntryStep DEF ListGood

(* A request that is not sent yet has not been told anything.               *)
LEMMA FreshSession ==
  ASSUME NEW s \in Sessions, SessionOK(s), ShapeOK, rpc[s] \notin Sent, HandlersStay,
         hsession' = hsession, sessionVars' = sessionVars
  PROVE  /\ Told(s) = 0 /\ Told(s)' = 0 /\ ~Waits(s)
         /\ rpc'[s] \notin Sent => SessionOK(s)'
  <1>1. /\ hpc' = hpc /\ released' = released /\ handled' = handled
    BY DEF HandlersStay, sessionVars
  <1>2. Told(s)' = Told(s)
    BY <1>1 DEF Told, Finishers
  <1>3. Told(s) = 0
    <2>1. IsFiniteSet(Finishers(s))
      BY ClientAssumption, FS_Subset DEF Finishers
    <2>2. Cardinality(Finishers(s)) \in Nat
      BY <2>1, FS_CardinalityType
    <2>3. handled[s] \in Int /\ handled[s] >= 0 /\ ~(Told(s) > 0)
      BY DEF SessionOK, ShapeOK
    <2>4. Told(s) = Cardinality(Finishers(s)) + handled[s]
      BY DEF Told
    <2> QED
      BY <2>2, <2>3, <2>4
  <1>4. rpc'[s] \notin Sent => SessionOK(s)'
    BY <1>1, <1>2, <1>3 DEF SessionOK, Waits, Sent
  <1> QED
    BY <1>2, <1>3, <1>4 DEF Waits

(* An idle connection is nobody's: no outcome of it is awaited.             *)
LEMMA IdleIsFree ==
  ASSUME ShapeOK, NEW e \in Conns, StateOK(e), Idle(e)
  PROVE  /\ Ending(e, "connect") = 0 /\ Ending(e, "read") = 1 /\ Ending(e, "write") = 0
         /\ Complete(e) = 0 /\ Held(e, "connect") = 0 /\ ~Awaiting(e)
         /\ state[e] = "idle" /\ node[e] \in {"read", "none"}
  <1>1. PICK ec \in Nat, er \in Nat, ew \in Nat, c \in Nat, hc \in Nat :
           /\ ec = Ending(e, "connect") /\ er = Ending(e, "read") /\ ew = Ending(e, "write")
           /\ c = Complete(e) /\ hc = Held(e, "connect")
    BY CountTypes
  <1>2. /\ er > 0 /\ ec + er + ew <= 1 /\ state[e] = "idle" /\ c <= 0 /\ hc <= 0
    BY <1>1 DEF StateOK, Idle
  <1>3. ec = 0 /\ er = 1 /\ ew = 0 /\ c = 0 /\ hc = 0
    BY <1>2
  <1>4. node[e] \notin {"connect", "write"}
    BY <1>1, <1>3, NodeIsToken
  <1> QED
    BY <1>1, <1>2, <1>3, <1>4, Types DEF Awaiting, Ops

(* Where no complete reply is on its way, the session may change.           *)
LEMMA QueueSession ==
  ASSUME ShapeOK, QueueGood, NEW e \in Conns, Complete(e) = 0, msgqueue' = msgqueue,
         \A d \in Conns : d # e => esession'[d] = esession[d]
  PROVE  QueueGood'
  <1> SUFFICES ASSUME NEW i \in 1 .. Len(msgqueue)
               PROVE  GoodResult(msgqueue'[i]) /\ (ItsSession(msgqueue[i]))'
    BY DEF QueueGood
  <1>1. PICK m \in Res : m = msgqueue[i] /\ m = msgqueue'[i]
    BY DEF ShapeOK
  <1>2. GoodResult(m) /\ ItsSession(m)
    BY <1>1 DEF QueueGood
  <1>3. ASSUME m.st = "SUCCESS", m.conn = e PROVE FALSE
    <2>1. m \in Completes(e)
      BY <1>2, <1>3 DEF Completes, IsSuccess, GoodResult
    <2>2. Num(msgqueue, Completes(e)) > 0
      BY <1>1, <2>1, QueueNum
    <2>3. PICK x \in Nat, y \in Nat, z \in Nat :
             /\ x = B(hand[e] = "success") /\ y = Num(msgqueue, Completes(e))
             /\ z = JNum(Completes(e), {"read"})
      BY CountTypes
    <2> QED
      BY <2>2, <2>3 DEF Complete
  <1>4. m.st = "SUCCESS" => m.for = esession'[m.conn]
    BY <1>2, <1>3 DEF ItsSession, GoodResult
  <1> QED
    BY <1>1, <1>2, <1>4 DEF ItsSession

LEMMA TakeIdleStep ==
  ASSUME IInv, NEW s \in Sessions, TakeIdle(s)
  PROVE  IInv'
  <1>1. ShapeOK /\ ResultsOK /\ LockOK /\ ListOK /\ StopOK /\ SessionOK(s)
    BY DEF IInv
  <1>2. /\ rpc[s] = "retry" \/ (rpc[s] = "none" /\ ~nonblock)
        /\ UNCHANGED <<state, ref, esession, memory, pollerVars, msgqueue, handlerVars,
                       sessionVars, deinitVars>>
    BY DEF TakeIdle
  <1>3. ~nonblock /\ rpc[s] \notin Using \cup Sent
    BY <1>1, <1>2 DEF StopOK, Using, Sent
  <1>4. CASE idle_list = <<>>
    <2>1. rpc' = [rpc EXCEPT ![s] = "new_conn"] /\ UNCHANGED <<idle_list, emutex, rconn>>
      BY <1>4 DEF TakeIdle, RGoto
    <2>2. entryVars' = entryVars
      BY <1>2, <2>1 DEF entryVars
    <2> QED
      BY <1>2, <1>3, <2>1, <2>2, RequesterAlone
  <1>5. CASE idle_list # <<>>
    <2>1. PICK e : e = Head(idle_list)
      OBVIOUS
    <2>2. /\ emutex[e] = None /\ idle_list' = Tail(idle_list) /\ emutex' = [emutex EXCEPT ![e] = s]
          /\ rconn' = [rconn EXCEPT ![s] = e] /\ rpc' = [rpc EXCEPT ![s] = "set_timeout"]
      BY <1>5, <2>1 DEF TakeIdle, RGoto, OffTheList
    <2>3. idle_list \in Seq(Conns) /\ IsInjective(idle_list)
      BY <1>1 DEF ShapeOK, ListOK
    <2>4. /\ idle_list' \in Seq(Conns) /\ IsInjective(idle_list') /\ e \in Conns
          /\ e \in ToSet(idle_list) /\ ToSet(idle_list') = ToSet(idle_list) \ {e}
      BY <1>5, <2>1, <2>2, <2>3, TailOK
    <2>5. Idle(e) /\ StateOK(e)
      BY <1>1, <2>4 DEF ListOK, IInv, EntryOK
    <2>6. /\ state' = state /\ ref' = ref /\ esession' = esession /\ memory' = memory
          /\ node' = node /\ hand' = hand /\ removed' = removed /\ partial' = partial
          /\ pipe' = pipe /\ stopped' = stopped /\ msgqueue' = msgqueue /\ hres' = hres /\ hpc' = hpc
          /\ hsession' = hsession /\ houtcome' = houtcome
          /\ sessionVars' = sessionVars /\ deinitVars' = deinitVars
      BY <1>2 DEF pollerVars, handlerVars
    <2>7. /\ emutex' \in [Conns -> Sessions \cup Handlers \cup {None}] /\ emutex'[e] = s
          /\ rconn' \in [Sessions -> Conns \cup {None}] /\ rconn'[s] = e
          /\ rpc' \in [Sessions -> {"none", "retry", "new_conn", "failed"} \cup Using \cup Sent]
          /\ rpc'[s] = "set_timeout"
          /\ \A d \in Conns : d # e => emutex'[d] = emutex[d]
          /\ \A t \in Sessions : t # s => rpc'[t] = rpc[t] /\ rconn'[t] = rconn[t]
      BY <1>1, <2>2, <2>4 DEF ShapeOK, Using
    <2>8. ASSUME NEW d \in Conns PROVE SameHand(d) /\ SameTokens(d)
      BY <1>1, <2>6, TokensElsewhere DEF SameHand, HandlersStay
    <2>9. SessionOK(s)'
      BY <1>1, <1>3, <2>6, <2>7, FreshSession DEF HandlersStay, Sent
    <2>10. ASSUME NEW t \in Sessions, Waits(t) PROVE rconn'[t] = rconn[t] /\ Waits(t)'
      <3>1. t # s
        BY <1>3, <2>10 DEF Waits
      <3>2. Told(t)' = Told(t)
        BY <2>6 DEF Told, Finishers, sessionVars
      <3> QED
        BY <2>7, <2>10, <3>1, <3>2 DEF Waits
    <2>11. /\ (RefOK(e) /\ StateOK(e) /\ HandOK(e) /\ OwnerOK(e))'
           /\ Awaiting(e)' <=> Awaiting(e)
           /\ Idle(e)' <=> Idle(e)
      BY <2>4, <2>6, <2>8, <2>10, EntrySame
    <2>12. EntryOK(e)'
      <3>1. Ending(e, "read")' + Ending(e, "write")' + Held(e, "write")' > 0
        <4>1. Ending(e, "read") = 1 /\ Ending(e, "write") = 0 /\ Held(e, "write") \in Nat
          BY <1>1, <2>4, <2>5, IdleIsFree, CountTypes
        <4> QED
          BY <2>4, <2>8, <4>1 DEF SameTokens
      <3>2. UseOK(e)'
        BY <2>4, <2>5, <2>6, <2>7, <2>11, <3>1, Names DEF UseOK, Using, Idle
      <3> QED
        BY <2>11, <3>2 DEF EntryOK
    <2>13. ListGood(e)'
      BY <2>4, <2>7 DEF ListGood
    <2>14. QueueGood' /\ PipesGood'
      BY <1>1, <2>6, ResultsAre DEF QueueGood, PipesGood, ItsSession
    <2>15. ShapeOK'
      BY <1>1, <2>4, <2>6, <2>7 DEF ShapeOK, sessionVars, deinitVars
    <2>16. RequestFrame(s, e)
      <3>1. ~Awaiting(e)
        BY <1>1, <2>4, <2>5, IdleIsFree
      <3> QED
        BY <1>3, <2>2, <2>4, <2>6, <2>7, <2>8, <3>1 DEF RequestFrame, HandlersStay
    <2> QED
      BY <2>4, <2>9, <2>12, <2>13, <2>14, <2>15, <2>16, RequestLemma
  <1> QED
    BY <1>4, <1>5

(* A requester that has taken a connection and not sent anything yet.       *)
LEMMA Taken ==
  ASSUME IInv, NEW s \in Sessions, rpc[s] \in {"set_timeout", "send"}, NEW e, e = rconn[s]
  PROVE  /\ e \in Conns /\ emutex[e] = s /\ Idle(e) /\ e \notin ToSet(idle_list)
         /\ RefOK(e) /\ StateOK(e) /\ HandOK(e) /\ UseOK(e) /\ SessionOK(s)
         /\ ~nonblock /\ rpc[s] \notin Sent
         /\ rpc[s] = "send" => esession[e] = s
  <1>1. LockOK /\ StopOK /\ SessionOK(s)
    BY DEF IInv
  <1>2. e \in Conns /\ emutex[e] = s
    BY <1>1 DEF LockOK, Using
  <1>3. RefOK(e) /\ StateOK(e) /\ HandOK(e) /\ UseOK(e)
    BY <1>2 DEF IInv, EntryOK
  <1> QED
    BY <1>1, <1>2, <1>3 DEF UseOK, StopOK, Sent

LEMMA SetTimeoutStep ==
  ASSUME IInv, NEW s \in Sessions, SetTimeout(s)
  PROVE  IInv'
  <1>1. PICK e : e = rconn[s]
    OBVIOUS
  <1>2. /\ rpc[s] = "set_timeout"
        /\ UNCHANGED <<ref, memory, idle_list, pollerVars, msgqueue, handlerVars, rconn,
                       sessionVars, deinitVars>>
    BY <1>1 DEF SetTimeout
  <1>3. /\ e \in Conns /\ emutex[e] = s /\ Idle(e) /\ e \notin ToSet(idle_list)
        /\ RefOK(e) /\ StateOK(e) /\ HandOK(e) /\ UseOK(e) /\ SessionOK(s)
        /\ ~nonblock /\ rpc[s] \notin Sent
    BY <1>1, <1>2, Taken
  <1>4. ShapeOK /\ ResultsOK /\ ListOK
    BY DEF IInv
  <1>5. /\ ref' = ref /\ memory' = memory /\ idle_list' = idle_list
        /\ node' = node /\ hand' = hand /\ removed' = removed /\ partial' = partial
        /\ pipe' = pipe /\ stopped' = stopped /\ msgqueue' = msgqueue /\ hres' = hres /\ hpc' = hpc
        /\ hsession' = hsession /\ houtcome' = houtcome /\ rconn' = rconn
        /\ sessionVars' = sessionVars /\ deinitVars' = deinitVars
    BY <1>2 DEF pollerVars, handlerVars
  <1>6. PICK p : p = IF node[e] # "none" THEN "send" ELSE "retry"
    OBVIOUS
  <1>7. /\ rpc' = [rpc EXCEPT ![s] = p] /\ p \notin Sent
        /\ p = "send" => /\ esession' = [esession EXCEPT ![e] = s]
                         /\ state' = state /\ emutex' = emutex
        /\ p = "retry" => /\ state' = [state EXCEPT ![e] = "closing"]
                          /\ emutex' = [emutex EXCEPT ![e] = None] /\ esession' = esession
    BY <1>1, <1>6 DEF SetTimeout, RGoto, Unlocked, Sent
  <1>8. /\ rpc' \in [Sessions -> {"none", "retry", "new_conn", "failed"} \cup Using \cup Sent]
        /\ rpc'[s] = p /\ \A t \in Sessions : t # s => rpc'[t] = rpc[t]
    BY <1>4, <1>6, <1>7 DEF ShapeOK, Using
  <1>9. /\ state' \in [Conns -> {"none", "connecting", "receiving", "success", "idle",
                                 "closing", "error"}]
        /\ esession' \in [Conns -> Sessions \cup {None}]
        /\ emutex' \in [Conns -> Sessions \cup Handlers \cup {None}]
        /\ \A d \in Conns : d # e => /\ state'[d] = state[d] /\ esession'[d] = esession[d]
                                     /\ emutex'[d] = emutex[d]
        /\ p = "send" => state'[e] = state[e] /\ emutex'[e] = s /\ esession'[e] = s
        /\ p = "retry" => state'[e] = "closing" /\ emutex'[e] = None
    <2>1. /\ state \in [Conns -> {"none", "connecting", "receiving", "success", "idle",
                                 "closing", "error"}]
          /\ esession \in [Conns -> Sessions \cup {None}]
          /\ emutex \in [Conns -> Sessions \cup Handlers \cup {None}]
      BY <1>4 DEF ShapeOK
    <2>2. CASE p = "send"
      BY <1>3, <1>7, <2>1, <2>2
    <2>3. CASE p = "retry"
      BY <1>3, <1>7, <2>1, <2>3
    <2> QED
      BY <1>6, <2>2, <2>3
  <1>10. ASSUME NEW d \in Conns PROVE SameHand(d) /\ SameTokens(d)
    BY <1>4, <1>5, TokensElsewhere DEF SameHand, HandlersStay
  <1>11. SessionOK(s)'
    BY <1>3, <1>4, <1>5, <1>7, <1>8, FreshSession DEF HandlersStay
  <1>12. /\ Ending(e, "connect") = 0 /\ Ending(e, "read") = 1 /\ Ending(e, "write") = 0
         /\ Complete(e) = 0 /\ Held(e, "connect") = 0 /\ ~Awaiting(e)
         /\ state[e] = "idle" /\ Held(e, "write") \in Nat
    BY <1>3, <1>4, IdleIsFree, CountTypes
  <1>13. /\ Ending(e, "connect")' = 0 /\ Ending(e, "read")' = 1 /\ Ending(e, "write")' = 0
         /\ Complete(e)' = 0 /\ Held(e, "connect")' = 0 /\ Held(e, "write")' = Held(e, "write")
    BY <1>3, <1>10, <1>12 DEF SameTokens
  <1>14. EntryOK(e)' /\ ListGood(e)'
    <2>1. CASE p = "send"
      <3>1. /\ (RefOK(e) /\ StateOK(e) /\ HandOK(e))'
            /\ Awaiting(e)' <=> Awaiting(e)
            /\ Idle(e)' <=> Idle(e)
        BY <1>3, <1>5, <1>9, <1>10, <2>1, EntryRest
      <3>2. OwnerOK(e)'
        BY <1>12, <3>1 DEF OwnerOK
      <3>3. UseOK(e)'
        BY <1>1, <1>3, <1>5, <1>8, <1>9, <1>12, <1>13, <2>1, <3>1, Names DEF UseOK, Using
      <3>4. ListGood(e)'
        BY <1>3, <1>4, <1>5, <1>8, <1>9, <2>1, <3>1 DEF ListGood, ListOK
      <3> QED
        BY <3>1, <3>2, <3>3, <3>4 DEF EntryOK
    <2>2. CASE p = "retry"
      <3>1. Tokens(e)' = Tokens(e) /\ Tokens(e) > 0
        <4>1. Tokens(e)' = Tokens(e)
          BY <1>3, <1>10 DEF SameTokens, Tokens
        <4>2. Held(e, "read") \in Nat
          BY <1>3, <1>4, CountTypes
        <4>3. Tokens(e) = 0 + 1 + 0 + 0 + 0 + Held(e, "read") + Held(e, "write")
          BY <1>12 DEF Tokens
        <4> QED
          BY <1>12, <4>1, <4>2, <4>3
      <3>2. RefOK(e)'
        <4>1. B(state[e] = "success") = 0 /\ B(state'[e] = "success") = 0
          BY <1>9, <1>12, <2>2 DEF B
        <4> QED
          BY <1>3, <1>5, <1>9, <2>2, <3>1, <4>1 DEF RefOK
      <3>3. StateOK(e)'
        BY <1>9, <1>13, <2>2 DEF StateOK
      <3>4. HandOK(e)'
        BY <1>3, <1>5, <1>9, <1>12, <2>2 DEF HandOK
      <3>5. UseOK(e)'
        BY <1>9, <2>2, Names DEF UseOK
      <3>6. OwnerOK(e)'
        BY <1>9, <1>13, <2>2 DEF OwnerOK, Awaiting
      <3>7. ListGood(e)'
        BY <1>3, <1>4, <1>5, <1>9, <2>2 DEF ListGood, ListOK, Idle
      <3> QED
        BY <3>2, <3>3, <3>4, <3>5, <3>6, <3>7 DEF EntryOK
    <2> QED
      BY <1>6, <2>1, <2>2
  <1>15. QueueGood' /\ PipesGood'
    <2>1. QueueGood /\ PipesGood
      BY <1>4, ResultsAre
    <2>2. QueueGood'
      BY <1>3, <1>4, <1>5, <1>9, <1>12, <2>1, QueueSession
    <2> QED
      BY <1>5, <2>1, <2>2 DEF PipesGood
  <1>16. ShapeOK'
    BY <1>4, <1>5, <1>8, <1>9 DEF ShapeOK, sessionVars, deinitVars
  <1>17. RequestFrame(s, e)
    <2>1. /\ rpc'[s] \in Using => emutex'[e] = s
          /\ emutex'[e] = emutex[e] \/ emutex[e] \in {None, s}
      BY <1>3, <1>6, <1>8, <1>9 DEF Using
    <2> QED
      BY <1>1, <1>3, <1>5, <1>8, <1>9, <1>10, <1>12, <2>1 DEF RequestFrame, HandlersStay
  <1> QED
    BY <1>3, <1>11, <1>14, <1>15, <1>16, <1>17, RequestLemma

LEMMA RequestUnlockStep ==
  ASSUME IInv, NEW s \in Sessions, RequestUnlock(s)
  PROVE  IInv'
  <1>1. PICK e : e = rconn[s]
    OBVIOUS
  <1>2. /\ rpc[s] = "unlock" /\ emutex' = [emutex EXCEPT ![e] = None]
        /\ rpc' = [rpc EXCEPT ![s] = "accepted"]
        /\ UNCHANGED <<state, ref, esession, memory, idle_list, pollerVars, msgqueue,
                       handlerVars, rconn, sessionVars, deinitVars>>
    BY <1>1 DEF RequestUnlock, RGoto
  <1>3. ShapeOK /\ ResultsOK /\ LockOK /\ ListOK /\ StopOK /\ SessionOK(s)
    BY DEF IInv
  <1>4. e \in Conns /\ emutex[e] = s /\ ~nonblock
    BY <1>1, <1>2, <1>3 DEF LockOK, StopOK, Using
  <1>5. /\ state' = state /\ ref' = ref /\ esession' = esession /\ memory' = memory
        /\ idle_list' = idle_list
        /\ node' = node /\ hand' = hand /\ removed' = removed /\ partial' = partial
        /\ pipe' = pipe /\ stopped' = stopped /\ msgqueue' = msgqueue /\ hres' = hres /\ hpc' = hpc
        /\ hsession' = hsession /\ houtcome' = houtcome /\ rconn' = rconn
        /\ handled' = handled /\ released' = released
        /\ sessionVars' = sessionVars /\ deinitVars' = deinitVars
    BY <1>2 DEF pollerVars, handlerVars, sessionVars
  <1>6. /\ rpc' \in [Sessions -> {"none", "retry", "new_conn", "failed"} \cup Using \cup Sent]
        /\ rpc'[s] = "accepted" /\ \A t \in Sessions : t # s => rpc'[t] = rpc[t]
        /\ emutex' \in [Conns -> Sessions \cup Handlers \cup {None}] /\ emutex'[e] = None
        /\ \A d \in Conns : d # e => emutex'[d] = emutex[d]
    BY <1>2, <1>3, <1>4 DEF ShapeOK, Sent
  <1>7. ASSUME NEW d \in Conns PROVE SameHand(d) /\ SameTokens(d)
    BY <1>3, <1>5, TokensElsewhere DEF SameHand, HandlersStay
  <1>8. ASSUME NEW t \in Sessions PROVE Told(t)' = Told(t) /\ (Waits(t)' <=> Waits(t))
    <2>1. Told(t)' = Told(t)
      BY <1>5 DEF Told, Finishers
    <2> QED
      BY <1>2, <1>6, <2>1 DEF Waits, Sent
  <1>9. /\ (RefOK(e) /\ StateOK(e) /\ HandOK(e) /\ OwnerOK(e))'
        /\ Awaiting(e)' <=> Awaiting(e)
        /\ Idle(e)' <=> Idle(e)
    BY <1>4, <1>5, <1>7, <1>8, EntrySame
  <1>10. EntryOK(e)'
    <2>1. UseOK(e)'
      BY <1>6, Names DEF UseOK
    <2> QED
      BY <1>9, <2>1 DEF EntryOK
  <1>11. ListGood(e)'
    BY <1>2, <1>3, <1>4, <1>5, <1>9 DEF ListGood, ListOK
  <1>12. SessionOK(s)'
    <2>1. Waits(s) => Awaiting(e)' /\ esession'[e] = s
      BY <1>1, <1>3, <1>5, <1>9 DEF SessionOK
    <2>2. rconn'[s] = e
      BY <1>1, <1>5
    <2> QED
      BY <1>3, <1>4, <1>5, <1>6, <1>8, <2>1, <2>2 DEF SessionOK, Sent
  <1>13. QueueGood' /\ PipesGood'
    BY <1>3, <1>5, ResultsAre DEF QueueGood, PipesGood, ItsSession
  <1>14. ShapeOK'
    BY <1>3, <1>5, <1>6 DEF ShapeOK, sessionVars, deinitVars
  <1>15. RequestFrame(s, e)
    BY <1>1, <1>4, <1>5, <1>6, <1>7, <1>9 DEF RequestFrame, HandlersStay, Using
  <1> QED
    BY <1>4, <1>10, <1>11, <1>12, <1>13, <1>14, <1>15, RequestLemma

(* The request goes out on the connection that was idle: there is now an    *)
(* outcome to wait for.                                                     *)
LEMMA SendStep ==
  ASSUME IInv, NEW s \in Sessions, rpc[s] = "send", NEW e, e = rconn[s],
         rpc' = [rpc EXCEPT ![s] = "unlock"],
         UNCHANGED <<ref, esession, emutex, memory, idle_list, hand, stopped, partial,
                     handlerVars, rconn, sessionVars, deinitVars>>,
         state' \in [Conns -> {"none", "connecting", "receiving", "success", "idle",
                               "closing", "error"}],
         node' \in [Conns -> Ops \cup {"none"}], removed' \in [Conns -> BOOLEAN],
         pipe' \in [Conns -> Seq(Res)], msgqueue' \in Seq(Res), QueueGood', PipesGood',
         \A d \in Conns : d # e => /\ pipe'[d] = pipe[d] /\ removed'[d] = removed[d]
                                   /\ node'[d] = node[d] /\ state'[d] = state[d],
         \/ msgqueue' = msgqueue
         \/ \E m \in Res : m.conn = e /\ Sends(m),
         node'[e] \in {"read", "write"} => node[e] \in {"read", "write"},
         Ending(e, "connect")' = 0, Complete(e)' = 0, \A op \in Ops : Held(e, op)' = Held(e, op),
         \/ Ending(e, "read")' = 1 /\ Ending(e, "write")' = 0 /\ state'[e] \in {"receiving", "error"}
         \/ Ending(e, "read")' = 0 /\ Ending(e, "write")' = 1 /\ state'[e] = "idle",
         HandOK(e)'
  PROVE  IInv'
  <1>1. /\ e \in Conns /\ emutex[e] = s /\ Idle(e) /\ e \notin ToSet(idle_list)
        /\ RefOK(e) /\ StateOK(e) /\ SessionOK(s)
        /\ ~nonblock /\ rpc[s] \notin Sent /\ esession[e] = s
    BY Taken
  <1>2. ShapeOK /\ ListOK
    BY DEF IInv
  <1>3. /\ ref' = ref /\ esession' = esession /\ emutex' = emutex /\ memory' = memory
        /\ idle_list' = idle_list /\ hand' = hand /\ stopped' = stopped /\ partial' = partial
        /\ hres' = hres /\ hpc' = hpc /\ hsession' = hsession /\ houtcome' = houtcome
        /\ rconn' = rconn /\ released' = released /\ handled' = handled
        /\ sessionVars' = sessionVars /\ deinitVars' = deinitVars
    BY DEF handlerVars, sessionVars
  <1>4. /\ rpc' \in [Sessions -> {"none", "retry", "new_conn", "failed"} \cup Using \cup Sent]
        /\ rpc'[s] = "unlock" /\ \A t \in Sessions : t # s => rpc'[t] = rpc[t]
    BY <1>2 DEF ShapeOK, Using
  <1>5. /\ Ending(e, "connect") = 0 /\ Ending(e, "read") = 1 /\ Ending(e, "write") = 0
        /\ Complete(e) = 0 /\ Held(e, "connect") = 0 /\ ~Awaiting(e) /\ state[e] = "idle"
    BY <1>1, <1>2, IdleIsFree
  <1>6. PICK hr \in Nat, hw \in Nat : hr = Held(e, "read") /\ hw = Held(e, "write")
    BY <1>1, <1>2, CountTypes
  <1>7. Held(e, "connect")' = 0 /\ Held(e, "read")' = hr /\ Held(e, "write")' = hw
    BY <1>5, <1>6 DEF Ops
  <1>8. Tokens(e)' = Tokens(e) /\ Tokens(e) > 0
    <2>1. Tokens(e) = 0 + 1 + 0 + 0 + 0 + hr + hw
      BY <1>5, <1>6 DEF Tokens
    <2>2. Tokens(e)' = 0 + Ending(e, "read")' + Ending(e, "write")' + 0 + 0 + hr + hw
      BY <1>7 DEF Tokens
    <2> QED
      BY <1>6, <2>1, <2>2
  <1>9. Awaiting(e)' /\ ~Idle(e)'
    BY DEF Awaiting, Idle
  <1>10. RefOK(e)'
    <2>1. B(state[e] = "success") = 0 /\ B(state'[e] = "success") = 0
      BY <1>5 DEF B
    <2>2. memory[e] = "live"
      BY <1>1, <1>2, <1>8, Types DEF RefOK
    <2> QED
      BY <1>1, <1>3, <1>8, <2>1, <2>2 DEF RefOK
  <1>11. StateOK(e)'
    BY <1>7 DEF StateOK
  <1>12. UseOK(e)'
    BY <1>1, <1>3, <1>4, <1>6, <1>7, Names DEF UseOK, Using
  <1>13. Told(s)' = 0 /\ Waits(s)'
    <2>1. Told(s)' = 0
      BY <1>1, <1>2, <1>3, FreshSession DEF HandlersStay
    <2> QED
      BY <1>4, <2>1 DEF Waits, Sent
  <1>14. OwnerOK(e)'
    <2>1. esession'[e] = s /\ rconn'[s] = e
      BY <1>1, <1>3
    <2> QED
      BY <1>13, <2>1 DEF OwnerOK
  <1>15. SessionOK(s)'
    <2>1. esession'[e] = s /\ rconn'[s] = e
      BY <1>1, <1>3
    <2> QED
      BY <1>1, <1>3, <1>4, <1>9, <1>13, <2>1 DEF SessionOK
  <1>16. EntryOK(e)'
    BY <1>10, <1>11, <1>12, <1>14 DEF EntryOK
  <1>17. ListGood(e)'
    BY <1>1, <1>2, <1>3, <1>9 DEF ListGood, ListOK
  <1>18. ShapeOK'
    BY <1>2, <1>3, <1>4 DEF ShapeOK, sessionVars, deinitVars
  <1>19. RequestFrame(s, e)
    <2>1. \A d \in Conns : d # e => SameHand(d)
      BY <1>3 DEF SameHand
    <2> QED
      BY <1>1, <1>3, <1>4, <1>5, <2>1 DEF RequestFrame, HandlersStay, Using
  <1> QED
    BY <1>1, <1>15, <1>16, <1>17, <1>18, <1>19, RequestLemma

LEMMA SendOnIdleStep ==
  ASSUME IInv, NEW s \in Sessions, SendOnIdle(s)
  PROVE  IInv'
  <1>1. PICK e : e = rconn[s]
    OBVIOUS
  <1>2. /\ rpc[s] = "send" /\ rpc' = [rpc EXCEPT ![s] = "unlock"]
        /\ UNCHANGED <<ref, esession, emutex, memory, idle_list, hand, stopped, partial,
                       handlerVars, rconn, sessionVars, deinitVars>>
    BY <1>1 DEF SendOnIdle, RGoto
  <1>3. /\ e \in Conns /\ Idle(e) /\ StateOK(e) /\ HandOK(e) /\ ~nonblock
    BY <1>1, <1>2, Taken
  <1>4. ShapeOK /\ ResultsOK /\ QueueGood /\ PipesGood
    BY ResultsAre DEF IInv
  <1>5. /\ esession' = esession /\ hand' = hand /\ stopped' = stopped /\ partial' = partial
        /\ hres' = hres /\ hpc' = hpc
    BY <1>2 DEF handlerVars
  <1>6. HandlersStay
    BY <1>5 DEF HandlersStay
  <1>7. /\ Ending(e, "connect") = 0 /\ Ending(e, "read") = 1 /\ Ending(e, "write") = 0
        /\ Complete(e) = 0 /\ state[e] = "idle" /\ node[e] \in {"read", "none"}
    BY <1>3, <1>4, IdleIsFree
  <1>8. state \in [Conns -> {"none", "connecting", "receiving", "success", "idle", "closing", "error"}]
    BY <1>4 DEF ShapeOK
  <1>9. CASE /\ state' = [state EXCEPT ![e] = "receiving"]
             /\ UNCHANGED <<node, partial, pipe, removed, msgqueue>>
    <2>1. /\ node' = node /\ pipe' = pipe /\ removed' = removed /\ msgqueue' = msgqueue
          /\ state'[e] = "receiving" /\ \A d \in Conns : d # e => state'[d] = state[d]
          /\ state' \in [Conns -> {"none", "connecting", "receiving", "success", "idle", "closing",
                                   "error"}]
      BY <1>3, <1>8, <1>9
    <2>2. SameTokens(e)
      BY <1>3, <1>4, <1>5, <1>6, <2>1, TokensElsewhere DEF SameHand
    <2>3. /\ Ending(e, "connect")' = 0 /\ Complete(e)' = 0 /\ Ending(e, "read")' = 1
          /\ Ending(e, "write")' = 0 /\ \A op \in Ops : Held(e, op)' = Held(e, op)
      BY <1>7, <2>2 DEF SameTokens, Ops
    <2>4. HandOK(e)'
      BY <1>3, <1>5, <1>7, <2>1 DEF HandOK
    <2>5. QueueGood' /\ PipesGood'
      BY <1>4, <1>5, <2>1 DEF QueueGood, PipesGood, ItsSession
    <2>6. /\ node' \in [Conns -> Ops \cup {"none"}] /\ removed' \in [Conns -> BOOLEAN]
          /\ pipe' \in [Conns -> Seq(Res)] /\ msgqueue' \in Seq(Res)
      BY <1>4, <2>1 DEF ShapeOK
    <2> QED
      BY <1>1, <1>2, <2>1, <2>3, <2>4, <2>5, <2>6, SendStep
  <1>10. CASE /\ node[e] # "none" /\ node' = [node EXCEPT ![e] = "write"]
              /\ Retire(e, "MODIFIED", msgqueue) /\ UNCHANGED <<state, partial>>
    <2>1. node[e] = "read" /\ node[e] \in Ops
      BY <1>7, <1>10 DEF Ops
    <2>2. /\ node' \in [Conns -> Ops \cup {"none"}] /\ node'[e] = "write"
          /\ \A d \in Conns : d # e => node'[d] = node[d]
      BY <1>3, <1>4, <1>10 DEF ShapeOK, Ops
    <2>3. /\ pipe' \in [Conns -> Seq(Res)] /\ removed' \in [Conns -> BOOLEAN]
          /\ msgqueue' \in Seq(Res) /\ QueueGood' /\ PipesGood'
          /\ \A d \in Conns : d # e => pipe'[d] = pipe[d] /\ removed'[d] = removed[d]
          /\ \/ msgqueue' = msgqueue
             \/ \E m \in Res : m.conn = e /\ Sends(m)
          /\ removed'[e] = IF stopped[e] = "running" THEN hand[e] # "none" ELSE removed[e]
          /\ stopped[e] # "running" => pipe' = pipe
          /\ Num(msgqueue', Completes(e)) = Num(msgqueue, Completes(e))
          /\ \A op : Num(pipe'[e], Ends(e, op)) + Num(msgqueue', Ends(e, op))
                        = Num(pipe[e], Ends(e, op)) + Num(msgqueue, Ends(e, op))
                          + B(node[e] = op /\ "MODIFIED" = "DELETED")
      BY <1>3, <1>4, <1>5, <1>10, <2>1, RetireOK
    <2>4. HandsSame(e)
      BY <1>6, HandsStay
    <2>5. Complete(e)' = 0 /\ \A op \in Ops : Held(e, op)' = Held(e, op)
      <3>1. Complete(e)' = Complete(e)
        BY <1>5, <2>3, <2>4 DEF Complete, HandsSame
      <3> QED
        BY <1>7, <2>4, <3>1 DEF HandsSame
    <2>6. ASSUME NEW op \in Ops
          PROVE  Ending(e, op)' = Ending(e, op) - B(op = "read") + B(op = "write")
      <3>1. PICK x \in Nat, y \in Nat, z \in Nat :
               /\ x = Num(pipe[e], Ends(e, op)) /\ y = Num(msgqueue, Ends(e, op))
               /\ z = JNum(Ends(e, op), {op})
        BY <1>3, <1>4, CountTypes
      <3>a. PICK x2, y2 : x2 = Num(pipe'[e], Ends(e, op)) /\ y2 = Num(msgqueue', Ends(e, op))
        OBVIOUS
      <3>2. B(node[e] = op /\ "MODIFIED" = "DELETED") = 0
        BY DEF B
      <3>3. x2 + y2 = x + y + 0
        BY <2>3, <3>1, <3>a, <3>2
      <3>4. B(node[e] = op) = B(op = "read") /\ B(node'[e] = op) = B(op = "write")
        BY <2>1, <2>2 DEF B
      <3>5. PICK r \in {0, 1}, w \in {0, 1} : r = B(op = "read") /\ w = B(op = "write")
        BY BOK
      <3>6. Ending(e, op) = r + x + y + z
        BY <3>1, <3>4, <3>5 DEF Ending
      <3>7. Ending(e, op)' = w + x2 + y2 + z
        BY <2>4, <3>1, <3>a, <3>4, <3>5 DEF Ending, HandsSame
      <3>8. x2 \in Nat /\ y2 \in Nat
        <4>1. pipe'[e] \in Seq(Res)
          BY <1>3, <2>3
        <4> QED
          BY <2>3, <3>a, <4>1, NumPositive
      <3> QED
        BY <3>3, <3>5, <3>6, <3>7, <3>8
    <2>7. Ending(e, "connect")' = 0 /\ Ending(e, "read")' = 0 /\ Ending(e, "write")' = 1
      <3>1. /\ B("connect" = "read") = 0 /\ B("connect" = "write") = 0
            /\ B("read" = "read") = 1 /\ B("read" = "write") = 0
            /\ B("write" = "read") = 0 /\ B("write" = "write") = 1
        BY DEF B
      <3>2. Ending(e, "connect")' = 0 - 0 + 0 /\ Ending(e, "read")' = 1 - 1 + 0
            /\ Ending(e, "write")' = 0 - 0 + 1
        BY <1>7, <2>6, <3>1 DEF Ops
      <3> QED
        BY <3>2
    <2>8. state'[e] = "idle" /\ state' = state
      BY <1>7, <1>10
    <2>9. HandOK(e)'
      <3>1. hand[e] # "none" => stopped[e] = "running"
        BY <1>3 DEF HandOK
      <3>2. hand[e] # "append" /\ hand[e] # "success"
        BY <1>3, <1>7 DEF HandOK
      <3>3. partial[e] => hand[e] = "none" /\ node[e] # "read"
        BY <1>3, <1>7, <3>2 DEF HandOK
      <3>4. ~partial[e]
        BY <2>1, <3>3
      <3>5. /\ hand[e] = "none" => ~removed'[e]
            /\ hand[e] # "none" => removed'[e]
        BY <1>3, <2>3, <3>1 DEF HandOK
      <3>6. stopped[e] = "swept" => pipe'[e] = <<>>
        BY <1>3, <2>3 DEF HandOK
      <3> QED
        BY <1>5, <2>2, <3>1, <3>2, <3>4, <3>5, <3>6 DEF HandOK
    <2>10. \A d \in Conns : d # e => /\ pipe'[d] = pipe[d] /\ removed'[d] = removed[d]
                                     /\ node'[d] = node[d] /\ state'[d] = state[d]
      BY <2>2, <2>3, <2>8
    <2> QED
      BY <1>1, <1>2, <1>8, <2>1, <2>2, <2>3, <2>5, <2>7, <2>8, <2>9, <2>10, SendStep
  <1>11. CASE PollerDel(e) /\ state' = [state EXCEPT ![e] = "error"] /\ UNCHANGED partial
    <2>1. /\ pipe' \in [Conns -> Seq(Res)] /\ removed' \in [Conns -> BOOLEAN]
          /\ node' \in [Conns -> Ops \cup {"none"}] /\ node'[e] = "none"
          /\ msgqueue' \in Seq(Res) /\ QueueGood' /\ PipesGood'
          /\ \A d \in Conns : d # e => /\ pipe'[d] = pipe[d] /\ removed'[d] = removed[d]
                                       /\ node'[d] = node[d]
          /\ \/ msgqueue' = msgqueue
             \/ \E m \in Res : m.conn = e /\ Sends(m)
          /\ Num(msgqueue', Completes(e)) = Num(msgqueue, Completes(e))
          /\ \A op \in Ops :
                B(node'[e] = op) + Num(pipe'[e], Ends(e, op)) + Num(msgqueue', Ends(e, op))
                   = B(node[e] = op) + Num(pipe[e], Ends(e, op)) + Num(msgqueue, Ends(e, op))
          /\ hand[e] = "none" => ~removed'[e]
          /\ hand[e] # "none" => removed'[e] /\ \E op \in {"read", "write"} :
                                                   Num(pipe'[e], Ends(e, op)) > 0
          /\ stopped[e] # "running" => pipe' = pipe
      BY <1>3, <1>4, <1>5, <1>11, PollerDelOK
    <2>2. SameTokens(e)
      <3>1. B(hand'[e] = "success") + Num(msgqueue', Completes(e))
              = B(hand[e] = "success") + Num(msgqueue, Completes(e))
        BY <1>5, <2>1
      <3> QED
        BY <1>3, <1>4, <1>6, <2>1, <3>1, TokensFrom
    <2>3. /\ Ending(e, "connect")' = 0 /\ Complete(e)' = 0 /\ Ending(e, "read")' = 1
          /\ Ending(e, "write")' = 0 /\ \A op \in Ops : Held(e, op)' = Held(e, op)
      BY <1>7, <2>2 DEF SameTokens, Ops
    <2>4. /\ state'[e] = "error" /\ \A d \in Conns : d # e => state'[d] = state[d]
          /\ state' \in [Conns -> {"none", "connecting", "receiving", "success", "idle", "closing",
                                   "error"}]
      BY <1>3, <1>8, <1>11
    <2>5. HandOK(e)'
      <3>1. hand[e] # "none" => stopped[e] = "running"
        BY <1>3 DEF HandOK
      <3>2. hand[e] # "append" /\ hand[e] # "success"
        BY <1>3, <1>7 DEF HandOK
      <3>3. partial[e] => hand[e] = "none"
        BY <1>3, <1>7, <3>2 DEF HandOK
      <3>4. stopped[e] = "swept" => pipe'[e] = <<>>
        BY <1>3, <2>1 DEF HandOK
      <3> QED
        BY <1>5, <2>1, <3>1, <3>2, <3>3, <3>4 DEF HandOK
    <2>6. \A d \in Conns : d # e => /\ pipe'[d] = pipe[d] /\ removed'[d] = removed[d]
                                    /\ node'[d] = node[d] /\ state'[d] = state[d]
      BY <2>1, <2>4
    <2>7. ~(node'[e] \in {"read", "write"})
      BY <2>1
    <2> QED
      BY <1>1, <1>2, <2>1, <2>3, <2>4, <2>5, <2>6, <2>7, SendStep
  <1> QED
    BY <1>1, <1>9, <1>10, <1>11 DEF SendOnIdle, MarkedError

(* A connection that is not made yet has nothing that stands for it.        *)
LEMMA Unborn ==
  ASSUME IInv, NEW e \in Conns, memory[e] = "unborn"
  PROVE  /\ \A op \in Ops : Ending(e, op) = 0 /\ Held(e, op) = 0
         /\ Complete(e) = 0 /\ ~Awaiting(e) /\ ~Idle(e) /\ e \notin ToSet(idle_list)
         /\ hand[e] = "none" /\ ~removed[e] /\ emutex[e] \notin Sessions
         /\ HandOK(e) /\ UseOK(e)
  <1>1. ShapeOK /\ ListOK /\ RefOK(e) /\ HandOK(e) /\ UseOK(e)
    BY DEF IInv, EntryOK
  <1>2. PICK ec \in Nat, er \in Nat, ew \in Nat, c \in Nat, hc \in Nat, hr \in Nat, hw \in Nat :
           /\ ec = Ending(e, "connect") /\ er = Ending(e, "read") /\ ew = Ending(e, "write")
           /\ c = Complete(e)
           /\ hc = Held(e, "connect") /\ hr = Held(e, "read") /\ hw = Held(e, "write")
    BY <1>1, CountTypes
  <1>3. ec + er + ew + c + hc + hr + hw = 0 /\ state[e] = "none"
    BY <1>1, <1>2 DEF RefOK, Tokens
  <1>4. ec = 0 /\ er = 0 /\ ew = 0 /\ c = 0 /\ hc = 0 /\ hr = 0 /\ hw = 0
    BY <1>3
  <1>5. \A op \in Ops : Ending(e, op) = 0 /\ Held(e, op) = 0
    BY <1>2, <1>4 DEF Ops
  <1>6. Complete(e) = 0 /\ ~Awaiting(e) /\ ~Idle(e)
    BY <1>2, <1>3, <1>4 DEF Awaiting, Idle
  <1>7. e \notin ToSet(idle_list)
    BY <1>1, <1>6 DEF ListOK
  <1>8. hand[e] = "none"
    BY <1>1, <1>2, <1>4, HandIsToken
  <1>9. emutex[e] \notin Sessions
    BY <1>1, <1>3 DEF UseOK
  <1> QED
    BY <1>1, <1>5, <1>6, <1>7, <1>8, <1>9 DEF HandOK

(* request_new_conn makes the entry with one reference, for the end of its  *)
(* connecting.                                                              *)
LEMMA NewConnStep ==
  ASSUME IInv, NEW s \in Sessions, NewConn(s)
  PROVE  IInv'
  <1>1. PICK e \in Conns :
           /\ memory[e] = "unborn" /\ memory' = [memory EXCEPT ![e] = "live"]
           /\ ref' = [ref EXCEPT ![e] = 1] /\ state' = [state EXCEPT ![e] = "connecting"]
           /\ esession' = [esession EXCEPT ![e] = s] /\ node[e] = "none"
           /\ node' = [node EXCEPT ![e] = "connect"] /\ partial' = [partial EXCEPT ![e] = FALSE]
           /\ rconn' = [rconn EXCEPT ![s] = e]
    BY DEF NewConn, PollerAdd
  <1>2. rpc[s] = "new_conn" /\ rpc' = [rpc EXCEPT ![s] = "accepted"]
    BY DEF NewConn, RGoto
  <1>3. /\ emutex' = emutex /\ idle_list' = idle_list /\ hand' = hand /\ removed' = removed
        /\ pipe' = pipe /\ stopped' = stopped /\ msgqueue' = msgqueue /\ hres' = hres /\ hpc' = hpc
        /\ hsession' = hsession /\ houtcome' = houtcome /\ keep_alive' = keep_alive
        /\ handled' = handled /\ released' = released
        /\ sessionVars' = sessionVars /\ deinitVars' = deinitVars
    BY DEF NewConn, handlerVars, sessionVars
  <1>4. ShapeOK /\ ResultsOK /\ ListOK /\ StopOK /\ SessionOK(s)
    BY DEF IInv
  <1>5. ~nonblock
    BY <1>2, <1>4 DEF StopOK
  <1>6. /\ \A op \in Ops : Ending(e, op) = 0 /\ Held(e, op) = 0
        /\ Complete(e) = 0 /\ ~Awaiting(e) /\ ~Idle(e) /\ e \notin ToSet(idle_list)
        /\ hand[e] = "none" /\ ~removed[e] /\ emutex[e] \notin Sessions
        /\ HandOK(e) /\ UseOK(e)
    BY <1>1, Unborn
  <1>7. /\ memory'[e] = "live" /\ ref'[e] = 1 /\ state'[e] = "connecting" /\ esession'[e] = s
        /\ node'[e] = "connect" /\ partial'[e] = FALSE /\ rconn'[s] = e /\ rpc'[s] = "accepted"
    BY <1>1, <1>2, <1>4 DEF ShapeOK
  <1>8. ASSUME NEW d \in Conns, d # e
        PROVE  /\ memory'[d] = memory[d] /\ ref'[d] = ref[d] /\ state'[d] = state[d]
               /\ esession'[d] = esession[d] /\ node'[d] = node[d] /\ partial'[d] = partial[d]
    BY <1>1, <1>4, <1>8 DEF ShapeOK
  <1>9. ASSUME NEW t \in Sessions, t # s PROVE rpc'[t] = rpc[t] /\ rconn'[t] = rconn[t]
    BY <1>1, <1>2, <1>4, <1>9 DEF ShapeOK
  <1>10. HandsSame(e)
    BY <1>3, HandsStay DEF HandlersStay
  <1>11. ASSUME NEW op \in Ops
         PROVE  Ending(e, op)' = B(op = "connect") /\ Held(e, op)' = 0
    <2>1. PICK x \in Nat, y \in Nat, z \in Nat :
             /\ x = Num(pipe[e], Ends(e, op)) /\ y = Num(msgqueue, Ends(e, op))
             /\ z = JNum(Ends(e, op), {op})
      BY <1>4, CountTypes
    <2>2. B(node[e] = op) = 0 /\ B(node'[e] = op) = B(op = "connect")
      BY <1>1, <1>7 DEF B, Ops
    <2>3. PICK r \in {0, 1} : r = B(op = "connect")
      BY BOK
    <2>4. 0 = 0 + x + y + z
      BY <1>6, <2>1, <2>2 DEF Ending
    <2>5. Ending(e, op)' = r + x + y + z
      BY <1>3, <1>10, <2>1, <2>2, <2>3 DEF Ending, HandsSame
    <2>6. Ending(e, op)' = r
      BY <2>4, <2>5
    <2>7. Held(e, op)' = 0
      BY <1>6, <1>10 DEF HandsSame
    <2> QED
      BY <2>3, <2>6, <2>7
  <1>12. Complete(e)' = 0
    <2>1. Complete(e)' = Complete(e)
      BY <1>3, <1>10 DEF Complete, HandsSame
    <2> QED
      BY <1>6, <2>1
  <1>13. /\ Ending(e, "connect")' = 1 /\ Ending(e, "read")' = 0 /\ Ending(e, "write")' = 0
         /\ Held(e, "connect")' = 0 /\ Held(e, "read")' = 0 /\ Held(e, "write")' = 0
    BY <1>11 DEF B, Ops
  <1>14. Told(s)' = 0 /\ Told(s) = 0
    BY <1>2, <1>3, <1>4, FreshSession DEF HandlersStay, Sent
  <1>15. Waits(s)'
    BY <1>7, <1>14 DEF Waits, Sent
  <1>16. Awaiting(e)' /\ ~Idle(e)'
    BY <1>7, <1>13 DEF Awaiting, Idle
  <1>17. RefOK(e)'
    <2>1. Tokens(e)' = 1
      BY <1>12, <1>13 DEF Tokens
    <2> QED
      BY <1>7, <2>1 DEF RefOK, B
  <1>18. StateOK(e)'
    BY <1>7, <1>12, <1>13 DEF StateOK
  <1>19. HandOK(e)'
    BY <1>3, <1>6, <1>7 DEF HandOK
  <1>20. UseOK(e)'
    BY <1>3, <1>6 DEF UseOK
  <1>21. OwnerOK(e)'
    BY <1>7, <1>15 DEF OwnerOK
  <1>22. EntryOK(e)'
    BY <1>17, <1>18, <1>19, <1>20, <1>21 DEF EntryOK
  <1>23. ListGood(e)'
    BY <1>3, <1>4, <1>6, <1>16 DEF ListGood, ListOK
  <1>24. SessionOK(s)'
    <2>1. rconn'[s] \in Conns /\ Awaiting(e)' /\ esession'[e] = s
      BY <1>7, <1>16
    <2> QED
      BY <1>3, <1>4, <1>7, <1>14, <2>1 DEF SessionOK, Sent
  <1>25. QueueGood' /\ PipesGood'
    <2>1. QueueGood'
      BY <1>3, <1>4, <1>6, <1>8, QueueSession, ResultsAre
    <2> QED
      BY <1>3, <1>4, <2>1, ResultsAre DEF PipesGood
  <1>26. ShapeOK'
    <2>1. /\ memory' \in [Conns -> {"unborn", "live", "freed"}] /\ ref' \in [Conns -> Int]
          /\ state' \in [Conns -> {"none", "connecting", "receiving", "success", "idle",
                                   "closing", "error"}]
          /\ esession' \in [Conns -> Sessions \cup {None}]
          /\ node' \in [Conns -> Ops \cup {"none"}] /\ partial' \in [Conns -> BOOLEAN]
      BY <1>1, <1>4 DEF ShapeOK, Ops
    <2>2. /\ rconn' \in [Sessions -> Conns \cup {None}]
          /\ rpc' \in [Sessions -> {"none", "retry", "new_conn", "failed"} \cup Using \cup Sent]
      BY <1>1, <1>2, <1>4 DEF ShapeOK, Sent
    <2> QED
      BY <1>3, <1>4, <2>1, <2>2 DEF ShapeOK, sessionVars, deinitVars
  <1>27. RequestFrame(s, e)
    <2>1. \A d \in Conns : d # e => SameHand(d)
      BY <1>3, <1>8 DEF SameHand
    <2>2. rpc[s] \notin Using \cup Sent /\ rpc'[s] \notin Using
      BY <1>2, <1>7 DEF Using, Sent
    <2> QED
      BY <1>3, <1>5, <1>6, <1>7, <1>8, <1>9, <2>1, <2>2 DEF RequestFrame, HandlersStay
  <1> QED
    BY <1>22, <1>23, <1>24, <1>25, <1>26, <1>27, RequestLemma

-----------------------------------------------------------------------------
(* Communicator::deinit *)

LEMMA NumConcat ==
  ASSUME NEW T, NEW p \in Seq(T), NEW q \in Seq(T), NEW S
  PROVE  p \o q \in Seq(T) /\ Num(p \o q, S) = Num(p, S) + Num(q, S)
  <1> DEFINE n == Len(p)
             I == {i \in 1 .. Len(p) : p[i] \in S}
             J == {i \in 1 .. Len(q) : q[i] \in S}
             K == {i \in 1 .. Len(p \o q) : (p \o q)[i] \in S}
             M == {i \in K : i > n}
             f == [j \in J |-> j + n]
  <1>1. /\ n \in Nat /\ Len(q) \in Nat /\ p \o q \in Seq(T) /\ Len(p \o q) = n + Len(q)
        /\ \A i \in 1 .. n : (p \o q)[i] = p[i]
        /\ \A i \in 1 .. Len(q) : (p \o q)[i + n] = q[i]
    OBVIOUS
  <1>2. IsFiniteSet(I) /\ IsFiniteSet(J) /\ IsFiniteSet(K)
    BY <1>1, PlacesFinite
  <1>3. IsFiniteSet(M)
    BY <1>2, FS_Subset
  <1>4. f \in Bijection(J, M)
    <2>1. ASSUME NEW j \in J PROVE j \in Nat /\ j + n \in M
      BY <1>1
    <2>2. f \in [J -> M]
      BY <2>1
    <2>3. \A a, b \in J : f[a] = f[b] => a = b
      BY <1>1, <2>1
    <2>4. ASSUME NEW i \in M PROVE \E j \in J : f[j] = i
      <3>1. i - n \in 1 .. Len(q) /\ (i - n) + n = i
        BY <1>1
      <3>2. i - n \in J
        BY <1>1, <3>1
      <3>3. f[i - n] = i
        BY <3>1, <3>2
      <3> QED
        BY <3>2, <3>3
    <2> HIDE DEF f, J, M
    <2> QED
      BY <2>2, <2>3, <2>4 DEF Bijection, Injection, Surjection, IsInjective, Range
  <1>5. Cardinality(M) = Cardinality(J)
    <2> HIDE DEF f, J, M
    <2>1. ExistsBijection(J, M)
      BY <1>4 DEF ExistsBijection
    <2> QED
      BY <1>2, <2>1, FS_Bijection
  <1>6. K = I \cup M /\ I \cap M = {}
    <2>1. \A i \in 1 .. n : i \in K <=> i \in I
      BY <1>1
    <2>2. \A i \in M : i \notin 1 .. n
      BY <1>1
    <2>3. \A i \in K : i \in 1 .. n \/ i \in M
      BY <1>1
    <2>4. I \subseteq 1 .. n /\ M \subseteq K
      OBVIOUS
    <2> HIDE DEF I, M, K, n
    <2> QED
      BY <2>1, <2>2, <2>3, <2>4
  <1>7. Cardinality(K) = Cardinality(I) + Cardinality(M)
    <2> HIDE DEF I, M, K
    <2>1. Cardinality(I \cup M) = Cardinality(I) + Cardinality(M) - Cardinality(I \cap M)
      BY <1>2, <1>3, FS_Union
    <2>2. Cardinality(I \cap M) = 0
      BY <1>6, FS_EmptySet
    <2>3. Cardinality(I) \in Nat /\ Cardinality(M) \in Nat
      BY <1>2, <1>3, FS_CardinalityType
    <2>4. Cardinality(K) = Cardinality(I \cup M)
      BY <1>6
    <2> QED
      BY <2>1, <2>2, <2>3, <2>4
  <1>8. Num(p \o q, S) = Cardinality(K) /\ Num(p, S) = Cardinality(I) /\ Num(q, S) = Cardinality(J)
    BY DEF Num
  <1> QED
    BY <1>1, <1>5, <1>7, <1>8

LEMMA SetStopFlagStep ==
  ASSUME IInv, SetStopFlag
  PROVE  IInv'
  <1>1. /\ stop_flag' = TRUE /\ UNCHANGED <<entryVars, pollerVars, msgqueue, handlerVars,
                                            requestVars, sessionVars, nonblock>>
    BY DEF SetStopFlag
  <1>2. /\ HandlersStay /\ hsession' = hsession /\ houtcome' = houtcome /\ nonblock' = nonblock
        /\ state' = state /\ ref' = ref /\ esession' = esession /\ emutex' = emutex
        /\ memory' = memory /\ idle_list' = idle_list
        /\ node' = node /\ hand' = hand /\ removed' = removed /\ partial' = partial
        /\ pipe' = pipe /\ stopped' = stopped /\ msgqueue' = msgqueue
        /\ rpc' = rpc /\ rconn' = rconn /\ keep_alive' = keep_alive
        /\ released' = released /\ handled' = handled
    BY <1>1 DEF entryVars, pollerVars, handlerVars, requestVars, sessionVars, HandlersStay
  <1>3. ShapeOK /\ ResultsOK /\ StopOK
    BY DEF IInv
  <1>4. \A d \in Conns : SameHand(d)
    BY <1>2 DEF SameHand
  <1>5. \A d \in Conns : SameTokens(d)
    BY <1>2, <1>3, <1>4, TokensElsewhere
  <1>6. Quiet
    BY <1>2, <1>5 DEF Quiet, HandlersStay, Finishers
  <1>7. \A d \in Conns : HandOK(d)'
    BY <1>2, <1>4, HandKept DEF IInv, EntryOK
  <1>8. ShapeOK'
    BY <1>1, <1>2, <1>3 DEF ShapeOK, HandlersStay
  <1>9. ResultsOK'
    BY <1>2, <1>3 DEF ResultsOK, GoodJob, ItsSession, HandlersStay
  <1>10. StopOK'
    BY <1>1, <1>2, <1>3 DEF StopOK, HandlersStay
  <1> QED
    BY <1>6, <1>7, <1>8, <1>9, <1>10, QuietStep DEF IInv, EntryOK

LEMMA SetNonblockStep ==
  ASSUME IInv, SetNonblock
  PROVE  IInv'
  <1>1. /\ nonblock' = TRUE /\ \A e \in Conns : stopped[e] = "swept"
        /\ \A s \in Sessions : rpc[s] \in {"none", "accepted", "failed"}
        /\ UNCHANGED <<entryVars, pollerVars, msgqueue, handlerVars, requestVars, sessionVars,
                       stop_flag>>
    BY DEF SetNonblock
  <1>2. /\ HandlersStay /\ hsession' = hsession /\ houtcome' = houtcome /\ stop_flag' = stop_flag
        /\ state' = state /\ ref' = ref /\ esession' = esession /\ emutex' = emutex
        /\ memory' = memory /\ idle_list' = idle_list
        /\ node' = node /\ hand' = hand /\ removed' = removed /\ partial' = partial
        /\ pipe' = pipe /\ stopped' = stopped /\ msgqueue' = msgqueue
        /\ rpc' = rpc /\ rconn' = rconn /\ keep_alive' = keep_alive
        /\ released' = released /\ handled' = handled
    BY <1>1 DEF entryVars, pollerVars, handlerVars, requestVars, sessionVars, HandlersStay
  <1>3. ShapeOK /\ ResultsOK /\ StopOK
    BY DEF IInv
  <1>4. \A d \in Conns : SameHand(d)
    BY <1>2 DEF SameHand
  <1>5. \A d \in Conns : SameTokens(d)
    BY <1>2, <1>3, <1>4, TokensElsewhere
  <1>6. Quiet
    BY <1>2, <1>5 DEF Quiet, HandlersStay, Finishers
  <1>7. \A d \in Conns : HandOK(d)'
    BY <1>2, <1>4, HandKept DEF IInv, EntryOK
  <1>8. ShapeOK'
    BY <1>1, <1>2, <1>3 DEF ShapeOK, HandlersStay
  <1>9. ResultsOK'
    BY <1>2, <1>3 DEF ResultsOK, GoodJob, ItsSession, HandlersStay
  <1>10. StopOK'
    BY <1>1, <1>2, <1>3 DEF StopOK, HandlersStay
  <1> QED
    BY <1>6, <1>7, <1>8, <1>9, <1>10, QuietStep DEF IInv, EntryOK

LEMMA JoinPollerStep ==
  ASSUME IInv, NEW e \in Conns, JoinPoller(e)
  PROVE  IInv'
  <1>1. /\ stop_flag /\ stopped[e] = "running" /\ hand[e] = "none"
        /\ stopped' = [stopped EXCEPT ![e] = "stopped"]
        /\ UNCHANGED <<entryVars, node, hand, removed, partial, pipe, msgqueue,
                       handlerVars, requestVars, sessionVars, deinitVars>>
    BY DEF JoinPoller
  <1>2. /\ HandlersStay /\ hsession' = hsession /\ houtcome' = houtcome
        /\ stop_flag' = stop_flag /\ nonblock' = nonblock
        /\ state' = state /\ ref' = ref /\ esession' = esession /\ emutex' = emutex
        /\ memory' = memory /\ idle_list' = idle_list
        /\ node' = node /\ hand' = hand /\ removed' = removed /\ partial' = partial
        /\ pipe' = pipe /\ msgqueue' = msgqueue
        /\ rpc' = rpc /\ rconn' = rconn /\ keep_alive' = keep_alive
        /\ released' = released /\ handled' = handled
    BY <1>1 DEF entryVars, handlerVars, requestVars, sessionVars, deinitVars, HandlersStay
  <1>3. ShapeOK /\ ResultsOK /\ StopOK
    BY DEF IInv
  <1>4. /\ stopped' \in [Conns -> {"running", "stopped", "swept"}] /\ stopped'[e] = "stopped"
        /\ \A d \in Conns : d # e => stopped'[d] = stopped[d]
    BY <1>1, <1>3 DEF ShapeOK
  <1>5. ASSUME NEW d \in Conns PROVE SameTokens(d)
    <2>1. \A op \in Ops :
            B(node'[d] = op) + Num(pipe'[d], Ends(d, op)) + Num(msgqueue', Ends(d, op))
               = B(node[d] = op) + Num(pipe[d], Ends(d, op)) + Num(msgqueue, Ends(d, op))
      BY <1>2
    <2> QED
      BY <1>2, <1>3, <2>1, TokensFrom
  <1>6. Quiet
    BY <1>2, <1>5 DEF Quiet, HandlersStay, Finishers
  <1>7. ASSUME NEW d \in Conns PROVE HandOK(d)'
    <2>1. HandOK(d)
      BY DEF IInv, EntryOK
    <2>2. CASE d = e
      BY <1>1, <1>2, <1>4, <2>1, <2>2 DEF HandOK
    <2>3. CASE d # e
      BY <1>2, <1>4, <2>1, <2>3, HandKept DEF SameHand
    <2> QED
      BY <2>2, <2>3
  <1>8. ShapeOK'
    BY <1>2, <1>3, <1>4 DEF ShapeOK, HandlersStay
  <1>9. ResultsOK'
    BY <1>2, <1>3 DEF ResultsOK, GoodJob, ItsSession, HandlersStay
  <1>10. StopOK'
    <2>1. ~nonblock
      BY <1>1, <1>3 DEF StopOK
    <2>2. \A d \in Conns : stopped'[d] # "running" => stop_flag'
      BY <1>1, <1>2
    <2>3. \A d \in Conns : stopped'[d] = "swept" => stopped[d] = "swept"
      BY <1>4
    <2> QED
      BY <1>2, <1>3, <2>1, <2>2, <2>3 DEF StopOK, HandlersStay
  <1> QED
    BY <1>6, <1>7, <1>8, <1>9, <1>10, QuietStep DEF IInv, EntryOK

(* What is left in the pipe and the node that is armed become results.      *)
LEMMA SweepPollerStep ==
  ASSUME IInv, NEW e \in Conns, SweepPoller(e)
  PROVE  IInv'
  <1>1. PICK q : q = msgqueue \o pipe[e]
    OBVIOUS
  <1>2. PICK res : res = Result(node[e], "STOPPED", e)
    OBVIOUS
  <1>3. /\ stopped[e] = "stopped" /\ stopped' = [stopped EXCEPT ![e] = "swept"]
        /\ pipe' = [pipe EXCEPT ![e] = <<>>] /\ node' = [node EXCEPT ![e] = "none"]
        /\ msgqueue' = q \o (IF node[e] = "none" THEN <<>> ELSE <<res>>)
        /\ UNCHANGED <<entryVars, hand, removed, partial, handlerVars, requestVars,
                       sessionVars, deinitVars>>
    BY <1>1, <1>2 DEF SweepPoller
  <1>4. /\ HandlersStay /\ hsession' = hsession /\ houtcome' = houtcome
        /\ stop_flag' = stop_flag /\ nonblock' = nonblock
        /\ state' = state /\ ref' = ref /\ esession' = esession /\ emutex' = emutex
        /\ memory' = memory /\ idle_list' = idle_list
        /\ hand' = hand /\ removed' = removed /\ partial' = partial
        /\ rpc' = rpc /\ rconn' = rconn /\ keep_alive' = keep_alive
        /\ released' = released /\ handled' = handled
    BY <1>3 DEF entryVars, handlerVars, requestVars, sessionVars, deinitVars, HandlersStay
  <1>5. ShapeOK /\ ResultsOK /\ StopOK /\ HandOK(e)
    BY DEF IInv, EntryOK
  <1>6. msgqueue \in Seq(Res) /\ pipe[e] \in Seq(Res) /\ node[e] \in Ops \cup {"none"}
    BY <1>5 DEF ShapeOK
  <1>7. q \in Seq(Res) /\ \A S : Num(q, S) = Num(msgqueue, S) + Num(pipe[e], S)
    BY <1>1, <1>6, NumConcat
  <1>8. node[e] # "none" => /\ res \in Res /\ GoodResult(res) /\ res.conn = e /\ res.op = node[e]
                            /\ IsEnd(res) /\ ~IsSuccess(res) /\ res.st = "STOPPED"
    BY <1>2, <1>6, ResultIs
  <1>9. /\ msgqueue' \in Seq(Res)
        /\ \A S : Num(msgqueue', S) = Num(q, S) + B(node[e] # "none" /\ res \in S)
    <2>1. CASE node[e] = "none"
      <3>1. msgqueue' = q
        BY <1>3, <1>7, <2>1
      <3>2. \A S : Num(q, S) \in Nat
        BY <1>7, NumPositive
      <3> QED
        BY <1>7, <2>1, <3>1, <3>2 DEF B
    <2>2. CASE node[e] # "none"
      <3>1. msgqueue' = Append(q, res)
        BY <1>3, <1>7, <1>8, <2>2
      <3>2. \A S : Num(msgqueue', S) = Num(q, S) + B(res \in S)
        BY <1>7, <1>8, <2>2, <3>1, NumAppend
      <3> QED
        BY <1>7, <1>8, <2>2, <3>1, <3>2 DEF B
    <2> QED
      BY <2>1, <2>2
  <1>10. \A m \in Res : m.conn = e /\ m.st \in {"DELETED", "MODIFIED"} => ~IsSuccess(m)
    BY DEF IsSuccess
  <1>11. \A i \in 1 .. Len(pipe[e]) : pipe[e][i] \in Res /\ FromPipe(pipe[e][i], e)
    BY <1>5, <1>6 DEF ResultsOK
  <1>12. ASSUME NEW d \in Conns
         PROVE  /\ Num(pipe[e], Completes(d)) = 0
                /\ d # e => \A op \in Ops : Num(pipe[e], Ends(d, op)) = 0
    <2>1. Num(pipe[e], Completes(d)) \in Nat /\ ~(Num(pipe[e], Completes(d)) > 0)
      <3>1. \A i \in 1 .. Len(pipe[e]) : pipe[e][i] \notin Completes(d)
        BY <1>10, <1>11, EndsIs DEF FromPipe
      <3> QED
        BY <1>5, <3>1, PipeNum
    <2>2. ASSUME d # e, NEW op \in Ops
          PROVE  Num(pipe[e], Ends(d, op)) \in Nat /\ ~(Num(pipe[e], Ends(d, op)) > 0)
      <3>1. \A i \in 1 .. Len(pipe[e]) : pipe[e][i] \notin Ends(d, op)
        BY <1>11, <2>2, EndsIs DEF FromPipe
      <3> QED
        BY <1>5, <3>1, PipeNum
    <2> QED
      BY <2>1, <2>2
  <1>13. ASSUME NEW d \in Conns, NEW op \in Ops
         PROVE  /\ ~(node[e] # "none" /\ res \in Completes(d))
                /\ node[e] # "none" /\ res \in Ends(d, op) <=> d = e /\ node[e] = op
    <2>1. node[e] # "none" => (res \in Ends(d, op) <=> d = e /\ node[e] = op)
      BY <1>8, EndsIs
    <2>2. node[e] # "none" => res \notin Completes(d)
      BY <1>8, EndsIs
    <2> QED
      BY <2>1, <2>2 DEF Ops
  <1>14. /\ node' \in [Conns -> Ops \cup {"none"}] /\ node'[e] = "none"
         /\ pipe' \in [Conns -> Seq(Res)] /\ pipe'[e] = <<>>
         /\ stopped' \in [Conns -> {"running", "stopped", "swept"}] /\ stopped'[e] = "swept"
    BY <1>3, <1>5 DEF ShapeOK
  <1>15. \A d \in Conns : d # e => node'[d] = node[d] /\ pipe'[d] = pipe[d] /\ stopped'[d] = stopped[d]
    BY <1>3, <1>5 DEF ShapeOK
  <1>16. ASSUME NEW d \in Conns PROVE SameTokens(d)
    <2>1. Num(msgqueue', Completes(d)) = Num(msgqueue, Completes(d))
      <3>1. PICK x \in Nat : x = Num(msgqueue, Completes(d))
        BY <1>5, QueueNum
      <3>2. Num(q, Completes(d)) = x + 0
        BY <1>7, <1>12, <3>1
      <3>3. B(node[e] # "none" /\ res \in Completes(d)) = 0
        BY <1>13 DEF B, Ops
      <3>4. Num(msgqueue', Completes(d)) = (x + 0) + 0
        BY <1>9, <3>2, <3>3
      <3> QED
        BY <3>1, <3>4
    <2>2. ASSUME NEW op \in Ops
          PROVE  B(node'[d] = op) + Num(pipe'[d], Ends(d, op)) + Num(msgqueue', Ends(d, op))
                    = B(node[d] = op) + Num(pipe[d], Ends(d, op)) + Num(msgqueue, Ends(d, op))
      <3>1. PICK x \in Nat, y \in Nat, z \in Nat, r \in {0, 1} :
               /\ x = Num(msgqueue, Ends(d, op)) /\ y = Num(pipe[e], Ends(d, op))
               /\ z = Num(pipe[d], Ends(d, op)) /\ r = B(node[d] = op)
        BY <1>5, QueueNum, PipeNum, BOK
      <3>2. PICK t \in {0, 1} : t = B(node[e] # "none" /\ res \in Ends(d, op))
        BY BOK
      <3>3. Num(msgqueue', Ends(d, op)) = x + y + t
        BY <1>7, <1>9, <3>1, <3>2
      <3>4. CASE d = e
        <4>1. Num(pipe'[d], Ends(d, op)) = 0
          BY <1>14, <3>4, NumEmpty
        <4>2. B(node'[d] = op) = 0
          BY <1>14, <3>4 DEF B, Ops
        <4>3. t = r /\ z = y
          BY <1>13, <3>1, <3>2, <3>4 DEF B
        <4> QED
          BY <3>1, <3>3, <4>1, <4>2, <4>3
      <3>5. CASE d # e
        <4>1. y = 0
          BY <1>12, <3>1, <3>5
        <4>2. t = 0
          BY <1>13, <3>2, <3>5 DEF B
        <4>3. Num(pipe'[d], Ends(d, op)) = z /\ B(node'[d] = op) = r
          BY <1>15, <3>1, <3>5
        <4> QED
          BY <3>1, <3>3, <4>1, <4>2, <4>3
      <3> QED
        BY <3>4, <3>5
    <2>3. HandlersStay /\ hand' = hand
      BY <1>4
    <2> QED
      BY <1>5, <2>1, <2>2, <2>3, TokensFrom
  <1>17. Quiet
    BY <1>4, <1>16 DEF Quiet, HandlersStay, Finishers
  <1>18. ASSUME NEW d \in Conns PROVE HandOK(d)'
    <2>1. HandOK(d)
      BY DEF IInv, EntryOK
    <2>2. CASE d = e
      <3>1. hand[e] = "none" /\ ~removed[e]
        BY <1>3, <1>5 DEF HandOK
      <3> QED
        BY <1>4, <1>14, <2>1, <2>2, <3>1 DEF HandOK
    <2>3. CASE d # e
      BY <1>4, <1>15, <2>1, <2>3, HandKept DEF SameHand
    <2> QED
      BY <2>2, <2>3
  <1>19. ShapeOK'
    BY <1>4, <1>5, <1>9, <1>14 DEF ShapeOK, HandlersStay
  <1>20. ResultsOK'
    <2>2. ASSUME NEW i \in 1 .. Len(msgqueue')
          PROVE  GoodResult(msgqueue'[i]) /\ (msgqueue'[i].st = "SUCCESS"
                    => msgqueue'[i].for = esession[msgqueue'[i].conn])
      <3>1. \/ \E k \in 1 .. Len(msgqueue) : msgqueue'[i] = msgqueue[k]
            \/ \E k \in 1 .. Len(pipe[e]) : msgqueue'[i] = pipe[e][k]
            \/ node[e] # "none" /\ msgqueue'[i] = res
        <4>1. /\ Len(q) = Len(msgqueue) + Len(pipe[e])
              /\ Len(msgqueue) \in Nat /\ Len(pipe[e]) \in Nat
              /\ \A k \in 1 .. Len(msgqueue) : q[k] = msgqueue[k]
              /\ \A k \in 1 .. Len(pipe[e]) : q[k + Len(msgqueue)] = pipe[e][k]
          BY <1>1, <1>6
        <4>2. \/ i \in 1 .. Len(q) /\ msgqueue'[i] = q[i]
              \/ node[e] # "none" /\ msgqueue'[i] = res
          <5>1. CASE node[e] = "none"
            <6>1. msgqueue' = q
              BY <1>3, <1>7, <5>1
            <6> QED
              BY <6>1
          <5>2. CASE node[e] # "none"
            <6>1. msgqueue' = Append(q, res)
              BY <1>3, <1>7, <1>8, <5>2
            <6> QED
              BY <1>7, <1>8, <5>2, <6>1
          <5> QED
            BY <5>1, <5>2
        <4>3. ASSUME i \in 1 .. Len(q), i \notin 1 .. Len(msgqueue)
              PROVE  /\ i - Len(msgqueue) \in 1 .. Len(pipe[e])
                     /\ (i - Len(msgqueue)) + Len(msgqueue) = i
          BY <4>1, <4>3
        <4> QED
          BY <4>1, <4>2, <4>3
      <3>2. \A k \in 1 .. Len(msgqueue) :
               GoodResult(msgqueue[k]) /\ (msgqueue[k].st = "SUCCESS"
                  => msgqueue[k].for = esession[msgqueue[k].conn])
        BY <1>5 DEF ResultsOK, ItsSession
      <3>3. \A k \in 1 .. Len(pipe[e]) : GoodResult(pipe[e][k]) /\ pipe[e][k].st # "SUCCESS"
        BY <1>11 DEF FromPipe
      <3>4. node[e] # "none" => GoodResult(res) /\ res.st # "SUCCESS"
        BY <1>8
      <3> QED
        BY <3>1, <3>2, <3>3, <3>4
    <2>3. \A d \in Conns : \A i \in 1 .. Len(pipe'[d]) : FromPipe(pipe'[d][i], d)
      <3>1. \A d \in Conns : \A i \in 1 .. Len(pipe[d]) : FromPipe(pipe[d][i], d)
        BY <1>5 DEF ResultsOK
      <3>2. Len(pipe'[e]) = 0
        BY <1>14
      <3>3. \A d \in Conns : d # e => pipe'[d] = pipe[d]
        BY <1>15
      <3>4. ASSUME NEW d \in Conns, d # e
            PROVE  \A i \in 1 .. Len(pipe'[d]) : FromPipe(pipe'[d][i], d)
        BY ONLY <3>1, <3>3, <3>4, d \in Conns
      <3>5. \A i \in 1 .. Len(pipe'[e]) : FromPipe(pipe'[e][i], e)
        BY <3>2
      <3> QED
        BY <3>4, <3>5
    <2>4. \A g \in Handlers : GoodJob(g)'
      BY <1>4, <1>5 DEF ResultsOK, GoodJob, ItsSession, HandlersStay
    <2>5. \A i \in 1 .. Len(msgqueue') : GoodResult(msgqueue'[i]) /\ (ItsSession(msgqueue[i]))'
      BY <1>4, <2>2 DEF ItsSession
    <2> QED
      BY <2>3, <2>4, <2>5 DEF ResultsOK
  <1>21. StopOK'
    <2>1. ~nonblock
      BY <1>3, <1>5 DEF StopOK
    <2>2. stop_flag
      BY <1>3, <1>5 DEF StopOK
    <2>3. ~(\A h \in Handlers : hpc[h] = "exit")
      BY <1>5, <2>1, ClientAssumption DEF StopOK
    <2>4. \A d \in Conns : stopped'[d] = "swept" /\ node'[d] \in {"read", "write"}
                              => stopped[d] = "swept" /\ node[d] \in {"read", "write"}
      BY <1>14, <1>15
    <2> QED
      BY <1>4, <1>5, <2>1, <2>2, <2>3, <2>4 DEF StopOK, HandlersStay
  <1> QED
    BY <1>17, <1>18, <1>19, <1>20, <1>21, QuietStep DEF IInv, EntryOK

-----------------------------------------------------------------------------
(* The invariant *)

LEMMA InitOK ==
  ASSUME Init
  PROVE  IInv
  <1>1. ShapeOK
    <2>1. NoResult \in Res
      BY DEF NoResult, Res
    <2>2. /\ idle_list \in Seq(Conns) /\ msgqueue \in Seq(Res) /\ pipe \in [Conns -> Seq(Res)]
      BY DEF Init
    <2>3. /\ hres \in [Handlers -> Res] /\ hsession \in [Handlers -> Sessions \cup {None}]
          /\ hpc \in [Handlers -> {"get", "stopcheck", "unlock", "exit"} \cup Ops \cup Letting]
          /\ houtcome \in [Handlers -> {"none", "success", "error", "stopped"}]
      BY <2>1 DEF Init
    <2>4. /\ rpc \in [Sessions -> {"none", "retry", "new_conn", "failed"} \cup Using \cup Sent]
          /\ rconn \in [Sessions -> Conns \cup {None}] /\ keep_alive \in [Sessions -> BOOLEAN]
          /\ released \in [Sessions -> Int] /\ handled \in [Sessions -> Int]
      BY DEF Init
    <2>5. /\ state \in [Conns -> {"none", "connecting", "receiving", "success", "idle", "closing",
                                  "error"}]
          /\ ref \in [Conns -> Int] /\ esession \in [Conns -> Sessions \cup {None}]
          /\ emutex \in [Conns -> Sessions \cup Handlers \cup {None}]
          /\ memory \in [Conns -> {"unborn", "live", "freed"}]
      BY DEF Init
    <2>6. /\ node \in [Conns -> Ops \cup {"none"}]
          /\ hand \in [Conns -> {"none", "read", "append", "create", "success"}]
          /\ removed \in [Conns -> BOOLEAN] /\ partial \in [Conns -> BOOLEAN]
          /\ stopped \in [Conns -> {"running", "stopped", "swept"}]
      BY DEF Init
    <2>7. stop_flag \in BOOLEAN /\ nonblock \in BOOLEAN
      BY DEF Init
    <2> QED
      BY <2>2, <2>3, <2>4, <2>5, <2>6, <2>7 DEF ShapeOK
  <1>2. \A h \in Handlers : hpc[h] = "get"
    BY DEF Init
  <1>3. ASSUME NEW e \in Conns
        PROVE  /\ \A op \in Ops : Ending(e, op) = 0 /\ Held(e, op) = 0
               /\ Complete(e) = 0
    <2>1. node[e] = "none" /\ hand[e] = "none" /\ pipe[e] = <<>> /\ msgqueue = <<>>
      BY DEF Init
    <2>2. \A S : JNum(S, {"read"}) = 0 /\ JNum(S, Letting) = 0
      <3>1. ASSUME NEW S, NEW P, "get" \notin P PROVE JNum(S, P) = 0
        <4>1. JNum(S, P) \in Nat /\ ~(JNum(S, P) > 0)
          BY <1>2, <3>1, JNumPositive
        <4> QED
          BY <4>1
      <3>2. "get" \notin {"read"} /\ "get" \notin Letting
        BY DEF Letting
      <3> QED
        BY <3>1, <3>2
    <2>3. ASSUME NEW op \in Ops PROVE Ending(e, op) = 0 /\ Held(e, op) = 0
      <3>1. B(node[e] = op) = 0
        BY <2>1 DEF B, Ops
      <3>2. Num(pipe[e], Ends(e, op)) = 0 /\ Num(msgqueue, Ends(e, op)) = 0
        BY <2>1, NumEmpty
      <3>3. JNum(Ends(e, op), {op}) = 0
        <4>1. /\ JNum(Ends(e, op), {op}) \in Nat
              /\ ~(JNum(Ends(e, op), {op}) > 0)
          BY <1>2, JNumPositive DEF Ops
        <4> QED
          BY <4>1
      <3> QED
        BY <2>2, <3>1, <3>2, <3>3 DEF Ending, Held
    <2>4. B(hand[e] = "success") = 0 /\ Num(msgqueue, Completes(e)) = 0
      BY <2>1, NumEmpty DEF B
    <2> QED
      BY <2>2, <2>3, <2>4 DEF Complete
  <1>4. ASSUME NEW e \in Conns PROVE EntryOK(e) /\ ~Idle(e)
    <2>1. /\ Ending(e, "connect") = 0 /\ Ending(e, "read") = 0 /\ Ending(e, "write") = 0
          /\ Held(e, "connect") = 0 /\ Held(e, "read") = 0 /\ Held(e, "write") = 0
          /\ Complete(e) = 0
      BY <1>3 DEF Ops
    <2>2. /\ state[e] = "none" /\ memory[e] = "unborn" /\ hand[e] = "none" /\ emutex[e] = None
          /\ removed[e] = FALSE /\ partial[e] = FALSE /\ stopped[e] = "running"
      BY DEF Init
    <2>3. RefOK(e)
      BY <2>1, <2>2 DEF RefOK, Tokens
    <2>4. StateOK(e)
      BY <2>1, <2>2 DEF StateOK
    <2>5. HandOK(e)
      BY <2>2 DEF HandOK
    <2>6. UseOK(e)
      BY <2>2, Names DEF UseOK
    <2>7. OwnerOK(e) /\ ~Idle(e)
      BY <2>1 DEF OwnerOK, Awaiting, Idle
    <2> QED
      BY <2>3, <2>4, <2>5, <2>6, <2>7 DEF EntryOK
  <1>5. ResultsOK
    BY <1>2 DEF Init, ResultsOK, GoodJob, Ops, Letting
  <1>6. LockOK
    BY <1>2 DEF Init, LockOK, Using
  <1>7. ListOK
    <2>1. IsInjective(idle_list) /\ \A e \in Conns : e \notin ToSet(idle_list)
      BY DEF Init, IsInjective, ToSet
    <2> QED
      BY <1>4, <2>1 DEF ListOK
  <1>8. StopOK
    BY <1>2 DEF Init, StopOK
  <1>9. ASSUME NEW s \in Sessions PROVE SessionOK(s)
    <2>1. Finishers(s) = {}
      BY <1>2 DEF Finishers
    <2>2. Cardinality(Finishers(s)) = 0
      BY <2>1, FS_EmptySet
    <2>3. handled[s] = 0 /\ released[s] = 0 /\ rpc[s] = "none"
      BY DEF Init
    <2>4. Told(s) = 0
      BY <2>2, <2>3 DEF Told
    <2> QED
      BY <2>3, <2>4 DEF SessionOK, Waits, Sent
  <1> QED
    BY <1>1, <1>4, <1>5, <1>6, <1>7, <1>8, <1>9 DEF IInv

LEMMA PollerKeeps ==
  ASSUME IInv, NEW e \in Conns, Poller(e)
  PROVE  IInv'
  BY ConnectOrWriteEventStep, ReadEventStep, ReadAgainStep, ReadEndsStep, ReadBytesStep,
     CreateReplyWaitedStep, AppendPartStep, AppendErrorStep, AppendCompleteStep,
     PollerSuccessStep, HandlePipeStep DEF Poller

LEMMA HandlerKeeps ==
  ASSUME IInv, NEW h \in Handlers, Handler(h)
  PROVE  IInv'
  BY TakeResultStep, HandlerExitStep, ConnectedStep, ConnectFailedStep, RequestSentStep,
     RequestFailedStep, StopCheckStep, ReadModifiedStep, ReplyCompleteStep, ReplyEndStep,
     ReplyEndUnlockStep, FinishStep, UnrefStep DEF Handler

LEMMA RequestKeeps ==
  ASSUME IInv, NEW s \in Sessions, RequestStep(s)
  PROVE  IInv'
  BY TakeIdleStep, SetTimeoutStep, SendOnIdleStep, RequestUnlockStep, NewConnStep,
     NewConnFailsStep DEF RequestStep

LEMMA DeinitKeeps ==
  ASSUME IInv, Deinit
  PROVE  IInv'
  BY SetStopFlagStep, SetNonblockStep, JoinPollerStep, SweepPollerStep DEF Deinit

LEMMA NothingKeeps ==
  ASSUME IInv, UNCHANGED vars
  PROVE  IInv'
  <1>1. /\ HandlersStay /\ hsession' = hsession /\ houtcome' = houtcome
        /\ stop_flag' = stop_flag /\ nonblock' = nonblock
        /\ state' = state /\ ref' = ref /\ esession' = esession /\ emutex' = emutex
        /\ memory' = memory /\ idle_list' = idle_list
        /\ node' = node /\ hand' = hand /\ removed' = removed /\ partial' = partial
        /\ pipe' = pipe /\ stopped' = stopped /\ msgqueue' = msgqueue
        /\ rpc' = rpc /\ rconn' = rconn /\ keep_alive' = keep_alive
        /\ released' = released /\ handled' = handled
    BY DEF vars, entryVars, pollerVars, handlerVars, requestVars, sessionVars, deinitVars,
           HandlersStay
  <1>2. ShapeOK /\ ResultsOK /\ StopOK
    BY DEF IInv
  <1>3. \A d \in Conns : SameHand(d)
    BY <1>1 DEF SameHand
  <1>4. \A d \in Conns : SameTokens(d)
    BY <1>1, <1>2, <1>3, TokensElsewhere
  <1>5. Quiet
    BY <1>1, <1>4 DEF Quiet, HandlersStay, Finishers
  <1>6. \A d \in Conns : HandOK(d)'
    BY <1>1, <1>3, HandKept DEF IInv, EntryOK
  <1>7. ShapeOK'
    BY <1>1, <1>2 DEF ShapeOK, HandlersStay
  <1>8. ResultsOK'
    BY <1>1, <1>2 DEF ResultsOK, GoodJob, ItsSession, HandlersStay
  <1>9. StopOK'
    BY <1>1, <1>2 DEF StopOK, HandlersStay
  <1> QED
    BY <1>5, <1>6, <1>7, <1>8, <1>9, QuietStep DEF IInv, EntryOK

(* The entry's references, its state, what the poller's thread has in hand, *)
(* its mutex, the idle list and the session it is for fit together in every *)
(* reachable state of the client side (Communicator.cc:567-645, 723-770,    *)
(* 867-926, 986-1105, 1228-1236, 1259-1405).                                *)
THEOREM Invariant == Spec => []IInv
  <1>1. Init => IInv
    BY InitOK
  <1>2. IInv /\ [Next]_vars => IInv'
    BY PollerKeeps, HandlerKeeps, RequestKeeps, DeinitKeeps, NothingKeeps DEF Next
  <1> QED
    BY <1>1, <1>2, PTL DEF Spec

-----------------------------------------------------------------------------
(* What the properties count *)

LEMMA CardDisjoint ==
  ASSUME NEW S, NEW T, IsFiniteSet(S), IsFiniteSet(T), \A x \in S : x \notin T
  PROVE  /\ IsFiniteSet(S \cup T) /\ Cardinality(S) \in Nat /\ Cardinality(T) \in Nat
         /\ Cardinality(S \cup T) = Cardinality(S) + Cardinality(T)
  <1>1. Cardinality(S \cup T) = Cardinality(S) + Cardinality(T) - Cardinality(S \cap T)
    BY FS_Union
  <1>2. S \cap T = {}
    OBVIOUS
  <1>3. Cardinality(S \cap T) = 0
    BY <1>2, FS_EmptySet
  <1>4. Cardinality(S) \in Nat /\ Cardinality(T) \in Nat
    BY FS_CardinalityType
  <1> QED
    BY <1>1, <1>3, <1>4, FS_Union

LEMMA NumDisjoint ==
  ASSUME NEW T, NEW q \in Seq(T), NEW R, NEW S, \A x \in R : x \notin S
  PROVE  Num(q, R \cup S) = Num(q, R) + Num(q, S)
  <1>1. PICK I : I = {i \in 1 .. Len(q) : q[i] \in R}
    OBVIOUS
  <1>2. PICK J : J = {i \in 1 .. Len(q) : q[i] \in S}
    OBVIOUS
  <1>3. {i \in 1 .. Len(q) : q[i] \in R \cup S} = I \cup J
    BY <1>1, <1>2
  <1>4. IsFiniteSet(I) /\ IsFiniteSet(J)
    BY <1>1, <1>2, PlacesFinite
  <1>5. \A x \in I : x \notin J
    BY <1>1, <1>2
  <1>6. Cardinality(I \cup J) = Cardinality(I) + Cardinality(J)
    BY <1>4, <1>5, CardDisjoint
  <1> QED
    BY <1>1, <1>2, <1>3, <1>6 DEF Num

(* In a queue, the ends and the complete replies of a connection. *)
LEMMA QueueCounts ==
  ASSUME NEW q \in Seq(Res), \A i \in 1 .. Len(q) : GoodResult(q[i]), NEW e
  PROVE  /\ Cardinality(EndsIn(q, e))
                = Num(q, Ends(e, "connect")) + Num(q, Ends(e, "read")) + Num(q, Ends(e, "write"))
         /\ Cardinality(SuccessesIn(q, e)) = Num(q, Completes(e))
  <1>1. PICK C, R, W : C = Ends(e, "connect") /\ R = Ends(e, "read") /\ W = Ends(e, "write")
    OBVIOUS
  <1>2. (\A x \in C : x \notin R) /\ (\A x \in C \cup R : x \notin W)
    BY <1>1 DEF Ends
  <1>3. Num(q, (C \cup R) \cup W) = (Num(q, C) + Num(q, R)) + Num(q, W)
    <2>1. Num(q, C \cup R) = Num(q, C) + Num(q, R)
      BY <1>2, NumDisjoint
    <2>2. Num(q, (C \cup R) \cup W) = Num(q, C \cup R) + Num(q, W)
      BY <1>2, NumDisjoint
    <2> QED
      BY <2>1, <2>2
  <1>4. \A i \in 1 .. Len(q) : q[i] \in Res /\ q[i].op \in Ops
    BY DEF GoodResult
  <1>5. \A i \in 1 .. Len(q) : q[i] \in (C \cup R) \cup W <=> q[i].conn = e /\ IsEnd(q[i])
    BY <1>1, <1>4 DEF Ends, Ops
  <1>6. EndsIn(q, e) = {i \in 1 .. Len(q) : q[i] \in (C \cup R) \cup W}
    BY <1>5 DEF EndsIn
  <1>7. \A i \in 1 .. Len(q) : q[i] \in Completes(e) <=> q[i].conn = e /\ IsSuccess(q[i])
    BY DEF Completes, IsSuccess, GoodResult
  <1>8. SuccessesIn(q, e) = {i \in 1 .. Len(q) : q[i] \in Completes(e)}
    BY <1>7 DEF SuccessesIn
  <1> QED
    BY <1>1, <1>3, <1>6, <1>8 DEF Num

(* In the hands of handlers. *)
LEMMA HandCounts ==
  ASSUME IInv, NEW e \in Conns
  PROVE  /\ Cardinality({h \in Busy(e) : IsEnd(hres[h])})
                + Cardinality({h \in Busy(e) : IsSuccess(hres[h])})
              = JNum(Ends(e, "connect"), {"connect"}) + JNum(Ends(e, "read"), {"read"})
                + JNum(Ends(e, "write"), {"write"}) + JNum(Completes(e), {"read"})
                + Held(e, "connect") + Held(e, "read") + Held(e, "write")
         /\ Cardinality({h \in Busy(e) : IsEnd(hres[h])}) \in Nat
         /\ Cardinality({h \in Busy(e) : IsSuccess(hres[h])}) \in Nat
         /\ JNum(Completes(e), {"read"}) > 0
               => Cardinality({h \in Busy(e) : IsSuccess(hres[h])}) > 0
  <1> DEFINE E == {h \in Busy(e) : IsEnd(hres[h])}
             S == {h \in Busy(e) : IsSuccess(hres[h])}
             C1 == Jobs(Ends(e, "connect"), {"connect"})
             R1 == Jobs(Ends(e, "read"), {"read"})
             W1 == Jobs(Ends(e, "write"), {"write"})
             K == Jobs(Completes(e), {"read"})
             C2 == Jobs(OfEntry(e, "connect"), Letting)
             R2 == Jobs(OfEntry(e, "read"), Letting)
             W2 == Jobs(OfEntry(e, "write"), Letting)
  <1>1. ShapeOK /\ \A h \in Handlers : GoodJob(h) /\ hres[h] \in Res
    BY DEF IInv, ResultsOK, ShapeOK
  <1>2. ASSUME NEW h \in Handlers
        PROVE  /\ h \in E <=> /\ hres[h].conn = e /\ hpc[h] \in Ops \cup Letting
                              /\ IsEnd(hres[h])
               /\ h \in S <=> /\ hres[h].conn = e /\ hpc[h] \in Ops \cup Letting
                              /\ IsSuccess(hres[h])
    BY DEF Busy, Ops, Letting
  <1>3. ASSUME NEW h \in Handlers
        PROVE  /\ h \in C1 <=> hpc[h] = "connect" /\ hres[h].op = "connect" /\ hres[h].conn = e /\ IsEnd(hres[h])
               /\ h \in R1 <=> hpc[h] = "read" /\ hres[h].op = "read" /\ hres[h].conn = e /\ IsEnd(hres[h])
               /\ h \in W1 <=> hpc[h] = "write" /\ hres[h].op = "write" /\ hres[h].conn = e /\ IsEnd(hres[h])
               /\ h \in K <=> hpc[h] = "read" /\ hres[h].op = "read" /\ hres[h].conn = e /\ IsSuccess(hres[h])
               /\ h \in C2 <=> hpc[h] \in Letting /\ hres[h].op = "connect" /\ hres[h].conn = e
               /\ h \in R2 <=> hpc[h] \in Letting /\ hres[h].op = "read" /\ hres[h].conn = e
               /\ h \in W2 <=> hpc[h] \in Letting /\ hres[h].op = "write" /\ hres[h].conn = e
    BY <1>1, EndsIs DEF Jobs
  <1>4. /\ E \subseteq Handlers /\ S \subseteq Handlers /\ C1 \subseteq Handlers
        /\ R1 \subseteq Handlers /\ W1 \subseteq Handlers /\ K \subseteq Handlers
        /\ C2 \subseteq Handlers /\ R2 \subseteq Handlers /\ W2 \subseteq Handlers
    BY DEF Jobs, Busy
  <1>5. \A X : X \subseteq Handlers => IsFiniteSet(X)
    BY ClientAssumption, FS_Subset
  <1>6. ASSUME NEW h \in Handlers
        PROVE  /\ hpc[h] \in Ops => hres[h].op = hpc[h]
               /\ hpc[h] \in Ops /\ ~IsEnd(hres[h]) /\ IsSuccess(hres[h]) => hpc[h] = "read"
               /\ hpc[h] \in Letting => /\ hres[h].op \in Ops
                                        /\ IsEnd(hres[h]) \/ IsSuccess(hres[h])
               /\ IsEnd(hres[h]) => ~IsSuccess(hres[h])
    BY <1>1 DEF GoodJob, GoodResult, IsEnd, IsSuccess, Ops
  <1>7. ASSUME NEW h \in Handlers
        PROVE  /\ h \in E \cup S <=> h \in C1 \cup R1 \cup W1 \cup K \cup C2 \cup R2 \cup W2
               /\ h \in E => h \notin S
    <2> HIDE DEF E, S, C1, R1, W1, K, C2, R2, W2
    <2>1. h \in E => h \notin S
      BY <1>2, <1>6
    <2>2. CASE hpc[h] \in Ops
      BY <1>2, <1>3, <1>6, <2>1, <2>2 DEF Ops, Letting
    <2>3. CASE hpc[h] \in Letting
      BY <1>2, <1>3, <1>6, <2>1, <2>3 DEF Ops, Letting
    <2>4. CASE hpc[h] \notin Ops \cup Letting
      BY <1>2, <1>3, <2>1, <2>4 DEF Ops
    <2> QED
      BY <2>2, <2>3, <2>4
  <1>8. /\ Cardinality(C1) = JNum(Ends(e, "connect"), {"connect"})
        /\ Cardinality(R1) = JNum(Ends(e, "read"), {"read"})
        /\ Cardinality(W1) = JNum(Ends(e, "write"), {"write"})
        /\ Cardinality(K) = JNum(Completes(e), {"read"})
        /\ Cardinality(C2) = Held(e, "connect") /\ Cardinality(R2) = Held(e, "read")
        /\ Cardinality(W2) = Held(e, "write")
    BY DEF JNum, Held
  <1> HIDE DEF E, S, C1, R1, W1, K, C2, R2, W2
  <1>9. Cardinality(E \cup S) = Cardinality(E) + Cardinality(S)
        /\ Cardinality(E) \in Nat /\ Cardinality(S) \in Nat
    BY <1>4, <1>5, <1>7, CardDisjoint
  <1>10. /\ \A x \in C1 : x \notin R1
         /\ \A x \in C1 \cup R1 : x \notin W1
         /\ \A x \in C1 \cup R1 \cup W1 : x \notin K
         /\ \A x \in C1 \cup R1 \cup W1 \cup K : x \notin C2
         /\ \A x \in C1 \cup R1 \cup W1 \cup K \cup C2 : x \notin R2
         /\ \A x \in C1 \cup R1 \cup W1 \cup K \cup C2 \cup R2 : x \notin W2
    <2>1. ASSUME NEW h \in Handlers
          PROVE  /\ h \in C1 => h \notin R1
                 /\ h \in C1 \cup R1 => h \notin W1
                 /\ h \in C1 \cup R1 \cup W1 => h \notin K
                 /\ h \in C1 \cup R1 \cup W1 \cup K => h \notin C2 \cup R2 \cup W2
                 /\ h \in C2 => h \notin R2
                 /\ h \in C2 \cup R2 => h \notin W2
      <3>1. /\ h \in C1 => hpc[h] = "connect"
            /\ h \in R1 => hpc[h] = "read" /\ IsEnd(hres[h])
            /\ h \in W1 => hpc[h] = "write"
            /\ h \in K => hpc[h] = "read" /\ IsSuccess(hres[h])
            /\ h \in C2 => hpc[h] \in Letting /\ hres[h].op = "connect"
            /\ h \in R2 => hpc[h] \in Letting /\ hres[h].op = "read"
            /\ h \in W2 => hpc[h] \in Letting /\ hres[h].op = "write"
        BY <1>3
      <3>2. IsEnd(hres[h]) => ~IsSuccess(hres[h])
        BY <1>6
      <3>3. hpc[h] \in Letting => hpc[h] # "connect" /\ hpc[h] # "read" /\ hpc[h] # "write"
        BY DEF Letting
      <3> QED
        BY <3>1, <3>2, <3>3
    <2> QED
      BY <1>4, <2>1
  <1>11. /\ IsFiniteSet(C1) /\ IsFiniteSet(R1) /\ IsFiniteSet(W1) /\ IsFiniteSet(K)
         /\ IsFiniteSet(C2) /\ IsFiniteSet(R2) /\ IsFiniteSet(W2)
    BY <1>4, <1>5
  <1>12. /\ IsFiniteSet(C1 \cup R1)
         /\ Cardinality(C1 \cup R1) = Cardinality(C1) + Cardinality(R1)
    BY <1>10, <1>11, CardDisjoint
  <1>13. /\ IsFiniteSet(C1 \cup R1 \cup W1)
         /\ Cardinality(C1 \cup R1 \cup W1) = Cardinality(C1 \cup R1) + Cardinality(W1)
    BY <1>10, <1>11, <1>12, CardDisjoint
  <1>14. /\ IsFiniteSet(C1 \cup R1 \cup W1 \cup K)
         /\ Cardinality(C1 \cup R1 \cup W1 \cup K) = Cardinality(C1 \cup R1 \cup W1) + Cardinality(K)
    BY <1>10, <1>11, <1>13, CardDisjoint
  <1>15. /\ IsFiniteSet(C1 \cup R1 \cup W1 \cup K \cup C2)
         /\ Cardinality(C1 \cup R1 \cup W1 \cup K \cup C2)
               = Cardinality(C1 \cup R1 \cup W1 \cup K) + Cardinality(C2)
    BY <1>10, <1>11, <1>14, CardDisjoint
  <1>16. /\ IsFiniteSet(C1 \cup R1 \cup W1 \cup K \cup C2 \cup R2)
         /\ Cardinality(C1 \cup R1 \cup W1 \cup K \cup C2 \cup R2)
               = Cardinality(C1 \cup R1 \cup W1 \cup K \cup C2) + Cardinality(R2)
    BY <1>10, <1>11, <1>15, CardDisjoint
  <1>17. Cardinality(C1 \cup R1 \cup W1 \cup K \cup C2 \cup R2 \cup W2)
            = Cardinality(C1 \cup R1 \cup W1 \cup K \cup C2 \cup R2) + Cardinality(W2)
    BY <1>10, <1>11, <1>16, CardDisjoint
  <1>18. E \cup S = C1 \cup R1 \cup W1 \cup K \cup C2 \cup R2 \cup W2
    BY <1>4, <1>7
  <1>19. Cardinality(E) + Cardinality(S) = Cardinality(C1) + Cardinality(R1) + Cardinality(W1)
            + Cardinality(K) + Cardinality(C2) + Cardinality(R2) + Cardinality(W2)
    BY <1>9, <1>12, <1>13, <1>14, <1>15, <1>16, <1>17, <1>18
  <1>20. Cardinality(K) > 0 => Cardinality(S) > 0
    <2>1. \A h \in Handlers : h \in K => h \in S
      BY <1>2, <1>3 DEF Ops
    <2>2. IsFiniteSet(K) /\ IsFiniteSet(S)
      BY <1>4, <1>5
    <2>3. (Cardinality(K) > 0 <=> \E x : x \in K) /\ (Cardinality(S) > 0 <=> \E x : x \in S)
      BY <2>2, CardPositive
    <2> QED
      BY <1>4, <2>1, <2>3
  <1>21. /\ JNum(Completes(e), {"read"}) = Cardinality(K)
         /\ Cardinality(E) = Cardinality({h \in Busy(e) : IsEnd(hres[h])})
         /\ Cardinality(S) = Cardinality({h \in Busy(e) : IsSuccess(hres[h])})
    BY <1>8 DEF E, S
  <1> QED
    BY <1>8, <1>9, <1>19, <1>20, <1>21

(* The results that are owed are the tokens of the invariant. *)
LEMMA CountsAgree ==
  ASSUME IInv, NEW e \in Conns
  PROVE  /\ EndsOwed(e) \in Nat /\ SuccessesOwed(e) \in Nat
         /\ EndsOwed(e) + SuccessesOwed(e) = Tokens(e)
         /\ Complete(e) > 0 => SuccessesOwed(e) > 0
  <1>1. ShapeOK /\ ResultsOK
    BY DEF IInv
  <1>2. msgqueue \in Seq(Res) /\ pipe[e] \in Seq(Res) /\ node[e] \in Ops \cup {"none"}
    BY <1>1 DEF ShapeOK
  <1>3. /\ \A i \in 1 .. Len(msgqueue) : GoodResult(msgqueue[i])
        /\ \A i \in 1 .. Len(pipe[e]) : GoodResult(pipe[e][i])
    BY <1>1 DEF ResultsOK, FromPipe
  <1>4. PICK q1 \in Nat, q2 \in Nat, q3 \in Nat, q4 \in Nat :
           /\ q1 = Num(msgqueue, Ends(e, "connect")) /\ q2 = Num(msgqueue, Ends(e, "read"))
           /\ q3 = Num(msgqueue, Ends(e, "write")) /\ q4 = Num(msgqueue, Completes(e))
    BY <1>1, QueueNum
  <1>5. PICK p1 \in Nat, p2 \in Nat, p3 \in Nat :
           /\ p1 = Num(pipe[e], Ends(e, "connect")) /\ p2 = Num(pipe[e], Ends(e, "read"))
           /\ p3 = Num(pipe[e], Ends(e, "write"))
    BY <1>1, PipeNum
  <1>6. PICK j1 \in Nat, j2 \in Nat, j3 \in Nat, j4 \in Nat :
           /\ j1 = JNum(Ends(e, "connect"), {"connect"}) /\ j2 = JNum(Ends(e, "read"), {"read"})
           /\ j3 = JNum(Ends(e, "write"), {"write"}) /\ j4 = JNum(Completes(e), {"read"})
    BY JNumPositive
  <1>7. PICK h1 \in Nat, h2 \in Nat, h3 \in Nat :
           h1 = Held(e, "connect") /\ h2 = Held(e, "read") /\ h3 = Held(e, "write")
    BY <1>1, CountTypes
  <1>8. PICK x \in Nat, y \in Nat :
           /\ x = Cardinality({h \in Busy(e) : IsEnd(hres[h])})
           /\ y = Cardinality({h \in Busy(e) : IsSuccess(hres[h])})
           /\ x + y = j1 + j2 + j3 + j4 + h1 + h2 + h3
           /\ j4 > 0 => y > 0
    BY <1>6, <1>7, HandCounts
  <1>9. PICK n1 \in {0, 1}, n2 \in {0, 1}, n3 \in {0, 1}, s \in {0, 1} :
           /\ n1 = B(node[e] = "connect") /\ n2 = B(node[e] = "read") /\ n3 = B(node[e] = "write")
           /\ s = B(hand[e] = "success")
    BY BOK
  <1>10. PICK n \in {0, 1} : n = (IF node[e] = "none" THEN 0 ELSE 1) /\ n = n1 + n2 + n3
    BY <1>2, <1>9 DEF B, Ops
  <1>11. s = (IF hand[e] = "success" THEN 1 ELSE 0)
    BY <1>9 DEF B
  <1>12. /\ Cardinality(EndsIn(pipe[e], e)) = p1 + p2 + p3
         /\ Cardinality(EndsIn(msgqueue, e)) = q1 + q2 + q3
         /\ Cardinality(SuccessesIn(msgqueue, e)) = q4
    BY <1>2, <1>3, <1>4, <1>5, QueueCounts
  <1>13. EndsOwed(e) = n + (p1 + p2 + p3) + (q1 + q2 + q3) + x
    BY <1>8, <1>10, <1>12 DEF EndsOwed
  <1>14. SuccessesOwed(e) = s + q4 + y
    BY <1>8, <1>11, <1>12 DEF SuccessesOwed
  <1>15. /\ Ending(e, "connect") = n1 + p1 + q1 + j1 /\ Ending(e, "read") = n2 + p2 + q2 + j2
         /\ Ending(e, "write") = n3 + p3 + q3 + j3 /\ Complete(e) = s + q4 + j4
    BY <1>4, <1>5, <1>6, <1>9 DEF Ending, Complete
  <1>16. Tokens(e) = (n1 + p1 + q1 + j1) + (n2 + p2 + q2 + j2) + (n3 + p3 + q3 + j3)
                     + (s + q4 + j4) + h1 + h2 + h3
    BY <1>7, <1>15 DEF Tokens
  <1>17. Complete(e) > 0 => s + q4 + y > 0
    BY <1>8, <1>15
  <1>18. n + (p1 + p2 + p3) + (q1 + q2 + q3) + x + (s + q4 + y)
            = (n1 + p1 + q1 + j1) + (n2 + p2 + q2 + j2) + (n3 + p3 + q3 + j3)
              + (s + q4 + j4) + h1 + h2 + h3
    BY <1>8, <1>10
  <1>19. EndsOwed(e) \in Nat /\ SuccessesOwed(e) \in Nat
    BY <1>13, <1>14
  <1> QED
    BY <1>13, <1>14, <1>16, <1>17, <1>18, <1>19

-----------------------------------------------------------------------------
(* The properties *)

LEMMA EntryTokens ==
  ASSUME IInv, NEW e \in Conns
  PROVE  /\ Ending(e, "connect") + Ending(e, "read") + Ending(e, "write") + Complete(e) <= Tokens(e)
         /\ Ending(e, "read") + Ending(e, "write") + Held(e, "write") <= Tokens(e)
         /\ Tokens(e) \in Nat /\ (Awaiting(e) \/ Idle(e) => Tokens(e) > 0)
         /\ hand[e] # "none" \/ node[e] # "none" => Tokens(e) > 0
  <1>1. ShapeOK /\ HandOK(e) /\ node[e] \in Ops \cup {"none"}
    BY DEF IInv, EntryOK, ShapeOK
  <1>2. PICK ec \in Nat, er \in Nat, ew \in Nat, c \in Nat, hc \in Nat, hr \in Nat, hw \in Nat :
           /\ ec = Ending(e, "connect") /\ er = Ending(e, "read") /\ ew = Ending(e, "write")
           /\ c = Complete(e)
           /\ hc = Held(e, "connect") /\ hr = Held(e, "read") /\ hw = Held(e, "write")
    BY <1>1, CountTypes
  <1>3. Tokens(e) = ec + er + ew + c + hc + hr + hw
    BY <1>2 DEF Tokens
  <1>4. Awaiting(e) \/ Idle(e) => ec > 0 \/ er > 0 \/ ew > 0 \/ c > 0
    BY <1>2 DEF Awaiting, Idle
  <1>5. hand[e] # "none" => er > 0 \/ ew > 0
    BY <1>1, <1>2, HandIsToken
  <1>6. node[e] # "none" => ec > 0 \/ er > 0 \/ ew > 0
    BY <1>1, <1>2, NodeIsToken DEF Ops
  <1>7. /\ ec + er + ew + c <= Tokens(e) /\ er + ew + hw <= Tokens(e) /\ Tokens(e) \in Nat
        /\ (ec > 0 \/ er > 0 \/ ew > 0 \/ c > 0) => Tokens(e) > 0
    BY <1>3
  <1> QED
    BY <1>2, <1>4, <1>5, <1>6, <1>7

(* entry->ref is the number of results still to come, but for a complete    *)
(* reply that nobody has looked at yet (Communicator.cc:577-594,  *)
(* 622-645, 1259-1377).                                                     *)
THEOREM RefsCounted == Spec => []RefCountsResults
  <1>1. IInv => RefCountsResults
    <2> SUFFICES ASSUME IInv, NEW e \in Conns, memory[e] = "live"
                 PROVE  ref[e] + (IF state[e] = "success" THEN 1 ELSE 0)
                           = EndsOwed(e) + SuccessesOwed(e)
      BY DEF RefCountsResults
    <2>1. ref[e] + B(state[e] = "success") = Tokens(e)
      BY DEF IInv, EntryOK, RefOK
    <2>2. EndsOwed(e) + SuccessesOwed(e) = Tokens(e)
      BY CountsAgree
    <2> QED
      BY <2>1, <2>2 DEF B
  <1> QED
    BY <1>1, Invariant, PTL

(* __release_conn frees an entry only when neither the poller nor a queue,  *)
(* a handler, the idle list or a requester has a way to it                  *)
(* (Communicator.cc:309-317, 634-645, 764-768).                             *)
THEOREM FreedIsUnused == Spec => []NoUseAfterFree
  <1>1. IInv => NoUseAfterFree
    <2> SUFFICES ASSUME IInv, NEW e \in Conns, memory[e] = "freed"
                 PROVE  /\ node[e] = "none" /\ hand[e] = "none"
                        /\ EndsOwed(e) = 0 /\ SuccessesOwed(e) = 0
                        /\ \A i \in 1..Len(idle_list) : idle_list[i] # e
                        /\ \A s \in Sessions : rconn[s] = e =>
                               rpc[s] \notin {"set_timeout", "send", "unlock"}
      BY DEF NoUseAfterFree
    <2>1. Tokens(e) = 0 /\ UseOK(e)
      BY DEF IInv, EntryOK, RefOK
    <2>2. node[e] = "none" /\ hand[e] = "none" /\ ~Idle(e)
      BY <2>1, EntryTokens
    <2>3. EndsOwed(e) = 0 /\ SuccessesOwed(e) = 0
      <3>1. PICK x \in Nat, y \in Nat : x = EndsOwed(e) /\ y = SuccessesOwed(e)
        BY CountsAgree
      <3>2. x + y = 0
        BY <2>1, <3>1, CountsAgree
      <3> QED
        BY <3>1, <3>2
    <2>4. \A i \in 1..Len(idle_list) : idle_list[i] # e
      BY <2>2, ToSetOK DEF IInv, ListOK, ShapeOK
    <2>5. ASSUME NEW s \in Sessions, rconn[s] = e, rpc[s] \in Using PROVE FALSE
      <3>1. emutex[e] = s
        BY <2>5 DEF IInv, LockOK
      <3>2. Ending(e, "read") + Ending(e, "write") + Held(e, "write") > 0
        BY <2>1, <3>1 DEF UseOK
      <3>3. Ending(e, "read") + Ending(e, "write") + Held(e, "write") <= 0
        BY <2>1, EntryTokens
      <3>4. PICK a \in Nat, b \in Nat, c \in Nat :
               a = Ending(e, "read") /\ b = Ending(e, "write") /\ c = Held(e, "write")
        BY CountTypes DEF IInv
      <3> QED
        BY <3>2, <3>3, <3>4
    <2> QED
      BY <2>2, <2>3, <2>4, <2>5 DEF Using
  <1> QED
    BY <1>1, Invariant, PTL

(* The session that is told SUCCESS is the one whose reply arrived, however *)
(* often the connection has gone from one session to another                *)
(* (Communicator.cc:577-579, 986-1006, 1329-1336).                          *)
THEOREM ReplyFinds == Spec => []ReplyToItsSession
  <1>1. IInv => ReplyToItsSession
    BY DEF IInv, ResultsOK, GoodJob, ReplyToItsSession
  <1> QED
    BY <1>1, Invariant, PTL

(* Where handle_incoming_reply takes a connection off the idle list, it is  *)
(* on that list (Communicator.cc:606-613).                                  *)
THEOREM IdleListed == Spec => []IdleEndIsListed
  <1>1. IInv => IdleEndIsListed
    <2> SUFFICES ASSUME IInv, NEW h \in Handlers, NEW e, e = hres[h].conn, hpc[h] = "read",
                        IsEnd(hres[h]), state[e] = "idle", emutex[e] = None
                 PROVE  \E i \in 1..Len(idle_list) : idle_list[i] = e
      BY DEF IdleEndIsListed
    <2>1. ShapeOK /\ ListOK /\ GoodJob(h)
      BY DEF IInv, ResultsOK
    <2>2. GoodResult(hres[h]) /\ hres[h].op = "read" /\ e \in Conns
      BY <2>1 DEF GoodJob, GoodResult, Ops
    <2>3. Ending(e, "read") > 0
      BY <2>1, <2>2, JobIsToken
    <2>4. e \in ToSet(idle_list)
      BY <2>1, <2>2, <2>3, Names DEF ListOK, Idle
    <2>5. idle_list \in Seq(Conns)
      BY <2>1 DEF ShapeOK
    <2>6. \A x \in ToSet(idle_list) : \E i \in 1 .. Len(idle_list) : idle_list[i] = x
      BY <2>5, ToSetOK
    <2> QED
      BY <2>4, <2>6
  <1> QED
    BY <1>1, Invariant, PTL

(* A session's outcomes: at most one. *)
LEMMA ToldOnce ==
  ASSUME IInv, NEW s \in Sessions
  PROVE  /\ Cardinality(Finishers(s)) \in Nat /\ handled[s] \in Nat
         /\ Cardinality(Finishers(s)) + handled[s] <= 1 /\ released[s] = handled[s]
         /\ handled[s] > 0 => rpc[s] \in Sent
         /\ Finishers(s) = {} => Cardinality(Finishers(s)) = 0
  <1>1. SessionOK(s) /\ ShapeOK
    BY DEF IInv
  <1>2. IsFiniteSet(Finishers(s))
    BY ClientAssumption, FS_Subset DEF Finishers
  <1>3. Cardinality(Finishers(s)) \in Nat /\ (Finishers(s) = {} => Cardinality(Finishers(s)) = 0)
    BY <1>2, FS_CardinalityType, FS_EmptySet
  <1>4. handled[s] \in Nat
    BY <1>1 DEF SessionOK, ShapeOK
  <1>5. Told(s) = Cardinality(Finishers(s)) + handled[s]
    BY DEF Told
  <1>6. /\ Told(s) <= 1 /\ released[s] = handled[s] /\ (Told(s) > 0 => rpc[s] \in Sent)
    BY <1>1 DEF SessionOK
  <1> QED
    BY <1>3, <1>4, <1>5, <1>6

(* When the handler threads are gone, the only result that can still be     *)
(* owed is the end of a connect that was given to a stopped poller.         *)
LEMMA OnlyStranded ==
  ASSUME IInv, \A h \in Handlers : hpc[h] = "exit", NEW e \in Conns, Tokens(e) > 0
  PROVE  Stranded(e)
  <1>1. ShapeOK /\ StopOK /\ HandOK(e) /\ node[e] \in Ops \cup {"none"}
    BY DEF IInv, EntryOK, ShapeOK
  <1>2. nonblock /\ msgqueue = <<>> /\ stopped[e] = "swept"
    BY <1>1, ClientAssumption DEF StopOK
  <1>3. pipe[e] = <<>> /\ hand[e] = "none"
    BY <1>1, <1>2 DEF HandOK
  <1>4. node[e] \notin {"read", "write"}
    BY <1>1, <1>2 DEF StopOK
  <1>5. \A S, P : "exit" \notin P => JNum(S, P) = 0
    <2> SUFFICES ASSUME NEW S, NEW P, "exit" \notin P PROVE JNum(S, P) = 0
      OBVIOUS
    <2>1. JNum(S, P) \in Nat /\ ~(JNum(S, P) > 0)
      BY JNumPositive
    <2> QED
      BY <2>1
  <1>6. ASSUME node[e] # "connect" PROVE FALSE
    <2>1. ASSUME NEW op \in Ops PROVE Ending(e, op) = 0 /\ Held(e, op) = 0
      <3>1. B(node[e] = op) = 0
        BY <1>1, <1>4, <1>6 DEF B, Ops
      <3>2. Num(pipe[e], Ends(e, op)) = 0 /\ Num(msgqueue, Ends(e, op)) = 0
        BY <1>2, <1>3, NumEmpty
      <3>3. "exit" \notin {op} /\ "exit" \notin Letting
        BY DEF Ops, Letting
      <3>4. JNum(Ends(e, op), {op}) = 0 /\ JNum(OfEntry(e, op), Letting) = 0
        BY <1>5, <3>3
      <3> QED
        BY <3>1, <3>2, <3>4 DEF Ending, Held
    <2>2. Complete(e) = 0
      <3>1. B(hand[e] = "success") = 0
        BY <1>3 DEF B
      <3>2. Num(msgqueue, Completes(e)) = 0
        BY <1>2, NumEmpty
      <3>3. "exit" \notin {"read"}
        OBVIOUS
      <3>4. JNum(Completes(e), {"read"}) = 0
        BY <1>5, <3>3
      <3> QED
        BY <3>1, <3>2, <3>4 DEF Complete
    <2>3. Tokens(e) = 0
      BY <2>1, <2>2 DEF Tokens, Ops
    <2> QED
      BY <2>3
  <1> QED
    BY <1>2, <1>6 DEF Stranded

(* Every request that was accepted is told one outcome, its connection is   *)
(* its own until then, and none is left over when the communicator is gone  *)
(* (Communicator.cc:567-645, 723-770, 867-926, 1228-1236, 1303-1405).       *)
THEOREM RequestsSettled == Spec => []SessionsSettled
  <1>1. IInv => HandledOnce
    <2> SUFFICES ASSUME IInv, NEW s \in Sessions
                 PROVE  /\ handled[s] <= 1 /\ released[s] = handled[s]
                        /\ handled[s] = 1 => rpc[s] \in {"unlock", "accepted"}
                        /\ Cardinality({h \in Handlers : hpc[h] = "finish" /\ hsession[h] = s})
                               + handled[s] <= 1
      BY DEF HandledOnce
    <2>1. PICK c \in Nat, n \in Nat : c = Cardinality(Finishers(s)) /\ n = handled[s]
      BY ToldOnce
    <2>2. c + n <= 1 /\ released[s] = n /\ (n > 0 => rpc[s] \in Sent)
      BY <2>1, ToldOnce
    <2>3. c = Cardinality({h \in Handlers : hpc[h] = "finish" /\ hsession[h] = s})
      BY <2>1 DEF Finishers
    <2> QED
      BY <2>1, <2>2, <2>3 DEF Sent
  <1>2. ASSUME IInv, NEW s \in Sessions, Undecided(s), NEW e, e = rconn[s]
        PROVE  e \in Conns /\ Awaiting(e) /\ esession[e] = s
    <2>1. Finishers(s) = {} /\ handled[s] = 0 /\ rpc[s] = "accepted"
      BY <1>2 DEF Undecided, Finishers
    <2>2. Told(s) = 0
      <3>1. Cardinality(Finishers(s)) = 0
        BY <1>2, <2>1, ToldOnce
      <3> QED
        BY <2>1, <3>1 DEF Told
    <2> QED
      BY <1>2, <2>1, <2>2 DEF IInv, SessionOK, Waits, Sent
  <1>3. IInv => NoSessionLost
    <2> SUFFICES ASSUME IInv, NEW s \in Sessions, Undecided(s), NEW e, e = rconn[s]
                 PROVE  /\ memory[e] = "live" /\ esession[e] = s
                        /\ IF state[e] = "closing" THEN SuccessesOwed(e) > 0
                                                   ELSE EndsOwed(e) + SuccessesOwed(e) > 0
                        /\ \A i \in 1..Len(idle_list) : idle_list[i] # e
      BY DEF NoSessionLost
    <2>1. e \in Conns /\ Awaiting(e) /\ esession[e] = s
      BY <1>2
    <2>2. RefOK(e) /\ StateOK(e) /\ ShapeOK /\ ListOK
      BY <2>1 DEF IInv, EntryOK
    <2>3. Tokens(e) \in Nat /\ Tokens(e) > 0
      BY <2>1, EntryTokens
    <2>4. memory[e] = "live"
      BY <2>2, <2>3 DEF RefOK
    <2>5. EndsOwed(e) + SuccessesOwed(e) > 0
      BY <2>1, <2>3, CountsAgree
    <2>6. state[e] = "closing" => SuccessesOwed(e) > 0
      <3>1. state[e] = "closing" => Complete(e) > 0
        BY <2>1, <2>2 DEF Awaiting, StateOK
      <3> QED
        BY <2>1, <3>1, CountsAgree
    <2>7. ~Idle(e)
      BY <2>1, <2>2, IdleIsFree
    <2>8. \A i \in 1..Len(idle_list) : idle_list[i] # e
      BY <2>1, <2>2, <2>7, ToSetOK DEF ListOK, ShapeOK
    <2> QED
      BY <2>1, <2>4, <2>5, <2>6, <2>8
  <1>4. IInv => StopSettlesAll
    <2> SUFFICES ASSUME IInv, \A h \in Handlers : hpc[h] = "exit"
                 PROVE  /\ \A s \in Sessions :
                              rpc[s] = "accepted" => handled[s] = 1 \/ Stranded(rconn[s])
                        /\ \A e \in Conns : memory[e] = "live" => Stranded(e)
      BY DEF StopSettlesAll
    <2>1. ASSUME NEW e \in Conns, memory[e] = "live" PROVE Stranded(e)
      <3>1. ref[e] >= 1 /\ ref[e] + B(state[e] = "success") = Tokens(e) /\ ref[e] \in Int
        BY <2>1 DEF IInv, EntryOK, RefOK, ShapeOK
      <3>2. Tokens(e) > 0
        BY <3>1, BOK
      <3> QED
        BY <3>2, OnlyStranded
    <2>2. ASSUME NEW s \in Sessions, rpc[s] = "accepted", handled[s] # 1
          PROVE  Stranded(rconn[s])
      <3>1. PICK e : e = rconn[s]
        OBVIOUS
      <3>2. handled[s] = 0
        <4>1. PICK c \in Nat, n \in Nat : c = Cardinality(Finishers(s)) /\ n = handled[s]
          BY ToldOnce
        <4>2. c + n <= 1
          BY <4>1, ToldOnce
        <4> QED
          BY <2>2, <4>1, <4>2
      <3>3. Undecided(s)
        BY <2>2, <3>2 DEF Undecided
      <3>4. e \in Conns /\ Awaiting(e)
        BY <1>2, <3>1, <3>3
      <3>5. Stranded(e)
        BY <3>4, EntryTokens, OnlyStranded
      <3> QED
        BY <3>1, <3>5
    <2> QED
      BY <2>1, <2>2
  <1> QED
    BY <1>1, <1>3, <1>4, Invariant, PTL DEF SessionsSettled

-----------------------------------------------------------------------------
(* The order in which the results of a connection are handled *)

(* The end of a connection's time in the poller is never in front of a      *)
(* complete reply.                                                          *)
InOrder(m, n) == IsEnd(m) /\ m.op = "read" /\ IsSuccess(n) => m.conn # n.conn
OrderOK ==
    /\ \A i, j \in 1 .. Len(msgqueue) : i < j => InOrder(msgqueue[i], msgqueue[j])
    /\ \A h \in Handlers : hpc[h] = "read" =>
          \A j \in 1 .. Len(msgqueue) : InOrder(hres[h], msgqueue[j])

(* Most steps add nothing to the queue that is a complete reply, and no     *)
(* handler takes a result in them.                                          *)
Grows ==
    /\ Len(msgqueue') \in Nat /\ Len(msgqueue) \in Nat /\ Len(msgqueue) <= Len(msgqueue')
    /\ \A i \in 1 .. Len(msgqueue) : msgqueue'[i] = msgqueue[i]
    /\ \A i \in 1 .. Len(msgqueue') : i > Len(msgqueue) => ~IsSuccess(msgqueue'[i])
Takes(p) == \A h \in Handlers : hpc'[h] = p => hpc[h] = p /\ hres'[h] = hres[h]

LEMMA OrderKept ==
  ASSUME OrderOK, Grows, Takes("read")
  PROVE  OrderOK'
  <1>1. ASSUME NEW i \in 1 .. Len(msgqueue'), NEW j \in 1 .. Len(msgqueue'), i < j
        PROVE  InOrder(msgqueue'[i], msgqueue'[j])
    <2>1. CASE j > Len(msgqueue)
      BY <1>1, <2>1 DEF Grows, InOrder
    <2>2. CASE ~(j > Len(msgqueue))
      <3>1. i \in 1 .. Len(msgqueue) /\ j \in 1 .. Len(msgqueue)
        BY <1>1, <2>2 DEF Grows
      <3> QED
        BY <1>1, <3>1 DEF Grows, OrderOK
    <2> QED
      BY <2>1, <2>2
  <1>2. ASSUME NEW h \in Handlers, hpc'[h] = "read", NEW j \in 1 .. Len(msgqueue')
        PROVE  InOrder(hres'[h], msgqueue'[j])
    <2>1. hpc[h] = "read" /\ hres'[h] = hres[h]
      BY <1>2 DEF Takes
    <2>2. CASE j > Len(msgqueue)
      BY <1>2, <2>2 DEF Grows, InOrder
    <2>3. CASE ~(j > Len(msgqueue))
      <3>1. j \in 1 .. Len(msgqueue)
        BY <1>2, <2>3 DEF Grows
      <3> QED
        BY <2>1, <3>1 DEF Grows, OrderOK
    <2> QED
      BY <2>2, <2>3
  <1> QED
    BY <1>1, <1>2 DEF OrderOK, InOrder

LEMMA GrowsSame ==
  ASSUME ShapeOK, msgqueue' = msgqueue
  PROVE  Grows
  BY DEF ShapeOK, Grows

LEMMA GrowsAppend ==
  ASSUME ShapeOK, NEW m \in Res, ~IsSuccess(m), msgqueue' = Append(msgqueue, m)
  PROVE  Grows
  BY DEF ShapeOK, Grows

LEMMA EndNodeGrows ==
  ASSUME ShapeOK, NEW e \in Conns, NEW st \in {"FINISHED", "ERROR"}, EndNode(e, st)
  PROVE  Grows
  <1>1. Result(node[e], st, e) \in Res /\ ~IsSuccess(Result(node[e], st, e))
    BY DEF ShapeOK, Result, Res, Ops, IsSuccess
  <1> QED
    BY <1>1, GrowsSame, GrowsAppend DEF EndNode

LEMMA RetireGrows ==
  ASSUME ShapeOK, NEW e \in Conns, NEW st \in {"DELETED", "MODIFIED"}, Retire(e, st, msgqueue)
  PROVE  Grows
  <1>1. Result(node[e], st, e) \in Res /\ ~IsSuccess(Result(node[e], st, e))
    BY DEF ShapeOK, Result, Res, Ops, IsSuccess
  <1> QED
    BY <1>1, GrowsSame, GrowsAppend DEF Retire

LEMMA PollerDelGrows ==
  ASSUME ShapeOK, NEW e \in Conns, PollerDel(e)
  PROVE  Grows
  BY GrowsSame, RetireGrows DEF PollerDel

LEMMA CreateReplyGrows ==
  ASSUME ShapeOK, NEW e \in Conns, CreateReply(e)
  PROVE  Grows
  BY GrowsSame, EndNodeGrows DEF CreateReply

LEMMA PollerGrows ==
  ASSUME IInv, NEW e \in Conns, Poller(e), ~PollerSuccess(e)
  PROVE  Grows /\ HandlersStay
  <1>1. ShapeOK /\ ResultsOK
    BY DEF IInv
  <1>2. HandlersStay
    <2>1. handlerVars' = handlerVars
      BY DEF Poller, ConnectOrWriteEvent, ReadEvent, ReadAgain, ReadEnds, ReadBytes,
             CreateReplyWaited, AppendPart, AppendError, AppendComplete, HandlePipe
    <2> QED
      BY <2>1 DEF handlerVars, HandlersStay
  <1>3. CASE ConnectOrWriteEvent(e) \/ ReadEnds(e) \/ AppendError(e)
    <2>1. \E st \in {"FINISHED", "ERROR"} : EndNode(e, st)
      BY <1>3 DEF ConnectOrWriteEvent, ReadEnds, AppendError
    <2> QED
      BY <1>1, <1>2, <2>1, EndNodeGrows
  <1>4. CASE ReadEvent(e) \/ ReadAgain(e) \/ AppendPart(e)
    <2>1. msgqueue' = msgqueue
      BY <1>4 DEF ReadEvent, ReadAgain, AppendPart
    <2> QED
      BY <1>1, <1>2, <2>1, GrowsSame
  <1>5. CASE ReadBytes(e) \/ CreateReplyWaited(e)
    <2>1. msgqueue' = msgqueue \/ CreateReply(e)
      BY <1>5 DEF ReadBytes, CreateReplyWaited
    <2> QED
      BY <1>1, <1>2, <2>1, GrowsSame, CreateReplyGrows
  <1>6. CASE AppendComplete(e)
    <2>1. msgqueue' = msgqueue \/ PollerDel(e)
      BY <1>6 DEF AppendComplete
    <2> QED
      BY <1>1, <1>2, <2>1, GrowsSame, PollerDelGrows
  <1>7. CASE HandlePipe(e)
    <2>1. pipe[e] \in Seq(Res) /\ pipe[e] # <<>>
      BY <1>1, <1>7 DEF ShapeOK, HandlePipe
    <2>2. 1 \in 1 .. Len(pipe[e]) /\ Head(pipe[e]) = pipe[e][1] /\ Head(pipe[e]) \in Res
      BY <2>1
    <2>3. FromPipe(pipe[e][1], e)
      BY <1>1, <2>2 DEF ResultsOK
    <2>4. ~IsSuccess(Head(pipe[e]))
      BY <2>2, <2>3 DEF FromPipe, IsSuccess
    <2>5. msgqueue' = Append(msgqueue, Head(pipe[e]))
      BY <1>7 DEF HandlePipe
    <2> QED
      BY <1>1, <1>2, <2>2, <2>4, <2>5, GrowsAppend
  <1> QED
    BY <1>2, <1>3, <1>4, <1>5, <1>6, <1>7 DEF Poller

LEMMA HandlerGrows ==
  ASSUME IInv, NEW h \in Handlers, Handler(h), ~TakeResult(h)
  PROVE  Grows /\ Takes("read") /\ (~ReplyEnd(h) => Takes("unlock"))
  <1>1. ShapeOK /\ GoodJob(h)
    BY DEF IInv, ResultsOK
  <1>2. Grows
    <2>1. CASE StopCheck(h)
      <3>1. hres[h].conn \in Conns
        BY <1>1, <2>1 DEF GoodJob, StopCheck
      <3>2. msgqueue' = msgqueue \/ PollerDel(hres[h].conn)
        BY <2>1 DEF StopCheck
      <3> QED
        BY <1>1, <3>1, <3>2, GrowsSame, PollerDelGrows
    <2>2. CASE ~StopCheck(h)
      <3>1. msgqueue' = msgqueue
        BY <2>2 DEF Handler, HandlerExit, Connected, ConnectFailed, RequestSent, RequestFailed,
                    ReadModified, ReplyComplete, ReplyEnd, ReplyEndUnlock, Finish, Unref
      <3> QED
        BY <1>1, <3>1, GrowsSame
    <2> QED
      BY <2>1, <2>2
  <1>3. hres' = hres
    BY DEF Handler, HandlerExit, Connected, ConnectFailed, RequestSent, RequestFailed, StopCheck,
           ReadModified, ReplyComplete, ReplyEnd, ReplyEndUnlock, Finish, Unref
  <1>4. \E p \in {"get", "exit", "stopcheck", "unlock", "finish", "unref"} :
           hpc' = [hpc EXCEPT ![h] = p] /\ (p = "unlock" => ReplyEnd(h))
    <2>1. CASE HandlerExit(h) \/ StopCheck(h) \/ ReadModified(h) \/ ReplyEndUnlock(h) \/ Finish(h)
               \/ Unref(h)
      BY <2>1 DEF HandlerExit, StopCheck, ReadModified, ReplyEndUnlock, Finish, Unref, Goto
    <2>2. CASE Connected(h)
      BY <2>2 DEF Connected, Goto, Decide
    <2>3. CASE ConnectFailed(h) \/ RequestFailed(h)
      BY <2>3 DEF ConnectFailed, RequestFailed, Goto, Decide
    <2>4. CASE RequestSent(h)
      BY <2>4 DEF RequestSent, Goto, Decide
    <2>5. CASE ReplyComplete(h)
      BY <2>5 DEF ReplyComplete, Goto, Decide
    <2>6. CASE ReplyEnd(h)
      <3>1. CASE state[hres[h].conn] = "idle"
        BY <2>6, <3>1 DEF ReplyEnd, Goto, Decide
      <3>2. CASE AwaitsOutcome(hres[h].conn)
        BY <2>6, <3>2 DEF ReplyEnd, Goto, Decide, AwaitsOutcome
      <3>3. CASE state[hres[h].conn] = "success"
        BY <2>6, <3>3 DEF ReplyEnd, Goto, AwaitsOutcome
      <3>4. CASE /\ state[hres[h].conn] \notin {"idle", "success"}
                 /\ ~AwaitsOutcome(hres[h].conn)
        BY <2>6, <3>4 DEF ReplyEnd, Goto, Decide
      <3> QED
        BY <3>1, <3>2, <3>3, <3>4
    <2> QED
      BY <2>1, <2>2, <2>3, <2>4, <2>5, <2>6 DEF Handler
  <1>5. Takes("read") /\ (~ReplyEnd(h) => Takes("unlock"))
    BY <1>1, <1>3, <1>4 DEF Takes, ShapeOK
  <1> QED
    BY <1>2, <1>5

LEMMA RequestGrows ==
  ASSUME IInv, NEW s \in Sessions, RequestStep(s)
  PROVE  Grows /\ HandlersStay
  <1>1. ShapeOK
    BY DEF IInv
  <1>2. HandlersStay
    <2>1. handlerVars' = handlerVars
      BY DEF RequestStep, TakeIdle, SetTimeout, SendOnIdle, RequestUnlock, NewConn, NewConnFails
    <2> QED
      BY <2>1 DEF handlerVars, HandlersStay
  <1>3. CASE SendOnIdle(s)
    <2>1. PICK e : e = rconn[s]
      OBVIOUS
    <2>2. e \in Conns
      BY <1>3, <2>1 DEF IInv, LockOK, SendOnIdle, Using
    <2>3. msgqueue' = msgqueue \/ Retire(e, "MODIFIED", msgqueue) \/ PollerDel(e)
      BY <1>3, <2>1 DEF SendOnIdle
    <2> QED
      BY <1>1, <1>2, <2>2, <2>3, GrowsSame, RetireGrows, PollerDelGrows
  <1>4. CASE ~SendOnIdle(s)
    <2>1. msgqueue' = msgqueue
      BY <1>4 DEF RequestStep, TakeIdle, SetTimeout, RequestUnlock, NewConn, NewConnFails
    <2> QED
      BY <1>1, <1>2, <2>1, GrowsSame
  <1> QED
    BY <1>3, <1>4

LEMMA DeinitGrows ==
  ASSUME IInv, Deinit
  PROVE  Grows /\ HandlersStay
  <1>1. ShapeOK /\ ResultsOK
    BY DEF IInv
  <1>2. HandlersStay
    <2>1. handlerVars' = handlerVars
      BY DEF Deinit, SetStopFlag, SetNonblock, JoinPoller, SweepPoller
    <2> QED
      BY <2>1 DEF handlerVars, HandlersStay
  <1>3. CASE SetStopFlag \/ SetNonblock \/ \E e \in Conns : JoinPoller(e)
    <2>1. msgqueue' = msgqueue
      BY <1>3 DEF SetStopFlag, SetNonblock, JoinPoller
    <2> QED
      BY <1>1, <1>2, <2>1, GrowsSame
  <1>4. ASSUME NEW e \in Conns, SweepPoller(e) PROVE Grows
    <2>1. PICK q : q = msgqueue \o pipe[e]
      OBVIOUS
    <2>2. PICK m : m = Result(node[e], "STOPPED", e)
      OBVIOUS
    <2>3. msgqueue' = q \o (IF node[e] = "none" THEN <<>> ELSE <<m>>)
      BY <1>4, <2>1, <2>2 DEF SweepPoller
    <2>4. m \in Res /\ ~IsSuccess(m)
      BY <1>1, <2>2 DEF ShapeOK, Result, Res, Ops, IsSuccess
    <2>5. msgqueue \in Seq(Res) /\ pipe[e] \in Seq(Res)
      BY <1>1 DEF ShapeOK
    <2>6. \A i \in 1 .. Len(pipe[e]) : ~IsSuccess(pipe[e][i])
      BY <1>1 DEF ResultsOK, FromPipe, IsSuccess
    <2>7. /\ q \in Seq(Res) /\ Len(q) \in Nat /\ Len(msgqueue) \in Nat
          /\ Len(msgqueue) <= Len(q)
          /\ \A i \in 1 .. Len(msgqueue) : q[i] = msgqueue[i]
      BY <2>1, <2>5
    <2>8. ASSUME NEW i \in 1 .. Len(q), i > Len(msgqueue) PROVE ~IsSuccess(q[i])
      <3>1. i - Len(msgqueue) \in 1 .. Len(pipe[e]) /\ q[i] = pipe[e][i - Len(msgqueue)]
        BY <2>1, <2>5, <2>8
      <3> QED
        BY <2>6, <3>1
    <2>9. CASE node[e] = "none"
      <3>1. msgqueue' = q
        BY <2>3, <2>7, <2>9
      <3> QED
        BY <2>7, <2>8, <3>1 DEF Grows
    <2>10. CASE node[e] # "none"
      <3>1. msgqueue' = Append(q, m)
        BY <2>3, <2>4, <2>7, <2>10
      <3>2. /\ Len(msgqueue') = Len(q) + 1 /\ msgqueue'[Len(q) + 1] = m
            /\ \A i \in 1 .. Len(q) : msgqueue'[i] = q[i]
        BY <2>4, <2>7, <3>1
      <3>3. \A i \in 1 .. Len(q) + 1 : i \in 1 .. Len(q) \/ i = Len(q) + 1
        BY <2>7
      <3>4. \A i \in 1 .. Len(msgqueue) : i \in 1 .. Len(q)
        BY <2>7
      <3> QED
        BY <2>4, <2>7, <2>8, <3>2, <3>3, <3>4 DEF Grows
    <2> QED
      BY <2>9, <2>10
  <1> QED
    BY <1>2, <1>3, <1>4 DEF Deinit

(* While the poller's thread is about to send a complete reply, the end of  *)
(* the connection is still with the poller.                                 *)
LEMMA EndStillOwed ==
  ASSUME IInv, NEW e \in Conns, hand[e] = "success"
  PROVE  /\ \A i \in 1 .. Len(msgqueue) : msgqueue[i] \notin Ends(e, "read")
         /\ \A h \in Handlers : ~(hpc[h] = "read" /\ hres[h] \in Ends(e, "read"))
  <1>1. ShapeOK /\ HandOK(e) /\ StateOK(e)
    BY DEF IInv, EntryOK
  <1>2. PICK n \in Nat, p \in Nat, q \in Nat, j \in Nat :
           /\ n = B(node[e] = "read") /\ p = Num(pipe[e], Ends(e, "read"))
           /\ q = Num(msgqueue, Ends(e, "read")) /\ j = JNum(Ends(e, "read"), {"read"})
    BY <1>1, CountTypes
  <1>3. PICK c \in Nat, r \in Nat, w \in Nat :
           c = Ending(e, "connect") /\ r = Ending(e, "read") /\ w = Ending(e, "write")
    BY <1>1, CountTypes
  <1>4. r = n + p + q + j
    BY <1>2, <1>3 DEF Ending
  <1>5. state[e] = "success"
    BY <1>1 DEF HandOK
  <1>6. r = 1 /\ c + r + w <= 1
    BY <1>1, <1>3, <1>5 DEF StateOK
  <1>7. w = 0
    BY <1>6
  <1>8. node[e] # "write" /\ ~(Num(pipe[e], Ends(e, "write")) > 0)
    BY <1>1, <1>3, <1>7, NodeIsToken
  <1>9. node[e] = "read" \/ Num(pipe[e], Ends(e, "read")) > 0
    BY <1>1, <1>8 DEF HandOK
  <1>10. n >= 1 \/ p >= 1
    BY <1>2, <1>9 DEF B
  <1>11. q = 0 /\ j = 0
    BY <1>4, <1>6, <1>10
  <1>12. \A i \in 1 .. Len(msgqueue) : msgqueue[i] \notin Ends(e, "read")
    BY <1>1, <1>2, <1>11, QueueNum
  <1>13. \A h \in Handlers : ~(hpc[h] = "read" /\ hres[h] \in Ends(e, "read"))
    BY <1>1, <1>2, <1>11, JNumPositive
  <1> QED
    BY <1>12, <1>13

LEMMA PollerSuccessOrder ==
  ASSUME IInv, OrderOK, NEW e \in Conns, PollerSuccess(e)
  PROVE  OrderOK' /\ HandlersStay
  <1>1. PICK m : m = [op |-> "read", st |-> "SUCCESS", conn |-> e, for |-> esession[e]]
    OBVIOUS
  <1>2. hand[e] = "success" /\ msgqueue' = Append(msgqueue, m) /\ handlerVars' = handlerVars
    BY <1>1 DEF PollerSuccess
  <1>3. ShapeOK /\ ResultsOK
    BY DEF IInv
  <1>4. HandlersStay
    BY <1>2 DEF handlerVars, HandlersStay
  <1>5. m \in Res /\ m.conn = e /\ ~IsEnd(m)
    BY <1>1, <1>3 DEF ShapeOK, Res, IsEnd
  <1>6. /\ Len(msgqueue) \in Nat /\ Len(msgqueue') = Len(msgqueue) + 1
        /\ \A i \in 1 .. Len(msgqueue) : msgqueue'[i] = msgqueue[i] /\ msgqueue[i] \in Res
        /\ msgqueue'[Len(msgqueue) + 1] = m
    BY <1>2, <1>3, <1>5 DEF ShapeOK
  <1>7. \A n \in Res : InOrder(n, m) \/ n \in Ends(e, "read")
    BY <1>5 DEF InOrder, Ends
  <1>8. \A i \in 1 .. Len(msgqueue) : InOrder(msgqueue[i], m)
    BY <1>2, <1>6, <1>7, EndStillOwed
  <1>9. \A h \in Handlers : hpc[h] = "read" => InOrder(hres[h], m)
    BY <1>2, <1>3, <1>7, EndStillOwed DEF ShapeOK
  <1>10. \A j \in 1 .. Len(msgqueue') : j \in 1 .. Len(msgqueue) \/ j = Len(msgqueue) + 1
    BY <1>6
  <1>11. ASSUME NEW i \in 1 .. Len(msgqueue'), NEW j \in 1 .. Len(msgqueue'), i < j
         PROVE  InOrder(msgqueue'[i], msgqueue'[j])
    <2>1. i \in 1 .. Len(msgqueue)
      BY <1>6, <1>11
    <2>2. CASE j \in 1 .. Len(msgqueue)
      BY <1>6, <1>11, <2>1, <2>2 DEF OrderOK
    <2>3. CASE j = Len(msgqueue) + 1
      BY <1>6, <1>8, <2>1, <2>3
    <2> QED
      BY <1>10, <2>2, <2>3
  <1>12. ASSUME NEW h \in Handlers, hpc[h] = "read", NEW j \in 1 .. Len(msgqueue')
         PROVE  InOrder(hres[h], msgqueue'[j])
    <2>1. CASE j \in 1 .. Len(msgqueue)
      BY <1>6, <1>12, <2>1 DEF OrderOK
    <2>2. CASE j = Len(msgqueue) + 1
      BY <1>6, <1>9, <1>12, <2>2
    <2> QED
      BY <1>10, <2>1, <2>2
  <1>13. OrderOK'
    BY <1>4, <1>11, <1>12 DEF OrderOK, InOrder, HandlersStay
  <1> QED
    BY <1>4, <1>13

LEMMA TakeResultOrder ==
  ASSUME IInv, OrderOK, NEW h \in Handlers, TakeResult(h)
  PROVE  OrderOK' /\ Takes("unlock")
  <1>1. /\ msgqueue # <<>> /\ msgqueue' = Tail(msgqueue)
        /\ hres' = [hres EXCEPT ![h] = Head(msgqueue)]
        /\ hpc' = [hpc EXCEPT ![h] = Head(msgqueue).op]
    BY DEF TakeResult, Goto
  <1>2. ShapeOK /\ ResultsOK /\ msgqueue \in Seq(Res)
    BY DEF IInv, ShapeOK
  <1>3. /\ Len(msgqueue) \in Nat /\ Len(msgqueue) >= 1 /\ Len(msgqueue') = Len(msgqueue) - 1
        /\ \A i \in 1 .. Len(msgqueue') : /\ i + 1 \in 1 .. Len(msgqueue)
                                          /\ msgqueue'[i] = msgqueue[i + 1]
        /\ Head(msgqueue) = msgqueue[1] /\ 1 \in 1 .. Len(msgqueue)
    BY <1>1, <1>2
  <1>4. /\ hres'[h] = msgqueue[1] /\ hpc'[h] = msgqueue[1].op
        /\ \A g \in Handlers : g # h => hres'[g] = hres[g] /\ hpc'[g] = hpc[g]
    BY <1>1, <1>2, <1>3 DEF ShapeOK
  <1>5. GoodResult(msgqueue[1])
    BY <1>2, <1>3 DEF ResultsOK
  <1>6. hpc'[h] # "unlock"
    BY <1>4, <1>5 DEF GoodResult, Ops
  <1>7. ASSUME NEW i \in 1 .. Len(msgqueue'), NEW j \in 1 .. Len(msgqueue'), i < j
        PROVE  InOrder(msgqueue'[i], msgqueue'[j])
    <2>1. i + 1 < j + 1
      BY <1>7
    <2> QED
      BY <1>3, <2>1 DEF OrderOK
  <1>8. ASSUME NEW g \in Handlers, hpc'[g] = "read", NEW j \in 1 .. Len(msgqueue')
        PROVE  InOrder(hres'[g], msgqueue'[j])
    <2>1. CASE g = h
      <3>1. j + 1 \in 1 .. Len(msgqueue) /\ 1 < j + 1
        BY <1>3
      <3> QED
        BY <1>3, <1>4, <2>1, <3>1 DEF OrderOK
    <2>2. CASE g # h
      BY <1>3, <1>4, <1>8, <2>2 DEF OrderOK
    <2> QED
      BY <2>1, <2>2
  <1>9. OrderOK'
    BY <1>7, <1>8 DEF OrderOK, InOrder
  <1> QED
    BY <1>4, <1>6, <1>9 DEF Takes

LEMMA OrderStep ==
  ASSUME IInv, OrderOK, [Next]_vars
  PROVE  OrderOK'
  <1>1. HandlersStay => Takes("read")
    BY DEF HandlersStay, Takes
  <1>2. ASSUME NEW e \in Conns, Poller(e) PROVE OrderOK'
    <2>1. CASE PollerSuccess(e)
      BY <2>1, PollerSuccessOrder
    <2>2. CASE ~PollerSuccess(e)
      BY <1>1, <1>2, <2>2, PollerGrows, OrderKept
    <2> QED
      BY <2>1, <2>2
  <1>3. ASSUME NEW h \in Handlers, Handler(h) PROVE OrderOK'
    <2>1. CASE TakeResult(h)
      BY <2>1, TakeResultOrder
    <2>2. CASE ~TakeResult(h)
      BY <1>3, <2>2, HandlerGrows, OrderKept
    <2> QED
      BY <2>1, <2>2
  <1>4. ASSUME NEW s \in Sessions, RequestStep(s) PROVE OrderOK'
    BY <1>1, <1>4, RequestGrows, OrderKept
  <1>5. CASE Deinit
    BY <1>1, <1>5, DeinitGrows, OrderKept
  <1>6. CASE UNCHANGED vars
    <2>1. msgqueue' = msgqueue /\ HandlersStay
      BY <1>6 DEF vars, handlerVars, HandlersStay
    <2> QED
      BY <1>1, <2>1, GrowsSame, OrderKept DEF IInv
  <1> QED
    BY <1>2, <1>3, <1>4, <1>5, <1>6 DEF Next

(* A single handler that handles an end has no reply left to handle.        *)
LEMMA NoEarlyEnd ==
  ASSUME IInv, OrderOK, NEW h0, Handlers = {h0}, hpc[h0] = "read", IsEnd(hres[h0]),
         NEW e, e = hres[h0].conn
  PROVE  state[e] # "success"
  <1>1. ShapeOK /\ GoodJob(h0) /\ hres[h0] \in Res /\ ResultsOK
    BY DEF IInv, ResultsOK, ShapeOK
  <1>2. GoodResult(hres[h0]) /\ hres[h0].op = "read" /\ e \in Conns
    BY <1>1 DEF GoodJob, GoodResult, Ops
  <1>3. hres[h0] \in Ends(e, "read")
    BY <1>1, <1>2 DEF Ends
  <1>4. StateOK(e) /\ HandOK(e)
    BY <1>2 DEF IInv, EntryOK
  <1>5. B(hand[e] = "success") = 0
    <2>1. hand[e] # "success"
      BY <1>2, <1>3, EndStillOwed
    <2> QED
      BY <2>1 DEF B
  <1>6. Num(msgqueue, Completes(e)) = 0
    <2>1. ASSUME NEW i \in 1 .. Len(msgqueue) PROVE msgqueue[i] \notin Completes(e)
      BY <1>2 DEF OrderOK, InOrder, Completes
    <2>2. Num(msgqueue, Completes(e)) \in Nat /\ ~(Num(msgqueue, Completes(e)) > 0)
      BY <1>1, <2>1, QueueNum
    <2> QED
      BY <2>2
  <1>7. JNum(Completes(e), {"read"}) = 0
    <2>1. ASSUME NEW h \in Handlers PROVE hres[h] \notin Completes(e)
      BY DEF Completes, IsEnd, IsSuccess
    <2>2. JNum(Completes(e), {"read"}) \in Nat /\ ~(JNum(Completes(e), {"read"}) > 0)
      BY <2>1, JNumPositive
    <2> QED
      BY <2>2
  <1>8. Complete(e) = 0
    BY <1>5, <1>6, <1>7 DEF Complete
  <1> QED
    BY <1>4, <1>8 DEF StateOK

(* With one handler thread, a reply is always handled before the end of its *)
(* connection: "This may happen only if handler_threads > 1"                *)
(* (Communicator.cc:622-626).                                               *)
THEOREM ReplyFirst ==
  ASSUME NEW h0, Handlers = {h0}
  PROVE  Spec => []EndAfterReply
  <1> DEFINE Inv2 == OrderOK /\ EndAfterReply
  <1>1. Init => Inv2
    BY DEF Init, OrderOK, EndAfterReply
  <1>2. IInv /\ Inv2 /\ [Next]_vars => Inv2'
    <2> SUFFICES ASSUME IInv, OrderOK, EndAfterReply, [Next]_vars
                 PROVE  OrderOK' /\ EndAfterReply'
      OBVIOUS
    <2>1. OrderOK'
      BY OrderStep
    <2>2. Takes("unlock") => EndAfterReply'
      BY DEF Takes, EndAfterReply
    <2>3. HandlersStay => Takes("unlock")
      BY DEF HandlersStay, Takes
    <2>4. ASSUME NEW e \in Conns, Poller(e) PROVE EndAfterReply'
      <3>1. HandlersStay
        BY <2>4, PollerGrows, PollerSuccessOrder
      <3> QED
        BY <2>2, <2>3, <3>1
    <2>5. ASSUME NEW h \in Handlers, Handler(h) PROVE EndAfterReply'
      <3>1. CASE TakeResult(h)
        BY <2>2, <3>1, TakeResultOrder
      <3>2. CASE ~TakeResult(h) /\ ~ReplyEnd(h)
        BY <2>2, <2>5, <3>2, HandlerGrows
      <3>3. CASE ReplyEnd(h)
        <4>1. PICK e : e = hres[h].conn
          OBVIOUS
        <4>2. h = h0 /\ hpc[h] = "read" /\ IsEnd(hres[h])
          BY <3>3 DEF ReplyEnd, IsEnd
        <4>3. state[e] # "success"
          BY <4>1, <4>2, NoEarlyEnd
        <4>4. \E p \in {"unref", "finish"} : hpc' = [hpc EXCEPT ![h] = p]
          <5>1. CASE state[e] = "idle"
            BY <3>3, <4>1, <5>1 DEF ReplyEnd, Goto, Decide
          <5>2. CASE AwaitsOutcome(e)
            BY <3>3, <4>1, <5>2 DEF ReplyEnd, Goto, Decide, AwaitsOutcome
          <5>3. CASE state[e] # "idle" /\ ~AwaitsOutcome(e)
            BY <3>3, <4>1, <4>3, <5>3 DEF ReplyEnd, Goto, Decide
          <5> QED
            BY <5>1, <5>2, <5>3
        <4> QED
          BY <4>2, <4>4 DEF EndAfterReply, IInv, ShapeOK
      <3> QED
        BY <3>1, <3>2, <3>3
    <2>6. ASSUME NEW s \in Sessions, RequestStep(s) PROVE EndAfterReply'
      BY <2>2, <2>3, <2>6, RequestGrows
    <2>7. CASE Deinit
      <3>1. HandlersStay
        BY <2>7, DeinitGrows
      <3> QED
        BY <2>1, <2>2, <2>3, <3>1
    <2>8. CASE UNCHANGED vars
      <3>1. HandlersStay
        BY <2>8 DEF vars, handlerVars, HandlersStay
      <3> QED
        BY <2>1, <2>2, <2>3, <3>1
    <2>9. EndAfterReply'
      BY <2>4, <2>5, <2>6, <2>7, <2>8 DEF Next
    <2> QED
      BY <2>1, <2>9
  <1>3. Inv2 => EndAfterReply
    OBVIOUS
  <1> QED
    BY <1>1, <1>2, <1>3, Invariant, PTL DEF Spec

=============================================================================
