-------------------------- MODULE ServerConnProofs --------------------------
(***************************************************************************)
(* Proofs about ServerConn, for any connections, requests and handlers.    *)
(*                                                                         *)
(* Everything rests on counting what still stands for an entry: the node   *)
(* in the poller and the one result it ends with (Ending), the result of a *)
(* complete request (Complete), and the handlers and repliers that have a  *)
(* reference of their own (Held).  An entry's state says which of them     *)
(* there are, its session says who will end it, and its reference count is *)
(* their number.                                                           *)
(***************************************************************************)
EXTENDS ServerConn, FiniteSetTheorems, SequenceTheorems, WellFoundedInduction, TLAPS

B(b) == IF b THEN 1 ELSE 0

Outcome == [op : {"none", "listen", "read", "write"},
            st : {"none", "SUCCESS", "ERROR", "DELETED", "MODIFIED", "FINISHED"},
            conn : Conns \cup {None}, seq : Nat,
            out : {"none", "toreply", "failed", "success"}]

(* How many results in a queue, or in the hands of handlers at some step,
   are of some kind. *)
Num(q, S) == Cardinality({i \in 1 .. Len(q) : q[i] \in S})
Jobs(S, P) == {h \in Handlers : job[h] \in S /\ pc[h] \in P}
JNum(S, P) == Cardinality(Jobs(S, P))

Ends(c, op) == {m \in Outcome : m.conn = c /\ m.op = op /\ m.st \notin {"SUCCESS", "MODIFIED"}}
Completes(c) == {m \in Outcome : m.conn = c /\ m.op = "read" /\ m.st = "SUCCESS"}
OfEntry(c) == {m \in Outcome : m.conn = c /\ m.op \in {"read", "write"}}
Arrivals(c) == {m \in Outcome : m.conn = c /\ m.op = "listen" /\ m.st = "SUCCESS"}
Unbinds == {m \in Outcome : m.op = "listen" /\ m.st = "DELETED"}

NewSteps == {"drain_one", "mark_one", "make", "refuse"}
Marking == {"mark_one", "mark_all"}
Lockers == {"write", "sync", "unlock", "deleted_locked"}

(* The tokens of an entry; *)
NodeTokens(r, c, op) == B(r.node = op) + Num(r.pipe, Ends(c, op))
Ending(c, op) == NodeTokens(conn[c], c, op)
                 + Num(msgqueue, Ends(c, op)) + JNum(Ends(c, op), {op})
Complete(c) == Num(msgqueue, Completes(c)) + JNum(Completes(c), {"read"})
Held(c) == JNum(OfEntry(c), {"relist", "finish", "unref"}) + Repliers(c)

(* of a target that has no entry yet, and of bind's reference. *)
Arriving(c) == Num(msgqueue, Arrivals(c)) + JNum(Arrivals(c), {"listen"} \cup NewSteps)
Binding == B(pc[Main] \in {"serving"} \cup Closing) + B(svc.node = "deleted")
           + Num(msgqueue, Unbinds) + JNum(Unbinds, {"listen"} \cup Closing)

(* A handler is about to end a session. *)
Finishes(h, c, k) == /\ pc[h] \in {"relist", "finish"}
                     /\ job[h].conn = c /\ job[h].seq = k
NoFinisher(c, k) == \A h \in Handlers : ~Finishes(h, c, k)
Settled(c, k) == \/ spc[<<c, k>>] \in {"deleted", "succeed"}
                 \/ spc[<<c, k>>] = "given" /\ ~NoFinisher(c, k)

----------------------------------------
(* The inductive invariant *)

Entry == [state : {"none", "accepted", "connected", "receiving", "success", "idle",
                   "keepalive", "closing", "error"},
          ref : Int, memory : {"unborn", "live", "freed"}, seq : Nat, tref : Int,
          mutex : Handlers \cup Sessions \cup {None}, idle : BOOLEAN,
          node : {"none", "read", "write"}, hand : {"none", "read", "append"},
          removed : BOOLEAN, partial : BOOLEAN, pipe : Seq(Outcome), got : Nat]

Service == [listening : BOOLEAN, ref : Int, mutex : Threads \cup {None},
            alive_list : Seq(Conns), marking : Conns \cup {None}, conn_count : Int,
            unbound : Int, node : {"none", "armed", "deleted"}]

Stages == {"none", "reading", "toreply", "write", "sync", "unlock", "given", "succeed",
           "deleted", "deleted_locked"}

HandlerSteps == {"get", "listen", "read", "write", "relist", "finish", "unref"}
                \cup NewSteps \cup Closing

ShapeOK ==
    /\ conn \in [Conns -> Entry]
    /\ svc \in Service
    /\ spc \in [Sessions -> Stages]
    /\ msgqueue \in Seq(Outcome)
    /\ pc \in [Threads -> HandlerSteps \cup {"serving", "wait", "finished"}]
    /\ pc[Main] \in {"serving", "wait", "finished"} \cup Closing
    /\ \A h \in Handlers : pc[h] \in HandlerSteps
    /\ job \in [Handlers -> Outcome]

(* What comes out of the queue, and what a handler has at each of its steps.*)
GoodResult(m) ==
    \/ m.op = "listen" /\ m.st = "SUCCESS" /\ m.conn \in Conns
    \/ m.op = "listen" /\ m.st \in {"ERROR", "DELETED"} /\ m.conn = None
    \/ m.op = "read" /\ m.st \in {"SUCCESS", "ERROR", "DELETED", "MODIFIED"} /\ m.conn \in Conns
    \/ m.op = "write" /\ m.st \in {"ERROR", "DELETED", "MODIFIED", "FINISHED"} /\ m.conn \in Conns
FromPipe(m, c) == m.conn = c /\ m.op \in {"read", "write"} /\ m.st \in {"DELETED", "MODIFIED"}

GoodJob(h) ==
    LET m == job[h] IN
    /\ pc[h] = "listen" => GoodResult(m) /\ m.op = "listen" /\ m.st # "ERROR"
    /\ pc[h] \in NewSteps => m.op = "listen" /\ m.st = "SUCCESS" /\ m.conn \in Conns
    /\ pc[h] \in Closing => m.op = "listen" /\ m.st = "DELETED"
    /\ pc[h] \in {"read", "write"} => m.op = pc[h] /\ m.conn \in Conns
    /\ pc[h] = "read" => m.st \in {"SUCCESS", "ERROR", "DELETED"}
    /\ pc[h] = "write" => m.st \in {"ERROR", "DELETED", "FINISHED"}
    /\ pc[h] = "relist" => m.op = "write"
    /\ pc[h] \in {"relist", "finish", "unref"} => m.op \in {"read", "write"} /\ m.conn \in Conns
    /\ pc[h] = "finish" => m.out # "none"
    /\ pc[h] \in {"relist", "finish"} => m.seq \in 1 .. conn[m.conn].seq

ResultsOK ==
    /\ \A i \in 1 .. Len(msgqueue) : GoodResult(msgqueue[i])
    /\ \A c \in Conns : \A i \in 1 .. Len(conn[c].pipe) : FromPipe(conn[c].pipe[i], c)
    /\ \A h \in Handlers : GoodJob(h)

(* An entry's count; *)
RefOK(c) ==
    LET r == conn[c] IN
    /\ r.memory = "live" =>
          /\ r.ref >= 1
          /\ r.ref + B(r.state = "success")
                = Ending(c, "read") + Ending(c, "write") + Complete(c) + Held(c)
    /\ r.memory # "live" =>
          Ending(c, "read") + Ending(c, "write") + Complete(c) + Held(c) = 0
    /\ Ending(c, "read") + Ending(c, "write") <= 1
    /\ Complete(c) <= 1

(* its target's. *)
TrefOK(c) ==
    LET r == conn[c] IN
    /\ r.tref = Arriving(c) + B(r.memory = "live") + Undeleted(c)
    /\ Arriving(c) <= 1
    /\ Arriving(c) = 1 => r.state = "accepted"
    /\ r.state = "none" => r = Unborn
    /\ r.memory = "unborn" <=> r.state \in {"none", "accepted"}
    /\ r.memory = "unborn" =>
          /\ r.seq = 0 /\ r.got = 0 /\ r.mutex = None /\ ~r.idle
          /\ r.hand = "none" /\ ~r.partial /\ r.pipe = <<>>

(* What the poller's thread has in hand. *)
InHand(r, c) ==
    /\ r.hand = "none" => ~r.removed
    /\ r.hand # "none" /\ ~r.removed => r.node = "read"
    /\ r.hand # "none" /\ r.removed =>
          \/ r.node = "write"
          \/ r.node = "none" /\ \E i \in 1 .. Len(r.pipe) : r.pipe[i] \in Ends(c, "read")
HandOK(c) ==
    LET r == conn[c] IN
    /\ InHand(r, c)
    /\ r.hand = "append" \/ (r.partial /\ (r.hand # "none" \/ r.node = "read")) =>
          r.state = "receiving" /\ spc[<<c, r.seq>>] = "reading"

(* Which tokens there are, by the state. *)
StateOK(c) ==
    LET r == conn[c] IN
    /\ Ending(c, "write") > 0 => r.state = "idle" /\ ~r.idle
    /\ Complete(c) > 0 => r.state \in {"success", "closing"}
    /\ r.state = "success" => Complete(c) > 0 /\ Ending(c, "read") > 0
    /\ r.idle => r.state = "idle" /\ Ending(c, "read") > 0 /\ r.mutex = None

LockOK ==
    /\ \A c \in Conns :
          LET r == conn[c] IN
          /\ r.mutex # None => r.state = "idle" /\ ~r.idle
          /\ r.mutex \in Handlers => pc[r.mutex] = "relist" /\ job[r.mutex].conn = c
          /\ r.mutex \in Sessions => r.mutex = <<c, r.seq>> /\ spc[r.mutex] \in Lockers
    /\ \A s \in Sessions : spc[s] \in Lockers => conn[s[1]].mutex = s
    /\ \A h \in Handlers : pc[h] = "relist" => conn[job[h].conn].mutex = h

(* The sessions before the last are ended or about to be; who ends the last
   one. *)
PastOK(c) ==
    LET r == conn[c] IN
    /\ r.seq <= MaxSeq[c]
    /\ \A k \in 1 .. MaxSeq[c] : k > r.seq => spc[<<c, k>>] = "none"
    /\ \A k \in 1 .. MaxSeq[c] : k < r.seq => Settled(c, k)
LastOK(c) ==
    LET r == conn[c]
        last == spc[<<c, r.seq>>]
    IN
    /\ r.state \in {"none", "accepted", "connected"} => r.seq = 0
    /\ r.state = "keepalive" => r.seq > 0 /\ Settled(c, r.seq)
    /\ r.seq > 0 => last # "none"
    /\ r.state \in {"receiving", "success", "idle", "error"} => r.seq > 0
    /\ r.state = "receiving" /\ Ending(c, "read") > 0 =>
          last \in {"reading", "given"} /\ NoFinisher(c, r.seq)
    /\ r.state = "error" /\ Ending(c, "read") > 0 => last = "given" /\ NoFinisher(c, r.seq)
    /\ Ending(c, "write") > 0 => last \in {"given", "unlock"} /\ NoFinisher(c, r.seq)
    /\ Complete(c) > 0 => r.seq > 0 /\ last = "reading" /\ NoFinisher(c, r.seq)
    /\ r.seq > 0 /\ last \in {"write", "sync"} => Ending(c, "read") > 0
    /\ r.seq > 0 /\ r.idle => last \in {"reading", "toreply", "deleted"}
SessionOK(c) == PastOK(c) /\ LastOK(c)

(* Whom a handler ends, and that it is the only one. *)
FinishAt(h) ==
    LET c == job[h].conn
        s == <<c, job[h].seq>>
    IN
    /\ pc[h] = "relist" => job[h].seq = conn[c].seq /\ spc[s] = "given"
                           /\ Ending(c, "read") > 0
    /\ pc[h] = "finish" => spc[s] \in IF job[h].out = "toreply" THEN {"reading"}
                                      ELSE {"reading", "given", "unlock"}
    /\ pc[h] \in {"read", "write"} => job[h].seq = conn[c].seq
FinishOK ==
    /\ \A h \in Handlers : FinishAt(h)
    /\ \A h, g \in Handlers : \A c \in Conns : \A k \in 1 .. MaxSeq[c] :
          Finishes(h, c, k) /\ Finishes(g, c, k) => h = g

(* How many of its requests were answered as a whole. *)
GotOK(c) ==
    LET r == conn[c]
        last == spc[<<c, r.seq>>]
    IN
    /\ r.got <= r.seq
    /\ r.state \in {"receiving", "success"} => r.got < r.seq
    /\ r.seq > 0 /\ last \in {"reading", "toreply", "write"} => r.got < r.seq
    /\ r.node = "write" => r.got < r.seq
    /\ r.state = "idle" /\ r.got = r.seq =>
          \/ r.hand = "none" /\ r.node = "none"
          \/ r.mutex \in Handlers
          \/ r.mutex \in Sessions /\ spc[r.mutex] = "sync"
    /\ ~wronged

(* The service's count; *)
HeldTargets == {c \in Conns : conn[c].tref > 0}
BindOK ==
    /\ svc.ref = Binding + Cardinality(HeldTargets)
    /\ Binding <= 1
    /\ svc.unbound = B(svc.ref = 0)
    /\ svc.node = "armed" => pc[Main] = "serving"
    /\ pc[Main] = "finished" => svc.ref = 0

(* the server's. *)
LiveConns == {c \in Conns : conn[c].memory = "live"}
OpenConns == {c \in Conns : conn[c].memory = "live" /\ conn[c].state # "closing"}
CountOK ==
    /\ svc.conn_count = Cardinality(LiveConns) + Cardinality({h \in Handlers : pc[h] \in NewSteps})
    /\ Cardinality(OpenConns) + Cardinality({h \in Handlers : pc[h] = "make"}) <= MaxConns

(* Who closes what. *)
DrainOK ==
    /\ \A t \in Threads : svc.mutex = t => pc[t] \in Marking \cup {"drain_all"}
    /\ \A t \in Threads : pc[t] \in Marking => svc.mutex = t /\ svc.marking # None
    /\ svc.marking # None => svc.mutex # None /\ pc[svc.mutex] \in Marking
    /\ svc.marking # None =>
          conn[svc.marking].state = "keepalive" /\ Ending(svc.marking, "read") > 0

ListOK ==
    /\ IsInjective(svc.alive_list)
    /\ \A c \in ToSet(svc.alive_list) :
          conn[c].state = "keepalive" /\ Ending(c, "read") > 0 /\ svc.marking # c
    /\ \A c \in Conns :
          conn[c].state = "keepalive" /\ Ending(c, "read") > 0 /\ svc.marking # c
             => c \in ToSet(svc.alive_list)
    /\ \A t \in Threads : pc[t] \in Closing => ~svc.listening
    /\ \A t \in Threads : pc[t] = "service_decref" => svc.alive_list = <<>>
    /\ Binding = 0 => ~svc.listening /\ svc.alive_list = <<>>

ConnOK(c) == RefOK(c) /\ TrefOK(c) /\ HandOK(c) /\ StateOK(c) /\ SessionOK(c) /\ GotOK(c)

IInv == /\ ShapeOK /\ ResultsOK /\ \A c \in Conns : ConnOK(c)
        /\ LockOK /\ FinishOK /\ BindOK /\ CountOK /\ DrainOK /\ ListOK

----------------------------------------
(* Counting *)

LEMMA BOK == \A b : B(b) \in {0, 1} /\ (b => B(b) = 1) /\ (~b => B(b) = 0)
  BY DEF B

(* A set that changes in one element at most. *)
LEMMA CardStep ==
  ASSUME NEW S, NEW T, NEW x, IsFiniteSet(S), \A y : y # x => (y \in S <=> y \in T)
  PROVE  /\ IsFiniteSet(T) /\ Cardinality(S) \in Nat /\ Cardinality(T) \in Nat
         /\ Cardinality(T) = Cardinality(S) - B(x \in S) + B(x \in T)
  <1>1. Cardinality(S) \in Nat
    BY FS_CardinalityType
  <1>2. CASE x \in S /\ x \notin T
    BY <1>1, <1>2, FS_RemoveElement, FS_CardinalityType DEF B
  <1>3. CASE x \notin S /\ x \in T
    BY <1>1, <1>3, FS_AddElement, FS_CardinalityType DEF B
  <1>4. CASE x \in S <=> x \in T
    <2>1. T = S
      BY <1>4
    <2> QED
      BY <1>1, <2>1 DEF B
  <1> QED
    BY <1>2, <1>3, <1>4

LEMMA CardPositive ==
  ASSUME NEW S, IsFiniteSet(S)
  PROVE  Cardinality(S) \in Nat /\ (Cardinality(S) > 0 <=> \E x : x \in S)
  BY FS_CardinalityType, FS_EmptySet

LEMMA PlacesFinite ==
  ASSUME NEW T, NEW q \in Seq(T), NEW S
  PROVE  IsFiniteSet({i \in 1 .. Len(q) : q[i] \in S})
  BY FS_Interval, FS_Subset

LEMMA NumPositive ==
  ASSUME NEW T, NEW q \in Seq(T), NEW S
  PROVE  /\ Num(q, S) \in Nat
         /\ Num(q, S) > 0 <=> \E i \in 1 .. Len(q) : q[i] \in S
  <1>1. PICK I : I = {i \in 1 .. Len(q) : q[i] \in S}
    OBVIOUS
  <1>2. IsFiniteSet(I)
    BY <1>1, PlacesFinite
  <1>3. Cardinality(I) \in Nat /\ (Cardinality(I) > 0 <=> \E x : x \in I)
    BY <1>2, CardPositive
  <1> QED
    BY <1>1, <1>3 DEF Num

LEMMA NumEmpty ==
  ASSUME NEW S
  PROVE  Num(<<>>, S) = 0
  BY FS_EmptySet DEF Num

LEMMA NumAppend ==
  ASSUME NEW T, NEW q \in Seq(T), NEW m \in T, NEW S
  PROVE  Num(Append(q, m), S) = Num(q, S) + B(m \in S)
  <1> DEFINE I == {i \in 1 .. Len(q) : q[i] \in S}
             J == {i \in 1 .. Len(Append(q, m)) : Append(q, m)[i] \in S}
             n == Len(q) + 1
  <1>1. /\ Len(q) \in Nat /\ Len(Append(q, m)) = n
        /\ \A i \in 1 .. Len(q) : Append(q, m)[i] = q[i]
        /\ Append(q, m)[n] = m
    OBVIOUS
  <1>2. \A y : y # n => (y \in I <=> y \in J)
    BY <1>1
  <1>3. n \notin I /\ (n \in J <=> m \in S)
    BY <1>1
  <1>4. IsFiniteSet(I)
    BY PlacesFinite
  <1>5. Num(q, S) = Cardinality(I) /\ Num(Append(q, m), S) = Cardinality(J)
    BY DEF Num
  <1> HIDE DEF I, J, n
  <1>6. Cardinality(J) = Cardinality(I) - B(n \in I) + B(n \in J) /\ Cardinality(I) \in Nat
    BY ONLY <1>2, <1>4, CardStep
  <1> QED
    BY <1>3, <1>5, <1>6 DEF B

LEMMA NumTail ==
  ASSUME NEW T, NEW q \in Seq(T), q # <<>>, NEW S
  PROVE  /\ Tail(q) \in Seq(T) /\ Head(q) \in T
         /\ Num(Tail(q), S) = Num(q, S) - B(Head(q) \in S)
  <1> DEFINE I == {i \in 1 .. Len(q) : q[i] \in S}
             I2 == I \ {1}
             J == {i \in 1 .. Len(Tail(q)) : Tail(q)[i] \in S}
             f == [j \in J |-> j + 1]
  <1>1. /\ Len(q) \in Nat /\ Len(q) >= 1 /\ Len(Tail(q)) = Len(q) - 1
        /\ Tail(q) \in Seq(T) /\ Head(q) = q[1] /\ q[1] \in T
        /\ \A i \in 1 .. Len(q) - 1 : Tail(q)[i] = q[i + 1]
    OBVIOUS
  <1>2. IsFiniteSet(J) /\ IsFiniteSet(I)
    BY <1>1, PlacesFinite
  <1>3. f \in Bijection(J, I2)
    <2>1. \A j \in J : j \in Nat /\ j + 1 \in I2
      BY <1>1
    <2>2. f \in [J -> I2]
      BY <2>1
    <2>3. \A a, b \in J : f[a] = f[b] => a = b
      BY <2>1
    <2>4. ASSUME NEW i \in I2 PROVE \E j \in J : f[j] = i
      <3>1. i - 1 \in 1 .. Len(q) - 1 /\ (i - 1) + 1 = i
        BY <1>1
      <3>2. i - 1 \in J
        BY <1>1, <3>1
      <3>3. f[i - 1] = i
        BY <3>1, <3>2
      <3> QED
        BY <3>2, <3>3
    <2> HIDE DEF f, J, I2
    <2> QED
      BY <2>2, <2>3, <2>4 DEF Bijection, Injection, Surjection, IsInjective, Range
  <1>4. Cardinality(I2) = Cardinality(J)
    <2> HIDE DEF f, J, I2
    <2>1. ExistsBijection(J, I2)
      BY <1>3 DEF ExistsBijection
    <2> QED
      BY <1>2, <2>1, FS_Bijection
  <1>5. Cardinality(I2) = Cardinality(I) - B(1 \in I) /\ Cardinality(I) \in Nat
    <2> HIDE DEF I
    <2>1. Cardinality(I \ {1}) = IF 1 \in I THEN Cardinality(I) - 1 ELSE Cardinality(I)
      BY <1>2, FS_RemoveElement
    <2>2. Cardinality(I) \in Nat
      BY <1>2, FS_CardinalityType
    <2> QED
      BY <2>1, <2>2 DEF B
  <1>6. 1 \in I <=> Head(q) \in S
    BY <1>1
  <1>7. Num(q, S) = Cardinality(I) /\ Num(Tail(q), S) = Cardinality(J)
    BY DEF Num
  <1> QED
    BY <1>1, <1>4, <1>5, <1>6, <1>7 DEF B

----------------------------------------
(* Names, and the counts of a state *)

LEMMA Names ==
  /\ Main \notin Handlers /\ None \notin Handlers /\ None # Main /\ None \notin Conns
  /\ None \notin Sessions /\ Main \notin Sessions /\ Handlers \cap Sessions = {}
  /\ Threads = Handlers \cup {Main}
  BY ServerAssumption DEF Threads

LEMMA SessionNames ==
  /\ \A c, k : <<c, k>> \in Sessions <=> c \in Conns /\ k \in 1 .. MaxSeq[c]
  /\ \A s \in Sessions : /\ s = <<s[1], s[2]>> /\ s[1] \in Conns /\ s[2] \in 1 .. MaxSeq[s[1]]
                         /\ s[2] \in Nat /\ s[2] > 0
  /\ \A c \in Conns : MaxSeq[c] \in Nat
  BY ServerAssumption DEF Sessions

LEMMA JNumPositive ==
  ASSUME NEW S, NEW P
  PROVE  JNum(S, P) \in Nat /\ (JNum(S, P) > 0 <=> \E h \in Handlers : job[h] \in S /\ pc[h] \in P)
  BY ServerAssumption, FS_Subset, CardPositive DEF Jobs, JNum

(* One handler moves. *)
JobsElse(h) == \A g \in Handlers : g # h => job'[g] = job[g] /\ pc'[g] = pc[g]

LEMMA JobMove ==
  ASSUME NEW h \in Handlers, JobsElse(h), NEW S, NEW P
  PROVE  JNum(S, P)' = JNum(S, P) - B(job[h] \in S /\ pc[h] \in P)
                       + B(job'[h] \in S /\ pc'[h] \in P)
  <1>1. \A y : y # h => (y \in Jobs(S, P) <=> y \in Jobs(S, P)')
    BY DEF JobsElse, Jobs
  <1>2. IsFiniteSet(Jobs(S, P))
    BY ServerAssumption, FS_Subset DEF Jobs
  <1>3. /\ h \in Jobs(S, P) <=> job[h] \in S /\ pc[h] \in P
        /\ h \in Jobs(S, P)' <=> job'[h] \in S /\ pc'[h] \in P
    BY DEF Jobs
  <1>4. PICK X, Y : X = Jobs(S, P) /\ Y = Jobs(S, P)'
    OBVIOUS
  <1>5. Cardinality(Y) = Cardinality(X) - B(h \in X) + B(h \in Y)
    BY ONLY <1>1, <1>2, <1>4, CardStep
  <1> QED
    BY <1>3, <1>4, <1>5 DEF JNum, B

LEMMA JobsStay ==
  ASSUME \A g \in Handlers : job'[g] = job[g] /\ pc'[g] = pc[g], NEW S, NEW P
  PROVE  JNum(S, P)' = JNum(S, P)
  BY DEF Jobs, JNum

(* One session moves. *)
LEMMA OfConnFinite ==
  ASSUME NEW c \in Conns, NEW P
  PROVE  /\ IsFiniteSet({k \in 1 .. MaxSeq[c] : spc[<<c, k>>] \in P})
         /\ OfConn(c, P) \in Nat
         /\ OfConn(c, P) > 0 <=> \E k \in 1 .. MaxSeq[c] : spc[<<c, k>>] \in P
  <1> DEFINE K == {k \in 1 .. MaxSeq[c] : spc[<<c, k>>] \in P}
  <1>1. IsFiniteSet(1 .. MaxSeq[c])
    BY SessionNames, FS_Interval
  <1>2. K \in SUBSET (1 .. MaxSeq[c])
    OBVIOUS
  <1>3. IsFiniteSet(K)
    <2> HIDE DEF K
    <2> QED
      BY <1>1, <1>2, FS_Subset
  <1>4. Cardinality(K) \in Nat /\ (Cardinality(K) > 0 <=> \E x : x \in K)
    <2> HIDE DEF K
    <2> QED
      BY <1>3, CardPositive
  <1>5. OfConn(c, P) = Cardinality(K)
    BY DEF OfConn
  <1> QED
    BY <1>3, <1>4, <1>5

LEMMA OfConnNext ==
  ASSUME NEW c \in Conns, NEW P
  PROVE  OfConn(c, P)' \in Nat
  <1>1. PICK K : K = {k \in 1 .. MaxSeq[c] : spc'[<<c, k>>] \in P}
    OBVIOUS
  <1>2. IsFiniteSet(1 .. MaxSeq[c])
    BY SessionNames, FS_Interval
  <1>3. IsFiniteSet(K)
    BY <1>1, <1>2, FS_Subset
  <1> QED
    BY <1>1, <1>3, FS_CardinalityType DEF OfConn

LEMMA SessionMove ==
  ASSUME NEW c \in Conns, NEW k \in 1 .. MaxSeq[c],
         \A s \in Sessions : s # <<c, k>> => spc'[s] = spc[s], NEW P
  PROVE  OfConn(c, P)' = OfConn(c, P) - B(spc[<<c, k>>] \in P) + B(spc'[<<c, k>>] \in P)
  <1>1. \A j \in 1 .. MaxSeq[c] : j # k => spc'[<<c, j>>] = spc[<<c, j>>]
    BY SessionNames
  <1>3. PICK X, Y : /\ X = {j \in 1 .. MaxSeq[c] : spc[<<c, j>>] \in P}
                    /\ Y = {j \in 1 .. MaxSeq[c] : spc'[<<c, j>>] \in P}
    OBVIOUS
  <1>4. IsFiniteSet(X)
    BY <1>3, OfConnFinite
  <1>5. \A y : y # k => (y \in X <=> y \in Y)
    BY <1>1, <1>3
  <1>6. Cardinality(Y) = Cardinality(X) - B(k \in X) + B(k \in Y)
    BY ONLY <1>4, <1>5, CardStep
  <1>7. (k \in X <=> spc[<<c, k>>] \in P) /\ (k \in Y <=> spc'[<<c, k>>] \in P)
    BY <1>3
  <1> QED
    BY <1>3, <1>6, <1>7 DEF OfConn, B

LEMMA SessionsStay ==
  ASSUME NEW d \in Conns, NEW P,
         \A k \in 1 .. MaxSeq[d] : spc'[<<d, k>>] = spc[<<d, k>>]
  PROVE  OfConn(d, P)' = OfConn(d, P)
  BY DEF OfConn

(* The queue. *)
LEMMA QueueNum ==
  ASSUME ShapeOK, NEW S
  PROVE  /\ Num(msgqueue, S) \in Nat
         /\ Num(msgqueue, S) > 0 <=> \E i \in 1 .. Len(msgqueue) : msgqueue[i] \in S
  BY NumPositive DEF ShapeOK

LEMMA SendNum ==
  ASSUME ShapeOK, NEW m \in Outcome, msgqueue' = Append(msgqueue, m), NEW S
  PROVE  Num(msgqueue, S)' = Num(msgqueue, S) + B(m \in S)
  BY NumAppend DEF ShapeOK

LEMMA TakeNum ==
  ASSUME ShapeOK, msgqueue # <<>>, msgqueue' = Tail(msgqueue), NEW S
  PROVE  Num(msgqueue, S)' = Num(msgqueue, S) - B(Head(msgqueue) \in S)
  BY NumTail DEF ShapeOK

LEMMA PipeNum ==
  ASSUME NEW r \in Entry, NEW S
  PROVE  /\ Num(r.pipe, S) \in Nat
         /\ Num(r.pipe, S) > 0 <=> \E i \in 1 .. Len(r.pipe) : r.pipe[i] \in S
  BY NumPositive DEF Entry

(* All counts are natural numbers. *)
LEMMA CountTypes ==
  ASSUME ShapeOK, NEW c \in Conns
  PROVE  /\ \A op : NodeTokens(conn[c], c, op) \in Nat /\ Ending(c, op) \in Nat
         /\ Complete(c) \in Nat /\ Held(c) \in Nat /\ Arriving(c) \in Nat
         /\ Undeleted(c) \in Nat /\ Repliers(c) \in Nat
  <1>1. conn[c] \in Entry
    BY DEF ShapeOK
  <1>2. \A op : NodeTokens(conn[c], c, op) \in Nat
    <2>1. \A S : Num(conn[c].pipe, S) \in Nat
      BY <1>1, PipeNum
    <2>2. \A op : B(conn[c].node = op) \in Nat
      BY DEF B
    <2> SUFFICES ASSUME NEW op PROVE NodeTokens(conn[c], c, op) \in Nat
      OBVIOUS
    <2>3. Num(conn[c].pipe, Ends(c, op)) \in Nat /\ B(conn[c].node = op) \in Nat
      BY <2>1, <2>2
    <2> QED
      BY <2>3 DEF NodeTokens
  <1>3. \A op : Num(msgqueue, Ends(c, op)) \in Nat /\ JNum(Ends(c, op), {op}) \in Nat
    BY QueueNum, JNumPositive
  <1>4. \A op : Ending(c, op) \in Nat
    BY <1>2, <1>3 DEF Ending
  <1>5. /\ Num(msgqueue, Completes(c)) \in Nat /\ JNum(Completes(c), {"read"}) \in Nat
        /\ Num(msgqueue, Arrivals(c)) \in Nat
        /\ JNum(Arrivals(c), {"listen"} \cup NewSteps) \in Nat
        /\ JNum(OfEntry(c), {"relist", "finish", "unref"}) \in Nat
    BY QueueNum, JNumPositive
  <1>6. Undeleted(c) \in Nat /\ Repliers(c) \in Nat
    BY OfConnFinite DEF Undeleted, Repliers
  <1> QED
    BY <1>2, <1>4, <1>5, <1>6 DEF Complete, Held, Arriving

(* Where an end may be. *)
LEMMA EndingParts ==
  ASSUME ShapeOK, NEW c \in Conns, NEW op
  PROVE  /\ B(conn[c].node = op) \in Nat /\ Num(conn[c].pipe, Ends(c, op)) \in Nat
         /\ Num(msgqueue, Ends(c, op)) \in Nat /\ JNum(Ends(c, op), {op}) \in Nat
         /\ Ending(c, op) = B(conn[c].node = op) + Num(conn[c].pipe, Ends(c, op))
                            + Num(msgqueue, Ends(c, op)) + JNum(Ends(c, op), {op})
  BY PipeNum, QueueNum, JNumPositive DEF ShapeOK, B, Ending, NodeTokens

LEMMA NodeIsToken ==
  ASSUME ShapeOK, NEW c \in Conns, conn[c].node # "none"
  PROVE  Ending(c, conn[c].node) > 0
  <1>1. PICK op : op = conn[c].node
    OBVIOUS
  <1>2. B(conn[c].node = op) = 1
    BY <1>1 DEF B
  <1>3. PICK n1 \in Nat, n2 \in Nat, n3 \in Nat, n4 \in Nat :
           /\ n1 = B(conn[c].node = op) /\ n2 = Num(conn[c].pipe, Ends(c, op))
           /\ n3 = Num(msgqueue, Ends(c, op)) /\ n4 = JNum(Ends(c, op), {op})
           /\ Ending(c, op) = n1 + n2 + n3 + n4
    <2>1. PICK x1, x2, x3, x4 : /\ x1 = B(conn[c].node = op)
                                /\ x2 = Num(conn[c].pipe, Ends(c, op))
                                /\ x3 = Num(msgqueue, Ends(c, op))
                                /\ x4 = JNum(Ends(c, op), {op})
      OBVIOUS
    <2>2. /\ x1 \in Nat /\ x2 \in Nat /\ x3 \in Nat /\ x4 \in Nat
          /\ Ending(c, op) = x1 + x2 + x3 + x4
      BY <2>1, EndingParts
    <2> QED
      BY <2>1, <2>2
  <1>4. Ending(c, op) > 0
    BY <1>2, <1>3
  <1> QED
    BY <1>1, <1>4

LEMMA JobIsToken ==
  ASSUME ShapeOK, NEW c \in Conns, NEW op, NEW h \in Handlers,
         job[h] \in Ends(c, op), pc[h] = op
  PROVE  /\ Ending(c, op) > 0
         /\ Ending(c, op) = 1 =>
               conn[c].node # op /\ Num(conn[c].pipe, Ends(c, op)) = 0
  <1>1. JNum(Ends(c, op), {op}) > 0
    BY JNumPositive
  <1>2. conn[c].node = op => B(conn[c].node = op) = 1
    BY DEF B
  <1>3. PICK n1 \in Nat, n2 \in Nat, n3 \in Nat, n4 \in Nat :
           /\ n1 = B(conn[c].node = op) /\ n2 = Num(conn[c].pipe, Ends(c, op))
           /\ n3 = Num(msgqueue, Ends(c, op)) /\ n4 = JNum(Ends(c, op), {op})
           /\ Ending(c, op) = n1 + n2 + n3 + n4
    <2>1. PICK x1, x2, x3, x4 : /\ x1 = B(conn[c].node = op)
                                /\ x2 = Num(conn[c].pipe, Ends(c, op))
                                /\ x3 = Num(msgqueue, Ends(c, op))
                                /\ x4 = JNum(Ends(c, op), {op})
      OBVIOUS
    <2>2. /\ x1 \in Nat /\ x2 \in Nat /\ x3 \in Nat /\ x4 \in Nat
          /\ Ending(c, op) = x1 + x2 + x3 + x4
      BY <2>1, EndingParts
    <2> QED
      BY <2>1, <2>2
  <1> QED
    BY <1>1, <1>2, <1>3

----------------------------------------
(* What a step leaves alone *)

(* Nothing that is said of a connection has changed. *)
SameAt(c) ==
    /\ conn'[c] = conn[c]
    /\ \A op \in {"read", "write"} : Ending(c, op)' = Ending(c, op)
    /\ Complete(c)' = Complete(c) /\ Held(c)' = Held(c) /\ Arriving(c)' = Arriving(c)
    /\ Undeleted(c)' = Undeleted(c)
    /\ \A k \in 1 .. MaxSeq[c] : /\ spc'[<<c, k>>] = spc[<<c, k>>]
                                 /\ NoFinisher(c, k)' <=> NoFinisher(c, k)

LEMMA Frame ==
  ASSUME ShapeOK, LockOK, NEW c \in Conns, SameAt(c), ConnOK(c), ~wronged'
  PROVE  ConnOK(c)'
  <1>1. conn[c].seq \in Nat /\ MaxSeq[c] \in Nat /\ conn[c].seq <= MaxSeq[c]
    BY SessionNames DEF ShapeOK, Entry, ConnOK, SessionOK, PastOK, LastOK
  <1>2. conn[c].seq > 0 => conn[c].seq \in 1 .. MaxSeq[c]
    BY <1>1
  <1>3. conn[c].seq > 0 => spc'[<<c, conn[c].seq>>] = spc[<<c, conn[c].seq>>]
                           /\ (NoFinisher(c, conn[c].seq)' <=> NoFinisher(c, conn[c].seq))
    BY <1>2 DEF SameAt
  <1>4. RefOK(c)' /\ TrefOK(c)' /\ StateOK(c)'
    BY DEF SameAt, ConnOK, RefOK, TrefOK, StateOK
  <1>5. HandOK(c)'
    BY <1>3 DEF SameAt, ConnOK, InHand, HandOK, SessionOK, PastOK, LastOK
  <1>6. SessionOK(c)'
    BY <1>1, <1>2, <1>3 DEF SameAt, Settled, ConnOK, SessionOK, PastOK, LastOK, StateOK
  <1>7. GotOK(c)'
    BY <1>2, <1>3, SessionNames DEF LockOK, SameAt, ConnOK, GotOK
  <1> QED
    BY <1>4, <1>5, <1>6, <1>7 DEF ConnOK

(* The results about other connections stay where they are. *)
QueueSame(d) == \A S \in SUBSET Outcome : (\A m \in S : m.conn = d) =>
                    Num(msgqueue, S)' = Num(msgqueue, S)
JobsSame(d) == \A h \in Handlers : job[h].conn = d \/ job'[h].conn = d =>
                    job'[h] = job[h] /\ pc'[h] = pc[h]
SessionsSame(d) == \A k \in 1 .. MaxSeq[d] : spc'[<<d, k>>] = spc[<<d, k>>]

LEMMA Kinds ==
  ASSUME NEW d
  PROVE  /\ \A op : Ends(d, op) \in SUBSET Outcome /\ \A m \in Ends(d, op) : m.conn = d
         /\ Completes(d) \in SUBSET Outcome /\ \A m \in Completes(d) : m.conn = d
         /\ OfEntry(d) \in SUBSET Outcome /\ \A m \in OfEntry(d) : m.conn = d
         /\ Arrivals(d) \in SUBSET Outcome /\ \A m \in Arrivals(d) : m.conn = d
  BY DEF Ends, Completes, OfEntry, Arrivals

LEMMA Elsewhere ==
  ASSUME NEW d \in Conns, conn'[d] = conn[d], QueueSame(d), JobsSame(d), SessionsSame(d)
  PROVE  SameAt(d)
  <1>1. \A S \in SUBSET Outcome : \A P : (\A m \in S : m.conn = d) => JNum(S, P)' = JNum(S, P)
    BY DEF Jobs, JobsSame, JNum
  <1>2. \A op : Ending(d, op)' = Ending(d, op)
    BY <1>1, Kinds DEF Ending, QueueSame, NodeTokens
  <1>3. Complete(d)' = Complete(d) /\ Arriving(d)' = Arriving(d)
    BY <1>1, Kinds DEF Complete, Arriving, QueueSame
  <1>4. Repliers(d)' = Repliers(d) /\ Undeleted(d)' = Undeleted(d)
    BY SessionsStay DEF Repliers, Undeleted, SessionsSame
  <1>5. Held(d)' = Held(d)
    BY <1>1, <1>4, Kinds DEF Held
  <1>6. \A k : NoFinisher(d, k)' <=> NoFinisher(d, k)
    BY DEF NoFinisher, Finishes, JobsSame
  <1> QED
    BY <1>2, <1>3, <1>4, <1>5, <1>6 DEF SameAt, SessionsSame

LEMMA QueueSend ==
  ASSUME ShapeOK, NEW m \in Outcome, msgqueue' = Append(msgqueue, m), NEW d, m.conn # d
  PROVE  QueueSame(d)
  BY SendNum, QueueNum DEF QueueSame, B

LEMMA QueueStays ==
  ASSUME msgqueue' = msgqueue, NEW d
  PROVE  QueueSame(d)
  BY DEF QueueSame, Num

----------------------------------------
(* The poller's threads *)

SameEntry(r, q) ==
    /\ r.state = q.state /\ r.ref = q.ref /\ r.memory = q.memory /\ r.seq = q.seq
    /\ r.tref = q.tref /\ r.mutex = q.mutex /\ r.idle = q.idle

(* What the poller does to a node moves its tokens and is nobody else's
   business. *)
LEMMA PollerStep ==
  ASSUME IInv, ShapeOK', ResultsOK', ~wronged', UNCHANGED <<svc, spc, pc, job>>,
         NEW c \in Conns, NEW r \in Entry, conn' = [conn EXCEPT ![c] = r],
         SameEntry(r, conn[c]),
         \A d \in Conns : d # c => QueueSame(d),
         \A op \in {"read", "write"} : Ending(c, op)' = Ending(c, op),
         Complete(c)' = Complete(c), Num(msgqueue, Arrivals(c))' = Num(msgqueue, Arrivals(c)),
         Num(msgqueue, Unbinds)' = Num(msgqueue, Unbinds),
         HandOK(c)', GotOK(c)', r.memory = "unborn" => r = conn[c]
  PROVE  IInv'
  <1>0. /\ ShapeOK /\ ResultsOK /\ LockOK /\ FinishOK /\ BindOK /\ CountOK /\ DrainOK /\ ListOK
        /\ \A d \in Conns : ConnOK(d)
    BY DEF IInv
  <1>1. /\ conn'[c] = r /\ \A d \in Conns : d # c => conn'[d] = conn[d]
        /\ \A d \in Conns : SameEntry(conn'[d], conn[d])
    BY <1>0 DEF ShapeOK, SameEntry
  <1>2. \A d \in Conns : d # c => SameAt(d)
    BY <1>1, Elsewhere DEF JobsSame, SessionsSame
  <1>3. \A S, P : JNum(S, P)' = JNum(S, P)
    BY JobsStay
  <1>4. /\ Arriving(c)' = Arriving(c) /\ Held(c)' = Held(c) /\ Undeleted(c)' = Undeleted(c)
        /\ Binding' = Binding
    BY <1>3, SessionsStay DEF Arriving, Held, Undeleted, Repliers, Binding
  <1>5. \A d \in Conns : \A k : NoFinisher(d, k)' <=> NoFinisher(d, k)
    BY DEF NoFinisher, Finishes
  <1>6. \A d \in Conns : /\ Ending(d, "read")' = Ending(d, "read")
                         /\ conn'[d].state = conn[d].state /\ conn'[d].seq = conn[d].seq
                         /\ conn'[d].mutex = conn[d].mutex /\ conn'[d].idle = conn[d].idle
                         /\ conn'[d].tref = conn[d].tref /\ conn'[d].memory = conn[d].memory
    BY <1>1, <1>2 DEF SameAt, SameEntry
  <1>7. ConnOK(c)'
    BY <1>0, <1>1, <1>4, <1>5 DEF ConnOK, RefOK, StateOK, SameEntry, TrefOK, Settled, SessionOK,
       PastOK, LastOK
  <1>8. \A d \in Conns : ConnOK(d)'
    BY <1>0, <1>2, <1>7, Frame
  <1>9. LockOK'
    BY <1>0, <1>6, SessionNames DEF ResultsOK, GoodJob, LockOK
  <1>10. FinishOK'
    BY <1>0, <1>6 DEF ResultsOK, GoodJob, FinishAt, FinishOK, Finishes
  <1>11. BindOK'
    BY <1>0, <1>4, <1>6 DEF HeldTargets, BindOK
  <1>12. CountOK'
    BY Zenon, <1>0, <1>6 DEF LiveConns, OpenConns, CountOK
  <1>13. DrainOK'
    BY <1>0, <1>6 DEF ShapeOK, Service, DrainOK
  <1>14. ListOK'
    BY <1>0, <1>4, <1>6 DEF ShapeOK, Service, ToSet, ListOK
  <1> QED
    BY <1>8, <1>9, <1>10, <1>11, <1>12, <1>13, <1>14 DEF IInv

LEMMA LetGoOK ==
  ASSUME NEW q \in Entry
  PROVE  /\ LetGo(q) \in Entry /\ SameEntry(LetGo(q), q)
         /\ LetGo(q).hand = "none" /\ ~LetGo(q).removed /\ LetGo(q).node = q.node
         /\ LetGo(q).pipe = q.pipe /\ LetGo(q).partial = q.partial /\ LetGo(q).got = q.got
  <1>1. LetGo(q) \in Entry
    BY DEF LetGo, Entry
  <1>2. /\ LetGo(q).state = q.state /\ LetGo(q).ref = q.ref /\ LetGo(q).memory = q.memory
        /\ LetGo(q).seq = q.seq /\ LetGo(q).tref = q.tref /\ LetGo(q).mutex = q.mutex
        /\ LetGo(q).hand = "none" /\ LetGo(q).node = q.node
        /\ LetGo(q).pipe = q.pipe /\ LetGo(q).got = q.got
    BY DEF LetGo, Entry
  <1>3. LetGo(q).idle = q.idle
    BY Zenon DEF LetGo, Entry
  <1>4. LetGo(q).partial = q.partial
    BY Zenon DEF LetGo, Entry
  <1>5. LetGo(q).removed = FALSE
    BY DEF LetGo, Entry
  <1> QED
    BY <1>1, <1>2, <1>3, <1>4, <1>5 DEF SameEntry

LEMMA NodeGoneOK ==
  ASSUME NEW q \in Entry
  PROVE  /\ [q EXCEPT !.node = "none"] \in Entry
         /\ SameEntry([q EXCEPT !.node = "none"], q)
         /\ [q EXCEPT !.node = "none"].node = "none"
         /\ [q EXCEPT !.node = "none"].pipe = q.pipe
         /\ [q EXCEPT !.node = "none"].partial = q.partial
         /\ [q EXCEPT !.node = "none"].got = q.got
  <1> DEFINE u == [q EXCEPT !.node = "none"]
  <1>1. u \in Entry
    BY DEF Entry
  <1>2. /\ u.state = q.state /\ u.ref = q.ref /\ u.memory = q.memory
        /\ u.seq = q.seq /\ u.tref = q.tref /\ u.mutex = q.mutex
        /\ u.node = "none" /\ u.pipe = q.pipe /\ u.got = q.got
    BY DEF Entry
  <1>3. u.idle = q.idle
    BY Zenon DEF Entry
  <1>4. u.partial = q.partial
    BY Zenon DEF Entry
  <1> QED
    BY <1>1, <1>2, <1>3, <1>4 DEF SameEntry

(* A record, field by field. *)
Fields(r, state, ref, memory, seq, tref, mutex, idle, node, hand, removed, partial, pipe, got) ==
    /\ r.state = state /\ r.ref = ref /\ r.memory = memory /\ r.seq = seq /\ r.tref = tref
    /\ r.mutex = mutex /\ r.idle = idle /\ r.node = node /\ r.hand = hand
    /\ r.removed = removed /\ r.partial = partial /\ r.pipe = pipe /\ r.got = got

(* What the steps make of an entry. *)
LEMMA NewHand ==
  ASSUME NEW q \in Entry, NEW x \in {"none", "read", "append"}
  PROVE  /\ [q EXCEPT !.hand = x] \in Entry
         /\ Fields([q EXCEPT !.hand = x], q.state, q.ref, q.memory, q.seq, q.tref, q.mutex, q.idle,
                   q.node, x, q.removed, q.partial, q.pipe, q.got)
  BY DEF Entry, Fields

LEMMA NewPartial ==
  ASSUME NEW q \in Entry
  PROVE  /\ [q EXCEPT !.partial = TRUE, !.hand = "read"] \in Entry
         /\ Fields([q EXCEPT !.partial = TRUE, !.hand = "read"], q.state, q.ref, q.memory, q.seq, q.tref, q.mutex, q.idle,
                   q.node, "read", q.removed, TRUE, q.pipe, q.got)
  BY DEF Entry, Fields

LEMMA NewNode ==
  ASSUME NEW q \in Entry
  PROVE  /\ [q EXCEPT !.node = "none", !.got = @ + 1] \in Entry
         /\ Fields([q EXCEPT !.node = "none", !.got = @ + 1], q.state, q.ref, q.memory, q.seq, q.tref, q.mutex, q.idle,
                   "none", q.hand, q.removed, q.partial, q.pipe, q.got + 1)
  <1>1. [q EXCEPT !.node = "none", !.got = @ + 1] \in Entry
    <2>1. PICK r1 \in Entry : r1 = [q EXCEPT !.node = "none"]
      BY DEF Entry
    <2>2. PICK x2 \in Nat : x2 = q.got + 1
      BY DEF Entry
    <2>3. PICK r3 \in Entry : r3 = [r1 EXCEPT !.got = x2]
      BY DEF Entry
    <2> QED
      BY <2>1, <2>2, <2>3 DEF Entry
  <1> QED
    BY <1>1 DEF Entry, Fields

LEMMA NewGot ==
  ASSUME NEW q \in Entry
  PROVE  /\ [q EXCEPT !.got = @ + 1] \in Entry
         /\ Fields([q EXCEPT !.got = @ + 1], q.state, q.ref, q.memory, q.seq, q.tref, q.mutex, q.idle,
                   q.node, q.hand, q.removed, q.partial, q.pipe, q.got + 1)
  BY DEF Entry, Fields

LEMMA NewRequest ==
  ASSUME NEW q \in Entry
  PROVE  /\ [q EXCEPT !.seq = @ + 1, !.state = "receiving", !.tref = @ + 1, !.hand = "append"] \in Entry
         /\ Fields([q EXCEPT !.seq = @ + 1, !.state = "receiving", !.tref = @ + 1, !.hand = "append"], "receiving", q.ref, q.memory, q.seq + 1, q.tref + 1, q.mutex, q.idle,
                   q.node, "append", q.removed, q.partial, q.pipe, q.got)
  <1>1. [q EXCEPT !.seq = @ + 1, !.state = "receiving", !.tref = @ + 1, !.hand = "append"] \in Entry
    <2>1. PICK x1 \in Nat : x1 = q.seq + 1
      BY DEF Entry
    <2>2. PICK r2 \in Entry : r2 = [q EXCEPT !.seq = x1]
      BY DEF Entry
    <2>3. PICK r3 \in Entry : r3 = [r2 EXCEPT !.state = "receiving"]
      BY Zenon DEF Entry
    <2>4. PICK x4 \in Int : x4 = q.tref + 1
      BY DEF Entry
    <2>5. PICK r5 \in Entry : r5 = [r3 EXCEPT !.tref = x4]
      BY DEF Entry
    <2>6. PICK r6 \in Entry : r6 = [r5 EXCEPT !.hand = "append"]
      BY NewHand
    <2> QED
      BY <2>1, <2>2, <2>3, <2>4, <2>5, <2>6 DEF Entry
  <1> QED
    BY <1>1 DEF Entry, Fields

LEMMA NewSuccess ==
  ASSUME NEW q \in Entry
  PROVE  /\ [q EXCEPT !.state = "success", !.partial = FALSE, !.hand = "read"] \in Entry
         /\ Fields([q EXCEPT !.state = "success", !.partial = FALSE, !.hand = "read"], "success", q.ref, q.memory, q.seq, q.tref, q.mutex, q.idle,
                   q.node, "read", q.removed, FALSE, q.pipe, q.got)
  BY DEF Entry, Fields

LEMMA NewPipe ==
  ASSUME NEW q \in Entry, q.pipe # <<>>
  PROVE  /\ [q EXCEPT !.pipe = Tail(@)] \in Entry
         /\ Fields([q EXCEPT !.pipe = Tail(@)], q.state, q.ref, q.memory, q.seq, q.tref, q.mutex, q.idle,
                   q.node, q.hand, q.removed, q.partial, Tail(q.pipe), q.got)
  <1>1. [q EXCEPT !.pipe = Tail(@)] \in Entry
    <2>1. PICK x1 \in Seq(Outcome) : x1 = Tail(q.pipe)
      <3>1. q.pipe \in Seq(Outcome)
        BY DEF Entry
      <3>2. Tail(q.pipe) \in Seq(Outcome)
        BY ONLY <3>1, q.pipe # <<>>
      <3> QED
        BY <3>2
    <2>2. PICK r2 \in Entry : r2 = [q EXCEPT !.pipe = x1]
      BY DEF Entry
    <2> QED
      BY <2>1, <2>2 DEF Entry
  <1> QED
    BY <1>1 DEF Entry, Fields

LEMMA NewState ==
  ASSUME NEW q \in Entry, NEW x \in {"receiving", "closing", "error", "keepalive"}
  PROVE  /\ [q EXCEPT !.state = x] \in Entry
         /\ Fields([q EXCEPT !.state = x], x, q.ref, q.memory, q.seq, q.tref, q.mutex, q.idle,
                   q.node, q.hand, q.removed, q.partial, q.pipe, q.got)
  BY DEF Entry, Fields

LEMMA NewRead ==
  ASSUME NEW q \in Entry
  PROVE  /\ PollerAdd(q) \in Entry
         /\ Fields(PollerAdd(q), q.state, q.ref, q.memory, q.seq, q.tref, q.mutex, q.idle,
                   "read", q.hand, q.removed, FALSE, q.pipe, q.got)
  BY DEF Entry, PollerAdd, Fields

LEMMA NewTref ==
  ASSUME NEW q \in Entry
  PROVE  /\ TargetDecref(q) \in Entry
         /\ Fields(TargetDecref(q), q.state, q.ref, q.memory, q.seq, q.tref - 1, q.mutex, q.idle,
                   q.node, q.hand, q.removed, q.partial, q.pipe, q.got)
  BY DEF Entry, TargetDecref, Fields

LEMMA NewRef ==
  ASSUME NEW q \in Entry
  PROVE  /\ [q EXCEPT !.ref = @ + 1] \in Entry
         /\ Fields([q EXCEPT !.ref = @ + 1], q.state, q.ref + 1, q.memory, q.seq, q.tref, q.mutex, q.idle,
                   q.node, q.hand, q.removed, q.partial, q.pipe, q.got)
  BY DEF Entry, Fields

LEMMA NewIdle ==
  ASSUME NEW q \in Entry
  PROVE  /\ Idle(q) \in Entry
         /\ Fields(Idle(q), "idle", q.ref + 1, q.memory, q.seq, q.tref, q.mutex, TRUE,
                   q.node, q.hand, q.removed, q.partial, q.pipe, q.got)
  <1>1. Idle(q) \in Entry
    <2>1. PICK x1 \in Int : x1 = q.ref + 1
      BY DEF Entry
    <2>2. PICK r2 \in Entry : r2 = [q EXCEPT !.ref = x1]
      BY DEF Entry
    <2>3. PICK r3 \in Entry : r3 = [r2 EXCEPT !.state = "idle"]
      BY Zenon DEF Entry
    <2>4. PICK r4 \in Entry : r4 = [r3 EXCEPT !.idle = TRUE]
      BY DEF Entry
    <2> QED
      BY <2>1, <2>2, <2>3, <2>4 DEF Entry, Idle
  <1> QED
    BY <1>1 DEF Entry, Idle, Fields

LEMMA NewLess ==
  ASSUME NEW q \in Entry, q.ref > 1
  PROVE  /\ EntryDecref(q) \in Entry
         /\ Fields(EntryDecref(q), q.state, q.ref - 1, q.memory, q.seq, q.tref, q.mutex, q.idle,
                   q.node, q.hand, q.removed, q.partial, q.pipe, q.got)
  BY DEF Entry, EntryDecref, Fields

LEMMA NewFreed ==
  ASSUME NEW q \in Entry, ~(q.ref > 1)
  PROVE  /\ EntryDecref(q) \in Entry
         /\ Fields(EntryDecref(q), q.state, 0, "freed", q.seq, q.tref - 1, q.mutex, q.idle,
                   q.node, q.hand, q.removed, q.partial, q.pipe, q.got)
  <1>1. EntryDecref(q) \in Entry
    <2>1. PICK x1 \in Int : x1 = 0
      BY DEF Entry
    <2>2. PICK r2 \in Entry : r2 = [q EXCEPT !.ref = x1]
      BY DEF Entry
    <2>3. PICK r3 \in Entry : r3 = [r2 EXCEPT !.memory = "freed"]
      BY DEF Entry
    <2>4. PICK x4 \in Int : x4 = q.tref - 1
      BY DEF Entry
    <2>5. PICK r5 \in Entry : r5 = [r3 EXCEPT !.tref = x4]
      BY DEF Entry
    <2> QED
      BY <2>1, <2>2, <2>3, <2>4, <2>5 DEF Entry, EntryDecref
  <1> QED
    BY <1>1 DEF Entry, EntryDecref, Fields

LEMMA NewMade ==
  ASSUME NEW q \in Entry
  PROVE  /\ [q EXCEPT !.state = "connected", !.ref = 1, !.memory = "live"] \in Entry
         /\ Fields([q EXCEPT !.state = "connected", !.ref = 1, !.memory = "live"], "connected", 1, "live", q.seq, q.tref, q.mutex, q.idle,
                   q.node, q.hand, q.removed, q.partial, q.pipe, q.got)
  <1>1. [q EXCEPT !.state = "connected", !.ref = 1, !.memory = "live"] \in Entry
    <2>1. PICK r1 \in Entry : r1 = [q EXCEPT !.state = "connected"]
      BY DEF Entry
    <2>2. PICK x2 \in Int : x2 = 1
      BY DEF Entry
    <2>3. PICK r3 \in Entry : r3 = [r1 EXCEPT !.ref = x2]
      BY DEF Entry
    <2>4. PICK r4 \in Entry : r4 = [r3 EXCEPT !.memory = "live"]
      BY Zenon DEF Entry
    <2> QED
      BY <2>1, <2>2, <2>3, <2>4 DEF Entry
  <1> QED
    BY <1>1 DEF Entry, Fields

LEMMA NewMutex ==
  ASSUME NEW q \in Entry, NEW x \in Handlers \cup Sessions \cup {None}
  PROVE  /\ [q EXCEPT !.mutex = x] \in Entry
         /\ Fields([q EXCEPT !.mutex = x], q.state, q.ref, q.memory, q.seq, q.tref, x, q.idle,
                   q.node, q.hand, q.removed, q.partial, q.pipe, q.got)
  BY DEF Entry, Fields

LEMMA NewRetired ==
  ASSUME NEW q \in Entry, NEW c \in Conns, NEW st \in {"DELETED", "MODIFIED"}, NEW op \in {"none", "write"}, Result(q.node, st, c) \in Outcome
  PROVE  /\ Retire(c, q, st, op) \in Entry
         /\ Fields(Retire(c, q, st, op), q.state, q.ref, q.memory, q.seq, q.tref, q.mutex, q.idle,
                   op, q.hand, (q.hand # "none"), q.partial, Append(q.pipe, Result(q.node, st, c)), q.got)
  <1>1. Retire(c, q, st, op) \in Entry
    <2>1. PICK r1 \in Entry : r1 = [q EXCEPT !.node = op]
      BY DEF Entry
    <2>2. PICK r2 \in Entry : r2 = [r1 EXCEPT !.removed = (q.hand # "none")]
      BY Zenon DEF Entry
    <2>3. PICK x3 \in Seq(Outcome) : x3 = Append(q.pipe, Result(q.node, st, c))
      <3>1. q.pipe \in Seq(Outcome)
        BY DEF Entry
      <3>2. Append(q.pipe, Result(q.node, st, c)) \in Seq(Outcome)
        BY ONLY <3>1, Result(q.node, st, c) \in Outcome
      <3> QED
        BY <3>2
    <2>4. PICK r4 \in Entry : r4 = [r2 EXCEPT !.pipe = x3]
      BY DEF Entry
    <2> QED
      BY <2>1, <2>2, <2>3, <2>4 DEF Entry, Retire
  <1> QED
    BY <1>1 DEF Entry, Retire, Fields

LEMMA NewTaken ==
  ASSUME NEW q \in Entry, NEW x \in Handlers \cup Sessions \cup {None}
  PROVE  /\ [q EXCEPT !.idle = FALSE, !.mutex = x] \in Entry
         /\ Fields([q EXCEPT !.idle = FALSE, !.mutex = x], q.state, q.ref, q.memory, q.seq, q.tref, x, FALSE,
                   q.node, q.hand, q.removed, q.partial, q.pipe, q.got)
  BY DEF Entry, Fields

LEMMA NewUnlisted ==
  ASSUME NEW q \in Entry
  PROVE  /\ [q EXCEPT !.idle = @ /\ q.state # "idle"] \in Entry
         /\ Fields([q EXCEPT !.idle = @ /\ q.state # "idle"], q.state, q.ref, q.memory, q.seq, q.tref, q.mutex, (q.idle /\ q.state # "idle"),
                   q.node, q.hand, q.removed, q.partial, q.pipe, q.got)
  BY DEF Entry, Fields

----------------------------------------
(* Steps of the poller's threads *)

LEMMA PollerShape ==
  ASSUME ShapeOK, NEW c \in Conns, NEW r \in Entry, conn' = [conn EXCEPT ![c] = r],
         UNCHANGED <<svc, spc, pc, job>>, msgqueue' \in Seq(Outcome)
  PROVE  ShapeOK'
  BY DEF ShapeOK

LEMMA PollerResults ==
  ASSUME ShapeOK, ResultsOK, UNCHANGED <<pc, job>>,
         NEW c \in Conns, NEW r \in Entry, conn' = [conn EXCEPT ![c] = r],
         r.seq = conn[c].seq,
         \A i \in 1 .. Len(r.pipe) : FromPipe(r.pipe[i], c),
         \/ msgqueue' = msgqueue
         \/ \E m \in Outcome : GoodResult(m) /\ msgqueue' = Append(msgqueue, m)
  PROVE  ResultsOK'
  <1>1. conn'[c] = r /\ \A d \in Conns : d # c => conn'[d] = conn[d]
    BY DEF ShapeOK
  <1>2. \A h \in Handlers : GoodJob(h)'
    BY <1>1 DEF ResultsOK, GoodJob
  <1>3. \A i \in 1 .. Len(msgqueue') : GoodResult(msgqueue'[i])
    BY DEF ResultsOK, ShapeOK
  <1>4. \A d \in Conns : \A i \in 1 .. Len(conn'[d].pipe) : FromPipe(conn'[d].pipe[i], d)
    BY <1>1 DEF ResultsOK
  <1> QED
    BY <1>2, <1>3, <1>4 DEF ResultsOK, GoodResult, FromPipe

LEMMA ResultOK ==
  ASSUME NEW op \in {"none", "listen", "read", "write"},
         NEW st \in {"none", "SUCCESS", "ERROR", "DELETED", "MODIFIED", "FINISHED"},
         NEW c \in Conns \cup {None}
  PROVE  /\ Result(op, st, c) \in Outcome
         /\ Result(op, st, c).op = op /\ Result(op, st, c).st = st /\ Result(op, st, c).conn = c
         /\ Result(op, st, c).seq = 0 /\ Result(op, st, c).out = "none"
  BY DEF Result, Outcome

(* What one more result in the queue is counted as. *)
LEMMA SendCounts ==
  ASSUME ShapeOK, NEW m \in Outcome, msgqueue' = Append(msgqueue, m), NEW c \in Conns
  PROVE  /\ \A op : Num(msgqueue, Ends(c, op))'
                       = Num(msgqueue, Ends(c, op))
                         + B(m.conn = c /\ m.op = op /\ m.st \notin {"SUCCESS", "MODIFIED"})
         /\ Num(msgqueue, Completes(c))' = Num(msgqueue, Completes(c))
                         + B(m.conn = c /\ m.op = "read" /\ m.st = "SUCCESS")
         /\ Num(msgqueue, Arrivals(c))' = Num(msgqueue, Arrivals(c))
                         + B(m.conn = c /\ m.op = "listen" /\ m.st = "SUCCESS")
         /\ Num(msgqueue, Unbinds)' = Num(msgqueue, Unbinds)
                         + B(m.op = "listen" /\ m.st = "DELETED")
         /\ \A S : Num(msgqueue, S) \in Nat
  BY SendNum, QueueNum DEF Ends, Completes, Arrivals, Unbinds, B

(* A node's end, sent by the poller's thread. *)
LEMMA EndNodeStep ==
  ASSUME IInv, NEW c \in Conns, EndNode(c, "ERROR"), conn[c].hand # "none" \/ conn[c].node # "none",
         UNCHANGED <<svc, spc, pc, job>>, ~wronged'
  PROVE  IInv'
  <1>0. /\ ShapeOK /\ ResultsOK /\ ConnOK(c) /\ conn[c] \in Entry
    BY DEF IInv, ShapeOK
  <1> DEFINE q == conn[c]
  <1>1. CASE q.removed
    <2>1. conn' = [conn EXCEPT ![c] = LetGo(q)] /\ msgqueue' = msgqueue
      BY <1>1 DEF EndNode, Set
    <2>2. PICK r \in Entry : /\ r = LetGo(q) /\ SameEntry(r, q) /\ r.hand = "none" /\ ~r.removed
                             /\ r.node = q.node /\ r.pipe = q.pipe /\ r.partial = q.partial
                             /\ r.got = q.got
      BY <1>0, LetGoOK
    <2>3. conn' = [conn EXCEPT ![c] = r] /\ conn'[c] = r
      BY <1>0, <2>1, <2>2 DEF ShapeOK
    <2>4. ShapeOK' /\ ResultsOK'
      BY Zenon, <1>0, <2>1, <2>2, <2>3, PollerShape, PollerResults DEF ShapeOK, ResultsOK, SameEntry
    <2>5. \A S : Num(msgqueue, S)' = Num(msgqueue, S)
      BY <2>1 DEF Num
    <2>6. \A op \in {"read", "write"} : Ending(c, op)' = Ending(c, op)
      BY <2>2, <2>3, <2>5, JobsStay DEF Ending, NodeTokens
    <2>7. Complete(c)' = Complete(c)
      BY <2>5, JobsStay DEF Complete
    <2>8. q.hand # "none" /\ q.node # "read"
      BY <1>0, <1>1 DEF ConnOK, InHand, HandOK
    <2>9. HandOK(c)'
      BY <2>2, <2>3, <2>8 DEF InHand, HandOK
    <2>10. GotOK(c)'
      BY <1>0, <2>2, <2>3, <2>8 DEF ConnOK, GotOK, SameEntry, Entry
    <2>11. r.memory = "unborn" => r = q
      BY <1>0, <2>2, <2>8 DEF ConnOK, TrefOK, SameEntry
    <2>12. \A d \in Conns : QueueSame(d)
      BY <2>1, QueueStays
    <2>13. /\ Num(msgqueue, Arrivals(c))' = Num(msgqueue, Arrivals(c))
           /\ Num(msgqueue, Unbinds)' = Num(msgqueue, Unbinds)
      BY <2>5
    <2> QED
      BY <2>2, <2>3, <2>4, <2>13, <2>6, <2>7, <2>9, <2>10, <2>11, <2>12, PollerStep
  <1>2. CASE ~q.removed
    <2>0. q.node \in {"read", "write"}
      BY <1>0, <1>2 DEF ConnOK, InHand, HandOK, Entry
    <2>1. PICK m \in Outcome :
             /\ m = Result(q.node, "ERROR", c) /\ GoodResult(m)
             /\ m.op = q.node /\ m.st = "ERROR" /\ m.conn = c
      BY <2>0, ResultOK DEF GoodResult
    <2>2. PICK r \in Entry : /\ r = LetGo([q EXCEPT !.node = "none"])
                             /\ SameEntry(r, q) /\ r.hand = "none" /\ ~r.removed
                             /\ r.node = "none" /\ r.pipe = q.pipe /\ r.partial = q.partial
                             /\ r.got = q.got
      <3>1. PICK u \in Entry : /\ u = [q EXCEPT !.node = "none"] /\ SameEntry(u, q)
                               /\ u.node = "none" /\ u.pipe = q.pipe /\ u.partial = q.partial
                               /\ u.got = q.got
        BY <1>0, NodeGoneOK
      <3>2. PICK r \in Entry : /\ r = LetGo(u) /\ SameEntry(r, u) /\ r.hand = "none"
                               /\ ~r.removed /\ r.node = u.node /\ r.pipe = u.pipe
                               /\ r.partial = u.partial /\ r.got = u.got
        BY LetGoOK
      <3>3. r = LetGo([q EXCEPT !.node = "none"]) /\ SameEntry(r, q)
        BY ONLY <3>1, <3>2 DEF SameEntry
      <3>4. r.partial = q.partial
        BY ONLY <3>1, <3>2
      <3> QED
        BY ONLY <3>1, <3>2, <3>3, <3>4
    <2>3. /\ conn' = [conn EXCEPT ![c] = r] /\ conn'[c] = r
          /\ msgqueue' = Append(msgqueue, m)
      BY <1>0, <1>2, <2>1, <2>2 DEF EndNode, Set, Send, ShapeOK
    <2>4. ShapeOK' /\ ResultsOK'
      <3>1. msgqueue' \in Seq(Outcome)
        BY <1>0, <2>3 DEF ShapeOK
      <3>2. \A i \in 1 .. Len(r.pipe) : FromPipe(r.pipe[i], c)
        BY <1>0, <2>2 DEF ResultsOK
      <3>3. r.seq = q.seq
        BY <2>2 DEF SameEntry
      <3> QED
        BY <1>0, <2>1, <2>3, <3>1, <3>2, <3>3, PollerShape, PollerResults
    <2>5. /\ \A op : Num(msgqueue, Ends(c, op))' = Num(msgqueue, Ends(c, op)) + B(q.node = op)
          /\ Num(msgqueue, Completes(c))' = Num(msgqueue, Completes(c))
          /\ Num(msgqueue, Arrivals(c))' = Num(msgqueue, Arrivals(c))
          /\ Num(msgqueue, Unbinds)' = Num(msgqueue, Unbinds)
          /\ \A S : Num(msgqueue, S) \in Nat
      BY <1>0, <2>0, <2>1, <2>3, SendCounts DEF B
    <2>6. \A op \in {"read", "write"} : Ending(c, op)' = Ending(c, op)
      <3> SUFFICES ASSUME NEW op \in {"read", "write"} PROVE Ending(c, op)' = Ending(c, op)
        OBVIOUS
      <3>1. NodeTokens(r, c, op) + B(q.node = op) = NodeTokens(q, c, op)
        BY <1>0, <2>2, PipeNum DEF NodeTokens, B
      <3>2. JNum(Ends(c, op), {op})' = JNum(Ends(c, op), {op}) /\ JNum(Ends(c, op), {op}) \in Nat
        BY JobsStay, JNumPositive
      <3>3. NodeTokens(r, c, op) \in Nat /\ B(q.node = op) \in Nat
        <4>1. Num(r.pipe, Ends(c, op)) \in Nat
          BY PipeNum
        <4>2. \A b : B(b) \in Nat
          BY DEF B
        <4> QED
          BY <4>1, <4>2 DEF NodeTokens
      <3> QED
        BY <2>3, <2>5, <3>1, <3>2, <3>3 DEF Ending
    <2>7. Complete(c)' = Complete(c)
      BY <2>5, JobsStay DEF Complete
    <2>9. HandOK(c)'
      BY <2>2, <2>3 DEF InHand, HandOK
    <2>10. GotOK(c)'
      <3>1. spc' = spc
        OBVIOUS
      <3>2. GotOK(c)
        BY <1>0 DEF ConnOK
      <3> QED
        BY <2>2, <2>3, <3>1, <3>2 DEF GotOK, SameEntry
    <2>11. r.memory # "unborn"
      BY <1>0, <2>0, <2>2, NodeIsToken, CountTypes DEF ConnOK, RefOK, SameEntry
    <2>12. \A d : d # c => QueueSame(d)
      BY <1>0, <2>1, <2>3, QueueSend
    <2> QED
      BY <2>2, <2>3, <2>4, <2>5, <2>6, <2>7, <2>9, <2>10, <2>11, <2>12, PollerStep
  <1> QED
    BY <1>1, <1>2

(* An event that leaves the tokens where they are. *)
LEMMA EventStep ==
  ASSUME IInv, NEW c \in Conns, NEW r \in Entry, conn' = [conn EXCEPT ![c] = r],
         SameEntry(r, conn[c]), r.node = conn[c].node, r.pipe = conn[c].pipe, r.got = conn[c].got,
         conn[c].node = "read" \/ conn[c].hand # "none",
         UNCHANGED <<svc, spc, pc, job, msgqueue, wronged>>, HandOK(c)',
         r.hand = "none" \/ conn[c].node = "read" \/ conn[c].hand # "none"
  PROVE  IInv'
  <1>0. /\ ShapeOK /\ ResultsOK /\ ConnOK(c) /\ conn[c] \in Entry
    BY DEF IInv, ShapeOK
  <1>1. conn'[c] = r
    BY <1>0 DEF ShapeOK
  <1>2. ShapeOK' /\ ResultsOK'
    BY <1>0, PollerShape, PollerResults DEF ShapeOK, ResultsOK, SameEntry
  <1>3. \A S : Num(msgqueue, S)' = Num(msgqueue, S)
    BY DEF Num
  <1>4. \A op \in {"read", "write"} : Ending(c, op)' = Ending(c, op)
    BY <1>1, <1>3, JobsStay DEF Ending, NodeTokens
  <1>5. /\ Complete(c)' = Complete(c)
        /\ Num(msgqueue, Arrivals(c))' = Num(msgqueue, Arrivals(c))
        /\ Num(msgqueue, Unbinds)' = Num(msgqueue, Unbinds)
    BY <1>3, JobsStay DEF Complete
  <1>6. GotOK(c)'
    BY <1>0, <1>1 DEF ConnOK, GotOK, SameEntry
  <1>7. r.memory # "unborn"
    BY <1>0, NodeIsToken, CountTypes DEF ConnOK, TrefOK, RefOK, SameEntry
  <1>8. \A d \in Conns : d # c => QueueSame(d)
    BY QueueStays
  <1>9. ~wronged'
    BY <1>0 DEF ConnOK, GotOK
  <1> QED
    BY <1>2, <1>4, <1>5, <1>6, <1>7, <1>8, <1>9, PollerStep

LEMMA ReadEventStep ==
  ASSUME IInv, NEW c \in Conns, ReadEvent(c)
  PROVE  IInv'
  <1>0. ConnOK(c) /\ conn[c] \in Entry
    BY DEF IInv, ShapeOK
  <1>1. PICK q \in Entry : q = conn[c]
    BY <1>0
  <1>2. PICK r \in Entry : /\ r = [q EXCEPT !.hand = "read"]
                           /\ Fields(r, q.state, q.ref, q.memory, q.seq, q.tref, q.mutex, q.idle,
                                     q.node, "read", q.removed, q.partial, q.pipe, q.got)
    BY NewHand
  <1>3. /\ q.node = "read" /\ q.hand = "none"
        /\ conn' = [conn EXCEPT ![c] = r] /\ conn'[c] = r
        /\ UNCHANGED <<svc, spc, pc, job, msgqueue, wronged>>
    BY <1>1, <1>2 DEF ReadEvent, Set, IInv, ShapeOK
  <1>4. HandOK(c)'
    BY <1>0, <1>1, <1>2, <1>3 DEF ConnOK, InHand, HandOK, Fields
  <1>5. SameEntry(r, q) /\ r.node = q.node /\ r.pipe = q.pipe /\ r.got = q.got
    BY <1>2 DEF SameEntry, Fields
  <1> QED
    BY <1>1, <1>3, <1>4, <1>5, EventStep

LEMMA ReadAgainStep ==
  ASSUME IInv, NEW c \in Conns, ReadAgain(c)
  PROVE  IInv'
  <1>0. ConnOK(c) /\ conn[c] \in Entry
    BY DEF IInv, ShapeOK
  <1>1. PICK q \in Entry : q = conn[c]
    BY <1>0
  <1>2. PICK r \in Entry : /\ r = LetGo(q) /\ SameEntry(r, q) /\ r.hand = "none" /\ ~r.removed
                           /\ r.node = q.node /\ r.pipe = q.pipe /\ r.partial = q.partial
                           /\ r.got = q.got
    BY LetGoOK
  <1>3. /\ q.hand = "read"
        /\ conn' = [conn EXCEPT ![c] = r] /\ conn'[c] = r
        /\ UNCHANGED <<svc, spc, pc, job, msgqueue, wronged>>
    BY <1>1, <1>2 DEF ReadAgain, Set, IInv, ShapeOK
  <1>4. HandOK(c)'
    BY <1>0, <1>1, <1>2, <1>3 DEF ConnOK, InHand, HandOK, SameEntry
  <1> QED
    BY <1>1, <1>2, <1>3, <1>4, EventStep

LEMMA ReadEndsStep ==
  ASSUME IInv, NEW c \in Conns, ReadEnds(c)
  PROVE  IInv'
  BY EndNodeStep DEF ReadEnds, IInv, ConnOK, GotOK

LEMMA AppendMoreStep ==
  ASSUME IInv, NEW c \in Conns,
         conn[c].hand = "append" \/ (conn[c].hand = "read" /\ conn[c].partial),
         conn' = [conn EXCEPT ![c] = [conn[c] EXCEPT !.partial = TRUE, !.hand = "read"]],
         UNCHANGED <<svc, spc, pc, job, msgqueue, wronged>>
  PROVE  IInv'
  <1>0. ConnOK(c) /\ conn[c] \in Entry
    BY DEF IInv, ShapeOK
  <1>1. PICK q \in Entry : q = conn[c]
    BY <1>0
  <1>2. PICK r \in Entry : /\ r = [q EXCEPT !.partial = TRUE, !.hand = "read"]
                           /\ Fields(r, q.state, q.ref, q.memory, q.seq, q.tref, q.mutex, q.idle,
                                     q.node, "read", q.removed, TRUE, q.pipe, q.got)
    BY NewPartial
  <1>3. conn' = [conn EXCEPT ![c] = r] /\ conn'[c] = r
    BY <1>1, <1>2 DEF IInv, ShapeOK
  <1>4. HandOK(c)'
    BY <1>0, <1>1, <1>2, <1>3 DEF ConnOK, InHand, HandOK, Fields
  <1>5. SameEntry(r, q) /\ r.node = q.node /\ r.pipe = q.pipe /\ r.got = q.got
    BY <1>2 DEF SameEntry, Fields
  <1> QED
    BY <1>1, <1>3, <1>4, <1>5, EventStep

LEMMA WriteDoneStep ==
  ASSUME IInv, NEW c \in Conns, conn[c].node = "write", conn[c].hand = "none",
         conn' = [conn EXCEPT ![c] = [conn[c] EXCEPT !.node = "none", !.got = @ + 1]],
         msgqueue' = Append(msgqueue, Result("write", "FINISHED", c)),
         UNCHANGED <<svc, spc, pc, job, wronged>>
  PROVE  IInv'
  <1>0. /\ ShapeOK /\ ResultsOK /\ ConnOK(c) /\ conn[c] \in Entry
    BY DEF IInv, ShapeOK
  <1>1. PICK q \in Entry : q = conn[c] /\ q.node = "write" /\ q.hand = "none"
    BY <1>0
  <1>2. PICK r \in Entry : /\ r = [q EXCEPT !.node = "none", !.got = @ + 1]
                           /\ Fields(r, q.state, q.ref, q.memory, q.seq, q.tref, q.mutex, q.idle,
                                     "none", q.hand, q.removed, q.partial, q.pipe, q.got + 1)
    BY NewNode
  <1>3. conn' = [conn EXCEPT ![c] = r] /\ conn'[c] = r
    BY <1>0, <1>1, <1>2 DEF ShapeOK
  <1>4. PICK m \in Outcome : /\ m = Result("write", "FINISHED", c) /\ GoodResult(m)
                             /\ m.op = "write" /\ m.st = "FINISHED" /\ m.conn = c
    BY ResultOK DEF GoodResult
  <1>5. msgqueue' = Append(msgqueue, m)
    BY <1>4
  <1>6. ShapeOK' /\ ResultsOK'
    <2>1. msgqueue' \in Seq(Outcome)
      BY <1>0, <1>5 DEF ShapeOK
    <2>2. \A i \in 1 .. Len(r.pipe) : FromPipe(r.pipe[i], c)
      BY <1>0, <1>1, <1>2 DEF ResultsOK, Fields
    <2>3. r.seq = conn[c].seq
      BY <1>1, <1>2 DEF Fields
    <2>5. ShapeOK'
      BY <1>0, <1>3, <2>1, PollerShape
    <2>6. ResultsOK'
      BY Zenon, <1>0, <1>3, <1>4, <1>5, <2>2, <2>3, PollerResults
    <2> QED
      BY <2>5, <2>6
  <1>7. /\ \A op : Num(msgqueue, Ends(c, op))' = Num(msgqueue, Ends(c, op)) + B(q.node = op)
        /\ Num(msgqueue, Completes(c))' = Num(msgqueue, Completes(c))
        /\ Num(msgqueue, Arrivals(c))' = Num(msgqueue, Arrivals(c))
        /\ Num(msgqueue, Unbinds)' = Num(msgqueue, Unbinds)
        /\ \A S : Num(msgqueue, S) \in Nat
    BY <1>0, <1>1, <1>4, <1>5, SendCounts DEF B
  <1>8. \A op \in {"read", "write"} : Ending(c, op)' = Ending(c, op)
    <3> SUFFICES ASSUME NEW op \in {"read", "write"} PROVE Ending(c, op)' = Ending(c, op)
      OBVIOUS
    <3>1. NodeTokens(r, c, op) + B(q.node = op) = NodeTokens(q, c, op)
      BY <1>0, <1>2, PipeNum DEF NodeTokens, B, Fields
    <3>2. JNum(Ends(c, op), {op})' = JNum(Ends(c, op), {op}) /\ JNum(Ends(c, op), {op}) \in Nat
      BY JobsStay, JNumPositive
    <3>3. NodeTokens(r, c, op) \in Nat /\ B(q.node = op) \in Nat
      <4>1. Num(r.pipe, Ends(c, op)) \in Nat
        BY PipeNum
      <4>2. \A b : B(b) \in Nat
        BY DEF B
      <4> QED
        BY <4>1, <4>2 DEF NodeTokens
    <3> QED
      BY <1>1, <1>3, <1>7, <3>1, <3>2, <3>3 DEF Ending
  <1>9. Complete(c)' = Complete(c)
    BY <1>7, JobsStay DEF Complete
  <1>10. Ending(c, "write") > 0
    BY <1>0, <1>1, NodeIsToken
  <1>11. HandOK(c)'
    BY <1>0, <1>1, <1>2, <1>3 DEF ConnOK, InHand, HandOK, Fields
  <1>12. GotOK(c)'
    BY <1>0, <1>1, <1>2, <1>3, <1>10 DEF ConnOK, StateOK, GotOK, Entry, SessionOK, PastOK, LastOK,
       Fields
  <1>13. r.memory # "unborn"
    BY <1>0, <1>1, <1>2, <1>10, CountTypes DEF ConnOK, RefOK, Fields
  <1>14. \A d \in Conns : d # c => QueueSame(d)
    BY <1>0, <1>4, <1>5, QueueSend
  <1>15. ~wronged' /\ SameEntry(r, conn[c])
    BY <1>0, <1>1, <1>2 DEF ConnOK, GotOK, SameEntry, Fields
  <1> QED
    BY <1>3, <1>6, <1>7, <1>8, <1>9, <1>11, <1>12, <1>13, <1>14, <1>15, PollerStep

LEMMA WriteEventStep ==
  ASSUME IInv, NEW c \in Conns, WriteEvent(c)
  PROVE  IInv'
  BY EndNodeStep, WriteDoneStep DEF WriteEvent, IInv, ConnOK, GotOK, Set, Send

----------------------------------------
(* Steps of a handler or of a user: what they move *)

(* What a handler with result m at step p counts for. *)
EndIn(m, p, c, op) == m.conn = c /\ m.op = op /\ m.st \notin {"SUCCESS", "MODIFIED"} /\ p = op
CompleteIn(m, p, c) == m.conn = c /\ m.op = "read" /\ m.st = "SUCCESS" /\ p = "read"
HeldIn(m, p, c) == m.conn = c /\ m.op \in {"read", "write"} /\ p \in {"relist", "finish", "unref"}
ArrivalIn(m, p, c) == /\ m.conn = c /\ m.op = "listen" /\ m.st = "SUCCESS"
                      /\ p \in {"listen"} \cup NewSteps
UnbindIn(m, p) == m.op = "listen" /\ m.st = "DELETED" /\ p \in {"listen"} \cup Closing

LEMMA JobCounts ==
  ASSUME ShapeOK, NEW h \in Handlers, JobsElse(h), job'[h] \in Outcome, NEW c \in Conns
  PROVE  /\ \A op : JNum(Ends(c, op), {op})' = JNum(Ends(c, op), {op})
                       - B(EndIn(job[h], pc[h], c, op)) + B(EndIn(job'[h], pc'[h], c, op))
         /\ JNum(Completes(c), {"read"})' = JNum(Completes(c), {"read"})
                       - B(CompleteIn(job[h], pc[h], c)) + B(CompleteIn(job'[h], pc'[h], c))
         /\ JNum(OfEntry(c), {"relist", "finish", "unref"})'
               = JNum(OfEntry(c), {"relist", "finish", "unref"})
                       - B(HeldIn(job[h], pc[h], c)) + B(HeldIn(job'[h], pc'[h], c))
         /\ JNum(Arrivals(c), {"listen"} \cup NewSteps)' = JNum(Arrivals(c), {"listen"} \cup NewSteps)
                       - B(ArrivalIn(job[h], pc[h], c)) + B(ArrivalIn(job'[h], pc'[h], c))
         /\ JNum(Unbinds, {"listen"} \cup Closing)' = JNum(Unbinds, {"listen"} \cup Closing)
                       - B(UnbindIn(job[h], pc[h])) + B(UnbindIn(job'[h], pc'[h]))
         /\ \A S, P : JNum(S, P) \in Nat
  <1>1. job[h] \in Outcome
    BY DEF ShapeOK
  <1>2. \A m \in Outcome : \A p :
           /\ \A op : m \in Ends(c, op) /\ p \in {op} <=> EndIn(m, p, c, op)
           /\ m \in Completes(c) /\ p \in {"read"} <=> CompleteIn(m, p, c)
           /\ m \in OfEntry(c) /\ p \in {"relist", "finish", "unref"} <=> HeldIn(m, p, c)
           /\ m \in Arrivals(c) /\ p \in {"listen"} \cup NewSteps <=> ArrivalIn(m, p, c)
           /\ m \in Unbinds /\ p \in {"listen"} \cup Closing <=> UnbindIn(m, p)
    BY DEF Ends, Completes, OfEntry, Arrivals, Unbinds, EndIn, CompleteIn, HeldIn, ArrivalIn, UnbindIn
  <1>3. \A S, P : JNum(S, P)' = JNum(S, P) - B(job[h] \in S /\ pc[h] \in P)
                                + B(job'[h] \in S /\ pc'[h] \in P)
    BY JobMove
  <1>4. PICK p1, p2 : p1 = pc[h] /\ p2 = pc'[h]
    OBVIOUS
  <1>5. PICK m1 \in Outcome, m2 \in Outcome : m1 = job[h] /\ m2 = job'[h]
    BY <1>1
  <1>6. \A op : JNum(Ends(c, op), {op})' = JNum(Ends(c, op), {op})
                       - B(EndIn(m1, p1, c, op)) + B(EndIn(m2, p2, c, op))
    <2> SUFFICES ASSUME NEW op
                 PROVE  JNum(Ends(c, op), {op})' = JNum(Ends(c, op), {op})
                           - B(EndIn(m1, p1, c, op)) + B(EndIn(m2, p2, c, op))
      OBVIOUS
    <2>1. /\ m1 \in Ends(c, op) /\ p1 \in {op} <=> EndIn(m1, p1, c, op)
          /\ m2 \in Ends(c, op) /\ p2 \in {op} <=> EndIn(m2, p2, c, op)
      BY <1>2
    <2> QED
      BY <1>3, <1>4, <1>5, <2>1 DEF B
  <1>7. JNum(Completes(c), {"read"})' = JNum(Completes(c), {"read"})
                       - B(CompleteIn(m1, p1, c)) + B(CompleteIn(m2, p2, c))
    BY <1>2, <1>3, <1>4, <1>5 DEF B
  <1>8. JNum(OfEntry(c), {"relist", "finish", "unref"})'
               = JNum(OfEntry(c), {"relist", "finish", "unref"})
                       - B(HeldIn(m1, p1, c)) + B(HeldIn(m2, p2, c))
    BY <1>2, <1>3, <1>4, <1>5 DEF B
  <1>9. JNum(Arrivals(c), {"listen"} \cup NewSteps)' = JNum(Arrivals(c), {"listen"} \cup NewSteps)
                       - B(ArrivalIn(m1, p1, c)) + B(ArrivalIn(m2, p2, c))
    BY <1>2, <1>3, <1>4, <1>5 DEF B
  <1>10. JNum(Unbinds, {"listen"} \cup Closing)' = JNum(Unbinds, {"listen"} \cup Closing)
                       - B(UnbindIn(m1, p1)) + B(UnbindIn(m2, p2))
    BY <1>2, <1>3, <1>4, <1>5 DEF B
  <1> QED
    BY <1>4, <1>5, <1>6, <1>7, <1>8, <1>9, <1>10, JNumPositive

(* The connection becomes r and handler h moves. *)
LEMMA MoveCounts ==
  ASSUME ShapeOK, NEW c \in Conns, NEW r \in Entry, conn' = [conn EXCEPT ![c] = r],
         NEW h \in Handlers, JobsElse(h), job'[h] \in Outcome, msgqueue' = msgqueue
  PROVE  /\ \A op : Ending(c, op)' = Ending(c, op)
                       - NodeTokens(conn[c], c, op) + NodeTokens(r, c, op)
                       - B(EndIn(job[h], pc[h], c, op)) + B(EndIn(job'[h], pc'[h], c, op))
         /\ Complete(c)' = Complete(c)
                       - B(CompleteIn(job[h], pc[h], c)) + B(CompleteIn(job'[h], pc'[h], c))
         /\ Held(c)' = Held(c) - Repliers(c) + Repliers(c)'
                       - B(HeldIn(job[h], pc[h], c)) + B(HeldIn(job'[h], pc'[h], c))
         /\ Arriving(c)' = Arriving(c)
                       - B(ArrivalIn(job[h], pc[h], c)) + B(ArrivalIn(job'[h], pc'[h], c))
         /\ \A op : NodeTokens(r, c, op) \in Nat
         /\ Repliers(c)' \in Nat
  <1>1. conn'[c] = r /\ conn[c] \in Entry
    BY DEF ShapeOK
  <1>2. \A b : B(b) \in Nat
    BY DEF B
  <1>3. \A S : Num(msgqueue, S)' = Num(msgqueue, S) /\ Num(msgqueue, S) \in Nat
    BY QueueNum DEF Num
  <1>4. Repliers(c) \in Nat /\ Repliers(c)' \in Nat
    BY OfConnNext, CountTypes DEF Repliers
  <1>5. \A q \in Entry : \A op : NodeTokens(q, c, op) \in Nat
    <2> SUFFICES ASSUME NEW q \in Entry, NEW op PROVE NodeTokens(q, c, op) \in Nat
      OBVIOUS
    <2>1. Num(q.pipe, Ends(c, op)) \in Nat
      BY PipeNum
    <2>2. B(q.node = op) \in Nat
      BY <1>2
    <2> QED
      BY <2>1, <2>2 DEF NodeTokens
  <1>6. \A op : Ending(c, op)' = Ending(c, op)
                       - NodeTokens(conn[c], c, op) + NodeTokens(r, c, op)
                       - B(EndIn(job[h], pc[h], c, op)) + B(EndIn(job'[h], pc'[h], c, op))
    <2> SUFFICES ASSUME NEW op
                 PROVE  Ending(c, op)' = Ending(c, op)
                           - NodeTokens(conn[c], c, op) + NodeTokens(r, c, op)
                           - B(EndIn(job[h], pc[h], c, op)) + B(EndIn(job'[h], pc'[h], c, op))
      OBVIOUS
    <2>1. PICK n1, n2, q1, j1, j2, b1, b2 :
             /\ n1 = NodeTokens(conn[c], c, op) /\ n2 = NodeTokens(r, c, op)
             /\ q1 = Num(msgqueue, Ends(c, op))
             /\ j1 = JNum(Ends(c, op), {op}) /\ j2 = JNum(Ends(c, op), {op})'
             /\ b1 = B(EndIn(job[h], pc[h], c, op)) /\ b2 = B(EndIn(job'[h], pc'[h], c, op))
      OBVIOUS
    <2>2. n1 \in Nat /\ n2 \in Nat /\ q1 \in Nat /\ j1 \in Nat /\ b1 \in Nat /\ b2 \in Nat
      BY <1>1, <1>2, <1>3, <1>5, <2>1, JNumPositive
    <2>3. j2 = j1 - b1 + b2
      BY <2>1, JobCounts
    <2>4. Ending(c, op) = n1 + q1 + j1 /\ Ending(c, op)' = n2 + q1 + j2
      BY <1>1, <1>3, <2>1 DEF Ending
    <2>5. n2 + q1 + j2 = (n1 + q1 + j1) - n1 + n2 - b1 + b2
      BY ONLY <2>2, <2>3
    <2> QED
      BY <2>1, <2>4, <2>5
  <1>7. Complete(c)' = Complete(c)
                       - B(CompleteIn(job[h], pc[h], c)) + B(CompleteIn(job'[h], pc'[h], c))
    <2>1. PICK q1, j1, j2, b1, b2 :
             /\ q1 = Num(msgqueue, Completes(c))
             /\ j1 = JNum(Completes(c), {"read"}) /\ j2 = JNum(Completes(c), {"read"})'
             /\ b1 = B(CompleteIn(job[h], pc[h], c)) /\ b2 = B(CompleteIn(job'[h], pc'[h], c))
      OBVIOUS
    <2>2. q1 \in Nat /\ j1 \in Nat /\ b1 \in Nat /\ b2 \in Nat
      BY <1>2, <1>3, <2>1, JNumPositive
    <2>3. j2 = j1 - b1 + b2
      BY <2>1, JobCounts
    <2>4. Complete(c) = q1 + j1 /\ Complete(c)' = q1 + j2
      BY <1>3, <2>1 DEF Complete
    <2>5. q1 + j2 = (q1 + j1) - b1 + b2
      BY ONLY <2>2, <2>3
    <2> QED
      BY <2>1, <2>4, <2>5
  <1>8. Held(c)' = Held(c) - Repliers(c) + Repliers(c)'
                       - B(HeldIn(job[h], pc[h], c)) + B(HeldIn(job'[h], pc'[h], c))
    <2>1. PICK r1, r2, j1, j2, b1, b2 :
             /\ r1 = Repliers(c) /\ r2 = Repliers(c)'
             /\ j1 = JNum(OfEntry(c), {"relist", "finish", "unref"})
             /\ j2 = JNum(OfEntry(c), {"relist", "finish", "unref"})'
             /\ b1 = B(HeldIn(job[h], pc[h], c)) /\ b2 = B(HeldIn(job'[h], pc'[h], c))
      OBVIOUS
    <2>2. r1 \in Nat /\ r2 \in Nat /\ j1 \in Nat /\ b1 \in Nat /\ b2 \in Nat
      BY <1>2, <1>4, <2>1, JNumPositive
    <2>3. j2 = j1 - b1 + b2
      BY <2>1, JobCounts
    <2>4. Held(c) = j1 + r1 /\ Held(c)' = j2 + r2
      BY <2>1 DEF Held
    <2>5. j2 + r2 = (j1 + r1) - r1 + r2 - b1 + b2
      BY ONLY <2>2, <2>3
    <2> QED
      BY <2>1, <2>4, <2>5
  <1>9. Arriving(c)' = Arriving(c)
                       - B(ArrivalIn(job[h], pc[h], c)) + B(ArrivalIn(job'[h], pc'[h], c))
    <2>1. PICK q1, j1, j2, b1, b2 :
             /\ q1 = Num(msgqueue, Arrivals(c))
             /\ j1 = JNum(Arrivals(c), {"listen"} \cup NewSteps)
             /\ j2 = JNum(Arrivals(c), {"listen"} \cup NewSteps)'
             /\ b1 = B(ArrivalIn(job[h], pc[h], c)) /\ b2 = B(ArrivalIn(job'[h], pc'[h], c))
      OBVIOUS
    <2>2. q1 \in Nat /\ j1 \in Nat /\ b1 \in Nat /\ b2 \in Nat
      BY <1>2, <1>3, <2>1, JNumPositive
    <2>3. j2 = j1 - b1 + b2
      BY <2>1, JobCounts
    <2>4. Arriving(c) = q1 + j1 /\ Arriving(c)' = q1 + j2
      BY <1>3, <2>1 DEF Arriving
    <2>5. q1 + j2 = (q1 + j1) - b1 + b2
      BY ONLY <2>2, <2>3
    <2> QED
      BY <2>1, <2>4, <2>5
  <1> QED
    BY <1>4, <1>5, <1>6, <1>7, <1>8, <1>9

(* The counts of targets, entries and open connections. *)
LEMMA ConnCounts ==
  ASSUME ShapeOK, NEW c \in Conns, NEW r \in Entry, conn' = [conn EXCEPT ![c] = r]
  PROVE  /\ Cardinality(HeldTargets) \in Nat /\ Cardinality(LiveConns) \in Nat
         /\ Cardinality(OpenConns) \in Nat
         /\ Cardinality(HeldTargets)' = Cardinality(HeldTargets) - B(conn[c].tref > 0) + B(r.tref > 0)
         /\ Cardinality(LiveConns)' = Cardinality(LiveConns)
               - B(conn[c].memory = "live") + B(r.memory = "live")
         /\ Cardinality(OpenConns)' = Cardinality(OpenConns)
               - B(conn[c].memory = "live" /\ conn[c].state # "closing")
               + B(r.memory = "live" /\ r.state # "closing")
         /\ conn[c].tref > 0 => Cardinality(HeldTargets) >= 1
  <1>0. conn'[c] = r /\ \A d \in Conns : d # c => conn'[d] = conn[d]
    BY DEF ShapeOK
  <1>1. PICK X1, X2, Y1, Y2, Z1, Z2 :
           /\ X1 = HeldTargets /\ X2 = HeldTargets'
           /\ Y1 = LiveConns /\ Y2 = LiveConns'
           /\ Z1 = OpenConns /\ Z2 = OpenConns'
    OBVIOUS
  <1>2. IsFiniteSet(X1) /\ IsFiniteSet(Y1) /\ IsFiniteSet(Z1)
    BY <1>1, FS_Subset, ServerAssumption DEF HeldTargets, LiveConns, OpenConns
  <1>3. /\ \A y : y # c => (y \in X1 <=> y \in X2)
        /\ \A y : y # c => (y \in Y1 <=> y \in Y2)
        /\ \A y : y # c => (y \in Z1 <=> y \in Z2)
    BY <1>0, <1>1 DEF HeldTargets, LiveConns, OpenConns
  <1>4. /\ Cardinality(X1) \in Nat /\ Cardinality(Y1) \in Nat /\ Cardinality(Z1) \in Nat
        /\ Cardinality(X2) = Cardinality(X1) - B(c \in X1) + B(c \in X2)
        /\ Cardinality(Y2) = Cardinality(Y1) - B(c \in Y1) + B(c \in Y2)
        /\ Cardinality(Z2) = Cardinality(Z1) - B(c \in Z1) + B(c \in Z2)
    BY ONLY <1>2, <1>3, CardStep
  <1>5. /\ c \in X1 <=> conn[c].tref > 0
        /\ c \in X2 <=> r.tref > 0
        /\ c \in Y1 <=> conn[c].memory = "live"
        /\ c \in Y2 <=> r.memory = "live"
        /\ c \in Z1 <=> conn[c].memory = "live" /\ conn[c].state # "closing"
        /\ c \in Z2 <=> r.memory = "live" /\ r.state # "closing"
    BY <1>0, <1>1 DEF HeldTargets, LiveConns, OpenConns
  <1>6. conn[c].tref > 0 => Cardinality(X1) >= 1
    BY <1>2, <1>5, CardPositive
  <1>7. /\ B(c \in X1) = B(conn[c].tref > 0)
        /\ B(c \in X2) = B(r.tref > 0)
        /\ B(c \in Y1) = B(conn[c].memory = "live")
        /\ B(c \in Y2) = B(r.memory = "live")
        /\ B(c \in Z1) = B(conn[c].memory = "live" /\ conn[c].state # "closing")
        /\ B(c \in Z2) = B(r.memory = "live" /\ r.state # "closing")
    BY <1>5 DEF B
  <1>8. /\ Cardinality(HeldTargets)' = Cardinality(X2) /\ Cardinality(LiveConns)' = Cardinality(Y2)
        /\ Cardinality(OpenConns)' = Cardinality(Z2)
    BY <1>1
  <1> QED
    BY <1>1, <1>4, <1>6, <1>7, <1>8

(* The listed connections that wait for a request. *)
Waits(c) == conn[c].state = "keepalive" /\ Ending(c, "read") > 0

LEMMA ServiceSame ==
  ASSUME IInv, svc'.mutex = svc.mutex, svc'.marking = svc.marking,
         svc'.alive_list = svc.alive_list, svc'.listening = svc.listening,
         \A t \in Threads : \/ pc'[t] = pc[t]
                            \/ pc'[t] \notin Closing \cup Marking /\ pc[t] \notin Closing \cup Marking,
         Binding' = Binding, \A d \in Conns : Waits(d)' <=> Waits(d)
  PROVE  DrainOK' /\ ListOK'
  <1>0. DrainOK /\ ListOK /\ svc.marking \in Conns \cup {None} /\ svc.alive_list \in Seq(Conns)
        /\ svc.mutex \in Threads \cup {None}
    BY DEF IInv, ShapeOK, Service
  <1>1. \A t \in Threads : /\ pc'[t] \in Marking <=> pc[t] \in Marking
                           /\ pc'[t] \in Closing <=> pc[t] \in Closing
                           /\ pc'[t] = "drain_all" <=> pc[t] = "drain_all"
                           /\ pc'[t] = "service_decref" <=> pc[t] = "service_decref"
    BY DEF Closing, Marking
  <1>2. DrainOK'
    BY <1>0, <1>1 DEF DrainOK, Waits
  <1>3. ListOK'
    BY <1>0, <1>1 DEF Waits, ToSet, ListOK
  <1> QED
    BY <1>2, <1>3

LEMMA LockSame ==
  ASSUME LockOK, ShapeOK, ResultsOK,
         \A d \in Conns : conn'[d].mutex = conn[d].mutex /\ conn'[d].seq = conn[d].seq,
         \A d \in Conns : conn[d].mutex # None => conn'[d].state = "idle" /\ ~conn'[d].idle,
         \A s \in Sessions : \/ spc'[s] = spc[s]
                             \/ spc[s] \notin Lockers /\ spc'[s] \notin Lockers
                             \/ spc[s] \in Lockers /\ spc'[s] \in Lockers,
         \A h \in Handlers : \/ pc'[h] = pc[h] /\ job'[h] = job[h]
                             \/ pc'[h] # "relist" /\ pc[h] # "relist"
  PROVE  LockOK'
  <1>1. \A d \in Conns :
          LET r == conn[d] IN
          /\ r.mutex \in Handlers => pc[r.mutex] = "relist" /\ job[r.mutex].conn = d
          /\ r.mutex \in Sessions => r.mutex = <<d, r.seq>> /\ spc[r.mutex] \in Lockers
    BY DEF LockOK
  <1>2. \A d \in Conns :
          /\ conn'[d].mutex # None => conn'[d].state = "idle" /\ ~conn'[d].idle
          /\ conn'[d].mutex \in Handlers => pc'[conn'[d].mutex] = "relist" /\ job'[conn'[d].mutex].conn = d
          /\ conn'[d].mutex \in Sessions => conn'[d].mutex = <<d, conn'[d].seq>>
                                            /\ spc'[conn'[d].mutex] \in Lockers
    BY <1>1
  <1>3. \A s \in Sessions : spc'[s] \in Lockers => conn'[s[1]].mutex = s
    BY SessionNames DEF LockOK
  <1>4. \A h \in Handlers : pc'[h] = "relist" => conn'[job'[h].conn].mutex = h
    BY DEF ResultsOK, GoodJob, LockOK
  <1> QED
    BY <1>2, <1>3, <1>4 DEF LockOK

(* A handler that does not move. *)
LEMMA FinishKept ==
  ASSUME ShapeOK, ResultsOK, NEW g \in Handlers, FinishAt(g), pc'[g] = pc[g], job'[g] = job[g],
         \A d \in Conns : \A s \in Sessions :
            d = job[g].conn /\ s = <<job[g].conn, job[g].seq>> =>
               /\ pc[g] \in {"relist", "read", "write"} => conn'[d].seq = conn[d].seq
               /\ pc[g] = "relist" => Ending(d, "read")' > 0
               /\ pc[g] \in {"relist", "finish"} =>
                     \/ spc'[s] = spc[s] \/ spc[s] \notin {"reading", "given", "unlock"}
                     \/ spc[s] = "unlock" /\ spc'[s] = "given",
         job[g].conn \in Conns /\ pc[g] \in {"relist", "finish"} =>
            job[g].seq \in 1 .. MaxSeq[job[g].conn],
         \A d \in Conns : d = job[g].conn /\ pc[g] \in {"read", "write"} => conn'[d].seq = conn[d].seq
  PROVE  FinishAt(g)'
  <1>1. pc[g] \in {"relist", "finish", "read", "write"} => job[g].conn \in Conns
    BY DEF ResultsOK, GoodJob
  <1>2. CASE pc[g] \in {"read", "write"}
    BY <1>1, <1>2 DEF FinishAt
  <1>3. CASE pc[g] \in {"relist", "finish"}
    BY <1>1, <1>3, SessionNames DEF FinishAt
  <1>4. CASE pc[g] \notin {"relist", "finish", "read", "write"}
    BY <1>4 DEF FinishAt
  <1> QED
    BY <1>2, <1>3, <1>4

(* A result's session. *)
LEMMA JobSeq ==
  ASSUME IInv, NEW g \in Handlers, pc[g] \in {"relist", "finish"}
  PROVE  /\ job[g].conn \in Conns /\ job[g].seq \in 1 .. MaxSeq[job[g].conn]
         /\ <<job[g].conn, job[g].seq>> \in Sessions
  <1>1. job[g].conn \in Conns /\ job[g].seq \in 1 .. conn[job[g].conn].seq
    BY DEF IInv, ResultsOK, GoodJob
  <1>2. PICK c \in Conns : c = job[g].conn
    BY <1>1
  <1>3. conn[c].seq \in Nat /\ MaxSeq[c] \in Nat /\ conn[c].seq <= MaxSeq[c]
    BY SessionNames DEF IInv, ConnOK, SessionOK, PastOK, LastOK, ShapeOK, Entry
  <1>4. job[g].seq \in 1 .. MaxSeq[c]
    BY <1>1, <1>2, <1>3
  <1> QED
    BY <1>2, <1>4, SessionNames

LEMMA ReleasedOK ==
  ASSUME NEW v \in Service, NEW old, NEW new
  PROVE  /\ Released(v, old, new) \in Service
         /\ Released(v, old, new).mutex = v.mutex
         /\ Released(v, old, new).marking = v.marking
         /\ Released(v, old, new).alive_list = v.alive_list
         /\ Released(v, old, new).listening = v.listening
         /\ Released(v, old, new).node = v.node
         /\ Released(v, old, new).conn_count
               = v.conn_count - B(old.memory = "live" /\ new.memory = "freed")
         /\ Released(v, old, new).ref = v.ref - B(old.tref > 0 /\ new.tref = 0)
         /\ Released(v, old, new).unbound
               = v.unbound + B(old.tref > 0 /\ new.tref = 0 /\ v.ref = 1)
  <1> DEFINE n == v.conn_count - 1
             u == [v EXCEPT !.conn_count = @ - 1]
             w == IF old.memory = "live" /\ new.memory = "freed" THEN u ELSE v
             x == [w EXCEPT !.ref = @ - 1, !.unbound = IF w.ref = 1 THEN @ + 1 ELSE @]
  <1>1. /\ u \in Service /\ u.mutex = v.mutex /\ u.marking = v.marking /\ u.alive_list = v.alive_list
        /\ u.node = v.node /\ u.conn_count = v.conn_count - 1
        /\ u.ref = v.ref /\ u.unbound = v.unbound
    BY DEF Service
  <1>2. u.listening = v.listening
    BY Zenon DEF Service
  <1>3. /\ w \in Service /\ w.mutex = v.mutex /\ w.marking = v.marking /\ w.alive_list = v.alive_list
        /\ w.node = v.node
        /\ w.conn_count = v.conn_count - B(old.memory = "live" /\ new.memory = "freed")
        /\ w.ref = v.ref /\ w.unbound = v.unbound
    <2> HIDE DEF u
    <2> QED
      BY <1>1 DEF B, Service
  <1>4. w.listening = v.listening
    <2> HIDE DEF u
    <2> QED
      BY <1>2
  <1>5. /\ x \in Service /\ x.mutex = w.mutex /\ x.marking = w.marking /\ x.alive_list = w.alive_list
        /\ x.node = w.node /\ x.conn_count = w.conn_count
        /\ x.ref = w.ref - 1 /\ x.unbound = w.unbound + B(w.ref = 1)
    <2> HIDE DEF w
    <2>1. PICK z \in Service : z = w
      BY <1>3
    <2>2. PICK a \in Int, b \in Int : a = z.ref - 1 /\ b = IF z.ref = 1 THEN z.unbound + 1 ELSE z.unbound
      BY DEF Service
    <2>3. PICK y1 \in Service : y1 = [z EXCEPT !.ref = a]
      BY DEF Service
    <2>4. [y1 EXCEPT !.unbound = b] \in Service
      BY DEF Service
    <2>5. x = [y1 EXCEPT !.unbound = b]
      BY <2>1, <2>2, <2>3 DEF Service
    <2>6. /\ x.mutex = z.mutex /\ x.marking = z.marking /\ x.alive_list = z.alive_list
          /\ x.node = z.node /\ x.conn_count = z.conn_count
          /\ x.ref = z.ref - 1 /\ x.unbound = z.unbound + B(z.ref = 1)
      BY <2>1 DEF Service, B
    <2> QED
      BY <2>1, <2>4, <2>5, <2>6
  <1>6. x.listening = w.listening
    <2> HIDE DEF w
    <2> QED
      BY <1>3, Zenon DEF Service
  <1>7. Released(v, old, new) = IF old.tref > 0 /\ new.tref = 0 THEN x ELSE w
    BY DEF Released, Uncounted, ServiceDecref
  <1> HIDE DEF u, w, x
  <1>8. CASE old.tref > 0 /\ new.tref = 0
    BY <1>3, <1>4, <1>5, <1>6, <1>7, <1>8 DEF B
  <1>9. CASE ~(old.tref > 0 /\ new.tref = 0)
    BY <1>3, <1>4, <1>7, <1>9 DEF Service, B
  <1> QED
    BY <1>8, <1>9

(* The service's count and the server's. *)
LEMMA ReleasedStep ==
  ASSUME IInv, NEW c \in Conns, NEW r \in Entry, conn' = [conn EXCEPT ![c] = r],
         svc' = Released(svc, conn[c], r), conn[c].tref > 0, r.tref >= 0,
         r.memory = conn[c].memory \/ (conn[c].memory = "live" /\ r.memory = "freed"),
         r.memory = "live" /\ r.state # "closing" => conn[c].state # "closing",
         Binding' = Binding, pc'[Main] = pc[Main],
         {h \in Handlers : pc'[h] \in NewSteps} = {h \in Handlers : pc[h] \in NewSteps},
         {h \in Handlers : pc'[h] = "make"} = {h \in Handlers : pc[h] = "make"}
  PROVE  BindOK' /\ CountOK'
  <1>0. ShapeOK /\ BindOK /\ CountOK /\ svc \in Service /\ conn[c] \in Entry
    BY DEF IInv, ShapeOK
  <1>1. /\ Cardinality(HeldTargets) \in Nat /\ Cardinality(LiveConns) \in Nat
        /\ Cardinality(OpenConns) \in Nat
        /\ Cardinality(HeldTargets)' = Cardinality(HeldTargets) - B(conn[c].tref > 0) + B(r.tref > 0)
        /\ Cardinality(LiveConns)' = Cardinality(LiveConns)
               - B(conn[c].memory = "live") + B(r.memory = "live")
        /\ Cardinality(OpenConns)' = Cardinality(OpenConns)
               - B(conn[c].memory = "live" /\ conn[c].state # "closing")
               + B(r.memory = "live" /\ r.state # "closing")
        /\ Cardinality(HeldTargets) >= 1
    BY <1>0, ConnCounts
  <1>2. /\ svc'.node = svc.node
        /\ svc'.conn_count = svc.conn_count - B(conn[c].memory = "live" /\ r.memory = "freed")
        /\ svc'.ref = svc.ref - B(conn[c].tref > 0 /\ r.tref = 0)
        /\ svc'.unbound = svc.unbound + B(conn[c].tref > 0 /\ r.tref = 0 /\ svc.ref = 1)
    BY <1>0, ReleasedOK
  <1>3. Binding \in Nat
    BY <1>0, QueueNum, JNumPositive DEF B, Binding
  <1>4. svc.ref \in Int /\ svc.unbound \in Int /\ svc.conn_count \in Int /\ r.tref \in Int
    BY <1>0 DEF Service, Entry
  <1>5. BindOK'
    <2>1. BindOK
      BY <1>0
    <2> QED
      BY <1>1, <1>2, <1>3, <1>4, <2>1 DEF BindOK, B
  <1>6. CountOK'
    <2>1. svc.conn_count = Cardinality(LiveConns) + Cardinality({h \in Handlers : pc[h] \in NewSteps})
          /\ Cardinality(OpenConns) + Cardinality({h \in Handlers : pc[h] = "make"}) <= MaxConns
      BY <1>0 DEF CountOK
    <2>2. PICK n1 \in Nat, n2 \in Nat : /\ n1 = Cardinality({h \in Handlers : pc[h] \in NewSteps})
                                        /\ n2 = Cardinality({h \in Handlers : pc[h] = "make"})
      BY FS_Subset, ServerAssumption, FS_CardinalityType
    <2>3. svc'.conn_count = Cardinality(LiveConns)' + n1
      BY <1>1, <1>2, <1>4, <2>1, <2>2 DEF B
    <2>4. Cardinality(OpenConns)' <= Cardinality(OpenConns) /\ Cardinality(OpenConns)' \in Int
      BY <1>1 DEF B
    <2>5. Cardinality(OpenConns)' + n2 <= MaxConns
      BY <1>1, <2>1, <2>2, <2>4, ServerAssumption
    <2> QED
      BY <2>2, <2>3, <2>5 DEF CountOK
  <1> QED
    BY <1>5, <1>6

(* The results of the other handlers. *)
LEMMA ResultsKept ==
  ASSUME ShapeOK, ResultsOK, NEW h \in Handlers, JobsElse(h), GoodJob(h)', msgqueue' = msgqueue,
         NEW c \in Conns, NEW r \in Entry, conn' = [conn EXCEPT ![c] = r], r.seq >= conn[c].seq,
         \A i \in 1 .. Len(r.pipe) : FromPipe(r.pipe[i], c)
  PROVE  ResultsOK'
  <1>1. conn'[c] = r /\ \A d \in Conns : d # c => conn'[d] = conn[d]
    BY DEF ShapeOK
  <1>2. \A d \in Conns : conn'[d].seq \in Nat /\ conn[d].seq \in Nat /\ conn'[d].seq >= conn[d].seq
    <2>1. r.seq \in Nat /\ \A d \in Conns : conn[d].seq \in Nat
      BY DEF ShapeOK, Entry
    <2> QED
      BY <1>1, <2>1
  <1>3. \A g \in Handlers : GoodJob(g)'
    <2> SUFFICES ASSUME NEW g \in Handlers, g # h PROVE GoodJob(g)'
      OBVIOUS
    <2>1. job'[g] = job[g] /\ pc'[g] = pc[g] /\ GoodJob(g)
      BY DEF JobsElse, ResultsOK
    <2>2. pc[g] \in {"relist", "finish"} => job[g].conn \in Conns
      BY <2>1 DEF GoodJob
    <2>3. pc[g] \in {"relist", "finish"} => job[g].seq \in 1 .. conn'[job[g].conn].seq
      BY <1>2, <2>1, <2>2 DEF GoodJob, ShapeOK, Outcome
    <2> QED
      BY <2>1, <2>3 DEF GoodJob, GoodResult
  <1>4. \A d \in Conns : \A i \in 1 .. Len(conn'[d].pipe) : FromPipe(conn'[d].pipe[i], d)
    BY <1>1 DEF ResultsOK
  <1>5. \A i \in 1 .. Len(msgqueue') : GoodResult(msgqueue'[i])
    BY DEF ResultsOK
  <1> QED
    BY <1>3, <1>4, <1>5 DEF ResultsOK, GoodResult, FromPipe

(* A node that another thread takes from the poller's: its end comes out of
   the pipe. *)
LEMMA RetireOK ==
  ASSUME NEW c \in Conns, NEW q \in Entry, q.node # "none", InHand(q, c),
         \A i \in 1 .. Len(q.pipe) : FromPipe(q.pipe[i], c),
         NEW st \in {"DELETED", "MODIFIED"}, NEW op \in {"none", "write"},
         st = "DELETED" => op = "none" /\ (q.hand # "none" => q.node = "read"),
         st = "MODIFIED" => op = "write"
  PROVE  /\ Retire(c, q, st, op) \in Entry
         /\ \E pipe \in Seq(Outcome) :
               Fields(Retire(c, q, st, op), q.state, q.ref, q.memory, q.seq, q.tref, q.mutex, q.idle,
                      op, q.hand, (q.hand # "none"), q.partial, pipe, q.got)
         /\ \A o \in {"read", "write"} :
               NodeTokens(Retire(c, q, st, op), c, o)
                  = NodeTokens(q, c, o) - B(o = q.node /\ st = "MODIFIED") + B(o = op)
         /\ InHand(Retire(c, q, st, op), c)
         /\ \A i \in 1 .. Len(Retire(c, q, st, op).pipe) : FromPipe(Retire(c, q, st, op).pipe[i], c)
  <1>1. PICK m \in Outcome : m = Result(q.node, st, c) /\ m.op = q.node /\ m.st = st /\ m.conn = c
    BY ResultOK DEF Entry
  <1>2. PICK r \in Entry :
           /\ r = Retire(c, q, st, op)
           /\ Fields(r, q.state, q.ref, q.memory, q.seq, q.tref, q.mutex, q.idle,
                     op, q.hand, (q.hand # "none"), q.partial, Append(q.pipe, m), q.got)
    BY <1>1, NewRetired
  <1>3. q.pipe \in Seq(Outcome) /\ r.pipe = Append(q.pipe, m) /\ r.node = op /\ r.hand = q.hand
    BY <1>2 DEF Fields, Entry
  <1>4. r.removed <=> r.hand # "none"
    BY <1>2 DEF Fields
  <1>5. \A o : Num(r.pipe, Ends(c, o)) = Num(q.pipe, Ends(c, o)) + B(m \in Ends(c, o))
               /\ Num(q.pipe, Ends(c, o)) \in Nat
    BY <1>3, NumAppend, NumPositive
  <1>6. \A o \in {"read", "write"} :
           NodeTokens(r, c, o) = NodeTokens(q, c, o) - B(o = q.node /\ st = "MODIFIED") + B(o = op)
    <2> SUFFICES ASSUME NEW o \in {"read", "write"}
                 PROVE  NodeTokens(r, c, o) = NodeTokens(q, c, o) - B(o = q.node /\ st = "MODIFIED")
                                              + B(o = op)
      OBVIOUS
    <2>1. B(m \in Ends(c, o)) = B(o = q.node /\ st = "DELETED")
      BY <1>1 DEF Ends, B
    <2>2. PICK n \in Nat : n = Num(q.pipe, Ends(c, o))
      BY <1>5
    <2>3. Num(r.pipe, Ends(c, o)) = n + B(o = q.node /\ st = "DELETED")
      BY <1>5, <2>1, <2>2
    <2>4. /\ NodeTokens(q, c, o) = B(o = q.node) + n
          /\ NodeTokens(r, c, o) = B(o = op) + (n + B(o = q.node /\ st = "DELETED"))
      BY <1>3, <2>2, <2>3 DEF NodeTokens, B
    <2> QED
      BY <2>4 DEF B
  <1>7. \A i \in 1 .. Len(r.pipe) : r.pipe[i] = m \/ (i \in 1 .. Len(q.pipe) /\ r.pipe[i] = q.pipe[i])
    BY <1>3
  <1>8. \A i \in 1 .. Len(r.pipe) : FromPipe(r.pipe[i], c)
    <2>1. FromPipe(m, c)
      BY <1>1 DEF FromPipe, Entry
    <2> QED
      BY <1>7, <2>1
  <1>9. InHand(r, c)
    BY <1>1, <1>3, <1>4 DEF Ends, InHand
  <1>10. \E pipe \in Seq(Outcome) :
            Fields(r, q.state, q.ref, q.memory, q.seq, q.tref, q.mutex, q.idle,
                   op, q.hand, (q.hand # "none"), q.partial, pipe, q.got)
    <2>1. Append(q.pipe, m) \in Seq(Outcome)
      BY <1>3
    <2> QED
      BY <1>2, <2>1
  <1> QED
    BY <1>2, <1>6, <1>8, <1>9, <1>10

(* poller_del: the entry is what it was, without its node. *)
Deleted(r, q, c) ==
    /\ SameEntry(r, q) /\ r.node = "none" /\ r.hand = q.hand /\ r.got = q.got
    /\ r.partial = q.partial
    /\ \A op \in {"read", "write"} : NodeTokens(r, c, op) = NodeTokens(q, c, op)
    /\ InHand(r, c) /\ \A i \in 1 .. Len(r.pipe) : FromPipe(r.pipe[i], c)

LEMMA PollerDelOK ==
  ASSUME NEW c \in Conns, NEW q \in Entry, q.node # "write", InHand(q, c),
         \A i \in 1 .. Len(q.pipe) : FromPipe(q.pipe[i], c)
  PROVE  PollerDel(c, q) \in Entry /\ Deleted(PollerDel(c, q), q, c)
  <1>1. CASE q.node = "none"
    BY <1>1 DEF PollerDel, Deleted, SameEntry
  <1>2. CASE q.node # "none"
    <2>1. PICK x \in {"DELETED", "MODIFIED"}, y \in {"none", "write"} : x = "DELETED" /\ y = "none"
      OBVIOUS
    <2>2. q.hand # "none" => q.node = "read"
      BY <1>2 DEF Entry
    <2>3. /\ Retire(c, q, x, y) \in Entry
          /\ \E pipe \in Seq(Outcome) :
               Fields(Retire(c, q, x, y), q.state, q.ref, q.memory, q.seq, q.tref, q.mutex, q.idle,
                      y, q.hand, (q.hand # "none"), q.partial, pipe, q.got)
          /\ \A o \in {"read", "write"} :
               NodeTokens(Retire(c, q, x, y), c, o)
                  = NodeTokens(q, c, o) - B(o = q.node /\ x = "MODIFIED") + B(o = y)
          /\ InHand(Retire(c, q, x, y), c)
          /\ \A i \in 1 .. Len(Retire(c, q, x, y).pipe) : FromPipe(Retire(c, q, x, y).pipe[i], c)
      BY <1>2, <2>1, <2>2, RetireOK
    <2>4. PICK r \in Entry : r = Retire(c, q, x, y)
      BY <2>3
    <2>5. PollerDel(c, q) = r
      BY <1>2, <2>1, <2>4 DEF PollerDel
    <2>6. PICK pipe \in Seq(Outcome) :
             Fields(r, q.state, q.ref, q.memory, q.seq, q.tref, q.mutex, q.idle,
                    y, q.hand, (q.hand # "none"), q.partial, pipe, q.got)
      BY <2>3, <2>4
    <2>7. \A o \in {"read", "write"} : NodeTokens(r, c, o) = NodeTokens(q, c, o)
      <3> SUFFICES ASSUME NEW o \in {"read", "write"} PROVE NodeTokens(r, c, o) = NodeTokens(q, c, o)
        OBVIOUS
      <3>1. NodeTokens(r, c, o) = NodeTokens(q, c, o) - B(o = q.node /\ x = "MODIFIED") + B(o = y)
        BY <2>3, <2>4
      <3>2. B(o = q.node /\ x = "MODIFIED") = 0 /\ B(o = y) = 0
        BY <2>1 DEF B
      <3>3. NodeTokens(q, c, o) \in Nat
        <4>1. Num(q.pipe, Ends(c, o)) \in Nat /\ B(q.node = o) \in Nat
          BY PipeNum DEF B
        <4> QED
          BY <4>1 DEF NodeTokens
      <3> QED
        BY <3>1, <3>2, <3>3
    <2>8. SameEntry(r, q) /\ r.node = "none" /\ r.hand = q.hand /\ r.got = q.got
      BY <2>1, <2>6 DEF SameEntry, Fields
    <2>9. r.partial = q.partial
      BY <2>6 DEF Fields
    <2>10. Deleted(r, q, c)
      BY <2>3, <2>4, <2>7, <2>8, <2>9 DEF Deleted
    <2> QED
      BY <2>5, <2>10
  <1> QED
    BY <1>1, <1>2

(* A connection as it is before a step. *)
LEMMA Given ==
  ASSUME IInv, NEW c \in Conns
  PROVE  /\ conn[c] \in Entry /\ ConnOK(c) /\ InHand(conn[c], c)
         /\ \A i \in 1 .. Len(conn[c].pipe) : FromPipe(conn[c].pipe[i], c)
         /\ conn[c].seq \in Nat /\ MaxSeq[c] \in Nat /\ conn[c].seq <= MaxSeq[c]
         /\ conn[c].seq > 0 => <<c, conn[c].seq>> \in Sessions /\ conn[c].seq \in 1 .. MaxSeq[c]
         /\ conn[c].tref \in Int /\ conn[c].ref \in Int /\ conn[c].got \in Nat
         /\ \A op : Ending(c, op) \in Nat
         /\ Complete(c) \in Nat /\ Held(c) \in Nat /\ Arriving(c) \in Nat
         /\ Undeleted(c) \in Nat /\ Repliers(c) \in Nat
         /\ Ending(c, "read") > 0 => conn[c].node # "write" /\ conn[c].memory = "live"
         /\ Complete(c) + Held(c) > 0 => conn[c].memory = "live"
         /\ conn[c].memory = "live" => conn[c].tref > 0
  <1>1. conn[c] \in Entry /\ ConnOK(c) /\ ShapeOK /\ ResultsOK
    BY DEF IInv, ShapeOK
  <1>2. /\ \A op : Ending(c, op) \in Nat
        /\ Complete(c) \in Nat /\ Held(c) \in Nat /\ Arriving(c) \in Nat
        /\ Undeleted(c) \in Nat /\ Repliers(c) \in Nat
    BY <1>1, CountTypes
  <1>3. conn[c].seq \in Nat /\ MaxSeq[c] \in Nat /\ conn[c].seq <= MaxSeq[c]
        /\ conn[c].tref \in Int /\ conn[c].ref \in Int /\ conn[c].got \in Nat
    BY <1>1, SessionNames DEF Entry, ConnOK, SessionOK, PastOK, LastOK
  <1>4. conn[c].seq > 0 => <<c, conn[c].seq>> \in Sessions /\ conn[c].seq \in 1 .. MaxSeq[c]
    BY <1>3, SessionNames
  <1>5. InHand(conn[c], c) /\ \A i \in 1 .. Len(conn[c].pipe) : FromPipe(conn[c].pipe[i], c)
    BY <1>1 DEF ConnOK, HandOK, ResultsOK
  <1>6. conn[c].node = "write" => Ending(c, "write") > 0
    BY <1>1, NodeIsToken
  <1>7. Ending(c, "read") > 0 => conn[c].node # "write" /\ conn[c].memory = "live"
    BY <1>1, <1>2, <1>6 DEF ConnOK, RefOK
  <1>8. Complete(c) + Held(c) > 0 => conn[c].memory = "live"
    BY <1>1, <1>2 DEF ConnOK, RefOK
  <1>9. conn[c].memory = "live" => conn[c].tref > 0
    BY <1>1, <1>2 DEF ConnOK, TrefOK, B
  <1> QED
    BY <1>1, <1>2, <1>3, <1>4, <1>5, <1>7, <1>8, <1>9

(* A session that has not come to its end is the last one. *)
LEMMA LastSession ==
  ASSUME IInv, NEW s \in Sessions, spc[s] \in {"reading", "toreply", "write", "sync", "unlock", "deleted_locked"}
  PROVE  s = <<s[1], conn[s[1]].seq>> /\ conn[s[1]].seq > 0
  <1>1. PICK c \in Conns, k \in Nat : s = <<c, k>> /\ c = s[1] /\ k \in 1 .. MaxSeq[c]
    BY SessionNames
  <1>2. conn[c].seq \in Nat /\ MaxSeq[c] \in Nat
    BY Given
  <1>3. /\ k > conn[c].seq => spc[<<c, k>>] = "none"
        /\ k < conn[c].seq => Settled(c, k)
    BY <1>1, Given DEF ConnOK, SessionOK, PastOK, LastOK
  <1>4. ~(k > conn[c].seq)
    BY <1>1, <1>3
  <1>5. ~(k < conn[c].seq)
    BY <1>1, <1>3 DEF Settled
  <1>6. k = conn[c].seq /\ k > 0
    BY <1>1, <1>2, <1>4, <1>5
  <1> QED
    BY <1>1, <1>6

----------------------------------------
(* The users' tasks *)

Alive == {"reading", "toreply", "write", "sync", "unlock", "given", "succeed"}

(* What a user's step changes: one session, its connection, and the
   service. *)
UserMoves(c, k, x, r) ==
    /\ spc' = [spc EXCEPT ![<<c, k>>] = x] /\ conn' = [conn EXCEPT ![c] = r]
    /\ UNCHANGED <<msgqueue, pc, job, wronged>>
    /\ svc' \in Service /\ svc'.node = svc.node

LEMMA UserFacts ==
  ASSUME IInv, NEW c \in Conns, NEW k \in 1 .. MaxSeq[c], NEW x \in Stages, NEW r \in Entry,
         UserMoves(c, k, x, r)
  PROVE  /\ ShapeOK' /\ ~wronged'
         /\ conn'[c] = r /\ \A d \in Conns : d # c => conn'[d] = conn[d]
         /\ spc'[<<c, k>>] = x /\ \A s \in Sessions : s # <<c, k>> => spc'[s] = spc[s]
         /\ \A op \in {"read", "write"} : Ending(c, op)'
               = Ending(c, op) - NodeTokens(conn[c], c, op) + NodeTokens(r, c, op)
         /\ \A op \in {"read", "write"} : NodeTokens(conn[c], c, op) \in Nat /\ NodeTokens(r, c, op) \in Nat
         /\ Complete(c)' = Complete(c) /\ Arriving(c)' = Arriving(c)
         /\ Held(c)' = Held(c) - B(spc[<<c, k>>] = "succeed") + B(x = "succeed")
         /\ Undeleted(c)' = Undeleted(c) - B(spc[<<c, k>>] \in Alive) + B(x \in Alive)
         /\ spc[<<c, k>>] = "succeed" => Held(c) > 0
         /\ Binding' = Binding
         /\ \A d, j : NoFinisher(d, j)' <=> NoFinisher(d, j)
         /\ \A d \in Conns : d # c => SameAt(d)
  <1>0. /\ ShapeOK /\ <<c, k>> \in Sessions /\ conn[c] \in Entry /\ ~wronged
        /\ pc' = pc /\ job' = job /\ msgqueue' = msgqueue /\ wronged' = wronged
        /\ spc' = [spc EXCEPT ![<<c, k>>] = x] /\ conn' = [conn EXCEPT ![c] = r]
        /\ svc' \in Service /\ svc'.node = svc.node
    BY SessionNames, Given DEF IInv, UserMoves, ConnOK, GotOK
  <1>1. ShapeOK' /\ ~wronged'
    BY <1>0 DEF ShapeOK
  <1>2. /\ conn'[c] = r /\ \A d \in Conns : d # c => conn'[d] = conn[d]
        /\ spc'[<<c, k>>] = x /\ \A s \in Sessions : s # <<c, k>> => spc'[s] = spc[s]
    BY <1>0 DEF ShapeOK
  <1>3. PICK h \in Handlers : JobsElse(h) /\ job'[h] = job[h] /\ pc'[h] = pc[h] /\ job'[h] \in Outcome
    BY <1>0, ServerAssumption DEF JobsElse, ShapeOK
  <1>4. /\ \A op : Ending(c, op)' = Ending(c, op)
                       - NodeTokens(conn[c], c, op) + NodeTokens(r, c, op)
                       - B(EndIn(job[h], pc[h], c, op)) + B(EndIn(job'[h], pc'[h], c, op))
        /\ Complete(c)' = Complete(c)
                       - B(CompleteIn(job[h], pc[h], c)) + B(CompleteIn(job'[h], pc'[h], c))
        /\ Held(c)' = Held(c) - Repliers(c) + Repliers(c)'
                       - B(HeldIn(job[h], pc[h], c)) + B(HeldIn(job'[h], pc'[h], c))
        /\ Arriving(c)' = Arriving(c)
                       - B(ArrivalIn(job[h], pc[h], c)) + B(ArrivalIn(job'[h], pc'[h], c))
        /\ \A op : NodeTokens(r, c, op) \in Nat
        /\ Repliers(c)' \in Nat
    BY <1>0, <1>3, MoveCounts
  <1>5. /\ \A op : Ending(c, op) \in Nat /\ NodeTokens(conn[c], c, op) \in Nat
        /\ Complete(c) \in Nat /\ Held(c) \in Nat /\ Arriving(c) \in Nat
        /\ Undeleted(c) \in Nat /\ Repliers(c) \in Nat
    BY <1>0, CountTypes
  <1>6. /\ Repliers(c)' = Repliers(c) - B(spc[<<c, k>>] = "succeed") + B(x = "succeed")
        /\ Undeleted(c)' = Undeleted(c) - B(spc[<<c, k>>] \in Alive) + B(x \in Alive)
    BY <1>2, SessionMove DEF Repliers, Undeleted, Alive, B
  <1>7. \A op \in {"read", "write"} : Ending(c, op)'
           = Ending(c, op) - NodeTokens(conn[c], c, op) + NodeTokens(r, c, op)
    BY <1>3, <1>4, <1>5 DEF B
  <1>8. Complete(c)' = Complete(c) /\ Arriving(c)' = Arriving(c)
    BY <1>3, <1>4, <1>5 DEF B
  <1>9. Held(c)' = Held(c) - B(spc[<<c, k>>] = "succeed") + B(x = "succeed")
    BY <1>3, <1>4, <1>5, <1>6 DEF B
  <1>10. spc[<<c, k>>] = "succeed" => Held(c) > 0
    <2>1. spc[<<c, k>>] = "succeed" => Repliers(c) > 0
      BY OfConnFinite DEF Repliers
    <2>2. JNum(OfEntry(c), {"relist", "finish", "unref"}) \in Nat
      BY JNumPositive
    <2> QED
      BY <1>5, <2>1, <2>2 DEF Held
  <1>11. Binding' = Binding
    BY <1>0, JobsStay DEF Num, Binding
  <1>12. \A d, j : NoFinisher(d, j)' <=> NoFinisher(d, j)
    BY <1>0 DEF NoFinisher, Finishes
  <1>13. \A d \in Conns : d # c => SameAt(d)
    BY <1>0, <1>2, QueueStays, SessionNames, Elsewhere DEF JobsSame, SessionsSame
  <1> QED
    BY <1>1, <1>2, <1>4, <1>5, <1>6, <1>7, <1>8, <1>9, <1>10, <1>11, <1>12, <1>13

LEMMA UserStep ==
  ASSUME IInv, NEW c \in Conns, NEW k \in 1 .. MaxSeq[c], NEW x \in Stages, NEW r \in Entry,
         UserMoves(c, k, x, r), r.seq = conn[c].seq,
         \A i \in 1 .. Len(r.pipe) : FromPipe(r.pipe[i], c),
         \/ spc[<<c, k>>] \notin {"reading", "given", "unlock"}
         \/ spc[<<c, k>>] = "unlock" /\ x = "given",
         Ending(c, "read")' = Ending(c, "read") \/ conn[c].mutex \notin Handlers,
         ConnOK(c)', LockOK', BindOK', CountOK', DrainOK', ListOK'
  PROVE  IInv'
  <1>0. /\ ShapeOK' /\ ~wronged'
        /\ conn'[c] = r /\ \A d \in Conns : d # c => conn'[d] = conn[d]
        /\ spc'[<<c, k>>] = x /\ \A s \in Sessions : s # <<c, k>> => spc'[s] = spc[s]
        /\ \A d \in Conns : d # c => SameAt(d)
    BY UserFacts
  <1>1. /\ ShapeOK /\ ResultsOK /\ LockOK /\ FinishOK /\ \A d \in Conns : ConnOK(d)
        /\ pc' = pc /\ job' = job /\ msgqueue' = msgqueue /\ conn' = [conn EXCEPT ![c] = r]
    BY DEF IInv, UserMoves
  <1>2. \A d \in Conns : ConnOK(d)'
    BY <1>0, <1>1, Frame
  <1>3. \A d \in Conns : /\ conn'[d].seq = conn[d].seq
                         /\ Ending(d, "read")' = Ending(d, "read") \/ conn[d].mutex \notin Handlers
    BY <1>0 DEF SameAt
  <1>4. ResultsOK'
    <2>1. PICK h \in Handlers : JobsElse(h)
      BY <1>1, ServerAssumption DEF JobsElse
    <2>2. GoodJob(h)'
      BY <1>1, <1>3 DEF ResultsOK, GoodJob, GoodResult
    <2>3. r.seq >= conn[c].seq
      <3>1. conn[c].seq \in Nat
        BY Given
      <3> QED
        BY <3>1
    <2> QED
      BY <1>1, <2>1, <2>2, <2>3, ResultsKept
  <1>5. FinishOK'
    BY <1>0, <1>1, <1>3, JobSeq, FinishKept DEF FinishOK, FinishAt, LockOK, Finishes
  <1> QED
    BY <1>0, <1>2, <1>4, <1>5 DEF IInv

LEMMA UserLock ==
  ASSUME IInv, NEW c \in Conns, NEW k \in 1 .. MaxSeq[c], NEW x \in Stages, NEW r \in Entry,
         UserMoves(c, k, x, r), r.seq = conn[c].seq,
         \/ /\ r.mutex = conn[c].mutex
            /\ r.mutex # None => r.state = "idle" /\ ~r.idle
            /\ spc[<<c, k>>] \in Lockers <=> x \in Lockers
         \/ r.mutex = None /\ conn[c].mutex = <<c, k>> /\ x \notin Lockers
         \/ /\ conn[c].mutex = None /\ r.mutex = <<c, k>> /\ k = r.seq /\ x \in Lockers
            /\ r.state = "idle" /\ ~r.idle
  PROVE  LockOK'
  <1>0. /\ ShapeOK' /\ ~wronged'
        /\ conn'[c] = r /\ \A d \in Conns : d # c => conn'[d] = conn[d]
        /\ spc'[<<c, k>>] = x /\ \A s \in Sessions : s # <<c, k>> => spc'[s] = spc[s]
    BY UserFacts
  <1>1. /\ LockOK /\ ShapeOK /\ ResultsOK /\ pc' = pc /\ job' = job
    BY DEF IInv, UserMoves
  <1>2. \A h \in Handlers : pc[h] = "relist" => job[h].conn \in Conns
    BY <1>1 DEF ResultsOK, GoodJob
  <1>3. /\ \A s \in Sessions : s[1] \in Conns
        /\ <<c, k>> \in Sessions /\ <<c, k>>[1] = c
        /\ <<c, k>> # None /\ <<c, k>> \notin Handlers
    BY SessionNames, Names
  <1>4. CASE /\ r.mutex = conn[c].mutex
             /\ r.mutex # None => r.state = "idle" /\ ~r.idle
             /\ spc[<<c, k>>] \in Lockers <=> x \in Lockers
    BY <1>0, <1>1, <1>4, LockSame DEF LockOK
  <1>5. CASE r.mutex = None /\ conn[c].mutex = <<c, k>> /\ x \notin Lockers
    BY <1>0, <1>1, <1>2, <1>3, <1>5, SessionNames, Names DEF LockOK
  <1>6. CASE /\ conn[c].mutex = None /\ r.mutex = <<c, k>> /\ k = r.seq /\ x \in Lockers
             /\ r.state = "idle" /\ ~r.idle
    BY <1>0, <1>1, <1>2, <1>3, <1>6, SessionNames, Names DEF LockOK
  <1> QED
    BY <1>4, <1>5, <1>6

(* A step that keeps every reference to the target. *)
LEMMA CountsSame ==
  ASSUME IInv, NEW c \in Conns, NEW r \in Entry, conn' = [conn EXCEPT ![c] = r],
         svc'.ref = svc.ref, svc'.conn_count = svc.conn_count, svc'.unbound = svc.unbound,
         svc'.node = svc.node,
         r.tref > 0 <=> conn[c].tref > 0, r.memory = conn[c].memory,
         r.memory = "live" /\ r.state # "closing" => conn[c].state # "closing",
         Binding' = Binding, pc'[Main] = pc[Main],
         {h \in Handlers : pc'[h] \in NewSteps} = {h \in Handlers : pc[h] \in NewSteps},
         {h \in Handlers : pc'[h] = "make"} = {h \in Handlers : pc[h] = "make"}
  PROVE  BindOK' /\ CountOK'
  <1>0. ShapeOK /\ BindOK /\ CountOK
    BY DEF IInv
  <1>1. /\ Cardinality(HeldTargets) \in Nat /\ Cardinality(LiveConns) \in Nat
        /\ Cardinality(OpenConns) \in Nat
        /\ Cardinality(HeldTargets)' = Cardinality(HeldTargets) - B(conn[c].tref > 0) + B(r.tref > 0)
        /\ Cardinality(LiveConns)' = Cardinality(LiveConns)
               - B(conn[c].memory = "live") + B(r.memory = "live")
        /\ Cardinality(OpenConns)' = Cardinality(OpenConns)
               - B(conn[c].memory = "live" /\ conn[c].state # "closing")
               + B(r.memory = "live" /\ r.state # "closing")
    BY <1>0, ConnCounts
  <1>2. Cardinality(HeldTargets)' = Cardinality(HeldTargets)
        /\ Cardinality(LiveConns)' = Cardinality(LiveConns)
        /\ Cardinality(OpenConns)' <= Cardinality(OpenConns) /\ Cardinality(OpenConns)' \in Int
    BY <1>1 DEF B
  <1>3. BindOK'
    BY <1>0, <1>2 DEF BindOK
  <1>4. PICK n1 \in Nat, n2 \in Nat : /\ n1 = Cardinality({h \in Handlers : pc[h] \in NewSteps})
                                      /\ n2 = Cardinality({h \in Handlers : pc[h] = "make"})
    BY FS_Subset, ServerAssumption, FS_CardinalityType
  <1>5. svc.conn_count = Cardinality(LiveConns) + n1 /\ Cardinality(OpenConns) + n2 <= MaxConns
    BY <1>0, <1>4 DEF CountOK
  <1>6. Cardinality(OpenConns)' + n2 <= MaxConns
    BY <1>1, <1>2, <1>4, <1>5, ServerAssumption
  <1>7. CountOK'
    BY <1>2, <1>4, <1>5, <1>6 DEF CountOK
  <1> QED
    BY <1>3, <1>7

(* A user's task that holds the target's mutex. *)
LEMMA Replying ==
  ASSUME IInv, NEW c \in Conns, NEW k \in 1 .. MaxSeq[c], spc[<<c, k>>] \in {"write", "sync"}
  PROVE  /\ k = conn[c].seq /\ conn[c].mutex = <<c, k>> /\ conn[c].mutex \notin Handlers
         /\ conn[c].mutex # None
         /\ conn[c].state = "idle" /\ ~conn[c].idle /\ conn[c].memory = "live"
         /\ Ending(c, "read") = 1 /\ Ending(c, "write") = 0 /\ Complete(c) = 0
         /\ conn[c].node # "write"
         /\ svc.marking # c
  <1>1. PICK s \in Sessions : s = <<c, k>> /\ s[1] = c
    BY SessionNames
  <1>2. k = conn[c].seq /\ conn[c].seq > 0
    BY <1>1, LastSession
  <1>3. conn[c].mutex = s
    BY <1>1 DEF IInv, LockOK, Lockers
  <1>4. s # None /\ s \notin Handlers
    BY Names
  <1>5. conn[c].state = "idle" /\ ~conn[c].idle
    BY <1>3, <1>4 DEF IInv, LockOK
  <1>6. /\ ConnOK(c) /\ Ending(c, "read") \in Nat /\ Ending(c, "write") \in Nat
        /\ Complete(c) \in Nat /\ (Ending(c, "read") > 0 => conn[c].node # "write" /\ conn[c].memory = "live")
    BY Given
  <1>7. Ending(c, "read") > 0
    BY <1>2, <1>6 DEF ConnOK, SessionOK, PastOK, LastOK
  <1>8. Ending(c, "read") = 1 /\ Ending(c, "write") = 0
    BY <1>6, <1>7 DEF ConnOK, RefOK
  <1>9. Complete(c) = 0
    BY <1>5, <1>6 DEF ConnOK, StateOK
  <1>10. svc.marking # c
    BY <1>5, Names DEF IInv, DrainOK
  <1> QED
    BY <1>1, <1>2, <1>3, <1>4, <1>5, <1>6, <1>7, <1>8, <1>9, <1>10

(* Nothing that the service's lists depend on changes. *)
LEMMA UserLists ==
  ASSUME IInv, NEW c \in Conns, NEW k \in 1 .. MaxSeq[c], NEW x \in Stages, NEW r \in Entry,
         UserMoves(c, k, x, r),
         svc'.mutex = svc.mutex, svc'.marking = svc.marking,
         svc'.alive_list = svc.alive_list, svc'.listening = svc.listening,
         Waits(c)' <=> Waits(c)
  PROVE  DrainOK' /\ ListOK'
  <1>1. /\ conn'[c] = r /\ \A d \in Conns : d # c => SameAt(d)
        /\ Binding' = Binding
    BY UserFacts
  <1>2. \A d \in Conns : Waits(d)' <=> Waits(d)
    BY <1>1 DEF SameAt, Waits
  <1>3. \A t \in Threads : pc'[t] = pc[t]
    BY DEF UserMoves
  <1> QED
    BY <1>1, <1>2, <1>3, ServiceSame

LEMMA PastKept ==
  ASSUME NEW c \in Conns, PastOK(c), conn'[c].seq = conn[c].seq,
         \A j \in 1 .. MaxSeq[c] : j # conn[c].seq => spc'[<<c, j>>] = spc[<<c, j>>],
         \A d, j : NoFinisher(d, j)' <=> NoFinisher(d, j), conn[c].seq \in Nat, MaxSeq[c] \in Nat
  PROVE  PastOK(c)'
  BY DEF Settled, PastOK

LEMMA WriteAllStep ==
  ASSUME IInv, NEW s \in Sessions, WriteAll(s)
  PROVE  IInv'
  <1>1. PICK c \in Conns, k \in Nat : s = <<c, k>> /\ c = s[1] /\ k \in 1 .. MaxSeq[c]
    BY SessionNames
  <1>2. PICK q \in Entry : q = conn[c]
    BY Given
  <1>3. PICK r \in Entry :
           /\ r = [q EXCEPT !.got = @ + 1]
           /\ Fields(r, q.state, q.ref, q.memory, q.seq, q.tref, q.mutex, q.idle,
                     q.node, q.hand, q.removed, q.partial, q.pipe, q.got + 1)
    BY NewGot
  <1>4. spc[<<c, k>>] = "write" /\ UserMoves(c, k, "sync", r) /\ svc' = svc
    BY <1>1, <1>2, <1>3 DEF WriteAll, Step, Set, UserMoves, IInv, ShapeOK
  <1>5. /\ k = q.seq /\ q.mutex = <<c, k>> /\ q.mutex \notin Handlers /\ q.mutex # None
        /\ q.state = "idle" /\ ~q.idle /\ q.memory = "live"
        /\ Ending(c, "read") = 1 /\ Ending(c, "write") = 0 /\ Complete(c) = 0 /\ q.node # "write"
    BY <1>1, <1>2, <1>4, Replying
  <1>6. /\ conn'[c] = r /\ spc'[<<c, k>>] = "sync" /\ ~wronged'
        /\ \A j \in 1 .. MaxSeq[c] : j # k => spc'[<<c, j>>] = spc[<<c, j>>]
        /\ Complete(c)' = Complete(c) /\ Arriving(c)' = Arriving(c)
        /\ Held(c)' = Held(c) /\ Undeleted(c)' = Undeleted(c) /\ Binding' = Binding
        /\ \A d, j : NoFinisher(d, j)' <=> NoFinisher(d, j)
        /\ \A op \in {"read", "write"} : Ending(c, op)' = Ending(c, op)
    <2>1. "sync" \in Stages
      BY DEF Stages
    <2>2. /\ conn'[c] = r /\ spc'[<<c, k>>] = "sync" /\ ~wronged'
          /\ \A z \in Sessions : z # <<c, k>> => spc'[z] = spc[z]
          /\ Complete(c)' = Complete(c) /\ Arriving(c)' = Arriving(c) /\ Binding' = Binding
          /\ \A d, j : NoFinisher(d, j)' <=> NoFinisher(d, j)
          /\ Held(c)' = Held(c) - B(spc[<<c, k>>] = "succeed") + B("sync" = "succeed")
          /\ Undeleted(c)' = Undeleted(c) - B(spc[<<c, k>>] \in Alive) + B("sync" \in Alive)
          /\ \A op \in {"read", "write"} : Ending(c, op)'
               = Ending(c, op) - NodeTokens(conn[c], c, op) + NodeTokens(r, c, op)
          /\ \A op \in {"read", "write"} : NodeTokens(conn[c], c, op) \in Nat /\ NodeTokens(r, c, op) \in Nat
      BY <1>1, <1>4, <2>1, UserFacts
    <2>3. Held(c) \in Nat /\ Undeleted(c) \in Nat /\ \A op : Ending(c, op) \in Nat
      BY Given
    <2>4. \A op : NodeTokens(r, c, op) = NodeTokens(conn[c], c, op)
      BY <1>2, <1>3 DEF NodeTokens, Fields
    <2>5. Held(c)' = Held(c) /\ Undeleted(c)' = Undeleted(c)
      BY <1>4, <2>2, <2>3 DEF Alive, B
    <2>6. \A op \in {"read", "write"} : Ending(c, op)' = Ending(c, op)
      BY <2>2, <2>3, <2>4
    <2>7. \A j \in 1 .. MaxSeq[c] : j # k => spc'[<<c, j>>] = spc[<<c, j>>]
      BY <2>2, SessionNames
    <2> QED
      BY <2>2, <2>5, <2>6, <2>7
  <1>7. ConnOK(c)'
    <2>0. ConnOK(c) /\ MaxSeq[c] \in Nat /\ q.seq \in Nat /\ q.got \in Nat
      BY <1>2, Given
    <2>1. RefOK(c)'
      BY <1>2, <1>3, <1>6, <2>0 DEF ConnOK, RefOK, Fields
    <2>2. TrefOK(c)'
      BY <1>2, <1>3, <1>5, <1>6, <2>0 DEF ConnOK, TrefOK, Fields
    <2>3. HandOK(c)'
      BY <1>2, <1>3, <1>5, <1>6, <2>0 DEF ConnOK, HandOK, InHand, Fields
    <2>4. StateOK(c)'
      BY <1>2, <1>3, <1>5, <1>6, <2>0 DEF ConnOK, StateOK, Fields
    <2>5. SessionOK(c)'
      <3>1. r.seq = q.seq /\ r.state = "idle" /\ ~r.idle
        BY <1>3, <1>5 DEF Fields
      <3>2. PastOK(c)'
        BY <1>2, <1>5, <1>6, <2>0, <3>1, PastKept DEF ConnOK, SessionOK
      <3>3. LastOK(c)'
        BY <1>1, <1>2, <1>5, <1>6, <2>0, <3>1 DEF ConnOK, SessionOK, LastOK
      <3> QED
        BY <3>2, <3>3 DEF SessionOK
    <2>6. GotOK(c)'
      <3>1. /\ r.seq = q.seq /\ r.state = "idle" /\ r.got = q.got + 1 /\ r.node # "write"
            /\ r.mutex = <<c, k>>
        BY <1>3, <1>5 DEF Fields
      <3>2. q.got < q.seq /\ q.seq > 0
        BY <1>1, <1>2, <1>4, <1>5, <2>0 DEF ConnOK, GotOK
      <3>3. <<c, k>> \in Sessions
        BY <1>1
      <3> QED
        BY <1>5, <1>6, <2>0, <3>1, <3>2, <3>3 DEF GotOK
    <2> QED
      BY <2>1, <2>2, <2>3, <2>4, <2>5, <2>6 DEF ConnOK
  <1>8. LockOK'
    <2>1. /\ r.mutex = conn[c].mutex /\ r.seq = conn[c].seq
          /\ r.mutex # None => r.state = "idle" /\ ~r.idle
          /\ spc[<<c, k>>] \in Lockers <=> "sync" \in Lockers
          /\ "sync" \in Stages
      BY <1>2, <1>3, <1>4, <1>5 DEF Fields, Lockers, Stages
    <2> QED
      BY <1>1, <1>4, <2>1, UserLock
  <1>9. DrainOK' /\ ListOK'
    <2>1. Waits(c)' <=> Waits(c)
      BY <1>2, <1>3, <1>6 DEF Waits, Fields
    <2> QED
      BY <1>1, <1>4, <2>1, UserLists DEF Stages
  <1>10. BindOK' /\ CountOK'
    <2>1. /\ conn' = [conn EXCEPT ![c] = r] /\ pc' = pc /\ svc' = svc
          /\ r.tref = conn[c].tref /\ r.memory = conn[c].memory /\ r.state = conn[c].state
      BY <1>2, <1>3, <1>4 DEF UserMoves, Fields
    <2> QED
      BY Zenon, <1>6, <2>1, CountsSame
  <1>11. \A i \in 1 .. Len(r.pipe) : FromPipe(r.pipe[i], c)
    BY Zenon, <1>2, <1>3, Given DEF Fields
  <1> QED
    BY <1>1, <1>2, <1>3, <1>4, <1>5, <1>6, <1>7, <1>8, <1>9, <1>10, <1>11, UserStep DEF Fields, Stages

(* A user's step that leaves the tokens in their place. *)
LEMMA UserSame ==
  ASSUME IInv, NEW c \in Conns, NEW k \in 1 .. MaxSeq[c], NEW x \in Stages, NEW r \in Entry,
         UserMoves(c, k, x, r),
         \A op \in {"read", "write"} : NodeTokens(r, c, op) = NodeTokens(conn[c], c, op)
  PROVE  /\ conn'[c] = r /\ spc'[<<c, k>>] = x /\ ~wronged'
         /\ \A j \in 1 .. MaxSeq[c] : j # k => spc'[<<c, j>>] = spc[<<c, j>>]
         /\ Complete(c)' = Complete(c) /\ Arriving(c)' = Arriving(c) /\ Binding' = Binding
         /\ Held(c)' = Held(c) - B(spc[<<c, k>>] = "succeed") + B(x = "succeed")
         /\ spc[<<c, k>>] = "succeed" => Held(c) > 0
         /\ Undeleted(c)' = Undeleted(c) - B(spc[<<c, k>>] \in Alive) + B(x \in Alive)
         /\ spc[<<c, k>>] \in Alive => Undeleted(c) > 0
         /\ \A d, j : NoFinisher(d, j)' <=> NoFinisher(d, j)
         /\ \A op \in {"read", "write"} : Ending(c, op)' = Ending(c, op)
  <1>1. /\ conn'[c] = r /\ spc'[<<c, k>>] = x /\ ~wronged'
        /\ \A z \in Sessions : z # <<c, k>> => spc'[z] = spc[z]
        /\ Complete(c)' = Complete(c) /\ Arriving(c)' = Arriving(c) /\ Binding' = Binding
        /\ \A d, j : NoFinisher(d, j)' <=> NoFinisher(d, j)
        /\ Held(c)' = Held(c) - B(spc[<<c, k>>] = "succeed") + B(x = "succeed")
        /\ Undeleted(c)' = Undeleted(c) - B(spc[<<c, k>>] \in Alive) + B(x \in Alive)
        /\ spc[<<c, k>>] = "succeed" => Held(c) > 0
        /\ \A op \in {"read", "write"} : Ending(c, op)'
               = Ending(c, op) - NodeTokens(conn[c], c, op) + NodeTokens(r, c, op)
        /\ \A op \in {"read", "write"} : NodeTokens(conn[c], c, op) \in Nat /\ NodeTokens(r, c, op) \in Nat
    BY UserFacts
  <1>2. \A op : Ending(c, op) \in Nat
    BY Given
  <1>3. \A op \in {"read", "write"} : Ending(c, op)' = Ending(c, op)
    BY <1>1, <1>2
  <1>4. \A j \in 1 .. MaxSeq[c] : j # k => spc'[<<c, j>>] = spc[<<c, j>>]
    BY <1>1, SessionNames
  <1>5. spc[<<c, k>>] \in Alive => Undeleted(c) > 0
    BY OfConnFinite DEF Undeleted, Alive
  <1> QED
    BY <1>1, <1>3, <1>4, <1>5

LEMMA NobodyFinishes ==
  ASSUME IInv, NEW c \in Conns, NEW k \in 1 .. MaxSeq[c],
         spc[<<c, k>>] \notin {"reading", "given", "unlock"}
  PROVE  NoFinisher(c, k)
  BY DEF NoFinisher, IInv, FinishOK, Finishes, FinishAt

(* send_message hands the entry over to another state, and unlocks it. *)
LEMMA GivenStep ==
  ASSUME IInv, NEW c \in Conns, NEW k \in 1 .. MaxSeq[c], spc[<<c, k>>] = "write",
         NEW u \in Entry, NEW r \in Entry,
         u = conn[c] \/ Deleted(u, conn[c], c), NEW y \in {"receiving", "error"},
         SameEntry(u, conn[c]), u.got = conn[c].got, u.hand = conn[c].hand,
         Fields(r, y, u.ref, u.memory, u.seq, u.tref, None, u.idle,
                u.node, u.hand, u.removed, u.partial, u.pipe, u.got),
         UserMoves(c, k, "given", r), svc' = svc
  PROVE  IInv'
  <1>1. PICK q \in Entry : q = conn[c]
    BY Given
  <1>2. /\ k = q.seq /\ q.mutex = <<c, k>> /\ q.mutex \notin Handlers /\ q.mutex # None
        /\ q.state = "idle" /\ ~q.idle /\ q.memory = "live"
        /\ Ending(c, "read") = 1 /\ Ending(c, "write") = 0 /\ Complete(c) = 0 /\ q.node # "write"
        /\ svc.marking # c
    BY <1>1, Replying
  <1>3. /\ r.state = y /\ r.ref = q.ref /\ r.memory = q.memory /\ r.seq = q.seq
        /\ r.tref = q.tref /\ r.mutex = None /\ ~r.idle /\ r.node = u.node /\ r.hand = q.hand
        /\ r.pipe = u.pipe /\ r.got = q.got
    BY <1>1, <1>2 DEF Fields, SameEntry
  <1>4. u.node # "write" /\ InHand(u, c) /\ (\A i \in 1 .. Len(u.pipe) : FromPipe(u.pipe[i], c))
        /\ (u.node = q.node \/ u.node = "none")
        /\ \A op \in {"read", "write"} : NodeTokens(u, c, op) = NodeTokens(conn[c], c, op)
    BY <1>1, <1>2, Given DEF Deleted
  <1>5. r.partial = q.partial /\ r.removed = u.removed
    BY <1>1 DEF Fields, Deleted
  <1>6. "given" \in Stages /\ "given" \notin Lockers /\ "given" \in Alive /\ "write" \in Alive
    BY DEF Stages, Lockers, Alive
  <1>7. \A op \in {"read", "write"} : NodeTokens(r, c, op) = NodeTokens(conn[c], c, op)
    BY <1>3, <1>4 DEF NodeTokens
  <1>8. /\ conn'[c] = r /\ spc'[<<c, k>>] = "given" /\ ~wronged'
        /\ \A j \in 1 .. MaxSeq[c] : j # k => spc'[<<c, j>>] = spc[<<c, j>>]
        /\ Complete(c)' = Complete(c) /\ Arriving(c)' = Arriving(c) /\ Binding' = Binding
        /\ Held(c)' = Held(c) - B(spc[<<c, k>>] = "succeed") + B("given" = "succeed")
        /\ Undeleted(c)' = Undeleted(c) - B(spc[<<c, k>>] \in Alive) + B("given" \in Alive)
        /\ \A d, j : NoFinisher(d, j)' <=> NoFinisher(d, j)
        /\ \A op \in {"read", "write"} : Ending(c, op)' = Ending(c, op)
    BY <1>6, <1>7, UserSame
  <1>9. Held(c)' = Held(c) /\ Undeleted(c)' = Undeleted(c)
    <2>1. Held(c) \in Nat /\ Undeleted(c) \in Nat
      BY Given
    <2> QED
      BY <1>6, <1>8, <2>1 DEF B
  <1>10. ConnOK(c)'
    <2>0. ConnOK(c) /\ MaxSeq[c] \in Nat /\ q.seq \in Nat /\ q.got \in Nat
      BY <1>1, Given
    <2>1. RefOK(c)'
      BY <1>1, <1>2, <1>3, <1>8, <1>9, <2>0 DEF ConnOK, RefOK, B
    <2>2. TrefOK(c)'
      BY <1>1, <1>2, <1>3, <1>8, <1>9, <2>0 DEF ConnOK, TrefOK
    <2>3. HandOK(c)'
      BY <1>1, <1>2, <1>3, <1>4, <1>5, <1>8, <2>0 DEF InHand, Fields, ConnOK, HandOK
    <2>4. StateOK(c)'
      BY <1>2, <1>3, <1>8, <2>0 DEF StateOK
    <2>5. SessionOK(c)'
      BY <1>1, <1>2, <1>3, <1>8, <2>0, NobodyFinishes, PastKept DEF ConnOK, SessionOK, LastOK
    <2>6. GotOK(c)'
      BY <1>1, <1>2, <1>3, <1>8, <2>0 DEF ConnOK, GotOK
    <2> QED
      BY <2>1, <2>2, <2>3, <2>4, <2>5, <2>6 DEF ConnOK
  <1>11. LockOK'
    BY <1>1, <1>2, <1>3, <1>6, UserLock
  <1>12. DrainOK' /\ ListOK'
    BY <1>1, <1>2, <1>3, <1>6, <1>8, UserLists DEF Waits
  <1>13. BindOK' /\ CountOK'
    BY <1>1, <1>2, <1>3, <1>8, CountsSame DEF UserMoves
  <1>14. \A i \in 1 .. Len(r.pipe) : FromPipe(r.pipe[i], c)
    BY <1>3, <1>4
  <1> QED
    BY <1>1, <1>3, <1>6, <1>8, <1>10, <1>11, <1>12, <1>13, <1>14, UserStep

LEMMA WriteFailsStep ==
  ASSUME IInv, NEW s \in Sessions, WriteFails(s)
  PROVE  IInv'
  <1>1. PICK c \in Conns, k \in Nat : s = <<c, k>> /\ c = s[1] /\ k \in 1 .. MaxSeq[c]
    BY SessionNames
  <1>2. PICK q \in Entry : q = conn[c]
    BY Given
  <1>3. spc[<<c, k>>] = "write"
    BY <1>1 DEF WriteFails, Step
  <1>4. q.node # "write" /\ InHand(q, c) /\ \A i \in 1 .. Len(q.pipe) : FromPipe(q.pipe[i], c)
    BY <1>1, <1>2, <1>3, Replying, Given
  <1>5. PICK u \in Entry : u = PollerDel(c, q) /\ Deleted(u, q, c)
    BY <1>4, PollerDelOK
  <1>6. PICK v \in Entry :
           /\ v = [u EXCEPT !.mutex = None]
           /\ Fields(v, u.state, u.ref, u.memory, u.seq, u.tref, None, u.idle,
                     u.node, u.hand, u.removed, u.partial, u.pipe, u.got)
    BY NewMutex
  <1>7. PICK r \in Entry :
           /\ r = [v EXCEPT !.state = "error"]
           /\ Fields(r, "error", v.ref, v.memory, v.seq, v.tref, v.mutex, v.idle,
                     v.node, v.hand, v.removed, v.partial, v.pipe, v.got)
    BY NewState
  <1>8. Fields(r, "error", u.ref, u.memory, u.seq, u.tref, None, u.idle,
               u.node, u.hand, u.removed, u.partial, u.pipe, u.got)
    BY ONLY <1>6, <1>7 DEF Fields
  <1>9. UserMoves(c, k, "given", r) /\ svc' = svc
    BY <1>1, <1>2, <1>5, <1>6, <1>7 DEF WriteFails, Step, Set, Unlocked, UserMoves, IInv, ShapeOK
  <1>10. Deleted(u, conn[c], c) /\ SameEntry(u, conn[c]) /\ u.got = conn[c].got /\ u.hand = conn[c].hand
    BY <1>2, <1>5 DEF Deleted
  <1> QED
    BY <1>1, <1>3, <1>8, <1>9, <1>10, GivenStep

LEMMA WriteRestStep ==
  ASSUME IInv, NEW s \in Sessions, WriteRest(s)
  PROVE  IInv'
  <1>1. PICK c \in Conns, k \in Nat : s = <<c, k>> /\ c = s[1] /\ k \in 1 .. MaxSeq[c]
    BY SessionNames
  <1>2. PICK q \in Entry : q = conn[c]
    BY Given
  <1>3. spc[<<c, k>>] = "write"
    BY <1>1 DEF WriteRest, Step
  <1>4. CASE q.node = "none"
    <2>1. PICK v \in Entry :
             /\ v = [q EXCEPT !.state = "receiving"]
             /\ Fields(v, "receiving", q.ref, q.memory, q.seq, q.tref, q.mutex, q.idle,
                       q.node, q.hand, q.removed, q.partial, q.pipe, q.got)
      BY NewState
    <2>2. PICK r \in Entry :
             /\ r = [v EXCEPT !.mutex = None]
             /\ Fields(r, v.state, v.ref, v.memory, v.seq, v.tref, None, v.idle,
                       v.node, v.hand, v.removed, v.partial, v.pipe, v.got)
      BY NewMutex
    <2>3. Fields(r, "receiving", q.ref, q.memory, q.seq, q.tref, None, q.idle,
                 q.node, q.hand, q.removed, q.partial, q.pipe, q.got)
      BY ONLY <2>1, <2>2 DEF Fields
    <2>4. UserMoves(c, k, "given", r) /\ svc' = svc
      BY <1>1, <1>2, <1>4, <2>1, <2>2 DEF WriteRest, Step, Set, Unlocked, UserMoves, IInv, ShapeOK
    <2>5. SameEntry(q, conn[c]) /\ q.got = conn[c].got /\ q.hand = conn[c].hand
      BY <1>2 DEF SameEntry
    <2> QED
      BY <1>1, <1>2, <1>3, <2>3, <2>4, <2>5, GivenStep
  <1>5. CASE q.node # "none"
    <2>1. /\ k = q.seq /\ q.mutex = <<c, k>> /\ q.mutex \notin Handlers /\ q.mutex # None
          /\ q.state = "idle" /\ ~q.idle /\ q.memory = "live"
          /\ Ending(c, "read") = 1 /\ Ending(c, "write") = 0 /\ Complete(c) = 0 /\ q.node # "write"
          /\ svc.marking # c
      BY <1>1, <1>2, <1>3, Replying
    <2>2. /\ q.node = "read" /\ InHand(q, c) /\ \A i \in 1 .. Len(q.pipe) : FromPipe(q.pipe[i], c)
      BY <1>2, <1>5, <2>1, Given DEF Entry
    <2>3. /\ Retire(c, q, "MODIFIED", "write") \in Entry
          /\ \E pipe \in Seq(Outcome) :
               Fields(Retire(c, q, "MODIFIED", "write"), q.state, q.ref, q.memory, q.seq, q.tref, q.mutex, q.idle,
                      "write", q.hand, (q.hand # "none"), q.partial, pipe, q.got)
          /\ \A o \in {"read", "write"} :
               NodeTokens(Retire(c, q, "MODIFIED", "write"), c, o)
                  = NodeTokens(q, c, o) - B(o = q.node /\ "MODIFIED" = "MODIFIED") + B(o = "write")
          /\ InHand(Retire(c, q, "MODIFIED", "write"), c)
          /\ \A i \in 1 .. Len(Retire(c, q, "MODIFIED", "write").pipe) :
                FromPipe(Retire(c, q, "MODIFIED", "write").pipe[i], c)
      BY <2>2, RetireOK
    <2>4. PICK r \in Entry : r = Retire(c, q, "MODIFIED", "write")
      BY <2>3
    <2>5. /\ r.state = "idle" /\ r.ref = q.ref /\ r.memory = q.memory /\ r.seq = q.seq
          /\ r.tref = q.tref /\ r.mutex = q.mutex /\ ~r.idle /\ r.node = "write" /\ r.hand = q.hand
          /\ r.got = q.got
      BY <2>1, <2>3, <2>4 DEF Fields
    <2>6. r.partial = q.partial
      BY <2>3, <2>4 DEF Fields
    <2>7. /\ "unlock" \in Stages /\ "unlock" \in Lockers /\ "write" \in Lockers
          /\ "unlock" \in Alive /\ "write" \in Alive
      BY DEF Stages, Lockers, Alive
    <2>8. UserMoves(c, k, "unlock", r) /\ svc' = svc
      BY <1>1, <1>2, <1>5, <2>4 DEF WriteRest, Step, Set, UserMoves, IInv, ShapeOK
    <2>9. /\ conn'[c] = r /\ spc'[<<c, k>>] = "unlock" /\ ~wronged'
          /\ \A z \in Sessions : z # <<c, k>> => spc'[z] = spc[z]
          /\ Complete(c)' = Complete(c) /\ Arriving(c)' = Arriving(c) /\ Binding' = Binding
          /\ \A d, j : NoFinisher(d, j)' <=> NoFinisher(d, j)
          /\ Held(c)' = Held(c) - B(spc[<<c, k>>] = "succeed") + B("unlock" = "succeed")
          /\ Undeleted(c)' = Undeleted(c) - B(spc[<<c, k>>] \in Alive) + B("unlock" \in Alive)
          /\ \A op \in {"read", "write"} : Ending(c, op)'
                 = Ending(c, op) - NodeTokens(conn[c], c, op) + NodeTokens(r, c, op)
          /\ \A op \in {"read", "write"} : NodeTokens(conn[c], c, op) \in Nat /\ NodeTokens(r, c, op) \in Nat
      BY <1>1, <2>7, <2>8, UserFacts
    <2>10. Ending(c, "read")' = 0 /\ Ending(c, "write")' = 1
      BY <1>2, <2>1, <2>2, <2>3, <2>4, <2>9 DEF B
    <2>11. Held(c)' = Held(c) /\ Undeleted(c)' = Undeleted(c)
      <3>1. Held(c) \in Nat /\ Undeleted(c) \in Nat
        BY Given
      <3> QED
        BY <1>3, <2>7, <2>9, <3>1 DEF B
    <2>12. ConnOK(c)'
      <3>0. ConnOK(c) /\ MaxSeq[c] \in Nat /\ q.seq \in Nat /\ q.got \in Nat
        BY <1>2, Given
      <3>1. RefOK(c)'
        BY <1>2, <2>1, <2>5, <2>9, <2>10, <2>11, <3>0 DEF ConnOK, RefOK, B
      <3>2. TrefOK(c)'
        BY <1>2, <2>1, <2>5, <2>9, <2>11, <3>0 DEF ConnOK, TrefOK
      <3>3. HandOK(c)'
        BY <1>2, <2>1, <2>3, <2>4, <2>5, <2>6, <2>9, <3>0 DEF ConnOK, HandOK
      <3>4. StateOK(c)'
        BY <2>1, <2>5, <2>9, <2>10 DEF StateOK
      <3>5. SessionOK(c)'
        <4>1. NoFinisher(c, k)
          BY <1>1, <1>3, NobodyFinishes
        <4>2. PastOK(c)'
          BY <1>1, <1>2, <2>1, <2>5, <2>9, <3>0, SessionNames, PastKept DEF ConnOK, SessionOK
        <4>3. LastOK(c)'
          BY <1>1, <2>1, <2>5, <2>9, <2>10, <3>0, <4>1 DEF LastOK
        <4> QED
          BY <4>2, <4>3 DEF SessionOK
      <3>6. GotOK(c)'
        BY <1>1, <1>2, <1>3, <2>1, <2>5, <2>9, <3>0 DEF ConnOK, GotOK
      <3> QED
        BY <3>1, <3>2, <3>3, <3>4, <3>5, <3>6 DEF ConnOK
    <2>13. LockOK'
      BY <1>1, <1>2, <1>3, <2>5, <2>7, <2>8, UserLock
    <2>14. DrainOK' /\ ListOK'
      BY <1>1, <1>2, <2>1, <2>5, <2>7, <2>8, <2>9, UserLists DEF Waits
    <2>15. BindOK' /\ CountOK'
      BY <1>2, <2>1, <2>5, <2>8, <2>9, CountsSame DEF UserMoves
    <2>16. /\ \A i \in 1 .. Len(r.pipe) : FromPipe(r.pipe[i], c)
           /\ conn[c].mutex \notin Handlers /\ r.seq = conn[c].seq
      BY <1>2, <2>1, <2>3, <2>4, <2>5
    <2> QED
      BY <1>1, <1>3, <2>7, <2>8, <2>12, <2>13, <2>14, <2>15, <2>16, UserStep
  <1> QED
    BY <1>4, <1>5

(* The entry after poller_del, or without it. *)
Kept(r, q, c) ==
    /\ SameEntry(r, q) /\ r.node \in {q.node, "none"} /\ r.hand = q.hand /\ r.got = q.got
    /\ r.partial = q.partial
    /\ \A op \in {"read", "write"} : NodeTokens(r, c, op) = NodeTokens(q, c, op)
    /\ InHand(r, c) /\ \A i \in 1 .. Len(r.pipe) : FromPipe(r.pipe[i], c)

LEMMA KeptOK ==
  ASSUME IInv, NEW c \in Conns, NEW q \in Entry, q = conn[c]
  PROVE  /\ Kept(q, q, c)
         /\ q.node # "write" => PollerDel(c, q) \in Entry /\ Kept(PollerDel(c, q), q, c)
                                /\ PollerDel(c, q).node = "none"
  <1>1. InHand(q, c) /\ \A i \in 1 .. Len(q.pipe) : FromPipe(q.pipe[i], c)
    BY Given
  <1>2. Kept(q, q, c)
    BY <1>1 DEF Kept, SameEntry
  <1>3. ASSUME q.node # "write"
        PROVE  PollerDel(c, q) \in Entry /\ Kept(PollerDel(c, q), q, c) /\ PollerDel(c, q).node = "none"
    BY <1>1, <1>3, PollerDelOK DEF Deleted, Kept
  <1> QED
    BY <1>2, <1>3

(* A session is deleted without a reply. *)
LEMMA UserEnds ==
  ASSUME IInv, NEW c \in Conns, NEW k \in 1 .. MaxSeq[c], spc[<<c, k>>] = "toreply",
         conn[c].mutex = None, NEW u \in Entry, Kept(u, conn[c], c),
         spc' = [spc EXCEPT ![<<c, k>>] = "deleted"], conn' = [conn EXCEPT ![c] = TargetDecref(u)],
         UNCHANGED <<msgqueue, pc, job, wronged>>, svc' = Released(svc, conn[c], TargetDecref(u))
  PROVE  IInv'
  <1>1. PICK q \in Entry : q = conn[c]
    BY Given
  <1>2. PICK r \in Entry :
           /\ r = TargetDecref(u)
           /\ Fields(r, u.state, u.ref, u.memory, u.seq, u.tref - 1, u.mutex, u.idle,
                     u.node, u.hand, u.removed, u.partial, u.pipe, u.got)
    BY NewTref
  <1>3. /\ r.state = q.state /\ r.ref = q.ref /\ r.memory = q.memory /\ r.seq = q.seq
        /\ r.tref = q.tref - 1 /\ r.mutex = None /\ r.node \in {q.node, "none"} /\ r.hand = q.hand
        /\ r.node = u.node /\ r.pipe = u.pipe /\ r.got = q.got
    BY <1>1, <1>2 DEF Fields, Kept, SameEntry
  <1>4. r.partial = q.partial /\ r.removed = u.removed /\ r.idle = q.idle
    BY <1>1, <1>2 DEF Fields, Kept, SameEntry
  <1>5. /\ svc' \in Service /\ svc'.node = svc.node /\ svc'.mutex = svc.mutex
        /\ svc'.marking = svc.marking /\ svc'.alive_list = svc.alive_list
        /\ svc'.listening = svc.listening
    BY ReleasedOK DEF IInv, ShapeOK
  <1>6. UserMoves(c, k, "deleted", r)
    BY <1>2, <1>5 DEF UserMoves
  <1>7. k = q.seq
    BY <1>1, SessionNames, LastSession
  <1>8. "deleted" \in Stages /\ "deleted" \notin Lockers /\ "toreply" \notin Lockers
        /\ "deleted" \notin Alive /\ "toreply" \in Alive
    BY DEF Stages, Lockers, Alive
  <1>9. \A op \in {"read", "write"} : NodeTokens(r, c, op) = NodeTokens(conn[c], c, op)
    BY <1>3 DEF NodeTokens, Kept
  <1>10. /\ conn'[c] = r /\ spc'[<<c, k>>] = "deleted" /\ ~wronged'
         /\ \A j \in 1 .. MaxSeq[c] : j # k => spc'[<<c, j>>] = spc[<<c, j>>]
         /\ Complete(c)' = Complete(c) /\ Arriving(c)' = Arriving(c) /\ Binding' = Binding
         /\ Held(c)' = Held(c) - B(spc[<<c, k>>] = "succeed") + B("deleted" = "succeed")
         /\ Undeleted(c)' = Undeleted(c) - B(spc[<<c, k>>] \in Alive) + B("deleted" \in Alive)
         /\ spc[<<c, k>>] \in Alive => Undeleted(c) > 0
         /\ \A d, j : NoFinisher(d, j)' <=> NoFinisher(d, j)
         /\ \A op \in {"read", "write"} : Ending(c, op)' = Ending(c, op)
    BY <1>6, <1>8, <1>9, UserSame
  <1>11. Held(c)' = Held(c) /\ Undeleted(c)' = Undeleted(c) - 1 /\ Undeleted(c) > 0
    <2>1. Held(c) \in Nat /\ Undeleted(c) \in Nat
      BY Given
    <2> QED
      BY <1>8, <1>10, <2>1 DEF B
  <1>12. ConnOK(c) /\ MaxSeq[c] \in Nat /\ q.seq \in Nat /\ q.got \in Nat /\ q.tref \in Int
         /\ Arriving(c) \in Nat /\ Undeleted(c) \in Nat /\ q.seq > 0
    BY <1>1, <1>7, Given
  <1>13. q.tref > 0 /\ r.tref >= 0 /\ q.memory # "unborn"
    BY <1>1, <1>3, <1>11, <1>12 DEF ConnOK, TrefOK, B
  <1>14. ConnOK(c)'
    <2>1. RefOK(c)'
      BY <1>1, <1>3, <1>10, <1>11, <1>12 DEF ConnOK, RefOK
    <2>2. TrefOK(c)'
      <3>1. TrefOK(c)
        BY <1>12 DEF ConnOK
      <3>2. /\ q.tref = Arriving(c) + B(q.memory = "live") + Undeleted(c)
            /\ Arriving(c) <= 1 /\ (Arriving(c) = 1 => q.state = "accepted")
            /\ q.state \notin {"none", "accepted"}
        BY <1>1, <1>13, <3>1 DEF TrefOK
      <3>3. r.tref = Arriving(c)' + B(r.memory = "live") + Undeleted(c)'
        BY ONLY <1>3, <1>10, <1>11, <1>12, <3>2 DEF B
      <3> QED
        BY <1>3, <1>10, <1>13, <3>2, <3>3 DEF TrefOK
    <2>3. HandOK(c)'
      BY <1>1, <1>3, <1>4, <1>7, <1>10, <1>12 DEF InHand, Kept, ConnOK, HandOK
    <2>4. StateOK(c)'
      BY <1>1, <1>3, <1>4, <1>10, <1>12 DEF ConnOK, StateOK
    <2>5. SessionOK(c)'
      BY <1>1, <1>3, <1>4, <1>7, <1>10, <1>12, PastKept DEF ConnOK, SessionOK, LastOK, Settled
    <2>6. GotOK(c)'
      BY <1>1, <1>3, <1>7, <1>10, <1>12 DEF ConnOK, GotOK
    <2> QED
      BY <2>1, <2>2, <2>3, <2>4, <2>5, <2>6 DEF ConnOK
  <1>15. LockOK'
    BY <1>1, <1>3, <1>6, <1>8, UserLock
  <1>16. DrainOK' /\ ListOK'
    BY <1>1, <1>3, <1>5, <1>6, <1>8, <1>10, UserLists DEF Waits
  <1>17. BindOK' /\ CountOK'
    BY Zenon, <1>1, <1>2, <1>3, <1>10, <1>13, ReleasedStep
  <1>18. \A i \in 1 .. Len(r.pipe) : FromPipe(r.pipe[i], c)
    BY <1>3 DEF Kept
  <1> QED
    BY <1>1, <1>3, <1>6, <1>8, <1>10, <1>14, <1>15, <1>16, <1>17, <1>18, UserStep

LEMMA NoReplyStep ==
  ASSUME IInv, NEW s \in Sessions, NoReply(s)
  PROVE  IInv'
  <1>1. PICK c \in Conns, k \in Nat : s = <<c, k>> /\ c = s[1] /\ k \in 1 .. MaxSeq[c]
    BY SessionNames
  <1>2. PICK q \in Entry : q = conn[c]
    BY Given
  <1>3. q.idle => q.node # "write"
    BY <1>2, Given DEF ConnOK, StateOK
  <1>4. PICK u \in Entry : u = CloseIdle(c, q) /\ Kept(u, q, c)
    BY <1>2, <1>3, KeptOK DEF CloseIdle
  <1>5. /\ spc[<<c, k>>] = "toreply" /\ conn[c].mutex = None
        /\ spc' = [spc EXCEPT ![<<c, k>>] = "deleted"]
        /\ conn' = [conn EXCEPT ![c] = TargetDecref(u)]
        /\ UNCHANGED <<msgqueue, pc, job, wronged>>
        /\ svc' = Released(svc, conn[c], TargetDecref(u))
    BY <1>1, <1>2, <1>4 DEF NoReply, Step, Becomes, Set
  <1> QED
    BY <1>1, <1>2, <1>4, <1>5, UserEnds

LEMMA ReplyStep ==
  ASSUME IInv, NEW s \in Sessions, Reply(s)
  PROVE  IInv'
  <1>1. PICK c \in Conns, k \in Nat : s = <<c, k>> /\ c = s[1] /\ k \in 1 .. MaxSeq[c]
    BY SessionNames
  <1>2. PICK q \in Entry : q = conn[c]
    BY Given
  <1>3. spc[<<c, k>>] = "toreply" /\ q.mutex = None /\ UNCHANGED <<msgqueue, pc, job, wronged>>
    BY <1>1, <1>2 DEF Reply, Step
  <1>4. CASE ~q.idle
    BY <1>1, <1>2, <1>3, <1>4, KeptOK, UserEnds DEF Reply, Step, Becomes, Set
  <1>5. CASE q.idle
    <2>1. PICK r \in Entry :
             /\ r = [q EXCEPT !.idle = FALSE, !.mutex = s]
             /\ Fields(r, q.state, q.ref, q.memory, q.seq, q.tref, s, FALSE,
                       q.node, q.hand, q.removed, q.partial, q.pipe, q.got)
      BY NewTaken
    <2>2. UserMoves(c, k, "write", r) /\ svc' = svc
      BY <1>1, <1>2, <1>3, <1>5, <2>1 DEF Reply, Step, Set, UserMoves, IInv, ShapeOK
    <2>3. /\ r.state = q.state /\ r.ref = q.ref /\ r.memory = q.memory /\ r.seq = q.seq
          /\ r.tref = q.tref /\ r.mutex = <<c, k>> /\ r.node = q.node /\ r.hand = q.hand
          /\ r.pipe = q.pipe /\ r.got = q.got
      BY <1>1, <2>1 DEF Fields
    <2>4. r.partial = q.partial /\ r.removed = q.removed /\ ~r.idle
      BY <2>1 DEF Fields
    <2>5. k = q.seq
      BY <1>1, <1>2, <1>3, LastSession
    <2>6. "write" \in Stages /\ "write" \in Lockers /\ "write" \in Alive /\ "toreply" \in Alive
      BY DEF Stages, Lockers, Alive
    <2>7. \A op \in {"read", "write"} : NodeTokens(r, c, op) = NodeTokens(conn[c], c, op)
      BY <1>2, <2>3 DEF NodeTokens
    <2>8. /\ conn'[c] = r /\ spc'[<<c, k>>] = "write" /\ ~wronged'
          /\ \A j \in 1 .. MaxSeq[c] : j # k => spc'[<<c, j>>] = spc[<<c, j>>]
          /\ Complete(c)' = Complete(c) /\ Arriving(c)' = Arriving(c) /\ Binding' = Binding
          /\ Held(c)' = Held(c) - B(spc[<<c, k>>] = "succeed") + B("write" = "succeed")
          /\ Undeleted(c)' = Undeleted(c) - B(spc[<<c, k>>] \in Alive) + B("write" \in Alive)
          /\ \A d, j : NoFinisher(d, j)' <=> NoFinisher(d, j)
          /\ \A op \in {"read", "write"} : Ending(c, op)' = Ending(c, op)
      BY <1>1, <2>2, <2>6, <2>7, UserSame
    <2>9. /\ ConnOK(c) /\ MaxSeq[c] \in Nat /\ q.seq \in Nat /\ q.got \in Nat /\ q.seq > 0
          /\ Held(c) \in Nat /\ Undeleted(c) \in Nat
          /\ Ending(c, "read") \in Nat /\ Ending(c, "write") \in Nat /\ Complete(c) \in Nat
      BY <1>1, <1>2, <2>5, Given
    <2>10. Held(c)' = Held(c) /\ Undeleted(c)' = Undeleted(c)
      BY <1>3, <2>6, <2>8, <2>9 DEF B
    <2>11. /\ q.state = "idle" /\ Ending(c, "read") > 0 /\ Ending(c, "write") = 0 /\ Complete(c) = 0
           /\ q.memory = "live"
      BY <1>2, <1>5, <2>9, Given DEF ConnOK, StateOK, RefOK
    <2>12. ConnOK(c)'
      BY <1>2, <1>3, <2>3, <2>4, <2>5, <2>8, <2>9, <2>10, <2>11, PastKept DEF ConnOK, RefOK, TrefOK,
         HandOK, InHand, StateOK, SessionOK, LastOK, GotOK
    <2>13. LockOK'
      BY <1>1, <1>2, <1>3, <2>2, <2>3, <2>4, <2>5, <2>6, <2>11, UserLock
    <2>14. DrainOK' /\ ListOK'
      BY <1>1, <1>2, <2>2, <2>3, <2>6, <2>8, UserLists DEF Waits
    <2>15. BindOK' /\ CountOK'
      BY <1>2, <2>2, <2>3, <2>8, CountsSame DEF UserMoves
    <2>16. \A i \in 1 .. Len(r.pipe) : FromPipe(r.pipe[i], c)
      BY <1>2, <2>3, Given
    <2> QED
      BY <1>1, <1>2, <1>3, <2>2, <2>3, <2>6, <2>8, <2>12, <2>13, <2>14, <2>15, <2>16, UserStep
  <1> QED
    BY <1>4, <1>5

LEMMA ReplyUnlockStep ==
  ASSUME IInv, NEW s \in Sessions, ReplyUnlock(s)
  PROVE  IInv'
  <1>1. PICK c \in Conns, k \in Nat : s = <<c, k>> /\ c = s[1] /\ k \in 1 .. MaxSeq[c]
    BY SessionNames
  <1>2. PICK q \in Entry : q = conn[c]
    BY Given
  <1>3. PICK x \in Stages :
           /\ \/ spc[<<c, k>>] = "unlock" /\ x = "given"
              \/ spc[<<c, k>>] = "deleted_locked" /\ x = "deleted"
           /\ spc' = [spc EXCEPT ![<<c, k>>] = x]
    BY <1>1 DEF ReplyUnlock, Step, Stages
  <1>4. PICK r \in Entry :
           /\ r = [q EXCEPT !.mutex = None]
           /\ Fields(r, q.state, q.ref, q.memory, q.seq, q.tref, None, q.idle,
                     q.node, q.hand, q.removed, q.partial, q.pipe, q.got)
    BY NewMutex
  <1>5. UserMoves(c, k, x, r) /\ svc' = svc
    BY <1>1, <1>2, <1>3, <1>4 DEF ReplyUnlock, Set, Unlocked, UserMoves, IInv, ShapeOK
  <1>6. /\ k = q.seq /\ q.mutex = <<c, k>> /\ q.state = "idle" /\ ~q.idle
        /\ q.mutex \notin Handlers /\ q.mutex # None
    BY <1>1, <1>2, <1>3, LastSession, Names DEF IInv, LockOK, Lockers
  <1>7. /\ r.state = "idle" /\ r.ref = q.ref /\ r.memory = q.memory /\ r.seq = q.seq
        /\ r.tref = q.tref /\ r.mutex = None /\ ~r.idle /\ r.node = q.node /\ r.hand = q.hand
        /\ r.pipe = q.pipe /\ r.got = q.got
    BY <1>4, <1>6 DEF Fields
  <1>8. r.partial = q.partial /\ r.removed = q.removed
    BY <1>4 DEF Fields
  <1>9. /\ x \notin Lockers /\ (spc[<<c, k>>] \in Alive <=> x \in Alive)
        /\ spc[<<c, k>>] # "succeed" /\ x # "succeed"
    BY <1>3 DEF Lockers, Alive
  <1>10. \A op \in {"read", "write"} : NodeTokens(r, c, op) = NodeTokens(conn[c], c, op)
    BY <1>2, <1>7 DEF NodeTokens
  <1>11. /\ conn'[c] = r /\ spc'[<<c, k>>] = x /\ ~wronged'
         /\ \A j \in 1 .. MaxSeq[c] : j # k => spc'[<<c, j>>] = spc[<<c, j>>]
         /\ Complete(c)' = Complete(c) /\ Arriving(c)' = Arriving(c) /\ Binding' = Binding
         /\ Held(c)' = Held(c) - B(spc[<<c, k>>] = "succeed") + B(x = "succeed")
         /\ Undeleted(c)' = Undeleted(c) - B(spc[<<c, k>>] \in Alive) + B(x \in Alive)
         /\ \A d, j : NoFinisher(d, j)' <=> NoFinisher(d, j)
         /\ \A op \in {"read", "write"} : Ending(c, op)' = Ending(c, op)
    BY <1>1, <1>5, <1>10, UserSame
  <1>12. /\ ConnOK(c) /\ MaxSeq[c] \in Nat /\ q.seq \in Nat /\ q.got \in Nat /\ q.seq > 0
         /\ Held(c) \in Nat /\ Undeleted(c) \in Nat
         /\ Ending(c, "read") \in Nat /\ Ending(c, "write") \in Nat /\ Complete(c) \in Nat
    BY <1>1, <1>2, <1>6, Given
  <1>13. Held(c)' = Held(c) /\ Undeleted(c)' = Undeleted(c)
    BY <1>9, <1>11, <1>12 DEF B
  <1>14. ConnOK(c)'
    <2>1. RefOK(c)'
      BY <1>2, <1>6, <1>7, <1>11, <1>12, <1>13 DEF ConnOK, RefOK
    <2>2. TrefOK(c)'
      BY <1>2, <1>6, <1>7, <1>11, <1>12, <1>13 DEF ConnOK, TrefOK
    <2>3. HandOK(c)'
      BY <1>2, <1>6, <1>7, <1>8, <1>11, <1>12 DEF ConnOK, HandOK, InHand
    <2>4. StateOK(c)'
      BY <1>2, <1>6, <1>7, <1>11, <1>12 DEF ConnOK, StateOK
    <2>5. SessionOK(c)'
      BY <1>2, <1>3, <1>6, <1>7, <1>11, <1>12, PastKept DEF ConnOK, SessionOK, LastOK
    <2>6. GotOK(c)'
      BY <1>1, <1>2, <1>3, <1>6, <1>7, <1>11, <1>12 DEF ConnOK, GotOK
    <2> QED
      BY <2>1, <2>2, <2>3, <2>4, <2>5, <2>6 DEF ConnOK
  <1>15. LockOK'
    BY <1>1, <1>2, <1>5, <1>6, <1>7, <1>9, UserLock
  <1>16. DrainOK' /\ ListOK'
    BY <1>1, <1>2, <1>5, <1>6, <1>7, <1>11, UserLists DEF Waits
  <1>17. BindOK' /\ CountOK'
    BY <1>2, <1>5, <1>6, <1>7, <1>11, CountsSame DEF UserMoves
  <1>18. \A i \in 1 .. Len(r.pipe) : FromPipe(r.pipe[i], c)
    BY <1>2, <1>7, Given
  <1>19. \/ spc[<<c, k>>] \notin {"reading", "given", "unlock"}
         \/ spc[<<c, k>>] = "unlock" /\ x = "given"
    BY <1>3
  <1> QED
    BY <1>1, <1>2, <1>5, <1>7, <1>11, <1>14, <1>15, <1>16, <1>17, <1>18, <1>19, UserStep

(* The last reference to an entry stands for nothing else. *)
LEMMA LastReference ==
  ASSUME IInv, NEW c \in Conns, Held(c) > 0
  PROVE  /\ conn[c].memory = "live" /\ conn[c].ref >= 1
         /\ conn[c].ref + B(conn[c].state = "success")
               = Ending(c, "read") + Ending(c, "write") + Complete(c) + Held(c)
         /\ conn[c].tref = 1 + Undeleted(c) /\ Arriving(c) = 0
         /\ ~(conn[c].ref > 1) => /\ Ending(c, "read") = 0 /\ Ending(c, "write") = 0
                                  /\ Complete(c) = 0 /\ Held(c) = 1 /\ conn[c].state # "success"
  <1>1. /\ ConnOK(c) /\ conn[c].ref \in Int /\ Held(c) \in Nat /\ Undeleted(c) \in Nat
        /\ Ending(c, "read") \in Nat /\ Ending(c, "write") \in Nat /\ Complete(c) \in Nat
        /\ Arriving(c) \in Nat
    BY Given
  <1>2. /\ conn[c].memory = "live" /\ conn[c].ref >= 1
        /\ conn[c].ref + B(conn[c].state = "success")
              = Ending(c, "read") + Ending(c, "write") + Complete(c) + Held(c)
    BY <1>1 DEF ConnOK, RefOK
  <1>3. conn[c].tref = 1 + Undeleted(c) /\ Arriving(c) = 0
    BY <1>1, <1>2 DEF ConnOK, TrefOK, B
  <1>4. /\ conn[c].state = "success" => /\ Complete(c) > 0 /\ Ending(c, "read") > 0
                                        /\ B(conn[c].state = "success") = 1
        /\ conn[c].state # "success" => B(conn[c].state = "success") = 0
    BY <1>1 DEF ConnOK, StateOK, B
  <1>5. ~(conn[c].ref > 1) => conn[c].state # "success"
    BY <1>1, <1>2, <1>4
  <1>6. ~(conn[c].ref > 1) => /\ Ending(c, "read") = 0 /\ Ending(c, "write") = 0
                              /\ Complete(c) = 0 /\ Held(c) = 1
    BY <1>1, <1>2, <1>4, <1>5
  <1> QED
    BY <1>2, <1>3, <1>5, <1>6

(* The reference that send_message_sync took goes with its session. *)
LEMMA ReplySucceedsStep ==
  ASSUME IInv, NEW s \in Sessions, ReplySucceeds(s)
  PROVE  IInv'
  <1>1. PICK c \in Conns, k \in Nat : s = <<c, k>> /\ c = s[1] /\ k \in 1 .. MaxSeq[c]
    BY SessionNames
  <1>2. PICK q \in Entry : q = conn[c]
    BY Given
  <1>3. /\ spc[<<c, k>>] = "succeed" /\ spc' = [spc EXCEPT ![<<c, k>>] = "deleted"]
        /\ UNCHANGED <<msgqueue, pc, job, wronged>>
        /\ conn' = [conn EXCEPT ![c] = EntryDecref(TargetDecref(q))]
        /\ svc' = Released(svc, conn[c], EntryDecref(TargetDecref(q)))
    BY <1>1, <1>2 DEF ReplySucceeds, Step, Becomes, Set
  <1>4. PICK u \in Entry :
           /\ u = TargetDecref(q)
           /\ Fields(u, q.state, q.ref, q.memory, q.seq, q.tref - 1, q.mutex, q.idle,
                     q.node, q.hand, q.removed, q.partial, q.pipe, q.got)
    BY NewTref
  <1>5. PICK r \in Entry :
           /\ r = EntryDecref(u)
           /\ r.state = q.state /\ r.seq = q.seq /\ r.mutex = q.mutex /\ r.node = q.node
           /\ r.hand = q.hand /\ r.pipe = q.pipe /\ r.got = q.got
           /\ r.idle = q.idle /\ r.removed = q.removed /\ r.partial = q.partial
           /\ q.ref > 1 => r.ref = q.ref - 1 /\ r.memory = q.memory /\ r.tref = q.tref - 1
           /\ ~(q.ref > 1) => r.ref = 0 /\ r.memory = "freed" /\ r.tref = q.tref - 2
    BY <1>4, NewLess, NewFreed DEF Fields, Entry
  <1>6. /\ svc' \in Service /\ svc'.node = svc.node /\ svc'.mutex = svc.mutex
        /\ svc'.marking = svc.marking /\ svc'.alive_list = svc.alive_list
        /\ svc'.listening = svc.listening
    BY <1>3, ReleasedOK DEF IInv, ShapeOK
  <1>7. UserMoves(c, k, "deleted", r)
    BY <1>3, <1>4, <1>5, <1>6 DEF UserMoves
  <1>8. "deleted" \in Stages /\ "deleted" \notin Lockers /\ "succeed" \notin Lockers
        /\ "deleted" \notin Alive /\ "succeed" \in Alive
    BY DEF Stages, Lockers, Alive
  <1>9. \A op \in {"read", "write"} : NodeTokens(r, c, op) = NodeTokens(conn[c], c, op)
    BY <1>2, <1>5 DEF NodeTokens
  <1>10. /\ conn'[c] = r /\ spc'[<<c, k>>] = "deleted" /\ ~wronged'
         /\ \A j \in 1 .. MaxSeq[c] : j # k => spc'[<<c, j>>] = spc[<<c, j>>]
         /\ Complete(c)' = Complete(c) /\ Arriving(c)' = Arriving(c) /\ Binding' = Binding
         /\ Held(c)' = Held(c) - B(spc[<<c, k>>] = "succeed") + B("deleted" = "succeed")
         /\ spc[<<c, k>>] = "succeed" => Held(c) > 0
         /\ Undeleted(c)' = Undeleted(c) - B(spc[<<c, k>>] \in Alive) + B("deleted" \in Alive)
         /\ spc[<<c, k>>] \in Alive => Undeleted(c) > 0
         /\ \A d, j : NoFinisher(d, j)' <=> NoFinisher(d, j)
         /\ \A op \in {"read", "write"} : Ending(c, op)' = Ending(c, op)
    BY <1>1, <1>7, <1>8, <1>9, UserSame
  <1>11. /\ ConnOK(c) /\ MaxSeq[c] \in Nat /\ q.seq \in Nat /\ q.got \in Nat /\ q.tref \in Int
         /\ q.ref \in Int /\ Held(c) \in Nat /\ Undeleted(c) \in Nat /\ Arriving(c) \in Nat
         /\ Ending(c, "read") \in Nat /\ Ending(c, "write") \in Nat /\ Complete(c) \in Nat
    BY <1>2, Given
  <1>12. /\ Held(c)' = Held(c) - 1 /\ Held(c) > 0
         /\ Undeleted(c)' = Undeleted(c) - 1 /\ Undeleted(c) > 0
    BY <1>3, <1>8, <1>10, <1>11 DEF B
  <1>13. /\ q.memory = "live" /\ q.ref >= 1
         /\ q.ref + B(q.state = "success")
               = Ending(c, "read") + Ending(c, "write") + Complete(c) + Held(c)
         /\ ~(q.ref > 1) => /\ Ending(c, "read") = 0 /\ Ending(c, "write") = 0
                            /\ Complete(c) = 0 /\ Held(c) = 1 /\ q.state # "success"
    BY <1>2, <1>12, LastReference
  <1>14. q.memory = "live" /\ q.tref = 1 + Undeleted(c) /\ Arriving(c) = 0
    BY <1>2, <1>12, LastReference
  <1>16. q.tref > 0 /\ r.tref >= 0
    BY <1>5, <1>11, <1>12, <1>14
  <1>17. ConnOK(c)'
    <2>1. RefOK(c)'
      <3>1. CASE q.ref > 1
        BY <1>5, <1>10, <1>11, <1>12, <1>13, <3>1 DEF ConnOK, RefOK, B
      <3>2. CASE ~(q.ref > 1)
        BY <1>5, <1>10, <1>12, <1>13, <3>2 DEF RefOK
      <3> QED
        BY <3>1, <3>2
    <2>2. TrefOK(c)'
      <3>1. r.tref = Arriving(c) + B(r.memory = "live") + (Undeleted(c) - 1)
        BY <1>5, <1>11, <1>12, <1>14 DEF B
      <3>2. r.memory # "unborn" /\ q.state \notin {"none", "accepted"} /\ Arriving(c) <= 1
            /\ (Arriving(c) = 1 => q.state = "accepted")
        BY <1>2, <1>5, <1>11, <1>13 DEF ConnOK, TrefOK
      <3> QED
        BY <1>5, <1>10, <1>12, <3>1, <3>2 DEF TrefOK
    <2>3. HandOK(c)'
      <3>1. InHand(r, c)
        BY <1>2, <1>5, <1>11 DEF ConnOK, HandOK, InHand
      <3>2. r.hand = "append" \/ (r.partial /\ (r.hand # "none" \/ r.node = "read"))
               => q.state = "receiving" /\ spc[<<c, q.seq>>] = "reading"
        BY <1>2, <1>5, <1>11 DEF ConnOK, HandOK
      <3>3. spc[<<c, q.seq>>] = "reading" => spc'[<<c, q.seq>>] = "reading" \/ q.seq = 0
        BY <1>2, <1>3, <1>10, <1>11, Given
      <3>4. q.state = "receiving" => q.seq > 0
        BY <1>2, <1>11 DEF ConnOK, SessionOK, LastOK
      <3> QED
        BY <1>5, <1>10, <1>11, <3>1, <3>2, <3>3, <3>4 DEF HandOK
    <2>4. StateOK(c)'
      BY <1>2, <1>5, <1>10, <1>11 DEF ConnOK, StateOK
    <2>5. SessionOK(c)'
      <3>1. LastOK(c) /\ PastOK(c)
        BY <1>11 DEF ConnOK, SessionOK
      <3>2. \A j \in 1 .. MaxSeq[c] : Settled(c, j) => Settled(c, j)'
        BY <1>10 DEF Settled
      <3>3. PastOK(c)'
        BY <1>1, <1>2, <1>3, <1>5, <1>10, <3>1, <3>2 DEF PastOK
      <3>4. q.seq > 0 => q.seq \in 1 .. MaxSeq[c]
        BY <1>2, Given
      <3>5. q.seq > 0 => \/ spc'[<<c, q.seq>>] = spc[<<c, q.seq>>]
                         \/ spc'[<<c, q.seq>>] = "deleted" /\ spc[<<c, q.seq>>] = "succeed"
        BY <1>3, <1>10, <3>4
      <3>6. q.seq > 0 /\ Settled(c, q.seq) => Settled(c, q.seq)'
        BY <3>2, <3>4
      <3>7. q.state \in {"receiving", "success", "idle", "error", "keepalive"} => q.seq > 0
        BY <1>2, <3>1 DEF LastOK
      <3>8. LastOK(c)'
        BY <1>2, <1>5, <1>10, <1>11, <3>1, <3>5, <3>6, <3>7 DEF ConnOK, StateOK, LastOK
      <3> QED
        BY <3>3, <3>8 DEF SessionOK
    <2>6. GotOK(c)'
      <3>1. GotOK(c)
        BY <1>11 DEF ConnOK
      <3>2. q.seq > 0 => q.seq \in 1 .. MaxSeq[c]
        BY <1>2, Given
      <3>3. q.seq > 0 => \/ spc'[<<c, q.seq>>] = spc[<<c, q.seq>>]
                         \/ spc'[<<c, q.seq>>] = "deleted"
        BY <1>3, <1>10, <3>2
      <3>4. q.mutex \in Sessions /\ spc[q.mutex] = "sync" => spc'[q.mutex] = "sync"
        BY <1>2, <1>3, <1>10, SessionNames DEF IInv, LockOK
      <3> QED
        BY <1>2, <1>5, <1>10, <3>1, <3>3, <3>4 DEF GotOK
    <2> QED
      BY <2>1, <2>2, <2>3, <2>4, <2>5, <2>6 DEF ConnOK
  <1>18. LockOK'
    <2>1. q.mutex # None => q.state = "idle" /\ ~q.idle
      BY <1>2 DEF IInv, LockOK
    <2> QED
      BY <1>1, <1>2, <1>3, <1>5, <1>7, <1>8, <2>1, UserLock
  <1>19. DrainOK' /\ ListOK'
    BY <1>1, <1>2, <1>5, <1>6, <1>7, <1>8, <1>10, UserLists DEF Waits
  <1>20. BindOK' /\ CountOK'
    <2>1. svc' = Released(svc, conn[c], r) /\ conn' = [conn EXCEPT ![c] = r]
      BY <1>3, <1>4, <1>5
    <2>2. /\ pc'[Main] = pc[Main]
          /\ {h \in Handlers : pc'[h] \in NewSteps} = {h \in Handlers : pc[h] \in NewSteps}
          /\ {h \in Handlers : pc'[h] = "make"} = {h \in Handlers : pc[h] = "make"}
      BY <1>3
    <2>3. /\ conn[c].tref > 0 /\ r.tref >= 0
          /\ r.memory = conn[c].memory \/ (conn[c].memory = "live" /\ r.memory = "freed")
          /\ r.memory = "live" /\ r.state # "closing" => conn[c].state # "closing"
          /\ Binding' = Binding
      BY <1>2, <1>5, <1>10, <1>13, <1>16
    <2> QED
      BY <2>1, <2>2, <2>3, ReleasedStep
  <1>21. \A i \in 1 .. Len(r.pipe) : FromPipe(r.pipe[i], c)
    BY <1>2, <1>5, Given
  <1> QED
    BY <1>1, <1>2, <1>3, <1>5, <1>7, <1>8, <1>10, <1>17, <1>18, <1>19, <1>20, <1>21, UserStep

(* An entry joins the keep-alive list. *)
LEMMA KeepLists ==
  ASSUME IInv, NEW c \in Conns, svc.mutex = None, svc.listening, conn[c].state # "keepalive",
         svc' = [svc EXCEPT !.alive_list = Append(@, c)], Waits(c)',
         \A d \in Conns : d # c => (Waits(d)' <=> Waits(d)) /\ conn'[d] = conn[d],
         \A t \in Threads : \/ pc'[t] = pc[t]
                            \/ pc'[t] \notin Closing \cup Marking /\ pc[t] \notin Closing \cup Marking,
         Binding' = Binding
  PROVE  DrainOK' /\ ListOK'
  <1>1. PICK q \in Seq(Conns) : q = svc.alive_list
    BY DEF IInv, ShapeOK, Service
  <1>2. /\ svc'.mutex = None /\ svc'.marking = svc.marking /\ svc'.listening
        /\ svc'.alive_list = Append(q, c)
    BY <1>1 DEF IInv, ShapeOK, Service
  <1>3. DrainOK /\ ListOK
    BY DEF IInv
  <1>4. svc.marking = None
    BY <1>3 DEF DrainOK
  <1>5. c \notin ToSet(q)
    BY <1>1, <1>3 DEF ListOK
  <1>6. ToSet(Append(q, c)) = ToSet(q) \cup {c}
    <2>1. /\ \A i \in 1 .. Len(q) : Append(q, c)[i] = q[i]
          /\ Append(q, c)[Len(q) + 1] = c
          /\ DOMAIN Append(q, c) = 1 .. (Len(q) + 1) /\ Len(q) \in Nat /\ DOMAIN q = 1 .. Len(q)
      OBVIOUS
    <2>2. \A i \in 1 .. (Len(q) + 1) : i \in 1 .. Len(q) \/ i = Len(q) + 1
      BY <2>1
    <2>3. Len(q) + 1 \in 1 .. (Len(q) + 1) /\ \A i \in 1 .. Len(q) : i \in 1 .. (Len(q) + 1)
      BY <2>1
    <2> QED
      BY <2>1, <2>2, <2>3 DEF ToSet
  <1>7. IsInjective(Append(q, c))
    BY <1>1, <1>3, <1>5 DEF ListOK, ToSet, IsInjective
  <1>8. \A t \in Threads : pc[t] \notin Marking \cup Closing
    BY <1>3 DEF DrainOK, ListOK, Marking, Closing
  <1>9. \A t \in Threads : pc'[t] \notin Marking \cup Closing
    BY <1>8
  <1>10. None \notin Threads
    BY Names
  <1>11. DrainOK'
    BY <1>2, <1>4, <1>9, <1>10 DEF DrainOK
  <1>12. \A d \in ToSet(q) : d \in Conns
    BY DEF ToSet
  <1>13. \A d \in Conns : Waits(d) /\ svc.marking # d => d \in ToSet(q)
    BY <1>1, <1>3 DEF ListOK, Waits
  <1>14. \A d \in ToSet(q) : Waits(d) /\ svc.marking # d
    BY <1>1, <1>3 DEF ListOK, Waits
  <1>15. /\ \A d \in ToSet(svc'.alive_list) : Waits(d)' /\ svc'.marking # d
         /\ \A d \in Conns : Waits(d)' => d \in ToSet(svc'.alive_list)
    <2>1. \A d \in ToSet(q) : d # c /\ Waits(d)' /\ d \in Conns
      BY <1>5, <1>12, <1>14
    <2>2. None \notin Conns
      BY Names
    <2>3. \A d \in Conns : Waits(d)' => d = c \/ d \in ToSet(q)
      BY <1>4, <1>13, <2>2
    <2> QED
      BY ONLY <1>2, <1>4, <1>6, <2>1, <2>2, <2>3, Waits(c)', c \in Conns
  <1>16. ~(Binding' = 0)
    BY <1>3 DEF ListOK
  <1>17. \A t \in Threads : pc'[t] # "service_decref"
    BY <1>9 DEF Closing
  <1> QED
    BY <1>2, <1>7, <1>9, <1>11, <1>15, <1>16, <1>17 DEF ListOK, Waits

LEMMA ListedOK ==
  ASSUME NEW v \in Service, NEW c \in Conns
  PROVE  /\ [v EXCEPT !.alive_list = Append(@, c)] \in Service
         /\ [v EXCEPT !.alive_list = Append(@, c)].alive_list = Append(v.alive_list, c)
         /\ [v EXCEPT !.alive_list = Append(@, c)].node = v.node
         /\ [v EXCEPT !.alive_list = Append(@, c)].ref = v.ref
         /\ [v EXCEPT !.alive_list = Append(@, c)].conn_count = v.conn_count
         /\ [v EXCEPT !.alive_list = Append(@, c)].unbound = v.unbound
         /\ [v EXCEPT !.alive_list = Append(@, c)].mutex = v.mutex
         /\ [v EXCEPT !.alive_list = Append(@, c)].marking = v.marking
         /\ [v EXCEPT !.alive_list = Append(@, c)].listening = v.listening
  <1>1. PICK z \in Seq(Conns) : z = v.alive_list
    BY DEF Service
  <1>0. Append(z, c) \in Seq(Conns)
    OBVIOUS
  <1>2. PICK q \in Seq(Conns) : q = Append(z, c)
    BY <1>0
  <1>3. [v EXCEPT !.alive_list = Append(@, c)] = [v EXCEPT !.alive_list = q]
    BY <1>1, <1>2
  <1> QED
    BY <1>1, <1>2, <1>3 DEF Service

(* send_message_sync: the reply was written, and the entry is kept alive or
   closed. *)
LEMMA SyncStep ==
  ASSUME IInv, NEW c \in Conns, NEW k \in 1 .. MaxSeq[c], spc[<<c, k>>] = "sync",
         NEW q \in Entry, q = conn[c], NEW r \in Entry,
         r.state \in {"keepalive", "closing"}, r.ref = q.ref + 1, r.memory = q.memory, r.seq = q.seq, r.tref = q.tref,
         r.mutex = None, r.idle = q.idle, r.node \in {q.node, "none"}, r.hand = q.hand,
         r.partial = q.partial, r.got = q.got,
         \A op \in {"read", "write"} : NodeTokens(r, c, op) = NodeTokens(q, c, op),
         InHand(r, c), \A i \in 1 .. Len(r.pipe) : FromPipe(r.pipe[i], c),
         spc' = [spc EXCEPT ![<<c, k>>] = "succeed"], conn' = [conn EXCEPT ![c] = r],
         UNCHANGED <<msgqueue, pc, job, wronged>>,
         \/ r.state = "closing" /\ svc' = svc
         \/ /\ r.state = "keepalive" /\ svc.mutex = None /\ svc.listening
            /\ svc' = [svc EXCEPT !.alive_list = Append(@, c)]
  PROVE  IInv'
  <1>1. /\ k = q.seq /\ q.mutex = <<c, k>> /\ q.mutex \notin Handlers /\ q.mutex # None
        /\ q.state = "idle" /\ ~q.idle /\ q.memory = "live"
        /\ Ending(c, "read") = 1 /\ Ending(c, "write") = 0 /\ Complete(c) = 0 /\ q.node # "write"
    BY Replying
  <1>2. /\ svc' \in Service /\ svc'.node = svc.node /\ svc'.ref = svc.ref
        /\ svc'.conn_count = svc.conn_count /\ svc'.unbound = svc.unbound
        /\ svc'.mutex = svc.mutex /\ svc'.marking = svc.marking /\ svc'.listening = svc.listening
    <2>1. PICK v \in Service : v = svc
      BY DEF IInv, ShapeOK
    <2>2. svc' = v \/ svc' = [v EXCEPT !.alive_list = Append(@, c)]
      BY <2>1
    <2>3. PICK w \in Service :
             /\ w = [v EXCEPT !.alive_list = Append(@, c)]
             /\ w.node = v.node /\ w.ref = v.ref /\ w.conn_count = v.conn_count
             /\ w.unbound = v.unbound /\ w.mutex = v.mutex /\ w.marking = v.marking
             /\ w.listening = v.listening
      BY ListedOK
    <2> QED
      BY <2>1, <2>2, <2>3
  <1>3. UserMoves(c, k, "succeed", r)
    BY <1>2 DEF UserMoves
  <1>4. "succeed" \in Stages /\ "succeed" \notin Lockers /\ "succeed" \in Alive /\ "sync" \in Alive
    BY DEF Stages, Lockers, Alive
  <1>5. /\ conn'[c] = r /\ spc'[<<c, k>>] = "succeed" /\ ~wronged'
        /\ \A j \in 1 .. MaxSeq[c] : j # k => spc'[<<c, j>>] = spc[<<c, j>>]
        /\ Complete(c)' = Complete(c) /\ Arriving(c)' = Arriving(c) /\ Binding' = Binding
        /\ Held(c)' = Held(c) - B(spc[<<c, k>>] = "succeed") + B("succeed" = "succeed")
        /\ Undeleted(c)' = Undeleted(c) - B(spc[<<c, k>>] \in Alive) + B("succeed" \in Alive)
        /\ \A d, j : NoFinisher(d, j)' <=> NoFinisher(d, j)
        /\ \A op \in {"read", "write"} : Ending(c, op)' = Ending(c, op)
    BY <1>3, <1>4, UserSame
  <1>6. /\ ConnOK(c) /\ MaxSeq[c] \in Nat /\ q.seq \in Nat /\ q.got \in Nat /\ q.tref \in Int
        /\ q.ref \in Int /\ Held(c) \in Nat /\ Undeleted(c) \in Nat /\ Arriving(c) \in Nat
    BY Given
  <1>7. Held(c)' = Held(c) + 1 /\ Undeleted(c)' = Undeleted(c)
    BY <1>4, <1>5, <1>6 DEF B
  <1>8. ConnOK(c)'
    <2>1. RefOK(c)'
      BY <1>1, <1>5, <1>6, <1>7 DEF ConnOK, RefOK, B
    <2>2. TrefOK(c)'
      BY <1>1, <1>5, <1>6, <1>7 DEF ConnOK, TrefOK, B
    <2>3. HandOK(c)'
      BY <1>1, <1>5, <1>6 DEF ConnOK, HandOK
    <2>4. StateOK(c)'
      BY <1>1, <1>5, <1>6 DEF ConnOK, StateOK
    <2>5. SessionOK(c)'
      BY <1>1, <1>5, <1>6, PastKept DEF ConnOK, SessionOK, LastOK, Settled
    <2>6. GotOK(c)'
      BY <1>1, <1>5, <1>6 DEF ConnOK, GotOK
    <2> QED
      BY <2>1, <2>2, <2>3, <2>4, <2>5, <2>6 DEF ConnOK
  <1>9. LockOK'
    BY <1>1, <1>3, <1>4, UserLock
  <1>10. Waits(c)' <=> r.state = "keepalive"
    BY <1>1, <1>5 DEF Waits
  <1>11. ~Waits(c)
    BY <1>1 DEF Waits
  <1>12. DrainOK' /\ ListOK'
    BY <1>1, <1>3, <1>4, <1>5, <1>10, <1>11, UserLists, UserFacts, KeepLists DEF SameAt, Waits
  <1>13. BindOK' /\ CountOK'
    BY <1>1, <1>2, <1>5, CountsSame
  <1>14. spc[<<c, k>>] \notin {"reading", "given", "unlock"}
    OBVIOUS
  <1> QED
    BY <1>1, <1>3, <1>4, <1>5, <1>8, <1>9, <1>12, <1>13, <1>14, UserStep

(* The entry that is kept alive, or closed, with its mutex released. *)
LEMMA KeptRecord ==
  ASSUME NEW c \in Conns, NEW b \in Entry, b.node # "write", InHand(b, c),
         \A i \in 1 .. Len(b.pipe) : FromPipe(b.pipe[i], c),
         NEW r, \/ r = [b EXCEPT !.state = "keepalive"]
                \/ r = Close(c, PollerDel(c, b))
  PROVE  /\ r \in Entry
         /\ r.state \in {"keepalive", "closing"}
         /\ r = [b EXCEPT !.state = "keepalive"] => r.state = "keepalive"
         /\ r = Close(c, PollerDel(c, b)) => r.state = "closing"
         /\ r.ref = b.ref /\ r.memory = b.memory /\ r.seq = b.seq /\ r.tref = b.tref
         /\ r.mutex = b.mutex /\ r.idle = b.idle /\ r.node \in {b.node, "none"} /\ r.hand = b.hand
         /\ r.partial = b.partial /\ r.got = b.got
         /\ \A op \in {"read", "write"} : NodeTokens(r, c, op) = NodeTokens(b, c, op)
         /\ InHand(r, c) /\ \A i \in 1 .. Len(r.pipe) : FromPipe(r.pipe[i], c)
  <1>1. [b EXCEPT !.state = "keepalive"].state = "keepalive"
    BY NewState DEF Fields
  <1>2. PICK d \in Entry : d = PollerDel(c, b) /\ Deleted(d, b, c)
    BY PollerDelOK
  <1>3. Close(c, d).state = "closing"
    BY NewState DEF Fields, Close
  <1>4. CASE r = [b EXCEPT !.state = "keepalive"]
    <2>1. r \in Entry /\ Fields(r, "keepalive", b.ref, b.memory, b.seq, b.tref, b.mutex, b.idle,
                                b.node, b.hand, b.removed, b.partial, b.pipe, b.got)
      BY <1>4, NewState
    <2>2. \A op \in {"read", "write"} : NodeTokens(r, c, op) = NodeTokens(b, c, op)
      BY <2>1 DEF NodeTokens, Fields
    <2>3. InHand(r, c)
      BY <2>1 DEF InHand, Fields
    <2>4. r # Close(c, d)
      BY <1>1, <1>3, <1>4
    <2> QED
      BY <1>2, <1>4, <2>1, <2>2, <2>3, <2>4 DEF Fields
  <1>5. CASE r = Close(c, d)
    <2>1. r \in Entry /\ Fields(r, "closing", d.ref, d.memory, d.seq, d.tref, d.mutex, d.idle,
                                d.node, d.hand, d.removed, d.partial, d.pipe, d.got)
      BY <1>5, NewState DEF Close
    <2>2. \A op \in {"read", "write"} : NodeTokens(r, c, op) = NodeTokens(d, c, op)
      BY <2>1 DEF NodeTokens, Fields
    <2>3. InHand(r, c)
      BY <1>2, <2>1 DEF InHand, Fields, Deleted
    <2>4. r # [b EXCEPT !.state = "keepalive"]
      BY <1>1, <1>3, <1>5
    <2> QED
      BY <1>2, <1>5, <2>1, <2>2, <2>3, <2>4 DEF Fields, Deleted, SameEntry
  <1> QED
    BY <1>2, <1>4, <1>5

LEMMA KeepAliveStep ==
  ASSUME IInv, NEW s \in Sessions, KeepAlive(s)
  PROVE  IInv'
  <1>1. PICK c \in Conns, k \in Nat : s = <<c, k>> /\ c = s[1] /\ k \in 1 .. MaxSeq[c]
    BY SessionNames
  <1>2. PICK q \in Entry : q = conn[c]
    BY Given
  <1>3. PICK a \in Entry :
           /\ a = [q EXCEPT !.ref = @ + 1]
           /\ Fields(a, q.state, q.ref + 1, q.memory, q.seq, q.tref, q.mutex, q.idle,
                     q.node, q.hand, q.removed, q.partial, q.pipe, q.got)
    BY NewRef
  <1>4. PICK b \in Entry :
           /\ b = Unlocked(a)
           /\ Fields(b, a.state, a.ref, a.memory, a.seq, a.tref, None, a.idle,
                     a.node, a.hand, a.removed, a.partial, a.pipe, a.got)
    BY NewMutex DEF Unlocked
  <1>5. /\ b.ref = q.ref + 1 /\ b.memory = q.memory /\ b.seq = q.seq /\ b.tref = q.tref
        /\ b.mutex = None /\ b.idle = q.idle /\ b.node = q.node /\ b.hand = q.hand
        /\ b.partial = q.partial /\ b.got = q.got /\ b.pipe = q.pipe /\ b.removed = q.removed
    BY <1>3, <1>4 DEF Fields
  <1>6. /\ spc[<<c, k>>] = "sync" /\ spc' = [spc EXCEPT ![<<c, k>>] = "succeed"]
        /\ UNCHANGED <<msgqueue, pc, job, wronged>>
        /\ Keep(c, b) \/ (Set(c, Close(c, PollerDel(c, b))) /\ svc' = svc)
    BY <1>1, <1>2, <1>3, <1>4 DEF KeepAlive, Step
  <1>7. q.node # "write"
    BY <1>1, <1>2, <1>6, Replying
  <1>8. InHand(b, c) /\ \A i \in 1 .. Len(b.pipe) : FromPipe(b.pipe[i], c)
    BY <1>2, <1>5, Given DEF InHand
  <1>9. \A op \in {"read", "write"} : NodeTokens(b, c, op) = NodeTokens(q, c, op)
    BY <1>5 DEF NodeTokens
  <1>10. CASE svc.mutex = None /\ svc.listening /\ Set(c, [b EXCEPT !.state = "keepalive"])
              /\ svc' = [svc EXCEPT !.alive_list = Append(@, c)]
    <2>1. PICK r : r = [b EXCEPT !.state = "keepalive"]
      OBVIOUS
    <2>2. /\ r \in Entry /\ r.state = "keepalive"
          /\ r.ref = b.ref /\ r.memory = b.memory /\ r.seq = b.seq /\ r.tref = b.tref
          /\ r.mutex = b.mutex /\ r.idle = b.idle /\ r.node \in {b.node, "none"} /\ r.hand = b.hand
          /\ r.partial = b.partial /\ r.got = b.got
          /\ \A op \in {"read", "write"} : NodeTokens(r, c, op) = NodeTokens(b, c, op)
          /\ InHand(r, c) /\ \A i \in 1 .. Len(r.pipe) : FromPipe(r.pipe[i], c)
      BY <1>5, <1>7, <1>8, <2>1, KeptRecord
    <2>3. conn' = [conn EXCEPT ![c] = r]
      BY <1>10, <2>1 DEF Set
    <2>4. /\ r.ref = q.ref + 1 /\ r.memory = q.memory /\ r.seq = q.seq /\ r.tref = q.tref
          /\ r.mutex = None /\ r.idle = q.idle /\ r.node \in {q.node, "none"} /\ r.hand = q.hand
          /\ r.partial = q.partial /\ r.got = q.got
          /\ \A op \in {"read", "write"} : NodeTokens(r, c, op) = NodeTokens(q, c, op)
      BY <1>5, <1>9, <2>2
    <2>5. r.state \in {"keepalive", "closing"}
      BY <2>2
    <2>6. \/ r.state = "closing" /\ svc' = svc
          \/ /\ r.state = "keepalive" /\ svc.mutex = None /\ svc.listening
             /\ svc' = [svc EXCEPT !.alive_list = Append(@, c)]
      BY <1>10, <2>2
    <2>7. r \in Entry /\ InHand(r, c) /\ \A i \in 1 .. Len(r.pipe) : FromPipe(r.pipe[i], c)
      BY <2>2
    <2> QED
      BY <1>1, <1>2, <1>6, <2>3, <2>4, <2>5, <2>6, <2>7, SyncStep
  <1>11. CASE Set(c, Close(c, PollerDel(c, b))) /\ svc' = svc
    <2>1. PICK r : r = Close(c, PollerDel(c, b))
      OBVIOUS
    <2>2. /\ r \in Entry /\ r.state = "closing"
          /\ r.ref = b.ref /\ r.memory = b.memory /\ r.seq = b.seq /\ r.tref = b.tref
          /\ r.mutex = b.mutex /\ r.idle = b.idle /\ r.node \in {b.node, "none"} /\ r.hand = b.hand
          /\ r.partial = b.partial /\ r.got = b.got
          /\ \A op \in {"read", "write"} : NodeTokens(r, c, op) = NodeTokens(b, c, op)
          /\ InHand(r, c) /\ \A i \in 1 .. Len(r.pipe) : FromPipe(r.pipe[i], c)
      BY <1>5, <1>7, <1>8, <2>1, KeptRecord
    <2>3. conn' = [conn EXCEPT ![c] = r]
      BY <1>11, <2>1 DEF Set
    <2>4. /\ r.ref = q.ref + 1 /\ r.memory = q.memory /\ r.seq = q.seq /\ r.tref = q.tref
          /\ r.mutex = None /\ r.idle = q.idle /\ r.node \in {q.node, "none"} /\ r.hand = q.hand
          /\ r.partial = q.partial /\ r.got = q.got
          /\ \A op \in {"read", "write"} : NodeTokens(r, c, op) = NodeTokens(q, c, op)
      BY <1>5, <1>9, <2>2
    <2>5. r.state \in {"keepalive", "closing"}
      BY <2>2
    <2>6. \/ r.state = "closing" /\ svc' = svc
          \/ /\ r.state = "keepalive" /\ svc.mutex = None /\ svc.listening
             /\ svc' = [svc EXCEPT !.alive_list = Append(@, c)]
      BY <1>11, <2>2
    <2>7. r \in Entry /\ InHand(r, c) /\ \A i \in 1 .. Len(r.pipe) : FromPipe(r.pipe[i], c)
      BY <2>2
    <2> QED
      BY <1>1, <1>2, <1>6, <2>3, <2>4, <2>5, <2>6, <2>7, SyncStep
  <1> QED
    BY <1>6, <1>10, <1>11 DEF Keep, StillListens

(* A request is complete: the state changes with what is sent. *)
LEMMA StateStep ==
  ASSUME IInv, ShapeOK', ResultsOK', ~wronged', UNCHANGED <<svc, spc, pc, job>>,
         NEW c \in Conns, NEW r \in Entry, conn' = [conn EXCEPT ![c] = r],
         r.seq = conn[c].seq, r.memory = conn[c].memory, r.tref = conn[c].tref,
         r.mutex = None, conn[c].mutex = None,
         r.state \notin {"keepalive", "closing"}, conn[c].state \notin {"keepalive", "closing"},
         \A d \in Conns : d # c => QueueSame(d),
         Ending(c, "read")' = Ending(c, "read"),
         Num(msgqueue, Unbinds)' = Num(msgqueue, Unbinds), ConnOK(c)'
  PROVE  IInv'
  <1>0. /\ ShapeOK /\ ResultsOK /\ LockOK /\ FinishOK /\ \A d \in Conns : ConnOK(d)
    BY DEF IInv
  <1>1. /\ conn'[c] = r /\ \A d \in Conns : d # c => conn'[d] = conn[d]
    BY <1>0 DEF ShapeOK
  <1>2. \A d \in Conns : d # c => SameAt(d)
    BY <1>1, Elsewhere DEF JobsSame, SessionsSame
  <1>3. \A d \in Conns : ConnOK(d)'
    BY <1>0, <1>2, Frame
  <1>4. JNum(Unbinds, {"listen"} \cup Closing)' = JNum(Unbinds, {"listen"} \cup Closing)
    BY JobsStay
  <1>5. Binding' = Binding
    BY <1>4 DEF Binding
  <1>6. \A d \in Conns : Waits(d)' <=> Waits(d)
    BY <1>1, <1>2 DEF SameAt, Waits
  <1>7. DrainOK' /\ ListOK'
    BY <1>5, <1>6, ServiceSame
  <1>8. LockOK'
    BY <1>0, <1>1, LockSame DEF LockOK
  <1>9. FinishOK'
    BY <1>0, <1>1, <1>2 DEF ResultsOK, GoodJob, SameAt, FinishAt, FinishOK, Finishes
  <1>10. BindOK' /\ CountOK'
    BY <1>5, CountsSame
  <1> QED
    BY <1>3, <1>7, <1>8, <1>9, <1>10 DEF IInv

(* A node that the poller's thread reads from still has its end to come. *)
LEMMA ReadingEnds ==
  ASSUME IInv, NEW c \in Conns, conn[c].hand # "none", conn[c].state # "idle"
  PROVE  /\ Ending(c, "read") = 1 /\ Ending(c, "write") = 0 /\ conn[c].memory = "live"
         /\ ~conn[c].removed => conn[c].node = "read"
         /\ conn[c].removed => conn[c].node = "none"
         /\ JNum(Ends(c, "read"), {"read"}) = 0 /\ Num(msgqueue, Ends(c, "read")) = 0
  <1>1. ShapeOK /\ ConnOK(c) /\ InHand(conn[c], c) /\ conn[c] \in Entry
    BY Given DEF IInv
  <1>2. Ending(c, "read") \in Nat /\ Ending(c, "write") \in Nat
    BY <1>1, CountTypes
  <1>3. Ending(c, "write") = 0
    BY <1>1, <1>2 DEF ConnOK, StateOK
  <1>4. conn[c].node # "write"
    BY <1>1, <1>2, <1>3, NodeIsToken
  <1>5. /\ B(conn[c].node = "read") \in Nat /\ Num(conn[c].pipe, Ends(c, "read")) \in Nat
        /\ Num(msgqueue, Ends(c, "read")) \in Nat /\ JNum(Ends(c, "read"), {"read"}) \in Nat
        /\ Ending(c, "read") = B(conn[c].node = "read") + Num(conn[c].pipe, Ends(c, "read"))
                            + Num(msgqueue, Ends(c, "read")) + JNum(Ends(c, "read"), {"read"})
    BY <1>1, EndingParts
  <1>6. B(conn[c].node = "read") + Num(conn[c].pipe, Ends(c, "read")) > 0
    BY <1>1, <1>4, <1>5, PipeNum DEF InHand, B
  <1>7. Ending(c, "read") <= 1
    BY <1>1, <1>2 DEF ConnOK, RefOK
  <1>8. Ending(c, "read") = 1 /\ JNum(Ends(c, "read"), {"read"}) = 0 /\ Num(msgqueue, Ends(c, "read")) = 0
    BY <1>2, <1>5, <1>6, <1>7
  <1>9. conn[c].memory = "live"
    <2>1. Ending(c, "read") > 0
      BY <1>8
    <2> QED
      BY <2>1, Given
  <1>10. /\ ~conn[c].removed => conn[c].node = "read"
         /\ conn[c].removed => conn[c].node = "none"
    BY <1>1, <1>4 DEF InHand
  <1> QED
    BY <1>3, <1>8, <1>9, <1>10

(* The second of append_request's outcomes. *)
AppendDone(c) ==
    /\ conn[c].hand = "append" \/ (conn[c].hand = "read" /\ conn[c].partial)
    /\ Set(c, [conn[c] EXCEPT !.state = "success", !.partial = FALSE, !.hand = "read"])
    /\ Send(Result("read", "SUCCESS", c))
    /\ UNCHANGED <<svc, spc, pc, job, wronged>>

LEMMA AppendDoneStep ==
  ASSUME IInv, NEW c \in Conns, AppendDone(c)
  PROVE  IInv'
  <1>00. /\ conn[c].hand = "append" \/ (conn[c].hand = "read" /\ conn[c].partial)
         /\ svc' = svc /\ spc' = spc /\ pc' = pc /\ job' = job /\ wronged' = wronged
    BY DEF AppendDone
  <1>0. /\ ShapeOK /\ ResultsOK /\ LockOK /\ ConnOK(c) /\ conn[c] \in Entry
    BY DEF IInv, ShapeOK
  <1>1. PICK q \in Entry : q = conn[c]
    BY <1>0
  <1>2. PICK r \in Entry : /\ r = [q EXCEPT !.state = "success", !.partial = FALSE, !.hand = "read"]
                           /\ Fields(r, "success", q.ref, q.memory, q.seq, q.tref, q.mutex, q.idle,
                                     q.node, "read", q.removed, FALSE, q.pipe, q.got)
    BY NewSuccess
  <1>30. conn' = [conn EXCEPT ![c] = r]
    BY <1>1, <1>2 DEF AppendDone, Set
  <1>3. conn'[c] = r
    BY <1>0, <1>30 DEF ShapeOK
  <1>20. /\ r.state = "success" /\ r.ref = q.ref /\ r.memory = q.memory /\ r.seq = q.seq
         /\ r.tref = q.tref /\ r.mutex = q.mutex /\ r.idle = q.idle /\ r.node = q.node
         /\ r.hand = "read" /\ r.removed = q.removed /\ ~r.partial /\ r.pipe = q.pipe
         /\ r.got = q.got
    BY <1>2 DEF Fields
  <1>4. PICK m \in Outcome : /\ m = Result("read", "SUCCESS", c) /\ GoodResult(m)
                             /\ m.op = "read" /\ m.st = "SUCCESS" /\ m.conn = c
    BY ResultOK DEF GoodResult
  <1>5. msgqueue' = Append(msgqueue, m)
    BY <1>4 DEF AppendDone, Send
  <1>6. ShapeOK' /\ ResultsOK'
    <2>1. msgqueue' \in Seq(Outcome)
      BY <1>0, <1>5 DEF ShapeOK
    <2>2. \A i \in 1 .. Len(r.pipe) : FromPipe(r.pipe[i], c)
      BY <1>0, <1>1, <1>2 DEF ResultsOK, Fields
    <2>3. r.seq = conn[c].seq
      BY <1>1, <1>2 DEF Fields
    <2>5. ShapeOK'
      BY <1>0, <1>00, <1>30, <2>1, PollerShape
    <2>6. ResultsOK'
      BY <1>00, <1>0, <1>4, <1>5, <1>30, <2>2, <2>3, PollerResults
    <2> QED
      BY <2>5, <2>6
  <1>7. /\ \A op : Num(msgqueue, Ends(c, op))' = Num(msgqueue, Ends(c, op))
        /\ Num(msgqueue, Completes(c))' = Num(msgqueue, Completes(c)) + 1
        /\ Num(msgqueue, Arrivals(c))' = Num(msgqueue, Arrivals(c))
        /\ Num(msgqueue, Unbinds)' = Num(msgqueue, Unbinds)
        /\ \A S : Num(msgqueue, S) \in Nat
    BY <1>0, <1>1, <1>4, <1>5, SendCounts DEF B
  <1>8. /\ q.state = "receiving" /\ spc[<<c, q.seq>>] = "reading" /\ q.hand # "none"
    BY <1>0, <1>00, <1>1 DEF ConnOK, HandOK
  <1>9. Ending(c, "read") = 1 /\ Ending(c, "write") = 0 /\ q.memory = "live"
    BY <1>1, <1>8, ReadingEnds
  <1>10. \A op \in {"read", "write"} : Ending(c, op)' = Ending(c, op)
    BY <1>00, <1>1, <1>3, <1>7, <1>20, JobsStay DEF Ending, NodeTokens
  <1>11. Complete(c) \in Nat /\ Complete(c)' = Complete(c) + 1
    BY <1>00, <1>7, JobsStay, JNumPositive DEF Complete
  <1>12. Complete(c) = 0
    BY <1>0, <1>1, <1>8, <1>11 DEF ConnOK, StateOK
  <1>13. /\ Arriving(c)' = Arriving(c) /\ Held(c)' = Held(c) /\ Undeleted(c)' = Undeleted(c)
         /\ Held(c) \in Nat /\ Arriving(c) \in Nat /\ Undeleted(c) \in Nat /\ q.seq \in Nat
         /\ q.got \in Nat /\ MaxSeq[c] \in Nat /\ q.ref \in Int
    BY <1>00, <1>1, <1>7, JobsStay, SessionsStay, Given DEF Repliers, Undeleted, Arriving, Held
  <1>14. \A d, k : NoFinisher(d, k)' <=> NoFinisher(d, k)
    BY <1>00 DEF NoFinisher, Finishes
  <1>15. ConnOK(c)'
    <2>1. RefOK(c)'
      BY <1>0, <1>1, <1>3, <1>8, <1>9, <1>10, <1>11, <1>12, <1>13, <1>20 DEF ConnOK, RefOK, B
    <2>2. TrefOK(c)'
      BY <1>0, <1>1, <1>3, <1>8, <1>9, <1>13, <1>20 DEF ConnOK, TrefOK
    <2>3. HandOK(c)'
      BY <1>0, <1>00, <1>1, <1>3, <1>8, <1>20 DEF ConnOK, HandOK, InHand
    <2>4. StateOK(c)'
      BY <1>0, <1>1, <1>3, <1>8, <1>9, <1>10, <1>11, <1>12, <1>20 DEF ConnOK, StateOK
    <2>5. SessionOK(c)'
      BY <1>0, <1>00, <1>1, <1>3, <1>8, <1>9, <1>10, <1>13, <1>14, <1>20, PastKept DEF ConnOK,
         SessionOK, StateOK, LastOK
    <2>6. GotOK(c)'
      BY <1>0, <1>00, <1>1, <1>3, <1>8, <1>13, <1>20 DEF ConnOK, GotOK
    <2> QED
      BY <2>1, <2>2, <2>3, <2>4, <2>5, <2>6 DEF ConnOK
  <1>16. \A d \in Conns : d # c => QueueSame(d)
    BY <1>0, <1>4, <1>5, QueueSend
  <1>17. q.mutex = None
    BY <1>0, <1>1, <1>8 DEF LockOK
  <1>18. /\ r.seq = conn[c].seq /\ r.memory = conn[c].memory /\ r.tref = conn[c].tref
         /\ r.mutex = None /\ conn[c].mutex = None
         /\ r.state \notin {"keepalive", "closing"} /\ conn[c].state \notin {"keepalive", "closing"}
         /\ ~wronged'
    BY <1>0, <1>00, <1>1, <1>8, <1>17, <1>20 DEF ConnOK, GotOK
  <1> QED
    BY <1>00, <1>30, <1>6, <1>7, <1>10, <1>15, <1>16, <1>18, StateStep

LEMMA AppendRequestStep ==
  ASSUME IInv, NEW c \in Conns, AppendRequest(c)
  PROVE  IInv'
  <1>1. /\ conn[c].hand = "append" \/ (conn[c].hand = "read" /\ conn[c].partial)
        /\ UNCHANGED <<svc, spc, pc, job, wronged>>
    BY DEF AppendRequest
  <1>2. ~wronged'
    BY <1>1, Given DEF ConnOK, GotOK
  <1>3. CASE Set(c, [conn[c] EXCEPT !.partial = TRUE, !.hand = "read"]) /\ UNCHANGED msgqueue
    BY <1>1, <1>3, AppendMoreStep DEF Set
  <1>4. CASE Set(c, [conn[c] EXCEPT !.state = "success", !.partial = FALSE, !.hand = "read"])
             /\ Send(Result("read", "SUCCESS", c))
    BY <1>1, <1>4, AppendDoneStep DEF AppendDone
  <1>5. CASE EndNode(c, "ERROR")
    BY <1>1, <1>2, <1>5, EndNodeStep
  <1> QED
    BY <1>3, <1>4, <1>5 DEF AppendRequest

(* A result comes out of the pipe. *)
LEMMA HandlePipeStep ==
  ASSUME IInv, NEW c \in Conns, HandlePipe(c)
  PROVE  IInv'
  <1>1. PICK q \in Entry : q = conn[c]
    BY Given
  <1>2. /\ q.hand = "none" /\ q.pipe # <<>>
        /\ svc' = svc /\ spc' = spc /\ pc' = pc /\ job' = job /\ wronged' = wronged
    BY <1>1 DEF HandlePipe
  <1>3. PICK r \in Entry : /\ r = [q EXCEPT !.pipe = Tail(@)]
                           /\ Fields(r, q.state, q.ref, q.memory, q.seq, q.tref, q.mutex, q.idle,
                                     q.node, q.hand, q.removed, q.partial, Tail(q.pipe), q.got)
    BY <1>2, NewPipe
  <1>4. /\ SameEntry(r, q) /\ r.node = q.node /\ r.hand = "none" /\ r.removed = q.removed
        /\ r.partial = q.partial /\ r.pipe = Tail(q.pipe) /\ r.got = q.got
    BY <1>2, <1>3 DEF Fields, SameEntry
  <1>5. ShapeOK /\ ResultsOK /\ ConnOK(c)
    BY DEF IInv
  <1>6. conn' = [conn EXCEPT ![c] = r]
    BY <1>1, <1>3 DEF HandlePipe, Set
  <1>7. conn'[c] = r
    BY <1>5, <1>6 DEF ShapeOK
  <1>8. PICK p \in Seq(Outcome) : p = q.pipe
    BY DEF Entry
  <1>9. PICK m \in Outcome : /\ m = Head(p)
                             /\ FromPipe(m, c)
    BY <1>1, <1>2, <1>5, <1>8 DEF ResultsOK
  <1>10. msgqueue' = Append(msgqueue, m)
    BY <1>1, <1>8, <1>9 DEF HandlePipe, Send
  <1>11. GoodResult(m) /\ m.conn = c /\ m.op \in {"read", "write"} /\ m.st \in {"DELETED", "MODIFIED"}
    BY <1>9 DEF FromPipe, GoodResult
  <1>12. \A i \in 1 .. Len(r.pipe) : FromPipe(r.pipe[i], c)
    BY <1>1, <1>2, <1>4, <1>5, <1>8 DEF ResultsOK
  <1>13. ShapeOK' /\ ResultsOK'
    <2>1. msgqueue' \in Seq(Outcome)
      BY <1>5, <1>10 DEF ShapeOK
    <2>2. r.seq = conn[c].seq
      BY <1>1, <1>4 DEF SameEntry
    <2>3. ShapeOK'
      BY <1>2, <1>5, <1>6, <2>1, PollerShape
    <2>4. pc' = pc /\ job' = job /\ (\E z \in Outcome : GoodResult(z) /\ msgqueue' = Append(msgqueue, z))
      BY <1>2, <1>10, <1>11
    <2>5. ResultsOK'
      BY <1>5, <1>6, <1>12, <2>2, <2>4, PollerResults
    <2> QED
      BY <2>3, <2>5
  <1>14. /\ \A op : Num(msgqueue, Ends(c, op))' = Num(msgqueue, Ends(c, op))
                       + B(m.conn = c /\ m.op = op /\ m.st \notin {"SUCCESS", "MODIFIED"})
         /\ Num(msgqueue, Completes(c))' = Num(msgqueue, Completes(c))
         /\ Num(msgqueue, Arrivals(c))' = Num(msgqueue, Arrivals(c))
         /\ Num(msgqueue, Unbinds)' = Num(msgqueue, Unbinds)
         /\ \A S : Num(msgqueue, S) \in Nat
    BY <1>5, <1>10, <1>11, SendCounts DEF B
  <1>15. \A op \in {"read", "write"} : Ending(c, op)' = Ending(c, op)
    <2> SUFFICES ASSUME NEW op \in {"read", "write"} PROVE Ending(c, op)' = Ending(c, op)
      OBVIOUS
    <2>1. Num(Tail(p), Ends(c, op)) = Num(p, Ends(c, op)) - B(m \in Ends(c, op))
      BY <1>2, <1>8, <1>9, NumTail
    <2>2. m \in Ends(c, op) <=> m.conn = c /\ m.op = op /\ m.st \notin {"SUCCESS", "MODIFIED"}
      BY DEF Ends
    <2>3. B(m \in Ends(c, op)) = B(m.conn = c /\ m.op = op /\ m.st \notin {"SUCCESS", "MODIFIED"})
      BY <2>2 DEF B
    <2>4. JNum(Ends(c, op), {op})' = JNum(Ends(c, op), {op}) /\ JNum(Ends(c, op), {op}) \in Nat
      BY <1>2, JobsStay, JNumPositive
    <2>5. Num(p, Ends(c, op)) \in Nat /\ B(q.node = op) \in Nat /\ B(m \in Ends(c, op)) \in Nat
      BY <1>8, PipeNum DEF B
    <2>6. /\ NodeTokens(r, c, op) = B(q.node = op) + Num(Tail(p), Ends(c, op))
          /\ NodeTokens(q, c, op) = B(q.node = op) + Num(p, Ends(c, op))
      BY <1>4, <1>8 DEF NodeTokens
    <2>7. /\ Ending(c, op)' = NodeTokens(r, c, op) + Num(msgqueue, Ends(c, op))' + JNum(Ends(c, op), {op})'
          /\ Ending(c, op) = NodeTokens(q, c, op) + Num(msgqueue, Ends(c, op)) + JNum(Ends(c, op), {op})
      BY <1>1, <1>7 DEF Ending
    <2>8. /\ Num(msgqueue, Ends(c, op))' = Num(msgqueue, Ends(c, op)) + B(m \in Ends(c, op))
          /\ Num(msgqueue, Ends(c, op)) \in Nat
      BY <1>14, <2>3
    <2> QED
      BY <2>1, <2>4, <2>5, <2>6, <2>7, <2>8
  <1>16. Complete(c)' = Complete(c)
    BY <1>2, <1>14, JobsStay DEF Complete
  <1>17. HandOK(c)'
    BY <1>1, <1>2, <1>4, <1>5, <1>7 DEF InHand, HandOK, ConnOK, SameEntry
  <1>18. GotOK(c)' /\ ~wronged'
    BY <1>1, <1>2, <1>4, <1>5, <1>7 DEF GotOK, ConnOK, SameEntry
  <1>19. r.memory # "unborn"
    BY <1>1, <1>2, <1>4, <1>5 DEF ConnOK, TrefOK, SameEntry
  <1>20. \A d \in Conns : d # c => QueueSame(d)
    BY <1>5, <1>10, <1>11, QueueSend
  <1>21. SameEntry(r, conn[c])
    BY <1>1, <1>4
  <1> QED
    BY <1>2, <1>6, <1>13, <1>14, <1>15, <1>16, <1>17, <1>18, <1>19, <1>20, <1>21, PollerStep

(* Lists without duplicates. *)
LEMMA MinOK ==
  ASSUME NEW I \in SUBSET Nat, I # {}
  PROVE  Min(I) \in I /\ \A j \in I : Min(I) <= j
  <1> DEFINE R == {ss \in Nat \X Nat : ss[1] < ss[2]}
  <1>1. IsWellFoundedOn(R, Nat)
    BY NatLessThanWellFounded DEF OpToRel
  <1>2. PICK k \in I : \A j \in I : ~(<<j, k>> \in R)
    <2> HIDE DEF R
    <2> QED
      BY <1>1, WFMin
  <1>3. ASSUME NEW j \in I PROVE k <= j
    <2>1. j \in Nat /\ k \in Nat /\ <<j, k>> \in Nat \X Nat
      OBVIOUS
    <2>2. ~(<<j, k>>[1] < <<j, k>>[2])
      BY <1>2, <2>1
    <2> QED
      BY <2>1, <2>2
  <1> QED
    BY <1>3 DEF Min

LEMMA ToSetOK ==
  ASSUME NEW S, NEW q \in Seq(S)
  PROVE  /\ ToSet(q) = {q[i] : i \in 1 .. Len(q)} /\ Len(q) \in Nat
         /\ \A i \in 1 .. Len(q) : q[i] \in ToSet(q) /\ q[i] \in S
         /\ \A x \in ToSet(q) : \E i \in 1 .. Len(q) : q[i] = x
         /\ ToSet(q) \subseteq S
         /\ \A x : Contains(q, x) <=> x \in ToSet(q)
  BY DEF ToSet, Contains

LEMMA RemoveFirstIndex ==
  ASSUME NEW S, NEW q \in Seq(S), NEW e, e \in ToSet(q)
  PROVE  \E k \in 1 .. Len(q) : q[k] = e /\ RemoveFirst(q, e) = RemoveAt(q, k)
  <1> DEFINE I == {j \in 1 .. Len(q) : q[j] = e}
  <1>1. PICK i \in 1 .. Len(q) : q[i] = e
    BY ToSetOK
  <1>2. I \in SUBSET Nat /\ i \in I
    BY <1>1
  <1>3. Min(I) \in I
    <2> HIDE DEF I
    <2> QED
      BY <1>2, MinOK
  <1>4. RemoveFirst(q, e) = RemoveAt(q, Min(I))
    BY <1>1 DEF RemoveFirst, SelectInSeq
  <1> QED
    BY <1>3, <1>4

LEMMA RemoveFirstOK ==
  ASSUME NEW S, NEW q \in Seq(S), IsInjective(q), NEW e, NEW r, r = RemoveFirst(q, e)
  PROVE  /\ r \in Seq(S) /\ IsInjective(r)
         /\ ToSet(r) = ToSet(q) \ {e}
  <1>1. CASE e \notin ToSet(q)
    <2>1. \A i \in 1 .. Len(q) : q[i] # e
      BY <1>1, ToSetOK
    <2>2. r = q
      BY <2>1 DEF RemoveFirst
    <2> QED
      BY <1>1, <2>2
  <1>2. CASE e \in ToSet(q)
    <2>1. PICK k \in 1 .. Len(q) : q[k] = e /\ r = RemoveAt(q, k)
      BY <1>2, RemoveFirstIndex
    <2>2. Len(q) \in Nat /\ k \in Nat /\ k >= 1 /\ k <= Len(q)
      OBVIOUS
    <2>3. /\ SubSeq(q, 1, k - 1) \in Seq(S) /\ Len(SubSeq(q, 1, k - 1)) = k - 1
          /\ \A i \in 1 .. k - 1 : SubSeq(q, 1, k - 1)[i] = q[i]
      BY <2>2
    <2>4. /\ SubSeq(q, k + 1, Len(q)) \in Seq(S)
          /\ Len(SubSeq(q, k + 1, Len(q))) = Len(q) - k
          /\ \A i \in 1 .. Len(q) - k : SubSeq(q, k + 1, Len(q))[i] = q[k + i]
      BY <2>2
    <2>5. /\ r \in Seq(S) /\ Len(r) = Len(q) - 1
          /\ \A i \in 1 .. Len(q) - 1 : r[i] = IF i < k THEN q[i] ELSE q[i + 1]
      <3>1. PICK a \in Seq(S) : a = SubSeq(q, 1, k - 1)
        BY <2>3
      <3>2. PICK b \in Seq(S) : b = SubSeq(q, k + 1, Len(q))
        BY <2>4
      <3>3. /\ r = a \o b /\ Len(a) = k - 1 /\ Len(b) = Len(q) - k
            /\ \A i \in 1 .. k - 1 : a[i] = q[i]
            /\ \A i \in 1 .. Len(q) - k : b[i] = q[k + i]
        BY <2>1, <2>3, <2>4, <3>1, <3>2 DEF RemoveAt
      <3>4. /\ r \in Seq(S) /\ Len(r) = Len(q) - 1
            /\ \A i \in 1 .. k - 1 : r[i] = a[i]
            /\ \A i \in k .. Len(q) - 1 : r[i] = b[i - (k - 1)]
        <4>1. /\ a \o b \in Seq(S) /\ Len(a \o b) = Len(a) + Len(b)
              /\ \A i \in 1 .. Len(a) + Len(b) :
                    (a \o b)[i] = IF i <= Len(a) THEN a[i] ELSE b[i - Len(a)]
          BY ConcatProperties
        <4> QED
          BY <2>2, <3>3, <4>1
      <3>5. \A i \in k .. Len(q) - 1 : i - (k - 1) \in 1 .. Len(q) - k /\ k + (i - (k - 1)) = i + 1
        BY <2>2
      <3>6. \A i \in k .. Len(q) - 1 : r[i] = q[i + 1]
        BY <3>3, <3>4, <3>5
      <3>7. \A i \in 1 .. k - 1 : r[i] = q[i]
        BY <3>3, <3>4
      <3>8. \A i \in 1 .. Len(q) - 1 : IF i < k THEN i \in 1 .. k - 1 ELSE i \in k .. Len(q) - 1
        BY <2>2
      <3> QED
        BY ONLY <3>4, <3>6, <3>7, <3>8
    <2> DEFINE at(i) == IF i < k THEN i ELSE i + 1
    <2>6. \A i \in 1 .. Len(r) : /\ at(i) \in 1 .. Len(q) /\ at(i) # k /\ r[i] = q[at(i)]
      BY <2>2, <2>5
    <2>7. /\ \A i, j \in 1 .. Len(r) : i <= j => at(i) <= at(j)
          /\ \A i, j \in 1 .. Len(r) : at(i) = at(j) => i = j
          /\ \A j \in 1 .. Len(q) : j # k => \E i \in 1 .. Len(r) : at(i) = j
      <3>1. /\ \A i, j \in 1 .. Len(r) : i <= j => at(i) <= at(j)
            /\ \A i, j \in 1 .. Len(r) : at(i) = at(j) => i = j
        BY <2>2, <2>5
      <3>2. ASSUME NEW j \in 1 .. Len(q), j # k PROVE \E i \in 1 .. Len(r) : at(i) = j
        <4>1. CASE j < k
          BY <2>2, <2>5, <4>1
        <4>2. CASE j > k
          <5>1. j - 1 \in 1 .. Len(r) /\ at(j - 1) = j
            BY <2>2, <2>5, <4>2
          <5> QED
            BY <5>1
        <4> QED
          BY <3>2, <4>1, <4>2
      <3> QED
        BY <3>1, <3>2
    <2> HIDE DEF at
    <2>8. IsInjective(r)
      <3>1. \A i, j \in 1 .. Len(r) : r[i] = r[j] => at(i) = at(j)
        BY <2>6 DEF IsInjective
      <3> QED
        BY <2>7, <3>1 DEF IsInjective
    <2>9. ToSet(r) = ToSet(q) \ {e}
      <3>1. \A j \in 1 .. Len(q) : q[j] = e => j = k
        BY <2>1 DEF IsInjective
      <3>2. ASSUME NEW x \in ToSet(r) PROVE x \in ToSet(q) \ {e}
        <4>1. PICK i \in 1 .. Len(r) : x = r[i]
          BY <2>5, ToSetOK
        <4> QED
          BY <2>6, <3>1, <4>1, ToSetOK
      <3>3. ASSUME NEW x \in ToSet(q), x # e PROVE x \in ToSet(r)
        <4>1. PICK j \in 1 .. Len(q) : x = q[j]
          BY ToSetOK
        <4>2. PICK i \in 1 .. Len(r) : at(i) = j
          BY <2>1, <2>7, <3>3, <4>1
        <4>3. r[i] = x
          BY <2>6, <4>1, <4>2
        <4> QED
          BY <2>5, <4>3, ToSetOK
      <3> QED
        BY <3>2, <3>3
    <2> QED
      BY <2>5, <2>8, <2>9
  <1> QED
    BY <1>1, <1>2

LEMMA TailOK ==
  ASSUME NEW S, NEW q \in Seq(S), q # <<>>, IsInjective(q)
  PROVE  /\ Tail(q) \in Seq(S) /\ IsInjective(Tail(q)) /\ Head(q) \in S
         /\ Head(q) \in ToSet(q) /\ ToSet(Tail(q)) = ToSet(q) \ {Head(q)}
  <1>0. Tail(q) \in Seq(S)
    OBVIOUS
  <1>1. PICK p \in Seq(S) : p = Tail(q)
    BY <1>0
  <1>2. /\ Len(q) \in Nat /\ Len(q) > 0 /\ Len(p) = Len(q) - 1 /\ Head(q) = q[1]
        /\ \A i \in 1 .. Len(p) : p[i] = q[i + 1]
        /\ DOMAIN q = 1 .. Len(q) /\ DOMAIN p = 1 .. Len(p)
    BY <1>1
  <1>3. \A i, j \in 1 .. Len(q) : q[i] = q[j] => i = j
    BY <1>2 DEF IsInjective
  <1>4. \A i \in 1 .. Len(p) : i + 1 \in 1 .. Len(q) /\ i + 1 # 1
    BY <1>2
  <1>5. IsInjective(p)
    BY <1>2, <1>3, <1>4 DEF IsInjective
  <1>6. 1 \in 1 .. Len(q)
    BY <1>2
  <1>7. \A j \in 1 .. Len(q) : j # 1 => j - 1 \in 1 .. Len(p) /\ p[j - 1] = q[j]
    BY <1>2
  <1>8. ToSet(p) = ToSet(q) \ {q[1]}
    <2>1. ASSUME NEW x \in ToSet(p) PROVE x \in ToSet(q) /\ x # q[1]
      <3>1. PICK i \in 1 .. Len(p) : x = p[i]
        BY ToSetOK
      <3> QED
        BY <1>2, <1>3, <1>4, <1>6, <3>1, ToSetOK
    <2>2. ASSUME NEW x \in ToSet(q), x # q[1] PROVE x \in ToSet(p)
      <3>1. PICK j \in 1 .. Len(q) : x = q[j]
        BY ToSetOK
      <3> QED
        BY <1>7, <2>2, <3>1, ToSetOK
    <2> QED
      BY <2>1, <2>2
  <1>9. q[1] \in S /\ q[1] \in ToSet(q)
    BY <1>6, ToSetOK
  <1> QED
    BY <1>1, <1>2, <1>5, <1>8, <1>9

LEMMA NewList ==
  ASSUME NEW v \in Service, NEW x \in Seq(Conns)
  PROVE  /\ [v EXCEPT !.alive_list = x] \in Service
         /\ [v EXCEPT !.alive_list = x].alive_list = x
         /\ [v EXCEPT !.alive_list = x].node = v.node
         /\ [v EXCEPT !.alive_list = x].ref = v.ref
         /\ [v EXCEPT !.alive_list = x].conn_count = v.conn_count
         /\ [v EXCEPT !.alive_list = x].unbound = v.unbound
         /\ [v EXCEPT !.alive_list = x].mutex = v.mutex
         /\ [v EXCEPT !.alive_list = x].marking = v.marking
         /\ [v EXCEPT !.alive_list = x].listening = v.listening
  BY DEF Service

(* The entry is no longer listed. *)
Delisted(c) ==
    /\ svc' \in Service /\ svc'.node = svc.node /\ svc'.ref = svc.ref
    /\ svc'.conn_count = svc.conn_count /\ svc'.unbound = svc.unbound
    /\ svc'.mutex = svc.mutex /\ svc'.marking = svc.marking /\ svc'.listening = svc.listening
    /\ IsInjective(svc'.alive_list) /\ ToSet(svc'.alive_list) = ToSet(svc.alive_list) \ {c}
    /\ svc.alive_list = <<>> => svc'.alive_list = <<>>

LEMMA DelistedOK ==
  ASSUME IInv, NEW c \in Conns, svc' = [svc EXCEPT !.alive_list = RemoveFirst(@, c)]
  PROVE  Delisted(c)
  <1>1. PICK v \in Service : v = svc
    BY DEF IInv, ShapeOK
  <1>2. PICK q \in Seq(Conns) : q = v.alive_list
    BY DEF Service
  <1>3. PICK p : p = RemoveFirst(q, c)
    OBVIOUS
  <1>4. IsInjective(q)
    BY <1>1, <1>2 DEF IInv, ListOK
  <1>5. p \in Seq(Conns) /\ IsInjective(p) /\ ToSet(p) = ToSet(q) \ {c}
    BY <1>3, <1>4, RemoveFirstOK
  <1>6. q = <<>> => p = <<>>
    BY <1>3 DEF RemoveFirst
  <1>7. PICK w \in Service : /\ w = [v EXCEPT !.alive_list = p]
           /\ w.alive_list = p /\ w.node = v.node /\ w.ref = v.ref /\ w.conn_count = v.conn_count
           /\ w.unbound = v.unbound /\ w.mutex = v.mutex /\ w.marking = v.marking
           /\ w.listening = v.listening
    <2>1. [v EXCEPT !.alive_list = p] \in Service
      BY <1>5, NewList
    <2> QED
      BY ONLY <1>5, <2>1, NewList, v \in Service
  <1>8. svc' = w
    BY <1>1, <1>2, <1>3, <1>7
  <1> QED
    BY <1>1, <1>2, <1>5, <1>6, <1>7, <1>8 DEF Delisted

LEMMA LeaveLists ==
  ASSUME IInv, NEW c \in Conns, svc.marking # c, Delisted(c), ~Waits(c)',
         \A d \in Conns : d # c => (Waits(d)' <=> Waits(d)) /\ conn'[d] = conn[d],
         \A t \in Threads : \/ pc'[t] = pc[t]
                            \/ pc'[t] \notin Closing \cup Marking /\ pc[t] \notin Closing \cup Marking,
         Binding' = Binding
  PROVE  DrainOK' /\ ListOK'
  <1>1. DrainOK /\ ListOK /\ svc \in Service
    BY DEF IInv, ShapeOK
  <1>2. "drain_all" \in Closing /\ "service_decref" \in Closing /\ svc'.mutex = svc.mutex
        /\ svc'.marking = svc.marking /\ svc'.listening = svc.listening
    BY DEF Closing, Delisted
  <1>3. svc.mutex \in Threads \cup {None} /\ svc.marking \in Conns \cup {None}
    BY <1>1 DEF Service
  <1>4. svc.marking # None => Waits(svc.marking)
    BY <1>1 DEF DrainOK, Waits
  <1>5. svc.marking # None => Waits(svc.marking)'
    BY <1>2, <1>3, <1>4 DEF Waits
  <1>6. DrainOK'
    BY <1>1, <1>2, <1>3, <1>5 DEF DrainOK, Waits
  <1>7. \A d \in ToSet(svc.alive_list) : d \in Conns
    BY <1>1 DEF Service, ToSet
  <1>8. /\ \A d \in ToSet(svc.alive_list) : Waits(d) /\ svc.marking # d
        /\ \A d \in Conns : Waits(d) /\ svc.marking # d => d \in ToSet(svc.alive_list)
    BY <1>1 DEF ListOK, Waits
  <1>9. /\ \A d \in ToSet(svc'.alive_list) : Waits(d)' /\ svc'.marking # d
        /\ \A d \in Conns : Waits(d)' /\ svc'.marking # d => d \in ToSet(svc'.alive_list)
    BY <1>2, <1>7, <1>8 DEF Delisted
  <1>10. \A t \in Threads : pc'[t] \in Closing => ~svc.listening
    BY <1>1 DEF ListOK
  <1>11. \A t \in Threads : pc'[t] = "service_decref" => svc'.alive_list = <<>>
    BY <1>1, <1>2 DEF ListOK, Delisted
  <1>12. Binding' = 0 => ~svc'.listening /\ svc'.alive_list = <<>>
    BY <1>1 DEF ListOK, Delisted
  <1>13. IsInjective(svc'.alive_list)
    BY DEF Delisted
  <1> QED
    BY <1>2, <1>6, <1>9, <1>10, <1>11, <1>12, <1>13 DEF ListOK, Waits

(* create_request gives the connection its next session. *)
CreateDone(c) ==
    LET r == conn[c] IN
    /\ r.hand = "read" /\ <<c, r.seq + 1>> \in Sessions /\ svc.mutex = None
    /\ r.state \in {"connected", "keepalive"}
    /\ svc' = [svc EXCEPT !.alive_list = RemoveFirst(@, c)]
    /\ spc' = [spc EXCEPT ![<<c, r.seq + 1>>] = "reading"]
    /\ Set(c, [r EXCEPT !.seq = @ + 1, !.state = "receiving", !.tref = @ + 1, !.hand = "append"])
    /\ UNCHANGED <<msgqueue, wronged, pc, job>>

LEMMA CreateDoneStep ==
  ASSUME IInv, NEW c \in Conns, CreateDone(c)
  PROVE  IInv'
  <1>1. PICK q \in Entry : q = conn[c]
    BY Given
  <1>2. PICK k \in Nat : k = q.seq + 1
    BY DEF Entry
  <1>3. PICK r \in Entry :
           /\ r = [q EXCEPT !.seq = @ + 1, !.state = "receiving", !.tref = @ + 1, !.hand = "append"]
           /\ Fields(r, "receiving", q.ref, q.memory, q.seq + 1, q.tref + 1, q.mutex, q.idle,
                     q.node, "append", q.removed, q.partial, q.pipe, q.got)
    BY NewRequest
  <1>4. /\ r.state = "receiving" /\ r.ref = q.ref /\ r.memory = q.memory /\ r.seq = k
        /\ r.tref = q.tref + 1 /\ r.mutex = q.mutex /\ r.idle = q.idle /\ r.node = q.node
        /\ r.hand = "append" /\ r.removed = q.removed /\ r.pipe = q.pipe /\ r.got = q.got
    BY <1>2, <1>3 DEF Fields
  <1>5. /\ q.hand = "read" /\ q.state \in {"connected", "keepalive"} /\ svc.mutex = None
        /\ pc' = pc /\ job' = job /\ <<c, k>> \in Sessions
    BY <1>1, <1>2 DEF CreateDone
  <1>6. Delisted(c)
    BY DelistedOK DEF CreateDone
  <1>7. UserMoves(c, k, "reading", r)
    BY <1>1, <1>2, <1>3, <1>6 DEF CreateDone, UserMoves, Set, Delisted
  <1>8. k \in 1 .. MaxSeq[c]
    BY <1>5, SessionNames
  <1>9. /\ Ending(c, "read") = 1 /\ Ending(c, "write") = 0 /\ q.memory = "live"
        /\ q.node # "write" /\ JNum(Ends(c, "read"), {"read"}) = 0
    BY <1>1, <1>5, ReadingEnds
  <1>10. /\ ConnOK(c) /\ MaxSeq[c] \in Nat /\ q.seq \in Nat /\ q.got \in Nat /\ q.tref \in Int
         /\ q.ref \in Int /\ Held(c) \in Nat /\ Undeleted(c) \in Nat /\ Arriving(c) \in Nat
         /\ Complete(c) \in Nat /\ q.tref > 0 /\ InHand(q, c)
    BY <1>1, <1>9, Given
  <1>11. Complete(c) = 0 /\ ~q.idle
    BY <1>1, <1>5, <1>10 DEF ConnOK, StateOK
  <1>12. q.mutex = None
    BY <1>1, <1>5 DEF IInv, LockOK
  <1>13. spc[<<c, k>>] = "none"
    BY <1>1, <1>2, <1>8, <1>10 DEF ConnOK, SessionOK, PastOK
  <1>14. /\ "reading" \in Stages /\ "reading" \notin Lockers /\ "reading" \in Alive
         /\ "none" \notin Lockers /\ "none" \notin Alive
    BY DEF Stages, Lockers, Alive
  <1>15. \A op \in {"read", "write"} : NodeTokens(r, c, op) = NodeTokens(conn[c], c, op)
    BY <1>1, <1>4 DEF NodeTokens
  <1>16. /\ conn'[c] = r /\ spc'[<<c, k>>] = "reading" /\ ~wronged'
         /\ \A j \in 1 .. MaxSeq[c] : j # k => spc'[<<c, j>>] = spc[<<c, j>>]
         /\ Complete(c)' = Complete(c) /\ Arriving(c)' = Arriving(c) /\ Binding' = Binding
         /\ Held(c)' = Held(c) - B(spc[<<c, k>>] = "succeed") + B("reading" = "succeed")
         /\ Undeleted(c)' = Undeleted(c) - B(spc[<<c, k>>] \in Alive) + B("reading" \in Alive)
         /\ \A d, j : NoFinisher(d, j)' <=> NoFinisher(d, j)
         /\ \A op \in {"read", "write"} : Ending(c, op)' = Ending(c, op)
    BY <1>7, <1>8, <1>14, <1>15, UserSame
  <1>17. Held(c)' = Held(c) /\ Undeleted(c)' = Undeleted(c) + 1
    BY <1>10, <1>13, <1>14, <1>16 DEF B
  <1>18. ShapeOK' /\ \A d \in Conns : d # c => SameAt(d) /\ conn'[d] = conn[d]
    BY <1>7, <1>8, <1>14, UserFacts
  <1>19. /\ ShapeOK /\ ResultsOK /\ LockOK /\ FinishOK /\ \A d \in Conns : ConnOK(d)
    BY DEF IInv
  <1>20. \A g \in Handlers : pc[g] \in {"read", "write", "relist"} => job[g].conn # c
    <2> SUFFICES ASSUME NEW g \in Handlers, pc[g] \in {"read", "write", "relist"}, job[g].conn = c
                 PROVE  FALSE
      OBVIOUS
    <2>1. GoodJob(g) /\ job[g] \in Outcome
      BY <1>19 DEF ResultsOK, ShapeOK
    <2>2. CASE pc[g] = "read"
      BY <1>9, <1>11, <1>19, <2>1, <2>2, JNumPositive, QueueNum DEF GoodJob, Completes, Complete,
         Ends
    <2>3. CASE pc[g] = "write"
      <3>1. job[g] \in Ends(c, "write")
        BY <2>1, <2>3 DEF GoodJob, Ends
      <3>2. Ending(c, "write") > 0
        BY <1>19, <2>3, <3>1, JobIsToken
      <3> QED
        BY <1>9, <3>2
    <2>4. CASE pc[g] = "relist"
      BY <1>1, <1>12, <1>19, <2>4, Names DEF LockOK
    <2> QED
      BY <2>2, <2>3, <2>4
  <1>21. \A g \in Handlers : pc[g] \in {"relist", "finish"} /\ job[g].conn = c => job[g].seq # k
    <2>1. \A g \in Handlers : GoodJob(g)
      BY <1>19 DEF ResultsOK
    <2> QED
      BY <1>1, <1>2, <1>10, <2>1 DEF GoodJob
  <1>22. NoFinisher(c, k)
    BY <1>21 DEF NoFinisher, Finishes
  <1>23. ConnOK(c)'
    <2>1. RefOK(c)'
      BY <1>1, <1>4, <1>5, <1>9, <1>10, <1>11, <1>16, <1>17 DEF ConnOK, RefOK, B
    <2>2. TrefOK(c)'
      <3>1. /\ q.tref = Arriving(c) + B(q.memory = "live") + Undeleted(c)
            /\ Arriving(c) <= 1 /\ Arriving(c) # 1
        BY <1>1, <1>5, <1>10 DEF ConnOK, TrefOK
      <3>2. B(q.memory = "live") = 1 /\ B(r.memory = "live") = 1 /\ r.memory = "live"
        BY <1>4, <1>9 DEF B
      <3>3. r.tref = Arriving(c)' + B(r.memory = "live") + Undeleted(c)'
        BY <1>4, <1>10, <1>16, <1>17, <3>1, <3>2
      <3> QED
        BY <1>4, <1>16, <3>1, <3>2, <3>3 DEF TrefOK
    <2>3. HandOK(c)'
      BY <1>4, <1>5, <1>10, <1>16 DEF InHand, HandOK
    <2>4. StateOK(c)'
      BY <1>4, <1>9, <1>11, <1>16 DEF StateOK
    <2>5. SessionOK(c)'
      BY <1>1, <1>2, <1>4, <1>5, <1>8, <1>9, <1>10, <1>11, <1>16, <1>22 DEF ConnOK, SessionOK,
         LastOK, PastOK, Settled
    <2>6. GotOK(c)'
      BY <1>1, <1>2, <1>4, <1>9, <1>10, <1>16 DEF ConnOK, GotOK
    <2> QED
      BY <2>1, <2>2, <2>3, <2>4, <2>5, <2>6 DEF ConnOK
  <1>24. \A d \in Conns : ConnOK(d)'
    BY <1>16, <1>18, <1>19, <1>23, Frame
  <1>25. LockOK'
    <2>1. \A s \in Sessions : spc'[s] = spc[s] \/ (spc[s] \notin Lockers /\ spc'[s] \notin Lockers)
      BY <1>7, <1>8, <1>13, <1>14, <1>16, UserFacts
    <2>2. \A d \in Conns : conn'[d].mutex = conn[d].mutex
      BY <1>1, <1>4, <1>16, <1>18
    <2>3. /\ \A s \in Sessions : s[1] \in Conns
          /\ \A h \in Handlers : pc[h] = "relist" => job[h].conn \in Conns
      BY <1>19, SessionNames DEF ResultsOK, GoodJob
    <2>4. \A d \in Conns : conn[d].mutex # None => conn'[d] = conn[d]
      BY <1>1, <1>12, <1>18
    <2>5. \A d \in Conns :
          /\ conn'[d].mutex # None => conn'[d].state = "idle" /\ ~conn'[d].idle
          /\ conn'[d].mutex \in Handlers => pc'[conn'[d].mutex] = "relist" /\ job'[conn'[d].mutex].conn = d
          /\ conn'[d].mutex \in Sessions => conn'[d].mutex = <<d, conn'[d].seq>> /\ spc'[conn'[d].mutex] \in Lockers
      BY <1>5, <1>19, <2>1, <2>2, <2>4, Names DEF LockOK
    <2>6. \A s \in Sessions : spc'[s] \in Lockers => conn'[s[1]].mutex = s
      BY <1>19, <2>1, <2>2, <2>3 DEF LockOK
    <2>7. \A h \in Handlers : pc'[h] = "relist" => conn'[job'[h].conn].mutex = h
      BY <1>5, <1>19, <2>2, <2>3 DEF LockOK
    <2> QED
      BY <2>5, <2>6, <2>7 DEF LockOK
  <1>26. FinishOK'
    <2>1. ASSUME NEW g \in Handlers PROVE FinishAt(g)'
      <3>1. FinishAt(g) /\ pc'[g] = pc[g] /\ job'[g] = job[g]
        BY <1>5, <1>19 DEF FinishOK
      <3>2. job[g].conn \in Conns /\ pc[g] \in {"relist", "finish"} =>
               job[g].seq \in 1 .. MaxSeq[job[g].conn]
        BY JobSeq
      <3>3. \A d \in Conns : d = job[g].conn /\ pc[g] \in {"relist", "read", "write"} =>
               conn'[d] = conn[d] /\ Ending(d, "read")' = Ending(d, "read")
        BY <1>18, <1>20 DEF SameAt
      <3>4. \A d \in Conns : pc[g] = "relist" /\ d = job[g].conn => Ending(d, "read") > 0
        BY <3>1 DEF FinishAt
      <3>5. \A d \in Conns : \A s \in Sessions :
            d = job[g].conn /\ s = <<job[g].conn, job[g].seq>> /\ pc[g] \in {"relist", "finish"} =>
               spc'[s] = spc[s]
        <4>1. \A s \in Sessions : s # <<c, k>> => spc'[s] = spc[s]
          BY Zenon, <1>7, <1>8, <1>14, UserFacts
        <4> QED
          BY <1>21, <4>1
      <3>6. \A d \in Conns : \A s \in Sessions :
            d = job[g].conn /\ s = <<job[g].conn, job[g].seq>> =>
               /\ pc[g] \in {"relist", "read", "write"} => conn'[d].seq = conn[d].seq
               /\ pc[g] = "relist" => Ending(d, "read")' > 0
               /\ pc[g] \in {"relist", "finish"} =>
                     \/ spc'[s] = spc[s] \/ spc[s] \notin {"reading", "given", "unlock"}
                     \/ spc[s] = "unlock" /\ spc'[s] = "given"
        BY <3>3, <3>4, <3>5
      <3>7. \A d \in Conns : d = job[g].conn /\ pc[g] \in {"read", "write"} => conn'[d].seq = conn[d].seq
        BY <3>3
      <3> QED
        BY <1>19, <3>1, <3>2, <3>6, <3>7, FinishKept
    <2>2. \A h, g \in Handlers : \A d \in Conns : \A j \in 1 .. MaxSeq[d] :
            (Finishes(h, d, j) /\ Finishes(g, d, j))' => h = g
      BY <1>5, <1>19 DEF FinishOK, Finishes
    <2> QED
      BY <2>1, <2>2 DEF FinishOK
  <1>27. ResultsOK'
    <2>0. conn' = [conn EXCEPT ![c] = r] /\ msgqueue' = msgqueue
      BY <1>7 DEF UserMoves
    <2>1. PICK h \in Handlers : JobsElse(h)
      BY <1>5, ServerAssumption DEF JobsElse
    <2>2. GoodJob(h)'
      <3>1. GoodJob(h)
        BY <1>19 DEF ResultsOK
      <3>2. pc[h] \in {"relist", "finish"} => job[h].conn \in Conns /\ job[h].seq \in 1 .. conn[job[h].conn].seq
        BY <3>1 DEF GoodJob
      <3>3. pc[h] \in {"relist", "finish"} => job[h].seq \in 1 .. conn'[job[h].conn].seq
        <4>1. \A d \in Conns : conn[d].seq \in Nat /\ conn'[d].seq \in Nat /\ conn'[d].seq >= conn[d].seq
          <5> SUFFICES ASSUME NEW d \in Conns
                       PROVE  conn[d].seq \in Nat /\ conn'[d].seq \in Nat /\ conn'[d].seq >= conn[d].seq
            OBVIOUS
          <5>1. conn[d].seq \in Nat
            BY Given
          <5>2. CASE d = c
            BY <1>1, <1>2, <1>4, <1>10, <1>16, <5>2
          <5>3. CASE d # c
            BY <1>18, <5>1, <5>3
          <5> QED
            BY <5>2, <5>3
        <4>2. PICK d : d = job[h].conn
          OBVIOUS
        <4>3. PICK j : j = job[h].seq
          OBVIOUS
        <4>4. pc[h] \in {"relist", "finish"} => d \in Conns /\ j \in 1 .. conn[d].seq
          BY <3>2, <4>2, <4>3
        <4>5. pc[h] \in {"relist", "finish"} => j \in 1 .. conn'[d].seq
          BY <4>1, <4>4
        <4> QED
          BY <4>2, <4>3, <4>5
      <3> QED
        BY <1>5, <3>1, <3>3 DEF GoodJob, GoodResult
    <2>3. r.seq >= conn[c].seq
      BY <1>1, <1>2, <1>4, <1>10
    <2>4. \A i \in 1 .. Len(r.pipe) : FromPipe(r.pipe[i], c)
      BY <1>1, <1>4, Given
    <2> QED
      BY <1>19, <2>0, <2>1, <2>2, <2>3, <2>4, ResultsKept
  <1>28. DrainOK' /\ ListOK'
    BY <1>4, <1>5, <1>6, <1>16, <1>18, Names, LeaveLists DEF IInv, DrainOK, Waits, SameAt
  <1>29. BindOK' /\ CountOK'
    <2>1. conn' = [conn EXCEPT ![c] = r]
      BY <1>7 DEF UserMoves
    <2>2. /\ svc'.ref = svc.ref /\ svc'.conn_count = svc.conn_count /\ svc'.unbound = svc.unbound
          /\ svc'.node = svc.node
      BY <1>6 DEF Delisted
    <2>3. /\ r.tref > 0 <=> conn[c].tref > 0
          /\ r.memory = conn[c].memory
          /\ r.memory = "live" /\ r.state # "closing" => conn[c].state # "closing"
      BY <1>1, <1>4, <1>5, <1>10
    <2>4. /\ pc'[Main] = pc[Main]
          /\ {h \in Handlers : pc'[h] \in NewSteps} = {h \in Handlers : pc[h] \in NewSteps}
          /\ {h \in Handlers : pc'[h] = "make"} = {h \in Handlers : pc[h] = "make"}
      BY <1>5
    <2> QED
      BY <1>16, <2>1, <2>2, <2>3, <2>4, CountsSame
  <1> QED
    BY <1>18, <1>24, <1>25, <1>26, <1>27, <1>28, <1>29 DEF IInv

LEMMA CreateRequestStep ==
  ASSUME IInv, NEW c \in Conns, CreateRequest(c)
  PROVE  IInv'
  <1>1. PICK q \in Entry : q = conn[c]
    BY Given
  <1>2. /\ q.hand = "read" /\ <<c, q.seq + 1>> \in Sessions /\ svc.mutex = None
        /\ q.state = "idle" => q.mutex = None
        /\ pc' = pc /\ job' = job
    BY <1>1 DEF CreateRequest, ReplierGone
  <1>3. CASE q.state \in {"connected", "keepalive"}
    BY <1>1, <1>3, CreateDoneStep DEF CreateRequest, CreateDone
  <1>4. CASE q.state \notin {"connected", "keepalive"}
    <2>1. /\ EndNode(c, "ERROR") /\ svc' = svc /\ spc' = spc
          /\ wronged' = (wronged \/ (q.got = q.seq /\ q.state \notin {"closing", "error"}))
      BY <1>1, <1>4 DEF CreateRequest
    <2>2. ConnOK(c) /\ q.got \in Nat /\ q.seq \in Nat
      BY <1>1, Given
    <2>3. ~wronged
      BY <2>2 DEF ConnOK, GotOK
    <2>4. q.state \notin {"none", "accepted"}
      BY <1>1, <1>2, <2>2 DEF ConnOK, TrefOK
    <2>5. q.got = q.seq => q.state \notin {"receiving", "success"}
      BY <1>1, <2>2 DEF ConnOK, GotOK
    <2>6. q.got = q.seq => q.state # "idle"
      BY <1>1, <1>2, <2>2, Names DEF ConnOK, GotOK
    <2>7. q.state \in {"none", "accepted", "connected", "receiving", "success", "idle",
                       "keepalive", "closing", "error"}
      BY DEF Entry
    <2>8. ~wronged'
      BY <1>4, <2>1, <2>3, <2>4, <2>5, <2>6, <2>7
    <2> QED
      BY <1>1, <1>2, <2>1, <2>8, EndNodeStep
  <1> QED
    BY <1>3, <1>4

LEMMA PollerAll ==
  ASSUME IInv, NEW c \in Conns, Poller(c)
  PROVE  IInv'
  BY ReadEventStep, ReadAgainStep, ReadEndsStep, CreateRequestStep, AppendRequestStep,
     WriteEventStep, HandlePipeStep DEF Poller

LEMMA NewAccepted ==
  ASSUME NEW q \in Entry
  PROVE  /\ [q EXCEPT !.state = "accepted", !.tref = 1] \in Entry
         /\ Fields([q EXCEPT !.state = "accepted", !.tref = 1], "accepted", q.ref, q.memory, q.seq, 1,
                   q.mutex, q.idle, q.node, q.hand, q.removed, q.partial, q.pipe, q.got)
  <1>1. [q EXCEPT !.state = "accepted", !.tref = 1] \in Entry
    <2>1. PICK r1 \in Entry : r1 = [q EXCEPT !.state = "accepted"]
      BY DEF Entry
    <2>2. PICK x2 \in Int : x2 = 1
      BY DEF Entry
    <2>3. PICK r3 \in Entry : r3 = [r1 EXCEPT !.tref = x2]
      BY DEF Entry
    <2> QED
      BY <2>1, <2>2, <2>3 DEF Entry
  <1> QED
    BY <1>1 DEF Entry, Fields

(* Communicator::accept: a target whose entry is still to be made. *)
LEMMA AcceptStep ==
  ASSUME IInv, NEW c \in Conns, Accept(c)
  PROVE  IInv'
  <1>0. /\ ShapeOK /\ ResultsOK /\ LockOK /\ FinishOK /\ BindOK /\ CountOK /\ ConnOK(c)
        /\ \A d \in Conns : ConnOK(d)
    BY DEF IInv
  <1>1. PICK q \in Entry : q = conn[c] /\ q = Unborn
    BY Given DEF Accept
  <1>2. /\ q.state = "none" /\ q.ref = 0 /\ q.memory = "unborn" /\ q.seq = 0 /\ q.tref = 0
        /\ q.mutex = None /\ ~q.idle /\ q.node = "none" /\ q.hand = "none" /\ ~q.removed
        /\ ~q.partial /\ q.pipe = <<>> /\ q.got = 0
    BY <1>1 DEF Unborn
  <1>3. PICK r \in Entry : /\ r = [q EXCEPT !.state = "accepted", !.tref = 1]
                           /\ Fields(r, "accepted", q.ref, q.memory, q.seq, 1, q.mutex, q.idle,
                                     q.node, q.hand, q.removed, q.partial, q.pipe, q.got)
    BY NewAccepted
  <1>4. /\ r.state = "accepted" /\ r.ref = 0 /\ r.memory = "unborn" /\ r.seq = 0 /\ r.tref = 1
        /\ r.mutex = None /\ ~r.idle /\ r.node = "none" /\ r.hand = "none" /\ ~r.removed
        /\ ~r.partial /\ r.pipe = <<>> /\ r.got = 0
    BY <1>2, <1>3 DEF Fields
  <1>5. conn' = [conn EXCEPT ![c] = r] /\ spc' = spc /\ pc' = pc /\ job' = job
        /\ wronged' = wronged /\ svc.node # "none"
    BY <1>1, <1>3 DEF Accept, Set
  <1>6. conn'[c] = r /\ \A d \in Conns : d # c => conn'[d] = conn[d]
    BY <1>0, <1>5 DEF ShapeOK
  <1>7. PICK m \in Outcome : /\ m = Result("listen", "SUCCESS", c) /\ GoodResult(m)
                             /\ m.op = "listen" /\ m.st = "SUCCESS" /\ m.conn = c
    BY ResultOK DEF GoodResult
  <1>8. msgqueue' = Append(msgqueue, m)
    BY <1>7 DEF Accept, Send
  <1>9. /\ svc' \in Service /\ svc'.ref = svc.ref + 1 /\ svc'.node = svc.node
        /\ svc'.mutex = svc.mutex /\ svc'.marking = svc.marking /\ svc'.unbound = svc.unbound
        /\ svc'.alive_list = svc.alive_list /\ svc'.listening = svc.listening
        /\ svc'.conn_count = svc.conn_count
    <2>1. svc \in Service /\ svc' = [svc EXCEPT !.ref = @ + 1]
      BY <1>0 DEF ShapeOK, Accept
    <2> QED
      BY <2>1 DEF Service
  <1>10. /\ \A op : Num(msgqueue, Ends(c, op))' = Num(msgqueue, Ends(c, op))
         /\ Num(msgqueue, Completes(c))' = Num(msgqueue, Completes(c))
         /\ Num(msgqueue, Arrivals(c))' = Num(msgqueue, Arrivals(c)) + 1
         /\ Num(msgqueue, Unbinds)' = Num(msgqueue, Unbinds)
         /\ \A S : Num(msgqueue, S) \in Nat
    BY <1>0, <1>7, <1>8, SendCounts DEF B
  <1>11. \A S, P : JNum(S, P)' = JNum(S, P) /\ JNum(S, P) \in Nat
    BY <1>5, JobsStay, JNumPositive
  <1>12. Repliers(c)' = Repliers(c) /\ Undeleted(c)' = Undeleted(c)
    BY <1>5, SessionsStay DEF Repliers, Undeleted
  <1>13. /\ \A op \in {"read", "write"} : Ending(c, op)' = Ending(c, op)
         /\ Complete(c)' = Complete(c) /\ Held(c)' = Held(c) /\ Arriving(c)' = Arriving(c) + 1
         /\ Binding' = Binding
    <2>1. \A op \in {"read", "write"} : NodeTokens(conn[c], c, op) = NodeTokens(conn'[c], c, op)
      BY <1>1, <1>2, <1>4, <1>6 DEF NodeTokens
    <2>2. \A op \in {"read", "write"} : Ending(c, op)' = Ending(c, op)
      BY <1>10, <1>11, <2>1 DEF Ending, NodeTokens
    <2>3. Complete(c)' = Complete(c) /\ Held(c)' = Held(c)
      BY <1>10, <1>11, <1>12 DEF Complete, Held
    <2>4. Arriving(c)' = Arriving(c) + 1
      BY <1>10, <1>11 DEF Arriving
    <2>5. Binding' = Binding
      BY <1>5, <1>9, <1>10, <1>11 DEF Binding
    <2> QED
      BY <2>2, <2>3, <2>4, <2>5
  <1>14. \A d, k : NoFinisher(d, k)' <=> NoFinisher(d, k)
    BY <1>5 DEF NoFinisher, Finishes
  <1>15. /\ Held(c) \in Nat /\ Arriving(c) \in Nat /\ Undeleted(c) \in Nat /\ MaxSeq[c] \in Nat
         /\ Complete(c) \in Nat /\ Ending(c, "read") \in Nat /\ Ending(c, "write") \in Nat
    BY Given
  <1>16. Arriving(c) = 0 /\ Undeleted(c) = 0
    BY <1>0, <1>1, <1>2, <1>15 DEF ConnOK, TrefOK, B
  <1>17. Ending(c, "read") = 0 /\ Ending(c, "write") = 0 /\ Complete(c) = 0 /\ Held(c) = 0
    BY <1>0, <1>1, <1>2, <1>15 DEF ConnOK, RefOK
  <1>18. ConnOK(c)'
    <2>1. RefOK(c)'
      BY <1>4, <1>6, <1>13, <1>17 DEF RefOK
    <2>2. TrefOK(c)'
      BY <1>4, <1>6, <1>12, <1>13, <1>16 DEF TrefOK, B
    <2>3. HandOK(c)'
      BY <1>4, <1>6 DEF HandOK, InHand
    <2>4. StateOK(c)'
      BY <1>4, <1>6, <1>13, <1>17 DEF StateOK
    <2>5. SessionOK(c)'
      <3>1. PastOK(c)'
        <4>1. PastOK(c) /\ conn'[c].seq = conn[c].seq /\ conn[c].seq \in Nat
          BY <1>0, <1>1, <1>2, <1>4, <1>6 DEF ConnOK, SessionOK
        <4>2. \A j \in 1 .. MaxSeq[c] : spc'[<<c, j>>] = spc[<<c, j>>]
          BY <1>5
        <4> QED
          BY <1>14, <1>15, <4>1, <4>2, PastKept
      <3>2. LastOK(c)'
        BY <1>4, <1>6, <1>13, <1>17 DEF LastOK
      <3> QED
        BY <3>1, <3>2 DEF SessionOK
    <2>6. GotOK(c)'
      BY <1>0, <1>4, <1>5, <1>6 DEF ConnOK, GotOK
    <2> QED
      BY <2>1, <2>2, <2>3, <2>4, <2>5, <2>6 DEF ConnOK
  <1>19. \A d \in Conns : d # c => SameAt(d)
    BY <1>0, <1>5, <1>6, <1>7, <1>8, QueueSend, Elsewhere DEF JobsSame, SessionsSame
  <1>20. \A d \in Conns : ConnOK(d)'
    BY <1>0, <1>5, <1>18, <1>19, Frame DEF ConnOK, GotOK
  <1>21. ShapeOK'
    BY <1>0, <1>5, <1>8, <1>9 DEF ShapeOK
  <1>22. ResultsOK'
    <2>1. \A i \in 1 .. Len(r.pipe) : FromPipe(r.pipe[i], c)
      BY <1>4
    <2>2. pc' = pc /\ job' = job /\ (\E z \in Outcome : GoodResult(z) /\ msgqueue' = Append(msgqueue, z))
      BY <1>5, <1>7, <1>8
    <2>3. r.seq = conn[c].seq
      BY <1>1, <1>2, <1>4
    <2> QED
      BY <1>0, <1>5, <2>1, <2>2, <2>3, PollerResults
  <1>23. LockOK'
    <2>1. \A d \in Conns : conn'[d].mutex = conn[d].mutex /\ conn'[d].seq = conn[d].seq
      BY <1>1, <1>2, <1>4, <1>6
    <2>2. \A d \in Conns : conn[d].mutex # None => conn'[d].state = "idle" /\ ~conn'[d].idle
      <3>1. \A d \in Conns : conn[d].mutex # None => conn'[d] = conn[d]
        BY <1>1, <1>2, <1>6
      <3>2. \A d \in Conns : conn[d].mutex # None => conn[d].state = "idle" /\ ~conn[d].idle
        BY <1>0 DEF LockOK
      <3> QED
        BY <3>1, <3>2
    <2> QED
      BY <1>0, <1>5, <2>1, <2>2, LockSame
  <1>24. FinishOK'
    <2>1. \A h \in Handlers : pc[h] \in {"relist", "read", "write"} => job[h].conn \in Conns
      BY <1>0 DEF ResultsOK, GoodJob
    <2>2. \A d \in Conns : conn'[d].seq = conn[d].seq /\ Ending(d, "read")' = Ending(d, "read")
      BY <1>1, <1>2, <1>4, <1>6, <1>13, <1>19 DEF SameAt
    <2> QED
      BY <1>0, <1>5, <2>1, <2>2 DEF FinishAt, FinishOK, Finishes
  <1>25. BindOK' /\ CountOK'
    <2>0. /\ Cardinality(HeldTargets) \in Nat /\ Cardinality(LiveConns) \in Nat
          /\ Cardinality(OpenConns) \in Nat
          /\ Cardinality(HeldTargets)' = Cardinality(HeldTargets) - B(conn[c].tref > 0) + B(r.tref > 0)
          /\ Cardinality(LiveConns)' = Cardinality(LiveConns)
                - B(conn[c].memory = "live") + B(r.memory = "live")
          /\ Cardinality(OpenConns)' = Cardinality(OpenConns)
                - B(conn[c].memory = "live" /\ conn[c].state # "closing")
                + B(r.memory = "live" /\ r.state # "closing")
      BY <1>0, <1>5, ConnCounts
    <2>1. /\ Cardinality(HeldTargets)' = Cardinality(HeldTargets) + 1
          /\ Cardinality(LiveConns)' = Cardinality(LiveConns)
          /\ Cardinality(OpenConns)' = Cardinality(OpenConns)
      <3>1. /\ B(conn[c].tref > 0) = 0 /\ B(r.tref > 0) = 1
            /\ B(conn[c].memory = "live") = 0 /\ B(r.memory = "live") = 0
            /\ B(conn[c].memory = "live" /\ conn[c].state # "closing") = 0
            /\ B(r.memory = "live" /\ r.state # "closing") = 0
        BY <1>1, <1>2, <1>4 DEF B
      <3> QED
        BY <2>0, <3>1
    <2>2. Binding >= 1 /\ Binding \in Nat
      BY <1>0, <1>5, <1>10, <1>11, BOK DEF ShapeOK, Service, BindOK, B, Binding
    <2>3. svc.ref # 0 /\ svc'.ref # 0 /\ svc'.ref = Binding' + Cardinality(HeldTargets)'
      BY <1>0, <1>9, <1>13, <2>0, <2>1, <2>2 DEF BindOK
    <2>4. BindOK'
      BY <1>0, <1>5, <1>9, <1>13, <2>3 DEF BindOK, B
    <2>5. CountOK'
      BY <1>0, <1>5, <1>9, <2>1 DEF CountOK
    <2> QED
      BY <2>4, <2>5
  <1>26. DrainOK' /\ ListOK'
    BY <1>1, <1>2, <1>4, <1>5, <1>6, <1>9, <1>13, <1>19, ServiceSame DEF SameAt, Waits
  <1> QED
    BY <1>20, <1>21, <1>22, <1>23, <1>24, <1>25, <1>26 DEF IInv

----------------------------------------
(* Steps of the threads that make and refuse connections, or close them
   all: no result of an entry is handled. *)

ServiceMove(t, p) ==
    /\ pc' = [pc EXCEPT ![t] = p] /\ UNCHANGED <<spc, msgqueue, wronged>>
    /\ \/ t = Main /\ p \in {"wait", "finished"} \cup Closing /\ job' = job
       \/ /\ t \in Handlers /\ pc[t] \in {"listen"} \cup NewSteps /\ job[t].st = "SUCCESS"
          /\ p \in NewSteps /\ job' = job
       \/ /\ t \in Handlers /\ pc[t] \in {"listen"} \cup Closing /\ job[t].st = "DELETED"
          /\ p \in Closing /\ job' = job
       \/ /\ t \in Handlers /\ pc[t] \in Closing /\ p = "get"
          /\ job' = [job EXCEPT ![t] = NoResult]

(* An entry stays as it is, or drain has it in hand. *)
Stays(d) ==
    \/ conn'[d] = conn[d]
    \/ /\ conn[d].state = "keepalive" /\ conn'[d].state \in {"keepalive", "closing"}
       /\ conn'[d].ref = conn[d].ref /\ conn'[d].memory = conn[d].memory
       /\ conn'[d].seq = conn[d].seq /\ conn'[d].tref = conn[d].tref
       /\ conn'[d].mutex = conn[d].mutex /\ conn'[d].idle = conn[d].idle
       /\ conn'[d].got = conn[d].got /\ conn'[d].partial = conn[d].partial
       /\ conn'[d].hand = conn[d].hand /\ conn'[d].node \in {conn[d].node, "none"}
       /\ \A op \in {"read", "write"} : NodeTokens(conn'[d], d, op) = NodeTokens(conn[d], d, op)
       /\ InHand(conn'[d], d)
       /\ \A i \in 1 .. Len(conn'[d].pipe) : FromPipe(conn'[d].pipe[i], d)

LEMMA ServiceJob ==
  ASSUME IInv, NEW h \in Handlers, NEW p, ServiceMove(h, p)
  PROVE  /\ JobsElse(h) /\ job'[h] \in Outcome /\ pc'[h] = p
         /\ pc[h] \notin {"get", "read", "write", "relist", "finish", "unref"}
         /\ p \notin {"listen", "read", "write", "relist", "finish", "unref"}
         /\ p \in HandlerSteps
         /\ job'[h] = job[h] \/ (p = "get" /\ pc[h] \in Closing)
         /\ job[h].op = "listen" /\ (pc[h] \in Closing => job[h].st = "DELETED")
         /\ p \in NewSteps => job[h].st = "SUCCESS" /\ job[h].conn \in Conns
                              /\ pc[h] \in {"listen"} \cup NewSteps
         /\ p \in Closing => job[h].st = "DELETED" /\ pc[h] \in {"listen"} \cup Closing
  <1>0. ShapeOK /\ ResultsOK
    BY DEF IInv
  <1>1. h # Main
    BY Names
  <1>2. pc \in [Threads -> HandlerSteps \cup {"serving", "wait", "finished"}] /\ h \in Threads
        /\ job \in [Handlers -> Outcome]
    BY <1>0, Names DEF ShapeOK
  <1>3. pc'[h] = p /\ \A g \in Handlers : g # h => pc'[g] = pc[g]
    BY <1>2, Names DEF ServiceMove
  <1>4. NoResult \in Outcome
    BY ResultOK DEF NoResult
  <1>5. job' = job \/ (p = "get" /\ pc[h] \in Closing /\ job' = [job EXCEPT ![h] = NoResult])
    BY DEF ServiceMove
  <1>6. /\ job'[h] \in Outcome /\ \A g \in Handlers : g # h => job'[g] = job[g]
        /\ job'[h] = job[h] \/ (p = "get" /\ pc[h] \in Closing)
    BY <1>2, <1>4, <1>5
  <1>7. GoodJob(h)
    BY <1>0 DEF ResultsOK
  <1>8. /\ pc[h] \in {"listen"} \cup NewSteps \cup Closing
        /\ p \in NewSteps \cup Closing \cup {"get"}
        /\ p \in NewSteps => pc[h] \in {"listen"} \cup NewSteps /\ job[h].st = "SUCCESS"
        /\ p \in Closing => pc[h] \in {"listen"} \cup Closing /\ job[h].st = "DELETED"
    BY <1>1 DEF ServiceMove, NewSteps, Closing
  <1>9. job[h].op = "listen" /\ (pc[h] \in Closing => job[h].st = "DELETED")
    BY <1>7, <1>8 DEF GoodJob
  <1>10. p \in NewSteps => job[h].conn \in Conns
    BY <1>7, <1>8 DEF GoodJob, GoodResult
  <1>11. /\ p \in HandlerSteps
         /\ pc[h] \notin {"get", "read", "write", "relist", "finish", "unref"}
         /\ p \notin {"listen", "read", "write", "relist", "finish", "unref"}
    BY <1>8 DEF HandlerSteps, NewSteps, Closing
  <1> QED
    BY <1>3, <1>6, <1>8, <1>9, <1>10, <1>11 DEF JobsElse

LEMMA ServiceCounts ==
  ASSUME IInv, NEW t \in Threads, NEW p, ServiceMove(t, p), NEW d \in Conns
  PROVE  /\ \A op \in {"read", "write"} : JNum(Ends(d, op), {op})' = JNum(Ends(d, op), {op})
         /\ JNum(Completes(d), {"read"})' = JNum(Completes(d), {"read"})
         /\ JNum(OfEntry(d), {"relist", "finish", "unref"})'
               = JNum(OfEntry(d), {"relist", "finish", "unref"})
         /\ JNum(Arrivals(d), {"listen"} \cup NewSteps)' = JNum(Arrivals(d), {"listen"} \cup NewSteps)
         /\ \A k : NoFinisher(d, k)' <=> NoFinisher(d, k)
  <1>0. ShapeOK
    BY DEF IInv
  <1>1. CASE t = Main
    BY <1>0, <1>1, Names, JobsStay DEF ServiceMove, ShapeOK, NoFinisher, Finishes
  <1>2. CASE t \in Handlers
    <2>1. /\ JobsElse(t) /\ job'[t] \in Outcome /\ pc'[t] = p
          /\ pc[t] \notin {"get", "read", "write", "relist", "finish", "unref"}
          /\ p \notin {"listen", "read", "write", "relist", "finish", "unref"}
          /\ job'[t] = job[t] \/ (p = "get" /\ pc[t] \in Closing)
          /\ job[t].op = "listen" /\ (pc[t] \in Closing => job[t].st = "DELETED")
          /\ p \in NewSteps => job[t].st = "SUCCESS" /\ pc[t] \in {"listen"} \cup NewSteps
          /\ p \in Closing => job[t].st = "DELETED" /\ pc[t] \in {"listen"} \cup Closing
      BY <1>2, ServiceJob
    <2>2. /\ \A op \in {"read", "write"} : ~EndIn(job[t], pc[t], d, op) /\ ~EndIn(job'[t], p, d, op)
          /\ ~CompleteIn(job[t], pc[t], d) /\ ~CompleteIn(job'[t], p, d)
          /\ ~HeldIn(job[t], pc[t], d) /\ ~HeldIn(job'[t], p, d)
      BY <2>1 DEF EndIn, CompleteIn, HeldIn
    <2>3. ArrivalIn(job[t], pc[t], d) <=> ArrivalIn(job'[t], p, d)
      BY <1>2, <2>1, Names DEF ServiceMove, ArrivalIn, NewSteps, Closing
    <2>4. /\ \A op : JNum(Ends(d, op), {op})' = JNum(Ends(d, op), {op})
                       - B(EndIn(job[t], pc[t], d, op)) + B(EndIn(job'[t], pc'[t], d, op))
          /\ JNum(Completes(d), {"read"})' = JNum(Completes(d), {"read"})
                       - B(CompleteIn(job[t], pc[t], d)) + B(CompleteIn(job'[t], pc'[t], d))
          /\ JNum(OfEntry(d), {"relist", "finish", "unref"})'
               = JNum(OfEntry(d), {"relist", "finish", "unref"})
                       - B(HeldIn(job[t], pc[t], d)) + B(HeldIn(job'[t], pc'[t], d))
          /\ JNum(Arrivals(d), {"listen"} \cup NewSteps)' = JNum(Arrivals(d), {"listen"} \cup NewSteps)
                       - B(ArrivalIn(job[t], pc[t], d)) + B(ArrivalIn(job'[t], pc'[t], d))
          /\ \A S, P : JNum(S, P) \in Nat
      BY <1>0, <1>2, <2>1, JobCounts
    <2>5. B(ArrivalIn(job[t], pc[t], d)) = B(ArrivalIn(job'[t], p, d))
          /\ B(ArrivalIn(job[t], pc[t], d)) \in {0, 1}
      BY <2>3, BOK DEF B
    <2>6. \A k : NoFinisher(d, k)' <=> NoFinisher(d, k)
      BY <1>2, <2>1 DEF NoFinisher, Finishes, JobsElse
    <2>7. \A op \in {"read", "write"} : JNum(Ends(d, op), {op})' = JNum(Ends(d, op), {op})
      BY <2>1, <2>2, <2>4 DEF B
    <2>8. /\ JNum(Completes(d), {"read"})' = JNum(Completes(d), {"read"})
          /\ JNum(OfEntry(d), {"relist", "finish", "unref"})'
               = JNum(OfEntry(d), {"relist", "finish", "unref"})
      BY <2>1, <2>2, <2>4 DEF B
    <2>9. JNum(Arrivals(d), {"listen"} \cup NewSteps)' = JNum(Arrivals(d), {"listen"} \cup NewSteps)
      BY <2>1, <2>4, <2>5
    <2> QED
      BY <2>6, <2>7, <2>8, <2>9
  <1> QED
    BY <1>1, <1>2, Names

(* The reference of bind. *)
LEMMA ServiceBinding ==
  ASSUME IInv, NEW t \in Threads, NEW p, ServiceMove(t, p)
  PROVE  /\ t = Main => Binding' = Binding - B(pc[Main] \in {"serving"} \cup Closing)
                          + B(p \in {"serving"} \cup Closing)
                          - B(svc.node = "deleted") + B(svc'.node = "deleted")
         /\ t \in Handlers => Binding' = Binding - B(UnbindIn(job[t], pc[t])) + B(UnbindIn(job'[t], p))
                          - B(svc.node = "deleted") + B(svc'.node = "deleted")
         /\ Binding \in Nat
  <1>0. ShapeOK /\ msgqueue' = msgqueue
    BY DEF IInv, ServiceMove
  <1>1. PICK a \in Nat : a = Num(msgqueue, Unbinds)
    BY <1>0, QueueNum
  <1>2. PICK j \in Nat : j = JNum(Unbinds, {"listen"} \cup Closing)
    BY JNumPositive
  <1>3. PICK b \in {0, 1} : b = B(pc[Main] \in {"serving"} \cup Closing)
    BY BOK
  <1>4. PICK n \in {0, 1} : n = B(svc.node = "deleted")
    BY BOK
  <1>5. PICK m \in {0, 1} : m = B(svc'.node = "deleted")
    BY BOK
  <1>6. Binding = b + n + a + j
    BY <1>1, <1>2, <1>3, <1>4 DEF Binding
  <1>7. Num(msgqueue, Unbinds)' = a
    BY <1>0, <1>1
  <1>8. ASSUME t = Main
        PROVE  Binding' = Binding - B(pc[Main] \in {"serving"} \cup Closing)
                          + B(p \in {"serving"} \cup Closing)
                          - B(svc.node = "deleted") + B(svc'.node = "deleted")
    <2>1. /\ \A g \in Handlers : job'[g] = job[g] /\ pc'[g] = pc[g]
          /\ pc'[Main] = p
      BY <1>0, <1>8, Names DEF ServiceMove, ShapeOK
    <2>2. JNum(Unbinds, {"listen"} \cup Closing)' = j
      BY <1>2, <2>1, JobsStay
    <2>3. PICK x \in {0, 1} : x = B(p \in {"serving"} \cup Closing)
      BY BOK
    <2>4. Binding' = x + m + a + j
      BY <1>5, <1>7, <2>1, <2>2, <2>3 DEF Binding
    <2> QED
      BY <1>3, <1>4, <1>5, <1>6, <2>3, <2>4
  <1>9. ASSUME t \in Handlers
        PROVE  Binding' = Binding - B(UnbindIn(job[t], pc[t])) + B(UnbindIn(job'[t], p))
                          - B(svc.node = "deleted") + B(svc'.node = "deleted")
    <2>1. JobsElse(t) /\ job'[t] \in Outcome /\ pc'[t] = p
      BY <1>9, ServiceJob
    <2>2. pc'[Main] = pc[Main]
      BY <1>0, <1>9, Names DEF ServiceMove, ShapeOK
    <2>3. PICK x \in {0, 1} : x = B(UnbindIn(job[t], pc[t]))
      BY BOK
    <2>4. PICK y \in {0, 1} : y = B(UnbindIn(job'[t], p))
      BY BOK
    <2>5. JNum(Unbinds, {"listen"} \cup Closing)' = j - x + y
      BY <1>0, <1>2, <1>9, <2>1, <2>3, <2>4, JobMove DEF ShapeOK, Unbinds, UnbindIn, B
    <2>6. Binding' = b + m + a + (j - x + y)
      BY <1>3, <1>5, <1>7, <2>2, <2>5 DEF Binding
    <2> QED
      BY <1>4, <1>5, <1>6, <2>3, <2>4, <2>6
  <1>10. Binding \in Nat
    BY <1>6
  <1> QED
    BY <1>8, <1>9, <1>10

(* An entry in the hands of drain is as consistent as before. *)
LEMMA StaysOK ==
  ASSUME IInv, NEW t \in Threads, NEW p, ServiceMove(t, p), NEW d \in Conns, conn'[d] \in Entry,
         Stays(d)
  PROVE  /\ ConnOK(d)'
         /\ \A op \in {"read", "write"} : Ending(d, op)' = Ending(d, op)
         /\ conn'[d].seq = conn[d].seq /\ conn'[d].mutex = conn[d].mutex
         /\ conn'[d].tref = conn[d].tref /\ conn'[d].memory = conn[d].memory
         /\ conn[d].mutex # None => conn'[d] = conn[d]
         /\ \A i \in 1 .. Len(conn'[d].pipe) : FromPipe(conn'[d].pipe[i], d)
         /\ conn'[d].state = conn[d].state
            \/ (conn[d].state = "keepalive" /\ conn'[d].state = "closing")
  <1>0. /\ ShapeOK /\ LockOK /\ ConnOK(d) /\ ~wronged' /\ spc' = spc /\ msgqueue' = msgqueue
        /\ \A i \in 1 .. Len(conn[d].pipe) : FromPipe(conn[d].pipe[i], d)
    BY Given DEF IInv, ServiceMove, ConnOK, GotOK
  <1>1. PICK q \in Entry : q = conn[d]
    BY Given
  <1>2. PICK r \in Entry : r = conn'[d]
    OBVIOUS
  <1>3. /\ \A op \in {"read", "write"} : JNum(Ends(d, op), {op})' = JNum(Ends(d, op), {op})
        /\ JNum(Completes(d), {"read"})' = JNum(Completes(d), {"read"})
        /\ JNum(OfEntry(d), {"relist", "finish", "unref"})'
               = JNum(OfEntry(d), {"relist", "finish", "unref"})
        /\ JNum(Arrivals(d), {"listen"} \cup NewSteps)' = JNum(Arrivals(d), {"listen"} \cup NewSteps)
        /\ \A k : NoFinisher(d, k)' <=> NoFinisher(d, k)
    BY ServiceCounts
  <1>4. Repliers(d)' = Repliers(d) /\ Undeleted(d)' = Undeleted(d)
    BY <1>0, SessionsStay DEF Repliers, Undeleted
  <1>5. \A op \in {"read", "write"} : NodeTokens(r, d, op) = NodeTokens(q, d, op)
    BY <1>1, <1>2 DEF Stays
  <1>6. /\ \A op \in {"read", "write"} : Ending(d, op)' = Ending(d, op)
        /\ Complete(d)' = Complete(d) /\ Held(d)' = Held(d) /\ Arriving(d)' = Arriving(d)
    BY <1>0, <1>1, <1>2, <1>3, <1>4, <1>5 DEF Num, Ending, NodeTokens, Complete, Held, Arriving
  <1>7. CASE r = q
    BY <1>0, <1>1, <1>2, <1>3, <1>4, <1>6, <1>7, Frame DEF SameAt
  <1>8. CASE r # q
    <2>1. /\ q.state = "keepalive" /\ r.state \in {"keepalive", "closing"}
          /\ r.ref = q.ref /\ r.memory = q.memory /\ r.seq = q.seq /\ r.tref = q.tref
          /\ r.mutex = q.mutex /\ r.idle = q.idle /\ r.got = q.got /\ r.partial = q.partial
          /\ r.hand = q.hand /\ r.node \in {q.node, "none"} /\ InHand(r, d)
          /\ \A i \in 1 .. Len(r.pipe) : FromPipe(r.pipe[i], d)
      BY <1>1, <1>2, <1>8 DEF Stays
    <2>2. /\ ConnOK(d) /\ MaxSeq[d] \in Nat /\ q.seq \in Nat /\ q.got \in Nat /\ q.tref \in Int
          /\ q.ref \in Int /\ Held(d) \in Nat /\ Undeleted(d) \in Nat /\ Arriving(d) \in Nat
          /\ Complete(d) \in Nat /\ Ending(d, "read") \in Nat /\ Ending(d, "write") \in Nat
      BY <1>1, Given
    <2>3. Ending(d, "write") = 0 /\ Complete(d) = 0 /\ ~q.idle
      BY <1>1, <2>1, <2>2 DEF ConnOK, StateOK
    <2>4. q.mutex = None
      BY <1>0, <1>1, <2>1 DEF LockOK
    <2>5. q.seq > 0 /\ PastOK(d) /\ LastOK(d) /\ Settled(d, q.seq)
      BY <1>1, <2>1, <2>2 DEF ConnOK, SessionOK, LastOK
    <2>6. RefOK(d)'
      BY <1>1, <1>2, <1>6, <2>1, <2>2 DEF ConnOK, RefOK, B
    <2>7. TrefOK(d)'
      BY <1>1, <1>2, <1>4, <1>6, <2>1, <2>2 DEF ConnOK, TrefOK
    <2>8. HandOK(d)'
      BY <1>0, <1>1, <1>2, <2>1, <2>2 DEF ConnOK, HandOK
    <2>9. StateOK(d)'
      BY <1>2, <1>6, <2>1, <2>3 DEF StateOK
    <2>10. SessionOK(d)'
      BY <1>0, <1>1, <1>2, <1>3, <1>6, <2>1, <2>2, <2>3, <2>5 DEF Settled, PastOK, LastOK, SessionOK
    <2>11. GotOK(d)'
      BY <1>0, <1>1, <1>2, <2>1, <2>2 DEF ConnOK, GotOK
    <2>12. ConnOK(d)'
      BY <2>6, <2>7, <2>8, <2>9, <2>10, <2>11 DEF ConnOK
    <2> QED
      BY <1>1, <1>2, <1>6, <2>1, <2>4, <2>12
  <1> QED
    BY <1>7, <1>8

(* What is left to show of a step of the service. *)
LEMMA ServiceStep ==
  ASSUME IInv, NEW t \in Threads, NEW p, ServiceMove(t, p), conn' \in [Conns -> Entry],
         \A d \in Conns : Stays(d), svc' \in Service,
         BindOK', CountOK', DrainOK', ListOK'
  PROVE  IInv'
  <1>0. /\ ShapeOK /\ ResultsOK /\ LockOK /\ FinishOK
        /\ spc' = spc /\ msgqueue' = msgqueue
    BY DEF IInv, ServiceMove
  <1>1. \A d \in Conns :
           /\ ConnOK(d)'
           /\ \A op \in {"read", "write"} : Ending(d, op)' = Ending(d, op)
           /\ conn'[d].seq = conn[d].seq /\ conn'[d].mutex = conn[d].mutex
           /\ conn[d].mutex # None => conn'[d] = conn[d]
           /\ \A i \in 1 .. Len(conn'[d].pipe) : FromPipe(conn'[d].pipe[i], d)
    BY StaysOK
  <1>2. /\ t \in Handlers =>
              /\ JobsElse(t) /\ job'[t] \in Outcome /\ pc'[t] = p
              /\ pc[t] \notin {"read", "write", "relist", "finish", "unref"}
              /\ p \notin {"listen", "read", "write", "relist", "finish", "unref"}
              /\ p \in HandlerSteps
              /\ p \in NewSteps => job'[t] = job[t] /\ job[t].op = "listen" /\ job[t].st = "SUCCESS"
                                   /\ job[t].conn \in Conns
              /\ p \in Closing => job'[t] = job[t] /\ job[t].op = "listen" /\ job[t].st = "DELETED"
    BY ServiceJob DEF NewSteps, Closing
  <1>3. t = Main => /\ \A g \in Handlers : pc'[g] = pc[g]
                    /\ job' = job /\ pc'[Main] = p /\ p \in {"wait", "finished"} \cup Closing
    BY <1>0, Names DEF ServiceMove, ShapeOK
  <1>4. \A g \in Handlers : \/ g # t /\ pc'[g] = pc[g] /\ job'[g] = job[g]
                            \/ /\ g = t /\ pc'[g] = p
                               /\ pc[g] \notin {"read", "write", "relist", "finish", "unref"}
                               /\ pc'[g] \notin {"listen", "read", "write", "relist", "finish", "unref"}
    BY <1>2, <1>3, Names DEF JobsElse
  <1>5. ShapeOK'
    <2>1. job' \in [Handlers -> Outcome]
      BY <1>0, ResultOK DEF NoResult, ServiceMove, ShapeOK
    <2>2. p \in HandlerSteps \cup {"serving", "wait", "finished"}
      BY <1>2, <1>3, Names DEF HandlerSteps
    <2>3. pc' \in [Threads -> HandlerSteps \cup {"serving", "wait", "finished"}]
      BY <1>0, <2>2 DEF ServiceMove, ShapeOK
    <2>4. pc'[Main] \in {"serving", "wait", "finished"} \cup Closing
      BY <1>0, <1>3, Names DEF ServiceMove, ShapeOK
    <2>5. \A h \in Handlers : pc'[h] \in HandlerSteps
      BY <1>0, <1>2, <1>4 DEF ShapeOK
    <2> QED
      BY <1>0, <2>1, <2>3, <2>4, <2>5 DEF ShapeOK
  <1>6. ResultsOK'
    BY <1>0, <1>1, <1>2, <1>4 DEF ResultsOK, GoodJob, GoodResult, NewSteps, Closing
  <1>7. LockOK'
    BY <1>0, <1>1, <1>4, LockSame DEF LockOK
  <1>8. FinishOK'
    BY <1>0, <1>1, <1>4, JobSeq, FinishKept DEF FinishAt, FinishOK, Finishes
  <1> QED
    BY <1>1, <1>5, <1>6, <1>7, <1>8 DEF IInv

(* The handlers at some step, and at the step before the entry is made. *)
LEMMA HandlerSets ==
  /\ IsFiniteSet({g \in Handlers : pc[g] \in NewSteps})
  /\ IsFiniteSet({g \in Handlers : pc[g] = "make"})
  /\ Cardinality({g \in Handlers : pc[g] \in NewSteps}) \in Nat
  /\ Cardinality({g \in Handlers : pc[g] = "make"}) \in Nat
  /\ Cardinality({g \in Handlers : pc[g] = "make"}) <= Cardinality({g \in Handlers : pc[g] \in NewSteps})
  BY ServerAssumption, FS_Subset, FS_CardinalityType DEF NewSteps

LEMMA HandlerSetsMove ==
  ASSUME NEW h \in Handlers, JobsElse(h)
  PROVE  /\ Cardinality({g \in Handlers : pc[g] \in NewSteps})'
               = Cardinality({g \in Handlers : pc[g] \in NewSteps})
                 - B(pc[h] \in NewSteps) + B(pc'[h] \in NewSteps)
         /\ Cardinality({g \in Handlers : pc[g] = "make"})'
               = Cardinality({g \in Handlers : pc[g] = "make"})
                 - B(pc[h] = "make") + B(pc'[h] = "make")
  <1>1. \A g : g # h => (g \in {i \in Handlers : pc[i] \in NewSteps}
                            <=> g \in {i \in Handlers : pc'[i] \in NewSteps})
    BY DEF JobsElse
  <1>2. \A g : g # h => (g \in {i \in Handlers : pc[i] = "make"}
                            <=> g \in {i \in Handlers : pc'[i] = "make"})
    BY DEF JobsElse
  <1>3. /\ B(h \in {i \in Handlers : pc[i] \in NewSteps}) = B(pc[h] \in NewSteps)
        /\ B(h \in {i \in Handlers : pc'[i] \in NewSteps}) = B(pc'[h] \in NewSteps)
        /\ B(h \in {i \in Handlers : pc[i] = "make"}) = B(pc[h] = "make")
        /\ B(h \in {i \in Handlers : pc'[i] = "make"}) = B(pc'[h] = "make")
    BY DEF B
  <1>4. Cardinality({i \in Handlers : pc'[i] \in NewSteps})
          = Cardinality({i \in Handlers : pc[i] \in NewSteps})
            - B(h \in {i \in Handlers : pc[i] \in NewSteps}) + B(h \in {i \in Handlers : pc'[i] \in NewSteps})
    BY <1>1, HandlerSets, CardStep
  <1>5. Cardinality({i \in Handlers : pc'[i] = "make"})
          = Cardinality({i \in Handlers : pc[i] = "make"})
            - B(h \in {i \in Handlers : pc[i] = "make"}) + B(h \in {i \in Handlers : pc'[i] = "make"})
    BY <1>2, HandlerSets, CardStep
  <1> QED
    BY <1>3, <1>4, <1>5

(* Nobody's reference changes hands. *)
LEMMA BindKept ==
  ASSUME IInv, NEW t \in Threads, NEW p, ServiceMove(t, p),
         \A d \in Conns : conn'[d].tref = conn[d].tref,
         svc'.ref = svc.ref, svc'.unbound = svc.unbound, svc'.node = svc.node, Binding' = Binding,
         t = Main => svc.node # "armed" /\ p # "finished"
  PROVE  BindOK'
  <1>1. BindOK /\ ShapeOK
    BY DEF IInv
  <1>2. HeldTargets' = HeldTargets
    BY DEF HeldTargets
  <1>3. /\ t # Main => pc'[Main] = pc[Main]
        /\ t = Main => pc'[Main] = p
    BY <1>1, Names DEF ServiceMove, ShapeOK
  <1>4. svc'.node = "armed" => pc'[Main] = "serving"
    BY <1>1, <1>3 DEF BindOK
  <1>5. pc'[Main] = "finished" => svc'.ref = 0
    BY <1>1, <1>3 DEF BindOK
  <1> QED
    BY <1>1, <1>2, <1>4, <1>5 DEF BindOK

LEMMA CountKept ==
  ASSUME IInv, NEW t \in Threads, NEW p, ServiceMove(t, p),
         \A d \in Conns : conn'[d].memory = conn[d].memory,
         \A d \in Conns : conn'[d].state # "closing" => conn[d].state # "closing",
         svc'.conn_count = svc.conn_count,
         t \in Handlers => /\ pc[t] \in NewSteps <=> p \in NewSteps
                           /\ p # "make"
  PROVE  CountOK'
  <1>1. CountOK /\ ShapeOK
    BY DEF IInv
  <1>2. LiveConns' = LiveConns
    BY DEF LiveConns
  <1>3. /\ OpenConns \in SUBSET Conns /\ OpenConns' \in SUBSET OpenConns
    BY DEF OpenConns
  <1>4. /\ Cardinality(OpenConns') <= Cardinality(OpenConns)
        /\ Cardinality(OpenConns') \in Nat /\ Cardinality(OpenConns) \in Nat
    BY <1>3, ServerAssumption, FS_Subset, FS_CardinalityType
  <1>5. /\ \A g \in Handlers : g # t => pc'[g] = pc[g]
        /\ t \in Handlers => pc'[t] = p
    BY <1>1, Names DEF ServiceMove, ShapeOK
  <1>6. {g \in Handlers : pc'[g] \in NewSteps} = {g \in Handlers : pc[g] \in NewSteps}
    BY <1>5
  <1>7. {g \in Handlers : pc'[g] = "make"} \in SUBSET {g \in Handlers : pc[g] = "make"}
    BY <1>5
  <1>8. Cardinality({g \in Handlers : pc'[g] = "make"}) <= Cardinality({g \in Handlers : pc[g] = "make"})
        /\ Cardinality({g \in Handlers : pc'[g] = "make"}) \in Nat
        /\ Cardinality({g \in Handlers : pc[g] = "make"}) \in Nat
    BY <1>7, HandlerSets, FS_Subset, FS_CardinalityType
  <1>9. Cardinality(OpenConns') + Cardinality({g \in Handlers : pc'[g] = "make"}) <= MaxConns
    BY <1>1, <1>4, <1>8, ServerAssumption DEF CountOK
  <1>10. svc'.conn_count = Cardinality(LiveConns') + Cardinality({g \in Handlers : pc'[g] \in NewSteps})
    BY <1>1, <1>2, <1>6 DEF CountOK
  <1> QED
    BY <1>9, <1>10 DEF CountOK

(* handle_listen_result, up to new_connection. *)
LEMMA NewConnectionStep ==
  ASSUME IInv, NEW h \in Handlers, NewConnection(h)
  PROVE  IInv'
  <1>0. /\ ShapeOK /\ ResultsOK /\ CountOK /\ svc \in Service
        /\ pc[h] = "listen" /\ job[h].st = "SUCCESS" /\ conn' = conn /\ job' = job
        /\ wronged' = wronged /\ h \in Threads /\ h # Main
    BY Names DEF IInv, NewConnection, ShapeOK
  <1>1. PICK p : p = IF RoomLeft THEN "make" ELSE "drain_one"
    OBVIOUS
  <1>2. p \in {"make", "drain_one"} /\ (p = "make" => svc.conn_count < MaxConns)
    BY <1>1 DEF RoomLeft
  <1>3. ServiceMove(h, p)
    BY <1>0, <1>1, <1>2 DEF NewConnection, Goto, ServiceMove, NewSteps
  <1>4. /\ svc' \in Service /\ svc'.conn_count = svc.conn_count + 1 /\ svc'.ref = svc.ref
        /\ svc'.unbound = svc.unbound /\ svc'.node = svc.node /\ svc'.mutex = svc.mutex
        /\ svc'.marking = svc.marking /\ svc'.alive_list = svc.alive_list
        /\ svc'.listening = svc.listening
    BY <1>0 DEF NewConnection, Service
  <1>5. \A d \in Conns : Stays(d)
    BY <1>0 DEF Stays
  <1>6. JobsElse(h) /\ pc'[h] = p
    BY <1>3, ServiceJob
  <1>7. Binding' = Binding
    BY <1>0, <1>3, <1>4, ServiceBinding, BOK DEF UnbindIn, B
  <1>8. BindOK'
    BY <1>0, <1>3, <1>4, <1>7, BindKept
  <1>9. CountOK'
    <2>1. /\ Cardinality({g \in Handlers : pc[g] \in NewSteps})'
               = Cardinality({g \in Handlers : pc[g] \in NewSteps}) + 1
          /\ Cardinality({g \in Handlers : pc[g] = "make"})'
               = Cardinality({g \in Handlers : pc[g] = "make"}) + B(p = "make")
      <3>1. /\ B(pc[h] \in NewSteps) = 0 /\ B(pc[h] = "make") = 0 /\ B(pc'[h] \in NewSteps) = 1
            /\ pc'[h] = p
        BY <1>0, <1>2, <1>6 DEF NewSteps, B
      <3> QED
        <4>1. /\ Cardinality({g \in Handlers : pc[g] \in NewSteps})'
                   = Cardinality({g \in Handlers : pc[g] \in NewSteps})
                     - B(pc[h] \in NewSteps) + B(pc'[h] \in NewSteps)
              /\ Cardinality({g \in Handlers : pc[g] = "make"})'
                   = Cardinality({g \in Handlers : pc[g] = "make"})
                     - B(pc[h] = "make") + B(pc'[h] = "make")
          BY <1>6, HandlerSetsMove
        <4>2. PICK n \in Nat : n = Cardinality({g \in Handlers : pc[g] \in NewSteps})
          BY HandlerSets
        <4>3. PICK m \in Nat : m = Cardinality({g \in Handlers : pc[g] = "make"})
          BY HandlerSets
        <4>4. PICK b \in {0, 1} : b = B(p = "make")
          BY BOK
        <4>5. B(pc'[h] = "make") = b
          BY <3>1, <4>4
        <4> QED
          BY <3>1, <4>1, <4>2, <4>3, <4>4, <4>5
    <2>2. LiveConns' = LiveConns /\ OpenConns' = OpenConns
      BY <1>0 DEF LiveConns, OpenConns
    <2>3. Cardinality(OpenConns) <= Cardinality(LiveConns) /\ Cardinality(OpenConns) \in Nat
          /\ Cardinality(LiveConns) \in Nat
      BY ServerAssumption, FS_Subset, FS_CardinalityType DEF LiveConns, OpenConns
    <2>4. svc'.conn_count = Cardinality(LiveConns') + Cardinality({g \in Handlers : pc[g] \in NewSteps})'
      BY <1>0, <1>4, <2>1, <2>2, <2>3, HandlerSets DEF CountOK
    <2>5. Cardinality(OpenConns') + Cardinality({g \in Handlers : pc[g] = "make"})' <= MaxConns
      BY <1>0, <1>2, <2>1, <2>2, <2>3, HandlerSets, ServerAssumption DEF B, CountOK
    <2> QED
      BY <2>4, <2>5 DEF CountOK
  <1>10. DrainOK' /\ ListOK'
    BY <1>0, <1>2, <1>3, <1>4, <1>5, <1>6, <1>7, StaysOK, ServiceSame DEF ServiceMove, ShapeOK,
       Closing, Marking, Waits
  <1>11. conn' \in [Conns -> Entry]
    BY <1>0 DEF ShapeOK
  <1> QED
    BY <1>0, <1>3, <1>4, <1>5, <1>8, <1>9, <1>10, <1>11, ServiceStep

(* The place of a thread among those that close. *)
LEMMA ServicePlaces ==
  ASSUME IInv, NEW t \in Threads, NEW p, ServiceMove(t, p)
  PROVE  pc'[t] = p /\ \A s \in Threads : s # t => pc'[s] = pc[s]
  BY DEF IInv, ShapeOK, ServiceMove

(* Whether bind's reference is still held does not change with the step of
   a thread that goes on draining. *)
LEMMA DrainBinding ==
  ASSUME IInv, NEW t \in Threads, NEW p, ServiceMove(t, p), svc'.node = svc.node,
         \/ pc[t] \in Closing /\ p \in Closing
         \/ t \in Handlers /\ pc[t] \in NewSteps /\ p \in NewSteps
  PROVE  Binding' = Binding
  BY BOK, ServiceBinding, Names, ServiceJob DEF B, UnbindIn, Closing, NewSteps

(* drain takes the first entry of the list: its node is deleted. *)
LEMMA TakeAliveStep ==
  ASSUME IInv, NEW t \in Threads, NEW p, ServiceMove(t, p), TakeAlive(t), svc.alive_list # <<>>,
         svc.mutex \in {None, t},
         \/ t \in Handlers /\ pc[t] = "drain_one" /\ p = "mark_one"
         \/ pc[t] = "drain_all" /\ p = "mark_all"
  PROVE  IInv'
  <1>0. /\ ShapeOK /\ DrainOK /\ ListOK /\ svc \in Service /\ \A d \in Conns : ConnOK(d)
        /\ svc.alive_list \in Seq(Conns)
    BY DEF IInv, ShapeOK, Service
  <1>1. PICK e \in Conns : e = Head(svc.alive_list) /\ e \in ToSet(svc.alive_list)
    BY <1>0, TailOK DEF ListOK
  <1>2. /\ Tail(svc.alive_list) \in Seq(Conns) /\ IsInjective(Tail(svc.alive_list))
        /\ ToSet(Tail(svc.alive_list)) = ToSet(svc.alive_list) \ {e}
    BY <1>0, <1>1, TailOK DEF ListOK
  <1>3. /\ svc' \in Service /\ svc'.mutex = t /\ svc'.marking = e
        /\ svc'.alive_list = Tail(svc.alive_list) /\ svc'.node = svc.node /\ svc'.ref = svc.ref
        /\ svc'.unbound = svc.unbound /\ svc'.conn_count = svc.conn_count
        /\ svc'.listening = svc.listening
    BY <1>0, <1>1, <1>2 DEF TakeAlive, Service
  <1>4. Waits(e) /\ conn[e].state = "keepalive" /\ Ending(e, "read") > 0
    BY <1>0, <1>1 DEF ListOK, Waits
  <1>5. PICK q \in Entry : q = conn[e]
    BY Given
  <1>6. /\ q.node # "write" /\ InHand(q, e) /\ \A i \in 1 .. Len(q.pipe) : FromPipe(q.pipe[i], e)
    BY <1>4, <1>5, Given
  <1>7. PICK r \in Entry : r = PollerDel(e, q) /\ Deleted(r, q, e)
    BY <1>6, PollerDelOK
  <1>8. conn' = [conn EXCEPT ![e] = r]
    BY <1>1, <1>5, <1>7 DEF TakeAlive, Set, DeleteFirst
  <1>9. conn' \in [Conns -> Entry] /\ conn'[e] = r /\ \A d \in Conns : d # e => conn'[d] = conn[d]
    BY <1>0, <1>8 DEF ShapeOK
  <1>10. /\ r.state = "keepalive" /\ r.ref = q.ref /\ r.memory = q.memory /\ r.seq = q.seq
         /\ r.tref = q.tref /\ r.mutex = q.mutex /\ r.idle = q.idle /\ r.got = q.got
         /\ r.partial = q.partial /\ r.hand = q.hand /\ r.node = "none"
         /\ \A op \in {"read", "write"} : NodeTokens(r, e, op) = NodeTokens(q, e, op)
         /\ InHand(r, e) /\ \A i \in 1 .. Len(r.pipe) : FromPipe(r.pipe[i], e)
    BY <1>4, <1>5, <1>7 DEF Deleted, SameEntry
  <1>11. \A d \in Conns : Stays(d)
    BY <1>4, <1>5, <1>9, <1>10 DEF Stays
  <1>12. pc'[t] = p /\ \A s \in Threads : s # t => pc'[s] = pc[s]
    BY ServicePlaces
  <1>13. Binding' = Binding
    BY <1>3, DrainBinding DEF NewSteps, Closing
  <1>14. \A d \in Conns : conn'[d].state = conn[d].state /\ Ending(d, "read")' = Ending(d, "read")
                          /\ conn'[d].tref = conn[d].tref /\ conn'[d].memory = conn[d].memory
    BY <1>4, <1>9, <1>10, <1>11, StaysOK
  <1>15. svc.marking = None
    BY <1>0 DEF DrainOK, Marking
  <1>16. p \in Marking /\ p # "service_decref" /\ (p \in Closing => pc[t] \in Closing)
    BY DEF Marking, Closing
  <1>17. DrainOK'
    BY <1>0, <1>1, <1>3, <1>4, <1>12, <1>14, <1>15, <1>16, Names DEF DrainOK
  <1>18. ListOK'
    <2>1. IsInjective(svc'.alive_list)
      BY <1>2, <1>3
    <2>2. \A c \in ToSet(svc'.alive_list) :
            conn'[c].state = "keepalive" /\ Ending(c, "read")' > 0 /\ svc'.marking # c
      BY <1>0, <1>2, <1>3, <1>14, ToSetOK DEF ListOK
    <2>3. \A c \in Conns : conn'[c].state = "keepalive" /\ Ending(c, "read")' > 0 /\ svc'.marking # c
             => c \in ToSet(svc'.alive_list)
      BY <1>0, <1>2, <1>3, <1>14, <1>15, Names DEF ListOK
    <2>4. \A s \in Threads : pc'[s] \in Closing => ~svc'.listening
      BY <1>0, <1>3, <1>12, <1>16 DEF ListOK
    <2>5. \A s \in Threads : pc'[s] # "service_decref"
      BY <1>0, <1>12, <1>16 DEF ListOK
    <2>6. Binding' # 0
      BY <1>0, <1>13 DEF ListOK
    <2> QED
      BY <2>1, <2>2, <2>3, <2>4, <2>5, <2>6 DEF ListOK
  <1>19. BindOK'
    BY <1>3, <1>13, <1>14, Names, BindKept DEF IInv, BindOK
  <1>20. CountOK'
    BY <1>3, <1>14, CountKept DEF NewSteps
  <1> QED
    BY <1>3, <1>9, <1>11, <1>17, <1>18, <1>19, <1>20, ServiceStep

LEMMA DrainOneStep ==
  ASSUME IInv, NEW h \in Handlers, DrainOne(h)
  PROVE  IInv'
  <1>0. /\ ShapeOK /\ ResultsOK /\ pc[h] = "drain_one" /\ svc.mutex = None
        /\ spc' = spc /\ msgqueue' = msgqueue /\ wronged' = wronged /\ job' = job
        /\ h \in Threads /\ h # Main /\ job[h].st = "SUCCESS"
    BY Names DEF IInv, ResultsOK, DrainOne, GoodJob, NewSteps
  <1>1. CASE svc.alive_list = <<>>
    BY <1>0, <1>1, DrainBinding, BindKept, CountKept, ServicePlaces, StaysOK, ServiceSame,
       ServiceStep DEF DrainOne, Goto, ServiceMove, NewSteps, Stays, ShapeOK, Closing, Marking,
       Waits
  <1>2. CASE svc.alive_list # <<>>
    BY <1>0, <1>2, TakeAliveStep DEF DrainOne, Goto, ServiceMove, NewSteps
  <1> QED
    BY <1>1, <1>2

(* drain is done with the entry that it took: the state says so. *)
LEMMA MarkStep ==
  ASSUME IInv, NEW t \in Threads, NEW p, NEW after, ServiceMove(t, p), Mark(t, after),
         \/ t \in Handlers /\ pc[t] = "mark_one" /\ p = "make" /\ after = None
         \/ pc[t] = "mark_all" /\ p = "drain_all" /\ after = t
  PROVE  IInv'
  <1>0. /\ ShapeOK /\ DrainOK /\ ListOK /\ CountOK /\ svc \in Service
        /\ \A d \in Conns : ConnOK(d)
    BY DEF IInv, ShapeOK
  <1>1. pc[t] \in Marking /\ svc.mutex = t /\ svc.marking \in Conns
    BY <1>0 DEF Marking, DrainOK, Service
  <1>2. PICK e \in Conns : e = svc.marking
    BY <1>1
  <1>3. conn[e].state = "keepalive" /\ Ending(e, "read") > 0
    BY <1>0, <1>2, Names DEF DrainOK
  <1>4. /\ svc' \in Service /\ svc'.mutex = after /\ svc'.marking = None
        /\ svc'.alive_list = svc.alive_list /\ svc'.node = svc.node /\ svc'.ref = svc.ref
        /\ svc'.unbound = svc.unbound /\ svc'.conn_count = svc.conn_count
        /\ svc'.listening = svc.listening
    BY <1>0 DEF Mark, Service
  <1>5. PICK q \in Entry : q = conn[e]
    BY Given
  <1>6. PICK r \in Entry : /\ r = [q EXCEPT !.state = "closing"]
                           /\ Fields(r, "closing", q.ref, q.memory, q.seq, q.tref, q.mutex, q.idle,
                                     q.node, q.hand, q.removed, q.partial, q.pipe, q.got)
    BY NewState
  <1>7. /\ r.state = "closing" /\ r.ref = q.ref /\ r.memory = q.memory /\ r.seq = q.seq
        /\ r.tref = q.tref /\ r.mutex = q.mutex /\ r.idle = q.idle /\ r.got = q.got
        /\ r.partial = q.partial /\ r.hand = q.hand /\ r.node = q.node /\ r.pipe = q.pipe
        /\ r.removed = q.removed
    BY <1>6 DEF Fields
  <1>8. conn' = [conn EXCEPT ![e] = r]
    BY <1>2, <1>5, <1>6 DEF Mark, Set, DeleteFirst, Close
  <1>9. conn' \in [Conns -> Entry] /\ conn'[e] = r /\ \A d \in Conns : d # e => conn'[d] = conn[d]
    BY <1>0, <1>8 DEF ShapeOK
  <1>10. /\ \A op \in {"read", "write"} : NodeTokens(r, e, op) = NodeTokens(q, e, op)
         /\ InHand(r, e) /\ \A i \in 1 .. Len(r.pipe) : FromPipe(r.pipe[i], e)
    BY Zenon, <1>5, <1>7, Given DEF NodeTokens, InHand
  <1>11. \A d \in Conns : Stays(d)
    BY <1>3, <1>5, <1>7, <1>9, <1>10 DEF Stays
  <1>12. pc'[t] = p /\ \A s \in Threads : s # t => pc'[s] = pc[s]
    BY ServicePlaces
  <1>13. Binding' = Binding
    BY <1>4, DrainBinding DEF NewSteps, Closing
  <1>14. \A d \in Conns : Ending(d, "read")' = Ending(d, "read")
                          /\ conn'[d].tref = conn[d].tref /\ conn'[d].memory = conn[d].memory
    BY <1>9, <1>11, StaysOK
  <1>15. p \notin Marking /\ p # "service_decref" /\ (p \in Closing => pc[t] \in Closing)
    BY DEF Marking, Closing
  <1>16. DrainOK'
    BY <1>0, <1>1, <1>4, <1>12, <1>15, Names DEF DrainOK
  <1>17. ListOK'
    <2>2. \A c \in ToSet(svc'.alive_list) :
            conn'[c].state = "keepalive" /\ Ending(c, "read")' > 0 /\ svc'.marking # c
      BY <1>0, <1>2, <1>4, <1>9, <1>14, ToSetOK, Names DEF Service, ListOK
    <2>3. \A c \in Conns : conn'[c].state = "keepalive" /\ Ending(c, "read")' > 0 /\ svc'.marking # c
             => c \in ToSet(svc'.alive_list)
      BY <1>0, <1>2, <1>4, <1>7, <1>9, <1>14 DEF ListOK
    <2>4. \A s \in Threads : pc'[s] \in Closing => ~svc'.listening
      BY <1>0, <1>4, <1>12, <1>15 DEF ListOK
    <2>5. \A s \in Threads : pc'[s] = "service_decref" => svc'.alive_list = <<>>
      BY <1>0, <1>4, <1>12, <1>15 DEF ListOK
    <2>6. Binding' = 0 => ~svc'.listening /\ svc'.alive_list = <<>>
      BY <1>0, <1>4, <1>13 DEF ListOK
    <2>7. IsInjective(svc'.alive_list)
      BY <1>0, <1>4 DEF ListOK
    <2> QED
      BY <2>2, <2>3, <2>4, <2>5, <2>6, <2>7 DEF ListOK
  <1>18. BindOK'
    BY <1>4, <1>13, <1>14, Names, BindKept DEF IInv, BindOK
  <1>19. CountOK'
    <2>1. CASE t \in Handlers /\ pc[t] = "mark_one"
      <3>1. JobsElse(t) /\ pc'[t] = "make"
        BY <2>1, ServiceJob
      <3>2. /\ Cardinality({g \in Handlers : pc[g] \in NewSteps})'
                   = Cardinality({g \in Handlers : pc[g] \in NewSteps})
                     - B(pc[t] \in NewSteps) + B(pc'[t] \in NewSteps)
            /\ Cardinality({g \in Handlers : pc[g] = "make"})'
                   = Cardinality({g \in Handlers : pc[g] = "make"})
                     - B(pc[t] = "make") + B(pc'[t] = "make")
        BY <2>1, <3>1, HandlerSetsMove
      <3>3. B(pc[t] \in NewSteps) = 1 /\ B(pc'[t] \in NewSteps) = 1 /\ B(pc[t] = "make") = 0
            /\ B(pc'[t] = "make") = 1
        BY <2>1, <3>1 DEF B, NewSteps
      <3>4. PICK n \in Nat : n = Cardinality({g \in Handlers : pc[g] \in NewSteps})
        BY HandlerSets
      <3>5. PICK m \in Nat : m = Cardinality({g \in Handlers : pc[g] = "make"})
        BY HandlerSets
      <3>6. /\ Cardinality(LiveConns) \in Nat /\ Cardinality(OpenConns) \in Nat
            /\ Cardinality(LiveConns)' = Cardinality(LiveConns)
                  - B(conn[e].memory = "live") + B(r.memory = "live")
            /\ Cardinality(OpenConns)' = Cardinality(OpenConns)
                  - B(conn[e].memory = "live" /\ conn[e].state # "closing")
                  + B(r.memory = "live" /\ r.state # "closing")
        BY <1>0, <1>8, ConnCounts
      <3>7. conn[e].memory = "live"
        BY <1>3, Given
      <3>8. /\ B(conn[e].memory = "live") = 1 /\ B(r.memory = "live") = 1
            /\ B(conn[e].memory = "live" /\ conn[e].state # "closing") = 1
            /\ B(r.memory = "live" /\ r.state # "closing") = 0
        BY <1>3, <1>5, <1>7, <3>7 DEF B
      <3>9. Cardinality(LiveConns)' = Cardinality(LiveConns)
            /\ Cardinality(OpenConns)' = Cardinality(OpenConns) - 1
        BY <3>6, <3>8
      <3>10. Cardinality({g \in Handlers : pc[g] \in NewSteps})' = n
             /\ Cardinality({g \in Handlers : pc[g] = "make"})' = m + 1
        BY <3>2, <3>3, <3>4, <3>5
      <3>11. svc'.conn_count = Cardinality(LiveConns)' + Cardinality({g \in Handlers : pc[g] \in NewSteps})'
        BY <1>0, <1>4, <3>4, <3>9, <3>10 DEF CountOK
      <3>12. Cardinality(OpenConns)' + Cardinality({g \in Handlers : pc[g] = "make"})' <= MaxConns
        BY <1>0, <3>5, <3>6, <3>9, <3>10, ServerAssumption DEF CountOK
      <3> QED
        BY <3>11, <3>12 DEF CountOK
    <2>2. CASE pc[t] = "mark_all"
      BY <1>3, <1>4, <1>9, <1>14, <2>2, CountKept DEF NewSteps
    <2> QED
      BY <2>1, <2>2
  <1> QED
    BY <1>4, <1>9, <1>11, <1>16, <1>17, <1>18, <1>19, ServiceStep

LEMMA MarkOneStep ==
  ASSUME IInv, NEW h \in Handlers, MarkOne(h)
  PROVE  IInv'
  BY Names, MarkStep DEF MarkOne, Goto, IInv, ResultsOK, ServiceMove, NewSteps, GoodJob

LEMMA MarkAllStep ==
  ASSUME IInv, NEW t \in Threads, MarkAll(t)
  PROVE  IInv'
  BY Names, MarkStep DEF MarkAll, Goto, IInv, ResultsOK, ServiceMove, Closing, GoodJob

LEMMA DrainAllStep ==
  ASSUME IInv, NEW t \in Threads, DrainAll(t)
  PROVE  IInv'
  <1>0. /\ ShapeOK /\ DrainOK /\ ListOK /\ pc[t] = "drain_all" /\ svc.mutex \in {None, t}
        /\ spc' = spc /\ msgqueue' = msgqueue /\ wronged' = wronged /\ job' = job
        /\ t \in Handlers => job[t].st = "DELETED"
    BY DEF IInv, ResultsOK, DrainAll, GoodJob, Closing
  <1>1. CASE svc.alive_list = <<>>
    <2>1. /\ conn' = conn /\ svc' = [svc EXCEPT !.mutex = None]
          /\ pc' = [pc EXCEPT ![t] = "service_decref"]
      BY <1>1 DEF DrainAll, Goto
    <2>2. ServiceMove(t, "service_decref")
      BY <1>0, <2>1, Names DEF ServiceMove, Closing
    <2>3. /\ svc' \in Service /\ svc'.mutex = None /\ svc'.marking = svc.marking
          /\ svc'.alive_list = svc.alive_list /\ svc'.node = svc.node /\ svc'.ref = svc.ref
          /\ svc'.unbound = svc.unbound /\ svc'.conn_count = svc.conn_count
          /\ svc'.listening = svc.listening
      BY <1>0, <2>1 DEF ShapeOK, Service
    <2>4. \A d \in Conns : Stays(d)
      BY <2>1 DEF Stays
    <2>5. conn' \in [Conns -> Entry]
      BY <1>0, <2>1 DEF ShapeOK
    <2>6. Binding' = Binding
      BY <1>0, <2>2, <2>3, DrainBinding DEF Closing
    <2>7. BindOK'
      BY <1>0, <2>1, <2>2, <2>3, <2>6, BindKept DEF IInv, BindOK
    <2>8. CountOK'
      BY <1>0, <2>1, <2>2, <2>3, CountKept DEF NewSteps
    <2>9. \A d \in Conns : Ending(d, "read")' = Ending(d, "read")
      BY <2>2, <2>4, <2>5, StaysOK
    <2>10. pc'[t] = "service_decref" /\ \A s \in Threads : s # t => pc'[s] = pc[s]
      BY <2>2, ServicePlaces
    <2>11. svc.marking = None
      BY <1>0 DEF DrainOK, Marking
    <2>12. DrainOK'
      BY <1>0, <2>3, <2>10, <2>11, Names DEF DrainOK, Marking
    <2>13. ListOK'
      BY <1>0, <1>1, <2>1, <2>3, <2>6, <2>9, <2>10, <2>11, Names DEF ToSet, ListOK, Closing
    <2> QED
      BY <2>2, <2>3, <2>4, <2>5, <2>7, <2>8, <2>12, <2>13, ServiceStep
  <1>2. CASE svc.alive_list # <<>>
    BY <1>0, <1>2, Names, TakeAliveStep DEF DrainAll, Goto, ServiceMove, Closing
  <1> QED
    BY <1>1, <1>2

(* drain is not concerned. *)
LEMMA DrainKept ==
  ASSUME IInv, NEW t \in Threads, NEW p, ServiceMove(t, p), conn' = conn,
         svc'.mutex = svc.mutex, svc'.marking = svc.marking,
         pc[t] \notin Marking \cup {"drain_all"}, p \notin Marking
  PROVE  DrainOK'
  <1>0. ShapeOK /\ DrainOK
    BY DEF IInv
  <1>1. pc'[t] = p /\ \A s \in Threads : s # t => pc'[s] = pc[s]
    BY ServicePlaces
  <1>2. \A s \in Threads : svc'.mutex = s => pc'[s] \in Marking \cup {"drain_all"}
    BY <1>0, <1>1 DEF DrainOK
  <1>3. \A s \in Threads : pc'[s] \in Marking => svc'.mutex = s /\ svc'.marking # None
    BY <1>0, <1>1 DEF DrainOK
  <1>4. svc'.marking # None => svc'.mutex # None /\ pc'[svc'.mutex] \in Marking
    BY <1>0, <1>1 DEF ShapeOK, Service, DrainOK
  <1>5. svc'.marking # None =>
          conn'[svc'.marking].state = "keepalive" /\ Ending(svc.marking, "read")' > 0
    BY <1>0, StaysOK DEF ShapeOK, Service, DrainOK, Stays
  <1> QED
    BY <1>2, <1>3, <1>4, <1>5 DEF DrainOK

(* shutdown_service begins: the service no longer listens. *)
LEMMA ClosingBegins ==
  ASSUME IInv, NEW t \in Threads, ServiceMove(t, "drain_all"), conn' = conn,
         svc' = [svc EXCEPT !.listening = FALSE], pc[t] \in {"listen", "serving"},
         t = Main => svc.node # "armed", t = Main => pc[Main] = "serving",
         t \in Handlers => pc[t] = "listen"
  PROVE  IInv'
  <1>0. ShapeOK /\ DrainOK /\ ListOK
    BY DEF IInv
  <1>1. /\ svc' \in Service /\ svc'.mutex = svc.mutex /\ svc'.marking = svc.marking
        /\ svc'.alive_list = svc.alive_list /\ svc'.node = svc.node /\ svc'.ref = svc.ref
        /\ svc'.unbound = svc.unbound /\ svc'.conn_count = svc.conn_count
        /\ ~svc'.listening
    BY <1>0 DEF ShapeOK, Service
  <1>2. \A d \in Conns : Stays(d)
    BY DEF Stays
  <1>3. conn' \in [Conns -> Entry]
    BY <1>0 DEF ShapeOK
  <1>4. Binding' = Binding
    BY <1>1, BOK, ServiceBinding, ServiceJob, Names DEF B, Closing, UnbindIn
  <1>5. BindOK'
    BY <1>1, <1>4, BindKept
  <1>6. CountOK'
    BY <1>1, CountKept DEF NewSteps
  <1>7. \A d \in Conns : Ending(d, "read")' = Ending(d, "read")
    BY <1>2, <1>3, StaysOK
  <1>8. pc'[t] = "drain_all" /\ \A s \in Threads : s # t => pc'[s] = pc[s]
    BY ServicePlaces
  <1>9. DrainOK'
    BY <1>1, DrainKept DEF Marking
  <1>10. ListOK'
    BY <1>0, <1>1, <1>4, <1>7, <1>8, ToSetOK DEF ShapeOK, Service, ListOK
  <1> QED
    BY <1>1, <1>2, <1>3, <1>5, <1>6, <1>9, <1>10, ServiceStep

LEMMA ListenDeletedStep ==
  ASSUME IInv, NEW h \in Handlers, ListenDeleted(h)
  PROVE  IInv'
  BY Names, ClosingBegins DEF ListenDeleted, Goto, ServiceMove, Closing

(* The list, when nobody begins to close. *)
LEMMA ListKept ==
  ASSUME IInv, NEW t \in Threads, NEW p, ServiceMove(t, p), conn' = conn,
         svc'.alive_list = svc.alive_list, svc'.marking = svc.marking,
         svc'.listening = svc.listening, p \notin Closing,
         Binding' = 0 => ~svc.listening /\ svc.alive_list = <<>>
  PROVE  ListOK'
  <1>0. ShapeOK /\ ListOK /\ svc.alive_list \in Seq(Conns)
    BY DEF IInv, ShapeOK, Service
  <1>1. pc'[t] = p /\ \A s \in Threads : s # t => pc'[s] = pc[s]
    BY ServicePlaces
  <1>2. \A d \in Conns : Stays(d) /\ conn'[d] \in Entry
    BY <1>0 DEF Stays, ShapeOK
  <1>3. \A d \in Conns : Ending(d, "read")' = Ending(d, "read")
    BY <1>2, StaysOK
  <1>4. \A c \in ToSet(svc.alive_list) : c \in Conns
    BY <1>0, ToSetOK
  <1>5. \A s \in Threads : pc'[s] \in Closing => ~svc'.listening
    BY <1>0, <1>1 DEF ListOK
  <1>6. \A s \in Threads : pc'[s] = "service_decref" => svc'.alive_list = <<>>
    BY <1>0, <1>1 DEF ListOK, Closing
  <1> QED
    BY <1>0, <1>3, <1>4, <1>5, <1>6 DEF ListOK

LEMMA ShutdownDecrefStep ==
  ASSUME IInv, NEW t \in Threads, ShutdownDecref(t)
  PROVE  IInv'
  <1>0. /\ ShapeOK /\ BindOK /\ ListOK /\ pc[t] = "service_decref" /\ conn' = conn
        /\ UNCHANGED <<spc, msgqueue, wronged>> /\ svc' = ServiceDecref(svc) /\ svc \in Service
    BY DEF IInv, ShutdownDecref, ShapeOK
  <1>1. PICK p : p = IF t = Main THEN "wait" ELSE "get"
    OBVIOUS
  <1>2. pc' = [pc EXCEPT ![t] = p]
    BY <1>1 DEF ShutdownDecref, Goto, Done
  <1>3. t # Main => t \in Handlers /\ job' = [job EXCEPT ![t] = NoResult]
    BY Names DEF ShutdownDecref, Done
  <1>4. t = Main => job' = job
    BY DEF ShutdownDecref
  <1>5. ServiceMove(t, p)
    BY <1>0, <1>1, <1>2, <1>3, <1>4 DEF ServiceMove, Closing
  <1>6. PICK x \in Int : x = svc.ref
    BY <1>0 DEF Service
  <1>7. PICK u \in Int : u = svc.unbound
    BY <1>0 DEF Service
  <1>8. /\ svc' \in Service /\ svc'.ref = x - 1 /\ svc'.unbound = u + B(x = 1)
        /\ svc'.mutex = svc.mutex /\ svc'.marking = svc.marking
        /\ svc'.alive_list = svc.alive_list /\ svc'.node = svc.node
        /\ svc'.conn_count = svc.conn_count /\ svc'.listening = svc.listening
    <2>1. svc' = [svc EXCEPT !.ref = x - 1, !.unbound = IF x = 1 THEN u + 1 ELSE u]
      BY <1>0, <1>6, <1>7 DEF ServiceDecref
    <2>2. PICK y \in Int : y = x - 1
      OBVIOUS
    <2>3. PICK z \in Int : z = IF x = 1 THEN u + 1 ELSE u
      OBVIOUS
    <2>4. svc' = [svc EXCEPT !.ref = y, !.unbound = z]
      BY <2>1, <2>2, <2>3
    <2>5. z = u + B(x = 1)
      BY <2>3 DEF B
    <2> QED
      BY <1>0, <2>2, <2>4, <2>5 DEF Service
  <1>9. Binding = 1 /\ Binding' = 0
    <2>0. B(svc.node = "deleted") \in {0, 1} /\ Binding \in Nat /\ Binding <= 1
      BY <1>0, BOK, ServiceBinding, <1>5 DEF BindOK
    <2>1. Binding >= 1
      BY <1>0, <1>3, <1>5, <2>0, QueueNum, JNumPositive, BOK, ServiceJob DEF B, Closing, ShapeOK,
         Unbinds, Binding
    <2>2. CASE t = Main
      BY <1>0, <1>1, <1>5, <1>8, <2>0, <2>1, <2>2, ServiceBinding DEF B, Closing
    <2>3. CASE t # Main
      BY <1>0, <1>1, <1>3, <1>5, <1>8, <2>0, <2>1, <2>3, ServiceBinding, ServiceJob DEF Closing,
         UnbindIn, B
    <2> QED
      BY <2>2, <2>3
  <1>10. \A d \in Conns : Stays(d)
    BY <1>0 DEF Stays
  <1>11. conn' \in [Conns -> Entry]
    BY <1>0 DEF ShapeOK
  <1>12. pc'[t] = p /\ \A s \in Threads : s # t => pc'[s] = pc[s]
    BY <1>5, ServicePlaces
  <1>13. BindOK'
    BY <1>0, <1>1, <1>6, <1>7, <1>8, <1>9, <1>12, ServerAssumption, FS_Subset, FS_CardinalityType,
       BOK, Names DEF HeldTargets, BindOK, B
  <1>14. CountOK'
    BY <1>0, <1>1, <1>5, <1>8, CountKept DEF NewSteps
  <1>15. DrainOK'
    BY <1>0, <1>1, <1>5, <1>8, DrainKept DEF Marking
  <1>16. ListOK'
    BY <1>0, <1>1, <1>5, <1>8, ListKept DEF ListOK, Closing
  <1> QED
    BY <1>5, <1>8, <1>10, <1>11, <1>13, <1>14, <1>15, <1>16, ServiceStep

(* WFServerBase::shutdown and wait_finish *)
LEMMA ShutdownStep ==
  ASSUME IInv, Shutdown
  PROVE  IInv'
  <1>0. /\ ShapeOK /\ BindOK /\ ListOK /\ pc[Main] = "serving" /\ Main \in Threads /\ conn' = conn
        /\ UNCHANGED <<spc, msgqueue, wronged>> /\ job' = job /\ svc \in Service
    BY Names DEF IInv, Shutdown, ShapeOK
  <1>1. CASE svc.node # "armed"
    BY <1>0, <1>1, Names, ClosingBegins DEF Shutdown, Goto, ServiceMove, Closing
  <1>2. CASE svc.node = "armed"
    <2>1. svc' = [svc EXCEPT !.node = "deleted"] /\ pc' = [pc EXCEPT ![Main] = "wait"]
      BY <1>2 DEF Shutdown, Goto
    <2>2. ServiceMove(Main, "wait")
      BY <1>0, <2>1 DEF ServiceMove
    <2>3. /\ svc' \in Service /\ svc'.ref = svc.ref /\ svc'.unbound = svc.unbound
          /\ svc'.mutex = svc.mutex /\ svc'.marking = svc.marking
          /\ svc'.alive_list = svc.alive_list /\ svc'.node = "deleted"
          /\ svc'.conn_count = svc.conn_count /\ svc'.listening = svc.listening
      BY <1>0, <2>1 DEF Service
    <2>4. Binding' = Binding
      BY <1>0, <1>2, <2>2, <2>3, ServiceBinding DEF B, Closing
    <2>5. BindOK'
      BY <1>0, <2>2, <2>3, <2>4, ServicePlaces DEF HeldTargets, BindOK
    <2>6. CountOK'
      BY <1>0, <2>2, <2>3, Names, CountKept
    <2>7. DrainOK' /\ ListOK'
      BY <1>0, <2>2, <2>3, <2>4, DrainKept, ListKept DEF ListOK, Marking, Closing
    <2>8. conn' \in [Conns -> Entry] /\ \A d \in Conns : Stays(d)
      BY <1>0 DEF ShapeOK, Stays
    <2> QED
      BY <1>0, <2>2, <2>3, <2>5, <2>6, <2>7, <2>8, ServiceStep
  <1> QED
    BY <1>1, <1>2

LEMMA WaitFinishStep ==
  ASSUME IInv, WaitFinish
  PROVE  IInv'
  <1>0. /\ ShapeOK /\ BindOK /\ ListOK /\ pc[Main] = "wait" /\ Main \in Threads /\ conn' = conn
        /\ UNCHANGED <<spc, msgqueue, wronged>> /\ job' = job /\ svc \in Service /\ svc' = svc
        /\ pc' = [pc EXCEPT ![Main] = "finished"] /\ svc.unbound > 0
    BY Names DEF IInv, WaitFinish, ShapeOK, Goto
  <1>1. ServiceMove(Main, "finished")
    BY <1>0 DEF ServiceMove
  <1>2. Binding' = Binding
    BY <1>0, <1>1, ServiceBinding, BOK DEF B, Closing
  <1>3. svc.ref = 0
    BY <1>0 DEF BindOK, B
  <1>4. BindOK'
    BY <1>0, <1>2, <1>3 DEF HeldTargets, BindOK
  <1>5. CountOK'
    BY <1>0, <1>1, Names, CountKept
  <1>6. DrainOK' /\ ListOK'
    BY <1>0, <1>1, <1>2, DrainKept, ListKept DEF ListOK, Marking, Closing
  <1>7. conn' \in [Conns -> Entry] /\ svc' \in Service /\ \A d \in Conns : Stays(d)
    BY <1>0 DEF ShapeOK, Stays
  <1> QED
    BY <1>0, <1>1, <1>4, <1>5, <1>6, <1>7, ServiceStep

----------------------------------------
(* Steps that only move a result to or from the queue *)

LEMMA QueueStep ==
  ASSUME IInv, conn' = conn, spc' = spc, wronged' = wronged, \A d \in Conns : SameAt(d),
         svc'.mutex = svc.mutex, svc'.marking = svc.marking, svc'.ref = svc.ref,
         svc'.alive_list = svc.alive_list, svc'.listening = svc.listening,
         svc'.conn_count = svc.conn_count, svc'.unbound = svc.unbound,
         svc'.node \in {svc.node, "none"}, Binding' = Binding, pc'[Main] = pc[Main],
         \A h \in Handlers :
            \/ pc'[h] = pc[h] /\ job'[h] = job[h]
            \/ pc[h] = "get" /\ pc'[h] \in {"listen", "read", "write"},
         ShapeOK', ResultsOK', FinishOK'
  PROVE  IInv'
  <1>0. /\ ShapeOK /\ ResultsOK /\ LockOK /\ BindOK /\ CountOK /\ \A d \in Conns : ConnOK(d)
    BY DEF IInv
  <1>1. \A d \in Conns : ConnOK(d)'
    BY <1>0, Frame DEF ConnOK, GotOK
  <1>2. LockOK'
    BY <1>0, LockSame DEF LockOK
  <1>3. BindOK'
    BY <1>0 DEF HeldTargets, BindOK
  <1>4. CountOK'
    <2>1. LiveConns' = LiveConns /\ OpenConns' = OpenConns
      BY DEF LiveConns, OpenConns
    <2>2. {h \in Handlers : pc'[h] \in NewSteps} = {h \in Handlers : pc[h] \in NewSteps}
      BY DEF NewSteps
    <2>3. {h \in Handlers : pc'[h] = "make"} = {h \in Handlers : pc[h] = "make"}
      OBVIOUS
    <2> QED
      BY <1>0, <2>1, <2>2, <2>3 DEF CountOK
  <1>5. DrainOK' /\ ListOK'
    BY Names, ServiceSame DEF SameAt, Waits, Closing, Marking
  <1> QED
    BY <1>1, <1>2, <1>3, <1>4, <1>5 DEF IInv

LEMMA ListenEndsStep ==
  ASSUME IInv, ListenEnds
  PROVE  IInv'
  <1>0. /\ ShapeOK /\ ResultsOK /\ FinishOK /\ svc \in Service /\ svc.node # "none"
        /\ conn' = conn /\ spc' = spc /\ pc' = pc /\ job' = job /\ wronged' = wronged
        /\ svc' = [svc EXCEPT !.node = "none"]
    BY DEF IInv, ListenEnds, ShapeOK
  <1>1. /\ svc' \in Service /\ svc'.mutex = svc.mutex /\ svc'.marking = svc.marking
        /\ svc'.ref = svc.ref /\ svc'.alive_list = svc.alive_list
        /\ svc'.listening = svc.listening /\ svc'.conn_count = svc.conn_count
        /\ svc'.unbound = svc.unbound /\ svc'.node = "none"
    BY <1>0 DEF Service
  <1>2. PICK st \in {"ERROR", "DELETED"} : /\ st = IF svc.node = "armed" THEN "ERROR" ELSE "DELETED"
                                           /\ st = "DELETED" <=> svc.node = "deleted"
    BY <1>0 DEF Service
  <1>3. PICK m \in Outcome : /\ m = Result("listen", st, None)
                             /\ m.op = "listen" /\ m.st = st /\ m.conn = None
    BY ResultOK
  <1>4. msgqueue' = Append(msgqueue, m) /\ GoodResult(m)
    BY <1>2, <1>3 DEF ListenEnds, Send, GoodResult
  <1>5. \A d \in Conns : SameAt(d)
    BY <1>0, <1>3, <1>4, Names, QueueSend, Elsewhere DEF JobsSame, SessionsSame
  <1>6. Binding' = Binding
    BY <1>0, <1>1, <1>2, <1>3, <1>4, SendNum, JobsStay, QueueNum, JNumPositive, BOK DEF Unbinds, B,
       Binding
  <1>7. ShapeOK'
    BY <1>0, <1>1, <1>4 DEF ShapeOK
  <1>8. ResultsOK'
    BY <1>0, <1>4 DEF ShapeOK, ResultsOK, GoodResult, GoodJob
  <1>9. FinishOK'
    BY <1>0, <1>5 DEF ResultsOK, GoodJob, SameAt, FinishOK, FinishAt, Finishes
  <1> QED
    BY <1>0, <1>1, <1>5, <1>6, <1>7, <1>8, <1>9, QueueStep

LEMMA TakeResultStep ==
  ASSUME IInv, NEW h \in Handlers, TakeResult(h)
  PROVE  IInv'
  <1>0. /\ ShapeOK /\ ResultsOK /\ FinishOK /\ pc[h] = "get" /\ msgqueue # <<>>
        /\ msgqueue' = Tail(msgqueue) /\ msgqueue \in Seq(Outcome)
        /\ conn' = conn /\ svc' = svc /\ spc' = spc /\ wronged' = wronged /\ h \in Threads
        /\ h # Main
    BY Names DEF IInv, TakeResult, ShapeOK
  <1>1. PICK m \in Outcome : m = Head(msgqueue) /\ GoodResult(m)
    BY <1>0 DEF ResultsOK
  <1>2. Tail(msgqueue) \in Seq(Outcome) /\ \A i \in 1 .. Len(Tail(msgqueue)) : GoodResult(Tail(msgqueue)[i])
    BY <1>0 DEF ResultsOK
  <1>3. PICK n \in Outcome : /\ n.op = m.op /\ n.st = m.st /\ n.conn = m.conn
                             /\ n = IF m.op = "listen" THEN m ELSE [m EXCEPT !.seq = conn[m.conn].seq]
                             /\ m.op # "listen" => m.conn \in Conns /\ n.seq = conn[m.conn].seq
    <2>1. CASE m.op = "listen"
      BY <2>1
    <2>2. CASE m.op # "listen"
      <3>1. m.conn \in Conns
        BY <1>1, <2>2 DEF GoodResult
      <3>2. PICK k \in Nat : k = conn[m.conn].seq
        BY <3>1, Given
      <3>3. [m EXCEPT !.seq = k] \in Outcome /\ [m EXCEPT !.seq = k].op = m.op
            /\ [m EXCEPT !.seq = k].st = m.st /\ [m EXCEPT !.seq = k].conn = m.conn
            /\ [m EXCEPT !.seq = k].seq = k
        BY DEF Outcome
      <3> QED
        BY <2>2, <3>1, <3>2, <3>3
    <2> QED
      BY <2>1, <2>2
  <1>4. PICK ignored \in BOOLEAN : ignored <=> (m.st = "MODIFIED" \/ (m.op = "listen" /\ m.st = "ERROR"))
    OBVIOUS
  <1>5. CASE ignored
    <2>1. pc' = pc /\ job' = job
      BY <1>1, <1>4, <1>5 DEF TakeResult
    <2>2. /\ m \notin Unbinds
          /\ \A d \in Conns : /\ \A op \in {"read", "write"} : m \notin Ends(d, op)
                              /\ m \notin Completes(d) /\ m \notin Arrivals(d)
      BY <1>1, <1>4, <1>5 DEF Unbinds, Ends, Completes, Arrivals, GoodResult
    <2>3. \A S : Num(msgqueue, S)' = Num(msgqueue, S) - B(m \in S) /\ Num(msgqueue, S) \in Nat
      BY <1>0, <1>1, TakeNum, QueueNum
    <2>4. \A S : m \notin S => Num(msgqueue, S)' = Num(msgqueue, S)
      BY <2>3 DEF B
    <2>5. \A S, P : JNum(S, P)' = JNum(S, P)
      BY <2>1, JobsStay
    <2>6. \A d \in Conns : SameAt(d)
      BY <1>0, <2>1, <2>2, <2>4, <2>5, SessionsStay DEF Repliers, Undeleted, Ending, NodeTokens,
         Complete, Held, Arriving, SameAt, NoFinisher, Finishes
    <2>7. Binding' = Binding
      BY <1>0, <2>1, <2>2, <2>4, <2>5 DEF Binding
    <2>8. ShapeOK' /\ ResultsOK'
      BY <1>0, <1>2, <2>1 DEF ShapeOK, ResultsOK, GoodResult, GoodJob
    <2>9. FinishOK'
      BY <1>0, <2>1, <2>6 DEF ResultsOK, GoodJob, SameAt, FinishOK, FinishAt, Finishes
    <2> QED
      BY <1>0, <2>1, <2>6, <2>7, <2>8, <2>9, QueueStep
  <1>6. CASE ~ignored
    <2>1. pc' = [pc EXCEPT ![h] = m.op] /\ job' = [job EXCEPT ![h] = n]
      BY <1>1, <1>3, <1>4, <1>6 DEF TakeResult, Goto
    <2>2. /\ pc'[h] = m.op /\ job'[h] = n /\ JobsElse(h) /\ pc'[Main] = pc[Main]
          /\ \A g \in Handlers : g # h => pc'[g] = pc[g] /\ job'[g] = job[g]
      BY <1>0, <2>1, Names DEF ShapeOK, JobsElse
    <2>3. m.op \in {"listen", "read", "write"} /\ m.st # "MODIFIED" /\ (m.op = "listen" => m.st # "ERROR")
      BY <1>1, <1>4, <1>6 DEF GoodResult
    <2>4. \A S, P : /\ Num(msgqueue, S)' = Num(msgqueue, S) - B(m \in S) /\ Num(msgqueue, S) \in Nat
                    /\ JNum(S, P)' = JNum(S, P) - B(job[h] \in S /\ pc[h] \in P) + B(n \in S /\ m.op \in P)
                    /\ JNum(S, P) \in Nat
      BY <1>0, <1>1, <2>2, TakeNum, QueueNum, JobMove, JNumPositive
    <2>45. \A S, P : /\ Num(msgqueue, S)' \in Int /\ JNum(S, P)' \in Int
                     /\ Num(msgqueue, S) \in Int /\ JNum(S, P) \in Int
      BY <2>4, BOK
    <2>5. ASSUME NEW S, NEW P, "get" \notin P, m \in S <=> n \in S /\ m.op \in P
          PROVE  Num(msgqueue, S)' + JNum(S, P)' = Num(msgqueue, S) + JNum(S, P)
      BY <1>0, <2>4, <2>5, BOK DEF B
    <2>6. JNum(Unbinds, {"listen"} \cup Closing)' + Num(msgqueue, Unbinds)'
            = JNum(Unbinds, {"listen"} \cup Closing) + Num(msgqueue, Unbinds)
      <3>1. m \in Unbinds <=> n \in Unbinds /\ m.op \in {"listen"} \cup Closing
        BY <1>3 DEF Unbinds
      <3>2. "get" \notin {"listen"} \cup Closing
        BY DEF Closing
      <3>3. Num(msgqueue, Unbinds)' + JNum(Unbinds, {"listen"} \cup Closing)'
              = Num(msgqueue, Unbinds) + JNum(Unbinds, {"listen"} \cup Closing)
        BY <2>5, <3>1, <3>2
      <3> QED
        BY <2>45, <3>3
    <2>7. \A d \in Conns : SameAt(d)
      <3> SUFFICES ASSUME NEW d \in Conns PROVE SameAt(d)
        OBVIOUS
      <3>1. Repliers(d)' = Repliers(d) /\ Undeleted(d)' = Undeleted(d)
        BY <1>0, SessionsStay DEF Repliers, Undeleted
      <3>2. ASSUME NEW op \in {"read", "write"} PROVE Ending(d, op)' = Ending(d, op)
        <4>1. m \in Ends(d, op) <=> n \in Ends(d, op) /\ m.op \in {op}
          BY <1>3 DEF Ends
        <4>2. Num(msgqueue, Ends(d, op))' + JNum(Ends(d, op), {op})'
                = Num(msgqueue, Ends(d, op)) + JNum(Ends(d, op), {op})
          BY <2>5, <4>1
        <4>3. PICK a \in Nat : a = NodeTokens(conn[d], d, op)
          BY <1>0, CountTypes
        <4>4. PICK x \in Int : x = Num(msgqueue, Ends(d, op))'
          BY <2>45
        <4>5. PICK y \in Int : y = JNum(Ends(d, op), {op})'
          BY <2>45
        <4>6. NodeTokens(conn[d], d, op)' = a
          BY <1>0, <4>3 DEF NodeTokens
        <4>7. Ending(d, op)' = a + x + y
          BY <4>4, <4>5, <4>6 DEF Ending
        <4>8. Ending(d, op) = a + Num(msgqueue, Ends(d, op)) + JNum(Ends(d, op), {op})
          BY <4>3 DEF Ending
        <4> QED
          BY <2>4, <4>2, <4>4, <4>5, <4>7, <4>8
      <3>3. Complete(d)' = Complete(d)
        BY <1>3, <2>5 DEF Completes, Complete
      <3>4. Arriving(d)' = Arriving(d)
        BY <1>3, <2>5 DEF Arrivals, Arriving, NewSteps
      <3>5. Held(d)' = Held(d)
        <4>1. /\ B(job[h] \in OfEntry(d) /\ pc[h] \in {"relist", "finish", "unref"}) = 0
              /\ B(n \in OfEntry(d) /\ m.op \in {"relist", "finish", "unref"}) = 0
          BY <1>0, <2>3 DEF B
        <4>2. JNum(OfEntry(d), {"relist", "finish", "unref"})' = JNum(OfEntry(d), {"relist", "finish", "unref"})
          BY <2>4, <4>1
        <4> QED
          BY <3>1, <4>2 DEF Held
      <3>6. \A k : NoFinisher(d, k)' <=> NoFinisher(d, k)
        BY <1>0, <2>2, <2>3 DEF NoFinisher, Finishes
      <3> QED
        BY <1>0, <3>1, <3>2, <3>3, <3>4, <3>5, <3>6 DEF SameAt
    <2>8. Binding' = Binding
      <3>1. PICK b \in {0, 1} : b = B(pc[Main] \in {"serving"} \cup Closing)
        BY BOK
      <3>2. PICK x \in {0, 1} : x = B(svc.node = "deleted")
        BY BOK
      <3>3. PICK y \in Int : y = Num(msgqueue, Unbinds)'
        BY <2>45
      <3>4. PICK z \in Int : z = JNum(Unbinds, {"listen"} \cup Closing)'
        BY <2>45
      <3>5. Binding' = b + x + y + z
        BY <1>0, <2>2, <3>1, <3>2, <3>3, <3>4 DEF Binding
      <3>6. Binding = b + x + Num(msgqueue, Unbinds) + JNum(Unbinds, {"listen"} \cup Closing)
        BY <3>1, <3>2 DEF Binding
      <3> QED
        BY <2>4, <2>6, <3>3, <3>4, <3>5, <3>6
    <2>9. ShapeOK'
      BY <1>0, <1>2, <2>1, <2>2, <2>3 DEF ShapeOK, HandlerSteps
    <2>10. ResultsOK'
      <3>1. ASSUME NEW g \in Handlers PROVE GoodJob(g)'
        <4>1. CASE g = h
          BY <1>1, <1>3, <2>2, <2>3, <4>1 DEF GoodJob, GoodResult, NewSteps, Closing
        <4>2. CASE g # h
          BY <1>0, <2>2, <4>2 DEF ResultsOK, GoodJob, GoodResult
        <4> QED
          BY <4>1, <4>2
      <3> QED
        BY <1>0, <1>2, <3>1 DEF ResultsOK, GoodResult
    <2>11. FinishOK'
      <3>1. \A g \in Handlers : pc[g] = "relist" => job[g].conn \in Conns
        BY <1>0 DEF ResultsOK, GoodJob
      <3>2. \A d \in Conns : Ending(d, "read")' = Ending(d, "read")
        BY <2>7 DEF SameAt
      <3>3. ASSUME NEW g \in Handlers PROVE FinishAt(g)'
        <4>1. CASE g = h
          BY <1>0, <1>3, <2>2, <2>3, <4>1 DEF FinishAt
        <4>2. CASE g # h
          BY <1>0, <2>2, <3>1, <3>2, <4>2 DEF FinishOK, FinishAt
        <4> QED
          BY <4>1, <4>2
      <3>4. ASSUME NEW g \in Handlers, NEW d, NEW k, Finishes(g, d, k)' PROVE Finishes(g, d, k)
        BY <2>2, <2>3, <3>4 DEF Finishes
      <3> QED
        BY <1>0, <3>3, <3>4 DEF FinishOK
    <2>12. \A g \in Handlers :
            \/ pc'[g] = pc[g] /\ job'[g] = job[g]
            \/ pc[g] = "get" /\ pc'[g] \in {"listen", "read", "write"}
      BY <1>0, <2>2, <2>3
    <2> QED
      BY <1>0, <2>2, <2>7, <2>8, <2>9, <2>10, <2>11, <2>12, QueueStep
  <1> QED
    BY <1>5, <1>6

----------------------------------------
(* Steps of a handler about an entry *)

(* Handler h, with a result of c, goes to step p with m; the connection
   becomes r. *)
Entering(h) == pc[h] \in {"make", "refuse"} \/ (pc[h] = "listen" /\ job[h].st = "SUCCESS")
HandlerMoves(h, c, p, m, r) ==
    /\ pc' = [pc EXCEPT ![h] = p] /\ job' = [job EXCEPT ![h] = m]
    /\ conn' = [conn EXCEPT ![c] = r] /\ UNCHANGED <<msgqueue, wronged>>
    /\ spc' \in [Sessions -> Stages] /\ \A s \in Sessions : s[1] # c => spc'[s] = spc[s]
    /\ svc' \in Service /\ svc'.node = svc.node
    /\ job[h].conn = c /\ m.conn \in {c, None}
    /\ pc[h] \in {"read", "write", "relist", "finish", "unref"} \/ Entering(h)
    /\ p \in {"get", "relist", "finish", "unref"}
    /\ p \in {"relist", "finish"} => m.seq = job[h].seq

LEMMA HandlerFacts ==
  ASSUME IInv, NEW h \in Handlers, NEW c \in Conns, NEW p, NEW m \in Outcome, NEW r \in Entry,
         HandlerMoves(h, c, p, m, r)
  PROVE  /\ ShapeOK' /\ ~wronged' /\ JobsElse(h) /\ h \in Threads /\ h # Main
         /\ conn'[c] = r /\ \A d \in Conns : d # c => conn'[d] = conn[d]
         /\ pc'[h] = p /\ job'[h] = m /\ \A t \in Threads : t # h => pc'[t] = pc[t]
         /\ \A op \in {"read", "write"} :
               /\ Ending(c, op)' = Ending(c, op) - NodeTokens(conn[c], c, op) + NodeTokens(r, c, op)
                                   - B(EndIn(job[h], pc[h], c, op))
               /\ NodeTokens(conn[c], c, op) \in Nat /\ NodeTokens(r, c, op) \in Nat
         /\ Complete(c)' = Complete(c) - B(CompleteIn(job[h], pc[h], c))
         /\ Held(c)' = Held(c) - Repliers(c) + Repliers(c)'
                       - B(HeldIn(job[h], pc[h], c)) + B(HeldIn(m, p, c))
         /\ Arriving(c)' = Arriving(c) - B(ArrivalIn(job[h], pc[h], c))
         /\ Binding' = Binding
         /\ \A d \in Conns : d # c => SameAt(d)
         /\ \A k : k # job[h].seq => (NoFinisher(c, k)' <=> NoFinisher(c, k))
         /\ pc[h] \notin {"relist", "finish"} /\ p \notin {"relist", "finish"} =>
               \A k : NoFinisher(c, k)' <=> NoFinisher(c, k)
         /\ p \in {"relist", "finish"} /\ m.conn = c => ~NoFinisher(c, m.seq)'
  <1>0. ShapeOK /\ ResultsOK /\ h \in Threads /\ h # Main /\ \A d \in Conns : ConnOK(d)
    BY Names DEF IInv
  <1>1. /\ \/ pc[h] \in {"read", "write", "relist", "finish", "unref", "make", "refuse"}
           \/ pc[h] = "listen" /\ job[h].st = "SUCCESS"
        /\ p \in {"get", "relist", "finish", "unref"} /\ job[h].conn = c /\ m.conn \in {c, None}
        /\ p \in {"relist", "finish"} => m.seq = job[h].seq
        /\ msgqueue' = msgqueue /\ conn' = [conn EXCEPT ![c] = r] /\ svc'.node = svc.node
    BY DEF HandlerMoves, Entering
  <1>2. /\ pc'[h] = p /\ \A t \in Threads : t # h => pc'[t] = pc[t]
        /\ job'[h] = m /\ \A g \in Handlers : g # h => job'[g] = job[g]
    BY <1>0 DEF HandlerMoves, ShapeOK
  <1>3. JobsElse(h)
    BY <1>2, Names DEF JobsElse
  <1>4. conn'[c] = r /\ \A d \in Conns : d # c => conn'[d] = conn[d]
    BY <1>0, <1>1 DEF ShapeOK
  <1>5. ShapeOK'
    BY <1>0, <1>1, <1>2, Names DEF HandlerMoves, ShapeOK, HandlerSteps
  <1>6. /\ \A op : Ending(c, op)' = Ending(c, op)
                       - NodeTokens(conn[c], c, op) + NodeTokens(r, c, op)
                       - B(EndIn(job[h], pc[h], c, op)) + B(EndIn(job'[h], pc'[h], c, op))
        /\ Complete(c)' = Complete(c)
                       - B(CompleteIn(job[h], pc[h], c)) + B(CompleteIn(job'[h], pc'[h], c))
        /\ Held(c)' = Held(c) - Repliers(c) + Repliers(c)'
                       - B(HeldIn(job[h], pc[h], c)) + B(HeldIn(job'[h], pc'[h], c))
        /\ Arriving(c)' = Arriving(c)
                       - B(ArrivalIn(job[h], pc[h], c)) + B(ArrivalIn(job'[h], pc'[h], c))
        /\ \A op : NodeTokens(r, c, op) \in Nat
    BY <1>0, <1>1, <1>2, <1>3, MoveCounts
  <1>7. /\ \A op \in {"read", "write"} : B(EndIn(m, p, c, op)) = 0
        /\ B(CompleteIn(m, p, c)) = 0 /\ B(ArrivalIn(m, p, c)) = 0
    BY <1>1 DEF B, EndIn, CompleteIn, ArrivalIn, NewSteps
  <1>8. /\ \A op : Ending(c, op) \in Nat /\ NodeTokens(conn[c], c, op) \in Nat
        /\ Complete(c) \in Nat /\ Arriving(c) \in Nat /\ \A b : B(b) \in {0, 1}
    BY <1>0, CountTypes, BOK
  <1>9. \A op \in {"read", "write"} :
           /\ Ending(c, op)' = Ending(c, op) - NodeTokens(conn[c], c, op) + NodeTokens(r, c, op)
                                   - B(EndIn(job[h], pc[h], c, op))
           /\ NodeTokens(conn[c], c, op) \in Nat /\ NodeTokens(r, c, op) \in Nat
    BY <1>2, <1>6, <1>7, <1>8, BOK
  <1>10. /\ Complete(c)' = Complete(c) - B(CompleteIn(job[h], pc[h], c))
         /\ Arriving(c)' = Arriving(c) - B(ArrivalIn(job[h], pc[h], c))
    BY <1>2, <1>6, <1>7, <1>8, BOK
  <1>11. Binding' = Binding
    BY <1>0, <1>1, <1>2, <1>3, JobCounts, Names DEF UnbindIn, B, Closing, Binding, Num
  <1>12. \A d \in Conns : d # c => SameAt(d)
    BY <1>1, <1>2, <1>4, Names, SessionNames, QueueStays, Elsewhere DEF JobsSame, HandlerMoves,
       SessionsSame
  <1>13. /\ \A k : k # job[h].seq => (NoFinisher(c, k)' <=> NoFinisher(c, k))
         /\ pc[h] \notin {"relist", "finish"} /\ p \notin {"relist", "finish"} =>
               \A k : NoFinisher(c, k)' <=> NoFinisher(c, k)
         /\ p \in {"relist", "finish"} /\ m.conn = c => ~NoFinisher(c, m.seq)'
    BY <1>1, <1>2, Names DEF NoFinisher, Finishes
  <1>14. ~wronged'
    BY <1>0 DEF ConnOK, GotOK, HandlerMoves
  <1>15. Held(c)' = Held(c) - Repliers(c) + Repliers(c)'
                       - B(HeldIn(job[h], pc[h], c)) + B(HeldIn(m, p, c))
    BY <1>2, <1>6
  <1> QED
    BY <1>0, <1>2, <1>3, <1>4, <1>5, <1>9, <1>10, <1>11, <1>12, <1>13, <1>14, <1>15

(* What is left to show of such a step. *)
LEMMA HandlerStep ==
  ASSUME IInv, NEW h \in Handlers, NEW c \in Conns, NEW p, NEW m \in Outcome, NEW r \in Entry,
         HandlerMoves(h, c, p, m, r), r.seq = conn[c].seq,
         \A i \in 1 .. Len(r.pipe) : FromPipe(r.pipe[i], c),
         p \in {"relist", "finish", "unref"} => m.op = job[h].op /\ m.conn = c,
         p = "relist" => m.op = "write", p = "finish" => m.out # "none",
         pc[h] \in {"read", "write", "relist", "finish", "unref"} \/ p = "get",
         p \in {"relist", "finish"} =>
            /\ m.seq \in 1 .. r.seq
            /\ pc[h] = "relist" \/ NoFinisher(c, m.seq),
         \A s \in Sessions : spc'[s] = spc[s] \/ (pc[h] = "finish" /\ s = <<c, job[h].seq>>),
         Ending(c, "read")' = Ending(c, "read") \/ conn[c].mutex \in {None, h},
         FinishAt(h)', ConnOK(c)', LockOK', BindOK', CountOK', DrainOK', ListOK'
  PROVE  IInv'
  <1>0. ShapeOK /\ ResultsOK /\ LockOK /\ FinishOK /\ \A d \in Conns : ConnOK(d)
    BY DEF IInv
  <1>1. /\ ShapeOK' /\ ~wronged' /\ JobsElse(h) /\ conn'[c] = r /\ pc'[h] = p /\ job'[h] = m
        /\ \A d \in Conns : d # c => conn'[d] = conn[d] /\ SameAt(d)
        /\ p \in {"get", "relist", "finish", "unref"} /\ job[h].conn = c /\ msgqueue' = msgqueue
        /\ conn' = [conn EXCEPT ![c] = r] /\ m.conn \in {c, None}
        /\ p \in {"relist", "finish"} => m.seq = job[h].seq
    <2>1. conn'[c] = r /\ pc'[h] = p /\ job'[h] = m
      BY <1>0, Names DEF HandlerMoves, ShapeOK
    <2>6. ShapeOK'
      BY HandlerFacts
    <2>7. JobsElse(h)
      BY HandlerFacts
    <2>5. ~wronged'
      BY HandlerFacts
    <2>3. \A d \in Conns : d # c => conn'[d] = conn[d]
      BY <1>0 DEF HandlerMoves, ShapeOK
    <2>4. \A d \in Conns : d # c => SameAt(d)
      BY Zenon, HandlerFacts
    <2>2. /\ p \in {"get", "relist", "finish", "unref"} /\ job[h].conn = c /\ msgqueue' = msgqueue
          /\ conn' = [conn EXCEPT ![c] = r] /\ m.conn \in {c, None}
          /\ p \in {"relist", "finish"} => m.seq = job[h].seq
      BY DEF HandlerMoves
    <2> QED
      BY <2>1, <2>2, <2>3, <2>4, <2>5, <2>6, <2>7
  <1>2. \A d \in Conns : ConnOK(d)'
    BY <1>0, <1>1, Frame
  <1>3. ResultsOK'
    <2>1. GoodJob(h)
      BY <1>0 DEF ResultsOK
    <2>2. pc[h] \in {"read", "write", "relist", "finish", "unref"} => job[h].op \in {"read", "write"}
      BY <2>1 DEF GoodJob
    <2>3. GoodJob(h)'
      BY <1>1, <2>2 DEF GoodJob, NewSteps, Closing
    <2>4. r.seq >= conn[c].seq
      <3>1. conn[c].seq \in Nat
        BY Given
      <3> QED
        BY <3>1
    <2> QED
      BY <1>0, <1>1, <2>3, <2>4, ResultsKept
  <1>4. FinishOK'
    <2>1. ASSUME NEW g \in Handlers, g # h PROVE FinishAt(g)'
      <3>1. FinishAt(g) /\ pc'[g] = pc[g] /\ job'[g] = job[g]
        BY <1>0, <1>1, <2>1 DEF FinishOK, JobsElse
      <3>2. job[g].conn \in Conns /\ pc[g] \in {"relist", "finish"} =>
               job[g].seq \in 1 .. MaxSeq[job[g].conn]
        BY JobSeq
      <3>3. \A d \in Conns : pc[g] = "relist" /\ d = job[g].conn => Ending(d, "read")' > 0
        BY <1>0, <1>1, <2>1, <3>1, Names DEF FinishAt, LockOK, SameAt
      <3>4. \A d \in Conns : conn'[d].seq = conn[d].seq
        BY <1>1
      <3>5. \A d \in Conns : \A s \in Sessions :
              d = job[g].conn /\ s = <<job[g].conn, job[g].seq>> /\ pc[g] \in {"relist", "finish"} =>
                 spc'[s] = spc[s]
        BY <1>0, <1>1, <2>1, JobSeq DEF Finishes, FinishOK
      <3>6. \A d \in Conns : \A s \in Sessions :
            d = job[g].conn /\ s = <<job[g].conn, job[g].seq>> =>
               /\ pc[g] \in {"relist", "read", "write"} => conn'[d].seq = conn[d].seq
               /\ pc[g] = "relist" => Ending(d, "read")' > 0
               /\ pc[g] \in {"relist", "finish"} =>
                     \/ spc'[s] = spc[s] \/ spc[s] \notin {"reading", "given", "unlock"}
                     \/ spc[s] = "unlock" /\ spc'[s] = "given"
        BY <3>3, <3>4, <3>5
      <3>7. \A d \in Conns : d = job[g].conn /\ pc[g] \in {"read", "write"} => conn'[d].seq = conn[d].seq
        BY <3>4
      <3> QED
        BY <1>0, <3>1, <3>2, <3>6, <3>7, FinishKept
    <2>2. \A g \in Handlers : FinishAt(g)'
      BY <2>1
    <2>3. ASSUME NEW f \in Handlers, NEW g \in Handlers, NEW d \in Conns, NEW k \in 1 .. MaxSeq[d],
                 Finishes(f, d, k)', Finishes(g, d, k)', f # g
          PROVE  FALSE
      BY <1>0, <1>1, <2>3, Names DEF Finishes, JobsElse, FinishOK, NoFinisher
    <2> QED
      BY <2>2, <2>3 DEF FinishOK
  <1> QED
    BY <1>1, <1>2, <1>3, <1>4 DEF IInv

(* A handler with a result of an entry: what it counts for, and what that
   says of the entry. *)
EntrySteps == {"read", "write", "relist", "finish", "unref"}

LEMMA Handling ==
  ASSUME IInv, NEW h \in Handlers, pc[h] \in EntrySteps
  PROVE  /\ job[h].conn \in Conns /\ job[h].op \in {"read", "write"} /\ job[h] \in Outcome
         /\ GoodJob(h) /\ FinishAt(h)
  BY DEF IInv, ResultsOK, FinishOK, ShapeOK, GoodJob, EntrySteps

LEMMA HandlingEnd ==
  ASSUME IInv, NEW h \in Handlers, NEW c \in Conns, job[h].conn = c, pc[h] \in {"read", "write"},
         job[h].st # "SUCCESS"
  PROVE  /\ Ending(c, "read") = B(pc[h] = "read") /\ Ending(c, "write") = B(pc[h] = "write")
         /\ conn[c].node = "none" /\ conn[c].hand = "none" /\ conn[c].memory = "live"
         /\ pc[h] = "write" => conn[c].state = "idle" /\ ~conn[c].idle
         /\ NodeTokens(conn[c], c, "read") = 0 /\ NodeTokens(conn[c], c, "write") = 0
  <1>0. /\ job[h].op = pc[h] /\ job[h].st \notin {"SUCCESS", "MODIFIED"} /\ job[h] \in Outcome
        /\ ShapeOK /\ conn[c] \in Entry /\ ConnOK(c)
        /\ \A op : Ending(c, op) \in Nat /\ NodeTokens(conn[c], c, op) \in Nat
    BY Handling, Given, CountTypes DEF GoodJob, EntrySteps, IInv
  <1>1. PICK op \in {"read", "write"} : op = pc[h]
    OBVIOUS
  <1>2. job[h] \in Ends(c, op)
    BY <1>0, <1>1 DEF Ends
  <1>3. /\ Ending(c, op) > 0
        /\ Ending(c, op) = 1 => conn[c].node # op /\ Num(conn[c].pipe, Ends(c, op)) = 0
    BY <1>0, <1>1, <1>2, JobIsToken
  <1>4. Ending(c, "read") + Ending(c, "write") <= 1
    BY <1>0 DEF ConnOK, RefOK
  <1>5. /\ op = "read" => Ending(c, "read") = 1 /\ Ending(c, "write") = 0
        /\ op = "write" => Ending(c, "write") = 1 /\ Ending(c, "read") = 0
    BY <1>0, <1>3, <1>4
  <1>6. \A o \in {"read", "write"} : conn[c].node = o => Ending(c, o) > 0
    BY <1>0, NodeIsToken
  <1>7. conn[c].node = "none"
    BY <1>0, <1>1, <1>3, <1>5, <1>6 DEF Entry
  <1>8. \A o \in {"read", "write"} : Num(conn[c].pipe, Ends(c, o)) = 0
    <2>1. \A o \in {"read", "write"} :
             /\ B(conn[c].node = o) \in Nat /\ Num(conn[c].pipe, Ends(c, o)) \in Nat
             /\ Num(msgqueue, Ends(c, o)) \in Nat /\ JNum(Ends(c, o), {o}) \in Nat
             /\ Ending(c, o) = B(conn[c].node = o) + Num(conn[c].pipe, Ends(c, o))
                               + Num(msgqueue, Ends(c, o)) + JNum(Ends(c, o), {o})
      BY <1>0, EndingParts
    <2>2. \A o \in {"read", "write"} : o # op => Num(conn[c].pipe, Ends(c, o)) = 0
      <3>1. CASE op = "read"
        BY <1>5, <2>1, <3>1
      <3>2. CASE op = "write"
        <4>1. Num(conn[c].pipe, Ends(c, "read")) = 0
          <5>1. Ending(c, "read") = 0
            BY <1>5, <3>2
          <5> QED
            BY <2>1, <5>1
        <4> QED
          BY <3>2, <4>1
      <3> QED
        BY <3>1, <3>2
    <2> QED
      BY <1>1, <1>3, <1>5, <2>2
  <1>9. conn[c].hand = "none"
    BY <1>0, <1>7, <1>8, PipeNum DEF ConnOK, HandOK, InHand
  <1>10. conn[c].memory = "live"
    <2>1. Complete(c) \in Nat /\ Held(c) \in Nat
      BY Given
    <2> QED
      BY <1>0, <1>1, <1>5, <2>1 DEF ConnOK, RefOK
  <1>11. pc[h] = "write" => conn[c].state = "idle" /\ ~conn[c].idle
    BY <1>0, <1>1, <1>5 DEF ConnOK, StateOK
  <1>12. NodeTokens(conn[c], c, "read") = 0 /\ NodeTokens(conn[c], c, "write") = 0
    BY <1>7, <1>8 DEF NodeTokens, B
  <1> QED
    BY <1>1, <1>5, <1>7, <1>9, <1>10, <1>11, <1>12 DEF B

(* What such a step leaves to show of the mutexes, the counts and the lists.*)
LEMMA HandlerRest ==
  ASSUME IInv, NEW h \in Handlers, NEW c \in Conns, NEW p, NEW m \in Outcome, NEW r \in Entry,
         HandlerMoves(h, c, p, m, r), pc[h] \in EntrySteps
  PROVE  /\ /\ svc'.mutex = svc.mutex /\ svc'.marking = svc.marking
            /\ svc'.alive_list = svc.alive_list /\ svc'.listening = svc.listening
            /\ Waits(c)' <=> Waits(c)
            => DrainOK' /\ ListOK'
         /\ /\ svc'.ref = svc.ref /\ svc'.conn_count = svc.conn_count
            /\ svc'.unbound = svc.unbound
            /\ r.tref = conn[c].tref /\ r.memory = conn[c].memory
            /\ r.memory = "live" /\ r.state # "closing" => conn[c].state # "closing"
            => BindOK' /\ CountOK'
         /\ /\ svc' = Released(svc, conn[c], r) /\ conn[c].tref > 0 /\ r.tref >= 0
            /\ r.memory = conn[c].memory \/ (conn[c].memory = "live" /\ r.memory = "freed")
            /\ r.memory = "live" /\ r.state # "closing" => conn[c].state # "closing"
            => BindOK' /\ CountOK'
         /\ /\ r.mutex = conn[c].mutex /\ r.seq = conn[c].seq
            /\ conn[c].mutex # None => r.state = "idle" /\ ~r.idle
            /\ pc[h] # "relist" /\ p # "relist"
            /\ \A s \in Sessions : \/ spc'[s] = spc[s]
                                   \/ spc[s] \notin Lockers /\ spc'[s] \notin Lockers
                                   \/ spc[s] \in Lockers /\ spc'[s] \in Lockers
            => LockOK'
  <1>1. /\ JobsElse(h) /\ h \in Threads /\ h # Main
    BY HandlerFacts
  <1>2. /\ conn'[c] = r /\ \A d \in Conns : d # c => conn'[d] = conn[d]
        /\ pc'[h] = p /\ \A t \in Threads : t # h => pc'[t] = pc[t]
    BY <1>1 DEF HandlerMoves, IInv, ShapeOK
  <1>4. Binding' = Binding
    BY HandlerFacts
  <1>5. \A d \in Conns : d # c => SameAt(d)
    BY HandlerFacts
  <1>6. /\ conn' = [conn EXCEPT ![c] = r] /\ svc'.node = svc.node
        /\ p \in {"get", "relist", "finish", "unref"}
    BY DEF HandlerMoves
  <1>7. pc[h] \notin NewSteps \cup Closing \cup Marking /\ p \notin NewSteps \cup Closing \cup Marking
    BY <1>6 DEF NewSteps, Closing, Marking, EntrySteps
  <1>8. /\ \A t \in Threads : \/ pc'[t] = pc[t]
                              \/ pc'[t] \notin Closing \cup Marking /\ pc[t] \notin Closing \cup Marking
        /\ pc'[Main] = pc[Main]
    BY <1>1, <1>2, <1>7, Names
  <1>9. /\ {g \in Handlers : pc'[g] \in NewSteps} = {g \in Handlers : pc[g] \in NewSteps}
        /\ {g \in Handlers : pc'[g] = "make"} = {g \in Handlers : pc[g] = "make"}
    BY <1>2, <1>7, Names DEF NewSteps
  <1>10. (Waits(c)' <=> Waits(c)) => \A d \in Conns : Waits(d)' <=> Waits(d)
    BY <1>5 DEF SameAt, Waits
  <1>11. /\ svc'.mutex = svc.mutex /\ svc'.marking = svc.marking
         /\ svc'.alive_list = svc.alive_list /\ svc'.listening = svc.listening
         /\ Waits(c)' <=> Waits(c)
         => DrainOK' /\ ListOK'
    BY <1>4, <1>8, <1>10, ServiceSame
  <1>12. /\ svc'.ref = svc.ref /\ svc'.conn_count = svc.conn_count
         /\ svc'.unbound = svc.unbound
         /\ r.tref = conn[c].tref /\ r.memory = conn[c].memory
         /\ r.memory = "live" /\ r.state # "closing" => conn[c].state # "closing"
         => BindOK' /\ CountOK'
    BY <1>4, <1>6, <1>8, <1>9, CountsSame
  <1>13. /\ svc' = Released(svc, conn[c], r) /\ conn[c].tref > 0 /\ r.tref >= 0
         /\ r.memory = conn[c].memory \/ (conn[c].memory = "live" /\ r.memory = "freed")
         /\ r.memory = "live" /\ r.state # "closing" => conn[c].state # "closing"
         => BindOK' /\ CountOK'
    BY <1>4, <1>6, <1>8, <1>9, ReleasedStep
  <1>14. ASSUME r.mutex = conn[c].mutex, r.seq = conn[c].seq,
                conn[c].mutex # None => r.state = "idle" /\ ~r.idle,
                pc[h] # "relist", p # "relist",
                \A s \in Sessions : \/ spc'[s] = spc[s]
                                    \/ spc[s] \notin Lockers /\ spc'[s] \notin Lockers
                                    \/ spc[s] \in Lockers /\ spc'[s] \in Lockers
         PROVE  LockOK'
    BY <1>1, <1>2, <1>14, LockSame DEF IInv, LockOK, JobsElse
  <1> QED
    BY <1>11, <1>12, <1>13, <1>14

LEMMA PastHandled ==
  ASSUME IInv, NEW c \in Conns, conn'[c].seq = conn[c].seq,
         \A j \in 1 .. MaxSeq[c] : spc'[<<c, j>>] = spc[<<c, j>>],
         \A k : k # conn[c].seq => (NoFinisher(c, k)' <=> NoFinisher(c, k))
  PROVE  PastOK(c)'
  BY Zenon, Given DEF ConnOK, SessionOK, PastOK, Settled

(* What the session is told goes with the result. *)
LEMMA Decided ==
  ASSUME IInv, NEW h \in Handlers, NEW out \in {"none", "toreply", "failed", "success"},
         Decide(h, out)
  PROVE  \E m \in Outcome :
            /\ job' = [job EXCEPT ![h] = m]
            /\ m.op = job[h].op /\ m.st = job[h].st /\ m.conn = job[h].conn
            /\ m.seq = job[h].seq /\ m.out = out
            /\ pc' = [pc EXCEPT ![h] = IF out = "none" THEN "unref" ELSE "finish"]
  <1>1. job \in [Handlers -> Outcome]
    BY DEF IInv, ShapeOK
  <1>2. PICK m \in Outcome : m = [job[h] EXCEPT !.out = out]
    BY <1>1 DEF Outcome
  <1>3. job' = [job EXCEPT ![h] = m]
    BY <1>1, <1>2 DEF Decide
  <1>4. job[h] \in Outcome
    BY <1>1
  <1>5. /\ m.op = job[h].op /\ m.st = job[h].st /\ m.conn = job[h].conn
        /\ m.seq = job[h].seq /\ m.out = out
    BY <1>2, <1>4 DEF Outcome
  <1> QED
    BY <1>3, <1>5 DEF Decide, Goto

(* The tokens that such a step moves. *)
LEMMA HandlerTokens ==
  ASSUME IInv, NEW h \in Handlers, NEW c \in Conns, NEW p, NEW m \in Outcome, NEW r \in Entry,
         HandlerMoves(h, c, p, m, r), pc[h] \in EntrySteps,
         Repliers(c)' = Repliers(c), p # "get" => m.op = job[h].op /\ m.conn = c
  PROVE  /\ \A op \in {"read", "write"} : Ending(c, op)' = Ending(c, op)
               - NodeTokens(conn[c], c, op) + NodeTokens(r, c, op)
               - B(pc[h] = op /\ job[h].st # "SUCCESS")
         /\ \A op \in {"read", "write"} : NodeTokens(conn[c], c, op) \in Nat /\ NodeTokens(r, c, op) \in Nat
         /\ Complete(c)' = Complete(c) - B(pc[h] = "read" /\ job[h].st = "SUCCESS")
         /\ Held(c)' = Held(c) - B(pc[h] \in {"relist", "finish", "unref"}) + B(p # "get")
         /\ Arriving(c)' = Arriving(c)
  <1>1. \A op \in {"read", "write"} :
               /\ Ending(c, op)' = Ending(c, op) - NodeTokens(conn[c], c, op) + NodeTokens(r, c, op)
                                 - B(EndIn(job[h], pc[h], c, op))
               /\ NodeTokens(conn[c], c, op) \in Nat /\ NodeTokens(r, c, op) \in Nat
    BY HandlerFacts
  <1>8. Complete(c)' = Complete(c) - B(CompleteIn(job[h], pc[h], c))
    BY HandlerFacts
  <1>9. Held(c)' = Held(c) - Repliers(c) + Repliers(c)'
                       - B(HeldIn(job[h], pc[h], c)) + B(HeldIn(m, p, c))
    BY HandlerFacts
  <1>10. Arriving(c)' = Arriving(c) - B(ArrivalIn(job[h], pc[h], c))
    BY HandlerFacts
  <1>2. /\ job[h].conn = c /\ job[h].op \in {"read", "write"} /\ GoodJob(h)
        /\ p \in {"get", "relist", "finish", "unref"}
    BY Handling DEF HandlerMoves
  <1>3. \A op \in {"read", "write"} :
            B(EndIn(job[h], pc[h], c, op)) = B(pc[h] = op /\ job[h].st # "SUCCESS")
    BY <1>2 DEF EndIn, B, GoodJob
  <1>4. /\ B(CompleteIn(job[h], pc[h], c)) = B(pc[h] = "read" /\ job[h].st = "SUCCESS")
        /\ B(HeldIn(job[h], pc[h], c)) = B(pc[h] \in {"relist", "finish", "unref"})
        /\ B(HeldIn(m, p, c)) = B(p # "get") /\ B(ArrivalIn(job[h], pc[h], c)) = 0
    BY <1>2 DEF CompleteIn, HeldIn, ArrivalIn, B, GoodJob, EntrySteps, NewSteps
  <1>5. Repliers(c) \in Nat /\ Arriving(c) \in Nat /\ Held(c) \in Nat
    BY Given
  <1>6. Arriving(c)' = Arriving(c)
    BY <1>4, <1>5, <1>10
  <1>7. Held(c)' = Held(c) - B(pc[h] \in {"relist", "finish", "unref"}) + B(p # "get")
    BY <1>4, <1>5, <1>9, BOK
  <1> QED
    BY <1>1, <1>3, <1>4, <1>6, <1>7, <1>8

(* A reply that is told of without being kept alive. *)
LEMMA ReplyEndStep ==
  ASSUME IInv, NEW h \in Handlers, ReplyEnd(h)
  PROVE  IInv'
  <1>1. PICK c \in Conns : c = job[h].conn /\ pc[h] = "write" /\ pc[h] \in EntrySteps
    BY Handling DEF ReplyEnd, EntrySteps
  <1>2. PICK out \in {"failed", "success"} : Decide(h, out)
    BY DEF ReplyEnd
  <1>3. PICK m \in Outcome :
           /\ job' = [job EXCEPT ![h] = m]
           /\ m.op = job[h].op /\ m.st = job[h].st /\ m.conn = job[h].conn
           /\ m.seq = job[h].seq /\ m.out = out
           /\ pc' = [pc EXCEPT ![h] = "finish"]
    BY <1>2, Decided
  <1>4. PICK q \in Entry : q = conn[c]
    BY Given
  <1>5. /\ GoodJob(h) /\ FinishAt(h) /\ job[h].op = "write" /\ job[h].st # "SUCCESS"
        /\ job[h].seq = q.seq
    BY <1>1, <1>4, Handling DEF GoodJob, FinishAt
  <1>6. /\ Ending(c, "read") = 0 /\ Ending(c, "write") = 1 /\ q.memory = "live"
        /\ q.state = "idle" /\ ~q.idle /\ q.node = "none" /\ q.hand = "none"
    BY <1>1, <1>4, <1>5, HandlingEnd DEF B
  <1>7. /\ ConnOK(c) /\ q.seq \in Nat /\ q.seq > 0 /\ q.seq \in 1 .. MaxSeq[c]
        /\ <<c, q.seq>> \in Sessions /\ \A i \in 1 .. Len(q.pipe) : FromPipe(q.pipe[i], c)
        /\ q.ref \in Int /\ Complete(c) \in Nat /\ Held(c) \in Nat /\ Complete(c) = 0
    <2>1. ConnOK(c)
      BY Given
    <2>2. SessionOK(c) /\ StateOK(c)
      BY <2>1 DEF ConnOK
    <2> QED
      BY <1>4, <1>6, Given, <2>1, <2>2 DEF SessionOK, LastOK, StateOK
  <1>8. spc[<<c, q.seq>>] \in {"given", "unlock"} /\ NoFinisher(c, q.seq)
    BY <1>4, <1>6, <1>7 DEF ConnOK, SessionOK, LastOK
  <1>9. conn' = [conn EXCEPT ![c] = q] /\ svc' = svc /\ spc' = spc
    BY <1>4 DEF ReplyEnd, IInv, ShapeOK
  <1>10. HandlerMoves(h, c, "finish", m, q)
    BY <1>1, <1>3, <1>9 DEF IInv, ShapeOK, HandlerMoves, ReplyEnd
  <1>11. Repliers(c)' = Repliers(c) /\ Undeleted(c)' = Undeleted(c)
    BY <1>9 DEF Repliers, Undeleted, OfConn
  <1>12. /\ Ending(c, "read")' = 0 /\ Ending(c, "write")' = 0
         /\ Complete(c)' = 0 /\ Held(c)' = Held(c) + 1 /\ Arriving(c)' = Arriving(c)
    <2>1. /\ \A op \in {"read", "write"} : Ending(c, op)' = Ending(c, op)
                - NodeTokens(conn[c], c, op) + NodeTokens(q, c, op)
                - B(pc[h] = op /\ job[h].st # "SUCCESS")
          /\ \A op \in {"read", "write"} : NodeTokens(conn[c], c, op) \in Nat /\ NodeTokens(q, c, op) \in Nat
          /\ Complete(c)' = Complete(c) - B(pc[h] = "read" /\ job[h].st = "SUCCESS")
          /\ Held(c)' = Held(c) - B(pc[h] \in {"relist", "finish", "unref"}) + B("finish" # "get")
          /\ Arriving(c)' = Arriving(c)
      BY <1>1, <1>3, <1>10, <1>11, HandlerTokens
    <2> QED
      BY <1>1, <1>4, <1>5, <1>6, <1>7, <2>1 DEF B
  <1>13. conn'[c] = q /\ pc'[h] = "finish" /\ job'[h] = m
    BY <1>3, <1>9, Names DEF IInv, ShapeOK
  <1>14. ~wronged' /\ \A k : k # q.seq => (NoFinisher(c, k)' <=> NoFinisher(c, k))
    BY <1>5, <1>10, HandlerFacts
  <1>15. ConnOK(c)'
    BY <1>4, <1>6, <1>7, <1>8, <1>9, <1>11, <1>12, <1>13, <1>14, PastHandled DEF ConnOK, RefOK, B,
       TrefOK, HandOK, StateOK, LastOK, SessionOK, GotOK
  <1>16. DrainOK' /\ ListOK' /\ BindOK' /\ CountOK' /\ LockOK'
    BY <1>1, <1>4, <1>6, <1>9, <1>10, <1>13, HandlerRest DEF Waits
  <1>17. FinishAt(h)'
    BY <1>1, <1>3, <1>5, <1>8, <1>9, <1>13 DEF FinishAt
  <1> QED
    BY <1>1, <1>3, <1>4, <1>5, <1>6, <1>7, <1>8, <1>9, <1>10, <1>12, <1>15, <1>16, <1>17, HandlerStep

(* What letting go of a reference leaves of an entry. *)
LEMMA NewDecref ==
  ASSUME NEW q \in Entry
  PROVE  /\ EntryDecref(q) \in Entry
         /\ \E ref, tref \in Int : \E memory \in {q.memory, "freed"} :
               /\ Fields(EntryDecref(q), q.state, ref, memory, q.seq, tref, q.mutex, q.idle,
                         q.node, q.hand, q.removed, q.partial, q.pipe, q.got)
               /\ q.ref > 1 => ref = q.ref - 1 /\ memory = q.memory /\ tref = q.tref
               /\ ~(q.ref > 1) => ref = 0 /\ memory = "freed" /\ tref = q.tref - 1
  BY NewLess, NewFreed DEF Entry

(* A handler gives its reference to the entry back. *)
LEMMA UnrefStep ==
  ASSUME IInv, NEW h \in Handlers, Unref(h)
  PROVE  IInv'
  <1>1. PICK c \in Conns : c = job[h].conn /\ pc[h] = "unref" /\ pc[h] \in EntrySteps
    BY Handling DEF Unref, EntrySteps
  <1>2. PICK q \in Entry : q = conn[c]
    BY Given
  <1>3. PICK r \in Entry :
           /\ r = EntryDecref(q)
           /\ r.state = q.state /\ r.seq = q.seq /\ r.mutex = q.mutex /\ r.node = q.node
           /\ r.hand = q.hand /\ r.pipe = q.pipe /\ r.got = q.got
           /\ r.idle = q.idle /\ r.removed = q.removed /\ r.partial = q.partial
           /\ q.ref > 1 => r.ref = q.ref - 1 /\ r.memory = q.memory /\ r.tref = q.tref
           /\ ~(q.ref > 1) => r.ref = 0 /\ r.memory = "freed" /\ r.tref = q.tref - 1
    BY NewDecref DEF Fields
  <1>4. /\ conn' = [conn EXCEPT ![c] = r] /\ svc' = Released(svc, conn[c], r) /\ spc' = spc
        /\ pc' = [pc EXCEPT ![h] = "get"] /\ job' = [job EXCEPT ![h] = NoResult]
        /\ UNCHANGED <<msgqueue, wronged>>
    BY <1>1, <1>2, <1>3 DEF Unref, Becomes, Set, Done, Goto
  <1>5. PICK m \in Outcome : m = NoResult /\ m.conn = None
    BY ResultOK DEF NoResult
  <1>6. /\ svc' \in Service /\ svc'.node = svc.node /\ svc'.mutex = svc.mutex
        /\ svc'.marking = svc.marking /\ svc'.alive_list = svc.alive_list
        /\ svc'.listening = svc.listening
    BY <1>4, ReleasedOK DEF IInv, ShapeOK
  <1>7. HandlerMoves(h, c, "get", m, r)
    BY <1>1, <1>4, <1>5, <1>6 DEF IInv, ShapeOK, HandlerMoves
  <1>8. Repliers(c)' = Repliers(c) /\ Undeleted(c)' = Undeleted(c)
    BY <1>4 DEF Repliers, Undeleted, OfConn
  <1>9. /\ ConnOK(c) /\ q.ref \in Int /\ Held(c) \in Nat /\ Undeleted(c) \in Nat
        /\ Ending(c, "read") \in Nat /\ Ending(c, "write") \in Nat /\ Complete(c) \in Nat
        /\ \A i \in 1 .. Len(q.pipe) : FromPipe(q.pipe[i], c)
    BY <1>2, Given
  <1>10. Held(c) > 0
    <2>1. ShapeOK /\ job[h] \in OfEntry(c) /\ pc[h] \in {"relist", "finish", "unref"}
      BY <1>1, Handling DEF OfEntry, IInv
    <2>2. /\ JNum(OfEntry(c), {"relist", "finish", "unref"}) > 0
          /\ JNum(OfEntry(c), {"relist", "finish", "unref"}) \in Nat
      BY <2>1, JNumPositive
    <2>3. Repliers(c) \in Nat
      BY Given
    <2> QED
      BY <2>2, <2>3 DEF Held
  <1>11. /\ Ending(c, "read")' = Ending(c, "read") /\ Ending(c, "write")' = Ending(c, "write")
         /\ Complete(c)' = Complete(c) /\ Held(c)' = Held(c) - 1 /\ Arriving(c)' = Arriving(c)
    <2>1. /\ \A op \in {"read", "write"} : Ending(c, op)' = Ending(c, op)
                - NodeTokens(conn[c], c, op) + NodeTokens(r, c, op)
                - B(pc[h] = op /\ job[h].st # "SUCCESS")
          /\ \A op \in {"read", "write"} : NodeTokens(conn[c], c, op) \in Nat /\ NodeTokens(r, c, op) \in Nat
          /\ Complete(c)' = Complete(c) - B(pc[h] = "read" /\ job[h].st = "SUCCESS")
          /\ Held(c)' = Held(c) - B(pc[h] \in {"relist", "finish", "unref"}) + B("get" # "get")
          /\ Arriving(c)' = Arriving(c)
      BY <1>1, <1>7, <1>8, HandlerTokens
    <2>2. \A op \in {"read", "write"} : NodeTokens(r, c, op) = NodeTokens(conn[c], c, op)
      BY <1>2, <1>3 DEF NodeTokens
    <2> QED
      BY <1>1, <1>9, <2>1, <2>2 DEF B
  <1>12. conn'[c] = r /\ pc'[h] = "get"
    BY <1>4, Names DEF IInv, ShapeOK
  <1>13. ~wronged' /\ \A k : NoFinisher(c, k)' <=> NoFinisher(c, k)
    <2>1. ~wronged'
      BY <1>7, HandlerFacts
    <2>2. pc[h] \notin {"relist", "finish"} /\ "get" \notin {"relist", "finish"} =>
             \A k : NoFinisher(c, k)' <=> NoFinisher(c, k)
      BY <1>7, HandlerFacts
    <2> QED
      BY <1>1, <2>1, <2>2
  <1>14. /\ q.memory = "live" /\ q.ref >= 1
         /\ q.ref + B(q.state = "success")
               = Ending(c, "read") + Ending(c, "write") + Complete(c) + Held(c)
         /\ q.tref = 1 + Undeleted(c) /\ Arriving(c) = 0
         /\ ~(q.ref > 1) => /\ Ending(c, "read") = 0 /\ Ending(c, "write") = 0
                            /\ Complete(c) = 0 /\ Held(c) = 1 /\ q.state # "success"
    BY <1>2, <1>10, LastReference
  <1>15. /\ q.tref > 0 /\ r.tref >= 0
         /\ r.tref = B(r.memory = "live") + Undeleted(c)
    <2>1. CASE q.ref > 1
      BY <1>3, <1>9, <1>14, <2>1 DEF B
    <2>2. CASE ~(q.ref > 1)
      <3>1. q.tref = 1 + Undeleted(c) /\ r.tref = q.tref - 1 /\ B(r.memory = "live") = 0
        BY <1>3, <1>14, <2>2 DEF B
      <3> QED
        BY <1>9, <3>1
    <2> QED
      BY <2>1, <2>2
  <1>16. ConnOK(c)'
    <2>1. RefOK(c)'
      <3>1. CASE q.ref > 1
        <4>1. r.memory = "live" /\ r.ref = q.ref - 1 /\ r.state = q.state
          BY <1>3, <1>14, <3>1
        <4>2. Ending(c, "read") + Ending(c, "write") <= 1 /\ Complete(c) <= 1
          BY <1>9 DEF ConnOK, RefOK
        <4>3. r.ref + B(r.state = "success")
                 = Ending(c, "read") + Ending(c, "write") + Complete(c) + (Held(c) - 1)
          BY <1>9, <1>14, <3>1, <4>1 DEF B
        <4> QED
          BY <1>9, <1>11, <1>12, <3>1, <4>1, <4>2, <4>3 DEF RefOK
      <3>2. CASE ~(q.ref > 1)
        BY <1>3, <1>11, <1>12, <1>14, <3>2 DEF RefOK
      <3> QED
        BY <3>1, <3>2
    <2>2. TrefOK(c)'
      <3>1. r.memory # "unborn" /\ r.state \notin {"none", "accepted"}
        BY <1>2, <1>3, <1>9, <1>14 DEF ConnOK, TrefOK
      <3>2. Arriving(c)' = 0 /\ Undeleted(c)' = Undeleted(c)
        BY <1>8, <1>11, <1>14
      <3>3. B(r.memory = "live") \in {0, 1}
        BY BOK
      <3>4. r.tref = 0 + B(r.memory = "live") + Undeleted(c)
        BY <1>9, <1>15, <3>3
      <3> QED
        BY <1>12, <3>1, <3>2, <3>4 DEF TrefOK
    <2>3. HandOK(c)' /\ StateOK(c)'
      BY <1>2, <1>3, <1>4, <1>9, <1>11, <1>12 DEF ConnOK, HandOK, InHand, StateOK
    <2>4. SessionOK(c)'
      BY <1>2, <1>3, <1>4, <1>9, <1>11, <1>12, <1>13, PastHandled DEF ConnOK, SessionOK, LastOK,
         Settled
    <2>5. GotOK(c)'
      BY <1>2, <1>3, <1>4, <1>9, <1>12, <1>13 DEF ConnOK, GotOK
    <2> QED
      BY <2>1, <2>2, <2>3, <2>4, <2>5 DEF ConnOK
  <1>17. DrainOK' /\ ListOK' /\ BindOK' /\ CountOK' /\ LockOK'
    <2>1. Waits(c)' <=> Waits(c)
      BY <1>2, <1>3, <1>11, <1>12 DEF Waits
    <2>2. conn[c].mutex # None => r.state = "idle" /\ ~r.idle
      BY <1>2, <1>3 DEF IInv, LockOK
    <2>3. r.memory = conn[c].memory \/ (conn[c].memory = "live" /\ r.memory = "freed")
      BY <1>2, <1>3, <1>14
    <2>4. DrainOK' /\ ListOK'
      BY <1>1, <1>6, <1>7, <2>1, HandlerRest
    <2>5. BindOK' /\ CountOK'
      <3>1. /\ conn[c].tref > 0 /\ r.tref >= 0
            /\ r.memory = "live" /\ r.state # "closing" => conn[c].state # "closing"
        BY <1>2, <1>3, <1>15
      <3> QED
        BY <1>1, <1>4, <1>7, <2>3, <3>1, HandlerRest
    <2>6. LockOK'
      <3>1. /\ r.mutex = conn[c].mutex /\ r.seq = conn[c].seq
            /\ conn[c].mutex # None => r.state = "idle" /\ ~r.idle
            /\ pc[h] # "relist" /\ "get" # "relist"
        BY <1>1, <1>2, <1>3, <2>2
      <3>2. \A s \in Sessions : \/ spc'[s] = spc[s]
                                \/ spc[s] \notin Lockers /\ spc'[s] \notin Lockers
                                \/ spc[s] \in Lockers /\ spc'[s] \in Lockers
        BY <1>4
      <3> QED
        BY <1>1, <1>7, <3>1, <3>2, HandlerRest
    <2> QED
      BY <2>4, <2>5, <2>6
  <1>18. FinishAt(h)'
    BY <1>12 DEF FinishAt
  <1> QED
    BY <1>1, <1>2, <1>3, <1>4, <1>7, <1>9, <1>11, <1>16, <1>17, <1>18, HandlerStep

(* A complete request: the entry is idle, and the session is told. *)
LEMMA RequestCompleteStep ==
  ASSUME IInv, NEW h \in Handlers, RequestComplete(h)
  PROVE  IInv'
  <1>1. PICK c \in Conns : c = job[h].conn /\ pc[h] = "read" /\ pc[h] \in EntrySteps
    BY Handling DEF RequestComplete, EntrySteps
  <1>2. PICK q \in Entry : q = conn[c]
    BY Given
  <1>3. PICK m \in Outcome :
           /\ job' = [job EXCEPT ![h] = m]
           /\ m.op = job[h].op /\ m.st = job[h].st /\ m.conn = job[h].conn
           /\ m.seq = job[h].seq /\ m.out = "toreply"
           /\ pc' = [pc EXCEPT ![h] = "finish"]
    BY Decided DEF RequestComplete
  <1>4. /\ GoodJob(h) /\ FinishAt(h) /\ job[h].op = "read" /\ job[h].st = "SUCCESS"
        /\ job[h].seq = q.seq /\ job[h] \in Outcome
    BY <1>1, <1>2, Handling DEF GoodJob, FinishAt, RequestComplete
  <1>5. /\ ConnOK(c) /\ q.seq \in Nat /\ q.got \in Nat /\ MaxSeq[c] \in Nat
        /\ \A i \in 1 .. Len(q.pipe) : FromPipe(q.pipe[i], c)
        /\ q.ref \in Int /\ Complete(c) \in Nat /\ Held(c) \in Nat
        /\ Ending(c, "read") \in Nat /\ Ending(c, "write") \in Nat
    BY <1>2, Given
  <1>6. Complete(c) > 0
    BY <1>1, <1>4, JNumPositive, QueueNum DEF Completes, IInv, Complete
  <1>7. /\ q.state \in {"success", "closing"} /\ q.memory = "live" /\ Complete(c) = 1
        /\ Ending(c, "read") + Ending(c, "write") <= 1 /\ Ending(c, "write") = 0
        /\ q.state = "success" => Ending(c, "read") > 0
        /\ q.ref >= 1 /\ q.mutex = None /\ ~q.idle
        /\ q.seq > 0 /\ spc[<<c, q.seq>>] = "reading" /\ NoFinisher(c, q.seq)
    <2>1. /\ q.state \in {"success", "closing"} /\ ~(Ending(c, "write") > 0)
          /\ q.state = "success" => Ending(c, "read") > 0
      BY <1>2, <1>5, <1>6 DEF ConnOK, StateOK
    <2>2. ~q.idle
      BY <1>2, <1>5, <2>1 DEF ConnOK, StateOK
    <2>3. q.seq > 0 /\ spc[<<c, q.seq>>] = "reading" /\ NoFinisher(c, q.seq)
      BY <1>2, <1>5, <1>6 DEF ConnOK, SessionOK, LastOK
    <2>4. q.memory = "live"
      BY <1>2, <1>5, <1>6 DEF ConnOK, RefOK
    <2> QED
      BY <1>1, <1>2, <1>5, <1>6, <2>1, <2>2, <2>3, <2>4 DEF ConnOK, RefOK, RequestComplete
  <1>8. PICK r \in Entry :
           /\ conn' = [conn EXCEPT ![c] = r]
           /\ r.memory = q.memory /\ r.seq = q.seq /\ r.tref = q.tref /\ r.mutex = q.mutex
           /\ r.node = q.node /\ r.hand = q.hand /\ r.removed = q.removed
           /\ r.partial = q.partial /\ r.pipe = q.pipe /\ r.got = q.got
           /\ r.state \in {"idle", "closing"} /\ (r.state = "closing" <=> q.state = "closing")
           /\ r.ref = q.ref + B(q.state = "success") /\ (r.idle <=> r.state = "idle")
           /\ r.state = "idle" => Ending(c, "read") > 0
    <2>1. CASE q.state = "success"
      BY Zenon, <1>1, <1>2, <1>7, <2>1, NewIdle DEF RequestComplete, Set, Fields, B
    <2>2. CASE q.state # "success"
      <3>1. conn' = [conn EXCEPT ![c] = q]
        BY <1>1, <1>2, <2>2 DEF RequestComplete, Set
      <3> QED
        <4>1. B(q.state = "success") = 0 /\ q.state = "closing"
          BY <1>7, <2>2 DEF B
        <4>2. q.ref = q.ref + B(q.state = "success")
          BY <1>5, <4>1
        <4> QED
          BY <1>7, <3>1, <4>1, <4>2
    <2> QED
      BY <2>1, <2>2
  <1>9. svc' = svc /\ spc' = spc /\ UNCHANGED <<msgqueue, wronged>>
    BY DEF RequestComplete
  <1>10. HandlerMoves(h, c, "finish", m, r)
    BY <1>1, <1>3, <1>8, <1>9 DEF IInv, ShapeOK, HandlerMoves
  <1>11. Repliers(c)' = Repliers(c) /\ Undeleted(c)' = Undeleted(c)
    BY <1>9 DEF Repliers, Undeleted, OfConn
  <1>12. /\ Ending(c, "read")' = Ending(c, "read") /\ Ending(c, "write")' = 0
         /\ Complete(c)' = 0 /\ Held(c)' = Held(c) + 1 /\ Arriving(c)' = Arriving(c)
    <2>1. /\ \A op \in {"read", "write"} : Ending(c, op)' = Ending(c, op)
                - NodeTokens(conn[c], c, op) + NodeTokens(r, c, op)
                - B(pc[h] = op /\ job[h].st # "SUCCESS")
          /\ \A op \in {"read", "write"} : NodeTokens(conn[c], c, op) \in Nat /\ NodeTokens(r, c, op) \in Nat
          /\ Complete(c)' = Complete(c) - B(pc[h] = "read" /\ job[h].st = "SUCCESS")
          /\ Held(c)' = Held(c) - B(pc[h] \in {"relist", "finish", "unref"}) + B("finish" # "get")
          /\ Arriving(c)' = Arriving(c)
      BY <1>1, <1>3, <1>10, <1>11, HandlerTokens
    <2>2. \A op \in {"read", "write"} : NodeTokens(r, c, op) = NodeTokens(conn[c], c, op)
      BY <1>2, <1>8 DEF NodeTokens
    <2> QED
      BY <1>1, <1>4, <1>5, <1>7, <2>1, <2>2 DEF B
  <1>13. conn'[c] = r /\ pc'[h] = "finish" /\ job'[h] = m
    BY <1>3, <1>8, Names DEF IInv, ShapeOK
  <1>14. ~wronged' /\ \A k : k # q.seq => (NoFinisher(c, k)' <=> NoFinisher(c, k))
    BY <1>4, <1>10, HandlerFacts
  <1>15. ConnOK(c)'
    <2>1. RefOK(c)'
      BY <1>2, <1>5, <1>7, <1>8, <1>12, <1>13 DEF ConnOK, RefOK, B
    <2>2. TrefOK(c)'
      BY <1>2, <1>5, <1>7, <1>8, <1>11, <1>12, <1>13 DEF ConnOK, TrefOK
    <2>3. HandOK(c)'
      BY <1>2, <1>5, <1>7, <1>8, <1>13 DEF ConnOK, HandOK, InHand
    <2>4. StateOK(c)'
      BY <1>7, <1>8, <1>12, <1>13 DEF StateOK
    <2>5. SessionOK(c)'
      BY <1>2, <1>7, <1>8, <1>9, <1>12, <1>13, <1>14, PastHandled DEF LastOK, SessionOK
    <2>6. GotOK(c)'
      BY <1>2, <1>5, <1>7, <1>8, <1>9, <1>13, <1>14 DEF ConnOK, GotOK
    <2> QED
      BY <2>1, <2>2, <2>3, <2>4, <2>5, <2>6 DEF ConnOK
  <1>16. DrainOK' /\ ListOK' /\ BindOK' /\ CountOK' /\ LockOK'
    BY <1>1, <1>2, <1>7, <1>8, <1>9, <1>10, <1>13, HandlerRest DEF Waits, B
  <1>17. FinishAt(h)'
    BY <1>1, <1>3, <1>4, <1>7, <1>9, <1>13 DEF FinishAt
  <1> QED
    BY <1>1, <1>2, <1>3, <1>4, <1>5, <1>7, <1>8, <1>9, <1>10, <1>12, <1>15, <1>16, <1>17, HandlerStep

(* The reply was written: the entry waits for the next request. *)
LEMMA ReplyWrittenStep ==
  ASSUME IInv, NEW h \in Handlers, ReplyWritten(h)
  PROVE  IInv'
  <1>1. PICK c \in Conns : c = job[h].conn /\ pc[h] = "write" /\ pc[h] \in EntrySteps
    BY Handling DEF ReplyWritten, EntrySteps
  <1>2. PICK q \in Entry : q = conn[c]
    BY Given
  <1>3. PICK m \in Outcome : m = job[h]
    BY <1>1, Handling
  <1>4. /\ GoodJob(h) /\ FinishAt(h) /\ m.op = "write" /\ m.st # "SUCCESS"
        /\ m.seq = q.seq /\ m.conn = c
    BY <1>1, <1>2, <1>3, Handling DEF GoodJob, FinishAt
  <1>5. /\ Ending(c, "read") = 0 /\ Ending(c, "write") = 1 /\ q.memory = "live"
        /\ q.state = "idle" /\ ~q.idle /\ q.node = "none" /\ q.hand = "none"
        /\ NodeTokens(conn[c], c, "read") = 0 /\ NodeTokens(conn[c], c, "write") = 0
    BY <1>1, <1>2, <1>3, <1>4, HandlingEnd DEF B
  <1>6. /\ ConnOK(c) /\ q.seq \in Nat /\ q.seq > 0 /\ q.seq \in 1 .. MaxSeq[c] /\ q.got \in Nat
        /\ <<c, q.seq>> \in Sessions /\ \A i \in 1 .. Len(q.pipe) : FromPipe(q.pipe[i], c)
        /\ q.ref \in Int /\ Complete(c) \in Nat /\ Held(c) \in Nat /\ Complete(c) = 0
        /\ q.mutex = None
    <2>1. ConnOK(c) /\ q.seq > 0 /\ Complete(c) \in Nat /\ ~(Complete(c) > 0)
      BY <1>2, <1>5, Given DEF ConnOK, SessionOK, LastOK, StateOK
    <2>2. q.mutex = None
      BY <1>1, <1>2 DEF ReplyWritten
    <2> QED
      BY <1>2, <2>1, <2>2, Given
  <1>7. spc[<<c, q.seq>>] = "given" /\ NoFinisher(c, q.seq)
    BY <1>2, <1>5, <1>6, Names DEF ConnOK, SessionOK, LastOK, IInv, LockOK, Lockers
  <1>8. PICK r \in Entry :
           /\ conn' = [conn EXCEPT ![c] = r]
           /\ Fields(r, q.state, q.ref + 1, q.memory, q.seq, q.tref, h, q.idle,
                     "read", q.hand, q.removed, FALSE, q.pipe, q.got)
    <2>1. PICK r1 \in Entry :
             /\ r1 = [q EXCEPT !.ref = @ + 1]
             /\ Fields(r1, q.state, q.ref + 1, q.memory, q.seq, q.tref, q.mutex, q.idle,
                       q.node, q.hand, q.removed, q.partial, q.pipe, q.got)
      BY NewRef
    <2>2. PICK r2 \in Entry :
             /\ r2 = [r1 EXCEPT !.mutex = h]
             /\ Fields(r2, r1.state, r1.ref, r1.memory, r1.seq, r1.tref, h, r1.idle,
                       r1.node, r1.hand, r1.removed, r1.partial, r1.pipe, r1.got)
      BY NewMutex
    <2>3. PICK r3 \in Entry :
             /\ r3 = PollerAdd(r2)
             /\ Fields(r3, r2.state, r2.ref, r2.memory, r2.seq, r2.tref, r2.mutex, r2.idle,
                       "read", r2.hand, r2.removed, FALSE, r2.pipe, r2.got)
      BY Zenon, NewRead
    <2>4. [q EXCEPT !.ref = @ + 1, !.mutex = h] = r2
      BY <2>1, <2>2 DEF Entry
    <2>5. conn' = [conn EXCEPT ![c] = r3]
      BY <1>1, <1>2, <2>3, <2>4 DEF ReplyWritten, Set
    <2> WITNESS r3 \in Entry
    <2> QED
      BY <2>1, <2>2, <2>3, <2>5 DEF Fields
  <1>9. /\ r.state = "idle" /\ r.ref = q.ref + 1 /\ r.memory = "live" /\ r.seq = q.seq
        /\ r.tref = q.tref /\ r.mutex = h /\ r.node = "read" /\ r.hand = "none"
        /\ r.pipe = q.pipe /\ r.got = q.got /\ ~r.idle /\ ~r.partial
    BY <1>5, <1>8 DEF Fields
  <1>10. /\ svc' = svc /\ spc' = spc /\ UNCHANGED <<msgqueue, wronged>>
         /\ pc' = [pc EXCEPT ![h] = "relist"] /\ job' = [job EXCEPT ![h] = m]
    BY <1>3 DEF ReplyWritten, Goto, IInv, ShapeOK
  <1>11. HandlerMoves(h, c, "relist", m, r)
    BY <1>1, <1>3, <1>8, <1>10 DEF IInv, ShapeOK, HandlerMoves
  <1>12. Repliers(c)' = Repliers(c) /\ Undeleted(c)' = Undeleted(c)
    BY <1>10 DEF Repliers, Undeleted, OfConn
  <1>13. /\ Ending(c, "read")' = 1 /\ Ending(c, "write")' = 0
         /\ Complete(c)' = 0 /\ Held(c)' = Held(c) + 1 /\ Arriving(c)' = Arriving(c)
    <2>1. /\ \A op \in {"read", "write"} : Ending(c, op)' = Ending(c, op)
                - NodeTokens(conn[c], c, op) + NodeTokens(r, c, op)
                - B(pc[h] = op /\ job[h].st # "SUCCESS")
          /\ Complete(c)' = Complete(c) - B(pc[h] = "read" /\ job[h].st = "SUCCESS")
          /\ Held(c)' = Held(c) - B(pc[h] \in {"relist", "finish", "unref"}) + B("relist" # "get")
          /\ Arriving(c)' = Arriving(c)
      BY <1>1, <1>3, <1>4, <1>11, <1>12, HandlerTokens
    <2>2. NodeTokens(r, c, "read") = 1 /\ NodeTokens(r, c, "write") = 0
      <3>1. /\ NodeTokens(q, c, "read") = 0 + Num(q.pipe, Ends(c, "read"))
            /\ NodeTokens(q, c, "write") = 0 + Num(q.pipe, Ends(c, "write"))
            /\ NodeTokens(r, c, "read") = 1 + Num(q.pipe, Ends(c, "read"))
            /\ NodeTokens(r, c, "write") = 0 + Num(q.pipe, Ends(c, "write"))
        BY <1>5, <1>9 DEF NodeTokens, B
      <3>2. NodeTokens(q, c, "read") = 0 /\ NodeTokens(q, c, "write") = 0
        BY <1>2, <1>5
      <3>3. Num(q.pipe, Ends(c, "read")) \in Nat /\ Num(q.pipe, Ends(c, "write")) \in Nat
        BY PipeNum
      <3> QED
        BY <3>1, <3>2, <3>3
    <2> QED
      BY <1>1, <1>3, <1>4, <1>5, <1>6, <2>1, <2>2 DEF B
  <1>14. /\ conn'[c] = r /\ \A d \in Conns : d # c => conn'[d] = conn[d]
         /\ pc'[h] = "relist" /\ job'[h] = m
         /\ \A g \in Handlers : g # h => pc'[g] = pc[g] /\ job'[g] = job[g]
    BY <1>8, <1>10, Names DEF IInv, ShapeOK
  <1>15. ~wronged' /\ \A k : k # q.seq => (NoFinisher(c, k)' <=> NoFinisher(c, k))
    BY <1>3, <1>4, <1>11, HandlerFacts
  <1>16. ConnOK(c)'
    BY <1>2, <1>5, <1>6, <1>7, <1>8, <1>9, <1>10, <1>12, <1>13, <1>14, <1>15, PastHandled DEF
       ConnOK, RefOK, B, TrefOK, HandOK, InHand, Fields, StateOK, LastOK, SessionOK, GotOK
  <1>17. LockOK'
    <2>0. LockOK /\ ResultsOK
      BY DEF IInv
    <2>1. \A d \in Conns :
             LET e == conn'[d] IN
             /\ e.mutex # None => e.state = "idle" /\ ~e.idle
             /\ e.mutex \in Handlers => pc'[e.mutex] = "relist" /\ job'[e.mutex].conn = d
             /\ e.mutex \in Sessions => e.mutex = <<d, e.seq>> /\ spc'[e.mutex] \in Lockers
      BY <1>1, <1>4, <1>9, <1>10, <1>14, <2>0, Names DEF LockOK
    <2>2. \A s \in Sessions : spc'[s] \in Lockers => conn'[s[1]].mutex = s
      BY <1>2, <1>6, <1>10, <1>14, <2>0, SessionNames, Names DEF LockOK
    <2>3. \A g \in Handlers : pc'[g] = "relist" => conn'[job'[g].conn].mutex = g
      <3> SUFFICES ASSUME NEW g \in Handlers, pc'[g] = "relist"
                   PROVE  conn'[job'[g].conn].mutex = g
        OBVIOUS
      <3>1. CASE g = h
        BY <1>4, <1>9, <1>14, <3>1
      <3>2. CASE g # h
        <4>1. pc[g] = "relist" /\ job'[g] = job[g]
          BY <1>14, <3>2
        <4>2. job[g].conn \in Conns /\ conn[job[g].conn].mutex = g
          BY <2>0, <4>1, JobSeq DEF LockOK
        <4>3. job[g].conn # c
          BY <1>2, <1>6, <4>2, Names
        <4> QED
          BY <1>14, <4>1, <4>2, <4>3
      <3> QED
        BY <3>1, <3>2
    <2> QED
      BY <2>1, <2>2, <2>3 DEF LockOK
  <1>18. DrainOK' /\ ListOK' /\ BindOK' /\ CountOK'
    BY <1>1, <1>2, <1>5, <1>9, <1>10, <1>11, <1>14, HandlerRest DEF Waits
  <1>19. FinishAt(h)'
    BY <1>4, <1>7, <1>9, <1>10, <1>13, <1>14 DEF FinishAt
  <1>20. /\ r.seq = conn[c].seq /\ \A i \in 1 .. Len(r.pipe) : FromPipe(r.pipe[i], c)
         /\ m.op = job[h].op /\ m.conn = c /\ m.op = "write" /\ conn[c].mutex \in {None, h}
         /\ m.seq \in 1 .. r.seq /\ NoFinisher(c, m.seq) /\ pc[h] \in {"read", "write", "relist", "finish", "unref"}
    BY <1>1, <1>2, <1>3, <1>4, <1>6, <1>7, <1>9
  <1> QED
    BY <1>10, <1>11, <1>16, <1>17, <1>18, <1>19, <1>20, HandlerStep

(* The handler of a written reply lets the entry go, kept alive or closed. *)
LEMMA RelistStep ==
  ASSUME IInv, NEW h \in Handlers, Relist(h)
  PROVE  IInv'
  <1>1. PICK c \in Conns : c = job[h].conn /\ pc[h] = "relist" /\ pc[h] \in EntrySteps
    BY Handling DEF Relist, EntrySteps
  <1>2. PICK q \in Entry : q = conn[c]
    BY Given
  <1>3. PICK m \in Outcome :
           /\ job' = [job EXCEPT ![h] = m]
           /\ m.op = job[h].op /\ m.st = job[h].st /\ m.conn = job[h].conn
           /\ m.seq = job[h].seq /\ m.out = "success"
           /\ pc' = [pc EXCEPT ![h] = "finish"]
    BY Decided DEF Relist
  <1>4. /\ GoodJob(h) /\ FinishAt(h) /\ m.op = "write" /\ m.seq = q.seq /\ m.conn = c
        /\ m.seq = job[h].seq /\ m.out = "success"
    BY <1>1, <1>2, <1>3, Handling DEF GoodJob, FinishAt
  <1>5. /\ Ending(c, "read") > 0 /\ spc[<<c, q.seq>>] = "given" /\ q.mutex = h
        /\ q.state = "idle" /\ ~q.idle
    BY <1>1, <1>2, <1>4, Names DEF IInv, LockOK, FinishAt
  <1>6. /\ ConnOK(c) /\ q.seq \in Nat /\ q.seq > 0 /\ q.seq \in 1 .. MaxSeq[c] /\ q.got \in Nat
        /\ <<c, q.seq>> \in Sessions /\ Complete(c) \in Nat /\ Held(c) \in Nat
        /\ Ending(c, "read") \in Nat /\ Ending(c, "write") \in Nat
        /\ q.node # "write" /\ q.memory = "live" /\ InHand(q, c)
        /\ \A i \in 1 .. Len(q.pipe) : FromPipe(q.pipe[i], c)
    BY <1>2, <1>5, Given DEF ConnOK, SessionOK, LastOK
  <1>7. Ending(c, "read") = 1 /\ Ending(c, "write") = 0 /\ Complete(c) = 0
    BY <1>2, <1>5, <1>6 DEF ConnOK, RefOK, StateOK
  <1>8. PICK b \in Entry :
           /\ b = [q EXCEPT !.mutex = None]
           /\ Fields(b, q.state, q.ref, q.memory, q.seq, q.tref, None, q.idle,
                     q.node, q.hand, q.removed, q.partial, q.pipe, q.got)
    BY NewMutex
  <1>9. /\ b.node # "write" /\ InHand(b, c) /\ \A i \in 1 .. Len(b.pipe) : FromPipe(b.pipe[i], c)
        /\ \A op : NodeTokens(b, c, op) = NodeTokens(q, c, op)
    BY <1>6, <1>8 DEF Fields, InHand, NodeTokens
  <1>10. PICK r \in Entry :
           /\ conn' = [conn EXCEPT ![c] = r]
           /\ r.state \in {"keepalive", "closing"}
           /\ r.ref = b.ref /\ r.memory = b.memory /\ r.seq = b.seq /\ r.tref = b.tref
           /\ r.mutex = b.mutex /\ r.idle = b.idle /\ r.node \in {b.node, "none"} /\ r.hand = b.hand
           /\ r.partial = b.partial /\ r.got = b.got
           /\ \A op \in {"read", "write"} : NodeTokens(r, c, op) = NodeTokens(b, c, op)
           /\ InHand(r, c) /\ \A i \in 1 .. Len(r.pipe) : FromPipe(r.pipe[i], c)
           /\ \/ r.state = "closing" /\ svc' = svc
              \/ /\ r.state = "keepalive" /\ svc.mutex = None /\ svc.listening
                 /\ svc' = [svc EXCEPT !.alive_list = Append(@, c)]
    <2>1. Keep(c, b)
      BY <1>1, <1>2, <1>8 DEF Relist
    <2>2. CASE svc.listening
      <3>1. /\ conn' = [conn EXCEPT ![c] = [b EXCEPT !.state = "keepalive"]]
            /\ svc.mutex = None /\ svc' = [svc EXCEPT !.alive_list = Append(@, c)]
        BY <2>1, <2>2 DEF Keep, StillListens, Set
      <3>2. PICK x : x = [b EXCEPT !.state = "keepalive"]
        OBVIOUS
      <3>3. /\ x \in Entry /\ x.state = "keepalive"
            /\ x.ref = b.ref /\ x.memory = b.memory /\ x.seq = b.seq /\ x.tref = b.tref
            /\ x.mutex = b.mutex /\ x.idle = b.idle /\ x.node \in {b.node, "none"} /\ x.hand = b.hand
            /\ x.partial = b.partial /\ x.got = b.got
            /\ \A op \in {"read", "write"} : NodeTokens(x, c, op) = NodeTokens(b, c, op)
            /\ InHand(x, c) /\ \A i \in 1 .. Len(x.pipe) : FromPipe(x.pipe[i], c)
        BY <1>9, <3>2, KeptRecord
      <3>4. conn' = [conn EXCEPT ![c] = x]
        BY <3>1, <3>2
      <3> QED
        BY <2>2, <3>1, <3>3, <3>4
    <2>3. CASE ~svc.listening
      BY <1>9, <2>1, <2>3, KeptRecord DEF Keep, StillListens, Set
    <2> QED
      BY <2>2, <2>3
  <1>11. /\ r.ref = q.ref /\ r.memory = "live" /\ r.seq = q.seq /\ r.tref = q.tref
         /\ r.mutex = None /\ r.node # "write" /\ r.hand = q.hand /\ r.got = q.got
    BY <1>6, <1>8, <1>9, <1>10 DEF Fields
  <1>12. ~r.idle /\ (r.partial <=> q.partial) /\ (r.node = "read" => q.node = "read")
    BY <1>5, <1>8, <1>10 DEF Fields
  <1>13. /\ svc' \in Service /\ svc'.node = svc.node /\ svc'.ref = svc.ref
         /\ svc'.conn_count = svc.conn_count /\ svc'.unbound = svc.unbound
    <2>1. svc \in Service
      BY DEF IInv, ShapeOK
    <2>2. CASE svc' = svc
      BY <2>1, <2>2
    <2>3. CASE svc' = [svc EXCEPT !.alive_list = Append(@, c)]
      BY <2>1, <2>3, ListedOK
    <2> QED
      BY <1>10, <2>2, <2>3
  <1>14. spc' = spc /\ UNCHANGED <<msgqueue, wronged>>
    BY DEF Relist
  <1>15. HandlerMoves(h, c, "finish", m, r)
    BY <1>1, <1>3, <1>10, <1>13, <1>14 DEF IInv, ShapeOK, HandlerMoves
  <1>16. Repliers(c)' = Repliers(c) /\ Undeleted(c)' = Undeleted(c)
    BY <1>14 DEF Repliers, Undeleted, OfConn
  <1>17. /\ Ending(c, "read")' = 1 /\ Ending(c, "write")' = 0
         /\ Complete(c)' = 0 /\ Held(c)' = Held(c) /\ Arriving(c)' = Arriving(c)
    <2>1. /\ \A op \in {"read", "write"} : Ending(c, op)' = Ending(c, op)
                - NodeTokens(conn[c], c, op) + NodeTokens(r, c, op)
                - B(pc[h] = op /\ job[h].st # "SUCCESS")
          /\ \A op \in {"read", "write"} : NodeTokens(conn[c], c, op) \in Nat /\ NodeTokens(r, c, op) \in Nat
          /\ Complete(c)' = Complete(c) - B(pc[h] = "read" /\ job[h].st = "SUCCESS")
          /\ Held(c)' = Held(c) - B(pc[h] \in {"relist", "finish", "unref"}) + B("finish" # "get")
          /\ Arriving(c)' = Arriving(c)
      BY <1>1, <1>3, <1>15, <1>16, HandlerTokens
    <2>2. \A op \in {"read", "write"} : NodeTokens(r, c, op) = NodeTokens(conn[c], c, op)
      BY <1>2, <1>9, <1>10
    <2> QED
      BY <1>1, <1>6, <1>7, <2>1, <2>2 DEF B
  <1>18. /\ conn'[c] = r /\ \A d \in Conns : d # c => conn'[d] = conn[d]
         /\ pc'[h] = "finish" /\ job'[h] = m
         /\ \A t \in Threads : t # h => pc'[t] = pc[t]
         /\ \A g \in Handlers : g # h => job'[g] = job[g]
    BY <1>3, <1>10, Names DEF IInv, ShapeOK
  <1>19. /\ ~wronged' /\ \A k : k # q.seq => (NoFinisher(c, k)' <=> NoFinisher(c, k))
    BY <1>4, <1>15, HandlerFacts
  <1>20. ~NoFinisher(c, q.seq)'
    BY <1>4, <1>18 DEF NoFinisher, Finishes
  <1>21. ConnOK(c)'
    BY <1>2, <1>5, <1>6, <1>7, <1>10, <1>11, <1>12, <1>14, <1>16, <1>17, <1>18, <1>19, <1>20,
       PastHandled DEF ConnOK, RefOK, B, TrefOK, HandOK, StateOK, LastOK, Settled, SessionOK, GotOK
  <1>22. LockOK'
    <2>0. LockOK
      BY DEF IInv
    <2>1. ASSUME NEW d \in Conns
          PROVE  /\ conn'[d].mutex # None => conn'[d].state = "idle" /\ ~conn'[d].idle
                 /\ conn'[d].mutex \in Handlers =>
                       pc'[conn'[d].mutex] = "relist" /\ job'[conn'[d].mutex].conn = d
                 /\ conn'[d].mutex \in Sessions =>
                       /\ conn'[d].mutex = <<d, conn'[d].seq>>
                       /\ spc'[conn'[d].mutex] \in Lockers
      BY <1>1, <1>11, <1>14, <1>18, <2>0, Names DEF LockOK
    <2>2. \A s \in Sessions : spc'[s] \in Lockers => conn'[s[1]].mutex = s
      BY <1>2, <1>5, <1>14, <1>18, <2>0, SessionNames, Names DEF LockOK
    <2>3. \A g \in Handlers : pc'[g] = "relist" => conn'[job'[g].conn].mutex = g
      <3> SUFFICES ASSUME NEW g \in Handlers, pc'[g] = "relist"
                   PROVE  conn'[job'[g].conn].mutex = g
        OBVIOUS
      <3>1. g # h /\ pc[g] = "relist" /\ job'[g] = job[g]
        BY <1>18, Names
      <3>2. job[g].conn \in Conns /\ conn[job[g].conn].mutex = g
        BY <2>0, <3>1, JobSeq DEF LockOK
      <3>3. job[g].conn # c
        BY <1>2, <1>5, <3>1, <3>2
      <3> QED
        BY <1>18, <3>1, <3>2, <3>3
    <2> QED
      BY <2>1, <2>2, <2>3 DEF LockOK
  <1>23. BindOK' /\ CountOK'
    BY <1>1, <1>2, <1>5, <1>6, <1>11, <1>13, <1>15, HandlerRest
  <1>24. DrainOK' /\ ListOK'
    <2>1. CASE r.state = "closing" /\ svc' = svc
      BY <1>1, <1>2, <1>5, <1>15, <1>18, <2>1, HandlerRest DEF Waits
    <2>2. CASE /\ r.state = "keepalive" /\ svc.mutex = None /\ svc.listening
               /\ svc' = [svc EXCEPT !.alive_list = Append(@, c)]
      <3>1. conn[c].state # "keepalive" /\ Waits(c)'
        BY <1>2, <1>5, <1>17, <1>18, <2>2 DEF Waits
      <3>2. \A d \in Conns : d # c => SameAt(d)
        BY <1>15, HandlerFacts
      <3>3. \A d \in Conns : d # c => (Waits(d)' <=> Waits(d)) /\ conn'[d] = conn[d]
        BY <1>18, <3>2 DEF Waits, SameAt
      <3>4. \A t \in Threads :
               \/ pc'[t] = pc[t]
               \/ pc'[t] \notin Closing \cup Marking /\ pc[t] \notin Closing \cup Marking
        BY <1>1, <1>18 DEF Closing, Marking
      <3>5. Binding' = Binding
        BY <1>15, HandlerFacts
      <3> QED
        BY <2>2, <3>1, <3>3, <3>4, <3>5, KeepLists
    <2> QED
      BY <1>10, <2>1, <2>2
  <1>25. FinishAt(h)'
    BY <1>4, <1>5, <1>14, <1>18 DEF FinishAt
  <1>26. /\ r.seq = conn[c].seq /\ m.op = job[h].op /\ m.conn = c /\ conn[c].mutex \in {None, h}
         /\ m.seq \in 1 .. r.seq /\ pc[h] = "relist" /\ m.out # "none"
         /\ \A i \in 1 .. Len(r.pipe) : FromPipe(r.pipe[i], c)
    BY <1>1, <1>2, <1>3, <1>4, <1>5, <1>6, <1>10, <1>11
  <1> QED
    BY <1>14, <1>15, <1>21, <1>22, <1>23, <1>24, <1>25, <1>26, HandlerStep

(* The end of a node that was read from. *)
LEMMA RequestEndStep ==
  ASSUME IInv, NEW h \in Handlers, RequestEnd(h)
  PROVE  IInv'
  <1>1. PICK c \in Conns : c = job[h].conn /\ pc[h] = "read" /\ pc[h] \in EntrySteps
    BY Handling DEF RequestEnd, EntrySteps
  <1>2. PICK q \in Entry : q = conn[c]
    BY Given
  <1>3. /\ GoodJob(h) /\ FinishAt(h) /\ job[h].op = "read" /\ job[h].st # "SUCCESS"
        /\ job[h].seq = q.seq /\ job[h] \in Outcome
    BY <1>1, <1>2, Handling DEF GoodJob, FinishAt, RequestEnd
  <1>4. /\ Ending(c, "read") = 1 /\ Ending(c, "write") = 0 /\ q.memory = "live"
        /\ q.node = "none" /\ q.hand = "none"
    BY <1>1, <1>2, <1>3, HandlingEnd DEF B
  <1>5. /\ ConnOK(c) /\ q.seq \in Nat /\ q.got \in Nat /\ q.ref \in Int
        /\ \A i \in 1 .. Len(q.pipe) : FromPipe(q.pipe[i], c) /\ q.mutex = None
        /\ Complete(c) \in Nat /\ Held(c) \in Nat /\ (q.idle => q.state = "idle")
        /\ q.state = "success" => Complete(c) = 1
        /\ Complete(c) > 0 => q.state \in {"success", "closing"}
    <2>1. q.mutex = None
      BY <1>1, <1>2 DEF RequestEnd
    <2>2. ConnOK(c) /\ Complete(c) \in Nat
      BY Given
    <2>3. /\ q.idle => q.state = "idle"
          /\ q.state = "success" => Complete(c) = 1
          /\ Complete(c) > 0 => q.state \in {"success", "closing"}
      BY <1>2, <2>2 DEF ConnOK, StateOK, RefOK
    <2> QED
      BY <1>2, <2>1, <2>2, <2>3, Given
  <1>23. conn[c].mutex = None /\ q.mutex = None
    BY <1>1, <1>2 DEF RequestEnd
  <1>6. q.seq > 0 => spc[<<c, q.seq>>] \notin {"write", "sync"}
    BY <1>2, <1>23, Given, Names DEF IInv, LockOK, Lockers
  <1>7. q.state \in {"error", "receiving"} =>
           /\ q.seq > 0 /\ q.seq \in 1 .. MaxSeq[c]
           /\ spc[<<c, q.seq>>] \in {"reading", "given"} /\ NoFinisher(c, q.seq)
    BY <1>2, <1>4, <1>5, Given DEF ConnOK, SessionOK, LastOK
  <1>9. PICK p \in {"get", "finish", "unref"}, m \in Outcome, r \in Entry :
           /\ pc' = [pc EXCEPT ![h] = p] /\ job' = [job EXCEPT ![h] = m]
           /\ conn' = [conn EXCEPT ![c] = r]
           /\ r.ref = q.ref /\ r.memory = q.memory /\ r.seq = q.seq /\ r.tref = q.tref
           /\ r.mutex = q.mutex /\ r.node = q.node /\ r.hand = q.hand /\ r.removed = q.removed
           /\ r.partial = q.partial /\ r.pipe = q.pipe /\ r.got = q.got /\ ~r.idle
           /\ p = "get" <=> q.state = "success"
           /\ p = "finish" <=> q.state \in {"error", "receiving"}
           /\ p = "get" => r.state = "closing" /\ m.conn = None
           /\ p # "get" => /\ r.state = q.state /\ m.op = "read" /\ m.conn = c /\ m.seq = q.seq
                           /\ m.out = IF p = "finish" THEN "failed" ELSE "none"
    <2>1. CASE q.state = "success"
      <3>1. PICK r \in Entry :
               /\ r = [q EXCEPT !.state = "closing"]
               /\ Fields(r, "closing", q.ref, q.memory, q.seq, q.tref, q.mutex, q.idle,
                         q.node, q.hand, q.removed, q.partial, q.pipe, q.got)
        BY Zenon, NewState
      <3>2. PICK m \in Outcome : m = NoResult /\ m.conn = None
        BY ResultOK DEF NoResult
      <3>3. /\ conn' = [conn EXCEPT ![c] = r] /\ pc' = [pc EXCEPT ![h] = "get"]
            /\ job' = [job EXCEPT ![h] = m]
        BY <1>1, <1>2, <2>1, <3>1, <3>2 DEF RequestEnd, Set, Done, Goto
      <3>4. ~r.idle
        BY <1>5, <2>1, <3>1 DEF Fields
      <3> QED
        BY <2>1, <3>1, <3>2, <3>3, <3>4 DEF Fields
    <2>2. CASE q.state # "success"
      <3>1. PICK r \in Entry :
               /\ r = [q EXCEPT !.idle = @ /\ q.state # "idle"]
               /\ Fields(r, q.state, q.ref, q.memory, q.seq, q.tref, q.mutex, (q.idle /\ q.state # "idle"),
                         q.node, q.hand, q.removed, q.partial, q.pipe, q.got)
        BY NewUnlisted
      <3>2. PICK out \in {"failed", "none"} :
               /\ out = "failed" <=> q.state \in {"error", "receiving"}
               /\ Decide(h, out)
        BY <1>1, <1>2, <2>2 DEF RequestEnd, WithSession
      <3>3. PICK m \in Outcome :
               /\ job' = [job EXCEPT ![h] = m]
               /\ m.op = job[h].op /\ m.st = job[h].st /\ m.conn = job[h].conn
               /\ m.seq = job[h].seq /\ m.out = out
               /\ pc' = [pc EXCEPT ![h] = IF out = "none" THEN "unref" ELSE "finish"]
        BY <3>2, Decided
      <3>4. conn' = [conn EXCEPT ![c] = r]
        BY <1>1, <1>2, <2>2, <3>1 DEF RequestEnd, Set
      <3>5. ~r.idle
        BY <1>5, <3>1 DEF Fields
      <3>6. PICK p \in {"finish", "unref"} : p = IF out = "none" THEN "unref" ELSE "finish"
        BY <3>2
      <3>7. /\ r.ref = q.ref /\ r.memory = q.memory /\ r.seq = q.seq /\ r.tref = q.tref
            /\ r.mutex = q.mutex /\ r.node = q.node /\ r.hand = q.hand /\ r.removed = q.removed
            /\ r.partial = q.partial /\ r.pipe = q.pipe /\ r.got = q.got /\ r.state = q.state
        BY <3>1 DEF Fields
      <3>8. /\ p = "finish" <=> q.state \in {"error", "receiving"}
            /\ m.out = IF p = "finish" THEN "failed" ELSE "none"
            /\ m.op = "read" /\ m.conn = c /\ m.seq = q.seq /\ pc' = [pc EXCEPT ![h] = p]
        BY <1>1, <1>3, <3>2, <3>3, <3>6
      <3> QED
        BY <2>2, <3>3, <3>4, <3>5, <3>7, <3>8
    <2> QED
      BY <2>1, <2>2
  <1>10. /\ q.state = "keepalive" => Delisted(c) /\ svc.mutex = None
         /\ q.state # "keepalive" => svc' = svc
         /\ svc \in Service
    BY <1>1, <1>2, DelistedOK DEF IInv, ShapeOK, RequestEnd, Service
  <1>11. /\ svc' \in Service /\ svc'.node = svc.node /\ svc'.ref = svc.ref
         /\ svc'.conn_count = svc.conn_count /\ svc'.unbound = svc.unbound
    BY <1>10 DEF Delisted
  <1>12. spc' = spc /\ UNCHANGED <<msgqueue, wronged>>
    BY DEF RequestEnd
  <1>13. HandlerMoves(h, c, p, m, r)
    BY <1>1, <1>3, <1>9, <1>11, <1>12 DEF IInv, ShapeOK, HandlerMoves
  <1>14. Repliers(c)' = Repliers(c) /\ Undeleted(c)' = Undeleted(c)
    BY <1>12 DEF Repliers, Undeleted, OfConn
  <1>15. /\ Ending(c, "read")' = 0 /\ Ending(c, "write")' = 0 /\ Complete(c)' = Complete(c)
         /\ Held(c)' = Held(c) + B(p # "get") /\ Arriving(c)' = Arriving(c)
    <2>1. /\ \A op \in {"read", "write"} : Ending(c, op)' = Ending(c, op)
                - NodeTokens(conn[c], c, op) + NodeTokens(r, c, op)
                - B(pc[h] = op /\ job[h].st # "SUCCESS")
          /\ \A op \in {"read", "write"} : NodeTokens(conn[c], c, op) \in Nat /\ NodeTokens(r, c, op) \in Nat
          /\ Complete(c)' = Complete(c) - B(pc[h] = "read" /\ job[h].st = "SUCCESS")
          /\ Held(c)' = Held(c) - B(pc[h] \in {"relist", "finish", "unref"}) + B(p # "get")
          /\ Arriving(c)' = Arriving(c)
      BY <1>1, <1>3, <1>9, <1>13, <1>14, HandlerTokens
    <2>2. \A op \in {"read", "write"} : NodeTokens(r, c, op) = NodeTokens(conn[c], c, op)
      BY <1>2, <1>9 DEF NodeTokens
    <2>3. PICK x \in Nat : x = B(p # "get")
      BY BOK
    <2>4. /\ B(pc[h] = "read" /\ job[h].st = "SUCCESS") = 0
          /\ B(pc[h] = "read" /\ job[h].st # "SUCCESS") = 1
          /\ B(pc[h] = "write" /\ job[h].st # "SUCCESS") = 0
          /\ B(pc[h] \in {"relist", "finish", "unref"}) = 0
      BY <1>1, <1>3 DEF B
    <2> QED
      BY <1>4, <1>5, <2>1, <2>2, <2>3, <2>4
  <1>16. conn'[c] = r /\ pc'[h] = p /\ job'[h] = m
    BY <1>9, Names DEF IInv, ShapeOK
  <1>17. /\ ~wronged' /\ \A k : k # q.seq => (NoFinisher(c, k)' <=> NoFinisher(c, k))
         /\ p # "finish" => \A k : NoFinisher(c, k)' <=> NoFinisher(c, k)
    <2>1. \A k : k # q.seq => (NoFinisher(c, k)' <=> NoFinisher(c, k))
      BY <1>3, <1>13, HandlerFacts
    <2>2. ~wronged'
      BY <1>5, <1>12 DEF ConnOK, GotOK
    <2>3. pc[h] \notin {"relist", "finish"} /\ p \notin {"relist", "finish"} =>
             \A k : NoFinisher(c, k)' <=> NoFinisher(c, k)
      BY <1>13, HandlerFacts
    <2> QED
      BY <1>1, <2>1, <2>2, <2>3
  <1>18. ConnOK(c)'
    <2>1. RefOK(c)'
      BY <1>2, <1>4, <1>5, <1>9, <1>15, <1>16 DEF ConnOK, RefOK, B
    <2>2. TrefOK(c)'
      BY <1>2, <1>4, <1>5, <1>9, <1>14, <1>15, <1>16 DEF ConnOK, TrefOK
    <2>3. HandOK(c)'
      BY <1>2, <1>4, <1>5, <1>9, <1>16 DEF ConnOK, HandOK, InHand
    <2>4. StateOK(c)'
      BY <1>5, <1>9, <1>15, <1>16 DEF StateOK
    <2>5. SessionOK(c)'
      BY <1>2, <1>5, <1>6, <1>9, <1>12, <1>15, <1>16, <1>17, PastHandled DEF ConnOK, SessionOK,
         LastOK, Settled
    <2>6. GotOK(c)'
      BY <1>2, <1>4, <1>5, <1>9, <1>12, <1>16, <1>17 DEF ConnOK, GotOK
    <2> QED
      BY <2>1, <2>2, <2>3, <2>4, <2>5, <2>6 DEF ConnOK
  <1>19. LockOK' /\ BindOK' /\ CountOK'
    BY <1>1, <1>2, <1>9, <1>11, <1>12, <1>13, <1>23, HandlerRest
  <1>20. DrainOK' /\ ListOK'
    <2>1. CASE q.state = "keepalive"
      <3>1. Delisted(c) /\ svc.marking # c
        BY <1>10, <2>1, Names DEF IInv, DrainOK
      <3>2. ~Waits(c)'
        BY <1>15 DEF Waits
      <3>3. \A d \in Conns : d # c => SameAt(d)
        BY <1>13, HandlerFacts
      <3>4. \A d \in Conns : d # c => (Waits(d)' <=> Waits(d)) /\ conn'[d] = conn[d]
        BY <3>3 DEF Waits, SameAt
      <3>5. \A t \in Threads : t # h => pc'[t] = pc[t]
        BY <1>13, HandlerFacts
      <3>6. \A t \in Threads :
               \/ pc'[t] = pc[t]
               \/ pc'[t] \notin Closing \cup Marking /\ pc[t] \notin Closing \cup Marking
        BY <1>1, <1>16, <3>5 DEF Closing, Marking
      <3>7. Binding' = Binding
        BY <1>13, HandlerFacts
      <3> QED
        BY <3>1, <3>2, <3>4, <3>6, <3>7, LeaveLists
    <2>2. CASE q.state # "keepalive"
      BY <1>1, <1>2, <1>9, <1>10, <1>13, <1>16, <2>2, HandlerRest DEF Waits
    <2> QED
      BY <2>1, <2>2
  <1>21. FinishAt(h)'
    BY <1>1, <1>7, <1>9, <1>12, <1>16 DEF FinishAt
  <1>22. /\ r.seq = conn[c].seq /\ conn[c].mutex \in {None, h}
         /\ \A i \in 1 .. Len(r.pipe) : FromPipe(r.pipe[i], c)
         /\ p \in {"relist", "finish", "unref"} => m.op = job[h].op /\ m.conn = c
         /\ p # "relist" /\ (p = "finish" => m.out # "none")
         /\ p \in {"relist", "finish"} => m.seq \in 1 .. r.seq /\ NoFinisher(c, m.seq)
    BY <1>2, <1>3, <1>5, <1>7, <1>9, <1>23
  <1> QED
    BY <1>1, <1>12, <1>13, <1>18, <1>19, <1>20, <1>21, <1>22, HandlerStep

(* session->handle: the request is the user's, or the session is deleted. *)
LEMMA FinishStep ==
  ASSUME IInv, NEW h \in Handlers, Finish(h)
  PROVE  IInv'
  <1>1. PICK c \in Conns : c = job[h].conn /\ pc[h] = "finish" /\ pc[h] \in EntrySteps
    BY Handling DEF Finish, EntrySteps
  <1>2. PICK q \in Entry : q = conn[c]
    BY Given
  <1>3. PICK k \in Nat : k = job[h].seq /\ k \in 1 .. MaxSeq[c] /\ <<c, k>> \in Sessions
                         /\ k \in 1 .. q.seq
    BY <1>1, <1>2, JobSeq, Handling, Given DEF GoodJob
  <1>4. PICK m \in Outcome : m = job[h] /\ m.conn = c /\ m.seq = k
    BY <1>1, <1>3, Handling
  <1>5. spc[<<c, k>>] \in {"reading", "given", "unlock"}
        /\ (m.out = "toreply" => spc[<<c, k>>] = "reading")
    BY <1>1, <1>3, <1>4, Handling DEF FinishAt
  <1>6. /\ ConnOK(c) /\ q.seq \in Nat /\ q.got \in Nat /\ q.ref \in Int /\ q.tref \in Int
        /\ MaxSeq[c] \in Nat /\ q.seq \in 1 .. MaxSeq[c] /\ q.seq > 0
        /\ Complete(c) \in Nat /\ Held(c) \in Nat /\ Undeleted(c) \in Nat
        /\ Ending(c, "read") \in Nat /\ Ending(c, "write") \in Nat
    <2>1. /\ ConnOK(c) /\ q.seq \in Nat /\ q.got \in Nat /\ q.ref \in Int /\ q.tref \in Int
          /\ MaxSeq[c] \in Nat
      BY <1>2, Given
    <2>2. q.seq > 0
      BY <1>3, <2>1
    <2>3. q.seq <= MaxSeq[c]
      BY <1>2, <2>1 DEF ConnOK, SessionOK, PastOK
    <2>4. /\ Complete(c) \in Nat /\ Held(c) \in Nat /\ Undeleted(c) \in Nat
          /\ Ending(c, "read") \in Nat /\ Ending(c, "write") \in Nat
      BY Given
    <2> QED
      BY <2>1, <2>2, <2>3, <2>4
  <1>7. ~NoFinisher(c, k)
    BY <1>1, <1>3 DEF NoFinisher, Finishes
  <1>8. /\ k # q.seq => spc[<<c, k>>] = "given"
        /\ k = q.seq => /\ ~(q.state \in {"receiving", "error"} /\ Ending(c, "read") > 0)
                        /\ Ending(c, "write") = 0 /\ Complete(c) = 0
    BY <1>2, <1>3, <1>5, <1>6, <1>7, LastSession DEF ConnOK, SessionOK, LastOK
  <1>9. Held(c) > 0
    <2>1. ShapeOK /\ job[h] \in OfEntry(c) /\ pc[h] \in {"relist", "finish", "unref"}
      BY <1>1, Handling DEF OfEntry, IInv
    <2>2. /\ JNum(OfEntry(c), {"relist", "finish", "unref"}) > 0
          /\ JNum(OfEntry(c), {"relist", "finish", "unref"}) \in Nat
      BY <2>1, JNumPositive
    <2>3. Repliers(c) \in Nat
      BY Given
    <2> QED
      BY <2>2, <2>3 DEF Held
  <1>10. q.memory = "live" /\ q.tref = 1 + Undeleted(c) /\ Arriving(c) = 0
    BY <1>2, <1>9, LastReference
  <1>11. PICK u \in Entry : Kept(u, q, c) /\ (m.out = "toreply" => u = q)
                            /\ (m.out # "toreply" => u = IF spc[<<c, k>>] = "reading"
                                                         THEN CloseIdle(c, q) ELSE q)
    BY <1>2, <1>6, KeptOK, Given DEF ConnOK, StateOK, CloseIdle
  <1>12. PICK x \in {"toreply", "deleted", "deleted_locked"}, r \in Entry :
            /\ spc' = [spc EXCEPT ![<<c, k>>] = x] /\ conn' = [conn EXCEPT ![c] = r]
            /\ x = "toreply" => spc[<<c, k>>] = "reading" /\ svc' = svc /\ r.tref = q.tref
            /\ x = "deleted" => spc[<<c, k>>] \in {"reading", "given"}
            /\ x = "deleted_locked" => spc[<<c, k>>] = "unlock"
            /\ x # "toreply" => svc' = Released(svc, conn[c], r) /\ r.tref = q.tref - 1
            /\ r.state = u.state /\ r.ref = u.ref /\ r.memory = u.memory /\ r.seq = u.seq
            /\ r.mutex = u.mutex /\ (r.idle <=> u.idle) /\ r.node = u.node /\ r.hand = u.hand
            /\ (r.removed <=> u.removed) /\ (r.partial <=> u.partial) /\ r.pipe = u.pipe
            /\ r.got = u.got
    <2>1. CASE m.out = "toreply"
      BY <1>1, <1>2, <1>3, <1>4, <1>5, <1>11, <2>1 DEF Finish, IInv, ShapeOK
    <2>2. CASE m.out # "toreply"
      <3>1. PICK r \in Entry :
               /\ r = TargetDecref(u)
               /\ Fields(r, u.state, u.ref, u.memory, u.seq, u.tref - 1, u.mutex, u.idle,
                         u.node, u.hand, u.removed, u.partial, u.pipe, u.got)
        BY NewTref
      <3>2. /\ spc' = [spc EXCEPT ![<<c, k>>] = IF spc[<<c, k>>] = "unlock" THEN "deleted_locked"
                                                                           ELSE "deleted"]
            /\ Becomes(c, TargetDecref(u))
        BY <1>1, <1>2, <1>3, <1>4, <1>11, <2>2 DEF IInv, ShapeOK, Finish
      <3>3. conn' = [conn EXCEPT ![c] = r] /\ svc' = Released(svc, conn[c], r)
        BY <3>1, <3>2 DEF Becomes, Set
      <3>4. r.tref = q.tref - 1
        BY <1>11, <3>1 DEF Fields, Kept, SameEntry
      <3>5. PICK x \in {"deleted", "deleted_locked"} :
               x = IF spc[<<c, k>>] = "unlock" THEN "deleted_locked" ELSE "deleted"
        OBVIOUS
      <3>6. /\ spc' = [spc EXCEPT ![<<c, k>>] = x]
            /\ x = "deleted" => spc[<<c, k>>] \in {"reading", "given"}
            /\ x = "deleted_locked" => spc[<<c, k>>] = "unlock"
        BY <1>5, <3>2, <3>5
      <3>7. /\ r.state = u.state /\ r.ref = u.ref /\ r.memory = u.memory /\ r.seq = u.seq
            /\ r.mutex = u.mutex /\ (r.idle <=> u.idle) /\ r.node = u.node /\ r.hand = u.hand
            /\ (r.removed <=> u.removed) /\ (r.partial <=> u.partial) /\ r.pipe = u.pipe
            /\ r.got = u.got
        BY <3>1 DEF Fields
      <3> QED
        BY <3>3, <3>4, <3>6, <3>7
    <2> QED
      BY <2>1, <2>2
  <1>13. /\ r.state = q.state /\ r.ref = q.ref /\ r.memory = q.memory /\ r.seq = q.seq
         /\ r.mutex = q.mutex /\ r.node \in {q.node, "none"} /\ r.hand = q.hand /\ r.got = q.got
    BY <1>11, <1>12 DEF Kept, SameEntry
  <1>14. (r.idle <=> q.idle) /\ (r.partial <=> q.partial)
    BY <1>11, <1>12 DEF Kept, SameEntry
  <1>15. /\ InHand(r, c) /\ \A i \in 1 .. Len(r.pipe) : FromPipe(r.pipe[i], c)
         /\ \A op \in {"read", "write"} : NodeTokens(r, c, op) = NodeTokens(conn[c], c, op)
    BY <1>2, <1>11, <1>12 DEF Kept, InHand, NodeTokens
  <1>16. /\ svc' \in Service /\ svc'.node = svc.node /\ svc'.mutex = svc.mutex
         /\ svc'.marking = svc.marking /\ svc'.alive_list = svc.alive_list
         /\ svc'.listening = svc.listening
    BY <1>12, ReleasedOK DEF IInv, ShapeOK
  <1>17. /\ spc'[<<c, k>>] = x /\ \A s \in Sessions : s # <<c, k>> => spc'[s] = spc[s]
         /\ \A j \in 1 .. MaxSeq[c] : j # k => spc'[<<c, j>>] = spc[<<c, j>>]
         /\ spc' \in [Sessions -> Stages]
    BY <1>3, <1>12, SessionNames DEF IInv, ShapeOK, Stages
  <1>18. /\ pc' = [pc EXCEPT ![h] = "unref"] /\ job' = [job EXCEPT ![h] = m]
         /\ UNCHANGED <<msgqueue, wronged>>
    BY <1>4 DEF Finish, Goto, IInv, ShapeOK
  <1>19. HandlerMoves(h, c, "unref", m, r)
    BY <1>1, <1>3, <1>4, <1>12, <1>16, <1>17, <1>18 DEF HandlerMoves
  <1>20. /\ Repliers(c)' = Repliers(c)
         /\ Undeleted(c)' = Undeleted(c) - B(x # "toreply") /\ Undeleted(c) > 0
    <2>1. \A P : OfConn(c, P)' = OfConn(c, P) - B(spc[<<c, k>>] \in P) + B(x \in P)
      BY <1>3, <1>17, SessionMove
    <2>2. B(spc[<<c, k>>] \in {"succeed"}) = 0 /\ B(x \in {"succeed"}) = 0 /\ Repliers(c) \in Nat
      BY <1>5, Given DEF B
    <2>3. B(spc[<<c, k>>] \in Alive) = 1 /\ B(x \in Alive) = 1 - B(x # "toreply")
      BY <1>5 DEF B, Alive
    <2>4. Undeleted(c) = OfConn(c, Alive) /\ Undeleted(c)' = OfConn(c, Alive)'
      BY DEF Undeleted, Alive
    <2>5. OfConn(c, Alive) > 0
      BY <1>3, <1>5, OfConnFinite DEF Alive
    <2>6. Repliers(c)' = Repliers(c) - B(spc[<<c, k>>] \in {"succeed"}) + B(x \in {"succeed"})
      BY <2>1 DEF Repliers
    <2>7. OfConn(c, Alive)' = OfConn(c, Alive) - B(spc[<<c, k>>] \in Alive) + B(x \in Alive)
      BY <2>1
    <2>8. PICK y \in Nat : y = B(x # "toreply")
      BY BOK
    <2> QED
      BY <1>6, <2>2, <2>3, <2>4, <2>5, <2>6, <2>7, <2>8
  <1>21. /\ Ending(c, "read")' = Ending(c, "read") /\ Ending(c, "write")' = Ending(c, "write")
         /\ Complete(c)' = Complete(c) /\ Held(c)' = Held(c) /\ Arriving(c)' = 0
    <2>1. /\ \A op \in {"read", "write"} : Ending(c, op)' = Ending(c, op)
                - NodeTokens(conn[c], c, op) + NodeTokens(r, c, op)
                - B(pc[h] = op /\ job[h].st # "SUCCESS")
          /\ \A op \in {"read", "write"} : NodeTokens(conn[c], c, op) \in Nat /\ NodeTokens(r, c, op) \in Nat
          /\ Complete(c)' = Complete(c) - B(pc[h] = "read" /\ job[h].st = "SUCCESS")
          /\ Held(c)' = Held(c) - B(pc[h] \in {"relist", "finish", "unref"}) + B("unref" # "get")
          /\ Arriving(c)' = Arriving(c)
      BY <1>1, <1>4, <1>19, <1>20, HandlerTokens
    <2> QED
      BY <1>1, <1>6, <1>10, <1>15, <2>1 DEF B
  <1>22. conn'[c] = r /\ pc'[h] = "unref" /\ job'[h] = m
    BY <1>12, <1>18, Names DEF IInv, ShapeOK
  <1>23. ~wronged' /\ \A j : j # k => (NoFinisher(c, j)' <=> NoFinisher(c, j))
    BY <1>3, <1>19, HandlerFacts
  <1>24. /\ r.tref = q.tref - B(x # "toreply") /\ r.tref >= 0 /\ q.tref > 0
         /\ r.tref = 1 + Undeleted(c)'
    BY <1>6, <1>10, <1>12, <1>20 DEF B
  <1>25. ConnOK(c)'
    <2>1. RefOK(c)'
      BY <1>2, <1>6, <1>10, <1>13, <1>21, <1>22 DEF ConnOK, RefOK
    <2>2. TrefOK(c)'
      BY <1>2, <1>6, <1>10, <1>13, <1>21, <1>22, <1>24, OfConnNext DEF ConnOK, TrefOK, Undeleted, B
    <2>3. HandOK(c)'
      <3>1. q.hand = "append" \/ (q.partial /\ (q.hand # "none" \/ q.node = "read")) =>
               q.state = "receiving" /\ spc[<<c, q.seq>>] = "reading" /\ k # q.seq
        BY <1>2, <1>6, <1>8, ReadingEnds, NodeIsToken DEF ConnOK, HandOK, IInv
      <3>2. r.hand = "append" \/ (r.partial /\ (r.hand # "none" \/ r.node = "read")) =>
               q.hand = "append" \/ (q.partial /\ (q.hand # "none" \/ q.node = "read"))
        BY <1>13, <1>14
      <3> QED
        BY <1>6, <1>13, <1>15, <1>17, <1>22, <3>1, <3>2 DEF HandOK
    <2>4. StateOK(c)'
      BY <1>2, <1>6, <1>13, <1>14, <1>21, <1>22 DEF ConnOK, StateOK
    <2>5. SessionOK(c)'
      BY <1>2, <1>3, <1>5, <1>6, <1>8, <1>12, <1>13, <1>14, <1>17, <1>21, <1>22, <1>23 DEF ConnOK,
         SessionOK, Settled, PastOK, LastOK
    <2>6. GotOK(c)'
      BY <1>2, <1>5, <1>6, <1>12, <1>13, <1>17, <1>22, <1>23 DEF ConnOK, GotOK
    <2> QED
      BY <2>1, <2>2, <2>3, <2>4, <2>5, <2>6 DEF ConnOK
  <1>26. LockOK'
    <2>1. \A s \in Sessions : \/ spc'[s] = spc[s]
                              \/ spc[s] \notin Lockers /\ spc'[s] \notin Lockers
                              \/ spc[s] \in Lockers /\ spc'[s] \in Lockers
      BY <1>5, <1>12, <1>17 DEF Lockers
    <2>2. /\ r.mutex = conn[c].mutex /\ r.seq = conn[c].seq
          /\ conn[c].mutex # None => r.state = "idle" /\ ~r.idle
          /\ pc[h] # "relist" /\ "unref" # "relist"
      BY <1>1, <1>2, <1>13, <1>14 DEF IInv, LockOK
    <2> QED
      BY <1>1, <1>19, <2>1, <2>2, HandlerRest
  <1>27. DrainOK' /\ ListOK'
    BY <1>1, <1>2, <1>13, <1>16, <1>19, <1>21, <1>22, HandlerRest DEF Waits
  <1>28. BindOK' /\ CountOK'
    BY <1>1, <1>2, <1>12, <1>13, <1>19, <1>24, HandlerRest
  <1>29. FinishAt(h)'
    BY <1>22 DEF FinishAt
  <1>30. /\ r.seq = conn[c].seq /\ m.op = job[h].op /\ m.conn = c
         /\ \A s \in Sessions : spc'[s] = spc[s] \/ (pc[h] = "finish" /\ s = <<c, job[h].seq>>)
    BY <1>1, <1>2, <1>3, <1>4, <1>13, <1>17
  <1> QED
    BY <1>1, <1>15, <1>19, <1>21, <1>25, <1>26, <1>27, <1>28, <1>29, <1>30, HandlerStep

(* A connection that is still to be made or refused: nothing else stands
   for it. *)
LEMMA Arrived ==
  ASSUME IInv, NEW h \in Handlers, Entering(h)
  PROVE  \E c \in Conns :
            /\ c = job[h].conn /\ Arriving(c) = 1 /\ ArrivalIn(job[h], pc[h], c)
            /\ job[h].op = "listen" /\ conn[c] \in Entry
            /\ conn[c].state = "accepted" /\ conn[c].memory = "unborn" /\ conn[c].tref = 1
            /\ conn[c].seq = 0 /\ conn[c].got = 0 /\ conn[c].mutex = None /\ ~conn[c].idle
            /\ conn[c].node = "none" /\ conn[c].hand = "none" /\ ~conn[c].removed
            /\ ~conn[c].partial /\ conn[c].pipe = <<>>
            /\ Ending(c, "read") = 0 /\ Ending(c, "write") = 0 /\ Complete(c) = 0 /\ Held(c) = 0
            /\ Undeleted(c) = 0
  <1>1. job[h].op = "listen" /\ job[h].st = "SUCCESS" /\ job[h].conn \in Conns
    BY DEF IInv, ResultsOK, GoodJob, NewSteps, Entering, GoodResult
  <1>2. PICK c \in Conns : c = job[h].conn
    BY <1>1
  <1>3. job[h] \in Arrivals(c) /\ pc[h] \in {"listen"} \cup NewSteps /\ ArrivalIn(job[h], pc[h], c)
    BY <1>1, <1>2 DEF Arrivals, NewSteps, ArrivalIn, IInv, ShapeOK, Entering
  <1>4. Arriving(c) > 0
    BY <1>3, JNumPositive, QueueNum DEF IInv, Arriving
  <1>5. ShapeOK /\ ConnOK(c) /\ InHand(conn[c], c) /\ conn[c] \in Entry /\ Arriving(c) \in Nat
        /\ Undeleted(c) \in Nat
        /\ Ending(c, "read") \in Nat /\ Ending(c, "write") \in Nat /\ Complete(c) \in Nat
        /\ Held(c) \in Nat
    BY Given DEF IInv
  <1>6. Arriving(c) = 1 /\ conn[c].state = "accepted" /\ conn[c].memory = "unborn"
    BY <1>4, <1>5 DEF ConnOK, TrefOK
  <1>7. /\ conn[c].seq = 0 /\ conn[c].got = 0 /\ conn[c].mutex = None /\ ~conn[c].idle
        /\ conn[c].hand = "none" /\ ~conn[c].partial /\ conn[c].pipe = <<>> /\ ~conn[c].removed
    BY <1>5, <1>6 DEF ConnOK, TrefOK, InHand
  <1>8. /\ Ending(c, "read") = 0 /\ Ending(c, "write") = 0 /\ Complete(c) = 0 /\ Held(c) = 0
    BY <1>5, <1>6 DEF ConnOK, RefOK
  <1>9. conn[c].node = "none"
    BY <1>5, <1>8, NodeIsToken DEF Entry
  <1>10. Undeleted(c) = 0
    <2>1. \A k \in 1 .. MaxSeq[c] : spc[<<c, k>>] = "none"
      BY <1>5, <1>7 DEF ConnOK, SessionOK, PastOK
    <2>2. PICK P : P = {"reading", "toreply", "write", "sync", "unlock", "given", "succeed"}
      OBVIOUS
    <2>3. OfConn(c, P) \in Nat /\ (OfConn(c, P) > 0 <=> \E k \in 1 .. MaxSeq[c] : spc[<<c, k>>] \in P)
      BY OfConnFinite
    <2>4. ~(\E k \in 1 .. MaxSeq[c] : spc[<<c, k>>] \in P)
      BY <2>1, <2>2
    <2>5. Undeleted(c) = OfConn(c, P)
      BY <2>2 DEF Undeleted
    <2> QED
      BY <2>3, <2>4, <2>5
  <1>11. conn[c].tref = 1
    BY <1>5, <1>6, <1>10 DEF ConnOK, TrefOK, B
  <1> QED
    BY <1>1, <1>2, <1>3, <1>5, <1>6, <1>7, <1>8, <1>9, <1>10, <1>11

LEMMA BindingNat ==
  ASSUME ShapeOK
  PROVE  Binding \in Nat
  BY QueueNum, JNumPositive DEF B, Binding

(* It is made, or let go: made and freed, or refused. *)
Comes(h, r) ==
    /\ Entering(h) /\ spc' = spc /\ job'[h] = NoResult
    /\ r.seq = 0 /\ r.got = 0 /\ r.mutex = None /\ ~r.idle /\ r.hand = "none" /\ ~r.removed
    /\ ~r.partial /\ r.pipe = <<>>
    /\ svc'.mutex = svc.mutex /\ svc'.marking = svc.marking
    /\ svc'.alive_list = svc.alive_list /\ svc'.listening = svc.listening
    /\ \/ /\ pc[h] = "make" /\ r.state = "connected" /\ r.memory = "live" /\ r.ref = 1
          /\ r.tref = 1 /\ r.node = "read" /\ svc' = svc
       \/ /\ \/ r.state = "connected" /\ r.memory = "freed"
             \/ r.state = "accepted" /\ r.memory = "unborn"
          /\ r.tref = 0 /\ r.node = "none"
          /\ svc'.conn_count = svc.conn_count - B(pc[h] # "listen") /\ svc'.ref = svc.ref - 1
          /\ svc'.unbound = svc.unbound + B(svc.ref = 1)

LEMMA ArrivalStep ==
  ASSUME IInv, NEW h \in Handlers, NEW c \in Conns, NEW m \in Outcome, NEW r \in Entry,
         HandlerMoves(h, c, "get", m, r), Comes(h, r)
  PROVE  IInv'
  <1>0. /\ Entering(h) /\ pc[h] \in {"listen", "make", "refuse"} /\ spc' = spc /\ job'[h] = NoResult
        /\ r.seq = 0 /\ r.got = 0 /\ r.mutex = None /\ ~r.idle /\ r.hand = "none" /\ ~r.removed
        /\ ~r.partial /\ r.pipe = <<>>
        /\ svc'.mutex = svc.mutex /\ svc'.marking = svc.marking
        /\ svc'.alive_list = svc.alive_list /\ svc'.listening = svc.listening
        /\ \/ /\ pc[h] = "make" /\ r.state = "connected" /\ r.memory = "live" /\ r.ref = 1
              /\ r.tref = 1 /\ r.node = "read" /\ svc' = svc
           \/ /\ \/ r.state = "connected" /\ r.memory = "freed"
                 \/ r.state = "accepted" /\ r.memory = "unborn"
              /\ r.tref = 0 /\ r.node = "none"
              /\ svc'.conn_count = svc.conn_count - B(pc[h] # "listen") /\ svc'.ref = svc.ref - 1
              /\ svc'.unbound = svc.unbound + B(svc.ref = 1)
    BY DEF Comes, Entering
  <1>1. /\ Arriving(c) = 1 /\ ArrivalIn(job[h], pc[h], c) /\ job[h].op = "listen"
        /\ conn[c] \in Entry /\ conn[c].state = "accepted" /\ conn[c].memory = "unborn"
        /\ conn[c].tref = 1 /\ conn[c].seq = 0 /\ conn[c].mutex = None
        /\ conn[c].node = "none" /\ conn[c].pipe = <<>>
        /\ Ending(c, "read") = 0 /\ Ending(c, "write") = 0 /\ Complete(c) = 0 /\ Held(c) = 0
        /\ Undeleted(c) = 0
    BY <1>0, Arrived DEF HandlerMoves
  <1>2. /\ conn'[c] = r /\ pc'[h] = "get" /\ conn' = [conn EXCEPT ![c] = r]
        /\ svc'.node = svc.node
    BY Names DEF HandlerMoves, IInv, ShapeOK
  <1>3. ~wronged' /\ JobsElse(h) /\ h \in Threads /\ h # Main
    BY HandlerFacts
  <1>4. Binding' = Binding
    BY HandlerFacts
  <1>5. \A d \in Conns : d # c => SameAt(d)
    BY HandlerFacts
  <1>6. \A k : NoFinisher(c, k)' <=> NoFinisher(c, k)
    <2>1. pc[h] \notin {"relist", "finish"} /\ "get" \notin {"relist", "finish"} =>
             \A k : NoFinisher(c, k)' <=> NoFinisher(c, k)
      BY HandlerFacts
    <2> QED
      BY <1>0, <2>1
  <1>7. Repliers(c)' = Repliers(c) /\ Undeleted(c)' = Undeleted(c) /\ Repliers(c) \in Nat
    BY <1>0, Given DEF Repliers, Undeleted, OfConn
  <1>8. /\ NodeTokens(conn[c], c, "read") = 0 /\ NodeTokens(conn[c], c, "write") = 0
        /\ NodeTokens(r, c, "read") = B(r.node = "read")
        /\ NodeTokens(r, c, "write") = B(r.node = "write")
    BY <1>0, <1>1, NumEmpty DEF NodeTokens, B
  <1>9. Ending(c, "read")' = B(r.node = "read") /\ Ending(c, "write")' = B(r.node = "write")
    <2>1. \A op \in {"read", "write"} :
             /\ Ending(c, op)' = Ending(c, op) - NodeTokens(conn[c], c, op) + NodeTokens(r, c, op)
                                 - B(EndIn(job[h], pc[h], c, op))
             /\ NodeTokens(conn[c], c, op) \in Nat /\ NodeTokens(r, c, op) \in Nat
      BY HandlerFacts
    <2>2. \A op \in {"read", "write"} : B(EndIn(job[h], pc[h], c, op)) = 0
      BY <1>1 DEF EndIn, B
    <2>3. B(r.node = "read") \in {0, 1} /\ B(r.node = "write") \in {0, 1}
      BY BOK
    <2> QED
      BY <1>1, <1>8, <2>1, <2>2, <2>3
  <1>10. Complete(c)' = 0 /\ Held(c)' = 0 /\ Arriving(c)' = 0
    <2>1. Complete(c)' = Complete(c) - B(CompleteIn(job[h], pc[h], c))
      BY HandlerFacts
    <2>2. Held(c)' = Held(c) - Repliers(c) + Repliers(c)' - B(HeldIn(job[h], pc[h], c))
                     + B(HeldIn(m, "get", c))
      BY HandlerFacts
    <2>3. Arriving(c)' = Arriving(c) - B(ArrivalIn(job[h], pc[h], c))
      BY HandlerFacts
    <2>4. /\ B(CompleteIn(job[h], pc[h], c)) = 0 /\ B(HeldIn(job[h], pc[h], c)) = 0
          /\ B(HeldIn(m, "get", c)) = 0 /\ B(ArrivalIn(job[h], pc[h], c)) = 1
      BY <1>0, <1>1 DEF CompleteIn, HeldIn, B
    <2> QED
      <3>1. Complete(c)' = 0 /\ Arriving(c)' = 0
        <4>1. Complete(c) = 0 /\ Arriving(c) = 1
          BY <1>1
        <4>2. Complete(c)' = 0 - 0 /\ Arriving(c)' = 1 - 1
          BY <2>1, <2>3, <2>4, <4>1
        <4> QED
          BY <4>2
      <3>2. Held(c)' = 0
        BY <1>1, <1>7, <2>2, <2>4
      <3> QED
        BY <3>1, <3>2
  <1>11. ConnOK(c)'
    <2>1. ConnOK(c) /\ MaxSeq[c] \in Nat
      BY Given
    <2>2. RefOK(c)'
      BY <1>0, <1>2, <1>9, <1>10 DEF RefOK, B
    <2>3. TrefOK(c)'
      BY <1>0, <1>1, <1>2, <1>7, <1>10 DEF TrefOK, B
    <2>4. HandOK(c)' /\ StateOK(c)'
      BY <1>0, <1>2, <1>9, <1>10 DEF HandOK, InHand, StateOK, B
    <2>5. SessionOK(c)'
      BY <1>0, <1>1, <1>2, <1>6, <1>9, <1>10, <2>1 DEF ConnOK, SessionOK, PastOK, Settled, LastOK, B
    <2>6. GotOK(c)'
      BY <1>0, <1>2, <1>3 DEF GotOK
    <2> QED
      BY <2>2, <2>3, <2>4, <2>5, <2>6 DEF ConnOK
  <1>12. /\ \A t \in Threads : t # h => pc'[t] = pc[t]
         /\ pc'[Main] = pc[Main]
    BY <1>3, Names DEF HandlerMoves, IInv, ShapeOK
  <1>13. LockOK'
    BY <1>0, <1>1, <1>2, <1>3, <1>5, LockSame DEF IInv, SameAt, LockOK, JobsElse
  <1>14. DrainOK' /\ ListOK'
    BY <1>0, <1>1, <1>2, <1>4, <1>5, <1>12, ServiceSame DEF SameAt, Waits, Closing, Marking
  <1>15. /\ ShapeOK /\ BindOK /\ CountOK
         /\ svc.ref \in Int /\ svc.conn_count \in Int /\ svc.unbound \in Int
    BY DEF IInv, ShapeOK, Service
  <1>16. /\ Cardinality(HeldTargets) \in Nat /\ Cardinality(LiveConns) \in Nat
         /\ Cardinality(OpenConns) \in Nat /\ Cardinality(HeldTargets) >= 1
         /\ Cardinality(HeldTargets)' = Cardinality(HeldTargets) - 1 + B(r.tref > 0)
         /\ Cardinality(LiveConns)' = Cardinality(LiveConns) + B(r.memory = "live")
         /\ Cardinality(OpenConns)' = Cardinality(OpenConns) + B(r.memory = "live")
    <2>1. /\ Cardinality(HeldTargets) \in Nat /\ Cardinality(LiveConns) \in Nat
          /\ Cardinality(OpenConns) \in Nat
          /\ Cardinality(HeldTargets)' = Cardinality(HeldTargets) - B(conn[c].tref > 0) + B(r.tref > 0)
          /\ Cardinality(LiveConns)' = Cardinality(LiveConns)
                - B(conn[c].memory = "live") + B(r.memory = "live")
          /\ Cardinality(OpenConns)' = Cardinality(OpenConns)
                - B(conn[c].memory = "live" /\ conn[c].state # "closing")
                + B(r.memory = "live" /\ r.state # "closing")
          /\ conn[c].tref > 0 => Cardinality(HeldTargets) >= 1
      BY <1>2, <1>15, ConnCounts
    <2>2. /\ B(conn[c].tref > 0) = 1 /\ B(conn[c].memory = "live") = 0
          /\ B(conn[c].memory = "live" /\ conn[c].state # "closing") = 0
          /\ B(r.memory = "live" /\ r.state # "closing") = B(r.memory = "live")
      BY <1>0, <1>1 DEF B
    <2>3. B(r.memory = "live") \in {0, 1} /\ B(r.tref > 0) \in {0, 1}
      BY BOK
    <2> QED
      BY <1>1, <2>1, <2>2, <2>3
  <1>17. BindOK'
    <2>1. PICK n \in Nat : n = Binding
      BY BindingNat DEF IInv
    <2>2. svc.ref = n + Cardinality(HeldTargets) /\ svc.unbound = B(svc.ref = 0) /\ n <= 1
      BY <1>15, <2>1 DEF BindOK
    <2>3. svc.ref >= 1 /\ svc.unbound = 0
      BY <1>15, <1>16, <2>2 DEF B
    <2>4. svc'.ref = n + Cardinality(HeldTargets)' /\ svc'.unbound = B(svc'.ref = 0)
      <3>1. CASE svc' = svc /\ r.tref = 1
        BY <1>15, <1>16, <2>2, <2>3, <3>1 DEF B
      <3>2. CASE r.tref = 0 /\ svc'.ref = svc.ref - 1 /\ svc'.unbound = svc.unbound + B(svc.ref = 1)
        BY <1>15, <1>16, <2>2, <2>3, <3>2 DEF B
      <3> QED
        BY <1>0, <3>1, <3>2
    <2>5. (svc.node = "armed" => pc[Main] = "serving") /\ pc[Main] # "finished"
      BY <1>15, <2>3 DEF BindOK
    <2> QED
      BY <1>2, <1>4, <1>12, <2>1, <2>2, <2>4, <2>5 DEF BindOK
  <1>18. CountOK'
    <2>1. PICK n1 \in Nat, n2 \in Nat : /\ n1 = Cardinality({g \in Handlers : pc[g] \in NewSteps})
                                        /\ n2 = Cardinality({g \in Handlers : pc[g] = "make"})
      BY HandlerSets
    <2>2. /\ svc.conn_count = Cardinality(LiveConns) + n1
          /\ Cardinality(OpenConns) + n2 <= MaxConns
      BY <1>15, <2>1 DEF CountOK
    <2>3. /\ Cardinality({g \in Handlers : pc[g] \in NewSteps})' = n1 - B(pc[h] # "listen")
          /\ Cardinality({g \in Handlers : pc[g] = "make"})' = n2 - B(pc[h] = "make")
      <3>1. /\ Cardinality({g \in Handlers : pc[g] \in NewSteps})' = n1
                  - B(pc[h] \in NewSteps) + B(pc'[h] \in NewSteps)
            /\ Cardinality({g \in Handlers : pc[g] = "make"})' = n2
                  - B(pc[h] = "make") + B(pc'[h] = "make")
        BY <1>3, <2>1, HandlerSetsMove
      <3>2. /\ B(pc[h] \in NewSteps) = B(pc[h] # "listen") /\ B(pc'[h] \in NewSteps) = 0 /\ B(pc'[h] = "make") = 0
            /\ B(pc[h] = "make") \in {0, 1} /\ B(pc[h] # "listen") \in {0, 1}
        BY <1>0, <1>2 DEF NewSteps, B
      <3> QED
        BY <3>1, <3>2
    <2>4. CASE svc' = svc /\ r.memory = "live" /\ pc[h] = "make"
      BY <1>15, <1>16, <2>2, <2>3, <2>4, ServerAssumption DEF B, CountOK
    <2>5. CASE svc'.conn_count = svc.conn_count - B(pc[h] # "listen") /\ r.memory # "live"
      BY <1>15, <1>16, <2>2, <2>3, <2>5, ServerAssumption DEF B, CountOK
    <2> QED
      BY <1>0, <2>4, <2>5
  <1>19. FinishAt(h)'
    BY <1>2 DEF FinishAt
  <1> QED
    BY <1>0, <1>1, <1>2, <1>11, <1>13, <1>14, <1>17, <1>18, <1>19, HandlerStep

LEMMA MakeConnStep ==
  ASSUME IInv, NEW h \in Handlers, MakeConn(h)
  PROVE  IInv'
  <1>1. pc[h] = "make" /\ spc' = spc
    BY DEF MakeConn
  <1>2. PICK c \in Conns :
           /\ c = job[h].conn /\ conn[c] \in Entry
           /\ conn[c].state = "accepted" /\ conn[c].memory = "unborn" /\ conn[c].tref = 1
           /\ conn[c].seq = 0 /\ conn[c].got = 0 /\ conn[c].mutex = None /\ ~conn[c].idle
           /\ conn[c].node = "none" /\ conn[c].hand = "none" /\ ~conn[c].removed
           /\ ~conn[c].partial /\ conn[c].pipe = <<>>
    BY <1>1, Arrived DEF Entering
  <1>3. PICK q \in Entry : q = conn[c]
    BY <1>2
  <1>4. PICK u \in Entry :
           /\ u = [q EXCEPT !.state = "connected", !.ref = 1, !.memory = "live"]
           /\ Fields(u, "connected", 1, "live", q.seq, q.tref, q.mutex, q.idle,
                     q.node, q.hand, q.removed, q.partial, q.pipe, q.got)
    BY NewMade
  <1>5. /\ u.state = "connected" /\ u.ref = 1 /\ u.memory = "live" /\ u.seq = 0 /\ u.tref = 1
        /\ u.mutex = None /\ ~u.idle /\ u.node = "none" /\ u.hand = "none" /\ ~u.removed
        /\ ~u.partial /\ u.pipe = <<>> /\ u.got = 0
    BY <1>2, <1>3, <1>4 DEF Fields
  <1>6. PICK r \in Entry :
           /\ conn' = [conn EXCEPT ![c] = r]
           /\ \/ r = PollerAdd(u) /\ svc' = svc
              \/ r = EntryDecref(u) /\ svc' = Released(svc, u, r)
    BY <1>2, <1>3, <1>4, NewRead, NewDecref DEF MakeConn, Set
  <1>7. /\ svc' \in Service /\ svc'.node = svc.node /\ svc'.mutex = svc.mutex
        /\ svc'.marking = svc.marking /\ svc'.alive_list = svc.alive_list
        /\ svc'.listening = svc.listening
    BY <1>6, ReleasedOK DEF IInv, ShapeOK
  <1>8. PICK m \in Outcome : m = NoResult /\ m.conn = None
    BY ResultOK DEF NoResult
  <1>9. pc' = [pc EXCEPT ![h] = "get"] /\ job' = [job EXCEPT ![h] = m]
        /\ UNCHANGED <<msgqueue, wronged>>
    BY <1>8 DEF MakeConn, Done, Goto
  <1>10. HandlerMoves(h, c, "get", m, r)
    BY <1>1, <1>2, <1>6, <1>7, <1>8, <1>9 DEF IInv, ShapeOK, HandlerMoves, Entering
  <1>11. job'[h] = NoResult
    BY <1>8, <1>9 DEF IInv, ShapeOK
  <1>12. CASE r = PollerAdd(u) /\ svc' = svc
    <2>1. Fields(r, "connected", 1, "live", u.seq, u.tref, u.mutex, u.idle,
                 "read", u.hand, u.removed, FALSE, u.pipe, u.got)
      BY <1>5, <1>12, NewRead
    <2>2. Comes(h, r)
      BY <1>1, <1>5, <1>7, <1>11, <1>12, <2>1 DEF Comes, Entering, Fields
    <2> QED
      BY <1>10, <2>2, ArrivalStep
  <1>13. CASE r = EntryDecref(u) /\ svc' = Released(svc, u, r)
    BY <1>1, <1>5, <1>7, <1>10, <1>11, <1>13, NewFreed, ReleasedOK, ArrivalStep DEF Fields, IInv,
       ShapeOK, B, Comes, Entering
  <1> QED
    BY <1>6, <1>12, <1>13

LEMMA RefuseConnStep ==
  ASSUME IInv, NEW h \in Handlers, RefuseConn(h)
  PROVE  IInv'
  <1>1. pc[h] \in {"listen", "refuse"} /\ Entering(h) /\ spc' = spc
    BY DEF RefuseConn, Entering
  <1>2. PICK c \in Conns :
           /\ c = job[h].conn /\ conn[c] \in Entry
           /\ conn[c].state = "accepted" /\ conn[c].memory = "unborn" /\ conn[c].tref = 1
           /\ conn[c].seq = 0 /\ conn[c].got = 0 /\ conn[c].mutex = None /\ ~conn[c].idle
           /\ conn[c].node = "none" /\ conn[c].hand = "none" /\ ~conn[c].removed
           /\ ~conn[c].partial /\ conn[c].pipe = <<>>
    BY <1>1, Arrived
  <1>3. PICK q \in Entry : q = conn[c]
    BY <1>2
  <1>4. PICK r \in Entry :
           /\ r = TargetDecref(q)
           /\ Fields(r, q.state, q.ref, q.memory, q.seq, q.tref - 1, q.mutex, q.idle,
                     q.node, q.hand, q.removed, q.partial, q.pipe, q.got)
    BY NewTref
  <1>5. /\ r.state = "accepted" /\ r.memory = "unborn" /\ r.tref = 0 /\ r.node = "none"
        /\ r.seq = 0 /\ r.got = 0 /\ r.mutex = None /\ ~r.idle /\ r.hand = "none" /\ ~r.removed
        /\ ~r.partial /\ r.pipe = <<>>
    BY <1>2, <1>3, <1>4 DEF Fields
  <1>6. conn' = [conn EXCEPT ![c] = r] /\ svc' = Released(IF pc[h] = "refuse" THEN Uncounted(svc) ELSE svc, q, r)
    BY <1>2, <1>3, <1>4 DEF RefuseConn, Set
  <1>7. PICK v \in Service :
           /\ v = (IF pc[h] = "refuse" THEN Uncounted(svc) ELSE svc)
           /\ v.conn_count = svc.conn_count - B(pc[h] # "listen") /\ v.ref = svc.ref
           /\ v.unbound = svc.unbound /\ v.node = svc.node /\ v.mutex = svc.mutex
           /\ v.marking = svc.marking /\ v.alive_list = svc.alive_list
           /\ v.listening = svc.listening
    <2>1. svc \in Service
      BY DEF IInv, ShapeOK
    <2>2. Uncounted(svc) \in Service
      BY <2>1 DEF Uncounted, Service
    <2> QED
      BY <1>1, <2>1, <2>2 DEF Uncounted, Service, B
  <1>8. /\ svc' \in Service /\ svc'.node = svc.node /\ svc'.mutex = svc.mutex
        /\ svc'.marking = svc.marking /\ svc'.alive_list = svc.alive_list
        /\ svc'.listening = svc.listening
        /\ svc'.conn_count = svc.conn_count - B(pc[h] # "listen") - B(q.memory = "live" /\ r.memory = "freed")
        /\ svc'.ref = svc.ref - B(q.tref > 0 /\ r.tref = 0)
        /\ svc'.unbound = svc.unbound + B(q.tref > 0 /\ r.tref = 0 /\ svc.ref = 1)
    BY <1>6, <1>7, ReleasedOK
  <1>9. /\ svc'.conn_count = svc.conn_count - B(pc[h] # "listen") /\ svc'.ref = svc.ref - 1
        /\ svc'.unbound = svc.unbound + B(svc.ref = 1)
    BY <1>2, <1>3, <1>5, <1>8 DEF IInv, ShapeOK, Service, B
  <1>10. PICK m \in Outcome : m = NoResult /\ m.conn = None
    BY ResultOK DEF NoResult
  <1>11. pc' = [pc EXCEPT ![h] = "get"] /\ job' = [job EXCEPT ![h] = m]
         /\ UNCHANGED <<msgqueue, wronged>>
    BY <1>10 DEF RefuseConn, Done, Goto
  <1>12. HandlerMoves(h, c, "get", m, r)
    BY <1>1, <1>2, <1>6, <1>8, <1>10, <1>11 DEF IInv, ShapeOK, HandlerMoves
  <1>13. job'[h] = NoResult
    BY <1>10, <1>11 DEF IInv, ShapeOK
  <1>14. Comes(h, r)
    BY <1>1, <1>5, <1>8, <1>9, <1>13 DEF Comes
  <1> QED
    BY <1>12, <1>14, ArrivalStep

----------------------------------------
(* The inductive invariant holds *)

LEMMA InitIInv ==
  ASSUME Init
  PROVE  IInv
  <1>1. /\ \A c \in Conns : conn[c] = Unborn
        /\ \A s \in Sessions : spc[s] = "none"
        /\ \A h \in Handlers : pc[h] = "get" /\ job[h] = NoResult
        /\ pc[Main] = "serving" /\ msgqueue = <<>> /\ ~wronged
    BY Names DEF Init
  <1>2. /\ svc.listening /\ svc.ref = 1 /\ svc.mutex = None /\ svc.alive_list = <<>>
        /\ svc.marking = None /\ svc.conn_count = 0 /\ svc.unbound = 0 /\ svc.node = "armed"
    BY DEF Init
  <1>3. /\ Unborn.state = "none" /\ Unborn.ref = 0 /\ Unborn.memory = "unborn" /\ Unborn.seq = 0
        /\ Unborn.tref = 0 /\ Unborn.mutex = None /\ ~Unborn.idle /\ Unborn.node = "none"
        /\ Unborn.hand = "none" /\ ~Unborn.removed /\ ~Unborn.partial /\ Unborn.pipe = <<>>
        /\ Unborn.got = 0
    BY DEF Unborn
  <1>4. ShapeOK
    BY <1>1, ResultOK DEF NoResult, Unborn, Entry, Init, Stages, Service, HandlerSteps, ShapeOK
  <1>5. \A S, P : "get" \notin P => JNum(S, P) = 0
    BY <1>1, JNumPositive
  <1>6. \A S : Num(<<>>, S) = 0
    BY NumEmpty
  <1>7. \A c \in Conns : Repliers(c) = 0 /\ Undeleted(c) = 0
    <2> SUFFICES ASSUME NEW c \in Conns
                 PROVE  Repliers(c) = 0 /\ Undeleted(c) = 0
      OBVIOUS
    <2>1. \A k \in 1 .. MaxSeq[c] : spc[<<c, k>>] = "none"
      BY <1>1, SessionNames
    <2>2. ASSUME NEW P, "none" \notin P
          PROVE  OfConn(c, P) = 0
      <3>1. OfConn(c, P) \in Nat /\ (OfConn(c, P) > 0 <=> \E k \in 1 .. MaxSeq[c] : spc[<<c, k>>] \in P)
        BY OfConnFinite
      <3>2. ~(\E k \in 1 .. MaxSeq[c] : spc[<<c, k>>] \in P)
        BY <2>1, <2>2
      <3> QED
        BY <3>1, <3>2
    <2> QED
      BY <2>2 DEF Repliers, Undeleted
  <1>8. \A c \in Conns : /\ Ending(c, "read") = 0 /\ Ending(c, "write") = 0 /\ Complete(c) = 0
                         /\ Held(c) = 0 /\ Arriving(c) = 0
    BY <1>1, <1>3, <1>5, <1>6, <1>7 DEF NewSteps, NodeTokens, B, Ending, Complete, Held, Arriving
  <1>9. Binding = 1
    BY <1>1, <1>2, <1>5, <1>6 DEF Closing, Binding, B
  <1>10. ASSUME NEW c \in Conns
         PROVE  ConnOK(c)
    BY <1>1, <1>3, <1>7, <1>8, ServerAssumption, SessionNames DEF RefOK, TrefOK, B, HandOK, InHand,
       StateOK, PastOK, LastOK, SessionOK, GotOK, ConnOK
  <1>11. ResultsOK
    BY <1>1, <1>3 DEF ResultsOK, GoodJob, NewSteps, Closing
  <1>12. LockOK /\ FinishOK
    BY <1>1, <1>3, Names DEF FinishOK, FinishAt, Finishes, LockOK, Lockers
  <1>13. BindOK /\ CountOK
    <2>1. /\ HeldTargets = {} /\ LiveConns = {} /\ OpenConns = {}
          /\ {h \in Handlers : pc[h] \in NewSteps} = {} /\ {h \in Handlers : pc[h] = "make"} = {}
      BY <1>1, <1>3 DEF HeldTargets, LiveConns, OpenConns, NewSteps
    <2>2. Cardinality({}) = 0
      BY FS_EmptySet
    <2>3. BindOK
      BY <1>1, <1>2, <1>9, <2>1, <2>2 DEF BindOK, B
    <2>4. CountOK
      <3>1. MaxConns \in Nat
        BY ServerAssumption
      <3>2. svc.conn_count = 0 + 0 /\ 0 + 0 <= MaxConns
        BY <1>2, <3>1
      <3> QED
        BY <2>1, <2>2, <3>2 DEF CountOK
    <2> QED
      BY <2>3, <2>4
  <1>14. DrainOK
    BY <1>1, <1>2, Names DEF DrainOK, Marking
  <1>15. ListOK
    BY <1>1, <1>2, <1>3, <1>8, <1>9, Names DEF ToSet, IsInjective, ListOK, Closing
  <1> QED
    BY <1>4, <1>10, <1>11, <1>12, <1>13, <1>14, <1>15 DEF IInv

LEMMA Stutter ==
  ASSUME IInv, UNCHANGED vars
  PROVE  IInv'
  <1>1. /\ conn' = conn /\ svc' = svc /\ spc' = spc /\ msgqueue' = msgqueue /\ pc' = pc
        /\ job' = job /\ wronged' = wronged
    BY DEF vars
  <1>2. ShapeOK' /\ ResultsOK' /\ LockOK'
    BY <1>1 DEF IInv, ShapeOK, ResultsOK, LockOK, GoodJob
  <1>3. /\ \A c, op : Ending(c, op)' = Ending(c, op)
        /\ \A c : Complete(c)' = Complete(c) /\ Held(c)' = Held(c) /\ Arriving(c)' = Arriving(c)
                  /\ Undeleted(c)' = Undeleted(c)
        /\ Binding' = Binding
    BY <1>1 DEF Ending, NodeTokens, Complete, Held, Arriving, Undeleted, Repliers, OfConn, Binding,
                Num, JNum, Jobs
  <1>4. \A c, k : NoFinisher(c, k)' <=> NoFinisher(c, k)
    BY <1>1 DEF NoFinisher, Finishes
  <1>5. \A c \in Conns : ConnOK(c)'
    BY <1>1, <1>3, <1>4, Frame DEF SameAt, IInv, ConnOK, GotOK
  <1>6. FinishOK' /\ BindOK' /\ CountOK' /\ DrainOK' /\ ListOK'
    BY <1>1, <1>3 DEF IInv, FinishOK, FinishAt, Finishes, BindOK, CountOK, HeldTargets, LiveConns,
       OpenConns, DrainOK, ListOK
  <1> QED
    BY <1>2, <1>5, <1>6 DEF IInv

LEMMA NextIInv ==
  ASSUME IInv, [Next]_vars
  PROVE  IInv'
  <1>1. ASSUME NEW c \in Conns, Accept(c) \/ Poller(c)
        PROVE  IInv'
    BY <1>1, AcceptStep, PollerAll
  <1>2. ASSUME NEW h \in Handlers, Handler(h)
        PROVE  IInv'
    BY <1>2, TakeResultStep, NewConnectionStep, DrainOneStep, MarkOneStep, MakeConnStep,
       RefuseConnStep, ListenDeletedStep, RequestCompleteStep, RequestEndStep, ReplyWrittenStep,
       RelistStep, ReplyEndStep, FinishStep, UnrefStep DEF Handler
  <1>3. ASSUME NEW s \in Sessions, User(s)
        PROVE  IInv'
    BY <1>3, NoReplyStep, ReplyStep, WriteAllStep, WriteRestStep, WriteFailsStep, KeepAliveStep,
       ReplyUnlockStep, ReplySucceedsStep DEF User
  <1>4. ASSUME NEW t \in Threads, Closer(t)
        PROVE  IInv'
    BY <1>4, DrainAllStep, MarkAllStep, ShutdownDecrefStep DEF Closer
  <1> QED
    BY <1>1, <1>2, <1>3, <1>4, ListenEndsStep, ShutdownStep, WaitFinishStep, Stutter DEF Next

(* What IInv does not say of results: those of the listening node carry
   nothing else, and a handler still has the result that it took. *)
Plain ==
    /\ \A i \in 1 .. Len(msgqueue) :
          msgqueue[i].op = "listen" => msgqueue[i].seq = 0 /\ msgqueue[i].out = "none"
    /\ \A h \in Handlers : pc[h] \in {"relist", "finish", "unref"} =>
          \/ job[h].op = "read" /\ job[h].st \in {"SUCCESS", "ERROR", "DELETED"}
          \/ job[h].op = "write" /\ job[h].st \in {"ERROR", "DELETED", "FINISHED"}
    /\ ~wronged

(* The queue gets a plain result, or loses its first. *)
LEMMA PlainQueue ==
  ASSUME IInv, Plain, ~wronged',
         \/ msgqueue' = msgqueue
         \/ \E m \in Outcome : /\ msgqueue' = Append(msgqueue, m)
                               /\ m.op = "listen" => m.seq = 0 /\ m.out = "none"
         \/ msgqueue # <<>> /\ msgqueue' = Tail(msgqueue),
         \A h \in Handlers : pc'[h] \in {"relist", "finish", "unref"} =>
            /\ pc[h] \in EntrySteps
            /\ job'[h].op = job[h].op /\ job'[h].st = job[h].st
  PROVE  Plain'
  <1>1. msgqueue \in Seq(Outcome)
    BY DEF IInv, ShapeOK
  <1>2. \A i \in 1 .. Len(msgqueue') :
           msgqueue'[i].op = "listen" => msgqueue'[i].seq = 0 /\ msgqueue'[i].out = "none"
    BY <1>1 DEF Plain
  <1>3. \A h \in Handlers : pc[h] \in EntrySteps =>
           \/ job[h].op = "read" /\ job[h].st \in {"SUCCESS", "ERROR", "DELETED"}
           \/ job[h].op = "write" /\ job[h].st \in {"ERROR", "DELETED", "FINISHED"}
    BY DEF IInv, ResultsOK, GoodJob, Plain, EntrySteps
  <1> QED
    BY <1>2, <1>3 DEF Plain

LEMMA PlainPoller ==
  ASSUME IInv, IInv', Plain, NEW c \in Conns, Accept(c) \/ Poller(c)
  PROVE  Plain'
  <1>1. ~wronged'
    BY DEF IInv, ConnOK, GotOK
  <1>2. pc' = pc /\ job' = job
    BY DEF Accept, Poller, ReadEvent, ReadAgain, ReadEnds, CreateRequest, AppendRequest, WriteEvent,
           HandlePipe
  <1>3. ShapeOK /\ conn[c] \in Entry /\ \A i \in 1 .. Len(conn[c].pipe) : FromPipe(conn[c].pipe[i], c)
    BY Given DEF IInv
  <1>4. \A st \in {"SUCCESS", "ERROR", "FINISHED"} : \A op \in {"none", "listen", "read", "write"} :
           /\ Result(op, st, c) \in Outcome
           /\ Result(op, st, c).seq = 0 /\ Result(op, st, c).out = "none"
    BY ResultOK
  <1>5. \/ msgqueue' = msgqueue
        \/ \E m \in Outcome : /\ msgqueue' = Append(msgqueue, m)
                              /\ m.op = "listen" => m.seq = 0 /\ m.out = "none"
    <2>1. CASE \/ msgqueue' = msgqueue
               \/ \E st \in {"SUCCESS", "ERROR", "FINISHED"} :
                     \E op \in {"none", "listen", "read", "write"} :
                        msgqueue' = Append(msgqueue, Result(op, st, c))
      BY <1>4, <2>1
    <2>2. EndNode(c, "ERROR") =>
             \/ msgqueue' = msgqueue
             \/ \E op \in {"none", "listen", "read", "write"} :
                   msgqueue' = Append(msgqueue, Result(op, "ERROR", c))
      BY <1>3 DEF EndNode, Send, Entry
    <2>3. CASE Accept(c) \/ ReadEvent(c) \/ ReadAgain(c) \/ ReadEnds(c)
      BY <2>1, <2>2, <2>3 DEF Accept, ReadEvent, ReadAgain, ReadEnds, Send
    <2>4. CASE CreateRequest(c) \/ AppendRequest(c) \/ WriteEvent(c)
      BY <2>1, <2>2, <2>4 DEF CreateRequest, AppendRequest, WriteEvent, Send
    <2>5. CASE HandlePipe(c)
      <3>1. conn[c].pipe # <<>> /\ msgqueue' = Append(msgqueue, Head(conn[c].pipe))
            /\ conn[c].pipe \in Seq(Outcome)
        BY <1>3, <2>5 DEF HandlePipe, Send, Entry
      <3>2. Head(conn[c].pipe) \in Outcome /\ Head(conn[c].pipe).op # "listen"
        BY <1>3, <3>1 DEF FromPipe
      <3> QED
        BY <3>1, <3>2
    <2> QED
      BY <2>3, <2>4, <2>5 DEF Poller
  <1> QED
    BY <1>1, <1>2, <1>5, PlainQueue DEF EntrySteps

LEMMA PlainHandler ==
  ASSUME IInv, Plain, NEW h \in Handlers, Handler(h)
  PROVE  Plain'
  <1>1. /\ pc \in [Threads -> HandlerSteps \cup {"serving", "wait", "finished"}]
        /\ job \in [Handlers -> Outcome] /\ h \in Threads /\ Handlers \subseteq Threads
    BY Names DEF IInv, ShapeOK
  <1>2. ~wronged' /\ (msgqueue' = msgqueue \/ (msgqueue # <<>> /\ msgqueue' = Tail(msgqueue)))
    BY DEF Plain, Handler, TakeResult, NewConnection, DrainOne, MarkOne, MakeConn, RefuseConn,
           ListenDeleted, RequestComplete, RequestEnd, ReplyWritten, Relist, ReplyEnd, Finish, Unref
  <1>3. \A g \in Handlers : g # h => pc'[g] = pc[g] /\ job'[g] = job[g]
    BY <1>1 DEF Handler, TakeResult, NewConnection, DrainOne, MarkOne, MakeConn, RefuseConn,
           ListenDeleted, RequestComplete, RequestEnd, ReplyWritten, Relist, ReplyEnd, Finish, Unref,
           Goto, Done, Decide
  <1>4. pc'[h] \in {"relist", "finish", "unref"} =>
           pc[h] \in EntrySteps /\ job'[h].op = job[h].op /\ job'[h].st = job[h].st
    <2>1. CASE TakeResult(h)
      <3>1. Head(msgqueue) \in Outcome /\ Head(msgqueue).op \notin {"relist", "finish", "unref"}
        <4>1. msgqueue # <<>> /\ msgqueue \in Seq(Outcome)
          BY <2>1 DEF TakeResult, IInv, ShapeOK
        <4>2. Head(msgqueue) \in Outcome
          BY <4>1
        <4> QED
          BY <4>2 DEF Outcome
      <3> QED
        BY <1>1, <2>1, <3>1 DEF TakeResult, Goto
    <2>2. CASE NewConnection(h) \/ DrainOne(h) \/ MarkOne(h) \/ MakeConn(h) \/ RefuseConn(h)
                  \/ ListenDeleted(h)
      BY <1>1, <2>2 DEF NewConnection, DrainOne, MarkOne, MakeConn, RefuseConn, ListenDeleted, Goto, Done
    <2>3. CASE RequestComplete(h) \/ RequestEnd(h) \/ Relist(h) \/ ReplyEnd(h)
      BY <1>1, <2>3 DEF RequestComplete, RequestEnd, Relist, ReplyEnd, EntrySteps, Decide, Outcome,
         Done, Goto
    <2>4. CASE ReplyWritten(h) \/ Finish(h) \/ Unref(h)
      BY <1>1, <2>4 DEF ReplyWritten, Finish, Unref, EntrySteps, Goto, Done
    <2> QED
      BY <2>1, <2>2, <2>3, <2>4 DEF Handler
  <1> QED
    BY <1>2, <1>3, <1>4, PlainQueue DEF EntrySteps

THEOREM Invariant == Spec => [](IInv /\ Plain)
  <1>1. Init => IInv /\ Plain
    <2> SUFFICES ASSUME Init
                 PROVE  IInv /\ Plain
      OBVIOUS
    <2>1. /\ msgqueue = <<>> /\ ~wronged /\ \A h \in Handlers : pc[h] = "get"
      BY Names DEF Init
    <2> QED
      BY <2>1, InitIInv DEF Plain
  <1>2. IInv /\ Plain /\ [Next]_vars => (IInv /\ Plain)'
    <2> SUFFICES ASSUME IInv, Plain, [Next]_vars
                 PROVE  Plain'
      BY NextIInv
    <2>1. IInv'
      BY NextIInv
    <2>2. CASE \E c \in Conns : Accept(c) \/ Poller(c)
      BY <2>1, <2>2, PlainPoller
    <2>3. CASE \E h \in Handlers : Handler(h)
      BY <2>3, PlainHandler
    <2>4. CASE ListenEnds
      BY <2>4, ResultOK, PlainQueue DEF ListenEnds, Send, EntrySteps, Plain
    <2>5. CASE (\E s \in Sessions : User(s)) \/ WaitFinish \/ Shutdown \/ UNCHANGED vars
      <3>1. UNCHANGED <<msgqueue, job, wronged>>
        BY <2>5 DEF User, NoReply, Reply, WriteAll, WriteRest, WriteFails, KeepAlive, ReplyUnlock,
                    ReplySucceeds, WaitFinish, Shutdown, vars
      <3>2. \A h \in Handlers : pc'[h] = pc[h]
        BY <2>5, Names DEF User, NoReply, Reply, WriteAll, WriteRest, WriteFails, KeepAlive,
           ReplyUnlock, ReplySucceeds, vars, WaitFinish, Shutdown, Goto, IInv, ShapeOK
      <3> QED
        BY <3>1, <3>2 DEF Plain
    <2>6. CASE \E t \in Threads : Closer(t)
      BY <2>6, Names DEF Closer, DrainAll, MarkAll, ShutdownDecref, Goto, Done, IInv, ShapeOK, Plain
    <2> QED
      BY <2>2, <2>3, <2>4, <2>5, <2>6 DEF Next
  <1> QED
    BY <1>1, <1>2, PTL DEF Spec

----------------------------------------
(* The properties *)

LEMMA CardUnion ==
  ASSUME NEW S, NEW T, IsFiniteSet(S), IsFiniteSet(T), \A x \in S : x \notin T
  PROVE  /\ IsFiniteSet(S \cup T)
         /\ Cardinality(S) \in Nat /\ Cardinality(T) \in Nat
         /\ Cardinality(S \cup T) = Cardinality(S) + Cardinality(T)
  <1>1. S \cap T = {}
    OBVIOUS
  <1>2. Cardinality({}) = 0
    BY FS_EmptySet
  <1>3. Cardinality(S) \in Nat /\ Cardinality(T) \in Nat
    BY FS_CardinalityType
  <1>4. /\ IsFiniteSet(S \cup T)
        /\ Cardinality(S \cup T) = Cardinality(S) + Cardinality(T) - Cardinality(S \cap T)
    BY FS_Union
  <1>5. Cardinality(S \cap T) = 0
    BY <1>1, <1>2
  <1> QED
    BY <1>3, <1>4, <1>5

(* The results of an entry in a queue are its ends and its complete
   requests. *)
LEMMA OnTheirWayOK ==
  ASSUME NEW q \in Seq(Outcome), NEW c,
         \A i \in 1 .. Len(q) : q[i].conn = c => q[i].op \in {"listen", "read", "write"}
  PROVE  /\ Cardinality(OnTheirWay(q, c)) \in Nat
         /\ Cardinality(OnTheirWay(q, c))
               = Num(q, Ends(c, "read")) + Num(q, Ends(c, "write")) + Num(q, Completes(c))
  <1>1. PICK R, W, C : /\ R = {i \in 1 .. Len(q) : q[i] \in Ends(c, "read")}
                       /\ W = {i \in 1 .. Len(q) : q[i] \in Ends(c, "write")}
                       /\ C = {i \in 1 .. Len(q) : q[i] \in Completes(c)}
    OBVIOUS
  <1>2. IsFiniteSet(R) /\ IsFiniteSet(W) /\ IsFiniteSet(C)
    BY <1>1, PlacesFinite
  <1>3. /\ \A i \in R : i \notin W
        /\ \A i \in R \cup W : i \notin C
    BY <1>1 DEF Ends, Completes
  <1>4. OnTheirWay(q, c) = (R \cup W) \cup C
    BY <1>1 DEF Counts, IsEnd, IsSuccess, Ends, Completes, OnTheirWay
  <1>5. /\ IsFiniteSet(R \cup W) /\ Cardinality(R) \in Nat /\ Cardinality(W) \in Nat
        /\ Cardinality(R \cup W) = Cardinality(R) + Cardinality(W)
    BY <1>2, <1>3, CardUnion
  <1>6. /\ Cardinality(C) \in Nat
        /\ Cardinality((R \cup W) \cup C) = Cardinality(R \cup W) + Cardinality(C)
    BY <1>2, <1>3, <1>5, CardUnion
  <1> QED
    BY <1>1, <1>4, <1>5, <1>6 DEF Num

(* So are the results in the hands of handlers, which the references go
   with until the handlers are done. *)
LEMMA HandledOK ==
  ASSUME IInv, Plain, NEW c \in Conns
  PROVE  /\ Cardinality(Handled(c)) \in Nat
         /\ Cardinality(Handled(c))
               = JNum(Ends(c, "read"), {"read"}) + JNum(Ends(c, "write"), {"write"})
                 + JNum(Completes(c), {"read"}) + JNum(OfEntry(c), {"relist", "finish", "unref"})
  <1>1. PICK R, W, C, D : /\ R = Jobs(Ends(c, "read"), {"read"})
                          /\ W = Jobs(Ends(c, "write"), {"write"})
                          /\ C = Jobs(Completes(c), {"read"})
                          /\ D = Jobs(OfEntry(c), {"relist", "finish", "unref"})
    OBVIOUS
  <1>2. IsFiniteSet(R) /\ IsFiniteSet(W) /\ IsFiniteSet(C) /\ IsFiniteSet(D)
    BY <1>1, FS_Subset, ServerAssumption DEF Jobs
  <1>3. /\ \A h \in R : h \notin W
        /\ \A h \in R \cup W : h \notin C
        /\ \A h \in (R \cup W) \cup C : h \notin D
    BY <1>1 DEF Jobs, Ends, Completes
  <1>4. Handled(c) = ((R \cup W) \cup C) \cup D
    BY <1>1 DEF Handled, Jobs, IInv, ShapeOK, ResultsOK, Counts, IsEnd, IsSuccess, Ends, Completes,
       GoodJob, Plain, OfEntry
  <1>5. /\ IsFiniteSet(R \cup W) /\ Cardinality(R) \in Nat /\ Cardinality(W) \in Nat
        /\ Cardinality(R \cup W) = Cardinality(R) + Cardinality(W)
    BY <1>2, <1>3, CardUnion
  <1>6. /\ IsFiniteSet((R \cup W) \cup C) /\ Cardinality(C) \in Nat
        /\ Cardinality((R \cup W) \cup C) = Cardinality(R \cup W) + Cardinality(C)
    BY <1>2, <1>3, <1>5, CardUnion
  <1>7. /\ Cardinality(D) \in Nat
        /\ Cardinality(((R \cup W) \cup C) \cup D) = Cardinality((R \cup W) \cup C) + Cardinality(D)
    BY <1>2, <1>3, <1>6, CardUnion
  <1> QED
    BY <1>1, <1>4, <1>5, <1>6, <1>7 DEF JNum

(* The counts of the properties are those of the invariant. *)
LEMMA CountsAgree ==
  ASSUME IInv, Plain, NEW c \in Conns
  PROVE  /\ B(conn[c].node # "none") + Results(c) + Repliers(c)
               = Ending(c, "read") + Ending(c, "write") + Complete(c) + Held(c)
         /\ Results(c) \in Nat
  <1>1. ShapeOK /\ ResultsOK /\ conn[c] \in Entry /\ Repliers(c) \in Nat
    BY Given DEF IInv
  <1>2. PICK p, n : p = conn[c].pipe /\ n = conn[c].node
    OBVIOUS
  <1>3. p \in Seq(Outcome) /\ n \in {"none", "read", "write"} /\ msgqueue \in Seq(Outcome)
    BY <1>1, <1>2 DEF Entry, ShapeOK
  <1>4. /\ Cardinality(OnTheirWay(p, c)) \in Nat
        /\ Cardinality(OnTheirWay(p, c))
              = Num(p, Ends(c, "read")) + Num(p, Ends(c, "write")) + Num(p, Completes(c))
    BY <1>1, <1>2, <1>3, OnTheirWayOK DEF ResultsOK, FromPipe
  <1>5. Num(p, Completes(c)) = 0
    <2>1. \A i \in 1 .. Len(p) : p[i] \notin Completes(c)
      BY <1>1, <1>2 DEF ResultsOK, FromPipe, Completes
    <2> QED
      BY <1>3, <2>1, NumPositive
  <1>6. /\ Cardinality(OnTheirWay(msgqueue, c)) \in Nat
        /\ Cardinality(OnTheirWay(msgqueue, c))
              = Num(msgqueue, Ends(c, "read")) + Num(msgqueue, Ends(c, "write"))
                + Num(msgqueue, Completes(c))
    BY <1>1, <1>3, OnTheirWayOK DEF ResultsOK, GoodResult
  <1>7. /\ Cardinality(Handled(c)) \in Nat
        /\ Cardinality(Handled(c))
              = JNum(Ends(c, "read"), {"read"}) + JNum(Ends(c, "write"), {"write"})
                + JNum(Completes(c), {"read"}) + JNum(OfEntry(c), {"relist", "finish", "unref"})
    BY HandledOK
  <1>8. B(n # "none") = B(n = "read") + B(n = "write")
    BY <1>3 DEF B
  <1>9. \A S, P : JNum(S, P) \in Nat /\ Num(msgqueue, S) \in Nat /\ Num(p, S) \in Nat
    BY <1>1, <1>3, JNumPositive, QueueNum, NumPositive
  <1>10. B(n = "read") \in Nat /\ B(n = "write") \in Nat
    BY DEF B
  <1>11. /\ Ending(c, "read") = B(n = "read") + Num(p, Ends(c, "read"))
                                + Num(msgqueue, Ends(c, "read")) + JNum(Ends(c, "read"), {"read"})
         /\ Ending(c, "write") = B(n = "write") + Num(p, Ends(c, "write"))
                                + Num(msgqueue, Ends(c, "write")) + JNum(Ends(c, "write"), {"write"})
         /\ Complete(c) = Num(msgqueue, Completes(c)) + JNum(Completes(c), {"read"})
         /\ Held(c) = JNum(OfEntry(c), {"relist", "finish", "unref"}) + Repliers(c)
    BY <1>2 DEF Ending, NodeTokens, Complete, Held
  <1>12. Results(c) = Cardinality(OnTheirWay(p, c)) + Cardinality(OnTheirWay(msgqueue, c))
                      + Cardinality(Handled(c))
    BY <1>2 DEF Results
  <1>13. PICK a1, a2, a3, a4, b1, b2, b3, b4, c3, c4, d4 \in Nat :
           /\ a1 = B(n = "read") /\ a2 = Num(p, Ends(c, "read"))
           /\ a3 = Num(msgqueue, Ends(c, "read")) /\ a4 = JNum(Ends(c, "read"), {"read"})
           /\ b1 = B(n = "write") /\ b2 = Num(p, Ends(c, "write"))
           /\ b3 = Num(msgqueue, Ends(c, "write")) /\ b4 = JNum(Ends(c, "write"), {"write"})
           /\ c3 = Num(msgqueue, Completes(c)) /\ c4 = JNum(Completes(c), {"read"})
           /\ d4 = JNum(OfEntry(c), {"relist", "finish", "unref"})
    BY <1>9, <1>10
  <1>14. PICK e \in Nat : e = Repliers(c)
    BY <1>1
  <1>15. Results(c) = (a2 + b2) + (a3 + b3 + c3) + (a4 + b4 + c4 + d4)
    BY <1>4, <1>5, <1>6, <1>7, <1>12, <1>13
  <1>16. Ending(c, "read") + Ending(c, "write") + Complete(c) + Held(c)
            = (a1 + a2 + a3 + a4) + (b1 + b2 + b3 + b4) + (c3 + c4) + (d4 + e)
    BY <1>11, <1>13, <1>14
  <1>17. B(conn[c].node # "none") = a1 + b1
    BY <1>2, <1>8, <1>13
  <1>18. (a1 + b1) + ((a2 + b2) + (a3 + b3 + c3) + (a4 + b4 + c4 + d4)) + e
            = (a1 + a2 + a3 + a4) + (b1 + b2 + b3 + b4) + (c3 + c4) + (d4 + e)
    OBVIOUS
  <1> QED
    BY <1>14, <1>15, <1>16, <1>17, <1>18

LEMMA AcceptedAgrees ==
  ASSUME IInv, Plain, NEW c \in Conns
  PROVE  Accepted(c) <=> Arriving(c) > 0
  <1>1. ShapeOK /\ ResultsOK /\ msgqueue \in Seq(Outcome)
    BY DEF IInv, ShapeOK
  <1>2. /\ Num(msgqueue, Arrivals(c)) \in Nat
        /\ Num(msgqueue, Arrivals(c)) > 0 <=> \E i \in 1 .. Len(msgqueue) : msgqueue[i] \in Arrivals(c)
    BY <1>1, QueueNum
  <1>3. /\ JNum(Arrivals(c), {"listen"} \cup NewSteps) \in Nat
        /\ JNum(Arrivals(c), {"listen"} \cup NewSteps) > 0 <=>
              \E h \in Handlers : job[h] \in Arrivals(c) /\ pc[h] \in {"listen"} \cup NewSteps
    BY JNumPositive
  <1>4. Contains(msgqueue, Result("listen", "SUCCESS", c)) <=>
           \E i \in 1 .. Len(msgqueue) : msgqueue[i] \in Arrivals(c)
    BY <1>1, ResultOK DEF Plain, Arrivals, Outcome, Result, Contains
  <1>5. \A h \in Handlers :
           job[h].conn = c /\ pc[h] \in {"listen", "drain_one", "mark_one", "make", "refuse"} <=>
              job[h] \in Arrivals(c) /\ pc[h] \in {"listen"} \cup NewSteps
    BY <1>1, Names DEF NewSteps, Arrivals, ShapeOK, ResultsOK, GoodJob, GoodResult
  <1>6. Arriving(c) > 0 <=> \/ Num(msgqueue, Arrivals(c)) > 0
                            \/ JNum(Arrivals(c), {"listen"} \cup NewSteps) > 0
    BY <1>2, <1>3 DEF Arriving
  <1> QED
    BY <1>2, <1>3, <1>4, <1>5, <1>6 DEF Accepted

LEMMA BoundAgrees ==
  ASSUME IInv, Plain
  PROVE  Bound <=> Binding > 0
  <1>1. ShapeOK /\ ResultsOK /\ msgqueue \in Seq(Outcome)
    BY DEF IInv, ShapeOK
  <1>2. /\ Num(msgqueue, Unbinds) \in Nat
        /\ Num(msgqueue, Unbinds) > 0 <=> \E i \in 1 .. Len(msgqueue) : msgqueue[i] \in Unbinds
    BY <1>1, QueueNum
  <1>3. /\ JNum(Unbinds, {"listen"} \cup Closing) \in Nat
        /\ JNum(Unbinds, {"listen"} \cup Closing) > 0 <=>
              \E h \in Handlers : job[h] \in Unbinds /\ pc[h] \in {"listen"} \cup Closing
    BY JNumPositive
  <1>4. Contains(msgqueue, Result("listen", "DELETED", None)) <=>
           \E i \in 1 .. Len(msgqueue) : msgqueue[i] \in Unbinds
    BY <1>1, ResultOK DEF Plain, ResultsOK, Unbinds, GoodResult, Outcome, Result, Contains
  <1>5. \A h \in Handlers :
           pc[h] \in Closing \/ (pc[h] = "listen" /\ job[h].st = "DELETED") <=>
              job[h] \in Unbinds /\ pc[h] \in {"listen"} \cup Closing
    BY <1>1 DEF ShapeOK, ResultsOK, GoodJob, Unbinds, Closing
  <1>6. PICK x, y \in Nat : x = B(pc[Main] \in {"serving"} \cup Closing) /\ y = B(svc.node = "deleted")
    BY DEF B
  <1>7. (x > 0 <=> pc[Main] \in {"serving"} \cup Closing) /\ (y > 0 <=> svc.node = "deleted")
    BY <1>6 DEF B
  <1>8. Binding > 0 <=> \/ x > 0 \/ y > 0 \/ Num(msgqueue, Unbinds) > 0
                        \/ JNum(Unbinds, {"listen"} \cup Closing) > 0
    <2>1. PICK u, v \in Nat : /\ u = Num(msgqueue, Unbinds)
                              /\ v = JNum(Unbinds, {"listen"} \cup Closing)
      BY <1>2, <1>3
    <2>2. Binding = x + y + u + v
      BY <1>6, <2>1 DEF Binding
    <2> QED
      BY <2>1, <2>2
  <1> QED
    BY <1>2, <1>3, <1>4, <1>5, <1>7, <1>8 DEF Bound

(* RefsCount: the counts of entries, targets and the service are what the
   increments and decrements of Communicator.cc leave to be given back. *)
THEOREM RefsAreCounted == Spec => []RefsCount
  <1>1. IInv /\ Plain => RefsCount
    <2> SUFFICES ASSUME IInv, Plain
                 PROVE  RefsCount
      OBVIOUS
    <2>1. ASSUME NEW c \in Conns
          PROVE  LET r == conn[c] IN
                 /\ r.memory = "live" =>
                       r.ref + (IF r.state = "success" THEN 1 ELSE 0)
                         = (IF r.node = "none" THEN 0 ELSE 1) + Results(c) + Repliers(c)
                 /\ r.tref = (IF Accepted(c) \/ r.memory = "live" THEN 1 ELSE 0) + Undeleted(c)
      <3>1. PICK q \in Entry : q = conn[c]
        BY <2>1, Given
      <3>2. RefOK(c) /\ TrefOK(c) /\ Arriving(c) \in Nat /\ Undeleted(c) \in Nat
        BY <2>1, Given DEF ConnOK
      <3>3. B(q.node # "none") + Results(c) + Repliers(c)
               = Ending(c, "read") + Ending(c, "write") + Complete(c) + Held(c)
        BY <2>1, <3>1, CountsAgree
      <3>4. q.memory = "live" => q.ref + (IF q.state = "success" THEN 1 ELSE 0)
               = (IF q.node = "none" THEN 0 ELSE 1) + Results(c) + Repliers(c)
        BY <3>1, <3>2, <3>3 DEF RefOK, B
      <3>5. q.tref = (IF Accepted(c) \/ q.memory = "live" THEN 1 ELSE 0) + Undeleted(c)
        BY <2>1, <3>1, <3>2, AcceptedAgrees DEF TrefOK, B
      <3> QED
        BY <3>1, <3>4, <3>5
    <2>2. svc.ref = (IF Bound THEN 1 ELSE 0) + Cardinality({c \in Conns : conn[c].tref > 0})
      BY BindingNat, BoundAgrees DEF IInv, BindOK, HeldTargets
    <2> QED
      BY <2>1, <2>2 DEF RefsCount
  <1> QED
    BY <1>1, Invariant, PTL

(* NoUseAfterFree: release_conn and the decref of a target leave nothing
   behind that reaches what they free. *)
THEOREM FreedIsUnreached == Spec => []NoUseAfterFree
  <1>1. IInv /\ Plain => NoUseAfterFree
    <2> SUFFICES ASSUME IInv, Plain
                 PROVE  NoUseAfterFree
      OBVIOUS
    <2>1. /\ ShapeOK /\ LockOK /\ FinishOK /\ BindOK /\ CountOK /\ DrainOK /\ ListOK
      BY DEF IInv
    <2>2. ASSUME NEW c \in Conns
          PROVE  LET r == conn[c] IN
                 /\ r.memory = "freed" =>
                       /\ r.node = "none" /\ r.hand = "none" /\ Results(c) + Repliers(c) = 0
                       /\ ~r.idle /\ ~Contains(svc.alive_list, c) /\ svc.marking # c
                 /\ r.mutex # None /\ r.tref = 0 =>
                       r.mutex \in Sessions /\ spc[r.mutex] \in {"unlock", "deleted_locked"}
      <3>1. PICK q \in Entry : q = conn[c]
        BY <2>2, Given
      <3>2. /\ ConnOK(c) /\ InHand(q, c) /\ Arriving(c) \in Nat /\ Undeleted(c) \in Nat
            /\ Ending(c, "read") \in Nat /\ Ending(c, "write") \in Nat /\ Complete(c) \in Nat
            /\ Held(c) \in Nat /\ Repliers(c) \in Nat
            /\ Ending(c, "read") > 0 => q.memory = "live"
            /\ q.memory = "live" => q.tref > 0
        BY <2>2, <3>1, Given
      <3>3. ASSUME q.memory = "freed"
            PROVE  /\ q.node = "none" /\ q.hand = "none" /\ Results(c) + Repliers(c) = 0
                   /\ ~q.idle /\ ~Contains(svc.alive_list, c) /\ svc.marking # c
        <4>1. Ending(c, "read") + Ending(c, "write") + Complete(c) + Held(c) = 0
              /\ Ending(c, "read") = 0 /\ Ending(c, "write") = 0
          BY <3>1, <3>2, <3>3 DEF ConnOK, RefOK
        <4>2. q.node = "none"
          BY <2>1, <2>2, <3>1, <4>1, NodeIsToken DEF Entry
        <4>3. q.hand = "none"
          <5>1. Num(q.pipe, Ends(c, "read")) \in Nat
                /\ (Num(q.pipe, Ends(c, "read")) > 0 <=>
                       \E i \in 1 .. Len(q.pipe) : q.pipe[i] \in Ends(c, "read"))
            BY PipeNum
          <5>2. Num(q.pipe, Ends(c, "read")) = 0
            <6>1. /\ B(conn[c].node = "read") \in Nat /\ Num(conn[c].pipe, Ends(c, "read")) \in Nat
                  /\ Num(msgqueue, Ends(c, "read")) \in Nat
                  /\ JNum(Ends(c, "read"), {"read"}) \in Nat
                  /\ Ending(c, "read") = B(conn[c].node = "read") + Num(conn[c].pipe, Ends(c, "read"))
                        + Num(msgqueue, Ends(c, "read")) + JNum(Ends(c, "read"), {"read"})
              BY <2>1, <2>2, EndingParts
            <6>2. Num(conn[c].pipe, Ends(c, "read")) = 0
              <7>1. PICK a, b, d, e \in Nat :
                       /\ a = B(conn[c].node = "read") /\ b = Num(conn[c].pipe, Ends(c, "read"))
                       /\ d = Num(msgqueue, Ends(c, "read")) /\ e = JNum(Ends(c, "read"), {"read"})
                BY <6>1
              <7>2. a + b + d + e = 0
                BY <4>1, <6>1, <7>1
              <7> QED
                BY <7>1, <7>2
            <6> QED
              BY <3>1, <6>2
          <5> QED
            BY <3>2, <4>2, <5>1, <5>2 DEF InHand
        <4>4. Results(c) + Repliers(c) = 0
          <5>1. B(conn[c].node # "none") + Results(c) + Repliers(c)
                   = Ending(c, "read") + Ending(c, "write") + Complete(c) + Held(c)
                /\ Results(c) \in Nat
            BY <2>2, CountsAgree
          <5>2. B(conn[c].node # "none") = 0
            BY <3>1, <4>2 DEF B
          <5> QED
            BY <3>2, <4>1, <5>1, <5>2
        <4>5. ~q.idle
          BY <3>1, <3>2, <4>1 DEF ConnOK, StateOK
        <4>6. c \notin ToSet(svc.alive_list) /\ svc.marking # c
          BY <2>1, <2>2, <4>1, Names DEF ListOK, DrainOK
        <4>7. ~Contains(svc.alive_list, c)
          BY <2>1, <4>6, ToSetOK DEF ShapeOK, Service
        <4> QED
          BY <4>2, <4>3, <4>4, <4>5, <4>6, <4>7
      <3>4. ASSUME q.mutex # None, q.tref = 0
            PROVE  q.mutex \in Sessions /\ spc[q.mutex] \in {"unlock", "deleted_locked"}
        <4>1. q.memory # "live" /\ ~(Ending(c, "read") > 0)
          BY <3>2, <3>4
        <4>2. q.mutex \notin Handlers
          BY <2>1, <2>2, <3>1, <4>1 DEF LockOK, FinishOK, FinishAt
        <4>3. q.mutex \in Sessions /\ q.mutex = <<c, q.seq>> /\ spc[q.mutex] \in Lockers
          BY <2>1, <2>2, <3>1, <3>4, <4>2 DEF LockOK, Entry
        <4>4. ~(Undeleted(c) > 0)
          BY <3>1, <3>2, <3>4, <4>1 DEF ConnOK, TrefOK, B
        <4>5. q.seq \in 1 .. MaxSeq[c]
          BY <4>3, SessionNames
        <4>6. spc[q.mutex] \notin {"reading", "toreply", "write", "sync", "unlock", "given", "succeed"}
              \/ Undeleted(c) > 0
          BY <2>2, <4>3, <4>5, OfConnFinite DEF Undeleted
        <4> QED
          BY <4>3, <4>4, <4>6 DEF Lockers
      <3> QED
        BY <3>1, <3>3, <3>4
    <2>3. ASSUME pc[Main] = "finished"
          PROVE  /\ svc.ref = 0 /\ svc.unbound = 1 /\ svc.mutex = None
                 /\ svc.node = "none" /\ svc.conn_count = 0
                 /\ \A c \in Conns : conn[c].tref = 0 /\ ~Accepted(c)
      <3>1. svc.ref = 0 /\ svc.unbound = 1 /\ svc.ref = Binding + Cardinality(HeldTargets)
            /\ Binding \in Nat /\ svc.node # "armed"
        BY <2>1, <2>3, BindingNat DEF BindOK, B
      <3>2. IsFiniteSet(HeldTargets) /\ Cardinality(HeldTargets) \in Nat
            /\ (Cardinality(HeldTargets) > 0 <=> \E c : c \in HeldTargets)
        BY FS_Subset, ServerAssumption, CardPositive DEF HeldTargets
      <3>3. Binding = 0 /\ ~Bound
        BY <3>1, <3>2, BoundAgrees
      <3>4. \A c \in Conns : conn[c].tref = 0 /\ Arriving(c) = 0 /\ conn[c].memory # "live"
        <4> SUFFICES ASSUME NEW c \in Conns
                     PROVE  conn[c].tref = 0 /\ Arriving(c) = 0 /\ conn[c].memory # "live"
          OBVIOUS
        <4>1. ~(conn[c].tref > 0)
          BY <3>1, <3>2 DEF HeldTargets
        <4>2. /\ conn[c].tref = Arriving(c) + B(conn[c].memory = "live") + Undeleted(c)
              /\ Arriving(c) \in Nat /\ Undeleted(c) \in Nat
              /\ conn[c].memory = "live" => conn[c].tref > 0
          BY Given DEF ConnOK, TrefOK
        <4>3. B(conn[c].memory = "live") = 0
          BY <4>1, <4>2 DEF B
        <4> QED
          BY <4>1, <4>2, <4>3
      <3>5. \A h \in Handlers : pc[h] \notin NewSteps \cup Closing
        BY <3>3, <3>4, AcceptedAgrees DEF Bound, IInv, ResultsOK, GoodJob, Accepted, NewSteps
      <3>6. svc.mutex = None
        BY <2>1, <2>3, <3>5, Names DEF ShapeOK, Service, DrainOK, Marking, NewSteps, Closing
      <3>7. svc.node = "none"
        BY <2>1, <3>1, <3>3 DEF Bound, ShapeOK, Service
      <3>8. svc.conn_count = 0
        BY <2>1, <3>4, <3>5, FS_EmptySet DEF LiveConns, CountOK
      <3>9. \A c \in Conns : ~Accepted(c)
        BY <3>4, AcceptedAgrees
      <3> QED
        BY <3>1, <3>4, <3>6, <3>7, <3>8, <3>9
    <2> QED
      BY <2>2, <2>3 DEF NoUseAfterFree
  <1> QED
    BY <1>1, Invariant, PTL

(* ListedIsAlive: drain, create_request and the handlers keep alive_list
   such that drain misses no connection and finds only living ones. *)
THEOREM ListIsRight == Spec => []ListedIsAlive
  <1>1. IInv /\ Plain => ListedIsAlive
    <2> SUFFICES ASSUME IInv, Plain
                 PROVE  ListedIsAlive
      OBVIOUS
    <2>1. ShapeOK /\ ResultsOK /\ ListOK /\ msgqueue \in Seq(Outcome) /\ svc.alive_list \in Seq(Conns)
      BY DEF IInv, ShapeOK, Service
    <2>2. \A c \in ToSet(svc.alive_list) :
             conn[c].memory = "live" /\ conn[c].state = "keepalive" /\ svc.marking # c
      BY <2>1, ToSetOK, Given DEF ListOK
    <2>3. ASSUME NEW c \in Conns, conn[c].state = "keepalive", EndToCome(c)
          PROVE  Ending(c, "read") > 0
      <3>1. PICK q \in Entry : q = conn[c]
        BY <2>3, Given
      <3>2. /\ B(conn[c].node = "read") \in Nat /\ Num(conn[c].pipe, Ends(c, "read")) \in Nat
            /\ Num(msgqueue, Ends(c, "read")) \in Nat
            /\ JNum(Ends(c, "read"), {"read"}) \in Nat
            /\ Ending(c, "read") = B(conn[c].node = "read") + Num(conn[c].pipe, Ends(c, "read"))
                  + Num(msgqueue, Ends(c, "read")) + JNum(Ends(c, "read"), {"read"})
        BY <2>1, <2>3, EndingParts
      <3>3. CASE conn[c].node # "none"
        BY <2>1, <2>3, <3>1, <3>3, NodeIsToken, Given DEF ConnOK, StateOK, Entry
      <3>4. ASSUME NEW m \in Outcome, m.conn = c, m.op = "read", IsEnd(m),
                   \/ m \in ToSet(conn[c].pipe) \/ m \in ToSet(msgqueue)
                   \/ \E h \in Handlers : pc[h] = "read" /\ m = job[h]
            PROVE  Ending(c, "read") > 0
        <4>1. m \in Ends(c, "read")
          BY <3>4 DEF Ends, IsEnd
        <4>2. CASE m \in ToSet(conn[c].pipe)
          BY <3>1, <3>2, <4>1, <4>2, ToSetOK, PipeNum DEF Entry
        <4>3. CASE m \in ToSet(msgqueue)
          BY <2>1, <3>2, <4>1, <4>3, ToSetOK, QueueNum
        <4>4. CASE \E h \in Handlers : pc[h] = "read" /\ m = job[h]
          BY <3>2, <4>1, <4>4, JNumPositive
        <4> QED
          BY <3>4, <4>2, <4>3, <4>4
      <3>5. CASE \E r \in ToSet(conn[c].pipe) \cup ToSet(msgqueue)
                            \cup {job[h] : h \in Handlers \cap At("read")} :
                    r.conn = c /\ r.op = "read" /\ IsEnd(r)
        BY <2>1, <3>1, <3>4, <3>5, ToSetOK DEF Entry, ShapeOK, At
      <3> QED
        BY <2>3, <3>3, <3>5 DEF EndToCome
    <2>4. \A c : Contains(svc.alive_list, c) <=> c \in ToSet(svc.alive_list)
      BY <2>1, ToSetOK
    <2>5. ~Bound => svc.alive_list = <<>>
      BY <2>1, BoundAgrees, BindingNat DEF ListOK
    <2> QED
      BY <2>1, <2>2, <2>3, <2>4, <2>5 DEF ListedIsAlive, ListOK
  <1> QED
    BY <1>1, Invariant, PTL

(* ConnsBounded: new_connection closes a kept-alive connection, or refuses
   the new one, so that max_connections is kept. *)
THEOREM ConnsWithinLimit == Spec => []ConnsBounded
  <1>1. IInv => ConnsBounded
    BY FS_Subset, FS_CardinalityType, ServerAssumption, HandlerSets DEF IInv, CountOK, OpenConns,
       ConnsBounded
  <1> QED
    BY <1>1, Invariant, PTL

(* ServedOnce: create_request waits for the thread that still replies, and
   every session is ended by one thread. *)
THEOREM SessionsEndOnce == Spec => []ServedOnce
  <1>1. IInv /\ Plain => ServedOnce
    BY JobSeq DEF ServedOnce, NextRequestServed, EndedOnce, Plain, IInv, FinishOK, Finishes,
       FinishAt
  <1> QED
    BY <1>1, Invariant, PTL

(* NothingLeaks: a server that can do nothing more has let every connection
   go, and handle_unbound was called. *)
THEOREM AllLetGo == Spec => []NothingLeaks
  <1>1. IInv /\ Plain => NothingLeaks
    <2> SUFFICES ASSUME IInv, Plain, pc[Main] = "wait", svc.node = "none", msgqueue = <<>>,
                        \A h \in Handlers : pc[h] = "get",
                        \A s \in Sessions : spc[s] \in {"none", "deleted"},
                        \A c \in Conns : conn[c].node = "none" /\ conn[c].pipe = <<>>
                 PROVE  /\ \A c \in Conns : conn[c].memory # "live"
                        /\ svc.conn_count = 0 /\ svc.unbound = 1
      BY DEF NothingLeaks
    <2>1. \A S : Num(<<>>, S) = 0
      BY NumEmpty
    <2>2. \A S, P : "get" \notin P => JNum(S, P) = 0
      BY JNumPositive
    <2>3. \A c \in Conns : Repliers(c) = 0 /\ Undeleted(c) = 0
      <3> SUFFICES ASSUME NEW c \in Conns
                   PROVE  Repliers(c) = 0 /\ Undeleted(c) = 0
        OBVIOUS
      <3>1. \A k \in 1 .. MaxSeq[c] : spc[<<c, k>>] \in {"none", "deleted"}
        BY SessionNames
      <3>2. ASSUME NEW P, "none" \notin P, "deleted" \notin P
            PROVE  OfConn(c, P) = 0
        <4>1. OfConn(c, P) \in Nat /\ (OfConn(c, P) > 0 <=> \E k \in 1 .. MaxSeq[c] : spc[<<c, k>>] \in P)
          BY OfConnFinite
        <4>2. ~(\E k \in 1 .. MaxSeq[c] : spc[<<c, k>>] \in P)
          BY <3>1, <3>2
        <4> QED
          BY <4>1, <4>2
      <3> QED
        BY <3>2 DEF Repliers, Undeleted
    <2>4. \A c \in Conns : conn[c].memory # "live" /\ conn[c].tref = 0
      <3> SUFFICES ASSUME NEW c \in Conns
                   PROVE  conn[c].memory # "live" /\ conn[c].tref = 0
        OBVIOUS
      <3>1. ConnOK(c) /\ conn[c].ref \in Int /\ conn[c].tref \in Int
        BY Given
      <3>2. /\ JNum(Ends(c, "read"), {"read"}) = 0 /\ JNum(Ends(c, "write"), {"write"}) = 0
            /\ JNum(Completes(c), {"read"}) = 0
            /\ JNum(OfEntry(c), {"relist", "finish", "unref"}) = 0
            /\ JNum(Arrivals(c), {"listen"} \cup NewSteps) = 0
        BY <2>2 DEF NewSteps
      <3>3. NodeTokens(conn[c], c, "read") = 0 /\ NodeTokens(conn[c], c, "write") = 0
        BY <2>1 DEF NodeTokens, B
      <3>4. /\ Ending(c, "read") = 0 /\ Ending(c, "write") = 0 /\ Complete(c) = 0
            /\ Held(c) = 0 /\ Arriving(c) = 0
        BY <2>1, <2>3, <3>2, <3>3 DEF Ending, Complete, Held, Arriving
      <3>5. conn[c].memory # "live"
        BY <3>1, <3>4 DEF ConnOK, RefOK, B
      <3> QED
        BY <2>3, <3>1, <3>4, <3>5 DEF ConnOK, TrefOK, B
    <2>5. Cardinality({}) = 0
      BY FS_EmptySet
    <2>6. svc.conn_count = 0
      <3>1. LiveConns = {} /\ {h \in Handlers : pc[h] \in NewSteps} = {}
        BY <2>4 DEF LiveConns, NewSteps
      <3>2. Cardinality(LiveConns) = 0 /\ Cardinality({h \in Handlers : pc[h] \in NewSteps}) = 0
        BY <2>5, <3>1
      <3> QED
        BY <3>2 DEF IInv, CountOK
    <2>7. svc.unbound = 1
      <3>1. HeldTargets = {}
        BY <2>4 DEF HeldTargets
      <3>2. Binding = 0
        BY <2>1, <2>2 DEF Closing, Binding, B
      <3> QED
        BY <2>5, <3>1, <3>2 DEF IInv, BindOK, B
    <2> QED
      BY <2>4, <2>6, <2>7
  <1> QED
    BY <1>1, Invariant, PTL

=============================================================================
