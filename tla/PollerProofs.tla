---------------------------- MODULE PollerProofs ----------------------------
(***************************************************************************)
(* Proofs about Poller, for any descriptors, nodes, timeouts and bounds.   *)
(***************************************************************************)
EXTENDS Poller, FiniteSetTheorems, SequenceTheorems, WellFoundedInduction, TLAPS

Distinct(s) == \A i, j \in 1 .. Len(s) : s[i] = s[j] => i = j

(* In the order of their timeouts. *)
Sorted(s, f) ==
    \A i, j \in 1 .. Len(s) : i <= j => f[s[i]].timeout <= f[s[j]].timeout

Members(T) == ToSet(T.list) \cup ToSet(T.tree) \cup T.rest

TimeRecords == [list : Seq(Nodes), rest : SUBSET Nodes, tree : Seq(Nodes),
                first : Nodes \cup {None}, last : Nodes \cup {None}, timer : Nat]

NodeRecords == [fd : Fds \cup {None}, timeout : Nat,
                in_rbtree : BOOLEAN, removed : BOOLEAN]

(* The fields of a node say in which of the structures it is. *)
FieldsOK(T, f) ==
    /\ \A n \in ToSet(T.list) : f[n].timeout > 0 /\ ~f[n].in_rbtree /\ ~f[n].removed
    /\ \A n \in ToSet(T.tree) : f[n].timeout > 0 /\ f[n].in_rbtree /\ ~f[n].removed
    /\ \A n \in T.rest : f[n].timeout = 0 /\ ~f[n].in_rbtree /\ ~f[n].removed

TimeOK(T, f) ==
    /\ T \in TimeRecords
    /\ Distinct(T.list) /\ Distinct(T.tree)
    /\ Sorted(T.list, f) /\ Sorted(T.tree, f)
    /\ FieldsOK(T, f)
    /\ T.first = HeadOr(T.tree) /\ T.last = LastOr(T.tree)

(* The timerfd is set for the first timeout or earlier. *)
TimerOK(T, f) ==
    \A n \in ToSet(T.list) \cup ToSet(T.tree) : T.timer # 0 /\ T.timer <= f[n].timeout

(* The nodes whose result is only to be handed over. *)
Retired == (ToSet(pipe) \cup {blocked}) \ {None}

ShapeOK ==
    /\ node \in [Nodes -> NodeRecords]
    /\ live \subseteq Nodes
    /\ nodes \in [Fds -> Nodes \cup {None}]
    /\ pipe \in Seq(Nodes \cup {None}) /\ blocked \in Nodes \cup {None}
    /\ stopped \in BOOLEAN /\ has_pipe_event \in BOOLEAN /\ astray \in BOOLEAN
    /\ pc \in {"none", "set_timer", "wait", "events", "exit"}
    /\ stopping \in {"no", "join", "sweep", "done"}
    /\ batch \subseteq Nodes
    /\ time_node \in Nat /\ clock \in Nat \ {0} /\ calls \in Nat

PlacesOK ==
    /\ \A i, j \in 1 .. Len(pipe) : pipe[i] = pipe[j] /\ pipe[i] # None => i = j
    /\ blocked # None => blocked \notin ToSet(pipe)
    /\ \A n \in Retired : node[n].removed
    /\ live = Members(TimeNow) \cup Retired
    /\ ~astray

DescriptorsOK ==
    /\ \A f \in Fds : nodes[f] # None =>
          nodes[f] \in Members(TimeNow) /\ node[nodes[f]].fd = f
    /\ \A n \in batch : n \in live /\ node[n].fd \in Fds

ControlOK ==
    /\ pc # "events" => batch = {}
    /\ stopped => pc \in {"none", "exit"}
    /\ stopping # "no" => pc # "none"
    /\ stopping \in {"sweep", "done"} => stopped /\ pc = "exit"
    /\ stopping = "done" => pipe = <<>> /\ blocked = None

IInv == /\ ShapeOK /\ TimeOK(TimeNow, node) /\ PlacesOK /\ DescriptorsOK /\ ControlOK
        /\ pc = "wait" => TimerOK(TimeNow, node)

-----------------------------------------------------------------------------
(* Sequences *)

(* The least element of a set of natural numbers. *)
LEMMA MinOK ==
  ASSUME NEW I \in SUBSET Nat, I # {}
  PROVE  Min(I) \in I /\ \A j \in I : Min(I) <= j
  <1> DEFINE R == {ss \in Nat \X Nat : ss[1] < ss[2]}
  <1>1. IsWellFoundedOn(R, Nat)
    BY NatLessThanWellFounded DEF OpToRel
  <1>2. PICK k \in I : \A j \in I : ~(<<j, k>> \in R)
    <2> HIDE DEF R
    <2> QED
      BY <1>1, WFMin
  <1>3. ASSUME NEW j \in I PROVE k <= j
    <2>1. j \in Nat /\ k \in Nat /\ <<j, k>> \in Nat \X Nat
      OBVIOUS
    <2>2. ~(<<j, k>>[1] < <<j, k>>[2])
      BY <1>2, <2>1
    <2> QED
      BY <2>1, <2>2
  <1> QED
    BY <1>3 DEF Min

(* What SelectInSeq returns, of the places I in a sequence. *)
LEMMA FirstIn ==
  ASSUME NEW n \in Nat, NEW I \in SUBSET (1 .. n), NEW i,
         i = IF I # {} THEN Min(I) ELSE 0
  PROVE  /\ i \in 0 .. n
         /\ i = 0 => I = {}
         /\ i > 0 => i \in I
         /\ \A j \in 1 .. n : j < i => j \notin I
  <1>1. CASE I = {}
    BY <1>1
  <1>2. CASE I # {}
    <2>1. Min(I) \in I /\ \A j \in I : Min(I) <= j
      BY <1>2, MinOK
    <2>2. i \in I /\ \A j \in I : i <= j
      BY <1>2, <2>1
    <2> QED
      BY <2>2
  <1> QED
    BY <1>1, <1>2

LEMMA ToSetOK ==
  ASSUME NEW S, NEW q \in Seq(S)
  PROVE  /\ ToSet(q) = {q[i] : i \in 1 .. Len(q)} /\ Len(q) \in Nat
         /\ \A i \in 1 .. Len(q) : q[i] \in ToSet(q) /\ q[i] \in S
         /\ \A x \in ToSet(q) : \E i \in 1 .. Len(q) : q[i] = x
         /\ ToSet(q) \subseteq S
         /\ \A x : Contains(q, x) <=> x \in ToSet(q)
  <1>1. DOMAIN q = 1 .. Len(q) /\ Len(q) \in Nat
    OBVIOUS
  <1>2. ToSet(q) = {q[i] : i \in 1 .. Len(q)}
    BY <1>1 DEF ToSet
  <1> QED
    BY <1>1, <1>2 DEF Contains

LEMMA EndsOK ==
  ASSUME NEW S, NEW q \in Seq(S)
  PROVE  /\ q = <<>> <=> Len(q) = 0
         /\ q # <<>> => HeadOr(q) = q[1] /\ LastOr(q) = q[Len(q)]
         /\ q = <<>> => HeadOr(q) = None /\ LastOr(q) = None
  BY DEF HeadOr, LastOr, Last

LEMMA RemoveFirstIndex ==
  ASSUME NEW S, NEW q \in Seq(S), NEW e, e \in ToSet(q)
  PROVE  \E k \in 1 .. Len(q) : q[k] = e /\ RemoveFirst(q, e) = RemoveAt(q, k)
  <1> DEFINE I == {j \in 1 .. Len(q) : q[j] = e}
  <1>1. PICK i \in 1 .. Len(q) : q[i] = e
    BY ToSetOK
  <1>2. I \in SUBSET Nat /\ i \in I
    BY <1>1
  <1>3. Min(I) \in I
    <2> HIDE DEF I
    <2> QED
      BY <1>2, MinOK
  <1>4. RemoveFirst(q, e) = RemoveAt(q, Min(I))
    BY <1>1 DEF RemoveFirst, SelectInSeq
  <1> QED
    BY <1>3, <1>4

LEMMA RemoveFirstOK ==
  ASSUME NEW S, NEW q \in Seq(S), Distinct(q), NEW e, NEW r, r = RemoveFirst(q, e)
  PROVE  /\ r \in Seq(S) /\ Distinct(r)
         /\ ToSet(r) = ToSet(q) \ {e}
         /\ \A f : Sorted(q, f) => Sorted(r, f)
         /\ e # None => (HeadOr(q) # e => HeadOr(r) = HeadOr(q))
         /\ e # None => (LastOr(q) # e => LastOr(r) = LastOr(q))
  <1>1. CASE e \notin ToSet(q)
    <2>1. \A i \in 1 .. Len(q) : q[i] # e
      BY <1>1, ToSetOK
    <2>2. r = q
      BY <2>1 DEF RemoveFirst
    <2> QED
      BY <1>1, <2>2
  <1>2. CASE e \in ToSet(q)
    <2>1. PICK k \in 1 .. Len(q) : q[k] = e /\ r = RemoveAt(q, k)
      BY <1>2, RemoveFirstIndex
    <2>2. Len(q) \in Nat /\ k \in Nat /\ k >= 1 /\ k <= Len(q)
      OBVIOUS
    <2>3. /\ SubSeq(q, 1, k - 1) \in Seq(S) /\ Len(SubSeq(q, 1, k - 1)) = k - 1
          /\ \A i \in 1 .. k - 1 : SubSeq(q, 1, k - 1)[i] = q[i]
      BY <2>2
    <2>4. /\ SubSeq(q, k + 1, Len(q)) \in Seq(S)
          /\ Len(SubSeq(q, k + 1, Len(q))) = Len(q) - k
          /\ \A i \in 1 .. Len(q) - k : SubSeq(q, k + 1, Len(q))[i] = q[k + i]
      BY <2>2
    <2>5. /\ r \in Seq(S) /\ Len(r) = Len(q) - 1
          /\ \A i \in 1 .. Len(q) - 1 : r[i] = IF i < k THEN q[i] ELSE q[i + 1]
      <3>1. PICK a \in Seq(S) : a = SubSeq(q, 1, k - 1)
        BY <2>3
      <3>2. PICK b \in Seq(S) : b = SubSeq(q, k + 1, Len(q))
        BY <2>4
      <3>3. /\ r = a \o b /\ Len(a) = k - 1 /\ Len(b) = Len(q) - k
            /\ \A i \in 1 .. k - 1 : a[i] = q[i]
            /\ \A i \in 1 .. Len(q) - k : b[i] = q[k + i]
        BY <2>1, <2>3, <2>4, <3>1, <3>2 DEF RemoveAt
      <3>4. /\ r \in Seq(S) /\ Len(r) = Len(q) - 1
            /\ \A i \in 1 .. k - 1 : r[i] = a[i]
            /\ \A i \in k .. Len(q) - 1 : r[i] = b[i - (k - 1)]
        <4>1. /\ a \o b \in Seq(S) /\ Len(a \o b) = Len(a) + Len(b)
              /\ \A i \in 1 .. Len(a) + Len(b) :
                    (a \o b)[i] = IF i <= Len(a) THEN a[i] ELSE b[i - Len(a)]
          BY ConcatProperties
        <4> QED
          BY <2>2, <3>3, <4>1
      <3>5. \A i \in k .. Len(q) - 1 : i - (k - 1) \in 1 .. Len(q) - k /\ k + (i - (k - 1)) = i + 1
        BY <2>2
      <3>6. \A i \in k .. Len(q) - 1 : r[i] = q[i + 1]
        <4> SUFFICES ASSUME NEW i \in k .. Len(q) - 1 PROVE r[i] = q[i + 1]
          OBVIOUS
        <4>1. PICK m \in 1 .. Len(q) - k : m = i - (k - 1) /\ k + m = i + 1
          BY <3>5
        <4>2. r[i] = b[m] /\ b[m] = q[k + m]
          BY <3>3, <3>4, <4>1
        <4> QED
          BY <4>1, <4>2
      <3>7. \A i \in 1 .. k - 1 : r[i] = q[i]
        BY <3>3, <3>4
      <3>8. \A i \in 1 .. Len(q) - 1 : IF i < k THEN i \in 1 .. k - 1 ELSE i \in k .. Len(q) - 1
        BY <2>2
      <3> QED
        BY ONLY <3>4, <3>6, <3>7, <3>8
    <2> DEFINE at(i) == IF i < k THEN i ELSE i + 1
    <2>6. \A i \in 1 .. Len(r) : /\ at(i) \in 1 .. Len(q) /\ at(i) # k /\ r[i] = q[at(i)]
      BY <2>2, <2>5
    <2>7. /\ \A i, j \in 1 .. Len(r) : i <= j => at(i) <= at(j)
          /\ \A i, j \in 1 .. Len(r) : at(i) = at(j) => i = j
          /\ \A j \in 1 .. Len(q) : j # k => \E i \in 1 .. Len(r) : at(i) = j
      <3>1. /\ \A i, j \in 1 .. Len(r) : i <= j => at(i) <= at(j)
            /\ \A i, j \in 1 .. Len(r) : at(i) = at(j) => i = j
        BY <2>2, <2>5
      <3>2. ASSUME NEW j \in 1 .. Len(q), j # k PROVE \E i \in 1 .. Len(r) : at(i) = j
        <4>1. CASE j < k
          BY <2>2, <2>5, <4>1
        <4>2. CASE j > k
          <5>1. j - 1 \in 1 .. Len(r) /\ at(j - 1) = j
            BY <2>2, <2>5, <4>2
          <5> QED
            BY <5>1
        <4> QED
          BY <3>2, <4>1, <4>2
      <3> QED
        BY <3>1, <3>2
    <2> HIDE DEF at
    <2>8. Distinct(r)
      <3> SUFFICES ASSUME NEW i \in 1 .. Len(r), NEW j \in 1 .. Len(r), r[i] = r[j]
                   PROVE  i = j
        BY DEF Distinct
      <3>1. /\ at(i) \in 1 .. Len(q) /\ at(j) \in 1 .. Len(q) /\ q[at(i)] = q[at(j)]
        BY <2>6
      <3>2. at(i) = at(j)
        BY <3>1 DEF Distinct
      <3> QED
        BY <2>7, <3>2
    <2>9. ToSet(r) = ToSet(q) \ {e}
      <3>1. \A j \in 1 .. Len(q) : q[j] = e => j = k
        BY <2>1 DEF Distinct
      <3>2. ASSUME NEW x \in ToSet(r) PROVE x \in ToSet(q) \ {e}
        <4>1. PICK i \in 1 .. Len(r) : x = r[i]
          BY <2>5, ToSetOK
        <4>2. x = q[at(i)] /\ at(i) \in 1 .. Len(q) /\ q[at(i)] # e
          BY <2>6, <3>1, <4>1
        <4> QED
          BY <4>2, ToSetOK
      <3>3. ASSUME NEW x \in ToSet(q), x # e PROVE x \in ToSet(r)
        <4>1. PICK j \in 1 .. Len(q) : x = q[j]
          BY ToSetOK
        <4>2. PICK i \in 1 .. Len(r) : at(i) = j
          BY <2>1, <2>7, <3>3, <4>1
        <4>3. r[i] = x
          BY <2>6, <4>1, <4>2
        <4> QED
          BY <2>5, <4>3, ToSetOK
      <3> QED
        BY <3>2, <3>3
    <2>10. \A f : Sorted(q, f) => Sorted(r, f)
      <3> SUFFICES ASSUME NEW f, Sorted(q, f),
                          NEW i \in 1 .. Len(r), NEW j \in 1 .. Len(r), i <= j
                   PROVE  f[r[i]].timeout <= f[r[j]].timeout
        BY DEF Sorted
      <3>1. /\ at(i) \in 1 .. Len(q) /\ at(j) \in 1 .. Len(q) /\ at(i) <= at(j)
            /\ r[i] = q[at(i)] /\ r[j] = q[at(j)]
        BY <2>6, <2>7
      <3>2. f[q[at(i)]].timeout <= f[q[at(j)]].timeout
        BY ONLY <3>1, Sorted(q, f) DEF Sorted
      <3> QED
        BY <3>1, <3>2
    <2>11. ASSUME HeadOr(q) # e PROVE HeadOr(r) = HeadOr(q)
      <3>1. q # <<>> /\ q[1] # e /\ HeadOr(q) = q[1]
        BY <2>2, <2>11, EndsOK
      <3>2. k > 1 /\ r[1] = q[1] /\ r # <<>>
        BY <2>1, <2>2, <2>5, <3>1
      <3> QED
        BY <2>5, <3>1, <3>2, EndsOK
    <2>12. ASSUME LastOr(q) # e PROVE LastOr(r) = LastOr(q)
      <3>1. q # <<>> /\ q[Len(q)] # e /\ LastOr(q) = q[Len(q)]
        BY <2>2, <2>12, EndsOK
      <3>2. k < Len(q) /\ r[Len(q) - 1] = q[Len(q)] /\ r # <<>>
        BY <2>1, <2>2, <2>5, <3>1
      <3> QED
        BY <2>5, <3>1, <3>2, EndsOK
    <2> QED
      BY <2>5, <2>8, <2>9, <2>10, <2>11, <2>12
  <1> QED
    BY <1>1, <1>2

(* What is left of a sequence when its first k elements are taken. *)
LEMMA RestOK ==
  ASSUME NEW S, NEW q \in Seq(S), Distinct(q), NEW k \in 0 .. Len(q)
  PROVE  LET r == SubSeq(q, k + 1, Len(q)) IN
         /\ r \in Seq(S) /\ Distinct(r)
         /\ ToSet(r) = ToSet(q) \ {q[i] : i \in 1 .. k}
         /\ \A f : Sorted(q, f) => Sorted(r, f)
         /\ k = 0 => r = q
         /\ r # <<>> => LastOr(r) = LastOr(q)
  <1>0. PICK r : r = SubSeq(q, k + 1, Len(q))
    OBVIOUS
  <1>1. /\ Len(q) \in Nat /\ k \in Nat /\ k <= Len(q)
        /\ r \in Seq(S) /\ Len(r) = Len(q) - k
        /\ \A i \in 1 .. Len(q) - k : r[i] = q[k + i] /\ k + i \in 1 .. Len(q)
    BY <1>0
  <1>2. Distinct(r)
    BY <1>1 DEF Distinct
  <1>3. \A f : Sorted(q, f) => Sorted(r, f)
    <2> SUFFICES ASSUME NEW f, Sorted(q, f), NEW i \in 1 .. Len(r), NEW j \in 1 .. Len(r), i <= j
                 PROVE  f[r[i]].timeout <= f[r[j]].timeout
      BY DEF Sorted
    <2>1. /\ k + i \in 1 .. Len(q) /\ k + j \in 1 .. Len(q) /\ k + i <= k + j
          /\ r[i] = q[k + i] /\ r[j] = q[k + j]
      BY <1>1
    <2> QED
      BY <2>1 DEF Sorted
  <1>4. k = 0 => r = q
    BY <1>1
  <1>5. r # <<>> => LastOr(r) = LastOr(q)
    <2> SUFFICES ASSUME r # <<>> PROVE LastOr(r) = LastOr(q)
      OBVIOUS
    <2>1. Len(r) # 0
      BY <1>1
    <2>2. q # <<>> /\ r[Len(r)] = q[Len(q)]
      <3>1. Len(r) \in 1 .. Len(q) - k /\ k + Len(r) = Len(q)
        BY <1>1, <2>1
      <3>2. r[Len(r)] = q[k + Len(r)]
        BY <1>1, <3>1
      <3>3. q # <<>>
        BY <1>1, <3>1, EndsOK
      <3> QED
        BY <3>1, <3>2, <3>3
    <2> QED
      BY <1>1, <2>2, EndsOK
  <1>6. ToSet(r) = ToSet(q) \ {q[i] : i \in 1 .. k}
    <2>1. ASSUME NEW x \in ToSet(r) PROVE x \in ToSet(q) \ {q[i] : i \in 1 .. k}
      <3>1. PICK j \in 1 .. Len(r) : x = r[j]
        BY <1>1, ToSetOK
      <3>2. x = q[k + j] /\ k + j \in 1 .. Len(q)
        BY <1>1, <3>1
      <3>3. \A i \in 1 .. k : q[i] # q[k + j]
        <4>1. \A i \in 1 .. k : i \in 1 .. Len(q) /\ i # k + j
          BY <1>1, <3>1
        <4> QED
          BY <3>2, <4>1 DEF Distinct
      <3> QED
        BY <3>2, <3>3, ToSetOK
    <2>2. ASSUME NEW x \in ToSet(q), x \notin {q[i] : i \in 1 .. k} PROVE x \in ToSet(r)
      <3>1. PICK j \in 1 .. Len(q) : x = q[j]
        BY ToSetOK
      <3>2. j > k
        BY <1>1, <2>2, <3>1
      <3>3. j - k \in 1 .. Len(r) /\ r[j - k] = x
        BY <1>1, <3>1, <3>2
      <3> QED
        <4>1. PICK m \in 1 .. Len(r) : r[m] = x
          BY <3>3
        <4>2. r \in Seq(S)
          BY <1>1
        <4>3. \A l \in 1 .. Len(r) : r[l] \in ToSet(r)
          BY ONLY <4>2, ToSetOK
        <4> QED
          BY <4>1, <4>3
    <2> QED
      BY <2>1, <2>2
  <1> QED
    BY <1>0, <1>1, <1>2, <1>3, <1>4, <1>5, <1>6

(* One element more in a sequence, behind its first k. *)
Added(q, k, n, r) ==
    /\ Len(r) = Len(q) + 1
    /\ \A i \in 1 .. Len(q) + 1 :
          r[i] = IF i <= k THEN q[i] ELSE IF i = k + 1 THEN n ELSE q[i - 1]

LEMMA AppendAdds ==
  ASSUME NEW S, NEW q \in Seq(S), NEW n \in S
  PROVE  Append(q, n) \in Seq(S) /\ Added(q, Len(q), n, Append(q, n))
  BY DEF Added

LEMMA InsertAtAdds ==
  ASSUME NEW S, NEW q \in Seq(S), NEW n \in S, NEW i \in 1 .. Len(q)
  PROVE  InsertAt(q, i, n) \in Seq(S) /\ Added(q, i - 1, n, InsertAt(q, i, n))
  <1>1. Len(q) \in Nat /\ i \in Nat /\ i >= 1 /\ i <= Len(q)
    OBVIOUS
  <1>2. /\ SubSeq(q, 1, i - 1) \in Seq(S) /\ Len(SubSeq(q, 1, i - 1)) = i - 1
        /\ \A j \in 1 .. i - 1 : SubSeq(q, 1, i - 1)[j] = q[j]
    BY <1>1
  <1>3. /\ SubSeq(q, i, Len(q)) \in Seq(S) /\ Len(SubSeq(q, i, Len(q))) = Len(q) - i + 1
        /\ \A j \in 1 .. Len(q) - i + 1 : SubSeq(q, i, Len(q))[j] = q[i + j - 1]
    BY <1>1
  <1>4. PICK a \in Seq(S), b \in Seq(S) :
           /\ a = SubSeq(q, 1, i - 1) /\ b = SubSeq(q, i, Len(q))
           /\ Len(a) = i - 1 /\ \A j \in 1 .. i - 1 : a[j] = q[j]
           /\ Len(b) = Len(q) - i + 1 /\ \A j \in 1 .. Len(q) - i + 1 : b[j] = q[i + j - 1]
    BY <1>2, <1>3
  <1>5. PICK c \in Seq(S) : c = a \o <<n>>
    <2>1. <<n>> \in Seq(S)
      OBVIOUS
    <2> QED
      BY <2>1, ConcatProperties
  <1>6. Len(c) = i /\ \A j \in 1 .. i : c[j] = IF j <= i - 1 THEN q[j] ELSE n
    <2>1. <<n>> \in Seq(S) /\ Len(<<n>>) = 1 /\ <<n>>[1] = n
      OBVIOUS
    <2>2. /\ Len(a \o <<n>>) = Len(a) + Len(<<n>>)
          /\ \A j \in 1 .. Len(a) + Len(<<n>>) :
                (a \o <<n>>)[j] = IF j <= Len(a) THEN a[j] ELSE <<n>>[j - Len(a)]
      BY <2>1, ConcatProperties
    <2>3. \A j \in 1 .. i : ~(j <= i - 1) => j - (i - 1) = 1
      BY <1>1
    <2> QED
      BY <1>1, <1>4, <1>5, <2>1, <2>2, <2>3
  <1>7. PICK d : d = c \o b /\ d = InsertAt(q, i, n)
    BY <1>4, <1>5 DEF InsertAt
  <1>8. /\ d \in Seq(S) /\ Len(d) = Len(c) + Len(b)
        /\ \A j \in 1 .. Len(c) + Len(b) :
              d[j] = IF j <= Len(c) THEN c[j] ELSE b[j - Len(c)]
    <2>1. /\ c \o b \in Seq(S) /\ Len(c \o b) = Len(c) + Len(b)
          /\ \A j \in 1 .. Len(c) + Len(b) :
                (c \o b)[j] = IF j <= Len(c) THEN c[j] ELSE b[j - Len(c)]
      BY ConcatProperties
    <2> QED
      BY <1>7, <2>1
  <1>9. Len(d) = Len(q) + 1
    BY <1>1, <1>4, <1>6, <1>8
  <1>10. ASSUME NEW j \in 1 .. Len(q) + 1
         PROVE  d[j] = IF j <= i - 1 THEN q[j] ELSE IF j = i THEN n ELSE q[j - 1]
    <2>1. CASE j <= i
      BY <1>1, <1>4, <1>6, <1>8, <2>1
    <2>2. CASE j > i
      <3>1. PICK m \in 1 .. Len(q) - i + 1 : m = j - i /\ i + m - 1 = j - 1
        BY <1>1, <2>2
      <3>2. j \in 1 .. Len(c) + Len(b) /\ ~(j <= Len(c)) /\ j - Len(c) = m
        BY <1>1, <1>4, <1>6, <2>2, <3>1
      <3>3. d[j] = b[m]
        BY <1>8, <3>2
      <3>4. b[m] = q[i + m - 1]
        BY <1>4, <3>1
      <3>5. ~(j <= i - 1) /\ j # i
        BY <1>1, <2>2
      <3> QED
        BY ONLY <3>1, <3>3, <3>4, <3>5
    <2> QED
      BY <1>1, <2>1, <2>2
  <1>11. Added(q, i - 1, n, d)
    <2>1. (i - 1) + 1 = i
      BY <1>1
    <2> QED
      BY <1>9, <1>10, <2>1 DEF Added
  <1> QED
    BY <1>7, <1>8, <1>11

LEMMA AddedOK ==
  ASSUME NEW S, NEW q \in Seq(S), Distinct(q), NEW n \in S, n \notin ToSet(q),
         NEW k \in 0 .. Len(q), NEW r \in Seq(S), Added(q, k, n, r)
  PROVE  /\ Distinct(r) /\ ToSet(r) = ToSet(q) \cup {n}
         /\ HeadOr(r) = IF k = 0 THEN n ELSE HeadOr(q)
         /\ LastOr(r) = IF k = Len(q) THEN n ELSE LastOr(q)
  <1>1. /\ Len(q) \in Nat /\ k \in Nat /\ k <= Len(q) /\ Len(r) = Len(q) + 1
        /\ \A i \in 1 .. Len(q) : q[i] # n
    BY ToSetOK DEF Added
  <1>2. /\ \A i \in 1 .. k : r[i] = q[i]
        /\ r[k + 1] = n
        /\ \A i \in k + 1 .. Len(q) : r[i + 1] = q[i]
    <2>1. \A i \in 1 .. k : i \in 1 .. Len(q) + 1 /\ i <= k
      BY <1>1
    <2>2. k + 1 \in 1 .. Len(q) + 1 /\ ~(k + 1 <= k)
      BY <1>1
    <2>3. \A i \in k + 1 .. Len(q) : /\ i + 1 \in 1 .. Len(q) + 1 /\ ~(i + 1 <= k)
                                     /\ i + 1 # k + 1 /\ (i + 1) - 1 = i
      BY <1>1
    <2> QED
      BY <2>1, <2>2, <2>3 DEF Added
  <1>3. \A i \in 1 .. Len(r) :
           \/ i <= k /\ r[i] = q[i] /\ i \in 1 .. Len(q)
           \/ i = k + 1 /\ r[i] = n
           \/ i > k + 1 /\ r[i] = q[i - 1] /\ i - 1 \in 1 .. Len(q)
    BY <1>1 DEF Added
  <1>4. Distinct(r)
    <2> SUFFICES ASSUME NEW i \in 1 .. Len(r), NEW j \in 1 .. Len(r), r[i] = r[j], i < j
                 PROVE  FALSE
      BY <1>1 DEF Distinct
    <2>1. CASE j <= k
      <3>1. r[i] = q[i] /\ r[j] = q[j] /\ i \in 1 .. Len(q) /\ j \in 1 .. Len(q) /\ i # j
        BY <1>1, <1>3, <2>1
      <3> QED
        BY <3>1 DEF Distinct
    <2>2. CASE j = k + 1
      BY <1>1, <1>3, <2>2
    <2>3. CASE j > k + 1
      <3>1. r[j] = q[j - 1] /\ j - 1 \in 1 .. Len(q) /\ r[i] # n
        BY <1>1, <1>3, <2>3
      <3>2. CASE i <= k
        <4>1. q[i] = q[j - 1] /\ i \in 1 .. Len(q) /\ i # j - 1
          BY <1>1, <1>3, <2>3, <3>1, <3>2
        <4> QED
          BY <3>1, <4>1 DEF Distinct
      <3>3. CASE i > k + 1
        <4>1. q[i - 1] = q[j - 1] /\ i - 1 \in 1 .. Len(q) /\ i - 1 # j - 1
          BY <1>1, <1>3, <3>1, <3>3
        <4> QED
          BY <3>1, <4>1 DEF Distinct
      <3> QED
        BY <1>1, <1>3, <3>1, <3>2, <3>3
    <2> QED
      BY <1>1, <2>1, <2>2, <2>3
  <1>5. ToSet(r) = ToSet(q) \cup {n}
    <2>1. ASSUME NEW x \in ToSet(r) PROVE x \in ToSet(q) \cup {n}
      <3>1. PICK i \in 1 .. Len(r) : x = r[i]
        BY ToSetOK
      <3>2. x = n \/ \E j \in 1 .. Len(q) : x = q[j]
        BY <1>3, <3>1
      <3> QED
        BY <3>2, ToSetOK
    <2>2. ASSUME NEW x \in ToSet(q) PROVE x \in ToSet(r)
      <3>1. PICK i \in 1 .. Len(q) : x = q[i]
        BY ToSetOK
      <3>2. \E j \in 1 .. Len(r) : r[j] = x
        <4>1. CASE i <= k
          BY <1>1, <1>2, <3>1, <4>1
        <4>2. CASE i > k
          <5>1. i + 1 \in 1 .. Len(r) /\ r[i + 1] = x
            BY <1>1, <1>2, <3>1, <4>2
          <5> QED
            BY <5>1
        <4> QED
          BY <1>1, <4>1, <4>2
      <3> QED
        BY <3>2, ToSetOK
    <2>3. n \in ToSet(r)
      <3>1. k + 1 \in 1 .. Len(r) /\ r[k + 1] = n
        BY <1>1, <1>2
      <3> QED
        BY <3>1, ToSetOK
    <2> QED
      BY <2>1, <2>2, <2>3
  <1>6. HeadOr(r) = IF k = 0 THEN n ELSE HeadOr(q)
    <2>1. r # <<>> /\ HeadOr(r) = r[1]
      BY <1>1, EndsOK
    <2>2. k = 0 => r[1] = n
      BY <1>2
    <2>3. k # 0 => r[1] = q[1] /\ HeadOr(q) = q[1]
      BY <1>1, <1>2, EndsOK
    <2> QED
      BY <2>1, <2>2, <2>3
  <1>7. LastOr(r) = IF k = Len(q) THEN n ELSE LastOr(q)
    <2>1. r # <<>> /\ LastOr(r) = r[Len(q) + 1]
      BY <1>1, EndsOK
    <2>2. k = Len(q) => r[Len(q) + 1] = n
      BY <1>2
    <2>3. k # Len(q) => r[Len(q) + 1] = q[Len(q)] /\ LastOr(q) = q[Len(q)]
      BY <1>1, <1>2, EndsOK
    <2> QED
      BY <2>1, <2>2, <2>3
  <1> QED
    BY <1>4, <1>5, <1>6, <1>7

(* n goes in between the nodes that are not later and those that are not    *)
(* earlier; f are the fields of the others, g the new ones.                 *)
InOrder(q, k, n, r, f, g) ==
    /\ q \in Seq(Nodes) /\ r \in Seq(Nodes) /\ n \in Nodes /\ k \in 0 .. Len(q)
    /\ Added(q, k, n, r) /\ Sorted(q, f)
    /\ \A m \in ToSet(q) : f[m].timeout \in Nat /\ g[m].timeout = f[m].timeout
    /\ g[n].timeout \in Nat
    /\ \A i \in 1 .. k : f[q[i]].timeout <= g[n].timeout
    /\ \A i \in k + 1 .. Len(q) : g[n].timeout <= f[q[i]].timeout

LEMMA AddedSorted ==
  ASSUME NEW q, NEW k, NEW n, NEW r, NEW f, NEW g, InOrder(q, k, n, r, f, g)
  PROVE  Sorted(r, g)
  <1>0. /\ q \in Seq(Nodes) /\ r \in Seq(Nodes) /\ n \in Nodes /\ k \in 0 .. Len(q)
        /\ Added(q, k, n, r) /\ Sorted(q, f)
        /\ \A m \in ToSet(q) : f[m].timeout \in Nat /\ g[m].timeout = f[m].timeout
        /\ g[n].timeout \in Nat
        /\ \A i \in 1 .. k : f[q[i]].timeout <= g[n].timeout
        /\ \A i \in k + 1 .. Len(q) : g[n].timeout <= f[q[i]].timeout
    BY DEF InOrder
  <1>1. /\ Len(q) \in Nat /\ k \in Nat /\ k <= Len(q) /\ Len(r) = Len(q) + 1
        /\ \A i \in 1 .. Len(q) : /\ q[i] \in ToSet(q)
                                  /\ f[q[i]].timeout \in Nat
                                  /\ g[q[i]].timeout = f[q[i]].timeout
    BY <1>0, ToSetOK DEF Added
  <1>2. \A i \in 1 .. Len(r) :
           \/ i <= k /\ r[i] = q[i] /\ i \in 1 .. Len(q)
           \/ i = k + 1 /\ r[i] = n
           \/ i > k + 1 /\ r[i] = q[i - 1] /\ i - 1 \in k + 1 .. Len(q) /\ i - 1 \in 1 .. Len(q)
    BY <1>0, <1>1 DEF Added
  <1> SUFFICES ASSUME NEW i \in 1 .. Len(r), NEW j \in 1 .. Len(r), i <= j
               PROVE  g[r[i]].timeout <= g[r[j]].timeout
    BY DEF Sorted
  <1>3. CASE j <= k
    <2>1. /\ r[i] = q[i] /\ r[j] = q[j] /\ i \in 1 .. Len(q) /\ j \in 1 .. Len(q)
      BY <1>1, <1>2, <1>3
    <2>2. f[q[i]].timeout <= f[q[j]].timeout
      BY <1>0, <2>1 DEF Sorted
    <2> QED
      BY <1>1, <2>1, <2>2
  <1>4. CASE j = k + 1
    <2>1. r[j] = n
      BY <1>1, <1>2, <1>4
    <2>2. CASE i <= k
      <3>1. r[i] = q[i] /\ i \in 1 .. k /\ i \in 1 .. Len(q)
        BY <1>1, <1>2, <2>2
      <3> QED
        BY <1>0, <1>1, <2>1, <3>1
    <2>3. CASE i = k + 1
      BY <1>0, <1>4, <2>1, <2>3
    <2> QED
      BY <1>1, <1>4, <2>2, <2>3
  <1>5. CASE j > k + 1
    <2>1. r[j] = q[j - 1] /\ j - 1 \in k + 1 .. Len(q) /\ j - 1 \in 1 .. Len(q)
      BY <1>1, <1>2, <1>5
    <2>2. CASE i <= k
      <3>1. r[i] = q[i] /\ i \in 1 .. Len(q) /\ i <= j - 1
        BY <1>1, <1>2, <1>5, <2>2
      <3>2. f[q[i]].timeout <= f[q[j - 1]].timeout
        BY <1>0, <2>1, <3>1 DEF Sorted
      <3> QED
        BY <1>1, <2>1, <3>1, <3>2
    <2>3. CASE i = k + 1
      <3>1. r[i] = n
        BY <1>1, <1>2, <2>3
      <3>2. g[n].timeout <= f[q[j - 1]].timeout
        BY <1>0, <2>1
      <3> QED
        BY <1>1, <2>1, <3>1, <3>2
    <2>4. CASE i > k + 1
      <3>1. r[i] = q[i - 1] /\ i - 1 \in 1 .. Len(q) /\ i - 1 <= j - 1
        BY <1>1, <1>2, <2>4
      <3>2. f[q[i - 1]].timeout <= f[q[j - 1]].timeout
        BY <1>0, <2>1, <3>1 DEF Sorted
      <3> QED
        BY <1>1, <2>1, <3>1, <3>2
    <2> QED
      BY <1>1, <2>2, <2>3, <2>4
  <1> QED
    BY <1>1, <1>3, <1>4, <1>5

-----------------------------------------------------------------------------
(* The two structures of timeouts *)

(* The earliest nodes are at the front of the list and of the tree. *)
LEMMA Fronts ==
  ASSUME NEW T, NEW f, TimeOK(T, f)
  PROVE  /\ T.list # <<>> => Head(T.list) \in ToSet(T.list) /\ Last(T.list) \in ToSet(T.list)
         /\ \A m \in ToSet(T.list) : /\ T.list # <<>>
                                     /\ f[Head(T.list)].timeout <= f[m].timeout
                                     /\ f[m].timeout <= f[Last(T.list)].timeout
         /\ T.first # None => T.first \in ToSet(T.tree)
         /\ \A m \in ToSet(T.tree) : /\ T.first # None
                                     /\ f[T.first].timeout <= f[m].timeout
         /\ ToSet(T.list) \subseteq Nodes /\ ToSet(T.tree) \subseteq Nodes
         /\ T.rest \subseteq Nodes
  <1>1. /\ T.list \in Seq(Nodes) /\ T.tree \in Seq(Nodes) /\ T.rest \subseteq Nodes
        /\ Sorted(T.list, f) /\ Sorted(T.tree, f) /\ T.first = HeadOr(T.tree)
    BY DEF TimeOK, TimeRecords
  <1>2. None \notin Nodes
    BY PollerAssumption
  <1>3. ToSet(T.list) \subseteq Nodes /\ ToSet(T.tree) \subseteq Nodes
    BY <1>1, ToSetOK
  <1>4. T.list # <<>> => /\ 1 \in 1 .. Len(T.list) /\ Len(T.list) \in 1 .. Len(T.list)
                         /\ Head(T.list) = T.list[1] /\ Last(T.list) = T.list[Len(T.list)]
    BY <1>1 DEF Last
  <1>5. T.list # <<>> => Head(T.list) \in ToSet(T.list) /\ Last(T.list) \in ToSet(T.list)
    BY <1>1, <1>4, ToSetOK
  <1>6. ASSUME NEW m \in ToSet(T.list)
        PROVE  /\ T.list # <<>>
               /\ f[Head(T.list)].timeout <= f[m].timeout
               /\ f[m].timeout <= f[Last(T.list)].timeout
    <2>1. PICK i \in 1 .. Len(T.list) : m = T.list[i]
      BY <1>1, ToSetOK
    <2>2. T.list # <<>> /\ 1 <= i /\ i <= Len(T.list)
      BY <1>1, <2>1, EndsOK
    <2> QED
      BY <1>1, <1>4, <2>1, <2>2 DEF Sorted
  <1>7. T.tree # <<>> => /\ 1 \in 1 .. Len(T.tree) /\ T.first = T.tree[1]
                         /\ T.first \in ToSet(T.tree)
    <2>1. T.tree # <<>> => 1 \in 1 .. Len(T.tree) /\ T.first = T.tree[1]
      BY <1>1, EndsOK
    <2> QED
      BY <1>1, <2>1, ToSetOK
  <1>8. T.first # None => T.first \in ToSet(T.tree)
    BY <1>1, <1>7, EndsOK
  <1>9. ASSUME NEW m \in ToSet(T.tree)
        PROVE  T.first # None /\ f[T.first].timeout <= f[m].timeout
    <2>1. PICK i \in 1 .. Len(T.tree) : m = T.tree[i]
      BY <1>1, ToSetOK
    <2>2. T.tree # <<>> /\ 1 <= i
      BY <1>1, <2>1, EndsOK
    <2> QED
      BY <1>1, <1>2, <1>3, <1>7, <2>1, <2>2 DEF Sorted
  <1> QED
    BY <1>1, <1>3, <1>5, <1>6, <1>8, <1>9

(* Other nodes may change. *)
LEMMA TimeKept ==
  ASSUME NEW T, NEW f, NEW g, TimeOK(T, f), \A m \in Members(T) : g[m] = f[m]
  PROVE  /\ TimeOK(T, g)
         /\ TimerOK(T, f) => TimerOK(T, g)
  <1>1. /\ \A i \in 1 .. Len(T.list) : g[T.list[i]] = f[T.list[i]]
        /\ \A i \in 1 .. Len(T.tree) : g[T.tree[i]] = f[T.tree[i]]
    BY ToSetOK DEF TimeOK, TimeRecords, Members
  <1>2. Sorted(T.list, g) /\ Sorted(T.tree, g)
    BY <1>1 DEF TimeOK, Sorted
  <1>3. FieldsOK(T, g)
    BY DEF TimeOK, FieldsOK, Members
  <1> QED
    BY <1>2, <1>3 DEF TimeOK, TimerOK, Members

LEMMA UnlinkOK ==
  ASSUME NEW T, TimeOK(T, node), NEW n \in Nodes, NEW U, U = Unlink(T, n)
  PROVE  /\ TimeOK(U, node) /\ Members(U) = Members(T) \ {n} /\ U.timer = T.timer
         /\ TimerOK(T, node) => TimerOK(U, node)
  <1>1. /\ T \in TimeRecords /\ T.list \in Seq(Nodes) /\ T.tree \in Seq(Nodes)
        /\ T.rest \subseteq Nodes
        /\ Distinct(T.list) /\ Distinct(T.tree)
        /\ Sorted(T.list, node) /\ Sorted(T.tree, node) /\ FieldsOK(T, node)
        /\ T.first = HeadOr(T.tree) /\ T.last = LastOr(T.tree)
        /\ n # None
    BY PollerAssumption DEF TimeOK, TimeRecords
  <1>2. CASE node[n].in_rbtree
    <2>1. PICK left : left = RemoveFirst(T.tree, n)
      OBVIOUS
    <2>2. /\ left \in Seq(Nodes) /\ Distinct(left) /\ ToSet(left) = ToSet(T.tree) \ {n}
          /\ Sorted(left, node)
          /\ HeadOr(T.tree) # n => HeadOr(left) = HeadOr(T.tree)
          /\ LastOr(T.tree) # n => LastOr(left) = LastOr(T.tree)
      BY <1>1, <2>1, RemoveFirstOK
    <2>3. U = [T EXCEPT !.tree = left,
                        !.first = IF @ = n THEN HeadOr(left) ELSE @,
                        !.last = IF @ = n THEN LastOr(left) ELSE @]
      BY <1>2, <2>1 DEF Unlink, TreeErase
    <2>4. HeadOr(left) \in Nodes \cup {None} /\ LastOr(left) \in Nodes \cup {None}
      BY <2>2, EndsOK
    <2>5. /\ U \in TimeRecords /\ U.list = T.list /\ U.rest = T.rest /\ U.tree = left
          /\ U.timer = T.timer /\ U.first = HeadOr(left) /\ U.last = LastOr(left)
      BY <1>1, <2>2, <2>3, <2>4 DEF TimeRecords
    <2>6. n \notin ToSet(T.list) /\ n \notin T.rest
      BY <1>1, <1>2 DEF FieldsOK
    <2>7. FieldsOK(U, node)
      BY <1>1, <2>2, <2>5 DEF FieldsOK
    <2> QED
      BY <1>1, <2>2, <2>5, <2>6, <2>7 DEF TimeOK, Members, TimerOK
  <1>3. CASE ~node[n].in_rbtree
    <2>1. PICK left : left = RemoveFirst(T.list, n)
      OBVIOUS
    <2>2. /\ left \in Seq(Nodes) /\ Distinct(left) /\ ToSet(left) = ToSet(T.list) \ {n}
          /\ Sorted(left, node)
      BY <1>1, <2>1, RemoveFirstOK
    <2>3. U = [T EXCEPT !.list = left, !.rest = T.rest \ {n}]
      BY <1>3, <2>1 DEF Unlink
    <2>4. /\ U \in TimeRecords /\ U.list = left /\ U.rest = T.rest \ {n} /\ U.tree = T.tree
          /\ U.timer = T.timer /\ U.first = T.first /\ U.last = T.last
      BY <1>1, <2>2, <2>3 DEF TimeRecords
    <2>5. n \notin ToSet(T.tree)
      BY <1>1, <1>3 DEF FieldsOK
    <2>6. FieldsOK(U, node)
      BY <1>1, <2>2, <2>4 DEF FieldsOK
    <2> QED
      BY <1>1, <2>2, <2>4, <2>5, <2>6 DEF TimeOK, Members, TimerOK
  <1> QED
    BY <1>2, <1>3

LEMMA InsertOK ==
  ASSUME node \in [Nodes -> NodeRecords], NEW T, TimeOK(T, node),
         NEW n \in Nodes, n \notin Members(T), NEW at \in Nat,
         NEW U, U = Insert(T, n, at), NEW g,
         \A m \in Members(T) : g[m] = node[m],
         g[n].timeout = at, ~g[n].removed,
         g[n].in_rbtree = (at # 0 /\ InTree(T, at))
  PROVE  /\ TimeOK(U, g) /\ Members(U) = Members(T) \cup {n}
         /\ TimerOK(T, node) => TimerOK(U, g)
  <1>1. /\ T \in TimeRecords /\ T.list \in Seq(Nodes) /\ T.tree \in Seq(Nodes)
        /\ T.rest \subseteq Nodes /\ T.timer \in Nat
        /\ Distinct(T.list) /\ Distinct(T.tree)
        /\ Sorted(T.list, node) /\ Sorted(T.tree, node) /\ FieldsOK(T, node)
        /\ T.first = HeadOr(T.tree) /\ T.last = LastOr(T.tree)
        /\ T.first \in Nodes \cup {None} /\ T.last \in Nodes \cup {None}
        /\ n # None
    BY PollerAssumption DEF TimeOK, TimeRecords
  <1>2. /\ TimeOK(T, g)
        /\ TimerOK(T, node) => TimerOK(T, g)
    BY TimeKept
  <1>3. /\ \A m \in ToSet(T.list) \cup ToSet(T.tree) \cup T.rest :
              g[m] = node[m] /\ m # n /\ node[m].timeout \in Nat
        /\ Sorted(T.list, g) /\ Sorted(T.tree, g) /\ FieldsOK(T, g)
    <2>1. \A m \in Members(T) : g[m] = node[m] /\ m # n /\ m \in Nodes
      <3>1. ToSet(T.list) \subseteq Nodes /\ ToSet(T.tree) \subseteq Nodes
        BY <1>1, ToSetOK
      <3> QED
        BY <1>1, <3>1 DEF Members
    <2>2. \A m \in Nodes : node[m].timeout \in Nat
      BY DEF NodeRecords
    <2>3. Sorted(T.list, g) /\ Sorted(T.tree, g) /\ FieldsOK(T, g)
      BY <1>2 DEF TimeOK
    <2> QED
      BY <2>1, <2>2, <2>3 DEF Members
  <1>4. CASE at = 0
    <2>1. U = [T EXCEPT !.rest = T.rest \cup {n}]
      BY <1>4 DEF Insert
    <2>2. PICK s \in SUBSET Nodes : s = T.rest \cup {n}
      BY <1>1
    <2>3. U = [T EXCEPT !.rest = s]
      BY <2>1, <2>2
    <2>4. /\ U \in TimeRecords /\ U.list = T.list /\ U.tree = T.tree
          /\ U.rest = s /\ U.first = T.first /\ U.last = T.last
          /\ U.timer = T.timer
      BY ONLY <1>1, <2>3 DEF TimeRecords
    <2>5. FieldsOK(U, g)
      BY <1>3, <1>4, <2>2, <2>4 DEF FieldsOK
    <2> QED
      BY <1>1, <1>2, <1>3, <2>2, <2>4, <2>5 DEF TimeOK, TimerOK, Members
  <1> DEFINE timer == IF Sooner(T, at) THEN at ELSE T.timer
  (* The timerfd is set for the new node too. *)
  <1>5. ASSUME at # 0, TimerOK(T, node)
        PROVE  timer # 0 /\ timer <= at
               /\ \A m \in ToSet(T.list) \cup ToSet(T.tree) : timer <= g[m].timeout
    <2>1. /\ T.list # <<>> => Head(T.list) \in ToSet(T.list) /\ Last(T.list) \in ToSet(T.list)
          /\ \A m \in ToSet(T.list) : /\ T.list # <<>>
                                      /\ node[Head(T.list)].timeout <= node[m].timeout
                                      /\ node[m].timeout <= node[Last(T.list)].timeout
          /\ T.first # None => T.first \in ToSet(T.tree)
          /\ \A m \in ToSet(T.tree) : /\ T.first # None
                                      /\ node[T.first].timeout <= node[m].timeout
      BY Fronts
    <2>2. \A m \in ToSet(T.list) \cup ToSet(T.tree) :
             T.timer # 0 /\ T.timer <= node[m].timeout /\ node[m].timeout \in Nat
      BY <1>3, <1>5 DEF TimerOK
    <2>3. CASE Sooner(T, at)
      <3>1. /\ T.list # <<>> => at < node[Head(T.list)].timeout
            /\ T.first # None => at < node[T.first].timeout
        BY <2>3 DEF Sooner
      <3>2. \A m \in ToSet(T.list) \cup ToSet(T.tree) : at <= node[m].timeout
        <4>1. ASSUME NEW m \in ToSet(T.list) PROVE at <= node[m].timeout
          <5>1. Head(T.list) \in ToSet(T.list) /\ at < node[Head(T.list)].timeout
                /\ node[Head(T.list)].timeout <= node[m].timeout
            BY <2>1, <3>1, <4>1
          <5> QED
            BY <2>2, <5>1
        <4>2. ASSUME NEW m \in ToSet(T.tree) PROVE at <= node[m].timeout
          <5>1. T.first \in ToSet(T.tree) /\ at < node[T.first].timeout
                /\ node[T.first].timeout <= node[m].timeout
            BY <2>1, <3>1, <4>2
          <5> QED
            BY <2>2, <5>1
        <4> QED
          BY <4>1, <4>2
      <3> QED
        BY <1>3, <1>5, <2>3, <3>2
    <2>4. CASE ~Sooner(T, at)
      <3>1. \E m \in ToSet(T.list) \cup ToSet(T.tree) : node[m].timeout <= at
        <4>1. CASE T.list = <<>>
          <5>1. T.first # None /\ ~(at < node[T.first].timeout)
            BY <2>4, <4>1 DEF Sooner
          <5> QED
            BY <2>1, <2>2, <5>1
        <4>2. CASE T.list # <<>> /\ ~InTree(T, at)
          <5>1. ~(at < node[Last(T.list)].timeout) /\ Last(T.list) \in ToSet(T.list)
            BY <2>1, <4>2 DEF InTree
          <5> QED
            BY <2>2, <5>1
        <4>3. CASE T.list # <<>> /\ InTree(T, at)
          <5>1. \/ T.first # None /\ ~(at < node[T.first].timeout)
                \/ ~(at < node[Head(T.list)].timeout)
            BY <2>4, <4>3 DEF Sooner
          <5> QED
            BY <2>1, <2>2, <4>3, <5>1
        <4> QED
          BY <4>1, <4>2, <4>3
      <3>2. T.timer # 0 /\ T.timer <= at
        BY <1>1, <2>2, <3>1
      <3> QED
        BY <1>3, <2>2, <2>4, <3>2
    <2> QED
      BY <2>3, <2>4
  <1>6. timer \in Nat
    BY <1>1
  <1>7. CASE at # 0 /\ ~InTree(T, at)
    <2>1. U = [T EXCEPT !.list = Append(T.list, n), !.timer = timer]
      BY <1>7 DEF Insert, InsertNode
    <2> HIDE DEF timer
    <2>2. PICK r : r = Append(T.list, n)
      OBVIOUS
    <2>3. r \in Seq(Nodes) /\ Added(T.list, Len(T.list), n, r)
      BY <1>1, <2>2, AppendAdds
    <2>4. /\ U \in TimeRecords /\ U.list = r /\ U.tree = T.tree
          /\ U.rest = T.rest /\ U.first = T.first /\ U.last = T.last /\ U.timer = timer
      <3>1. U = [T EXCEPT !.list = r, !.timer = timer]
        BY <2>1, <2>2
      <3>2. r \in Seq(Nodes) /\ timer \in Nat
        BY <1>6, <2>3
      <3> QED
        BY ONLY <1>1, <3>1, <3>2 DEF TimeRecords
    <2>5. Len(T.list) \in 0 .. Len(T.list) /\ n \notin ToSet(T.list)
      BY <1>1, <1>3
    <2>6. Distinct(r) /\ ToSet(r) = ToSet(T.list) \cup {n}
      <3>1. /\ T.list \in Seq(Nodes) /\ Distinct(T.list) /\ n \in Nodes /\ n \notin ToSet(T.list)
            /\ Len(T.list) \in 0 .. Len(T.list)
            /\ r \in Seq(Nodes) /\ Added(T.list, Len(T.list), n, r)
        BY <1>1, <2>3, <2>5
      <3> QED
        BY ONLY <3>1, AddedOK
    <2>7. Sorted(r, g)
      <3>1. \A m \in ToSet(T.list) : node[m].timeout <= at
        <4>1. /\ T.list # <<>> => Last(T.list) \in ToSet(T.list)
              /\ \A m \in ToSet(T.list) : /\ T.list # <<>>
                                          /\ node[m].timeout <= node[Last(T.list)].timeout
          BY Fronts
        <4>2. T.list # <<>> => ~(at < node[Last(T.list)].timeout)
          BY <1>7 DEF InTree
        <4> QED
          BY <1>3, <4>1, <4>2
      <3>2. \A i \in 1 .. Len(T.list) : node[T.list[i]].timeout <= g[n].timeout
        BY <1>1, <3>1, ToSetOK
      <3>3. \A m \in ToSet(T.list) : node[m].timeout \in Nat /\ g[m].timeout = node[m].timeout
        BY <1>3
      <3>4. \A i \in Len(T.list) + 1 .. Len(T.list) : g[n].timeout <= node[T.list[i]].timeout
        <4>1. Len(T.list) \in Nat
          BY <1>1
        <4> QED
          BY <4>1
      <3>5. \A m \in ToSet(T.list) : node[m].timeout \in Nat /\ g[m].timeout = node[m].timeout
        BY <1>3
      <3>6. /\ Sorted(T.list, node) /\ T.list \in Seq(Nodes) /\ g[n].timeout \in Nat
            /\ r \in Seq(Nodes) /\ Added(T.list, Len(T.list), n, r)
            /\ Len(T.list) \in 0 .. Len(T.list) /\ n \in Nodes
        BY <1>1, <2>3, <2>5
      <3>7. InOrder(T.list, Len(T.list), n, r, node, g)
        BY ONLY <3>2, <3>4, <3>5, <3>6 DEF InOrder
      <3> QED
        BY ONLY <3>7, AddedSorted
    <2>8. FieldsOK(U, g)
      <3>1. g[n].timeout > 0 /\ ~g[n].in_rbtree /\ ~g[n].removed
        <4>1. g[n].timeout > 0
          BY <1>7
        <4>2. ~g[n].in_rbtree /\ ~g[n].removed
          BY <1>7, Zenon
        <4> QED
          BY <4>1, <4>2
      <3> QED
        BY <1>3, <2>4, <2>6, <3>1 DEF FieldsOK
    <2>9. TimeOK(U, g) /\ Members(U) = Members(T) \cup {n}
      BY <1>1, <1>3, <2>4, <2>6, <2>7, <2>8 DEF TimeOK, Members
    <2>10. ASSUME TimerOK(T, node) PROVE TimerOK(U, g)
      BY <1>5, <1>7, <2>4, <2>6, <2>10 DEF TimerOK
    <2> QED
      BY <2>9, <2>10
  <1>8. CASE at # 0 /\ InTree(T, at)
    <2> DEFINE I == {j \in 1 .. Len(T.tree) : node[T.tree[j]].timeout > at}
    <2>1. PICK i : /\ i = SelectInSeq(T.tree, LAMBDA m : node[m].timeout > at)
                   /\ i = IF I # {} THEN Min(I) ELSE 0
      BY DEF SelectInSeq
    <2>2. PICK r : r = IF i = 0 THEN Append(T.tree, n) ELSE InsertAt(T.tree, i, n)
      OBVIOUS
    <2>3. U = [T EXCEPT !.tree = r,
                        !.first = IF i = 1 \/ T.tree = <<>> THEN n ELSE T.first,
                        !.last = IF i = 0 THEN n ELSE T.last,
                        !.timer = timer]
      BY <1>8, <2>1, <2>2 DEF Insert, InsertNode, TreeInsert
    <2> HIDE DEF timer
    <2>4. Len(T.tree) \in Nat
      BY <1>1
    <2>5. /\ i \in 0 .. Len(T.tree)
          /\ i = 0 => I = {}
          /\ i > 0 => i \in I
          /\ \A j \in 1 .. Len(T.tree) : j < i => j \notin I
      <3>1. I \in SUBSET (1 .. Len(T.tree))
        OBVIOUS
      <3> HIDE DEF I
      <3> QED
        BY <2>1, <2>4, <3>1, FirstIn
    <2>6. PICK k \in 0 .. Len(T.tree) : k = IF i = 0 THEN Len(T.tree) ELSE i - 1
      BY <2>4, <2>5
    <2>7. r \in Seq(Nodes) /\ Added(T.tree, k, n, r)
      <3>1. CASE i = 0
        BY <1>1, <2>2, <2>6, <3>1, AppendAdds
      <3>2. CASE i # 0
        <4>1. i \in 1 .. Len(T.tree)
          BY <2>4, <2>5, <3>2
        <4> QED
          BY <1>1, <2>2, <2>6, <3>2, <4>1, InsertAtAdds
      <3> QED
        BY <3>1, <3>2
    <2>8. n \notin ToSet(T.tree)
      BY <1>3
    <2>9. /\ Distinct(r) /\ ToSet(r) = ToSet(T.tree) \cup {n}
          /\ HeadOr(r) = IF k = 0 THEN n ELSE HeadOr(T.tree)
          /\ LastOr(r) = IF k = Len(T.tree) THEN n ELSE LastOr(T.tree)
      BY <1>1, <2>7, <2>8, AddedOK
    <2>10. /\ U \in TimeRecords /\ U.list = T.list /\ U.tree = r /\ U.rest = T.rest
           /\ U.first = IF i = 1 \/ T.tree = <<>> THEN n ELSE T.first
           /\ U.last = IF i = 0 THEN n ELSE T.last
           /\ U.timer = timer
      BY <1>1, <1>6, <2>3, <2>7 DEF TimeRecords
    <2>11. U.first = HeadOr(r) /\ U.last = LastOr(r)
      <3>1. (T.tree = <<>>) <=> (Len(T.tree) = 0)
        BY <1>1
      <3>2. (k = 0) <=> (i = 1 \/ T.tree = <<>>)
        BY <2>4, <2>5, <2>6, <3>1
      <3>3. (k = Len(T.tree)) <=> (i = 0)
        BY <2>4, <2>5, <2>6
      <3> QED
        BY <1>1, <2>9, <2>10, <3>2, <3>3
    <2>12. Sorted(r, g)
      <3>1. /\ \A m \in ToSet(T.tree) : node[m].timeout \in Nat /\ g[m].timeout = node[m].timeout
            /\ \A j \in 1 .. Len(T.tree) : node[T.tree[j]].timeout \in Nat
        BY <1>1, <1>3, ToSetOK
      <3>2. ASSUME NEW j \in 1 .. k PROVE node[T.tree[j]].timeout <= g[n].timeout
        <4>1. j \in 1 .. Len(T.tree) /\ j \notin I
          BY <2>4, <2>5, <2>6
        <4> QED
          BY <3>1, <4>1
      <3>3. ASSUME NEW j \in k + 1 .. Len(T.tree) PROVE g[n].timeout <= node[T.tree[j]].timeout
        <4>1. i # 0 /\ i \in I /\ i <= j /\ i \in 1 .. Len(T.tree) /\ j \in 1 .. Len(T.tree)
          BY <2>4, <2>5, <2>6
        <4>2. node[T.tree[i]].timeout <= node[T.tree[j]].timeout
          BY <1>1, <4>1 DEF Sorted
        <4>3. node[T.tree[i]].timeout > at
          BY <4>1
        <4>4. node[T.tree[i]].timeout \in Nat /\ node[T.tree[j]].timeout \in Nat
          BY <3>1, <4>1
        <4> QED
          BY ONLY at \in Nat, g[n].timeout = at, <4>2, <4>3, <4>4
      <3>4. \A j \in 1 .. k : node[T.tree[j]].timeout <= g[n].timeout
        BY <3>2
      <3>5. \A j \in k + 1 .. Len(T.tree) : g[n].timeout <= node[T.tree[j]].timeout
        BY <3>3
      <3>6. \A m \in ToSet(T.tree) : node[m].timeout \in Nat /\ g[m].timeout = node[m].timeout
        BY <1>3
      <3>7. /\ Sorted(T.tree, node) /\ T.tree \in Seq(Nodes) /\ g[n].timeout \in Nat
            /\ r \in Seq(Nodes) /\ Added(T.tree, k, n, r)
            /\ k \in 0 .. Len(T.tree) /\ n \in Nodes
        BY <1>1, <2>7
      <3>8. InOrder(T.tree, k, n, r, node, g)
        BY ONLY <3>4, <3>5, <3>6, <3>7 DEF InOrder
      <3> QED
        BY ONLY <3>8, AddedSorted
    <2>13. FieldsOK(U, g)
      <3>1. g[n].timeout > 0 /\ g[n].in_rbtree /\ ~g[n].removed
        <4>1. g[n].timeout > 0
          BY <1>8
        <4>2. g[n].in_rbtree /\ ~g[n].removed
          BY <1>8, Zenon
        <4> QED
          BY <4>1, <4>2
      <3> QED
        BY <1>3, <2>9, <2>10, <3>1 DEF FieldsOK
    <2>14. TimeOK(U, g) /\ Members(U) = Members(T) \cup {n}
      BY <1>1, <1>3, <2>7, <2>9, <2>10, <2>11, <2>12, <2>13 DEF TimeOK, Members
    <2>15. ASSUME TimerOK(T, node) PROVE TimerOK(U, g)
      BY <1>5, <1>8, <2>9, <2>10, <2>15 DEF TimerOK
    <2> QED
      BY <2>14, <2>15
  <1> QED
    BY <1>4, <1>7, <1>8

LEMMA SetTimeOK ==
  ASSUME NEW U, U \in TimeRecords, SetTime(U)
  PROVE  TimeNow' = U
  BY DEF SetTime, TimeNow, TimeRecords

-----------------------------------------------------------------------------
(* What the invariant says of the places of the nodes *)

LEMMA PlacesFacts ==
  ASSUME IInv
  PROVE  /\ TimeNow \in TimeRecords /\ Members(TimeNow) \subseteq Nodes
         /\ None \notin Nodes /\ None \notin Fds
         /\ Retired \subseteq Nodes /\ Retired \cap Members(TimeNow) = {}
         /\ \A m \in Members(TimeNow) : ~node[m].removed
         /\ ToSet(pipe) \subseteq Nodes \cup {None}
         /\ stopped => batch = {}
  <1>1. TimeNow \in TimeRecords /\ FieldsOK(TimeNow, node)
    BY DEF IInv, TimeOK
  <1>2. None \notin Nodes /\ None \notin Fds
    BY PollerAssumption
  <1>3. ToSet(TimeNow.list) \subseteq Nodes /\ ToSet(TimeNow.tree) \subseteq Nodes
        /\ TimeNow.rest \subseteq Nodes
    BY Fronts DEF IInv
  <1>4. Members(TimeNow) \subseteq Nodes
    BY <1>3 DEF Members
  <1>5. \A m \in Members(TimeNow) : ~node[m].removed
    BY <1>1 DEF FieldsOK, Members
  <1>6. ToSet(pipe) \subseteq Nodes \cup {None}
    BY ToSetOK DEF IInv, ShapeOK
  <1>7. Retired \subseteq Nodes
    BY <1>6 DEF IInv, ShapeOK, Retired
  <1>8. Retired \cap Members(TimeNow) = {}
    BY <1>5 DEF IInv, PlacesOK
  <1>9. stopped => batch = {}
    BY DEF IInv, ControlOK
  <1> QED
    BY <1>1, <1>2, <1>4, <1>5, <1>6, <1>7, <1>8, <1>9

LEMMA AppendOK ==
  ASSUME NEW S, NEW q \in Seq(S), NEW n \in S
  PROVE  /\ Append(q, n) \in Seq(S) /\ Len(Append(q, n)) = Len(q) + 1 /\ Len(q) \in Nat
         /\ \A i \in 1 .. Len(q) : Append(q, n)[i] = q[i]
         /\ Append(q, n)[Len(q) + 1] = n
         /\ ToSet(Append(q, n)) = ToSet(q) \cup {n}
  <1>0. PICK r : r = Append(q, n)
    OBVIOUS
  <1>1. /\ r \in Seq(S) /\ Len(r) = Len(q) + 1 /\ Len(q) \in Nat
        /\ \A i \in 1 .. Len(q) : r[i] = q[i]
        /\ r[Len(q) + 1] = n
    BY <1>0
  <1>2. ASSUME NEW x \in ToSet(r) PROVE x \in ToSet(q) \cup {n}
    <2>1. PICK i \in 1 .. Len(r) : x = r[i]
      <3>1. \A y \in ToSet(r) : \E i \in 1 .. Len(r) : r[i] = y
        BY ONLY <1>1, ToSetOK
      <3> QED
        BY <3>1
    <2>2. x = n \/ \E j \in 1 .. Len(q) : x = q[j]
      BY <1>1, <2>1
    <2> QED
      BY <2>2, ToSetOK
  <1>3. ASSUME NEW x \in ToSet(q) PROVE x \in ToSet(r)
    <2>1. PICK i \in 1 .. Len(q) : x = q[i]
      BY ToSetOK
    <2>2. PICK j \in 1 .. Len(r) : x = r[j]
      BY <1>1, <2>1
    <2>3. \A l \in 1 .. Len(r) : r[l] \in ToSet(r)
      BY ONLY <1>1, ToSetOK
    <2> QED
      BY <2>2, <2>3
  <1>4. n \in ToSet(r)
    <2>1. PICK j \in 1 .. Len(r) : n = r[j]
      BY <1>1
    <2>2. \A l \in 1 .. Len(r) : r[l] \in ToSet(r)
      BY ONLY <1>1, ToSetOK
    <2> QED
      BY <2>1, <2>2
  <1> QED
    BY <1>0, <1>1, <1>2, <1>3, <1>4

LEMMA EmptyOK ==
  ToSet(<<>>) = {} /\ <<>> \in Seq(Nodes) /\ Len(<<>>) = 0
  BY DEF ToSet

-----------------------------------------------------------------------------
(* The invariant holds at first, and every step keeps it *)

LEMMA InitIInv == Init => IInv
  <1> SUFFICES ASSUME Init PROVE IInv
    OBVIOUS
  <1> USE DEF Init
  <1>1. None \notin Nodes /\ None \notin Fds
    BY PollerAssumption
  <1>2. ToSet(pipe) = {} /\ ToSet(timeo_list) = {} /\ ToSet(tree) = {}
    BY EmptyOK
  <1>3. Retired = {} /\ Members(TimeNow) = {}
    BY <1>2 DEF Retired, Members, TimeNow
  <1>4. ShapeOK
    <2>1. Freed \in NodeRecords
      BY DEF NodeRecords, Freed
    <2>2. node \in [Nodes -> NodeRecords] /\ nodes \in [Fds -> Nodes \cup {None}]
      BY <2>1
    <2>3. pipe \in Seq(Nodes \cup {None}) /\ live \subseteq Nodes /\ batch \subseteq Nodes
      OBVIOUS
    <2>4. time_node \in Nat /\ clock \in Nat \ {0} /\ calls \in Nat
      OBVIOUS
    <2> QED
      BY <2>2, <2>3, <2>4 DEF ShapeOK
  <1>5. TimeOK(TimeNow, node)
    <2>1. TimeNow \in TimeRecords
      BY DEF TimeNow, TimeRecords
    <2>2. FieldsOK(TimeNow, node)
      BY <1>2 DEF FieldsOK, TimeNow
    <2> QED
      BY <2>1, <2>2 DEF TimeOK, Distinct, Sorted, TimeNow, HeadOr, LastOr
  <1>6. PlacesOK
    BY <1>2, <1>3 DEF PlacesOK
  <1>7. DescriptorsOK /\ ControlOK
    BY DEF DescriptorsOK, ControlOK
  <1> QED
    BY <1>4, <1>5, <1>6, <1>7 DEF IInv

LEMMA FreeOK ==
  ASSUME live \subseteq Nodes, live # Nodes
  PROVE  Free \in Nodes /\ Free \notin live
  <1>1. \E n \in Nodes \ live : TRUE
    OBVIOUS
  <1> QED
    BY <1>1 DEF Free

LEMMA DeadlinesOK ==
  ASSUME IInv
  PROVE  Deadlines \subseteq Nat
  BY PollerAssumption DEF IInv, ShapeOK, Deadlines

(* poller_add and poller_add_timer *)
LEMMA AddOK ==
  ASSUME IInv, NEW n \in Nodes, n \notin live, NEW f, NEW at \in Nat,
         node' = [node EXCEPT ![n] = NewNode(f, at, TimeNow)],
         live' = live \cup {n},
         \/ f = None /\ nodes' = nodes
         \/ f \in Fds /\ nodes' = [nodes EXCEPT ![f] = n],
         SetTime(Insert(TimeNow, n, at)), calls' \in Nat,
         UNCHANGED <<pipe, blocked, stopped, threadVars, stopping, clock, astray>>
  PROVE  IInv'
  <1>1. PICK U : U = Insert(TimeNow, n, at)
    OBVIOUS
  <1>2. /\ node' \in [Nodes -> NodeRecords]
        /\ node'[n].fd = f /\ node'[n].timeout = at /\ ~node'[n].removed
        /\ node'[n].in_rbtree = (at # 0 /\ InTree(TimeNow, at))
        /\ \A m \in Nodes : m # n => node'[m] = node[m]
    <2>1. (at # 0 /\ InTree(TimeNow, at)) \in BOOLEAN
      BY DEF InTree
    <2>2. NewNode(f, at, TimeNow) \in NodeRecords
      BY <2>1 DEF NewNode, NodeRecords
    <2> QED
      BY <2>2 DEF IInv, ShapeOK, NewNode
  <1>3. n \notin Members(TimeNow) /\ n \notin Retired
    BY DEF IInv, PlacesOK
  <1>4. /\ TimeOK(U, node') /\ Members(U) = Members(TimeNow) \cup {n}
        /\ TimerOK(TimeNow, node) => TimerOK(U, node')
    <2>1. \A m \in Members(TimeNow) : node'[m] = node[m]
      BY <1>2, <1>3, PlacesFacts
    <2>2. node \in [Nodes -> NodeRecords] /\ TimeOK(TimeNow, node)
      BY DEF IInv, ShapeOK
    <2> QED
      BY ONLY n \in Nodes, at \in Nat, <1>1, <1>2, <1>3, <2>1, <2>2, InsertOK
  <1>5. TimeNow' = U
    BY <1>1, <1>4, SetTimeOK DEF TimeOK
  <1>6. ShapeOK'
    BY <1>2 DEF IInv, ShapeOK, threadVars
  <1>7. Retired' = Retired
    BY DEF Retired
  <1>8. PlacesOK'
    <2>1. \A m \in Retired : node'[m].removed
      BY <1>2, <1>3, PlacesFacts DEF IInv, PlacesOK
    <2> QED
      BY <1>4, <1>5, <1>7, <2>1 DEF IInv, PlacesOK
  <1>9. DescriptorsOK'
    <2>1. ASSUME NEW g \in Fds, nodes'[g] # None
          PROVE  nodes'[g] \in Members(U) /\ node'[nodes'[g]].fd = g
      <3>1. CASE nodes'[g] = nodes[g]
        <4>1. nodes[g] \in Members(TimeNow) /\ node[nodes[g]].fd = g
          BY <2>1, <3>1 DEF IInv, DescriptorsOK
        <4> QED
          BY <1>2, <1>3, <1>4, <3>1, <4>1, PlacesFacts
      <3>2. CASE nodes'[g] # nodes[g]
        <4>1. g = f /\ nodes'[g] = n
          BY <3>2 DEF IInv, ShapeOK
        <4> QED
          BY <1>2, <1>4, <4>1
      <3> QED
        BY <3>1, <3>2
    <2>2. ASSUME NEW m \in batch PROVE m \in live' /\ node'[m].fd \in Fds
      <3>1. m \in live /\ node[m].fd \in Fds /\ m \in Nodes
        BY DEF IInv, DescriptorsOK, ShapeOK
      <3> QED
        BY <1>2, <3>1
    <2> QED
      BY <1>5, <2>1, <2>2 DEF DescriptorsOK, threadVars
  <1>10. ControlOK'
    BY DEF IInv, ControlOK, threadVars
  <1> QED
    BY <1>4, <1>5, <1>6, <1>8, <1>9, <1>10 DEF IInv, threadVars

LEMMA PollerAddKeeps ==
  ASSUME IInv, NEW f \in Fds, PollerAdd(f)
  PROVE  IInv'
  <1>1. PICK n : n = Free
    OBVIOUS
  <1>2. PICK at \in Deadlines :
          /\ node' = [node EXCEPT ![n] = NewNode(f, at, TimeNow)]
          /\ live' = live \cup {n}
          /\ nodes' = [nodes EXCEPT ![f] = n]
          /\ SetTime(Insert(TimeNow, n, at))
    BY <1>1 DEF PollerAdd
  <1>3. n \in Nodes /\ n \notin live
    BY <1>1, FreeOK DEF PollerAdd, IInv, ShapeOK
  <1>4. at \in Nat
    BY DeadlinesOK
  <1>5. calls' \in Nat
    BY DEF PollerAdd, Call, IInv, ShapeOK
  <1>6. UNCHANGED <<pipe, blocked, stopped, threadVars, stopping, clock, astray>>
    BY DEF PollerAdd
  <1> QED
    BY <1>2, <1>3, <1>4, <1>5, <1>6, AddOK

LEMMA AddTimerKeeps ==
  ASSUME IInv, AddTimer
  PROVE  IInv'
  <1>1. PICK n : n = Free
    OBVIOUS
  <1>2. PICK at \in Deadlines :
          /\ node' = [node EXCEPT ![n] = NewNode(None, at, TimeNow)]
          /\ live' = live \cup {n}
          /\ SetTime(Insert(TimeNow, n, at))
    BY <1>1 DEF AddTimer
  <1>3. n \in Nodes /\ n \notin live
    BY <1>1, FreeOK DEF AddTimer, IInv, ShapeOK
  <1>4. at \in Nat
    BY DeadlinesOK
  <1>5. calls' \in Nat
    BY DEF AddTimer, Call, IInv, ShapeOK
  <1>6. /\ UNCHANGED <<pipe, blocked, stopped, threadVars, stopping, clock, astray>>
        /\ nodes' = nodes
    BY DEF AddTimer
  <1> QED
    BY <1>2, <1>3, <1>4, <1>5, <1>6, AddOK

(* poller_del and poller_mod: the node n goes the way of the deleted ones.  *)
(* M are the nodes that stay in the structures.                             *)
LEMMA RetireOK ==
  ASSUME IInv, Unlocked, NEW n \in Nodes, n \notin Retired,
         NEW M, M \subseteq Nodes, n \notin M,
         NEW fields \in [Nodes -> NodeRecords], NEW still,
         still = M \cup {n} \cup Retired,
         \A m \in Retired : fields[m].removed,
         Retire(n, fields, still)
  PROVE  /\ node' \in [Nodes -> NodeRecords]
         /\ pipe' \in Seq(Nodes \cup {None}) /\ blocked' \in Nodes \cup {None}
         /\ \A i, j \in 1 .. Len(pipe') : pipe'[i] = pipe'[j] /\ pipe'[i] # None => i = j
         /\ blocked' # None => blocked' \notin ToSet(pipe')
         /\ \A m \in Retired' : node'[m].removed
         /\ live' = M \cup Retired'
         /\ astray' = FALSE
         /\ \A m \in Nodes : m # n => node'[m] = fields[m]
         /\ ~stopped => n \in live' /\ node'[n].fd = fields[n].fd
         /\ \A m \in Retired : m \in live'
  <1>1. /\ pipe \in Seq(Nodes \cup {None}) /\ None \notin Nodes /\ blocked = None
        /\ \A i, j \in 1 .. Len(pipe) : pipe[i] = pipe[j] /\ pipe[i] # None => i = j
        /\ Retired = ToSet(pipe) \ {None} /\ Retired \subseteq Nodes
        /\ n # None /\ n \notin ToSet(pipe) /\ astray = FALSE
    BY PlacesFacts DEF IInv, ShapeOK, PlacesOK, Unlocked, Retired
  <1>2. CASE stopped
    <2>1. /\ live' = still \ {n} /\ astray' = FALSE
          /\ node' = [m \in Nodes |-> IF m = n THEN Freed ELSE fields[m]]
          /\ pipe' = pipe /\ blocked' = None
      BY <1>1, <1>2 DEF Retire, Give, Clear
    <2>2. Retired' = Retired
      BY <1>1, <2>1 DEF Retired
    <2>3. live' = M \cup Retired'
      BY <2>1, <2>2
    <2>4. node' \in [Nodes -> NodeRecords]
      <3>1. Freed \in NodeRecords
        BY <1>1 DEF Freed, NodeRecords
      <3> QED
        BY <2>1, <3>1
    <2>5. \A m \in Retired' : node'[m].removed
      BY <1>1, <2>1, <2>2
    <2> QED
      BY <1>1, <1>2, <2>1, <2>2, <2>3, <2>4, <2>5
  <1>3. CASE ~stopped
    <2>1. /\ node' = [fields EXCEPT ![n].removed = TRUE, ![n].in_rbtree = FALSE]
          /\ live' = still /\ astray' = FALSE
          /\ \/ pipe' = Append(pipe, n) /\ blocked' = None
             \/ pipe' = pipe /\ blocked' = n
      BY <1>1, <1>3 DEF Retire
    <2>2. /\ node' \in [Nodes -> NodeRecords]
          /\ node'[n].removed /\ node'[n].fd = fields[n].fd
          /\ \A m \in Nodes : m # n => node'[m] = fields[m]
      BY <2>1 DEF NodeRecords
    <2>3. /\ pipe' \in Seq(Nodes \cup {None}) /\ blocked' \in Nodes \cup {None}
          /\ \A i, j \in 1 .. Len(pipe') : pipe'[i] = pipe'[j] /\ pipe'[i] # None => i = j
          /\ blocked' # None => blocked' \notin ToSet(pipe')
          /\ Retired' = Retired \cup {n}
      <3>1. CASE pipe' = Append(pipe, n) /\ blocked' = None
        <4>1. n \in Nodes \cup {None} /\ pipe \in Seq(Nodes \cup {None}) /\ pipe' = Append(pipe, n)
          BY <1>1, <3>1
        <4>2. /\ pipe' \in Seq(Nodes \cup {None}) /\ Len(pipe') = Len(pipe) + 1
              /\ Len(pipe) \in Nat
              /\ \A i \in 1 .. Len(pipe) : pipe'[i] = pipe[i]
              /\ pipe'[Len(pipe) + 1] = n
              /\ ToSet(pipe') = ToSet(pipe) \cup {n}
          <5>1. PICK S : S = Nodes \cup {None}
            OBVIOUS
          <5>2. pipe \in Seq(S) /\ n \in S
            BY <4>1, <5>1
          <5>3. /\ Append(pipe, n) \in Seq(S) /\ Len(Append(pipe, n)) = Len(pipe) + 1
                /\ Len(pipe) \in Nat
                /\ \A i \in 1 .. Len(pipe) : Append(pipe, n)[i] = pipe[i]
                /\ Append(pipe, n)[Len(pipe) + 1] = n
                /\ ToSet(Append(pipe, n)) = ToSet(pipe) \cup {n}
            BY ONLY <5>2, AppendOK
          <5> QED
            BY ONLY <4>1, <5>1, <5>3
        <4>3. \A i \in 1 .. Len(pipe) : pipe[i] # n
          BY <1>1, ToSetOK
        <4>4. \A i \in 1 .. Len(pipe') : i = Len(pipe) + 1 \/ i \in 1 .. Len(pipe)
          BY <4>2
        <4>5. \A i, j \in 1 .. Len(pipe') : pipe'[i] = pipe'[j] /\ pipe'[i] # None => i = j
          BY <1>1, <4>2, <4>3, <4>4
        <4> QED
          BY <1>1, <3>1, <4>2, <4>5 DEF Retired
      <3>2. CASE pipe' = pipe /\ blocked' = n
        BY <1>1, <3>2 DEF Retired
      <3> QED
        BY <2>1, <3>1, <3>2
    <2>4. \A m \in Retired' : node'[m].removed
      BY <1>1, <2>2, <2>3
    <2>5. live' = M \cup Retired'
      BY <2>1, <2>3
    <2> QED
      BY <2>1, <2>2, <2>3, <2>4, <2>5
  <1>4. stopped \in BOOLEAN
    BY DEF IInv, ShapeOK
  <1> QED
    BY <1>2, <1>3, <1>4

(* poller_del *)
LEMMA PollerDelKeeps ==
  ASSUME IInv, NEW f \in Fds, PollerDel(f)
  PROVE  IInv'
  <1>1. PICK n \in Nodes : /\ n = nodes[f] /\ n \in Members(TimeNow) /\ node[n].fd = f
    BY PlacesFacts DEF PollerDel, IInv, DescriptorsOK
  <1>2. PICK U : U = Unlink(TimeNow, n)
    OBVIOUS
  <1>3. /\ TimeOK(U, node) /\ Members(U) = Members(TimeNow) \ {n}
        /\ TimerOK(TimeNow, node) => TimerOK(U, node)
    BY <1>2, UnlinkOK DEF IInv
  <1>4. TimeNow' = U
    BY <1>1, <1>2, <1>3, SetTimeOK DEF PollerDel, TimeOK
  <1>5. /\ node' \in [Nodes -> NodeRecords]
        /\ pipe' \in Seq(Nodes \cup {None}) /\ blocked' \in Nodes \cup {None}
        /\ \A i, j \in 1 .. Len(pipe') : pipe'[i] = pipe'[j] /\ pipe'[i] # None => i = j
        /\ blocked' # None => blocked' \notin ToSet(pipe')
        /\ \A m \in Retired' : node'[m].removed
        /\ live' = Members(U) \cup Retired'
        /\ astray' = FALSE
        /\ \A m \in Nodes : m # n => node'[m] = node[m]
        /\ ~stopped => n \in live' /\ node'[n].fd = node[n].fd
        /\ \A m \in Retired : m \in live'
    <2>1. /\ n \notin Retired /\ Members(U) \subseteq Nodes /\ n \notin Members(U)
          /\ node \in [Nodes -> NodeRecords] /\ Unlocked
          /\ live = Members(U) \cup {n} \cup Retired
          /\ \A m \in Retired : node[m].removed
      BY <1>1, <1>3, PlacesFacts DEF IInv, ShapeOK, PlacesOK, PollerDel, Call
    <2>2. Retire(n, node, live)
      BY <1>1 DEF PollerDel
    <2> QED
      BY ONLY IInv, n \in Nodes, <2>1, <2>2, RetireOK
  <1>6. /\ nodes' = [nodes EXCEPT ![f] = None] /\ calls' \in Nat
        /\ UNCHANGED <<stopped, threadVars, stopping, clock>>
    BY DEF PollerDel, Call, IInv, ShapeOK
  <1>7. ShapeOK'
    <2>1. live' \subseteq Nodes
      BY <1>3, <1>5, PlacesFacts, ToSetOK DEF Retired
    <2> QED
      BY <1>5, <1>6, <2>1 DEF IInv, ShapeOK, threadVars
  <1>8. TimeOK(U, node') /\ (TimerOK(TimeNow, node) => TimerOK(U, node'))
    <2>1. \A m \in Members(U) : node'[m] = node[m]
      BY <1>3, <1>5, PlacesFacts
    <2> QED
      BY <1>3, <2>1, TimeKept
  <1>9. PlacesOK'
    BY <1>4, <1>5 DEF PlacesOK
  <1>10. DescriptorsOK'
    <2>1. ASSUME NEW g \in Fds, nodes'[g] # None
          PROVE  nodes'[g] \in Members(U) /\ node'[nodes'[g]].fd = g
      <3>1. g # f /\ nodes'[g] = nodes[g]
        BY <1>6, <2>1 DEF IInv, ShapeOK
      <3>2. nodes[g] \in Members(TimeNow) /\ node[nodes[g]].fd = g /\ nodes[g] # n
        BY <1>1, <2>1, <3>1 DEF IInv, DescriptorsOK
      <3> QED
        BY <1>3, <1>5, <3>1, <3>2, PlacesFacts
    <2>2. ASSUME NEW m \in batch PROVE m \in live' /\ node'[m].fd \in Fds
      <3>1. m \in live /\ node[m].fd \in Fds /\ m \in Nodes /\ ~stopped
        BY PlacesFacts DEF IInv, DescriptorsOK, ShapeOK
      <3>2. CASE m = n
        BY <1>5, <3>1, <3>2
      <3>3. CASE m # n
        BY <1>3, <1>5, <3>1, <3>3 DEF IInv, PlacesOK
      <3> QED
        BY <3>2, <3>3
    <2> QED
      BY <1>4, <1>6, <2>1, <2>2 DEF DescriptorsOK, threadVars
  <1>11. ControlOK'
    <2>1. stopped => UNCHANGED <<pipe, blocked>>
      BY DEF PollerDel, Retire
    <2> QED
      BY <1>6, <2>1 DEF IInv, ControlOK, threadVars
  <1> QED
    BY <1>4, <1>6, <1>7, <1>8, <1>9, <1>10, <1>11 DEF IInv, threadVars

(* poller_mod *)
LEMMA PollerModKeeps ==
  ASSUME IInv, NEW f \in Fds, PollerMod(f)
  PROVE  IInv'
  <1>1. PICK old \in Nodes : /\ old = nodes[f] /\ old \in Members(TimeNow) /\ node[old].fd = f
    BY PlacesFacts DEF PollerMod, IInv, DescriptorsOK
  <1>2. PICK n : n = Free
    OBVIOUS
  <1>3. PICK T : T = Unlink(TimeNow, old)
    OBVIOUS
  <1>4. PICK at \in Deadlines :
          /\ nodes' = [nodes EXCEPT ![f] = n]
          /\ SetTime(Insert(T, n, at))
          /\ Retire(old, [node EXCEPT ![n] = NewNode(f, at, T)], live \cup {n})
    BY <1>1, <1>2, <1>3 DEF PollerMod
  <1>5. PICK fields : fields = [node EXCEPT ![n] = NewNode(f, at, T)]
    OBVIOUS
  <1>6. PICK U : U = Insert(T, n, at)
    OBVIOUS
  <1>7. /\ n \in Nodes /\ n \notin live /\ n # old /\ n \notin Members(TimeNow)
        /\ n \notin Retired /\ old \notin Retired /\ at \in Nat
    BY <1>1, <1>2, FreeOK, DeadlinesOK, PlacesFacts DEF PollerMod, IInv, ShapeOK, PlacesOK
  <1>8. /\ TimeOK(T, node) /\ Members(T) = Members(TimeNow) \ {old}
        /\ TimerOK(TimeNow, node) => TimerOK(T, node)
    <2>1. TimeOK(TimeNow, node)
      BY DEF IInv
    <2> QED
      BY <1>3, <2>1, UnlinkOK
  <1>9. /\ fields \in [Nodes -> NodeRecords]
        /\ fields[n].fd = f /\ fields[n].timeout = at /\ ~fields[n].removed
        /\ fields[n].in_rbtree = (at # 0 /\ InTree(T, at))
        /\ \A m \in Nodes : m # n => fields[m] = node[m]
    <2>1. (at # 0 /\ InTree(T, at)) \in BOOLEAN
      BY DEF InTree
    <2>2. NewNode(f, at, T) \in NodeRecords
      BY <1>7, <2>1 DEF NewNode, NodeRecords
    <2> QED
      BY <1>5, <1>7, <2>2 DEF IInv, ShapeOK, NewNode
  <1>10. /\ TimeOK(U, fields) /\ Members(U) = Members(T) \cup {n}
         /\ TimerOK(T, node) => TimerOK(U, fields)
    <2>1. \A m \in Members(T) : fields[m] = node[m]
      BY <1>7, <1>8, <1>9, PlacesFacts
    <2>2. node \in [Nodes -> NodeRecords] /\ n \notin Members(T)
      BY <1>7, <1>8 DEF IInv, ShapeOK
    <2> QED
      BY ONLY <1>6, <1>7, <1>8, <1>9, <2>1, <2>2, InsertOK
  <1>11. TimeNow' = U
    BY <1>4, <1>6, <1>10, SetTimeOK DEF TimeOK
  <1>12. /\ node' \in [Nodes -> NodeRecords]
         /\ pipe' \in Seq(Nodes \cup {None}) /\ blocked' \in Nodes \cup {None}
         /\ \A i, j \in 1 .. Len(pipe') : pipe'[i] = pipe'[j] /\ pipe'[i] # None => i = j
         /\ blocked' # None => blocked' \notin ToSet(pipe')
         /\ \A m \in Retired' : node'[m].removed
         /\ live' = Members(U) \cup Retired'
         /\ astray' = FALSE
         /\ \A m \in Nodes : m # old => node'[m] = fields[m]
         /\ ~stopped => old \in live' /\ node'[old].fd = fields[old].fd
         /\ \A m \in Retired : m \in live'
    <2>1. /\ Members(U) \subseteq Nodes /\ old \notin Members(U) /\ Unlocked
          /\ live \cup {n} = Members(U) \cup {old} \cup Retired
          /\ \A m \in Retired : fields[m].removed
      BY <1>1, <1>7, <1>8, <1>9, <1>10, PlacesFacts DEF IInv, PlacesOK, PollerMod, Call
    <2>2. Retire(old, fields, live \cup {n})
      BY <1>4, <1>5
    <2> QED
      BY ONLY IInv, old \in Nodes, <1>7, <1>9, <2>1, <2>2, RetireOK
  <1>13. /\ nodes' = [nodes EXCEPT ![f] = n] /\ calls' \in Nat
         /\ UNCHANGED <<stopped, threadVars, stopping, clock>>
    BY <1>4 DEF PollerMod, Call, IInv, ShapeOK
  <1>14. ShapeOK'
    <2>1. live' \subseteq Nodes
      BY <1>7, <1>8, <1>10, <1>12, PlacesFacts, ToSetOK DEF Retired
    <2> QED
      BY <1>7, <1>12, <1>13, <2>1 DEF IInv, ShapeOK, threadVars
  <1>15. TimeOK(U, node') /\ (TimerOK(TimeNow, node) => TimerOK(U, node'))
    <2>1. \A m \in Members(U) : node'[m] = fields[m]
      BY <1>7, <1>8, <1>10, <1>12, PlacesFacts
    <2> QED
      BY <1>8, <1>10, <2>1, TimeKept
  <1>16. PlacesOK'
    BY <1>11, <1>12 DEF PlacesOK
  <1>17. DescriptorsOK'
    <2>1. ASSUME NEW g \in Fds, nodes'[g] # None
          PROVE  nodes'[g] \in Members(U) /\ node'[nodes'[g]].fd = g
      <3>1. CASE g = f
        <4>1. nodes'[g] = n
          BY <1>13, <3>1 DEF IInv, ShapeOK
        <4> QED
          BY <1>7, <1>9, <1>10, <1>12, <3>1, <4>1
      <3>2. CASE g # f
        <4>1. nodes'[g] = nodes[g]
          BY <1>13, <3>2 DEF IInv, ShapeOK
        <4>2. /\ nodes[g] \in Members(TimeNow) /\ node[nodes[g]].fd = g
              /\ nodes[g] # old /\ nodes[g] \in Nodes
          BY <1>1, <2>1, <3>2, <4>1, PlacesFacts DEF IInv, DescriptorsOK
        <4> QED
          BY <1>7, <1>8, <1>9, <1>10, <1>12, <4>1, <4>2
      <3> QED
        BY <3>1, <3>2
    <2>2. ASSUME NEW m \in batch PROVE m \in live' /\ node'[m].fd \in Fds
      <3>1. m \in live /\ node[m].fd \in Fds /\ m \in Nodes /\ ~stopped /\ m # n
        BY <1>7, PlacesFacts DEF IInv, DescriptorsOK, ShapeOK
      <3>2. CASE m = old
        BY <1>9, <1>12, <3>1, <3>2
      <3>3. CASE m # old
        BY <1>8, <1>9, <1>10, <1>12, <3>1, <3>3 DEF IInv, PlacesOK
      <3> QED
        BY <3>2, <3>3
    <2> QED
      BY <1>11, <1>13, <2>1, <2>2 DEF DescriptorsOK, threadVars
  <1>18. ControlOK'
    <2>1. stopped => UNCHANGED <<pipe, blocked>>
      BY DEF PollerMod, Retire
    <2> QED
      BY <1>13, <2>1 DEF IInv, ControlOK, threadVars
  <1> QED
    BY <1>11, <1>13, <1>14, <1>15, <1>16, <1>17, <1>18 DEF IInv, threadVars

(* poller_set_timeout *)
LEMMA PollerSetTimeoutKeeps ==
  ASSUME IInv, NEW f \in Fds, PollerSetTimeout(f)
  PROVE  IInv'
  <1>1. PICK n \in Nodes : /\ n = nodes[f] /\ n \in Members(TimeNow) /\ node[n].fd = f
    BY PlacesFacts DEF PollerSetTimeout, IInv, DescriptorsOK
  <1>2. PICK T : T = Unlink(TimeNow, n)
    OBVIOUS
  <1>3. PICK at \in Deadlines :
          /\ SetTime(Insert(T, n, at))
          /\ node' = [node EXCEPT ![n].timeout = at,
                                  ![n].in_rbtree = at # 0 /\ InTree(T, at)]
    BY <1>1, <1>2 DEF PollerSetTimeout
  <1>4. PICK U : U = Insert(T, n, at)
    OBVIOUS
  <1>5. /\ TimeOK(T, node) /\ Members(T) = Members(TimeNow) \ {n}
        /\ TimerOK(TimeNow, node) => TimerOK(T, node)
    <2>1. TimeOK(TimeNow, node)
      BY DEF IInv
    <2> QED
      BY <1>2, <2>1, UnlinkOK
  <1>6. at \in Nat /\ ~node[n].removed
    BY <1>1, DeadlinesOK, PlacesFacts
  <1>7. /\ node' \in [Nodes -> NodeRecords]
        /\ node'[n].fd = f /\ node'[n].timeout = at /\ ~node'[n].removed
        /\ node'[n].in_rbtree = (at # 0 /\ InTree(T, at))
        /\ \A m \in Nodes : m # n => node'[m] = node[m]
    <2>1. (at # 0 /\ InTree(T, at)) \in BOOLEAN
      BY DEF InTree
    <2>2. PICK b \in BOOLEAN : b = (at # 0 /\ InTree(T, at))
      BY <2>1
    <2>3. node' = [node EXCEPT ![n].timeout = at, ![n].in_rbtree = b]
      BY <1>3, <2>2
    <2>4. /\ node' \in [Nodes -> NodeRecords]
          /\ node'[n].fd = f /\ node'[n].timeout = at
          /\ node'[n].removed = node[n].removed
          /\ node'[n].in_rbtree = b
          /\ \A m \in Nodes : m # n => node'[m] = node[m]
      BY <1>1, <1>6, <2>3 DEF IInv, ShapeOK, NodeRecords
    <2> QED
      BY <1>6, <2>2, <2>4
  <1>8. /\ TimeOK(U, node') /\ Members(U) = Members(T) \cup {n}
        /\ TimerOK(T, node) => TimerOK(U, node')
    <2>1. \A m \in Members(T) : node'[m] = node[m]
      BY <1>5, <1>7, PlacesFacts
    <2>2. node \in [Nodes -> NodeRecords] /\ n \notin Members(T)
      BY <1>5 DEF IInv, ShapeOK
    <2> QED
      BY ONLY n \in Nodes, <1>4, <1>5, <1>6, <1>7, <2>1, <2>2, InsertOK
  <1>9. TimeNow' = U /\ Members(U) = Members(TimeNow)
    BY <1>1, <1>3, <1>4, <1>5, <1>8, SetTimeOK DEF TimeOK
  <1>10. /\ UNCHANGED <<live, nodes, pipe, blocked, stopped, threadVars, stopping, clock, astray>>
         /\ calls' \in Nat
    BY DEF PollerSetTimeout, Call, IInv, ShapeOK
  <1>11. ShapeOK'
    BY <1>7, <1>10 DEF IInv, ShapeOK, threadVars
  <1>12. \A m \in Nodes : node'[m].fd = node[m].fd
    BY <1>1, <1>7
  <1>13. PlacesOK'
    <2>1. Retired' = Retired
      BY <1>10 DEF Retired
    <2>2. \A m \in Retired : node'[m].removed
      BY <1>1, <1>7, PlacesFacts DEF IInv, PlacesOK
    <2> QED
      BY <1>9, <1>10, <2>1, <2>2 DEF IInv, PlacesOK
  <1>14. DescriptorsOK'
    <2>1. ASSUME NEW g \in Fds, nodes[g] # None
          PROVE  nodes[g] \in Members(U) /\ node'[nodes[g]].fd = g
      BY <1>9, <1>12, <2>1, PlacesFacts DEF IInv, DescriptorsOK
    <2>2. ASSUME NEW m \in batch PROVE m \in live /\ node'[m].fd \in Fds
      BY <1>12 DEF IInv, DescriptorsOK, ShapeOK
    <2> QED
      BY <1>9, <1>10, <2>1, <2>2 DEF DescriptorsOK, threadVars
  <1>15. ControlOK'
    BY <1>10 DEF IInv, ControlOK, threadVars
  <1> QED
    BY <1>5, <1>8, <1>9, <1>10, <1>11, <1>13, <1>14, <1>15 DEF IInv, threadVars

LEMMA UnblockKeeps ==
  ASSUME IInv, Unblock
  PROVE  IInv'
  <1>1. /\ pipe' = Append(pipe, blocked) /\ blocked' = None /\ blocked # None
        /\ UNCHANGED <<node, live, nodes, timeVars, stopped, threadVars, stopping,
                       clock, calls, astray>>
    BY DEF Unblock
  <1>2. /\ pipe \in Seq(Nodes \cup {None}) /\ blocked \in Nodes \cup {None}
        /\ \A i, j \in 1 .. Len(pipe) : pipe[i] = pipe[j] /\ pipe[i] # None => i = j
        /\ blocked \notin ToSet(pipe)
    BY <1>1 DEF IInv, ShapeOK, PlacesOK
  <1>3. /\ Append(pipe, blocked) \in Seq(Nodes \cup {None})
        /\ Len(Append(pipe, blocked)) = Len(pipe) + 1 /\ Len(pipe) \in Nat
        /\ \A i \in 1 .. Len(pipe) : Append(pipe, blocked)[i] = pipe[i]
        /\ Append(pipe, blocked)[Len(pipe) + 1] = blocked
        /\ ToSet(Append(pipe, blocked)) = ToSet(pipe) \cup {blocked}
    <2>1. PICK S : S = Nodes \cup {None}
      OBVIOUS
    <2>2. pipe \in Seq(S) /\ blocked \in S
      BY <1>2, <2>1
    <2>3. /\ Append(pipe, blocked) \in Seq(S)
          /\ Len(Append(pipe, blocked)) = Len(pipe) + 1 /\ Len(pipe) \in Nat
          /\ \A i \in 1 .. Len(pipe) : Append(pipe, blocked)[i] = pipe[i]
          /\ Append(pipe, blocked)[Len(pipe) + 1] = blocked
          /\ ToSet(Append(pipe, blocked)) = ToSet(pipe) \cup {blocked}
      BY ONLY <2>2, AppendOK
    <2> QED
      BY ONLY <2>1, <2>3
  <1>4. \A i \in 1 .. Len(pipe) : pipe[i] # blocked
    BY <1>2, ToSetOK
  <1>5. \A i \in 1 .. Len(pipe') : i = Len(pipe) + 1 \/ i \in 1 .. Len(pipe)
    BY <1>1, <1>3
  <1>6. \A i, j \in 1 .. Len(pipe') : pipe'[i] = pipe'[j] /\ pipe'[i] # None => i = j
    BY <1>1, <1>2, <1>3, <1>4, <1>5
  <1>7. Retired' = Retired
    BY <1>1, <1>3 DEF Retired
  <1>8. TimeNow' = TimeNow
    BY <1>1 DEF TimeNow, timeVars
  <1>9. ShapeOK'
    BY <1>1, <1>3 DEF IInv, ShapeOK, threadVars
  <1>10. PlacesOK'
    BY <1>1, <1>6, <1>7, <1>8 DEF IInv, PlacesOK
  <1>11. DescriptorsOK' /\ ControlOK'
    BY <1>1, <1>8 DEF IInv, DescriptorsOK, ControlOK, threadVars
  <1> QED
    BY <1>1, <1>8, <1>9, <1>10, <1>11 DEF IInv, threadVars

(* What only moves the thread or the order to stop on. *)
LEMMA ControlKeeps ==
  ASSUME IInv,
         UNCHANGED <<node, live, nodes, timeVars, pipe, blocked, astray>>,
         batch' = batch, has_pipe_event' = has_pipe_event, time_node' = time_node,
         stopped' \in BOOLEAN, pc' \in {"none", "set_timer", "wait", "events", "exit"},
         stopping' \in {"no", "join", "sweep", "done"},
         clock' \in Nat \ {0}, calls' \in Nat,
         ControlOK', pc' = "wait" => pc = "wait"
  PROVE  IInv'
  <1>1. TimeNow' = TimeNow /\ Retired' = Retired
    BY DEF TimeNow, timeVars, Retired
  <1>2. ShapeOK'
    BY DEF IInv, ShapeOK
  <1>3. PlacesOK'
    BY <1>1 DEF IInv, PlacesOK
  <1>4. DescriptorsOK'
    BY <1>1 DEF IInv, DescriptorsOK
  <1> QED
    BY <1>1, <1>2, <1>3, <1>4 DEF IInv

LEMMA PollerStartKeeps ==
  ASSUME IInv, PollerStart
  PROVE  IInv'
  <1>1. /\ pc = "none" /\ pc' = "set_timer" /\ stopped' = FALSE
        /\ UNCHANGED <<node, live, nodes, timeVars, pipe, blocked, batch,
                       has_pipe_event, time_node, stopping, clock, calls, astray>>
    BY DEF PollerStart
  <1>2. stopping = "no"
    BY <1>1 DEF IInv, ControlOK, ShapeOK
  <1>3. ControlOK'
    BY <1>1, <1>2 DEF IInv, ControlOK
  <1> QED
    BY <1>1, <1>3, ControlKeeps DEF IInv, ShapeOK

LEMMA StopJoinKeeps ==
  ASSUME IInv, StopJoin
  PROVE  IInv'
  <1>1. /\ stopping = "join" /\ pc = "exit" /\ stopped' = TRUE /\ stopping' = "sweep"
        /\ UNCHANGED <<node, live, nodes, timeVars, pipe, blocked, threadVars,
                       clock, calls, astray>>
    BY DEF StopJoin
  <1>2. ControlOK'
    BY <1>1 DEF IInv, ControlOK, threadVars
  <1> QED
    BY <1>1, <1>2, ControlKeeps DEF IInv, ShapeOK, threadVars

LEMMA TickKeeps ==
  ASSUME IInv, Tick
  PROVE  IInv'
  <1>1. /\ clock' = clock + 1
        /\ UNCHANGED <<node, live, nodes, timeVars, pipe, blocked, stopped,
                       threadVars, stopping, calls, astray>>
    BY DEF Tick
  <1>2. clock' \in Nat \ {0}
    BY <1>1 DEF IInv, ShapeOK
  <1>3. ControlOK'
    BY <1>1 DEF IInv, ControlOK, threadVars
  <1> QED
    BY <1>1, <1>2, <1>3, ControlKeeps DEF IInv, ShapeOK, threadVars

LEMMA StutterKeeps ==
  ASSUME IInv, UNCHANGED vars
  PROVE  IInv'
  <1>1. UNCHANGED <<node, live, nodes, timeVars, pipe, blocked, stopped,
                    threadVars, stopping, clock, calls, astray>>
    BY DEF vars
  <1>2. ControlOK'
    BY <1>1 DEF IInv, ControlOK, threadVars
  <1> QED
    BY <1>1, <1>2, ControlKeeps DEF IInv, ShapeOK, threadVars

LEMMA StopWriteKeeps ==
  ASSUME IInv, StopWrite
  PROVE  IInv'
  <1>1. /\ pipe' = Append(pipe, None) /\ stopping = "no" /\ pc # "none" /\ stopping' = "join"
        /\ UNCHANGED <<node, live, nodes, timeVars, blocked, stopped, threadVars,
                       clock, calls, astray>>
    BY DEF StopWrite
  <1>2. /\ pipe \in Seq(Nodes \cup {None}) /\ None \notin Nodes
        /\ \A i, j \in 1 .. Len(pipe) : pipe[i] = pipe[j] /\ pipe[i] # None => i = j
    BY PlacesFacts DEF IInv, ShapeOK, PlacesOK
  <1>3. /\ Append(pipe, None) \in Seq(Nodes \cup {None})
        /\ Len(Append(pipe, None)) = Len(pipe) + 1 /\ Len(pipe) \in Nat
        /\ \A i \in 1 .. Len(pipe) : Append(pipe, None)[i] = pipe[i]
        /\ Append(pipe, None)[Len(pipe) + 1] = None
        /\ ToSet(Append(pipe, None)) = ToSet(pipe) \cup {None}
    <2>1. PICK S : S = Nodes \cup {None}
      OBVIOUS
    <2>2. pipe \in Seq(S) /\ None \in S
      BY <1>2, <2>1
    <2>3. /\ Append(pipe, None) \in Seq(S)
          /\ Len(Append(pipe, None)) = Len(pipe) + 1 /\ Len(pipe) \in Nat
          /\ \A i \in 1 .. Len(pipe) : Append(pipe, None)[i] = pipe[i]
          /\ Append(pipe, None)[Len(pipe) + 1] = None
          /\ ToSet(Append(pipe, None)) = ToSet(pipe) \cup {None}
      BY ONLY <2>2, AppendOK
    <2> QED
      BY ONLY <2>1, <2>3
  <1>4. \A i \in 1 .. Len(pipe') : i = Len(pipe) + 1 \/ i \in 1 .. Len(pipe)
    BY <1>1, <1>3
  <1>5. \A i, j \in 1 .. Len(pipe') : pipe'[i] = pipe'[j] /\ pipe'[i] # None => i = j
    BY <1>1, <1>2, <1>3, <1>4
  <1>6. Retired' = Retired
    BY <1>1, <1>3 DEF Retired
  <1>7. TimeNow' = TimeNow
    BY <1>1 DEF TimeNow, timeVars
  <1>8. ShapeOK'
    BY <1>1, <1>3 DEF IInv, ShapeOK, threadVars
  <1>9. PlacesOK'
    BY <1>1, <1>3, <1>5, <1>6, <1>7 DEF IInv, PlacesOK
  <1>10. DescriptorsOK' /\ ControlOK'
    BY <1>1, <1>7 DEF IInv, DescriptorsOK, ControlOK, threadVars
  <1> QED
    BY <1>1, <1>7, <1>8, <1>9, <1>10 DEF IInv, threadVars

(* __poller_set_timer *)
LEMMA SetTimerKeeps ==
  ASSUME IInv, SetTimer
  PROVE  IInv'
  <1>1. /\ timerfd' = IF Earliest = None THEN 0 ELSE node[Earliest].timeout
        /\ pc = "set_timer" /\ pc' = "wait"
        /\ UNCHANGED <<node, live, nodes, timeo_list, no_timeo_list, tree, tree_first,
                       tree_last, pipe, blocked, stopped, batch, has_pipe_event,
                       time_node, stopping, clock, calls, astray>>
    BY DEF SetTimer
  <1>2. /\ timeo_list # <<>> => Head(timeo_list) \in ToSet(timeo_list)
        /\ \A m \in ToSet(timeo_list) : /\ timeo_list # <<>>
                                        /\ node[Head(timeo_list)].timeout <= node[m].timeout
        /\ tree_first # None => tree_first \in ToSet(tree)
        /\ \A m \in ToSet(tree) : /\ tree_first # None
                                  /\ node[tree_first].timeout <= node[m].timeout
        /\ ToSet(timeo_list) \subseteq Nodes /\ ToSet(tree) \subseteq Nodes
        /\ \A m \in ToSet(timeo_list) \cup ToSet(tree) : node[m].timeout > 0
    <2>1. TimeOK(TimeNow, node)
      BY DEF IInv
    <2>2. /\ TimeNow.list = timeo_list /\ TimeNow.tree = tree /\ TimeNow.first = tree_first
      BY DEF TimeNow
    <2>3. \A m \in ToSet(timeo_list) \cup ToSet(tree) : node[m].timeout > 0
      BY <2>1, <2>2 DEF TimeOK, FieldsOK
    <2>4. /\ TimeNow.list # <<>> => Head(TimeNow.list) \in ToSet(TimeNow.list)
          /\ \A m \in ToSet(TimeNow.list) :
                 /\ TimeNow.list # <<>>
                 /\ node[Head(TimeNow.list)].timeout <= node[m].timeout
          /\ TimeNow.first # None => TimeNow.first \in ToSet(TimeNow.tree)
          /\ \A m \in ToSet(TimeNow.tree) : /\ TimeNow.first # None
                                            /\ node[TimeNow.first].timeout <= node[m].timeout
          /\ ToSet(TimeNow.list) \subseteq Nodes /\ ToSet(TimeNow.tree) \subseteq Nodes
      BY <2>1, Fronts
    <2> QED
      BY ONLY <2>2, <2>3, <2>4
  <1>3. /\ \A m \in Nodes : node[m].timeout \in Nat
        /\ None \notin Nodes
    BY PlacesFacts DEF IInv, ShapeOK, NodeRecords
  <1>4. \A m \in ToSet(timeo_list) \cup ToSet(tree) :
           /\ Earliest \in Nodes /\ node[Earliest].timeout > 0
           /\ node[Earliest].timeout <= node[m].timeout
    <2>1. CASE timeo_list # <<>> /\ tree_first # None
      <3>1. Head(timeo_list) \in Nodes /\ tree_first \in Nodes
        BY <1>2, <2>1
      <3>2. CASE node[tree_first].timeout < node[Head(timeo_list)].timeout
        <4>1. Earliest = tree_first
          BY <2>1, <3>2 DEF Earliest
        <4> QED
          BY <1>2, <1>3, <3>1, <3>2, <4>1
      <3>3. CASE ~(node[tree_first].timeout < node[Head(timeo_list)].timeout)
        <4>1. Earliest = Head(timeo_list)
          BY <2>1, <3>3 DEF Earliest
        <4>2. /\ node[Earliest].timeout \in Nat /\ node[tree_first].timeout \in Nat
              /\ node[Earliest].timeout <= node[tree_first].timeout
              /\ node[Earliest].timeout > 0
          BY <1>2, <1>3, <2>1, <3>1, <3>3, <4>1
        <4>3. ASSUME NEW m \in ToSet(timeo_list) PROVE node[Earliest].timeout <= node[m].timeout
          BY <1>2, <4>1
        <4>4. ASSUME NEW m \in ToSet(tree) PROVE node[Earliest].timeout <= node[m].timeout
          <5>1. node[m].timeout \in Nat /\ node[tree_first].timeout <= node[m].timeout
            BY <1>2, <1>3
          <5> QED
            BY <4>2, <5>1
        <4> QED
          BY <3>1, <4>1, <4>2, <4>3, <4>4
      <3> QED
        BY <3>2, <3>3
    <2>2. CASE timeo_list # <<>> /\ tree_first = None
      BY <1>2, <2>2 DEF Earliest
    <2>3. CASE timeo_list = <<>>
      BY <1>2, <2>3 DEF Earliest
    <2> QED
      BY <2>1, <2>2, <2>3
  <1>5. timerfd' \in Nat
    <2>1. Earliest = None \/ Earliest \in Nodes
      BY <1>2 DEF Earliest
    <2> QED
      BY <1>1, <1>3, <2>1
  <1>6. TimeOK(TimeNow', node) /\ Members(TimeNow') = Members(TimeNow)
    <2>1. TimeOK(TimeNow, node)
      BY DEF IInv
    <2>2. /\ TimeNow'.list = TimeNow.list /\ TimeNow'.rest = TimeNow.rest
          /\ TimeNow'.tree = TimeNow.tree /\ TimeNow'.first = TimeNow.first
          /\ TimeNow'.last = TimeNow.last
      BY <1>1 DEF TimeNow
    <2>3. TimeNow' \in TimeRecords
      BY <1>1, <1>5, <2>1 DEF TimeOK, TimeNow, TimeRecords
    <2> QED
      BY <2>1, <2>2, <2>3 DEF TimeOK, FieldsOK, Members
  <1>7. TimerOK(TimeNow', node)
    <2>1. /\ TimeNow'.list = timeo_list /\ TimeNow'.tree = tree /\ TimeNow'.timer = timerfd'
      BY <1>1 DEF TimeNow
    <2>2. ASSUME NEW m \in ToSet(timeo_list) \cup ToSet(tree)
          PROVE  timerfd' # 0 /\ timerfd' <= node[m].timeout
      BY <1>1, <1>3, <1>4
    <2> QED
      BY <2>1, <2>2 DEF TimerOK
  <1>8. Retired' = Retired
    BY <1>1 DEF Retired
  <1>9. ShapeOK'
    BY <1>1 DEF IInv, ShapeOK
  <1>10. PlacesOK'
    BY <1>1, <1>6, <1>8 DEF IInv, PlacesOK
  <1>11. DescriptorsOK' /\ ControlOK'
    BY <1>1, <1>6 DEF IInv, DescriptorsOK, ControlOK
  <1> QED
    BY <1>1, <1>6, <1>7, <1>9, <1>10, <1>11 DEF IInv

(* The thread takes a batch of events. *)
LEMMA WaitKeeps ==
  ASSUME IInv, Wait
  PROVE  IInv'
  <1>1. /\ pc = "wait" /\ pc' = "events" /\ has_pipe_event' \in BOOLEAN
        /\ batch' \in SUBSET {nodes[f] : f \in {g \in Fds : nodes[g] # None}}
        /\ timerfd' = timerfd \/ timerfd' = 0
        /\ time_node' = clock
        /\ UNCHANGED <<node, live, nodes, timeo_list, no_timeo_list, tree, tree_first,
                       tree_last, pipe, blocked, stopped, stopping, clock, calls, astray>>
    BY DEF Wait
  <1>2. TimeOK(TimeNow', node) /\ Members(TimeNow') = Members(TimeNow)
    <2>1. TimeOK(TimeNow, node)
      BY DEF IInv
    <2>2. /\ TimeNow'.list = TimeNow.list /\ TimeNow'.rest = TimeNow.rest
          /\ TimeNow'.tree = TimeNow.tree /\ TimeNow'.first = TimeNow.first
          /\ TimeNow'.last = TimeNow.last
      BY <1>1 DEF TimeNow
    <2>3. TimeNow' \in TimeRecords
      BY <1>1, <2>1 DEF TimeOK, TimeNow, TimeRecords
    <2> QED
      BY <2>1, <2>2, <2>3 DEF TimeOK, FieldsOK, Members
  <1>3. \A n \in batch' : n \in live /\ n \in Nodes /\ node[n].fd \in Fds
    <2> SUFFICES ASSUME NEW n \in batch' PROVE n \in live /\ n \in Nodes /\ node[n].fd \in Fds
      OBVIOUS
    <2>1. PICK f \in Fds : n = nodes[f] /\ nodes[f] # None
      BY <1>1
    <2>2. n \in Members(TimeNow) /\ node[n].fd = f
      BY <2>1 DEF IInv, DescriptorsOK
    <2> QED
      BY <2>2, PlacesFacts DEF IInv, PlacesOK
  <1>4. ShapeOK'
    <2>1. has_pipe_event' \in BOOLEAN /\ batch' \subseteq Nodes
      BY <1>1, <1>3
    <2>2. time_node' \in Nat
      BY <1>1 DEF IInv, ShapeOK
    <2> QED
      BY <1>1, <2>1, <2>2 DEF IInv, ShapeOK
  <1>5. Retired' = Retired
    BY <1>1 DEF Retired
  <1>6. PlacesOK'
    BY <1>1, <1>2, <1>5 DEF IInv, PlacesOK
  <1>7. DescriptorsOK' /\ ControlOK'
    BY <1>1, <1>2, <1>3 DEF IInv, DescriptorsOK, ControlOK
  <1> QED
    BY <1>1, <1>2, <1>4, <1>6, <1>7 DEF IInv

(* __poller_remove_node and the handlers that call it or do not *)
LEMMA HandlesKeeps ==
  ASSUME IInv, NEW n \in Nodes, Handles(n), WaitsOn \/ RemoveNode(n)
  PROVE  IInv'
  <1>1. /\ pc = "events" /\ n \in batch /\ batch' = batch \ {n}
        /\ UNCHANGED <<pc, has_pipe_event, time_node, pipe, blocked, stopped,
                       stopping, clock, calls>>
    BY DEF Handles
  <1>2. Retired' = Retired
    BY <1>1 DEF Retired
  <1>3. CASE UNCHANGED <<node, live, nodes, timeVars, astray>>
    <2>1. TimeNow' = TimeNow
      BY <1>3 DEF TimeNow, timeVars
    <2>2. ShapeOK'
      BY <1>1, <1>3 DEF IInv, ShapeOK
    <2>3. PlacesOK'
      BY <1>1, <1>2, <1>3, <2>1 DEF IInv, PlacesOK
    <2>4. DescriptorsOK' /\ ControlOK'
      BY <1>1, <1>3, <2>1 DEF IInv, DescriptorsOK, ControlOK
    <2> QED
      BY <1>1, <1>3, <2>1, <2>2, <2>3, <2>4 DEF IInv
  <1>4. CASE ~node[n].removed /\ RemoveNode(n)
    <2>1. PICK U : U = Unlink(TimeNow, n)
      OBVIOUS
    <2>2. /\ nodes' = [nodes EXCEPT ![node[n].fd] = None]
          /\ SetTime(U)
          /\ live' = live \ {n} /\ astray' = (astray \/ ~({n} \subseteq live))
          /\ node' = [m \in Nodes |-> IF m \in {n} THEN Freed ELSE node[m]]
      BY <1>4, <2>1 DEF RemoveNode, Removed, Give, Clear
    <2>3. n \in live /\ n \in Members(TimeNow) /\ n \notin Retired /\ node[n].fd \in Fds
      BY <1>1, <1>4 DEF IInv, DescriptorsOK, PlacesOK
    <2>4. /\ TimeOK(U, node) /\ Members(U) = Members(TimeNow) \ {n}
      <3>1. TimeOK(TimeNow, node)
        BY DEF IInv
      <3> QED
        BY <2>1, <3>1, UnlinkOK
    <2>5. TimeNow' = U
      BY <2>2, <2>4, SetTimeOK DEF TimeOK
    <2>6. /\ node' \in [Nodes -> NodeRecords]
          /\ \A m \in Nodes : m # n => node'[m] = node[m]
      <3>1. Freed \in NodeRecords
        BY DEF Freed, NodeRecords
      <3> QED
        BY <2>2, <3>1 DEF IInv, ShapeOK
    <2>7. TimeOK(U, node')
      <3>1. \A m \in Members(U) : node'[m] = node[m]
        BY <2>4, <2>6, PlacesFacts
      <3> QED
        BY <2>4, <3>1, TimeKept
    <2>8. astray' = FALSE
      BY <2>2, <2>3 DEF IInv, PlacesOK
    <2>9. ShapeOK'
      BY <1>1, <2>2, <2>6, <2>8 DEF IInv, ShapeOK
    <2>10. PlacesOK'
      <3>1. \A m \in Retired : node'[m].removed
        BY <2>3, <2>6, PlacesFacts DEF IInv, PlacesOK
      <3>2. live' = Members(U) \cup Retired
        BY <2>2, <2>3, <2>4 DEF IInv, PlacesOK
      <3> QED
        BY <1>1, <1>2, <2>5, <2>8, <3>1, <3>2 DEF IInv, PlacesOK
    <2>11. DescriptorsOK'
      <3>1. ASSUME NEW g \in Fds, nodes'[g] # None
            PROVE  nodes'[g] \in Members(U) /\ node'[nodes'[g]].fd = g
        <4>1. g # node[n].fd /\ nodes'[g] = nodes[g]
          BY <2>2, <2>3, <3>1 DEF IInv, ShapeOK
        <4>2. nodes[g] \in Members(TimeNow) /\ node[nodes[g]].fd = g /\ nodes[g] # n
          BY <3>1, <4>1 DEF IInv, DescriptorsOK
        <4> QED
          BY <2>4, <2>6, <4>1, <4>2, PlacesFacts
      <3>2. ASSUME NEW m \in batch' PROVE m \in live' /\ node'[m].fd \in Fds
        <4>1. m \in live /\ node[m].fd \in Fds /\ m \in Nodes /\ m # n
          BY <1>1 DEF IInv, DescriptorsOK, ShapeOK
        <4> QED
          BY <2>2, <2>6, <4>1
      <3> QED
        BY <2>5, <3>1, <3>2 DEF DescriptorsOK
    <2>12. ControlOK'
      BY <1>1, <2>2 DEF IInv, ControlOK
    <2> QED
      BY <1>1, <2>5, <2>7, <2>9, <2>10, <2>11, <2>12 DEF IInv
  <1> QED
    BY <1>3, <1>4 DEF WaitsOn, RemoveNode, Removed

(* __poller_handle_pipe *)
LEMMA HandlePipeKeeps ==
  ASSUME IInv, HandlePipe
  PROVE  IInv'
  <1>1. PICK given : given = {n \in Nodes : Contains(pipe, n)}
    OBVIOUS
  <1>2. /\ pc = "events" /\ batch = {} /\ pipe' = <<>>
        /\ live' = live \ given /\ astray' = (astray \/ ~(given \subseteq live))
        /\ node' = [m \in Nodes |-> IF m \in given THEN Freed ELSE node[m]]
        /\ pc' \in {"exit", "events"} /\ has_pipe_event' = FALSE
        /\ UNCHANGED <<nodes, timeVars, blocked, stopped, batch, time_node,
                       stopping, clock, calls>>
    BY <1>1 DEF HandlePipe, EventsFirst, Give, Clear
  <1>3. given = ToSet(pipe) \cap Nodes
    BY <1>1, ToSetOK DEF IInv, ShapeOK
  <1>4. ToSet(pipe') = {} /\ pipe' \in Seq(Nodes \cup {None}) /\ Len(pipe') = 0
    BY <1>2, EmptyOK
  <1>5. /\ given \subseteq Retired /\ given \subseteq live
        /\ given \cap Members(TimeNow) = {}
        /\ Retired' = Retired \ given /\ live' = Members(TimeNow) \cup Retired'
    BY <1>2, <1>3, <1>4, PlacesFacts DEF IInv, PlacesOK, Retired
  <1>6. /\ node' \in [Nodes -> NodeRecords]
        /\ \A m \in Nodes : m \notin given => node'[m] = node[m]
    <2>1. Freed \in NodeRecords
      BY DEF Freed, NodeRecords
    <2> QED
      BY <1>2, <2>1 DEF IInv, ShapeOK
  <1>7. TimeNow' = TimeNow
    BY <1>2 DEF TimeNow, timeVars
  <1>8. \A m \in Members(TimeNow) : node'[m] = node[m]
    BY <1>5, <1>6, PlacesFacts
  <1>9. TimeOK(TimeNow, node')
    BY <1>8, TimeKept DEF IInv
  <1>10. astray' = FALSE
    BY <1>2, <1>5 DEF IInv, PlacesOK
  <1>11. ShapeOK'
    BY <1>2, <1>4, <1>6, <1>10 DEF IInv, ShapeOK
  <1>12. PlacesOK'
    <2>1. \A m \in Retired' : node'[m].removed
      BY <1>5, <1>6, PlacesFacts DEF IInv, PlacesOK
    <2>2. \A i, j \in 1 .. Len(pipe') : pipe'[i] = pipe'[j] /\ pipe'[i] # None => i = j
      BY <1>4
    <2> QED
      BY <1>4, <1>5, <1>7, <1>10, <2>1, <2>2 DEF PlacesOK
  <1>13. DescriptorsOK'
    <2>1. ASSUME NEW g \in Fds, nodes[g] # None
          PROVE  nodes[g] \in Members(TimeNow) /\ node'[nodes[g]].fd = g
      BY <1>8, <2>1 DEF IInv, DescriptorsOK
    <2> QED
      BY <1>2, <1>7, <2>1 DEF DescriptorsOK
  <1>14. ControlOK'
    BY <1>2 DEF IInv, ControlOK
  <1> QED
    BY <1>2, <1>7, <1>9, <1>11, <1>12, <1>13, <1>14 DEF IInv

(* How many nodes at the front of a sequence are due. *)
LEMMA DueOK ==
  ASSUME IInv
  PROVE  DueInList \in 0 .. Len(timeo_list) /\ DueInTree \in 0 .. Len(tree)
  <1>1. Len(timeo_list) \in Nat /\ Len(tree) \in Nat
    BY DEF IInv, TimeOK, TimeNow, TimeRecords
  <1>2. DueInList \in 0 .. Len(timeo_list)
    <2> DEFINE I == {j \in 1 .. Len(timeo_list) : node[timeo_list[j]].timeout > time_node}
    <2>1. PICK i : /\ i = SelectInSeq(timeo_list, LAMBDA m : node[m].timeout > time_node)
                   /\ i = IF I # {} THEN Min(I) ELSE 0
      BY DEF SelectInSeq
    <2>2. DueInList = IF i = 0 THEN Len(timeo_list) ELSE i - 1
      BY <2>1 DEF DueInList
    <2>3. I \in SUBSET (1 .. Len(timeo_list))
      OBVIOUS
    <2>4. i \in 0 .. Len(timeo_list)
      <3> HIDE DEF I
      <3> QED
        BY <1>1, <2>1, <2>3, FirstIn
    <2> QED
      BY <1>1, <2>2, <2>4
  <1>3. DueInTree \in 0 .. Len(tree)
    <2> DEFINE I == {j \in 1 .. Len(tree) : node[tree[j]].timeout >= time_node}
    <2>1. PICK i : /\ i = SelectInSeq(tree, LAMBDA m : node[m].timeout >= time_node)
                   /\ i = IF I # {} THEN Min(I) ELSE 0
      BY DEF SelectInSeq
    <2>2. DueInTree = IF i = 0 THEN Len(tree) ELSE i - 1
      BY <2>1 DEF DueInTree
    <2>3. I \in SUBSET (1 .. Len(tree))
      OBVIOUS
    <2>4. i \in 0 .. Len(tree)
      <3> HIDE DEF I
      <3> QED
        BY <1>1, <2>1, <2>3, FirstIn
    <2> QED
      BY <1>1, <2>2, <2>4
  <1> QED
    BY <1>2, <1>3

(* __poller_handle_timeout *)
LEMMA HandleTimeoutKeeps ==
  ASSUME IInv, HandleTimeout
  PROVE  IInv'
  <1>1. PICK a \in 0 .. Len(timeo_list), b \in 0 .. Len(tree) : a = DueInList /\ b = DueInTree
    BY DueOK
  <1>2. PICK A, B, given : /\ A = {timeo_list[i] : i \in 1 .. a}
                           /\ B = {tree[i] : i \in 1 .. b}
                           /\ given = A \cup B
    OBVIOUS
  <1>3. /\ pc = "events" /\ batch = {} /\ blocked = None
        /\ timeo_list' = SubSeq(timeo_list, a + 1, Len(timeo_list))
        /\ tree' = SubSeq(tree, b + 1, Len(tree))
        /\ tree_first' = IF b = 0 THEN tree_first ELSE HeadOr(tree')
        /\ tree_last' = IF tree' = <<>> THEN None ELSE tree_last
        /\ nodes' = [f \in Fds |-> IF nodes[f] \in given THEN None ELSE nodes[f]]
        /\ live' = live \ given /\ astray' = (astray \/ ~(given \subseteq live))
        /\ node' = [m \in Nodes |-> IF m \in given THEN Freed ELSE node[m]]
        /\ pc' = "set_timer" /\ time_node' = 0
        /\ UNCHANGED <<no_timeo_list, timerfd, pipe, blocked, stopped, batch,
                       has_pipe_event, stopping, clock, calls>>
    BY <1>1, <1>2 DEF HandleTimeout, Give, Clear, Unlocked
  <1>4. /\ TimeOK(TimeNow, node) /\ TimeNow \in TimeRecords
        /\ TimeNow.list = timeo_list /\ TimeNow.tree = tree /\ TimeNow.rest = no_timeo_list
        /\ timeo_list \in Seq(Nodes) /\ tree \in Seq(Nodes)
        /\ Distinct(timeo_list) /\ Distinct(tree)
        /\ Sorted(timeo_list, node) /\ Sorted(tree, node)
        /\ tree_first = HeadOr(tree) /\ tree_last = LastOr(tree)
        /\ FieldsOK(TimeNow, node)
    BY DEF IInv, TimeOK, TimeNow, TimeRecords
  <1>5. /\ timeo_list' \in Seq(Nodes) /\ Distinct(timeo_list')
        /\ ToSet(timeo_list') = ToSet(timeo_list) \ A
        /\ Sorted(timeo_list', node)
    <2>1. timeo_list \in Seq(Nodes) /\ Distinct(timeo_list) /\ a \in 0 .. Len(timeo_list)
      BY <1>4
    <2>2. PICK r : r = SubSeq(timeo_list, a + 1, Len(timeo_list))
      OBVIOUS
    <2>3. /\ r \in Seq(Nodes) /\ Distinct(r)
          /\ ToSet(r) = ToSet(timeo_list) \ {timeo_list[i] : i \in 1 .. a}
          /\ \A f : Sorted(timeo_list, f) => Sorted(r, f)
      BY ONLY <2>1, <2>2, RestOK
    <2> QED
      BY <1>2, <1>3, <1>4, <2>2, <2>3
  <1>6. /\ tree' \in Seq(Nodes) /\ Distinct(tree')
        /\ ToSet(tree') = ToSet(tree) \ B
        /\ Sorted(tree', node)
        /\ b = 0 => tree' = tree
        /\ tree' # <<>> => LastOr(tree') = LastOr(tree)
    <2>1. tree \in Seq(Nodes) /\ Distinct(tree) /\ b \in 0 .. Len(tree)
      BY <1>4
    <2>2. PICK r : r = SubSeq(tree, b + 1, Len(tree))
      OBVIOUS
    <2>3. /\ r \in Seq(Nodes) /\ Distinct(r)
          /\ ToSet(r) = ToSet(tree) \ {tree[i] : i \in 1 .. b}
          /\ \A f : Sorted(tree, f) => Sorted(r, f)
          /\ b = 0 => r = tree
          /\ r # <<>> => LastOr(r) = LastOr(tree)
      BY ONLY <2>1, <2>2, RestOK
    <2> QED
      BY <1>2, <1>3, <1>4, <2>2, <2>3
  <1>7. A \subseteq ToSet(timeo_list) /\ B \subseteq ToSet(tree)
    <2>1. \A i \in 1 .. a : i \in 1 .. Len(timeo_list)
      BY <1>4
    <2>2. \A i \in 1 .. b : i \in 1 .. Len(tree)
      BY <1>4
    <2> QED
      BY <1>2, <1>4, <2>1, <2>2, ToSetOK
  <1>8. given \subseteq Members(TimeNow) /\ given \subseteq live /\ given \cap Retired = {}
    BY <1>2, <1>4, <1>7, PlacesFacts DEF Members, IInv, PlacesOK
  <1>9. Members(TimeNow') = Members(TimeNow) \ given
    <2>1. /\ TimeNow'.list = timeo_list' /\ TimeNow'.tree = tree'
          /\ TimeNow'.rest = no_timeo_list
      BY <1>3 DEF TimeNow
    <2>2. /\ A \cap ToSet(tree) = {} /\ A \cap no_timeo_list = {}
          /\ B \cap ToSet(timeo_list) = {} /\ B \cap no_timeo_list = {}
      BY <1>4, <1>7 DEF FieldsOK
    <2> QED
      BY <1>2, <1>4, <1>5, <1>6, <2>1, <2>2 DEF Members
  <1>10. /\ node' \in [Nodes -> NodeRecords]
         /\ \A m \in Nodes : m \notin given => node'[m] = node[m]
    <2>1. Freed \in NodeRecords
      BY DEF Freed, NodeRecords
    <2> QED
      BY <1>3, <2>1 DEF IInv, ShapeOK
  <1>11. TimeOK(TimeNow', node)
    <2>1. tree_first' = HeadOr(tree') /\ tree_last' = LastOr(tree')
      BY <1>3, <1>4, <1>6 DEF LastOr
    <2>2. TimeNow' \in TimeRecords
      <3>1. tree_first' \in Nodes \cup {None} /\ tree_last' \in Nodes \cup {None}
        <4>1. tree_first \in Nodes \cup {None} /\ tree_last \in Nodes \cup {None}
          BY <1>4 DEF TimeNow, TimeRecords
        <4>2. HeadOr(tree') \in Nodes \cup {None}
          BY <1>6 DEF HeadOr
        <4> QED
          BY <1>3, <2>1, <4>1, <4>2
      <3>2. no_timeo_list \subseteq Nodes /\ timerfd \in Nat
        BY <1>4 DEF TimeNow, TimeRecords
      <3> QED
        BY <1>3, <1>5, <1>6, <3>1, <3>2 DEF TimeNow, TimeRecords
    <2>3. FieldsOK(TimeNow', node)
      <3>1. /\ TimeNow'.list = timeo_list' /\ TimeNow'.tree = tree'
            /\ TimeNow'.rest = TimeNow.rest
        BY <1>3 DEF TimeNow
      <3> QED
        BY <1>4, <1>5, <1>6, <3>1 DEF FieldsOK
    <2>4. /\ TimeNow'.list = timeo_list' /\ TimeNow'.tree = tree'
          /\ TimeNow'.first = tree_first' /\ TimeNow'.last = tree_last'
      BY DEF TimeNow
    <2> QED
      BY <1>5, <1>6, <2>1, <2>2, <2>3, <2>4 DEF TimeOK
  <1>12. TimeOK(TimeNow', node')
    <2>1. \A m \in Members(TimeNow') : node'[m] = node[m]
      BY <1>9, <1>10, PlacesFacts
    <2> QED
      BY <1>11, <2>1, TimeKept
  <1>13. astray' = FALSE
    BY <1>3, <1>8 DEF IInv, PlacesOK
  <1>14. ShapeOK'
    <2>1. nodes' \in [Fds -> Nodes \cup {None}]
      BY <1>3 DEF IInv, ShapeOK
    <2> QED
      BY <1>3, <1>10, <1>13, <2>1 DEF IInv, ShapeOK
  <1>15. PlacesOK'
    <2>1. Retired' = Retired
      BY <1>3 DEF Retired
    <2>2. \A m \in Retired : node'[m].removed
      BY <1>8, <1>10, PlacesFacts DEF IInv, PlacesOK
    <2>3. live' = Members(TimeNow') \cup Retired
      BY <1>3, <1>8, <1>9 DEF IInv, PlacesOK
    <2> QED
      BY <1>3, <1>13, <2>1, <2>2, <2>3 DEF IInv, PlacesOK
  <1>16. DescriptorsOK'
    <2>1. ASSUME NEW g \in Fds, nodes'[g] # None
          PROVE  nodes'[g] \in Members(TimeNow') /\ node'[nodes'[g]].fd = g
      <3>1. nodes'[g] = nodes[g] /\ nodes[g] \notin given
        BY <1>3, <2>1
      <3>2. nodes[g] \in Members(TimeNow) /\ node[nodes[g]].fd = g
        BY <2>1, <3>1 DEF IInv, DescriptorsOK
      <3> QED
        BY <1>9, <1>10, <3>1, <3>2, PlacesFacts
    <2> QED
      BY <1>3, <2>1 DEF DescriptorsOK
  <1>17. ControlOK'
    <2>1. ~stopped /\ stopping \notin {"sweep", "done"}
      BY <1>3 DEF IInv, ControlOK
    <2> QED
      BY <1>3, <2>1 DEF IInv, ControlOK
  <1> QED
    BY <1>3, <1>12, <1>14, <1>15, <1>16, <1>17 DEF IInv

(* The rest of poller_stop *)
LEMMA StopSweepKeeps ==
  ASSUME IInv, StopSweep
  PROVE  IInv'
  <1>1. PICK given : given = Swept \cup {n \in Nodes : Contains(pipe, n)}
    OBVIOUS
  <1>2. /\ stopping = "sweep" /\ blocked = None /\ stopping' = "done"
        /\ pipe' = <<>> /\ timeo_list' = <<>> /\ no_timeo_list' = {} /\ tree' = <<>>
        /\ tree_first' = None /\ tree_last' = None
        /\ nodes' = [f \in Fds |-> IF nodes[f] \in given THEN None ELSE nodes[f]]
        /\ live' = live \ given /\ astray' = (astray \/ given # live)
        /\ node' = [m \in Nodes |-> IF m \in given THEN Freed ELSE node[m]]
        /\ UNCHANGED <<timerfd, blocked, stopped, threadVars, clock, calls>>
    BY <1>1 DEF StopSweep, Give, Clear, Unlocked
  <1>3. stopped /\ pc = "exit" /\ batch = {}
    BY <1>2 DEF IInv, ControlOK
  <1>4. given = live
    <2>1. /\ timeo_list \in Seq(Nodes) /\ tree \in Seq(Nodes) /\ no_timeo_list \subseteq Nodes
          /\ pipe \in Seq(Nodes \cup {None})
      BY DEF IInv, TimeOK, TimeNow, TimeRecords, ShapeOK
    <2>2. /\ \A n : Contains(timeo_list, n) <=> n \in ToSet(timeo_list)
          /\ \A n : Contains(tree, n) <=> n \in ToSet(tree)
          /\ \A n : Contains(pipe, n) <=> n \in ToSet(pipe)
          /\ ToSet(timeo_list) \subseteq Nodes /\ ToSet(tree) \subseteq Nodes
          /\ ToSet(pipe) \subseteq Nodes \cup {None}
      BY <2>1, ToSetOK
    <2>3. Swept = ToSet(timeo_list) \cup ToSet(tree) \cup no_timeo_list
      BY <2>1, <2>2 DEF Swept
    <2>4. Members(TimeNow) = ToSet(timeo_list) \cup ToSet(tree) \cup no_timeo_list
      BY DEF Members, TimeNow
    <2>5. Retired = {n \in Nodes : Contains(pipe, n)}
      BY <1>2, <2>2, PlacesFacts DEF Retired
    <2> QED
      BY <1>1, <2>3, <2>4, <2>5 DEF IInv, PlacesOK
  <1>5. live' = {} /\ astray' = FALSE
    BY <1>2, <1>4 DEF IInv, PlacesOK
  <1>6. \A f \in Fds : nodes'[f] = None
    BY <1>2, <1>4 DEF IInv, DescriptorsOK, PlacesOK
  <1>7. /\ ToSet(pipe') = {} /\ pipe' \in Seq(Nodes \cup {None}) /\ Len(pipe') = 0
        /\ ToSet(timeo_list') = {} /\ ToSet(tree') = {}
    BY <1>2, EmptyOK
  <1>8. Retired' = {} /\ Members(TimeNow') = {}
    BY <1>2, <1>7 DEF Retired, Members, TimeNow
  <1>9. TimeOK(TimeNow', node')
    <2>1. timerfd' \in Nat
      BY <1>2 DEF IInv, TimeOK, TimeNow, TimeRecords
    <2>2. TimeNow' \in TimeRecords
      BY <1>2, <2>1 DEF TimeNow, TimeRecords
    <2>3. TimeNow'.list = <<>> /\ TimeNow'.tree = <<>> /\ TimeNow'.rest = {}
          /\ TimeNow'.first = None /\ TimeNow'.last = None
      BY <1>2 DEF TimeNow
    <2>4. FieldsOK(TimeNow', node')
      BY <2>3, EmptyOK DEF FieldsOK
    <2>5. Len(<<>>) = 0
      OBVIOUS
    <2> QED
      BY <2>2, <2>3, <2>4, <2>5 DEF TimeOK, Distinct, Sorted, HeadOr, LastOr
  <1>10. ShapeOK'
    <2>1. Freed \in NodeRecords
      BY DEF Freed, NodeRecords
    <2>2. node' \in [Nodes -> NodeRecords]
      BY <1>2, <2>1 DEF IInv, ShapeOK
    <2>3. nodes' \in [Fds -> Nodes \cup {None}]
      BY <1>2 DEF IInv, ShapeOK
    <2> QED
      BY <1>2, <1>5, <1>7, <2>2, <2>3 DEF IInv, ShapeOK, threadVars
  <1>11. PlacesOK'
    BY <1>2, <1>5, <1>7, <1>8 DEF PlacesOK
  <1>12. DescriptorsOK' /\ ControlOK'
    BY <1>2, <1>3, <1>5, <1>6 DEF DescriptorsOK, ControlOK, threadVars, IInv
  <1> QED
    BY <1>2, <1>3, <1>9, <1>10, <1>11, <1>12 DEF IInv, threadVars

LEMMA InvariantHolds == Spec => []IInv
  <1>1. IInv /\ [Next]_vars => IInv'
    <2> SUFFICES ASSUME IInv, [Next]_vars PROVE IInv'
      OBVIOUS
    <2>1. CASE SetTimer
      BY <2>1, SetTimerKeeps
    <2>2. CASE Wait
      BY <2>2, WaitKeeps
    <2>3. CASE HandlePipe
      BY <2>3, HandlePipeKeeps
    <2>4. CASE HandleTimeout
      BY <2>4, HandleTimeoutKeeps
    <2>5. ASSUME NEW n \in Nodes,
                 \/ HandleRead(n) \/ HandleWrite(n) \/ HandleListen(n)
                 \/ HandleConnect(n) \/ HandleSsl(n)
          PROVE  IInv'
      <3>1. Handles(n) /\ (WaitsOn \/ RemoveNode(n))
        BY <2>5 DEF HandleRead, HandleWrite, HandleListen, HandleConnect, HandleSsl,
                    HandleSslError
      <3> QED
        BY <3>1, HandlesKeeps
    <2>6. ASSUME NEW f \in Fds,
                 PollerAdd(f) \/ PollerDel(f) \/ PollerMod(f) \/ PollerSetTimeout(f)
          PROVE  IInv'
      BY <2>6, PollerAddKeeps, PollerDelKeeps, PollerModKeeps, PollerSetTimeoutKeeps
    <2>7. CASE AddTimer
      BY <2>7, AddTimerKeeps
    <2>8. CASE Unblock
      BY <2>8, UnblockKeeps
    <2>9. CASE PollerStart
      BY <2>9, PollerStartKeeps
    <2>10. CASE StopWrite
      BY <2>10, StopWriteKeeps
    <2>11. CASE StopJoin
      BY <2>11, StopJoinKeeps
    <2>12. CASE StopSweep
      BY <2>12, StopSweepKeeps
    <2>13. CASE Tick
      BY <2>13, TickKeeps
    <2>14. CASE UNCHANGED vars
      BY <2>14, StutterKeeps
    <2> QED
      BY <2>1, <2>2, <2>3, <2>4, <2>5, <2>6, <2>7, <2>8, <2>9, <2>10, <2>11,
         <2>12, <2>13, <2>14 DEF Next, Thread, Caller
  <1> QED
    BY <1>1, InitIInv, PTL DEF Spec

-----------------------------------------------------------------------------
(* Theorems *)

(* How often an element that is in a sequence at most once is in it. *)
LEMMA PlacesCount ==
  ASSUME NEW S, NEW q \in Seq(S), NEW n,
         \A i, j \in 1 .. Len(q) : q[i] = n /\ q[j] = n => i = j
  PROVE  Cardinality({i \in 1 .. Len(q) : q[i] = n}) = IF n \in ToSet(q) THEN 1 ELSE 0
  <1>1. CASE n \in ToSet(q)
    <2>1. PICK k \in 1 .. Len(q) : q[k] = n
      BY <1>1, ToSetOK
    <2>2. {i \in 1 .. Len(q) : q[i] = n} = {k}
      BY <2>1
    <2> QED
      BY <1>1, <2>2, FS_Singleton
  <1>2. CASE n \notin ToSet(q)
    <2>1. {i \in 1 .. Len(q) : q[i] = n} = {}
      BY <1>2, ToSetOK
    <2> QED
      BY <1>2, <2>1, FS_EmptySet
  <1> QED
    BY <1>1, <1>2

(* An event that the thread has taken out of epoll and not handled yet      *)
(* points to a node that no callback owns, whoever has deleted, modified or *)
(* timed out the node meanwhile (poller.c:864-908): the invariant says that *)
(* each node of the batch is in the structures of the timeouts or on its    *)
(* way through the pipe, which is read after the batch.                     *)
THEOREM BatchIsLive == Spec => []EventsAreLive
  <1>1. IInv => EventsAreLive
    BY DEF IInv, DescriptorsOK, EventsAreLive
  <1> QED
    BY <1>1, InvariantHolds, PTL

(* A node is given to its callback once, and until then it is in exactly    *)
(* one place: the list, the tree, the set without a timeout, the pipe, or   *)
(* the hands of the caller who waits for room in the pipe; poller_stop      *)
(* leaves none behind and nothing in the pipe (poller.c:202-222, 733-817,   *)
(* 1199-1240, 1397-1441).                                                   *)
THEOREM ResultOnce == Spec => []OneResultEach
  <1>1. IInv => OneResultEach
    <2> SUFFICES ASSUME IInv PROVE OneResultEach
      OBVIOUS
    <2>1. /\ timeo_list \in Seq(Nodes) /\ tree \in Seq(Nodes)
          /\ pipe \in Seq(Nodes \cup {None})
          /\ Distinct(timeo_list) /\ Distinct(tree)
          /\ \A i, j \in 1 .. Len(pipe) : pipe[i] = pipe[j] /\ pipe[i] # None => i = j
          /\ blocked # None => blocked \notin ToSet(pipe)
          /\ live = Members(TimeNow) \cup Retired
      BY DEF IInv, TimeOK, TimeNow, TimeRecords, ShapeOK, PlacesOK
    <2>2. Members(TimeNow) = ToSet(timeo_list) \cup ToSet(tree) \cup no_timeo_list
      BY DEF Members, TimeNow
    <2>3. /\ \A m \in ToSet(timeo_list) : node[m].timeout > 0 /\ ~node[m].in_rbtree
          /\ \A m \in ToSet(tree) : node[m].timeout > 0 /\ node[m].in_rbtree
          /\ \A m \in no_timeo_list : node[m].timeout = 0
      BY DEF IInv, TimeOK, FieldsOK, TimeNow
    <2>4. ASSUME NEW n \in Nodes
          PROVE  Times(n) = IF n \in live THEN 1 ELSE 0
      <3>1. n # None
        BY PlacesFacts
      <3>2. Cardinality({i \in 1 .. Len(pipe) : pipe[i] = n}) = IF n \in ToSet(pipe) THEN 1 ELSE 0
        <4>1. \A i, j \in 1 .. Len(pipe) : pipe[i] = n /\ pipe[j] = n => i = j
          BY <2>1, <3>1
        <4> QED
          BY <2>1, <4>1, PlacesCount
      <3>3. Cardinality({i \in 1 .. Len(timeo_list) : timeo_list[i] = n})
              = IF n \in ToSet(timeo_list) THEN 1 ELSE 0
        <4>1. \A i, j \in 1 .. Len(timeo_list) : timeo_list[i] = n /\ timeo_list[j] = n => i = j
          BY <2>1 DEF Distinct
        <4> QED
          BY <2>1, <4>1, PlacesCount
      <3>4. Cardinality({i \in 1 .. Len(tree) : tree[i] = n}) = IF n \in ToSet(tree) THEN 1 ELSE 0
        <4>1. \A i, j \in 1 .. Len(tree) : tree[i] = n /\ tree[j] = n => i = j
          BY <2>1 DEF Distinct
        <4> QED
          BY <2>1, <4>1, PlacesCount
      <3>5. /\ n \in ToSet(pipe) => n \in Retired
            /\ n = blocked => n \in Retired
            /\ n \in Retired <=> (n \in ToSet(pipe) \/ n = blocked)
            /\ ~(n \in ToSet(pipe) /\ n = blocked)
        BY <2>1, <3>1 DEF Retired
      <3>6. /\ ~(n \in ToSet(timeo_list) /\ n \in ToSet(tree))
            /\ ~(n \in ToSet(timeo_list) /\ n \in no_timeo_list)
            /\ ~(n \in ToSet(tree) /\ n \in no_timeo_list)
        BY <2>3
      <3>7. ~(n \in Retired /\ n \in Members(TimeNow))
        BY PlacesFacts
      <3>8. Times(n) = (IF n \in ToSet(pipe) THEN 1 ELSE 0) + (IF blocked = n THEN 1 ELSE 0)
                       + (IF n \in ToSet(timeo_list) THEN 1 ELSE 0)
                       + (IF n \in ToSet(tree) THEN 1 ELSE 0)
                       + (IF n \in no_timeo_list THEN 1 ELSE 0)
        BY <3>2, <3>3, <3>4 DEF Times
      <3> QED
        BY ONLY <2>1, <2>2, <3>5, <3>6, <3>7, <3>8
    <2>5. ~astray /\ (stopping = "done" => pipe = <<>> /\ blocked = None)
      BY DEF IInv, PlacesOK, ControlOK
    <2>6. \A f \in Fds : nodes[f] # None => node[nodes[f]].fd = f
      BY DEF IInv, DescriptorsOK
    <2> QED
      BY <2>4, <2>5, <2>6 DEF OneResultEach
  <1> QED
    BY <1>1, InvariantHolds, PTL

(* While the thread sleeps in epoll_wait, the timerfd is set for the first  *)
(* timeout of the list and of the tree, or earlier, whoever has added,      *)
(* modified or deleted a node since the thread set it, and tree_first and   *)
(* tree_last are the ends of the tree (poller.c:150-200, 819-846,           *)
(* 1060-1087).                                                              *)
THEOREM TimerInTime == Spec => []TimerNeverLate
  <1>1. IInv => TimerNeverLate
    <2> SUFFICES ASSUME IInv PROVE TimerNeverLate
      OBVIOUS
    <2>1. /\ TimeNow.list = timeo_list /\ TimeNow.tree = tree /\ TimeNow.timer = timerfd
          /\ TimeNow.first = tree_first /\ TimeNow.last = tree_last
      BY DEF TimeNow
    <2>2. tree_first = HeadOr(tree) /\ tree_last = LastOr(tree)
      BY <2>1 DEF IInv, TimeOK
    <2>3. pc = "wait" => \A n \in ToSet(timeo_list) \cup ToSet(tree) :
                            timerfd # 0 /\ timerfd <= node[n].timeout
      BY <2>1 DEF IInv, TimerOK
    <2> QED
      BY <2>2, <2>3 DEF TimerNeverLate
  <1> QED
    BY <1>1, InvariantHolds, PTL

=============================================================================
