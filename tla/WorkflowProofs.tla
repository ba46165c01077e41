---------------------------- MODULE WorkflowProofs ----------------------------
(***************************************************************************)
(* Proofs about Workflow, for any works, finite or not, put together in    *)
(* any way in which each belongs to one series and each series to one      *)
(* parallel work.                                                          *)
(***************************************************************************)
EXTENDS Workflow, FiniteSetTheorems, TLAPS

Beginning == {"dispatch", "branches", "running"}
Popping == {"pop", "pop_task", "next", "ended"}

(* A branch begins when its parallel work dispatches it. *)
Begun(s) ==
    \/ s = Root
    \/ \E p \in Parallels : \E n \in DOMAIN Branches[p] :
          n <= branch[p] /\ Branches[p][n] = s

(* A series that has ended and whose end its parent has been told. *)
Counted(s) == finished[s] /\ ~\E w \in Works : pc[w] = "ended" /\ series[w] = s

Uncounted(p) == {i \in DOMAIN Branches[p] : ~Counted(Branches[p][i])}

UnderWay(x) == callbacks[x] = 0 /\ (pc[x] # "idle" \/ branch[x] > 0)
Fresh(x) == callbacks[x] = 0 /\ pc[x] = "idle" /\ branch[x] = 0 /\ cur[x] = x

(* The parent of the works of a series. *)
IsParent(q, s) == \/ q = None /\ s = Root
                  \/ q \in Parallels /\ s \in Range(Branches[q])

ShapeOK ==
    /\ queue \in [AllSeries -> Seq(Works)]
    /\ canceled \in [AllSeries -> BOOLEAN] /\ finished \in [AllSeries -> BOOLEAN]
    /\ pointer \in [Works -> AllSeries \cup {None}]
    /\ parent \in [Works -> Parallels \cup {None}]
    /\ nleft \in [Parallels -> Int]
    /\ pc \in [Works -> Beginning \cup Popping \cup {"idle", "done"}]
    /\ cur \in [Works -> Works]
    /\ par \in [Works -> Parallels \cup {None}]
    /\ series \in [Works -> AllSeries \cup {None}]
    /\ was_canceled \in [Works -> BOOLEAN]
    /\ next \in [Works -> Works \cup {None}]
    /\ branch \in [Works -> Nat]
    /\ callbacks \in [Works \cup AllSeries -> Nat]
    /\ destroyed \subseteq Works \cup AllSeries
    /\ doomed \subseteq AllSeries

(* What a thread of control relies on, by where it is. *)
ControlAt(w) ==
    /\ pc[w] \in Beginning => cur[w] = w /\ callbacks[w] = 0
    /\ pc[w] = "running" => w \in Tasks
    /\ pc[w] = "branches" => w \in Parallels /\ branch[w] < Len(Branches[w])
    /\ pc[w] = "dispatch" => branch[w] = 0
    /\ branch[w] > 0 => w \in Parallels /\ branch[w] <= Len(Branches[w])
    /\ pc[w] = "done" =>
          /\ cur[w] \in Parallels /\ UnderWay(cur[w])
          /\ \A s \in Range(Branches[cur[w]]) : Counted(s)
          /\ cur[w] = w \/ (callbacks[w] > 0 /\ pc[cur[w]] = "idle")
          /\ \A v \in Works : pc[v] = "done" /\ cur[v] = cur[w] => v = w
    /\ pc[w] \in Popping =>
          /\ callbacks[w] > 0 /\ callbacks[cur[w]] > 0
          /\ series[w] \in AllSeries /\ Begun(series[w])
          /\ finished[series[w]] <=> pc[w] = "ended"
          /\ IsParent(par[w], series[w])
    /\ pc[w] = "next" =>
          /\ next[w] \in Works /\ Fresh(next[w])
          /\ pointer[next[w]] = series[w]
          /\ next[w] \notin Range(queue[series[w]])
          /\ next[w] \notin destroyed

ControlOK == \A w \in Works : ControlAt(w)

(* A series is at one of its works, or between two, but once. *)
UniqueOK ==
    /\ \A x, y \in Works :
          UnderWay(x) /\ UnderWay(y) /\ pointer[x] = pointer[y] => x = y
    /\ \A x, w \in Works :
          UnderWay(x) /\ pc[w] \in Popping => series[w] # pointer[x]
    /\ \A v, w \in Works :
          pc[v] \in Popping /\ pc[w] \in Popping /\ series[v] = series[w] => v = w
    /\ \A x \in Works : UnderWay(x) =>
          /\ pointer[x] \in AllSeries /\ Begun(pointer[x])
          /\ ~finished[pointer[x]]
          /\ IsParent(parent[x], pointer[x])

SeriesOK ==
    /\ \A s \in AllSeries :
          /\ callbacks[s] = IF finished[s] THEN 1 ELSE 0
          /\ finished[s] => Begun(s)
          /\ \A w \in Range(Content[s]) : pointer[w] = s
          /\ ~Begun(s) => queue[s] = Tail(Content[s]) /\ Fresh(First(s))
          /\ \A w \in Range(queue[s]) : Fresh(w) /\ pointer[w] = s
          /\ \A i, j \in 1 .. Len(queue[s]) : queue[s][i] = queue[s][j] => i = j
    /\ \A x \in Spare : pointer[x] = None => Fresh(x) /\ x \notin destroyed

(* nleft counts the branches that have not come to their end. *)
JoinOK ==
    \A p \in Parallels :
        /\ pc[p] = "branches" \/ branch[p] > 0 =>
              nleft[p] = Cardinality(Uncounted(p))
        /\ callbacks[p] > 0 => \A s \in Range(Branches[p]) : Counted(s)

(* What was destroyed had not begun, and nothing leads to it. *)
DestroyedOK ==
    /\ \A x \in Works \cap destroyed : Fresh(x)
    /\ \A s \in AllSeries \cap destroyed : ~Begun(s)
    /\ \A s \in AllSeries \ destroyed :
          /\ Range(queue[s]) \cap destroyed = {}
          /\ ~Begun(s) => First(s) \notin destroyed
    /\ \A p \in Parallels \ destroyed : Range(Branches[p]) \cap destroyed = {}

LiveOK ==
    /\ \A x \in Works : x \in live <=> x \notin destroyed /\ callbacks[x] = 0
    /\ \A s \in AllSeries : s \in live <=>
          /\ s \notin destroyed
          /\ ~(s = Root /\ finished[s])
          /\ \A p \in Parallels : s \in Range(Branches[p]) => callbacks[p] = 0

CancelOK ==
    /\ \A s \in doomed : canceled[s]
    /\ \A w \in Works :
          /\ pc[w] = "pop_task" /\ ~was_canceled[w] => series[w] \notin doomed
          /\ pc[w] = "next" => series[w] \notin doomed

IInv == /\ ShapeOK /\ ControlOK /\ UniqueOK /\ SeriesOK /\ JoinOK
        /\ DestroyedOK /\ LiveOK /\ CancelOK

-----------------------------------------------------------------------------

LEMMA Ranges ==
  ASSUME NEW S, NEW q \in Seq(S)
  PROVE  /\ Range(q) = {q[i] : i \in 1 .. Len(q)}
         /\ \A i \in 1 .. Len(q) : q[i] \in Range(q)
         /\ Range(q) \subseteq S
  BY DEF Range

LEMMA TailOK ==
  ASSUME NEW S, NEW q \in Seq(S), q # <<>>,
         \A i, j \in 1 .. Len(q) : q[i] = q[j] => i = j
  PROVE  /\ Head(q) \in S /\ Head(q) \in Range(q)
         /\ Tail(q) \in Seq(S) /\ Len(Tail(q)) \in Nat
         /\ Range(Tail(q)) \subseteq Range(q) \ {Head(q)}
         /\ \A i, j \in 1 .. Len(Tail(q)) : Tail(q)[i] = Tail(q)[j] => i = j
  <1>1. Len(q) \in Nat \ {0} /\ DOMAIN q = 1 .. Len(q) /\ Head(q) = q[1]
    OBVIOUS
  <1>2. /\ Tail(q) \in Seq(S) /\ Len(Tail(q)) = Len(q) - 1
        /\ \A i \in 1 .. Len(Tail(q)) : /\ Tail(q)[i] = q[i + 1]
                                         /\ i + 1 \in 1 .. Len(q) /\ i + 1 # 1
    BY <1>1
  <1>3. \A i \in 1 .. Len(Tail(q)) : Tail(q)[i] # q[1] /\ Tail(q)[i] \in Range(q)
    BY <1>1, <1>2 DEF Range
  <1>4. \A i, j \in 1 .. Len(Tail(q)) : Tail(q)[i] = Tail(q)[j] => i = j
    BY <1>1, <1>2
  <1>5. Range(Tail(q)) = {Tail(q)[i] : i \in 1 .. Len(Tail(q))}
    BY ONLY <1>2, Ranges
  <1> QED
    BY <1>1, <1>2, <1>3, <1>4, <1>5 DEF Range

LEMMA ContentOK ==
  ASSUME NEW s \in AllSeries
  PROVE  /\ Content[s] \in Seq(Works) /\ Content[s] # <<>>
         /\ Len(Content[s]) \in Nat \ {0}
         /\ Content[s][1] = First(s) /\ First(s) \in Works
         /\ First(s) \in Range(Content[s]) /\ Range(Content[s]) \subseteq Works
         /\ Range(Content[s]) = {Content[s][i] : i \in 1 .. Len(Content[s])}
         /\ Tail(Content[s]) \in Seq(Works)
         /\ Len(Tail(Content[s])) = Len(Content[s]) - 1
         /\ \A i \in 1 .. Len(Content[s]) - 1 : Tail(Content[s])[i] = Content[s][i + 1]
         /\ \A i \in 1 .. Len(Content[s]) - 1 : Tail(Content[s])[i] # First(s)
         /\ Range(Tail(Content[s])) \subseteq Range(Content[s]) \ {First(s)}
  <1>1. Content[s] \in Seq(Works) /\ Content[s] # <<>>
    BY ShapeAssumption
  <1>2. Len(Content[s]) \in Nat \ {0}
    BY <1>1
  <1>3. Content[s][1] = First(s) /\ 1 \in DOMAIN Content[s]
    BY <1>1, <1>2 DEF First
  <1>4. First(s) \in Works /\ First(s) \in Range(Content[s]) /\ Range(Content[s]) \subseteq Works
    BY <1>1, <1>2, <1>3, Ranges
  <1>5. /\ Tail(Content[s]) \in Seq(Works)
        /\ Len(Tail(Content[s])) = Len(Content[s]) - 1
        /\ \A i \in 1 .. Len(Content[s]) - 1 : Tail(Content[s])[i] = Content[s][i + 1]
    BY <1>1, <1>2
  <1>6. ASSUME NEW i \in 1 .. Len(Content[s]) - 1
        PROVE  /\ Tail(Content[s])[i] # First(s)
               /\ Tail(Content[s])[i] \in Range(Content[s])
    <2>1. i + 1 \in DOMAIN Content[s] /\ i + 1 # 1
      BY <1>1, <1>2
    <2>2. Content[s][i + 1] # Content[s][1]
      BY <1>3, <2>1, ShapeAssumption
    <2> QED
      BY <1>3, <1>5, <2>1, <2>2 DEF Range
  <1>7. Range(Tail(Content[s])) \subseteq Range(Content[s]) \ {First(s)}
    BY <1>5, <1>6 DEF Range
  <1>8. Range(Content[s]) = {Content[s][i] : i \in 1 .. Len(Content[s])}
    BY <1>1, Ranges
  <1> QED
    BY <1>1, <1>2, <1>3, <1>4, <1>5, <1>6, <1>7, <1>8

(* A work is in one series, a series in one parallel work. *)
LEMMA OnePlace ==
  /\ \A s, t \in AllSeries : \A w \in Range(Content[s]) :
        w \in Range(Content[t]) => s = t
  /\ \A p, q \in Parallels : \A s \in Range(Branches[p]) :
        /\ s \in AllSeries /\ s # Root
        /\ s \in Range(Branches[q]) => p = q
  <1>1. \A p \in Parallels : Range(Branches[p]) \subseteq AllSeries \ {Root}
    BY ShapeAssumption, Ranges
  <1> QED
    BY <1>1, ShapeAssumption DEF Range

LEMMA BranchesOK ==
  ASSUME NEW p \in Parallels
  PROVE  /\ Branches[p] \in Seq(AllSeries \ {Root})
         /\ Len(Branches[p]) \in Nat
         /\ DOMAIN Branches[p] = 1 .. Len(Branches[p])
         /\ Branches[p] = <<>> <=> Len(Branches[p]) = 0
         /\ Range(Branches[p]) = {Branches[p][i] : i \in 1 .. Len(Branches[p])}
  BY ShapeAssumption, Ranges

LEMMA InitIInv == Init => IInv
  <1> SUFFICES ASSUME Init PROVE IInv
    OBVIOUS
  <1> USE ShapeAssumption DEF Init
  <1>1. Root \in AllSeries /\ First(Root) \in Works
    BY ContentOK
  <1>2. ASSUME NEW s \in AllSeries, NEW w \in Range(Content[s]) PROVE pointer[w] = s
    <2>1. w \in Works /\ w \in Placed
      BY <1>2, ContentOK DEF Placed
    <2>2. pointer[w] = CHOOSE t \in AllSeries : w \in Range(Content[t])
      BY <2>1
    <2>3. pointer[w] \in AllSeries /\ w \in Range(Content[pointer[w]])
      BY <1>2, <2>2
    <2> QED
      BY <1>2, <2>3, OnePlace
  <1>3. pointer \in [Works -> AllSeries \cup {None}]
    <2>1. ASSUME NEW w \in Placed PROVE pointer[w] \in AllSeries
      <3>1. PICK s \in AllSeries : w \in Range(Content[s])
        BY <2>1 DEF Placed
      <3> QED
        BY <1>2, <3>1
    <2> QED
      BY <2>1
  <1>4. ShapeOK
    <2>1. queue \in [AllSeries -> Seq(Works)]
      BY ContentOK
    <2>2. pc \in [Works -> Beginning \cup Popping \cup {"idle", "done"}]
      BY DEF Beginning
    <2>3. /\ canceled \in [AllSeries -> BOOLEAN] /\ finished \in [AllSeries -> BOOLEAN]
          /\ was_canceled \in [Works -> BOOLEAN]
      OBVIOUS
    <2>4. /\ parent \in [Works -> Parallels \cup {None}]
          /\ nleft \in [Parallels -> Int] /\ cur \in [Works -> Works]
          /\ branch \in [Works -> Nat] /\ callbacks \in [Works \cup AllSeries -> Nat]
      OBVIOUS
    <2>5. /\ par \in [Works -> Parallels \cup {None}]
          /\ series \in [Works -> AllSeries \cup {None}]
          /\ next \in [Works -> Works \cup {None}]
      OBVIOUS
    <2>6. destroyed \subseteq Works \cup AllSeries /\ doomed \subseteq AllSeries
      OBVIOUS
    <2> QED
      BY <1>3, <2>1, <2>2, <2>3, <2>4, <2>5, <2>6 DEF ShapeOK
  <1>5. \A s : Begun(s) <=> s = Root
    BY BranchesOK DEF Begun, Works
  <1>6. /\ \A x \in Works : UnderWay(x) <=> x = First(Root)
        /\ \A x \in Works : Fresh(x) <=> x # First(Root)
        /\ pointer[First(Root)] = Root
    <2>1. pointer[First(Root)] = Root
      BY <1>1, <1>2, ContentOK
    <2>2. \A x \in Works : /\ callbacks[x] = 0 /\ branch[x] = 0 /\ cur[x] = x
                          /\ pc[x] = IF x = First(Root) THEN "dispatch" ELSE "idle"
      OBVIOUS
    <2> QED
      BY <2>1, <2>2 DEF UnderWay, Fresh
  <1>7. ControlOK
    BY <1>1, <1>5, <1>6 DEF ControlOK, ControlAt, Beginning, Popping
  <1>8. UniqueOK
    <2>1. \A w \in Works : pc[w] \notin Popping /\ parent[w] = None
      BY DEF Popping
    <2>2. ~finished[Root]
      BY <1>1
    <2>3. \A x \in Works : UnderWay(x) =>
             /\ pointer[x] = Root /\ Begun(pointer[x]) /\ IsParent(parent[x], pointer[x])
      BY <1>5, <1>6, <2>1 DEF IsParent
    <2> QED
      BY ONLY <1>1, <1>6, <2>1, <2>2, <2>3 DEF UniqueOK
  <1>9. SeriesOK
    <2>1. ASSUME NEW s \in AllSeries
          PROVE  /\ \A w \in Range(Content[s]) : pointer[w] = s
                 /\ First(s) = First(Root) => s = Root
                 /\ \A w \in Range(queue[s]) : w \in Works /\ Fresh(w) /\ pointer[w] = s
                 /\ \A i, j \in 1 .. Len(queue[s]) : queue[s][i] = queue[s][j] => i = j
      <3>1. First(s) = First(Root) => s = Root
        BY <1>1, ContentOK, OnePlace
      <3>2. \A w \in Range(queue[s]) : w \in Range(Content[s]) /\ w \in Works /\ w # First(Root)
        BY <1>1, ContentOK, OnePlace
      <3>3. \A i, j \in 1 .. Len(queue[s]) : queue[s][i] = queue[s][j] => i = j
        <4>1. queue[s] = Tail(Content[s])
          OBVIOUS
        <4>2. \A i \in 1 .. Len(queue[s]) : /\ i + 1 \in DOMAIN Content[s]
                                            /\ queue[s][i] = Content[s][i + 1]
          BY <4>1, ContentOK
        <4>3. \A i, j \in DOMAIN Content[s] : Content[s][i] = Content[s][j] => i = j
          OBVIOUS
        <4> QED
          BY <4>2, <4>3, ContentOK
      <3> QED
        BY <1>2, <1>6, <3>1, <3>2, <3>3
    <2>2. ASSUME NEW x \in Spare PROVE Fresh(x) /\ x \notin destroyed
      <3>1. First(Root) \in Placed
        BY <1>1, ContentOK DEF Placed
      <3> QED
        BY <1>6, <3>1 DEF Spare, Works
    <2> QED
      BY <1>5, <1>6, <2>1, <2>2, ContentOK DEF SeriesOK
  <1>10. JoinOK
    BY DEF JoinOK, Works
  <1>11. DestroyedOK /\ CancelOK
    BY DEF DestroyedOK, CancelOK
  <1>12. LiveOK
    BY DEF LiveOK, Works
  <1> QED
    BY <1>4, <1>7, <1>8, <1>9, <1>10, <1>11, <1>12 DEF IInv

-----------------------------------------------------------------------------

LEMMA InWorks ==
  ASSUME IInv
  PROVE  /\ \A s \in AllSeries : Range(queue[s]) \subseteq Works /\ First(s) \in Works
         /\ Spare \subseteq Works /\ Root \in AllSeries
         /\ \A w \in Works : pc[w] \in Popping => series[w] \in AllSeries
  <1>1. \A s \in AllSeries : queue[s] \in Seq(Works)
    BY DEF IInv, ShapeOK
  <1> QED
    BY <1>1, Ranges, ContentOK, ShapeAssumption DEF IInv, ControlOK, ControlAt, Spare, Works

(* A thread of control of which others take care not to disturb anything it  *)
(* relies on.                                                                *)
LEMMA ControlKept ==
  ASSUME IInv, NEW x \in Works,
         pc'[x] = pc[x], cur'[x] = cur[x], series'[x] = series[x], par'[x] = par[x],
         next'[x] = next[x], branch'[x] = branch[x],
         pc[x] \in Beginning => callbacks'[x] = callbacks[x],
         \A y \in Works : callbacks[y] > 0 => callbacks'[y] > 0,
         \A s \in AllSeries : Begun(s) => Begun(s)',
         \A s \in AllSeries : Counted(s) => Counted(s)',
         pc[x] \in Popping => finished'[series[x]] = finished[series[x]],
         pc[x] = "done" => /\ UnderWay(cur[x])'
                           /\ pc'[cur[x]] = pc[cur[x]]
                           /\ \A v \in Works : pc'[v] = "done" /\ cur'[v] = cur[x] => v = x,
         pc[x] = "next" => /\ Fresh(next[x])' /\ pointer'[next[x]] = pointer[next[x]]
                           /\ next[x] \notin Range(queue'[series[x]])
                           /\ next[x] \notin destroyed'
  PROVE  ControlAt(x)'
  <1>1. ControlAt(x) /\ cur[x] \in Works /\ x \in Works
    BY DEF IInv, ControlOK, ShapeOK
  <1>2. CASE pc[x] = "done"
    <2>1. \A s \in Range(Branches[cur[x]]) : s \in AllSeries
      BY <1>1, <1>2, OnePlace DEF ControlAt
    <2> QED
      BY <1>1, <1>2, <2>1 DEF ControlAt, Beginning, Popping
  <1>3. CASE pc[x] = "next"
    BY <1>1, <1>3 DEF ControlAt, Beginning, Popping, IsParent
  <1>4. CASE pc[x] \notin {"done", "next"}
    BY <1>1, <1>4 DEF ControlAt, Beginning, Popping, IsParent
  <1> QED
    BY <1>2, <1>3, <1>4

LEMMA CancelIInv ==
  ASSUME IInv, NEW s \in AllSeries, Cancel(s)
  PROVE  IInv'
  <1> USE DEF Cancel, taskVars, localVars, historyVars
  <1>1. ShapeOK'
    BY DEF IInv, ShapeOK
  <1>2. /\ \A t : Begun(t)' <=> Begun(t)
        /\ \A t : Counted(t)' <=> Counted(t)
        /\ \A p : Uncounted(p)' = Uncounted(p)
        /\ \A x : (UnderWay(x)' <=> UnderWay(x)) /\ (Fresh(x)' <=> Fresh(x))
    BY DEF Begun, Counted, Uncounted, UnderWay, Fresh
  <1>3. ControlOK' /\ UniqueOK' /\ SeriesOK'
    BY <1>2 DEF IInv, ControlOK, ControlAt, UniqueOK, SeriesOK, IsParent
  <1>4. JoinOK' /\ DestroyedOK' /\ LiveOK'
    BY <1>2 DEF IInv, JoinOK, DestroyedOK, LiveOK
  <1>5. CancelOK'
    BY DEF IInv, ShapeOK, CancelOK
  <1> QED
    BY <1>1, <1>3, <1>4, <1>5 DEF IInv

LEMMA PopIInv ==
  ASSUME IInv, NEW w \in Works, Pop(w)
  PROVE  IInv'
  <1> USE DEF Pop, Goto, IsCanceled, seriesVars, taskVars, historyVars
  <1>1. ShapeOK'
    BY InWorks DEF IInv, ShapeOK, Popping
  <1>2. \A x \in Works : pc'[x] = IF x = w THEN "pop_task" ELSE pc[x]
    BY DEF IInv, ShapeOK
  <1>3. /\ \A t : Begun(t)' <=> Begun(t)
        /\ \A t : Counted(t)' <=> Counted(t)
        /\ \A p : Uncounted(p)' = Uncounted(p)
        /\ \A x \in Works : (UnderWay(x)' <=> UnderWay(x)) /\ (Fresh(x)' <=> Fresh(x))
    BY <1>2 DEF Begun, Counted, Uncounted, UnderWay, Fresh
  <1>4. ControlOK'
    BY <1>2, <1>3 DEF IInv, ShapeOK, ControlOK, ControlAt, IsParent, Beginning, Popping
  <1>5. UniqueOK'
    BY <1>2, <1>3 DEF IInv, UniqueOK, IsParent, Popping
  <1>6. SeriesOK'
    BY <1>2, <1>3, InWorks DEF IInv, SeriesOK
  <1>7. JoinOK' /\ DestroyedOK' /\ LiveOK'
    BY <1>2, <1>3 DEF IInv, JoinOK, DestroyedOK, LiveOK
  <1>8. CancelOK'
    BY <1>2 DEF IInv, ShapeOK, CancelOK
  <1> QED
    BY <1>1, <1>4, <1>5, <1>6, <1>7, <1>8 DEF IInv

LEMMA DispatchTaskIInv ==
  ASSUME IInv, NEW w \in Tasks, Dispatch(w)
  PROVE  IInv'
  <1> USE DEF Dispatch, Goto, seriesVars, localVars, historyVars
  <1>1. w \in Works /\ pc' = [pc EXCEPT ![w] = "running"] /\ UNCHANGED nleft
    BY DEF Works
  <1>2. ShapeOK'
    BY <1>1 DEF IInv, ShapeOK, Beginning
  <1>3. \A x \in Works : pc'[x] = IF x = w THEN "running" ELSE pc[x]
    BY <1>1 DEF IInv, ShapeOK
  <1>4. /\ \A t : Begun(t)' <=> Begun(t)
        /\ \A t : Counted(t)' <=> Counted(t)
        /\ \A p : Uncounted(p)' = Uncounted(p)
        /\ \A x \in Works : (UnderWay(x)' <=> UnderWay(x)) /\ (Fresh(x)' <=> Fresh(x))
    BY <1>1, <1>3 DEF Begun, Counted, Uncounted, UnderWay, Fresh
  <1>5. ControlOK'
    BY <1>1, <1>3, <1>4 DEF IInv, ShapeOK, ControlOK, ControlAt, IsParent, Beginning, Popping
  <1>6. UniqueOK'
    BY <1>3, <1>4 DEF IInv, UniqueOK, IsParent, Popping
  <1>7. SeriesOK'
    BY <1>3, <1>4, InWorks DEF IInv, SeriesOK
  <1>8. JoinOK'
    <2>1. \A p \in Parallels : pc'[p] = pc[p]
      BY <1>3, ShapeAssumption DEF Works
    <2> QED
      BY <1>1, <1>4, <2>1 DEF IInv, JoinOK
  <1>9. DestroyedOK' /\ LiveOK' /\ CancelOK'
    BY <1>3, <1>4 DEF IInv, DestroyedOK, LiveOK, CancelOK
  <1> QED
    BY <1>2, <1>5, <1>6, <1>7, <1>8, <1>9 DEF IInv

(* Nothing of the branches has begun, so that all of them are to be counted. *)
LEMMA DispatchParallelIInv ==
  ASSUME IInv, NEW w \in Parallels, Dispatch(w)
  PROVE  IInv'
  <1> USE DEF Dispatch, Goto, seriesVars, localVars, historyVars
  <1> DEFINE label == IF Branches[w] = <<>> THEN "done" ELSE "branches"
  <1>1. /\ w \in Works /\ w \notin Tasks /\ pc[w] = "dispatch" /\ cur[w] = w
        /\ callbacks[w] = 0 /\ branch[w] = 0
        /\ pc' = [pc EXCEPT ![w] = label]
        /\ nleft' = [nleft EXCEPT ![w] = Len(Branches[w])]
    BY ShapeAssumption DEF Works, AllBranches, IInv, ControlOK, ControlAt, Beginning
  <1>2. ShapeOK'
    BY <1>1, BranchesOK DEF IInv, ShapeOK, Beginning
  <1>3. \A x \in Works : pc'[x] = IF x = w THEN label ELSE pc[x]
    BY <1>1 DEF IInv, ShapeOK
  <1>4. /\ \A t : Begun(t)' <=> Begun(t)
        /\ \A t : Counted(t)' <=> Counted(t)
        /\ \A p : Uncounted(p)' = Uncounted(p)
        /\ \A x \in Works : (UnderWay(x)' <=> UnderWay(x)) /\ (Fresh(x)' <=> Fresh(x))
    BY <1>1, <1>3 DEF Begun, Counted, Uncounted, UnderWay, Fresh
  <1>5. Branches[w] = <<>> => Range(Branches[w]) = {}
    BY DEF Range
  <1>6. UnderWay(w) /\ \A v \in Works : pc[v] = "done" => cur[v] # w
    BY <1>1 DEF UnderWay, IInv, ControlOK, ControlAt
  <1>7. ControlOK'
    <2> SUFFICES ASSUME NEW x \in Works PROVE ControlAt(x)'
      BY DEF ControlOK
    <2>1. ControlAt(x) /\ ControlAt(w)
      BY <1>1 DEF IInv, ControlOK
    <2>2. CASE x = w
      BY <1>1, <1>3, <1>4, <1>5, <1>6, <2>1, <2>2, BranchesOK
         DEF ControlAt, Beginning, Popping
    <2>3. CASE x # w
      <3>1. pc'[x] = pc[x] /\ (pc[x] = "done" => cur[x] # w)
        BY <1>3, <1>6, <2>3
      <3>2. pc[x] = "done" => pc'[cur[x]] = pc[cur[x]]
        BY <1>3, <3>1 DEF IInv, ShapeOK
      <3>3. pc[x] = "next" => Fresh(next[x])' /\ next'[x] \in Works
        BY <1>4, <2>1 DEF ControlAt
      <3> QED
        BY <1>1, <1>3, <1>4, <2>1, <3>1, <3>2, <3>3
           DEF ControlAt, IInv, ShapeOK, IsParent, Beginning, Popping
    <2> QED
      BY <2>2, <2>3
  <1>8. UniqueOK'
    BY <1>3, <1>4 DEF IInv, UniqueOK, IsParent, Popping
  <1>9. SeriesOK'
    BY <1>3, <1>4, InWorks DEF IInv, SeriesOK
  <1>10. JoinOK'
    <2>1. \A i \in DOMAIN Branches[w] : ~Begun(Branches[w][i])
      BY <1>1, BranchesOK, OnePlace, ShapeAssumption DEF Begun, Range
    <2>2. \A i \in DOMAIN Branches[w] : ~Counted(Branches[w][i])
      BY <2>1, BranchesOK DEF Counted, IInv, SeriesOK
    <2>3. Uncounted(w) = 1 .. Len(Branches[w])
      BY <2>2, BranchesOK DEF Uncounted
    <2>4. Cardinality(1 .. Len(Branches[w])) = Len(Branches[w])
      BY BranchesOK, FS_Interval
    <2>5. nleft' = [nleft EXCEPT ![w] = Cardinality(Uncounted(w))]
      BY <1>1, <2>3, <2>4
    <2> SUFFICES ASSUME NEW p \in Parallels
                 PROVE  /\ pc'[p] = "branches" \/ branch[p] > 0 =>
                              nleft'[p] = Cardinality(Uncounted(p))
                        /\ callbacks[p] > 0 => \A t \in Range(Branches[p]) : Counted(t)
      BY <1>4 DEF JoinOK
    <2>6. CASE p = w
      BY <1>1, <2>5, <2>6 DEF IInv, ShapeOK
    <2>7. CASE p # w
      BY <1>1, <1>3, <2>5, <2>7 DEF IInv, ShapeOK, JoinOK, Works
    <2> QED
      BY <2>6, <2>7
  <1>11. DestroyedOK' /\ LiveOK' /\ CancelOK'
    BY <1>3, <1>4 DEF IInv, DestroyedOK, LiveOK, CancelOK
  <1> QED
    BY <1>2, <1>7, <1>8, <1>9, <1>10, <1>11 DEF IInv

LEMMA PopWorkIInv ==
  ASSUME IInv, NEW w \in Works, PopWork(w)
  PROVE  IInv'
  <1> USE DEF PopWork, Goto, taskVars, historyVars
  <1> DEFINE s == series[w]
  <1>1. s \in AllSeries /\ queue[s] \in Seq(Works) /\ queue[s] # <<>>
    BY InWorks DEF IInv, ShapeOK, Popping
  <1>2. /\ Head(queue[s]) \in Works /\ Tail(queue[s]) \in Seq(Works)
        /\ Head(queue[s]) \in Range(queue[s])
        /\ Range(Tail(queue[s])) \subseteq Range(queue[s]) \ {Head(queue[s])}
        /\ Len(Tail(queue[s])) \in Nat
        /\ \A i, j \in 1 .. Len(Tail(queue[s])) :
              Tail(queue[s])[i] = Tail(queue[s])[j] => i = j
    BY <1>1, TailOK DEF IInv, SeriesOK
  <1>3. /\ next' = [next EXCEPT ![w] = Head(queue[s])]
        /\ queue' = [queue EXCEPT ![s] = Tail(queue[s])]
        /\ pc' = [pc EXCEPT ![w] = "next"] /\ pc[w] = "pop_task" /\ ~was_canceled[w]
    OBVIOUS
  <1>4. ShapeOK'
    <2>1. queue' \in [AllSeries -> Seq(Works)]
      <3>1. queue \in [AllSeries -> Seq(Works)]
        BY DEF IInv, ShapeOK
      <3> QED
        BY ONLY <1>2, <1>3, <3>1
    <2>2. next' \in [Works -> Works \cup {None}]
      <3>1. next \in [Works -> Works \cup {None}]
        BY DEF IInv, ShapeOK
      <3> QED
        BY ONLY <1>2, <1>3, <3>1
    <2>3. pc' \in [Works -> Beginning \cup Popping \cup {"idle", "done"}]
      BY <1>3 DEF IInv, ShapeOK, Popping
    <2> QED
      BY <2>1, <2>2, <2>3 DEF IInv, ShapeOK
  <1>5. /\ \A x \in Works : pc'[x] = IF x = w THEN "next" ELSE pc[x]
        /\ \A x \in Works : next'[x] = IF x = w THEN Head(queue[s]) ELSE next[x]
        /\ \A t \in AllSeries : queue'[t] = IF t = s THEN Tail(queue[s]) ELSE queue[t]
        /\ \A t \in AllSeries : Range(queue'[t]) \subseteq Range(queue[t])
    BY <1>2, <1>3 DEF IInv, ShapeOK
  <1>6. /\ \A t : Begun(t)' <=> Begun(t)
        /\ \A t : Counted(t)' <=> Counted(t)
        /\ \A p : Uncounted(p)' = Uncounted(p)
        /\ \A x \in Works : (UnderWay(x)' <=> UnderWay(x)) /\ (Fresh(x)' <=> Fresh(x))
    BY <1>3, <1>5 DEF Begun, Counted, Uncounted, UnderWay, Fresh
  <1>7. /\ Begun(s) /\ s \notin destroyed
        /\ Fresh(Head(queue[s])) /\ pointer[Head(queue[s])] = s
        /\ Head(queue[s]) \notin destroyed
    BY <1>1, <1>2, <1>3 DEF IInv, ControlOK, ControlAt, SeriesOK, DestroyedOK, Popping
  <1>8. ControlOK'
    <2> SUFFICES ASSUME NEW x \in Works PROVE ControlAt(x)'
      BY DEF ControlOK
    <2>1. ControlAt(x) /\ ControlAt(w)
      BY DEF IInv, ControlOK
    <2>2. CASE x = w
      BY <1>1, <1>2, <1>3, <1>5, <1>6, <1>7, <2>1, <2>2
         DEF ControlAt, IsParent, Beginning, Popping
    <2>3. CASE x # w
      <3>1. pc'[x] = pc[x] /\ next'[x] = next[x]
        BY <1>5, <2>3
      <3>2. pc[x] = "done" => pc'[cur[x]] = pc[cur[x]]
        BY <1>3, <1>5, <2>1 DEF ControlAt, IInv, ShapeOK
      <3>3. \A v \in Works : pc'[v] = "done" <=> pc[v] = "done"
        BY <1>3, <1>5
      <3>4. pc[x] = "next" => Fresh(next[x])' /\ next[x] \notin Range(queue'[series[x]])
        BY <1>5, <1>6, <2>1 DEF ControlAt, Popping
      <3> QED
        BY <1>6, <2>1, <3>1, <3>2, <3>3, <3>4, ControlKept DEF ControlAt, Works
    <2> QED
      BY <2>2, <2>3
  <1>9. UniqueOK'
    BY <1>5, <1>6 DEF IInv, UniqueOK, IsParent, Popping
  <1>10. SeriesOK'
    BY <1>1, <1>2, <1>5, <1>6, <1>7, InWorks DEF IInv, SeriesOK
  <1>11. JoinOK' /\ LiveOK'
    BY <1>5, <1>6 DEF IInv, JoinOK, LiveOK
  <1>12. DestroyedOK'
    BY <1>5, <1>6 DEF IInv, DestroyedOK
  <1>13. CancelOK'
    BY <1>3, <1>5 DEF IInv, ShapeOK, CancelOK
  <1> QED
    BY <1>4, <1>8, <1>9, <1>10, <1>11, <1>12, <1>13 DEF IInv

(* A series that is no branch is not counted by anyone. *)
LEMMA SeriesEndsIInv ==
  ASSUME IInv, NEW w \in Works, SeriesEnds(w)
  PROVE  IInv'
  <1> USE DEF SeriesEnds, Goto, seriesVars, taskVars, localVars, historyVars
  <1>1. ControlAt(w) /\ pc[w] = "ended"
    BY DEF IInv, ControlOK
  <1>2. callbacks[w] > 0 /\ finished[Root] /\ series[w] = Root
    BY <1>1, ShapeAssumption DEF ControlAt, Popping, IsParent, Works
  <1>3. ShapeOK'
    BY DEF IInv, ShapeOK
  <1>4. \A x \in Works : pc'[x] = IF x = w THEN "idle" ELSE pc[x]
    BY DEF IInv, ShapeOK
  <1>5. /\ \A t : Begun(t)' <=> Begun(t)
        /\ \A x \in Works : (UnderWay(x)' <=> UnderWay(x)) /\ (Fresh(x)' <=> Fresh(x))
    BY <1>1, <1>2, <1>4 DEF Begun, UnderWay, Fresh
  <1>6. \A t : t # Root => (Counted(t)' <=> Counted(t))
    BY <1>1, <1>2, <1>4 DEF Counted
  <1>7. \A t : Counted(t) => Counted(t)'
    BY <1>1, <1>2, <1>4 DEF Counted
  <1>8. \A p \in Parallels : Uncounted(p)' = Uncounted(p)
    BY <1>6, OnePlace DEF Uncounted, Range
  <1>9. ControlOK'
    <2> SUFFICES ASSUME NEW x \in Works PROVE ControlAt(x)'
      BY DEF ControlOK
    <2>1. ControlAt(x)
      BY DEF IInv, ControlOK
    <2>2. CASE x = w
      BY <1>4, <2>1, <2>2 DEF ControlAt, Beginning, Popping
    <2>3. CASE x # w
      <3>1. pc[x] = "done" => cur[x] \in Works /\ cur[x] # w
        BY <1>2, <2>1 DEF ControlAt, UnderWay, Works
      <3> QED
        BY <1>4, <1>5, <1>7, <2>1, <2>3, <3>1, ControlKept DEF ControlAt
    <2> QED
      BY <2>2, <2>3
  <1>10. UniqueOK'
    BY <1>4, <1>5 DEF IInv, UniqueOK, IsParent, Popping
  <1>11. SeriesOK'
    BY <1>5, InWorks DEF IInv, SeriesOK
  <1>12. JoinOK'
    BY <1>4, <1>7, <1>8 DEF IInv, JoinOK, Works
  <1>13. DestroyedOK' /\ LiveOK' /\ CancelOK'
    BY <1>4, <1>5 DEF IInv, DestroyedOK, LiveOK, CancelOK
  <1> QED
    BY <1>3, <1>9, <1>10, <1>11, <1>12, <1>13 DEF IInv

LEMMA PopNothingIInv ==
  ASSUME IInv, NEW w \in Works, PopNothing(w)
  PROVE  IInv'
  <1>1. PICK s \in AllSeries : s = series[w]
    BY InWorks DEF PopNothing, Popping
  <1>2. /\ pc' = [pc EXCEPT ![w] = "ended"]
        /\ finished' = [finished EXCEPT ![s] = TRUE]
        /\ callbacks' = [callbacks EXCEPT ![s] = @ + 1]
    BY <1>1 DEF PopNothing, Goto
  <1>u. /\ pc[w] = "pop_task" /\ series[w] = s
        /\ live' = IF s = Root THEN live \ {s} ELSE live
        /\ UNCHANGED <<queue, canceled, pointer, parent, nleft, destroyed, doomed,
                       cur, par, series, was_canceled, next, branch>>
    BY <1>1 DEF PopNothing, Goto, DeletesItself, taskVars, localVars
  <1> USE <1>u
  <1>3. /\ callbacks[w] > 0 /\ ~finished[s] /\ Begun(s) /\ callbacks[s] = 0
        /\ callbacks[cur[w]] > 0 /\ cur[w] \in Works /\ IsParent(par[w], s)
    BY DEF ControlOK, ControlAt, Popping, IInv, SeriesOK, ShapeOK
  <1>4. s \notin Works
    BY ShapeAssumption
  <1>5. ShapeOK'
    <2>1. callbacks' \in [Works \cup AllSeries -> Nat]
      BY <1>2 DEF IInv, ShapeOK
    <2>2. finished' \in [AllSeries -> BOOLEAN]
      BY <1>2 DEF IInv, ShapeOK
    <2>3. pc' \in [Works -> Beginning \cup Popping \cup {"idle", "done"}]
      BY <1>2 DEF IInv, ShapeOK, Popping
    <2> QED
      BY <2>1, <2>2, <2>3 DEF IInv, ShapeOK
  <1>6. /\ \A x \in Works : pc'[x] = IF x = w THEN "ended" ELSE pc[x]
        /\ \A x \in Works : callbacks'[x] = callbacks[x]
        /\ \A t \in AllSeries : callbacks'[t] = IF t = s THEN 1 ELSE callbacks[t]
        /\ \A t \in AllSeries : finished'[t] = IF t = s THEN TRUE ELSE finished[t]
    BY <1>2, <1>3, <1>4 DEF IInv, ShapeOK
  <1>7. \A t : Begun(t)' <=> Begun(t)
    BY DEF Begun
  <1>8. \A x \in Works : (UnderWay(x)' <=> UnderWay(x)) /\ (Fresh(x)' <=> Fresh(x))
    BY <1>6 DEF UnderWay, Fresh
  <1>9. \A t \in AllSeries : Counted(t)' <=> Counted(t)
    <2>1. series' = series /\ series[w] = s /\ ~finished[s]
      BY <1>3
    <2> QED
      BY ONLY <1>6, <2>1, w \in Works, s \in AllSeries DEF Counted
  <1>10. \A p \in Parallels : Uncounted(p)' = Uncounted(p)
    BY <1>9, OnePlace DEF Uncounted, Range
  <1>11. ControlOK'
    <2> SUFFICES ASSUME NEW x \in Works PROVE ControlAt(x)'
      BY DEF ControlOK
    <2>1. ControlAt(x)
      BY DEF IInv, ControlOK
    <2>2. CASE x = w
      BY <1>3, <1>6, <1>7, <2>1, <2>2 DEF ControlAt, Beginning, Popping, IsParent
    <2>3. CASE x # w
      <3>1. pc[x] = "done" => cur[x] \in Works /\ cur[x] # w
        BY <1>3, <2>1 DEF ControlAt, UnderWay, Works
      <3>2. pc[x] \in Popping => series[x] \in AllSeries /\ series[x] # s
        BY <2>1, <2>3 DEF ControlAt, Popping, IInv, UniqueOK
      <3> QED
        <4>1. \A v \in Works : pc'[v] = "done" <=> pc[v] = "done"
          BY <1>6
        <4>2. pc[x] = "done" => /\ UnderWay(cur[x]) /\ pc'[cur[x]] = pc[cur[x]]
                                /\ \A v \in Works : pc[v] = "done" /\ cur[v] = cur[x] => v = x
          BY <1>6, <2>1, <3>1 DEF ControlAt
        <4>3. pc[x] = "next" => /\ next[x] \in Works /\ Fresh(next[x])
                                /\ next[x] \notin Range(queue[series[x]])
                                /\ next[x] \notin destroyed
          BY <2>1 DEF ControlAt
        <4>4. pc[x] \in Popping => finished'[series[x]] = finished[series[x]]
          BY <1>6, <3>2
        <4>5. pc'[x] = pc[x] /\ \A y \in Works : callbacks'[y] = callbacks[y]
          BY <1>6, <2>3
        <4> QED
          BY <1>7, <1>8, <1>9, <3>1, <4>1, <4>2, <4>3, <4>4, <4>5, ControlKept
    <2> QED
      BY <2>2, <2>3
  <1>12. UniqueOK'
    <2>1. \A x \in Works : UnderWay(x) => pointer[x] # s /\ pointer[x] \in AllSeries
      BY DEF IInv, UniqueOK, Popping
    <2>2. \A x \in Works : pc'[x] \in Popping <=> pc[x] \in Popping
      BY <1>6 DEF Popping
    <2>3. \A x \in Works : UnderWay(x) => ~finished'[pointer[x]]
      BY <1>6, <2>1 DEF IInv, UniqueOK
    <2> QED
      BY <1>7, <1>8, <2>2, <2>3 DEF IInv, UniqueOK, IsParent
  <1>13. SeriesOK'
    <2>0. \A t \in AllSeries : callbacks[t] = (IF finished[t] THEN 1 ELSE 0) /\ (finished[t] => Begun(t))
      BY DEF IInv, SeriesOK
    <2>1. \A t \in AllSeries : callbacks'[t] = IF finished'[t] THEN 1 ELSE 0
      BY ONLY <1>6, <2>0
    <2>2. \A t \in AllSeries : finished'[t] => Begun(t)
      BY ONLY <1>3, <1>6, <2>0
    <2> QED
      BY <1>7, <1>8, <2>1, <2>2, InWorks DEF IInv, SeriesOK
  <1>14. JoinOK'
    BY <1>6, <1>9, <1>10, OnePlace DEF IInv, JoinOK, Works
  <1>15. DestroyedOK' /\ CancelOK'
    BY <1>6, <1>7, <1>8 DEF IInv, DestroyedOK, CancelOK
  <1>16. LiveOK'
    BY <1>4, <1>6, InWorks DEF IInv, LiveOK, Works
  <1> QED
    BY <1>5, <1>11, <1>12, <1>13, <1>14, <1>15, <1>16 DEF IInv

LEMMA DispatchNextIInv ==
  ASSUME IInv, NEW w \in Works, DispatchNext(w)
  PROVE  IInv'
  <1>1. PICK n \in Works : n = next[w]
    BY DEF DispatchNext, IInv, ControlOK, ControlAt
  <1>2. /\ pc' = [pc EXCEPT ![w] = "idle", ![n] = "dispatch"]
        /\ parent' = [parent EXCEPT ![n] = par[w]]
    BY <1>1 DEF DispatchNext
  <1>u. /\ pc[w] = "next" /\ next[w] = n
        /\ UNCHANGED <<queue, canceled, finished, pointer, nleft, live, callbacks,
                       destroyed, doomed, cur, par, series, was_canceled, next, branch>>
    BY <1>1 DEF DispatchNext, seriesVars, localVars, historyVars
  <1> USE <1>u
  <1>3. /\ Fresh(n) /\ pointer[n] = series[w] /\ n # w
        /\ n \notin Range(queue[series[w]]) /\ n \notin destroyed
        /\ callbacks[w] > 0 /\ series[w] \in AllSeries /\ Begun(series[w])
        /\ ~finished[series[w]] /\ IsParent(par[w], series[w])
    BY DEF IInv, ControlOK, ControlAt, Popping, Fresh
  <1>4. ShapeOK'
    BY <1>2 DEF IInv, ShapeOK, Beginning
  <1>5. /\ \A x \in Works : pc'[x] = IF x = n THEN "dispatch" ELSE IF x = w THEN "idle" ELSE pc[x]
        /\ \A x \in Works : parent'[x] = IF x = n THEN par[w] ELSE parent[x]
    BY <1>2 DEF IInv, ShapeOK
  <1>6. /\ callbacks[n] = 0 /\ pc[n] = "idle" /\ branch[n] = 0 /\ cur[n] = n
        /\ ~UnderWay(w) /\ ~UnderWay(n)
    BY <1>3 DEF Fresh, UnderWay
  <1>7. /\ \A t : Begun(t)' <=> Begun(t)
        /\ \A t : Counted(t)' <=> Counted(t)
        /\ \A p : Uncounted(p)' = Uncounted(p)
    BY <1>5, <1>6 DEF Begun, Counted, Uncounted
  <1>8. /\ \A x \in Works : UnderWay(x)' <=> UnderWay(x) \/ x = n
        /\ \A x \in Works : Fresh(x)' <=> Fresh(x) /\ x # n
    BY <1>3, <1>5, <1>6 DEF UnderWay, Fresh
  <1>9. ControlOK'
    <2> SUFFICES ASSUME NEW x \in Works PROVE ControlAt(x)'
      BY DEF ControlOK
    <2>1. ControlAt(x)
      BY DEF IInv, ControlOK
    <2>2. CASE x = w
      BY <1>3, <1>5, <2>1, <2>2 DEF ControlAt, Beginning, Popping
    <2>3. CASE x = n
      BY <1>5, <1>6, <2>3 DEF ControlAt, Beginning, Popping
    <2>4. CASE x # w /\ x # n
      <3>1. pc[x] = "done" => cur[x] \in Works /\ UnderWay(cur[x])
        BY <2>1 DEF ControlAt, Works
      <3>2. pc[x] = "next" => next[x] \in Works /\ next[x] # n
        BY <1>3, <2>1, <2>4 DEF ControlAt, IInv, UniqueOK, Popping
      <3>3. pc[x] = "done" => pc'[cur[x]] = pc[cur[x]]
        BY <1>5, <1>6, <3>1
      <3>4. \A v \in Works : pc'[v] = "done" <=> pc[v] = "done"
        BY <1>5, <1>6
      <3>5. pc[x] = "done" => \A v \in Works : pc[v] = "done" /\ cur[v] = cur[x] => v = x
        BY <2>1 DEF ControlAt
      <3>6. pc[x] = "next" => /\ Fresh(next[x]) /\ next[x] \notin destroyed
                              /\ next[x] \notin Range(queue[series[x]])
        BY <2>1 DEF ControlAt
      <3> QED
        BY <1>5, <1>7, <1>8, <2>4, <3>1, <3>2, <3>3, <3>4, <3>5, <3>6, ControlKept
    <2> QED
      BY <2>2, <2>3, <2>4
  <1>10. UniqueOK'
    <2>1. \A x \in Works : UnderWay(x) => x # n /\ pointer[x] # pointer[n]
      BY <1>3, <1>6 DEF IInv, UniqueOK, Popping
    <2>2. \A v \in Works : pc'[v] \in Popping => /\ v # w /\ v # n /\ pc[v] \in Popping
                                                /\ series[v] # pointer[n]
      BY <1>3, <1>5 DEF IInv, UniqueOK, Popping
    <2>3. \A x \in Works : UnderWay(x)' => IsParent(parent'[x], pointer[x])
      BY <1>3, <1>5, <1>8 DEF IInv, UniqueOK
    <2> QED
      BY <1>3, <1>7, <1>8, <2>1, <2>2, <2>3 DEF IInv, UniqueOK, IsParent
  <1>11. SeriesOK'
    <2>1. \A t \in AllSeries : n \notin Range(queue[t])
      BY <1>3 DEF IInv, SeriesOK
    <2>2. \A t \in AllSeries : ~Begun(t) => First(t) # n
      BY <1>3, ContentOK DEF IInv, SeriesOK
    <2>3. \A x \in Spare : pointer[x] = None => x # n
      BY <1>3, ShapeAssumption
    <2> QED
      BY <1>7, <1>8, <2>1, <2>2, <2>3, InWorks DEF IInv, SeriesOK
  <1>12. JoinOK'
    BY <1>5, <1>6, <1>7 DEF IInv, JoinOK, Works
  <1>13. DestroyedOK'
    BY <1>3, <1>7, <1>8 DEF IInv, DestroyedOK
  <1>14. LiveOK' /\ CancelOK'
    BY <1>5 DEF IInv, LiveOK, CancelOK
  <1> QED
    BY <1>4, <1>9, <1>10, <1>11, <1>12, <1>13, <1>14 DEF IInv

(* A branch begins: its first work, which nothing has touched yet. *)
LEMMA DispatchBranchIInv ==
  ASSUME IInv, NEW w \in Works, DispatchBranch(w)
  PROVE  IInv'
  <1>1. w \in Parallels /\ branch[w] \in Nat /\ branch[w] < Len(Branches[w])
    BY DEF DispatchBranch, IInv, ControlOK, ControlAt, ShapeOK
  <1>2. PICK k \in 1 .. Len(Branches[w]) : k = branch[w] + 1
    BY <1>1, BranchesOK
  <1>3. PICK s \in AllSeries : s = Branches[w][k]
    BY <1>1, <1>2, BranchesOK
  <1>4. PICK f \in Works : f = First(s)
    BY ContentOK
  <1> DEFINE label == IF k = Len(Branches[w]) THEN "idle" ELSE pc[w]
  <1>5. /\ branch' = [branch EXCEPT ![w] = k]
        /\ parent' = [parent EXCEPT ![f] = w]
        /\ pc' = [pc EXCEPT ![f] = "dispatch", ![w] = IF k = Len(Branches[w]) THEN "idle" ELSE @]
    BY <1>2, <1>3, <1>4 DEF DispatchBranch
  <1>u. /\ pc[w] = "branches"
        /\ UNCHANGED <<queue, canceled, finished, pointer, nleft, live, cur, par, series,
                       was_canceled, next, callbacks, destroyed, doomed>>
    BY DEF DispatchBranch, seriesVars, historyVars
  <1> USE <1>u
  <1>6. s \in Range(Branches[w]) /\ s # Root
    BY <1>1, <1>2, <1>3, BranchesOK, OnePlace DEF Range
  <1>7. /\ ~Begun(s)
        /\ \A t : Begun(t)' <=> Begun(t) \/ t = s
    <2>1. \A p \in Parallels : \A n \in DOMAIN Branches[p] : (Branches[p][n] = s) <=> (p = w /\ n = k)
      <3>1. \A p \in Parallels : \A n \in DOMAIN Branches[p] :
               Branches[p][n] = Branches[w][k] => p = w /\ n = k
        <4>1. k \in DOMAIN Branches[w] /\ w \in Parallels
          BY <1>1, <1>2, BranchesOK
        <4> QED
          BY ONLY <4>1, ShapeAssumption
      <3> QED
        BY ONLY <1>3, <3>1
    <2>2. branch' = [x \in Works |-> IF x = w THEN k ELSE branch[x]]
      BY <1>5 DEF IInv, ShapeOK
    <2>3. \A p \in Parallels : branch'[p] = IF p = w THEN k ELSE branch[p]
      BY <2>2 DEF Works
    <2>4. \A p \in Parallels : \A n \in DOMAIN Branches[p] :
             (n <= branch'[p]) <=> (n <= branch[p] \/ (p = w /\ n = k))
      BY <1>1, <1>2, <2>3, BranchesOK
    <2>5. ~Begun(s)
      BY <1>1, <1>2, <1>6, <2>1 DEF Begun
    <2>6. \A t : Begun(t)' => Begun(t) \/ t = s
      BY <1>1, <1>2, <1>3, <2>4 DEF Begun
    <2>7. Begun(s)'
      BY <1>1, <1>2, <1>3, <2>4, BranchesOK DEF Begun
    <2>8. \A t : Begun(t) => Begun(t)'
      BY <2>4 DEF Begun
    <2> QED
      BY <2>5, <2>6, <2>7, <2>8
  <1>8. /\ Fresh(f) /\ pointer[f] = s /\ f # w /\ queue[s] = Tail(Content[s])
        /\ callbacks[f] = 0 /\ pc[f] = "idle" /\ branch[f] = 0 /\ cur[f] = f
        /\ \A t \in AllSeries : f \notin Range(queue[t])
        /\ callbacks[w] = 0 /\ ~finished[s] /\ UnderWay(w) /\ ~UnderWay(f)
        /\ cur[w] = w
    <2>1. Fresh(f) /\ pointer[f] = s /\ queue[s] = Tail(Content[s]) /\ ~finished[s]
      BY <1>4, <1>7, ContentOK DEF IInv, SeriesOK
    <2>2. \A t \in AllSeries : f \notin Range(queue[t])
      BY <1>4, <2>1, ContentOK DEF IInv, SeriesOK
    <2>3. callbacks[w] = 0 /\ cur[w] = w
      BY DEF IInv, ControlOK, ControlAt, Beginning
    <2> QED
      BY <2>1, <2>2, <2>3 DEF Fresh, UnderWay
  <1>9. ShapeOK'
    <2>1. branch \in [Works -> Nat] /\ k \in Nat
      BY DEF IInv, ShapeOK
    <2>2. branch' \in [Works -> Nat]
      BY ONLY <1>5, <2>1
    <2>3. parent \in [Works -> Parallels \cup {None}]
      BY DEF IInv, ShapeOK
    <2>4. parent' \in [Works -> Parallels \cup {None}]
      BY ONLY <1>1, <1>5, <2>3
    <2>5. pc' \in [Works -> Beginning \cup Popping \cup {"idle", "done"}]
      BY <1>5, <1>8 DEF IInv, ShapeOK, Beginning
    <2> QED
      BY <2>2, <2>4, <2>5 DEF IInv, ShapeOK
  <1>10. /\ \A x \in Works : pc'[x] = IF x = f THEN "dispatch" ELSE IF x = w THEN label ELSE pc[x]
         /\ \A x \in Works : parent'[x] = IF x = f THEN w ELSE parent[x]
         /\ \A x \in Works : branch'[x] = IF x = w THEN k ELSE branch[x]
    BY <1>5, <1>8 DEF IInv, ShapeOK
  <1>11. /\ \A t : Counted(t)' <=> Counted(t)
         /\ \A p : Uncounted(p)' = Uncounted(p)
    BY <1>8, <1>10 DEF Counted, Uncounted
  <1>12. /\ \A x \in Works : UnderWay(x)' <=> UnderWay(x) \/ x = f
         /\ \A x \in Works : Fresh(x)' <=> Fresh(x) /\ x # f
    BY <1>2, <1>8, <1>10 DEF UnderWay, Fresh
  <1>13. ControlOK'
    <2> SUFFICES ASSUME NEW x \in Works PROVE ControlAt(x)'
      BY DEF ControlOK
    <2>1. ControlAt(x)
      BY DEF IInv, ControlOK
    <2>2. CASE x = w
      BY <1>1, <1>2, <1>8, <1>10, <2>2 DEF ControlAt, Beginning, Popping
    <2>3. CASE x = f
      BY <1>8, <1>10, <2>3 DEF ControlAt, Beginning, Popping
    <2>4. CASE x # w /\ x # f
      <3>1. pc[x] = "done" => /\ cur[x] \in Works /\ UnderWay(cur[x])
                              /\ pc[cur[x]] = "idle" \/ cur[x] = x
                              /\ \A v \in Works : pc[v] = "done" /\ cur[v] = cur[x] => v = x
        BY <2>1 DEF ControlAt, Works
      <3>2. pc[x] = "done" => pc'[cur[x]] = pc[cur[x]]
        BY <1>8, <1>10, <2>4, <3>1
      <3>3. \A v \in Works : pc'[v] = "done" <=> pc[v] = "done"
        BY <1>8, <1>10
      <3>4. pc[x] = "next" => /\ next[x] \in Works /\ Fresh(next[x])
                              /\ next[x] \notin Range(queue[series[x]])
                              /\ next[x] \notin destroyed
                              /\ pointer[next[x]] = series[x] /\ Begun(series[x])
        BY <2>1 DEF ControlAt, Popping
      <3>5. pc[x] = "next" => next[x] # f
        BY <1>7, <1>8, <3>4
      <3>6. pc'[x] = pc[x] /\ branch'[x] = branch[x]
        BY <1>10, <2>4
      <3> QED
        BY <1>7, <1>11, <1>12, <3>1, <3>2, <3>3, <3>4, <3>5, <3>6, ControlKept
    <2> QED
      BY <2>2, <2>3, <2>4
  <1>14. UniqueOK'
    <2>1. \A x \in Works : UnderWay(x) => x # f /\ pointer[x] # s
      BY <1>7, <1>8 DEF IInv, UniqueOK
    <2>2. \A v \in Works : pc'[v] \in Popping => /\ v # w /\ v # f /\ pc[v] \in Popping
                                                /\ series[v] # s
      BY <1>7, <1>8, <1>10 DEF IInv, ControlOK, ControlAt, Popping
    <2>3. \A x \in Works : UnderWay(x)' => IsParent(parent'[x], pointer[x])
      BY <1>1, <1>6, <1>8, <1>10, <1>12 DEF IInv, UniqueOK, IsParent
    <2> QED
      BY <1>7, <1>8, <1>12, <2>1, <2>2, <2>3 DEF IInv, UniqueOK, IsParent
  <1>15. SeriesOK'
    <2>1. \A t \in AllSeries : ~Begun(t)' => First(t) # f /\ ~Begun(t)
      BY <1>4, <1>7, ContentOK, OnePlace
    <2>2. \A x \in Spare : pointer[x] = None => x # f
      BY <1>8, ShapeAssumption
    <2> QED
      BY <1>7, <1>8, <1>12, <2>1, <2>2, InWorks DEF IInv, SeriesOK
  <1>16. JoinOK'
    <2>1. \A p \in Parallels : pc'[p] = "branches" \/ branch'[p] > 0 =>
                              pc[p] = "branches" \/ branch[p] > 0
      BY <1>8, <1>10 DEF Works
    <2> QED
      BY <1>11, <2>1 DEF IInv, JoinOK
  <1>17. DestroyedOK'
    <2>1. w \notin destroyed
      BY <1>8 DEF IInv, DestroyedOK, Fresh
    <2>2. s \notin destroyed /\ f \notin destroyed
      BY <1>1, <1>4, <1>6, <1>7, <2>1 DEF IInv, DestroyedOK
    <2> QED
      BY <1>7, <1>12, <2>2 DEF IInv, DestroyedOK
  <1>18. LiveOK' /\ CancelOK'
    BY <1>8, <1>10 DEF IInv, LiveOK, CancelOK
  <1> QED
    BY <1>9, <1>13, <1>14, <1>15, <1>16, <1>17, <1>18 DEF IInv

(* The thread that ends the last branch goes on with the parallel work: no  *)
(* branch is left, hence none is still to be dispatched.                    *)
LEMMA BranchEndsIInv ==
  ASSUME IInv, NEW w \in Works, BranchEnds(w)
  PROVE  IInv'
  <1>1. ControlAt(w) /\ pc[w] = "ended" /\ par[w] # None
    BY DEF BranchEnds, IInv, ControlOK
  <1>2. PICK p \in Parallels : p = par[w]
    BY <1>1 DEF IInv, ShapeOK
  <1>3. PICK s \in AllSeries : s = series[w]
    BY <1>1 DEF ControlAt, Popping
  <1>4. /\ s \in Range(Branches[p]) /\ Begun(s) /\ finished[s] /\ callbacks[w] > 0
        /\ ~Counted(s) /\ p \in Works
    BY <1>1, <1>2, <1>3 DEF ControlAt, Popping, IsParent, Counted, Works
  <1>5. PICK k \in 1 .. Len(Branches[p]) : Branches[p][k] = s /\ k <= branch[p]
    BY <1>2, <1>4, BranchesOK, OnePlace, ShapeAssumption DEF Begun, Range
  <1>6. /\ callbacks[p] = 0 /\ branch[p] > 0 /\ branch[p] \in Nat
        /\ UnderWay(p) /\ p # w
    BY <1>4, <1>5 DEF IInv, JoinOK, ShapeOK, UnderWay
  <1> DEFINE last == nleft'[p] = 0
  <1>7. /\ nleft' = [nleft EXCEPT ![p] = @ - 1]
        /\ pc' = [pc EXCEPT ![w] = IF last THEN "done" ELSE "idle"]
        /\ cur' = IF last THEN [cur EXCEPT ![w] = p] ELSE cur
    BY <1>2 DEF BranchEnds, Goto
  <1>u. /\ pc[w] = "ended" /\ series[w] = s
        /\ UNCHANGED <<queue, canceled, finished, pointer, parent, live, par, series,
                       was_canceled, next, branch, callbacks, destroyed, doomed>>
    BY <1>1, <1>3 DEF BranchEnds, seriesVars, historyVars
  <1> USE <1>u
  <1>8. ShapeOK'
    BY <1>4, <1>7 DEF IInv, ShapeOK
  <1>9. /\ \A x \in Works : pc'[x] = IF x = w THEN IF last THEN "done" ELSE "idle" ELSE pc[x]
        /\ \A x \in Works : cur'[x] = IF x = w /\ last THEN p ELSE cur[x]
        /\ \A q \in Parallels : nleft'[q] = IF q = p THEN nleft[p] - 1 ELSE nleft[q]
    BY <1>4, <1>7 DEF IInv, ShapeOK
  <1>10. /\ \A t : Begun(t)' <=> Begun(t)
         /\ \A x \in Works : (UnderWay(x)' <=> UnderWay(x)) /\ (Fresh(x)' <=> Fresh(x))
    BY <1>4, <1>9 DEF Begun, UnderWay, Fresh
  <1>11. \A t : Counted(t)' <=> Counted(t) \/ t = s
    <2>1. \A v \in Works : pc[v] = "ended" /\ series[v] = s => v = w
      BY DEF IInv, UniqueOK, Popping
    <2> QED
      BY <1>4, <1>9, <2>1 DEF Counted
  <1>12. /\ k \in Uncounted(p) /\ Uncounted(p)' = Uncounted(p) \ {k}
         /\ \A q \in Parallels : q # p => Uncounted(q)' = Uncounted(q)
    <2>1. \A q \in Parallels : \A n \in DOMAIN Branches[q] : (Branches[q][n] = s) <=> (q = p /\ n = k)
      BY <1>5, BranchesOK, ShapeAssumption
    <2> QED
      BY <1>4, <1>5, <1>11, <2>1, BranchesOK DEF Uncounted
  <1>13. /\ IsFiniteSet(Uncounted(p)) /\ IsFiniteSet(Uncounted(p)')
         /\ Cardinality(Uncounted(p)') = Cardinality(Uncounted(p)) - 1
         /\ nleft[p] = Cardinality(Uncounted(p))
    <2>1. IsFiniteSet(Uncounted(p))
      <3>1. Uncounted(p) \subseteq 1 .. Len(Branches[p]) /\ IsFiniteSet(1 .. Len(Branches[p]))
        <4>1. Len(Branches[p]) \in Int /\ 1 \in Int
          BY BranchesOK
        <4>2. IsFiniteSet(1 .. Len(Branches[p]))
          BY <4>1, FS_Interval
        <4> QED
          BY <4>2, BranchesOK DEF Uncounted
      <3> QED
        BY <3>1, FS_Subset
    <2> QED
      BY <1>6, <1>12, <2>1, FS_RemoveElement DEF IInv, JoinOK
  <1>14. nleft'[p] = Cardinality(Uncounted(p)')
    BY <1>9, <1>13
  <1>15. ASSUME last
         PROVE  /\ \A t \in Range(Branches[p]) : Counted(t)'
                /\ pc[p] = "idle"
                /\ \A v \in Works : pc[v] = "done" => cur[v] # p
    <2>1. Uncounted(p)' = {}
      BY <1>13, <1>14, <1>15, FS_EmptySet
    <2>2. \A n \in 1 .. Len(Branches[p]) : Counted(Branches[p][n])'
      BY <2>1, BranchesOK DEF Uncounted
    <2>3. ASSUME NEW t \in Range(Branches[p]) PROVE Counted(t)'
      <3>1. PICK n \in 1 .. Len(Branches[p]) : t = Branches[p][n]
        BY BranchesOK
      <3>2. Counted(Branches[p][n])'
        BY <2>2
      <3> QED
        BY <3>1, <3>2 DEF Counted
    <2>4. \A v \in Works : pc[v] = "done" => cur[v] # p
      BY <1>4 DEF IInv, ControlOK, ControlAt
    <2>5. pc[p] # "branches"
      <3> SUFFICES ASSUME pc[p] = "branches" PROVE FALSE
        OBVIOUS
      <3>1. branch[p] + 1 \in 1 .. Len(Branches[p])
        BY <1>4, <1>6, BranchesOK DEF IInv, ControlOK, ControlAt
      <3>2. PICK t \in AllSeries : t = Branches[p][branch[p] + 1]
        BY <3>1, BranchesOK
      <3>3. Begun(t)
        BY <2>2, <3>1, <3>2 DEF Counted, IInv, SeriesOK
      <3>4. t # Root
        BY <3>1, <3>2, BranchesOK
      <3>5. \A q \in Parallels : \A n \in DOMAIN Branches[q] :
               Branches[q][n] = t => q = p /\ n = branch[p] + 1
        BY <3>1, <3>2, BranchesOK, ShapeAssumption
      <3> QED
        BY <1>6, <3>3, <3>4, <3>5 DEF Begun
    <2>6. ControlAt(p)
      BY <1>4 DEF IInv, ControlOK
    <2>7. pc[p] \notin Popping \cup {"done", "dispatch", "running"}
      BY <1>4, <1>6, <2>4, <2>6, ShapeAssumption DEF ControlAt
    <2> QED
      BY <1>4, <2>3, <2>4, <2>5, <2>7 DEF IInv, ShapeOK, Beginning
  <1>16. ControlOK'
    <2> SUFFICES ASSUME NEW x \in Works PROVE ControlAt(x)'
      BY DEF ControlOK
    <2>1. ControlAt(x)
      BY DEF IInv, ControlOK
    <2>2. CASE x = w /\ last
      <3>1. pc'[w] = "done" /\ cur'[w] = p /\ UnderWay(p)' /\ pc'[p] = "idle"
        BY <1>4, <1>6, <1>9, <1>10, <1>15, <2>2
      <3>2. \A v \in Works : pc'[v] = "done" /\ cur'[v] = p => v = w
        BY <1>9, <1>15, <2>2
      <3> QED
        BY <1>1, <1>4, <1>15, <2>2, <3>1, <3>2 DEF ControlAt, Beginning, Popping
    <2>3. CASE x = w /\ ~last
      BY <1>1, <1>9, <2>3 DEF ControlAt, Beginning, Popping
    <2>4. CASE x # w
      <3>1. pc[x] = "done" => /\ cur[x] \in Works /\ UnderWay(cur[x]) /\ cur[x] # w
                              /\ \A v \in Works : pc[v] = "done" /\ cur[v] = cur[x] => v = x
        BY <1>4, <2>1 DEF ControlAt, UnderWay, Works
      <3>2. pc[x] = "done" => \A v \in Works : pc'[v] = "done" /\ cur'[v] = cur[x] => v = x
        BY <1>9, <1>15, <2>4, <3>1
      <3>3. pc[x] = "done" => pc'[cur[x]] = pc[cur[x]]
        BY <1>9, <3>1
      <3>4. pc[x] = "next" => /\ next[x] \in Works /\ Fresh(next[x])
                              /\ next[x] \notin Range(queue[series[x]])
                              /\ next[x] \notin destroyed
        BY <2>1 DEF ControlAt
      <3>5. pc'[x] = pc[x] /\ cur'[x] = cur[x]
        BY <1>9, <2>4
      <3> QED
        BY <1>10, <1>11, <3>1, <3>2, <3>3, <3>4, <3>5, ControlKept
    <2> QED
      BY <2>2, <2>3, <2>4
  <1>17. UniqueOK'
    <2>1. \A v \in Works : pc'[v] \in Popping => pc[v] \in Popping
      BY <1>9 DEF Popping
    <2> QED
      BY <1>10, <2>1 DEF IInv, UniqueOK, IsParent
  <1>18. SeriesOK'
    BY <1>10, InWorks DEF IInv, SeriesOK
  <1>19. JoinOK'
    <2> SUFFICES ASSUME NEW q \in Parallels
                 PROVE  /\ pc'[q] = "branches" \/ branch[q] > 0 =>
                              nleft'[q] = Cardinality(Uncounted(q)')
                        /\ callbacks[q] > 0 => \A t \in Range(Branches[q]) : Counted(t)'
      BY DEF JoinOK
    <2>1. q \in Works /\ (pc'[q] = "branches" => pc[q] = "branches")
      BY <1>9 DEF Works
    <2>2. CASE q = p
      BY <1>6, <1>14, <2>2
    <2>3. CASE q # p
      BY <1>9, <1>11, <1>12, <2>1, <2>3 DEF IInv, JoinOK
    <2> QED
      BY <2>2, <2>3
  <1>20. DestroyedOK'
    BY <1>10 DEF IInv, DestroyedOK
  <1>21. LiveOK' /\ CancelOK'
    BY <1>9 DEF IInv, LiveOK, CancelOK
  <1> QED
    BY <1>8, <1>16, <1>17, <1>18, <1>19, <1>20, <1>21 DEF IInv

(* dismiss_recursive deletes what is below a work: the least whole set. *)
LEMMA BelowIsWhole ==
  ASSUME NEW h \in Works
  PROVE  /\ SeriesBelow(h) \subseteq AllSeries /\ Held(h) \subseteq SeriesBelow(h)
         /\ IsWhole(SeriesBelow(h))
         /\ \A W \in SUBSET AllSeries : Held(h) \subseteq W /\ IsWhole(W) =>
               SeriesBelow(h) \subseteq W
  <1>1. \A v \in Works : Held(v) \subseteq AllSeries
    BY OnePlace DEF Held
  <1>2. Held(h) \subseteq SeriesBelow(h)
    BY <1>1 DEF SeriesBelow
  <1>3. IsWhole(SeriesBelow(h))
    <2> SUFFICES ASSUME NEW s \in SeriesBelow(h), NEW v \in Range(Content[s]),
                        NEW t \in Held(v)
                 PROVE  t \in SeriesBelow(h)
      BY DEF IsWhole
    <2>1. s \in AllSeries
      BY DEF SeriesBelow
    <2>2. v \in Works
      BY <2>1, ContentOK
    <2>3. t \in AllSeries
      BY <1>1, <2>2
    <2>4. ASSUME NEW W \in SUBSET AllSeries, Held(h) \subseteq W, IsWhole(W)
          PROVE  t \in W
      <3>1. s \in W
        BY <2>4 DEF SeriesBelow
      <3> QED
        BY <2>4, <3>1 DEF IsWhole
    <2> QED
      BY <2>3, <2>4 DEF SeriesBelow
  <1> QED
    BY <1>2, <1>3 DEF SeriesBelow

LEMMA BelowIsReached ==
  ASSUME NEW h \in Works, NEW t \in SeriesBelow(h)
  PROVE  \/ t \in Held(h)
         \/ \E s \in SeriesBelow(h) : \E v \in Range(Content[s]) : t \in Held(v)
  <1> DEFINE W == {u \in SeriesBelow(h) :
                     \/ u \in Held(h)
                     \/ \E s \in SeriesBelow(h) : \E v \in Range(Content[s]) : u \in Held(v)}
  <1>1. W \in SUBSET AllSeries /\ Held(h) \subseteq W
    BY BelowIsWhole
  <1>2. IsWhole(W)
    BY BelowIsWhole DEF IsWhole
  <1>3. SeriesBelow(h) \subseteq W
    <2> HIDE DEF W
    <2> QED
      BY <1>1, <1>2, BelowIsWhole
  <1> QED
    BY <1>3

(* Nothing of a series that has not begun is touched. *)
LEMMA Untouched ==
  ASSUME IInv
  PROVE  /\ \A v \in Works : Fresh(v) => \A t \in Held(v) : ~Begun(t)
         /\ \A t \in AllSeries : ~Begun(t) => \A v \in Range(Content[t]) :
               v \in Works /\ Fresh(v) /\ pointer[v] = t
  <1>1. ASSUME NEW v \in Works, Fresh(v), NEW t \in Held(v) PROVE ~Begun(t)
    <2>1. v \in Parallels /\ t \in Range(Branches[v]) /\ branch[v] = 0
      BY <1>1 DEF Held, Fresh
    <2>2. t # Root /\ \A q \in Parallels : t \in Range(Branches[q]) => q = v
      BY <2>1, OnePlace
    <2>3. \A q \in Parallels : \A n \in DOMAIN Branches[q] :
             Branches[q][n] = t => q = v /\ ~(n <= branch[q])
      BY <2>1, <2>2, BranchesOK DEF Range
    <2> QED
      BY <2>2, <2>3 DEF Begun
  <1>2. ASSUME NEW t \in AllSeries, ~Begun(t), NEW v \in Range(Content[t])
        PROVE  v \in Works /\ Fresh(v) /\ pointer[v] = t
    <2>1. v \in Works /\ pointer[v] = t
      BY ContentOK DEF IInv, SeriesOK
    <2>2. Fresh(First(t)) /\ queue[t] = Tail(Content[t])
          /\ \A x \in Range(queue[t]) : Fresh(x)
      BY <1>2 DEF IInv, SeriesOK
    <2>3. v = First(t) \/ v \in Range(Tail(Content[t]))
      <3>1. PICK n \in 1 .. Len(Content[t]) : v = Content[t][n]
        <4>1. Range(Content[t]) = {Content[t][i] : i \in 1 .. Len(Content[t])}
          BY ContentOK
        <4> QED
          BY <4>1
      <3>2. CASE n = 1
        BY <3>1, <3>2, ContentOK
      <3>3. CASE n # 1
        <4>1. n - 1 \in 1 .. Len(Content[t]) - 1 /\ v = Tail(Content[t])[n - 1]
          BY <3>1, <3>3, ContentOK
        <4>2. \A m \in 1 .. Len(Tail(Content[t])) : Tail(Content[t])[m] \in Range(Tail(Content[t]))
          BY ContentOK, Ranges
        <4> QED
          BY <4>1, <4>2, ContentOK
      <3> QED
        BY <3>2, <3>3
    <2> QED
      BY <2>1, <2>2, <2>3
  <1> QED
    BY <1>1, <1>2

(* What a destroyed work takes with it has not begun, and nothing else leads *)
(* there.                                                                    *)
LEMMA BelowIsUntouched ==
  ASSUME IInv, NEW h \in Works, Fresh(h)
  PROVE  /\ Below(h) \subseteq Works \cup AllSeries
         /\ \A t \in AllSeries \cap Below(h) : t \in SeriesBelow(h) /\ ~Begun(t)
         /\ \A x \in Works \cap Below(h) :
               /\ Fresh(x)
               /\ x = h \/ (x \in Placed /\ pointer[x] \in SeriesBelow(h)
                            /\ ~Begun(pointer[x]))
         /\ \A p \in Parallels : \A t \in Range(Branches[p]) :
               t \in Below(h) => p \in Below(h)
  <1>1. \A t \in SeriesBelow(h) : t \in AllSeries /\ ~Begun(t)
    <2> DEFINE W == {t \in AllSeries : ~Begun(t)}
    <2>1. Held(h) \subseteq W
      BY Untouched, OnePlace DEF Held
    <2>2. IsWhole(W)
      <3> SUFFICES ASSUME NEW s \in W, NEW v \in Range(Content[s]) PROVE Held(v) \subseteq W
        BY DEF IsWhole
      <3>1. v \in Works /\ Fresh(v)
        BY Untouched
      <3> QED
        BY <3>1, Untouched, OnePlace DEF Held
    <2>3. SeriesBelow(h) \subseteq W
      <3> HIDE DEF W
      <3>1. W \in SUBSET AllSeries
        BY DEF W
      <3> QED
        BY <2>1, <2>2, <3>1, BelowIsWhole
    <2> QED
      BY <2>3
  <1>2. \A t \in SeriesBelow(h) : \A x \in Range(Content[t]) :
           x \in Works /\ Fresh(x) /\ pointer[x] = t /\ x \in Placed
    BY <1>1, Untouched DEF Placed
  <1>3. Below(h) \subseteq Works \cup AllSeries
    BY <1>1, <1>2 DEF Below
  <1>4. \A t \in AllSeries \cap Below(h) : t \in SeriesBelow(h)
    BY <1>2, ShapeAssumption DEF Below
  <1>5. \A x \in Works \cap Below(h) :
           x = h \/ \E t \in SeriesBelow(h) : x \in Range(Content[t])
    BY <1>1, ShapeAssumption DEF Below
  <1>6. ASSUME NEW p \in Parallels, NEW t \in Range(Branches[p]), t \in Below(h)
        PROVE  p \in Below(h)
    <2>1. t \in SeriesBelow(h)
      BY <1>4, <1>6, OnePlace
    <2>2. \A v : t \in Held(v) => v = p
      BY <1>6, OnePlace DEF Held
    <2>3. p = h \/ \E s \in SeriesBelow(h) : p \in Range(Content[s])
      BY <2>1, <2>2, BelowIsReached
    <2> QED
      BY <2>3 DEF Below
  <1> QED
    BY <1>1, <1>2, <1>3, <1>4, <1>5, <1>6

LEMMA PopDestroyIInv ==
  ASSUME IInv, NEW w \in Works, PopDestroy(w)
  PROVE  IInv'
  <1>1. PICK s \in AllSeries : s = series[w]
    BY InWorks DEF PopDestroy, Popping
  <1>2. queue[s] \in Seq(Works) /\ queue[s] # <<>>
    BY <1>1 DEF PopDestroy, IInv, ShapeOK
  <1>3. PICK h \in Works : h = Head(queue[s])
    BY <1>2
  <1>4. /\ Tail(queue[s]) \in Seq(Works) /\ h \in Range(queue[s])
        /\ Range(Tail(queue[s])) \subseteq Range(queue[s]) \ {h}
        /\ Len(Tail(queue[s])) \in Nat
        /\ \A i, j \in 1 .. Len(Tail(queue[s])) :
              Tail(queue[s])[i] = Tail(queue[s])[j] => i = j
    BY <1>2, <1>3, TailOK DEF IInv, SeriesOK
  <1>5. PICK gone : gone = Below(h)
    OBVIOUS
  <1>6. queue' = [queue EXCEPT ![s] = Tail(queue[s])]
    BY <1>1 DEF PopDestroy
  <1>u. /\ pc[w] = "pop_task" /\ series[w] = s
        /\ live' = live \ gone /\ destroyed' = destroyed \cup gone
        /\ UNCHANGED <<canceled, finished, pointer, parent, nleft, pc, cur, par, series,
                       was_canceled, next, branch, callbacks, doomed>>
    BY <1>1, <1>3, <1>5 DEF PopDestroy, taskVars, localVars
  <1> USE <1>u
  <1>7. Fresh(h) /\ pointer[h] = s /\ Begun(s) /\ None \notin AllSeries
    BY <1>4, ShapeAssumption DEF IInv, SeriesOK, ControlOK, ControlAt, Popping
  <1>8. /\ gone \subseteq Works \cup AllSeries
        /\ \A t \in AllSeries \cap gone : ~Begun(t)
        /\ \A x \in Works \cap gone :
              /\ Fresh(x)
              /\ x = h \/ (x \in Placed /\ pointer[x] \in gone /\ ~Begun(pointer[x]))
        /\ \A p \in Parallels : \A t \in Range(Branches[p]) : t \in gone => p \in gone
    BY <1>5, <1>7, BelowIsUntouched DEF Below
  <1>9. ShapeOK'
    <2>1. queue \in [AllSeries -> Seq(Works)]
      BY DEF IInv, ShapeOK
    <2>2. queue' \in [AllSeries -> Seq(Works)]
      BY ONLY <1>4, <1>6, <2>1
    <2> QED
      BY <1>8, <2>2 DEF IInv, ShapeOK
  <1>10. /\ \A t \in AllSeries : queue'[t] = IF t = s THEN Tail(queue[s]) ELSE queue[t]
         /\ \A t \in AllSeries : Range(queue'[t]) \subseteq Range(queue[t]) \ {h}
    <2>1. \A t \in AllSeries : queue'[t] = IF t = s THEN Tail(queue[s]) ELSE queue[t]
      BY <1>6 DEF IInv, ShapeOK
    <2>2. \A t \in AllSeries : t # s => h \notin Range(queue[t])
      BY <1>7 DEF IInv, SeriesOK
    <2> QED
      BY <1>4, <2>1, <2>2
  <1>11. /\ \A t : Begun(t)' <=> Begun(t)
         /\ \A t : Counted(t)' <=> Counted(t)
         /\ \A p : Uncounted(p)' = Uncounted(p)
         /\ \A x : (UnderWay(x)' <=> UnderWay(x)) /\ (Fresh(x)' <=> Fresh(x))
    BY DEF Begun, Counted, Uncounted, UnderWay, Fresh
  <1>12. ControlOK'
    <2> SUFFICES ASSUME NEW x \in Works PROVE ControlAt(x)'
      BY DEF ControlOK
    <2>1. ControlAt(x)
      BY DEF IInv, ControlOK
    <2>2. ASSUME pc[x] = "next"
          PROVE  /\ next[x] \in Works /\ Fresh(next[x])
                 /\ next[x] \notin Range(queue'[series[x]])
                 /\ next[x] \notin destroyed'
      <3>1. /\ next[x] \in Works /\ Fresh(next[x]) /\ pointer[next[x]] = series[x]
            /\ next[x] \notin Range(queue[series[x]]) /\ next[x] \notin destroyed
            /\ series[x] \in AllSeries /\ Begun(series[x])
        BY <2>1, <2>2 DEF ControlAt, Popping
      <3>2. next[x] # h
        BY <1>7, <2>2, <3>1 DEF IInv, UniqueOK, Popping
      <3> QED
        BY <1>8, <1>10, <3>1, <3>2
    <2>3. pc[x] = "done" => /\ UnderWay(cur[x])
                            /\ \A v \in Works : pc[v] = "done" /\ cur[v] = cur[x] => v = x
      BY <2>1 DEF ControlAt
    <2> QED
      BY <1>11, <2>2, <2>3, ControlKept
  <1>13. UniqueOK' /\ JoinOK' /\ CancelOK'
    BY <1>11 DEF IInv, UniqueOK, JoinOK, CancelOK, IsParent
  <1>14. SeriesOK'
    <2>1. \A x \in Spare : pointer[x] = None => x \notin gone
      BY <1>7, <1>8, InWorks DEF Spare
    <2>2. ASSUME NEW t \in AllSeries
          PROVE  \A i, j \in 1 .. Len(queue'[t]) : queue'[t][i] = queue'[t][j] => i = j
      <3>1. CASE t = s
        <4>1. queue'[t] = Tail(queue[s])
          BY <1>10, <3>1
        <4> QED
          BY <1>4, <4>1
      <3>2. CASE t # s
        <4>1. queue'[t] = queue[t]
          BY <1>10, <3>2
        <4> QED
          BY <4>1 DEF IInv, SeriesOK
      <3> QED
        BY <3>1, <3>2
    <2>3. \A t \in AllSeries : ~Begun(t) => queue'[t] = queue[t]
      BY <1>7, <1>10
    <2> QED
      BY <1>10, <1>11, <2>1, <2>2, <2>3, InWorks DEF IInv, SeriesOK
  <1>15. DestroyedOK'
    <2>1. \A t \in AllSeries \ destroyed' : Range(queue'[t]) \cap gone = {}
      BY <1>8, <1>10, InWorks DEF IInv, SeriesOK
    <2>2. \A t \in AllSeries \ destroyed' : ~Begun(t) => First(t) \notin gone
      <3>1. \A t \in AllSeries : First(t) \in Works /\ pointer[First(t)] = t
        BY ContentOK DEF IInv, SeriesOK
      <3> QED
        BY <1>7, <1>8, <3>1
    <2> QED
      BY <1>8, <1>10, <1>11, <2>1, <2>2 DEF IInv, DestroyedOK
  <1>16. LiveOK'
    BY DEF IInv, LiveOK
  <1> QED
    BY <1>9, <1>12, <1>13, <1>14, <1>15, <1>16 DEF IInv

LEMMA PushOK ==
  ASSUME NEW S, NEW q \in Seq(S), NEW x \in S, x \notin Range(q),
         \A i, j \in 1 .. Len(q) : q[i] = q[j] => i = j,
         NEW r, r = Append(q, x) \/ r = <<x>> \o q
  PROVE  /\ r \in Seq(S) /\ Range(r) = Range(q) \cup {x}
         /\ \A i, j \in 1 .. Len(r) : r[i] = r[j] => i = j
  <1>1. /\ Len(q) \in Nat /\ Range(q) = {q[i] : i \in 1 .. Len(q)}
        /\ \A i \in 1 .. Len(q) : q[i] # x
    BY Ranges DEF Range
  <1>2. CASE r = Append(q, x)
    <2>1. /\ r \in Seq(S) /\ Len(r) = Len(q) + 1 /\ r[Len(q) + 1] = x
          /\ \A i \in 1 .. Len(q) : r[i] = q[i]
      BY <1>2
    <2>2. Range(r) = {r[i] : i \in 1 .. Len(r)}
      BY <2>1, Ranges
    <2>3. \A i \in 1 .. Len(r) : i \in 1 .. Len(q) \/ i = Len(q) + 1
      BY <1>1, <2>1
    <2>4. Range(r) = Range(q) \cup {x}
      BY <1>1, <2>1, <2>2, <2>3
    <2> QED
      BY <1>1, <2>1, <2>3, <2>4
  <1>3. CASE r = <<x>> \o q
    <2>1. /\ r \in Seq(S) /\ Len(r) = Len(q) + 1 /\ r[1] = x
          /\ \A i \in 1 .. Len(q) : r[i + 1] = q[i]
      BY <1>3
    <2>2. Range(r) = {r[i] : i \in 1 .. Len(r)}
      BY <2>1, Ranges
    <2>3. \A i \in 1 .. Len(r) : i = 1 \/ (i - 1 \in 1 .. Len(q) /\ r[i] = q[i - 1])
      <3>1. \A i \in 1 .. Len(r) : i = 1 \/ (i - 1 \in 1 .. Len(q) /\ (i - 1) + 1 = i)
        BY <1>1, <2>1
      <3> QED
        BY <2>1, <3>1
    <2>4. Range(r) = Range(q) \cup {x}
      <3>1. \A i \in 1 .. Len(q) : i + 1 \in 1 .. Len(r)
        BY <1>1, <2>1
      <3>2. 1 \in 1 .. Len(r)
        BY <1>1, <2>1
      <3>3. \A i \in 1 .. Len(r) : r[i] \in Range(q) \cup {x}
        BY <1>1, <2>1, <2>3
      <3>4. \A i \in 1 .. Len(q) : q[i] \in Range(r)
        BY <2>1, <2>2, <3>1
      <3>5. x \in Range(r)
        BY <2>1, <2>2, <3>2
      <3> QED
        <4>1. Range(r) \subseteq Range(q) \cup {x}
          BY <2>2, <3>3
        <4>2. Range(q) \subseteq Range(r)
          BY <1>1, <3>4
        <4> QED
          BY <3>5, <4>1, <4>2
    <2>5. \A i \in 1 .. Len(r) : i = 1 \/ r[i] # x
      BY <1>1, <2>3
    <2>6. ASSUME NEW i \in 1 .. Len(r), NEW j \in 1 .. Len(r), r[i] = r[j]
          PROVE  i = j
      <3>1. CASE i = 1 \/ j = 1
        BY <2>1, <2>5, <2>6, <3>1
      <3>2. CASE i # 1 /\ j # 1
        <4>1. /\ i - 1 \in 1 .. Len(q) /\ j - 1 \in 1 .. Len(q)
              /\ q[i - 1] = q[j - 1]
          BY <2>3, <2>6, <3>2
        <4>2. i - 1 = j - 1
          BY <4>1
        <4> QED
          BY <4>2
      <3> QED
        BY <3>1, <3>2
    <2> QED
      BY <2>1, <2>4, <2>6
  <1> QED
    BY <1>2, <1>3

(* What the callback of x, in the series s, may have done when it returns. *)
Effect(x, s) ==
    /\ callbacks' = [callbacks EXCEPT ![x] = @ + 1]
    /\ queue' \in [AllSeries -> Seq(Works)]
    /\ canceled' \in [AllSeries -> BOOLEAN]
    /\ pointer' \in [Works -> AllSeries \cup {None}]
    /\ \E X \in SUBSET Spare :
          /\ \A y \in X : pointer[y] = None
          /\ \A y \in Works : pointer'[y] = IF y \in X THEN s ELSE pointer[y]
          /\ \A t \in AllSeries : t # s => queue'[t] = queue[t]
          /\ Range(queue'[s]) = Range(queue[s]) \cup X
    /\ \A t \in AllSeries : \A i, j \in 1 .. Len(queue'[t]) :
          queue'[t][i] = queue'[t][j] => i = j
    /\ \E D \in SUBSET {s} :
          /\ doomed' = doomed \cup D
          /\ \A t \in AllSeries : canceled'[t] = (canceled[t] \/ t \in D)

(* A callback adds at most one work to the queue, one that nothing has seen  *)
(* yet, or cancels the series.                                               *)
LEMMA CallbackEffect ==
  ASSUME IInv, NEW x \in Works, NEW s \in AllSeries, Callback(x, s)
  PROVE  Effect(x, s)
  <1> SUFFICES /\ callbacks' = [callbacks EXCEPT ![x] = @ + 1]
               /\ queue' \in [AllSeries -> Seq(Works)]
               /\ canceled' \in [AllSeries -> BOOLEAN]
               /\ pointer' \in [Works -> AllSeries \cup {None}]
               /\ \E X \in SUBSET Spare :
                     /\ \A y \in X : pointer[y] = None
                     /\ \A y \in Works : pointer'[y] = IF y \in X THEN s ELSE pointer[y]
                     /\ \A t \in AllSeries : t # s => queue'[t] = queue[t]
                     /\ Range(queue'[s]) = Range(queue[s]) \cup X
               /\ \A t \in AllSeries : \A i, j \in 1 .. Len(queue'[t]) :
                     queue'[t][i] = queue'[t][j] => i = j
               /\ \E D \in SUBSET {s} :
                     /\ doomed' = doomed \cup D
                     /\ \A t \in AllSeries : canceled'[t] = (canceled[t] \/ t \in D)
    BY DEF Effect
  <1>1. callbacks' = [callbacks EXCEPT ![x] = @ + 1]
    BY DEF Callback
  <1>2. /\ queue \in [AllSeries -> Seq(Works)]
        /\ canceled \in [AllSeries -> BOOLEAN]
        /\ pointer \in [Works -> AllSeries \cup {None}]
        /\ \A t \in AllSeries : \A i, j \in 1 .. Len(queue[t]) :
              queue[t][i] = queue[t][j] => i = j
    BY DEF IInv, ShapeOK, SeriesOK
  <1>3. CASE UNCHANGED <<queue, canceled, pointer, doomed>>
    <2>1. {} \in SUBSET Spare /\ {} \in SUBSET {s}
      OBVIOUS
    <2>2. /\ queue' = queue /\ pointer' = pointer /\ doomed' = doomed \cup {}
          /\ \A t \in AllSeries : canceled'[t] = (canceled[t] \/ t \in {})
          /\ Range(queue'[s]) = Range(queue[s]) \cup {}
      BY <1>2, <1>3
    <2> QED
      BY <1>1, <1>2, <1>3, <2>1, <2>2
  <1>4. CASE /\ canceled' = [canceled EXCEPT ![s] = TRUE]
             /\ doomed' = doomed \cup {s}
             /\ UNCHANGED <<queue, pointer>>
    <2>1. {} \in SUBSET Spare /\ {s} \in SUBSET {s}
      OBVIOUS
    <2>2. /\ queue' = queue /\ pointer' = pointer
          /\ canceled' \in [AllSeries -> BOOLEAN]
          /\ \A t \in AllSeries : canceled'[t] = (canceled[t] \/ t \in {s})
          /\ Range(queue'[s]) = Range(queue[s]) \cup {}
      BY <1>2, <1>4
    <2> QED
      BY <1>1, <1>2, <1>4, <2>1, <2>2
  <1>5. CASE \E y \in Spare :
                /\ pointer[y] = None
                /\ pointer' = [pointer EXCEPT ![y] = s]
                /\ \/ queue' = [queue EXCEPT ![s] = Append(@, y)]
                   \/ queue' = [queue EXCEPT ![s] = <<y>> \o @]
                /\ UNCHANGED <<canceled, doomed>>
    <2>1. PICK y \in Spare :
                /\ pointer[y] = None
                /\ pointer' = [pointer EXCEPT ![y] = s]
                /\ \/ queue' = [queue EXCEPT ![s] = Append(@, y)]
                   \/ queue' = [queue EXCEPT ![s] = <<y>> \o @]
                /\ UNCHANGED <<canceled, doomed>>
      BY <1>5
    <2>2. PICK r : /\ r = Append(queue[s], y) \/ r = <<y>> \o queue[s]
                   /\ queue' = [queue EXCEPT ![s] = r]
      BY <2>1
    <2>3. y \in Works /\ None \notin AllSeries
      BY InWorks, ShapeAssumption
    <2>4. y \notin Range(queue[s])
      BY <2>1, <2>3 DEF IInv, SeriesOK
    <2>5. /\ r \in Seq(Works) /\ Range(r) = Range(queue[s]) \cup {y}
          /\ \A i, j \in 1 .. Len(r) : r[i] = r[j] => i = j
      <3>1. PICK q \in Seq(Works) : q = queue[s]
        BY <1>2
      <3>2. \A i, j \in 1 .. Len(q) : q[i] = q[j] => i = j
        BY <1>2, <3>1
      <3>3. y \notin Range(q) /\ (r = Append(q, y) \/ r = <<y>> \o q)
        BY <2>2, <2>4, <3>1
      <3>4. /\ r \in Seq(Works) /\ Range(r) = Range(q) \cup {y}
            /\ \A i, j \in 1 .. Len(r) : r[i] = r[j] => i = j
        BY <2>3, <3>2, <3>3, PushOK
      <3> QED
        BY <3>1, <3>4
    <2>6. /\ queue' \in [AllSeries -> Seq(Works)]
          /\ \A t \in AllSeries : queue'[t] = IF t = s THEN r ELSE queue[t]
      BY ONLY <1>2, <2>2, <2>5
    <2>7. /\ pointer' \in [Works -> AllSeries \cup {None}]
          /\ \A z \in Works : pointer'[z] = IF z \in {y} THEN s ELSE pointer[z]
      BY <1>2, <2>1
    <2>8. \A t \in AllSeries : \A i, j \in 1 .. Len(queue'[t]) :
             queue'[t][i] = queue'[t][j] => i = j
      <3> SUFFICES ASSUME NEW t \in AllSeries
                   PROVE  \A i, j \in 1 .. Len(queue'[t]) :
                             queue'[t][i] = queue'[t][j] => i = j
        OBVIOUS
      <3>1. queue'[t] = r \/ queue'[t] = queue[t]
        BY <2>6
      <3> QED
        BY <1>2, <2>5, <3>1
    <2>9. /\ {y} \in SUBSET Spare /\ {} \in SUBSET {s}
          /\ \A z \in {y} : pointer[z] = None
          /\ \A t \in AllSeries : t # s => queue'[t] = queue[t]
          /\ Range(queue'[s]) = Range(queue[s]) \cup {y}
      BY <2>1, <2>5, <2>6
    <2>10. /\ doomed' = doomed \cup {} /\ canceled' \in [AllSeries -> BOOLEAN]
           /\ \A t \in AllSeries : canceled'[t] = (canceled[t] \/ t \in {})
      BY <1>2, <2>1
    <2> QED
      BY <1>1, <2>6, <2>7, <2>8, <2>9, <2>10
  <1> QED
    BY <1>3, <1>4, <1>5 DEF Callback

(* done() of a task, or of a parallel work that its last branch goes on with. *)
LEMMA DoneIInv ==
  ASSUME IInv, NEW w \in Works, NEW x \in Works,
         \/ pc[w] = "running" /\ x = w
         \/ pc[w] = "done" /\ x = cur[w],
         Callback(x, pointer[x]),
         live' = live \ ({x} \cup Held(x)),
         par' = [par EXCEPT ![w] = parent[x]],
         series' = [series EXCEPT ![w] = pointer[x]],
         pc' = [pc EXCEPT ![w] = "pop"],
         UNCHANGED <<finished, parent, nleft, cur, was_canceled, next, branch, destroyed>>
  PROVE  IInv'
  <1>1. ControlAt(w) /\ ControlAt(x)
    BY DEF IInv, ControlOK
  <1>2. /\ UnderWay(x) /\ cur[w] = x /\ callbacks[x] = 0
        /\ w = x \/ callbacks[w] > 0
        /\ pc[w] \in {"running", "done"}
    BY <1>1 DEF ControlAt, UnderWay, Beginning
  <1>3. /\ pointer[x] \in AllSeries /\ Begun(pointer[x]) /\ ~finished[pointer[x]]
        /\ IsParent(parent[x], pointer[x])
    BY <1>2 DEF IInv, UniqueOK
  <1>4. PICK s \in AllSeries : s = pointer[x]
    BY <1>3
  <1>c. Effect(x, s)
    <2>1. Callback(x, s)
      BY <1>4
    <2> QED
      BY ONLY IInv, <2>1, CallbackEffect, x \in Works, s \in AllSeries
  <1>5. /\ callbacks' = [callbacks EXCEPT ![x] = @ + 1]
        /\ queue' \in [AllSeries -> Seq(Works)]
        /\ canceled' \in [AllSeries -> BOOLEAN]
        /\ pointer' \in [Works -> AllSeries \cup {None}]
        /\ \A t \in AllSeries : \A i, j \in 1 .. Len(queue'[t]) :
              queue'[t][i] = queue'[t][j] => i = j
    BY ONLY <1>c DEF Effect
  <1>6. PICK X \in SUBSET Spare :
               /\ \A y \in X : pointer[y] = None
               /\ \A y \in Works : pointer'[y] = IF y \in X THEN s ELSE pointer[y]
               /\ \A t \in AllSeries : t # s => queue'[t] = queue[t]
               /\ Range(queue'[s]) = Range(queue[s]) \cup X
    BY ONLY <1>c DEF Effect
  <1>7. PICK D \in SUBSET {s} :
               /\ doomed' = doomed \cup D
               /\ \A t \in AllSeries : canceled'[t] = (canceled[t] \/ t \in D)
    BY ONLY <1>c DEF Effect
  <1>8. ShapeOK'
    <2>1. callbacks' \in [Works \cup AllSeries -> Nat]
      BY <1>5 DEF IInv, ShapeOK
    <2>2. pc' \in [Works -> Beginning \cup Popping \cup {"idle", "done"}]
      BY DEF IInv, ShapeOK, Popping
    <2>3. par' \in [Works -> Parallels \cup {None}]
      <3>1. par \in [Works -> Parallels \cup {None}] /\ parent[x] \in Parallels \cup {None}
        BY DEF IInv, ShapeOK
      <3> QED
        BY <3>1
    <2>4. series' \in [Works -> AllSeries \cup {None}]
      <3>1. series \in [Works -> AllSeries \cup {None}] /\ pointer[x] \in AllSeries
        BY <1>3 DEF IInv, ShapeOK
      <3> QED
        BY <3>1
    <2>5. doomed' \subseteq AllSeries
      BY <1>7 DEF IInv, ShapeOK
    <2> QED
      BY <1>5, <2>1, <2>2, <2>3, <2>4, <2>5 DEF IInv, ShapeOK
  <1>9. /\ \A y \in Works : pc'[y] = IF y = w THEN "pop" ELSE pc[y]
        /\ \A y \in Works : callbacks'[y] = IF y = x THEN 1 ELSE callbacks[y]
        /\ \A t \in AllSeries : callbacks'[t] = callbacks[t]
        /\ \A y \in Works : series'[y] = IF y = w THEN s ELSE series[y]
        /\ \A y \in Works : par'[y] = IF y = w THEN parent[x] ELSE par[y]
    <2>1. x \notin AllSeries
      BY ShapeAssumption
    <2> QED
      BY <1>2, <1>4, <1>5, <2>1 DEF IInv, ShapeOK
  <1>10. /\ \A t : Begun(t)' <=> Begun(t)
         /\ \A t : Counted(t)' <=> Counted(t)
         /\ \A p : Uncounted(p)' = Uncounted(p)
    BY <1>2, <1>9 DEF Begun, Counted, Uncounted
  <1>11. /\ \A y \in Works : UnderWay(y)' <=> UnderWay(y) /\ y # x
         /\ \A y \in Works : Fresh(y)' <=> Fresh(y)
    BY <1>2, <1>9 DEF UnderWay, Fresh
  <1>12. /\ X \subseteq Works /\ None \notin AllSeries
         /\ \A y \in X : Fresh(y) /\ y \notin destroyed /\ y \notin Placed
    BY <1>6, InWorks, ShapeAssumption DEF IInv, SeriesOK, Spare
  <1>13. \A v \in Works : pc[v] \in Popping => series[v] # s
    BY <1>2, <1>4 DEF IInv, UniqueOK
  <1>14. \A t \in AllSeries : Range(queue'[t]) \subseteq Range(queue[t]) \cup X
    BY <1>6
  <1>e. UNCHANGED <<finished, parent, nleft, cur, was_canceled, next, branch, destroyed>>
    OBVIOUS
  <1>15. ControlOK'
    <2> SUFFICES ASSUME NEW v \in Works PROVE ControlAt(v)'
      BY DEF ControlOK
    <2>1. ControlAt(v)
      BY DEF IInv, ControlOK
    <2>2. CASE v = w
      <3>1. /\ pc'[w] = "pop" /\ callbacks'[w] > 0 /\ callbacks'[cur[w]] > 0
            /\ series'[w] = s /\ Begun(s)' /\ ~finished[s] /\ IsParent(par'[w], s)
        BY <1>2, <1>3, <1>4, <1>9, <1>10
      <3> QED
        BY <1>1, <1>3, <1>4, <2>2, <3>1, <1>e DEF ControlAt, Beginning, Popping, IsParent
    <2>3. CASE v # w
      <3>1. pc'[v] = pc[v] /\ series'[v] = series[v] /\ par'[v] = par[v]
        BY <1>9, <2>3
      <3>2. pc[v] \in Beginning => callbacks'[v] = callbacks[v]
        <4>1. pc[v] \in Beginning => v # x
          BY <1>1, <2>3 DEF ControlAt, Beginning
        <4> QED
          BY <1>9, <4>1
      <3>3. \A y \in Works : callbacks[y] > 0 => callbacks'[y] > 0
        BY <1>9
      <3>4. ASSUME pc[v] = "done"
            PROVE  /\ UnderWay(cur[v])' /\ pc'[cur[v]] = pc[cur[v]]
                   /\ \A u \in Works : pc'[u] = "done" /\ cur[u] = cur[v] => u = v
        <4>1. /\ cur[v] \in Works /\ UnderWay(cur[v])
              /\ cur[v] = v \/ pc[cur[v]] = "idle"
              /\ \A u \in Works : pc[u] = "done" /\ cur[u] = cur[v] => u = v
          BY <2>1, <3>4 DEF ControlAt, Works
        <4>2. cur[v] # x /\ cur[v] # w
          BY <1>2, <2>3, <4>1
        <4> QED
          BY <1>9, <1>11, <4>1, <4>2
      <3>5. ASSUME pc[v] = "next"
            PROVE  /\ Fresh(next[v])' /\ pointer'[next[v]] = pointer[next[v]]
                   /\ next[v] \notin Range(queue'[series[v]])
                   /\ next[v] \notin destroyed'
        <4>1. /\ next[v] \in Works /\ Fresh(next[v]) /\ pointer[next[v]] = series[v]
              /\ next[v] \notin Range(queue[series[v]]) /\ next[v] \notin destroyed
              /\ series[v] \in AllSeries
          BY <2>1, <3>5 DEF ControlAt, Popping
        <4>2. next[v] \notin X
          BY <1>6, <1>12, <4>1
        <4> QED
          BY <1>6, <1>11, <1>14, <4>1, <4>2, <1>e
      <3> QED
        BY <1>10, <3>1, <3>2, <3>3, <3>4, <3>5, <1>e, ControlKept
    <2> QED
      BY <2>2, <2>3
  <1>16. UniqueOK'
    <2>1. \A y \in Works : UnderWay(y) => pointer'[y] = pointer[y] /\ pointer[y] \in AllSeries
      BY <1>6, <1>12 DEF IInv, UniqueOK
    <2>2. \A y \in Works : UnderWay(y) /\ pointer[y] = s => y = x
      BY <1>2, <1>4 DEF IInv, UniqueOK
    <2>3. \A v \in Works : pc'[v] \in Popping => v = w \/ pc[v] \in Popping
      BY <1>9
    <2>4. \A y, z \in Works :
             UnderWay(y)' /\ UnderWay(z)' /\ pointer'[y] = pointer'[z] => y = z
      BY <1>11, <2>1 DEF IInv, UniqueOK
    <2>5. \A y, v \in Works : UnderWay(y)' /\ pc'[v] \in Popping => series'[v] # pointer'[y]
      BY <1>9, <1>11, <2>1, <2>2, <2>3 DEF IInv, UniqueOK
    <2>6. \A v, u \in Works :
             pc'[v] \in Popping /\ pc'[u] \in Popping /\ series'[v] = series'[u] => v = u
      BY <1>9, <1>13, <2>3 DEF IInv, UniqueOK
    <2>7. \A y \in Works : UnderWay(y)' =>
             /\ pointer'[y] \in AllSeries /\ Begun(pointer'[y])
             /\ ~finished[pointer'[y]]
             /\ IsParent(parent[y], pointer'[y])
      BY <1>11, <2>1 DEF IInv, UniqueOK
    <2> QED
      BY <1>10, <2>4, <2>5, <2>6, <2>7, <1>e DEF UniqueOK, IsParent
  <1>17. SeriesOK'
    <2>1. ASSUME NEW t \in AllSeries
          PROVE  /\ callbacks'[t] = IF finished[t] THEN 1 ELSE 0
                 /\ finished[t] => Begun(t)
                 /\ \A v \in Range(Content[t]) : pointer'[v] = t
                 /\ ~Begun(t) => queue'[t] = Tail(Content[t]) /\ Fresh(First(t))
                 /\ \A v \in Range(queue'[t]) : v \in Works /\ Fresh(v) /\ pointer'[v] = t
      <3>1. callbacks'[t] = IF finished[t] THEN 1 ELSE 0
        BY <1>9 DEF IInv, SeriesOK
      <3>2. \A v \in Range(Content[t]) : pointer'[v] = t
        <4>1. \A v \in Range(Content[t]) : v \in Works /\ v \in Placed /\ pointer[v] = t
          BY ContentOK DEF Placed, IInv, SeriesOK
        <4> QED
          BY <1>6, <1>12, <4>1
      <3>3. ~Begun(t) => queue'[t] = Tail(Content[t]) /\ Fresh(First(t))
        BY <1>3, <1>4, <1>6 DEF IInv, SeriesOK
      <3>4. \A v \in Range(queue[t]) : v \in Works /\ Fresh(v) /\ pointer'[v] = t
        <4>1. \A v \in Range(queue[t]) : v \in Works /\ Fresh(v) /\ pointer[v] = t
          BY InWorks DEF IInv, SeriesOK
        <4> QED
          BY <1>6, <1>12, <4>1
      <3>5. \A v \in Range(queue'[t]) : v \in Works /\ Fresh(v) /\ pointer'[v] = t
        <4>1. CASE t = s
          BY <1>6, <1>12, <3>4, <4>1
        <4>2. CASE t # s
          BY <1>6, <3>4, <4>2
        <4> QED
          BY <4>1, <4>2
      <3> QED
        BY <3>1, <3>2, <3>3, <3>5 DEF IInv, SeriesOK
    <2>2. \A y \in Spare : pointer'[y] = None => Fresh(y)' /\ y \notin destroyed'
      BY <1>6, <1>11, <1>12, InWorks, <1>e DEF IInv, SeriesOK
    <2> QED
      BY <1>5, <1>10, <1>11, <2>1, <2>2, InWorks, <1>e DEF SeriesOK
  <1>18. JoinOK'
    <2> SUFFICES ASSUME NEW p \in Parallels
                 PROVE  /\ pc'[p] = "branches" \/ branch[p] > 0 =>
                              nleft[p] = Cardinality(Uncounted(p))
                        /\ callbacks'[p] > 0 => \A t \in Range(Branches[p]) : Counted(t)
      BY <1>10, <1>e DEF JoinOK
    <2>1. p \in Works /\ (pc'[p] = "branches" => pc[p] = "branches")
      BY <1>9 DEF Works
    <2>2. p = x => \A t \in Range(Branches[p]) : Counted(t)
      BY <1>1, ShapeAssumption DEF ControlAt
    <2> QED
      BY <1>9, <2>1, <2>2 DEF IInv, JoinOK
  <1>19. DestroyedOK'
    <2>1. \A t \in AllSeries \ destroyed : Range(queue'[t]) \cap destroyed = {}
      BY <1>12, <1>14 DEF IInv, DestroyedOK
    <2> QED
      BY <1>10, <1>11, <2>1, <1>e DEF IInv, DestroyedOK
  <1>20. LiveOK'
    <2>1. /\ Held(x) \subseteq AllSeries
          /\ \A t \in AllSeries : t \in Held(x) <=> x \in Parallels /\ t \in Range(Branches[x])
      BY OnePlace DEF Held
    <2>2. ASSUME NEW y \in Works
          PROVE  y \in live' <=> y \notin destroyed /\ callbacks'[y] = 0
      BY <1>9, <2>1, ShapeAssumption DEF IInv, LiveOK
    <2>3. ASSUME NEW t \in AllSeries
          PROVE  t \in live' <=> /\ t \notin destroyed
                                 /\ ~(t = Root /\ finished[t])
                                 /\ \A p \in Parallels : t \in Range(Branches[p]) => callbacks'[p] = 0
      <3>1. t \in live' <=> t \in live /\ t \notin Held(x)
        BY ShapeAssumption
      <3>2. \A p \in Parallels : callbacks'[p] = 0 <=> callbacks[p] = 0 /\ p # x
        BY <1>9 DEF Works
      <3> QED
        BY <2>1, <3>1, <3>2 DEF IInv, LiveOK
    <2> QED
      BY <2>2, <2>3, <1>e DEF LiveOK
  <1>21. CancelOK'
    <2>1. \A t \in doomed' : canceled'[t]
      BY <1>7 DEF IInv, ShapeOK, CancelOK
    <2>2. \A v \in Works : pc'[v] \in {"pop_task", "next"} =>
             pc'[v] = pc[v] /\ series'[v] = series[v] /\ series[v] # s
      BY <1>9, <1>13 DEF Popping
    <2> QED
      BY <1>7, <2>1, <2>2, <1>e DEF IInv, CancelOK
  <1> QED
    BY <1>8, <1>15, <1>16, <1>17, <1>18, <1>19, <1>20, <1>21 DEF IInv

LEMMA InvariantHolds == Spec => []IInv
  <1>1. Init => IInv
    BY InitIInv
  <1>2. IInv /\ [Next]_vars => IInv'
    <2> SUFFICES ASSUME IInv, [Next]_vars PROVE IInv'
      OBVIOUS
    <2>1. CASE UNCHANGED vars
      <3>1. UNCHANGED <<queue, canceled, finished, pointer, parent, nleft, live, pc, cur, par,
                        series, was_canceled, next, branch, callbacks, destroyed, doomed>>
        BY <2>1 DEF vars, seriesVars, taskVars, localVars, historyVars
      <3>2. /\ \A t : (Begun(t)' <=> Begun(t)) /\ (Counted(t)' <=> Counted(t))
            /\ \A p : Uncounted(p)' = Uncounted(p)
            /\ \A x : (UnderWay(x)' <=> UnderWay(x)) /\ (Fresh(x)' <=> Fresh(x))
        BY <3>1 DEF Begun, Counted, Uncounted, UnderWay, Fresh
      <3>3. ShapeOK' /\ ControlOK'
        BY <3>1, <3>2 DEF IInv, ShapeOK, ControlOK, ControlAt, IsParent
      <3>4. UniqueOK' /\ SeriesOK' /\ JoinOK'
        BY <3>1, <3>2 DEF IInv, UniqueOK, SeriesOK, JoinOK, IsParent
      <3>5. DestroyedOK' /\ LiveOK' /\ CancelOK'
        BY <3>1, <3>2 DEF IInv, DestroyedOK, LiveOK, CancelOK
      <3> QED
        BY <3>3, <3>4, <3>5 DEF IInv
    <2>2. ASSUME NEW w \in Works, Dispatch(w) PROVE IInv'
      BY <2>2, DispatchTaskIInv, DispatchParallelIInv DEF Works
    <2>3. ASSUME NEW w \in Works, TaskDone(w) PROVE IInv'
      <3>1. w \in Tasks /\ Held(w) = {}
        BY <2>3, ShapeAssumption DEF TaskDone, Held, IInv, ControlOK, ControlAt
      <3> QED
        BY <2>3, <3>1, DoneIInv DEF TaskDone, Goto
    <2>4. ASSUME NEW w \in Works, ParallelDone(w) PROVE IInv'
      <3>1. PICK p \in Parallels : p = cur[w]
        BY <2>4 DEF ParallelDone, IInv, ControlOK, ControlAt
      <3>2. Held(p) = Range(Branches[p]) /\ p \in Works
        BY DEF Held, Works
      <3> QED
        BY <2>4, <3>1, <3>2, DoneIInv DEF ParallelDone, Goto
    <2>5. ASSUME NEW w \in Works, Step(w) PROVE IInv'
      BY <2>2, <2>3, <2>4, <2>5, DispatchBranchIInv, PopIInv, PopWorkIInv, PopDestroyIInv,
         PopNothingIInv, DispatchNextIInv, SeriesEndsIInv, BranchEndsIInv DEF Step
    <2> QED
      BY <2>1, <2>5, CancelIInv DEF Next
  <1> QED
    BY <1>1, <1>2, PTL DEF Spec

-----------------------------------------------------------------------------

(* Whoever goes on with a parallel work after its last branch is alone with  *)
(* it: the counter nleft lets one thread pass and no other, whatever the     *)
(* order in which branches end, and also while some are still dispatched     *)
(* (SubTask.cc:19, Workflow.cc:195-216).                                     *)
THEOREM JoinAlone == Spec => []JoinIsLast
  <1>1. IInv => JoinIsLast
    <2> SUFFICES ASSUME IInv, NEW w \in Works, pc[w] = "done"
                 PROVE  /\ \A s \in Range(Branches[cur[w]]) : finished[s] /\ callbacks[s] = 1
                        /\ \A v \in Works : pc[v] # "idle" /\ v # w =>
                              /\ cur[v] # cur[w]
                              /\ pc[v] \in Popping => par[v] # cur[w]
                              /\ pc[v] = "running" => parent[v] # cur[w]
      BY DEF JoinIsLast, Popping
    <2>1. /\ cur[w] \in Parallels /\ cur[w] \in Works /\ UnderWay(cur[w])
          /\ \A s \in Range(Branches[cur[w]]) : s \in AllSeries /\ Counted(s)
          /\ cur[w] = w \/ pc[cur[w]] = "idle"
          /\ \A v \in Works : pc[v] = "done" /\ cur[v] = cur[w] => v = w
      BY OnePlace DEF IInv, ControlOK, ControlAt, Works
    <2>2. \A s \in Range(Branches[cur[w]]) : finished[s] /\ callbacks[s] = 1
      BY <2>1 DEF Counted, IInv, SeriesOK
    <2> SUFFICES ASSUME NEW v \in Works, pc[v] # "idle", v # w
                 PROVE  /\ cur[v] # cur[w]
                        /\ pc[v] \in Popping => par[v] # cur[w]
                        /\ pc[v] = "running" => parent[v] # cur[w]
      BY <2>2
    <2>3. ControlAt(v) /\ pc[v] \in Beginning \cup Popping \cup {"done"}
      BY DEF IInv, ControlOK, ShapeOK
    <2>4. cur[v] # cur[w]
      BY <2>1, <2>3 DEF ControlAt, UnderWay
    <2>5. ASSUME pc[v] \in Popping PROVE par[v] # cur[w]
      BY <2>1, <2>3, <2>5, ShapeAssumption DEF ControlAt, IsParent, Counted, Works
    <2>6. ASSUME pc[v] = "running" PROVE parent[v] # cur[w]
      <3>1. UnderWay(v)
        BY <2>3, <2>6 DEF ControlAt, UnderWay, Beginning
      <3>2. ~finished[pointer[v]] /\ IsParent(parent[v], pointer[v])
        BY <3>1 DEF IInv, UniqueOK
      <3> QED
        BY <2>1, <2>2, <3>2, ShapeAssumption DEF IsParent, Works
    <2> QED
      BY <2>4, <2>5, <2>6
  <1> QED
    BY <1>1, InvariantHolds, PTL

(* A series that has begun and is not counted yet is there, and so is its    *)
(* parallel work.                                                            *)
LEMMA UncountedIsLive ==
  ASSUME IInv, NEW s \in AllSeries, Begun(s), ~Counted(s)
  PROVE  /\ ~(s = Root /\ finished[s]) => s \in live
         /\ \A q \in Parallels : s \in Range(Branches[q]) => q \in live
  <1>1. s \notin destroyed
    BY DEF IInv, DestroyedOK
  <1>2. ASSUME NEW q \in Parallels, s \in Range(Branches[q])
        PROVE  callbacks[q] = 0 /\ q \notin destroyed
    <2>1. q \in Works /\ callbacks[q] \in Nat
      BY DEF IInv, ShapeOK, Works
    <2>2. callbacks[q] = 0
      BY <1>2, <2>1 DEF IInv, JoinOK
    <2>3. ~Fresh(q)
      BY <1>2, <2>1, Untouched DEF Held
    <2> QED
      BY <2>1, <2>2, <2>3 DEF IInv, DestroyedOK
  <1> QED
    BY <1>1, <1>2 DEF IInv, LiveOK, Works

(* No thread uses a work or a series that was deleted, although each of them *)
(* deletes itself or is deleted by another thread: subtask_done and pop keep *)
(* in local variables what they need afterwards, and a parallel work is      *)
(* deleted after the last of its branches (SubTask.cc:10-19,                 *)
(* Workflow.cc:96-143, 202-216).                                             *)
THEOREM UsedIsAlive == Spec => []NoUseAfterFree
  <1>1. IInv => NoUseAfterFree
    <2> SUFFICES ASSUME IInv, NEW w \in Works
                 PROVE  /\ pc[w] \in Beginning => w \in live /\ pointer[w] \in live
                        /\ pc[w] = "running" /\ parent[w] # None => parent[w] \in live
                        /\ pc[w] = "done" =>
                              {cur[w], pointer[cur[w]]} \cup Range(Branches[cur[w]]) \subseteq live
                        /\ pc[w] \in {"pop", "pop_task"} => series[w] \in live
                        /\ pc[w] = "next" => next[w] \in live
                        /\ pc[w] = "ended" /\ par[w] # None => par[w] \in live
      BY DEF NoUseAfterFree, Beginning
    <2>1. ControlAt(w)
      BY DEF IInv, ControlOK
    <2>2. ASSUME NEW x \in Works, UnderWay(x)
          PROVE  /\ x \in live /\ pointer[x] \in live
                 /\ parent[x] # None => parent[x] \in live
      <3>1. x \in live
        BY <2>2 DEF UnderWay, Fresh, IInv, DestroyedOK, LiveOK
      <3>2. /\ pointer[x] \in AllSeries /\ Begun(pointer[x]) /\ ~finished[pointer[x]]
            /\ IsParent(parent[x], pointer[x])
        BY <2>2 DEF IInv, UniqueOK
      <3> QED
        BY <3>1, <3>2, UncountedIsLive DEF Counted, IsParent
    <2>3. ASSUME pc[w] \in Beginning
          PROVE  /\ w \in live /\ pointer[w] \in live
                 /\ parent[w] # None => parent[w] \in live
      BY <2>1, <2>2, <2>3 DEF ControlAt, UnderWay, Beginning
    <2>4. ASSUME pc[w] = "done"
          PROVE  {cur[w], pointer[cur[w]]} \cup Range(Branches[cur[w]]) \subseteq live
      <3>1. /\ cur[w] \in Parallels /\ UnderWay(cur[w]) /\ cur[w] \in Works
            /\ \A s \in Range(Branches[cur[w]]) : Counted(s)
        BY <2>1, <2>4 DEF ControlAt, Works
      <3>2. ASSUME NEW s \in Range(Branches[cur[w]]) PROVE s \in live
        <4>1. /\ s \in AllSeries /\ s # Root
              /\ \A q \in Parallels : s \in Range(Branches[q]) => q = cur[w]
          BY <3>1, OnePlace
        <4>2. Begun(s) /\ callbacks[cur[w]] = 0
          BY <3>1, <4>1 DEF Counted, UnderWay, IInv, SeriesOK
        <4> QED
          BY <4>1, <4>2 DEF IInv, LiveOK, DestroyedOK
      <3> QED
        BY <2>2, <3>1, <3>2
    <2>5. ASSUME pc[w] \in {"pop", "pop_task"} PROVE series[w] \in live
      BY <2>1, <2>5, UncountedIsLive DEF ControlAt, Popping, Counted
    <2>6. ASSUME pc[w] = "next" PROVE next[w] \in live
      BY <2>1, <2>6 DEF ControlAt, Fresh, IInv, LiveOK
    <2>7. ASSUME pc[w] = "ended", par[w] # None PROVE par[w] \in live
      BY <2>1, <2>7, UncountedIsLive DEF ControlAt, Popping, Counted, IsParent
    <2> QED
      BY <2>3, <2>4, <2>5, <2>6, <2>7 DEF Beginning
  <1> QED
    BY <1>1, InvariantHolds, PTL

(* Once the callback of one of its works has canceled a series, no later     *)
(* work of it begins; the works that are destroyed instead, with all that is *)
(* below them, get no callback (Workflow.h:73-76, Workflow.cc:96-143).       *)
THEOREM CanceledIsDestroyed == Spec => []CancelDestroysRest
  <1>1. IInv => CancelDestroysRest
    <2> SUFFICES ASSUME IInv PROVE CancelDestroysRest
      OBVIOUS
    <2>1. \A w \in Works : pc[w] = "next" => series[w] \notin doomed
      BY DEF IInv, CancelOK
    <2>2. ASSUME NEW x \in destroyed PROVE callbacks[x] = 0
      <3>1. CASE x \in Works
        BY <3>1 DEF IInv, DestroyedOK, Fresh
      <3>2. CASE x \in AllSeries
        BY <3>2 DEF IInv, DestroyedOK, SeriesOK
      <3> QED
        BY <3>1, <3>2 DEF IInv, ShapeOK
    <2> QED
      BY <2>1, <2>2 DEF CancelDestroysRest
  <1> QED
    BY <1>1, InvariantHolds, PTL

=============================================================================
