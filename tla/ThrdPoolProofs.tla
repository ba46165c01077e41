---------------------------- MODULE ThrdPoolProofs ----------------------------
(***************************************************************************)
(* Proofs about ThrdPool, for any set of threads, finite or not, any size  *)
(* of the pool and any number of tasks.                                    *)
(***************************************************************************)
EXTENDS ThrdPool, FiniteSetTheorems, TLAPS

InRoutine == {"loop", "get", "task", "after", "exit"}
HasLeft == {"unlock", "join", "end"}
Emptied == {"join", "drain", "release", "done"}

(* The threads that nthreads is meant to count, and those that have passed *)
(* through the critical section at the end of the routine.                 *)
Inside == {t \in Threads \ {destroyer} : pc[t] \in InRoutine}
Left == {t \in Threads \ {destroyer} : pc[t] \in HasLeft}

(* A thread that runs already and is counted by the next step of the one   *)
(* that created it.                                                        *)
Uncounted == IF created = "counting" \/ mutex # None THEN 1 ELSE 0

ShapeOK ==
    /\ nonblock \in BOOLEAN /\ terminate \in BOOLEAN
    /\ nthreads \in Int
    /\ tid \in Threads \cup {None}
    /\ mutex \in Threads \cup {Owner, None}
    /\ created \in {"starting", "counting", "ready", "failed"}
    /\ pc \in [Threads -> InRoutine \cup HasLeft \cup {"none"}]
    /\ joinee \in [Threads -> Threads \cup {None}]
    /\ destroyer \in Threads \cup {Owner, None}
    /\ dpc \in Emptied \cup {"none", "check", "wait"}
    /\ frees \in Nat

(* Which stages of the pool's life go together. *)
StagesOK ==
    /\ (destroyer = None) <=> (dpc = "none")
    /\ terminate = (destroyer # None) /\ nonblock = (destroyer # None)
    /\ created \in {"starting", "counting"} => destroyer = None
    /\ created = "failed" => destroyer = Owner
    /\ dpc = "release" => created = "failed"
    /\ created # "ready" => /\ scheduled = 0
                            /\ mutex = None
                            /\ \A t \in Threads : pc[t] \notin {"task", "after"}
    /\ \A t \in Threads : pc[t] \in HasLeft \cup {"exit"} => destroyer # None
    /\ mutex \in Threads => pc[mutex] = "task" /\ mutex # destroyer
    /\ mutex = Owner => destroyer = None
    /\ destroyer \in Threads => /\ pc[destroyer] \in {"task", "after", "end"}
                                /\ dpc # "done" => pc[destroyer] = "task"

CountOK ==
    /\ IsFiniteSet(Inside)
    /\ Cardinality(Inside) = nthreads + Uncounted
    /\ created = "ready" /\ destroyer = None => nthreads >= 1
    /\ dpc \in Emptied => Inside = {}

FreesOK ==
    frees = IF destroyer \in Threads THEN IF pc[destroyer] = "end" THEN 1 ELSE 0
                                     ELSE IF dpc = "done" THEN 1 ELSE 0

(* Tasks leave the queue in the order they were scheduled in. *)
TasksOK ==
    /\ scheduled \in 0 .. MaxTasks
    /\ queue \in Seq(Int)
    /\ ran \in [Tasks -> Nat] /\ pended \in [Tasks -> Nat]
    /\ Len(queue) <= scheduled
    /\ \A i \in 1 .. Len(queue) : queue[i] = scheduled - Len(queue) + i
    /\ \A k \in Tasks :
          ran[k] + pended[k] = IF k <= scheduled - Len(queue) THEN 1 ELSE 0
    /\ dpc = "done" => queue = <<>>

(* q lists the threads that have left in the order they did.  Each joins   *)
(* the one before it, so that those that have ended come first.            *)
ChainOf(q) ==
    /\ Left = {q[i] : i \in 1 .. Len(q)}
    /\ \A i, j \in 1 .. Len(q) : q[i] = q[j] => i = j
    /\ tid = IF Len(q) = 0 THEN None ELSE q[Len(q)]
    /\ \A i \in 1 .. Len(q) : joinee[q[i]] = IF i = 1 THEN None ELSE q[i - 1]
    /\ \A i \in 1 .. Len(q) :
          pc[q[i]] = "end" => \A j \in 1 .. i : pc[q[j]] = "end"
    /\ \A i \in 1 .. Len(q) : pc[q[i]] = "join" => i > 1
    /\ \A i \in 1 .. Len(q) :
          joined[q[i]] = IF i < Len(q)
                         THEN IF pc[q[i + 1]] = "end" THEN 1 ELSE 0
                         ELSE IF dpc \in Emptied \ {"join"} THEN 1 ELSE 0

ChainOK ==
    /\ joined \in [Threads -> Nat]
    /\ \A t \in Threads \ Left : joined[t] = 0
    /\ \E q \in Seq(Threads) : ChainOf(q)
    /\ dpc \in Emptied \ {"join"} => \A t \in Left : pc[t] = "end"

IInv == ShapeOK /\ StagesOK /\ CountOK /\ FreesOK /\ TasksOK /\ ChainOK

-----------------------------------------------------------------------------

LEMMA InitIInv == Init => IInv
  <1> SUFFICES ASSUME Init PROVE IInv
    OBVIOUS
  <1> USE PoolAssumption DEF Init
  <1>1. Inside = {} /\ Left = {}
    BY DEF Inside, Left, InRoutine, HasLeft
  <1>2. ShapeOK
    <2>1. pc \in [Threads -> InRoutine \cup HasLeft \cup {"none"}]
      OBVIOUS
    <2>2. joinee \in [Threads -> Threads \cup {None}]
      OBVIOUS
    <2>3. tid \in Threads \cup {None} /\ mutex \in Threads \cup {Owner, None}
      OBVIOUS
    <2>4. nthreads \in Int /\ frees \in Nat
      OBVIOUS
    <2>5. dpc \in Emptied \cup {"none", "check", "wait"}
      OBVIOUS
    <2>6. nonblock \in BOOLEAN /\ terminate \in BOOLEAN
      OBVIOUS
    <2>7. destroyer \in Threads \cup {Owner, None}
      OBVIOUS
    <2>8. created \in {"starting", "counting", "ready", "failed"}
      OBVIOUS
    <2> QED
      BY <2>1, <2>2, <2>3, <2>4, <2>5, <2>6, <2>7, <2>8 DEF ShapeOK
  <1>3. StagesOK /\ FreesOK
    BY DEF StagesOK, FreesOK, HasLeft
  <1>4. CountOK
    BY <1>1, FS_EmptySet DEF CountOK, Uncounted, Emptied
  <1>5. TasksOK
    BY DEF TasksOK, Tasks
  <1>6. ChainOK
    <2>1. ChainOf(<<>>)
      BY <1>1 DEF ChainOf
    <2>2. <<>> \in Seq(Threads)
      OBVIOUS
    <2> QED
      BY <1>1, <2>1, <2>2 DEF ChainOK, Emptied
  <1> QED
    BY <1>2, <1>3, <1>4, <1>5, <1>6 DEF IInv

LEMMA StepShape == ASSUME IInv, [Next]_vars PROVE ShapeOK'
  <1> USE PoolAssumption DEF IInv, ShapeOK, InRoutine, HasLeft, Emptied, fields, history
  <1>1. ASSUME NEW t \in Threads, CreateThread(t) PROVE ShapeOK'
    BY <1>1 DEF CreateThread
  <1>2. ASSUME CountThread PROVE ShapeOK'
    BY <1>2 DEF CountThread
  <1>3. ASSUME CreateFails PROVE ShapeOK'
    BY <1>3 DEF CreateFails, Terminate
  <1>4. ASSUME NEW u \in Threads \cup {Owner}, Schedule(u) PROVE ShapeOK'
    BY <1>4 DEF Schedule
  <1>5. ASSUME NEW u \in Threads \cup {Owner}, NEW t \in Threads, IncreaseCreate(u, t)
        PROVE  ShapeOK'
    BY <1>5 DEF IncreaseCreate
  <1>6. ASSUME IncreaseCount PROVE ShapeOK'
    BY <1>6 DEF IncreaseCount
  <1>7. ASSUME NEW t \in Threads, LoopTest(t) PROVE ShapeOK'
    BY <1>7 DEF LoopTest
  <1>8. ASSUME NEW t \in Threads, GetTask(t) PROVE ShapeOK'
    BY <1>8 DEF GetTask
  <1>9. ASSUME NEW t \in Threads, GetNothing(t) PROVE ShapeOK'
    BY <1>9 DEF GetNothing
  <1>10. ASSUME NEW t \in Threads, TaskReturns(t) PROVE ShapeOK'
    BY <1>10 DEF TaskReturns
  <1>11. ASSUME NEW t \in Threads, AfterTask(t) PROVE ShapeOK'
    BY <1>11 DEF AfterTask
  <1>12. ASSUME NEW t \in Threads, Exit(t) PROVE ShapeOK'
    BY <1>12 DEF Exit, LeftBefore
  <1>13. ASSUME NEW t \in Threads, Unlock(t) PROVE ShapeOK'
    BY <1>13 DEF Unlock
  <1>14. ASSUME NEW t \in Threads, JoinPrevious(t) PROVE ShapeOK'
    BY <1>14 DEF JoinPrevious
  <1>15. ASSUME NEW d \in Threads \cup {Owner}, Destroy(d) PROVE ShapeOK'
    BY <1>15 DEF Destroy, Terminate
  <1>16. ASSUME SpuriousWakeup PROVE ShapeOK'
    BY <1>16 DEF SpuriousWakeup
  <1>17. ASSUME DestroyCheck PROVE ShapeOK'
    BY <1>17 DEF DestroyCheck
  <1>18. ASSUME DestroyJoin PROVE ShapeOK'
    BY <1>18 DEF DestroyJoin
  <1>19. ASSUME DestroyDrain PROVE ShapeOK'
    BY <1>19 DEF DestroyDrain
  <1>20. ASSUME DestroyRelease PROVE ShapeOK'
    BY <1>20 DEF DestroyRelease
  <1>21. CASE UNCHANGED vars
    BY <1>21 DEF vars
  <1> QED
    BY <1>1, <1>2, <1>3, <1>4, <1>5, <1>6, <1>7, <1>8, <1>9, <1>10, <1>11, <1>12,
       <1>13, <1>14, <1>15, <1>16, <1>17, <1>18, <1>19, <1>20, <1>21
       DEF Next, ThreadStep, DestroyerStep

(* What the counter says when it is 0.  A thread that comes back from its  *)
(* task and reads 0 is the destroyer: any other is counted itself, or it   *)
(* is new and the thread that makes it is counted, or the pool is alive.   *)
LEMMA ReturnsToNone ==
  ASSUME IInv, NEW t \in Threads, pc[t] = "after", nthreads = 0
  PROVE  t = destroyer /\ dpc = "done"
  <1> USE PoolAssumption DEF IInv, ShapeOK, StagesOK, Inside, InRoutine
  <1>1. t = destroyer
    <2> SUFFICES ASSUME t # destroyer PROVE FALSE
      OBVIOUS
    <2>1. t \in Inside /\ created = "ready"
      OBVIOUS
    <2>2. CASE mutex = None
      <3>1. Cardinality(Inside) = 0
        BY <2>1, <2>2 DEF CountOK, Uncounted
      <3> QED
        BY <2>1, <3>1, FS_EmptySet DEF CountOK
    <2>3. CASE mutex \in Threads
      <3>1. mutex \in Inside /\ mutex # t
        BY <2>3
      <3>2. Cardinality(Inside) = 1
        BY <2>1, <2>3 DEF CountOK, Uncounted
      <3>3. PICK x : Inside = {x}
        BY <3>2, FS_Singleton DEF CountOK
      <3> QED
        BY ONLY <2>1, <3>1, <3>3
    <2>4. CASE mutex = Owner
      BY <2>1, <2>4 DEF CountOK
    <2> QED
      BY <2>2, <2>3, <2>4
  <1> QED
    BY <1>1

(* Once the destroyer has found the counter at 0, nobody is left who could *)
(* call the pool, nor is anyone inside thrdpool_increase.                  *)
LEMMA NobodyLeft ==
  ASSUME IInv, dpc \in Emptied
  PROVE  /\ nthreads = 0 /\ mutex = None /\ destroyer # None
         /\ \A t \in Threads : pc[t] \in InRoutine => t = destroyer
         /\ \A u \in Threads \cup {Owner} : ~MayCall(u)
  <1> USE PoolAssumption DEF IInv, ShapeOK, StagesOK, Emptied
  <1>1. Inside = {}
    BY DEF CountOK
  <1>2. destroyer # None
    OBVIOUS
  <1>3. \A t \in Threads : pc[t] \in InRoutine => t = destroyer
    BY <1>1 DEF Inside
  <1>4. mutex = None
    BY <1>2, <1>3 DEF InRoutine
  <1>5. nthreads = 0
    BY <1>1, <1>2, <1>4, FS_EmptySet DEF CountOK, Uncounted
  <1>6. \A u \in Threads \cup {Owner} : ~MayCall(u)
    BY <1>2, <1>3 DEF MayCall, InRoutine
  <1> QED
    BY <1>2, <1>3, <1>4, <1>5, <1>6

LEMMA StepStages == ASSUME IInv, [Next]_vars PROVE StagesOK'
  <1> USE PoolAssumption DEF IInv, ShapeOK, StagesOK, InRoutine, HasLeft, Emptied,
          fields, history
  <1>1. ASSUME NEW t \in Threads, CreateThread(t) PROVE StagesOK'
    BY <1>1 DEF CreateThread, Unused
  <1>2. ASSUME CountThread PROVE StagesOK'
    BY <1>2 DEF CountThread
  <1>3. ASSUME CreateFails PROVE StagesOK'
    BY <1>3 DEF CreateFails, Terminate
  <1>4. ASSUME NEW u \in Threads \cup {Owner}, Schedule(u) PROVE StagesOK'
    BY <1>4 DEF Schedule, MayCall
  <1>5. ASSUME NEW u \in Threads \cup {Owner}, NEW t \in Threads, IncreaseCreate(u, t)
        PROVE  StagesOK'
    BY <1>5 DEF IncreaseCreate, MayCall, Unused
  <1>6. ASSUME IncreaseCount PROVE StagesOK'
    BY <1>6 DEF IncreaseCount
  <1>7. ASSUME NEW t \in Threads, LoopTest(t) PROVE StagesOK'
    BY <1>7 DEF LoopTest
  <1>8. ASSUME NEW t \in Threads, GetTask(t) PROVE StagesOK'
    <2>1. created = "ready"
      BY <1>8 DEF GetTask, TasksOK
    <2> QED
      BY <1>8, <2>1 DEF GetTask
  <1>9. ASSUME NEW t \in Threads, GetNothing(t) PROVE StagesOK'
    BY <1>9 DEF GetNothing
  <1>10. ASSUME NEW t \in Threads, TaskReturns(t) PROVE StagesOK'
    BY <1>10 DEF TaskReturns
  <1>11. ASSUME NEW t \in Threads, AfterTask(t) PROVE StagesOK'
    <2>1. CASE nthreads = 0
      <3>1. t = destroyer /\ dpc = "done"
        BY <1>11, <2>1, ReturnsToNone DEF AfterTask
      <3> QED
        BY <1>11, <2>1, <3>1 DEF AfterTask
    <2>2. CASE nthreads # 0
      <3>1. t # destroyer
        BY <1>11, <2>2, NobodyLeft DEF AfterTask
      <3> QED
        BY <1>11, <2>2, <3>1 DEF AfterTask
    <2> QED
      BY <2>1, <2>2
  <1>12. ASSUME NEW t \in Threads, Exit(t) PROVE StagesOK'
    BY <1>12 DEF Exit, LeftBefore
  <1>13. ASSUME NEW t \in Threads, Unlock(t) PROVE StagesOK'
    BY <1>13 DEF Unlock
  <1>14. ASSUME NEW t \in Threads, JoinPrevious(t) PROVE StagesOK'
    BY <1>14 DEF JoinPrevious
  <1>15. ASSUME NEW d \in Threads \cup {Owner}, Destroy(d) PROVE StagesOK'
    BY <1>15 DEF Destroy, MayCall, Terminate
  <1>16. ASSUME SpuriousWakeup PROVE StagesOK'
    BY <1>16 DEF SpuriousWakeup
  <1>17. ASSUME DestroyCheck PROVE StagesOK'
    BY <1>17 DEF DestroyCheck
  <1>18. ASSUME DestroyJoin PROVE StagesOK'
    BY <1>18 DEF DestroyJoin
  <1>19. ASSUME DestroyDrain PROVE StagesOK'
    BY <1>19 DEF DestroyDrain
  <1>20. ASSUME DestroyRelease PROVE StagesOK'
    BY <1>20 DEF DestroyRelease
  <1>21. CASE UNCHANGED vars
    BY <1>21 DEF vars
  <1> QED
    BY <1>1, <1>2, <1>3, <1>4, <1>5, <1>6, <1>7, <1>8, <1>9, <1>10, <1>11, <1>12,
       <1>13, <1>14, <1>15, <1>16, <1>17, <1>18, <1>19, <1>20, <1>21
       DEF Next, ThreadStep, DestroyerStep

LEMMA StepFrees == ASSUME IInv, [Next]_vars PROVE FreesOK'
  <1> USE PoolAssumption DEF IInv, ShapeOK, StagesOK, FreesOK, HasLeft,
          fields, history
  <1>1. ASSUME NEW t \in Threads, CreateThread(t) PROVE FreesOK'
    BY <1>1 DEF CreateThread, Unused
  <1>2. ASSUME CountThread PROVE FreesOK'
    BY <1>2 DEF CountThread
  <1>3. ASSUME CreateFails PROVE FreesOK'
    BY <1>3 DEF CreateFails, Terminate
  <1>4. ASSUME NEW u \in Threads \cup {Owner}, Schedule(u) PROVE FreesOK'
    BY <1>4 DEF Schedule
  <1>5. ASSUME NEW u \in Threads \cup {Owner}, NEW t \in Threads, IncreaseCreate(u, t)
        PROVE  FreesOK'
    BY <1>5 DEF IncreaseCreate, Unused
  <1>6. ASSUME IncreaseCount PROVE FreesOK'
    BY <1>6 DEF IncreaseCount
  <1>7. ASSUME NEW t \in Threads, LoopTest(t) PROVE FreesOK'
    BY <1>7 DEF LoopTest
  <1>8. ASSUME NEW t \in Threads, GetTask(t) PROVE FreesOK'
    BY <1>8 DEF GetTask
  <1>9. ASSUME NEW t \in Threads, GetNothing(t) PROVE FreesOK'
    BY <1>9 DEF GetNothing
  <1>10. ASSUME NEW t \in Threads, TaskReturns(t) PROVE FreesOK'
    BY <1>10 DEF TaskReturns
  <1>11. ASSUME NEW t \in Threads, AfterTask(t) PROVE FreesOK'
    <2>1. CASE nthreads = 0
      <3>1. t = destroyer
        BY <1>11, <2>1, ReturnsToNone DEF AfterTask
      <3> QED
        BY <1>11, <2>1, <3>1 DEF AfterTask
    <2>2. CASE nthreads # 0
      BY <1>11, <2>2 DEF AfterTask
    <2> QED
      BY <2>1, <2>2
  <1>12. ASSUME NEW t \in Threads, Exit(t) PROVE FreesOK'
    BY <1>12 DEF Exit
  <1>13. ASSUME NEW t \in Threads, Unlock(t) PROVE FreesOK'
    BY <1>13 DEF Unlock
  <1>14. ASSUME NEW t \in Threads, JoinPrevious(t) PROVE FreesOK'
    BY <1>14 DEF JoinPrevious
  <1>15. ASSUME NEW d \in Threads \cup {Owner}, Destroy(d) PROVE FreesOK'
    BY <1>15 DEF Destroy, MayCall, Terminate
  <1>16. ASSUME SpuriousWakeup PROVE FreesOK'
    BY <1>16 DEF SpuriousWakeup
  <1>17. ASSUME DestroyCheck PROVE FreesOK'
    BY <1>17 DEF DestroyCheck
  <1>18. ASSUME DestroyJoin PROVE FreesOK'
    BY <1>18 DEF DestroyJoin
  <1>19. ASSUME DestroyDrain PROVE FreesOK'
    BY <1>19 DEF DestroyDrain
  <1>20. ASSUME DestroyRelease PROVE FreesOK'
    BY <1>20 DEF DestroyRelease
  <1>21. CASE UNCHANGED vars
    BY <1>21 DEF vars
  <1> QED
    BY <1>1, <1>2, <1>3, <1>4, <1>5, <1>6, <1>7, <1>8, <1>9, <1>10, <1>11, <1>12,
       <1>13, <1>14, <1>15, <1>16, <1>17, <1>18, <1>19, <1>20, <1>21
       DEF Next, ThreadStep, DestroyerStep

(* The tasks in the queue, and those settled, after a step that takes one. *)
LEMMA TaskTaken ==
  ASSUME TasksOK, dpc' # "done", queue # <<>>, queue' = Tail(queue),
         UNCHANGED scheduled,
         \/ ran' = [ran EXCEPT ![Head(queue)] = @ + 1] /\ pended' = pended
         \/ pended' = [pended EXCEPT ![Head(queue)] = @ + 1] /\ ran' = ran
  PROVE  TasksOK'
  <1> DEFINE n == scheduled - Len(queue)
  <1>1. /\ queue \in Seq(Int) /\ Len(queue) \in Nat \ {0} /\ scheduled \in 0 .. MaxTasks
        /\ Len(queue) <= scheduled /\ MaxTasks \in Nat /\ scheduled \in Nat
    BY PoolAssumption DEF TasksOK
  <1>2. n \in Nat /\ n + 1 \in 1 .. MaxTasks
    BY <1>1
  <1>3. Head(queue) = n + 1
    BY <1>1 DEF TasksOK
  <1>4. queue' \in Seq(Int) /\ Len(queue') = Len(queue) - 1
    BY <1>1
  <1>5. scheduled' - Len(queue') = n + 1 /\ Len(queue') <= scheduled'
    BY <1>1, <1>4
  <1>6. ASSUME NEW i \in 1 .. Len(queue')
        PROVE  queue'[i] = scheduled' - Len(queue') + i
    <2>1. i + 1 \in 1 .. Len(queue) /\ queue'[i] = queue[i + 1]
      BY <1>1, <1>4
    <2>2. queue[i + 1] = n + (i + 1)
      BY <2>1 DEF TasksOK
    <2> QED
      BY <1>2, <1>5, <2>1, <2>2
  <1>7. ASSUME NEW k \in Tasks
        PROVE  /\ ran'[k] \in Nat /\ pended'[k] \in Nat
               /\ ran'[k] + pended'[k] = IF k <= n + 1 THEN 1 ELSE 0
    <2>1. /\ ran[k] \in Nat /\ pended[k] \in Nat
          /\ ran[k] + pended[k] = IF k <= n THEN 1 ELSE 0
      BY DEF TasksOK
    <2>2. k \in Nat
      BY <1>1 DEF Tasks
    <2>3. \/ /\ ran'[k] = IF k = n + 1 THEN ran[k] + 1 ELSE ran[k]
             /\ pended'[k] = pended[k]
          \/ /\ pended'[k] = IF k = n + 1 THEN pended[k] + 1 ELSE pended[k]
             /\ ran'[k] = ran[k]
      BY <1>3 DEF TasksOK
    <2>4. CASE k = n + 1
      BY ONLY <1>2, <2>1, <2>3, <2>4
    <2>5. CASE k # n + 1
      <3>1. k <= n + 1 <=> k <= n
        BY ONLY <1>2, <2>2, <2>5
      <3> QED
        BY ONLY <2>1, <2>3, <2>5, <3>1
    <2> QED
      BY <2>4, <2>5
  <1>8. ran' \in [Tasks -> Nat] /\ pended' \in [Tasks -> Nat]
    <2>1. ran' = [k \in Tasks |-> ran'[k]] /\ pended' = [k \in Tasks |-> pended'[k]]
      BY DEF TasksOK
    <2> QED
      BY <1>7, <2>1
  <1> QED
    BY <1>1, <1>4, <1>5, <1>6, <1>7, <1>8 DEF TasksOK

LEMMA StepTasks == ASSUME IInv, [Next]_vars PROVE TasksOK'
  <1> USE PoolAssumption DEF IInv, fields, history
  <1>1. ASSUME NEW t \in Threads, CreateThread(t) PROVE TasksOK'
    BY <1>1 DEF TasksOK, Tasks, CreateThread
  <1>2. ASSUME CountThread PROVE TasksOK'
    BY <1>2 DEF TasksOK, Tasks, CountThread
  <1>3. ASSUME CreateFails PROVE TasksOK'
    BY <1>3 DEF TasksOK, Tasks, CreateFails, Terminate
  <1>4. ASSUME NEW u \in Threads \cup {Owner}, Schedule(u) PROVE TasksOK'
    <2>1. dpc # "done"
      BY <1>4, NobodyLeft DEF Schedule, Emptied
    <2>2. scheduled \in Nat /\ Len(queue) \in Nat /\ MaxTasks \in Nat
      BY DEF TasksOK
    <2>3. queue' \in Seq(Int) /\ Len(queue') = Len(queue) + 1
      BY <1>4, <2>2 DEF TasksOK, Schedule
    <2>4. ASSUME NEW i \in 1 .. Len(queue')
          PROVE  queue'[i] = scheduled' - Len(queue') + i
      <3>1. CASE i = Len(queue')
        BY <1>4, <2>2, <2>3, <3>1 DEF TasksOK, Schedule
      <3>2. CASE i # Len(queue')
        <4>1. i \in 1 .. Len(queue) /\ queue'[i] = queue[i]
          BY <1>4, <2>2, <2>3, <3>2 DEF TasksOK, Schedule
        <4> QED
          BY <1>4, <2>2, <2>3, <4>1 DEF TasksOK, Schedule
      <3> QED
        BY <3>1, <3>2
    <2>5. /\ scheduled' \in 0 .. MaxTasks /\ Len(queue') <= scheduled'
          /\ scheduled' - Len(queue') = scheduled - Len(queue)
          /\ dpc' # "done"
      BY <1>4, <2>1, <2>2, <2>3, PoolAssumption DEF TasksOK, Schedule
    <2>6. UNCHANGED <<ran, pended>>
      BY <1>4 DEF Schedule
    <2> QED
      BY <2>3, <2>4, <2>5, <2>6 DEF TasksOK, Tasks
  <1>5. ASSUME NEW u \in Threads \cup {Owner}, NEW t \in Threads, IncreaseCreate(u, t)
        PROVE  TasksOK'
    BY <1>5 DEF TasksOK, Tasks, IncreaseCreate
  <1>6. ASSUME IncreaseCount PROVE TasksOK'
    BY <1>6 DEF TasksOK, Tasks, IncreaseCount
  <1>7. ASSUME NEW t \in Threads, LoopTest(t) PROVE TasksOK'
    BY <1>7 DEF TasksOK, Tasks, LoopTest
  <1>8. ASSUME NEW t \in Threads, GetTask(t) PROVE TasksOK'
    <2>1. dpc # "done"
      BY <1>8 DEF GetTask, TasksOK
    <2> QED
      BY <1>8, <2>1, TaskTaken DEF GetTask
  <1>9. ASSUME NEW t \in Threads, GetNothing(t) PROVE TasksOK'
    BY <1>9 DEF TasksOK, Tasks, GetNothing
  <1>10. ASSUME NEW t \in Threads, TaskReturns(t) PROVE TasksOK'
    BY <1>10 DEF TasksOK, Tasks, TaskReturns
  <1>11. ASSUME NEW t \in Threads, AfterTask(t) PROVE TasksOK'
    BY <1>11 DEF TasksOK, Tasks, AfterTask
  <1>12. ASSUME NEW t \in Threads, Exit(t) PROVE TasksOK'
    BY <1>12 DEF TasksOK, Tasks, Exit
  <1>13. ASSUME NEW t \in Threads, Unlock(t) PROVE TasksOK'
    BY <1>13 DEF TasksOK, Tasks, Unlock
  <1>14. ASSUME NEW t \in Threads, JoinPrevious(t) PROVE TasksOK'
    BY <1>14 DEF TasksOK, Tasks, JoinPrevious
  <1>15. ASSUME NEW d \in Threads \cup {Owner}, Destroy(d) PROVE TasksOK'
    BY <1>15 DEF TasksOK, Tasks, Destroy, Terminate
  <1>16. ASSUME SpuriousWakeup PROVE TasksOK'
    BY <1>16 DEF TasksOK, Tasks, SpuriousWakeup
  <1>17. ASSUME DestroyCheck PROVE TasksOK'
    BY <1>17 DEF TasksOK, Tasks, DestroyCheck
  <1>18. ASSUME DestroyJoin PROVE TasksOK'
    BY <1>18 DEF TasksOK, Tasks, DestroyJoin
  <1>19. ASSUME DestroyDrain PROVE TasksOK'
    BY <1>19, TaskTaken DEF DestroyDrain
  <1>20. ASSUME DestroyRelease PROVE TasksOK'
    <2>1. queue = <<>>
      BY <1>20 DEF DestroyRelease, Drained, StagesOK, TasksOK
    <2> QED
      BY <1>20, <2>1 DEF TasksOK, Tasks, DestroyRelease
  <1>21. CASE UNCHANGED vars
    BY <1>21 DEF TasksOK, Tasks, vars
  <1> QED
    BY <1>1, <1>2, <1>3, <1>4, <1>5, <1>6, <1>7, <1>8, <1>9, <1>10, <1>11, <1>12,
       <1>13, <1>14, <1>15, <1>16, <1>17, <1>18, <1>19, <1>20, <1>21
       DEF Next, ThreadStep, DestroyerStep

LEMMA StepCount == ASSUME IInv, [Next]_vars PROVE CountOK'
  <1> USE PoolAssumption DEF IInv, ShapeOK, StagesOK, InRoutine, HasLeft, Emptied,
          fields, history
  <1>1. ASSUME NEW t \in Threads, CreateThread(t) PROVE CountOK'
    <2>1. t \notin Inside /\ Inside' = Inside \cup {t}
      BY <1>1 DEF Inside, Unused, CreateThread
    <2>2. IsFiniteSet(Inside') /\ Cardinality(Inside') = Cardinality(Inside) + 1
      BY <2>1, FS_AddElement DEF CountOK
    <2> QED
      BY <1>1, <2>2 DEF CountOK, Uncounted, CreateThread
  <1>2. ASSUME CountThread PROVE CountOK'
    <2>1. Inside' = Inside
      BY <1>2 DEF Inside, CountThread
    <2> QED
      BY <1>2, <2>1 DEF CountOK, Uncounted, CountThread
  <1>3. ASSUME CreateFails PROVE CountOK'
    <2>1. Inside' = Inside
      BY <1>3 DEF Inside, CreateFails, Terminate
    <2> QED
      BY <1>3, <2>1 DEF CountOK, Uncounted, CreateFails, Terminate
  <1>4. ASSUME NEW u \in Threads \cup {Owner}, Schedule(u) PROVE CountOK'
    <2>1. Inside' = Inside
      BY <1>4 DEF Inside, Schedule
    <2> QED
      BY <1>4, <2>1 DEF CountOK, Uncounted, Schedule
  <1>5. ASSUME NEW u \in Threads \cup {Owner}, NEW t \in Threads, IncreaseCreate(u, t)
        PROVE  CountOK'
    <2>1. t \notin Inside /\ Inside' = Inside \cup {t}
      BY <1>5 DEF Inside, Unused, IncreaseCreate
    <2>2. IsFiniteSet(Inside') /\ Cardinality(Inside') = Cardinality(Inside) + 1
      BY <2>1, FS_AddElement DEF CountOK
    <2>3. dpc \notin Emptied /\ created = "ready" /\ u # None
      BY <1>5, NobodyLeft DEF IncreaseCreate, MayCall
    <2> QED
      BY <1>5, <2>2, <2>3 DEF CountOK, Uncounted, IncreaseCreate
  <1>6. ASSUME IncreaseCount PROVE CountOK'
    <2>1. Inside' = Inside
      BY <1>6 DEF Inside, IncreaseCount
    <2>2. dpc \notin Emptied /\ created = "ready"
      BY <1>6, NobodyLeft DEF IncreaseCount
    <2> QED
      BY <1>6, <2>1, <2>2 DEF CountOK, Uncounted, IncreaseCount
  <1>7. ASSUME NEW t \in Threads, LoopTest(t) PROVE CountOK'
    <2>1. Inside' = Inside
      BY <1>7 DEF Inside, LoopTest
    <2> QED
      BY <1>7, <2>1 DEF CountOK, Uncounted, LoopTest
  <1>8. ASSUME NEW t \in Threads, GetTask(t) PROVE CountOK'
    <2>1. Inside' = Inside
      BY <1>8 DEF Inside, GetTask
    <2> QED
      BY <1>8, <2>1 DEF CountOK, Uncounted, GetTask
  <1>9. ASSUME NEW t \in Threads, GetNothing(t) PROVE CountOK'
    <2>1. Inside' = Inside
      BY <1>9 DEF Inside, GetNothing
    <2> QED
      BY <1>9, <2>1 DEF CountOK, Uncounted, GetNothing
  <1>10. ASSUME NEW t \in Threads, TaskReturns(t) PROVE CountOK'
    <2>1. Inside' = Inside
      BY <1>10 DEF Inside, TaskReturns
    <2> QED
      BY <1>10, <2>1 DEF CountOK, Uncounted, TaskReturns
  <1>11. ASSUME NEW t \in Threads, AfterTask(t) PROVE CountOK'
    <2>1. nthreads = 0 => t = destroyer
      BY <1>11, ReturnsToNone DEF AfterTask
    <2>2. Inside' = Inside
      BY <1>11, <2>1 DEF Inside, AfterTask
    <2> QED
      BY <1>11, <2>2 DEF CountOK, Uncounted, AfterTask
  <1>12. ASSUME NEW t \in Threads, Exit(t) PROVE CountOK'
    <2>1. t \in Inside /\ Inside' = Inside \ {t}
      BY <1>12 DEF Inside, Exit
    <2>2. IsFiniteSet(Inside') /\ Cardinality(Inside') = Cardinality(Inside) - 1
      BY <2>1, FS_RemoveElement DEF CountOK
    <2>3. dpc \notin Emptied
      BY <2>1 DEF CountOK
    <2> QED
      BY <1>12, <2>2, <2>3 DEF CountOK, Uncounted, Exit
  <1>13. ASSUME NEW t \in Threads, Unlock(t) PROVE CountOK'
    <2>1. Inside' = Inside
      BY <1>13 DEF Inside, Unlock
    <2> QED
      BY <1>13, <2>1 DEF CountOK, Uncounted, Unlock
  <1>14. ASSUME NEW t \in Threads, JoinPrevious(t) PROVE CountOK'
    <2>1. Inside' = Inside
      BY <1>14 DEF Inside, JoinPrevious
    <2> QED
      BY <1>14, <2>1 DEF CountOK, Uncounted, JoinPrevious
  <1>15. ASSUME NEW d \in Threads \cup {Owner}, Destroy(d) PROVE CountOK'
    <2>1. mutex = None /\ destroyer' = d /\ dpc' = "check" /\ UNCHANGED <<mutex, created>>
      BY <1>15 DEF Destroy, Terminate
    <2>2. CASE d \in Threads
      <3>1. d \in Inside /\ Inside' = Inside \ {d} /\ nthreads' = nthreads - 1
        BY <1>15, <2>2 DEF Inside, Destroy, Terminate, MayCall
      <3>2. IsFiniteSet(Inside') /\ Cardinality(Inside') = Cardinality(Inside) - 1
        BY <3>1, FS_RemoveElement DEF CountOK
      <3> QED
        BY <2>1, <2>2, <3>1, <3>2 DEF CountOK, Uncounted
    <2>3. CASE d = Owner
      <3>1. Inside' = Inside /\ nthreads' = nthreads
        BY <1>15, <2>3 DEF Inside, Destroy, Terminate
      <3> QED
        BY <2>1, <2>3, <3>1 DEF CountOK, Uncounted
    <2> QED
      BY <2>2, <2>3
  <1>16. ASSUME SpuriousWakeup PROVE CountOK'
    <2>1. Inside' = Inside
      BY <1>16 DEF Inside, SpuriousWakeup
    <2> QED
      BY <1>16, <2>1 DEF CountOK, Uncounted, SpuriousWakeup
  <1>17. ASSUME DestroyCheck PROVE CountOK'
    <2>1. Inside' = Inside
      BY <1>17 DEF Inside, DestroyCheck
    <2>2. CASE nthreads > 0
      BY <1>17, <2>1, <2>2 DEF CountOK, Uncounted, DestroyCheck
    <2>3. CASE ~(nthreads > 0)
      <3>1. Cardinality(Inside) <= 0
        BY <1>17, <2>3 DEF CountOK, Uncounted, DestroyCheck
      <3>2. Inside = {}
        BY <3>1, FS_EmptySet, FS_CardinalityType DEF CountOK
      <3> QED
        BY <1>17, <2>1, <3>2 DEF CountOK, Uncounted, DestroyCheck
    <2> QED
      BY <2>2, <2>3
  <1>18. ASSUME DestroyJoin PROVE CountOK'
    <2>1. Inside' = Inside
      BY <1>18 DEF Inside, DestroyJoin
    <2> QED
      BY <1>18, <2>1 DEF CountOK, Uncounted, DestroyJoin
  <1>19. ASSUME DestroyDrain PROVE CountOK'
    <2>1. Inside' = Inside
      BY <1>19 DEF Inside, DestroyDrain
    <2> QED
      BY <1>19, <2>1 DEF CountOK, Uncounted, DestroyDrain
  <1>20. ASSUME DestroyRelease PROVE CountOK'
    <2>1. Inside' = Inside
      BY <1>20 DEF Inside, DestroyRelease
    <2> QED
      BY <1>20, <2>1 DEF CountOK, Uncounted, DestroyRelease
  <1>21. CASE UNCHANGED vars
    BY <1>21 DEF vars, CountOK, Inside, Uncounted
  <1> QED
    BY <1>1, <1>2, <1>3, <1>4, <1>5, <1>6, <1>7, <1>8, <1>9, <1>10, <1>11, <1>12,
       <1>13, <1>14, <1>15, <1>16, <1>17, <1>18, <1>19, <1>20, <1>21
       DEF Next, ThreadStep, DestroyerStep

(* A step of which the threads that have left take no notice. *)
LEMMA ChainKept ==
  ASSUME ChainOK, Left' = Left, UNCHANGED <<tid, joinee, joined>>,
         \A t \in Left : pc'[t] = pc[t],
         dpc' \in Emptied \ {"join"} <=> dpc \in Emptied \ {"join"}
  PROVE  ChainOK'
  <1>1. PICK q \in Seq(Threads) : ChainOf(q)
    BY DEF ChainOK
  <1>2. \A i \in 1 .. Len(q) : q[i] \in Left
    BY <1>1 DEF ChainOf
  <1>3. \A i \in 1 .. Len(q) : i < Len(q) => i + 1 \in 1 .. Len(q)
    BY <1>1
  <1>4. ChainOf(q)'
    <2>1. \A i \in 1 .. Len(q) :
             pc'[q[i]] = "end" => \A j \in 1 .. i : pc'[q[j]] = "end"
      <3>1. \A i \in 1 .. Len(q) : \A j \in 1 .. i : j \in 1 .. Len(q)
        OBVIOUS
      <3> QED
        BY <1>1, <1>2, <3>1 DEF ChainOf
    <2>2. \A i \in 1 .. Len(q) : pc'[q[i]] = "join" => i > 1
      BY <1>1, <1>2 DEF ChainOf
    <2>3. \A i \in 1 .. Len(q) :
             joined'[q[i]] = IF i < Len(q)
                             THEN IF pc'[q[i + 1]] = "end" THEN 1 ELSE 0
                             ELSE IF dpc' \in Emptied \ {"join"} THEN 1 ELSE 0
      BY <1>1, <1>2, <1>3 DEF ChainOf
    <2>4. /\ Left' = {q[i] : i \in 1 .. Len(q)}
          /\ \A i, j \in 1 .. Len(q) : q[i] = q[j] => i = j
          /\ tid' = IF Len(q) = 0 THEN None ELSE q[Len(q)]
          /\ \A i \in 1 .. Len(q) : joinee'[q[i]] = IF i = 1 THEN None ELSE q[i - 1]
      BY <1>1 DEF ChainOf
    <2> QED
      BY <2>1, <2>2, <2>3, <2>4 DEF ChainOf
  <1> QED
    BY <1>4 DEF ChainOK

(* The thread that leaves joins the one that left before it. *)
LEMMA ChainGrows ==
  ASSUME IInv, NEW t \in Threads, Exit(t)
  PROVE  ChainOK'
  <1> USE DEF IInv, ShapeOK
  <1>1. PICK q \in Seq(Threads) : ChainOf(q)
    BY DEF ChainOK
  <1> DEFINE r == Append(q, t)
  <1>2. /\ Len(q) \in Nat /\ r \in Seq(Threads) /\ Len(r) = Len(q) + 1
        /\ r[Len(r)] = t /\ \A i \in 1 .. Len(q) : r[i] = q[i]
    OBVIOUS
  <1>3. t \in Inside /\ t \notin Left
    BY DEF Exit, Inside, Left, StagesOK, InRoutine, HasLeft
  <1>4. Left' = Left \cup {t}
    BY <1>3 DEF Exit, Left, Inside, HasLeft
  <1>5. dpc \notin Emptied /\ dpc' \notin Emptied
    BY <1>3 DEF Exit, CountOK, Emptied
  <1>6. /\ tid' = t /\ pc' = [pc EXCEPT ![t] = "unlock"]
        /\ joinee' = [joinee EXCEPT ![t] = tid] /\ joined' = joined
    BY DEF Exit, LeftBefore, history
  <1>7. \A i \in 1 .. Len(q) : q[i] \in Left /\ q[i] \in Threads /\ q[i] # t
    BY <1>1, <1>3 DEF ChainOf
  <1>8. joined[t] = 0
    BY <1>3 DEF ChainOK
  <1>9. ChainOf(r)'
    <2>1. Left' = {r[i] : i \in 1 .. Len(r)}
      <3>1. {r[i] : i \in 1 .. Len(r)} = {q[i] : i \in 1 .. Len(q)} \cup {t}
        BY <1>2
      <3> QED
        BY <1>1, <1>4, <3>1 DEF ChainOf
    <2>2. \A i, j \in 1 .. Len(r) : r[i] = r[j] => i = j
      <3>1. \A i \in 1 .. Len(r) : i \in 1 .. Len(q) \/ i = Len(r)
        BY <1>2
      <3>2. \A i, j \in 1 .. Len(q) : q[i] = q[j] => i = j
        BY <1>1 DEF ChainOf
      <3> QED
        BY <1>2, <1>7, <3>1, <3>2
    <2>3. tid' = r[Len(r)] /\ Len(r) # 0
      BY <1>2, <1>6
    <2>4. \A i \in 1 .. Len(r) : joinee'[r[i]] = IF i = 1 THEN None ELSE r[i - 1]
      BY <1>1, <1>2, <1>6, <1>7 DEF ChainOf
    <2>5. \A i \in 1 .. Len(r) :
             pc'[r[i]] = "end" => \A j \in 1 .. i : pc'[r[j]] = "end"
      BY <1>1, <1>2, <1>6, <1>7 DEF ChainOf
    <2>6. \A i \in 1 .. Len(r) : pc'[r[i]] = "join" => i > 1
      BY <1>1, <1>2, <1>6, <1>7 DEF ChainOf
    <2>7. \A i \in 1 .. Len(r) : i < Len(r) =>
             joined'[r[i]] = IF pc'[r[i + 1]] = "end" THEN 1 ELSE 0
      BY <1>1, <1>2, <1>5, <1>6, <1>7 DEF ChainOf
    <2>8. joined'[r[Len(r)]] = 0
      BY <1>2, <1>6, <1>8
    <2>9. \A i \in 1 .. Len(r) :
             joined'[r[i]] = IF i < Len(r)
                             THEN IF pc'[r[i + 1]] = "end" THEN 1 ELSE 0
                             ELSE IF dpc' \in Emptied \ {"join"} THEN 1 ELSE 0
      <3>1. \A i \in 1 .. Len(r) : ~(i < Len(r)) => i = Len(r)
        BY <1>2
      <3> QED
        BY <1>5, <2>7, <2>8, <3>1
    <2> QED
      BY <2>1, <2>2, <2>3, <2>4, <2>5, <2>6, <2>9 DEF ChainOf
  <1>10. joined' \in [Threads -> Nat] /\ \A s \in Threads \ Left' : joined'[s] = 0
    BY <1>4, <1>6 DEF ChainOK
  <1> QED
    BY <1>2, <1>5, <1>9, <1>10 DEF ChainOK

(* The first thread that left has nobody to join and ends. *)
LEMMA ChainUnlock ==
  ASSUME IInv, NEW t \in Threads, Unlock(t)
  PROVE  ChainOK'
  <1> USE DEF IInv, ShapeOK
  <1>1. PICK q \in Seq(Threads) : ChainOf(q)
    BY DEF ChainOK
  <1>2. t \in Left /\ Left' = Left
    BY DEF Unlock, Left, StagesOK, HasLeft
  <1>3. PICK n \in 1 .. Len(q) : t = q[n]
    BY <1>1, <1>2 DEF ChainOf
  <1>4. /\ pc' = [pc EXCEPT ![t] = IF joinee[t] = None THEN "end" ELSE "join"]
        /\ UNCHANGED <<tid, joinee, dpc, joined>> /\ pc[t] = "unlock"
    BY DEF Unlock, fields, history
  <1>5. dpc \notin Emptied \ {"join"}
    BY <1>2, <1>4 DEF ChainOK
  <1>6. \A i \in 1 .. Len(q) : q[i] \in Threads /\ (i # n => q[i] # t)
    <2>1. \A i, j \in 1 .. Len(q) : q[i] = q[j] => i = j
      BY <1>1 DEF ChainOf
    <2> QED
      BY <1>3, <2>1
  <1>7. joinee[t] = None <=> n = 1
    BY <1>1, <1>3, PoolAssumption DEF ChainOf
  <1>8. \A i \in 1 .. Len(q) : pc'[q[i]] = IF i # n THEN pc[q[i]]
                                          ELSE IF n = 1 THEN "end" ELSE "join"
    BY <1>3, <1>4, <1>6, <1>7
  <1>9. ChainOf(q)'
    <2>1. \A i \in 1 .. Len(q) :
             pc'[q[i]] = "end" => \A j \in 1 .. i : pc'[q[j]] = "end"
      BY <1>1, <1>3, <1>4, <1>8 DEF ChainOf
    <2>2. \A i \in 1 .. Len(q) : pc'[q[i]] = "join" => i > 1
      BY <1>1, <1>3, <1>8 DEF ChainOf
    <2>3. \A i \in 1 .. Len(q) : i < Len(q) =>
             joined[q[i]] = IF pc'[q[i + 1]] = "end" THEN 1 ELSE 0
      BY <1>1, <1>3, <1>4, <1>8 DEF ChainOf
    <2> QED
      BY <1>1, <1>2, <1>4, <2>1, <2>2, <2>3 DEF ChainOf
  <1> QED
    BY <1>2, <1>4, <1>5, <1>9 DEF ChainOK

LEMMA ChainJoins ==
  ASSUME IInv, NEW t \in Threads, JoinPrevious(t)
  PROVE  ChainOK'
  <1> USE DEF IInv, ShapeOK
  <1>1. PICK q \in Seq(Threads) : ChainOf(q)
    BY DEF ChainOK
  <1>2. t \in Left /\ Left' = Left
    BY DEF JoinPrevious, Left, StagesOK, HasLeft
  <1>3. PICK n \in 1 .. Len(q) : t = q[n]
    BY <1>1, <1>2 DEF ChainOf
  <1>4. n > 1 /\ n - 1 \in 1 .. Len(q) /\ joinee[t] = q[n - 1]
    BY <1>1, <1>3 DEF ChainOf, JoinPrevious
  <1>5. /\ pc' = [pc EXCEPT ![t] = "end"] /\ pc[t] = "join" /\ pc[q[n - 1]] = "end"
        /\ joined' = [joined EXCEPT ![q[n - 1]] = @ + 1]
        /\ UNCHANGED <<tid, joinee, dpc>>
    BY <1>4 DEF JoinPrevious, fields
  <1>6. dpc \notin Emptied \ {"join"}
    BY <1>2, <1>5 DEF ChainOK
  <1>7. \A i, j \in 1 .. Len(q) : q[i] \in Left /\ q[i] \in Threads /\ (q[i] = q[j] => i = j)
    <2>1. /\ Left = {q[i] : i \in 1 .. Len(q)}
          /\ \A i, j \in 1 .. Len(q) : q[i] = q[j] => i = j
      BY ONLY <1>1 DEF ChainOf
    <2>2. \A i \in 1 .. Len(q) : q[i] \in Threads
      BY ONLY q \in Seq(Threads)
    <2> QED
      BY ONLY <2>1, <2>2
  <1>8. \A i \in 1 .. Len(q) : pc'[q[i]] = IF i = n THEN "end" ELSE pc[q[i]]
    BY <1>3, <1>5, <1>7
  <1>9. joined[q[n - 1]] = 0
    BY <1>1, <1>3, <1>4, <1>5 DEF ChainOf
  <1>10. \A s \in Threads : joined'[s] = IF s = q[n - 1] THEN 1 ELSE joined[s]
    BY <1>4, <1>5, <1>7, <1>9 DEF ChainOK
  <1>11. ChainOf(q)'
    <2>1. \A i \in 1 .. Len(q) :
             pc'[q[i]] = "end" => \A j \in 1 .. i : pc'[q[j]] = "end"
      BY <1>1, <1>3, <1>4, <1>5, <1>8 DEF ChainOf
    <2>2. \A i \in 1 .. Len(q) : pc'[q[i]] = "join" => i > 1
      BY <1>1, <1>8 DEF ChainOf
    <2>3. \A i \in 1 .. Len(q) : joined'[q[i]] = IF i = n - 1 THEN 1 ELSE joined[q[i]]
      BY <1>4, <1>7, <1>10
    <2>4. \A i \in 1 .. Len(q) : i < Len(q) =>
             joined'[q[i]] = IF pc'[q[i + 1]] = "end" THEN 1 ELSE 0
      <3> SUFFICES ASSUME NEW i \in 1 .. Len(q), i < Len(q)
                   PROVE  joined'[q[i]] = IF pc'[q[i + 1]] = "end" THEN 1 ELSE 0
        OBVIOUS
      <3>1. i + 1 \in 1 .. Len(q) /\ (i + 1 = n <=> i = n - 1)
        BY <1>3
      <3> QED
        BY <1>1, <1>8, <2>3, <3>1 DEF ChainOf
    <2>5. \A i \in 1 .. Len(q) : ~(i < Len(q)) => joined'[q[i]] = 0
      BY <1>1, <1>3, <1>6, <2>3 DEF ChainOf
    <2> QED
      BY <1>1, <1>2, <1>5, <1>6, <2>1, <2>2, <2>4, <2>5 DEF ChainOf
  <1>12. joined' \in [Threads -> Nat]
    <2>1. joined \in [Threads -> Nat] /\ q[n - 1] \in Threads
      BY <1>4 DEF ChainOK
    <2> QED
      BY <1>5, <2>1
  <1>13. \A s \in Threads \ Left' : joined'[s] = 0
    BY <1>2, <1>4, <1>7, <1>10 DEF ChainOK
  <1> QED
    BY <1>2, <1>5, <1>6, <1>11, <1>12, <1>13 DEF ChainOK

(* When the last one that left has ended, all have. *)
LEMMA ChainComplete ==
  ASSUME IInv, DestroyJoin
  PROVE  ChainOK'
  <1> USE DEF IInv, ShapeOK
  <1>1. PICK q \in Seq(Threads) : ChainOf(q)
    BY DEF ChainOK
  <1>2. Left' = Left /\ UNCHANGED <<tid, joinee, pc>>
    BY DEF DestroyJoin, Left, fields
  <1>3. dpc \notin Emptied \ {"join"} /\ dpc' \in Emptied \ {"join"}
    BY DEF DestroyJoin, Emptied
  <1>4. CASE tid = None
    <2>1. Len(q) = 0 /\ Left = {}
      <3>1. Len(q) = 0
        BY <1>1, <1>4, PoolAssumption DEF ChainOf
      <3> QED
        BY <1>1, <3>1 DEF ChainOf
    <2>2. joined' = joined
      BY <1>4 DEF DestroyJoin
    <2>3. ChainOf(q)'
      BY <1>1, <1>2, <2>1 DEF ChainOf
    <2> QED
      BY <1>2, <1>3, <2>1, <2>2, <2>3 DEF ChainOK
  <1>5. CASE tid # None
    <2>1. Len(q) # 0 /\ Len(q) \in Nat /\ tid = q[Len(q)] /\ pc[tid] = "end"
      BY <1>1, <1>5 DEF ChainOf, DestroyJoin, LastHasEnded
    <2>2. \A i \in 1 .. Len(q) : pc[q[i]] = "end"
      <3>1. Len(q) \in 1 .. Len(q)
        BY <2>1
      <3> QED
        BY <1>1, <2>1, <3>1 DEF ChainOf
    <2>3. \A t \in Left : pc[t] = "end"
      BY <1>1, <2>2 DEF ChainOf
    <2>4. /\ tid \in Left /\ tid \in Threads /\ joined[tid] = 0
          /\ joined' = [joined EXCEPT ![tid] = @ + 1]
      BY <1>1, <1>3, <1>5, <2>1 DEF ChainOf, DestroyJoin
    <2>5. \A s \in Threads : joined'[s] = IF s = tid THEN 1 ELSE joined[s]
      BY <2>4 DEF ChainOK
    <2>6. \A i \in 1 .. Len(q) : q[i] \in Threads /\ (q[i] = tid <=> i = Len(q))
      BY <1>1, <2>1 DEF ChainOf
    <2>7. ChainOf(q)'
      BY <1>1, <1>2, <1>3, <2>5, <2>6 DEF ChainOf
    <2>8. joined' \in [Threads -> Nat] /\ \A s \in Threads \ Left' : joined'[s] = 0
      BY <1>2, <2>4, <2>5 DEF ChainOK
    <2> QED
      BY <1>2, <1>3, <2>3, <2>7, <2>8 DEF ChainOK
  <1> QED
    BY <1>4, <1>5

LEMMA StepChain == ASSUME IInv, [Next]_vars PROVE ChainOK'
  <1> USE PoolAssumption DEF IInv, ShapeOK, StagesOK, InRoutine, HasLeft, Emptied,
          fields, history
  <1>1. ASSUME NEW t \in Threads, CreateThread(t) PROVE ChainOK'
    BY <1>1, ChainKept DEF ChainOK, Left, CreateThread, Unused
  <1>2. ASSUME CountThread PROVE ChainOK'
    BY <1>2, ChainKept DEF ChainOK, Left, CountThread
  <1>3. ASSUME CreateFails PROVE ChainOK'
    BY <1>3, ChainKept DEF ChainOK, Left, CreateFails, Terminate
  <1>4. ASSUME NEW u \in Threads \cup {Owner}, Schedule(u) PROVE ChainOK'
    BY <1>4, ChainKept DEF ChainOK, Left, Schedule
  <1>5. ASSUME NEW u \in Threads \cup {Owner}, NEW t \in Threads, IncreaseCreate(u, t)
        PROVE  ChainOK'
    BY <1>5, ChainKept DEF ChainOK, Left, IncreaseCreate, Unused
  <1>6. ASSUME IncreaseCount PROVE ChainOK'
    BY <1>6, ChainKept DEF ChainOK, Left, IncreaseCount
  <1>7. ASSUME NEW t \in Threads, LoopTest(t) PROVE ChainOK'
    BY <1>7, ChainKept DEF ChainOK, Left, LoopTest
  <1>8. ASSUME NEW t \in Threads, GetTask(t) PROVE ChainOK'
    BY <1>8, ChainKept DEF ChainOK, Left, GetTask
  <1>9. ASSUME NEW t \in Threads, GetNothing(t) PROVE ChainOK'
    BY <1>9, ChainKept DEF ChainOK, Left, GetNothing
  <1>10. ASSUME NEW t \in Threads, TaskReturns(t) PROVE ChainOK'
    BY <1>10, ChainKept DEF ChainOK, Left, TaskReturns
  <1>11. ASSUME NEW t \in Threads, AfterTask(t) PROVE ChainOK'
    <2>1. nthreads = 0 => t = destroyer
      BY <1>11, ReturnsToNone DEF AfterTask
    <2>2. Left' = Left /\ \A s \in Left : pc'[s] = pc[s]
      BY <1>11, <2>1 DEF Left, AfterTask
    <2> QED
      BY <1>11, <2>2, ChainKept DEF AfterTask, ChainOK
  <1>12. ASSUME NEW t \in Threads, Exit(t) PROVE ChainOK'
    BY <1>12, ChainGrows
  <1>13. ASSUME NEW t \in Threads, Unlock(t) PROVE ChainOK'
    BY <1>13, ChainUnlock
  <1>14. ASSUME NEW t \in Threads, JoinPrevious(t) PROVE ChainOK'
    BY <1>14, ChainJoins
  <1>15. ASSUME NEW d \in Threads \cup {Owner}, Destroy(d) PROVE ChainOK'
    BY <1>15, ChainKept DEF ChainOK, Left, Destroy, Terminate, MayCall
  <1>16. ASSUME SpuriousWakeup PROVE ChainOK'
    BY <1>16, ChainKept DEF ChainOK, Left, SpuriousWakeup
  <1>17. ASSUME DestroyCheck PROVE ChainOK'
    BY <1>17, ChainKept DEF ChainOK, Left, DestroyCheck
  <1>18. ASSUME DestroyJoin PROVE ChainOK'
    BY <1>18, ChainComplete
  <1>19. ASSUME DestroyDrain PROVE ChainOK'
    BY <1>19, ChainKept DEF ChainOK, Left, DestroyDrain
  <1>20. ASSUME DestroyRelease PROVE ChainOK'
    BY <1>20, ChainKept DEF ChainOK, Left, DestroyRelease
  <1>21. CASE UNCHANGED vars
    BY <1>21, ChainKept DEF vars, Left
  <1> QED
    BY <1>1, <1>2, <1>3, <1>4, <1>5, <1>6, <1>7, <1>8, <1>9, <1>10, <1>11, <1>12,
       <1>13, <1>14, <1>15, <1>16, <1>17, <1>18, <1>19, <1>20, <1>21
       DEF Next, ThreadStep, DestroyerStep

LEMMA InvariantHolds == Spec => []IInv
  <1>1. IInv /\ [Next]_vars => IInv'
    BY StepShape, StepStages, StepCount, StepFrees, StepTasks, StepChain DEF IInv
  <1> QED
    BY InitIInv, <1>1, PTL DEF Spec

-----------------------------------------------------------------------------

(* thrdpool.c:47, 62, 88: the pool is freed once, after every thread but   *)
(* the one that destroys it has ended, and a destroyer in the pool finds   *)
(* it there when it comes back to its routine.                             *)
THEOREM FreedLast == Spec => []PoolFreedLast
  <1>1. IInv => PoolFreedLast
    <2> SUFFICES ASSUME IInv PROVE PoolFreedLast
      OBVIOUS
    <2>1. ASSUME dpc = "done", NEW t \in Started \ {destroyer} PROVE pc[t] = "end"
      <3>1. pc[t] \notin InRoutine
        BY <2>1, NobodyLeft DEF Emptied, Started
      <3>2. t \in Left
        BY <3>1 DEF IInv, ShapeOK, Left, Started, Unused
      <3> QED
        BY <2>1, <3>2 DEF IInv, ChainOK, Emptied
    <2>2. /\ frees <= 1
          /\ frees = 1 /\ destroyer \in Threads => pc[destroyer] = "end"
          /\ frees = 1 => dpc = "done"
      BY DEF IInv, ShapeOK, StagesOK, FreesOK
    <2> QED
      BY <2>1, <2>2 DEF PoolFreedLast
  <1> QED
    BY <1>1, InvariantHolds, PTL

(* thrdpool.c:56-64, 88: no thread is joined twice; when the pool has been *)
(* destroyed each has been, but for a destroyer among them.                *)
THEOREM JoinedOnce == Spec => []ThreadsJoinedOnce
  <1>1. IInv => ThreadsJoinedOnce
    <2> SUFFICES ASSUME IInv, NEW t \in Started
                 PROVE  /\ joined[t] <= (IF t = destroyer THEN 0 ELSE 1)
                        /\ dpc = "done" => joined[t] = (IF t = destroyer THEN 0 ELSE 1)
      BY DEF ThreadsJoinedOnce
    <2>1. PICK q \in Seq(Threads) : ChainOf(q)
      BY DEF IInv, ChainOK
    <2>2. CASE t \notin Left
      <3>1. joined[t] = 0
        BY <2>2 DEF IInv, ChainOK, Started
      <3>2. dpc = "done" => t = destroyer
        BY <2>2, NobodyLeft DEF Emptied, Started, Unused, Left, IInv, ShapeOK
      <3> QED
        BY <3>1, <3>2
    <2>3. CASE t \in Left
      <3>1. PICK n \in 1 .. Len(q) : t = q[n]
        BY <2>1, <2>3 DEF ChainOf
      <3>2. joined[t] \in {0, 1} /\ t # destroyer
        BY <2>1, <2>3, <3>1 DEF ChainOf, Left
      <3>3. ASSUME dpc = "done" PROVE joined[t] = 1
        <4>1. dpc \in Emptied \ {"join"} /\ \A s \in Left : pc[s] = "end"
          BY <3>3 DEF IInv, ChainOK, Emptied
        <4>2. \A i \in 1 .. Len(q) : pc[q[i]] = "end"
          BY <2>1, <4>1 DEF ChainOf
        <4> QED
          BY <2>1, <3>1, <4>1, <4>2 DEF ChainOf
      <3> QED
        BY <3>2, <3>3
    <2> QED
      BY <2>2, <2>3
  <1> QED
    BY <1>1, InvariantHolds, PTL

(* thrdpool.h:23, thrdpool.c:92-99: a task is run or handed to pending,    *)
(* never both and never twice; when the pool has been destroyed it has     *)
(* been one of them.                                                       *)
THEOREM SettledOnce == Spec => []TasksSettledOnce
  <1>1. IInv => TasksSettledOnce
    <2> SUFFICES ASSUME IInv, NEW k \in 1 .. scheduled
                 PROVE  /\ ran[k] + pended[k] <= 1
                        /\ dpc = "done" => ran[k] + pended[k] = 1
      BY DEF TasksSettledOnce
    <2>1. scheduled \in Nat /\ k \in Tasks /\ k \in Nat /\ k <= scheduled
      BY PoolAssumption DEF IInv, TasksOK, Tasks
    <2>2. ran[k] + pended[k] = IF k <= scheduled - Len(queue) THEN 1 ELSE 0
      BY <2>1 DEF IInv, TasksOK
    <2>3. dpc = "done" => k <= scheduled - Len(queue)
      BY <2>1 DEF IInv, TasksOK
    <2> QED
      BY <2>2, <2>3
  <1> QED
    BY <1>1, InvariantHolds, PTL

=============================================================================
