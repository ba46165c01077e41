------------------------------ MODULE ThrdPool ------------------------------
(***************************************************************************)
(* common/thrdpool.c: the pool of handler threads.  Idle threads block in  *)
(* msgqueue_get; the queue is a plain first-in first-out one here, which   *)
(* is what module MsgQueue implements.  The pool is destroyed from outside *)
(* or by one of its own tasks; either way the destroyer waits until every  *)
(* other thread has left, and the threads join one another in a chain so   *)
(* that nobody has to keep their ids.                                      *)
(*                                                                         *)
(* pool->mutex is only held from one action to the next by                 *)
(* thrdpool_increase.  The pool's user keeps to the calling conventions:   *)
(* one call of thrdpool_destroy; no other call from outside when it begins *)
(* or later; no further call by the task that made it.                     *)
(***************************************************************************)
EXTENDS Integers, Sequences

CONSTANTS Threads,      \* the threads pthread_create may hand out
          NThreads,     \* thrdpool_create's nthreads
          MaxTasks,     \* bound: tasks scheduled in all
          Owner,        \* the thread outside of the pool that uses it
          None          \* no thread: __zero_tid

(* thrdpool_create accepts 0 too; a task scheduled before the first call   *)
(* of thrdpool_increase could then end before its thread is counted, and   *)
(* the thread would free the pool (thrdpool.c:47).  Communicator, which    *)
(* schedules after the increase, does not do that.                         *)
ASSUME PoolAssumption ==
    /\ NThreads \in Nat \ {0}
    /\ MaxTasks \in Nat
    /\ Owner \notin Threads
    /\ None \notin Threads \cup {Owner}

VARIABLES queue,        \* the tasks in pool->msgqueue
          nonblock,     \* msgqueue_set_nonblock has been called
          nthreads, tid, terminate,         \* the fields of struct __thrdpool
          mutex,        \* the thread inside thrdpool_increase, or None
          created,      \* thrdpool_create: "starting", "counting", "ready", "failed"
          pc,           \* where each thread of the pool is
          joinee,       \* the id each leaving thread found in pool->tid
          destroyer,    \* the thread inside thrdpool_destroy, or None
          dpc,          \* where it is
          frees,        \* how often free(pool) was called
          scheduled,    \* tasks scheduled so far: they are 1 .. scheduled
          ran, pended,  \* how often each task was run, handed to pending
          joined        \* how often each thread was joined

fields == <<nonblock, nthreads, tid, terminate>>
history == <<scheduled, ran, pended, joined>>
vars == <<queue, fields, mutex, created, pc, joinee, destroyer, dpc, frees,
          history>>

Tasks == 1 .. MaxTasks
Unused == {t \in Threads : pc[t] = "none"}

Init ==
    /\ queue = <<>>
    /\ nonblock = FALSE
    /\ nthreads = 0
    /\ tid = None
    /\ terminate = FALSE
    /\ mutex = None
    /\ created = "starting"
    /\ pc = [t \in Threads |-> "none"]
    /\ joinee = [t \in Threads |-> None]
    /\ destroyer = None
    /\ dpc = "none"
    /\ frees = 0
    /\ scheduled = 0
    /\ ran = [k \in Tasks |-> 0]
    /\ pended = [k \in Tasks |-> 0]
    /\ joined = [t \in Threads |-> 0]

-----------------------------------------------------------------------------
(* thrdpool_create *)

(* The condition variable term is on the destroyer's stack; the destroyer, *)
(* counted out if it is one of the pool's threads, goes on to test whether *)
(* the others have left.                                                   *)
Terminate(d) ==
    /\ mutex = None
    /\ nonblock' = TRUE
    /\ terminate' = TRUE
    /\ destroyer' = d
    /\ nthreads' = IF d \in Threads THEN nthreads - 1 ELSE nthreads
    /\ dpc' = "check"

(* The new thread runs before it is counted. *)
CreateThread(t) ==
    /\ created = "starting"
    /\ nthreads < NThreads
    /\ t \in Unused
    /\ pc' = [pc EXCEPT ![t] = "loop"]
    /\ created' = "counting"
    /\ UNCHANGED <<queue, fields, mutex, joinee, destroyer, dpc, frees, history>>

CountThread ==
    /\ created = "counting"
    /\ nthreads' = nthreads + 1
    /\ created' = IF nthreads' = NThreads THEN "ready" ELSE "starting"
    /\ UNCHANGED <<queue, nonblock, tid, terminate, mutex, pc, joinee, destroyer,
                   dpc, frees, history>>

CreateFails ==
    /\ created = "starting"
    /\ created' = "failed"
    /\ Terminate(Owner)
    /\ UNCHANGED <<queue, tid, mutex, pc, joinee, frees, history>>

-----------------------------------------------------------------------------
(* The users of the pool: the threads outside of it, and the tasks *)

(* u may call the pool: a task may do so while the pool is being destroyed *)
(* by another thread.                                                      *)
MayCall(u) ==
    \/ u = Owner /\ created = "ready" /\ destroyer = None
    \/ u \in Threads /\ pc[u] = "task" /\ destroyer # u /\ mutex # u

Schedule(u) ==
    /\ MayCall(u)
    /\ scheduled < MaxTasks
    /\ scheduled' = scheduled + 1
    /\ queue' = Append(queue, scheduled')
    /\ UNCHANGED <<fields, mutex, created, pc, joinee, destroyer, dpc, frees,
                   ran, pended, joined>>

(* thrdpool_increase: the new thread runs before it is counted ...         *)
IncreaseCreate(u, t) ==
    /\ MayCall(u)
    /\ mutex = None
    /\ t \in Unused
    /\ mutex' = u
    /\ pc' = [pc EXCEPT ![t] = "loop"]
    /\ UNCHANGED <<queue, fields, created, joinee, destroyer, dpc, frees, history>>

(* ... but cannot leave, for want of the mutex. *)
IncreaseCount ==
    /\ mutex # None
    /\ nthreads' = nthreads + 1
    /\ mutex' = None
    /\ UNCHANGED <<queue, nonblock, tid, terminate, created, pc, joinee,
                   destroyer, dpc, frees, history>>

(* pthread_create fails: only the mutex is taken and released. *)

-----------------------------------------------------------------------------
(* __thrdpool_routine *)

LoopTest(t) ==
    /\ pc[t] = "loop"
    /\ pc' = [pc EXCEPT ![t] = IF terminate THEN "exit" ELSE "get"]
    /\ UNCHANGED <<queue, fields, mutex, created, joinee, destroyer, dpc, frees,
                   history>>

GetTask(t) ==
    /\ pc[t] = "get"
    /\ queue # <<>>
    /\ queue' = Tail(queue)
    /\ ran' = [ran EXCEPT ![Head(queue)] = @ + 1]
    /\ pc' = [pc EXCEPT ![t] = "task"]
    /\ UNCHANGED <<fields, mutex, created, joinee, destroyer, dpc, frees,
                   scheduled, pended, joined>>

(* msgqueue_get returns NULL. *)
GetNothing(t) ==
    /\ pc[t] = "get"
    /\ queue = <<>> /\ nonblock
    /\ pc' = [pc EXCEPT ![t] = "exit"]
    /\ UNCHANGED <<queue, fields, mutex, created, joinee, destroyer, dpc, frees,
                   history>>

TaskReturns(t) ==
    /\ pc[t] = "task"
    /\ mutex # t
    /\ destroyer = t => dpc = "done"
    /\ pc' = [pc EXCEPT ![t] = "after"]
    /\ UNCHANGED <<queue, fields, mutex, created, joinee, destroyer, dpc, frees,
                   history>>

(* The thread whose task destroyed the pool frees what is left of it.      *)
AfterTask(t) ==
    /\ pc[t] = "after"
    /\ IF nthreads = 0
       THEN /\ frees' = frees + 1
            /\ pc' = [pc EXCEPT ![t] = "end"]
       ELSE /\ pc' = [pc EXCEPT ![t] = "loop"]
            /\ UNCHANGED frees
    /\ UNCHANGED <<queue, fields, mutex, created, joinee, destroyer, dpc, history>>

NoSignal(n) == FALSE                    \* mutant
LastToLeave(n) == n = 0

JoinNobody == None                      \* mutant: the chain is broken
LeftBefore == tid

(* The critical section at the end of the routine: a thread takes the id   *)
(* of the one that left before it and leaves its own.  The last one wakes  *)
(* the destroyer, if that sleeps, and is still inside pthread_mutex_unlock *)
(* when the destroyer may already hold the mutex.                          *)
Exit(t) ==
    /\ pc[t] = "exit"
    /\ mutex = None
    /\ joinee' = [joinee EXCEPT ![t] = LeftBefore]
    /\ tid' = t
    /\ nthreads' = nthreads - 1
    /\ dpc' = IF LastToLeave(nthreads') /\ dpc = "wait" THEN "check" ELSE dpc
    /\ pc' = [pc EXCEPT ![t] = "unlock"]
    /\ UNCHANGED <<queue, nonblock, terminate, mutex, created, destroyer, frees,
                   history>>

Unlock(t) ==
    /\ pc[t] = "unlock"
    /\ pc' = [pc EXCEPT ![t] = IF joinee[t] = None THEN "end" ELSE "join"]
    /\ UNCHANGED <<queue, fields, mutex, created, joinee, destroyer, dpc, frees,
                   history>>

JoinPrevious(t) ==
    /\ pc[t] = "join"
    /\ pc[joinee[t]] = "end"
    /\ joined' = [joined EXCEPT ![joinee[t]] = @ + 1]
    /\ pc' = [pc EXCEPT ![t] = "end"]
    /\ UNCHANGED <<queue, fields, mutex, created, joinee, destroyer, dpc, frees,
                   scheduled, ran, pended>>

-----------------------------------------------------------------------------
(* thrdpool_destroy *)

Destroy(d) ==
    /\ MayCall(d)
    /\ created = "ready" /\ destroyer = None
    /\ Terminate(d)
    /\ UNCHANGED <<queue, tid, mutex, created, pc, joinee, frees, history>>

(* With the mutex, on entry, when woken, and when woken without a signal.  *)
DestroyCheck ==
    /\ dpc = "check"
    /\ mutex = None
    /\ dpc' = IF nthreads > 0 THEN "wait" ELSE "join"
    /\ UNCHANGED <<queue, fields, mutex, created, pc, joinee, destroyer, frees,
                   history>>

SpuriousWakeup ==
    /\ dpc = "wait"
    /\ dpc' = "check"
    /\ UNCHANGED <<queue, fields, mutex, created, pc, joinee, destroyer, frees,
                   history>>

NoJoin == TRUE                          \* mutant: relies on the signal only
LastHasEnded == tid # None => pc[tid] = "end"

(* A failed thrdpool_create has nothing to drain. *)
DestroyJoin ==
    /\ dpc = "join"
    /\ LastHasEnded
    /\ joined' = IF tid = None THEN joined ELSE [joined EXCEPT ![tid] = @ + 1]
    /\ dpc' = IF created = "failed" THEN "release" ELSE "drain"
    /\ UNCHANGED <<queue, fields, mutex, created, pc, joinee, destroyer, frees,
                   scheduled, ran, pended>>

DestroyDrain ==
    /\ dpc = "drain"
    /\ queue # <<>>
    /\ pended' = [pended EXCEPT ![Head(queue)] = @ + 1]
    /\ queue' = Tail(queue)
    /\ UNCHANGED <<fields, mutex, created, pc, joinee, destroyer, dpc, frees,
                   scheduled, ran, joined>>

NothingPending == TRUE                  \* mutant: the queue is not drained
Drained == queue = <<>>

(* The key, the mutex and the queue are destroyed; the pool itself is      *)
(* freed only here if the destroyer is not one of its threads.             *)
DestroyRelease ==
    /\ dpc = "release" \/ (dpc = "drain" /\ Drained)
    /\ dpc' = "done"
    /\ frees' = IF destroyer \in Threads THEN frees ELSE frees + 1
    /\ UNCHANGED <<queue, fields, mutex, created, pc, joinee, destroyer, history>>

-----------------------------------------------------------------------------

ThreadStep(t) ==
    \/ LoopTest(t) \/ GetTask(t) \/ GetNothing(t) \/ TaskReturns(t)
    \/ AfterTask(t) \/ Exit(t) \/ Unlock(t) \/ JoinPrevious(t)

DestroyerStep == DestroyCheck \/ DestroyJoin \/ DestroyDrain \/ DestroyRelease

Next ==
    \/ \E t \in Threads : CreateThread(t)
    \/ CountThread
    \/ CreateFails
    \/ \E u \in Threads \cup {Owner} : Schedule(u)
    \/ \E u \in Threads \cup {Owner}, t \in Threads : IncreaseCreate(u, t)
    \/ IncreaseCount
    \/ \E t \in Threads : ThreadStep(t)
    \/ \E d \in Threads \cup {Owner} : Destroy(d)
    \/ SpuriousWakeup
    \/ DestroyerStep

(* Threads run and tasks return; so does thrdpool_increase.  Nobody has to *)
(* schedule a task, to add a thread or to destroy the pool.  A thread that *)
(* wants the mutex gets it although others take it in between, as they do  *)
(* only once per new thread.                                               *)
Fairness ==
    /\ \A t \in Threads : WF_vars(ThreadStep(t))
    /\ WF_vars(DestroyerStep)
    /\ WF_vars(CountThread)
    /\ WF_vars(IncreaseCount)

Spec == Init /\ [][Next]_vars /\ Fairness

-----------------------------------------------------------------------------
Started == Threads \ Unused

(* The pool is freed once and nobody uses it, or its mutex and its queue,  *)
(* afterwards: when they are destroyed every thread but the destroyer has  *)
(* ended, also the one that is slow to come out of pthread_mutex_unlock    *)
(* (thrdpool.c:62), and a destroyer in the pool comes back to              *)
(* its routine to find the pool still there (thrdpool.c:47).               *)
PoolFreedLast ==
    /\ frees <= 1
    /\ dpc = "done" => \A t \in Started \ {destroyer} : pc[t] = "end"
    /\ frees = 1 /\ destroyer \in Threads => pc[destroyer] = "end"
    /\ frees = 1 => dpc = "done"

(* pthread_join is undefined for a thread that was joined or detached, and *)
(* a thread that is not joined is leaked: the chain through pool->tid      *)
(* (thrdpool.c:56-64, 88-89) reaches every thread but a destroyer in the   *)
(* pool, which detached itself, exactly once.                              *)
ThreadsJoinedOnce ==
    \A t \in Started :
        /\ joined[t] <= (IF t = destroyer THEN 0 ELSE 1)
        /\ dpc = "done" => joined[t] = (IF t = destroyer THEN 0 ELSE 1)

(* thrdpool.h:23: a task may be scheduled by another task even if the pool *)
(* is being destroyed.  Whenever it was, it is run or handed to            *)
(* thrdpool_destroy's pending, not both, and none is forgotten.            *)
TasksSettledOnce ==
    \A k \in 1 .. scheduled :
        /\ ran[k] + pended[k] <= 1
        /\ dpc = "done" => ran[k] + pended[k] = 1

(* thrdpool_destroy returns and the pool is freed, whoever calls it and    *)
(* whatever the tasks do meanwhile, as long as they return.                *)
DestroyCompletes == destroyer # None ~> (dpc = "done" /\ frees = 1)

=============================================================================
