------------------------------ MODULE Workflow ------------------------------
(***************************************************************************)
(* task/SubTask.cc and factory/Workflow.cc: how series and parallel works  *)
(* go on.  Whichever thread ends a task runs subtask_done: it pops the     *)
(* next work of the series and dispatches it, or, at the end of a branch   *)
(* of a parallel work, counts the branch down and goes on with the         *)
(* parallel work itself if it was the last.  Objects delete themselves, so *)
(* every pointer a thread still holds may be stale.                        *)
(*                                                                         *)
(* Each work has a thread of control of its own, which begins when the     *)
(* work is dispatched and may run concurrently with the thread that        *)
(* dispatched it; that a work is done, or a parallel work dispatches its   *)
(* branches, before dispatch() returns is one of the interleavings.  The   *)
(* queue of a series is a sequence; module SeriesQueue models its ring     *)
(* buffer and its last task.                                               *)
(***************************************************************************)
EXTENDS Integers, Sequences, Functions

CONSTANTS Tasks,        \* the works that are not parallel works
          Parallels,
          AllSeries,
          Content,      \* the works each series is made of, its first in front
          Branches,     \* all_series of each parallel work
          Root,         \* the series that is started
          None

Works == Tasks \cup Parallels

(* A work belongs to one series and a series to one parallel work: each is *)
(* deleted by what it belongs to (Workflow.cc:104-106, 211, 225).          *)
ASSUME ShapeAssumption ==
    /\ Tasks \cap Parallels = {}
    /\ Works \cap AllSeries = {}
    /\ Content \in [AllSeries -> Seq(Works) \ {<<>>}]
    /\ Branches \in [Parallels -> Seq(AllSeries \ {Root})]
    /\ Root \in AllSeries
    /\ None \notin Works \cup AllSeries
    /\ \A s, t \in AllSeries : \A i \in DOMAIN Content[s], j \in DOMAIN Content[t] :
          Content[s][i] = Content[t][j] => s = t /\ i = j
    /\ \A p, q \in Parallels : \A i \in DOMAIN Branches[p], j \in DOMAIN Branches[q] :
          Branches[p][i] = Branches[q][j] => p = q /\ i = j

VARIABLES
    \* SeriesWork
    queue, canceled, finished,
    \* SubTask and ParallelTask: set_pointer's series, the parent, what is left
    pointer, parent, nleft,
    \* which objects are not deleted yet
    live,
    \* the thread of control of each work: where it is, and its local variables
    pc,
    cur,          \* the work it is about
    par,          \* subtask_done's parent
    series,       \* the series that is popped
    was_canceled, \* pop's canceled
    next,         \* what pop returned
    branch,       \* how many branches dispatch has dispatched
    \* what happened
    callbacks,    \* calls of the callback of each work and series
    destroyed,    \* works and series destroyed before they began
    doomed        \* series canceled by the callback of one of its works

seriesVars == <<queue, canceled, finished>>
taskVars == <<pointer, parent, nleft>>
localVars == <<cur, par, series, was_canceled, next, branch>>
historyVars == <<callbacks, destroyed, doomed>>
vars == <<seriesVars, taskVars, live, pc, localVars, historyVars>>

Placed == UNION {Range(Content[s]) : s \in AllSeries}
Spare == Tasks \ Placed        \* created by a callback while the works run

(* The first work of a series is kept apart from its queue. *)
First(s) == Head(Content[s])

Init ==
    /\ queue = [s \in AllSeries |-> Tail(Content[s])]
    /\ canceled = [s \in AllSeries |-> FALSE]
    /\ finished = [s \in AllSeries |-> FALSE]
    /\ pointer = [w \in Works |-> IF w \in Placed
                                  THEN CHOOSE s \in AllSeries : w \in Range(Content[s])
                                  ELSE None]
    /\ parent = [w \in Works |-> None]
    /\ nleft = [p \in Parallels |-> 0]
    /\ live = Works \cup AllSeries
    /\ pc = [w \in Works |-> IF w = First(Root) THEN "dispatch" ELSE "idle"]
    /\ cur = [w \in Works |-> w]
    /\ par = [w \in Works |-> None]
    /\ series = [w \in Works |-> None]
    /\ was_canceled = [w \in Works |-> FALSE]
    /\ next = [w \in Works |-> None]
    /\ branch = [w \in Works |-> 0]
    /\ callbacks = [x \in Works \cup AllSeries |-> 0]
    /\ destroyed = {}
    /\ doomed = {}

(* What the destructor of a work that never began deletes: the work, and of *)
(* a parallel work every series with its works (dismiss_recursive), that is *)
(* the smallest set of series that has those of each work in it.            *)
Held(w) == IF w \in Parallels THEN Range(Branches[w]) ELSE {}
IsWhole(W) == \A s \in W : \A v \in Range(Content[s]) : Held(v) \subseteq W
SeriesBelow(w) == {s \in AllSeries :
    \A W \in SUBSET AllSeries : Held(w) \subseteq W /\ IsWhole(W) => s \in W}
Below(w) == {w} \cup SeriesBelow(w)
            \cup UNION {Range(Content[s]) : s \in SeriesBelow(w)}

Goto(w, label) == pc' = [pc EXCEPT ![w] = label]

-----------------------------------------------------------------------------
(* dispatch *)

AllButOne(p) == Len(Branches[p]) - 1      \* mutant: counts the gaps
OneMore(p) == Len(Branches[p]) + 1        \* mutant: counts the work itself
AllBranches(p) == Len(Branches[p])

(* A task's dispatch starts its request; a parallel work's sets nleft and   *)
(* goes through its branches, or is done if it has none.                    *)
Dispatch(w) ==
    /\ pc[w] = "dispatch"
    /\ IF w \in Tasks
       THEN Goto(w, "running") /\ UNCHANGED nleft
       ELSE /\ nleft' = [nleft EXCEPT ![w] = AllBranches(w)]
            /\ Goto(w, IF Branches[w] = <<>> THEN "done" ELSE "branches")
    /\ UNCHANGED <<seriesVars, pointer, parent, live, localVars, historyVars>>

(* The address of the next branch is compared with a local variable, so     *)
(* nothing of the work is used once the last branch is dispatched.          *)
DispatchBranch(w) ==
    /\ pc[w] = "branches"
    /\ LET n == branch[w] + 1
           first == First(Branches[w][n])
       IN /\ branch' = [branch EXCEPT ![w] = n]
          /\ parent' = [parent EXCEPT ![first] = w]
          /\ pc' = [pc EXCEPT ![first] = "dispatch",
                              ![w] = IF n = Len(Branches[w]) THEN "idle" ELSE @]
    /\ UNCHANGED <<seriesVars, pointer, nleft, live, cur, par, series,
                   was_canceled, next, historyVars>>

-----------------------------------------------------------------------------
(* The callbacks of the user *)

(* In the callback of a work of series s: nothing, or the series is         *)
(* canceled, or another task is pushed to its front or its back.            *)
Callback(w, s) ==
    /\ callbacks' = [callbacks EXCEPT ![w] = @ + 1]
    /\ \/ UNCHANGED <<queue, canceled, pointer, doomed>>
       \/ /\ canceled' = [canceled EXCEPT ![s] = TRUE]
          /\ doomed' = doomed \cup {s}
          /\ UNCHANGED <<queue, pointer>>
       \/ \E x \in Spare :
             /\ pointer[x] = None
             /\ pointer' = [pointer EXCEPT ![x] = s]
             /\ \/ queue' = [queue EXCEPT ![s] = Append(@, x)]
                \/ queue' = [queue EXCEPT ![s] = <<x>> \o @]
             /\ UNCHANGED <<canceled, doomed>>

(* Another thread may cancel a series that is under way. *)
Cancel(s) ==
    /\ \E w \in Works : pc[w] = "running" /\ pointer[w] = s
    /\ ~canceled[s]
    /\ canceled' = [canceled EXCEPT ![s] = TRUE]
    /\ UNCHANGED <<queue, finished, taskVars, live, pc, localVars, historyVars>>

-----------------------------------------------------------------------------
(* subtask_done *)

(* A task comes to its end on some thread: done() runs the callback and     *)
(* deletes the task.                                                        *)
TaskDone(w) ==
    /\ pc[w] = "running"
    /\ Callback(w, pointer[w])
    /\ live' = live \ {w}
    /\ par' = [par EXCEPT ![w] = parent[w]]
    /\ series' = [series EXCEPT ![w] = pointer[w]]
    /\ Goto(w, "pop")
    /\ UNCHANGED <<finished, parent, nleft, cur, was_canceled, next, branch,
                   destroyed>>

(* All branches have ended, and w's control goes on with their parent: its  *)
(* done() runs the callback and deletes the branches and itself.            *)
ParallelDone(w) ==
    LET p == cur[w] IN
    /\ pc[w] = "done"
    /\ Callback(p, pointer[p])
    /\ live' = live \ ({p} \cup Range(Branches[p]))
    /\ par' = [par EXCEPT ![w] = parent[p]]
    /\ series' = [series EXCEPT ![w] = pointer[p]]
    /\ Goto(w, "pop")
    /\ UNCHANGED <<finished, parent, nleft, cur, was_canceled, next, branch,
                   destroyed>>

NeverCanceled(s) == FALSE                 \* mutant: the flag is not looked at
IsCanceled(s) == canceled[s]

(* pop reads the flag first, because pop_task may delete the series. *)
Pop(w) ==
    /\ pc[w] = "pop"
    /\ was_canceled' = [was_canceled EXCEPT ![w] = IsCanceled(series[w])]
    /\ Goto(w, "pop_task")
    /\ UNCHANGED <<seriesVars, taskVars, live, cur, par, series, next, branch,
                   historyVars>>

PopWork(w) ==
    /\ pc[w] = "pop_task" /\ ~was_canceled[w]
    /\ queue[series[w]] # <<>>
    /\ next' = [next EXCEPT ![w] = Head(queue[series[w]])]
    /\ queue' = [queue EXCEPT ![series[w]] = Tail(@)]
    /\ Goto(w, "next")
    /\ UNCHANGED <<canceled, finished, taskVars, live, cur, par, series,
                   was_canceled, branch, historyVars>>

PopDestroy(w) ==
    LET gone == Below(Head(queue[series[w]])) IN
    /\ pc[w] = "pop_task" /\ was_canceled[w]
    /\ queue[series[w]] # <<>>
    /\ queue' = [queue EXCEPT ![series[w]] = Tail(@)]
    /\ live' = live \ gone
    /\ destroyed' = destroyed \cup gone
    /\ UNCHANGED <<canceled, finished, taskVars, pc, localVars, callbacks, doomed>>

AlwaysDeletes(s) == TRUE                  \* mutant: in_parallel is not looked at
DeletesItself(s) == s = Root

(* The series is at its end. A branch is deleted by its parallel work. *)
PopNothing(w) ==
    LET s == series[w] IN
    /\ pc[w] = "pop_task"
    /\ queue[s] = <<>>
    /\ finished' = [finished EXCEPT ![s] = TRUE]
    /\ callbacks' = [callbacks EXCEPT ![s] = @ + 1]
    /\ live' = IF DeletesItself(s) THEN live \ {s} ELSE live
    /\ Goto(w, "ended")
    /\ UNCHANGED <<queue, canceled, taskVars, localVars, destroyed, doomed>>

(* The next work inherits the parent; dispatching it is the last thing      *)
(* subtask_done does.                                                       *)
DispatchNext(w) ==
    /\ pc[w] = "next"
    /\ parent' = [parent EXCEPT ![next[w]] = par[w]]
    /\ pc' = [pc EXCEPT ![w] = "idle", ![next[w]] = "dispatch"]
    /\ UNCHANGED <<seriesVars, pointer, nleft, live, localVars, historyVars>>

(* A series that is no branch has ended: nothing follows. *)
SeriesEnds(w) ==
    /\ pc[w] = "ended" /\ par[w] = None
    /\ Goto(w, "idle")
    /\ UNCHANGED <<seriesVars, taskVars, live, localVars, historyVars>>

(* __sync_sub_and_fetch(&parent->nleft, 1) *)
BranchEnds(w) ==
    LET p == par[w] IN
    /\ pc[w] = "ended" /\ p # None
    /\ nleft' = [nleft EXCEPT ![p] = @ - 1]
    /\ IF nleft'[p] = 0
       THEN Goto(w, "done") /\ cur' = [cur EXCEPT ![w] = p]
       ELSE Goto(w, "idle") /\ UNCHANGED cur
    /\ UNCHANGED <<seriesVars, pointer, parent, live, par, series, was_canceled,
                   next, branch, historyVars>>

-----------------------------------------------------------------------------

Step(w) ==
    \/ Dispatch(w) \/ DispatchBranch(w) \/ TaskDone(w) \/ ParallelDone(w)
    \/ Pop(w) \/ PopWork(w) \/ PopDestroy(w) \/ PopNothing(w)
    \/ DispatchNext(w) \/ SeriesEnds(w) \/ BranchEnds(w)

Next ==
    \/ \E w \in Works : Step(w)
    \/ \E s \in AllSeries : Cancel(s)

(* Threads go on, and every task comes to an end: Communicator tells every  *)
(* session its outcome (ClientConn).                                        *)
Fairness == \A w \in Works : WF_vars(Step(w))

Spec == Init /\ [][Next]_vars /\ Fairness

-----------------------------------------------------------------------------
(* Whoever goes on with a parallel work is alone with it: every branch has  *)
(* called its callback, no thread is inside a branch or still dispatching   *)
(* one, and nobody else goes on with it (SubTask.cc:19, Workflow.cc:202).   *)
JoinIsLast ==
    \A w \in Works : pc[w] = "done" =>
        LET p == cur[w] IN
        /\ \A s \in Range(Branches[p]) : finished[s] /\ callbacks[s] = 1
        /\ \A v \in Works : pc[v] # "idle" /\ v # w =>
               /\ cur[v] # p
               /\ pc[v] \in {"pop", "pop_task", "next", "ended"} => par[v] # p
               /\ pc[v] = "running" => parent[v] # p

(* No thread uses a deleted work or series: subtask_done and pop keep in    *)
(* local variables what they need after done() and pop_task(), and parents  *)
(* outlive their branches (SubTask.cc:10-19, Workflow.cc:96-143, 202-216).  *)
NoUseAfterFree ==
    \A w \in Works :
        /\ pc[w] \in {"dispatch", "branches", "running"} =>
               w \in live /\ pointer[w] \in live
        /\ pc[w] = "running" /\ parent[w] # None => parent[w] \in live
        /\ pc[w] = "done" =>
               {cur[w], pointer[cur[w]]} \cup Range(Branches[cur[w]]) \subseteq live
        /\ pc[w] \in {"pop", "pop_task"} => series[w] \in live
        /\ pc[w] = "next" => next[w] \in live
        /\ pc[w] = "ended" /\ par[w] # None => par[w] \in live

(* Workflow.h:73-76: once the callback of one of its works has canceled a   *)
(* series, no later work of the series begins; those destroyed get no       *)
(* callback.                                                                *)
CancelDestroysRest ==
    /\ \A w \in Works : pc[w] = "next" => series[w] \notin doomed
    /\ \A x \in destroyed : callbacks[x] = 0

(* Everything comes to an end: each work and each series that was part of   *)
(* it had its callback once or was destroyed, and no object is left.        *)
Used == {w \in Works : pointer[w] # None} \cup AllSeries
EverythingEnds ==
    <>[](/\ live \cap Used = {}
         /\ \A x \in Used : callbacks[x] = (IF x \in destroyed THEN 0 ELSE 1))

=============================================================================
