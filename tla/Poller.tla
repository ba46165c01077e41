------------------------------- MODULE Poller -------------------------------
(***************************************************************************)
(* poller/poller.c: one poller, its thread, and the threads that call it.  *)
(* A node is what poller_add allocates for a descriptor, or                *)
(* poller_add_timer for a timer; it is given to the callback exactly once, *)
(* with its final result, and belongs to the callback from then on.  The   *)
(* thread takes a batch of events out of epoll and handles them one by     *)
(* one, then the pipe, then the timeouts.                                  *)
(*                                                                         *)
(* Nodes are addresses: one that is freed may be allocated again.  What    *)
(* happens under poller->mutex is one action, but for the write into the   *)
(* pipe, which may block with the mutex held.  epoll knows the node of a   *)
(* descriptor as nodes[fd] does.  The operation of a node, which only says  *)
(* which handler its events go to, is not kept: an event may go to any of   *)
(* the handlers.  PD_OP_EVENT and PD_OP_NOTIFY, which nothing in this       *)
(* program adds, are left out.                                              *)
(***************************************************************************)
EXTENDS Integers, FiniteSets, SequencesExt

CONSTANTS Fds,
          Nodes,      \* addresses of nodes
          None,       \* NULL, and the -1 of a timer's descriptor
          Timeouts,   \* the timeouts that callers pass, besides -1
          PipeMax,    \* how many pointers the pipe holds
          EventsMax,  \* POLLER_EVENTS_MAX: how many events epoll_wait returns
          MaxTime,    \* bound: the last instant
          MaxCalls    \* bound: calls of poller_add, _del, _mod, ...

ASSUME PollerAssumption ==
    /\ Timeouts \subseteq Nat /\ {PipeMax, EventsMax, MaxTime, MaxCalls} \subseteq Nat \ {0}
    /\ None \notin Fds \cup Nodes

VARIABLES
    node,         \* the fields of each allocated node
    live,         \* the nodes allocated and not given to the callback yet
    nodes,        \* poller->nodes: the node of each descriptor
    timeo_list, no_timeo_list,
    tree,         \* timeo_tree in order
    tree_first, tree_last,
    timerfd,      \* when it fires, 0 if it is not set
    pipe,
    blocked,      \* who has the mutex and waits for room in the pipe: its node
    stopped,
    \* the poller's thread
    pc, batch, has_pipe_event, time_node,
    stopping,     \* how far poller_stop is
    clock,
    calls,        \* how many calls were made
    astray        \* history: a callback got a node that it already owned,
                  \* or poller_stop left one out

timeVars == <<timeo_list, no_timeo_list, tree, tree_first, tree_last, timerfd>>
threadVars == <<pc, batch, has_pipe_event, time_node>>
vars == <<node, live, nodes, timeVars, pipe, blocked, stopped, threadVars,
          stopping, clock, calls, astray>>

Freed == [fd |-> None, timeout |-> 0,
          in_rbtree |-> FALSE, removed |-> FALSE]

Init ==
    /\ node = [n \in Nodes |-> Freed]
    /\ live = {}
    /\ nodes = [f \in Fds |-> None]
    /\ timeo_list = <<>> /\ no_timeo_list = {} /\ tree = <<>>
    /\ tree_first = None /\ tree_last = None
    /\ timerfd = 0
    /\ pipe = <<>> /\ blocked = None
    /\ stopped = TRUE
    /\ pc = "none" /\ batch = {} /\ has_pipe_event = FALSE
    /\ time_node = 0
    /\ stopping = "no"
    /\ clock = 1 /\ calls = 0
    /\ astray = FALSE

(* poller->mutex can be taken. *)
Unlocked == blocked = None

-----------------------------------------------------------------------------
(* The timeouts: a list of nodes added in the order of their timeouts, and  *)
(* a tree of the others.  The record T holds both, with the timerfd.        *)

TimeNow == [list |-> timeo_list, rest |-> no_timeo_list, tree |-> tree,
            first |-> tree_first, last |-> tree_last, timer |-> timerfd]

SetTime(T) ==
    /\ timeo_list' = T.list /\ no_timeo_list' = T.rest /\ tree' = T.tree
    /\ tree_first' = T.first /\ tree_last' = T.last /\ timerfd' = T.timer

HeadOr(s) == IF s = <<>> THEN None ELSE Head(s)
LastOr(s) == IF s = <<>> THEN None ELSE Last(s)

(* The place in the tree is in front of the first node that is later.       *)
TreeInsert(T, n, at) ==
    LET i == SelectInSeq(T.tree, LAMBDA m : node[m].timeout > at)
    IN [T EXCEPT !.tree = IF i = 0 THEN Append(@, n) ELSE InsertAt(@, i, n),
                 !.first = IF i = 1 \/ T.tree = <<>> THEN n ELSE @,
                 !.last = IF i = 0 THEN n ELSE @]

KeepLast(T, n) ==                      \* mutant: tree_last is not moved
    LET left == RemoveFirst(T.tree, n) IN
    [T EXCEPT !.tree = left, !.first = IF @ = n THEN HeadOr(left) ELSE @]
TreeErase(T, n) ==
    LET left == RemoveFirst(T.tree, n) IN
    [T EXCEPT !.tree = left,
              !.first = IF @ = n THEN HeadOr(left) ELSE @,
              !.last = IF @ = n THEN LastOr(left) ELSE @]

(* list_del or __poller_tree_erase *)
Unlink(T, n) ==
    IF node[n].in_rbtree THEN TreeErase(T, n)
    ELSE [T EXCEPT !.list = RemoveFirst(@, n), !.rest = @ \ {n}]

InTree(T, at) == T.list # <<>> /\ at < node[Last(T.list)].timeout

(* __poller_insert_node sets the timerfd for a node earlier than all others *)
Sooner(T, at) ==
    IF T.list = <<>>
    THEN T.first = None \/ at < node[T.first].timeout
    ELSE /\ InTree(T, at)
         /\ T.first = None \/ at < node[T.first].timeout
         /\ at < node[Head(T.list)].timeout

InsertNode(T, n, at) ==
    LET timer == IF Sooner(T, at) THEN at ELSE T.timer IN
    IF InTree(T, at)
    THEN [TreeInsert(T, n, at) EXCEPT !.timer = timer]
    ELSE [T EXCEPT !.list = Append(@, n), !.timer = timer]

(* at = 0: no timeout *)
Insert(T, n, at) ==
    IF at = 0 THEN [T EXCEPT !.rest = @ \cup {n}] ELSE InsertNode(T, n, at)

(* __poller_node_set_timeout; 0 stands for the timeout -1.  The caller reads *)
(* the clock before it takes the mutex, so a deadline may be past.  One at  *)
(* the bound is not given, for the clock has to pass it.                    *)
Deadlines ==
    {0} \cup {at \in {read + t : read \in 1 .. clock, t \in Timeouts} : at < MaxTime}

-----------------------------------------------------------------------------
(* The callback owns every node it gets. *)

Give(S, still) ==
    /\ live' = still \ S
    /\ astray' = (astray \/ ~(S \subseteq still))

Clear(f, S) == [n \in Nodes |-> IF n \in S THEN Freed ELSE f[n]]

NewNode(f, at, T) ==
    [fd |-> f, timeout |-> at,
     in_rbtree |-> at # 0 /\ InTree(T, at), removed |-> FALSE]

(* What malloc returns: which of the free ones it is does not matter.       *)
Free == CHOOSE n \in Nodes \ live : TRUE

(* A call, with the mutex, after mpoller_start, and also when mpoller_stop   *)
(* has returned: the handlers go on up to mpoller_destroy.                  *)
Call ==
    /\ Unlocked /\ pc # "none"
    /\ calls < MaxCalls /\ calls' = calls + 1

PollerAdd(f) ==
    LET n == Free IN
    /\ Call /\ live # Nodes /\ nodes[f] = None
    /\ \E at \in Deadlines :
          /\ node' = [node EXCEPT ![n] = NewNode(f, at, TimeNow)]
          /\ live' = live \cup {n}
          /\ nodes' = [nodes EXCEPT ![f] = n]
          /\ SetTime(Insert(TimeNow, n, at))
    /\ UNCHANGED <<pipe, blocked, stopped, threadVars, stopping, clock, astray>>

AddTimer ==
    LET n == Free IN
    /\ Call /\ live # Nodes
    /\ \E at \in Deadlines \ {0} :
          /\ node' = [node EXCEPT ![n] = NewNode(None, at, TimeNow)]
          /\ live' = live \cup {n}
          /\ SetTime(Insert(TimeNow, n, at))
    /\ UNCHANGED <<nodes, pipe, blocked, stopped, threadVars, stopping, clock, astray>>

(* A node that was deleted or modified goes to the poller's thread, or, if  *)
(* there is none, to the callback at once.  fields: the nodes' new fields.  *)
Retire(n, fields, still) ==
    IF stopped
    THEN /\ Give({n}, still)
         /\ node' = Clear(fields, {n})
         /\ UNCHANGED <<pipe, blocked>>
    ELSE /\ node' = [fields EXCEPT ![n].removed = TRUE, ![n].in_rbtree = FALSE]
         /\ live' = still
         /\ IF Len(pipe) < PipeMax
            THEN pipe' = Append(pipe, n) /\ UNCHANGED blocked
            ELSE blocked' = n /\ UNCHANGED pipe
         /\ UNCHANGED astray

PollerDel(f) ==
    /\ Call /\ nodes[f] # None
    /\ nodes' = [nodes EXCEPT ![f] = None]
    /\ SetTime(Unlink(TimeNow, nodes[f]))
    /\ Retire(nodes[f], node, live)
    /\ UNCHANGED <<stopped, threadVars, stopping, clock>>

PollerMod(f) ==
    LET old == nodes[f]
        n == Free
        T == Unlink(TimeNow, old) IN
    /\ Call /\ live # Nodes /\ old # None
    /\ \E at \in Deadlines :
          /\ nodes' = [nodes EXCEPT ![f] = n]
          /\ SetTime(Insert(T, n, at))
          /\ Retire(old, [node EXCEPT ![n] = NewNode(f, at, T)],
                    live \cup {n})
    /\ UNCHANGED <<stopped, threadVars, stopping, clock>>

PollerSetTimeout(f) ==
    LET n == nodes[f]
        T == Unlink(TimeNow, n) IN
    /\ Call /\ n # None
    /\ \E at \in Deadlines :
          /\ SetTime(Insert(T, n, at))
          /\ node' = [node EXCEPT ![n].timeout = at,
                                  ![n].in_rbtree = at # 0 /\ InTree(T, at)]
    /\ UNCHANGED <<live, nodes, pipe, blocked, stopped, threadVars, stopping,
                   clock, astray>>

(* The writer gets room, and unlocks the mutex. *)
Unblock ==
    /\ blocked # None /\ Len(pipe) < PipeMax
    /\ pipe' = Append(pipe, blocked)
    /\ blocked' = None
    /\ UNCHANGED <<node, live, nodes, timeVars, stopped, threadVars, stopping,
                   clock, calls, astray>>

-----------------------------------------------------------------------------
(* The poller's thread *)

PollerStart ==
    /\ pc = "none" /\ Unlocked
    /\ pc' = "set_timer"
    /\ stopped' = FALSE
    /\ UNCHANGED <<node, live, nodes, timeVars, pipe, blocked, batch,
                   has_pipe_event, time_node, stopping, clock, calls, astray>>

ListOnly == HeadOr(timeo_list)         \* mutant: the tree is not looked at
Earliest ==
    IF timeo_list # <<>> /\ tree_first # None
    THEN IF node[tree_first].timeout < node[Head(timeo_list)].timeout
         THEN tree_first ELSE Head(timeo_list)
    ELSE IF timeo_list # <<>> THEN Head(timeo_list) ELSE tree_first

SetTimer ==
    /\ pc = "set_timer" /\ Unlocked
    /\ timerfd' = IF Earliest = None THEN 0 ELSE node[Earliest].timeout
    /\ pc' = "wait"
    /\ UNCHANGED <<node, live, nodes, timeo_list, no_timeo_list, tree, tree_first,
                   tree_last, pipe, blocked, stopped, batch, has_pipe_event,
                   time_node, stopping, clock, calls, astray>>

(* epoll_wait returns with descriptors that are ready, with the pipe if it  *)
(* holds anything, and with the timer, which fires once; with EventsMax of  *)
(* them if there are more.                                                  *)
Wait ==
    LET due == timerfd # 0 /\ timerfd <= clock IN
    /\ pc = "wait"
    /\ \E ready \in SUBSET {nodes[f] : f \in {g \in Fds : nodes[g] # None}},
          piped \in {FALSE, pipe # <<>>}, fires \in {FALSE, due} :
          LET events == Cardinality(ready) + (IF piped THEN 1 ELSE 0) + (IF fires THEN 1 ELSE 0)
          IN
          /\ events \in 1 .. EventsMax
          /\ events < EventsMax => piped = (pipe # <<>>) /\ fires = due
          /\ batch' = ready
          /\ has_pipe_event' = piped
          /\ timerfd' = IF fires THEN 0 ELSE timerfd
    /\ time_node' = clock
    /\ pc' = "events"
    /\ UNCHANGED <<node, live, nodes, timeo_list, no_timeo_list, tree, tree_first,
                   tree_last, pipe, blocked, stopped, stopping, clock, calls, astray>>

NotLookedAt(n) == FALSE                \* mutant: removed is not looked at
Removed(n) == node[n].removed

(* __poller_remove_node and the callback *)
RemoveNode(n) ==
    /\ Unlocked
    /\ IF Removed(n)
       THEN UNCHANGED <<node, live, nodes, timeVars, astray>>
       ELSE /\ nodes' = [nodes EXCEPT ![node[n].fd] = None]
            /\ SetTime(Unlink(TimeNow, n))
            /\ Give({n}, live)
            /\ node' = Clear(node, {n})

WaitsOn == UNCHANGED <<node, live, nodes, timeVars, astray>>

(* __poller_handle_ssl_error: other events are waited for, unless the node  *)
(* was removed; epoll_ctl may fail.                                         *)
HandleSslError(n) ==
    /\ Unlocked
    /\ WaitsOn \/ (~Removed(n) /\ RemoveNode(n))

(* A handler's own work is local to the thread, up to where it takes the    *)
(* mutex.                                                                   *)
Handles(n) ==
    /\ pc = "events" /\ n \in batch
    /\ batch' = batch \ {n}
    /\ UNCHANGED <<pc, has_pipe_event, time_node, pipe, blocked, stopped,
                   stopping, clock, calls>>

(* No more to read for now; or the end, an error or a whole message that    *)
(* the node's user takes no more after.                                     *)
HandleRead(n) ==
    /\ Handles(n)
    /\ WaitsOn \/ HandleSslError(n) \/ RemoveNode(n)

(* All is written, or the write fails, or only some of it is written.       *)
HandleWrite(n) ==
    /\ Handles(n)
    /\ WaitsOn \/ HandleSslError(n) \/ RemoveNode(n)

(* Every accepted connection is a result of its own. *)
HandleListen(n) ==
    /\ Handles(n)
    /\ WaitsOn \/ RemoveNode(n)

HandleConnect(n) ==
    /\ Handles(n)
    /\ RemoveNode(n)

(* accept, connect and shutdown *)
HandleSsl(n) ==
    /\ Handles(n)
    /\ HandleSslError(n) \/ RemoveNode(n)

PipeFirst == TRUE                      \* mutant: the pipe before the events
EventsFirst == batch = {}

(* NULL in the pipe is the order to stop. *)
HandlePipe ==
    LET given == {n \in Nodes : Contains(pipe, n)} IN
    /\ pc = "events" /\ EventsFirst /\ has_pipe_event
    /\ pipe' = <<>>
    /\ Give(given, live)
    /\ node' = Clear(node, given)
    /\ pc' = IF Contains(pipe, None) THEN "exit" ELSE "events"
    /\ has_pipe_event' = FALSE
    /\ UNCHANGED <<nodes, timeVars, blocked, stopped, batch, time_node,
                   stopping, clock, calls>>

(* How many of the list's nodes are due, and of the tree's overdue: both    *)
(* are gone through up to the first that is not.                            *)
DueInList ==
    LET i == SelectInSeq(timeo_list, LAMBDA n : node[n].timeout > time_node)
    IN IF i = 0 THEN Len(timeo_list) ELSE i - 1
DueInTree ==
    LET i == SelectInSeq(tree, LAMBDA n : node[n].timeout >= time_node)
    IN IF i = 0 THEN Len(tree) ELSE i - 1

HandleTimeout ==
    LET given == {timeo_list[i] : i \in 1 .. DueInList} \cup {tree[i] : i \in 1 .. DueInTree}
        left == SubSeq(tree, DueInTree + 1, Len(tree))
    IN
    /\ pc = "events" /\ batch = {} /\ ~has_pipe_event /\ Unlocked
    /\ timeo_list' = SubSeq(timeo_list, DueInList + 1, Len(timeo_list))
    /\ tree' = left
    /\ tree_first' = IF DueInTree = 0 THEN tree_first ELSE HeadOr(left)
    /\ tree_last' = IF left = <<>> THEN None ELSE tree_last
    /\ nodes' = [f \in Fds |-> IF nodes[f] \in given THEN None ELSE nodes[f]]
    /\ Give(given, live)
    /\ node' = Clear(node, given)
    /\ pc' = "set_timer"
    /\ time_node' = 0
    /\ UNCHANGED <<no_timeo_list, timerfd, pipe, blocked, stopped, batch,
                   has_pipe_event, stopping, clock, calls>>

-----------------------------------------------------------------------------
(* poller_stop *)

StopWrite ==
    /\ stopping = "no" /\ pc # "none" /\ Len(pipe) < PipeMax
    /\ pipe' = Append(pipe, None)
    /\ stopping' = "join"
    /\ UNCHANGED <<node, live, nodes, timeVars, blocked, stopped, threadVars,
                   clock, calls, astray>>

StopJoin ==
    /\ stopping = "join" /\ pc = "exit"
    /\ stopped' = TRUE
    /\ stopping' = "sweep"
    /\ UNCHANGED <<node, live, nodes, timeVars, pipe, blocked, threadVars,
                   clock, calls, astray>>

Swept == {n \in Nodes : Contains(timeo_list, n) \/ Contains(tree, n)} \cup no_timeo_list

(* What is in the pipe, then all nodes. *)
StopSweep ==
    LET given == Swept \cup {n \in Nodes : Contains(pipe, n)} IN
    /\ stopping = "sweep" /\ Unlocked
    /\ pipe' = <<>>
    /\ timeo_list' = <<>> /\ no_timeo_list' = {} /\ tree' = <<>>
    /\ tree_first' = None /\ tree_last' = None
    /\ nodes' = [f \in Fds |-> IF nodes[f] \in given THEN None ELSE nodes[f]]
    /\ live' = live \ given
    /\ astray' = (astray \/ given # live)
    /\ node' = Clear(node, given)
    /\ stopping' = "done"
    /\ UNCHANGED <<timerfd, blocked, stopped, threadVars, clock, calls>>

-----------------------------------------------------------------------------

Tick ==
    /\ clock < MaxTime
    /\ clock' = clock + 1
    /\ UNCHANGED <<node, live, nodes, timeVars, pipe, blocked, stopped,
                   threadVars, stopping, calls, astray>>

Thread ==
    \/ SetTimer \/ Wait \/ HandlePipe \/ HandleTimeout
    \/ \E n \in Nodes : \/ HandleRead(n) \/ HandleWrite(n) \/ HandleListen(n)
                        \/ HandleConnect(n) \/ HandleSsl(n)

Caller ==
    \/ \E f \in Fds : PollerAdd(f) \/ PollerDel(f) \/ PollerMod(f) \/ PollerSetTimeout(f)
    \/ AddTimer \/ Unblock \/ PollerStart
    \/ StopWrite \/ StopJoin \/ StopSweep

Next == Thread \/ Caller \/ Tick

(* Time goes on, the thread runs, and so does a call that was begun.        *)
Fairness ==
    /\ WF_vars(Tick) /\ WF_vars(Thread) /\ WF_vars(Unblock)
    /\ WF_vars(StopJoin) /\ WF_vars(StopSweep)

Spec == Init /\ [][Next]_vars /\ Fairness

-----------------------------------------------------------------------------
(* Properties *)

(* How often a node is still to be given to the callback.                   *)
Times(n) ==
    Cardinality({i \in 1 .. Len(pipe) : pipe[i] = n})
    + (IF blocked = n THEN 1 ELSE 0)
    + Cardinality({i \in 1 .. Len(timeo_list) : timeo_list[i] = n})
    + Cardinality({i \in 1 .. Len(tree) : tree[i] = n})
    + (IF n \in no_timeo_list THEN 1 ELSE 0)

(* Every node that was added is on its way to the callback along exactly    *)
(* one path, whoever deletes or modifies it, times it out or handles its    *)
(* event at the same time, poller_stop leaves none behind, and none is left *)
(* in the pipe afterwards, which nobody reads any more (poller.c:202-222,   *)
(* 733-817, 1199-1240, 1397-1441).                                          *)
OneResultEach ==
    /\ ~astray
    /\ \A n \in Nodes : Times(n) = IF n \in live THEN 1 ELSE 0
    /\ \A f \in Fds : nodes[f] # None => node[nodes[f]].fd = f
    /\ stopping = "done" => pipe = <<>> /\ blocked = None

(* A batch of events holds pointers to nodes that other threads delete      *)
(* meanwhile; none is given away before the batch is through, which is why  *)
(* the pipe is read last (poller.c:864-908).                                *)
EventsAreLive == batch \subseteq live

(* While the thread sleeps, the timerfd fires no later than the first       *)
(* timeout of both structures, whoever has inserted or changed one, and     *)
(* the two cached ends of the tree are its ends (poller.c:150-200,          *)
(* 819-846, 1060-1087).                                                     *)
TimerNeverLate ==
    /\ pc = "wait" => \A n \in ToSet(timeo_list) \cup ToSet(tree) :
                          timerfd # 0 /\ timerfd <= node[n].timeout
    /\ tree_first = HeadOr(tree) /\ tree_last = LastOr(tree)

(* A writer that waits for room with the mutex, which the thread needs      *)
(* before it reads the pipe again.                                          *)
Jammed == blocked # None /\ Len(pipe) = PipeMax

Overdue == {n \in live : node[n].timeout # 0 /\ node[n].timeout < clock}

(* Nodes whose time is past, deleted and modified ones included, are all    *)
(* given to the callback in the end, unless the pipe jams or poller_stop    *)
(* takes over (poller.c:755-846; 1232).                                     *)
TimeoutsHappen == Overdue # {} ~> Overdue = {} \/ Jammed \/ stopped

=============================================================================
