# A TLA+ model of tinywf

tinywf is a simplified version of the Sogou C++ Workflow engine: an asynchronous
client and server library in which tasks, chained in series and parallel works,
perform network requests through poller threads and handler threads. This
directory models its concurrent core, checks it with TLC and proves part of it
with TLAPS. Source lines are quoted as `file:line` relative to `src/src/`.

## 1. Inventory

From the bottom up. "Hard" names what interleaving, failure or order makes
difficult; "correct" what a correct component guarantees.

| component | state | operations | hard | correct |
|---|---|---|---|---|
| message queue `common/msgqueue.c` | two linked lists, get/put heads, tail, count, mode; two mutexes, two condition variables | put, get, set_nonblock, set_block | get_head moves before put_mutex is taken; signal after unlock; producers only woken when a full list is handed over | one FIFO queue, bounded, no lost wakeup, nonblocking mode releases everybody |
| thread pool `common/thrdpool.c` | queue, thread count, last id, terminate | create, schedule, increase, destroy (also by a task) | chain of joins, the last thread to leave, destruction from inside | every task settled once, every thread joined once, pool freed last |
| poller `poller/*.c` | nodes per descriptor, timeout list and tree, pipe, timerfd | add, del, mod, set_timeout, add_timer, start, stop; read, write, connect, listen, SSL, event, notify handlers | results of deleted nodes go through the pipe; blocking writes under the mutex; timers in two structures | exactly one final result per node; no node freed while its thread may touch it; the timer never too late |
| client connections `net/Communicator.cc` | entry state, reference count, mutexes, idle list | request, four result handlers, callbacks from the poller, deinit | reuse of an idle connection racing its end; reply and end handled by two threads; stop | every session told its outcome once, its own reply, entries freed once |
| service connections `net/Communicator.cc` | alive list, per-target idle list, listen descriptor, three levels of reference counts | bind, accept, incoming request, reply, drain, unbind | keep-alive racing unbind and drain; the next request racing the end of the last reply | nothing used after it was freed, every request served once, unbound handled once after all connections |
| request scheduler `net/CommScheduler.*` | loads, waiters, group membership, two levels of mutex | acquire, release, add, remove | a waiter's mutex depends on group membership; who is to be woken | loads equal connections in use, limits kept, waiters served |
| group heap `net/CommScheduler.cc` | array, indices | insert, remove, heapify, adjust | sizes and ties | least loaded target at the root |
| series and parallel works `factory/Workflow.*`, `task/SubTask.*` | ring buffer, last task, flags; remaining sub-series | push, pop, cancel, dispatch, done | end of parallel branches on several threads; growth of the ring | a FIFO/LIFO sequence, one continuation |
| route manager `manager/RouteManager.*` | cache, circuit breaker per entry | get, notify_(un)available, check_breaker | unsynchronised reads of `nbreak`, stale breaker nodes; without callers in this version | not modelled |
| request and client tasks `net/CommRequest.*`, `factory/WFTaskFactory.h`, `factory/HttpTaskImpl.cc` | state, retry and redirect counters, response | dispatch, routing, handle, done, switch_callback | retries and redirections start each other anew; a connection that ends is an error or the end of the message | bounded attempts, one callback, no truncated success |
| server `server/WFServer.*` | connection count, unbind flag | new and deleted connections, shutdown, wait_finish | count at the limit | the limit kept, wait_finish returns when all is gone |
| HTTP parser and messages `protocol/*` | parser state between pieces | append | fragmentation, five ways to find the end of a message | pieces equal the whole, the end is the end |
| global state, utilities, containers, example | | | | not modelled |

How they interact: a user thread or a task calls the scheduler (`acquire`), then
`Communicator::request`, which takes an idle connection or adds a CONNECT node to
the poller. Poller threads run the read, write and connect handlers of the nodes
and put results into the message queue, whose consumers are tasks in the thread
pool (the handler threads). A handler decides the session's outcome, releases the
target to the scheduler and calls `session->handle`, which ends the task and
dispatches the next one of its series. `deinit` stops pollers, queue and pool in
that order.

## 2. Modules

| module | models | state and actions |
|---|---|---|
| `FifoQueue` | what msgqueue promises: one bounded queue | abstract specification |
| `MsgQueue` | `common/msgqueue.c` | the two chains, heads, count and mode; one action per critical section (`PutAppend`, `GetEmpty`, `SwapFilled`, ...); waiting threads are a value of `pc`, signals move them |
| `MsgQueueProofs` | theorems about `MsgQueue` | |
| `ThrdPool` | `common/thrdpool.c`, on a FIFO queue as `MsgQueue` provides | fields of the pool, a program counter per thread, `dpc` for `thrdpool_destroy`; tasks schedule, increase and destroy |
| `ThrdPoolProofs` | theorems about `ThrdPool` | |
| `ClientConn` | client side of `net/Communicator.cc`, with what `poller.c` does to one descriptor | entry fields, poller node, pipe and thread per connection, result queue, one program counter per handler and per requester, the stages of `deinit` |
| `ClientConnProofs` | theorems about `ClientConn` | |
| `CommSched` | `net/CommScheduler.*` without the shape of the heap | loads, membership, sums; `Acquire`, `Resume`, `Release`, `Add`, `Remove`; signals as choice among the waiters |
| `CommSchedProofs` | theorems about `CommSched` | |
| `SchedHeap` | the heap of a group | array and indices with `HeapAdjust` and `Heapify` loops as recursive operators; TLC only |
| `Workflow` | `task/SubTask.cc` and the works of `factory/Workflow.cc` | one thread of control per work, from its dispatch to the end of `subtask_done`, with that function's local variables; which objects are deleted |
| `WorkflowProofs` | theorems about `Workflow` | |
| `Deque` | what the queue of a series promises | abstract specification |
| `SeriesQueue` | the ring buffer and the last task of a `SeriesWork` | `queue`, `queue_size`, `front`, `back`, `last`; one action per operation, the expansion a part of the pushes |
| `SeriesQueueProofs` | theorems about `SeriesQueue` | |
| `Poller` | `poller/poller.c` | nodes as addresses that are allocated again, the timeout list and tree with its two cached ends, the timerfd, the pipe and who waits for room in it with the mutex; `poller_add`, `_del`, `_mod`, `_set_timeout`, `_add_timer` as actions of any thread, the poller's thread event by event, the stages of `poller_stop` |
| `PollerProofs` | theorems about `Poller` | |
| `ServerConn` | the service side of `net/Communicator.cc`, `server/WFServer.cc` | one record per connection (its `CommServiceTarget`, its `CommConnEntry`, its poller node and pipe), one for the service and server, a program counter per session (with its user's thread), per handler and for the main thread |
| `ServerConnProofs` | theorems about `ServerConn` | |
| `HttpParser` | `protocol/http_parser.c` for responses, `HttpResponse::append`, `HttpChunkCursor` | operators on the parser's record; no variables |
| `HttpTask` | `WFComplexClientTask` and `ComplexHttpTask`, on `HttpParser` | the fields of the task, its response, the server's answer and how much of it has arrived; `Dispatch`, `RouterCallback`, `Receive`, `Answered`, `ConnEnds`, `TimerCallback` |
| `...MC` | instances for TLC | |

Conventions. A critical section whose only shared reads are of one variable is
one action; a store made before the lock is taken, or a signal sent after it is
released, is an action of its own. pthread_cond_wait may return spuriously
everywhere. Definitions marked "mutant" are wrong variants of a neighbour, kept
to show that the properties notice the difference; no specification uses them.

Abstractions. `ClientConn` has one target; messages are "a part", "complete",
"bad"; descriptors are not reused; every connection has a poller thread of its
own (several connections per thread allow fewer orders); the result queue has no
limit; timeouts may fire at any time while a node is in the poller. `CommSched`
takes a group's target as any least loaded member, which is what `SchedHeap`
establishes for the root. `Poller` does not keep a node's operation: an event may
go to any handler, so that its results are those of every operation; the callback
is the end of a node. Its callers go on after `poller_stop` has returned, as handlers
do until `mpoller_destroy`; a deadline may be computed from a clock read before the
lock is taken, and so be past already; and a batch of `EventsMax` events may leave
out the pipe or the timer. `ServerConn` abstracts a connection's poller as `ClientConn`
does, and its user either replies once or deletes the task. A message in
`HttpParser` is a sequence of tokens (the bytes that structure it, and names,
values, numbers and pieces of data as one token each), cut anywhere between two
tokens; sizes and limits count tokens. `HttpTask` leaves what is behind a complete
response, which `poller.c` offers to the next message, to `ClientConn` ("bad"),
and takes the router task and the name service as external: they are declared
but not defined in this version; the callback may call `set_redirect` `AgainMax` times. `Workflow` destroys the least set of series that is
closed under what its works hold, where the code recurses (`SeriesBelow`). `ThrdPool` takes a schedule call as one step; its
users do not start a call from outside when destruction has begun.

Forms chosen for the proofs. No module with a theorem uses a recursive operator.
Sums are cardinalities: the load of a group is the number of its members' `Slots`
(`CommSched`), and references, results and ends under way are counted as sets of
places in a queue and of handlers (`EndsIn`, `SuccessesIn`, `Busy` in `ClientConn`,
`Results` in `ServerConn`). The poller's searches of its list and tree are `SelectInSeq` and
its removals `RemoveFirst`. A handler of `ClientConn` stands at a step named after
the operation of the result it handles ("connect", "read", "write").

## 3. Runs

| run | instance | shows |
|---|---|---|
| `msgqueue` | 2 producers, 2 consumers, maxlen 1, mode switches | bound of two times maxlen, no lost wakeup on either side, refinement of `FifoQueue`, every message taken, nonblocking mode releases all |
| `thrdpool` | 2 threads and one to be added, 4 tasks | threads joined once, tasks settled once, pool freed last, destruction completes |
| `client_conn` | 2 requests, 2 connections, 2 handlers, deinit at any time | references count the results to come; no use after free; the right reply; an idle connection that ends is listed; `SessionsSettled`: one outcome and one release per session, none lost, stop settles all |
| `client_stop` | 2 requests, 1 connection, 1 handler, fair | deinit terminates; the end never overtakes the reply with a single handler |
| `client_timeout` | 1 request | expected violation: `mpoller_set_timeout` can fail (finding, section 6) |
| `commsched` | 4 requests, 2 targets (one with 2 slots), group, fair | loads, sums and limits; the mutex of waiters; waiters without a time limit are served unless a target leaves the group under a waiter of the group (history variable `calm`) |
| `sched_heap` | 6 targets, limits 1 and 2 | indices and least load at the root, preference for an idle connection |
| `workflow` | 7 tasks, 3 parallel works (one inside a branch of another, one empty), 5 series; callbacks cancel or push | one thread goes on after the last branch; nobody uses a deleted object; cancellation destroys what is left; everything ends with one callback |
| `series_queue` | a ring of 2 that doubles twice, 2 works | refinement of `Deque` |
| `poller` | 1 descriptor and timers, 3 node addresses, a pipe for 2, batches of 2 events, 5 calls, 3 instants, fair | every node given to the callback once, along one path, and none left behind by `poller_stop`; no event of a batch has lost its node; the timer is never late; timeouts happen |
| `service` | 2 connections (2 requests and none), room for 1, accepts that fail, 2 handlers, shutdown at any time | the three reference counts, no use after free, the keep-alive list, the limit, `ServedOnce` (the next request is served, a session ended once), nothing left over; no deadlock, hence wait_finish returns |
| `http` | 3 methods, 5 kinds of URIs, 17 answers cut anywhere, 1 retry, 1 redirection by the server and 1 by the callback, fair | pieces equal the whole; a success is a whole response and its data; one callback, and one more after each redirection the callback asks for |

Why the bounds are enough. The queue needs two messages of one producer to see a
reordering, two threads of a kind for a wrong choice of whom to wake and maxlen 1
for the full list. The pool needs one thread that destroys, one that is in a
task and one that is added. A connection's hard cases need two sessions
(reuse), two handlers (reply and end at once) and two connections (reuse fails
and a new one is made). The heap needs six targets for a last element less
loaded than the parent of the removed one. The nested parallel work makes a
branch end through another parallel work, the empty one ends inside its own
dispatch. A ring of two, doubled twice, is pushed full from both ends at every
position. Two targets, one of them with two slots, and four requests put a
waiter behind each other, a waiter of a target beside one of the group, and a
free slot beside both. In the poller three addresses give one node in the list,
one in the tree and one that is deleted, freed and allocated again, and the pipe
for two pointers fills up; two events fill a batch with the pipe and the timer both
ready, so that one is left for the next wait. In the service a second request of one connection
meets the end of the first reply, and the second connection the limit and the
drain. A redirection with a retry before and after it takes every path of
`done`, and one redirection by the callback starts all of it anew; the answers have each way to end a message, a folded header, values
that are too long or not allowed, and one beyond the size limit (27 tokens).
Deadlock is checked in every run but `thrdpool`, whose destroyed pool,
or pool without work, rightly stops, `poller`, where the clock and the calls end
and which can jam (section 6), `workflow`, where all works end, and
`series_queue`, where a pop finds nothing; where the other systems end for good
an explicit step lets them.

Fairness. Threads that can run do run (weak fairness per thread), which the
operating system provides. Strong fairness is used for two steps of the poller's
thread that can be disabled by its other steps: reading on when the peer pauses,
and reading the stop message from the pipe, which epoll reports in every round.
Nobody is obliged to start a request, put a message, destroy the pool or switch a mode. For
`CommSched`, every acquired connection is released: each session ends, which is
what `ClientConn` shows. In `Poller`, time goes on, the thread runs, and a writer
that finds room in the pipe writes. In `HttpTask`, the router, the timer and the
handler threads go on, and a server that does not answer is given up
(`WF_vars(ConnEnds)`: the receive timeout or the end of the connection). `ServerConn`
has no fairness: instead of a liveness property, the absence of deadlock and
`NothingLeaks` say that whatever state the server stops in is the one in which
wait_finish has returned. In `ThrdPool`, tasks return. In `Workflow`, a task that was dispatched ends, again by
`ClientConn`, and the thread that ends it runs on.

## 4. Proofs

| module | proved, for every value of the constants |
|---|---|
| `MsgQueueProofs` | `TypeCorrect`, `Invariance`, `GetWakeups`, `PutWakeups`, `Bounded`, `Refinement` of `FifoQueue` |
| `ThrdPoolProofs` | `FreedLast`, `JoinedOnce`, `SettledOnce` |
| `PollerProofs` | `BatchIsLive`, `ResultOnce`, `TimerInTime` |
| `ClientConnProofs` | `RefsCounted`, `FreedIsUnused`, `ReplyFinds`, `IdleListed`, `RequestsSettled`, `ReplyFirst` |
| `ServerConnProofs` | `RefsAreCounted`, `FreedIsUnreached`, `ListIsRight`, `ConnsWithinLimit`, `SessionsEndOnce`, `AllLetGo` |
| `CommSchedProofs` | `Invariance`, `MutexRight`, `LoadsRight` |
| `WorkflowProofs` | `JoinAlone`, `UsedIsAlive`, `CanceledIsDestroyed` |
| `SeriesQueueProofs` | `RingInvariant`, `Refinement` of `Deque` |

Each theorem has the form `Spec => []P` (or `Spec => Abstract!Spec`), where P is
the property that a run checks under the same name. They follow from an inductive
invariant `IInv` of the component: `Init => IInv`, one lemma per action for
`IInv /\ Next => IInv'`, and `IInv => P`. TLC checked each `IInv` on the
component's run (that of the pool with chains of bounded length); what it refuted on the way is in the
strengthenings described here.

**Assumptions** are those the modules state, and no others: sizes are naturals,
names are distinct, the sets that something counts are finite (requests of
`CommSched`; handlers of `ClientConn`; connections and handlers of `ServerConn`),
there is a handler thread. `PoolAssumption` wants a pool created with a thread,
which the Communicator does (section 6). `ShapeAssumption` says that a work is in
one series at one place and a series a branch of one parallel work at one place:
`push_back` and `add_series` take ownership, and a task given away twice would be
deleted twice. It allows any nesting, infinite ones too. One theorem has a
hypothesis of its own: `ReplyFirst` assumes a single handler thread, because with
two the end of a connection may overtake the reply, as the code expects
(`state` "closing" beside a complete reply).

**Message queue.** The invariant joins the type invariant and both wakeup
properties with `PcOK` (which threads may be where), `HeadsOK` (get and put heads
differ except inside an exchange, when the spare list is empty), `CountOK`
(msg_cnt is the length of the producers' list) and `LengthOK` (each list within
the limit while the queue blocks). Without `HeadsOK` the exchange could be
entered with messages left in the consumers' list, and neither the refinement nor
the bound would be inductive. The refinement maps the queue to the concatenation
of both lists; the exchange is then a stutter.

**Thread pool.** `CountOK` ties `nthreads` to the set of threads inside the
routine, plus one for a thread that runs before it is counted. `ChainOK` says that
some sequence lists the threads in the order they left, that each joins the one
before it and `tid` is its last: `joined` is then determined by who has ended.
`TasksOK` gives every task its place, so that each was run or handed to pending
once, or is still in the queue.

**Poller.** `PlacesOK` and `TimeOK` put every live node into exactly one of the
timeout list, the tree, the nodes without timeout, the pipe and the hands of a
caller blocked on the pipe, list and tree in order and the cached ends true.
`EventsAreLive` needs that the pipe's nodes stay allocated until the thread, which
also runs the batch, reads them (`DescriptorsOK`); `TimerNeverLate` holds while the
thread sleeps and is re-established on the way there.

**Client connections.** What stands for an entry are its *tokens*: the end of its
time in the poller (`Ending`, one per operation), a complete reply (`Complete`),
and the references handlers are about to give back (`Held`). `RefOK` says that
`ref` is their number (one less in "success", where the reply carries no
reference of its own), `StateOK` which tokens a state admits, `HandOK` what the
poller's thread holds between two looks at its lock, `UseOK` and `LockOK` that the
owner of an entry's mutex relies on it rightly, `ListOK` that the idle list is the
idle entries less those a requester has just taken, `OwnerOK` and `SessionOK` that
an undecided session and an entry with something left to decide (`Awaiting`) point
at each other, and `StopOK` what `deinit` may have left over. None of them is
inductive alone: that a freed entry is out of use is `RefOK` at zero, which needs
`StateOK` to know which of two racing handlers gives up the last reference; the
outcome of a session needs `OwnerOK`, which needs `ListOK` when an idle entry is
taken over by another session. The steps are proved by kind: one lemma for the
steps of the poller at one entry (`EntryStep`), of a handler (`HandlerStep`), of a
requester (`RequestLemma`), and for steps that move no token (`QuietStep`).
`CountsAgree` shows that the tokens are what the property `RefCountsResults`
counts. `ReplyFirst` adds `OrderOK`, the order of a connection's results in the
queue.

**Service connections.** The same with three levels of counts. Tokens of an entry
are again `Ending`, `Complete` and `Held` (now with users who reply); those of its
target the entry, the sessions, and an arrival on its way (`Arriving`); those of
the service its targets and bind's reference, wherever it is (`Binding`). To
`RefOK`, `TrefOK` and `BindOK`, which count them, `CountOK` adds the server's
counter against its limit, `SessionOK` and `FinishOK` who will end a session and
that it is one thread, `GotOK` that the user's reply and the next request
alternate, `DrainOK` and `ListOK` that the keep-alive list is complete except for
the entry a draining thread has taken off it. `AllLetGo` then reasons backwards:
where no step is possible there is no token, so all counts are zero. It needs no
fairness, since it is about the states in which the server has stopped.

**Scheduler.** `Invariance` says that a waiter wakes under the mutex it left (add
and remove refuse targets with waiters) and that cur_load counts the holders;
`NobodyCounted` connects the counter `wait_cnt` with the waiters themselves.
`LoadsRight` rests on it: the sums of a group are proved as the number of its
members' connections (`Slots`, pairs of a target and a number), so that no
induction over finite sums is needed. Two targets never share a slot, and an
acquire through the group finds a free one because the sum is below the limit.

**Works.** `UniqueOK` says that a series is at one of its works, or between two,
only once; `JoinOK` that `nleft` is the number of branches that have not come to
their end, so that the thread that takes it to zero is alone; `SeriesOK` that
what waits in a queue is untouched and in it once; `DestroyedOK` that what a
cancellation destroyed had not begun and cannot be reached. Destruction is
recursive in the code; the model takes what is below a series as the least set
closed under contents and branches, and the proof uses that the series nothing
has touched are closed too.

**Ring of a series.** The ring buffer refines `Deque`, for any works, any size of
the first ring and any number of expansions. The refinement reads the queue off
the ring from `front` on; the lemma `StoreItems` covers the end of both pushes,
where two equal ends mean a full ring that is copied, while everywhere else they
mean an empty one.

**Checked by TLC only.** All liveness (`EveryMessageTaken`, `NonblockReleasesAll`,
`DestroyCompletes`, `DeinitTerminates`, `WaitersServed`, `TimeoutsHappen`,
`EverythingEnds`, `CalledBackOnce`): fairness and ENABLED are beyond the prover.
`HeapIsRight` and `IdleConnectionPreferred`: the heap's loops are recursive
operators, for which the prover has no arithmetic. `PiecesEqualWhole` and
`SuccessIsWhole`: what the parser computes for a message is an induction over the
message.

## 5. Not modelled

SSL, event and notify nodes of the poller, and the choice of a poller by
descriptor (`mpoller.c`). Of the service: `stop_flag` (a server is stopped before
`deinit`), datagrams, push, and `new_session` failing, which `WFServer`'s does not.
Of HTTP: requests as a server parses them, the headers `message_out` adds, the
encoding of messages, `Keep-Alive` parameters. The route manager: its circuit
breaker has no caller in this version. Of the works: `add_series` and
`expand_buf`, which run before a parallel work starts, and the dismissal of a
series that is never started. Left out for good: text processing
(`URIParser`, `StringUtil`, most of `HttpUtil`), containers, name resolution and
configuration, OpenSSL, blocking sends, the arithmetic of timeouts, allocation
failure inside a started operation (but for `accept_conn`, whose failures
`RefuseConn` covers).

## 6. What the work brought to light

* **Finding** `Communicator.cc:1017` says "This set_timeout() never fails, which
  is very important." It can: `handle_connect_result` adds the read node and, if
  `stop_flag` is set, deletes it again (904-907) while the poller's thread is in
  `append_reply`. The DELETED result still ends the session; `client_timeout`
  shows the failing call and `client_conn` that it does no harm.
* Lost wakeup: `release` wakes a waiter of the target rather than the group
  while one is counted (`CommScheduler.cc:140-147`), `add` wakes one waiter
  only (341) and `remove` (365) does not look at the group's waiters. If the
  circuit breaker removes a busy target while a request waits for the group, the
  request may sleep beside a free slot with nobody left to wake it. (The calls of the
  breaker, `RouteManager::notify_unavailable` and `notify_available`, have no caller in this
  version, so only a user of the public API meets this.) No document
  promises otherwise, so it is no finding; `commsched` shows that
  without such removals the waiters are served. The default wait_timeout of 0
  hides it.
* `Communicator.cc:629-630` unlocks the target before the entry; the handler of
  the reply may free the entry in between. `NoUseAfterFree` leaves out exactly
  this access.
* `request_new_conn` (1370) does not look at `stop_flag`; a request that races
  `deinit` may leave its CONNECT node in a poller nobody runs any more.
  `StopSettlesAll`, a part of `SessionsSettled`, names this exception.
* `thrdpool.c:47` in a pool created with no threads: the first added thread may
  finish a task that was scheduled before it is counted, and free the pool. The
  Communicator schedules after the increase only. `PoolAssumption` excludes it.
* `poller_del` and `poller_mod` write to the pipe under the poller's mutex
  (`poller.c:1232`). If the pipe is full, the thread that would empty it may be
  waiting for the mutex, or be the writer itself: a deadlock, `Jammed` in
  `Poller`. `poller_stop` (1437) calls the callback under the mutex, which may wait
  for the bounded result queue.
* `Communicator.cc:907` deletes by descriptor number after another handler may
  have closed it; a connection that got the same number would be deleted.
* `Communicator.cc:1492` unlocks the mutex of a target that the handler of an
  asynchronous reply may already have freed; `handle_stop` (862) may be called on a
  service whose last reference was given up. `NoUseAfterFree` of `ServerConn` names
  both as not covered. `create_request` (1039) would take an entry off its list
  twice if `new_session` failed.
* After an interim response (code 100), `HttpResponse::append` initialises the
  parser again (`HttpMessage.cc:331`), which loses `parse_zero_body`: the response to
  a HEAD request with a Content-Length then never completes. `SuccessIsWhole` names
  this exception.
* `HttpChunkCursor::next` (`HttpUtil.cc:435`) relies on a complete body. `end_parsing`
  marks a response that was cut off as complete, and the cursor may then step
  beyond it. `SuccessIsWhole` uses the cursor on successful responses.
* A folded header value keeps the blank of the fold: `Connection:` CRLF ` close`
  is not recognised as `close` (`http_parser.c:387-391`).
* If the URI of a redirection fails with a system error (out of memory,
  `WFTaskFactory.h:244-248`), `done` takes it for a failed attempt and retries with
  the URI that was not parsed.

## 7. Plan

1. done: `MsgQueue`, `ClientConn`, `CommSched`, `SchedHeap`, `ThrdPool`, `Workflow`,
   `SeriesQueue`, `Poller`, `ServerConn`, `HttpParser`, `HttpTask`; proofs for
   `MsgQueue`, `CommSched`, `SeriesQueue`, `ThrdPool`, `Workflow`, `Poller`,
   `ServerConn` and `ClientConn`: every safety property that a passing run checks in these
   modules is a theorem.
2. left, in this order: the bound on attempts behind `CalledBackOnce` as an
   invariant of `HttpTask`; an abstract specification that `ClientConn` and
   `ServerConn` implement (a request is answered or fails, once); the circuit
   breaker of the route manager, once something calls it.
