----------------------------- MODULE ClientConn -----------------------------
(***************************************************************************)
(* net/Communicator.cc, the client side: how a request becomes a           *)
(* connection, how the connection is kept alive and used again, and how it *)
(* is released exactly once, while poller threads, handler threads, the    *)
(* threads that call Communicator::request and Communicator::deinit all    *)
(* work on the same CommConnEntry.                                         *)
(*                                                                         *)
(* One target.  A connection stands for its entry, its file descriptor and *)
(* its place in the poller; descriptors are not used twice.  The poller is *)
(* modelled by what poller.c does to one descriptor: a node may be armed   *)
(* for it, at most one result that ends the node is produced, a deleted or *)
(* modified node's result goes through the pipe that its thread reads only *)
(* between events.  Every connection is served by a poller thread of its   *)
(* own, which allows every order that fewer threads allow.                 *)
(*                                                                         *)
(* target->mutex is held from one action to the next by nobody: whoever    *)
(* waits for an entry's mutex while holding it waits for a thread that     *)
(* does not want target->mutex, so both are taken in one action.           *)
(***************************************************************************)
EXTENDS Naturals, Sequences, FiniteSets, SequencesExt

CONSTANTS Sessions,   \* requests, each made once, each by a thread of its own
          Conns,      \* bound: connections that are ever made
          Handlers,   \* the handler threads
          None

ASSUME ClientAssumption ==
    /\ IsFiniteSet(Handlers) /\ Handlers # {}
    /\ Sessions \cap Handlers = {}
    /\ None \notin Sessions \cup Handlers \cup Conns

VARIABLES
    \* CommConnEntry
    state,       \* entry->state
    ref,         \* entry->ref
    esession,    \* entry->session
    emutex,      \* who holds entry->mutex
    memory,      \* "unborn", "live" or "freed"
    idle_list,   \* target->idle_list
    \* the poller, per connection
    node,        \* the operation of nodes[fd]
    hand,        \* what its thread is doing with a read node
    removed,     \* the node in the thread's hands is no longer in nodes[fd]
    partial,     \* the read node has an unfinished message
    pipe,        \* results on their way through the pipe
    stopped,     \* "running", "stopped" (its thread is joined) or "swept"
    \* the result queue and the handler threads
    msgqueue,
    hpc, hres, hsession, houtcome,
    \* the requesting threads, one per session
    rpc, rconn,
    keep_alive,  \* session->timeout # 0 as append_reply leaves it
    released,    \* calls of target->release for the session
    handled,     \* calls of session->handle
    \* Communicator::deinit
    stop_flag, nonblock

entryVars == <<state, ref, esession, emutex, memory, idle_list>>
pollerVars == <<node, hand, removed, partial, pipe, stopped>>
handlerVars == <<hpc, hres, hsession, houtcome>>
requestVars == <<rpc, rconn>>
sessionVars == <<keep_alive, released, handled>>
deinitVars == <<stop_flag, nonblock>>
vars == <<entryVars, pollerVars, msgqueue, handlerVars, requestVars,
          sessionVars, deinitVars>>

NoResult == [op |-> "none", st |-> "none", conn |-> None, for |-> None]
Result(op, st, e) == [op |-> op, st |-> st, conn |-> e, for |-> None]

Init ==
    /\ state = [e \in Conns |-> "none"]
    /\ ref = [e \in Conns |-> 0]
    /\ esession = [e \in Conns |-> None]
    /\ emutex = [e \in Conns |-> None]
    /\ memory = [e \in Conns |-> "unborn"]
    /\ idle_list = <<>>
    /\ node = [e \in Conns |-> "none"]
    /\ hand = [e \in Conns |-> "none"]
    /\ removed = [e \in Conns |-> FALSE]
    /\ partial = [e \in Conns |-> FALSE]
    /\ pipe = [e \in Conns |-> <<>>]
    /\ stopped = [e \in Conns |-> "running"]
    /\ msgqueue = <<>>
    /\ hpc = [h \in Handlers |-> "get"]
    /\ hres = [h \in Handlers |-> NoResult]
    /\ hsession = [h \in Handlers |-> None]
    /\ houtcome = [h \in Handlers |-> "none"]
    /\ rpc = [s \in Sessions |-> "none"]
    /\ rconn = [s \in Sessions |-> None]
    /\ keep_alive = [s \in Sessions |-> FALSE]
    /\ released = [s \in Sessions |-> 0]
    /\ handled = [s \in Sessions |-> 0]
    /\ stop_flag = FALSE
    /\ nonblock = FALSE

-----------------------------------------------------------------------------
(* What the poller offers *)

(* poller_add: fails if a node is armed for the descriptor. *)
PollerAdd(e, op) ==
    /\ node[e] = "none"
    /\ node' = [node EXCEPT ![e] = op]
    /\ partial' = [partial EXCEPT ![e] = FALSE]

RetireAtOnce(e, st, q) ==                                   \* mutant
    msgqueue' = Append(q, Result(node[e], st, e)) /\ UNCHANGED <<pipe, removed>>

(* poller_del and poller_mod take the node out of nodes[fd]; its last      *)
(* result waits in the pipe for the poller's thread, or is delivered by    *)
(* the caller once the poller is stopped.                                  *)
Retire(e, st, q) ==
    LET res == Result(node[e], st, e) IN
    IF stopped[e] # "running"
    THEN msgqueue' = Append(q, res) /\ UNCHANGED <<pipe, removed>>
    ELSE /\ msgqueue' = q
         /\ pipe' = [pipe EXCEPT ![e] = Append(@, res)]
         /\ removed' = [removed EXCEPT ![e] = hand[e] # "none"]

PollerDel(e) ==
    IF node[e] = "none"
    THEN UNCHANGED <<node, pipe, removed, msgqueue>>
    ELSE node' = [node EXCEPT ![e] = "none"] /\ Retire(e, "DELETED", msgqueue)

RemovedByOther(e) == removed[e]

(* __poller_remove_node and the result that follows it: nothing more comes *)
(* of a node that was removed by another thread in the meantime.           *)
EndNode(e, st) ==
    IF RemovedByOther(e)
    THEN UNCHANGED <<node, msgqueue>>
    ELSE /\ node' = [node EXCEPT ![e] = "none"]
         /\ msgqueue' = Append(msgqueue, Result(node[e], st, e))

-----------------------------------------------------------------------------
(* The poller's thread *)

(* A connection or a write that has ended, in success, with an error or    *)
(* with a timeout.                                                         *)
ConnectOrWriteEvent(e) ==
    /\ node[e] \in {"connect", "write"}
    /\ hand[e] = "none" /\ stopped[e] = "running"
    /\ \E st \in {"FINISHED", "ERROR"} : EndNode(e, st)
    /\ UNCHANGED <<entryVars, hand, removed, partial, pipe, stopped, handlerVars,
                   requestVars, sessionVars, deinitVars>>

(* epoll_wait returned an event for a read node. *)
ReadEvent(e) ==
    /\ node[e] = "read"
    /\ hand[e] = "none" /\ stopped[e] = "running"
    /\ hand' = [hand EXCEPT ![e] = "read"]
    /\ UNCHANGED <<entryVars, node, removed, partial, pipe, stopped, msgqueue,
                   handlerVars, requestVars, sessionVars, deinitVars>>

(* Nothing more to read for now. *)
ReadAgain(e) ==
    /\ hand[e] = "read"
    /\ hand' = [hand EXCEPT ![e] = "none"]
    /\ removed' = [removed EXCEPT ![e] = FALSE]
    /\ UNCHANGED <<entryVars, node, partial, pipe, stopped, msgqueue, handlerVars,
                   requestVars, sessionVars, deinitVars>>

(* End of file (FINISHED), an error on the descriptor or a timeout, which  *)
(* is found between events just as well.                                   *)
ReadEnds(e) ==
    /\ hand[e] = "read"
    /\ \E st \in {"FINISHED", "ERROR"} : EndNode(e, st)
    /\ hand' = [hand EXCEPT ![e] = "none"]
    /\ removed' = [removed EXCEPT ![e] = FALSE]
    /\ UNCHANGED <<entryVars, partial, pipe, stopped, handlerVars, requestVars,
                   sessionVars, deinitVars>>

ReplyToAnyone(e) == state[e] # "connecting"                 \* mutant
ReplyAwaited(e) == state[e] = "receiving"

(* What Communicator::create_reply decides, once it does not have to wait: *)
(* bytes are only welcome while a reply is awaited.                        *)
CreateReply(e) ==
    IF ReplyAwaited(e)
    THEN /\ hand' = [hand EXCEPT ![e] = "append"]
         /\ UNCHANGED <<node, removed, msgqueue>>
    ELSE /\ EndNode(e, "ERROR")
         /\ hand' = [hand EXCEPT ![e] = "none"]
         /\ removed' = [removed EXCEPT ![e] = FALSE]

(* Bytes arrive; the first ones of a message go through create_reply, and  *)
(* that waits for a requester that has just taken the connection from the  *)
(* idle list.                                                              *)
ReadBytes(e) ==
    /\ hand[e] = "read"
    /\ IF partial[e]
       THEN /\ hand' = [hand EXCEPT ![e] = "append"]
            /\ UNCHANGED <<node, removed, msgqueue>>
       ELSE IF state[e] = "idle"
       THEN /\ hand' = [hand EXCEPT ![e] = "create"]
            /\ UNCHANGED <<node, removed, msgqueue>>
       ELSE CreateReply(e)
    /\ UNCHANGED <<entryVars, partial, pipe, stopped, handlerVars, requestVars,
                   sessionVars, deinitVars>>

CreateReplyWaited(e) ==
    /\ hand[e] = "create"
    /\ emutex[e] = None
    /\ CreateReply(e)
    /\ UNCHANGED <<entryVars, partial, pipe, stopped, handlerVars, requestVars,
                   sessionVars, deinitVars>>

(* append_reply on a message that is not yet complete. *)
AppendPart(e) ==
    /\ hand[e] = "append"
    /\ partial' = [partial EXCEPT ![e] = TRUE]
    /\ hand' = [hand EXCEPT ![e] = "read"]
    /\ UNCHANGED <<entryVars, node, removed, pipe, stopped, msgqueue, handlerVars,
                   requestVars, sessionVars, deinitVars>>

AppendError(e) ==
    /\ hand[e] = "append"
    /\ EndNode(e, "ERROR")
    /\ hand' = [hand EXCEPT ![e] = "none"]
    /\ removed' = [removed EXCEPT ![e] = FALSE]
    /\ UNCHANGED <<entryVars, partial, pipe, stopped, handlerVars, requestVars,
                   sessionVars, deinitVars>>

(* append_reply on a complete message: the connection is deleted from the  *)
(* poller at once if it is not to be kept alive.  The SUCCESS result is    *)
(* sent only afterwards, in PollerSuccess.                                 *)
AppendComplete(e) ==
    /\ hand[e] = "append"
    /\ state' = [state EXCEPT ![e] = "success"]
    /\ hand' = [hand EXCEPT ![e] = "success"]
    /\ \E keep \in BOOLEAN :
          /\ keep_alive' = [keep_alive EXCEPT ![esession[e]] = keep]
          /\ IF keep THEN UNCHANGED <<node, pipe, removed, msgqueue>>
                     ELSE PollerDel(e)
    /\ UNCHANGED <<ref, esession, emutex, memory, idle_list, partial, stopped,
                   handlerVars, requestVars, released, handled, deinitVars>>

(* __poller_append_message after append returned more than 0.  "for" is    *)
(* the session whose reply this is, for the properties only.               *)
PollerSuccess(e) ==
    /\ hand[e] = "success"
    /\ msgqueue' = Append(msgqueue, [op |-> "read", st |-> "SUCCESS", conn |-> e,
                                     for |-> esession[e]])
    /\ partial' = [partial EXCEPT ![e] = FALSE]
    /\ hand' = [hand EXCEPT ![e] = "read"]
    /\ UNCHANGED <<entryVars, node, removed, pipe, stopped, handlerVars,
                   requestVars, sessionVars, deinitVars>>

(* __poller_handle_pipe, after the events. *)
HandlePipe(e) ==
    /\ hand[e] = "none" /\ stopped[e] = "running"
    /\ pipe[e] # <<>>
    /\ msgqueue' = Append(msgqueue, Head(pipe[e]))
    /\ pipe' = [pipe EXCEPT ![e] = Tail(@)]
    /\ UNCHANGED <<entryVars, node, hand, removed, partial, stopped, handlerVars,
                   requestVars, sessionVars, deinitVars>>

Poller(e) ==
    \/ ConnectOrWriteEvent(e) \/ ReadEvent(e) \/ ReadAgain(e) \/ ReadEnds(e)
    \/ ReadBytes(e) \/ CreateReplyWaited(e)
    \/ AppendPart(e) \/ AppendError(e) \/ AppendComplete(e) \/ PollerSuccess(e)
    \/ HandlePipe(e)

-----------------------------------------------------------------------------
(* The handler threads *)

Goto(h, p) == hpc' = [hpc EXCEPT ![h] = p]

(* msgqueue_get in handler_thread_routine. *)
TakeResult(h) ==
    /\ hpc[h] = "get"
    /\ msgqueue # <<>>
    /\ hres' = [hres EXCEPT ![h] = Head(msgqueue)]
    /\ msgqueue' = Tail(msgqueue)
    /\ Goto(h, Head(msgqueue).op)
    /\ UNCHANGED <<entryVars, pollerVars, hsession, houtcome, requestVars,
                   sessionVars, deinitVars>>

HandlerExit(h) ==
    /\ hpc[h] = "get"
    /\ msgqueue = <<>> /\ nonblock
    /\ Goto(h, "exit")
    /\ UNCHANGED <<entryVars, pollerVars, msgqueue, hres, hsession, houtcome,
                   requestVars, sessionVars, deinitVars>>

(* The session is about to be told the outcome. *)
Decide(h, s, outcome) ==
    /\ hsession' = [hsession EXCEPT ![h] = s]
    /\ houtcome' = [houtcome EXCEPT ![h] = outcome]
    /\ Goto(h, IF s = None THEN "unref" ELSE "finish")

Outcome(st) == IF st \in {"FINISHED", "ERROR"} THEN "error" ELSE "stopped"

(* handle_connect_result, FINISHED: the request is sent at once, or what   *)
(* the socket did not take is left to the poller; the stop flag is looked  *)
(* at after the node was added.                                            *)
Connected(h) ==
    LET e == hres[h].conn IN
    /\ hpc[h] = "connect" /\ hres[h].st = "FINISHED"
    /\ \/ /\ PollerAdd(e, "read")
          /\ state' = [state EXCEPT ![e] = "receiving"]
          /\ Goto(h, "stopcheck")
          /\ UNCHANGED <<hsession, houtcome>>
       \/ /\ PollerAdd(e, "write")
          /\ Goto(h, "stopcheck")
          /\ UNCHANGED <<state, hsession, houtcome>>
       \/ /\ Decide(h, esession[e], "error")
          /\ UNCHANGED <<state, node, partial>>
    /\ UNCHANGED <<ref, esession, emutex, memory, idle_list, hand, removed, pipe,
                   stopped, msgqueue, hres, requestVars, sessionVars, deinitVars>>

ConnectFailed(h) ==
    /\ hpc[h] = "connect" /\ hres[h].st # "FINISHED"
    /\ Decide(h, esession[hres[h].conn], Outcome(hres[h].st))
    /\ UNCHANGED <<entryVars, pollerVars, msgqueue, hres, requestVars, sessionVars,
                   deinitVars>>

(* handle_request_result, FINISHED: all of the request is written, so the  *)
(* reply is awaited.                                                       *)
RequestSent(h) ==
    LET e == hres[h].conn IN
    /\ hpc[h] = "write" /\ hres[h].st = "FINISHED"
    /\ state' = [state EXCEPT ![e] = "receiving"]
    /\ \/ /\ PollerAdd(e, "read")
          /\ Goto(h, "stopcheck")
          /\ UNCHANGED <<hsession, houtcome>>
       \/ /\ Decide(h, esession[e], "error")
          /\ UNCHANGED <<node, partial>>
    /\ UNCHANGED <<ref, esession, emutex, memory, idle_list, hand, removed, pipe,
                   stopped, msgqueue, hres, requestVars, sessionVars, deinitVars>>

RequestFailed(h) ==
    /\ hpc[h] = "write" /\ hres[h].st # "FINISHED"
    /\ Decide(h, esession[hres[h].conn], Outcome(hres[h].st))
    /\ UNCHANGED <<entryVars, pollerVars, msgqueue, hres, requestVars, sessionVars,
                   deinitVars>>

StopSeen == stop_flag

StopCheck(h) ==
    /\ hpc[h] = "stopcheck"
    /\ IF StopSeen THEN PollerDel(hres[h].conn)
       ELSE UNCHANGED <<node, pipe, removed, msgqueue>>
    /\ Goto(h, "get")
    /\ UNCHANGED <<entryVars, hand, partial, stopped, hres, hsession, houtcome,
                   requestVars, sessionVars, deinitVars>>

(* handle_read_result ignores MODIFIED: the write node has taken over. *)
ReadModified(h) ==
    /\ hpc[h] = "read" /\ hres[h].st = "MODIFIED"
    /\ Goto(h, "get")
    /\ UNCHANGED <<entryVars, pollerVars, msgqueue, hres, hsession, houtcome,
                   requestVars, sessionVars, deinitVars>>

EndOverlooked(e) == state[e] \in {"success", "closing"}      \* mutant
EndNotSeen(e) == state[e] = "success"

(* handle_incoming_reply, SUCCESS: the connection becomes idle with a      *)
(* reference of its own, unless its end was noticed first.                 *)
ReplyComplete(h) ==
    LET e == hres[h].conn
        s == esession[e]
    IN
    /\ hpc[h] = "read" /\ hres[h].st = "SUCCESS"
    /\ IF EndNotSeen(e)
       THEN /\ ref' = [ref EXCEPT ![e] = @ + 1]
            /\ state' = [state EXCEPT ![e] = IF keep_alive[s] THEN "idle" ELSE "closing"]
            /\ idle_list' = IF keep_alive[s] THEN <<e>> \o idle_list ELSE idle_list
       ELSE UNCHANGED <<ref, state, idle_list>>
    /\ Decide(h, s, "success")
    /\ UNCHANGED <<esession, emutex, memory, pollerVars, msgqueue, hres,
                   requestVars, sessionVars, deinitVars>>

AwaitsOutcome(e) == state[e] \in {"error", "receiving"}

ListWithout(e) == RemoveFirst(idle_list, e)

(* handle_incoming_reply, any other result: the end of the connection, for *)
(* an idle one, one whose reply is awaited, one that could not be used     *)
(* (ERROR) or one whose complete reply another handler has yet to handle.  *)
ReplyEnd(h) ==
    LET e == hres[h].conn IN
    /\ hpc[h] = "read" /\ hres[h].st \notin {"SUCCESS", "MODIFIED"}
    /\ emutex[e] = None
    /\ CASE state[e] = "idle" ->
              /\ idle_list' = ListWithout(e)
              /\ Decide(h, None, "none")
              /\ UNCHANGED <<state, emutex>>
         [] AwaitsOutcome(e) ->
              /\ Decide(h, esession[e], IF state[e] = "error" THEN "error"
                                        ELSE Outcome(hres[h].st))
              /\ UNCHANGED <<state, emutex, idle_list>>
         [] state[e] = "success" /\ ~AwaitsOutcome(e) ->
              /\ state' = [state EXCEPT ![e] = "closing"]
              /\ emutex' = [emutex EXCEPT ![e] = h]
              /\ Goto(h, "unlock")
              /\ UNCHANGED <<hsession, houtcome, idle_list>>
         [] OTHER ->
              /\ Decide(h, None, "none")
              /\ UNCHANGED <<state, emutex, idle_list>>
    /\ UNCHANGED <<ref, esession, memory, pollerVars, msgqueue, hres, requestVars,
                   sessionVars, deinitVars>>

(* The entry's mutex is unlocked after target->mutex, which matters where  *)
(* the entry is left to another handler.                                   *)
ReplyEndUnlock(h) ==
    /\ hpc[h] = "unlock"
    /\ emutex' = [emutex EXCEPT ![hres[h].conn] = None]
    /\ Goto(h, "get")
    /\ UNCHANGED <<state, ref, esession, memory, idle_list, pollerVars, msgqueue,
                   hres, hsession, houtcome, requestVars, sessionVars, deinitVars>>

(* target->release and session->handle: the session is the user's again.   *)
Finish(h) ==
    LET s == hsession[h] IN
    /\ hpc[h] = "finish"
    /\ released' = [released EXCEPT ![s] = @ + 1]
    /\ handled' = [handled EXCEPT ![s] = @ + 1]
    /\ Goto(h, "unref")
    /\ UNCHANGED <<entryVars, pollerVars, msgqueue, hres, hsession, houtcome,
                   requestVars, keep_alive, deinitVars>>

BarrierForgotten(h, e) == TRUE                              \* mutant
RequesterGone(h, e) == hres[h].op = "write" => emutex[e] = None

ReleaseConn(e) == [memory EXCEPT ![e] = "freed"]

(* The handler's reference is given back; the last one frees the entry. An *)
(* entry whose connect failed has never been shared.  handle_request_result *)
(* first waits for the requester to have let go of the entry's mutex.      *)
Unref(h) ==
    LET e == hres[h].conn IN
    /\ hpc[h] = "unref"
    /\ RequesterGone(h, e)
    /\ ref' = [ref EXCEPT ![e] = @ - 1]
    /\ memory' = IF ref[e] = 1 \/ hres[h].op = "connect"
                 THEN ReleaseConn(e) ELSE memory
    /\ Goto(h, "get")
    /\ UNCHANGED <<state, esession, emutex, idle_list, pollerVars, msgqueue, hres,
                   hsession, houtcome, requestVars, sessionVars, deinitVars>>

Handler(h) ==
    \/ TakeResult(h) \/ HandlerExit(h)
    \/ Connected(h) \/ ConnectFailed(h) \/ RequestSent(h) \/ RequestFailed(h)
    \/ StopCheck(h) \/ ReadModified(h) \/ ReplyComplete(h) \/ ReplyEnd(h)
    \/ ReplyEndUnlock(h) \/ Finish(h) \/ Unref(h)

-----------------------------------------------------------------------------
(* Communicator::request *)

RGoto(s, p) == rpc' = [rpc EXCEPT ![s] = p]

StillListed == idle_list                                    \* mutant
OffTheList == Tail(idle_list)

(* request_idle_conn takes the connection that became idle last; it is     *)
(* the requester's own from here on, by its mutex.  No request is begun    *)
(* once deinit has made the queue nonblocking.                             *)
TakeIdle(s) ==
    /\ rpc[s] = "retry" \/ (rpc[s] = "none" /\ ~nonblock)
    /\ IF idle_list = <<>>
       THEN /\ RGoto(s, "new_conn")
            /\ UNCHANGED <<idle_list, emutex, rconn>>
       ELSE LET e == Head(idle_list) IN
            /\ emutex[e] = None
            /\ idle_list' = OffTheList
            /\ emutex' = [emutex EXCEPT ![e] = s]
            /\ rconn' = [rconn EXCEPT ![s] = e]
            /\ RGoto(s, "set_timeout")
    /\ UNCHANGED <<state, ref, esession, memory, pollerVars, msgqueue, handlerVars,
                   sessionVars, deinitVars>>

KeepLocked(e) == emutex                                     \* mutant
Unlocked(e) == [emutex EXCEPT ![e] = None]

(* mpoller_set_timeout tells whether the connection is still polled; if it *)
(* is not, its end is being handled and the next one is tried.             *)
SetTimeout(s) ==
    LET e == rconn[s] IN
    /\ rpc[s] = "set_timeout"
    /\ IF node[e] # "none"
       THEN /\ esession' = [esession EXCEPT ![e] = s]
            /\ RGoto(s, "send")
            /\ UNCHANGED <<state, emutex>>
       ELSE /\ state' = [state EXCEPT ![e] = "closing"]
            /\ emutex' = Unlocked(e)
            /\ RGoto(s, "retry")
            /\ UNCHANGED esession
    /\ UNCHANGED <<ref, memory, idle_list, pollerVars, msgqueue, handlerVars, rconn,
                   sessionVars, deinitVars>>

StateKept(e) == state                                       \* mutant
MarkedError(e) == [state EXCEPT ![e] = "error"]

(* send_message on an idle connection: all is written at once, or the rest *)
(* is left to the poller by modifying the node, which finds out a          *)
(* connection that has just ended, or the message or the socket fails.     *)
SendOnIdle(s) ==
    LET e == rconn[s] IN
    /\ rpc[s] = "send"
    /\ \/ /\ state' = [state EXCEPT ![e] = "receiving"]
          /\ UNCHANGED <<node, partial, pipe, removed, msgqueue>>
       \/ /\ node[e] # "none"
          /\ node' = [node EXCEPT ![e] = "write"]
          /\ Retire(e, "MODIFIED", msgqueue)
          /\ UNCHANGED <<state, partial>>
       \/ /\ PollerDel(e)
          /\ state' = MarkedError(e)
          /\ UNCHANGED partial
    /\ RGoto(s, "unlock")
    /\ UNCHANGED <<ref, esession, emutex, memory, idle_list, hand, stopped,
                   handlerVars, rconn, sessionVars, deinitVars>>

RequestUnlock(s) ==
    /\ rpc[s] = "unlock"
    /\ emutex' = [emutex EXCEPT ![rconn[s]] = None]
    /\ RGoto(s, "accepted")
    /\ UNCHANGED <<state, ref, esession, memory, idle_list, pollerVars, msgqueue,
                   handlerVars, rconn, sessionVars, deinitVars>>

(* request_new_conn: launch_conn makes the entry and mpoller_add arms it.  *)
NewConn(s) ==
    /\ rpc[s] = "new_conn"
    /\ \E e \in Conns :
          /\ memory[e] = "unborn"
          /\ memory' = [memory EXCEPT ![e] = "live"]
          /\ ref' = [ref EXCEPT ![e] = 1]
          /\ state' = [state EXCEPT ![e] = "connecting"]
          /\ esession' = [esession EXCEPT ![e] = s]
          /\ PollerAdd(e, "connect")
          /\ rconn' = [rconn EXCEPT ![s] = e]
    /\ RGoto(s, "accepted")
    /\ UNCHANGED <<emutex, idle_list, hand, removed, pipe, stopped, msgqueue,
                   handlerVars, sessionVars, deinitVars>>

(* The connection cannot be made: request returns -1.                      *)
NewConnFails(s) ==
    /\ rpc[s] = "new_conn"
    /\ RGoto(s, "failed")
    /\ UNCHANGED <<entryVars, pollerVars, msgqueue, handlerVars, rconn, sessionVars,
                   deinitVars>>

RequestStep(s) ==
    \/ TakeIdle(s) \/ SetTimeout(s) \/ SendOnIdle(s) \/ RequestUnlock(s)
    \/ NewConn(s) \/ NewConnFails(s)

-----------------------------------------------------------------------------
(* Communicator::deinit *)

SetStopFlag ==
    /\ ~stop_flag
    /\ stop_flag' = TRUE
    /\ UNCHANGED <<entryVars, pollerVars, msgqueue, handlerVars, requestVars,
                   sessionVars, nonblock>>

(* poller_stop: the poller's thread has finished its last round and is     *)
(* joined.  mpoller_stop stops one poller after the other.                 *)
JoinPoller(e) ==
    /\ stop_flag /\ stopped[e] = "running"
    /\ \A f \in Conns : stopped[f] # "stopped"
    /\ hand[e] = "none"
    /\ stopped' = [stopped EXCEPT ![e] = "stopped"]
    /\ UNCHANGED <<entryVars, node, hand, removed, partial, pipe, msgqueue,
                   handlerVars, requestVars, sessionVars, deinitVars>>

(* poller_stop, under the poller's mutex: what is left in the pipe, then a *)
(* STOPPED result for the node that is armed.                              *)
SweepPoller(e) ==
    /\ stopped[e] = "stopped"
    /\ stopped' = [stopped EXCEPT ![e] = "swept"]
    /\ pipe' = [pipe EXCEPT ![e] = <<>>]
    /\ node' = [node EXCEPT ![e] = "none"]
    /\ msgqueue' = msgqueue \o pipe[e] \o
                   (IF node[e] = "none" THEN <<>>
                    ELSE <<Result(node[e], "STOPPED", e)>>)
    /\ UNCHANGED <<entryVars, hand, removed, partial, handlerVars, requestVars,
                   sessionVars, deinitVars>>

(* msgqueue_set_nonblock, when every poller is stopped.  deinit is called  *)
(* by someone who has no request being made.                               *)
SetNonblock ==
    /\ ~nonblock
    /\ \A e \in Conns : stopped[e] = "swept"
    /\ \A s \in Sessions : rpc[s] \in {"none", "accepted", "failed"}
    /\ nonblock' = TRUE
    /\ UNCHANGED <<entryVars, pollerVars, msgqueue, handlerVars, requestVars,
                   sessionVars, stop_flag>>

Deinit ==
    \/ SetStopFlag \/ SetNonblock
    \/ \E e \in Conns : JoinPoller(e) \/ SweepPoller(e)

-----------------------------------------------------------------------------
(* The specification *)

Next ==
    \/ \E e \in Conns : Poller(e)
    \/ \E h \in Handlers : Handler(h)
    \/ \E s \in Sessions : RequestStep(s)
    \/ Deinit

(* Threads go on.  A peer does not send for ever without a pause (ReadAgain)  *)
(* and the pipe, once written by poller_stop, is readable in every round of  *)
(* the poller's thread, so that the thread is joined in the end.             *)
Fairness ==
    /\ \A e \in Conns : /\ WF_vars(Poller(e)) /\ SF_vars(ReadAgain(e))
                        /\ SF_vars(JoinPoller(e)) /\ WF_vars(SweepPoller(e))
    /\ \A h \in Handlers : WF_vars(Handler(h))
    /\ \A s \in Sessions : WF_vars(rpc[s] # "none" /\ RequestStep(s))
    /\ WF_vars(SetNonblock)

Spec == Init /\ [][Next]_vars /\ Fairness

-----------------------------------------------------------------------------
(* Properties *)

(* How many results that end the connection's time in the poller are owed:   *)
(* by the poller, by the pipe, by the queue and by handlers that have begun; *)
(* and how many complete replies.                                            *)
IsEnd(r) == r.st \notin {"SUCCESS", "MODIFIED"}
IsSuccess(r) == r.st = "SUCCESS"

EndsIn(q, e) == {i \in 1 .. Len(q) : q[i].conn = e /\ IsEnd(q[i])}
SuccessesIn(q, e) == {i \in 1 .. Len(q) : q[i].conn = e /\ IsSuccess(q[i])}
Busy(e) == {h \in Handlers : /\ hres[h].conn = e
                             /\ hpc[h] \in {"connect", "read", "write", "finish", "unref"}}

EndsOwed(e) ==
    (IF node[e] = "none" THEN 0 ELSE 1) + Cardinality(EndsIn(pipe[e], e))
    + Cardinality(EndsIn(msgqueue, e)) + Cardinality({h \in Busy(e) : IsEnd(hres[h])})

SuccessesOwed(e) ==
    (IF hand[e] = "success" THEN 1 ELSE 0) + Cardinality(SuccessesIn(msgqueue, e))
    + Cardinality({h \in Busy(e) : IsSuccess(hres[h])})

(* entry->ref counts the results still to come.  A complete reply that no    *)
(* handler has looked at yet is the exception: its reference is taken by     *)
(* whichever handler comes first, the one of the reply (as a new reference)  *)
(* or the one of the connection's end (which leaves its own to the reply).   *)
RefCountsResults ==
    \A e \in Conns : memory[e] = "live" =>
        ref[e] + (IF state[e] = "success" THEN 1 ELSE 0)
            = EndsOwed(e) + SuccessesOwed(e)

(* An entry is freed only when nobody has a way to it: no node, no result,   *)
(* no list, no poller thread inside a callback, no handler and no requester. *)
(* Not covered: the handler at "unlock" (Communicator.cc:630).               *)
NoUseAfterFree ==
    \A e \in Conns : memory[e] = "freed" =>
        /\ node[e] = "none" /\ hand[e] = "none"
        /\ EndsOwed(e) = 0 /\ SuccessesOwed(e) = 0
        /\ \A i \in 1..Len(idle_list) : idle_list[i] # e
        /\ \A s \in Sessions : rconn[s] = e =>
               rpc[s] \notin {"set_timeout", "send", "unlock"}

(* When the end of an idle connection is handled, the connection is on the   *)
(* idle list, from which list_del takes it: a requester that took it off     *)
(* either sees that it is not polled any more, or leaves another state.      *)
IdleEndIsListed ==
    \A h \in Handlers :
        LET e == hres[h].conn IN
        hpc[h] = "read" /\ IsEnd(hres[h]) /\ state[e] = "idle" /\ emutex[e] = None
            => \E i \in 1..Len(idle_list) : idle_list[i] = e

(* A session is told its outcome at most once, and only one that was         *)
(* accepted or is being sent; target->release is called along with it.       *)
HandledOnce ==
    \A s \in Sessions :
        /\ handled[s] <= 1 /\ released[s] = handled[s]
        /\ handled[s] = 1 => rpc[s] \in {"unlock", "accepted"}
        /\ Cardinality({h \in Handlers : hpc[h] = "finish" /\ hsession[h] = s})
               + handled[s] <= 1

(* A session told SUCCESS is the one whose reply arrived.                    *)
ReplyToItsSession ==
    \A h \in Handlers :
        hpc[h] = "finish" /\ houtcome[h] = "success" =>
            hres[h].st = "SUCCESS" /\ hres[h].for = hsession[h]

(* An accepted session that no handler has decided about still has its       *)
(* connection to itself: the entry is live, is not offered to another        *)
(* session, and a result is still to come or a handler is about to arm it.   *)
Undecided(s) ==
    /\ rpc[s] = "accepted" /\ handled[s] = 0
    /\ \A h \in Handlers : ~(hpc[h] = "finish" /\ hsession[h] = s)

NoSessionLost ==
    \A s \in Sessions : Undecided(s) =>
        LET e == rconn[s] IN
        /\ memory[e] = "live" /\ esession[e] = s
        /\ IF state[e] = "closing" THEN SuccessesOwed(e) > 0
                                   ELSE EndsOwed(e) + SuccessesOwed(e) > 0
        /\ \A i \in 1..Len(idle_list) : idle_list[i] # e

(* When the handler threads are gone, every accepted session was told and    *)
(* every entry was freed.  The exception is a connection that                *)
(* request_new_conn, which does not look at the stop flag, gave to a poller  *)
(* that was already stopped.                                                 *)
Stranded(e) == node[e] = "connect" /\ stopped[e] = "swept"
StopSettlesAll ==
    (\A h \in Handlers : hpc[h] = "exit") =>
        /\ \A s \in Sessions :
               rpc[s] = "accepted" => handled[s] = 1 \/ Stranded(rconn[s])
        /\ \A e \in Conns : memory[e] = "live" => Stranded(e)

(* No accepted session is lost, told twice, or left over when the            *)
(* communicator is gone (Communicator.cc:512-650, 724-780, 900-912,          *)
(* 1225-1240, 1321-1395).                                                    *)
SessionsSettled == HandledOnce /\ NoSessionLost /\ StopSettlesAll

(* deinit returns: the pollers' and the handlers' threads all finish.        *)
DeinitTerminates == stop_flag ~> \A h \in Handlers : hpc[h] = "exit"

(* With one handler thread, the end of a connection is never handled before  *)
(* the reply that came first: "This may happen only if handler_threads > 1"  *)
(* (Communicator.cc:623).                                                    *)
EndAfterReply == \A h \in Handlers : hpc[h] # "unlock"

(* "This set_timeout() never fails, which is very important."                *)
(* (Communicator.cc:1017): where append_reply runs, a node is armed.         *)
SetTimeoutNeverFails == \A e \in Conns : hand[e] = "append" => node[e] # "none"

=============================================================================
