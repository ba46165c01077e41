----------------------------- MODULE ServerConn -----------------------------
(***************************************************************************)
(* net/Communicator.cc, the side of a service, with the server of          *)
(* server/WFServer.cc: connections are accepted, their requests are read   *)
(* and replied to by sessions, they are kept alive between requests, and   *)
(* all of them are closed, each in its own time, after the service was     *)
(* unbound, when handle_unbound lets wait_finish return.                   *)
(*                                                                         *)
(* A connection stands for its descriptor, its CommServiceTarget and its   *)
(* CommConnEntry, which are the fields of one record.  A session is a      *)
(* connection with a number; the user's task replies to it or is deleted   *)
(* (WFServerTask, whose source is not part of the repository).  The poller *)
(* does to a connection what poller.c does to one descriptor, as in        *)
(* ClientConn, with a thread for each connection.  Left out: stop_flag (a  *)
(* server is stopped before Communicator::deinit), and new_session failing,*)
(* which WFServer's does not.                                              *)
(***************************************************************************)
EXTENDS Integers, FiniteSets, SequencesExt

CONSTANTS Conns,      \* bound: connections that are ever accepted
          MaxSeq,     \* bound: the requests of each connection
          Handlers,   \* the handler threads
          Main,       \* the thread of start, shutdown and wait_finish
          MaxConns,   \* params.max_connections
          None

Threads == Handlers \cup {Main}
Sessions == UNION {{c} \X (1 .. MaxSeq[c]) : c \in Conns}

ASSUME ServerAssumption ==
    /\ IsFiniteSet(Conns) /\ IsFiniteSet(Handlers) /\ Handlers # {}
    /\ Main \notin Handlers /\ None \notin Conns \cup Threads
    /\ Sessions \cap (Threads \cup {None}) = {}
    /\ MaxSeq \in [Conns -> Nat] /\ MaxConns \in Nat \ {0}

VARIABLES
    conn,      \* the connections
    svc,       \* CommService, WFServerBase, and the listening node
    spc,       \* how far each session is, the reply call included
    msgqueue,  \* results on their way to the handlers
    pc, job,   \* where each thread is, and with which result
    wronged    \* history: a request was refused though it was due

vars == <<conn, svc, spc, msgqueue, pc, job, wronged>>

Unborn ==
    [state |-> "none", ref |-> 0, memory |-> "unborn",     \* CommConnEntry
     seq |-> 0,               \* entry->seq; entry->session is the last one
     tref |-> 0,              \* CommServiceTarget: ref
     mutex |-> None,          \* who holds target->mutex
     idle |-> FALSE,          \* the entry is on target->idle_list
     node |-> "none",         \* the operation of nodes[fd]
     hand |-> "none",         \* what the poller's thread does with a read node
     removed |-> FALSE,       \* that node is no longer in nodes[fd]
     partial |-> FALSE,       \* it has an unfinished request
     pipe |-> <<>>,           \* results on their way through the pipe
     got |-> 0]               \* replies that were written as a whole

(* out: what a session is to be told; seq: entry->session. *)
Result(op, st, c) == [op |-> op, st |-> st, conn |-> c, seq |-> 0, out |-> "none"]

NoResult == Result("none", "none", None)

(* After bind. *)
Init ==
    /\ conn = [c \in Conns |-> Unborn]
    /\ svc = [listening |-> TRUE,    \* listen_fd >= 0
              ref |-> 1, mutex |-> None, alive_list |-> <<>>,
              marking |-> None,      \* the entry in the hands of drain
              conn_count |-> 0,
              unbound |-> 0,         \* calls of handle_unbound
              node |-> "armed"]      \* then "deleted", in the pipe, or "none"
    /\ spc = [s \in Sessions |-> "none"]
    /\ msgqueue = <<>>
    /\ pc = [t \in Threads |-> IF t = Main THEN "serving" ELSE "get"]
    /\ job = [h \in Handlers |-> NoResult]
    /\ wronged = FALSE

At(p) == {t \in Threads : pc[t] = p}
Goto(t, p) == pc' = [pc EXCEPT ![t] = p]
Done(h) == Goto(h, "get") /\ job' = [job EXCEPT ![h] = NoResult]
Set(c, r) == conn' = [conn EXCEPT ![c] = r]
Send(r) == msgqueue' = Append(msgqueue, r)

-----------------------------------------------------------------------------
(* References: what becomes of a record r when one is given back, and of    *)
(* the service when r was changed so.                                       *)

ServiceDecref(v) ==
    [v EXCEPT !.ref = @ - 1, !.unbound = IF v.ref = 1 THEN @ + 1 ELSE @]

(* An entry's last reference goes with its reference to the target. *)
EntryDecref(r) ==
    IF r.ref > 1 THEN [r EXCEPT !.ref = @ - 1]
    ELSE [r EXCEPT !.ref = 0, !.memory = "freed", !.tref = @ - 1]

TargetDecref(r) == [r EXCEPT !.tref = @ - 1]

StillCounted(v) == v                                       \* mutant
Uncounted(v) == [v EXCEPT !.conn_count = @ - 1]

Released(v, old, new) ==
    LET counted == IF old.memory = "live" /\ new.memory = "freed" THEN Uncounted(v) ELSE v
    IN IF old.tref > 0 /\ new.tref = 0 THEN ServiceDecref(counted) ELSE counted

(* The connection becomes r, and what it no longer holds is released. *)
Becomes(c, r) == Set(c, r) /\ svc' = Released(svc, conn[c], r)

-----------------------------------------------------------------------------
(* What the poller offers *)

PollerAdd(r) == [r EXCEPT !.node = "read", !.partial = FALSE]

(* poller_del and poller_mod *)
Retire(c, r, st, op) ==
    [r EXCEPT !.node = op, !.removed = r.hand # "none",
              !.pipe = Append(@, Result(r.node, st, c))]
PollerDel(c, r) == IF r.node = "none" THEN r ELSE Retire(c, r, "DELETED", "none")

(* The poller's thread goes on, and the node's final result is sent, unless *)
(* another thread has removed the node.                                     *)
LetGo(r) == [r EXCEPT !.hand = "none", !.removed = FALSE]
EndNode(c, st) ==
    IF conn[c].removed THEN Set(c, LetGo(conn[c])) /\ UNCHANGED msgqueue
    ELSE /\ Set(c, LetGo([conn[c] EXCEPT !.node = "none"]))
         /\ Send(Result(conn[c].node, st, c))

-----------------------------------------------------------------------------
(* The poller's threads *)

(* Communicator::accept: a target, which holds the service.  The loop of     *)
(* accepting may still run when unbind has deleted the node.                *)
Accept(c) ==
    /\ svc.node # "none" /\ conn[c] = Unborn
    /\ Set(c, [Unborn EXCEPT !.state = "accepted", !.tref = 1])
    /\ svc' = [svc EXCEPT !.ref = @ + 1]
    /\ Send(Result("listen", "SUCCESS", c))
    /\ UNCHANGED <<spc, pc, job, wronged>>

(* accept fails, or the node that unbind deleted comes out of the pipe. *)
ListenEnds ==
    /\ svc.node # "none"
    /\ svc' = [svc EXCEPT !.node = "none"]
    /\ Send(Result("listen", IF svc.node = "armed" THEN "ERROR" ELSE "DELETED", None))
    /\ UNCHANGED <<conn, spc, pc, job, wronged>>

ReadEvent(c) ==
    /\ conn[c].node = "read" /\ conn[c].hand = "none"
    /\ Set(c, [conn[c] EXCEPT !.hand = "read"])
    /\ UNCHANGED <<svc, spc, msgqueue, pc, job, wronged>>

ReadAgain(c) ==
    /\ conn[c].hand = "read"
    /\ Set(c, LetGo(conn[c]))
    /\ UNCHANGED <<svc, spc, msgqueue, pc, job, wronged>>

(* End of file, an error on the descriptor, or a timeout, which is found    *)
(* between events just as well.                                             *)
ReadEnds(c) ==
    /\ conn[c].hand = "read" \/ (conn[c].node = "read" /\ conn[c].hand = "none")
    /\ EndNode(c, "ERROR")
    /\ UNCHANGED <<svc, spc, pc, job, wronged>>

NoBarrier(r) == TRUE           \* mutant: create_request does not wait
ReplierGone(r) == r.state = "idle" => r.mutex = None

(* The first bytes of a request: create_request waits for a reply that is   *)
(* being made, and takes the entry off the list under the service's mutex.  *)
CreateRequest(c) ==
    LET r == conn[c]
        s == <<c, r.seq + 1>>
    IN
    /\ r.hand = "read" /\ ~r.partial /\ s \in Sessions
    /\ ReplierGone(r) /\ svc.mutex = None
    /\ IF r.state \in {"connected", "keepalive"}
       THEN /\ svc' = [svc EXCEPT !.alive_list = RemoveFirst(@, c)]
            /\ spc' = [spc EXCEPT ![s] = "reading"]
            /\ Set(c, [r EXCEPT !.seq = @ + 1, !.state = "receiving", !.tref = @ + 1,
                                !.hand = "append"])
            /\ UNCHANGED <<msgqueue, wronged>>
       ELSE /\ EndNode(c, "ERROR")
            /\ wronged' = (wronged \/ (r.got = r.seq /\ r.state \notin {"closing", "error"}))
            /\ UNCHANGED <<svc, spc>>
    /\ UNCHANGED <<pc, job>>

(* append_request: more bytes of the request are wanted, it is complete, in *)
(* which case more may be read after it, or it is bad.                      *)
AppendRequest(c) ==
    LET r == conn[c] IN
    /\ r.hand = "append" \/ (r.hand = "read" /\ r.partial)
    /\ \/ Set(c, [r EXCEPT !.partial = TRUE, !.hand = "read"]) /\ UNCHANGED msgqueue
       \/ /\ Set(c, [r EXCEPT !.state = "success", !.partial = FALSE, !.hand = "read"])
          /\ Send(Result("read", "SUCCESS", c))
       \/ EndNode(c, "ERROR")
    /\ UNCHANGED <<svc, spc, pc, job, wronged>>

WriteEvent(c) ==
    LET r == conn[c] IN
    /\ r.node = "write" /\ r.hand = "none"
    /\ \/ /\ Set(c, [r EXCEPT !.node = "none", !.got = @ + 1])
          /\ Send(Result("write", "FINISHED", c))
       \/ EndNode(c, "ERROR")
    /\ UNCHANGED <<svc, spc, pc, job, wronged>>

HandlePipe(c) ==
    /\ conn[c].hand = "none" /\ conn[c].pipe # <<>>
    /\ Send(Head(conn[c].pipe))
    /\ Set(c, [conn[c] EXCEPT !.pipe = Tail(@)])
    /\ UNCHANGED <<svc, spc, pc, job, wronged>>

Poller(c) ==
    \/ ReadEvent(c) \/ ReadAgain(c) \/ ReadEnds(c) \/ CreateRequest(c)
    \/ AppendRequest(c) \/ WriteEvent(c) \/ HandlePipe(c)

-----------------------------------------------------------------------------
(* Closing kept-alive connections *)

MarkFirst == FALSE             \* mutant: the two lines are exchanged
DeleteFirst == TRUE
Close(c, r) == [r EXCEPT !.state = "closing"]

(* drain takes the first entry: "Cannot change the sequence of next two     *)
(* lines", mpoller_del and the state, which Mark sets.                      *)
TakeAlive(t) ==
    LET e == Head(svc.alive_list) IN
    /\ svc' = [svc EXCEPT !.mutex = t, !.marking = e, !.alive_list = Tail(@)]
    /\ Set(e, IF DeleteFirst THEN PollerDel(e, conn[e]) ELSE Close(e, conn[e]))

Mark(t, after) ==
    LET e == svc.marking IN
    /\ svc' = [svc EXCEPT !.mutex = after, !.marking = None]
    /\ Set(e, IF DeleteFirst THEN Close(e, conn[e]) ELSE PollerDel(e, conn[e]))

(* drain(1), in new_connection; without one to close, the connection is     *)
(* refused.                                                                 *)
DrainOne(h) ==
    /\ pc[h] = "drain_one" /\ svc.mutex = None
    /\ IF svc.alive_list = <<>>
       THEN Goto(h, "refuse") /\ UNCHANGED <<conn, svc>>
       ELSE Goto(h, "mark_one") /\ TakeAlive(h)
    /\ UNCHANGED <<spc, msgqueue, job, wronged>>

MarkOne(h) ==
    /\ pc[h] = "mark_one"
    /\ Mark(h, None) /\ Goto(h, "make")
    /\ UNCHANGED <<spc, msgqueue, job, wronged>>

(* drain(-1), in shutdown_service *)
DrainAll(t) ==
    /\ pc[t] = "drain_all" /\ svc.mutex \in {None, t}
    /\ IF svc.alive_list = <<>>
       THEN /\ svc' = [svc EXCEPT !.mutex = None]
            /\ Goto(t, "service_decref") /\ UNCHANGED conn
       ELSE Goto(t, "mark_all") /\ TakeAlive(t)
    /\ UNCHANGED <<spc, msgqueue, job, wronged>>

MarkAll(t) ==
    /\ pc[t] = "mark_all"
    /\ Mark(t, t) /\ Goto(t, "drain_all")
    /\ UNCHANGED <<spc, msgqueue, job, wronged>>

ShutdownDecref(t) ==
    /\ pc[t] = "service_decref"
    /\ svc' = ServiceDecref(svc)
    /\ IF t = Main THEN Goto(t, "wait") /\ UNCHANGED job ELSE Done(t)
    /\ UNCHANGED <<conn, spc, msgqueue, wronged>>

-----------------------------------------------------------------------------
(* The handler threads *)

(* Along with the result, entry->session.  A node that was modified has no  *)
(* end yet (handle_read_result), and handle_stop, for a listening node that *)
(* failed, is empty.                                                        *)
TakeResult(h) ==
    LET r == Head(msgqueue)
        ignored == r.st = "MODIFIED" \/ (r.op = "listen" /\ r.st = "ERROR")
    IN
    /\ pc[h] = "get" /\ msgqueue # <<>>
    /\ msgqueue' = Tail(msgqueue)
    /\ IF ignored THEN UNCHANGED <<pc, job>>
       ELSE /\ job' = [job EXCEPT ![h] = IF r.op = "listen" THEN r
                                         ELSE [r EXCEPT !.seq = conn[r.conn].seq]]
            /\ Goto(h, r.op)
    /\ UNCHANGED <<conn, svc, spc, wronged>>

OneMore == svc.conn_count < MaxConns + 1                   \* mutant
RoomLeft == svc.conn_count < MaxConns

(* handle_listen_result, SUCCESS, up to new_connection; *)
NewConnection(h) ==
    /\ pc[h] = "listen" /\ job[h].st = "SUCCESS"
    /\ svc' = [svc EXCEPT !.conn_count = @ + 1]
    /\ Goto(h, IF RoomLeft THEN "make" ELSE "drain_one")
    /\ UNCHANGED <<conn, spc, msgqueue, job, wronged>>

(* the entry, which the poller may refuse to take;                          *)
MakeConn(h) ==
    LET c == job[h].conn
        made == [conn[c] EXCEPT !.state = "connected", !.ref = 1, !.memory = "live"]
    IN
    /\ pc[h] = "make"
    /\ \/ Set(c, PollerAdd(made)) /\ UNCHANGED svc
       \/ /\ Set(c, EntryDecref(made))
          /\ svc' = Released(svc, made, EntryDecref(made))
    /\ Done(h)
    /\ UNCHANGED <<spc, msgqueue, wronged>>

(* or there is no room for it, or it fails before new_connection counts it. *)
RefuseConn(h) ==
    LET c == job[h].conn
        r == TargetDecref(conn[c])
    IN
    /\ pc[h] = "refuse" \/ (pc[h] = "listen" /\ job[h].st = "SUCCESS")
    /\ Set(c, r)
    /\ svc' = Released(IF pc[h] = "refuse" THEN Uncounted(svc) ELSE svc, conn[c], r)
    /\ Done(h)
    /\ UNCHANGED <<spc, msgqueue, wronged>>

(* DELETED begins shutdown_service. *)
ListenDeleted(h) ==
    /\ pc[h] = "listen" /\ job[h].st = "DELETED"
    /\ svc' = [svc EXCEPT !.listening = FALSE]
    /\ Goto(h, "drain_all")
    /\ UNCHANGED <<conn, spc, msgqueue, job, wronged>>

Decide(h, out) ==
    /\ job' = [job EXCEPT ![h].out = out]
    /\ Goto(h, IF out = "none" THEN "unref" ELSE "finish")

IdleUnheld(r) == [r EXCEPT !.state = "idle", !.idle = TRUE] \* mutant
Idle(r) == [r EXCEPT !.ref = @ + 1, !.state = "idle", !.idle = TRUE]

(* handle_incoming_request, SUCCESS: the entry is idle, for the reply. *)
RequestComplete(h) ==
    LET c == job[h].conn
        r == conn[c]
    IN
    /\ pc[h] = "read" /\ job[h].st = "SUCCESS" /\ r.mutex = None
    /\ Set(c, IF r.state = "success" THEN Idle(r) ELSE r)
    /\ Decide(h, "toreply")
    /\ UNCHANGED <<svc, spc, msgqueue, wronged>>

WithSession == {"error", "receiving"}

(* Any other result: the end of a connection that is kept alive, idle,      *)
(* broken or in the middle of a request; of one whose complete request is   *)
(* not handled yet, to which the reference is left; or of one being closed. *)
RequestEnd(h) ==
    LET c == job[h].conn
        r == conn[c]
    IN
    /\ pc[h] = "read" /\ job[h].st # "SUCCESS"
    /\ r.mutex = None /\ (r.state = "keepalive" => svc.mutex = None)
    /\ svc' = [svc EXCEPT !.alive_list = IF r.state = "keepalive" THEN RemoveFirst(@, c) ELSE @]
    /\ IF r.state = "success"
       THEN /\ Set(c, [r EXCEPT !.state = "closing"])
            /\ Done(h)
       ELSE /\ Set(c, [r EXCEPT !.idle = @ /\ r.state # "idle"])
            /\ Decide(h, IF r.state \in WithSession THEN "failed" ELSE "none")
    /\ UNCHANGED <<spc, msgqueue, wronged>>

(* handle_reply_result, FINISHED, with a keep-alive timeout: the next       *)
(* request may come as soon as the node is added;                           *)
ReplyWritten(h) ==
    LET c == job[h].conn IN
    /\ pc[h] = "write" /\ job[h].st = "FINISHED" /\ conn[c].mutex = None
    /\ Set(c, PollerAdd([conn[c] EXCEPT !.ref = @ + 1, !.mutex = h]))
    /\ Goto(h, "relist")
    /\ UNCHANGED <<svc, spc, msgqueue, job, wronged>>

KeepAnyway == TRUE                                         \* mutant
StillListens == svc.listening

(* A connection is kept alive only as long as its service listens.          *)
Keep(c, r) ==
    /\ svc.mutex = None
    /\ IF StillListens
       THEN /\ Set(c, [r EXCEPT !.state = "keepalive"])
            /\ svc' = [svc EXCEPT !.alive_list = Append(@, c)]
       ELSE Set(c, Close(c, PollerDel(c, r))) /\ UNCHANGED svc

Relist(h) ==
    LET c == job[h].conn IN
    /\ pc[h] = "relist"
    /\ Keep(c, [conn[c] EXCEPT !.mutex = None])
    /\ Decide(h, "success")
    /\ UNCHANGED <<spc, msgqueue, wronged>>

(* without one, or when the node cannot be added; and the other results.    *)
ReplyEnd(h) ==
    /\ pc[h] = "write"
    /\ Decide(h, IF job[h].st = "FINISHED" THEN "success" ELSE "failed")
    /\ UNCHANGED <<conn, svc, spc, msgqueue, wronged>>

(* ~CommSession, of one that was not replied to and has an idle entry *)
CloseIdle(c, r) == IF r.idle THEN PollerDel(c, r) ELSE r

(* session->handle: the user's task begins, or it ends. *)
Finish(h) ==
    LET c == job[h].conn
        s == <<c, job[h].seq>>
    IN
    /\ pc[h] = "finish"
    /\ IF job[h].out = "toreply"
       THEN spc' = [spc EXCEPT ![s] = "toreply"] /\ UNCHANGED <<conn, svc>>
       ELSE /\ spc' = [spc EXCEPT ![s] = IF @ = "unlock" THEN "deleted_locked"
                                                               ELSE "deleted"]
            /\ spc[s] = "reading" => conn[c].mutex = None
            /\ Becomes(c, TargetDecref(IF spc[s] = "reading" THEN CloseIdle(c, conn[c])
                                                             ELSE conn[c]))
    /\ Goto(h, "unref")
    /\ UNCHANGED <<msgqueue, job, wronged>>

Unref(h) ==
    LET c == job[h].conn IN
    /\ pc[h] = "unref"
    /\ Becomes(c, EntryDecref(conn[c]))
    /\ Done(h)
    /\ UNCHANGED <<spc, msgqueue, wronged>>

Handler(h) ==
    \/ TakeResult(h) \/ NewConnection(h) \/ DrainOne(h) \/ MarkOne(h)
    \/ MakeConn(h) \/ RefuseConn(h) \/ ListenDeleted(h)
    \/ RequestComplete(h) \/ RequestEnd(h) \/ ReplyWritten(h) \/ Relist(h) \/ ReplyEnd(h) \/ Finish(h) \/ Unref(h)

-----------------------------------------------------------------------------
(* The users' tasks: no reply, or Communicator::reply *)

Unlocked(r) == [r EXCEPT !.mutex = None]
Step(s, from, to) == spc[s] = from /\ spc' = [spc EXCEPT ![s] = to]

NoReply(s) ==
    LET c == s[1] IN
    /\ Step(s, "toreply", "deleted") /\ conn[c].mutex = None
    /\ Becomes(c, TargetDecref(CloseIdle(c, conn[c])))
    /\ UNCHANGED <<msgqueue, pc, job, wronged>>

(* reply_idle_conn takes the entry, if its end was not handled before. *)
Reply(s) ==
    LET c == s[1]
        r == conn[c]
    IN
    /\ r.mutex = None
    /\ IF r.idle
       THEN /\ Step(s, "toreply", "write")
            /\ Set(c, [r EXCEPT !.idle = FALSE, !.mutex = s]) /\ UNCHANGED svc
       ELSE Step(s, "toreply", "deleted") /\ Becomes(c, TargetDecref(r))
    /\ UNCHANGED <<msgqueue, pc, job, wronged>>

(* send_message: all is written at once; *)
WriteAll(s) ==
    /\ Step(s, "write", "sync")
    /\ Set(s[1], [conn[s[1]] EXCEPT !.got = @ + 1])
    /\ UNCHANGED <<svc, msgqueue, pc, job, wronged>>

(* or the rest is left to the poller, by modifying the node, unless that is *)
(* gone and its last result is on the way;                                  *)
WriteRest(s) ==
    LET c == s[1]
        r == conn[c]
    IN
    /\ IF r.node # "none"
       THEN Step(s, "write", "unlock") /\ Set(c, Retire(c, r, "MODIFIED", "write"))
       ELSE Step(s, "write", "given") /\ Set(c, Unlocked([r EXCEPT !.state = "receiving"]))
    /\ UNCHANGED <<svc, msgqueue, pc, job, wronged>>

(* or the message or the socket fails. *)
WriteFails(s) ==
    LET c == s[1] IN
    /\ Step(s, "write", "given")
    /\ Set(c, [Unlocked(PollerDel(c, conn[c])) EXCEPT !.state = "error"])
    /\ UNCHANGED <<svc, msgqueue, pc, job, wronged>>

(* send_message_sync goes on: the entry is kept alive, or not. *)
KeepAlive(s) ==
    LET c == s[1]
        r == Unlocked([conn[c] EXCEPT !.ref = @ + 1])
    IN
    /\ Step(s, "sync", "succeed")
    /\ Keep(c, r) \/ (Set(c, Close(c, PollerDel(c, r))) /\ UNCHANGED svc)
    /\ UNCHANGED <<msgqueue, pc, job, wronged>>

(* The reply was left to the poller: nothing keeps the target any longer. *)
ReplyUnlock(s) ==
    /\ Step(s, "unlock", "given") \/ Step(s, "deleted_locked", "deleted")
    /\ Set(s[1], Unlocked(conn[s[1]]))
    /\ UNCHANGED <<svc, msgqueue, pc, job, wronged>>

(* reply ends the session whose reply was written at once, and gives back   *)
(* the reference that send_message_sync took.                               *)
ReplySucceeds(s) ==
    /\ Step(s, "succeed", "deleted")
    /\ Becomes(s[1], EntryDecref(TargetDecref(conn[s[1]])))
    /\ UNCHANGED <<msgqueue, pc, job, wronged>>

User(s) ==
    \/ NoReply(s) \/ Reply(s) \/ WriteAll(s) \/ WriteRest(s) \/ WriteFails(s)
    \/ KeepAlive(s) \/ ReplyUnlock(s) \/ ReplySucceeds(s)

-----------------------------------------------------------------------------
(* WFServerBase::shutdown and wait_finish *)

Shutdown ==
    /\ pc[Main] = "serving"
    /\ IF svc.node = "armed"
       THEN svc' = [svc EXCEPT !.node = "deleted"] /\ Goto(Main, "wait")
       ELSE svc' = [svc EXCEPT !.listening = FALSE] /\ Goto(Main, "drain_all")
    /\ UNCHANGED <<conn, spc, msgqueue, job, wronged>>

WaitFinish ==
    /\ pc[Main] = "wait" /\ svc.unbound > 0
    /\ Goto(Main, "finished")
    /\ UNCHANGED <<conn, svc, spc, msgqueue, job, wronged>>

Closer(t) == DrainAll(t) \/ MarkAll(t) \/ ShutdownDecref(t)

Next ==
    \/ \E c \in Conns : Accept(c) \/ Poller(c)
    \/ ListenEnds
    \/ \E h \in Handlers : Handler(h)
    \/ \E s \in Sessions : User(s)
    \/ \E t \in Threads : Closer(t)
    \/ Shutdown \/ WaitFinish
    \/ pc[Main] = "finished" /\ UNCHANGED vars

Spec == Init /\ [][Next]_vars

-----------------------------------------------------------------------------
(* Properties *)

(* Results about an entry that are on their way or being handled: its ends, *)
(* and its complete requests.                                               *)
IsEnd(r) == r.op # "listen" /\ r.st \notin {"SUCCESS", "MODIFIED"}
IsSuccess(r) == r.op = "read" /\ r.st = "SUCCESS"
Counts(r, c) == r.conn = c /\ (IsEnd(r) \/ IsSuccess(r))
OnTheirWay(q, c) == {i \in 1 .. Len(q) : Counts(q[i], c)}
Handled(c) == {h \in Handlers : /\ Counts(job[h], c)
                                /\ pc[h] \in {"read", "write", "relist", "finish", "unref"}}
Results(c) == Cardinality(OnTheirWay(conn[c].pipe, c))
              + Cardinality(OnTheirWay(msgqueue, c)) + Cardinality(Handled(c))

OfConn(c, steps) == Cardinality({k \in 1 .. MaxSeq[c] : spc[<<c, k>>] \in steps})
Repliers(c) == OfConn(c, {"succeed"})
Undeleted(c) == OfConn(c, {"reading", "toreply", "write", "sync", "unlock", "given", "succeed"})
Accepted(c) ==
    \/ Contains(msgqueue, Result("listen", "SUCCESS", c))
    \/ \E h \in Handlers : /\ job[h].conn = c
                           /\ pc[h] \in {"listen", "drain_one", "mark_one", "make", "refuse"}

(* Whether the reference of bind is still held. *)
Closing == {"drain_all", "mark_all", "service_decref"}
Bound ==
    \/ pc[Main] \in {"serving"} \cup Closing
    \/ svc.node = "deleted" \/ Contains(msgqueue, Result("listen", "DELETED", None))
    \/ \E h \in Handlers : pc[h] \in Closing \/ (pc[h] = "listen" /\ job[h].st = "DELETED")

(* The three counts agree with what they count: an entry's with its results *)
(* to come and repliers, a target's with its entry and its sessions, and    *)
(* the service's with its targets and the binding (Communicator.cc:184-211, *)
(* 370, 504, 554-566, 675, 713-717, 1066, 1128-1131, 1437, 1516-1525).      *)
RefsCount ==
    /\ \A c \in Conns :
        LET r == conn[c] IN
        /\ r.memory = "live" =>
              r.ref + (IF r.state = "success" THEN 1 ELSE 0)
                = (IF r.node = "none" THEN 0 ELSE 1) + Results(c) + Repliers(c)
        /\ r.tref = (IF Accepted(c) \/ r.memory = "live" THEN 1 ELSE 0) + Undeleted(c)
    /\ svc.ref = (IF Bound THEN 1 ELSE 0) + Cardinality({c \in Conns : conn[c].tref > 0})

(* Nothing that was freed is reached: an entry by a node, a result, a list, *)
(* drain or a replier, a target by the holder of its mutex, the service     *)
(* after wait_finish by anything (Communicator.cc:171-176, 309-317;         *)
(* WFServer.cc:185-198).  Not covered: the unlock after a reply was left to *)
(* the poller (Communicator.cc:1492), and handle_stop on a failed listening *)
(* descriptor (Communicator.cc:862).                                        *)
NoUseAfterFree ==
    /\ \A c \in Conns :
        LET r == conn[c] IN
        /\ r.memory = "freed" =>
              /\ r.node = "none" /\ r.hand = "none" /\ Results(c) + Repliers(c) = 0
              /\ ~r.idle /\ ~Contains(svc.alive_list, c) /\ svc.marking # c
        /\ r.mutex # None /\ r.tref = 0 =>
              r.mutex \in Sessions /\ spc[r.mutex] \in {"unlock", "deleted_locked"}
    /\ pc[Main] = "finished" =>
        /\ svc.ref = 0 /\ svc.unbound = 1 /\ svc.mutex = None
        /\ svc.node = "none" /\ svc.conn_count = 0
        /\ \A c \in Conns : conn[c].tref = 0 /\ ~Accepted(c)

(* The keep-alive list holds, once each, living entries that wait for a     *)
(* request, and every such entry until its end is handled, so that drain    *)
(* misses none and list_del finds what it removes; an unbound service that  *)
(* was drained lists none (Communicator.cc:158-182, 367-391, 525-530,       *)
(* 679-699, 1037-1043).                                                     *)
EndToCome(c) ==
    \/ conn[c].node # "none"
    \/ \E r \in ToSet(conn[c].pipe) \cup ToSet(msgqueue)
                  \cup {job[h] : h \in Handlers \cap At("read")} :
          r.conn = c /\ r.op = "read" /\ IsEnd(r)
ListedIsAlive ==
    /\ IsInjective(svc.alive_list)
    /\ \A c \in ToSet(svc.alive_list) :
          conn[c].memory = "live" /\ conn[c].state = "keepalive" /\ svc.marking # c
    /\ \A c \in Conns :
          conn[c].state = "keepalive" /\ EndToCome(c) /\ svc.marking # c
            => Contains(svc.alive_list, c)
    /\ ~Bound => svc.alive_list = <<>>

(* Connections that the server does not already close are never more than   *)
(* max_connections (WFServer.cc:87-101).                                    *)
ConnsBounded ==
    Cardinality({c \in Conns : conn[c].memory = "live" /\ conn[c].state # "closing"})
        <= MaxConns

(* A session is ended once, by whoever has it: the handler of a result, or  *)
(* its user's thread (Communicator.cc:522-566, 702-717, 1503-1525).         *)
EndedOnce ==
    \A h, g \in Handlers :
        pc[h] = "finish" =>
            /\ spc[<<job[h].conn, job[h].seq>>] \in
                  IF job[h].out = "toreply" THEN {"reading"}
                  ELSE {"reading", "given", "unlock"}
            /\ pc[g] = "finish" /\ h # g =>
                  <<job[h].conn, job[h].seq>> # <<job[g].conn, job[g].seq>>

(* A client that waits for each reply before it sends its next request is   *)
(* served: the request does not find the entry between two states, while    *)
(* the thread that has just written the reply is still in reply_idle_conn   *)
(* or handle_reply_result (Communicator.cc:1030-1043).                      *)
NextRequestServed == ~wronged

(* Every request of such a client gets a session that is ended once. *)
ServedOnce == NextRequestServed /\ EndedOnce

(* When nothing more can happen to the server, every connection was freed   *)
(* and uncounted and handle_unbound was called, so that wait_finish returns *)
(* (Communicator.cc:189-211, 309-325, 554-566, 713-717, 1516-1525;          *)
(* WFServer.cc:25-28, 108-114, 185-198).                                    *)
NothingLeaks ==
    /\ pc[Main] = "wait" /\ svc.node = "none" /\ msgqueue = <<>>
    /\ \A h \in Handlers : pc[h] = "get"
    /\ \A s \in Sessions : spc[s] \in {"none", "deleted"}
    /\ \A c \in Conns : conn[c].node = "none" /\ conn[c].pipe = <<>>
    => /\ \A c \in Conns : conn[c].memory # "live"
       /\ svc.conn_count = 0 /\ svc.unbound = 1

=============================================================================
