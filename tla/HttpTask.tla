------------------------------ MODULE HttpTask ------------------------------
(***************************************************************************)
(* An HTTP client task: WFComplexClientTask of factory/WFTaskFactory.h and *)
(* ComplexHttpTask of factory/HttpTaskImpl.cc, with the response that      *)
(* HttpParser makes of what a server sends.  The task is routed, sends its *)
(* request, reads the response piece by piece, and is then sent again, by  *)
(* a redirection or a retry, or calls back and is deleted.                 *)
(*                                                                         *)
(* Names of a server's answer are as in HttpParser.  External: the router  *)
(* task and the name service policy (declared but not defined in this      *)
(* version), the scheduler and the timer.  Left out: malloc failing.       *)
(***************************************************************************)
EXTENDS HttpParser

CONSTANTS Answers,       \* what servers answer: records, see Bytes
          Methods,       \* methods of the request
          RetryMax, RedirectMax,
          AgainMax               \* bound: redirections by the callback itself

ASSUME TaskAssumption == {RetryMax, RedirectMax, AgainMax} \subseteq Nat

VARIABLES
    task,       \* the fields of the task
    resp,       \* its response
    answer,     \* what the server answers to the request
    sent,       \* how many tokens of it have arrived
    pc,         \* where the task is
    callbacks,  \* how often the callback was called
    again       \* how often it redirected the task

vars == <<task, resp, answer, sent, pc, callbacks, again>>

-----------------------------------------------------------------------------
(* Answers: interim responses with code 100, a start line, headers, the     *)
(* data of the body and the way it is sent, and what comes after it.        *)

Line(tokens) == tokens \o <<"CR", "LF">>
HeaderLines(headers) ==
    FlattenSeq([i \in DOMAIN headers |-> Line(<<headers[i][1], ":">> \o headers[i][2])])
Coded(a) ==
    IF ~a.inchunks THEN a.data
    ELSE FlattenSeq([i \in DOMAIN a.data |-> Line(<<"one">>) \o Line(<<a.data[i]>>)])
         \o Line(<<"zero">>) \o a.trailer \o Line(<<>>)

(* A server sends no body in answer to HEAD. *)
Message(a, method) ==
    Line(<<a.start>>) \o HeaderLines(a.headers) \o Line(<<>>)
        \o (IF method = "HEAD" THEN <<>> ELSE Coded(a))
Interim(a) == FlattenSeq([i \in 1 .. a.interim |-> Line(<<"continue">>) \o Line(<<>>)])
Bytes(a, method) == Interim(a) \o Message(a, method) \o a.behind

-----------------------------------------------------------------------------
(* The fields of the task *)

ClearPrevState(t) == [t EXCEPT !.routed = FALSE, !.retry_times = 0,
                               !.state = "UNDEFINED", !.error = "none"]

(* URIs: one for HTTP, and those that do not parse, that have a port out of *)
(* range, none and a scheme without one, or a scheme that is not HTTP.      *)
Uris == {"http", "unparsable", "badport", "noport", "https"}
SetPort(uri) == uri \notin {"badport", "noport"}
InitSuccess(uri) == uri # "https"

InitWithUri(t, uri) ==
    LET c == IF t.redirect THEN ClearPrevState(t) ELSE t
    IN IF uri # "unparsable" /\ SetPort(uri) /\ InitSuccess(uri) THEN c
       ELSE [c EXCEPT !.state = "TASK_ERROR", !.error = "uri"]

Created(method, ns_policy) ==
    [state |-> "UNDEFINED", error |-> "none", method |-> method, ns_policy |-> ns_policy,
     redirect |-> FALSE, retry_times |-> 0, redirect_count |-> 0,
     target |-> FALSE,     \* whether there is one
     routed |-> FALSE]     \* route_result_.request_object

Init ==
    /\ task \in {InitWithUri(Created(m, ns), uri) : m \in Methods, ns \in BOOLEAN, uri \in Uris}
    /\ resp = NewResponse
    /\ answer \in {CHOOSE a \in Answers : TRUE}
    /\ sent = 0 /\ pc = "dispatch" /\ callbacks = 0 /\ again = 0

(* check_response: "Servers can end the message by closing the connection." *)
EndParsing(r) == [r EXCEPT !.parser.complete = TRUE]
EndsByClose(p) ==
    p.header_state = "header_complete" /\ ~p.keep_alive /\ ~p.chunked /\ ~p.has_content_length
CheckResponse(t, p) ==
    IF t.state = "SYS_ERROR" /\ t.error = "ECONNRESET" /\ EndsByClose(p)
    THEN [t EXCEPT !.state = "SUCCESS", !.error = "none"] ELSE t

Uncounted(t) == t                                                               \* mutant
RedirectCounted(t) == [t EXCEPT !.redirect_count = @ + 1]

SetRedirect(t, uri) == InitWithUri([t EXCEPT !.redirect = TRUE], uri)

(* need_redirect and redirect_url *)
Redirect(t, p) ==
    LET url == Find(p, <<"Location">>)
        r == RedirectCounted(t)
    IN
    IF p.code \notin {302, 307} \/ t.redirect_count >= RedirectMax THEN t
    ELSE IF url = <<>>
    THEN [r EXCEPT !.state = "TASK_ERROR", !.error = "location", !.retry_times = RetryMax]
    ELSE SetRedirect([r EXCEPT !.method = IF p.code = 302 /\ @ # "HEAD" THEN "GET" ELSE @],
                     url[1])

FinishOnce(t, p) ==
    LET c == IF t.state = "SUCCESS" THEN t ELSE CheckResponse(t, p)
    IN IF c.state = "SUCCESS" THEN Redirect(c, p) ELSE c

Retry(t) ==
    IF t.state # "SYS_ERROR" \/ t.retry_times >= RetryMax THEN t
    ELSE [t EXCEPT !.redirect = TRUE, !.retry_times = @ + 1, !.state = "UNDEFINED",
                   !.error = "none", !.routed = @ /\ ~t.ns_policy]

-----------------------------------------------------------------------------
(* Steps *)

DispatchAgain(t) ==
    /\ task' = [t EXCEPT !.redirect = FALSE, !.target = FALSE]
    /\ resp' = NewResponse /\ pc' = "dispatch"

(* To be dispatched once more, or called back and then deleted, unless the  *)
(* callback calls set_redirect.                                             *)
SwitchCallback(t, r) ==
    IF t.redirect
    THEN DispatchAgain(t) /\ UNCHANGED <<callbacks, again>>
    ELSE /\ callbacks' = callbacks + 1
         /\ \/ task' = t /\ resp' = r /\ pc' = "deleted" /\ UNCHANGED again
            \/ /\ again < AgainMax /\ again' = again + 1
               /\ \E uri \in Uris : DispatchAgain(SetRedirect(t, uri))

(* done, of a task that is not being routed.  Without a target the callback *)
(* is left to a timer.                                                      *)
Done(t) ==
    LET f == Retry(FinishOnce(t, resp.parser))
        r == IF t.state = "SUCCESS" THEN resp ELSE EndParsing(resp)
    IN
    IF f.target THEN SwitchCallback(f, r)
    ELSE task' = f /\ resp' = r /\ pc' = "timer" /\ UNCHANGED <<callbacks, again>>

(* CommRequest::handle *)
Handled(t, state, error) == [t EXCEPT !.state = state, !.error = error]

(* WFClientTask::dispatch: the scheduler takes the request, or fails with   *)
(* or without a target.                                                     *)
Request(t) ==
    \/ \E a \in Answers :
        /\ answer' = a /\ sent' = 0 /\ pc' = "exchange"
        /\ task' = [t EXCEPT !.target = TRUE]
        /\ UNCHANGED <<resp, callbacks, again>>
    \/ \E target \in BOOLEAN :
        /\ Done(Handled([t EXCEPT !.target = target], "SYS_ERROR", "other"))
        /\ UNCHANGED <<answer, sent>>

Dispatch ==
    /\ pc = "dispatch"
    /\ \/ /\ task.state = "SUCCESS" \/ (task.state = "UNDEFINED" /\ task.routed)
          /\ Request(task)
       \/ /\ task.state = "UNDEFINED" /\ ~task.routed
          /\ pc' = "routing" /\ UNCHANGED <<task, resp, answer, sent, callbacks, again>>
       \/ /\ task.state \notin {"SUCCESS", "UNDEFINED"}
          /\ Done(task) /\ UNCHANGED <<answer, sent>>

(* The router task has ended, and the task is the next one of its series.   *)
RouterCallback ==
    /\ pc = "routing" /\ pc' = "dispatch"
    /\ task' \in {[task EXCEPT !.state = "SUCCESS", !.routed = TRUE],
                  Handled(task, "SYS_ERROR", "other"), Handled(task, "DNS_ERROR", "other")}
    /\ UNCHANGED <<resp, answer, sent, callbacks, again>>

(* message_in tells the parser of HEAD, with the first bytes.               *)
MessageIn(r) ==
    IF task.method = "HEAD" /\ sent = 0 THEN [r EXCEPT !.parser.transfer_length = 0] ELSE r

Receive ==
    LET bytes == Bytes(answer, task.method) IN
    /\ pc = "exchange"
    /\ \E n \in sent + 1 .. Len(bytes) :
        /\ resp' = Read(MessageIn(resp), SubSeq(bytes, sent + 1, n))
        /\ sent' = n
    /\ pc' = IF resp'.ret = 0 THEN "exchange" ELSE "answered"
    /\ UNCHANGED <<task, answer, callbacks, again>>

(* The handler thread has the result of a response that is complete or bad; *)
Answered ==
    /\ pc = "answered"
    /\ Done(IF resp.ret > 0 THEN Handled(task, "SUCCESS", "none")
                            ELSE Handled(task, "SYS_ERROR", "EBADMSG"))
    /\ UNCHANGED <<answer, sent>>

(* or the connection ended before, was in error or timed out, or the        *)
(* communicator is being stopped.                                           *)
ConnEnds ==
    /\ pc = "exchange"
    /\ \E end \in {<<"SYS_ERROR", "ECONNRESET">>, <<"SYS_ERROR", "other">>,
                   <<"STOPPED", "none">>} :
          Done(Handled(task, end[1], end[2]))
    /\ UNCHANGED <<answer, sent>>

TimerCallback ==
    /\ pc = "timer"
    /\ SwitchCallback(task, resp)
    /\ UNCHANGED <<answer, sent>>

Next ==
    \/ Dispatch \/ RouterCallback \/ Receive \/ Answered \/ ConnEnds \/ TimerCallback
    \/ pc = "deleted" /\ UNCHANGED vars

(* The router, the timer and the handler threads go on, and a server that   *)
(* does not answer is given up.                                             *)
Fairness ==
    /\ WF_vars(Dispatch) /\ WF_vars(RouterCallback) /\ WF_vars(Answered)
    /\ WF_vars(ConnEnds) /\ WF_vars(TimerCallback)

Spec == Init /\ [][Next]_vars /\ Fairness

-----------------------------------------------------------------------------
(* Properties *)

(* Whatever the pieces are in which a response arrives, the parser is where *)
(* it would be had everything come at once, and it starts anew with each    *)
(* attempt (http_parser.c:332-428, 561-634; HttpMessage.cc:323-338;         *)
(* WFTaskFactory.h:307-313).                                                *)
PiecesEqualWhole ==
    LET new == [NewResponse EXCEPT !.parser.transfer_length =
                    IF task.method = "HEAD" /\ sent > 0 THEN 0 ELSE @]
        whole == Read(new, SubSeq(Bytes(answer, task.method), 1, sent))
    IN pc \in {"exchange", "answered"} =>
           whole.ret = resp.ret /\ (resp.ret # Error => whole = resp)

(* What ends a well-formed answer, from its headers: no body, its chunks,   *)
(* its length, or the connection.                                           *)
Header(a, name) == SelectSeq(a.headers, LAMBDA h : h[1] = name)
Bodiless(a) == task.method = "HEAD" \/ a.start = "nothing"
HasLength(a) == Bodiless(a) \/ a.inchunks \/ Header(a, "Content-Length") # <<>>
Whole(a) == Len(Interim(a)) + Len(Message(a, task.method))

(* A well-formed response is refused for its size only.  It is taken for    *)
(* complete exactly when its last byte has arrived, none of what comes      *)
(* after it is taken, and the data of its body is found; a response that    *)
(* was cut off is never a success, unless its end is that of the connection *)
(* (http_parser.c:432-534, 596-633; HttpMessage.cc:186-206, 323-338;        *)
(* HttpUtil.cc:404-447; HttpTaskImpl.cc:291-308).  Not so for HEAD after a  *)
(* response with code 100, which resets transfer_length.                    *)
SuccessIsWhole ==
    LET p == resp.parser IN
    answer.wellformed =>
        /\ pc = "answered" /\ resp.ret > 0 =>
              /\ resp.cur_size = Whole(answer) /\ HasLength(answer)
              /\ ChunkCursor(p) = IF Bodiless(answer) THEN <<>> ELSE answer.data
        /\ pc = "answered" => resp.ret > 0 \/ resp.cur_size > SizeLimit
        /\ pc = "exchange" /\ sent >= Whole(answer) =>
              \/ ~HasLength(answer)
              \/ task.method = "HEAD" /\ answer.interim > 0
        /\ pc = "deleted" /\ task.state = "SUCCESS" /\ resp.ret = 0 =>
              ~HasLength(answer) /\ p.keep_alive = FALSE
        /\ pc = "deleted" /\ task.state = "SUCCESS" /\ p.code \in {302, 307} =>
              task.redirect_count = RedirectMax

(* After at most RedirectMax redirections, with at most RetryMax retries    *)
(* each, the callback is called, just once, and once more for each time     *)
(* that it calls set_redirect itself, and the task is deleted               *)
(* (WFTaskFactory.h:286-383; HttpTaskImpl.cc:212-324).                      *)
CalledBackOnce == <>[](pc = "deleted" /\ callbacks = again + 1)

=============================================================================
