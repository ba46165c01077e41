----------------------------- MODULE FifoQueue -----------------------------
(***************************************************************************)
(* What common/msgqueue promises its callers, without its two lists, its   *)
(* mutexes and its condition variables: one queue, in which messages are   *)
(* taken in the order they were accepted, which never holds more than      *)
(* Capacity messages while it blocks (msgqueue.h:13, "may reach two times  *)
(* 'maxlen'"), and from which a consumer comes back empty-handed only when *)
(* nothing is pending and the queue does not block.                        *)
(***************************************************************************)
EXTENDS Naturals, Sequences

CONSTANTS Consumers,   \* the threads that call msgqueue_get
          Messages,    \* what may be put
          NoMessage,   \* "nothing received yet"
          Capacity     \* the most that is pending in blocking mode

VARIABLES queue,       \* the pending messages, the oldest first
          received,    \* the message each consumer took last
          ended,       \* the consumers that were told there is nothing
          blocking     \* FALSE from the first switch to nonblocking mode

fifoVars == <<queue, received, ended, blocking>>

FifoInit ==
    /\ queue = <<>>
    /\ received = [c \in Consumers |-> NoMessage]
    /\ ended = {}
    /\ blocking = TRUE

Accept(m) ==
    /\ blocking => Len(queue) < Capacity
    /\ queue' = Append(queue, m)
    /\ UNCHANGED <<received, ended, blocking>>

Deliver(c) ==
    /\ c \notin ended
    /\ queue # <<>>
    /\ received' = [received EXCEPT ![c] = Head(queue)]
    /\ queue' = Tail(queue)
    /\ UNCHANGED <<ended, blocking>>

ReportEmpty(c) ==
    /\ queue = <<>>
    /\ ~blocking
    /\ ended' = ended \cup {c}
    /\ UNCHANGED <<queue, received, blocking>>

StopBlocking ==
    /\ blocking' = FALSE
    /\ UNCHANGED <<queue, received, ended>>

FifoNext ==
    \/ \E m \in Messages : Accept(m)
    \/ \E c \in Consumers : Deliver(c) \/ ReportEmpty(c)
    \/ StopBlocking

FifoSpec == FifoInit /\ [][FifoNext]_fifoVars

=============================================================================
