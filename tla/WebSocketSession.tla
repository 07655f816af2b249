-------------------------- MODULE WebSocketSession --------------------------
(***************************************************************************)
(* WebSocketSession: the asynchronous read and write loops of one          *)
(* connection.  Its handlers run one at a time on the connection's strand; *)
(* the operations they start complete at any time, and the completion      *)
(* handlers and the posted calls of queueSend() then wait for the strand,  *)
(* in any order but each kind in its own.  An operation's state is idle    *)
(* (not started), pending, or how it completed.  The response to the n-th  *)
(* request is the number n.  A session lives as long as an operation or a  *)
(* posted call holds a pointer to it.                                      *)
(***************************************************************************)
EXTENDS Integers, Sequences

CONSTANT MaxRequests    \* bound: requests the peer sends

ASSUME MaxRequestsAssumption == MaxRequests \in Nat

VARIABLES
    accept,           \* async_accept
    read,             \* async_read
    received,         \* requests read so far
    posted,           \* responses in posted calls of queueSend()
    mResponseQueue,
    writing,          \* async_write operations whose handler has not run
    write,            \* the oldest of them, or `failed': onWrite() met an error
    replied,          \* history: responses given to reply(), in order
    written           \* history: responses written to the peer, in order

readVars == <<accept, read, received>>
vars == <<accept, read, received, posted, mResponseQueue, writing, write,
          replied, written>>
---------------------------------------------------------------------------
(***************************************************************************)
(* Operations complete (Beast and the peer).                               *)
(***************************************************************************)

AcceptCompletes ==
    /\ accept = "pending"
    /\ accept' \in {"ok", "error"}
    /\ UNCHANGED <<read, received, posted, mResponseQueue, writing, write,
                   replied, written>>

\* A request arrives; or the peer closes, the stream fails or times out.
ReadCompletes ==
    /\ read = "pending"
    /\ \/ /\ received < MaxRequests
          /\ received' = received + 1
          /\ read' = "ok"
       \/ /\ read' = "error"
          /\ UNCHANGED received
    /\ UNCHANGED <<accept, posted, mResponseQueue, writing, write, replied,
                   written>>

WriteCompletes ==
    /\ writing > 0
    /\ write = "pending"
    /\ \/ /\ write' = "ok"
          /\ written' = Append(written, Head(mResponseQueue))
       \/ /\ write' = "error"
          /\ UNCHANGED written
    /\ UNCHANGED <<readVars, posted, mResponseQueue, writing, replied>>
---------------------------------------------------------------------------
(***************************************************************************)
(* Handlers.                                                               *)
(***************************************************************************)

OnAccept ==
    /\ accept \in {"ok", "error"}
    /\ accept' = "idle"
    /\ read' = IF accept = "ok" THEN "pending" ELSE read
    /\ UNCHANGED <<received, posted, mResponseQueue, writing, write, replied,
                   written>>

\* Mutant: the session reads again after an error.
OnReadRetries ==
    /\ read \in {"ok", "error"}
    /\ IF read = "error"
       THEN UNCHANGED <<posted, replied>>
       ELSE /\ posted' = Append(posted, received)
            /\ replied' = Append(replied, received)
    /\ read' = "pending"
    /\ UNCHANGED <<accept, received, mResponseQueue, writing, write, written>>

\* reply() posts the response of the callback handler or, when that throws or
\* returns nothing, an error message; then the next read starts.  A request
\* for which even that message fails gets no response.
OnRead ==
    \/ /\ read = "ok"
       /\ \/ /\ posted' = Append(posted, received)
             /\ replied' = Append(replied, received)
          \/ UNCHANGED <<posted, replied>>
       /\ read' = "pending"
       /\ UNCHANGED <<accept, received, mResponseQueue, writing, write,
                      written>>
    \/ /\ read = "error"
       /\ read' = "idle"
       /\ UNCHANGED <<accept, received, posted, mResponseQueue, writing,
                      write, replied, written>>

AsyncWrite(outstanding) ==
    /\ writing' = outstanding + 1
    /\ write' = IF outstanding = 0 THEN "pending" ELSE write

\* Mutant: a write starts although one is outstanding.
QueueSendWrites ==
    /\ posted # <<>>
    /\ posted' = Tail(posted)
    /\ mResponseQueue' = Append(mResponseQueue, Head(posted))
    /\ AsyncWrite(writing)
    /\ UNCHANGED <<readVars, replied, written>>

\* queueSend() starts a write only for the first response in the queue.
QueueSend ==
    /\ posted # <<>>
    /\ posted' = Tail(posted)
    /\ mResponseQueue' = Append(mResponseQueue, Head(posted))
    /\ IF Len(mResponseQueue') > 1
       THEN UNCHANGED <<writing, write>>
       ELSE AsyncWrite(writing)
    /\ UNCHANGED <<readVars, replied, written>>

\* Mutant: the response that was written stays in the queue.
OnWriteKeeps ==
    /\ write \in {"ok", "error"}
    /\ IF write = "ok"
       THEN AsyncWrite(writing - 1)
       ELSE writing' = writing - 1 /\ write' = "failed"
    /\ UNCHANGED <<readVars, posted, mResponseQueue, replied, written>>

\* Mutant: the responses that were queued during the write are forgotten.
OnWriteStops ==
    /\ write \in {"ok", "error"}
    /\ mResponseQueue' = IF write = "ok" THEN Tail(mResponseQueue)
                         ELSE mResponseQueue
    /\ writing' = writing - 1
    /\ write' = IF write = "ok" THEN "idle" ELSE "failed"
    /\ UNCHANGED <<readVars, posted, replied, written>>

\* onWrite() removes the response and writes the next one.  After an error it
\* returns at once: the response stays, so that queueSend() never writes again.
OnWrite ==
    \/ /\ write = "ok"
       /\ mResponseQueue' = Tail(mResponseQueue)
       /\ IF mResponseQueue' # <<>>
          THEN AsyncWrite(writing - 1)
          ELSE writing' = writing - 1 /\ write' = "idle"
       /\ UNCHANGED <<readVars, posted, replied, written>>
    \/ /\ write = "error"
       /\ writing' = writing - 1
       /\ write' = "failed"
       /\ UNCHANGED <<readVars, posted, mResponseQueue, replied, written>>

Handler == OnAccept \/ OnRead \/ QueueSend \/ OnWrite
---------------------------------------------------------------------------
Init ==
    /\ accept = "pending"
    /\ read = "idle"
    /\ received = 0
    /\ posted = <<>>
    /\ mResponseQueue = <<>>
    /\ writing = 0
    /\ write = "idle"
    /\ replied = <<>>
    /\ written = <<>>

\* No operation and no posted call is left: the session is destroyed.
Gone ==
    /\ accept = "idle" /\ read = "idle"
    /\ posted = <<>> /\ writing = 0

Destroyed == Gone /\ UNCHANGED vars

Next == AcceptCompletes \/ ReadCompletes \/ WriteCompletes \/ Handler
        \/ Destroyed

\* The io_context runs every handler that is ready, and a handshake or a write
\* ends by the stream's time-outs at the latest.  The peer need not send.
Fairness ==
    /\ WF_vars(AcceptCompletes)
    /\ WF_vars(WriteCompletes)
    /\ WF_vars(OnAccept) /\ WF_vars(OnRead)
    /\ WF_vars(QueueSend) /\ WF_vars(OnWrite)

Spec == Init /\ [][Next]_vars /\ Fairness
---------------------------------------------------------------------------
Request == 1..MaxRequests

\* The types of the session's members and of its operations.
TypeOK ==
    /\ accept \in {"idle", "pending", "ok", "error"}
    /\ read \in {"idle", "pending", "ok", "error"}
    /\ received \in 0..MaxRequests
    /\ posted \in Seq(Request)
    /\ mResponseQueue \in Seq(Request)
    /\ writing \in Nat
    /\ write \in {"idle", "pending", "ok", "error", "failed"}
    /\ replied \in Seq(Request)
    /\ written \in Seq(Request)

\* A stream carries one async_write at a time, which Beast requires: the length
\* of the queue stands in for a flag, also after a write that failed.
SingleWriter == writing <= 1

\* What the peer has been sent is a prefix of what reply() was given: no
\* response is lost, repeated or overtaken between reply() and the stream.
NoGaps ==
    /\ Len(written) <= Len(replied)
    /\ \A i \in 1..Len(written) : written[i] = replied[i]

\* A write has failed: its response stays in front of the queue.
Broken == write \in {"error", "failed"}

\* Every response that reply() is given is written unless a write fails.
Answered ==
    \A n \in 1..MaxRequests :
        Len(replied) >= n ~> (Len(written) >= n \/ Broken)

\* A session whose peer has gone is destroyed, however many responses it still
\* holds: its writes end and nothing else keeps it alive.
Released == read = "error" ~> Gone
===========================================================================
