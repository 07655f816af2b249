------------------------------ MODULE WebServer ------------------------------
(***************************************************************************)
(* The Beast web server: a Listener that accepts connections, and for each *)
(* connection a DetectSession that turns into a PlainSession or an         *)
(* SSLSession, the HTTP Session that reads a request and writes a response *)
(* in turn.  A connection has one operation under way at a time; an action *)
(* is the completion of that operation together with its handler.          *)
(***************************************************************************)
EXTENDS Integers, Sequences

CONSTANTS
    Clients,       \* connections
    Methods,       \* the methods of their requests
    MaxRequests    \* bound: requests of a connection

ASSUME WebServerAssumption ==
    /\ Methods \subseteq {"GET", "OPTIONS", "POST"}
    /\ MaxRequests \in Nat

VARIABLES
    listening,    \* the Listener's constructor succeeded
    accepting,    \* an async_accept is under way
    stage,        \* where each connection is
    tls,          \* whether it is an SSLSession
    expires,      \* whether the stream's time-out is set
    keepAlive,    \* keep_alive() of the response that is being written
    requests,     \* history: requests read
    responses     \* history: the status of the responses written

listenVars == <<listening, accepting>>
httpVars == <<keepAlive, requests, responses>>
vars == <<listening, accepting, stage, tls, expires, keepAlive, requests,
          responses>>

Sessions == {"detect", "handshake", "read", "write", "shutdown"}
---------------------------------------------------------------------------
(***************************************************************************)
(* The listener.                                                           *)
(***************************************************************************)

Connects(c) ==
    /\ listening
    /\ stage[c] = "away"
    /\ stage' = [stage EXCEPT ![c] = "backlog"]
    /\ UNCHANGED <<listenVars, tls, expires, httpVars>>

\* onAccept(): the DetectSession sets its time-out and starts to detect TLS.
OnAccept(c) ==
    /\ accepting /\ listening
    /\ stage[c] = "backlog"
    /\ stage' = [stage EXCEPT ![c] = "detect"]
    /\ expires' = [expires EXCEPT ![c] = TRUE]
    /\ accepting' = TRUE
    /\ UNCHANGED <<listening, tls, httpVars>>

\* Mutant: an error closes the acceptor.
OnAcceptErrorCloses ==
    /\ accepting
    /\ accepting' = TRUE
    /\ listening' = FALSE
    /\ UNCHANGED <<stage, tls, expires, httpVars>>

\* onAccept() with an error accepts again.
OnAcceptError ==
    /\ accepting
    /\ accepting' = TRUE
    /\ UNCHANGED <<listening, stage, tls, expires, httpVars>>
---------------------------------------------------------------------------
(***************************************************************************)
(* The sessions.                                                           *)
(***************************************************************************)

\* Mutant: the stream made from the detector's socket gets no time-out of its
\* own before the handshake.
OnDetectForgets(c) ==
    /\ stage[c] = "detect"
    /\ \E ssl \in BOOLEAN :
          /\ tls' = [tls EXCEPT ![c] = ssl]
          /\ stage' = [stage EXCEPT ![c] = IF ssl THEN "handshake" ELSE "read"]
          /\ expires' = [expires EXCEPT ![c] = ~ssl]
    /\ UNCHANGED <<listenVars, httpVars>>

\* onDetect() moves the socket into a new stream, which has no time-out; run()
\* of the new session sets one, through doRead() where there is no handshake.
OnDetect(c) ==
    /\ stage[c] = "detect"
    /\ \E ssl \in BOOLEAN :
          /\ tls' = [tls EXCEPT ![c] = ssl]
          /\ stage' = [stage EXCEPT ![c] = IF ssl THEN "handshake" ELSE "read"]
          /\ expires' = [expires EXCEPT ![c] = TRUE]
    /\ UNCHANGED <<listenVars, httpVars>>

OnHandshake(c) ==
    /\ stage[c] = "handshake"
    /\ stage' = [stage EXCEPT ![c] = "read"]
    /\ expires' = [expires EXCEPT ![c] = TRUE]
    /\ UNCHANGED <<listenVars, tls, httpVars>>

\* Mutant: a GET gets a status that no handler sets.
HandleRequestFalls(method) == IF method = "OPTIONS" THEN 204 ELSE 0

\* handleRequest(): the call of the callback for a GET is commented out.
HandleRequest(method) ==
    CASE method = "OPTIONS" -> 204
      [] method \notin {"OPTIONS", "GET"} -> 400
      [] method = "GET" -> 500

\* onRead() and sendResponse(): the write has what is left of the time-out.
OnRead(c) ==
    /\ stage[c] = "read"
    /\ Len(requests[c]) < MaxRequests
    /\ \E m \in Methods : requests' = [requests EXCEPT ![c] = Append(@, m)]
    /\ \E k \in BOOLEAN : keepAlive' = [keepAlive EXCEPT ![c] = k]
    /\ stage' = [stage EXCEPT ![c] = "write"]
    /\ UNCHANGED <<listenVars, tls, expires, responses>>

\* closeConnection(): a TCP shutdown, after which nothing holds the session, or
\* an asynchronous TLS shutdown.
CloseConnection(c) ==
    /\ stage' = [stage EXCEPT ![c] = IF tls[c] THEN "shutdown" ELSE "gone"]
    /\ expires' = [expires EXCEPT ![c] = @ \/ tls[c]]

OnEndOfStream(c) ==
    /\ stage[c] = "read"
    /\ CloseConnection(c)
    /\ UNCHANGED <<listenVars, tls, httpVars>>

Respond(c) ==
    LET n == Len(requests[c]) IN
    responses' = [responses EXCEPT ![c] =
                      Append(@, HandleRequest(requests[c][n]))]

\* Mutant: the connection stays open whatever the response says.
OnWriteReads(c) ==
    /\ stage[c] = "write"
    /\ Respond(c)
    /\ stage' = [stage EXCEPT ![c] = "read"]
    /\ expires' = [expires EXCEPT ![c] = TRUE]
    /\ UNCHANGED <<listenVars, tls, keepAlive, requests>>

\* Mutant: the next request is read without waiting for the write.
OnWriteSkips(c) ==
    /\ stage[c] = "write"
    /\ stage' = [stage EXCEPT ![c] = "read"]
    /\ expires' = [expires EXCEPT ![c] = TRUE]
    /\ UNCHANGED <<listenVars, tls, httpVars>>

\* onWrite() closes the connection, or doRead() sets a new time-out and reads.
OnWrite(c) ==
    /\ stage[c] = "write"
    /\ Respond(c)
    /\ IF keepAlive[c]
       THEN /\ stage' = [stage EXCEPT ![c] = "read"]
            /\ expires' = [expires EXCEPT ![c] = TRUE]
       ELSE CloseConnection(c)
    /\ UNCHANGED <<listenVars, tls, keepAlive, requests>>

\* onShutdown()
OnShutdown(c) ==
    /\ stage[c] = "shutdown"
    /\ stage' = [stage EXCEPT ![c] = "gone"]
    /\ UNCHANGED <<listenVars, tls, expires, httpVars>>

\* Every handler returns on an error and so lets go of the session.
Drop(c) ==
    /\ stage[c] \in Sessions
    /\ stage' = [stage EXCEPT ![c] = "gone"]
    /\ UNCHANGED <<listenVars, tls, expires, httpVars>>

OnError(c) == Drop(c)
OnTimeOut(c) == expires[c] /\ Drop(c)
---------------------------------------------------------------------------
\* The constructor may fail; run() accepts all the same.
Init ==
    /\ listening \in BOOLEAN
    /\ accepting = TRUE
    /\ stage = [c \in Clients |-> "away"]
    /\ tls = [c \in Clients |-> FALSE]
    /\ expires = [c \in Clients |-> FALSE]
    /\ keepAlive = [c \in Clients |-> TRUE]
    /\ requests = [c \in Clients |-> <<>>]
    /\ responses = [c \in Clients |-> <<>>]

Step(c) ==
    \/ Connects(c) \/ OnAccept(c) \/ OnDetect(c) \/ OnHandshake(c)
    \/ OnRead(c) \/ OnEndOfStream(c) \/ OnWrite(c) \/ OnShutdown(c)
    \/ OnError(c) \/ OnTimeOut(c)

Next == OnAcceptError \/ \E c \in Clients : Step(c)

\* Accepting does not fail for ever, and a time-out that is set fires.  Peers
\* need not do anything.
Fairness ==
    \A c \in Clients : WF_vars(OnAccept(c)) /\ WF_vars(OnTimeOut(c))

Spec == Init /\ [][Next]_vars /\ Fairness
---------------------------------------------------------------------------
\* The types of the server's state.
TypeOK ==
    /\ listening \in BOOLEAN
    /\ accepting \in BOOLEAN
    /\ stage \in [Clients -> Sessions \cup {"away", "backlog", "gone"}]
    /\ tls \in [Clients -> BOOLEAN]
    /\ expires \in [Clients -> BOOLEAN]
    /\ keepAlive \in [Clients -> BOOLEAN]
    /\ requests \in [Clients -> Seq(Methods)]
    /\ responses \in [Clients -> Seq({204, 400, 500})]

\* A connection has one response to each request, in order, before the next
\* request is read, on both kinds of stream.
OneResponseEach ==
    \A c \in Clients :
        /\ \A i \in 1..Len(responses[c]) :
               responses[c][i] = HandleRequest(requests[c][i])
        /\ stage[c] \in {"read", "shutdown"} =>
               Len(responses[c]) = Len(requests[c])

\* After a response without keep-alive no request is read from the connection.
CloseHonoured ==
    [][\A c \in Clients :
          requests'[c] # requests[c] /\ requests[c] # <<>> => keepAlive[c]]_vars

\* A connection that waits is accepted, whatever errors the accepts before it
\* met.
Accepted == \A c \in Clients : stage[c] = "backlog" ~> stage[c] # "backlog"

\* A connection whose peer falls silent at any point is released: there is a
\* time-out on every operation, the ones on moved sockets included.
Reaped == \A c \in Clients : stage[c] = "detect" ~> stage[c] = "gone"
===========================================================================
