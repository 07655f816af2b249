-------------------------- MODULE WebServer_proofs --------------------------
(***************************************************************************)
(* Proofs for WebServer: every request of a connection gets one response,  *)
(* in order, and a response without keep-alive is the last, for any number *)
(* of connections and requests.                                            *)
(***************************************************************************)
EXTENDS WebServer, TLAPS

\* What a connection's stage says about its requests and responses.
ConnectionInv(c) ==
    /\ \A i \in 1..Len(responses[c]) :
           responses[c][i] = HandleRequest(requests[c][i])
    /\ Len(responses[c]) <= Len(requests[c])
    /\ stage[c] \in {"away", "backlog", "detect", "handshake"} =>
           requests[c] = <<>> /\ responses[c] = <<>>
    /\ stage[c] \in {"read", "shutdown"} =>
           Len(responses[c]) = Len(requests[c])
    /\ stage[c] = "write" => Len(requests[c]) = Len(responses[c]) + 1
    /\ stage[c] = "read" /\ requests[c] # <<>> => keepAlive[c]

IInv == TypeOK /\ \A c \in Clients : ConnectionInv(c)
---------------------------------------------------------------------------
\* handleRequest() has a status for every method.
LEMMA HandleRequestType ==
  ASSUME NEW m \in {"GET", "OPTIONS", "POST"}
  PROVE  HandleRequest(m) \in {204, 400, 500}
  BY DEF HandleRequest

\* A function to Booleans stays one.
LEMMA FlagSet ==
  ASSUME NEW S, NEW f \in [S -> BOOLEAN], NEW c \in S, NEW b \in BOOLEAN
  PROVE  [f EXCEPT ![c] = b] \in [S -> BOOLEAN]
  OBVIOUS

\* A connection whose members a step leaves alone keeps its invariant.
LEMMA ConnectionStill ==
  ASSUME NEW c \in Clients, ConnectionInv(c),
         stage'[c] = stage[c], requests'[c] = requests[c],
         responses'[c] = responses[c], keepAlive'[c] = keepAlive[c]
  PROVE  ConnectionInv(c)'
  BY DEF ConnectionInv

\* No connection has been made when the server starts.
LEMMA InitInvariant == Init => IInv
  <1> SUFFICES ASSUME Init PROVE IInv
    OBVIOUS
  <1>1. TypeOK
    BY DEF Init, TypeOK
  <1>2. ASSUME NEW c \in Clients PROVE ConnectionInv(c)
    BY DEF Init, ConnectionInv
  <1> QED BY <1>1, <1>2 DEF IInv

\* Steps that neither read a request nor write a response move a connection to
\* a stage that expects what it has.
QuietStep(c) ==
    \/ Connects(c) \/ OnAccept(c) \/ OnDetect(c) \/ OnHandshake(c)
    \/ OnEndOfStream(c) \/ OnShutdown(c) \/ OnError(c) \/ OnTimeOut(c)

LEMMA QuietStepKeeps ==
  ASSUME IInv, NEW c \in Clients, QuietStep(c)
  PROVE  IInv'
  <1> USE DEF IInv, QuietStep
  <1>1. /\ UNCHANGED <<keepAlive, requests, responses>>
        /\ \E x \in Sessions \cup {"backlog", "gone"} :
               /\ stage' = [stage EXCEPT ![c] = x]
               /\ \/ x \in {"backlog", "detect", "handshake"}
                     /\ stage[c] \in {"away", "backlog", "detect"}
                  \/ x = "read" /\ stage[c] \in {"detect", "handshake"}
                  \/ x = "shutdown" /\ stage[c] = "read"
                  \/ x = "gone"
    BY DEF Connects, OnAccept, OnDetect, OnHandshake, OnEndOfStream, OnShutdown,
       OnError, OnTimeOut, Drop, CloseConnection, httpVars, Sessions
  <1>2. /\ listening' \in BOOLEAN /\ accepting' \in BOOLEAN
        /\ tls' \in [Clients -> BOOLEAN] /\ expires' \in [Clients -> BOOLEAN]
    <2>1. UNCHANGED listening /\ accepting' \in {accepting, TRUE}
      BY DEF Connects, OnAccept, OnDetect, OnHandshake, OnEndOfStream,
         OnShutdown, OnError, OnTimeOut, Drop, listenVars
    <2>2. \/ UNCHANGED tls
          \/ \E b \in BOOLEAN : tls' = [tls EXCEPT ![c] = b]
      BY DEF Connects, OnAccept, OnDetect, OnHandshake, OnEndOfStream,
         OnShutdown, OnError, OnTimeOut, Drop
    <2>3. \/ UNCHANGED expires
          \/ \E b \in BOOLEAN : expires' = [expires EXCEPT ![c] = b]
      <3>1. CASE OnEndOfStream(c)
        BY <3>1 DEF OnEndOfStream, CloseConnection
      <3>2. CASE ~OnEndOfStream(c)
        BY <3>2 DEF Connects, OnAccept, OnDetect, OnHandshake, OnShutdown,
           OnError, OnTimeOut, Drop
      <3> QED BY <3>1, <3>2
    <2>4. /\ tls \in [Clients -> BOOLEAN] /\ expires \in [Clients -> BOOLEAN]
          /\ listening \in BOOLEAN /\ accepting \in BOOLEAN
      BY Zenon DEF TypeOK
    <2>5. tls' \in [Clients -> BOOLEAN]
      BY <2>2, <2>4, FlagSet, Zenon
    <2>6. expires' \in [Clients -> BOOLEAN]
      BY <2>3, <2>4, FlagSet, Zenon
    <2> QED BY <2>1, <2>4, <2>5, <2>6, Zenon
  <1>3. TypeOK'
    <2>1. stage' \in [Clients -> Sessions \cup {"away", "backlog", "gone"}]
      BY <1>1 DEF TypeOK, Sessions
    <2> QED BY <1>1, <1>2, <2>1, Zenon DEF TypeOK
  <1>4. ASSUME NEW d \in Clients PROVE ConnectionInv(d)'
    <2>1. CASE d # c
      BY <1>1, <2>1, ConnectionStill DEF TypeOK
    <2>2. CASE d = c
      BY <1>1, <2>2 DEF TypeOK, ConnectionInv
    <2> QED BY <2>1, <2>2
  <1> QED BY <1>3, <1>4

\* A request is read when all earlier ones have been answered.
LEMMA OnReadKeeps ==
  ASSUME IInv, NEW c \in Clients, OnRead(c)
  PROVE  IInv'
  <1> USE DEF IInv
  <1>1. PICK m \in Methods, k \in BOOLEAN :
          /\ stage[c] = "read" /\ stage' = [stage EXCEPT ![c] = "write"]
          /\ requests' = [requests EXCEPT ![c] = Append(requests[c], m)]
          /\ keepAlive' = [keepAlive EXCEPT ![c] = k]
          /\ UNCHANGED <<listening, accepting, tls, expires, responses>>
    BY DEF OnRead, listenVars
  <1>2. /\ requests[c] \in Seq(Methods)
        /\ requests'[c] = Append(requests[c], m)
        /\ requests'[c] \in Seq(Methods)
        /\ Len(requests'[c]) = Len(requests[c]) + 1 /\ Len(requests[c]) \in Nat
        /\ \A i \in 1..Len(requests[c]) : requests'[c][i] = requests[c][i]
    <2>1. requests[c] \in Seq(Methods) /\ requests'[c] = Append(requests[c], m)
      BY <1>1 DEF TypeOK
    <2>2. ASSUME NEW s \in Seq(Methods)
          PROVE  /\ Append(s, m) \in Seq(Methods)
                 /\ Len(Append(s, m)) = Len(s) + 1 /\ Len(s) \in Nat
                 /\ \A i \in 1..Len(s) : Append(s, m)[i] = s[i]
      OBVIOUS
    <2> QED BY <2>1, <2>2, Zenon
  <1>3. TypeOK'
    BY <1>1, <1>2 DEF TypeOK, Sessions
  <1>4. ASSUME NEW d \in Clients PROVE ConnectionInv(d)'
    <2>1. CASE d # c
      BY <1>1, <2>1, ConnectionStill DEF TypeOK
    <2>2. CASE d = c
      <3>1. /\ stage'[c] = "write" /\ UNCHANGED responses
            /\ Len(responses[c]) = Len(requests[c])
        BY <1>1 DEF TypeOK, ConnectionInv
      <3>2. \A i \in 1..Len(responses[c]) :
                responses[c][i] = HandleRequest(requests'[c][i])
        BY <1>2, <3>1 DEF ConnectionInv
      <3> QED BY <1>2, <2>2, <3>1, <3>2 DEF ConnectionInv
    <2> QED BY <2>1, <2>2
  <1> QED BY <1>3, <1>4

\* The response to the last request is written behind those to the others.
LEMMA OnWriteKeeps ==
  ASSUME IInv, NEW c \in Clients, OnWrite(c)
  PROVE  IInv'
  <1> USE DEF IInv
  <1> DEFINE r == HandleRequest(requests[c][Len(requests[c])])
  <1>1. /\ stage[c] = "write"
        /\ responses' = [responses EXCEPT ![c] = Append(responses[c], r)]
        /\ UNCHANGED <<listening, accepting, tls, keepAlive, requests>>
        /\ \E x \in {"read", "shutdown", "gone"} :
               /\ stage' = [stage EXCEPT ![c] = x]
               /\ x = "read" => keepAlive[c]
    BY DEF OnWrite, Respond, CloseConnection, listenVars
  <1>2. expires' \in [Clients -> BOOLEAN]
    <2>1. expires \in [Clients -> BOOLEAN] /\ tls \in [Clients -> BOOLEAN]
      BY Zenon DEF TypeOK
    <2>2. (expires[c] \/ tls[c]) \in BOOLEAN
      OBVIOUS
    <2>3. \E b \in BOOLEAN : expires' = [expires EXCEPT ![c] = b]
      <3>1. CASE keepAlive[c]
        BY <3>1 DEF OnWrite
      <3>2. CASE ~keepAlive[c]
        BY <2>2, <3>2 DEF OnWrite, CloseConnection
      <3> QED BY <3>1, <3>2
    <2> QED BY <2>1, <2>3, FlagSet, Zenon
  <1>3. /\ Len(requests[c]) = Len(responses[c]) + 1
        /\ r \in {204, 400, 500} /\ Len(responses[c]) \in Nat
    <2>1. /\ requests[c] \in Seq(Methods) /\ Len(responses[c]) \in Nat
          /\ Len(requests[c]) = Len(responses[c]) + 1
      BY <1>1 DEF TypeOK, ConnectionInv
    <2>2. requests[c][Len(requests[c])] \in Methods
      BY <2>1
    <2>3. r \in {204, 400, 500}
      <3>1. requests[c][Len(requests[c])] \in {"GET", "OPTIONS", "POST"}
        BY <2>2, WebServerAssumption
      <3> QED BY <3>1, HandleRequestType
    <2> QED BY <2>1, <2>3
  <1> DEFINE Status == {204, 400, 500}
  <1> HIDE DEF r, Status
  <1>4. /\ responses'[c] \in Seq(Status)
        /\ Len(responses'[c]) = Len(responses[c]) + 1
        /\ \A i \in 1..Len(responses[c]) : responses'[c][i] = responses[c][i]
        /\ responses'[c][Len(responses[c]) + 1] = r
    <2>1. /\ responses[c] \in Seq(Status)
          /\ responses'[c] = Append(responses[c], r)
      BY <1>1 DEF TypeOK, Status
    <2>2. ASSUME NEW s \in Seq(Status)
          PROVE  /\ Append(s, r) \in Seq(Status)
                 /\ Len(Append(s, r)) = Len(s) + 1
                 /\ \A i \in 1..Len(s) : Append(s, r)[i] = s[i]
                 /\ Append(s, r)[Len(s) + 1] = r
      BY <1>3 DEF Status
    <2> QED BY <2>1, <2>2, Zenon
  <1>5. TypeOK'
    <2>1. responses' \in [Clients -> Seq(Status)]
      BY <1>1, <1>4 DEF TypeOK, Status
    <2>2. stage' \in [Clients -> Sessions \cup {"away", "backlog", "gone"}]
      BY <1>1 DEF TypeOK, Sessions
    <2> QED BY <1>1, <1>2, <2>1, <2>2 DEF TypeOK, Status
  <1>6. ASSUME NEW d \in Clients PROVE ConnectionInv(d)'
    <2>1. CASE d # c
      BY <1>1, <2>1, ConnectionStill DEF TypeOK
    <2>2. CASE d = c
      <3>1. stage'[c] \in {"read", "shutdown", "gone"}
            /\ (stage'[c] = "read" => keepAlive[c])
        BY <1>1 DEF TypeOK
      <3>2. \A i \in 1..Len(responses'[c]) :
                responses'[c][i] = HandleRequest(requests[c][i])
        BY <1>3, <1>4 DEF ConnectionInv, r
      <3> QED BY <1>1, <1>3, <1>4, <2>2, <3>1, <3>2 DEF ConnectionInv
    <2> QED BY <2>1, <2>2
  <1> QED BY <1>5, <1>6

\* The invariant is inductive.
LEMMA StepInvariant ==
  ASSUME IInv, [Next]_vars
  PROVE  IInv'
  <1>1. CASE UNCHANGED vars \/ OnAcceptError
    <2>1. /\ UNCHANGED <<listening, stage, tls, expires, keepAlive, requests,
                         responses>>
          /\ accepting' \in {accepting, TRUE}
      BY <1>1 DEF OnAcceptError, vars, httpVars
    <2>2. TypeOK'
      BY <2>1 DEF IInv, TypeOK
    <2> QED BY <2>1, <2>2, ConnectionStill DEF IInv
  <1>2. ASSUME NEW c \in Clients, Step(c) PROVE IInv'
    BY <1>2, QuietStepKeeps, OnReadKeeps, OnWriteKeeps DEF Step, QuietStep
  <1> QED BY <1>1, <1>2 DEF Next

LEMMA Invariant == Spec => []IInv
  BY InitInvariant, StepInvariant, PTL DEF Spec
---------------------------------------------------------------------------
\* The types of the server's state.
THEOREM TypeCorrect == Spec => []TypeOK
  BY Invariant, PTL DEF IInv

\* Session answers each request once and in order before it reads the next one,
\* on plain and on TLS streams.
THEOREM EachRequestAnswered == Spec => []OneResponseEach
  <1>1. IInv => OneResponseEach
    BY DEF IInv, ConnectionInv, OneResponseEach
  <1> QED BY <1>1, Invariant, PTL

\* onWrite() closes after a response without keep-alive: no request of that
\* connection is read any more.
THEOREM NoRequestAfterClose == Spec => CloseHonoured
  <1> DEFINE Honoured ==
        \A c \in Clients :
            requests'[c] # requests[c] /\ requests[c] # <<>> => keepAlive[c]
  <1>1. ASSUME IInv, [Next]_vars
        PROVE  [Honoured]_vars
    <2> SUFFICES ASSUME NEW c \in Clients, requests'[c] # requests[c],
                        requests[c] # <<>>
                 PROVE  keepAlive[c]
      OBVIOUS
    <2>1. PICK d \in Clients : OnRead(d)
      BY <1>1
      DEF Next, Step, OnAcceptError, Connects, OnAccept, OnDetect, OnHandshake,
          OnEndOfStream, OnWrite, OnShutdown, OnError, OnTimeOut, Drop,
          httpVars, vars
    <2>2. d = c
      BY <1>1, <2>1 DEF OnRead, IInv, TypeOK
    <2> QED BY <1>1, <2>1, <2>2 DEF OnRead, IInv, ConnectionInv
  <1> QED BY <1>1, Invariant, PTL DEF Spec, CloseHonoured
===========================================================================
