---------------------------- MODULE Proxy_proofs ----------------------------
(***************************************************************************)
(* Proofs for Proxy and AuthService: a service leaves at most its last     *)
(* request unanswered, and a process whose main has returned has left no   *)
(* thread and no open pipe behind, for any requests and any number of      *)
(* them.                                                                   *)
(***************************************************************************)
EXTENDS Proxy, TLAPS

\* The stop() calls come after start(); the process joins the proxy's thread in
\* each of its own, and the last join of a service ends it.
MainInv ==
    /\ main \in {"start", "startProxy", "wait"} <=> stops = 0
    /\ main = "done" => stops = MaxStops
    /\ main = "stopped" \/ stops = MaxStops => proxy = "none"
    /\ stops = MaxStops => main \in {"send", "flag", "join", "done"}

\* start() meets services that have never run.
StartInv ==
    main = "start" => /\ zap[service] = "none" /\ replies[service] = <<>>
                      /\ service = Frontend =>
                             zap[Backend] = "none" /\ replies[Backend] = <<>>

\* stop() has joined the thread of service s.
Joined(s) ==
    \/ stops >= 2
    \/ /\ stops = 1
       /\ \/ main \in {"terminate", "joinProxy", "stopped", "done"}
          \/ s = Frontend /\ service = Backend

\* A second stop() has found the pipe of s down or taken it down.
PipeDown(s) ==
    \/ stops >= 3
    \/ /\ stops = 2
       /\ \/ main \in {"terminate", "joinProxy", "stopped", "done"}
          \/ service = s /\ main \in {"flag", "join"}
          \/ s = Frontend /\ service = Backend

StopInv(s) == /\ Joined(s) => zap[s] = "none"
              /\ PipeDown(s) => ~mAPIStarted[s]

\* What the thread's poll reported is still there when it is handled.
PollInv(s) ==
    /\ zap[s] = "api" /\ "api" \in revents[s] => pipe[s] # <<>>
    /\ zap[s] \in {"api", "zap"} /\ "zap" \in revents[s] => requests[s] # <<>>

\* An unanswered request is the last one, and the thread will not poll again.
ReplyInv(s) ==
    \A i \in 1..Len(replies[s]) :
        replies[s][i].status = 0 =>
            /\ i = Len(replies[s])
            /\ ~mKeepRunning[s]
            /\ zap[s] \in {"head", "exited", "none"}

IInv == /\ TypeOK /\ MainInv /\ StartInv
        /\ \A s \in Services : StopInv(s) /\ PollInv(s) /\ ReplyInv(s)
---------------------------------------------------------------------------
\* The status that is sent for a request is never 0.
LEMMA StatusCodeType ==
  ASSUME NEW r \in Request
  PROVE  StatusCode(r) \in {200, 400, 500}
  BY DEF StatusCode

\* The steps of a service's thread, its owner and its peers.
AuthStep(s) == \/ StopSends(s) \/ StopFlags(s) \/ StopJoins(s)
               \/ ServiceStart(s) \/ ZapThread(s) \/ PeerAsks(s, Asked)

Untouched(t) ==
    /\ mKeepRunning'[t] = mKeepRunning[t] /\ mAPIStarted'[t] = mAPIStarted[t]
    /\ zap'[t] = zap[t] /\ pipe'[t] = pipe[t] /\ revents'[t] = revents[t]
    /\ requests'[t] = requests[t] /\ replies'[t] = replies[t]

\* A step of one service leaves the others alone.
LEMMA ElsewhereUntouched ==
  ASSUME AuthTypeOK, NEW s \in Services, AuthStep(s),
         NEW t \in Services, t # s
  PROVE  Untouched(t)
  <1> USE DEF AuthTypeOK, Untouched
  <1>1. CASE StopSends(s) \/ StopFlags(s) \/ StopJoins(s) \/ ServiceStart(s)
    BY <1>1 DEF StopSends, StopFlags, StopJoins, ServiceStart
  <1>2. CASE ZapConnects(s) \/ ZapBinds(s) \/ ZapHead(s)
    BY <1>2 DEF ZapConnects, ZapBinds, ZapHead
  <1>3. CASE ZapPolls(s) \/ ZapHandlesAPI(s)
    BY <1>3 DEF ZapPolls, ZapHandlesAPI
  <1>4. CASE ZapHandlesRequest(s) \/ PeerAsks(s, Asked)
    BY <1>4 DEF ZapHandlesRequest, PeerAsks
  <1> QED BY <1>1, <1>2, <1>3, <1>4 DEF AuthStep, ZapThread

\* The request that is handled is one that was put, and is the first of those
\* that wait.
LEMMA HandledRequest ==
  ASSUME IInv, NEW s \in Services, ZapHandlesRequest(s), "zap" \in revents[s]
  PROVE  /\ requests[s] \in Seq(Request) /\ requests[s] # <<>>
         /\ Head(requests[s]) \in Request
         /\ Tail(requests[s]) \in Seq(Request)
  <1>1. requests[s] \in Seq(Request) /\ requests[s] # <<>>
    BY DEF IInv, TypeOK, AuthTypeOK, PollInv, ZapHandlesRequest
  <1>2. ASSUME NEW q \in Seq(Request), q # <<>>
        PROVE  Head(q) \in Request /\ Tail(q) \in Seq(Request)
    BY <1>2
  <1> QED BY <1>1, <1>2

\* An update of one service's member keeps the type of the member.
LEMMA UpdateType ==
  ASSUME NEW T, NEW f \in [Services -> T], NEW s \in Services, NEW g,
         g = f \/ \E x \in T : g = [f EXCEPT ![s] = x]
  PROVE  g \in [Services -> T]
  OBVIOUS

\* The members of the services keep their types.
LEMMA AuthTypeKept ==
  ASSUME IInv, NEW s \in Services, AuthStep(s)
  PROVE  AuthTypeOK'
  <1> DEFINE Places == {"none", "connect", "bind", "head", "poll", "api", "zap",
                        "exited"}
             Reply == [request: Request, status: {0, 200, 400, 500}]
  <1>1. AuthTypeOK
    BY DEF IInv, TypeOK
  <1> USE DEF AuthStep, ZapThread
  <1>2. mKeepRunning' \in [Services -> BOOLEAN]
    <2>1. \/ mKeepRunning' = mKeepRunning
          \/ \E x \in BOOLEAN : mKeepRunning' = [mKeepRunning EXCEPT ![s] = x]
      BY DEF StopSends, StopFlags, StopJoins, ServiceStart, ZapConnects,
         ZapBinds, ZapHead, ZapPolls, ZapHandlesAPI, ZapHandlesRequest, PeerAsks
    <2> QED BY <1>1, <2>1, UpdateType DEF AuthTypeOK
  <1>3. mAPIStarted' \in [Services -> BOOLEAN]
    <2>1. \/ mAPIStarted' = mAPIStarted
          \/ \E x \in BOOLEAN : mAPIStarted' = [mAPIStarted EXCEPT ![s] = x]
      BY DEF StopSends, StopFlags, StopJoins, ServiceStart, ZapConnects,
         ZapBinds, ZapHead, ZapPolls, ZapHandlesAPI, ZapHandlesRequest, PeerAsks
    <2> QED BY <1>1, <2>1, UpdateType DEF AuthTypeOK
  <1>4. zap' \in [Services -> Places]
    <2>1. zap' = zap \/ \E x \in Places : zap' = [zap EXCEPT ![s] = x]
      BY DEF StopSends, StopFlags, StopJoins, ServiceStart, ZapConnects,
         ZapBinds, ZapHead, ZapPolls, ZapHandlesAPI, ZapHandlesRequest, PeerAsks
    <2> HIDE DEF Places
    <2>2. zap \in [Services -> Places]
      BY <1>1 DEF AuthTypeOK, Places
    <2> QED BY <2>1, <2>2, UpdateType
  <1>5. pipe' \in [Services -> Seq({"TERMINATE"})]
    <2>1. pipe \in [Services -> Seq({"TERMINATE"})]
      BY <1>1 DEF AuthTypeOK
    <2>2. CASE UNCHANGED pipe
      BY <2>1, <2>2
    <2>3. CASE pipe' = [pipe EXCEPT ![s] = Append(pipe[s], "TERMINATE")]
      BY <2>1, <2>3, UpdateType
    <2>4. CASE pipe' = [pipe EXCEPT ![s] = <<>>]
      BY <2>1, <2>4, UpdateType
    <2>5. CASE pipe' = [pipe EXCEPT ![s] = Tail(pipe[s])] /\ pipe[s] # <<>>
      <3>1. ASSUME NEW q \in Seq({"TERMINATE"}), q # <<>>
            PROVE  Tail(q) \in Seq({"TERMINATE"})
        BY <3>1
      <3>2. Tail(pipe[s]) \in Seq({"TERMINATE"})
        BY <2>1, <2>5, <3>1
      <3> QED BY <2>1, <2>5, <3>2, UpdateType
    <2>6. ZapHandlesAPI(s) /\ "api" \in revents[s] => pipe[s] # <<>>
      BY DEF IInv, PollInv, ZapHandlesAPI
    <2> QED
      BY <2>2, <2>3, <2>4, <2>5, <2>6
      DEF StopSends, StopFlags, StopJoins, ServiceStart, ZapConnects,
         ZapBinds, ZapHead, ZapPolls, ZapHandlesAPI, ZapHandlesRequest, PeerAsks
  <1>6. revents' \in [Services -> SUBSET {"api", "zap"}]
    <2>1. \/ revents' = revents
          \/ \E x \in SUBSET {"api", "zap"} :
                 revents' = [revents EXCEPT ![s] = x]
      BY DEF StopSends, StopFlags, StopJoins, ServiceStart, ZapConnects,
         ZapBinds, ZapHead, ZapPolls, ZapHandlesAPI, ZapHandlesRequest, PeerAsks
    <2> QED BY <1>1, <2>1, UpdateType DEF AuthTypeOK
  <1>7. requests' \in [Services -> Seq(Request)]
    <2>1. requests \in [Services -> Seq(Request)]
      BY <1>1 DEF AuthTypeOK
    <2>2. CASE UNCHANGED requests
      BY <2>1, <2>2
    <2>3. CASE requests' = [requests EXCEPT ![s] = <<>>]
      BY <2>1, <2>3, UpdateType
    <2>4. CASE ZapHandlesRequest(s) /\ "zap" \in revents[s]
      <3>1. Tail(requests[s]) \in Seq(Request)
        BY <2>4, HandledRequest
      <3> QED BY <2>1, <2>4, <3>1, UpdateType DEF ZapHandlesRequest
    <2>5. CASE PeerAsks(s, Asked)
      <3>1. PICK r \in Request : requests' = [requests EXCEPT ![s] =
                                                  Append(requests[s], r)]
        BY <2>5, ProxyAssumption DEF PeerAsks
      <3>2. Append(requests[s], r) \in Seq(Request)
        BY <2>1
      <3> QED BY <2>1, <3>1, <3>2, UpdateType
    <2> QED
      BY <2>2, <2>3, <2>4, <2>5
      DEF StopSends, StopFlags, StopJoins, ServiceStart, ZapConnects,
         ZapBinds, ZapHead, ZapPolls, ZapHandlesAPI, ZapHandlesRequest
  <1>8. asked' \in [Services -> 0..MaxRequests]
    <2>1. asked \in [Services -> 0..MaxRequests]
      BY <1>1 DEF AuthTypeOK
    <2>2. CASE PeerAsks(s, Asked)
      <3>1. asked[s] + 1 \in 0..MaxRequests
        BY <2>1, <2>2, ServiceAssumption DEF PeerAsks
      <3> QED BY <2>1, <2>2, <3>1, UpdateType DEF PeerAsks
    <2>3. CASE UNCHANGED asked
      BY <2>1, <2>3
    <2> QED
      BY <2>2, <2>3
      DEF StopSends, StopFlags, StopJoins, ServiceStart, ZapConnects,
         ZapBinds, ZapHead, ZapPolls, ZapHandlesAPI, ZapHandlesRequest
  <1>9. replies' \in [Services -> Seq(Reply)]
    <2>1. replies \in [Services -> Seq(Reply)]
      BY <1>1 DEF AuthTypeOK
    <2>2. CASE UNCHANGED replies
      BY <2>1, <2>2
    <2>3. CASE ZapHandlesRequest(s) /\ "zap" \in revents[s]
      <3> DEFINE r == [request |-> Head(requests[s]),
                       status |-> IF mKeepRunning[s]
                                  THEN StatusCode(Head(requests[s])) ELSE 0]
      <3>1. r \in Reply
        BY <2>3, HandledRequest, StatusCodeType
      <3>2. replies' = [replies EXCEPT ![s] = Append(replies[s], r)]
        BY <2>3 DEF ZapHandlesRequest
      <3> HIDE DEF r, Reply
      <3>3. Append(replies[s], r) \in Seq(Reply)
        BY <2>1, <3>1
      <3> QED BY <2>1, <3>2, <3>3, UpdateType
    <2> QED
      BY <2>2, <2>3
      DEF StopSends, StopFlags, StopJoins, ServiceStart, ZapConnects,
         ZapBinds, ZapHead, ZapPolls, ZapHandlesAPI, ZapHandlesRequest, PeerAsks
  <1> QED BY <1>2, <1>3, <1>4, <1>5, <1>6, <1>7, <1>8, <1>9
      DEF AuthTypeOK
\* A queue to which something was added is not empty.
LEMMA AppendNotEmpty ==
  ASSUME NEW T, NEW q \in Seq(T), NEW x \in T
  PROVE  Append(q, x) # <<>>
  <1>1. Len(Append(q, x)) = Len(q) + 1 /\ Len(q) \in Nat /\ Len(<<>>) = 0
    OBVIOUS
  <1> QED BY <1>1

\* A member of a service has the type of the member.
LEMMA MemberType ==
  ASSUME NEW T, NEW f \in [Services -> T], NEW s \in Services
  PROVE  f[s] \in T
  OBVIOUS

\* The thread finds what its poll reported, and polls no more once a request
\* was left unanswered.
LEMMA ServiceKept ==
  ASSUME IInv, NEW s \in Services, AuthStep(s),
         ServiceStart(s) => replies[s] = <<>>
  PROVE  \A t \in Services : PollInv(t)' /\ ReplyInv(t)'
  <1>1. AuthTypeOK /\ PollInv(s) /\ ReplyInv(s)
    BY DEF IInv, TypeOK
  <1>2. ASSUME NEW t \in Services, t # s PROVE PollInv(t)' /\ ReplyInv(t)'
    BY <1>1, <1>2, ElsewhereUntouched
    DEF IInv, Untouched, PollInv, ReplyInv
  <1>3. /\ pipe[s] \in Seq({"TERMINATE"}) /\ requests[s] \in Seq(Request)
        /\ replies[s] \in Seq([request: Request, status: {0, 200, 400, 500}])
    <2> DEFINE Replies == Seq([request: Request, status: {0, 200, 400, 500}])
               Pipes == Seq({"TERMINATE"})
    <2>1. /\ pipe \in [Services -> Pipes] /\ replies \in [Services -> Replies]
          /\ requests \in [Services -> Seq(Request)]
      BY <1>1 DEF AuthTypeOK
    <2> HIDE DEF Replies, Pipes
    <2>2. /\ pipe[s] \in Pipes /\ replies[s] \in Replies
          /\ requests[s] \in Seq(Request)
      BY <2>1, MemberType
    <2> QED BY <2>2 DEF Replies, Pipes
  <1> USE <1>1 DEF AuthTypeOK
  <1>4. CASE StopSends(s)
    <2>1. /\ zap'[s] = zap[s] /\ revents'[s] = revents[s]
          /\ requests'[s] = requests[s] /\ replies'[s] = replies[s]
          /\ mKeepRunning'[s] = mKeepRunning[s]
          /\ pipe'[s] \in {pipe[s], Append(pipe[s], "TERMINATE")}
      BY <1>4 DEF StopSends
    <2>2. pipe[s] # <<>> => pipe'[s] # <<>>
      <3>1. pipe[s] \in Seq({"TERMINATE"})
        OBVIOUS
      <3>2. Append(pipe[s], "TERMINATE") # <<>>
        BY <3>1, AppendNotEmpty
      <3> QED BY <2>1, <3>2
    <2> QED BY <1>2, <2>1, <2>2, SMTT(30) DEF PollInv, ReplyInv
  <1>5. CASE StopFlags(s)
    <2>1. /\ zap'[s] = zap[s] /\ revents'[s] = revents[s]
          /\ requests'[s] = requests[s] /\ replies'[s] = replies[s]
          /\ ~mKeepRunning'[s] /\ pipe'[s] = pipe[s]
      BY <1>5 DEF StopFlags
    <2> QED BY <1>2, <2>1 DEF PollInv, ReplyInv
  <1>6. CASE StopJoins(s)
    <2>1. /\ zap'[s] = "none" /\ replies'[s] = replies[s]
          /\ mKeepRunning'[s] = mKeepRunning[s]
      BY <1>6 DEF StopJoins
    <2> QED BY <1>2, <2>1 DEF PollInv, ReplyInv
  <1>7. CASE ServiceStart(s)
    <2>1. zap'[s] = "connect" /\ replies'[s] = <<>>
      BY <1>7 DEF ServiceStart
    <2> QED BY <1>2, <2>1 DEF PollInv, ReplyInv
  <1>8. CASE ZapConnects(s) \/ ZapBinds(s)
    <2>1. /\ zap[s] \in {"connect", "bind"} /\ zap'[s] \in {"bind", "head"}
          /\ replies'[s] = replies[s]
      BY <1>8 DEF ZapConnects, ZapBinds
    <2> QED BY <1>2, <2>1 DEF PollInv, ReplyInv
  <1>9. CASE ZapHead(s)
    <2>1. /\ zap'[s] = IF mKeepRunning[s] THEN "poll" ELSE "exited"
          /\ replies'[s] = replies[s] /\ mKeepRunning'[s] = mKeepRunning[s]
      BY <1>9 DEF ZapHead
    <2> QED BY <1>2, <2>1 DEF PollInv, ReplyInv
  <1>10. CASE ZapPolls(s)
    <2>1. /\ zap[s] = "poll" /\ zap'[s] = "api" /\ replies'[s] = replies[s]
          /\ pipe'[s] = pipe[s] /\ requests'[s] = requests[s]
          /\ "api" \in revents'[s] => pipe[s] # <<>>
          /\ "zap" \in revents'[s] => requests[s] # <<>>
      BY <1>10 DEF ZapPolls
    <2> QED BY <1>2, <2>1 DEF PollInv, ReplyInv
  <1>11. CASE ZapHandlesAPI(s)
    <2>1. /\ zap[s] = "api" /\ zap'[s] = "zap" /\ replies'[s] = replies[s]
          /\ revents'[s] = revents[s] /\ requests'[s] = requests[s]
      BY <1>11 DEF ZapHandlesAPI
    <2> QED BY <1>2, <2>1 DEF PollInv, ReplyInv
  <1>12. CASE ZapHandlesRequest(s)
    <2>1. /\ zap[s] = "zap" /\ zap'[s] = "head"
          /\ mKeepRunning'[s] = mKeepRunning[s]
      BY <1>12 DEF ZapHandlesRequest
    <2>2. \A i \in 1..Len(replies[s]) : replies[s][i].status # 0
      BY <2>1 DEF ReplyInv
    <2>3. CASE "zap" \notin revents[s]
      BY <1>2, <1>12, <2>1, <2>2, <2>3 DEF ZapHandlesRequest, PollInv, ReplyInv
    <2>4. CASE "zap" \in revents[s]
      <3> DEFINE r == [request |-> Head(requests[s]),
                       status |-> IF mKeepRunning[s]
                                  THEN StatusCode(Head(requests[s])) ELSE 0]
                 Reply == [request: Request, status: {0, 200, 400, 500}]
      <3>1. r.status = 0 => ~mKeepRunning[s]
        <4>1. Head(requests[s]) \in Request
          BY <1>12, <2>4, HandledRequest
        <4>2. StatusCode(Head(requests[s])) \in {200, 400, 500}
          BY <4>1, StatusCodeType
        <4> QED BY <4>2
      <3>2. replies'[s] = Append(replies[s], r)
        BY <1>12, <2>4 DEF ZapHandlesRequest
      <3>3. replies[s] \in Seq(Reply)
        BY <1>3, Zenon
      <3> HIDE DEF r, Reply
      <3>4. /\ Len(replies'[s]) = Len(replies[s]) + 1 /\ Len(replies[s]) \in Nat
            /\ \A i \in 1..Len(replies[s]) : replies'[s][i] = replies[s][i]
            /\ replies'[s][Len(replies[s]) + 1] = r
        BY <3>2, <3>3
      <3>5. ASSUME NEW i \in 1..Len(replies'[s]), replies'[s][i].status = 0
            PROVE  i = Len(replies'[s]) /\ ~mKeepRunning'[s]
        <4>1. i \notin 1..Len(replies[s])
          <5>1. ASSUME i \in 1..Len(replies[s]) PROVE FALSE
            <6>1. replies'[s][i] = replies[s][i] /\ replies[s][i].status # 0
              BY <2>2, <3>4, <5>1, Zenon
            <6> QED BY <3>5, <6>1, Zenon
          <5> QED BY <5>1, Zenon
        <4>2. i = Len(replies[s]) + 1
          BY <3>4, <4>1
        <4> QED BY <2>1, <3>1, <3>4, <3>5, <4>2
      <3>6. ReplyInv(s)'
        BY <2>1, <3>5 DEF ReplyInv
      <3> QED BY <1>2, <2>1, <3>6 DEF PollInv
    <2> QED BY <2>3, <2>4
  <1>13. CASE PeerAsks(s, Asked)
    <2>1. /\ zap'[s] = zap[s] /\ revents'[s] = revents[s]
          /\ pipe'[s] = pipe[s] /\ replies'[s] = replies[s]
          /\ mKeepRunning'[s] = mKeepRunning[s]
      BY <1>13 DEF PeerAsks
    <2>2. requests'[s] # <<>>
      <3>1. PICK r \in Request : requests'[s] = Append(requests[s], r)
        BY <1>13, ProxyAssumption DEF PeerAsks
      <3>2. Append(requests[s], r) # <<>>
        BY <1>3, AppendNotEmpty
      <3> QED BY <3>1, <3>2, Zenon
    <2> QED BY <1>2, <2>1, <2>2 DEF PollInv, ReplyInv
  <1> QED BY <1>4, <1>5, <1>6, <1>7, <1>8, <1>9, <1>10, <1>11, <1>12, <1>13
      DEF AuthStep, ZapThread
---------------------------------------------------------------------------
\* The process begins with both services down.
LEMMA InitInvariant == Init => IInv
  <1> SUFFICES ASSUME Init PROVE IInv
    OBVIOUS
  <1>1. AuthTypeOK
    BY ServiceAssumption DEF Init, AuthInit, AuthTypeOK
  <1>2. TypeOK
    <2>1. mInterrupted \in BOOLEAN /\ awaitsReply \in BOOLEAN
      BY DEF Init
    <2>2. service \in Services /\ stops \in 0..MaxStops
      BY ServicesAssumption DEF Init, MaxStops
    <2>3. /\ main \in {"start"} /\ mProxyState \in {"NotRunning"}
          /\ proxy \in {"none"} /\ command \in {"none"}
      BY DEF Init
    <2> QED BY <1>1, <2>1, <2>2, <2>3 DEF TypeOK
  <1>3. MainInv /\ StartInv
    BY ServicesAssumption DEF Init, AuthInit, MainInv, StartInv, MaxStops
  <1>4. ASSUME NEW s \in Services
        PROVE  StopInv(s) /\ PollInv(s) /\ ReplyInv(s)
    BY DEF Init, AuthInit, StopInv, Joined, PipeDown, PollInv, ReplyInv
  <1> QED BY <1>2, <1>3, <1>4 DEF IInv

\* The process's steps that do not touch the services.
ProcessSteps == \/ StartProxy \/ Pause \/ Resume \/ SignalHandler \/ StopBegins
                \/ Terminate \/ JoinProxy \/ ProxyRun \/ Done

\* They keep what stop() has achieved so far.
LEMMA ProcessKeeps ==
  ASSUME IInv, ProcessSteps \/ UNCHANGED vars
  PROVE  IInv'
  <1> USE DEF IInv, ProcessSteps
  <1>1. UNCHANGED authVars
    BY DEF StartProxy, Pause, Resume, SignalHandler, StopBegins, Terminate,
       JoinProxy, ProxyRun, Done, vars
  <1>2. TypeOK'
    <2>1. AuthTypeOK'
      BY <1>1 DEF TypeOK, AuthTypeOK, authVars
    <2>2. /\ main' \in {"startProxy", "wait", "send", "terminate", "joinProxy",
                        "stopped", "done"} \/ main' = main
          /\ service' \in Services /\ stops' \in 0..MaxStops
      BY ServicesAssumption
      DEF TypeOK, MainInv, MaxStops, StartProxy, Pause, Resume, SignalHandler,
          FirstToStop, StopBegins, Terminate, JoinProxy, ProxyRun, Done, vars,
          procVars
    <2>3. mInterrupted' \in BOOLEAN
      BY DEF TypeOK, StartProxy, Pause, Resume, SignalHandler, StopBegins,
         Terminate, JoinProxy, ProxyRun, Done, vars, procVars
    <2>4. awaitsReply' \in BOOLEAN
      BY DEF TypeOK, StartProxy, Pause, Resume, SignalHandler, StopBegins,
         Terminate, JoinProxy, ProxyRun, Done, vars, procVars, Send
    <2>5. /\ mProxyState' \in {"NotRunning", "Running", "Paused"}
          /\ command' \in {"none", "PAUSE", "RESUME", "TERMINATE"}
      BY DEF TypeOK, StartProxy, Pause, Resume, SignalHandler, StopBegins,
         Terminate, JoinProxy, ProxyRun, Done, vars, procVars, Send
    <2>6. proxy' \in {"none", "running", "paused", "exited"}
      BY DEF TypeOK, StartProxy, Pause, Resume, SignalHandler, StopBegins,
         Terminate, JoinProxy, ProxyRun, Done, vars, procVars
    <2> QED BY <2>1, <2>2, <2>3, <2>4, <2>5, <2>6 DEF TypeOK
  <1>3. MainInv' /\ StartInv'
    <2>1. StartInv'
      BY <1>1 DEF StartInv, StartProxy, Pause, Resume, SignalHandler,
         StopBegins, Terminate, JoinProxy, ProxyRun, Done, vars, procVars,
         authVars
    <2>2. MainInv'
      BY DEF TypeOK, MainInv, MaxStops, StartProxy, Pause, Resume,
         SignalHandler, StopBegins, Terminate, JoinProxy, ProxyRun, Done, vars,
         procVars
    <2> QED BY <2>1, <2>2
  <1>4. ASSUME NEW s \in Services
        PROVE  (Joined(s)' => Joined(s)) /\ (PipeDown(s)' => PipeDown(s))
    BY DEF TypeOK, MainInv, MaxStops, Joined, PipeDown, Frontend, Backend,
       FirstToStop, StartProxy, Pause, Resume, SignalHandler, StopBegins,
       Terminate,
       JoinProxy, ProxyRun, Done, vars, procVars
  <1>5. ASSUME NEW s \in Services
        PROVE  StopInv(s)' /\ PollInv(s)' /\ ReplyInv(s)'
    BY <1>1, <1>4 DEF StopInv, PollInv, ReplyInv, authVars
  <1> QED BY <1>2, <1>3, <1>5

\* start() of a service that has never run.
LEMMA StartServiceKeeps ==
  ASSUME IInv, StartService
  PROVE  IInv'
  <1> USE DEF IInv
  <1>1. /\ main = "start" /\ ServiceStart(service) /\ service \in Services
        /\ service \in {Frontend, Backend} /\ replies[service] = <<>>
        /\ UNCHANGED <<stops, mInterrupted, mProxyState, proxy, command,
                       awaitsReply>>
        /\ stops = 0
    BY ServicesAssumption DEF StartService, TypeOK, StartInv, MainInv
  <1>2. \/ service = Frontend /\ service' = Backend /\ main' = "start"
        \/ service = Backend /\ service' = Frontend /\ main' = "startProxy"
    BY <1>1 DEF StartService, Frontend, Backend
  <1>3. AuthStep(service)
    BY <1>1 DEF AuthStep
  <1>4. TypeOK'
    BY <1>1, <1>2, <1>3, AuthTypeKept, ServicesAssumption DEF TypeOK
  <1>5. MainInv'
    BY <1>1, <1>2 DEF MainInv
  <1>6. StartInv'
    <2>1. CASE service = Frontend
      <3>1. Backend \in Services /\ Backend # service
        BY <2>1, ServicesAssumption DEF Frontend, Backend
      <3>2. zap'[Backend] = zap[Backend] /\ replies'[Backend] = replies[Backend]
        BY <1>1, <1>3, <3>1, ElsewhereUntouched DEF TypeOK, Untouched
      <3> QED BY <1>1, <1>2, <2>1, <3>2 DEF StartInv, Frontend, Backend
    <2>2. CASE service = Backend
      BY <1>2, <2>2 DEF StartInv, Frontend, Backend
    <2> QED BY <1>1, <2>1, <2>2
  <1>7. ASSUME NEW t \in Services
        PROVE  StopInv(t)'
    BY <1>1 DEF StopInv, Joined, PipeDown
  <1> QED BY <1>1, <1>3, <1>4, <1>5, <1>6, <1>7, ServiceKept

\* stop() sends TERMINATE, lowers the flag and joins, one service after the
\* other.
LEMMA StopServiceKeeps ==
  ASSUME IInv, StopService \/ JoinService
  PROVE  IInv'
  <1> USE DEF IInv
  <1> USE DEF Frontend, Backend
  <1>1. /\ UNCHANGED <<stops, mInterrupted, mProxyState, proxy, command,
                       awaitsReply>>
        /\ service \in {Frontend, Backend} /\ service \in Services
        /\ stops \in 1..MaxStops /\ service' \in {Frontend, Backend}
    BY ServicesAssumption DEF StopService, JoinService, TypeOK, MainInv
  <1>2. \/ /\ main = "send" /\ StopSends(service) /\ main' = "flag"
           /\ UNCHANGED service
        \/ /\ main = "flag" /\ StopFlags(service) /\ main' = "join"
           /\ UNCHANGED service
        \/ /\ main = "join" /\ StopJoins(service)
           /\ \/ /\ service = FirstToStop(stops) /\ main' = "send"
                 /\ service' # service
              \/ /\ service # FirstToStop(stops) /\ service' = service
                 /\ main' = IF stops = MaxStops THEN "done" ELSE "terminate"
    BY <1>1 DEF StopService, JoinService
  <1>3. AuthStep(service) /\ ~ServiceStart(service)
    <2>1. ~ServiceStart(service)
      BY <1>2 DEF TypeOK, AuthTypeOK, StopSends, StopFlags, StopJoins,
         ServiceStart
    <2> QED BY <1>2, <2>1 DEF AuthStep
  <1>4. TypeOK'
    BY <1>1, <1>2, <1>3, AuthTypeKept, ServicesAssumption DEF TypeOK
  <1>5. MainInv' /\ StartInv'
    BY <1>1, <1>2 DEF MainInv, StartInv, MaxStops
  <1>6. ASSUME NEW t \in Services
        PROVE  StopInv(t)'
    <2>1. t # service => zap'[t] = zap[t] /\ mAPIStarted'[t] = mAPIStarted[t]
      BY <1>1, <1>3, ElsewhereUntouched DEF TypeOK, Untouched
    <2>2. CASE main = "send"
      <3>1. /\ zap'[service] = zap[service] /\ ~mAPIStarted'[service]
            /\ main' = "flag" /\ UNCHANGED service
        BY <1>1, <1>2, <2>2 DEF StopSends, TypeOK, AuthTypeOK
      <3> QED BY <1>1, <2>1, <2>2, <3>1 DEF StopInv, Joined, PipeDown, MaxStops
    <2>3. CASE main = "flag"
      <3>1. /\ zap'[service] = zap[service] /\ main' = "join"
            /\ mAPIStarted'[service] = mAPIStarted[service]
            /\ UNCHANGED service
        BY <1>1, <1>2, <2>3 DEF StopFlags
      <3> QED BY <1>1, <2>1, <2>3, <3>1 DEF StopInv, Joined, PipeDown, MaxStops
    <2>4. CASE main = "join"
      <3>1. /\ zap'[service] = "none"
            /\ mAPIStarted'[service] = mAPIStarted[service]
        BY <1>1, <1>2, <2>4 DEF StopJoins, TypeOK, AuthTypeOK
      <3>2. t \in {Frontend, Backend}
        BY ServicesAssumption
      <3> QED BY <1>1, <1>2, <2>1, <2>4, <3>1, <3>2
          DEF StopInv, Joined, PipeDown, MaxStops, FirstToStop
    <2> QED BY <1>2, <2>2, <2>3, <2>4
  <1> QED BY <1>1, <1>3, <1>4, <1>5, <1>6, ServiceKept

\* The thread of a service runs only between start() and the join, and the
\* peers only put requests.
LEMMA ThreadKeeps ==
  ASSUME IInv, NEW s \in Services, Zap(s) \/ Peer(s)
  PROVE  IInv'
  <1> USE DEF IInv
  <1>1. UNCHANGED procVars /\ (ZapThread(s) \/ PeerAsks(s, Asked))
    BY DEF Zap, Peer
  <1>2. AuthStep(s) /\ zap[s] # "none"
    BY <1>1 DEF AuthStep, ZapThread, ZapConnects, ZapBinds, ZapHead, ZapPolls,
       ZapHandlesAPI, ZapHandlesRequest, PeerAsks
  <1>3. TypeOK'
    BY <1>1, <1>2, AuthTypeKept DEF TypeOK, procVars
  <1>4. MainInv'
    BY <1>1 DEF MainInv, procVars
  <1>5. ASSUME NEW t \in Services, zap[t] = "none"
        PROVE  /\ zap'[t] = "none" /\ replies'[t] = replies[t]
               /\ mAPIStarted'[t] = mAPIStarted[t]
    BY <1>2, <1>5, ElsewhereUntouched DEF TypeOK, Untouched
  <1>6. StartInv'
    <2>1. service \in Services /\ Backend \in Services
      BY ServicesAssumption DEF TypeOK
    <2> QED BY <1>1, <1>5, <2>1 DEF StartInv, procVars
  <1>7. ASSUME NEW t \in Services
        PROVE  StopInv(t)'
    <2>1. (Joined(t)' <=> Joined(t)) /\ (PipeDown(t)' <=> PipeDown(t))
      BY <1>1 DEF Joined, PipeDown, procVars
    <2>2. PipeDown(t) => Joined(t)
      BY DEF PipeDown, Joined, TypeOK, MaxStops
    <2> QED BY <1>5, <2>1, <2>2 DEF StopInv
  <1>8. ~ServiceStart(s)
    BY <1>2 DEF ServiceStart
  <1> QED BY <1>2, <1>3, <1>4, <1>6, <1>7, <1>8, ServiceKept

\* The invariant is inductive.
LEMMA StepInvariant ==
  ASSUME IInv, [Next]_vars
  PROVE  IInv'
  BY ProcessKeeps, StartServiceKeeps, StopServiceKeeps, ThreadKeeps
  DEF Next, Main, ProcessSteps

LEMMA Invariant == Spec => []IInv
  BY InitInvariant, StepInvariant, PTL DEF Spec
---------------------------------------------------------------------------
\* The types of the process's and the services' state.
THEOREM TypeCorrect == Spec => []TypeOK
  BY Invariant, PTL DEF IInv

\* runZAPThread() answers every request but possibly the last one it receives.
THEOREM AnswersAllButLast == Spec => []OnlyLastUnanswered
  <1>1. ASSUME IInv PROVE OnlyLastUnanswered
    <2> SUFFICES ASSUME NEW s \in Services, NEW i \in 1..(Len(replies[s]) - 1)
                 PROVE  replies[s][i].status # 0
      BY DEF OnlyLastUnanswered
    <2>1. Len(replies[s]) \in Nat
      BY <1>1 DEF IInv, TypeOK, AuthTypeOK
    <2>2. i \in 1..Len(replies[s]) /\ i # Len(replies[s])
      BY <2>1
    <2> QED BY <1>1, <2>2 DEF IInv, ReplyInv
  <1> QED BY <1>1, Invariant, PTL

\* When main has returned, the proxy's thread and both ZAP threads have been
\* joined and both pipes are down.
THEOREM NothingLeftBehind == Spec => []CleanExit
  <1>1. IInv => CleanExit
    BY DEF IInv, MainInv, StopInv, Joined, PipeDown, CleanExit, MaxStops
  <1> QED BY <1>1, Invariant, PTL
===========================================================================
