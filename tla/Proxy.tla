------------------------------- MODULE Proxy -------------------------------
(***************************************************************************)
(* The dataPacketBroadcastProxy process: a thread in zmq::proxy_steerable  *)
(* forwards packets from an XSUB to an XPUB socket, the main thread steers *)
(* it through a REQ socket whose replies it never reads, and an            *)
(* authentication service runs beside each of the two sockets.             *)
(***************************************************************************)
EXTENDS AuthService

CONSTANTS
    MaySteer,    \* whether the main thread calls pause() and resume()
    Asked        \* the ZAP requests that peers may cause

ASSUME ProxyAssumption == MaySteer \in BOOLEAN /\ Asked \subseteq Request

VARIABLES
    main,          \* where the main thread is
    service,       \* the service that start() or stop() is working on
    stops,         \* stop() calls so far: by main, ~Process and ~Service
    mInterrupted,
    mProxyState,
    proxy,         \* where mProxyThread is
    command,       \* the command that waits at the control socket, if any
    awaitsReply    \* the REQ socket has sent and must receive before it sends

procVars == <<main, service, stops, mInterrupted, mProxyState, proxy, command,
              awaitsReply>>
vars == <<authVars, procVars>>

Frontend == "Frontend"
Backend == "Backend"
MaxStops == 3

\* The program has one service beside each socket.
ASSUME ServicesAssumption == Services = {Frontend, Backend}
---------------------------------------------------------------------------
(***************************************************************************)
(* The main thread.                                                        *)
(***************************************************************************)

\* start(): the frontend's service, then the backend's.
StartService ==
    /\ main = "start"
    /\ ServiceStart(service)
    /\ IF service = Frontend
       THEN service' = Backend /\ UNCHANGED main
       ELSE service' = Frontend /\ main' = "startProxy"
    /\ UNCHANGED <<stops, mInterrupted, mProxyState, proxy, command,
                   awaitsReply>>

StartProxy ==
    /\ main = "startProxy"
    /\ proxy' = "running"
    /\ mProxyState' = "Running"
    /\ main' = "wait"
    /\ UNCHANGED <<authVars, service, stops, mInterrupted, command,
                   awaitsReply>>

\* mCommandSocket.send: a REQ socket that awaits a reply throws.
Send(c, newState) ==
    IF awaitsReply
    THEN UNCHANGED <<command, awaitsReply, mProxyState>>
    ELSE command' = c /\ awaitsReply' = TRUE /\ mProxyState' = newState

\* pause()
Pause ==
    /\ MaySteer
    /\ main = "wait"
    /\ IF mProxyState = "Running" THEN Send("PAUSE", "Paused")
       ELSE UNCHANGED <<command, awaitsReply, mProxyState>>
    /\ UNCHANGED <<authVars, main, service, stops, mInterrupted, proxy>>

\* resume(), whose guard and new state are those of pause()
Resume ==
    /\ MaySteer
    /\ main = "wait"
    /\ IF mProxyState = "Running" THEN Send("RESUME", "Paused")
       ELSE UNCHANGED <<command, awaitsReply, mProxyState>>
    /\ UNCHANGED <<authVars, main, service, stops, mInterrupted, proxy>>

\* SIGINT or SIGTERM; the handler is installed by handleMainThread.
SignalHandler ==
    /\ main = "wait"
    /\ ~mInterrupted
    /\ mInterrupted' = TRUE
    /\ UNCHANGED <<authVars, main, service, stops, mProxyState, proxy, command,
                   awaitsReply>>

\* stop() goes from the frontend's service to the backend's; in the third round
\* they stop themselves, as ~Process destroys the member it declares last first.
FirstToStop(n) == IF n = MaxStops THEN Backend ELSE Frontend

\* stop() is entered: from handleMainThread, then from ~Process, then from
\* ~ServiceImpl.
StopBegins ==
    /\ \/ main = "wait" /\ mInterrupted
       \/ main = "stopped" /\ stops < MaxStops
    /\ main' = "send"
    /\ service' = FirstToStop(stops + 1)
    /\ stops' = stops + 1
    /\ UNCHANGED <<authVars, mInterrupted, mProxyState, proxy, command,
                   awaitsReply>>

StopService ==
    /\ \/ main = "send" /\ StopSends(service) /\ main' = "flag"
       \/ main = "flag" /\ StopFlags(service) /\ main' = "join"
    /\ UNCHANGED <<service, stops, mInterrupted, mProxyState, proxy, command,
                   awaitsReply>>

JoinService ==
    /\ main = "join"
    /\ StopJoins(service)
    /\ IF service = FirstToStop(stops)
       THEN service' \in Services \ {service} /\ main' = "send"
       ELSE /\ main' = IF stops = MaxStops THEN "done" ELSE "terminate"
            /\ UNCHANGED service
    /\ UNCHANGED <<stops, mInterrupted, mProxyState, proxy, command,
                   awaitsReply>>

\* stop() sends TERMINATE unless the proxy does not run.
Terminate ==
    /\ main = "terminate"
    /\ IF mProxyState # "NotRunning" THEN Send("TERMINATE", "NotRunning")
       ELSE UNCHANGED <<command, awaitsReply, mProxyState>>
    /\ main' = "joinProxy"
    /\ UNCHANGED <<authVars, service, stops, mInterrupted, proxy>>

JoinProxy ==
    /\ main = "joinProxy"
    /\ proxy \in {"none", "exited"}
    /\ proxy' = "none"
    /\ main' = "stopped"
    /\ UNCHANGED <<authVars, service, stops, mInterrupted, mProxyState, command,
                   awaitsReply>>

Main == \/ StartService \/ StartProxy \/ StopBegins \/ StopService
        \/ JoinService \/ Terminate \/ JoinProxy

\* zmq::proxy_steerable takes a command from the control socket.
ProxyRun ==
    /\ proxy \in {"running", "paused"}
    /\ command # "none"
    /\ proxy' = CASE command = "PAUSE" -> "paused"
                  [] command = "RESUME" -> "running"
                  [] command = "TERMINATE" -> "exited"
    /\ command' = "none"
    /\ UNCHANGED <<authVars, main, service, stops, mInterrupted, mProxyState,
                   awaitsReply>>

Zap(s) == ZapThread(s) /\ UNCHANGED procVars
Peer(s) == PeerAsks(s, Asked) /\ UNCHANGED procVars
Done == main = "done" /\ UNCHANGED vars

Init ==
    /\ AuthInit
    /\ main = "start"
    /\ service = Frontend
    /\ stops = 0
    /\ mInterrupted = FALSE
    /\ mProxyState = "NotRunning"
    /\ proxy = "none"
    /\ command = "none"
    /\ awaitsReply = FALSE

Next == \/ Main \/ Pause \/ Resume \/ SignalHandler \/ ProxyRun
        \/ \E s \in Services : Zap(s) \/ Peer(s)
        \/ Done

\* Every thread that can take a step eventually does; nobody need ask, steer or
\* signal.
Fairness == /\ WF_vars(Main)
            /\ WF_vars(ProxyRun)
            /\ \A s \in Services : WF_vars(Zap(s))

Spec == Init /\ [][Next]_vars /\ Fairness
---------------------------------------------------------------------------
\* The types of the process's members and the positions of its threads.
TypeOK ==
    /\ AuthTypeOK
    /\ main \in {"start", "startProxy", "wait", "send", "flag", "join",
                 "terminate", "joinProxy", "stopped", "done"}
    /\ service \in Services
    /\ stops \in 0..MaxStops
    /\ mInterrupted \in BOOLEAN
    /\ mProxyState \in {"NotRunning", "Running", "Paused"}
    /\ proxy \in {"none", "running", "paused", "exited"}
    /\ command \in {"none", "PAUSE", "RESUME", "TERMINATE"}
    /\ awaitsReply \in BOOLEAN

\* A service leaves at most its last request unanswered: the REP socket would
\* refuse to receive another one.
OnlyLastUnanswered ==
    \A s \in Services : \A i \in 1..(Len(replies[s]) - 1) :
        replies[s][i].status # 0

\* A process that is told to stop once both services are up, and whose
\* control socket is free, terminates: every join returns, in stop() and in the
\* destructors.
StartedTerminates ==
    (/\ main = "send" /\ stops = 1 /\ service = Frontend
     /\ \A s \in Services : mAPIStarted[s]
     /\ ~awaitsReply)
        ~> main = "done"

\* While a service runs, every request is received.
RequestsReceived ==
    \A s \in Services :
        requests[s] # <<>> ~> (requests[s] = <<>> \/ ~mKeepRunning[s])

\* When main has returned, no thread is left and no service believes that its
\* pipe is up.
CleanExit ==
    main = "done" => /\ proxy = "none"
                     /\ \A s \in Services : zap[s] = "none" /\ ~mAPIStarted[s]

\* service.hpp:55: stop() stops the service.  A service whose thread stop() is
\* about to join is not asleep in its poll with no TERMINATE on its way.
StopWakesService ==
    main = "join" => \/ zap[service] # "poll"
                     \/ pipe[service] # <<>> \/ requests[service] # <<>>
===========================================================================
