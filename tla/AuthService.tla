---------------------------- MODULE AuthService ----------------------------
(***************************************************************************)
(* Service: the ZeroMQ authentication service of a context.  A thread      *)
(* polls an API pipe, on which its owner says TERMINATE, and the ZAP       *)
(* socket, on which ZeroMQ asks whether a peer may connect.  The services  *)
(* of a process are indexed by their names.  start() and stop() are called *)
(* by the owner's thread, so each of their steps is an operator for the    *)
(* module that models the owner.                                           *)
(***************************************************************************)
EXTENDS Integers, Sequences, FiniteSets

CONSTANTS
    Services,       \* the services, by name
    MaxRequests     \* bound: ZAP requests put to one service

ASSUME ServiceAssumption == MaxRequests \in Nat

VARIABLES
    mKeepRunning,   \* of each service
    mAPIStarted,    \* of each service
    zap,            \* where each service's mZAPThread is
    pipe,           \* commands on their way from mAPIPipe to the thread
    revents,        \* what the thread's last poll reported
    requests,       \* ZAP requests that wait to be received
    asked,          \* the number of requests put so far
    replies         \* history: requests received and the status sent, or 0

authVars == <<mKeepRunning, mAPIStarted, zap, pipe, revents, requests, asked,
              replies>>

\* A ZAP request: the mechanism, and whether the frame behind it is well formed.
Request == [mechanism: {"NULL", "PLAIN", "CURVE", "other"},
            frame: {"good", "bad", "missing"}]

\* What exception the checks of a request throw.  Grasslands lists nobody, so
\* whiteListed and blackListed do not throw.  at(6) throws when the frame is
\* missing; a CURVE key must have 32 bytes (bad: another length).  PLAIN takes
\* frame 5, the mechanism, for the user's name, so that no name (bad: the empty
\* one, in frame 6) is refused.
Failure(r) ==
    CASE r.mechanism = "NULL" -> "none"
      [] r.mechanism = "other" -> "InternalServerError"
      [] r.frame = "missing" -> "exception"
      [] r.mechanism = "CURVE" /\ r.frame = "bad" -> "BadRequest"
      [] OTHER -> "none"

\* Mutant: a request that passes leaves the status code unset.
StatusCodeUnset(r) == IF Failure(r) = "none" THEN -1 ELSE 500

StatusCode(r) ==
    CASE Failure(r) = "none" -> 200
      [] Failure(r) = "BadRequest" -> 400
      [] OTHER -> 500

AuthInit ==
    /\ mKeepRunning = [s \in Services |-> TRUE]
    /\ mAPIStarted = [s \in Services |-> FALSE]
    /\ zap = [s \in Services |-> "none"]
    /\ pipe = [s \in Services |-> <<>>]
    /\ revents = [s \in Services |-> {}]
    /\ requests = [s \in Services |-> <<>>]
    /\ asked = [s \in Services |-> 0]
    /\ replies = [s \in Services |-> <<>>]
---------------------------------------------------------------------------
(***************************************************************************)
(* stop(), in three steps, and start(), which calls stop() first.          *)
(***************************************************************************)

\* The thread end of the pipe exists: a PAIR socket has a peer to send to.
Connected(s) == zap[s] \in {"bind", "head", "poll", "api", "zap"}

\* Mutant: stop() relies on the flag alone.
StopSendsNothing(s) == UNCHANGED authVars

\* if (mAPIStarted): send TERMINATE.  Sending blocks without a peer.
StopSends(s) ==
    /\ IF mAPIStarted[s]
       THEN /\ Connected(s)
            /\ pipe' = [pipe EXCEPT ![s] = Append(@, "TERMINATE")]
            /\ mAPIStarted' = [mAPIStarted EXCEPT ![s] = FALSE]
       ELSE UNCHANGED <<pipe, mAPIStarted>>
    /\ UNCHANGED <<mKeepRunning, zap, revents, requests, asked, replies>>

StopFlags(s) ==
    /\ mKeepRunning' = [mKeepRunning EXCEPT ![s] = FALSE]
    /\ UNCHANGED <<mAPIStarted, zap, pipe, revents, requests, asked, replies>>

\* Mutant: the thread is not waited for.
StopDetaches(s) == UNCHANGED authVars

StopJoins(s) ==
    /\ zap[s] \in {"none", "exited"}
    /\ zap' = [zap EXCEPT ![s] = "none"]
    /\ UNCHANGED <<mKeepRunning, mAPIStarted, pipe, revents, requests, asked,
                   replies>>

\* start() on a service that has no thread: its stop() only lowers the flag.
ServiceStart(s) ==
    /\ zap[s] = "none" /\ ~mAPIStarted[s]
    /\ mKeepRunning' = [mKeepRunning EXCEPT ![s] = TRUE]
    /\ zap' = [zap EXCEPT ![s] = "connect"]
    /\ UNCHANGED <<mAPIStarted, pipe, revents, requests, asked, replies>>
---------------------------------------------------------------------------
(***************************************************************************)
(* runZAPThread().                                                         *)
(***************************************************************************)

\* Connect the pipe and say so.
ZapConnects(s) ==
    /\ zap[s] = "connect"
    /\ mAPIStarted' = [mAPIStarted EXCEPT ![s] = TRUE]
    /\ zap' = [zap EXCEPT ![s] = "bind"]
    /\ UNCHANGED <<mKeepRunning, pipe, revents, requests, asked, replies>>

\* Bind the ZAP socket and send the empty message that nobody reads.
ZapBinds(s) ==
    /\ zap[s] = "bind"
    /\ zap' = [zap EXCEPT ![s] = "head"]
    /\ UNCHANGED <<mKeepRunning, mAPIStarted, pipe, revents, requests, asked,
                   replies>>

\* Mutant: the loop has no condition.
ZapHeadForever(s) ==
    /\ zap[s] = "head"
    /\ zap' = [zap EXCEPT ![s] = "poll"]
    /\ UNCHANGED <<mKeepRunning, mAPIStarted, pipe, revents, requests, asked,
                   replies>>

\* while (keepRunning()); on leaving the loop the sockets are closed.
ZapHead(s) ==
    /\ zap[s] = "head"
    /\ IF mKeepRunning[s]
       THEN zap' = [zap EXCEPT ![s] = "poll"] /\ UNCHANGED <<pipe, requests>>
       ELSE /\ zap' = [zap EXCEPT ![s] = "exited"]
            /\ pipe' = [pipe EXCEPT ![s] = <<>>]
            /\ requests' = [requests EXCEPT ![s] = <<>>]
    /\ UNCHANGED <<mKeepRunning, mAPIStarted, revents, asked, replies>>

\* Mutant: only the first poll item is watched.
ZapPollsPipe(s) ==
    /\ zap[s] = "poll"
    /\ pipe[s] # <<>>
    /\ revents' = [revents EXCEPT ![s] = {"api"}]
    /\ zap' = [zap EXCEPT ![s] = "api"]
    /\ UNCHANGED <<mKeepRunning, mAPIStarted, pipe, requests, asked, replies>>

\* The poll has no time-out: it returns when a message can be read.
ZapPolls(s) ==
    LET readable == (IF pipe[s] # <<>> THEN {"api"} ELSE {}) \cup
                    (IF requests[s] # <<>> THEN {"zap"} ELSE {}) IN
    /\ zap[s] = "poll"
    /\ readable # {}
    /\ revents' = [revents EXCEPT ![s] = readable]
    /\ zap' = [zap EXCEPT ![s] = "api"]
    /\ UNCHANGED <<mKeepRunning, mAPIStarted, pipe, requests, asked, replies>>

ZapHandlesAPI(s) ==
    /\ zap[s] = "api"
    /\ zap' = [zap EXCEPT ![s] = "zap"]
    /\ IF "api" \in revents[s]
       THEN /\ pipe' = [pipe EXCEPT ![s] = Tail(@)]
            /\ mKeepRunning' = [mKeepRunning EXCEPT ![s] = FALSE]
            /\ mAPIStarted' = [mAPIStarted EXCEPT ![s] = FALSE]
       ELSE UNCHANGED <<pipe, mKeepRunning, mAPIStarted>>
    /\ UNCHANGED <<revents, requests, asked, replies>>

\* A request that is received after the flag fell is not answered.
ZapHandlesRequest(s) ==
    /\ zap[s] = "zap"
    /\ zap' = [zap EXCEPT ![s] = "head"]
    /\ IF "zap" \in revents[s]
       THEN /\ requests' = [requests EXCEPT ![s] = Tail(@)]
            /\ replies' = [replies EXCEPT ![s] = Append(@,
                   [request |-> Head(requests[s]),
                    status |-> IF mKeepRunning[s]
                               THEN StatusCode(Head(requests[s])) ELSE 0])]
       ELSE UNCHANGED <<requests, replies>>
    /\ UNCHANGED <<mKeepRunning, mAPIStarted, pipe, revents, asked>>

ZapThread(s) ==
    \/ ZapConnects(s) \/ ZapBinds(s) \/ ZapHead(s) \/ ZapPolls(s)
    \/ ZapHandlesAPI(s) \/ ZapHandlesRequest(s)

\* ZeroMQ puts a request for a peer that wants to connect.
PeerAsks(s, rs) ==
    /\ zap[s] \in {"head", "poll", "api", "zap"}
    /\ asked[s] < MaxRequests
    /\ asked' = [asked EXCEPT ![s] = @ + 1]
    /\ \E r \in rs : requests' = [requests EXCEPT ![s] = Append(@, r)]
    /\ UNCHANGED <<mKeepRunning, mAPIStarted, zap, pipe, revents, replies>>

AuthTypeOK ==
    /\ mKeepRunning \in [Services -> BOOLEAN]
    /\ mAPIStarted \in [Services -> BOOLEAN]
    /\ zap \in [Services -> {"none", "connect", "bind", "head", "poll", "api",
                             "zap", "exited"}]
    /\ pipe \in [Services -> Seq({"TERMINATE"})]
    /\ revents \in [Services -> SUBSET {"api", "zap"}]
    /\ requests \in [Services -> Seq(Request)]
    /\ asked \in [Services -> 0..MaxRequests]
    /\ replies \in [Services -> Seq([request: Request,
                                     status: {0, 200, 400, 500}])]
===========================================================================
