----------------------------- MODULE Subscriber -----------------------------
(***************************************************************************)
(* The subscriber to a data packet broadcast: a thread that receives       *)
(* messages from a ZeroMQ SUB socket and hands every data packet to a      *)
(* callback, here the one that enqueues it.  Messages are numbered in the  *)
(* order in which they arrive, and a packet is its number.                 *)
(***************************************************************************)
EXTENDS Integers, Sequences

CONSTANTS
    MaxReceived,     \* bound: messages that arrive in one behaviour
    QueueCapacity    \* packets the receiving queue can hold

ASSUME SubscriberAssumption ==
    MaxReceived \in Nat /\ QueueCapacity \in Nat \ {0}

VARIABLES
    subKeepRunning,   \* SubscriberImpl::mKeepRunning
    listener,         \* where mSubscriberThread is
    received,         \* messages that have arrived
    queue             \* the queue that the callback fills

subVars == <<subKeepRunning, listener, received, queue>>

Packet == 1..MaxReceived

(***************************************************************************)
(* SubscriberImpl.  A thread is "none" until it is spawned and again once  *)
(* it has been joined; "head" is the test of its while loop and "exited"   *)
(* its return.  stop() blocks in join(), so start() is two steps.          *)
(***************************************************************************)
SubscriberInit ==
    /\ subKeepRunning = TRUE
    /\ listener = "none"
    /\ received = 0
    /\ queue = <<>>

\* std::thread::join, which returns at once on a thread that is not joinable.
Joinable(thread) == thread \in {"none", "exited"}

\* SubscriberImpl::stop up to its join.
ImplStopFlag == subKeepRunning' = FALSE

\* SubscriberImpl::start once stop's join has returned.
ImplStartThread ==
    /\ Joinable(listener)
    /\ subKeepRunning' = TRUE
    /\ listener' = "head"

\* SubscriberImpl::stop once its join has returned.
ImplStopped ==
    /\ Joinable(listener)
    /\ listener' = "none"
    /\ UNCHANGED subKeepRunning

(***************************************************************************)
(* listen().                                                               *)
(***************************************************************************)

\* while (mKeepRunning): leave the loop, or wait in the socket's receive.
ListenerHead ==
    /\ listener = "head"
    /\ listener' = IF subKeepRunning THEN "receiving" ELSE "exited"
    /\ UNCHANGED <<subKeepRunning, received, queue>>

\* The receive times out: an empty multipart message.
ListenerTimeOut ==
    /\ listener = "receiving"
    /\ listener' = "head"
    /\ UNCHANGED <<subKeepRunning, received, queue>>

\* A message without two parts, of another type or that cannot be
\* deserialised is dropped.
ListenerDrops ==
    /\ listener = "receiving"
    /\ received < MaxReceived
    /\ received' = received + 1
    /\ listener' = "head"
    /\ UNCHANGED <<subKeepRunning, queue>>

\* Mutant: enqueue instead of try_enqueue.
EnqueueGrows(q, p) == Append(q, p)

\* try_enqueue: a packet that finds the queue full is dropped without a trace.
TryEnqueue(q, p) == IF Len(q) < QueueCapacity THEN Append(q, p) ELSE q

\* Mutant: the packet that came last is taken first.
ReceivesInFront ==
    /\ listener = "receiving"
    /\ received < MaxReceived
    /\ received' = received + 1
    /\ queue' = IF Len(queue) < QueueCapacity THEN <<received + 1>> \o queue
                                               ELSE queue
    /\ listener' = "head"
    /\ UNCHANGED subKeepRunning

\* A data packet goes to the callback.
ListenerReceives ==
    /\ listener = "receiving"
    /\ received < MaxReceived
    /\ received' = received + 1
    /\ queue' = TryEnqueue(queue, received + 1)
    /\ listener' = "head"
    /\ UNCHANGED subKeepRunning

\* What the listener does beside calling back.
ListenerLoops == ListenerHead \/ ListenerTimeOut \/ ListenerDrops

SubscriberTypeOK ==
    /\ subKeepRunning \in BOOLEAN
    /\ listener \in {"none", "head", "receiving", "exited"}
    /\ received \in 0..MaxReceived
    /\ queue \in Seq(Packet) /\ Len(queue) <= QueueCapacity
===========================================================================
