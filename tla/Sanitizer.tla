----------------------------- MODULE Sanitizer -----------------------------
(***************************************************************************)
(* The dataPacketSanitizer process: the subscriber's listener thread fills *)
(* mPacketsToCheckQueue (queue), the tester thread moves the packets that  *)
(* pass the tests to mMessagesToPublishQueue (toPublish), the publisher    *)
(* thread sends them, and the main thread starts and stops the others.     *)
(* What the testers answer is left open here (Testers, DuplicateTest).     *)
(***************************************************************************)
EXTENDS Subscriber

CONSTANTS
    MaxQueueSize,      \* MAX_QUEUE_SIZE, above which a queue is trimmed
    TestFuture,        \* the testers the options ask for
    TestExpired,
    TestDuplicate

ASSUME SanitizerAssumption ==
    /\ MaxQueueSize \in Nat
    /\ {TestFuture, TestExpired, TestDuplicate} \subseteq BOOLEAN

VARIABLES
    mKeepRunning,
    mInterrupted,
    main,         \* where the main thread is
    tester,       \* where mTesterThread is
    publisher,    \* where mPublisherThread is
    damaged,      \* whether a destroyed queue was written to
    checking,     \* the packet the tester has dequeued: at most one
    toPublish,    \* mMessagesToPublishQueue
    sent          \* history: the packets sent, in order

procVars == <<mKeepRunning, mInterrupted, main, damaged>>
pipeVars == <<tester, publisher, checking, toPublish, sent>>
vars == <<subVars, procVars, pipeVars>>
---------------------------------------------------------------------------
(***************************************************************************)
(* The main thread: start(), handleMainThread(), stop() and ~Process().    *)
(***************************************************************************)

\* start() first calls stop(), and Subscriber::stop() starts a listener.
StartStops ==
    /\ main = "start"
    /\ mKeepRunning' = FALSE
    /\ ImplStartThread
    /\ main' = "spawn"
    /\ UNCHANGED <<mInterrupted, damaged, received, queue, pipeVars>>

\* The publisher and the tester thread, and SubscriberImpl::start's stop().
StartThreads ==
    /\ main = "spawn"
    /\ mKeepRunning' = TRUE
    /\ publisher' = "head"
    /\ tester' = "head"
    /\ ImplStopFlag
    /\ main' = "listen"
    /\ UNCHANGED <<mInterrupted, damaged, listener, received, queue,
                   checking, toPublish, sent>>

StartListener ==
    /\ main = "listen"
    /\ ImplStartThread
    /\ main' = "wait"
    /\ UNCHANGED <<mKeepRunning, mInterrupted, damaged, received, queue,
                   pipeVars>>

\* SIGINT or SIGTERM.
SignalHandler ==
    /\ ~mInterrupted
    /\ main = "wait"
    /\ mInterrupted' = TRUE
    /\ UNCHANGED <<subVars, mKeepRunning, main, damaged, pipeVars>>

\* Mutant: the flag of the tester and the publisher is not lowered.
StopWithoutFlag ==
    /\ main = "wait"
    /\ mInterrupted
    /\ ImplStopFlag
    /\ main' = "stopListener"
    /\ UNCHANGED <<mKeepRunning, mInterrupted, damaged, listener, received,
                   queue, pipeVars>>

\* handleMainThread sees the signal and calls stop(), which asks the
\* subscriber to stop.
StopBegins ==
    /\ main = "wait"
    /\ mInterrupted
    /\ mKeepRunning' = FALSE
    /\ ImplStopFlag
    /\ main' = "stopListener"
    /\ UNCHANGED <<mInterrupted, damaged, listener, received, queue, pipeVars>>

\* Subscriber::stop() calls SubscriberImpl::start().
SubscriberStop == ImplStartThread

StopListener ==
    /\ main = "stopListener"
    /\ SubscriberStop
    /\ main' = "joinTester"
    /\ UNCHANGED <<mKeepRunning, mInterrupted, damaged, received, queue,
                   pipeVars>>

\* Mutant: the tester thread is detached.
DetachTester ==
    /\ main = "joinTester"
    /\ main' = "joinPublisher"
    /\ UNCHANGED <<subVars, mKeepRunning, mInterrupted, damaged, pipeVars>>

JoinTester ==
    /\ main = "joinTester"
    /\ Joinable(tester)
    /\ tester' = "none"
    /\ main' = "joinPublisher"
    /\ UNCHANGED <<subVars, mKeepRunning, mInterrupted, damaged, publisher,
                   checking, toPublish, sent>>

JoinPublisher ==
    /\ main = "joinPublisher"
    /\ Joinable(publisher)
    /\ publisher' = "none"
    /\ main' = "stopped"
    /\ UNCHANGED <<subVars, mKeepRunning, mInterrupted, damaged, tester,
                   checking, toPublish, sent>>

\* ~Process destroys its members from the last to the first: the queues with
\* what is in them ...
DestroyQueues ==
    /\ main = "stopped"
    /\ queue' = <<>>
    /\ toPublish' = <<>>
    /\ main' = "unqueued"
    /\ UNCHANGED <<subKeepRunning, listener, received, mKeepRunning,
                   mInterrupted, damaged, tester, publisher, checking, sent>>

\* ... and then the subscriber: ~SubscriberImpl stops the listener.
Destroy ==
    /\ main = "unqueued"
    /\ ImplStopFlag
    /\ main' = "destroy"
    /\ UNCHANGED <<mKeepRunning, mInterrupted, damaged, listener, received,
                   queue, pipeVars>>

Exit ==
    /\ main = "destroy"
    /\ ImplStopped
    /\ main' = "done"
    /\ UNCHANGED <<mKeepRunning, mInterrupted, damaged, received, queue,
                   pipeVars>>

Main ==
    \/ StartStops \/ StartThreads \/ StartListener
    \/ StopBegins \/ StopListener \/ JoinTester \/ JoinPublisher
    \/ DestroyQueues \/ Destroy \/ Exit
---------------------------------------------------------------------------
(***************************************************************************)
(* checkPackets().                                                         *)
(***************************************************************************)
\* Mutant: the tester ends when it finds nothing to do.
TesterEndsEarly ==
    /\ tester = "head"
    /\ tester' = IF mKeepRunning /\ queue # <<>> THEN "trim" ELSE "exited"
    /\ UNCHANGED <<subVars, procVars, publisher, checking, toPublish, sent>>

TesterHead ==
    /\ tester = "head"
    /\ tester' = IF mKeepRunning THEN "trim" ELSE "exited"
    /\ UNCHANGED <<subVars, procVars, publisher, checking, toPublish, sent>>

\* An overfull queue loses packets at its front until it is small enough.
TesterTrims ==
    /\ tester = "trim"
    /\ IF Len(queue) > MaxQueueSize
       THEN queue' = Tail(queue) /\ UNCHANGED tester
       ELSE tester' = "take" /\ UNCHANGED queue
    /\ UNCHANGED <<subKeepRunning, listener, received, procVars, publisher,
                   checking, toPublish, sent>>

\* try_dequeue, or a sleep.
TesterTakes ==
    /\ tester = "take"
    /\ IF queue = <<>>
       THEN tester' = "head" /\ UNCHANGED <<queue, checking>>
       ELSE /\ checking' = <<Head(queue)>>
            /\ queue' = Tail(queue)
            /\ tester' = "check"
    /\ UNCHANGED <<subKeepRunning, listener, received, procVars, publisher,
                   toPublish, sent>>

\* The chain of tests: `allow' is false to begin with and only the future tester
\* can raise it; each later tester is asked only while it is true.
Allows(inTime, current, unseen) ==
    /\ TestFuture /\ inTime
    /\ TestExpired => current
    /\ TestDuplicate => unseen

TesterChecks ==
    /\ tester = "check"
    /\ \E inTime, current, unseen \in BOOLEAN :
           toPublish' = IF Allows(inTime, current, unseen)
                        THEN TryEnqueue(toPublish, checking[1])
                        ELSE toPublish
    /\ checking' = <<>>
    /\ tester' = "head"
    /\ UNCHANGED <<subVars, procVars, publisher, sent>>

\* A tester throws (a packet without an end time): the packet is dropped.
TesterFails ==
    /\ tester = "check"
    /\ checking' = <<>>
    /\ tester' = "head"
    /\ UNCHANGED <<subVars, procVars, publisher, toPublish, sent>>

Tester ==
    \/ TesterHead \/ TesterTrims \/ TesterTakes \/ TesterChecks \/ TesterFails
---------------------------------------------------------------------------
(***************************************************************************)
(* publishGoodPackets().                                                   *)
(***************************************************************************)
PublisherHead ==
    /\ publisher = "head"
    /\ publisher' = IF mKeepRunning THEN "trim" ELSE "exited"
    /\ UNCHANGED <<subVars, procVars, tester, checking, toPublish, sent>>

PublisherTrims ==
    /\ publisher = "trim"
    /\ IF Len(toPublish) > MaxQueueSize
       THEN toPublish' = Tail(toPublish) /\ UNCHANGED publisher
       ELSE publisher' = "peek" /\ UNCHANGED toPublish
    /\ UNCHANGED <<subVars, procVars, tester, checking, sent>>

\* peek: the packet stays in the queue while it is sent.
PublisherPeeks ==
    /\ publisher = "peek"
    /\ publisher' = IF toPublish = <<>> THEN "head" ELSE "send"
    /\ UNCHANGED <<subVars, procVars, tester, checking, toPublish, sent>>

PublisherSends ==
    /\ publisher = "send"
    /\ sent' = Append(sent, Head(toPublish))
    /\ publisher' = "pop"
    /\ UNCHANGED <<subVars, procVars, tester, checking, toPublish>>

\* Publisher::send throws; the packet is popped all the same.
PublisherFails ==
    /\ publisher = "send"
    /\ publisher' = "pop"
    /\ UNCHANGED <<subVars, procVars, tester, checking, toPublish, sent>>

PublisherPops ==
    /\ publisher = "pop"
    /\ toPublish' = Tail(toPublish)
    /\ publisher' = "head"
    /\ UNCHANGED <<subVars, procVars, tester, checking, sent>>

Publisher ==
    \/ PublisherHead \/ PublisherTrims \/ PublisherPeeks \/ PublisherSends
    \/ PublisherFails \/ PublisherPops
---------------------------------------------------------------------------
Finished(m) == m \in {"done", "crashed"}

Init ==
    /\ SubscriberInit
    /\ mKeepRunning = TRUE
    /\ mInterrupted = FALSE
    /\ main = "start"
    /\ tester = "none"
    /\ publisher = "none"
    /\ checking = <<>>
    /\ toPublish = <<>>
    /\ sent = <<>>
    /\ damaged = FALSE

QueuesLive == main \notin {"unqueued", "destroy", "done", "crashed"}

Listens ==
    /\ ListenerLoops \/ (QueuesLive /\ ListenerReceives)
    /\ UNCHANGED <<procVars, pipeVars>>

\* The listener that stop() has started calls back into a destroyed queue, which
\* is undefined: the write may go unnoticed, ...
ListenerOverruns ==
    /\ ~QueuesLive
    /\ listener = "receiving"
    /\ received < MaxReceived
    /\ received' = received + 1
    /\ listener' = "head"
    /\ damaged' = TRUE
    /\ UNCHANGED <<subKeepRunning, queue, mKeepRunning, mInterrupted, main,
                   pipeVars>>

\* ... or it ends the process, at once or later.
Crash ==
    /\ damaged
    /\ ~Finished(main)
    /\ main' = "crashed"
    /\ listener' = "none"
    /\ UNCHANGED <<subKeepRunning, received, queue, mKeepRunning, mInterrupted,
                   damaged, pipeVars>>

\* The process is gone.
Done == Finished(main) /\ UNCHANGED vars

Next ==
    \/ Main \/ SignalHandler
    \/ Listens \/ ListenerOverruns \/ Tester \/ Publisher
    \/ Crash \/ Done

\* The operating system schedules every thread; a receive ends by its time-out.
\* No signal need ever come, and no message either.
Fairness ==
    /\ WF_vars(Main)
    /\ WF_vars(Listens \/ ListenerOverruns)
    /\ WF_vars(Tester)
    /\ WF_vars(Publisher)

Spec == Init /\ [][Next]_vars /\ Fairness
---------------------------------------------------------------------------
\* The types of the process's members and the positions of its threads.
TypeOK ==
    /\ SubscriberTypeOK
    /\ mKeepRunning \in BOOLEAN
    /\ mInterrupted \in BOOLEAN
    /\ main \in {"start", "spawn", "listen", "wait", "stopListener",
                 "joinTester", "joinPublisher", "stopped", "unqueued",
                 "destroy", "done", "crashed"}
    /\ damaged \in BOOLEAN
    /\ tester \in {"none", "head", "trim", "take", "check", "exited"}
    /\ publisher \in {"none", "head", "trim", "peek", "send", "pop", "exited"}
    /\ checking \in Seq(Packet) /\ Len(checking) <= 1
    /\ toPublish \in Seq(Packet) /\ Len(toPublish) <= QueueCapacity
    /\ sent \in Seq(Packet)

Fifo == INSTANCE LossyFifo

\* The pipeline of three threads and two trimmed queues loses packets but
\* neither repeats nor reorders them, restarts of the listener included.
InOrder == Fifo!Spec

Stopped == main \in {"stopped", "unqueued", "destroy", "done", "crashed"}

\* When Process::stop() has returned, the tester and the publisher have ended:
\* nothing is taken for a check, queued for publication or sent any more.
QuietAfterStop ==
    [][Stopped => /\ UNCHANGED <<checking, sent>>
                  /\ toPublish' \in {toPublish, <<>>}]_vars

\* SIGTERM ends the process: no thread is joined that does not end, although
\* stop() leaves a new listener behind.  The end need not be an orderly one,
\* since that listener may have written to a destroyed queue.
Terminates == mInterrupted ~> Finished(main)

\* Every packet that reached the first queue leaves it, unless the process is
\* told to stop.
EveryPacketTaken ==
    \A i \in 1..MaxReceived :
        (\E k \in 1..Len(queue) : queue[k] = i)
            ~> (mInterrupted \/ ~ \E k \in 1..Len(queue) : queue[k] = i)

\* subscriber.hpp:22: Subscriber::stop() stops the listening thread, so no
\* listener runs when Process::stop() has returned.
ListenerStopped == main = "stopped" => Joinable(listener)
===========================================================================
