------------------------- MODULE SeedLinkPublisher -------------------------
(***************************************************************************)
(* The seedLinkDataPacketBroadcastPublisher process: the SEEDLink client's *)
(* reader fills mQueue (queue), the publisher thread sends its packets to  *)
(* the proxy, and the main thread starts and stops both.  The process may  *)
(* crash and be started again; only the state file outlives it.            *)
(***************************************************************************)
EXTENDS SeedLinkClient, FiniteSets

CONSTANTS
    MaxQueueSize,   \* MAX_QUEUE_SIZE, above which the queue is trimmed
    MaxLives        \* bound: times the process is started

ASSUME PublisherAssumption ==
    /\ MaxQueueSize \in Nat
    /\ MaxLives \in Nat \ {0}

VARIABLES
    mKeepRunning,
    mInterrupted,
    main,           \* where the main thread is
    publisher,      \* where mPublisherThread is
    sent,           \* history: packets sent in this life, in order
    lives           \* history: times the process was started

procVars == <<mKeepRunning, mInterrupted, main>>
sendVars == <<publisher, sent>>
vars == <<clientVars, procVars, sendVars, lives>>
---------------------------------------------------------------------------
(***************************************************************************)
(* The main thread.                                                        *)
(***************************************************************************)

Init ==
    /\ ClientInit
    /\ mKeepRunning = TRUE
    /\ mInterrupted = FALSE
    /\ main = "initialize"
    /\ publisher = "none"
    /\ sent = <<>>
    /\ lives = 1

\* The client's initialize() succeeds ...
Initialize ==
    /\ main = "initialize"
    /\ main' = "constructed"
    /\ UNCHANGED <<clientVars, mKeepRunning, mInterrupted, sendVars, lives>>

\* ... or throws, which ends the process.
InitializeFails ==
    /\ main = "initialize"
    /\ InitializeThrows
    /\ main' = "failed"
    /\ UNCHANGED <<produced, position, terminate, clientKeepRunning, reader,
                   updateStateFile, queue, handled, first, mKeepRunning,
                   mInterrupted, sendVars, lives>>

\* Client::connect(), which the import client interface offers; the program
\* goes straight to start().
OwnerConnects ==
    /\ main = "constructed"
    /\ Connect
    /\ main' = "initialize"
    /\ UNCHANGED <<produced, reader, updateStateFile, queue, handled, first,
                   mKeepRunning, mInterrupted, sendVars, lives>>

\* start(): the publisher thread, then the client's reader.
Start ==
    /\ main = "constructed"
    /\ mKeepRunning' = TRUE
    /\ publisher' = "head"
    /\ StartReader
    /\ main' = "wait"
    /\ UNCHANGED <<produced, position, stateFile, updateStateFile, queue,
                   handled, first, mInterrupted, sent, lives>>

\* SIGINT or SIGTERM.
SignalHandler ==
    /\ main = "wait"
    /\ ~mInterrupted
    /\ mInterrupted' = TRUE
    /\ UNCHANGED <<clientVars, mKeepRunning, main, sendVars, lives>>

\* handleMainThread sees the signal and calls stop().
StopBegins ==
    /\ main = "wait"
    /\ mInterrupted
    /\ mKeepRunning' = FALSE
    /\ main' = "join"
    /\ UNCHANGED <<clientVars, mInterrupted, sendVars, lives>>

JoinPublisher ==
    /\ main = "join"
    /\ Joinable(publisher)
    /\ publisher' = "none"
    /\ main' = "stopped"
    /\ UNCHANGED <<clientVars, mKeepRunning, mInterrupted, sent, lives>>

\* ~Process destroys the client, whose destructor calls stop() ...
Destroy ==
    /\ main = "stopped"
    /\ StopFlag
    /\ main' = "destroy"
    /\ UNCHANGED <<produced, position, stateFile, reader, updateStateFile,
                   queue, handled, first, mKeepRunning, mInterrupted, sendVars,
                   lives>>

\* ... and, when the reader has ended, disconnect().
Exit ==
    /\ main = "destroy"
    /\ Joinable(reader)
    /\ reader' = "none"
    /\ SaveOnDisconnect
    /\ main' = "done"
    /\ UNCHANGED <<produced, position, terminate, clientKeepRunning,
                   updateStateFile, queue, handled, first, mKeepRunning,
                   mInterrupted, sendVars, lives>>

Main == \/ Initialize \/ InitializeFails \/ Start
        \/ StopBegins \/ JoinPublisher \/ Destroy \/ Exit

\* The process is started again, after it ended or in place of one that was
\* killed at any moment.
Restart ==
    /\ lives < MaxLives
    /\ lives' = lives + 1
    /\ ClientRestart
    /\ mKeepRunning' = TRUE
    /\ mInterrupted' = FALSE
    /\ main' = "initialize"
    /\ publisher' = "none"
    /\ sent' = <<>>
---------------------------------------------------------------------------
(***************************************************************************)
(* sendPacketsViaZeroMQ().                                                 *)
(***************************************************************************)

\* Mutant: the thread ends when it finds nothing to send.
PublisherEndsEarly ==
    /\ publisher = "head"
    /\ publisher' = IF mKeepRunning /\ queue # <<>> THEN "trim" ELSE "exited"
    /\ UNCHANGED <<clientVars, procVars, sent, lives>>

PublisherHead ==
    /\ publisher = "head"
    /\ publisher' = IF mKeepRunning THEN "trim" ELSE "exited"
    /\ UNCHANGED <<clientVars, procVars, sent, lives>>

PublisherTrims ==
    /\ publisher = "trim"
    /\ IF Len(queue) > MaxQueueSize
       THEN queue' = Tail(queue) /\ UNCHANGED publisher
       ELSE publisher' = "peek" /\ UNCHANGED queue
    /\ UNCHANGED <<produced, position, terminate, stateFile, clientKeepRunning,
                   reader, updateStateFile, handled, first, procVars, sent,
                   lives>>

PublisherPeeks ==
    /\ publisher = "peek"
    /\ publisher' = IF queue = <<>> THEN "head" ELSE "send"
    /\ UNCHANGED <<clientVars, procVars, sent, lives>>

PublisherSends ==
    /\ publisher = "send"
    /\ sent' = Append(sent, queue[1])
    /\ publisher' = "pop"
    /\ UNCHANGED <<clientVars, procVars, lives>>

\* Publisher::send throws; the packet is popped all the same.
PublisherFails ==
    /\ publisher = "send"
    /\ publisher' = "pop"
    /\ UNCHANGED <<clientVars, procVars, sent, lives>>

\* Mutant: the packet that was sent stays in the queue.
PublisherKeeps ==
    /\ publisher = "pop"
    /\ publisher' = "head"
    /\ UNCHANGED <<clientVars, procVars, sent, lives>>

PublisherPops ==
    /\ publisher = "pop"
    /\ queue' = Tail(queue)
    /\ publisher' = "head"
    /\ UNCHANGED <<produced, position, terminate, stateFile, clientKeepRunning,
                   reader, updateStateFile, handled, first, procVars, sent,
                   lives>>

Publisher ==
    \/ PublisherHead \/ PublisherTrims \/ PublisherPeeks \/ PublisherSends
    \/ PublisherFails \/ PublisherPops

ReaderStep == Reader /\ UNCHANGED <<procVars, sendVars, lives>>
ServerStep == Produce /\ UNCHANGED <<procVars, sendVars, lives>>
Done == main \in {"done", "failed"} /\ UNCHANGED vars

Next == \/ OwnerConnects \/ Main \/ SignalHandler \/ Restart \/ ReaderStep
        \/ Publisher \/ ServerStep \/ Done

\* The operating system schedules every thread.  The server need not produce a
\* packet, and nobody need send a signal, kill the process or start it again.
Fairness ==
    /\ WF_vars(Main)
    /\ WF_vars(ReaderStep)
    /\ WF_vars(Publisher)

Spec == Init /\ [][Next]_vars /\ Fairness
---------------------------------------------------------------------------
\* The types of the process's members and the positions of its threads.
TypeOK ==
    /\ ClientTypeOK
    /\ mKeepRunning \in BOOLEAN
    /\ mInterrupted \in BOOLEAN
    /\ main \in {"initialize", "constructed", "wait", "join", "stopped",
                 "destroy", "done", "failed"}
    /\ publisher \in {"none", "head", "trim", "peek", "send", "pop",
                      "exited"}
    /\ sent \in Seq(1..MaxProduced)
    /\ lives \in 1..MaxLives

\* What the client has received without a break, the packet in hand excepted.
Reached == IF reader = "packet" THEN position - 1 ELSE position

\* Whatever moment the process is killed at, the reader has dealt with every
\* data packet from the first on up to its own position and up to the one in
\* the state file: a number is saved after its packet was handed over, so that a
\* restart repeats packets rather than skip one.
NoGap ==
    /\ stateFile # Unset => first..stateFile \subseteq handled \cup OtherFormats
    /\ position # Unset => first..Reached \subseteq handled \cup OtherFormats

\* The data packets that a restart repeats if there is a number to resume from.
Unsaved == {s \in handled : s > stateFile /\ s >= first}

\* However often the process is killed on the way to the next save, a restart
\* repeats at most one packet more than the interval: updateStateFile starts at
\* 1 and must exceed the interval.  (clientOptions.hpp:88 has the state file
\* updated after `this many packets'.)
RedeliveryBounded ==
    stateFile # Unset => Cardinality(Unsaved) <= StateFileUpdateInterval + 1

\* Through crashes, restarts and shutdowns the number in the state file never
\* goes back, and it is erased only by a disconnect() before the reader of that
\* life was started, which is the one that would have recovered it.
StateForward ==
    [][\/ stateFile' >= stateFile
       \/ stateFile' = Unset /\ main \in {"initialize", "constructed"}]_vars

Fifo == INSTANCE LossyFifo WITH received <- produced

\* In each life of the process packets reach the proxy in the server's order and
\* none twice, whatever is dropped at the full queue, trimmed or not sent.
InOrder == Fifo!RestartingSpec

\* SIGTERM ends the process unless it is killed first: the publisher's join and
\* the client's join return.
Terminates == mInterrupted ~> (main = "done" \/ ~mInterrupted)

\* A packet that reached the queue leaves it unless the process is told to stop.
QueueDrains ==
    \A s \in 1..MaxProduced :
        (\E k \in 1..Len(queue) : queue[k] = s)
            ~> (mInterrupted \/ ~ \E k \in 1..Len(queue) : queue[k] = s)
===========================================================================
