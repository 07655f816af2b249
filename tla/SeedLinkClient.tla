--------------------------- MODULE SeedLinkClient ---------------------------
(***************************************************************************)
(* The SEEDLink client: a thread that collects packets from a SEEDLink     *)
(* server, hands each to a callback (here the one that enqueues it) and    *)
(* now and then saves the sequence number it has reached to a state file,  *)
(* from which a later start resumes.  A packet is its sequence number; the *)
(* server numbers its packets from 1.  The calls of the client's owner     *)
(* are operators for the module that models the owner.                     *)
(***************************************************************************)
EXTENDS Integers, Sequences

CONSTANTS
    UseStateFile,              \* mUseStateFile: a state file was given
    StateFileUpdateInterval,   \* mStateFileUpdateInterval
    QueueCapacity,             \* packets the callback's queue can hold
    MaxProduced,               \* bound: packets the server produces
    OtherFormats               \* the packets whose payload is not miniSEED

ASSUME ClientAssumption ==
    /\ UseStateFile \in BOOLEAN
    /\ StateFileUpdateInterval \in Nat
    /\ QueueCapacity \in Nat \ {0}
    /\ MaxProduced \in Nat
    /\ OtherFormats \subseteq 1..MaxProduced

VARIABLES
    produced,           \* the last packet the server has produced
    position,           \* the last packet libslink has received, or Unset
    terminate,          \* libslink is asked to terminate the connection
    stateFile,          \* the number in the state file, or Unset: none
    clientKeepRunning,  \* ClientImpl::mKeepRunning
    reader,             \* where mSEEDLinkReaderThread is
    updateStateFile,    \* the reader's count of packets since it last saved
    queue,              \* the queue that the callback fills
    handled,            \* history: data packets the reader has dealt with
    first               \* history: the last packet taken as `next data'

clientVars == <<produced, position, terminate, stateFile, clientKeepRunning,
                reader, updateStateFile, queue, handled, first>>

Unset == 0   \* SL_UNSETSEQUENCE
---------------------------------------------------------------------------
(***************************************************************************)
(* What the owner's calls do.                                              *)
(***************************************************************************)

ClientInit ==
    /\ produced = 0
    /\ position = Unset
    /\ terminate = FALSE
    /\ stateFile = Unset
    /\ clientKeepRunning = TRUE
    /\ reader = "none"
    /\ updateStateFile = 1
    /\ queue = <<>>
    /\ handled = {}
    /\ first = Unset

\* A new process has a new client; the server and the state file remain.
ClientRestart ==
    /\ position' = Unset
    /\ terminate' = FALSE
    /\ clientKeepRunning' = TRUE
    /\ reader' = "none"
    /\ updateStateFile' = 1
    /\ queue' = <<>>
    /\ UNCHANGED <<produced, stateFile, handled, first>>

\* A thread that join() need not wait for.
Joinable(thread) == thread \in {"none", "exited"}

\* Mutant: nobody is told.
StopForgets == UNCHANGED <<terminate, clientKeepRunning>>

\* setRunning(false): libslink is told to terminate if the client runs.
StopFlag ==
    /\ terminate' = (terminate \/ clientKeepRunning)
    /\ clientKeepRunning' = FALSE

\* Mutant: the reader is started without its recovery of the state.
StartAtHead ==
    /\ Joinable(reader)
    /\ clientKeepRunning' = TRUE
    /\ terminate' = FALSE
    /\ reader' = "head"

\* start() once the join of its stop() has returned.
StartReader ==
    /\ Joinable(reader)
    /\ clientKeepRunning' = TRUE
    /\ terminate' = FALSE
    /\ reader' = "recover"

\* disconnect(): the state is saved before the connection is freed.
SaveOnDisconnect ==
    stateFile' = IF UseStateFile THEN position ELSE stateFile

\* connect(): stop(), disconnect() and a new connection, still to be set up.
Connect ==
    /\ Joinable(reader)
    /\ SaveOnDisconnect
    /\ position' = Unset
    /\ terminate' = FALSE
    /\ clientKeepRunning' = FALSE

\* initialize() throws and takes the client with it: once it has set
\* mUseStateFile, the destructor saves the numbers of a connection that has none.
InitializeThrows ==
    stateFile' \in {stateFile, IF UseStateFile THEN Unset ELSE stateFile}
---------------------------------------------------------------------------
(***************************************************************************)
(* packetToCallback().                                                     *)
(***************************************************************************)

\* sl_recoverstate leaves the connection as it is when there is no number.
ReaderRecovers ==
    /\ reader = "recover"
    /\ position' = IF UseStateFile /\ stateFile # Unset THEN stateFile
                                                        ELSE position
    /\ updateStateFile' = 1
    /\ reader' = "head"
    /\ UNCHANGED <<produced, terminate, stateFile, clientKeepRunning, queue,
                   handled, first>>

ReaderHead ==
    /\ reader = "head"
    /\ reader' = IF clientKeepRunning THEN "collect" ELSE "exited"
    /\ UNCHANGED <<produced, position, terminate, stateFile, clientKeepRunning,
                   updateStateFile, queue, handled, first>>

\* sl_collect returns SLTERMINATE.
ReaderTerminates ==
    /\ reader = "collect"
    /\ terminate
    /\ reader' = "exited"
    /\ UNCHANGED <<produced, position, terminate, stateFile, clientKeepRunning,
                   updateStateFile, queue, handled, first>>

\* sl_collect returns no packet, a packet that is too large or something else.
ReaderGetsNothing ==
    /\ reader = "collect"
    /\ ~terminate
    /\ reader' = "head"
    /\ UNCHANGED <<produced, position, terminate, stateFile, clientKeepRunning,
                   updateStateFile, queue, handled, first>>

\* The server produces a packet; a client without a position is sent that one.
NextData ==
    /\ produced < MaxProduced
    /\ produced' = produced + 1

\* Mutant: the state is saved before the packet is handed over.
CollectsAndSaves ==
    /\ reader = "collect"
    /\ ~terminate
    /\ IF position = Unset
       THEN NextData /\ position' = produced' /\ first' = produced'
       ELSE /\ position < produced
            /\ position' = position + 1
            /\ UNCHANGED <<produced, first>>
    /\ stateFile' = IF UseStateFile THEN position' ELSE stateFile
    /\ reader' = "packet"
    /\ UNCHANGED <<terminate, clientKeepRunning, updateStateFile, queue,
                   handled>>

\* sl_collect returns a packet: the one behind the position, or the next one.
ReaderCollects ==
    /\ reader = "collect"
    /\ ~terminate
    /\ IF position = Unset
       THEN NextData /\ position' = produced' /\ first' = produced'
       ELSE /\ position < produced
            /\ position' = position + 1
            /\ UNCHANGED <<produced, first>>
    /\ reader' = "packet"
    /\ UNCHANGED <<terminate, stateFile, clientKeepRunning, updateStateFile,
                   queue, handled>>

\* Mutant: enqueue instead of try_enqueue.
EnqueueGrows(q, s) == Append(q, s)

\* try_enqueue in the callback: a packet that finds the queue full is dropped.
TryEnqueue(q, s) == IF Len(q) < QueueCapacity THEN Append(q, s) ELSE q

\* A payload that is not miniSEED is neither unpacked nor counted.
ReaderIgnores ==
    /\ reader = "packet"
    /\ position \in OtherFormats
    /\ reader' = "head"
    /\ UNCHANGED <<produced, position, terminate, stateFile, clientKeepRunning,
                   updateStateFile, queue, handled, first>>

\* The record is unpacked and its packet passes the callback's checks.
ReaderHandsOver ==
    /\ reader = "packet"
    /\ position \notin OtherFormats
    /\ queue' = TryEnqueue(queue, position)
    /\ handled' = handled \cup {position}
    /\ reader' = "save"
    /\ UNCHANGED <<produced, position, terminate, stateFile, clientKeepRunning,
                   updateStateFile, first>>

\* Unpacking fails, or the callback refuses the packet: it is skipped.
ReaderSkips ==
    /\ reader = "packet"
    /\ position \notin OtherFormats
    /\ handled' = handled \cup {position}
    /\ reader' = "save"
    /\ UNCHANGED <<produced, position, terminate, stateFile, clientKeepRunning,
                   updateStateFile, queue, first>>

\* The state is saved when the count has passed the interval.
ReaderSaves ==
    /\ reader = "save"
    /\ IF UseStateFile /\ updateStateFile > StateFileUpdateInterval
       THEN stateFile' = position /\ updateStateFile' = 1
       ELSE /\ updateStateFile' = IF UseStateFile THEN updateStateFile + 1
                                  ELSE updateStateFile
            /\ UNCHANGED stateFile
    /\ reader' = "head"
    /\ UNCHANGED <<produced, position, terminate, clientKeepRunning, queue,
                   handled, first>>

Reader ==
    \/ ReaderRecovers \/ ReaderHead \/ ReaderTerminates \/ ReaderGetsNothing
    \/ ReaderCollects \/ ReaderIgnores \/ ReaderHandsOver \/ ReaderSkips
    \/ ReaderSaves

\* The server receives a packet from one of its stations.
Produce ==
    /\ NextData
    /\ UNCHANGED <<position, terminate, stateFile, clientKeepRunning, reader,
                   updateStateFile, queue, handled, first>>

ClientTypeOK ==
    /\ produced \in 0..MaxProduced
    /\ position \in 0..MaxProduced
    /\ terminate \in BOOLEAN
    /\ stateFile \in 0..MaxProduced
    /\ clientKeepRunning \in BOOLEAN
    /\ reader \in {"none", "recover", "head", "collect", "packet", "save",
                   "exited"}
    /\ updateStateFile \in 1..(StateFileUpdateInterval + 1)
    /\ queue \in Seq(1..MaxProduced) /\ Len(queue) <= QueueCapacity
    /\ handled \subseteq 1..MaxProduced
    /\ first \in 0..MaxProduced
===========================================================================
