--------------------- MODULE SeedLinkPublisher_proofs ---------------------
(***************************************************************************)
(* Proofs for SeedLinkPublisher: for any capacity, interval and number of  *)
(* packets and lives, the state file skips no packet, moves forward unless *)
(* it is erased before it was read, lags by at most the interval and one,  *)
(* and within a life packets leave in the server's order.                  *)
(***************************************************************************)
EXTENDS SeedLinkPublisher, FiniteSetTheorems, TLAPS

\* The threads run after start(), and one that holds a packet is at the step
\* that handles it.
ThreadInv ==
    /\ main \in {"initialize", "constructed", "failed"} =>
           /\ reader = "none" /\ publisher = "none"
           /\ queue = <<>> /\ sent = <<>>
    /\ main \notin {"initialize", "constructed", "failed", "done"} =>
           reader # "none"
    /\ reader = "recover" => queue = <<>> /\ sent = <<>>
    /\ reader \in {"packet", "save"} => position # Unset
    /\ publisher \in {"send", "pop"} => queue # <<>>

\* Nothing is ahead of the server.
ServerInv ==
    /\ position <= produced /\ stateFile <= produced
    /\ handled \subseteq 1..produced

\* Queues hold packets in the server's order.
Increasing(q) == \A i, j \in 1..Len(q) : i < j => q[i] < q[j]

\* What was sent last is behind the queue, and the queue behind the client's
\* position.  While the publisher is between the send and the pop, the front of
\* the queue may be what was sent last.
OrderInv ==
    /\ Increasing(queue)
    /\ \A i \in 1..Len(queue) :
           /\ queue[i] \in Fifo!LastSent..Reached
           /\ (i = 1 /\ publisher = "pop") \/ queue[i] # Fifo!LastSent
    /\ Fifo!LastSent \in 0..Reached

Recovered == reader \in {"head", "collect", "packet", "save", "exited"}

\* The client has no position before its reader has recovered the saved one, and
\* is never behind that one afterwards.
StateInv ==
    /\ NoGap
    /\ ~UseStateFile => stateFile = Unset
    /\ main \in {"initialize", "constructed"} \/ reader = "recover" =>
           position = Unset
    /\ Recovered => IF position = Unset THEN stateFile = Unset
                    ELSE stateFile <= Reached

IInv == TypeOK /\ ThreadInv /\ ServerInv /\ OrderInv /\ StateInv
---------------------------------------------------------------------------
\* What is left of the queue when its front is taken.
LEMMA TailFacts ==
  ASSUME NEW S, NEW q \in Seq(S), q # <<>>
  PROVE  /\ q[1] \in S /\ Len(q) \in Nat \ {0}
         /\ Tail(q) \in Seq(S) /\ Len(Tail(q)) = Len(q) - 1
         /\ \A i \in 1..Len(Tail(q)) :
                Tail(q)[i] = q[i + 1] /\ i + 1 \in 2..Len(q)
  OBVIOUS

\* try_enqueue keeps what is queued and at most adds one packet behind it,
\* within the capacity.
LEMMA EnqueueFacts ==
  ASSUME NEW S, NEW q \in Seq(S), Len(q) <= QueueCapacity, NEW p \in S
  PROVE  /\ TryEnqueue(q, p) \in Seq(S)
         /\ Len(TryEnqueue(q, p)) <= QueueCapacity
         /\ Len(TryEnqueue(q, p)) \in {Len(q), Len(q) + 1} /\ Len(q) \in Nat
         /\ \A i \in 1..Len(TryEnqueue(q, p)) :
                \/ i \in 1..Len(q) /\ TryEnqueue(q, p)[i] = q[i]
                \/ i = Len(q) + 1 /\ TryEnqueue(q, p)[i] = p
  <1>1. CASE Len(q) < QueueCapacity
    BY <1>1, ClientAssumption DEF TryEnqueue
  <1>2. CASE ~(Len(q) < QueueCapacity)
    BY <1>2 DEF TryEnqueue
  <1> QED BY <1>1, <1>2

\* The process begins with nothing received, saved or sent.
LEMMA InitInvariant == Init => IInv
  <1> SUFFICES ASSUME Init PROVE IInv
    OBVIOUS
  <1> USE DEF Init, ClientInit, Unset
  <1>1. TypeOK
    <2>1. queue \in Seq(1..MaxProduced) /\ Len(queue) <= QueueCapacity
          /\ sent \in Seq(1..MaxProduced)
      BY ClientAssumption
    <2>2. /\ mKeepRunning \in BOOLEAN /\ mInterrupted \in BOOLEAN
          /\ terminate \in BOOLEAN /\ clientKeepRunning \in BOOLEAN
      OBVIOUS
    <2>3. /\ produced \in 0..MaxProduced /\ position \in 0..MaxProduced
          /\ stateFile \in 0..MaxProduced /\ first \in 0..MaxProduced
          /\ updateStateFile \in 1..(StateFileUpdateInterval + 1)
          /\ lives \in 1..MaxLives /\ handled \subseteq 1..MaxProduced
      BY ClientAssumption, PublisherAssumption
    <2>4. reader \in {"none"} /\ publisher \in {"none"}
          /\ main \in {"initialize"}
      OBVIOUS
    <2>5. ClientTypeOK
      BY <2>1, <2>2, <2>3, <2>4 DEF ClientTypeOK
    <2> QED BY <2>1, <2>2, <2>3, <2>4, <2>5 DEF TypeOK
  <1>2. ThreadInv /\ ServerInv
    BY DEF ThreadInv, ServerInv
  <1>3. OrderInv
    BY DEF OrderInv, Increasing, Reached, Fifo!LastSent
  <1>4. StateInv
    BY DEF StateInv, NoGap, Recovered
  <1> QED BY <1>1, <1>2, <1>3, <1>4 DEF IInv

\* The steps of the main thread that leave the client's position alone.
OwnerSteps == \/ Initialize \/ Start \/ SignalHandler \/ StopBegins
              \/ JoinPublisher \/ Destroy

\* initialize(), start() and stop() move threads only.
LEMMA OwnerKeeps ==
  ASSUME IInv, OwnerSteps
  PROVE  IInv'
  <1> USE DEF IInv, OwnerSteps
  <1>1. UNCHANGED <<produced, position, stateFile, updateStateFile, queue,
                    handled, first, sent, lives>>
    BY DEF Initialize, Start, SignalHandler, StopBegins, JoinPublisher, Destroy,
           clientVars, sendVars
  <1>2. TypeOK'
    BY <1>1, ZenonT(60) DEF TypeOK, ClientTypeOK, Initialize, Start,
       SignalHandler, StopBegins, JoinPublisher, Destroy, StartReader, StopFlag,
       clientVars, sendVars
  <1>3. ThreadInv' /\ (publisher = "pop" => publisher' = "pop")
    BY <1>1 DEF ThreadInv, TypeOK, ClientTypeOK, Initialize, Start,
       SignalHandler, StopBegins, JoinPublisher, Destroy, StartReader, Joinable,
       clientVars,
       sendVars
  <1>4. ServerInv'
    BY <1>1 DEF ServerInv
  <1>5. /\ main' \in {"initialize", "constructed"} =>
               main \in {"initialize", "constructed"}
        /\ reader' = "recover" => reader = "recover" \/ main = "constructed"
        /\ reader' # "recover" => reader' = reader
        /\ reader' = "recover" => reader # "packet" /\ Reached' = Reached
    BY <1>1 DEF ThreadInv, Initialize, Start, SignalHandler, StopBegins,
       JoinPublisher, Destroy, StartReader, clientVars, sendVars, Reached
  <1>6. Reached' = Reached /\ Fifo!LastSent' = Fifo!LastSent
    BY <1>1, <1>5 DEF Reached, Fifo!LastSent
  <1>7. OrderInv'
    BY <1>1, <1>3, <1>6 DEF OrderInv, Increasing
  <1>8. StateInv'
    BY <1>1, <1>5, <1>6 DEF StateInv, NoGap, Recovered
  <1> QED BY <1>2, <1>3, <1>4, <1>7, <1>8

\* Exit saves the position, which is where the reader stopped.
LEMMA ExitKeeps ==
  ASSUME IInv, Exit
  PROVE  IInv'
  <1> USE DEF IInv
  <1>1. /\ UNCHANGED <<produced, position, updateStateFile, queue, handled,
                       first, publisher, sent, lives>>
        /\ reader = "exited" /\ reader' = "none"
        /\ main = "destroy" /\ main' = "done"
        /\ stateFile' = IF UseStateFile THEN position ELSE stateFile
    BY DEF Exit, ThreadInv, SaveOnDisconnect, Joinable, sendVars
  <1>2. TypeOK'
    BY <1>1 DEF TypeOK, ClientTypeOK, Exit
  <1>3. ThreadInv' /\ ServerInv'
    BY <1>1 DEF ThreadInv, ServerInv
  <1>4. Reached' = Reached /\ Fifo!LastSent' = Fifo!LastSent
    BY <1>1 DEF Reached, Fifo!LastSent
  <1>5. OrderInv'
    BY <1>1, <1>4 DEF OrderInv, Increasing
  <1>6. StateInv'
    BY <1>1, <1>4 DEF StateInv, NoGap, Recovered, Reached
  <1> QED BY <1>2, <1>3, <1>5, <1>6

\* connect() before start(), and a constructor that throws: the position is
\* forgotten before anything was received, and the number is erased or kept.
LEMMA DisconnectKeeps ==
  ASSUME IInv, OwnerConnects \/ InitializeFails
  PROVE  IInv'
  <1> USE DEF IInv
  <1>1. /\ UNCHANGED <<produced, reader, updateStateFile, queue, handled, first,
                       publisher, sent, lives>>
        /\ main \in {"initialize", "constructed"}
        /\ main' \in {"initialize", "failed"}
        /\ position = Unset /\ position' = Unset
        /\ stateFile' \in {Unset, stateFile}
    BY DEF OwnerConnects, InitializeFails, InitializeThrows, Connect,
       SaveOnDisconnect, StateInv, sendVars
  <1>2. reader = "none" /\ queue = <<>> /\ sent = <<>> /\ publisher = "none"
    BY <1>1 DEF ThreadInv
  <1>3. TypeOK'
    <2>1. position' \in 0..MaxProduced /\ stateFile' \in 0..MaxProduced
      BY <1>1, ClientAssumption DEF TypeOK, ClientTypeOK, Unset
    <2>2. terminate' \in BOOLEAN /\ clientKeepRunning' \in BOOLEAN
      BY DEF OwnerConnects, InitializeFails, Connect, TypeOK, ClientTypeOK
    <2>3. UNCHANGED <<mKeepRunning, mInterrupted>>
      BY DEF OwnerConnects, InitializeFails
    <2> QED BY <1>1, <2>1, <2>2, <2>3, ZenonT(60) DEF TypeOK, ClientTypeOK
  <1>4. ThreadInv' /\ ServerInv'
    BY <1>1, <1>2 DEF ThreadInv, ServerInv, TypeOK, ClientTypeOK, Unset
  <1>5. OrderInv'
    BY <1>1, <1>2 DEF OrderInv, Increasing, Reached, Fifo!LastSent, Unset
  <1>6. StateInv'
    BY <1>1, <1>2 DEF StateInv, NoGap, Recovered
  <1> QED BY <1>3, <1>4, <1>5, <1>6

\* A new life starts from the state file alone.
LEMMA RestartKeeps ==
  ASSUME IInv, Restart
  PROVE  IInv'
  <1> USE DEF IInv
  <1>1. /\ UNCHANGED <<produced, stateFile, handled, first>>
        /\ position' = Unset /\ updateStateFile' = 1 /\ reader' = "none"
        /\ queue' = <<>> /\ sent' = <<>> /\ publisher' = "none"
        /\ main' = "initialize"
    BY DEF Restart, ClientRestart
  <1>2. TypeOK'
    <2>1. /\ queue' \in Seq(1..MaxProduced) /\ Len(queue') <= QueueCapacity
          /\ sent' \in Seq(1..MaxProduced)
      BY <1>1, ClientAssumption
    <2>2. /\ mKeepRunning' \in BOOLEAN /\ mInterrupted' \in BOOLEAN
          /\ terminate' \in BOOLEAN /\ clientKeepRunning' \in BOOLEAN
      BY DEF Restart, ClientRestart
    <2>3. lives' \in 1..MaxLives
      BY PublisherAssumption DEF Restart, TypeOK
    <2>4. /\ position' \in 0..MaxProduced
          /\ updateStateFile' \in 1..(StateFileUpdateInterval + 1)
      BY <1>1, ClientAssumption DEF Unset
    <2> QED BY <1>1, <2>1, <2>2, <2>3, <2>4 DEF TypeOK, ClientTypeOK
  <1>3. ThreadInv' /\ ServerInv'
    BY <1>1 DEF ThreadInv, ServerInv, TypeOK, ClientTypeOK, Unset
  <1>4. OrderInv'
    BY <1>1 DEF OrderInv, Increasing, Reached, Fifo!LastSent, Unset
  <1>5. StateInv'
    BY <1>1 DEF StateInv, NoGap, Recovered, Unset
  <1> QED BY <1>2, <1>3, <1>4, <1>5

\* The reader's steps that only move the thread.
ReaderMoves == ReaderHead \/ ReaderTerminates \/ ReaderGetsNothing

LEMMA ReaderMovesKeep ==
  ASSUME IInv, ReaderMoves, UNCHANGED <<procVars, sendVars, lives>>
  PROVE  IInv'
  <1> USE DEF IInv, ReaderMoves
  <1>1. /\ UNCHANGED <<produced, position, stateFile, updateStateFile, queue,
                       handled, first, main, publisher, sent>>
        /\ reader \in {"head", "collect"}
        /\ reader' \in {"head", "collect", "exited"}
    BY DEF ReaderHead, ReaderTerminates, ReaderGetsNothing, procVars, sendVars
  <1>2. TypeOK'
    BY <1>1 DEF TypeOK, ClientTypeOK, ReaderHead, ReaderTerminates,
       ReaderGetsNothing, procVars, sendVars
  <1>3. ThreadInv' /\ ServerInv'
    BY <1>1 DEF ThreadInv, ServerInv
  <1>4. Reached' = Reached /\ Fifo!LastSent' = Fifo!LastSent
    BY <1>1 DEF Reached, Fifo!LastSent
  <1>5. OrderInv'
    BY <1>1, <1>4 DEF OrderInv, Increasing
  <1>6. StateInv'
    BY <1>1, <1>4 DEF StateInv, NoGap, Recovered, ThreadInv
  <1> QED BY <1>2, <1>3, <1>5, <1>6

\* The position is the one in the state file, if there is one, before the first
\* packet of a life is received.
LEMMA ReaderRecoversKeeps ==
  ASSUME IInv, ReaderRecovers, UNCHANGED <<procVars, sendVars, lives>>
  PROVE  IInv'
  <1> USE DEF IInv
  <1>1. /\ UNCHANGED <<produced, stateFile, queue, handled, first, main,
                       publisher, sent>>
        /\ reader = "recover" /\ reader' = "head" /\ updateStateFile' = 1
        /\ position' = IF UseStateFile /\ stateFile # Unset
                       THEN stateFile ELSE position
    BY DEF ReaderRecovers, procVars, sendVars
  <1>2. TypeOK'
    <2>1. /\ position' \in 0..MaxProduced
          /\ updateStateFile' \in 1..(StateFileUpdateInterval + 1)
      BY <1>1, ClientAssumption DEF TypeOK, ClientTypeOK
    <2> QED BY <1>1, <2>1 DEF TypeOK, ClientTypeOK, ReaderRecovers, procVars,
           sendVars
  <1>3. ThreadInv' /\ ServerInv'
    BY <1>1 DEF ThreadInv, ServerInv
  <1>4. OrderInv'
    BY <1>1 DEF ThreadInv, OrderInv, Increasing, Reached, Fifo!LastSent, TypeOK,
       ClientTypeOK
  <1>5. StateInv'
    <2>1. position = Unset /\ NoGap
      BY <1>1 DEF StateInv
    <2>2. NoGap'
      BY <1>1, <2>1 DEF NoGap, Reached
    <2>3. IF position' = Unset THEN stateFile' = Unset
          ELSE stateFile' <= Reached'
      BY <1>1, <2>1 DEF StateInv, Reached, TypeOK, ClientTypeOK
    <2> QED BY <1>1, <2>2, <2>3 DEF StateInv, ThreadInv
  <1> QED BY <1>2, <1>3, <1>4, <1>5

\* The client receives the packet behind its position, or without a position the
\* one that the server has just produced.
LEMMA ReaderCollectsKeeps ==
  ASSUME IInv, ReaderCollects, UNCHANGED <<procVars, sendVars, lives>>
  PROVE  IInv'
  <1> USE DEF IInv
  <1>1. /\ UNCHANGED <<stateFile, updateStateFile, queue, handled, main,
                       publisher, sent>>
        /\ reader = "collect" /\ reader' = "packet"
        /\ produced \in 0..MaxProduced /\ position \in 0..MaxProduced
        /\ stateFile \in 0..MaxProduced /\ first \in 0..MaxProduced
        /\ MaxProduced \in Nat
    BY ClientAssumption
    DEF ReaderCollects, procVars, sendVars, TypeOK, ClientTypeOK
  <1>2. \/ /\ position = Unset /\ produced < MaxProduced
           /\ produced' = produced + 1
           /\ position' = produced' /\ first' = produced'
        \/ /\ position # Unset /\ position < produced
           /\ position' = position + 1
           /\ UNCHANGED <<produced, first>>
    BY DEF ReaderCollects, NextData
  <1>3. /\ position' \in 1..MaxProduced /\ produced' \in 0..MaxProduced
        /\ first' \in 0..MaxProduced
        /\ position' <= produced' /\ produced <= produced'
        /\ position' > position
    BY <1>1, <1>2 DEF ServerInv, Unset
  <1>4. TypeOK'
    BY <1>1, <1>3 DEF TypeOK, ClientTypeOK, ReaderCollects, procVars, sendVars
  <1>5. ThreadInv'
    BY <1>1, <1>3 DEF ThreadInv, Unset
  <1>6. ServerInv'
    <2>1. 1..produced \subseteq 1..produced'
      BY <1>1, <1>3
    <2> QED BY <1>1, <1>3, <2>1 DEF ServerInv
  <1>7. Reached \in Nat /\ Reached' \in Nat /\ Reached <= Reached'
    <2>1. Reached = position /\ Reached' = position' - 1
      BY <1>1 DEF Reached
    <2>2. position \in Int /\ position' \in Int /\ 0 <= position
      BY <1>1, <1>3
    <2>3. position < position'
      BY <1>3
    <2>4. ASSUME NEW p \in Int, NEW q \in Int, 0 <= p, p < q
          PROVE  p \in Nat /\ q - 1 \in Nat /\ p <= q - 1
      BY <2>4
    <2> QED BY <2>1, <2>2, <2>3, <2>4, Zenon
  <1>8. OrderInv'
    <2>1. Fifo!LastSent' = Fifo!LastSent
      BY <1>1 DEF Fifo!LastSent
    <2>2. Fifo!LastSent \in 0..Reached'
      BY <1>7 DEF OrderInv
    <2>3. \A i \in 1..Len(queue) : queue[i] \in Fifo!LastSent..Reached'
      BY <1>7, <2>2 DEF OrderInv
    <2> QED BY <1>1, <2>1, <2>2, <2>3 DEF OrderInv, Increasing
  <1>9. StateInv'
    <2> USE DEF StateInv
    <2>1. Reached = position /\ Reached' = position' - 1 /\ Recovered
      BY <1>1 DEF Reached, Recovered
    <2>2. CASE position = Unset
      <3>1. stateFile = Unset
        BY <2>1, <2>2
      <3>2. NoGap'
        BY <1>1, <1>2, <1>3, <2>1, <2>2, <3>1 DEF NoGap
      <3> QED BY <1>1, <1>3, <1>7, <3>1, <3>2 DEF ThreadInv, Unset
    <2>3. CASE position # Unset
      <3>1. UNCHANGED first /\ Reached' = Reached /\ position' # Unset
        <4>1. UNCHANGED first /\ position' = position + 1
          BY <1>2, <2>3
        <4>2. position \in Int /\ (position + 1) - 1 = position
          BY <1>1
        <4>3. Reached' = Reached
          BY <2>1, <4>1, <4>2, Zenon
        <4>4. position' # Unset
          BY <1>3 DEF Unset
        <4> QED BY <4>1, <4>3, <4>4
      <3>2. NoGap'
        BY <1>1, <2>3, <3>1 DEF NoGap
      <3>3. stateFile' <= Reached'
        BY <1>1, <2>1, <2>3, <3>1
      <3> QED BY <1>1, <3>1, <3>2, <3>3 DEF ThreadInv
    <2> QED BY <2>2, <2>3
  <1> QED BY <1>4, <1>5, <1>6, <1>8, <1>9

\* A packet of another format is left behind.
LEMMA ReaderIgnoresKeeps ==
  ASSUME IInv, ReaderIgnores, UNCHANGED <<procVars, sendVars, lives>>
  PROVE  IInv'
  <1> USE DEF IInv
  <1>1. /\ UNCHANGED <<produced, position, stateFile, updateStateFile, queue,
                       handled, first, main, publisher, sent>>
        /\ reader = "packet" /\ reader' = "head"
        /\ position \in OtherFormats
    BY DEF ReaderIgnores, procVars, sendVars
  <1>2. TypeOK'
    BY <1>1 DEF TypeOK, ClientTypeOK, ReaderIgnores, procVars, sendVars
  <1>3. ThreadInv' /\ ServerInv'
    BY <1>1 DEF ThreadInv, ServerInv
  <1>4. /\ Reached = position - 1 /\ Reached' = position
        /\ position \in 1..MaxProduced /\ position # Unset
    BY <1>1 DEF Reached, TypeOK, ClientTypeOK, ThreadInv, Unset
  <1>5. OrderInv'
    <2>1. Fifo!LastSent' = Fifo!LastSent
      BY <1>1 DEF Fifo!LastSent
    <2>2. Fifo!LastSent \in 0..position
      BY <1>4 DEF OrderInv
    <2>3. \A i \in 1..Len(queue) : queue[i] \in Fifo!LastSent..position
      BY <1>4, <2>2 DEF OrderInv
    <2> QED BY <1>1, <1>4, <2>1, <2>2, <2>3 DEF OrderInv, Increasing
  <1>6. StateInv'
    <2> USE DEF StateInv
    <2>1. first..position \subseteq handled \cup OtherFormats
      <3>1. first..(position - 1) \subseteq handled \cup OtherFormats
        BY <1>4 DEF NoGap
      <3> QED BY <1>1, <1>4, <3>1 DEF TypeOK, ClientTypeOK
    <2>2. NoGap'
      BY <1>1, <1>4, <2>1 DEF NoGap
    <2>3. stateFile <= position
      BY <1>1, <1>4 DEF Recovered, TypeOK, ClientTypeOK
    <2> QED BY <1>1, <1>4, <2>2, <2>3 DEF ThreadInv
  <1> QED BY <1>2, <1>3, <1>5, <1>6

\* The packet in hand goes behind the queue or is dropped, and is handled.
LEMMA ReaderHandlesKeeps ==
  ASSUME IInv, ReaderHandsOver \/ ReaderSkips,
         UNCHANGED <<procVars, sendVars, lives>>
  PROVE  IInv'
  <1> USE DEF IInv
  <1>1. /\ UNCHANGED <<produced, position, stateFile, updateStateFile, first,
                       main, publisher, sent>>
        /\ reader = "packet" /\ reader' = "save"
        /\ handled' = handled \cup {position}
        /\ queue' \in {queue, TryEnqueue(queue, position)}
    BY DEF ReaderHandsOver, ReaderSkips, procVars, sendVars
  <1>2. /\ produced \in 0..MaxProduced /\ position \in 1..MaxProduced
        /\ position \in 1..produced
        /\ queue \in Seq(1..MaxProduced) /\ Len(queue) <= QueueCapacity
    BY <1>1 DEF TypeOK, ClientTypeOK, ThreadInv, ServerInv, Unset
  <1>3. Reached = position - 1 /\ Reached' = position
    BY <1>1 DEF Reached
  <1>4. /\ queue' \in Seq(1..MaxProduced) /\ Len(queue') <= QueueCapacity
        /\ Len(queue) \in Nat /\ Len(queue') >= Len(queue)
        /\ \A i \in 1..Len(queue') :
               \/ i \in 1..Len(queue) /\ queue'[i] = queue[i]
               \/ i = Len(queue) + 1 /\ queue'[i] = position
    <2>1. CASE queue' = queue
      BY <1>2, <2>1
    <2>2. CASE queue' = TryEnqueue(queue, position)
      <3>1. /\ TryEnqueue(queue, position) \in Seq(1..MaxProduced)
            /\ Len(TryEnqueue(queue, position)) <= QueueCapacity
            /\ Len(TryEnqueue(queue, position)) \in {Len(queue), Len(queue) + 1}
            /\ Len(queue) \in Nat
            /\ \A i \in 1..Len(TryEnqueue(queue, position)) :
                   \/ /\ i \in 1..Len(queue)
                      /\ TryEnqueue(queue, position)[i] = queue[i]
                   \/ /\ i = Len(queue) + 1
                      /\ TryEnqueue(queue, position)[i] = position
        BY <1>2, EnqueueFacts
      <3> QED BY <2>2, <3>1
    <2> QED BY <1>1, <2>1, <2>2
  <1>5. TypeOK'
    <2>1. handled' \subseteq 1..MaxProduced
      BY <1>1, <1>2 DEF TypeOK, ClientTypeOK
    <2> QED BY <1>1, <1>4, <2>1 DEF TypeOK, ClientTypeOK, ReaderHandsOver,
           ReaderSkips, procVars, sendVars
  <1>6. ThreadInv'
    BY <1>1, <1>2, <1>4 DEF ThreadInv
  <1>7. ServerInv'
    BY <1>1, <1>2 DEF ServerInv
  <1>8. OrderInv'
    <2>1. Fifo!LastSent' = Fifo!LastSent /\ Fifo!LastSent \in 0..(position - 1)
      BY <1>1, <1>3 DEF OrderInv, Fifo!LastSent
    <2>2. \A i \in 1..Len(queue) : queue[i] <= position - 1 /\ queue[i] \in Int
      BY <1>2, <1>3, <2>1 DEF OrderInv
    <2>3. Increasing(queue')
      <3> SUFFICES ASSUME NEW i \in 1..Len(queue'), NEW j \in 1..Len(queue'),
                          i < j
                   PROVE  queue'[i] < queue'[j]
        BY DEF Increasing
      <3>1. i \in 1..Len(queue) /\ queue'[i] = queue[i]
        BY <1>4
      <3>2. CASE j \in 1..Len(queue) /\ queue'[j] = queue[j]
        BY <3>1, <3>2 DEF OrderInv, Increasing
      <3>3. CASE queue'[j] = position
        BY <1>2, <2>2, <3>1, <3>3
      <3> QED BY <1>4, <3>2, <3>3
    <2>4. ASSUME NEW i \in 1..Len(queue')
          PROVE  /\ queue'[i] \in Fifo!LastSent..position
                 /\ (i = 1 /\ publisher = "pop") \/ queue'[i] # Fifo!LastSent
      <3>1. CASE i \in 1..Len(queue) /\ queue'[i] = queue[i]
        BY <1>2, <1>3, <2>1, <3>1 DEF OrderInv
      <3>2. CASE queue'[i] = position
        BY <1>2, <2>1, <3>2
      <3> QED BY <1>4, <3>1, <3>2
    <2>5. Fifo!LastSent \in 0..position
      BY <1>2, <2>1
    <2> QED BY <1>1, <1>3, <2>1, <2>3, <2>4, <2>5 DEF OrderInv
  <1>9. StateInv'
    <2> USE DEF StateInv
    <2>1. stateFile' # Unset =>
              first'..stateFile' \subseteq handled' \cup OtherFormats
      BY <1>1 DEF NoGap
    <2>2. first..position \subseteq handled' \cup OtherFormats
      <3>1. first..(position - 1) \subseteq handled \cup OtherFormats
        BY <1>1, <1>2, <1>3 DEF NoGap, Unset
      <3> QED BY <1>1, <1>2, <3>1 DEF TypeOK, ClientTypeOK
    <2>3. NoGap'
      BY <1>1, <1>3, <2>1, <2>2 DEF NoGap
    <2>4. stateFile <= position
      BY <1>1, <1>2, <1>3 DEF Recovered, TypeOK, ClientTypeOK, Unset
    <2> QED BY <1>1, <1>2, <1>3, <2>3, <2>4 DEF ThreadInv, Unset
  <1> QED BY <1>5, <1>6, <1>7, <1>8, <1>9

\* The number that is saved is that of a packet already handled.
LEMMA ReaderSavesKeeps ==
  ASSUME IInv, ReaderSaves, UNCHANGED <<procVars, sendVars, lives>>
  PROVE  IInv'
  <1> USE DEF IInv
  <1>1. /\ UNCHANGED <<produced, position, queue, handled, first, main,
                       publisher, sent>>
        /\ reader = "save" /\ reader' = "head"
    BY DEF ReaderSaves, procVars, sendVars
  <1>2. \/ /\ UseStateFile /\ stateFile' = position /\ updateStateFile' = 1
           /\ updateStateFile > StateFileUpdateInterval
        \/ /\ UseStateFile /\ UNCHANGED stateFile
           /\ updateStateFile' = updateStateFile + 1
           /\ ~(updateStateFile > StateFileUpdateInterval)
        \/ ~UseStateFile /\ UNCHANGED <<stateFile, updateStateFile>>
    BY DEF ReaderSaves
  <1>3. /\ updateStateFile \in 1..(StateFileUpdateInterval + 1)
        /\ position \in 1..MaxProduced /\ stateFile \in 0..MaxProduced
        /\ first \in 0..MaxProduced /\ StateFileUpdateInterval \in Nat
    BY <1>1, ClientAssumption DEF TypeOK, ClientTypeOK, ThreadInv, Unset
  <1>4. TypeOK'
    <2>1. /\ updateStateFile' \in 1..(StateFileUpdateInterval + 1)
          /\ stateFile' \in 0..MaxProduced
      BY <1>2, <1>3
    <2> QED BY <1>1, <2>1 DEF TypeOK, ClientTypeOK, ReaderSaves, procVars,
           sendVars
  <1>5. ThreadInv' /\ ServerInv'
    BY <1>1, <1>2 DEF ThreadInv, ServerInv
  <1>6. Reached' = Reached /\ Fifo!LastSent' = Fifo!LastSent
    BY <1>1 DEF Reached, Fifo!LastSent
  <1>7. OrderInv'
    BY <1>1, <1>6 DEF OrderInv, Increasing
  <1>8. StateInv'
    <2> USE DEF StateInv
    <2>1. NoGap'
      BY <1>1, <1>2, <1>3, <1>6 DEF NoGap, Reached, Unset
    <2>2. stateFile' <= position /\ Reached = position
      BY <1>1, <1>2, <1>3 DEF Recovered, Reached, Unset
    <2> QED BY <1>1, <1>2, <1>3, <1>6, <2>1, <2>2 DEF ThreadInv, Unset
  <1> QED BY <1>4, <1>5, <1>7, <1>8

LEMMA ReaderKeeps ==
  ASSUME IInv, ReaderStep
  PROVE  IInv'
  BY ReaderMovesKeep, ReaderRecoversKeeps, ReaderCollectsKeeps,
     ReaderIgnoresKeeps, ReaderHandlesKeeps, ReaderSavesKeeps
  DEF ReaderStep, Reader, ReaderMoves

\* A packet that the server produces is ahead of everybody.
LEMMA ServerKeeps ==
  ASSUME IInv, ServerStep
  PROVE  IInv'
  <1> USE DEF IInv
  <1>1. /\ UNCHANGED <<position, stateFile, reader, updateStateFile, queue,
                       handled, first, main, publisher, sent>>
        /\ produced' = produced + 1 /\ produced < MaxProduced
        /\ produced \in 0..MaxProduced /\ MaxProduced \in Nat
    BY ClientAssumption DEF ServerStep, Produce, NextData, procVars, sendVars,
       TypeOK, ClientTypeOK
  <1>2. produced' \in 0..MaxProduced
    BY <1>1
  <1>3. TypeOK'
    BY <1>1, <1>2 DEF TypeOK, ClientTypeOK, ServerStep, Produce, procVars,
       sendVars
  <1>4. ThreadInv'
    BY <1>1 DEF ThreadInv
  <1>5. ServerInv'
    BY <1>1 DEF ServerInv, TypeOK, ClientTypeOK
  <1>6. Reached' = Reached /\ Fifo!LastSent' = Fifo!LastSent
    BY <1>1 DEF Reached, Fifo!LastSent
  <1>7. OrderInv'
    BY <1>1, <1>6 DEF OrderInv, Increasing
  <1>8. StateInv'
    BY <1>1, <1>6 DEF StateInv, NoGap, Recovered
  <1> QED BY <1>3, <1>4, <1>5, <1>7, <1>8

\* The publisher thread leaves the client and its state file alone.
LEMMA PublisherAside ==
  ASSUME IInv, Publisher
  PROVE  /\ ServerInv' /\ StateInv'
         /\ UNCHANGED <<Reached, reader, main, position>>
  <1>1. UNCHANGED <<produced, position, stateFile, reader, updateStateFile,
                    handled, first, main>>
    BY DEF Publisher, PublisherHead, PublisherTrims, PublisherPeeks,
       PublisherSends, PublisherFails, PublisherPops, clientVars, procVars
  <1>2. Reached' = Reached
    BY <1>1 DEF Reached
  <1>3. ServerInv' /\ StateInv'
    BY <1>1, <1>2 DEF IInv, ServerInv, StateInv, NoGap, Recovered
  <1> QED BY <1>1, <1>2, <1>3

\* The publisher takes the front of the queue after it was sent, could not be
\* sent or was trimmed away.
LEMMA PublisherTakes ==
  ASSUME IInv, PublisherPops \/ (PublisherTrims /\ queue' # queue)
  PROVE  TypeOK' /\ ThreadInv' /\ OrderInv'
  <1> USE DEF IInv
  <1>1. /\ queue \in Seq(1..MaxProduced) /\ queue # <<>> /\ queue' = Tail(queue)
        /\ publisher' \in {"head", "trim"} /\ publisher \in {"pop", "trim"}
        /\ UNCHANGED <<position, reader, main, sent>>
    BY PublisherAssumption DEF PublisherPops, PublisherTrims, TypeOK,
       ClientTypeOK, ThreadInv, procVars
  <1>2. /\ queue' \in Seq(1..MaxProduced) /\ Len(queue') = Len(queue) - 1
        /\ Len(queue) \in Nat \ {0}
        /\ \A i \in 1..Len(queue') :
               queue'[i] = queue[i + 1] /\ i + 1 \in 2..Len(queue)
    BY <1>1, TailFacts
  <1>3. TypeOK'
    <2>1. Len(queue') <= QueueCapacity
      BY <1>2, ClientAssumption DEF TypeOK, ClientTypeOK
    <2>2. UNCHANGED <<produced, position, terminate, stateFile,
                      clientKeepRunning, reader, updateStateFile, handled,
                      first, mKeepRunning, mInterrupted, main, sent, lives>>
      BY DEF PublisherPops, PublisherTrims, procVars
    <2> QED BY <1>1, <1>2, <2>1, <2>2, ZenonT(60) DEF TypeOK, ClientTypeOK
  <1>4. ThreadInv'
    BY <1>1 DEF ThreadInv
  <1>5. UNCHANGED Reached /\ Fifo!LastSent' = Fifo!LastSent
    BY <1>1 DEF Reached, Fifo!LastSent
  <1>6. Increasing(queue')
    <2> SUFFICES ASSUME NEW i \in 1..Len(queue'), NEW j \in 1..Len(queue'),
                        i < j
                 PROVE  queue'[i] < queue'[j]
      BY DEF Increasing
    <2>1. i + 1 \in 1..Len(queue) /\ j + 1 \in 1..Len(queue) /\ i + 1 < j + 1
      BY <1>2
    <2> QED BY <1>2, <2>1 DEF OrderInv, Increasing
  <1>7. ASSUME NEW i \in 1..Len(queue')
        PROVE  /\ queue'[i] \in Fifo!LastSent..Reached
               /\ queue'[i] # Fifo!LastSent
    BY <1>2 DEF OrderInv
  <1>8. OrderInv'
    BY <1>1, <1>5, <1>6, <1>7 DEF OrderInv
  <1> QED BY <1>3, <1>4, <1>8

\* The packet that is sent is behind what was sent before.
LEMMA PublisherSendsKeeps ==
  ASSUME IInv, PublisherSends
  PROVE  /\ TypeOK' /\ ThreadInv' /\ OrderInv'
         /\ sent' = Append(sent, queue[1])
         /\ queue[1] \in (Fifo!LastSent + 1)..Reached
  <1> USE DEF IInv
  <1>1. /\ UNCHANGED <<clientVars, procVars, lives>>
        /\ sent' = Append(sent, queue[1])
        /\ publisher = "send" /\ publisher' = "pop"
    BY DEF PublisherSends
  <1>2. /\ queue[1] \in 1..MaxProduced /\ 1 \in 1..Len(queue)
        /\ sent \in Seq(1..MaxProduced)
    <2>1. /\ queue \in Seq(1..MaxProduced) /\ queue # <<>>
          /\ sent \in Seq(1..MaxProduced)
      BY <1>1 DEF TypeOK, ClientTypeOK, ThreadInv
    <2>2. queue[1] \in 1..MaxProduced /\ Len(queue) \in Nat \ {0}
      BY <2>1, TailFacts
    <2> QED BY <2>1, <2>2
  <1>3. sent' \in Seq(1..MaxProduced) /\ Fifo!LastSent' = queue[1]
    BY <1>1, <1>2 DEF Fifo!LastSent
  <1>4. UNCHANGED <<queue, position, reader, main, Reached>>
    BY <1>1 DEF clientVars, procVars, Reached
  <1>5. TypeOK'
    BY <1>1, <1>3 DEF TypeOK, ClientTypeOK, clientVars, procVars
  <1>6. ThreadInv'
    <2>1. /\ main \notin {"initialize", "constructed", "failed"}
          /\ reader # "recover"
      BY <1>1, <1>2 DEF ThreadInv
    <2> QED BY <1>1, <1>4, <2>1 DEF ThreadInv
  <1>7. queue[1] \in (Fifo!LastSent + 1)..Reached /\ Reached \in Int
        /\ Fifo!LastSent \in Nat
    BY <1>1, <1>2 DEF OrderInv, Reached, TypeOK, ClientTypeOK
  <1>8. ASSUME NEW i \in 1..Len(queue)
        PROVE  queue[i] \in queue[1]..Reached /\ (i = 1 \/ queue[i] # queue[1])
    <2>1. queue[i] \in Fifo!LastSent..Reached
      BY DEF OrderInv
    <2>2. CASE i = 1
      BY <1>7, <2>2
    <2>3. CASE i # 1
      <3>1. queue[1] < queue[i]
        BY <1>2, <2>3 DEF OrderInv, Increasing
      <3> QED BY <1>7, <2>1, <3>1
    <2> QED BY <2>2, <2>3
  <1>9. OrderInv'
    <2>1. queue[1] \in 0..Reached
      BY <1>7
    <2> QED BY <1>1, <1>3, <1>4, <1>8, <2>1 DEF OrderInv, Increasing
  <1> QED BY <1>1, <1>5, <1>6, <1>7, <1>9

LEMMA PublisherKeepsAll ==
  ASSUME IInv, Publisher
  PROVE  IInv'
  <1>1. CASE PublisherPops \/ (PublisherTrims /\ queue' # queue)
    BY <1>1, PublisherTakes, PublisherAside DEF IInv
  <1>2. CASE PublisherSends
    BY <1>2, PublisherSendsKeeps, PublisherAside DEF IInv
  <1>3. CASE \/ PublisherHead \/ PublisherPeeks \/ PublisherFails
             \/ PublisherTrims /\ queue' = queue
    <2> USE DEF IInv
    <2>1. UNCHANGED <<queue, sent>> /\ publisher # "pop"
      BY <1>3 DEF PublisherHead, PublisherPeeks, PublisherFails,
         PublisherTrims, clientVars
    <2>2. TypeOK'
      <3>1. UNCHANGED <<produced, position, terminate, stateFile,
                        clientKeepRunning, reader, updateStateFile, queue,
                        handled, first, mKeepRunning, mInterrupted, main, sent,
                        lives>>
        BY <1>3 DEF PublisherHead, PublisherPeeks, PublisherFails,
           PublisherTrims, clientVars, procVars
      <3>2. publisher' \in {"trim", "peek", "head", "send", "pop", "exited"}
        BY <1>3 DEF PublisherHead, PublisherPeeks, PublisherFails,
           PublisherTrims
      <3> QED BY <3>1, <3>2 DEF TypeOK, ClientTypeOK
    <2>3. ThreadInv'
      BY <1>3 DEF ThreadInv, PublisherHead, PublisherPeeks, PublisherFails,
         PublisherTrims, clientVars, procVars
    <2>4. Fifo!LastSent' = Fifo!LastSent
      BY <2>1 DEF Fifo!LastSent
    <2>5. OrderInv'
      BY <2>1, <2>4, PublisherAside DEF OrderInv, Increasing
    <2> QED BY <2>2, <2>3, <2>5, PublisherAside
  <1> QED BY <1>1, <1>2, <1>3 DEF Publisher

\* The invariant is inductive.
LEMMA StepInvariant ==
  ASSUME IInv, [Next]_vars
  PROVE  IInv'
  <1>1. CASE UNCHANGED vars
    <2> USE <1>1 DEF IInv, vars, clientVars, procVars, sendVars
    <2>1. TypeOK' /\ ThreadInv' /\ ServerInv'
      BY DEF TypeOK, ClientTypeOK, ThreadInv, ServerInv
    <2>2. OrderInv'
      BY DEF OrderInv, Increasing, Reached, Fifo!LastSent
    <2>3. StateInv'
      BY DEF StateInv, NoGap, Reached, Recovered
    <2> QED BY <2>1, <2>2, <2>3
  <1> QED
    BY <1>1, OwnerKeeps, ExitKeeps, DisconnectKeeps, RestartKeeps, ReaderKeeps,
       ServerKeeps, PublisherKeepsAll
    DEF Next, Main, OwnerSteps, Done

LEMMA Invariant == Spec => []IInv
  BY InitInvariant, StepInvariant, PTL DEF Spec
---------------------------------------------------------------------------
\* The types of the publisher's state, with the capacity of its queue and the
\* range of the reader's count.
THEOREM TypeCorrect == Spec => []TypeOK
  BY Invariant, PTL DEF IInv

\* Through any crashes and restarts the state file and the client's position
\* never pass a data packet that the reader has not dealt with.
THEOREM NoPacketSkipped == Spec => []NoGap
  <1>1. IInv => NoGap
    BY DEF IInv, StateInv
  <1> QED BY <1>1, Invariant, PTL

\* The number in the state file never goes back: not at a save, not at the end
\* of a life and not at the start of the next; only a disconnect() ahead of the
\* reader erases it.
THEOREM StateNeverBack == Spec => StateForward
  <1> DEFINE Forward ==
        \/ stateFile' >= stateFile
        \/ stateFile' = Unset /\ main \in {"initialize", "constructed"}
  <1>1. ASSUME IInv, [Next]_vars
        PROVE  [Forward]_vars
    <2>1. stateFile \in Int /\ position \in Int /\ StateInv
      BY <1>1 DEF IInv, TypeOK, ClientTypeOK
    <2>2. CASE stateFile' = stateFile
      BY <2>1, <2>2
    <2>3. CASE stateFile' = position /\ Recovered
      <3>1. position >= stateFile
        BY <2>1, <2>3 DEF StateInv, Reached, Unset
      <3> QED BY <2>1, <2>3, <3>1
    <2>4. CASE ReaderStep
      BY <2>2, <2>3, <2>4
      DEF ReaderStep, Reader, ReaderRecovers, ReaderHead, ReaderTerminates,
          ReaderGetsNothing, ReaderCollects, ReaderIgnores, ReaderHandsOver,
          ReaderSkips, ReaderSaves, Recovered
    <2>5. CASE Exit
      BY <1>1, <2>2, <2>3, <2>5
      DEF Exit, SaveOnDisconnect, Joinable, IInv, ThreadInv, Recovered
    <2>6. CASE OwnerConnects \/ InitializeFails
      BY <2>1, <2>2, <2>6
      DEF OwnerConnects, InitializeFails, InitializeThrows, Connect,
          SaveOnDisconnect, StateInv
    <2> QED
      BY <1>1, <2>2, <2>4, <2>5, <2>6
      DEF Next, Main, Initialize, Start, StopBegins, JoinPublisher, Destroy,
          SignalHandler, Restart, ClientRestart, Publisher, PublisherHead,
          PublisherTrims, PublisherPeeks, PublisherSends, PublisherFails,
          PublisherPops, ServerStep, Produce, Done, vars, clientVars
  <1> QED BY <1>1, Invariant, PTL DEF Spec, StateForward

---------------------------------------------------------------------------
\* The packet behind which the count of the unsaved ones begins.
Saved == IF stateFile # Unset THEN stateFile ELSE first - 1

\* What the reader has received and counted.
Counted == IF reader \in {"packet", "save"} THEN position - 1 ELSE position

\* The data packets behind a up to n.
Lag(a, n) == ((a + 1)..n) \ OtherFormats

\* No life got beyond packet m, up to which a restart repeats few packets.
Covers(m) ==
    /\ \A s \in handled : s >= first => s <= m
    /\ Cardinality(Lag(Saved, m)) <= StateFileUpdateInterval + 1

\* updateStateFile counts the data packets since the save, and no earlier life
\* got further than the next save would have.
CountInv ==
    /\ handled \cap OtherFormats = {}
    /\ reader = "save" => position \notin OtherFormats
    /\ position = Unset => updateStateFile = 1
    /\ UseStateFile /\ Recovered /\ position # Unset =>
           /\ Saved <= Counted
           /\ Cardinality(Lag(Saved, Counted)) = updateStateFile - 1
    /\ stateFile = Unset /\ position # Unset =>
           \A s \in handled : s >= first => s <= position
    /\ stateFile # Unset => \E m \in 0..MaxProduced : Covers(m)

\* How the number of data packets behind a grows with the next packet, and
\* shrinks with a.
LEMMA LagFacts ==
  ASSUME NEW a \in Int, NEW n \in Int
  PROVE  /\ IsFiniteSet(Lag(a, n)) /\ Cardinality(Lag(a, n)) \in Nat
         /\ Lag(n, n) = {} /\ Cardinality(Lag(n, n)) = 0
         /\ n \in OtherFormats => Lag(a, n) = Lag(a, n - 1)
         /\ a < n /\ n \notin OtherFormats =>
                Cardinality(Lag(a, n)) = Cardinality(Lag(a, n - 1)) + 1
         /\ \A b \in Int : a <= b =>
                Cardinality(Lag(b, n)) <= Cardinality(Lag(a, n))
  <1>1. ASSUME NEW b \in Int, NEW m \in Int
        PROVE  IsFiniteSet(Lag(b, m)) /\ Cardinality(Lag(b, m)) \in Nat
    <2>1. IsFiniteSet((b + 1)..m)
      BY FS_Interval
    <2>2. Lag(b, m) \subseteq (b + 1)..m
      BY DEF Lag
    <2> QED BY <2>1, <2>2, FS_Subset, FS_CardinalityType
  <1>2. Lag(n, n) = {} /\ Cardinality(Lag(n, n)) = 0
    <2>1. Lag(n, n) = {}
      BY DEF Lag
    <2> QED BY <2>1, FS_EmptySet
  <1>3. n \in OtherFormats => Lag(a, n) = Lag(a, n - 1)
    BY DEF Lag
  <1>4. ASSUME a < n, n \notin OtherFormats
        PROVE  Cardinality(Lag(a, n)) = Cardinality(Lag(a, n - 1)) + 1
    <2>1. Lag(a, n) = Lag(a, n - 1) \cup {n} /\ n \notin Lag(a, n - 1)
      BY <1>4 DEF Lag
    <2>2. IsFiniteSet(Lag(a, n - 1))
      BY <1>1
    <2> QED BY <2>1, <2>2, FS_AddElement
  <1>5. ASSUME NEW b \in Int, a <= b
        PROVE  Cardinality(Lag(b, n)) <= Cardinality(Lag(a, n))
    <2>1. Lag(b, n) \subseteq Lag(a, n)
      BY <1>5 DEF Lag
    <2> QED BY <1>1, <2>1, FS_Subset
  <1> QED BY <1>1, <1>2, <1>3, <1>4, <1>5

\* A number that is saved covers what the one before covered.
LEMMA SaveCovers ==
  ASSUME IInv, CountInv, Recovered, UseStateFile, position # Unset,
         reader # "packet", stateFile' = position, UNCHANGED <<handled, first>>
  PROVE  \E m \in 0..MaxProduced : Covers(m)'
  <1> USE DEF IInv
  <1>1. /\ position \in 1..MaxProduced /\ stateFile \in 0..MaxProduced
        /\ first \in 0..MaxProduced /\ StateFileUpdateInterval \in Nat
    BY ClientAssumption DEF TypeOK, ClientTypeOK, Unset
  <1>2. Saved' = position
    BY DEF Saved
  <1>3. CASE stateFile = Unset
    <2>1. \A s \in handled : s >= first => s <= position
      BY <1>3 DEF CountInv
    <2>2. Cardinality(Lag(position, position)) <= StateFileUpdateInterval + 1
      <3>1. Cardinality(Lag(position, position)) = 0
        BY <1>1, LagFacts
      <3> QED BY <1>1, <3>1
    <2>3. ASSUME NEW m \in 0..MaxProduced, m = position
          PROVE  Covers(m)'
      BY <1>2, <2>1, <2>2, <2>3 DEF Covers
    <2>4. position \in 0..MaxProduced
      BY <1>1
    <2> QED BY <2>3, <2>4
  <1>4. CASE stateFile # Unset
    <2>1. PICK m \in 0..MaxProduced : Covers(m)
      BY <1>4 DEF CountInv
    <2>2. Saved = stateFile /\ stateFile <= position
      BY <1>1, <1>4 DEF Saved, StateInv, Reached
    <2>3. Cardinality(Lag(position, m)) <= Cardinality(Lag(stateFile, m))
          /\ Cardinality(Lag(position, m)) \in Nat
          /\ Cardinality(Lag(stateFile, m)) \in Nat
      BY <1>1, <2>2, LagFacts
    <2>4. Cardinality(Lag(position, m)) <= StateFileUpdateInterval + 1
      BY <1>1, <2>1, <2>2, <2>3 DEF Covers
    <2>5. Covers(m)'
      BY <1>2, <2>1, <2>4 DEF Covers
    <2> QED BY <2>5
  <1> QED BY <1>3, <1>4

\* Steps that leave the reader's count and what it counts alone.
LEMMA CountUntouched ==
  ASSUME CountInv,
         UNCHANGED <<position, stateFile, updateStateFile, handled, first>>,
         reader' = "save" => reader = "save",
         UseStateFile /\ Recovered' /\ position # Unset => Recovered,
         Recovered' /\ Recovered => Counted' = Counted
  PROVE  CountInv'
  BY DEF CountInv, Covers, Saved

\* The first packet of a connection without a position starts the count, and
\* every other one leaves it alone.
LEMMA CollectCounts ==
  ASSUME IInv, CountInv, ReaderCollects
  PROVE  CountInv'
  <1> USE DEF IInv
  <1>1. /\ UNCHANGED <<stateFile, updateStateFile, handled>>
        /\ reader = "collect" /\ reader' = "packet"
        /\ produced \in 0..MaxProduced /\ position \in 0..MaxProduced
        /\ stateFile \in 0..MaxProduced /\ first \in 0..MaxProduced
        /\ MaxProduced \in Nat /\ handled \subseteq 1..produced
    BY ClientAssumption
    DEF ReaderCollects, TypeOK, ClientTypeOK, ServerInv
  <1>2. CASE position = Unset
    <2>1. /\ produced' = produced + 1 /\ position' = produced + 1
          /\ first' = produced + 1
      BY <1>2 DEF ReaderCollects, NextData
    <2>2. stateFile = Unset /\ updateStateFile = 1
      BY <1>1, <1>2 DEF StateInv, Recovered, CountInv
    <2>3. Saved' = produced /\ Counted' = produced
      <3>1. (produced + 1) - 1 = produced
        BY <1>1
      <3> QED BY <1>1, <2>1, <2>2, <3>1 DEF Saved, Counted
    <2>4. Cardinality(Lag(produced, produced)) = 0 /\ produced <= produced
      BY <1>1, LagFacts
    <2>5. \A s \in handled : ~(s >= produced + 1)
      BY <1>1
    <2>6. position' # Unset
      BY <1>1, <2>1 DEF Unset
    <2>7. /\ Saved' <= Counted'
          /\ Cardinality(Lag(Saved, Counted)') = updateStateFile' - 1
      <3>1. Lag(Saved, Counted)' = Lag(produced, produced)
        BY <2>3 DEF Lag
      <3>2. updateStateFile' = 1 /\ 1 - 1 = 0
        BY <1>1, <2>2
      <3> QED BY <2>3, <2>4, <3>1, <3>2, Zenon
    <2> QED BY <1>1, <2>1, <2>2, <2>3, <2>4, <2>5, <2>6, <2>7 DEF CountInv
  <1>3. CASE position # Unset
    <2>1. position' = position + 1 /\ UNCHANGED first
      BY <1>3 DEF ReaderCollects
    <2>2. (position + 1) - 1 = position /\ position + 1 # Unset
          /\ position <= position + 1
      BY <1>1 DEF Unset
    <2>3. Saved' = Saved
      BY <1>1, <2>1 DEF Saved
    <2>4. Counted' = position /\ Counted = position
      BY <1>1, <2>1, <2>2 DEF Counted
    <2>5. stateFile = Unset => \A s \in handled : s >= first => s <= position + 1
      BY <1>1, <1>3 DEF CountInv
    <2>6. stateFile # Unset => \E m \in 0..MaxProduced : Covers(m)'
      BY <1>1, <2>1, <2>3 DEF CountInv, Covers
    <2>7. UseStateFile =>
              /\ Saved <= Counted
              /\ Cardinality(Lag(Saved, Counted)) = updateStateFile - 1
      BY <1>1, <1>3 DEF CountInv, Recovered
    <2> QED BY <1>1, <1>3, <2>1, <2>2, <2>3, <2>4, <2>5, <2>6, <2>7
        DEF CountInv
  <1> QED BY <1>2, <1>3

\* A packet of another format adds nothing to the lag.
LEMMA IgnoreCounts ==
  ASSUME IInv, CountInv, ReaderIgnores
  PROVE  CountInv'
  <1> USE DEF IInv
  <1>1. /\ UNCHANGED <<position, stateFile, updateStateFile, handled, first>>
        /\ reader = "packet" /\ reader' = "head" /\ position \in OtherFormats
        /\ position \in 1..MaxProduced /\ position # Unset
        /\ stateFile \in 0..MaxProduced /\ first \in 0..MaxProduced
    BY DEF ReaderIgnores, TypeOK, ClientTypeOK, ThreadInv, Unset
  <1>2. Saved' = Saved /\ Saved \in Int
    BY <1>1 DEF Saved
  <1>3. Counted' = position /\ Counted = position - 1
    BY <1>1 DEF Counted
  <1>4. UseStateFile =>
            /\ Saved <= position - 1
            /\ Cardinality(Lag(Saved, position - 1)) = updateStateFile - 1
    BY <1>1, <1>3 DEF CountInv, Recovered
  <1>5. UseStateFile =>
            /\ Saved <= position
            /\ Cardinality(Lag(Saved, position)) = updateStateFile - 1
    BY <1>1, <1>2, <1>4, LagFacts
  <1>6. stateFile # Unset => \E m \in 0..MaxProduced : Covers(m)'
    BY <1>1, <1>2 DEF CountInv, Covers
  <1> QED BY <1>1, <1>2, <1>3, <1>5, <1>6 DEF CountInv

\* The packet that is handed over or skipped is one of those that a restart
\* would repeat.
LEMMA HandleCounts ==
  ASSUME IInv, CountInv, ReaderHandsOver \/ ReaderSkips
  PROVE  CountInv'
  <1> USE DEF IInv
  <1>1. /\ UNCHANGED <<position, stateFile, updateStateFile, first>>
        /\ reader = "packet" /\ reader' = "save" /\ position \notin OtherFormats
        /\ handled' = handled \cup {position} /\ handled \subseteq Int
        /\ position \in 1..MaxProduced /\ position # Unset
        /\ stateFile \in 0..MaxProduced /\ first \in 0..MaxProduced
        /\ updateStateFile \in 1..(StateFileUpdateInterval + 1)
        /\ StateFileUpdateInterval \in Nat
    BY ClientAssumption
    DEF ReaderHandsOver, ReaderSkips, TypeOK, ClientTypeOK, ThreadInv, Unset
  <1>2. Saved' = Saved /\ Saved \in Int
    BY <1>1 DEF Saved
  <1>3. Counted' = position - 1 /\ Counted = position - 1
    BY <1>1 DEF Counted
  <1>4. UseStateFile =>
            /\ Saved <= position - 1
            /\ Cardinality(Lag(Saved, position - 1)) = updateStateFile - 1
    BY <1>1, <1>3 DEF CountInv, Recovered
  <1>5. stateFile = Unset => \A s \in handled' : s >= first => s <= position
    BY <1>1 DEF CountInv
  <1>6. ASSUME stateFile # Unset
        PROVE  \E m \in 0..MaxProduced : Covers(m)'
    <2>1. PICK m \in 0..MaxProduced : Covers(m)
      BY <1>6 DEF CountInv
    <2>2. CASE position <= m
      <3>1. \A s \in handled' : s >= first => s <= m
        BY <1>1, <2>1, <2>2 DEF Covers
      <3>2. Covers(m)'
        BY <1>1, <1>2, <2>1, <3>1 DEF Covers
      <3> QED BY <3>2
    <2>3. CASE m < position
      <3>1. \A s \in handled' : s >= first => s <= position
        <4> SUFFICES ASSUME NEW s \in handled, s >= first
                     PROVE  s <= position
          BY <1>1
        <4>1. s <= m /\ s \in Int
          BY <1>1, <2>1 DEF Covers
        <4> QED BY <1>1, <2>3, <4>1
      <3>2. UseStateFile
        BY <1>6 DEF StateInv
      <3>3. /\ Cardinality(Lag(Saved, position - 1)) = updateStateFile - 1
            /\ Saved < position
        BY <1>1, <1>2, <1>4, <3>2
      <3>4. Cardinality(Lag(Saved, position))
                = Cardinality(Lag(Saved, position - 1)) + 1
        BY <1>1, <1>2, <3>3, LagFacts
      <3>5. Cardinality(Lag(Saved, position)) <= StateFileUpdateInterval + 1
        BY <1>1, <3>3, <3>4
      <3>6. ASSUME NEW k \in 0..MaxProduced, k = position
            PROVE  Covers(k)'
        BY <1>1, <1>2, <3>1, <3>5, <3>6 DEF Covers
      <3>7. position \in 0..MaxProduced
        BY <1>1
      <3> QED BY <3>6, <3>7
    <2>4. position <= m \/ m < position
      BY <1>1
    <2> QED BY <2>2, <2>3, <2>4
  <1> QED BY <1>1, <1>2, <1>3, <1>4, <1>5, <1>6 DEF CountInv

\* The count is raised with the packet it counts, or begins anew.
LEMMA SaveCounts ==
  ASSUME IInv, CountInv, ReaderSaves
  PROVE  CountInv'
  <1> USE DEF IInv
  <1>1. /\ UNCHANGED <<position, handled, first>>
        /\ reader = "save" /\ reader' = "head" /\ position \notin OtherFormats
        /\ position \in 1..MaxProduced /\ position # Unset
        /\ stateFile \in 0..MaxProduced /\ first \in 0..MaxProduced
        /\ updateStateFile \in Nat
    BY DEF ReaderSaves, TypeOK, ClientTypeOK, ThreadInv, CountInv, Unset
  <1>2. Counted' = position /\ Counted = position - 1 /\ Recovered
    BY <1>1 DEF Counted, Recovered
  <1>3. CASE UseStateFile /\ updateStateFile > StateFileUpdateInterval
    <2>1. stateFile' = position /\ updateStateFile' = 1
      BY <1>3 DEF ReaderSaves
    <2>2. Saved' = position
      BY <1>1, <2>1 DEF Saved
    <2>3. Cardinality(Lag(position, position)) = 0 /\ position <= position
      BY <1>1, LagFacts
    <2>4. \E m \in 0..MaxProduced : Covers(m)'
      BY <1>1, <1>2, <1>3, <2>1, SaveCovers
    <2>5. Cardinality(Lag(Saved, Counted))' = updateStateFile' - 1
      BY <1>2, <2>1, <2>2, <2>3
    <2> QED BY <1>1, <1>2, <2>1, <2>2, <2>3, <2>4, <2>5 DEF CountInv
  <1>4. CASE UseStateFile /\ ~(updateStateFile > StateFileUpdateInterval)
    <2>1. updateStateFile' = updateStateFile + 1 /\ UNCHANGED stateFile
      BY <1>4 DEF ReaderSaves
    <2>2. Saved' = Saved /\ Saved \in Int
      BY <1>1, <2>1 DEF Saved
    <2>3. /\ Saved <= position - 1
          /\ Cardinality(Lag(Saved, position - 1)) = updateStateFile - 1
      BY <1>1, <1>2, <1>4 DEF CountInv
    <2>4. /\ Saved <= position
          /\ Cardinality(Lag(Saved, position)) = (updateStateFile + 1) - 1
      <3>1. Cardinality(Lag(Saved, position))
                = Cardinality(Lag(Saved, position - 1)) + 1
        BY <1>1, <2>2, <2>3, LagFacts
      <3> QED BY <1>1, <2>2, <2>3, <3>1
    <2>5. stateFile # Unset => \E m \in 0..MaxProduced : Covers(m)'
      BY <1>1, <2>1, <2>2 DEF CountInv, Covers
    <2> QED BY <1>1, <1>2, <2>1, <2>2, <2>4, <2>5 DEF CountInv
  <1>5. CASE ~UseStateFile
    <2>1. UNCHANGED <<stateFile, updateStateFile>> /\ stateFile = Unset
      BY <1>5 DEF ReaderSaves, StateInv
    <2> QED BY <1>1, <1>5, <2>1 DEF CountInv
  <1> QED BY <1>3, <1>4, <1>5

\* disconnect() at the end of a life saves the reader's position.
LEMMA ExitCounts ==
  ASSUME IInv, CountInv, Exit
  PROVE  CountInv'
  <1> USE DEF IInv
  <1>1. /\ UNCHANGED <<position, updateStateFile, handled, first>>
        /\ reader = "exited" /\ reader' = "none" /\ Recovered /\ ~Recovered'
        /\ stateFile' = IF UseStateFile THEN position ELSE stateFile
    BY DEF Exit, ThreadInv, SaveOnDisconnect, Joinable, Recovered
  <1>2. CASE UseStateFile /\ position # Unset
    <2>1. \E m \in 0..MaxProduced : Covers(m)'
      BY <1>1, <1>2, SaveCovers
    <2> QED BY <1>1, <1>2, <2>1 DEF CountInv
  <1>3. CASE ~(UseStateFile /\ position # Unset)
    <2>1. stateFile' = stateFile /\ stateFile = Unset
      BY <1>1, <1>3 DEF StateInv
    <2> QED BY <1>1, <2>1 DEF CountInv
  <1> QED BY <1>2, <1>3

\* A client without a position has nothing to count.
LEMMA UnsetCounts ==
  ASSUME IInv, CountInv, UNCHANGED <<handled, first>>,
         position' = Unset, updateStateFile' = 1, reader' # "save",
         stateFile' \in {Unset, stateFile}
  PROVE  CountInv'
  <1>1. CASE stateFile' = Unset
    BY <1>1 DEF CountInv
  <1>2. CASE stateFile' = stateFile
    BY <1>2 DEF CountInv, Covers, Saved
  <1> QED BY <1>1, <1>2

\* The reader goes on from the saved number with nothing to repeat.
LEMMA RecoverCounts ==
  ASSUME IInv, CountInv, ReaderRecovers
  PROVE  CountInv'
  <1> USE DEF IInv
  <1>1. /\ UNCHANGED <<stateFile, handled, first>>
        /\ reader = "recover" /\ reader' = "head" /\ updateStateFile' = 1
        /\ position' = IF UseStateFile /\ stateFile # Unset
                       THEN stateFile ELSE position
        /\ position = Unset /\ stateFile \in 0..MaxProduced
    BY DEF ReaderRecovers, StateInv, TypeOK, ClientTypeOK
  <1>2. CASE UseStateFile /\ stateFile # Unset
    <2>1. position' = stateFile /\ Saved' = stateFile /\ Counted' = stateFile
      BY <1>1, <1>2 DEF Saved, Counted
    <2>2. Cardinality(Lag(stateFile, stateFile)) = 0 /\ stateFile <= stateFile
      BY <1>1, LagFacts
    <2>3. \E m \in 0..MaxProduced : Covers(m)'
      BY <1>1, <1>2 DEF CountInv, Covers, Saved
    <2>4. Cardinality(Lag(Saved, Counted))' = updateStateFile' - 1
      BY <1>1, <2>1, <2>2
    <2> QED BY <1>1, <1>2, <2>1, <2>2, <2>3, <2>4 DEF CountInv
  <1>3. CASE ~(UseStateFile /\ stateFile # Unset)
    <2>1. position' = Unset
      BY <1>1, <1>3
    <2> QED BY <1>1, <2>1, UnsetCounts
  <1> QED BY <1>2, <1>3

\* The count stays true in every step.
LEMMA CountStep ==
  ASSUME IInv, CountInv, [Next]_vars
  PROVE  CountInv'
  <1>1. CASE OwnerConnects \/ InitializeFails
    <2>1. /\ position = Unset /\ position' = Unset
          /\ UNCHANGED <<updateStateFile, handled, first, reader>>
          /\ stateFile' \in {Unset, stateFile}
      BY <1>1 DEF OwnerConnects, InitializeFails, InitializeThrows, Connect,
         SaveOnDisconnect, IInv, StateInv
    <2>2. updateStateFile = 1 /\ reader # "save"
      BY <1>1, <2>1 DEF CountInv, IInv, ThreadInv, OwnerConnects,
         InitializeFails
    <2> QED BY <2>1, <2>2, UnsetCounts
  <1>2. CASE Restart
    BY <1>2, UnsetCounts DEF Restart, ClientRestart
  <1>3. CASE \/ Initialize \/ Start \/ SignalHandler \/ StopBegins
             \/ JoinPublisher \/ Destroy
    <2>1. /\ UNCHANGED <<position, stateFile, updateStateFile, handled, first>>
          /\ reader' \in {reader, "recover"}
      BY <1>3 DEF Initialize, Start, StartReader, SignalHandler, StopBegins,
         JoinPublisher, Destroy, clientVars
    <2> QED BY <2>1, CountUntouched DEF Recovered, Counted
  <1>4. CASE \/ Publisher \/ ServerStep \/ Done \/ UNCHANGED vars
    <2>1. UNCHANGED <<position, stateFile, updateStateFile, handled, first,
                      reader>>
      BY <1>4 DEF Publisher, PublisherHead, PublisherTrims, PublisherPeeks,
         PublisherSends, PublisherFails, PublisherPops, ServerStep, Produce,
         Done, vars, clientVars
    <2> QED BY <2>1, CountUntouched DEF Recovered, Counted
  <1>5. CASE ReaderHead \/ ReaderTerminates \/ ReaderGetsNothing
    <2>1. /\ UNCHANGED <<position, stateFile, updateStateFile, handled, first>>
          /\ reader \in {"head", "collect"}
          /\ reader' \in {"head", "collect", "exited"}
      BY <1>5 DEF ReaderHead, ReaderTerminates, ReaderGetsNothing
    <2> QED BY <2>1, CountUntouched DEF Recovered, Counted
  <1> QED
    BY <1>1, <1>2, <1>3, <1>4, <1>5, CollectCounts, IgnoreCounts, HandleCounts,
       SaveCounts, ExitCounts, RecoverCounts
    DEF Next, Main, ReaderStep, Reader

\* A restart that finds a number repeats at most as many data packets as the
\* interval says, and one, since updateStateFile starts at 1 and must exceed the
\* interval.
THEOREM LagBounded == Spec => []RedeliveryBounded
  <1>1. Init => CountInv
    BY DEF Init, ClientInit, CountInv, Recovered
  <1>2. ASSUME IInv, CountInv PROVE RedeliveryBounded
    <2> SUFFICES ASSUME stateFile # Unset
                 PROVE  Cardinality(Unsaved) <= StateFileUpdateInterval + 1
      BY DEF RedeliveryBounded
    <2>1. PICK m \in 0..MaxProduced : Covers(m)
      BY <1>2 DEF CountInv
    <2>2. Saved = stateFile /\ stateFile \in Int
      BY <1>2 DEF Saved, IInv, TypeOK, ClientTypeOK
    <2>3. Unsaved \subseteq Lag(stateFile, m)
      <3> SUFFICES ASSUME NEW s \in handled, s > stateFile, s >= first
                   PROVE  s \in Lag(stateFile, m)
        BY DEF Unsaved
      <3>1. s <= m /\ s \in Int /\ s \notin OtherFormats
        BY <1>2, <2>1 DEF Covers, CountInv, IInv, TypeOK, ClientTypeOK
      <3> QED BY <2>2, <3>1 DEF Lag
    <2>4. /\ IsFiniteSet(Lag(stateFile, m))
          /\ Cardinality(Lag(stateFile, m)) <= StateFileUpdateInterval + 1
          /\ Cardinality(Lag(stateFile, m)) \in Nat
      BY <2>1, <2>2, LagFacts DEF Covers
    <2>5. Cardinality(Unsaved) <= Cardinality(Lag(stateFile, m))
          /\ Cardinality(Unsaved) \in Nat
      BY <2>3, <2>4, FS_Subset, FS_CardinalityType
    <2> QED BY <2>4, <2>5, ClientAssumption
  <1> QED BY <1>1, <1>2, CountStep, Invariant, PTL DEF Spec
---------------------------------------------------------------------------
\* Every step is one of the lossy FIFO, which restarts with the process.
LEMMA FifoStep ==
  ASSUME IInv, [Next]_vars
  PROVE  [Fifo!Next \/ Fifo!Restart]_<<produced, sent>>
  <1>1. CASE UNCHANGED sent /\ produced' = produced + 1
    BY <1>1 DEF Fifo!Next, Fifo!Receive
  <1>2. CASE PublisherSends
    <2>1. sent' = Append(sent, queue[1]) /\ UNCHANGED produced
      BY <1>2 DEF PublisherSends, clientVars
    <2>2. queue[1] \in (Fifo!LastSent + 1)..Reached
      BY <1>2, PublisherSendsKeeps
    <2>3. Reached <= produced /\ Reached \in Int /\ produced \in Int
      BY DEF IInv, ServerInv, TypeOK, ClientTypeOK, Reached
    <2>4. Fifo!LastSent \in Int
      BY DEF IInv, OrderInv
    <2>5. queue[1] \in (Fifo!LastSent + 1)..produced
      BY <2>2, <2>3, <2>4
    <2> QED BY <2>1, <2>5 DEF Fifo!Next, Fifo!Deliver
  <1>3. CASE Restart
    BY <1>3 DEF Restart, ClientRestart, Fifo!Restart
  <1>4. CASE UNCHANGED <<produced, sent>>
    BY <1>4
  <1> QED
    BY <1>1, <1>2, <1>3, <1>4
    DEF Next, OwnerConnects, Main, Initialize, InitializeFails, Start,
        StopBegins, JoinPublisher, Destroy, Exit, SignalHandler, Publisher,
        PublisherHead, PublisherTrims, PublisherPeeks, PublisherFails,
        PublisherPops, ReaderStep, Reader, ReaderRecovers, ReaderHead,
        ReaderTerminates, ReaderGetsNothing, ReaderCollects, ReaderIgnores,
        ReaderHandsOver, ReaderSkips, ReaderSaves, ServerStep, Produce,
        NextData, Done, vars, clientVars, sendVars

\* In every life of the process, a packet is sent at most once and never before
\* one that the server produced earlier.
THEOREM ImplementsLossyFifo == Spec => InOrder
  <1>1. Init => Fifo!Init
    BY DEF Init, ClientInit, Fifo!Init
  <1> QED BY <1>1, FifoStep, Invariant, PTL DEF Spec, InOrder,
          Fifo!RestartingSpec
===========================================================================
