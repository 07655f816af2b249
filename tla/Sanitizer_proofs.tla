------------------------- MODULE Sanitizer_proofs -------------------------
(***************************************************************************)
(* Proofs for Sanitizer: the three threads and the two queues between them *)
(* keep the order of arrival, for any capacity, any trimming threshold,    *)
(* any answers of the testers and any number of messages; and nothing      *)
(* moves once Process::stop() has returned.                                *)
(***************************************************************************)
EXTENDS Sanitizer, TLAPS

\* The threads run between start() and the joins of stop(), and a thread that
\* holds a packet is at the step that handles it.
ThreadInv ==
    /\ main \in {"start", "spawn"} => tester = "none" /\ publisher = "none"
    /\ main = "joinPublisher" => tester = "none"
    /\ Stopped => tester = "none" /\ publisher = "none"
    /\ damaged => Stopped
    /\ tester = "check" => Len(checking) = 1
    /\ tester # "check" => checking = <<>>
    /\ publisher \in {"send", "pop"} => toPublish # <<>>

\* Packets stand in a queue in the order of their numbers.
Increasing(q) == \A i, j \in 1..Len(q) : i < j => q[i] < q[j]

\* The packets of one stage came before those of an earlier stage.
Before(p, q) ==
    \A i \in 1..Len(p), j \in 1..Len(q) : p[i] < q[j]

\* The numbers grow from what was sent over the publisher's queue and the
\* tester's hand to the tester's queue.  While the publisher is between the
\* send and the pop, the front of its queue may be what was sent last.
OrderInv ==
    /\ Increasing(queue) /\ Increasing(toPublish)
    /\ Before(checking, queue)
    /\ Before(toPublish, checking)
    /\ Before(toPublish, queue)
    /\ \A i \in 1..Len(queue) : queue[i] \in (Fifo!LastSent + 1)..received
    /\ \A i \in 1..Len(checking) :
           checking[i] \in (Fifo!LastSent + 1)..received
    /\ \A i \in 1..Len(toPublish) :
           /\ toPublish[i] \in Fifo!LastSent..received
           /\ (i = 1 /\ publisher = "pop") \/ toPublish[i] # Fifo!LastSent
    /\ Fifo!LastSent \in 0..received

IInv == TypeOK /\ ThreadInv /\ OrderInv
---------------------------------------------------------------------------
\* What is left of a queue whose front is taken.
LEMMA TailFacts ==
  ASSUME NEW q \in Seq(Packet), q # <<>>
  PROVE  /\ q[1] \in Packet /\ Head(q) = q[1] /\ Len(q) \in Nat \ {0}
         /\ Tail(q) \in Seq(Packet)
         /\ Len(Tail(q)) = Len(q) - 1
         /\ \A i \in 1..Len(Tail(q)) :
                Tail(q)[i] = q[i + 1] /\ i + 1 \in 2..Len(q)
  OBVIOUS

\* try_enqueue keeps the packets that are queued and at most adds one behind
\* them, within the capacity.
LEMMA EnqueueFacts ==
  ASSUME NEW q \in Seq(Packet), Len(q) <= QueueCapacity, NEW p \in Packet
  PROVE  /\ TryEnqueue(q, p) \in Seq(Packet)
         /\ Len(TryEnqueue(q, p)) <= QueueCapacity
         /\ Len(TryEnqueue(q, p)) \in {Len(q), Len(q) + 1}
         /\ \A i \in 1..Len(TryEnqueue(q, p)) :
                \/ i \in 1..Len(q) /\ TryEnqueue(q, p)[i] = q[i]
                \/ i = Len(q) + 1 /\ TryEnqueue(q, p)[i] = p
  <1>1. CASE Len(q) < QueueCapacity
    BY <1>1, SubscriberAssumption DEF TryEnqueue
  <1>2. CASE ~(Len(q) < QueueCapacity)
    BY <1>2 DEF TryEnqueue
  <1> QED BY <1>1, <1>2

\* Taking the front of a queue keeps the order within it and to other stages.
LEMMA OrderOfTail ==
  ASSUME NEW q \in Seq(Packet), q # <<>>, NEW r \in Seq(Packet)
  PROVE  /\ Increasing(q) => Increasing(Tail(q)) /\ Before(<<q[1]>>, Tail(q))
         /\ Before(r, q) => Before(r, Tail(q)) /\ Before(r, <<q[1]>>)
         /\ Before(q, r) => Before(Tail(q), r)
  <1>1. /\ Len(Tail(q)) = Len(q) - 1 /\ Len(q) \in Nat \ {0}
        /\ \A i \in 1..Len(Tail(q)) :
               Tail(q)[i] = q[i + 1] /\ i + 1 \in 2..Len(q)
    BY TailFacts
  <1>2. Len(<<q[1]>>) = 1 /\ <<q[1]>>[1] = q[1]
    OBVIOUS
  <1>3. ASSUME Increasing(q)
        PROVE  Increasing(Tail(q)) /\ Before(<<q[1]>>, Tail(q))
    <2>1. ASSUME NEW i \in 1..Len(Tail(q)), NEW j \in 1..Len(Tail(q)), i < j
          PROVE  Tail(q)[i] < Tail(q)[j]
      <3>1. i + 1 \in 1..Len(q) /\ j + 1 \in 1..Len(q) /\ i + 1 < j + 1
        BY <1>1, <2>1
      <3>2. q[i + 1] < q[j + 1]
        BY <1>3, <3>1 DEF Increasing
      <3> QED BY <1>1, <3>2
    <2>2. ASSUME NEW j \in 1..Len(Tail(q))
          PROVE  q[1] < Tail(q)[j]
      <3>1. 1 \in 1..Len(q) /\ j + 1 \in 1..Len(q) /\ 1 < j + 1
        BY <1>1
      <3>2. q[1] < q[j + 1]
        BY <1>3, <3>1 DEF Increasing
      <3> QED BY <1>1, <3>2
    <2> QED BY <1>2, <2>1, <2>2 DEF Increasing, Before
  <1>4. ASSUME Before(r, q)
        PROVE  Before(r, Tail(q)) /\ Before(r, <<q[1]>>)
    <2>1. ASSUME NEW i \in 1..Len(r), NEW j \in 1..Len(Tail(q))
          PROVE  r[i] < Tail(q)[j]
      BY <1>1, <1>4 DEF Before
    <2>2. ASSUME NEW i \in 1..Len(r)
          PROVE  r[i] < q[1]
      BY <1>1, <1>4 DEF Before
    <2> QED BY <1>2, <2>1, <2>2 DEF Before
  <1>5. ASSUME Before(q, r)
        PROVE  Before(Tail(q), r)
    BY <1>1, <1>5 DEF Before
  <1> QED BY <1>3, <1>4, <1>5

\* A packet that came after all those in a queue goes behind them.
LEMMA OrderOfEnqueue ==
  ASSUME NEW q \in Seq(Packet), Len(q) <= QueueCapacity, NEW p \in Packet,
         NEW r \in Seq(Packet)
  PROVE  /\ Increasing(q) /\ (\A i \in 1..Len(q) : q[i] < p)
                => Increasing(TryEnqueue(q, p))
         /\ Before(q, r) /\ (\A j \in 1..Len(r) : p < r[j])
                => Before(TryEnqueue(q, p), r)
         /\ Before(r, q) /\ (\A i \in 1..Len(r) : r[i] < p)
                => Before(r, TryEnqueue(q, p))
  <1> DEFINE s == TryEnqueue(q, p)
  <1>1. /\ Len(q) \in Nat
        /\ \A i \in 1..Len(s) : \/ i \in 1..Len(q) /\ s[i] = q[i]
                                \/ i = Len(q) + 1 /\ s[i] = p
    BY EnqueueFacts
  <1> HIDE DEF s
  <1>2. ASSUME Increasing(q), \A i \in 1..Len(q) : q[i] < p
        PROVE  Increasing(s)
    <2> SUFFICES ASSUME NEW i \in 1..Len(s), NEW j \in 1..Len(s), i < j
                 PROVE  s[i] < s[j]
      BY DEF Increasing
    <2>1. i \in 1..Len(q) /\ s[i] = q[i]
      BY <1>1
    <2>2. CASE j \in 1..Len(q) /\ s[j] = q[j]
      BY <1>2, <2>1, <2>2 DEF Increasing
    <2>3. CASE s[j] = p
      BY <1>2, <2>1, <2>3
    <2> QED BY <1>1, <2>2, <2>3
  <1>3. ASSUME Before(q, r), \A j \in 1..Len(r) : p < r[j]
        PROVE  Before(s, r)
    BY <1>1, <1>3 DEF Before
  <1>4. ASSUME Before(r, q), \A i \in 1..Len(r) : r[i] < p
        PROVE  Before(r, s)
    BY <1>1, <1>4 DEF Before
  <1> QED BY <1>2, <1>3, <1>4 DEF s

\* The order depends on the pipeline only, and on whether the publisher is
\* between the send and the pop.
LEMMA PipelineStill ==
  ASSUME IInv, UNCHANGED <<received, queue, checking, toPublish, sent>>,
         publisher = "pop" => publisher' = "pop"
  PROVE  OrderInv'
  <1>1. Fifo!LastSent' = Fifo!LastSent
    BY DEF Fifo!LastSent
  <1> QED BY <1>1 DEF IInv, OrderInv, Increasing, Before

\* The process begins without packets.
LEMMA InitInvariant == Init => IInv
  <1> SUFFICES ASSUME Init PROVE IInv
    OBVIOUS
  <1> USE DEF Init, SubscriberInit
  <1>1. TypeOK
    <2>1. <<>> \in Seq(Packet) /\ Len(<<>>) = 0
      OBVIOUS
    <2>2. SubscriberTypeOK
      BY <2>1, SubscriberAssumption DEF SubscriberTypeOK
    <2>3. mKeepRunning \in BOOLEAN /\ mInterrupted \in BOOLEAN
      OBVIOUS
    <2>4. Len(checking) <= 1 /\ Len(toPublish) <= QueueCapacity
      BY SubscriberAssumption
    <2>5. /\ main \in {"start"} /\ tester \in {"none"} /\ publisher \in {"none"}
          /\ damaged \in BOOLEAN
      OBVIOUS
    <2> QED BY <2>1, <2>2, <2>3, <2>4, <2>5 DEF TypeOK
  <1>2. ThreadInv
    BY DEF ThreadInv, Stopped
  <1>3. OrderInv
    BY DEF OrderInv, Increasing, Before, Fifo!LastSent
  <1> QED BY <1>1, <1>2, <1>3 DEF IInv

\* Before the destructor the main thread moves threads, never packets.
LEMMA MainKeeps ==
  ASSUME IInv, (Main /\ ~DestroyQueues) \/ SignalHandler \/ Crash
  PROVE  IInv'
  <1> USE DEF IInv
  <1>1. UNCHANGED <<received, queue, checking, toPublish, sent>>
    BY DEF Main, StartStops, StartThreads, StartListener, SignalHandler,
           StopBegins, StopListener, JoinTester, JoinPublisher, Destroy, Exit,
           Crash, subVars, pipeVars
  <1>2. TypeOK'
    BY <1>1, ZenonT(60)
    DEF TypeOK, SubscriberTypeOK, Main, StartStops, StartThreads,
        StartListener, SignalHandler, StopBegins, StopListener, JoinTester,
        JoinPublisher, Destroy, Exit, Crash, subVars, pipeVars,
        ImplStartThread, ImplStopFlag, ImplStopped, SubscriberStop
  <1>3. ThreadInv' /\ (publisher = "pop" => publisher' = "pop")
    BY <1>1
    DEF TypeOK, ThreadInv, Main, StartStops, StartThreads, StartListener,
        SignalHandler, StopBegins, StopListener, JoinTester, JoinPublisher,
        Destroy, Exit, Crash, subVars, pipeVars, Joinable, Stopped
  <1> QED BY <1>1, <1>2, <1>3, PipelineStill

\* The destructor destroys the queues when no thread uses them but the listener.
LEMMA DestroyQueuesKeeps ==
  ASSUME IInv, DestroyQueues
  PROVE  IInv'
  <1> USE DEF IInv
  <1>1. /\ queue' = <<>> /\ toPublish' = <<>> /\ main' = "unqueued"
        /\ main = "stopped"
        /\ UNCHANGED <<subKeepRunning, listener, received, mKeepRunning,
                       mInterrupted, damaged, tester, publisher, checking, sent>>
    BY DEF DestroyQueues
  <1>2. tester = "none" /\ publisher = "none" /\ checking = <<>>
    BY <1>1 DEF ThreadInv, Stopped
  <1>3. TypeOK'
    BY <1>1, SubscriberAssumption DEF TypeOK, SubscriberTypeOK
  <1>4. ThreadInv'
    BY <1>1, <1>2 DEF ThreadInv, Stopped
  <1>5. Fifo!LastSent' = Fifo!LastSent
    BY <1>1 DEF Fifo!LastSent
  <1>6. OrderInv'
    BY <1>1, <1>2, <1>5 DEF OrderInv, Increasing, Before
  <1> QED BY <1>3, <1>4, <1>6

\* A write to a destroyed queue counts a message and changes no other state of
\* the pipeline.
LEMMA OverrunKeeps ==
  ASSUME IInv, ListenerOverruns
  PROVE  IInv'
  <1> USE DEF IInv
  <1>1. /\ received < MaxReceived /\ received' = received + 1
        /\ damaged' = TRUE /\ listener' = "head" /\ Stopped
        /\ UNCHANGED <<subKeepRunning, queue, mKeepRunning, mInterrupted, main,
                       pipeVars>>
    BY DEF ListenerOverruns, QueuesLive, Stopped
  <1>2. TypeOK'
    BY <1>1, SubscriberAssumption DEF TypeOK, SubscriberTypeOK, pipeVars
  <1>3. ThreadInv'
    BY <1>1 DEF ThreadInv, Stopped, pipeVars
  <1>4. Fifo!LastSent' = Fifo!LastSent
    BY <1>1 DEF Fifo!LastSent, pipeVars
  <1>5. received \in Nat /\ Fifo!LastSent \in 0..received
    BY DEF OrderInv, TypeOK, SubscriberTypeOK
  <1>6. /\ \A i \in 1..Len(queue) :
               queue[i] \in (Fifo!LastSent + 1)..(received + 1)
        /\ \A i \in 1..Len(checking) :
               checking[i] \in (Fifo!LastSent + 1)..(received + 1)
        /\ \A i \in 1..Len(toPublish) :
               /\ toPublish[i] \in Fifo!LastSent..(received + 1)
               /\ \/ i = 1 /\ publisher = "pop"
                  \/ toPublish[i] # Fifo!LastSent
        /\ Fifo!LastSent \in 0..(received + 1)
    BY <1>5 DEF OrderInv
  <1>7. /\ Increasing(queue) /\ Increasing(toPublish)
        /\ Before(checking, queue) /\ Before(toPublish, checking)
        /\ Before(toPublish, queue)
    BY DEF OrderInv
  <1>8. OrderInv'
    BY <1>1, <1>4, <1>6, <1>7 DEF OrderInv, pipeVars
  <1> QED BY <1>2, <1>3, <1>8

\* The listener appends the newest packet to the tester's queue or drops it.
LEMMA ListenerKeeps ==
  ASSUME IInv, Listens
  PROVE  IInv'
  <1> USE DEF IInv
  <1>1. UNCHANGED <<procVars, pipeVars>>
    BY DEF Listens
  <1>2. ThreadInv'
    BY <1>1 DEF ThreadInv, Stopped, procVars, pipeVars
  <1>4. Fifo!LastSent' = Fifo!LastSent
    BY <1>1 DEF Fifo!LastSent, pipeVars
  <1>5. CASE UNCHANGED <<received, queue>>
    <2>1. TypeOK'
      BY <1>1, <1>5 DEF TypeOK, SubscriberTypeOK, Listens, ListenerLoops,
         ListenerHead, ListenerTimeOut, ListenerDrops, ListenerReceives,
         procVars, pipeVars
    <2> QED BY <1>1, <1>2, <1>5, <2>1, PipelineStill DEF pipeVars
  <1>6. CASE received < MaxReceived /\ received' = received + 1
    <2>1. /\ queue \in Seq(Packet) /\ Len(queue) <= QueueCapacity
          /\ checking \in Seq(Packet) /\ toPublish \in Seq(Packet)
          /\ UNCHANGED <<checking, toPublish, publisher>>
      BY <1>1 DEF TypeOK, SubscriberTypeOK, pipeVars
    <2>2. received \in Nat /\ Fifo!LastSent \in 0..received
      BY DEF OrderInv, TypeOK, SubscriberTypeOK
    <2>3. /\ \A i \in 1..Len(queue) : queue[i] < received + 1
          /\ \A i \in 1..Len(checking) : checking[i] < received + 1
          /\ \A i \in 1..Len(toPublish) : toPublish[i] < received + 1
      BY <2>2 DEF OrderInv
    <2>4. \/ queue' = queue
          \/ \E p \in Packet : p = received + 1
                               /\ queue' = TryEnqueue(queue, p)
      <3>1. CASE ListenerReceives
        <4>1. received + 1 \in Packet
          BY <1>6, <2>2, SubscriberAssumption DEF Packet
        <4> QED BY <3>1, <4>1 DEF ListenerReceives
      <3> QED
        BY <1>6, <2>2, <3>1 DEF Listens, ListenerLoops, ListenerHead,
           ListenerTimeOut, ListenerDrops
    <2>5. /\ queue' \in Seq(Packet) /\ Len(queue') <= QueueCapacity
          /\ Increasing(queue')
          /\ Before(checking, queue') /\ Before(toPublish, queue')
          /\ \A i \in 1..Len(queue') :
                 queue'[i] \in (Fifo!LastSent + 1)..(received + 1)
      <3>1. CASE queue' = queue
        BY <2>1, <2>2, <3>1 DEF OrderInv
      <3>2. CASE queue' # queue
        <4>1. PICK p \in Packet : p = received + 1
                                  /\ queue' = TryEnqueue(queue, p)
          BY <2>4, <3>2
        <4>2. /\ queue' \in Seq(Packet) /\ Len(queue') <= QueueCapacity
              /\ \A i \in 1..Len(queue') :
                     \/ i \in 1..Len(queue) /\ queue'[i] = queue[i]
                     \/ queue'[i] = p
          <5>1. Len(queue) <= QueueCapacity
            BY DEF TypeOK, SubscriberTypeOK
          <5> DEFINE e == TryEnqueue(queue, p)
          <5>2. /\ e \in Seq(Packet) /\ Len(e) <= QueueCapacity
                /\ \A i \in 1..Len(e) :
                       \/ i \in 1..Len(queue) /\ e[i] = queue[i]
                       \/ i = Len(queue) + 1 /\ e[i] = p
            BY <2>1, <5>1, EnqueueFacts
          <5> HIDE DEF e
          <5>3. queue' = e
            BY <4>1 DEF e
          <5> QED BY <5>2, <5>3, Zenon
        <4>3. Increasing(queue')
          BY <2>1, <2>3, <4>1, OrderOfEnqueue DEF OrderInv
        <4>4. Before(checking, queue') /\ Before(toPublish, queue')
          BY <2>1, <2>3, <4>1, OrderOfEnqueue DEF OrderInv
        <4>5. \A i \in 1..Len(queue') :
                  queue'[i] \in (Fifo!LastSent + 1)..(received + 1)
          BY <2>2, <4>1, <4>2 DEF OrderInv
        <4> QED BY <4>2, <4>3, <4>4, <4>5
      <3> QED BY <3>1, <3>2
    <2>6. TypeOK'
      BY <1>1, <1>6, <2>2, <2>5, SubscriberAssumption
      DEF TypeOK, SubscriberTypeOK, Listens, ListenerLoops, ListenerHead,
          ListenerTimeOut, ListenerDrops, ListenerReceives, procVars, pipeVars
    <2>7. Increasing(toPublish) /\ Before(toPublish, checking)
      BY DEF OrderInv
    <2>8. /\ \A i \in 1..Len(checking) :
                 checking[i] \in (Fifo!LastSent + 1)..(received + 1)
          /\ \A i \in 1..Len(toPublish) :
                 /\ toPublish[i] \in Fifo!LastSent..(received + 1)
                 /\ \/ i = 1 /\ publisher = "pop"
                    \/ toPublish[i] # Fifo!LastSent
      BY <2>2 DEF OrderInv
    <2>9. OrderInv'
      BY <1>4, <1>6, <2>1, <2>2, <2>5, <2>7, <2>8 DEF OrderInv
    <2> QED BY <1>2, <2>6, <2>9
  <1> QED
    BY <1>5, <1>6 DEF Listens, ListenerLoops, ListenerHead, ListenerTimeOut,
       ListenerDrops, ListenerReceives

\* The tests let the packet in the tester's hand through behind those already
\* waiting for the publisher, whatever the testers answer.
LEMMA TesterChecksKeeps ==
  ASSUME IInv, TesterChecks
  PROVE  IInv'
  <1> USE DEF IInv
  <1> DEFINE p == checking[1]
             Old(i) == i \in 1..Len(toPublish) /\ toPublish'[i] = toPublish[i]
             New(i) == i = Len(toPublish) + 1 /\ toPublish'[i] = p
  <1>1. /\ checking' = <<>> /\ tester' = "head" /\ tester = "check"
        /\ UNCHANGED <<subVars, procVars, publisher, sent>>
    BY DEF TesterChecks
  <1>2. p \in Packet /\ 1 \in 1..Len(checking)
    <2>1. checking \in Seq(Packet) /\ Len(checking) = 1
      BY <1>1 DEF TypeOK, ThreadInv
    <2> QED BY <2>1
  <1>3. toPublish' = toPublish \/ toPublish' = TryEnqueue(toPublish, p)
    BY DEF TesterChecks
  <1>5. /\ toPublish' \in Seq(Packet) /\ Len(toPublish') <= QueueCapacity
        /\ Len(toPublish) \in Nat
        /\ Len(toPublish') \in {Len(toPublish), Len(toPublish) + 1}
        /\ \A i \in 1..Len(toPublish') : Old(i) \/ New(i)
    <2>1. toPublish \in Seq(Packet) /\ Len(toPublish) <= QueueCapacity
      BY DEF TypeOK
    <2> HIDE DEF p
    <2>2. CASE toPublish' = TryEnqueue(toPublish, p)
      <3>1. /\ toPublish' \in Seq(Packet) /\ Len(toPublish') <= QueueCapacity
            /\ Len(toPublish') \in {Len(toPublish), Len(toPublish) + 1}
            /\ \A i \in 1..Len(toPublish') : Old(i) \/ New(i)
        BY <1>2, <2>1, <2>2, EnqueueFacts
      <3> QED BY <2>1, <3>1
    <2>3. CASE toPublish' = toPublish
      BY <2>1, <2>3
    <2> QED BY <1>3, <2>2, <2>3
  <1>6. TypeOK'
    BY <1>1, <1>5 DEF TypeOK, SubscriberTypeOK, subVars, procVars
  <1>7. ThreadInv'
    <2>1. toPublish # <<>> => toPublish' # <<>>
      BY <1>5 DEF TypeOK
    <2> QED BY <1>1, <2>1 DEF ThreadInv, Stopped, procVars
  <1> HIDE DEF p
  <1>8. Fifo!LastSent' = Fifo!LastSent
    BY <1>1 DEF Fifo!LastSent
  <1>9. OrderInv'
    <2>1. /\ \A i \in 1..Len(toPublish) : toPublish[i] < p
          /\ \A j \in 1..Len(queue) : p < queue[j]
          /\ p \in (Fifo!LastSent + 1)..received
          /\ Fifo!LastSent \in Int /\ received \in Int
      <3>1. /\ Before(checking, queue) /\ Before(toPublish, checking)
            /\ \A i \in 1..Len(checking) :
                   checking[i] \in (Fifo!LastSent + 1)..received
            /\ Fifo!LastSent \in 0..received
        BY DEF OrderInv
      <3>2. 1 \in 1..Len(checking) /\ p = checking[1]
        BY <1>2 DEF p
      <3>3. \A i \in 1..Len(toPublish) : toPublish[i] < p
        BY <3>1, <3>2 DEF Before
      <3>4. \A j \in 1..Len(queue) : p < queue[j]
        BY <3>1, <3>2 DEF Before
      <3>5. p \in (Fifo!LastSent + 1)..received
        BY <3>1, <3>2
      <3>6. Fifo!LastSent \in Int /\ received \in Int
        BY <3>1 DEF TypeOK, SubscriberTypeOK
      <3> QED BY <3>3, <3>4, <3>5, <3>6
    <2>2. /\ toPublish \in Seq(Packet) /\ Len(toPublish) <= QueueCapacity
          /\ queue \in Seq(Packet)
          /\ Increasing(toPublish) /\ Before(toPublish, queue)
      BY DEF TypeOK, SubscriberTypeOK, OrderInv
    <2>3. Increasing(toPublish') /\ Before(toPublish', queue)
      <3>1. CASE toPublish' = toPublish
        BY <2>2, <3>1
      <3>2. CASE toPublish' = TryEnqueue(toPublish, p)
        BY <1>2, <2>1, <2>2, <3>2, OrderOfEnqueue
      <3> QED BY <1>3, <3>1, <3>2
    <2>4. ASSUME NEW i \in 1..Len(toPublish')
          PROVE  /\ toPublish'[i] \in Fifo!LastSent..received
                 /\ \/ i = 1 /\ publisher = "pop"
                    \/ toPublish'[i] # Fifo!LastSent
      <3>1. CASE Old(i)
        BY <3>1 DEF OrderInv
      <3>2. CASE New(i)
        BY <2>1, <3>2
      <3> QED BY <1>5, <3>1, <3>2
    <2>5. UNCHANGED <<queue, received, publisher>>
      BY <1>1 DEF subVars
    <2>6. Before(toPublish', queue')
      BY <2>3, <2>5
    <2>7. Before(checking', queue') /\ Before(toPublish', checking')
      BY <1>1 DEF Before
    <2> QED BY <1>1, <1>8, <2>3, <2>4, <2>5, <2>6, <2>7 DEF OrderInv
  <1> QED BY <1>6, <1>7, <1>9

\* The tester passes a packet on from its queue to its hand and from there to
\* the publisher's queue, or loses it.
LEMMA TesterKeeps ==
  ASSUME IInv, Tester
  PROVE  IInv'
  <1> USE DEF IInv
  <1>1. CASE TesterHead
    <2>1. TypeOK' /\ ThreadInv'
      BY <1>1 DEF TypeOK, SubscriberTypeOK, ThreadInv, Stopped, TesterHead,
         subVars, procVars
    <2> QED BY <1>1, <2>1, PipelineStill DEF TesterHead, subVars
  <1>2. CASE TesterTrims /\ queue' = queue
    <2>1. TypeOK' /\ ThreadInv'
      BY <1>2 DEF TypeOK, SubscriberTypeOK, ThreadInv, Stopped, TesterTrims,
        procVars
    <2> QED BY <1>2, <2>1, PipelineStill DEF TesterTrims
  <1>3. CASE TesterTakes /\ queue' = queue
    <2>1. TypeOK' /\ ThreadInv'
      BY <1>3 DEF TypeOK, SubscriberTypeOK, ThreadInv, Stopped, TesterTakes,
        procVars
    <2> QED BY <1>3, <2>1, PipelineStill DEF TesterTakes
  <1>4. CASE (TesterTrims \/ TesterTakes) /\ queue' # queue
    <2>1. /\ queue \in Seq(Packet) /\ queue # <<>> /\ queue' = Tail(queue)
          /\ checking = <<>>
          /\ checking' = <<>> \/ checking' = <<queue[1]>>
      <3>1. CASE TesterTrims
        BY <1>4, <3>1, SanitizerAssumption
        DEF TypeOK, SubscriberTypeOK, ThreadInv, Stopped, TesterTrims
      <3>2. CASE TesterTakes
        BY <1>4, <3>2 DEF TypeOK, SubscriberTypeOK, ThreadInv, Stopped, TesterTakes
      <3> QED BY <1>4, <3>1, <3>2
    <2>2. UNCHANGED <<subKeepRunning, listener, received, procVars, publisher,
                      toPublish, sent>>
      BY <1>4 DEF TesterTrims, TesterTakes
    <2>3. /\ queue[1] \in Packet
          /\ queue' \in Seq(Packet) /\ Len(queue') = Len(queue) - 1
          /\ \A i \in 1..Len(queue') :
                 queue'[i] = queue[i + 1] /\ i + 1 \in 2..Len(queue)
          /\ Len(queue) \in Nat \ {0}
      BY <2>1, TailFacts
    <2>4. /\ checking' \in Seq(Packet) /\ Len(checking') <= 1
          /\ \A i \in 1..Len(checking') : checking'[i] = queue[1]
          /\ tester' = "check" => Len(checking') = 1
          /\ tester' # "check" => checking' = <<>>
          /\ tester' \in {"trim", "check"}
      <3>1. CASE TesterTrims
        <4>1. checking' = <<>> /\ tester' = "trim"
          BY <1>4, <2>1, <3>1 DEF TesterTrims
        <4> QED BY <4>1
      <3>2. CASE TesterTakes
        <4>1. checking' = <<queue[1]>> /\ tester' = "check"
          BY <1>4, <2>1, <3>2 DEF TesterTakes
        <4> QED BY <2>3, <4>1
      <3> QED BY <1>4, <3>1, <3>2
    <2>5. TypeOK'
      <3>1. Len(queue') <= QueueCapacity
        BY <2>3, SubscriberAssumption DEF TypeOK, SubscriberTypeOK
      <3> QED
        BY <2>2, <2>3, <2>4, <3>1 DEF TypeOK, SubscriberTypeOK, procVars
    <2>6. main \notin {"start", "spawn", "joinPublisher"} /\ ~Stopped
      BY <1>4 DEF ThreadInv, TesterTrims, TesterTakes
    <2>7. ThreadInv'
      BY <2>2, <2>4, <2>6 DEF ThreadInv, Stopped, procVars
    <2>9. Fifo!LastSent' = Fifo!LastSent
      BY <2>2 DEF Fifo!LastSent
    <2>10. toPublish \in Seq(Packet)
      BY DEF TypeOK
    <2>11. Increasing(queue') /\ Before(<<queue[1]>>, queue')
      BY <2>1, OrderOfTail DEF OrderInv
    <2>12. Before(toPublish', queue') /\ Before(toPublish', <<queue[1]>>)
      BY <2>1, <2>2, <2>10, OrderOfTail DEF OrderInv
    <2>13. Before(checking', queue') /\ Before(toPublish', checking')
      <3>1. CASE checking' = <<>>
        BY <3>1 DEF Before
      <3>2. CASE checking' = <<queue[1]>>
        BY <2>11, <2>12, <3>2
      <3> QED BY <2>1, <3>1, <3>2
    <2>14. \A i \in 1..Len(queue) :
               queue[i] \in (Fifo!LastSent + 1)..received
      BY DEF OrderInv
    <2>15. ASSUME NEW i \in 1..Len(queue')
           PROVE  queue'[i] \in (Fifo!LastSent + 1)..received
      <3>1. queue'[i] = queue[i + 1] /\ i + 1 \in 1..Len(queue)
        BY <2>3
      <3> QED BY <2>14, <3>1, Zenon
    <2>16. ASSUME NEW i \in 1..Len(checking')
           PROVE  checking'[i] \in (Fifo!LastSent + 1)..received
      <3>1. 1 \in 1..Len(queue)
        BY <2>3
      <3>2. checking'[i] = queue[1]
        BY <2>4
      <3> QED BY <2>14, <3>1, <3>2
    <2>17. OrderInv'
      BY <2>2, <2>9, <2>11, <2>12, <2>13, <2>15, <2>16 DEF OrderInv
    <2> QED BY <2>5, <2>7, <2>17
  <1>5. CASE TesterFails
    <2>1. TypeOK' /\ ThreadInv'
      BY <1>5 DEF TypeOK, SubscriberTypeOK, ThreadInv, Stopped, TesterFails,
         subVars, procVars
    <2>2. Fifo!LastSent' = Fifo!LastSent
      BY <1>5 DEF Fifo!LastSent, TesterFails
    <2>3. OrderInv'
      BY <1>5, <2>2 DEF OrderInv, Increasing, Before, TesterFails, subVars
    <2> QED BY <2>1, <2>3
  <1>6. CASE TesterChecks
    BY <1>6, TesterChecksKeeps
  <1> QED BY <1>1, <1>2, <1>3, <1>4, <1>5, <1>6 DEF Tester

\* The publisher takes the front of its queue after it was sent, could not be
\* sent or was trimmed away.
LEMMA PublisherTakes ==
  ASSUME IInv, PublisherPops \/ (PublisherTrims /\ toPublish' # toPublish)
  PROVE  IInv'
  <1> USE DEF IInv
  <1>1. /\ UNCHANGED <<subVars, procVars, tester, checking, sent>>
        /\ toPublish \in Seq(Packet) /\ toPublish # <<>>
        /\ queue \in Seq(Packet) /\ checking \in Seq(Packet)
        /\ toPublish' = Tail(toPublish)
        /\ publisher \in {"pop", "trim"} /\ publisher' \in {"head", "trim"}
    BY SanitizerAssumption
    DEF TypeOK, SubscriberTypeOK, ThreadInv, Stopped, PublisherPops, PublisherTrims
  <1>2. /\ toPublish' \in Seq(Packet) /\ Len(toPublish') = Len(toPublish) - 1
        /\ Len(toPublish) \in Nat \ {0}
        /\ \A i \in 1..Len(toPublish') :
               toPublish'[i] = toPublish[i + 1] /\ i + 1 \in 2..Len(toPublish)
    BY <1>1, TailFacts
  <1>3. UNCHANGED <<received, queue>> /\ Fifo!LastSent' = Fifo!LastSent
    BY <1>1 DEF Fifo!LastSent, subVars
  <1>4. TypeOK'
    <2>1. Len(toPublish') <= QueueCapacity
      BY <1>2, SubscriberAssumption DEF TypeOK
    <2> QED
      BY <1>1, <1>2, <2>1, ZenonT(60)
      DEF TypeOK, SubscriberTypeOK, subVars, procVars
  <1>5. ThreadInv'
    BY <1>1 DEF ThreadInv, Stopped, procVars
  <1>6. OrderInv'
    <2>1. Increasing(toPublish')
      BY <1>1, OrderOfTail DEF OrderInv
    <2>2. Before(toPublish', checking) /\ Before(toPublish', queue)
      BY <1>1, OrderOfTail DEF OrderInv
    <2>3. ASSUME NEW i \in 1..Len(toPublish')
          PROVE  /\ toPublish'[i] \in Fifo!LastSent..received
                 /\ toPublish'[i] # Fifo!LastSent
      BY <1>2 DEF OrderInv
    <2> QED BY <1>1, <1>3, <2>1, <2>2, <2>3 DEF OrderInv
  <1> QED BY <1>4, <1>5, <1>6

\* What is sent came after everything that was sent before.
LEMMA PublisherSendsKeeps ==
  ASSUME IInv, PublisherSends
  PROVE  IInv'
  <1> USE DEF IInv
  <1> DEFINE p == toPublish[1]
  <1>1. /\ UNCHANGED <<subVars, procVars, tester, checking, toPublish>>
        /\ sent' = Append(sent, Head(toPublish))
        /\ publisher = "send" /\ publisher' = "pop"
    BY DEF PublisherSends
  <1>2. /\ p \in Packet /\ 1 \in 1..Len(toPublish) /\ Head(toPublish) = p
        /\ p \in 1..MaxReceived
    <2>1. toPublish \in Seq(Packet) /\ toPublish # <<>>
      BY <1>1 DEF TypeOK, ThreadInv
    <2>2. p \in Packet /\ 1 \in 1..Len(toPublish) /\ Head(toPublish) = p
      BY <2>1
    <2> QED BY <2>2 DEF Packet
  <1> HIDE DEF p
  <1>3. sent' \in Seq(Packet) /\ Fifo!LastSent' = p
    BY <1>1, <1>2 DEF TypeOK, Fifo!LastSent
  <1>5. TypeOK' /\ ThreadInv'
    BY <1>1, <1>3
    DEF TypeOK, SubscriberTypeOK, ThreadInv, Stopped, subVars, procVars
  <1>6. OrderInv'
    <2>1. UNCHANGED <<received, queue, checking, toPublish>>
      BY <1>1 DEF subVars
    <2>2. p \in 0..received /\ received \in Nat
      BY <1>2 DEF OrderInv, TypeOK, SubscriberTypeOK, p
    <2>3. /\ \A i \in 1..Len(queue) : queue[i] \in (p + 1)..received
          /\ \A i \in 1..Len(checking) : checking[i] \in (p + 1)..received
      <3>1. 1 \in 1..Len(toPublish) /\ p = toPublish[1]
        BY <1>2 DEF p
      <3>2. p \in Int
        BY <2>2
      <3>3. ASSUME NEW i \in 1..Len(queue)
            PROVE  queue[i] \in (p + 1)..received
        <4>1. toPublish[1] < queue[i]
          BY <3>1 DEF OrderInv, Before
        <4>2. queue[i] \in (Fifo!LastSent + 1)..received
          BY DEF OrderInv
        <4> QED BY <2>2, <3>1, <3>2, <4>1, <4>2
      <3>4. ASSUME NEW i \in 1..Len(checking)
            PROVE  checking[i] \in (p + 1)..received
        <4>1. toPublish[1] < checking[i]
          BY <3>1 DEF OrderInv, Before
        <4>2. checking[i] \in (Fifo!LastSent + 1)..received
          BY DEF OrderInv
        <4> QED BY <2>2, <3>1, <3>2, <4>1, <4>2
      <3> QED BY <3>3, <3>4
    <2>4. ASSUME NEW i \in 1..Len(toPublish)
          PROVE  /\ toPublish[i] \in p..received
                 /\ i = 1 \/ toPublish[i] # p
      <3>1. CASE i = 1
        BY <2>2, <3>1 DEF p
      <3>2. CASE i # 1
        BY <1>2, <2>2, <3>2 DEF OrderInv, Increasing, p
      <3> QED BY <3>1, <3>2
    <2>5. /\ Increasing(queue) /\ Increasing(toPublish)
          /\ Before(checking, queue) /\ Before(toPublish, checking)
          /\ Before(toPublish, queue)
      BY DEF OrderInv
    <2> QED BY <1>1, <1>3, <2>1, <2>2, <2>3, <2>4, <2>5 DEF OrderInv
  <1> QED BY <1>5, <1>6

LEMMA PublisherKeeps ==
  ASSUME IInv, Publisher
  PROVE  IInv'
  <1> USE DEF IInv
  <1>1. CASE \/ PublisherHead \/ PublisherPeeks \/ PublisherFails
             \/ PublisherTrims /\ toPublish' = toPublish
    <2>1. UNCHANGED <<received, queue, checking, toPublish, sent>>
      BY <1>1 DEF PublisherHead, PublisherPeeks, PublisherFails,
         PublisherTrims, subVars
    <2>2. TypeOK' /\ ThreadInv' /\ publisher # "pop"
      BY <1>1 DEF TypeOK, SubscriberTypeOK, ThreadInv, Stopped, PublisherHead,
         PublisherPeeks, PublisherFails, PublisherTrims, subVars, procVars
    <2> QED BY <2>1, <2>2, PipelineStill
  <1>2. CASE PublisherPops \/ (PublisherTrims /\ toPublish' # toPublish)
    BY <1>2, PublisherTakes
  <1>3. CASE PublisherSends
    BY <1>3, PublisherSendsKeeps
  <1> QED BY <1>1, <1>2, <1>3 DEF Publisher

\* The invariant is inductive.
LEMMA StepInvariant ==
  ASSUME IInv, [Next]_vars
  PROVE  IInv'
  <1>1. CASE UNCHANGED vars
    <2>1. TypeOK' /\ ThreadInv' /\ UNCHANGED publisher
      BY <1>1 DEF IInv, TypeOK, SubscriberTypeOK, ThreadInv, Stopped, vars, subVars,
         procVars, pipeVars
    <2> QED BY <1>1, <2>1, PipelineStill DEF IInv, vars, subVars, pipeVars
  <1> QED
    BY <1>1, MainKeeps, DestroyQueuesKeeps, ListenerKeeps, OverrunKeeps,
       TesterKeeps, PublisherKeeps DEF Next, Done

LEMMA Invariant == Spec => []IInv
  BY InitInvariant, StepInvariant, PTL DEF Spec
---------------------------------------------------------------------------
\* The types of the sanitizer's state, with the capacity of both queues.
THEOREM TypeCorrect == Spec => []TypeOK
  BY Invariant, PTL DEF IInv

\* The sanitizer implements the lossy FIFO: a packet is sent at most once and
\* never before one that arrived earlier.
THEOREM ImplementsLossyFifo == Spec => InOrder
  <1>1. Init => Fifo!Init
    BY DEF Init, SubscriberInit, Fifo!Init
  <1>2. ASSUME IInv, [Next]_vars
        PROVE  [Fifo!Next]_<<received, sent>>
    <2>1. CASE Listens
      BY <2>1 DEF Listens, ListenerLoops, ListenerHead, ListenerTimeOut,
         ListenerDrops, ListenerReceives, pipeVars, Fifo!Next, Fifo!Receive
    <2>2. CASE PublisherSends
      <3>1. UNCHANGED received /\ sent' = Append(sent, Head(toPublish))
        BY <2>2 DEF PublisherSends, subVars
      <3>2. /\ 1 \in 1..Len(toPublish) /\ publisher # "pop"
            /\ Head(toPublish) = toPublish[1]
        BY <1>2, <2>2 DEF PublisherSends, IInv, TypeOK, ThreadInv
      <3>3. toPublish[1] \in (Fifo!LastSent + 1)..received
        BY <1>2, <3>2 DEF IInv, OrderInv, TypeOK, SubscriberTypeOK
      <3> QED BY <3>1, <3>2, <3>3 DEF Fifo!Next, Fifo!Deliver
    <2>4. CASE ListenerOverruns
      BY <2>4 DEF ListenerOverruns, pipeVars, Fifo!Next, Fifo!Receive
    <2>3. CASE UNCHANGED <<received, sent>>
      BY <2>3
    <2> QED
      BY <1>2, <2>1, <2>2, <2>3, <2>4
      DEF Next, Main, StartStops, StartThreads, StartListener, StopBegins,
          StopListener, JoinTester, JoinPublisher, DestroyQueues, Destroy,
          Exit, Crash, SignalHandler, Tester, TesterHead, TesterTrims, TesterTakes,
          TesterChecks, TesterFails, Publisher, PublisherHead, PublisherTrims,
          PublisherPeeks, PublisherFails, PublisherPops, Done, vars, subVars,
          pipeVars
  <1> QED BY <1>1, <1>2, Invariant, PTL DEF Spec, InOrder, Fifo!Spec

\* After Process::stop() has joined both threads nothing is tested, queued for
\* publication or sent.
THEOREM NothingAfterStop == Spec => QuietAfterStop
  <1> DEFINE Quiet == Stopped => /\ UNCHANGED <<checking, sent>>
                                 /\ toPublish' \in {toPublish, <<>>}
  <1>1. ASSUME IInv, [Next]_vars
        PROVE  [Quiet]_vars
    <2> SUFFICES ASSUME Stopped
                 PROVE  /\ UNCHANGED <<checking, sent>>
                        /\ toPublish' \in {toPublish, <<>>}
      OBVIOUS
    <2>1. tester = "none" /\ publisher = "none"
      BY <1>1 DEF IInv, ThreadInv
    <2> QED
      BY <1>1, <2>1
      DEF Next, Main, StartStops, StartThreads, StartListener, StopBegins,
          StopListener, JoinTester, JoinPublisher, DestroyQueues, Destroy,
          Exit, Crash, SignalHandler, Listens, ListenerOverruns, Tester,
          TesterHead, TesterTrims, TesterTakes,
          TesterChecks, TesterFails, Publisher, PublisherHead, PublisherTrims,
          PublisherPeeks, PublisherSends, PublisherFails, PublisherPops, Done,
          vars, subVars, pipeVars
  <1> QED BY <1>1, Invariant, PTL DEF Spec, QuietAfterStop
===========================================================================
