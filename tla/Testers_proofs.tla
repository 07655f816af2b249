--------------------------- MODULE Testers_proofs ---------------------------
(***************************************************************************)
(* Proofs about the three testers as the sanitizer asks them, for all      *)
(* packets, channels, limits, intervals and sets of enabled testers.       *)
(***************************************************************************)
EXTENDS Testers, DuplicateTest_proofs

Steps == {"take", "future", "expired", "duplicate", "enqueue"}

LoopTypes ==
    /\ step \in Steps
    /\ step # "take" => packet \in Packets
    /\ taken \in Nat
    /\ allow \in BOOLEAN
    /\ futureLastLogTime \in Nat
    /\ expiredLastLogTime \in Nat

\* What is known of a packet that is still allowed, by the testers it has met.
LoopInv ==
    /\ taken <= nowMuSeconds
    /\ allow => /\ step \in {"expired", "duplicate", "enqueue"}
                /\ Readable(packet)
                /\ FutureAllows(packet)
    /\ allow /\ step \in {"duplicate", "enqueue"} /\ "expired" \in testers
       => packet.start >= taken - MaxExpiredTime
    /\ allow /\ step = "enqueue" /\ "duplicate" \in testers
       => verdict.packet = packet /\ verdict.allow

\* The inductive invariant: that of the duplicate test, and these.
TestersInv == IInv /\ LoopTypes /\ LoopInv /\ NotPoisoned

\* The duplicate test's invariant depends on the clock only for its type.
LEMMA ClockKeepsIInv ==
  ASSUME IInv, now' \in Nat, UNCHANGED duplicateVars
  PROVE  IInv'
<1>1. TypeOK'
  BY DEF IInv, TypeOK, duplicateVars, logVars
<1> QED
  BY <1>1 DEF IInv, GoodBuffers, duplicateVars

\* allow() answers for the packet it was given, at one reading of the clock.
LEMMA AllowAnswers ==
  ASSUME NEW p \in Packets, Allow(p)
  PROVE  now' = now /\ verdict'.packet = p
  BY DEF Allow, Unreadable, NewChannel, CompareThrows, Duplicate, Newest, Oldest,
         TimingSlip, BackFill, Return

\* An insertion, with or without an eviction, adds one header.
LEMMA InsertAdds ==
  ASSUME NEW b \in Seq(Header), b # <<>>, NEW c \in Nat, Len(b) <= c, Good(b),
         NEW h \in Header, NEW s, s = IF Full(b, c) THEN Tail(b) ELSE b,
         NEW k \in 0..Len(s)
  PROVE  Elems(Insert(s, k, h)) \subseteq Elems(b) \cup {h}
<1>1. s \in Seq(Header)
  BY GoodTail
<1>2. Elems(Insert(s, k, h)) = Elems(s) \cup {h}
  BY <1>1, InsertElems
<1>3. Elems(s) \subseteq Elems(b)
  <2>1. CASE Full(b, c)
    BY <2>1, TailElems DEF Good
  <2>2. CASE ~Full(b, c)
    BY <2>2
  <2> QED
    BY <2>1, <2>2
<1> QED
  BY <1>2, <1>3

\* allow() adds nothing to a circular buffer but the header of its packet.
LEMMA AllowAdds ==
  ASSUME IInv, NEW p \in Packets, Readable(p), Allow(p), NEW m \in Names
  PROVE  Elems(mCircularBuffers'[m])
             \subseteq Elems(mCircularBuffers[m]) \cup {HeaderOf(p)}
<1> DEFINE n == p.name
           h == HeaderOf(p)
           b == mCircularBuffers[n]
           c == capacity[n]
           s == IF Full(b, c) THEN Tail(b) ELSE b
<1>1. /\ n \in Names /\ h \in Header
      /\ b \in Seq(Header) /\ c \in Nat /\ Len(b) <= c /\ Good(b)
  BY HeaderOfPacket DEF IInv, TypeOK, GoodBuffers
<1>2. CASE UNCHANGED mCircularBuffers
  BY <1>2
<1>3. ASSUME NEW t, Store(p, t), Elems(t) \subseteq Elems(b) \cup {h}
      PROVE  Elems(mCircularBuffers'[m])
                 \subseteq Elems(mCircularBuffers[m]) \cup {HeaderOf(p)}
  <2>1. mCircularBuffers'[m] = IF m = n THEN t ELSE mCircularBuffers[m]
    BY <1>1, <1>3 DEF IInv, TypeOK, Store
  <2>2. CASE m = n
    BY <1>3, <2>1, <2>2
  <2>3. CASE m # n
    BY <2>1, <2>3
  <2> QED
    BY <2>2, <2>3
<1>4. CASE \/ Unreadable(p) \/ CompareThrows(p) \/ Duplicate(p) \/ TimingSlip(p)
  BY <1>2, <1>4 DEF Unreadable, CompareThrows, Duplicate, TimingSlip, KeepBuffers
<1> HIDE DEF n, h, b, c
<1>5. CASE NewChannel(p)
  <2>1. Store(p, <<h>>) \/ UNCHANGED mCircularBuffers
    BY <1>5 DEF NewChannel, KeepBuffers, h
  <2>2. Elems(<<h>>) = {h}
    BY DEF Elems
  <2> QED
    BY <1>2, <1>3, <2>1, <2>2
<1>6. CASE Newest(p)
  <2>1. Unknown(p) /\ Store(p, PushBack(b, c, h))
    BY <1>6 DEF Newest, b, c, h, n
  <2>2. b # <<>>
    BY <2>1 DEF Unknown, b, n
  <2>3. s \in Seq(Header) /\ Len(s) \in 0..Len(s)
    BY <1>1, <2>2, GoodTail
  <2>4. PushBack(b, c, h) = Insert(s, Len(s), h)
    BY <1>1, <2>3, EndsAreInsertions DEF PushBack
  <2>5. Elems(PushBack(b, c, h)) \subseteq Elems(b) \cup {h}
    BY <1>1, <2>2, <2>3, <2>4, InsertAdds
  <2> QED
    BY <1>3, <2>1, <2>5
<1>7. CASE Oldest(p)
  <2>1. Unknown(p) /\ (Store(p, <<h>> \o b) \/ UNCHANGED mCircularBuffers)
    BY <1>7 DEF Oldest, b, c, h, n
  <2>2. <<h>> \o b = Insert(b, 0, h) /\ 0 \in 0..Len(b)
    BY <1>1, EndsAreInsertions
  <2>3. Elems(<<h>> \o b) \subseteq Elems(b) \cup {h}
    BY <1>1, <2>2, InsertElems
  <2> QED
    BY <1>2, <1>3, <2>1, <2>3
<1>8. CASE BackFill(p)
  <2>1. PICK k \in SortedPlaces(s, h) : Store(p, Insert(s, k, h))
    BY <1>8 DEF BackFill, b, c, h, n
  <2>2. b # <<>>
    BY <1>8 DEF BackFill, Unknown, b, n
  <2>3. k \in 0..Len(s)
    BY DEF SortedPlaces
  <2>4. Elems(Insert(s, k, h)) \subseteq Elems(b) \cup {h}
    BY <1>1, <2>2, <2>3, InsertAdds
  <2> QED
    BY <1>3, <2>1, <2>4
<1> QED
  BY <1>4, <1>5, <1>6, <1>7, <1>8 DEF Allow

\* The two logs keep their times numbers.
LEMMA LogTimes ==
  ASSUME LoopTypes, now \in Nat, NEW p, NEW good,
         FutureLog(p, good) \/ ExpiredLog(p, good)
  PROVE  futureLastLogTime' \in Nat /\ expiredLastLogTime' \in Nat
  BY DEF LoopTypes, FutureLog, ExpiredLog, Reported

\* The types of the fields of a packet that can be read.
LEMMA PacketFields ==
  ASSUME NEW p \in Packets
  PROVE  p.start \in Nat /\ (Readable(p) => EndTime(p) \in Nat)
<1>1. p.start \in Nat
  BY PacketsAssumption DEF Packet
<1>2. ASSUME Readable(p) PROVE EndTime(p) \in Nat
  <2>1. HeaderOf(p) \in Header /\ HeaderOf(p).end = EndTime(p)
    BY <1>2, HeaderOfPacket DEF HeaderOf
  <2> QED
    BY <2>1, HeaderFields
<1> QED
  BY <1>1, <1>2

Micro(seconds) == seconds * 1000000

\* The conversion to microseconds is monotonic.
LEMMA MicroSeconds ==
  \A a, b \in Nat : a <= b => /\ Micro(a) \in Nat /\ Micro(b) \in Nat
                              /\ Micro(a) <= Micro(b)
  BY SMT DEF Micro

\* The clock as the testers read it never goes back.
LEMMA ClockReadings ==
  ASSUME now \in Nat, now' \in Nat, now <= now'
  PROVE  /\ nowMuSeconds \in Nat /\ nowMuSeconds' \in Nat
         /\ nowMuSeconds <= nowMuSeconds'
<1>1. nowMuSeconds = Micro(now)
  BY SMT DEF nowMuSeconds, Micro
<1>2. nowMuSeconds' = Micro(now')
  BY SMT DEF nowMuSeconds, Micro
<1> QED
  BY <1>1, <1>2, MicroSeconds, Zenon

\* Time alone harms no packet: what was not from the future stays so.
LEMMA ClockKeepsLoop ==
  ASSUME TestersInv, now' \in Nat, now <= now', UNCHANGED <<duplicateVars, loopVars>>
  PROVE  LoopInv' /\ NotPoisoned'
<1>1. /\ now \in Nat /\ nowMuSeconds \in Nat /\ nowMuSeconds' \in Nat
      /\ nowMuSeconds <= nowMuSeconds'
  BY ClockReadings DEF TestersInv, IInv, TypeOK
<1>2. UNCHANGED <<mCircularBuffers, verdict, testers, step, checking, taken, allow>>
  BY DEF duplicateVars, loopVars
<1>3. taken' <= nowMuSeconds'
  BY <1>1, <1>2 DEF TestersInv, LoopTypes, LoopInv
<1>4. ASSUME allow PROVE Readable(packet) /\ FutureAllows(packet)'
  <2>1. packet \in Packets /\ Readable(packet) /\ FutureAllows(packet)
    BY <1>4 DEF TestersInv, LoopTypes, LoopInv
  <2>2. EndTime(packet) \in Nat
    BY <2>1, PacketFields
  <2>3. EndTime(packet) <= nowMuSeconds + MaxFutureTime
    BY <2>1 DEF FutureAllows
  <2>4. EndTime(packet) <= nowMuSeconds' + MaxFutureTime
    BY <1>1, <2>2, <2>3, TestersAssumption
  <2> QED
    BY <1>2, <2>1, <2>4 DEF FutureAllows, packet
<1>5. LoopInv'
  BY <1>2, <1>3, <1>4 DEF TestersInv, LoopInv, packet
<1>6. NotPoisoned'
  <2> SUFFICES ASSUME NEW n \in Names, NEW h \in Elems(mCircularBuffers[n])
               PROVE  h.end <= nowMuSeconds' + MaxFutureTime
    BY <1>2 DEF NotPoisoned, Buffered, Elems
  <2>1. h \in Header /\ h.end <= nowMuSeconds + MaxFutureTime
    <3>1. h \in Header
      BY DEF TestersInv, Elems, IInv, TypeOK
    <3>2. h \in Buffered(n)
      BY DEF Buffered, Elems
    <3> QED
      BY <3>1, <3>2 DEF TestersInv, NotPoisoned
  <2> QED
    BY <1>1, <2>1, HeaderFields, TestersAssumption
<1> QED
  BY <1>5, <1>6

\* Each step of the tester thread preserves the invariant.
LEMMA StepPreserves ==
  ASSUME TestersInv, TestersNext
  PROVE  TestersInv'
<1>1. /\ IInv /\ LoopTypes /\ LoopInv /\ NotPoisoned
      /\ now \in Nat /\ nowMuSeconds \in Nat
  <2>1. now \in Nat
    BY DEF TestersInv, IInv, TypeOK
  <2>2. nowMuSeconds \in Nat
    BY <2>1, SMT DEF nowMuSeconds
  <2> QED
    BY <2>1, <2>2 DEF TestersInv
<1>2. ASSUME UNCHANGED vars
      PROVE  IInv' /\ NotPoisoned' /\ nowMuSeconds' = nowMuSeconds
  <2>1. now' \in Nat /\ UNCHANGED duplicateVars
    BY <1>1, <1>2 DEF vars, duplicateVars, logVars
  <2>2. IInv'
    BY <1>1, <2>1, ClockKeepsIInv
  <2>3. nowMuSeconds' = nowMuSeconds
    BY <1>2, SMT DEF vars, nowMuSeconds
  <2>4. NotPoisoned'
    BY <1>1, <1>2, <2>3 DEF vars, NotPoisoned, Buffered
  <2> QED
    BY <2>2, <2>3, <2>4
<1>3. CASE \E p \in Packets : Take(p)
  <2>1. PICK p \in Packets : Take(p)
    BY <1>3
  <2>2. IInv' /\ NotPoisoned' /\ nowMuSeconds' = nowMuSeconds
    BY <1>2, <2>1 DEF Take
  <2>3. LoopTypes'
    BY <1>1, <2>1 DEF Take, LoopTypes, clockVars, Steps, packet
  <2>4. LoopInv'
    BY <1>1, <2>1, <2>2 DEF Take, LoopInv
  <2> QED
    BY <2>2, <2>3, <2>4 DEF TestersInv
<1>4. CASE NoFutureTester
  <2>1. IInv' /\ NotPoisoned' /\ nowMuSeconds' = nowMuSeconds
    BY <1>2, <1>4 DEF NoFutureTester
  <2>2. LoopTypes'
    BY <1>1, <1>4 DEF NoFutureTester, LoopTypes, clockVars, Steps, packet
  <2>3. ~allow
    BY <1>1, <1>4 DEF NoFutureTester, LoopInv
  <2>4. LoopInv'
    BY <1>1, <1>4, <2>1, <2>3 DEF NoFutureTester, LoopInv
  <2> QED
    BY <2>1, <2>2, <2>4 DEF TestersInv
<1>5. CASE FutureTestThrows \/ Enqueue
  <2>1. UNCHANGED <<vars, clockVars, testers>> /\ Iterate
    BY <1>5 DEF FutureTestThrows, Enqueue
  <2>2. IInv' /\ NotPoisoned' /\ nowMuSeconds' = nowMuSeconds
    BY <1>2, <2>1
  <2>3. LoopTypes'
    BY <1>1, <2>1 DEF Iterate, LoopTypes, clockVars, Steps
  <2>4. LoopInv'
    BY <1>1, <2>1, <2>2 DEF Iterate, LoopInv
  <2> QED
    BY <2>2, <2>3, <2>4 DEF TestersInv
<1>6. CASE TestFuture
  <2>1. IInv' /\ NotPoisoned' /\ nowMuSeconds' = nowMuSeconds
    BY <1>2, <1>6 DEF TestFuture
  <2>2. /\ step = "future" /\ step' = "expired" /\ Readable(packet)
        /\ allow' = FutureAllows(packet)
        /\ UNCHANGED <<vars, testers, checking, taken>>
    BY <1>6 DEF TestFuture
  <2>3. futureLastLogTime' \in Nat /\ expiredLastLogTime' \in Nat
    BY <1>1, <1>6, LogTimes DEF TestFuture
  <2>4. FutureAllows(packet) \in BOOLEAN
    BY DEF FutureAllows
  <2>5. packet' = packet /\ packet \in Packets
    BY <1>1, <2>2 DEF packet, LoopTypes
  <2>6. LoopTypes'
    BY <1>1, <2>2, <2>3, <2>4, <2>5 DEF LoopTypes, Steps
  <2>7. allow' => FutureAllows(packet)'
    BY <2>1, <2>2, <2>5 DEF FutureAllows
  <2>8. LoopInv'
    BY <1>1, <2>1, <2>2, <2>5, <2>7 DEF LoopInv
  <2> QED
    BY <2>1, <2>6, <2>8 DEF TestersInv
<1>7. CASE NotAsked
  <2>1. IInv' /\ NotPoisoned' /\ nowMuSeconds' = nowMuSeconds
    BY <1>2, <1>7 DEF NotAsked
  <2>2. /\ UNCHANGED <<verdict, testers, checking, taken, allow>>
        /\ packet' = packet /\ FutureAllows(packet)' = FutureAllows(packet)
        /\ \/ step = "expired" /\ ~Asked("expired") /\ step' = "duplicate"
           \/ step = "duplicate" /\ ~Asked("duplicate") /\ step' = "enqueue"
    BY <1>7, <2>1 DEF NotAsked, packet, FutureAllows, vars
  <2>3. LoopTypes'
    BY <1>1, <1>7, <2>2 DEF NotAsked, LoopTypes, clockVars, Steps
  <2>4. LoopInv'
    BY <1>1, <2>1, <2>2 DEF LoopInv, Asked
  <2> QED
    BY <2>1, <2>3, <2>4 DEF TestersInv
<1>8. CASE TestExpired
  <2>1. IInv' /\ NotPoisoned' /\ nowMuSeconds' = nowMuSeconds
    BY <1>2, <1>8 DEF TestExpired
  <2>2. /\ step = "expired" /\ step' = "duplicate" /\ allow
        /\ allow' = ExpiredAllows(packet)
        /\ UNCHANGED <<vars, testers, checking, taken>>
    BY <1>8 DEF TestExpired, Asked
  <2>3. futureLastLogTime' \in Nat /\ expiredLastLogTime' \in Nat
    BY <1>1, <1>8, LogTimes DEF TestExpired
  <2>4. ExpiredAllows(packet) \in BOOLEAN
    BY DEF ExpiredAllows
  <2>5. packet' = packet /\ packet \in Packets /\ packet.start \in Nat
    BY <1>1, <2>2, PacketFields DEF packet, LoopTypes
  <2>6. LoopTypes'
    BY <1>1, <2>2, <2>3, <2>4, <2>5 DEF LoopTypes, Steps
  <2>7. Readable(packet) /\ FutureAllows(packet)'
    BY <1>1, <2>1, <2>2, <2>5 DEF FutureAllows, LoopInv
  <2>8. ExpiredAllows(packet) => packet.start >= taken - MaxExpiredTime
    BY <1>1, <2>5, TestersAssumption DEF ExpiredAllows, LoopInv, LoopTypes
  <2>9. LoopInv'
    BY <1>1, <2>1, <2>2, <2>5, <2>7, <2>8 DEF LoopInv
  <2> QED
    BY <2>1, <2>6, <2>9 DEF TestersInv
<1>9. CASE TestDuplicate
  <2>1. /\ step = "duplicate" /\ step' = "enqueue" /\ allow
        /\ Allow(packet) /\ allow' = verdict'.allow
        /\ UNCHANGED <<clockVars, testers, checking, taken>>
    BY <1>9 DEF TestDuplicate, Asked
  <2>2. packet \in Packets /\ packet' = packet
    BY <1>1, <2>1 DEF LoopTypes, packet
  <2>3. Readable(packet) /\ FutureAllows(packet)
    BY <1>1, <2>1 DEF LoopInv
  <2>4. IInv'
    BY <1>1, <2>1, <2>2, AllowPreserves
  <2>5. now' = now /\ verdict'.packet = packet
    BY <2>1, <2>2, AllowAnswers
  <2>6. nowMuSeconds' = nowMuSeconds /\ FutureAllows(packet)' = FutureAllows(packet)
    <3>1. nowMuSeconds' = nowMuSeconds
      BY <2>5, SMT DEF nowMuSeconds
    <3> QED
      BY <2>2, <3>1 DEF FutureAllows
  <2>7. verdict'.allow \in BOOLEAN
    BY <2>4 DEF IInv, TypeOK
  <2>8. LoopTypes'
    BY <1>1, <2>1, <2>2, <2>7 DEF LoopTypes, clockVars, Steps
  <2>9. LoopInv'
    BY <1>1, <2>1, <2>2, <2>3, <2>5, <2>6 DEF LoopInv
  <2>10. NotPoisoned'
    <3> SUFFICES ASSUME NEW n \in Names, NEW h \in Elems(mCircularBuffers'[n])
                 PROVE  h.end <= nowMuSeconds + MaxFutureTime
      BY <2>6 DEF NotPoisoned, Buffered, Elems
    <3>1. h \in Elems(mCircularBuffers[n]) \/ h = HeaderOf(packet)
      BY <1>1, <2>1, <2>2, <2>3, AllowAdds
    <3>2. CASE h \in Elems(mCircularBuffers[n])
      BY <1>1, <3>2 DEF NotPoisoned, Buffered, Elems
    <3>3. CASE h = HeaderOf(packet)
      BY <2>3, <3>3 DEF HeaderOf, FutureAllows
    <3> QED
      BY <3>1, <3>2, <3>3
  <2> QED
    BY <2>4, <2>8, <2>9, <2>10 DEF TestersInv
<1>10. CASE ClockTick
  <2>1. /\ now' = now + 1
        /\ UNCHANGED <<duplicateVars, clockVars, loopVars>>
    BY <1>10 DEF ClockTick, Tick, duplicateVars, logVars
  <2>2. now' \in Nat /\ now <= now'
    BY <1>1, <2>1
  <2>3. IInv'
    BY <1>1, <2>1, <2>2, ClockKeepsIInv
  <2>4. LoopTypes'
    BY <1>1, <2>1 DEF LoopTypes, clockVars, loopVars, packet
  <2>5. LoopInv' /\ NotPoisoned'
    BY <2>1, <2>2, ClockKeepsLoop
  <2> QED
    BY <2>3, <2>4, <2>5 DEF TestersInv
<1> QED
  BY <1>3, <1>4, <1>5, <1>6, <1>7, <1>8, <1>9, <1>10 DEF TestersNext

\* The invariant holds initially and in every step.
THEOREM TestersInvariance == TestersSpec => []TestersInv
<1>1. TestersInit => TestersInv
  <2> SUFFICES ASSUME TestersInit PROVE TestersInv
    OBVIOUS
  <2>1. IInv
    BY InitGood DEF TestersInit
  <2>2. LoopTypes
    BY DEF TestersInit, LoopTypes, Steps
  <2>3. LoopInv
    <3>1. now \in Nat
      BY ClockAssumption DEF TestersInit, Init
    <3>2. 0 <= nowMuSeconds
      BY <3>1, SMT DEF nowMuSeconds
    <3> QED
      BY <3>2 DEF TestersInit, LoopInv
  <2>4. NotPoisoned
    BY DEF TestersInit, Init, NotPoisoned, Buffered
  <2> QED
    BY <2>1, <2>2, <2>3, <2>4 DEF TestersInv
<1>2. TestersInv /\ [TestersNext]_testersVars => TestersInv'
  <2> SUFFICES ASSUME TestersInv, UNCHANGED testersVars PROVE TestersInv'
    BY StepPreserves
  <2>1. UNCHANGED <<duplicateVars, now, clockVars, loopVars>>
    BY DEF testersVars, vars, duplicateVars, logVars
  <2>2. now \in Nat /\ now' = now
    BY <2>1 DEF TestersInv, IInv, TypeOK
  <2>3. IInv'
    BY <2>1, <2>2, ClockKeepsIInv DEF TestersInv
  <2>4. LoopTypes'
    BY <2>1 DEF TestersInv, LoopTypes, clockVars, loopVars, packet
  <2>5. LoopInv' /\ NotPoisoned'
    BY <2>1, <2>2, ClockKeepsLoop
  <2> QED
    BY <2>3, <2>4, <2>5 DEF TestersInv
<1> QED
  BY <1>1, <1>2, PTL DEF TestersSpec

\* A packet from a clock that runs ahead leaves no trace in the duplicate
\* tester's buffers, whichever testers are enabled and however the clock moves.
THEOREM FutureLeavesNoTrace == TestersSpec => []NotPoisoned
  BY TestersInvariance, PTL DEF TestersInv

\* What checkPackets() passes on meets every enabled tester.
THEOREM PassedPacketsMeetAll == TestersSpec => []PassedMeetsAll
<1>1. TestersInv => PassedMeetsAll
  BY DEF TestersInv, LoopInv, PassedMeetsAll
<1> QED
  BY <1>1, TestersInvariance, PTL

\* The testers are callers of the duplicate test like any other: what they do to
\* it is a behaviour of DuplicateTest.
THEOREM TestersCallDuplicateTest == TestersSpec => Spec
<1>1. TestersInit => Init
  BY DEF TestersInit
<1>2. TestersInv /\ [TestersNext]_testersVars => [Next]_vars
  <2> SUFFICES ASSUME TestersInv, [TestersNext]_testersVars PROVE [Next]_vars
    OBVIOUS
  <2>1. CASE TestDuplicate
    <3>1. packet \in Packets /\ Allow(packet)
      BY <2>1 DEF TestDuplicate, TestersInv, LoopTypes
    <3> QED
      BY <3>1 DEF Next
  <2>2. CASE ClockTick
    BY <2>2 DEF ClockTick, Next
  <2>3. CASE \/ \E p \in Packets : Take(p)
             \/ NoFutureTester \/ FutureTestThrows \/ TestFuture
             \/ NotAsked \/ TestExpired \/ Enqueue \/ UNCHANGED testersVars
    BY <2>3 DEF Take, NoFutureTester, FutureTestThrows, TestFuture, NotAsked,
                TestExpired, Enqueue, testersVars
  <2> QED
    BY <2>1, <2>2, <2>3 DEF TestersNext
<1> QED
  BY <1>1, <1>2, TestersInvariance, PTL DEF TestersSpec, Spec

\* Behind the other testers, too, the duplicate tester's buffers are ordered, of
\* one rate, free of copies and of overlaps but for spanned ones, and large enough.
THEOREM DuplicateTestBehindTesters ==
  TestersSpec => [](/\ Sorted /\ OneRate /\ NoTwins
                    /\ OverlapsOnlySpanning /\ SpansDuration)
  BY TestersCallDuplicateTest, SortedBuffers, SingleRate, NoCopiesBuffered,
     OverlapsAreSpans, CapacitySuffices, PTL

\* A log that nobody calls takes no step.
LEMMA QuietLog ==
  ASSUME NEW channels, NEW last
  PROVE  LogStep(FALSE, channels, channels, last, last)
  BY DEF LogStep

\* logBadData() of the future and expired testers.
LEMMA FlagStep ==
  ASSUME now \in Nat, NEW channels, NEW last \in Nat, NEW p, NEW good \in BOOLEAN
  PROVE  LET flagged == Flagged(channels, p, good)
         IN  \A called \in BOOLEAN :
                 LogStep(called, channels, Unreported(flagged, last),
                         last, Reported(flagged, last))
<1> DEFINE flagged == Flagged(channels, p, good)
<1>1. channels \subseteq flagged /\ (~mLogBadData => flagged = channels)
  BY DEF Flagged
<1> HIDE DEF flagged
<1>2. CASE Due(last)
  <2>1. now >= last + LogBadDataInterval
    BY <1>2 DEF Due
  <2> QED
    BY <1>1, <1>2, <2>1 DEF LogStep, Unreported, Reported, flagged
<1>3. CASE ~Due(last)
  <2>1. Unreported(flagged, last) = flagged /\ Reported(flagged, last) = last
    BY <1>3 DEF Unreported, Reported
  <2>2. ~(mLogBadData /\ now >= last + LogBadDataInterval)
    BY <1>3 DEF Due
  <2> QED
    BY <1>1, <2>1, <2>2 DEF LogStep, flagged
<1> QED
  BY <1>2, <1>3

\* logBadData() of the duplicate tester: both sets under one reading of the time.
LEMMA LogBadDataStep ==
  ASSUME now \in Nat, mLastLogTime \in Nat, NEW d, NEW s, NEW called \in BOOLEAN,
         mDuplicateChannels \subseteq d, mBadTimingChannels \subseteq s,
         ~mLogBadData => d = mDuplicateChannels /\ s = mBadTimingChannels,
         LogBadData(d, s)
  PROVE  /\ LogStep(called, mDuplicateChannels, mDuplicateChannels',
                    mLastLogTime, mLastLogTime')
         /\ LogStep(called, mBadTimingChannels, mBadTimingChannels',
                    mLastLogTime, mLastLogTime')
<1> DEFINE due == mLogBadData /\ now >= mLastLogTime + LogBadDataInterval
<1>1. CASE due
  <2>1. /\ mDuplicateChannels' = {} /\ mBadTimingChannels' = {}
        /\ mLastLogTime' = IF d # {} \/ s # {} THEN now ELSE mLastLogTime
        /\ now >= mLastLogTime + LogBadDataInterval
    BY <1>1 DEF LogBadData
  <2> QED
    BY <2>1 DEF LogStep
<1>2. CASE ~due
  <2>1. /\ mDuplicateChannels' = d /\ mBadTimingChannels' = s
        /\ mLastLogTime' = mLastLogTime
    BY <1>2 DEF LogBadData
  <2> QED
    BY <1>2, <2>1 DEF LogStep
<1> QED
  BY <1>1, <1>2

\* Every branch of the duplicate tester's allow() ends with its log, but for the
\* one that rejects a packet without samples.
LEMMA AllowLogs ==
  ASSUME now \in Nat, mLastLogTime \in Nat, NEW p \in Packets, Allow(p),
         NEW called \in BOOLEAN, called => Readable(p)
  PROVE  /\ LogStep(called, mDuplicateChannels, mDuplicateChannels',
                    mLastLogTime, mLastLogTime')
         /\ LogStep(called, mBadTimingChannels, mBadTimingChannels',
                    mLastLogTime, mLastLogTime')
<1> DEFINE D == IF mLogBadData THEN mDuplicateChannels \cup {p.name}
                               ELSE mDuplicateChannels
           B == IF mLogBadData THEN mBadTimingChannels \cup {p.name}
                               ELSE mBadTimingChannels
<1>1. CASE Unreadable(p)
  <2>1. called = FALSE
    BY <1>1 DEF Unreadable
  <2> QED
    BY <1>1, <2>1, QuietLog DEF Unreadable, logVars
<1>2. CASE LogBadData(mDuplicateChannels, mBadTimingChannels)
  BY <1>2, LogBadDataStep
<1>3. CASE LogBadData(D, mBadTimingChannels)
  BY <1>3, LogBadDataStep
<1>4. CASE LogBadData(mDuplicateChannels, B)
  BY <1>4, LogBadDataStep
<1>5. \/ Unreadable(p)
      \/ LogBadData(mDuplicateChannels, mBadTimingChannels)
      \/ LogBadData(D, mBadTimingChannels)
      \/ LogBadData(mDuplicateChannels, B)
  BY DEF Allow, NewChannel, CompareThrows, Duplicate, Newest, Oldest, TimingSlip,
         BackFill
<1> QED
  BY <1>1, <1>2, <1>3, <1>4, <1>5

\* In each tester the first packet tested after the interval has the flags
\* reported, no report comes early and no flag is dropped without one.
THEOREM FlagsReportedInTime == TestersSpec => FlagsReportedWhenDue
<1> DEFINE
      FutureStep(c) == LogStep(c, mFutureChannels, mFutureChannels',
                               futureLastLogTime, futureLastLogTime')
      ExpiredStep(c) == LogStep(c, mExpiredChannels, mExpiredChannels',
                                expiredLastLogTime, expiredLastLogTime')
      DuplicateSteps(c) == /\ LogStep(c, mDuplicateChannels, mDuplicateChannels',
                                      mLastLogTime, mLastLogTime')
                           /\ LogStep(c, mBadTimingChannels, mBadTimingChannels',
                                      mLastLogTime, mLastLogTime')
      Asks == {"future", "expired", "duplicate"}
      LogSteps == /\ FutureStep(Calls("future"))
                  /\ ExpiredStep(Calls("expired"))
                  /\ DuplicateSteps(Calls("duplicate"))
<1>1. ASSUME TestersInv, TestersNext
      PROVE  LogSteps
  <2>1. /\ now \in Nat /\ mLastLogTime \in Nat
        /\ futureLastLogTime \in Nat /\ expiredLastLogTime \in Nat
    BY <1>1 DEF TestersInv, IInv, TypeOK, LoopTypes
  <2>2. \A t : Calls(t) \in BOOLEAN
    BY DEF Calls
  <2>3. UNCHANGED <<mFutureChannels, futureLastLogTime>> /\ Calls("future") = FALSE
        => FutureStep(Calls("future"))
    BY QuietLog, Zenon
  <2>4. UNCHANGED <<mExpiredChannels, expiredLastLogTime>>
        /\ Calls("expired") = FALSE => ExpiredStep(Calls("expired"))
    BY QuietLog, Zenon
  <2>5. UNCHANGED logVars /\ Calls("duplicate") = FALSE
        => DuplicateSteps(Calls("duplicate"))
    BY QuietLog, Zenon DEF logVars
  <2>6. UNCHANGED vars => UNCHANGED logVars
    BY DEF vars, logVars
  <2>7. CASE TestFuture
    <3>1. FutureLog(packet, FutureAllows(packet)) /\ UNCHANGED vars
      BY <2>7 DEF TestFuture
    <3>2. FutureAllows(packet) \in BOOLEAN
      BY DEF FutureAllows
    <3>3. Calls("expired") = FALSE /\ Calls("duplicate") = FALSE
      BY <2>7 DEF TestFuture, Calls
    <3>4. FutureStep(Calls("future"))
      BY <2>1, <2>2, <3>1, <3>2, FlagStep DEF FutureLog
    <3>5. ExpiredStep(Calls("expired"))
      BY <2>4, <3>1, <3>3 DEF FutureLog
    <3> QED
      BY <2>5, <2>6, <3>1, <3>3, <3>4, <3>5
  <2>8. CASE TestExpired
    <3>1. ExpiredLog(packet, ExpiredAllows(packet)) /\ UNCHANGED vars
      BY <2>8 DEF TestExpired
    <3>2. ExpiredAllows(packet) \in BOOLEAN
      BY DEF ExpiredAllows
    <3>3. Calls("future") = FALSE /\ Calls("duplicate") = FALSE
      BY <2>8 DEF TestExpired, Calls
    <3>4. ExpiredStep(Calls("expired"))
      BY <2>1, <2>2, <3>1, <3>2, FlagStep DEF ExpiredLog
    <3>5. FutureStep(Calls("future"))
      BY <2>3, <3>1, <3>3 DEF ExpiredLog
    <3> QED
      BY <2>5, <2>6, <3>1, <3>3, <3>4, <3>5
  <2>9. CASE TestDuplicate
    <3>1. packet \in Packets /\ Allow(packet) /\ UNCHANGED clockVars
      BY <1>1, <2>9 DEF TestDuplicate, TestersInv, LoopTypes
    <3>2. Calls("future") = FALSE /\ Calls("expired") = FALSE
      BY <2>9 DEF TestDuplicate, Calls
    <3>3. Calls("duplicate") => Readable(packet)
      BY DEF Calls
    <3>4. DuplicateSteps(Calls("duplicate"))
      BY <2>1, <2>2, <3>1, <3>3, AllowLogs
    <3> QED
      BY <2>3, <2>4, <3>1, <3>2, <3>4 DEF clockVars
  <2>10. CASE UNCHANGED <<logVars, clockVars>> /\ \A t \in Asks : Calls(t) = FALSE
    BY <2>3, <2>4, <2>5, <2>10 DEF clockVars
  <2>11. CASE \/ \E p \in Packets : Take(p)
              \/ NoFutureTester \/ FutureTestThrows \/ NotAsked \/ Enqueue
    <3>1. UNCHANGED <<vars, clockVars>>
      BY <2>11 DEF Take, NoFutureTester, FutureTestThrows, NotAsked, Enqueue
    <3>2. ASSUME NEW t \in Asks PROVE Calls(t) = FALSE
      BY <2>11 DEF Take, NoFutureTester, FutureTestThrows, NotAsked, Enqueue,
                   Asked, Calls
    <3> QED
      BY <2>6, <2>10, <3>1, <3>2
  <2>12. CASE ClockTick
    <3>1. UNCHANGED <<logVars, clockVars>>
      BY <2>12 DEF ClockTick, Tick
    <3>2. \A t \in Asks : Calls(t) = FALSE
      BY <2>12 DEF ClockTick, loopVars, Calls
    <3> QED
      BY <2>10, <3>1, <3>2
  <2> QED
    BY <1>1, <2>7, <2>8, <2>9, <2>11, <2>12 DEF TestersNext
<1>2. TestersInv /\ [TestersNext]_testersVars => [LogSteps]_testersVars
  BY <1>1
<1> QED
  BY <1>2, TestersInvariance, PTL DEF TestersSpec, FlagsReportedWhenDue
===========================================================================
