------------------------------ MODULE Testers ------------------------------
(***************************************************************************)
(* The three testers as checkPackets() of the sanitizer asks them, packet  *)
(* by packet: future data, expired data, duplicates (DuplicateTest).  Each *)
(* tester reads the clock for itself, so that time passes between them.    *)
(* The clock advances by whole seconds and never goes back; packet times   *)
(* are in microseconds.                                                    *)
(***************************************************************************)
EXTENDS DuplicateTest

CONSTANTS
    MaxFutureTime,     \* mMaxFutureTime, in microseconds
    MaxExpiredTime     \* mMaxExpiredTime, in microseconds

ASSUME TestersAssumption ==
    /\ MaxFutureTime \in Nat
    /\ MaxExpiredTime \in Nat \ {0}

VARIABLES
    testers,              \* the testers that the options asked for
    step,                 \* where the tester thread is in its loop
    checking,             \* the packet it has dequeued: at most one
    taken,                \* history: when it was dequeued, in microseconds
    allow,
    mFutureChannels,      \* channels with future data since the last log
    futureLastLogTime,
    mExpiredChannels,     \* channels with expired data since the last log
    expiredLastLogTime

duplicateVars == <<mCircularBuffers, capacity, logVars, verdict, seen>>
clockVars == <<mFutureChannels, futureLastLogTime, mExpiredChannels,
               expiredLastLogTime>>
loopVars == <<testers, step, checking, taken, allow>>
testersVars == <<vars, clockVars, loopVars>>

packet == checking[1]
---------------------------------------------------------------------------
(***************************************************************************)
(* TestFutureDataPacket and TestExpiredDataPacket.                         *)
(***************************************************************************)
nowMuSeconds == now * 1000000

\* Mutant: the first sample is tested instead of the last one.
FutureAllowsByStart(p) == p.start <= nowMuSeconds + MaxFutureTime

FutureAllows(p) == EndTime(p) <= nowMuSeconds + MaxFutureTime

ExpiredAllows(p) == p.start >= nowMuSeconds - MaxExpiredTime

Due(lastLogTime) == mLogBadData /\ now >= lastLogTime + LogBadDataInterval

\* logBadData() for either tester: a channel with bad data joins the set, and
\* a set that is due is reported and emptied.
Flagged(channels, p, good) ==
    IF good \/ ~mLogBadData THEN channels ELSE channels \cup {p.name}
Unreported(channels, lastLogTime) == IF Due(lastLogTime) THEN {} ELSE channels

Reported(channels, lastLogTime) ==
    IF Due(lastLogTime) /\ channels # {} THEN now ELSE lastLogTime

FutureLog(p, good) ==
    LET flagged == Flagged(mFutureChannels, p, good)
    IN  /\ mFutureChannels' = Unreported(flagged, futureLastLogTime)
        /\ futureLastLogTime' = Reported(flagged, futureLastLogTime)
        /\ UNCHANGED <<mExpiredChannels, expiredLastLogTime>>

ExpiredLog(p, good) ==
    LET flagged == Flagged(mExpiredChannels, p, good)
    IN  /\ mExpiredChannels' = Unreported(flagged, expiredLastLogTime)
        /\ expiredLastLogTime' = Reported(flagged, expiredLastLogTime)
        /\ UNCHANGED <<mFutureChannels, futureLastLogTime>>
---------------------------------------------------------------------------
(***************************************************************************)
(* checkPackets().                                                         *)
(***************************************************************************)
\* The body of the loop ends, and with it the life of packet and allow.
Iterate ==
    /\ step' = "take"
    /\ checking' = <<>>
    /\ taken' = 0
    /\ allow' = FALSE

Take(p) ==
    /\ step = "take"
    /\ checking' = <<p>>
    /\ taken' = nowMuSeconds
    /\ allow' = FALSE
    /\ step' = "future"
    /\ UNCHANGED <<vars, clockVars, testers>>

\* There is no such tester: allow stays false.
NoFutureTester ==
    /\ step = "future"
    /\ "future" \notin testers
    /\ step' = "expired"
    /\ UNCHANGED <<vars, clockVars, testers, checking, taken, allow>>

\* getEndTime() throws: checkPackets() catches it and drops the packet.
FutureTestThrows ==
    /\ step = "future"
    /\ "future" \in testers
    /\ ~Readable(packet)
    /\ Iterate
    /\ UNCHANGED <<vars, clockVars, testers>>

TestFuture ==
    /\ step = "future"
    /\ "future" \in testers
    /\ Readable(packet)
    /\ allow' = FutureAllows(packet)
    /\ FutureLog(packet, FutureAllows(packet))
    /\ step' = "expired"
    /\ UNCHANGED <<vars, testers, checking, taken>>

\* Mutant: the answer of the future tester is not asked for.
AsksAnyway(t) == t \in testers

\* A later tester exists and is asked: the earlier ones allowed the packet.
Asked(t) == allow /\ t \in testers

NotAsked ==
    /\ \/ step = "expired" /\ ~Asked("expired") /\ step' = "duplicate"
       \/ step = "duplicate" /\ ~Asked("duplicate") /\ step' = "enqueue"
    /\ UNCHANGED <<vars, clockVars, testers, checking, taken, allow>>

TestExpired ==
    /\ step = "expired"
    /\ Asked("expired")
    /\ allow' = ExpiredAllows(packet)
    /\ ExpiredLog(packet, ExpiredAllows(packet))
    /\ step' = "duplicate"
    /\ UNCHANGED <<vars, testers, checking, taken>>

TestDuplicate ==
    /\ step = "duplicate"
    /\ Asked("duplicate")
    /\ Allow(packet)
    /\ allow' = verdict'.allow
    /\ step' = "enqueue"
    /\ UNCHANGED <<clockVars, testers, checking, taken>>

\* try_enqueue of a packet that is allowed (the queue is part of Sanitizer).
Enqueue ==
    /\ step = "enqueue"
    /\ Iterate
    /\ UNCHANGED <<vars, clockVars, testers>>

ClockTick == Tick /\ UNCHANGED <<clockVars, loopVars>>

\* Each option switches one tester on.
TestersInit ==
    /\ Init
    /\ testers \in SUBSET {"future", "expired", "duplicate"}
    /\ step = "take"
    /\ checking = <<>>
    /\ taken = 0
    /\ allow = FALSE
    /\ mFutureChannels = {}
    /\ futureLastLogTime = 0
    /\ mExpiredChannels = {}
    /\ expiredLastLogTime = 0

TestersNext ==
    \/ \E p \in Packets : Take(p)
    \/ NoFutureTester \/ FutureTestThrows \/ TestFuture
    \/ NotAsked
    \/ TestExpired \/ TestDuplicate
    \/ Enqueue
    \/ ClockTick

TestersSpec == TestersInit /\ [][TestersNext]_testersVars
---------------------------------------------------------------------------
\* No header in a circular buffer lies in the future: a packet from a clock
\* that runs ahead is refused before the duplicate tester could record it, so
\* it can neither push out the channel's history nor make the true packets
\* that follow look old.
NotPoisoned ==
    \A n \in Names : \A h \in Buffered(n) :
        h.end <= nowMuSeconds + MaxFutureTime

\* Whichever testers the options enable, a packet that is passed on is not
\* from the future (without a future tester nothing is passed on), had not
\* expired when it was taken, and was allowed by the duplicate tester.
PassedMeetsAll ==
    step = "enqueue" /\ allow =>
        /\ FutureAllows(packet)
        /\ "expired" \in testers => packet.start >= taken - MaxExpiredTime
        /\ "duplicate" \in testers => verdict.packet = packet /\ verdict.allow

\* A step of one log, in which its tester may be called: a call that finds the
\* interval over leaves no flag, a report comes no sooner than an interval after
\* the last one and empties the set, and nothing but a report empties it.
LogStep(called, channels, channelsNext, last, lastNext) ==
    /\ called /\ mLogBadData /\ now >= last + LogBadDataInterval
       => channelsNext = {}
    /\ lastNext # last => /\ now >= last + LogBadDataInterval
                          /\ channelsNext = {}
    /\ channels # {} /\ channelsNext = {} => lastNext = now

\* The step asks a tester about the packet and the tester gets to its log.
Calls(t) == /\ step = t /\ step' # step /\ t \in testers
            /\ t = "future" \/ allow
            /\ t = "expired" \/ Readable(packet)

\* In each of the three testers the first packet that is tested after the
\* interval is over has every waiting flag reported (until such a packet comes,
\* flags wait), no report comes sooner, and no flag is dropped without one; the
\* two sets of the duplicate tester go out under one reading of its time.
FlagsReportedWhenDue ==
    [][/\ LogStep(Calls("future"), mFutureChannels, mFutureChannels',
                  futureLastLogTime, futureLastLogTime')
       /\ LogStep(Calls("expired"), mExpiredChannels, mExpiredChannels',
                  expiredLastLogTime, expiredLastLogTime')
       /\ LogStep(Calls("duplicate"), mDuplicateChannels, mDuplicateChannels',
                  mLastLogTime, mLastLogTime')
       /\ LogStep(Calls("duplicate"), mBadTimingChannels, mBadTimingChannels',
                  mLastLogTime, mLastLogTime')]_testersVars
===========================================================================
