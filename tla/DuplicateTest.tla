--------------------------- MODULE DuplicateTest ---------------------------
(***************************************************************************)
(* TestDuplicateDataPacket: the tester that decides whether a data packet  *)
(* has been processed before.  Every channel has a circular buffer of the  *)
(* headers of recent packets; allow() compares a packet with the buffer of *)
(* its channel, records it where it belongs and answers whether it may be  *)
(* propagated.  Times are in microseconds, sampling rates in tenths of a   *)
(* hertz, the log's clock in seconds.                                      *)
(***************************************************************************)
EXTENDS Integers, Sequences, FiniteSets

CONSTANTS
    Packets,                  \* the packets that may arrive
    Names,                    \* the channels, NETWORK.STATION.CHANNEL.LOCATION
    EstimateCapacity,         \* mEstimateCapacity: which constructor was used
    CircularBufferSize,       \* mCircularBufferSize, when capacity is given
    CircularBufferDuration,   \* mCircularBufferDuration, when it is estimated
    LogBadDataInterval,       \* mLogBadDataInterval; negative: never log
    StartTime, MaxTime        \* bounds of the wall clock

Packet == [name: Names, start: Nat, rate: Nat \ {0}, nSamples: Nat]

ASSUME PacketsAssumption == Packets # {} /\ Packets \subseteq Packet
ASSUME CapacityAssumption ==
    /\ EstimateCapacity \in BOOLEAN
    /\ CircularBufferSize \in Nat \ {0}
    /\ CircularBufferDuration \in Nat \ {0}
ASSUME ClockAssumption ==
    /\ LogBadDataInterval \in Int
    /\ StartTime \in Nat /\ MaxTime \in Nat
    /\ LogBadDataInterval <= StartTime /\ StartTime <= MaxTime

VARIABLES
    mCircularBuffers,     \* headers of each channel; <<>>: no buffer yet
    capacity,             \* capacity of each channel's circular buffer
    mDuplicateChannels,   \* channels with a duplicate since the last log
    mBadTimingChannels,   \* channels with a timing slip since the last log
    mLastLogTime,
    now,                  \* the wall clock
    verdict,              \* the last call: its packet and what it returned
    seen                  \* history: headers ever put into a buffer

logVars == <<mDuplicateChannels, mBadTimingChannels, mLastLogTime>>
vars == <<mCircularBuffers, capacity, mDuplicateChannels, mBadTimingChannels,
          mLastLogTime, now, verdict, seen>>
---------------------------------------------------------------------------
(***************************************************************************)
(* Headers.                                                                *)
(***************************************************************************)

\* std::round(x/y) for x >= 0 and y > 0.
RoundDiv(x, y) == (2 * x + y) \div (2 * y)

\* DataPacketImpl::updateEndTime: the time of the last sample.
EndTime(p) == p.start + RoundDiv((p.nSamples - 1) * 10000000, p.rate)

\* The DataPacketHeader constructor throws on a packet without samples.
Readable(p) == p.nSamples > 0

HeaderOf(p) == [start |-> p.start, end |-> EndTime(p),
                rate |-> RoundDiv(p.rate, 10), nSamples |-> p.nSamples]

Header == [start: Nat, end: Nat, rate: Nat, nSamples: Nat \ {0}]

\* How far apart the start times of a packet and its copy may be.
Tolerance(rate) == IF rate < 105 THEN 15000
                   ELSE IF rate < 255 THEN 4500
                   ELSE IF rate < 505 THEN 2500
                   ELSE 1500

\* Mutant: inconsistent rates no longer throw (the line commented out at 61).
EqThrowsOnClassOnly(a, h) == a.nSamples = h.nSamples /\ h.rate >= 1005

\* operator== throws: the rates differ, or the rate is in no class.
EqThrows(a, h) == \/ a.rate # h.rate
                  \/ a.nSamples = h.nSamples /\ h.rate >= 1005

\* operator== returns true.
Same(a, h) == /\ ~EqThrows(a, h)
              /\ a.nSamples = h.nSamples
              /\ a.start - h.start < Tolerance(h.rate)
              /\ h.start - a.start < Tolerance(h.rate)

\* std::find compares from the front until a header is equal or == throws.
FindThrows(b, h) == \E i \in 1..Len(b) :
                        /\ EqThrows(b[i], h)
                        /\ \A j \in 1..(i - 1) : ~Same(b[j], h)
\* Mutant: only the newest header is compared.
FindsAtBack(b, h) == b # <<>> /\ Same(b[Len(b)], h)
Finds(b, h) == \E i \in 1..Len(b) :
                   /\ Same(b[i], h)
                   /\ \A j \in 1..(i - 1) : ~EqThrows(b[j], h)

(***************************************************************************)
(* The circular buffer (boost::circular_buffer).                           *)
(***************************************************************************)
Full(b, c) == Len(b) = c

\* Mutant: the buffer grows instead of overwriting its front.
PushBackGrows(b, c, h) == Append(b, h)

\* push_back on a full buffer overwrites the front.
PushBack(b, c, h) == Append(IF Full(b, c) THEN Tail(b) ELSE b, h)

\* Mutant: the sort after a back-fill is forgotten.
UnsortedPlaces(s, h) == {Len(s)}

\* Where std::sort moves a header that was pushed behind the sorted s.
SortedPlaces(s, h) ==
    {k \in 0..Len(s) : /\ \A i \in 1..k : s[i].start < h.start
                       /\ \A i \in (k + 1)..Len(s) : h.start <= s[i].start}
Insert(s, k, h) == [i \in 1..(Len(s) + 1) |-> IF i <= k THEN s[i]
                                              ELSE IF i = k + 1 THEN h
                                              ELSE s[i - 1]]

\* Mutant: the sampling rate is forgotten in the duration of a packet.
EstimatesInSamples(h) ==
    {IF h.nSamples < 2 THEN 11
     ELSE LET packets == (3 * CircularBufferDuration) \div (2 * (h.nSamples - 1))
          IN  (IF packets < 10 THEN 10 ELSE packets) + 1}

\* estimateCapacity.  A packet shorter than half a second has duration 0 and
\* the conversion of the infinite quotient to int is undefined: it yields
\* INT_MIN (capacity 11), or INT_MAX, whose successor is a length the buffer's
\* constructor refuses with an exception (written 0).
Estimates(h) ==
    LET duration == RoundDiv(h.nSamples - 1, IF h.rate < 1 THEN 1 ELSE h.rate)
        packets == (3 * CircularBufferDuration) \div (2 * duration)
    IN  IF duration = 0 THEN {0, 11}
        ELSE {(IF packets < 10 THEN 10 ELSE packets) + 1}

Capacities(h) == IF EstimateCapacity THEN Estimates(h)
                                     ELSE {CircularBufferSize}
---------------------------------------------------------------------------
(***************************************************************************)
(* allow().  Each branch ends with logBadData() and a verdict.             *)
(***************************************************************************)
mLogBadData == LogBadDataInterval >= 0

\* Mutant: the interval is tested again after the duplicates were logged.
LogBadDataTwice(duplicates, slips) ==
    LET due == mLogBadData /\ now >= mLastLogTime + LogBadDataInterval
    IN  /\ mDuplicateChannels' = IF due THEN {} ELSE duplicates
        /\ mBadTimingChannels' = IF due /\ duplicates = {} THEN {} ELSE slips
        /\ mLastLogTime' = IF due /\ (duplicates # {} \/ slips # {})
                           THEN now ELSE mLastLogTime

\* logBadData(), called with the sets as the check has left them.
LogBadData(duplicates, slips) ==
    LET due == mLogBadData /\ now >= mLastLogTime + LogBadDataInterval
    IN  /\ mDuplicateChannels' = IF due THEN {} ELSE duplicates
        /\ mBadTimingChannels' = IF due THEN {} ELSE slips
        /\ mLastLogTime' = IF due /\ (duplicates # {} \/ slips # {})
                           THEN now ELSE mLastLogTime

CopyIn(h, headers) == \E g \in headers : Same(g, h) \/ g = h

\* What allow() returns for p, and whether a copy of p was ever recorded in
\* the buffer.
Return(p, allow) ==
    /\ verdict' = [packet |-> p, allow |-> allow,
                   recorded |-> CopyIn(HeaderOf(p), seen[p.name])]
    /\ UNCHANGED now

\* The buffer of p's channel becomes b, which now holds p's header.
Store(p, b) ==
    /\ mCircularBuffers' = [mCircularBuffers EXCEPT ![p.name] = b]
    /\ seen' = [seen EXCEPT ![p.name] = @ \cup {HeaderOf(p)}]

KeepBuffers == UNCHANGED <<mCircularBuffers, capacity, seen>>

\* No header can be built: rejected before anything is looked at or logged.
Unreadable(p) ==
    /\ ~Readable(p)
    /\ verdict' = [packet |-> p, allow |-> FALSE, recorded |-> FALSE]
    /\ UNCHANGED <<mCircularBuffers, capacity, logVars, now, seen>>

\* The first packet of a channel makes its buffer.  If that throws (0), there is
\* none; the exception, too, leaves the packet allowed.
NewChannel(p) ==
    /\ Readable(p)
    /\ mCircularBuffers[p.name] = <<>>
    /\ \E c \in Capacities(HeaderOf(p)) :
           IF c = 0 THEN KeepBuffers
           ELSE /\ capacity' = [capacity EXCEPT ![p.name] = c]
                /\ Store(p, <<HeaderOf(p)>>)
    /\ Return(p, TRUE)
    /\ LogBadData(mDuplicateChannels, mBadTimingChannels)

\* The comparison throws: the exception leaves the packet allowed.
CompareThrows(p) ==
    LET b == mCircularBuffers[p.name] IN
    /\ Readable(p)
    /\ FindThrows(b, HeaderOf(p))
    /\ KeepBuffers
    /\ Return(p, TRUE)
    /\ LogBadData(mDuplicateChannels, mBadTimingChannels)

Duplicate(p) ==
    LET b == mCircularBuffers[p.name] IN
    /\ Readable(p)
    /\ Finds(b, HeaderOf(p))
    /\ KeepBuffers
    /\ Return(p, FALSE)
    /\ LogBadData(IF mLogBadData THEN mDuplicateChannels \cup {p.name}
                                 ELSE mDuplicateChannels, mBadTimingChannels)

\* The channel has a buffer, and no header in it equals p's.
Unknown(p) ==
    LET b == mCircularBuffers[p.name] IN
    /\ Readable(p)
    /\ b # <<>>
    /\ ~FindThrows(b, HeaderOf(p))
    /\ ~Finds(b, HeaderOf(p))

Newer(b, h) == h.start > b[Len(b)].end
Older(b, h) == h.end < b[1].start

\* Mutant: only the start of a late packet is looked up.
SlipsAtStart(b, h) == \E i \in 1..Len(b) :
                          b[i].start <= h.start /\ h.start <= b[i].end

\* The GPS slip test: an end of h lies within a buffered header.
Slips(b, h) == \E i \in 1..Len(b) :
                   \/ b[i].start <= h.start /\ h.start <= b[i].end
                   \/ b[i].start <= h.end /\ h.end <= b[i].end

Newest(p) ==
    LET b == mCircularBuffers[p.name]
        h == HeaderOf(p) IN
    /\ Unknown(p)
    /\ Newer(b, h)
    /\ Store(p, PushBack(b, capacity[p.name], h))
    /\ UNCHANGED capacity
    /\ Return(p, TRUE)
    /\ LogBadData(mDuplicateChannels, mBadTimingChannels)

\* Older than everything held: kept when there is room, and always rejected.
Oldest(p) ==
    LET b == mCircularBuffers[p.name]
        h == HeaderOf(p) IN
    /\ Unknown(p)
    /\ ~Newer(b, h)
    /\ Older(b, h)
    /\ IF Full(b, capacity[p.name])
       THEN UNCHANGED <<mCircularBuffers, seen>>
       ELSE Store(p, <<h>> \o b)
    /\ UNCHANGED capacity
    /\ Return(p, FALSE)
    /\ LogBadData(mDuplicateChannels, mBadTimingChannels)

TimingSlip(p) ==
    LET b == mCircularBuffers[p.name]
        h == HeaderOf(p) IN
    /\ Unknown(p)
    /\ ~Newer(b, h)
    /\ ~Older(b, h)
    /\ Slips(b, h)
    /\ KeepBuffers
    /\ Return(p, FALSE)
    /\ LogBadData(mDuplicateChannels,
                  IF mLogBadData THEN mBadTimingChannels \cup {p.name}
                                 ELSE mBadTimingChannels)

\* push_back, which drops the front of a full buffer, and then the sort.
BackFill(p) ==
    LET b == mCircularBuffers[p.name]
        h == HeaderOf(p)
        s == IF Full(b, capacity[p.name]) THEN Tail(b) ELSE b IN
    /\ Unknown(p)
    /\ ~Newer(b, h)
    /\ ~Older(b, h)
    /\ ~Slips(b, h)
    /\ \E k \in SortedPlaces(s, h) : Store(p, Insert(s, k, h))
    /\ UNCHANGED capacity
    /\ Return(p, TRUE)
    /\ LogBadData(mDuplicateChannels, mBadTimingChannels)

Allow(p) ==
    \/ Unreadable(p)
    \/ NewChannel(p)
    \/ CompareThrows(p)
    \/ Duplicate(p)
    \/ Newest(p)
    \/ Oldest(p)
    \/ TimingSlip(p)
    \/ BackFill(p)

Tick ==
    /\ now < MaxTime
    /\ now' = now + 1
    /\ UNCHANGED <<mCircularBuffers, capacity, logVars, verdict, seen>>

Init ==
    /\ mCircularBuffers = [n \in Names |-> <<>>]
    /\ capacity = [n \in Names |-> 0]
    /\ mDuplicateChannels = {}
    /\ mBadTimingChannels = {}
    /\ mLastLogTime = 0
    /\ now = StartTime
    /\ verdict = [packet |-> CHOOSE p \in Packets : TRUE,
                  allow |-> FALSE, recorded |-> FALSE]
    /\ seen = [n \in Names |-> {}]

Next == Tick \/ \E p \in Packets : Allow(p)

Spec == Init /\ [][Next]_vars
---------------------------------------------------------------------------
Buffered(n) == {mCircularBuffers[n][i] : i \in 1..Len(mCircularBuffers[n])}

\* The types of the tester's members; a buffer never exceeds its capacity.
TypeOK ==
    /\ mCircularBuffers \in [Names -> Seq(Header)]
    /\ capacity \in [Names -> Nat]
    /\ \A n \in Names : Len(mCircularBuffers[n]) <= capacity[n]
    /\ mDuplicateChannels \subseteq Names
    /\ mBadTimingChannels \subseteq Names
    /\ mLastLogTime \in Nat
    /\ now \in Nat
    /\ verdict \in [packet: Packets, allow: BOOLEAN, recorded: BOOLEAN]
    /\ seen \in [Names -> SUBSET Header]

Ordered(b) == \A i, j \in 1..Len(b) : i < j => b[i].start < b[j].start
Uniform(b) == \A i, j \in 1..Len(b) : b[i].rate = b[j].rate
Distinct(b) == \A i, j \in 1..Len(b) : i # j => ~Same(b[i], b[j])

\* A buffer is strictly ordered by start time in every branch, which front()
\* and back() in allow() rely on (the assertion at line 230 is one instance):
\* no two headers share a start time, so the unstable std::sort is harmless.
Sorted == \A n \in Names : Ordered(mCircularBuffers[n])

\* All headers of a channel's buffer have the rounded sampling rate of the
\* packet that created it: a packet with any other rate never gets in.
OneRate == \A n \in Names : Uniform(mCircularBuffers[n])

\* A buffer never holds a packet and its copy (operator==), whatever the order
\* in which they came, back-fills and evictions between them included.
NoTwins == \A n \in Names : Distinct(mCircularBuffers[n])

Nested(a, b) == a.start < b.start /\ b.end < a.end

\* Headers of b that overlap: the earlier one spans a later one.
Spanning(b) ==
    \A i, j \in 1..Len(b) :
        i < j /\ b[j].start <= b[i].end
        => \E k \in 1..Len(b) : i < k /\ Nested(b[i], b[k])

\* Two headers of a buffer overlap only in the one way that the slip test cannot
\* see, since it looks where the ends of a late packet fall: the earlier of the
\* two spans a whole later header.  Every other overlap is kept out, whatever
\* was appended, back-filled and evicted before.
OverlapsOnlySpanning == \A n \in Names : Spanning(mCircularBuffers[n])

\* The headers that the packets of a channel may have.
Arriving(n) == {HeaderOf(p) : p \in {q \in Packets : q.name = n /\ Readable(q)}}

\* Sampling rates that operator== can classify: the others make it throw, and
\* allow() then passes every copy of a packet.
RatesClassified == \A n \in Names : \A h \in Arriving(n) : h.rate < 1005

\* No packet fits between a packet and another one that operator== takes for
\* its copy.  At 100 Hz that can only fail for packets of one or two samples:
\* the tolerance is one and a half samples.
NoneBetweenCopies ==
    \A n \in Names : \A a, b, c \in Arriving(n) :
        Same(a, c) => ~(a.end < b.start /\ b.end < c.start)

\* allow() never records and passes a copy of a packet it has recorded before,
\* long after that packet has left the circular buffer too, unless the channel
\* has recorded a packet that spans another one (the slip test misses those).
\* Rates are classified, and nothing fits between a packet and its copy.  This
\* is stricter than testDuplicateDataPacket.hpp:19-21, which lets the copy of a
\* purged packet pass: see FreshAllowed.
NoRepeatUnlessNested ==
    LET n == verdict.packet.name IN
    /\ verdict.allow
    /\ verdict.recorded
    /\ HeaderOf(verdict.packet) \in Buffered(n)
    => \E a, b \in seen[n] : Nested(a, b)

\* When the capacity is estimated, a channel's buffer has room for at least half
\* of the time it was asked to cover with packets like the first one
\* (estimateCapacity; the factor 1.5 and the rounding of the rate and of the
\* duration stay within that half), provided that the first packet lasts more
\* than half a second from its first to its last sample.
SpansDuration ==
    EstimateCapacity =>
        \A n \in Names : Len(mCircularBuffers[n]) = 1 =>
            LET h == mCircularBuffers[n][1]
                milliseconds == (h.end - h.start) \div 1000
            IN  milliseconds > 500 =>
                    2 * capacity[n] * milliseconds >= CircularBufferDuration * 1000
---------------------------------------------------------------------------
(***************************************************************************)
(* What the documentation says and the code does not do.                   *)
(***************************************************************************)

\* testDuplicateDataPacket.hpp:56 and 19-21: data that overlaps nothing recorded
\* is allowed when it has not been processed, and also when its previously
\* processed counterpart has been purged from the circular buffer.
FreshAllowed ==
    LET n == verdict.packet.name
        h == HeaderOf(verdict.packet) IN
    /\ Readable(verdict.packet) /\ Buffered(n) # {}
    /\ ~verdict.recorded \/ ~CopyIn(h, Buffered(n))
    /\ \A a \in Buffered(n) \ {h} : h.end < a.start \/ a.end < h.start
    => verdict.allow
===========================================================================
