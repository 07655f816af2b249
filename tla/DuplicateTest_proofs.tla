------------------------ MODULE DuplicateTest_proofs ------------------------
(***************************************************************************)
(* Proofs about the duplicate test, for all packets, channels, capacities  *)
(* and log intervals.                                                      *)
(***************************************************************************)
EXTENDS DuplicateTest, TLAPS

\* A sequence of headers that a buffer may hold: every header ends no earlier
\* than it starts, and the four properties of DuplicateTest.
Good(b) ==
    /\ \A i \in 1..Len(b) : b[i].start <= b[i].end
    /\ Ordered(b)
    /\ Uniform(b)
    /\ Distinct(b)
    /\ Spanning(b)

\* How h may overlap its neighbours when it is put behind the first k headers of
\* s: an earlier one that reaches h spans another header already, and h spans
\* every later header that it reaches.
Fits(s, k, h) ==
    /\ \A i \in 1..k : h.start <= s[i].end =>
           \E m \in 1..Len(s) : i < m /\ Nested(s[i], s[m])
    /\ \A j \in (k + 1)..Len(s) : s[j].start <= h.end => Nested(h, s[j])

GoodBuffers == \A n \in Names : Good(mCircularBuffers[n])

\* The inductive invariant.
IInv == TypeOK /\ GoodBuffers

\* Integer division of naturals yields a natural (std::round in the code).
LEMMA DivNat == \A a \in Nat, b \in Nat \ {0} : a \div b \in Nat
  OBVIOUS

\* std::round of a non-negative quotient is a natural number.
LEMMA RoundNat ==
  ASSUME NEW x \in Nat, NEW y \in Nat \ {0}
  PROVE  RoundDiv(x, y) \in Nat
<1>1. 2 * x + y \in Nat /\ 2 * y \in Nat \ {0}
  OBVIOUS
<1> QED
  BY <1>1, DivNat DEF RoundDiv

\* The header built from a readable packet is well formed and ends no earlier
\* than it starts (DataPacketHeader's constructor, updateEndTime).
LEMMA HeaderOfPacket ==
  ASSUME NEW p \in Packets, Readable(p)
  PROVE  /\ HeaderOf(p) \in Header
         /\ HeaderOf(p).start <= HeaderOf(p).end
         /\ p.name \in Names
<1>1. /\ p.name \in Names /\ p.start \in Nat /\ p.rate \in Nat \ {0}
      /\ p.nSamples \in Nat \ {0}
  BY PacketsAssumption DEF Packet, Readable
<1>2. (p.nSamples - 1) * 10000000 \in Nat
  BY <1>1
<1>3. RoundDiv((p.nSamples - 1) * 10000000, p.rate) \in Nat
  BY <1>1, <1>2, RoundNat
<1>4. EndTime(p) \in Nat /\ p.start <= EndTime(p)
  BY <1>1, <1>3 DEF EndTime
<1>5. RoundDiv(p.rate, 10) \in Nat
  BY <1>1, RoundNat
<1> QED
  BY <1>1, <1>4, <1>5 DEF HeaderOf, Header

\* The fields of a header are natural numbers.
LEMMA HeaderFields ==
  \A h \in Header : /\ h.start \in Nat /\ h.end \in Nat
                    /\ h.rate \in Nat /\ h.nSamples \in Nat
  BY DEF Header

\* When std::find neither throws nor succeeds, the packet has the rate of every
\* header in the buffer and is a copy of none of them.  The first header
\* decides whether the rates differ, so the order of the search is immaterial.
LEMMA NotFound ==
  ASSUME NEW b \in Seq(Header), b # <<>>, Uniform(b), NEW h \in Header,
         ~FindThrows(b, h), ~Finds(b, h)
  PROVE  \A i \in 1..Len(b) : /\ b[i].rate = h.rate
                              /\ ~Same(b[i], h)
                              /\ ~Same(h, b[i])
<1>1. Len(b) \in Nat \ {0} /\ \A i \in 1..Len(b) : b[i] \in Header
  OBVIOUS
<1>2. ~EqThrows(b[1], h)
  BY <1>1 DEF FindThrows
<1>3. \A i \in 1..Len(b) : b[i].rate = h.rate
  BY <1>1, <1>2 DEF Uniform, EqThrows
<1>4. \A i \in 1..Len(b) : ~Same(b[i], h)
  <2>1. CASE h.rate < 1005
    <3>1. \A i \in 1..Len(b) : ~EqThrows(b[i], h)
      BY <1>1, <1>3, <2>1, HeaderFields DEF EqThrows
    <3> QED
      BY <1>1, <3>1 DEF Finds
  <2>2. CASE ~(h.rate < 1005)
    <3>1. \A i \in 1..Len(b) : b[i].nSamples = h.nSamples => EqThrows(b[i], h)
      BY <1>1, <2>2, HeaderFields DEF EqThrows
    <3> QED
      BY <3>1 DEF Same
  <2> QED
    BY <2>1, <2>2
<1>5. \A i \in 1..Len(b) : Same(h, b[i]) => Same(b[i], h)
  BY <1>1, <1>3, HeaderFields DEF Same, EqThrows
<1> QED
  BY <1>3, <1>4, <1>5

\* What push_back leaves in a buffer: h at the back, behind the old headers
\* without the front if the buffer was full.
LEMMA PushBackShape ==
  ASSUME NEW b \in Seq(Header), b # <<>>, NEW c \in Nat, Len(b) <= c,
         NEW h \in Header
  PROVE  LET s == IF Full(b, c) THEN Tail(b) ELSE b
             d == IF Full(b, c) THEN 1 ELSE 0
         IN  /\ s \in Seq(Header) /\ Len(s) = Len(b) - d /\ Len(s) + 1 <= c
             /\ \A i \in 1..Len(s) : s[i] = b[i + d]
             /\ PushBack(b, c, h) \in Seq(Header)
             /\ Len(PushBack(b, c, h)) = Len(s) + 1
             /\ \A i \in 1..Len(s) : PushBack(b, c, h)[i] = s[i]
             /\ PushBack(b, c, h)[Len(s) + 1] = h
<1>1. Len(b) \in Nat \ {0}
  OBVIOUS
<1>2. CASE Full(b, c)
  <2>1. Tail(b) \in Seq(Header) /\ Len(Tail(b)) = Len(b) - 1
    BY <1>1
  <2>2. \A i \in 1..Len(Tail(b)) : Tail(b)[i] = b[i + 1]
    BY <1>1
  <2> QED
    BY <1>1, <1>2, <2>1, <2>2 DEF Full, PushBack
<1>3. CASE ~Full(b, c)
  BY <1>1, <1>3 DEF Full, PushBack
<1> QED
  BY <1>2, <1>3

\* Dropping the front of a good buffer leaves a good buffer.
LEMMA GoodTail ==
  ASSUME NEW b \in Seq(Header), b # <<>>, NEW c \in Nat, Len(b) <= c, Good(b)
  PROVE  LET s == IF Full(b, c) THEN Tail(b) ELSE b
         IN  s \in Seq(Header) /\ Good(s)
<1>1. Len(b) \in Nat \ {0}
  OBVIOUS
<1>2. CASE Full(b, c)
  <2>1. Tail(b) \in Seq(Header) /\ Len(Tail(b)) = Len(b) - 1
    BY <1>1
  <2>2. \A i \in 1..Len(Tail(b)) : i + 1 \in 1..Len(b) /\ Tail(b)[i] = b[i + 1]
    BY <1>1
  <2>3. Ordered(Tail(b))
    BY <1>1, <2>1, <2>2 DEF Good, Ordered
  <2>4. Uniform(Tail(b))
    BY <1>1, <2>1, <2>2 DEF Good, Uniform
  <2>5. Distinct(Tail(b))
    BY <1>1, <2>1, <2>2 DEF Good, Distinct
  <2>6. \A i \in 1..Len(Tail(b)) : Tail(b)[i].start <= Tail(b)[i].end
    BY <1>1, <2>1, <2>2 DEF Good
  <2>7. Spanning(Tail(b))
    <3> SUFFICES ASSUME NEW i \in 1..Len(Tail(b)), NEW j \in 1..Len(Tail(b)),
                        i < j, Tail(b)[j].start <= Tail(b)[i].end
                 PROVE  \E k \in 1..Len(Tail(b)) :
                            i < k /\ Nested(Tail(b)[i], Tail(b)[k])
      BY DEF Spanning
    <3>1. PICK m \in 1..Len(b) : i + 1 < m /\ Nested(b[i + 1], b[m])
      BY <1>1, <2>1, <2>2 DEF Good, Spanning
    <3>2. m - 1 \in 1..Len(Tail(b)) /\ i < m - 1 /\ Tail(b)[m - 1] = b[m]
      BY <1>1, <2>1, <2>2, <3>1
    <3> QED
      BY <2>2, <3>1, <3>2
  <2> QED
    BY <1>2, <2>1, <2>3, <2>4, <2>5, <2>6, <2>7 DEF Good
<1>3. CASE ~Full(b, c)
  BY <1>3
<1> QED
  BY <1>2, <1>3

\* Putting a header between the earlier and the later ones of a good buffer of
\* which it is no copy leaves a good buffer: push_back, push_front and the
\* sorted back-fill are the three cases.
LEMMA GoodInsert ==
  ASSUME NEW s \in Seq(Header), Good(s), NEW h \in Header, h.start <= h.end,
         NEW k \in SortedPlaces(s, h),
         \A i \in 1..Len(s) : s[i].start # h.start, Fits(s, k, h),
         \A i \in 1..Len(s) : /\ s[i].rate = h.rate
                              /\ ~Same(s[i], h)
                              /\ ~Same(h, s[i])
  PROVE  /\ Insert(s, k, h) \in Seq(Header)
         /\ Len(Insert(s, k, h)) = Len(s) + 1
         /\ Good(Insert(s, k, h))
<1> DEFINE t == Insert(s, k, h)
<1>1. /\ Len(s) \in Nat /\ k \in 0..Len(s)
      /\ \A i \in 1..Len(s) : s[i] \in Header
  BY DEF SortedPlaces
<1>2. t \in [1..(Len(s) + 1) -> Header]
  BY <1>1 DEF Insert
<1>3. t \in Seq(Header) /\ Len(t) = Len(s) + 1
  BY <1>1, <1>2 DEF Insert
<1>4. /\ \A i \in 1..k : t[i] = s[i] /\ i \in 1..Len(s)
      /\ t[k + 1] = h
      /\ \A i \in (k + 2)..(Len(s) + 1) : t[i] = s[i - 1] /\ i - 1 \in 1..Len(s)
  BY <1>1 DEF Insert
<1>5. \A i \in 1..(Len(s) + 1) : i \in 1..k \/ i = k + 1
                                 \/ i \in (k + 2)..(Len(s) + 1)
  BY <1>1
<1>6. \A i \in 1..k : s[i].start < h.start
  BY DEF SortedPlaces
<1>7. \A i \in (k + 1)..Len(s) : h.start < s[i].start
  <2> TAKE i \in (k + 1)..Len(s)
  <2>1. i \in 1..Len(s) /\ h.start <= s[i].start
    BY <1>1 DEF SortedPlaces
  <2> QED
    BY <1>1, <2>1, HeaderFields
<1> HIDE DEF t
<1>8. Ordered(t)
  <2> SUFFICES ASSUME NEW i \in 1..Len(t), NEW j \in 1..Len(t), i < j
               PROVE  t[i].start < t[j].start
    BY DEF Ordered
  <2>1. CASE i \in 1..k /\ j \in 1..k
    BY <2>1, <1>1, <1>4 DEF Good, Ordered
  <2>2. CASE i \in 1..k /\ j = k + 1
    BY <2>2, <1>4, <1>6
  <2>3. CASE i \in 1..k /\ j \in (k + 2)..(Len(s) + 1)
    <3>1. i < j - 1
      BY <2>3, <1>1
    <3> QED
      BY <2>3, <3>1, <1>4 DEF Good, Ordered
  <2>4. CASE i = k + 1 /\ j \in (k + 2)..(Len(s) + 1)
    BY <2>4, <1>1, <1>4, <1>7
  <2>5. CASE i \in (k + 2)..(Len(s) + 1) /\ j \in (k + 2)..(Len(s) + 1)
    <3>1. i - 1 < j - 1
      BY <1>1
    <3> QED
      BY <2>5, <3>1, <1>4 DEF Good, Ordered
  <2> QED
    BY <1>1, <1>3, <1>5, <2>1, <2>2, <2>3, <2>4, <2>5
<1>9. Uniform(t)
  <2>1. ASSUME NEW i \in 1..Len(t)
        PROVE  t[i].rate = h.rate
    <3>1. CASE i \in 1..k
      BY <3>1, <1>4
    <3>2. CASE i = k + 1
      BY <3>2, <1>4
    <3>3. CASE i \in (k + 2)..(Len(s) + 1)
      BY <3>3, <1>4
    <3> QED
      BY <1>3, <1>5, <3>1, <3>2, <3>3
  <2> QED
    BY <2>1 DEF Uniform
<1>10. Distinct(t)
  <2> SUFFICES ASSUME NEW i \in 1..Len(t), NEW j \in 1..Len(t), i # j
               PROVE  ~Same(t[i], t[j])
    BY DEF Distinct
  <2>1. CASE i = k + 1
    BY <2>1, <1>1, <1>3, <1>4, <1>5
  <2>2. CASE j = k + 1
    BY <2>2, <1>1, <1>3, <1>4, <1>5
  <2>3. CASE i # k + 1 /\ j # k + 1
    <3> DEFINE at(m) == IF m <= k THEN m ELSE m - 1
    <3>1. \A m \in 1..Len(t) : m # k + 1 =>
              at(m) \in 1..Len(s) /\ t[m] = s[at(m)]
      BY <1>1, <1>3, <1>4, <1>5
    <3>2. at(i) # at(j)
      BY <2>3, <1>1, <1>3
    <3> QED
      BY <2>3, <3>1, <3>2 DEF Good, Distinct
  <2> QED
    BY <2>1, <2>2, <2>3
<1>11. \A i \in 1..Len(t) : t[i].start <= t[i].end
  BY <1>3, <1>4, <1>5 DEF Good
<1>12. Spanning(t)
  <2> SUFFICES ASSUME NEW i \in 1..Len(t), NEW j \in 1..Len(t), i < j,
                      t[j].start <= t[i].end
               PROVE  \E m \in 1..Len(t) : i < m /\ Nested(t[i], t[m])
    BY DEF Spanning
  <2> DEFINE at(m) == IF m <= k THEN m ELSE m - 1
             to(m) == IF m <= k THEN m ELSE m + 1
  <2>1. \A m \in 1..Len(t) : m # k + 1 =>
            at(m) \in 1..Len(s) /\ t[m] = s[at(m)]
    BY <1>1, <1>3, <1>4, <1>5
  <2>2. \A m \in 1..Len(s) : to(m) \in 1..Len(t) /\ t[to(m)] = s[m]
    <3> TAKE m \in 1..Len(s)
    <3>1. CASE m <= k
      BY <1>1, <1>3, <1>4, <3>1
    <3>2. CASE ~(m <= k)
      <4>1. m + 1 \in (k + 2)..(Len(s) + 1) /\ (m + 1) - 1 = m
        BY <1>1, <3>2
      <4> QED
        BY <1>1, <1>3, <1>4, <3>2, <4>1
    <3> QED
      BY <3>1, <3>2
  <2>3. CASE i = k + 1
    <3>1. at(j) \in (k + 1)..Len(s) /\ t[j] = s[at(j)] /\ j # k + 1
      <4>1. j # k + 1 /\ ~(j <= k) /\ j - 1 \in (k + 1)..Len(s)
        BY <1>1, <1>3, <2>3
      <4> QED
        BY <2>1, <4>1
    <3> QED
      BY <1>4, <2>3, <3>1 DEF Fits
  <2>4. CASE i # k + 1
    <3>1. \E m \in 1..Len(s) : at(i) < m /\ Nested(s[at(i)], s[m])
      <4>1. CASE j = k + 1
        BY <1>1, <1>3, <1>4, <2>4, <4>1 DEF Fits
      <4>2. CASE j # k + 1
        <5>1. /\ at(i) \in 1..Len(s) /\ at(j) \in 1..Len(s) /\ at(i) < at(j)
              /\ s[at(j)].start <= s[at(i)].end
          BY <1>1, <1>3, <2>1, <2>4, <4>2
        <5> HIDE DEF at
        <5> QED
          BY <5>1 DEF Good, Spanning
      <4> QED
        BY <4>1, <4>2
    <3>2. PICK m \in 1..Len(s) : at(i) < m /\ Nested(s[at(i)], s[m])
      BY <3>1
    <3>3. to(m) \in 1..Len(t) /\ i < to(m)
      BY <1>1, <1>3, <2>2, <2>4, <3>2
    <3>4. t[i] = s[at(i)] /\ t[to(m)] = s[m]
      BY <2>1, <2>2, <2>4
    <3> QED
      BY <3>2, <3>3, <3>4
  <2> QED
    BY <2>3, <2>4
<1> QED
  BY <1>3, <1>8, <1>9, <1>10, <1>11, <1>12 DEF t, Good

\* A sequence is the function of its elements.
LEMMA SeqIsFunction ==
  \A a \in Seq(Header) : a = [i \in 1..Len(a) |-> a[i]]
  OBVIOUS

\* push_back and push_front are insertions at the two ends.
LEMMA EndsAreInsertions ==
  ASSUME NEW s \in Seq(Header), NEW h \in Header
  PROVE  /\ Append(s, h) = Insert(s, Len(s), h)
         /\ <<h>> \o s = Insert(s, 0, h)
<1>1. Len(s) \in Nat
  OBVIOUS
<1>2. Append(s, h) = Insert(s, Len(s), h)
  <2>1. /\ Append(s, h) \in Seq(Header) /\ Len(Append(s, h)) = Len(s) + 1
        /\ \A i \in 1..(Len(s) + 1) :
               Append(s, h)[i] = IF i <= Len(s) THEN s[i] ELSE h
    BY <1>1
  <2>2. Append(s, h) = [i \in 1..Len(Append(s, h)) |-> Append(s, h)[i]]
    BY <2>1, SeqIsFunction, Zenon
  <2>3. \A i \in 1..(Len(s) + 1) :
            Append(s, h)[i] = Insert(s, Len(s), h)[i]
    BY <1>1, <2>1 DEF Insert
  <2> QED
    BY <1>1, <2>1, <2>2, <2>3 DEF Insert
<1>3. <<h>> \o s = Insert(s, 0, h)
  <2>1. /\ <<h>> \in Seq(Header) /\ Len(<<h>>) = 1 /\ <<h>>[1] = h
        /\ <<h>> \o s \in Seq(Header) /\ Len(<<h>> \o s) = Len(s) + 1
    BY <1>1
  <2>2. \A i \in 1..(Len(s) + 1) :
            (<<h>> \o s)[i] = IF i <= 1 THEN h ELSE s[i - 1]
    BY <1>1, <2>1
  <2>3. <<h>> \o s = [i \in 1..(Len(s) + 1) |-> (<<h>> \o s)[i]]
    BY <1>1, <2>1
  <2>4. \A i \in 1..(Len(s) + 1) : (<<h>> \o s)[i] = Insert(s, 0, h)[i]
    BY <1>1, <2>2 DEF Insert
  <2> QED
    BY <1>1, <2>3, <2>4 DEF Insert
<1> QED
  BY <1>2, <1>3

\* A circular buffer that could be made has a positive capacity.
LEMMA CapacityPositive ==
  ASSUME NEW h \in Header, NEW c \in Capacities(h) \ {0}
  PROVE  c \in Nat \ {0}
<1> DEFINE rate == IF h.rate < 1 THEN 1 ELSE h.rate
           duration == RoundDiv(h.nSamples - 1, rate)
           packets == (3 * CircularBufferDuration) \div (2 * duration)
<1>1. h.nSamples - 1 \in Nat /\ rate \in Nat \ {0}
  BY DEF Header
<1>2. duration \in Nat
  BY <1>1, RoundNat
<1> HIDE DEF rate, duration
<1>3. CASE EstimateCapacity /\ duration # 0
  <2>1. 3 * CircularBufferDuration \in Nat /\ 2 * duration \in Nat \ {0}
    BY <1>2, <1>3, CapacityAssumption
  <2>2. packets \in Nat
    BY <2>1, DivNat
  <2>3. c = (IF packets < 10 THEN 10 ELSE packets) + 1
    BY <1>3 DEF Capacities, Estimates, duration, rate
  <2> QED
    BY <2>2, <2>3
<1>4. CASE EstimateCapacity /\ duration = 0
  BY <1>4 DEF Capacities, Estimates, duration, rate
<1>5. CASE ~EstimateCapacity
  BY <1>5, CapacityAssumption DEF Capacities
<1> QED
  BY <1>3, <1>4, <1>5, CapacityAssumption

\* The verdict keeps its type.
LEMMA ReturnTypes ==
  ASSUME TypeOK, NEW p \in Packets, Readable(p), NEW allow \in BOOLEAN,
         Return(p, allow)
  PROVE  /\ verdict' \in [packet: Packets, allow: BOOLEAN, recorded: BOOLEAN]
         /\ now' \in Nat
<1>1. CopyIn(HeaderOf(p), seen[p.name]) \in BOOLEAN
  BY DEF CopyIn
<1> QED
  BY <1>1 DEF TypeOK, Return

\* logBadData() keeps the flags sets of channels and the log time a time.
LEMMA LogTypes ==
  ASSUME TypeOK, NEW d \in SUBSET Names, NEW s \in SUBSET Names,
         LogBadData(d, s)
  PROVE  /\ mDuplicateChannels' \subseteq Names
         /\ mBadTimingChannels' \subseteq Names
         /\ mLastLogTime' \in Nat
  BY DEF TypeOK, LogBadData

\* Storing a good buffer within its capacity keeps every buffer good.
LEMMA StoreGood ==
  ASSUME IInv, NEW p \in Packets, Readable(p), NEW t \in Seq(Header), Good(t),
         Store(p, t), capacity' \in [Names -> Nat],
         \A n \in Names \ {p.name} : capacity'[n] = capacity[n],
         Len(t) <= capacity'[p.name]
  PROVE  /\ mCircularBuffers' \in [Names -> Seq(Header)]
         /\ seen' \in [Names -> SUBSET Header]
         /\ \A n \in Names : Len(mCircularBuffers'[n]) <= capacity'[n]
         /\ GoodBuffers'
<1>1. p.name \in Names /\ HeaderOf(p) \in Header
  BY HeaderOfPacket
<1>2. /\ mCircularBuffers'[p.name] = t
      /\ \A n \in Names \ {p.name} : mCircularBuffers'[n] = mCircularBuffers[n]
      /\ mCircularBuffers' \in [Names -> Seq(Header)]
  BY <1>1 DEF IInv, TypeOK, Store
<1>3. seen' \in [Names -> SUBSET Header]
  BY <1>1 DEF IInv, TypeOK, Store
<1>4. \A n \in Names : Len(mCircularBuffers'[n]) <= capacity'[n]
  BY <1>2 DEF IInv, TypeOK
<1>5. GoodBuffers'
  BY <1>2 DEF IInv, GoodBuffers
<1> QED
  BY <1>2, <1>3, <1>4, <1>5

\* Every branch of allow() preserves the invariant.
LEMMA AllowPreserves ==
  ASSUME IInv, NEW p \in Packets, Allow(p)
  PROVE  IInv'
<1> DEFINE n == p.name
           h == HeaderOf(p)
           b == mCircularBuffers[n]
           c == capacity[n]
<1>1. CASE Unreadable(p)
  <2>1. TypeOK'
    BY <1>1 DEF IInv, TypeOK, Unreadable, logVars
  <2> QED
    BY <1>1, <2>1 DEF IInv, GoodBuffers, Unreadable
<1> SUFFICES ASSUME Readable(p) PROVE IInv'
  BY <1>1 DEF Allow, Unreadable, NewChannel, CompareThrows,
              Duplicate, Newest, Oldest, TimingSlip, BackFill, Unknown
<1>2. /\ n \in Names /\ h \in Header /\ h.start <= h.end
      /\ b \in Seq(Header) /\ c \in Nat /\ Len(b) <= c /\ Good(b)
  BY HeaderOfPacket DEF IInv, TypeOK, GoodBuffers
<1>3. ASSUME KeepBuffers PROVE
        /\ mCircularBuffers' \in [Names -> Seq(Header)]
        /\ capacity' \in [Names -> Nat]
        /\ seen' \in [Names -> SUBSET Header]
        /\ \A m \in Names : Len(mCircularBuffers'[m]) <= capacity'[m]
        /\ GoodBuffers'
  BY <1>3 DEF KeepBuffers, IInv, TypeOK, GoodBuffers
<1>4. ASSUME Unknown(p) PROVE
        /\ b # <<>>
        /\ \A i \in 1..Len(b) : /\ b[i].rate = h.rate
                                /\ ~Same(b[i], h)
                                /\ ~Same(h, b[i])
  BY <1>2, <1>4, NotFound DEF Unknown, Good
<1>5. /\ mDuplicateChannels \in SUBSET Names /\ mBadTimingChannels \in SUBSET Names
      /\ mDuplicateChannels \cup {n} \in SUBSET Names
      /\ mBadTimingChannels \cup {n} \in SUBSET Names
  BY <1>2 DEF IInv, TypeOK
<1> HIDE DEF n, h, b, c
<1>6. ASSUME NEW t \in Seq(Header), Good(t), Len(t) <= c, Store(p, t),
             UNCHANGED capacity
      PROVE  /\ mCircularBuffers' \in [Names -> Seq(Header)]
             /\ capacity' \in [Names -> Nat]
             /\ seen' \in [Names -> SUBSET Header]
             /\ \A m \in Names : Len(mCircularBuffers'[m]) <= capacity'[m]
             /\ GoodBuffers'
  <2>1. capacity' \in [Names -> Nat] /\ Len(t) <= capacity'[p.name]
    BY <1>6 DEF IInv, TypeOK, n, c
  <2> QED
    BY <1>6, <2>1, StoreGood
<1>7. CASE NewChannel(p)
  <2>1. PICK k \in Capacities(h) :
          IF k = 0 THEN KeepBuffers
          ELSE capacity' = [capacity EXCEPT ![p.name] = k] /\ Store(p, <<h>>)
    BY <1>7 DEF NewChannel, h
  <2>2. CASE k = 0
    BY <1>3, <1>5, <1>7, <2>1, <2>2, ReturnTypes, LogTypes
       DEF NewChannel, IInv, TypeOK
  <2>3. CASE k # 0
    <3>1. k \in Nat \ {0}
      BY <1>2, <2>3, CapacityPositive
    <3>2. /\ capacity' \in [Names -> Nat] /\ capacity'[p.name] = k
          /\ \A m \in Names \ {p.name} : capacity'[m] = capacity[m]
      BY <1>2, <2>1, <2>3, <3>1 DEF IInv, TypeOK, n
    <3>3. <<h>> \in Seq(Header) /\ Len(<<h>>) = 1 /\ <<h>>[1] = h
      BY <1>2
    <3>4. Good(<<h>>)
      BY <1>2, <3>3 DEF Good, Ordered, Uniform, Distinct, Spanning
    <3>5. Len(<<h>>) <= capacity'[p.name]
      BY <3>1, <3>2, <3>3
    <3>6. /\ mCircularBuffers' \in [Names -> Seq(Header)]
          /\ seen' \in [Names -> SUBSET Header]
          /\ \A m \in Names : Len(mCircularBuffers'[m]) <= capacity'[m]
          /\ GoodBuffers'
      BY <2>1, <2>3, <3>2, <3>3, <3>4, <3>5, StoreGood
    <3> QED
      BY <1>5, <1>7, <3>2, <3>6, ReturnTypes, LogTypes
         DEF NewChannel, IInv, TypeOK
  <2> QED
    BY <2>2, <2>3
<1>9. CASE CompareThrows(p)
  BY <1>3, <1>5, <1>9, ReturnTypes, LogTypes DEF CompareThrows, IInv, TypeOK
<1>10. CASE Duplicate(p)
  BY <1>3, <1>5, <1>10, ReturnTypes, LogTypes DEF Duplicate, IInv, TypeOK, n
<1>11. CASE TimingSlip(p)
  BY <1>3, <1>5, <1>11, ReturnTypes, LogTypes DEF TimingSlip, IInv, TypeOK, n
<1>12. CASE Newest(p)
  <2> DEFINE s == IF Full(b, c) THEN Tail(b) ELSE b
  <2>1. Unknown(p) /\ Newer(b, h) /\ Store(p, PushBack(b, c, h))
    BY <1>12 DEF Newest, b, c, h, n
  <2>2. s \in Seq(Header) /\ Good(s)
    BY <1>2, <1>4, <2>1, GoodTail
  <2>3. /\ PushBack(b, c, h) = Append(s, h)
        /\ Len(s) \in Nat /\ Len(s) + 1 <= c
        /\ \A i \in 1..Len(s) : \E j \in 1..Len(b) : s[i] = b[j]
    BY <1>2, <1>4, <2>1, PushBackShape DEF PushBack
  <2>4. \A j \in 1..Len(b) : b[j].start < h.start
    <3> TAKE j \in 1..Len(b)
    <3>1. Len(b) \in 1..Len(b) /\ b[j] \in Header /\ b[Len(b)] \in Header
      BY <1>2
    <3>2. b[j].start <= b[Len(b)].start
      BY <1>2, <3>1, HeaderFields DEF Good, Ordered
    <3>3. b[Len(b)].start <= b[Len(b)].end /\ b[Len(b)].end < h.start
      BY <1>2, <2>1, <3>1, HeaderFields DEF Good, Newer
    <3> QED
      BY <1>2, <3>1, <3>2, <3>3, HeaderFields
  <2> HIDE DEF s
  <2>5. \A i \in 1..Len(s) : s[i].start < h.start
    BY <2>3, <2>4
  <2>6. Len(s) \in SortedPlaces(s, h)
    BY <2>3, <2>5 DEF SortedPlaces
  <2>7. \A i \in 1..Len(s) : /\ s[i].rate = h.rate /\ s[i].start # h.start
                             /\ ~Same(s[i], h) /\ ~Same(h, s[i])
    <3> TAKE i \in 1..Len(s)
    <3>1. PICK j \in 1..Len(b) : s[i] = b[j]
      BY <2>3
    <3>2. /\ b[j].rate = h.rate
          /\ ~Same(b[j], h) /\ ~Same(h, b[j])
      BY <1>4, <2>1
    <3>3. s[i].start # h.start
      <4>1. s[i].start \in Nat /\ h.start \in Nat
        BY <1>2, <2>2, HeaderFields
      <4> QED
        BY <4>1, <2>5
    <3> QED
      BY <3>1, <3>2, <3>3
  <2>8. Fits(s, Len(s), h)
    <3>1. ASSUME NEW i \in 1..Len(s), h.start <= s[i].end
          PROVE  i < Len(s) /\ Nested(s[i], s[Len(s)])
      <4>1. s[Len(s)] = b[Len(b)] /\ Len(s) \in 1..Len(s)
        <5> DEFINE d == IF Full(b, c) THEN 1 ELSE 0
        <5>1. Len(s) = Len(b) - d /\ \A m \in 1..Len(s) : s[m] = b[m + d]
          BY <1>2, <1>4, <2>1, PushBackShape DEF s
        <5>2. Len(s) \in 1..Len(s) /\ d \in {0, 1} /\ Len(b) \in Nat
          BY <1>2, <2>3
        <5> HIDE DEF d
        <5>3. Len(s) + d = Len(b)
          BY <2>3, <5>1, <5>2
        <5> QED
          BY <5>1, <5>2, <5>3
      <4>2. /\ s[i] \in Header /\ s[Len(s)] \in Header
            /\ s[Len(s)].end < h.start
        BY <2>1, <2>2, <4>1 DEF Newer
      <4>3. s[Len(s)].end < s[i].end
        BY <1>2, <3>1, <4>2, HeaderFields
      <4>4. i # Len(s)
        BY <4>2, <4>3, HeaderFields
      <4>5. i < Len(s) /\ s[i].start < s[Len(s)].start
        BY <2>2, <2>3, <4>1, <4>4 DEF Good, Ordered
      <4> QED
        BY <4>3, <4>5 DEF Nested
    <3>2. \A j \in (Len(s) + 1)..Len(s) : FALSE
      BY <2>3
    <3> QED
      BY <2>3, <3>1, <3>2 DEF Fits
  <2>9. /\ PushBack(b, c, h) \in Seq(Header) /\ Good(PushBack(b, c, h))
        /\ Len(PushBack(b, c, h)) = Len(s) + 1
    BY <1>2, <2>2, <2>3, <2>6, <2>7, <2>8, GoodInsert, EndsAreInsertions
  <2> QED
    BY <1>5, <1>6, <1>12, <2>1, <2>3, <2>9, ReturnTypes, LogTypes
       DEF Newest, IInv, TypeOK
<1>13. CASE Oldest(p)
  <2>1. CASE Full(b, c)
    <3>1. KeepBuffers
      BY <1>13, <2>1 DEF Oldest, KeepBuffers, b, c, n
    <3> QED
      BY <1>3, <1>5, <1>13, <3>1, ReturnTypes, LogTypes DEF Oldest, IInv, TypeOK
  <2>2. CASE ~Full(b, c)
    <3>1. Unknown(p) /\ Older(b, h) /\ Store(p, <<h>> \o b)
      BY <1>13, <2>2 DEF Oldest, b, c, h, n
    <3>2. Len(b) \in Nat \ {0} /\ Len(b) + 1 <= c
      BY <1>2, <1>4, <2>2, <3>1 DEF Full
    <3>3. \A j \in 1..Len(b) : h.start < b[j].start
      <4> TAKE j \in 1..Len(b)
      <4>1. 1 \in 1..Len(b) /\ b[j] \in Header /\ b[1] \in Header
        BY <1>2, <3>2
      <4>2. b[1].start <= b[j].start
        BY <1>2, <4>1, HeaderFields DEF Good, Ordered
      <4> QED
        BY <1>2, <3>1, <4>1, <4>2, HeaderFields DEF Older
    <3>4. 0 \in SortedPlaces(b, h)
      BY <1>2, <3>2, <3>3, HeaderFields DEF SortedPlaces
    <3>5. \A i \in 1..Len(b) : /\ b[i].rate = h.rate /\ b[i].start # h.start
                               /\ ~Same(b[i], h) /\ ~Same(h, b[i])
      BY <1>2, <1>4, <3>1, <3>3, HeaderFields
    <3>6. Fits(b, 0, h)
      <4>1. ASSUME NEW j \in 1..Len(b)
            PROVE  ~(b[j].start <= h.end)
        <5>1. 1 \in 1..Len(b) /\ b[j] \in Header /\ b[1] \in Header
          BY <1>2, <3>2
        <5>2. b[1].start <= b[j].start
          BY <1>2, <5>1, HeaderFields DEF Good, Ordered
        <5> QED
          BY <1>2, <3>1, <5>1, <5>2, HeaderFields DEF Older
      <4> QED
        BY <4>1 DEF Fits
    <3>7. /\ <<h>> \o b \in Seq(Header) /\ Good(<<h>> \o b)
          /\ Len(<<h>> \o b) = Len(b) + 1
      BY <1>2, <3>4, <3>5, <3>6, GoodInsert, EndsAreInsertions
    <3> QED
      BY <1>5, <1>6, <1>13, <3>1, <3>2, <3>7, ReturnTypes, LogTypes
         DEF Oldest, IInv, TypeOK
  <2> QED
    BY <2>1, <2>2
<1>14. CASE BackFill(p)
  <2> DEFINE s == IF Full(b, c) THEN Tail(b) ELSE b
  <2>1. PICK k \in SortedPlaces(s, h) : Store(p, Insert(s, k, h))
    BY <1>14 DEF BackFill, b, c, h, n
  <2>2. Unknown(p) /\ ~Slips(b, h)
    BY <1>14 DEF BackFill, b, h, n
  <2>3. s \in Seq(Header) /\ Good(s)
    BY <1>2, <1>4, <2>2, GoodTail
  <2>4. /\ Len(s) \in Nat /\ Len(s) + 1 <= c
        /\ \A i \in 1..Len(s) : \E j \in 1..Len(b) : s[i] = b[j]
    <3> DEFINE d == IF Full(b, c) THEN 1 ELSE 0
    <3>1. /\ Len(s) = Len(b) - d /\ Len(s) + 1 <= c
          /\ \A i \in 1..Len(s) : s[i] = b[i + d]
      BY <1>2, <1>4, <2>2, PushBackShape
    <3>2. Len(b) \in Nat \ {0} /\ d \in {0, 1}
      BY <1>2, <1>4, <2>2
    <3> HIDE DEF s, d
    <3>3. \A i \in 1..Len(s) : i + d \in 1..Len(b)
      BY <3>1, <3>2
    <3> QED
      BY <3>1, <3>2, <3>3
  <2>5. \A j \in 1..Len(b) : b[j].start # h.start
    <3> TAKE j \in 1..Len(b)
    <3>1. b[j] \in Header /\ b[j].start <= b[j].end
      BY <1>2 DEF Good
    <3>2. ~(b[j].start <= h.start /\ h.start <= b[j].end)
      BY <2>2 DEF Slips
    <3> QED
      BY <1>2, <3>1, <3>2, HeaderFields
  <2> HIDE DEF s
  <2>6. \A i \in 1..Len(s) : /\ s[i].rate = h.rate /\ s[i].start # h.start
                             /\ ~Same(s[i], h) /\ ~Same(h, s[i])
    BY <1>4, <2>2, <2>4, <2>5
  <2>7. Fits(s, k, h)
    <3>1. ASSUME NEW i \in 1..Len(s)
          PROVE  /\ s[i] \in Header
                 /\ ~(s[i].start <= h.start /\ h.start <= s[i].end)
                 /\ ~(s[i].start <= h.end /\ h.end <= s[i].end)
      BY <2>2, <2>3, <2>4 DEF Slips
    <3>2. k \in 0..Len(s) /\ Len(s) \in Nat
      BY <2>1, <2>4 DEF SortedPlaces
    <3>3. ASSUME NEW i \in 1..k
          PROVE  ~(h.start <= s[i].end)
      <4>1. i \in 1..Len(s) /\ s[i].start < h.start
        BY <2>1, <3>2 DEF SortedPlaces
      <4> QED
        BY <1>2, <3>1, <4>1, HeaderFields
    <3>4. ASSUME NEW j \in (k + 1)..Len(s), s[j].start <= h.end
          PROVE  Nested(h, s[j])
      <4>1. j \in 1..Len(s) /\ h.start <= s[j].start
        BY <2>1, <3>2 DEF SortedPlaces
      <4> QED
        BY <1>2, <2>6, <3>1, <3>4, <4>1, HeaderFields DEF Nested
    <3> QED
      BY <3>3, <3>4 DEF Fits
  <2>8. /\ Insert(s, k, h) \in Seq(Header) /\ Good(Insert(s, k, h))
        /\ Len(Insert(s, k, h)) = Len(s) + 1
    BY <1>2, <2>1, <2>3, <2>6, <2>7, GoodInsert
  <2> QED
    BY <1>5, <1>6, <1>14, <2>1, <2>4, <2>8, ReturnTypes, LogTypes
       DEF BackFill, IInv, TypeOK
<1> QED
  BY <1>1, <1>7, <1>9, <1>10, <1>11, <1>12, <1>13, <1>14 DEF Allow

\* The invariant holds when a tester has been constructed.
LEMMA InitGood == Init => IInv
<1> SUFFICES ASSUME Init PROVE IInv
  OBVIOUS
<1>1. (CHOOSE p \in Packets : TRUE) \in Packets
  BY PacketsAssumption
<1>2. TypeOK
  BY <1>1, ClockAssumption DEF Init, TypeOK
<1>3. \A n \in Names : mCircularBuffers[n] = <<>>
  BY DEF Init
<1>4. Good(<<>>)
  BY DEF Good, Ordered, Uniform, Distinct, Spanning
<1> QED
  BY <1>2, <1>3, <1>4 DEF IInv, GoodBuffers

\* The invariant holds initially and in every step.
THEOREM Invariance == Spec => []IInv
<1>1. Init => IInv
  BY InitGood
<1>2. IInv /\ [Next]_vars => IInv'
  <2> SUFFICES ASSUME IInv, [Next]_vars PROVE IInv'
    OBVIOUS
  <2>1. CASE Tick
    <3>1. TypeOK'
      BY <2>1 DEF IInv, TypeOK, Tick, logVars
    <3> QED
      BY <2>1, <3>1 DEF IInv, GoodBuffers, Tick
  <2>2. CASE \E p \in Packets : Allow(p)
    BY <2>2, AllowPreserves
  <2>3. CASE UNCHANGED vars
    BY <2>3 DEF IInv, TypeOK, GoodBuffers, vars
  <2> QED
    BY <2>1, <2>2, <2>3 DEF Next
<1> QED
  BY <1>1, <1>2, PTL DEF Spec

\* Types, and buffers within their capacity, for every configuration.
THEOREM TypeCorrect == Spec => []TypeOK
  BY Invariance, PTL DEF IInv

\* Every buffer is strictly ordered by start time after any sequence of calls.
THEOREM SortedBuffers == Spec => []Sorted
<1>1. IInv => Sorted
  BY DEF IInv, GoodBuffers, Good, Sorted
<1> QED
  BY <1>1, Invariance, PTL

\* A buffer only ever holds headers with one rounded sampling rate.
THEOREM SingleRate == Spec => []OneRate
<1>1. IInv => OneRate
  BY DEF IInv, GoodBuffers, Good, OneRate
<1> QED
  BY <1>1, Invariance, PTL

\* A buffer never holds two headers that operator== identifies.
THEOREM NoCopiesBuffered == Spec => []NoTwins
<1>1. IInv => NoTwins
  BY DEF IInv, GoodBuffers, Good, NoTwins
<1> QED
  BY <1>1, Invariance, PTL

\* Buffered headers overlap only where one spans another: the slip test lets no
\* other overlap in.
THEOREM OverlapsAreSpans == Spec => []OverlapsOnlySpanning
<1>1. IInv => OverlapsOnlySpanning
  BY DEF IInv, GoodBuffers, Good, OverlapsOnlySpanning
<1> QED
  BY <1>1, Invariance, PTL
---------------------------------------------------------------------------
(***************************************************************************)
(* What leaves a buffer does not come back.                                *)
(***************************************************************************)
Elems(b) == {b[i] : i \in 1..Len(b)}

\* a is over before b begins.
Clear(a, b) == a.end < b.start

NestFree(S) == \A a, b \in S : ~Nested(a, b)

\* The headers R of a buffer and all those ever recorded, S: the buffer's do not
\* overlap, and the evicted ones lie before all of them.
Remembers(R, S) ==
    /\ \A a, b \in R : a = b \/ Clear(a, b) \/ Clear(b, a)
    /\ \A a \in S \ R, b \in R : Clear(a, b)

\* A buffer b of capacity c and the headers S ever recorded in it.
History(b, c, S) ==
    /\ Elems(b) \subseteq S
    /\ b = <<>> => S = {}
    /\ S # Elems(b) => Full(b, c)
    /\ NestFree(S) => Remembers(Elems(b), S)

HistoryInv ==
    \A n \in Names : /\ seen[n] \subseteq Arriving(n)
                     /\ History(mCircularBuffers[n], capacity[n], seen[n])

\* The headers of arriving packets are headers, and end no earlier than they
\* start.
LEMMA ArrivingHeaders ==
  ASSUME NEW n \in Names, NEW h \in Arriving(n)
  PROVE  /\ h \in Header
         /\ h.start \in Nat /\ h.end \in Nat /\ h.start <= h.end
<1>1. PICK p \in Packets : Readable(p) /\ h = HeaderOf(p)
  BY DEF Arriving
<1> QED
  BY <1>1, HeaderOfPacket, HeaderFields

\* An insertion adds one header.
LEMMA InsertElems ==
  ASSUME NEW s \in Seq(Header), NEW h \in Header, NEW k \in 0..Len(s)
  PROVE  Elems(Insert(s, k, h)) = Elems(s) \cup {h}
<1> DEFINE t == Insert(s, k, h)
<1>1. Len(s) \in Nat
  OBVIOUS
<1>2. /\ \A i \in 1..(Len(s) + 1) : t[i] = IF i <= k THEN s[i]
                                           ELSE IF i = k + 1 THEN h
                                           ELSE s[i - 1]
      /\ t \in [1..(Len(s) + 1) -> Header]
  BY <1>1 DEF Insert
<1>3. Len(t) = Len(s) + 1
  BY <1>1, <1>2 DEF Insert
<1> HIDE DEF t
<1>4. \A i \in 1..Len(t) : t[i] \in Elems(s) \cup {h}
  <2> TAKE i \in 1..Len(t)
  <2>1. CASE i <= k
    <3>1. i \in 1..Len(s) /\ t[i] = s[i]
      BY <1>1, <1>2, <1>3, <2>1
    <3> QED
      BY <3>1 DEF Elems
  <2>2. CASE i = k + 1
    BY <1>1, <1>2, <1>3, <2>2
  <2>3. CASE i > k + 1
    <3>1. i - 1 \in 1..Len(s) /\ t[i] = s[i - 1]
      BY <1>1, <1>2, <1>3, <2>3
    <3> QED
      BY <3>1 DEF Elems
  <2> QED
    BY <1>1, <1>3, <2>1, <2>2, <2>3
<1>5. \A i \in 1..Len(s) : s[i] \in Elems(t)
  <2> TAKE i \in 1..Len(s)
  <2>1. CASE i <= k
    <3>1. i \in 1..Len(t) /\ t[i] = s[i]
      BY <1>1, <1>2, <1>3, <2>1
    <3> QED
      BY <3>1 DEF Elems
  <2>2. CASE i > k
    <3>1. i + 1 \in 1..Len(t) /\ t[i + 1] = s[i]
      BY <1>1, <1>2, <1>3, <2>2
    <3> QED
      BY <3>1 DEF Elems
  <2> QED
    BY <1>1, <2>1, <2>2
<1>6. h \in Elems(t)
  <2>1. k + 1 \in 1..Len(t) /\ t[k + 1] = h
    BY <1>1, <1>2, <1>3
  <2> QED
    BY <2>1 DEF Elems
<1> QED
  BY <1>4, <1>5, <1>6 DEF t, Elems

\* Dropping the front removes the header that starts first.
LEMMA TailElems ==
  ASSUME NEW b \in Seq(Header), b # <<>>, Ordered(b)
  PROVE  /\ Elems(Tail(b)) = Elems(b) \ {b[1]}
         /\ b[1] \in Elems(b)
         /\ \A x \in Elems(b) \ {b[1]} : b[1].start < x.start
<1>1. /\ Len(b) \in Nat \ {0} /\ 1 \in 1..Len(b)
      /\ \A i \in 1..Len(b) : b[i] \in Header
  OBVIOUS
<1>2. /\ Len(Tail(b)) = Len(b) - 1
      /\ \A i \in 1..Len(Tail(b)) : Tail(b)[i] = b[i + 1] /\ i + 1 \in 2..Len(b)
  BY <1>1
<1>3. \A i \in 2..Len(b) : /\ i \in 1..Len(b)
                           /\ b[1].start < b[i].start
                           /\ i - 1 \in 1..Len(Tail(b))
                           /\ Tail(b)[i - 1] = b[i]
  BY <1>1, <1>2 DEF Ordered
<1>4. \A i \in 2..Len(b) : b[i] # b[1]
  BY <1>1, <1>3, HeaderFields
<1>5. \A i \in 1..Len(b) : i = 1 \/ i \in 2..Len(b)
  BY <1>1
<1>6. Elems(Tail(b)) \subseteq Elems(b) \ {b[1]}
  BY <1>2, <1>3, <1>4 DEF Elems
<1>7. Elems(b) \ {b[1]} \subseteq Elems(Tail(b))
  BY <1>3, <1>5 DEF Elems
<1>8. \A x \in Elems(b) \ {b[1]} : b[1].start < x.start
  BY <1>3, <1>5 DEF Elems
<1> QED
  BY <1>1, <1>6, <1>7, <1>8 DEF Elems

\* Evicting the front for a header that comes after it, and overlaps nothing.
LEMMA EvictRemembers ==
  ASSUME NEW S \in SUBSET Header, NEW R \in SUBSET S,
         \A x \in S : x.start <= x.end,
         NEW h \in Header, NEW f \in R,
         \A x \in R \ {f} : f.start < x.start,
         \A x \in R : Clear(x, h) \/ Clear(h, x),
         Clear(f, h), Remembers(R, S)
  PROVE  Remembers((R \ {f}) \cup {h}, S \cup {h})
<1> DEFINE Q == (R \ {f}) \cup {h}
<1>1. \A a, b \in Q : a = b \/ Clear(a, b) \/ Clear(b, a)
  BY DEF Remembers
<1>2. ASSUME NEW a \in (S \cup {h}) \ Q, NEW b \in Q
      PROVE  Clear(a, b)
  <2>1. a \in S /\ (a \in S \ R \/ a = f)
    OBVIOUS
  <2>2. a \in Header /\ f \in Header /\ b \in Header
    OBVIOUS
  <2>3. CASE a = f /\ b = h
    BY <2>3
  <2>4. CASE a = f /\ b \in R \ {f}
    <3>1. f.start < b.start /\ b.start <= b.end
      BY <2>4
    <3>2. ~Clear(b, f)
      BY <2>2, <3>1, HeaderFields DEF Clear
    <3> QED
      BY <2>4, <3>2 DEF Remembers
  <2>5. CASE a \in S \ R /\ b = h
    <3>1. Clear(a, f) /\ f.start <= f.end
      BY <2>5 DEF Remembers
    <3> QED
      BY <2>2, <2>5, <3>1, HeaderFields DEF Clear
  <2>6. CASE a \in S \ R /\ b \in R \ {f}
    BY <2>6 DEF Remembers
  <2> QED
    BY <2>1, <2>3, <2>4, <2>5, <2>6
<1> QED
  BY <1>1, <1>2 DEF Remembers

\* Recording a header in a buffer keeps the buffer's history: push_back,
\* push_front and the sorted back-fill are the three cases.
LEMMA RecordHistory ==
  ASSUME NEW b \in Seq(Header), b # <<>>, NEW c \in Nat, Len(b) <= c, Good(b),
         NEW S \in SUBSET Header, \A x \in S : x.start <= x.end,
         History(b, c, S),
         NEW h \in Header,
         NEW s, s = IF Full(b, c) THEN Tail(b) ELSE b,
         NEW k \in 0..Len(s),
         NestFree(S \cup {h}) =>
             /\ \A x \in Elems(b) : Clear(x, h) \/ Clear(h, x)
             /\ Full(b, c) => Clear(b[1], h)
  PROVE  History(Insert(s, k, h), c, S \cup {h})
<1> DEFINE t == Insert(s, k, h)
<1>1. s \in Seq(Header) /\ Len(b) \in Nat \ {0} /\ Ordered(b)
  BY GoodTail DEF Good
<1>2. Elems(t) = Elems(s) \cup {h}
  BY <1>1, InsertElems
<1>3. Len(t) = Len(s) + 1
  <2>1. Len(s) \in Nat
    BY <1>1
  <2>2. t \in [1..(Len(s) + 1) -> Header]
    BY <1>1, <2>1 DEF Insert
  <2> QED
    BY <2>1, <2>2 DEF Insert
<1>4. NestFree(S \cup {h}) => NestFree(S)
  BY DEF NestFree
<1>5. t # <<>>
  <2>1. h \in Elems(t)
    BY <1>2
  <2>2. Elems(<<>>) = {}
    BY DEF Elems
  <2> QED
    BY <2>1, <2>2, Zenon
<1> HIDE DEF t
<1>6. CASE Full(b, c)
  <2>1. /\ Elems(s) = Elems(b) \ {b[1]} /\ b[1] \in Elems(b)
        /\ \A x \in Elems(b) \ {b[1]} : b[1].start < x.start
    BY <1>1, <1>6, TailElems
  <2>2. Elems(t) \subseteq S \cup {h}
    BY <1>2, <2>1 DEF History
  <2>3. Full(t, c)
    <3>1. Len(s) = Len(b) - 1
      BY <1>1, <1>6
    <3> QED
      BY <1>1, <1>3, <1>6, <3>1 DEF Full
  <2>4. ASSUME NestFree(S \cup {h}) PROVE Remembers(Elems(t), S \cup {h})
    <3>1. Remembers(Elems(b), S) /\ Elems(b) \subseteq S
      BY <1>4, <2>4 DEF History
    <3>2. Clear(b[1], h) /\ \A x \in Elems(b) : Clear(x, h) \/ Clear(h, x)
      BY <1>6, <2>4
    <3>3. Remembers((Elems(b) \ {b[1]}) \cup {h}, S \cup {h})
      BY <2>1, <3>1, <3>2, EvictRemembers
    <3> QED
      BY <1>2, <2>1, <3>3
  <2> QED
    BY <1>5, <2>2, <2>3, <2>4 DEF History, t
<1>7. CASE ~Full(b, c)
  <2>1. S = Elems(b) /\ s = b
    BY <1>7 DEF History
  <2>2. Elems(t) = S \cup {h}
    BY <1>2, <2>1
  <2>3. ASSUME NestFree(S \cup {h}) PROVE Remembers(Elems(t), S \cup {h})
    <3>1. Remembers(S, S) /\ \A x \in S : Clear(x, h) \/ Clear(h, x)
      BY <1>4, <2>1, <2>3 DEF History
    <3> QED
      BY <2>2, <3>1 DEF Remembers
  <2> QED
    BY <1>5, <2>2, <2>3 DEF History, t
<1> QED
  BY <1>6, <1>7

\* Under the same conditions the new header is no copy of any recorded one.
LEMMA NoCopyRecorded ==
  ASSUME NEW b \in Seq(Header), b # <<>>, NEW c \in Nat, Good(b),
         NEW S \in SUBSET Header, \A x \in S : x.start <= x.end,
         History(b, c, S),
         NEW h \in Header, h.rate < 1005,
         \A i \in 1..Len(b) : ~Same(b[i], h),
         \A x \in S, y \in S : Same(x, h) => ~(x.end < y.start /\ y.end < h.start),
         NestFree(S),
         Full(b, c) => Clear(b[1], h)
  PROVE  ~CopyIn(h, S)
<1> SUFFICES ASSUME NEW g \in S, Same(g, h) \/ g = h PROVE FALSE
  BY DEF CopyIn
<1>1. CASE g \in Elems(b)
  <2>1. ~Same(g, h)
    BY <1>1 DEF Elems
  <2>2. Same(h, h)
    BY HeaderFields DEF Same, EqThrows, Tolerance
  <2> QED
    BY <2>1, <2>2
<1>2. CASE g \notin Elems(b)
  <2>1. Full(b, c) /\ Remembers(Elems(b), S)
    BY <1>2 DEF History
  <2>2. b[1] \in Elems(b) /\ b[1] \in S /\ b[1] \in Header
    BY TailElems DEF Good, History
  <2>3. Clear(g, b[1]) /\ Clear(b[1], h)
    BY <1>2, <2>1, <2>2 DEF Remembers
  <2>4. ~Same(g, h)
    BY <2>2, <2>3 DEF Clear
  <2>5. g # h
    <3>1. g.start <= g.end /\ b[1].start <= b[1].end /\ g \in Header
      BY <2>2
    <3> QED
      BY <2>2, <2>3, <3>1, HeaderFields DEF Clear
  <2> QED
    BY <2>4, <2>5
<1> QED
  BY <1>1, <1>2

\* A packet newer than the last header comes after all of them.
LEMMA NewerIsClear ==
  ASSUME NEW b \in Seq(Header), b # <<>>, Good(b), NEW c \in Nat, NEW S,
         History(b, c, S), NestFree(S), NEW h \in Header, Newer(b, h)
  PROVE  \A x \in Elems(b) : Clear(x, h)
<1>1. /\ Len(b) \in Nat \ {0} /\ Len(b) \in 1..Len(b)
      /\ \A i \in 1..Len(b) : b[i] \in Header
  OBVIOUS
<1>2. Remembers(Elems(b), S)
  BY DEF History
<1> SUFFICES ASSUME NEW i \in 1..Len(b) PROVE Clear(b[i], h)
  BY DEF Elems
<1>3. CASE i = Len(b)
  BY <1>3 DEF Newer, Clear
<1>4. CASE i # Len(b)
  <2>1. b[i].start < b[Len(b)].start
    BY <1>1, <1>4 DEF Good, Ordered
  <2>2. b[i].start <= b[i].end /\ b[Len(b)].start <= b[Len(b)].end
    BY <1>1 DEF Good
  <2>3. b[i] \in Elems(b) /\ b[Len(b)] \in Elems(b)
    BY <1>1 DEF Elems
  <2>4. b[i] # b[Len(b)] /\ ~Clear(b[Len(b)], b[i])
    BY <1>1, <2>1, <2>2, HeaderFields DEF Clear
  <2>5. Clear(b[i], b[Len(b)])
    BY <1>2, <2>3, <2>4 DEF Remembers
  <2> QED
    BY <1>1, <2>2, <2>5, HeaderFields DEF Clear, Newer
<1> QED
  BY <1>3, <1>4

\* A packet that passes the slip test overlaps a header only if it spans it.
LEMMA FillIsClear ==
  ASSUME NEW b \in Seq(Header), b # <<>>, Good(b), NEW c \in Nat,
         NEW S, History(b, c, S), NEW h \in Header, h.start <= h.end,
         NestFree(S \cup {h}), ~Older(b, h), ~Slips(b, h)
  PROVE  /\ \A x \in Elems(b) : Clear(x, h) \/ Clear(h, x)
         /\ Clear(b[1], h)
<1>1. /\ Len(b) \in Nat \ {0} /\ 1 \in 1..Len(b)
      /\ \A i \in 1..Len(b) : b[i] \in Header
  OBVIOUS
<1>2. ASSUME NEW i \in 1..Len(b)
      PROVE  Clear(b[i], h) \/ Clear(h, b[i])
  <2>1. b[i] \in S
    BY DEF History, Elems
  <2>2. ~(h.start < b[i].start /\ b[i].end < h.end)
    BY <2>1 DEF NestFree, Nested
  <2>3. /\ ~(b[i].start <= h.start /\ h.start <= b[i].end)
        /\ ~(b[i].start <= h.end /\ h.end <= b[i].end)
    BY DEF Slips
  <2> QED
    BY <1>1, <2>2, <2>3, HeaderFields DEF Clear
<1>3. Clear(b[1], h)
  BY <1>1, <1>2 DEF Older, Clear
<1> QED
  BY <1>2, <1>3 DEF Elems

\* When allow() may answer yes.
LEMMA VerdictStep ==
  ASSUME NEW p \in Packets, NEW a \in BOOLEAN, Return(p, a),
         \/ ~a
         \/ ~CopyIn(HeaderOf(p), seen[p.name])
         \/ HeaderOf(p) \notin Elems(mCircularBuffers'[p.name])
         \/ ~NestFree(seen'[p.name])
  PROVE  NoRepeatUnlessNested'
<1>1. /\ verdict'.packet = p /\ verdict'.allow = a
      /\ verdict'.recorded = CopyIn(HeaderOf(p), seen[p.name])
  BY DEF Return
<1>2. ~NestFree(seen'[p.name]) => \E x, y \in seen'[p.name] : Nested(x, y)
  BY DEF NestFree
<1>3. SUFFICES ASSUME verdict'.allow, verdict'.recorded,
                      HeaderOf(verdict'.packet)
                          \in Elems(mCircularBuffers'[verdict'.packet.name])
               PROVE  \E x, y \in seen'[verdict'.packet.name] : Nested(x, y)
  BY DEF NoRepeatUnlessNested, Buffered, Elems
<1>4. a /\ CopyIn(HeaderOf(p), seen[p.name])
  BY <1>1, <1>3, Zenon
<1>5. HeaderOf(p) \in Elems(mCircularBuffers'[p.name])
  BY <1>1, <1>3
<1> QED
  BY <1>1, <1>2, <1>4, <1>5

\* Storing a buffer with a history keeps the histories of all channels.
LEMMA StoreHistory ==
  ASSUME TypeOK, HistoryInv, NEW p \in Packets, Readable(p), NEW t, Store(p, t),
         \A n \in Names \ {p.name} : capacity'[n] = capacity[n],
         History(t, capacity'[p.name], seen[p.name] \cup {HeaderOf(p)})
  PROVE  /\ HistoryInv'
         /\ mCircularBuffers'[p.name] = t
         /\ seen'[p.name] = seen[p.name] \cup {HeaderOf(p)}
<1>1. p.name \in Names /\ HeaderOf(p) \in Arriving(p.name)
  BY HeaderOfPacket DEF Arriving
<1>2. /\ mCircularBuffers'[p.name] = t
      /\ \A n \in Names \ {p.name} : mCircularBuffers'[n] = mCircularBuffers[n]
  BY <1>1 DEF TypeOK, Store
<1>3. /\ seen'[p.name] = seen[p.name] \cup {HeaderOf(p)}
      /\ \A n \in Names \ {p.name} : seen'[n] = seen[n]
  BY <1>1 DEF TypeOK, Store
<1>4. ASSUME NEW n \in Names
      PROVE  /\ seen'[n] \subseteq Arriving(n)
             /\ History(mCircularBuffers'[n], capacity'[n], seen'[n])
  <2>1. CASE n = p.name
    BY <1>1, <1>2, <1>3, <2>1 DEF HistoryInv
  <2>2. CASE n # p.name
    <3>1. /\ mCircularBuffers'[n] = mCircularBuffers[n] /\ seen'[n] = seen[n]
          /\ capacity'[n] = capacity[n]
      BY <1>2, <1>3, <2>2
    <3> QED
      BY <3>1 DEF HistoryInv
  <2> QED
    BY <2>1, <2>2
<1> QED
  BY <1>2, <1>3, <1>4 DEF HistoryInv, Arriving

\* Every branch of allow() keeps the histories, and lets no copy pass again.
LEMMA AllowKeepsHistory ==
  ASSUME RatesClassified, NoneBetweenCopies,
         IInv, HistoryInv, NEW p \in Packets, Allow(p)
  PROVE  HistoryInv' /\ NoRepeatUnlessNested'
<1> DEFINE n == p.name
           h == HeaderOf(p)
           b == mCircularBuffers[n]
           c == capacity[n]
           S == seen[n]
           s == IF Full(b, c) THEN Tail(b) ELSE b
<1>1. CASE Unreadable(p)
  <2>1. UNCHANGED <<mCircularBuffers, capacity, seen>> /\ verdict'.allow = FALSE
    BY <1>1 DEF Unreadable
  <2>2. HistoryInv'
    BY <2>1 DEF HistoryInv, Arriving
  <2>3. NoRepeatUnlessNested'
    BY <2>1 DEF NoRepeatUnlessNested
  <2> QED
    BY <2>2, <2>3
<1> SUFFICES ASSUME Readable(p) PROVE HistoryInv' /\ NoRepeatUnlessNested'
  BY <1>1 DEF Allow, Unreadable, NewChannel, CompareThrows,
              Duplicate, Newest, Oldest, TimingSlip, BackFill, Unknown
<1>2. /\ n \in Names /\ h \in Header /\ h.start <= h.end
      /\ b \in Seq(Header) /\ c \in Nat /\ Len(b) <= c /\ Good(b)
  BY HeaderOfPacket DEF IInv, TypeOK, GoodBuffers
<1>3. /\ S \in SUBSET Header /\ S \subseteq Arriving(n) /\ History(b, c, S)
      /\ h \in Arriving(n)
  BY <1>2 DEF IInv, TypeOK, HistoryInv, Arriving
<1>4. \A x \in S : x.start <= x.end
  BY <1>2, <1>3, ArrivingHeaders
<1>5. h.rate < 1005
  BY <1>2, <1>3 DEF RatesClassified
<1>6. ASSUME KeepBuffers
      PROVE  HistoryInv' /\ mCircularBuffers'[p.name] = b
  BY <1>6 DEF KeepBuffers, HistoryInv, Arriving
<1>7. ASSUME Unknown(p) PROVE b # <<>> /\ \A i \in 1..Len(b) : ~Same(b[i], h)
  BY <1>2, <1>7, NotFound DEF Unknown, Good
<1>8. \A x \in S, y \in S : Same(x, h) => ~(x.end < y.start /\ y.end < h.start)
  BY <1>2, <1>3 DEF NoneBetweenCopies
<1>9. /\ NestFree(S \cup {h}) => NestFree(S)
      /\ \A x \in {S, S \cup {h}} : S \subseteq x
  BY DEF NestFree
<1> HIDE DEF n, h, b, c, S
<1>10. ASSUME Unknown(p), NEW k \in 0..Len(s), Store(p, Insert(s, k, h)),
              UNCHANGED capacity,
              NestFree(S \cup {h}) =>
                  /\ \A x \in Elems(b) : Clear(x, h) \/ Clear(h, x)
                  /\ Full(b, c) => Clear(b[1], h)
       PROVE  HistoryInv' /\ (NestFree(seen'[p.name]) => ~CopyIn(h, S))
  <2>1. b # <<>> /\ \A i \in 1..Len(b) : ~Same(b[i], h)
    BY <1>7, <1>10
  <2>2. History(Insert(s, k, h), c, S \cup {h})
    BY <1>2, <1>3, <1>4, <1>10, <2>1, RecordHistory
  <2>3. History(Insert(s, k, h), capacity'[p.name],
                seen[p.name] \cup {HeaderOf(p)})
    BY <1>10, <2>2 DEF n, c, S, h
  <2>4. HistoryInv' /\ seen'[p.name] = S \cup {h}
    BY <1>10, <2>3, StoreHistory DEF IInv, n, S, h
  <2>5. ASSUME NestFree(S \cup {h}) PROVE ~CopyIn(h, S)
    BY <1>2, <1>3, <1>4, <1>5, <1>8, <1>9, <1>10, <2>1, <2>5, NoCopyRecorded
  <2> QED
    BY <2>4, <2>5
<1>11. CASE NewChannel(p)
  <2>1. PICK k \in Capacities(h) :
          IF k = 0 THEN KeepBuffers
          ELSE capacity' = [capacity EXCEPT ![p.name] = k] /\ Store(p, <<h>>)
    BY <1>11 DEF NewChannel, h
  <2>2. b = <<>> /\ S = {}
    BY <1>3, <1>11 DEF NewChannel, History, b, n
  <2>3. ~CopyIn(HeaderOf(p), seen[p.name])
    BY <2>2 DEF CopyIn, S, n
  <2>4. NoRepeatUnlessNested'
    BY <1>11, <2>3, VerdictStep DEF NewChannel
  <2>5. HistoryInv'
    <3>1. CASE k = 0
      BY <1>6, <2>1, <3>1
    <3>2. CASE k # 0
      <4>1. \A m \in Names \ {p.name} : capacity'[m] = capacity[m]
        BY <2>1, <3>2 DEF IInv, TypeOK
      <4>2. Elems(<<h>>) = {h}
        BY DEF Elems
      <4>3. Remembers({h}, {h}) /\ <<h>> # <<>>
        BY DEF Remembers
      <4>4. History(<<h>>, capacity'[p.name], {h})
        BY <4>2, <4>3 DEF History
      <4>5. {h} = seen[p.name] \cup {HeaderOf(p)}
        BY <2>2 DEF S, h, n
      <4>6. History(<<h>>, capacity'[p.name], seen[p.name] \cup {HeaderOf(p)})
        BY <4>4, <4>5
      <4> QED
        BY <2>1, <3>2, <4>1, <4>6, StoreHistory DEF IInv
    <3> QED
      BY <3>1, <3>2
  <2> QED
    BY <2>4, <2>5
<1>12. CASE CompareThrows(p)
  <2>1. KeepBuffers /\ FindThrows(b, h) /\ Return(p, TRUE)
    BY <1>12 DEF CompareThrows, b, h, n
  <2>2. h \notin Elems(b)
    <3>1. PICK i \in 1..Len(b) : EqThrows(b[i], h)
      BY <2>1 DEF FindThrows
    <3>2. b[i].rate # h.rate
      BY <1>2, <1>5, <3>1, HeaderFields DEF EqThrows
    <3> QED
      BY <1>2, <3>2 DEF Elems, Good, Uniform
  <2>3. HeaderOf(p) \notin Elems(mCircularBuffers'[p.name])
    BY <1>6, <2>1, <2>2 DEF h
  <2> QED
    BY <1>6, <2>1, <2>3, VerdictStep
<1>13. CASE Duplicate(p) \/ TimingSlip(p)
  <2>1. KeepBuffers /\ Return(p, FALSE)
    BY <1>13 DEF Duplicate, TimingSlip
  <2> QED
    BY <1>6, <2>1, VerdictStep
<1>14. CASE Newest(p)
  <2>1. /\ Unknown(p) /\ Newer(b, h) /\ Store(p, PushBack(b, c, h))
        /\ UNCHANGED capacity /\ Return(p, TRUE)
    BY <1>14 DEF Newest, b, c, h, n
  <2>2. s \in Seq(Header) /\ Len(s) \in 0..Len(s) /\ b # <<>>
    BY <1>2, <1>7, <2>1, GoodTail
  <2>3. PushBack(b, c, h) = Insert(s, Len(s), h)
    BY <1>2, <2>2, EndsAreInsertions DEF PushBack
  <2>4. ASSUME NestFree(S \cup {h})
        PROVE  /\ \A x \in Elems(b) : Clear(x, h) \/ Clear(h, x)
               /\ Full(b, c) => Clear(b[1], h)
    <3>1. \A x \in Elems(b) : Clear(x, h)
      BY <1>2, <1>3, <1>9, <2>1, <2>2, <2>4, NewerIsClear
    <3>2. b[1] \in Elems(b)
      BY <1>2, <2>2, TailElems DEF Good
    <3> QED
      BY <3>1, <3>2
  <2>5. HistoryInv' /\ (NestFree(seen'[p.name]) => ~CopyIn(h, S))
    BY <1>10, <2>1, <2>2, <2>3, <2>4
  <2> QED
    BY <2>1, <2>5, VerdictStep DEF h, S, n
<1>15. CASE Oldest(p)
  <2>1. Unknown(p) /\ Older(b, h) /\ UNCHANGED capacity /\ Return(p, FALSE)
    BY <1>15 DEF Oldest, b, h, n
  <2>2. CASE Full(b, c)
    <3>1. KeepBuffers
      BY <1>15, <2>2 DEF Oldest, KeepBuffers, b, c, n
    <3> QED
      BY <1>6, <2>1, <3>1, VerdictStep
  <2>3. CASE ~Full(b, c)
    <3>1. Store(p, Insert(s, 0, h)) /\ 0 \in 0..Len(s)
      <4>1. Store(p, <<h>> \o b)
        BY <1>15, <2>3 DEF Oldest, b, c, h, n
      <4>2. s = b /\ Len(b) \in Nat
        BY <1>2, <2>3
      <4>3. <<h>> \o b = Insert(b, 0, h)
        BY <1>2, EndsAreInsertions
      <4> HIDE DEF s
      <4>4. <<h>> \o b = Insert(s, 0, h) /\ 0 \in 0..Len(s)
        BY <4>2, <4>3
      <4> QED
        BY <4>1, <4>4 DEF Store
    <3>2. \A x \in Elems(b) : Clear(h, x)
      <4>1. b # <<>>
        BY <1>7, <2>1
      <4>2. /\ b[1] \in Header /\ \A i \in 1..Len(b) : b[i] \in Header
            /\ \A i \in 1..Len(b) : i = 1 \/ b[1].start < b[i].start
        BY <1>2, <4>1 DEF Good, Ordered
      <4> QED
        BY <1>2, <2>1, <4>2, HeaderFields DEF Elems, Clear, Older
    <3>3. HistoryInv'
      BY <1>10, <2>1, <2>3, <3>1, <3>2
    <3> QED
      BY <2>1, <3>3, VerdictStep
  <2> QED
    BY <2>2, <2>3
<1>16. CASE BackFill(p)
  <2>1. /\ Unknown(p) /\ ~Older(b, h) /\ ~Slips(b, h)
        /\ UNCHANGED capacity /\ Return(p, TRUE)
    BY <1>16 DEF BackFill, b, h, n
  <2>2. PICK k \in SortedPlaces(s, h) : Store(p, Insert(s, k, h))
    BY <1>16 DEF BackFill, b, c, h, n
  <2>3. k \in 0..Len(s)
    BY DEF SortedPlaces
  <2>4. ASSUME NestFree(S \cup {h})
        PROVE  /\ \A x \in Elems(b) : Clear(x, h) \/ Clear(h, x)
               /\ Clear(b[1], h)
    BY <1>2, <1>3, <1>7, <2>1, <2>4, FillIsClear
  <2>5. HistoryInv' /\ (NestFree(seen'[p.name]) => ~CopyIn(h, S))
    BY <1>10, <2>1, <2>2, <2>3, <2>4
  <2> QED
    BY <2>1, <2>5, VerdictStep DEF h, S, n
<1> QED
  BY <1>1, <1>11, <1>12, <1>13, <1>14, <1>15, <1>16 DEF Allow

\* A copy of a recorded packet is recorded and passed again only on a channel
\* that has recorded a packet spanning another one: whatever the order of the
\* packets, the capacity of the buffer and the number of evictions.
THEOREM NoRepeat ==
  ASSUME RatesClassified, NoneBetweenCopies
  PROVE  Spec => []NoRepeatUnlessNested
<1>1. Init => HistoryInv /\ NoRepeatUnlessNested
  <2> SUFFICES ASSUME Init PROVE HistoryInv /\ NoRepeatUnlessNested
    OBVIOUS
  <2>1. \A n \in Names : mCircularBuffers[n] = <<>> /\ seen[n] = {}
    BY DEF Init
  <2>2. \A c : History(<<>>, c, {})
    BY DEF History, Elems, Remembers
  <2>3. HistoryInv
    BY <2>1, <2>2 DEF HistoryInv
  <2>4. NoRepeatUnlessNested
    BY DEF Init, NoRepeatUnlessNested
  <2> QED
    BY <2>3, <2>4
<1>2. /\ IInv /\ HistoryInv /\ NoRepeatUnlessNested /\ [Next]_vars
      => HistoryInv' /\ NoRepeatUnlessNested'
  <2> SUFFICES ASSUME IInv, HistoryInv, NoRepeatUnlessNested, [Next]_vars
               PROVE  HistoryInv' /\ NoRepeatUnlessNested'
    OBVIOUS
  <2>1. CASE \E p \in Packets : Allow(p)
    BY <2>1, AllowKeepsHistory
  <2>2. CASE Tick \/ UNCHANGED vars
    <3>1. UNCHANGED <<mCircularBuffers, capacity, verdict, seen>>
      BY <2>2 DEF Tick, vars
    <3>2. HistoryInv'
      BY <3>1 DEF HistoryInv, Arriving
    <3>3. NoRepeatUnlessNested'
      BY <3>1 DEF NoRepeatUnlessNested, Buffered
    <3> QED
      BY <3>2, <3>3
  <2> QED
    BY <2>1, <2>2 DEF Next
<1> QED
  BY <1>1, <1>2, Invariance, PTL DEF Spec
---------------------------------------------------------------------------
(***************************************************************************)
(* The estimated capacity.                                                 *)
(***************************************************************************)

\* What integer division yields.
LEMMA DivBounds ==
  ASSUME NEW a \in Nat, NEW b \in Nat \ {0}
  PROVE  /\ a \div b \in Nat
         /\ b * (a \div b) <= a
         /\ a < b * (a \div b) + b
  OBVIOUS

\* What std::round yields: within half of the exact quotient.
LEMMA RoundBounds ==
  ASSUME NEW x \in Nat, NEW y \in Nat \ {0}
  PROVE  /\ RoundDiv(x, y) \in Nat
         /\ 2 * (y * RoundDiv(x, y)) <= 2 * x + y
         /\ 2 * x < 2 * (y * RoundDiv(x, y)) + y
<1>1. 2 * x + y \in Nat /\ 2 * y \in Nat \ {0}
  OBVIOUS
<1>2. /\ RoundDiv(x, y) \in Nat
      /\ (2 * y) * RoundDiv(x, y) <= 2 * x + y
      /\ 2 * x + y < (2 * y) * RoundDiv(x, y) + 2 * y
  BY <1>1, DivBounds DEF RoundDiv
<1>3. (2 * y) * RoundDiv(x, y) = 2 * (y * RoundDiv(x, y))
  BY <1>2
<1> QED
  BY <1>2, <1>3

\* Multiplication is monotonic.
LEMMA TimesMonotonic ==
  ASSUME NEW a \in Nat, NEW b \in Nat, NEW c \in Nat, a <= b
  PROVE  c * a <= c * b
  OBVIOUS

\* A positive factor cancels.
LEMMA TimesCancels ==
  ASSUME NEW a \in Nat, NEW b \in Nat, NEW c \in Nat \ {0}, c * a < c * b
  PROVE  a < b
  OBVIOUS

\* Linear consequences, for the next lemma.
LEMMA DurationChain ==
  ASSUME NEW x \in Nat, NEW y \in Nat, NEW z \in Nat, NEW w \in Nat,
         NEW r \in Nat, NEW N \in Nat,
         20000000 * N < 2 * x + r, z <= 2 * N,
         x <= 1000 * y + 999 * r, 2000 * y + 1999 * r <= w
  PROVE  10000000 * z < w
  BY SMT

\* The duration d that estimateCapacity computes from the rounded rate q of a
\* packet with N sample intervals that lasts E microseconds at r tenths of a
\* hertz: neither zero nor more than three times the true one.  The hypotheses
\* are the bounds of the three roundings.
LEMMA DurationBounds ==
  ASSUME NEW N \in Nat, NEW r \in Nat \ {0}, NEW E \in Nat,
         NEW d \in Nat, NEW q \in Nat \ {0},
         2 * (r * E) <= 20000000 * N + r,
         20000000 * N < 2 * (r * E) + r,
         q = 1 \/ 20 * q <= 2 * r + 10,
         2 * r < 20 * q + 10,
         2 * (q * d) <= 2 * N + q,
         2 * N < 2 * (q * d) + q,
         E \div 1000 > 500
  PROVE  d > 0 /\ 3 * (E \div 1000) >= 1000 * d
<1> DEFINE m == E \div 1000
<1>1. m \in Nat /\ 1000 * m <= E /\ E <= 1000 * m + 999 /\ m >= 501
  BY DivBounds, SMT
<1>2. r * E \in Nat /\ r * m \in Nat /\ q * d \in Nat /\ q * m \in Nat
  BY <1>1, SMT
<1> HIDE DEF m
<1>3. 501000 * r <= r * E
  <2>1. 501000 <= E
    BY <1>1, SMT
  <2> QED
    BY <2>1, TimesMonotonic, SMT
<1>4. r < 20 * N
  BY <1>2, <1>3, SMT
<1>5. q <= 2 * N
  BY <1>4, SMT
<1>6. d > 0
  BY <1>2, <1>5, SMT
<1>7. q * d <= 2 * N
  <2>1. q * 1 <= q * d
    BY <1>6, TimesMonotonic, SMT
  <2> QED
    BY <1>2, <2>1, SMT
<1>8. r <= 14 * q
  BY SMT
<1>9. r * E <= r * (1000 * m + 999)
  BY <1>1, TimesMonotonic, SMT
<1>10. (2000 * m + 1999) * r <= (2000 * m + 1999) * (14 * q)
  <2>1. 2000 * m + 1999 \in Nat /\ 14 * q \in Nat
    BY <1>1, SMT
  <2> QED
    BY <1>8, <2>1, TimesMonotonic, SMT
<1>11. /\ r * (1000 * m + 999) = 1000 * (r * m) + 999 * r
       /\ (2000 * m + 1999) * r = 2000 * (r * m) + 1999 * r
       /\ (2000 * m + 1999) * (14 * q) = q * (28000 * m + 27986)
       /\ q * (10000000 * d) = 10000000 * (q * d)
  BY <1>1, SMT
<1>12. q * (28000 * m + 27986) \in Nat
  BY <1>1, SMT
<1>13. /\ r * E <= 1000 * (r * m) + 999 * r
       /\ 2000 * (r * m) + 1999 * r <= q * (28000 * m + 27986)
  BY <1>9, <1>10, <1>11, SMT
<1>14. 10000000 * (q * d) < q * (28000 * m + 27986)
  BY <1>2, <1>7, <1>12, <1>13, DurationChain, SMT
<1>15. 10000000 * d < 28000 * m + 27986
  BY <1>1, <1>11, <1>14, TimesCancels, SMT
<1> QED
  BY <1>1, <1>6, <1>15, SMT DEF m

\* A buffer with room for 1.5 times the duration D divided by d holds half of D
\* in packets of m milliseconds, when d is at most three times too long.
LEMMA RoomForHalf ==
  ASSUME NEW D \in Nat, NEW d \in Nat \ {0}, NEW m \in Nat, NEW c \in Nat,
         3 * m >= 1000 * d, c >= (3 * D) \div (2 * d) + 1
  PROVE  2 * c * m >= D * 1000
<1> DEFINE k == (3 * D) \div (2 * d)
<1>1. k \in Nat /\ 3 * D < (2 * d) * k + 2 * d
  <2>1. 3 * D \in Nat /\ 2 * d \in Nat \ {0}
    OBVIOUS
  <2> QED
    BY <2>1, DivBounds
<1> HIDE DEF k
<1>2. d * (k + 1) <= d * c
  <2>1. k + 1 <= c
    BY DEF k
  <2> QED
    BY <1>1, <2>1, TimesMonotonic
<1>3. (2 * d) * k + 2 * d = 2 * (d * (k + 1))
  BY <1>1
<1>4. c * (1000 * d) <= c * (3 * m)
  BY TimesMonotonic
<1>5. /\ c * (1000 * d) = 1000 * (d * c) /\ c * (3 * m) = 3 * (c * m)
      /\ 2 * c * m = 2 * (c * m)
  OBVIOUS
<1>6. d * c \in Nat /\ c * m \in Nat /\ d * (k + 1) \in Nat
  BY <1>1
<1> QED
  BY <1>1, <1>2, <1>3, <1>4, <1>5, <1>6

\* estimateCapacity gives every buffer it can be made with room for 11 headers,
\* and for half of the duration in packets like the first.
LEMMA EstimateSuffices ==
  ASSUME NEW p \in Packets, Readable(p), NEW c \in Estimates(HeaderOf(p)), c # 0
  PROVE  LET h == HeaderOf(p)
             m == (h.end - h.start) \div 1000
         IN  /\ c \in Nat /\ c >= 11
             /\ m > 500 => 2 * c * m >= CircularBufferDuration * 1000
<1> DEFINE h == HeaderOf(p)
           N == p.nSamples - 1
           R == RoundDiv(p.rate, 10)
           q == IF R < 1 THEN 1 ELSE R
           d == RoundDiv(N, q)
           E == RoundDiv(N * 10000000, p.rate)
           k == (3 * CircularBufferDuration) \div (2 * d)
<1>1. /\ p.start \in Nat /\ p.rate \in Nat \ {0} /\ p.nSamples \in Nat \ {0}
  BY PacketsAssumption DEF Packet, Readable
<1>2. N \in Nat /\ N * 10000000 \in Nat
  BY <1>1
<1>3. R \in Nat
  BY <1>1, RoundNat
<1>4. q \in Nat \ {0}
  BY <1>3
<1>5. d \in Nat
  BY <1>2, <1>4, RoundNat
<1>6. E \in Nat
  BY <1>1, <1>2, RoundNat
<1>7. /\ h.nSamples = p.nSamples /\ h.rate = R
      /\ h.start = p.start /\ h.end = p.start + E
  BY DEF HeaderOf, EndTime
<1>8. CircularBufferDuration \in Nat
  BY CapacityAssumption
<1>9. IF d = 0 THEN c \in {0, 11} ELSE c = (IF k < 10 THEN 10 ELSE k) + 1
  BY <1>7 DEF Estimates
<1>10. ASSUME E \div 1000 > 500
       PROVE  d > 0 /\ 3 * (E \div 1000) >= 1000 * d
  <2>1. /\ 2 * (p.rate * E) <= 2 * (N * 10000000) + p.rate
        /\ 2 * (N * 10000000) < 2 * (p.rate * E) + p.rate
    <3> DEFINE x == N * 10000000
    <3>1. x \in Nat /\ E = RoundDiv(x, p.rate)
      BY <1>2, SMT
    <3> HIDE DEF x, E
    <3>2. 2 * (p.rate * E) <= 2 * x + p.rate /\ 2 * x < 2 * (p.rate * E) + p.rate
      BY <1>1, <3>1, RoundBounds, SMT
    <3> QED
      BY <3>2, SMT DEF x
  <2>2. 2 * (10 * R) <= 2 * p.rate + 10 /\ 2 * p.rate < 2 * (10 * R) + 10
    BY <1>1, RoundBounds, SMT
  <2> HIDE DEF R, E
  <2>3. 2 * (q * d) <= 2 * N + q /\ 2 * N < 2 * (q * d) + q
    <3> HIDE DEF N, q
    <3> QED
      BY <1>2, <1>4, RoundBounds, SMT
  <2>4. /\ q = 1 \/ 20 * q <= 2 * p.rate + 10
        /\ 2 * p.rate < 20 * q + 10
    BY <1>1, <1>3, <2>2, SMT
  <2>5. 2 * (N * 10000000) = 20000000 * N
    BY <1>2, SMT
  <2>6. /\ 2 * (p.rate * E) <= 20000000 * N + p.rate
        /\ 20000000 * N < 2 * (p.rate * E) + p.rate
    BY <2>1, <2>5, SMT
  <2> HIDE DEF N, q, d
  <2>7. \A r \in Nat \ {0} :
           /\ 2 * (r * E) <= 20000000 * N + r
           /\ 20000000 * N < 2 * (r * E) + r
           /\ q = 1 \/ 20 * q <= 2 * r + 10
           /\ 2 * r < 20 * q + 10
           => d > 0 /\ 3 * (E \div 1000) >= 1000 * d
    BY <1>2, <1>4, <1>5, <1>6, <1>10, <2>3, DurationBounds, SMT
  <2> QED
    BY <1>1, <2>4, <2>6, <2>7, SMT
<1> HIDE DEF N, R, q, d, E, k, h
<1>11. h.end - h.start = E
  BY <1>1, <1>6, <1>7
<1>12. CASE d = 0
  <2>1. c = 11
    BY <1>9, <1>12
  <2>2. ~(E \div 1000 > 500)
    BY <1>12, <1>10
  <2> QED
    BY <1>11, <2>1, <2>2 DEF h
<1>13. CASE d # 0
  <2>1. k \in Nat
    <3>1. 3 * CircularBufferDuration \in Nat /\ 2 * d \in Nat \ {0}
      BY <1>5, <1>8, <1>13
    <3> QED
      BY <3>1, DivNat DEF k
  <2>2. c \in Nat /\ c >= 11 /\ c >= k + 1
    BY <1>9, <1>13, <2>1
  <2>3. ASSUME E \div 1000 > 500
        PROVE  2 * c * (E \div 1000) >= CircularBufferDuration * 1000
    <3>1. 3 * (E \div 1000) >= 1000 * d
      BY <1>10, <2>3
    <3>2. E \div 1000 \in Nat
      BY <1>6, DivNat
    <3>3. d \in Nat \ {0} /\ c >= (3 * CircularBufferDuration) \div (2 * d) + 1
      BY <1>5, <1>13, <2>2 DEF k
    <3> QED
      BY <1>8, <2>2, <3>1, <3>2, <3>3, RoomForHalf
  <2> QED
    BY <1>11, <2>2, <2>3 DEF h
<1> QED
  BY <1>12, <1>13

\* A buffer with headers has an estimated capacity of at least 11, which was
\* estimated from the header that it holds as long as it holds only one.
Room(b, c, headers) ==
    b # <<>> => /\ c >= 11
                /\ Len(b) = 1 => b[1] \in headers /\ c \in Estimates(b[1])

RoomInv == \A n \in Names : Room(mCircularBuffers[n], capacity[n], Arriving(n))

\* Storing a buffer with room keeps the rooms of all channels.
LEMMA StoreRoom ==
  ASSUME TypeOK, RoomInv, NEW p \in Packets, Readable(p), NEW t, Store(p, t),
         \A n \in Names \ {p.name} : capacity'[n] = capacity[n],
         Room(t, capacity'[p.name], Arriving(p.name))
  PROVE  RoomInv'
<1>1. p.name \in Names
  BY HeaderOfPacket
<1>2. /\ mCircularBuffers'[p.name] = t
      /\ \A n \in Names \ {p.name} : mCircularBuffers'[n] = mCircularBuffers[n]
  BY <1>1 DEF TypeOK, Store
<1>3. ASSUME NEW n \in Names
      PROVE  Room(mCircularBuffers'[n], capacity'[n], Arriving(n))
  <2>1. CASE n = p.name
    BY <1>2, <2>1
  <2>2. CASE n # p.name
    <3>1. mCircularBuffers'[n] = mCircularBuffers[n] /\ capacity'[n] = capacity[n]
      BY <1>2, <2>2
    <3> QED
      BY <3>1 DEF RoomInv
  <2> QED
    BY <2>1, <2>2
<1> QED
  BY <1>3 DEF RoomInv, Arriving

\* Every branch of allow() keeps the rooms.
LEMMA AllowKeepsRoom ==
  ASSUME EstimateCapacity, IInv, RoomInv, NEW p \in Packets, Allow(p)
  PROVE  RoomInv'
<1> DEFINE n == p.name
           h == HeaderOf(p)
           b == mCircularBuffers[n]
           c == capacity[n]
           s == IF Full(b, c) THEN Tail(b) ELSE b
<1>1. ASSUME UNCHANGED <<mCircularBuffers, capacity>> PROVE RoomInv'
  BY <1>1 DEF RoomInv, Arriving
<1>2. CASE \/ Unreadable(p) \/ CompareThrows(p) \/ Duplicate(p) \/ TimingSlip(p)
  <2>1. UNCHANGED <<mCircularBuffers, capacity>>
    BY <1>2 DEF Unreadable, CompareThrows, Duplicate, TimingSlip, KeepBuffers
  <2> QED
    BY <1>1, <2>1
<1>3. CASE NewChannel(p)
  <2>1. PICK k \in Capacities(h) :
          IF k = 0 THEN KeepBuffers
          ELSE capacity' = [capacity EXCEPT ![p.name] = k] /\ Store(p, <<h>>)
    BY <1>3 DEF NewChannel
  <2>2. Readable(p)
    BY <1>3 DEF NewChannel
  <2>3. CASE k = 0
    BY <1>1, <2>1, <2>3 DEF KeepBuffers
  <2>4. CASE k # 0
    <3>1. k \in Estimates(h)
      BY DEF Capacities
    <3>2. k >= 11
      BY <2>2, <2>4, <3>1, EstimateSuffices
    <3>3. p.name \in Names /\ h \in Arriving(p.name)
      BY <2>2, HeaderOfPacket DEF Arriving
    <3>4. capacity'[p.name] = k /\ \A m \in Names \ {p.name} : capacity'[m] = capacity[m]
      BY <2>1, <2>4, <3>3 DEF IInv, TypeOK
    <3>5. <<h>>[1] = h
      OBVIOUS
    <3>6. Room(<<h>>, k, Arriving(p.name))
      BY <3>1, <3>2, <3>3, <3>5 DEF Room
    <3> QED
      BY <2>1, <2>2, <2>4, <3>4, <3>6, StoreRoom DEF IInv
  <2> QED
    BY <2>3, <2>4
<1>4. ASSUME Unknown(p) PROVE
        /\ Readable(p) /\ n \in Names /\ h \in Header
        /\ b \in Seq(Header) /\ b # <<>> /\ c \in Nat /\ Len(b) <= c
        /\ c >= 11 /\ s \in Seq(Header) /\ Len(s) \in Nat \ {0}
  <2>1. Readable(p) /\ b # <<>>
    BY <1>4 DEF Unknown
  <2>2. /\ n \in Names /\ h \in Header
        /\ b \in Seq(Header) /\ c \in Nat /\ Len(b) <= c /\ Good(b)
    BY <2>1, HeaderOfPacket DEF IInv, TypeOK, GoodBuffers
  <2>3. c >= 11
    BY <2>1, <2>2 DEF RoomInv, Room
  <2>4. s \in Seq(Header)
    BY <2>1, <2>2, GoodTail
  <2>5. Len(b) \in Nat \ {0}
    BY <2>1, <2>2
  <2>6. CASE Full(b, c)
    <3>1. Len(s) = Len(b) - 1
      BY <2>2, <2>5, <2>6
    <3> HIDE DEF s, b, c
    <3>2. Len(b) = c
      BY <2>6 DEF Full
    <3>3. Len(s) \in Nat \ {0}
      BY <2>2, <2>3, <3>1, <3>2
    <3> QED
      BY <2>1, <2>2, <2>3, <2>4, <3>3
  <2>7. CASE ~Full(b, c)
    BY <2>1, <2>2, <2>3, <2>4, <2>5, <2>7
  <2> QED
    BY <2>6, <2>7
<1>5. ASSUME Unknown(p), UNCHANGED capacity, NEW t, Store(p, t), Len(t) # 1
      PROVE  RoomInv'
  <2>1. capacity'[p.name] >= 11
    BY <1>4, <1>5
  <2>2. Room(t, capacity'[p.name], Arriving(p.name))
    BY <1>5, <2>1, Zenon DEF Room
  <2> QED
    BY <1>4, <1>5, <2>2, StoreRoom DEF IInv
<1> HIDE DEF s, b, c, h, n
<1>6. CASE Newest(p)
  <2>1. Unknown(p) /\ Store(p, PushBack(b, c, h)) /\ UNCHANGED capacity
    BY <1>6 DEF Newest, b, c, h, n
  <2>2. PushBack(b, c, h) = Append(s, h)
    BY DEF PushBack, s
  <2>3. Len(Append(s, h)) = Len(s) + 1
    BY <1>4, <2>1
  <2>4. Len(PushBack(b, c, h)) # 1
    BY <1>4, <2>1, <2>2, <2>3
  <2> QED
    BY <1>5, <2>1, <2>4
<1>7. CASE Oldest(p)
  <2>1. Unknown(p) /\ UNCHANGED capacity
    BY <1>7 DEF Oldest
  <2>2. CASE Full(b, c)
    <3>1. UNCHANGED mCircularBuffers
      BY <1>7, <2>2 DEF Oldest, b, c, n
    <3> QED
      BY <1>1, <2>1, <3>1
  <2>3. CASE ~Full(b, c)
    <3>1. Store(p, <<h>> \o b)
      BY <1>7, <2>3 DEF Oldest, b, c, h, n
    <3>2. Len(<<h>> \o b) = 1 + Len(b) /\ Len(b) \in Nat \ {0}
      BY <1>4, <2>1
    <3>3. Len(<<h>> \o b) # 1
      BY <3>2
    <3> QED
      BY <1>5, <2>1, <3>1, <3>3
  <2> QED
    BY <2>2, <2>3
<1>8. CASE BackFill(p)
  <2>1. Unknown(p) /\ UNCHANGED capacity
    BY <1>8 DEF BackFill
  <2>2. PICK k \in SortedPlaces(s, h) : Store(p, Insert(s, k, h))
    BY <1>8 DEF BackFill, s, b, c, h, n
  <2>3. Len(Insert(s, k, h)) = Len(s) + 1
    BY <1>4, <2>1 DEF Insert
  <2>4. Len(Insert(s, k, h)) # 1
    BY <1>4, <2>1, <2>3
  <2> QED
    BY <1>5, <2>1, <2>2, <2>4
<1> QED
  BY <1>2, <1>3, <1>6, <1>7, <1>8 DEF Allow

\* The capacity that estimateCapacity derives from a channel's first packet of
\* more than half a second covers half of the configured duration, for every
\* rate, number of samples and duration.
THEOREM CapacitySuffices == Spec => []SpansDuration
<1>1. Init => RoomInv
  BY DEF Init, RoomInv, Room
<1>2. ASSUME EstimateCapacity, IInv, RoomInv, [Next]_vars
      PROVE  RoomInv'
  <2>1. CASE \E p \in Packets : Allow(p)
    BY <1>2, <2>1, AllowKeepsRoom
  <2>2. CASE Tick \/ UNCHANGED vars
    BY <1>2, <2>2 DEF Tick, vars, RoomInv, Arriving
  <2> QED
    BY <1>2, <2>1, <2>2 DEF Next
<1>3. (EstimateCapacity => RoomInv) /\ IInv /\ [Next]_vars
      => (EstimateCapacity => RoomInv)'
  BY <1>2
<1>4. (EstimateCapacity => RoomInv) /\ IInv => SpansDuration
  <2> SUFFICES ASSUME EstimateCapacity, RoomInv, IInv,
                      NEW n \in Names, Len(mCircularBuffers[n]) = 1
               PROVE  LET h == mCircularBuffers[n][1]
                          m == (h.end - h.start) \div 1000
                      IN  m > 500 =>
                              2 * capacity[n] * m >= CircularBufferDuration * 1000
    BY DEF SpansDuration
  <2>1. /\ mCircularBuffers[n] # <<>> /\ capacity[n] >= 11
        /\ mCircularBuffers[n][1] \in Arriving(n)
        /\ capacity[n] \in Estimates(mCircularBuffers[n][1])
    <3>1. mCircularBuffers[n] # <<>>
      OBVIOUS
    <3>2. Room(mCircularBuffers[n], capacity[n], Arriving(n))
      BY DEF RoomInv
    <3> QED
      BY <3>1, <3>2, Zenon DEF Room
  <2>2. PICK p \in Packets : Readable(p) /\ mCircularBuffers[n][1] = HeaderOf(p)
    BY <2>1 DEF Arriving
  <2>3. capacity[n] \in Nat /\ capacity[n] # 0
    BY <2>1 DEF IInv, TypeOK
  <2> QED
    BY <2>1, <2>2, <2>3, EstimateSuffices
<1> QED
  BY <1>1, <1>3, <1>4, Invariance, PTL DEF Spec
===========================================================================
