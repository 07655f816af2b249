--------------------------- MODULE Import_proofs ---------------------------
(***************************************************************************)
(* Proofs for DataPacket, StreamSelector and Import, for all names, times, *)
(* rates, sample counts, files and records.  However a program calls the   *)
(* setters, the cached end time is that of the last sample; a packet       *)
(* arrives behind two hops as it was handed over; and the server is asked  *)
(* for what the accepted lines of the initialization file select.          *)
(***************************************************************************)
EXTENDS Import, TLAPS

\* A packet with members of their types whose cached end time is what
\* updateEndTime() makes of the other members.  EndTimeFresh alone is not
\* inductive: it says nothing of a packet without rate or samples, whose end
\* time the next setter must still compute from a start time of its type.
Fresh(p) ==
    /\ p \in DataPacket
    /\ p.dataType = "Unknown" <=> p.nSamples = 0
    /\ p.end = UpdateEndTime(p).end

PacketInv == Fresh(packet)

\* A duration rounds to a natural number of microseconds.
LEMMA RoundDivNat ==
    ASSUME NEW x \in Nat, NEW y \in Nat \ {0} PROVE RoundDiv(x, y) \in Nat
<1>1. 2 * x + y \in Nat /\ 2 * y \in Nat /\ 2 * y > 0
  OBVIOUS
<1>2. ASSUME NEW a \in Nat, NEW b \in Nat, b > 0 PROVE a \div b \in Nat
  BY <1>2
<1> QED
  BY <1>1, <1>2 DEF RoundDiv

\* The time of the last sample has the type of a time.
LEMMA LastSampleNat ==
    ASSUME NEW p \in DataPacket, p.nSamples > 0, p.rate > 0
    PROVE  LastSample(p) \in Nat
<1>1. p.start \in Nat /\ p.nSamples \in Nat /\ p.rate \in Nat \ {0}
  BY DEF DataPacket
<1>2. (p.nSamples - 1) * 10000000 \in Nat
  BY <1>1
<1>3. RoundDiv((p.nSamples - 1) * 10000000, p.rate) \in Nat
  BY <1>1, <1>2, RoundDivNat
<1> QED
  BY <1>1, <1>3 DEF LastSample

\* updateEndTime() changes nothing but the end time.
LEMMA UpdateKeeps ==
    ASSUME NEW p \in DataPacket
    PROVE  LET q == UpdateEndTime(p)
           IN  /\ q \in DataPacket
               /\ q.names = p.names /\ q.start = p.start /\ q.rate = p.rate
               /\ q.dataType = p.dataType /\ q.nSamples = p.nSamples
               /\ q.precision = p.precision
               /\ q.end = IF p.nSamples > 0 /\ HaveSamplingRate(p)
                          THEN LastSample(p) ELSE p.start
<1> DEFINE q == UpdateEndTime(p)
           fresh == IF p.nSamples > 0 /\ HaveSamplingRate(p)
                    THEN LastSample(p) ELSE p.start
<1>1. fresh \in Nat
  BY LastSampleNat DEF HaveSamplingRate, DataPacket
<1>2. q = [p EXCEPT !.end = fresh]
  BY DEF UpdateEndTime
<1> HIDE DEF fresh, q
<1>3. q \in DataPacket
  BY <1>1, <1>2 DEF DataPacket
<1>4. /\ q.names = p.names /\ q.start = p.start /\ q.rate = p.rate
      /\ q.dataType = p.dataType /\ q.nSamples = p.nSamples
      /\ q.precision = p.precision /\ q.end = fresh
  BY <1>2 DEF DataPacket
<1> QED
  BY <1>3, <1>4 DEF q, fresh

\* Packets with equal members are equal.
LEMMA SamePacket ==
    ASSUME NEW p \in DataPacket, NEW q \in DataPacket,
           p.names = q.names, p.start = q.start, p.end = q.end,
           p.rate = q.rate, p.dataType = q.dataType,
           p.nSamples = q.nSamples, p.precision = q.precision
    PROVE  p = q
  BY DEF DataPacket

\* updateEndTime() at the end of a setter makes the end time fresh, whatever it
\* was before.
LEMMA UpdateFreshens ==
    ASSUME NEW p \in DataPacket, p.dataType = "Unknown" <=> p.nSamples = 0
    PROVE  Fresh(UpdateEndTime(p))
<1> DEFINE q == UpdateEndTime(p)
<1>1. /\ q \in DataPacket
      /\ q.nSamples = p.nSamples /\ q.rate = p.rate /\ q.start = p.start
      /\ q.dataType = p.dataType
      /\ q.end = IF p.nSamples > 0 /\ HaveSamplingRate(p)
                 THEN LastSample(p) ELSE p.start
  BY UpdateKeeps
<1> HIDE DEF q
<1>2. LastSample(q) = LastSample(p) /\ HaveSamplingRate(q) = HaveSamplingRate(p)
  BY <1>1 DEF LastSample, HaveSamplingRate
<1>3. UpdateEndTime(q).end = q.end
  BY <1>1, <1>2, UpdateKeeps
<1>4. Fresh(q)
  BY <1>1, <1>3 DEF Fresh
<1> QED
  BY <1>4 DEF q

\* The empty packet of the constructor and of clear() is fresh.
LEMMA EmptyFresh == Fresh(EmptyPacket)
<1>1. EmptyPacket \in DataPacket
  BY DEF EmptyPacket, DataPacket, Precisions
<1> QED
  BY <1>1 DEF Fresh, EmptyPacket, UpdateEndTime

\* Names do not bear on the end time.
LEMMA NameFresh ==
    ASSUME NEW p, Fresh(p), NEW part \in Parts, NEW s \in Spellings, ~isEmpty(s)
    PROVE  Fresh(SetName(p, part, s))
<1> DEFINE q == SetName(p, part, s)
<1>1. s.code \in Codes
  BY PacketAssumption DEF isEmpty, Spelling
<1>2. q = [p EXCEPT !.names[part] = s.code]
  BY DEF SetName, convertString
<1>3. p \in DataPacket
  BY DEF Fresh
<1>4. /\ q.nSamples = p.nSamples /\ q.rate = p.rate /\ q.start = p.start
      /\ q.dataType = p.dataType /\ q.end = p.end
      /\ q \in DataPacket
  <2> HIDE DEF q
  <2> QED
    BY <1>1, <1>2, <1>3 DEF DataPacket
<1> HIDE DEF q
<1>5. UpdateEndTime(q).end = UpdateEndTime(p).end
  BY <1>3, <1>4 DEF UpdateEndTime, HaveSamplingRate, LastSample, DataPacket
<1>6. Fresh(q)
  BY <1>4, <1>5 DEF Fresh
<1> QED
  BY <1>6 DEF q

\* Each setter of the rate, the start time or the samples leaves a packet that
\* updateEndTime() can freshen.
LEMMA RateFresh ==
    ASSUME NEW p, Fresh(p), NEW rate \in Int, rate > 0
    PROVE  Fresh(SetSamplingRate(p, rate))
<1> DEFINE q == [p EXCEPT !.rate = rate]
<1>1. rate \in Nat
  OBVIOUS
<1>2. q \in DataPacket /\ (q.dataType = "Unknown" <=> q.nSamples = 0)
  BY <1>1 DEF Fresh, DataPacket
<1> HIDE DEF q
<1>3. Fresh(UpdateEndTime(q))
  BY <1>2, UpdateFreshens
<1> QED
  BY <1>3 DEF SetSamplingRate, q

LEMMA StartFresh ==
    ASSUME NEW p, Fresh(p), NEW time \in Nat
    PROVE  Fresh(SetStartTime(p, time))
<1> DEFINE q == [p EXCEPT !.start = time]
<1>2. q \in DataPacket /\ (q.dataType = "Unknown" <=> q.nSamples = 0)
  BY DEF Fresh, DataPacket
<1> HIDE DEF q
<1>3. Fresh(UpdateEndTime(q))
  BY <1>2, UpdateFreshens
<1> QED
  BY <1>3 DEF SetStartTime, q

LEMMA DataFresh ==
    ASSUME NEW p, Fresh(p), NEW type \in DataTypes, NEW n \in Nat,
           NEW precision \in Precisions
    PROVE  Fresh(SetData(p, type, n, precision))
<1> DEFINE q == IF n = 0 THEN p
                ELSE [p EXCEPT !.dataType = type, !.nSamples = n,
                               !.precision = precision]
<1>1. type # "Unknown"
  BY DEF DataTypes
<1>2. q \in DataPacket /\ (q.dataType = "Unknown" <=> q.nSamples = 0)
  BY <1>1 DEF Fresh, DataPacket, Precisions
<1> HIDE DEF q
<1>3. Fresh(UpdateEndTime(q))
  BY <1>2, UpdateFreshens
<1> QED
  BY <1>3 DEF SetData, q

\* Every call of a setter keeps the packet fresh.
LEMMA CallFresh == PacketInv /\ Call => PacketInv'
<1> SUFFICES ASSUME PacketInv, Call PROVE PacketInv'
  OBVIOUS
<1> USE DEF PacketInv
<1>1. ASSUME NEW part \in Parts, NEW s \in Spellings, CallSetName(part, s)
      PROVE  PacketInv'
  BY <1>1, NameFresh DEF CallSetName
<1>2. ASSUME NEW rate \in SamplingRates, CallSetSamplingRate(rate)
      PROVE  PacketInv'
  BY <1>2, RateFresh, PacketAssumption DEF CallSetSamplingRate
<1>3. ASSUME NEW time \in StartTimes, CallSetStartTime(time) PROVE PacketInv'
  BY <1>3, StartFresh, PacketAssumption DEF CallSetStartTime
<1>4. ASSUME NEW type \in DataTypes, NEW n \in SampleCounts,
             NEW precision \in {"exact", "wide"},
             CallSetData(type, n, precision)
      PROVE  PacketInv'
  BY <1>4, DataFresh, PacketAssumption DEF CallSetData, Precisions
<1>5. ASSUME NEW s \in Spellings, NEW rate \in SamplingRates,
             CallThrows(s, rate)
      PROVE  PacketInv'
  BY <1>5 DEF CallThrows
<1>6. CASE CallClear
  BY <1>6, EmptyFresh DEF CallClear
<1> QED
  BY <1>1, <1>2, <1>3, <1>4, <1>5, <1>6 DEF Call

\* The invariant holds in every state that a program's calls can reach.
THEOREM PacketInvariance == PacketSpec => []PacketInv
<1>1. PacketInit => PacketInv
  BY EmptyFresh DEF PacketInit, PacketInv
<1>2. PacketInv /\ UNCHANGED packet => PacketInv'
  BY DEF PacketInv
<1> QED
  BY <1>1, <1>2, CallFresh, PTL DEF PacketSpec

\* Members keep their types, with a data type exactly when there are samples.
THEOREM PacketTypes == PacketSpec => []PacketTypeOK
<1>1. PacketInv => PacketTypeOK
  BY DEF PacketInv, Fresh, PacketTypeOK
<1> QED
  BY <1>1, PacketInvariance, PTL

\* getEndTime() answers the time of the last sample, in whatever order the
\* setters were called and however often.
THEOREM EndTimeAlwaysFresh == PacketSpec => []EndTimeFresh
<1>1. PacketInv => EndTimeFresh
  <2> SUFFICES ASSUME Fresh(packet), ~GetEndTimeThrows(packet)
               PROVE  packet.end = LastSample(packet)
    BY DEF PacketInv, EndTimeFresh
  <2>1. packet \in DataPacket /\ packet.nSamples > 0 /\ HaveSamplingRate(packet)
    BY DEF Fresh, GetEndTimeThrows, DataPacket
  <2>2. UpdateEndTime(packet).end = LastSample(packet)
    BY <2>1 DEF UpdateEndTime, DataPacket
  <2> QED
    BY <2>2 DEF Fresh
<1> QED
  BY <1>1, PacketInvariance, PTL

\* A packet read from its own message is the packet that was written, with its
\* samples as doubles: header and end time are those of the original, although
\* the end time of the message is not read.  This is why ArrivesIntact holds
\* over any number of hops.
THEOREM RoundTrip ==
    ASSUME NEW p, Fresh(p), p.nSamples > 0, ~SerializeThrows(p)
    PROVE  /\ ~DeserializeUndefined(Serialize(p))
           /\ Deserialize(Serialize(p)) =
                  [p EXCEPT !.dataType = "Double",
                            !.precision = IF p.precision = "wide"
                                          THEN "rounded" ELSE p.precision]
<1> DEFINE message == Serialize(p)
           data == [n |-> p.nSamples, precision |-> p.precision]
           precision == IF p.precision = "wide" THEN "rounded" ELSE p.precision
           named == [EmptyPacket EXCEPT !.names = p.names]
           rated == SetSamplingRate(named, p.rate)
           started == SetStartTime(rated, p.start)
           copy == SetData(started, "Double", p.nSamples, precision)
           wanted == [p EXCEPT !.dataType = "Double", !.precision = precision]
<1>1. p \in DataPacket /\ HaveSamplingRate(p)
  BY DEF Fresh, SerializeThrows
<1>2. /\ p.nSamples \in Nat /\ p.rate \in Nat /\ p.start \in Nat
      /\ p.nSamples > 0 /\ p.rate > 0
      /\ precision \in Precisions
  BY <1>1 DEF DataPacket, HaveSamplingRate, Precisions
<1>3. /\ message.data = <<data>> /\ message.names = p.names
      /\ message.startTime = p.start /\ message.samplingRate = p.rate
  BY <1>2 DEF Serialize
<1>4. message.data # <<>> /\ message.data[1] = data
  BY <1>3
<1>5. Deserialize(message) = copy
  BY <1>3, <1>4 DEF Deserialize
<1> HIDE DEF message, data, precision
<1>6. named \in DataPacket /\ named.names = p.names
  BY <1>1, EmptyFresh DEF Fresh, DataPacket
<1> HIDE DEF named
<1>7. rated \in DataPacket /\ rated.names = p.names /\ rated.rate = p.rate
  <2> DEFINE q == [named EXCEPT !.rate = p.rate]
  <2>1. q \in DataPacket /\ q.names = p.names /\ q.rate = p.rate
    BY <1>2, <1>6 DEF DataPacket
  <2> HIDE DEF q
  <2>2. UpdateEndTime(q) \in DataPacket /\ UpdateEndTime(q).names = q.names
        /\ UpdateEndTime(q).rate = q.rate
    BY <2>1, UpdateKeeps
  <2> QED
    BY <2>1, <2>2 DEF SetSamplingRate, q
<1> HIDE DEF rated
<1>8. /\ started \in DataPacket /\ started.names = p.names
      /\ started.rate = p.rate /\ started.start = p.start
  <2> DEFINE q == [rated EXCEPT !.start = p.start]
  <2>1. /\ q \in DataPacket /\ q.names = p.names /\ q.rate = p.rate
        /\ q.start = p.start
    BY <1>2, <1>7 DEF DataPacket
  <2> HIDE DEF q
  <2>2. /\ UpdateEndTime(q) \in DataPacket /\ UpdateEndTime(q).names = q.names
        /\ UpdateEndTime(q).rate = q.rate /\ UpdateEndTime(q).start = q.start
    BY <2>1, UpdateKeeps
  <2> QED
    BY <2>1, <2>2 DEF SetStartTime, q
<1> HIDE DEF started
<1>9. /\ copy \in DataPacket /\ copy.names = p.names /\ copy.start = p.start
      /\ copy.rate = p.rate /\ copy.dataType = "Double"
      /\ copy.nSamples = p.nSamples /\ copy.precision = precision
      /\ copy.end = p.end
  <2> DEFINE q == [started EXCEPT !.dataType = "Double",
                                  !.nSamples = p.nSamples,
                                  !.precision = precision]
  <2>1. /\ q \in DataPacket /\ q.names = p.names /\ q.start = p.start
        /\ q.rate = p.rate /\ q.dataType = "Double"
        /\ q.nSamples = p.nSamples /\ q.precision = precision
    BY <1>2, <1>8 DEF DataPacket, DataTypes
  <2> HIDE DEF q
  <2>2. copy = UpdateEndTime(q)
    BY <1>2 DEF SetData, q
  <2> HIDE DEF copy
  <2>3. LastSample(q) = LastSample(p) /\ p.end = LastSample(p)
    <3>1. LastSample(q) = LastSample(p)
      BY <2>1 DEF LastSample
    <3>2. p.end = UpdateEndTime(p).end
      BY DEF Fresh
    <3>3. UpdateEndTime(p).end = LastSample(p)
      BY <1>1, <1>2, UpdateKeeps
    <3> QED
      BY <3>1, <3>2, <3>3
  <2>4. copy.end = LastSample(q)
    BY <1>2, <2>1, <2>2, UpdateKeeps DEF HaveSamplingRate
  <2> QED
    BY <2>1, <2>2, <2>3, <2>4, UpdateKeeps
<1> HIDE DEF copy
<1>10. /\ wanted \in DataPacket /\ wanted.names = p.names
       /\ wanted.start = p.start /\ wanted.end = p.end
       /\ wanted.rate = p.rate /\ wanted.dataType = "Double"
       /\ wanted.nSamples = p.nSamples /\ wanted.precision = precision
  BY <1>1, <1>2 DEF DataPacket, DataTypes
<1>11. copy = wanted
  <2> HIDE DEF wanted
  <2> QED
    BY <1>9, <1>10, SamePacket
<1> QED
  BY <1>4, <1>5, <1>11 DEF DeserializeUndefined, message, precision
---------------------------------------------------------------------------
(***************************************************************************)
(* A packet's way through Import.  What travels is determined by the       *)
(* packet that was handed over: as it is in the queue, as its message on   *)
(* the first hop, as Received makes it in the sanitizer, on the second hop *)
(* and at the end.                                                         *)
(***************************************************************************)

\* What a subscriber makes of a packet.
Received(p) ==
    [p EXCEPT !.dataType = "Double",
              !.precision = IF p.precision = "wide" THEN "rounded"
                            ELSE p.precision]

FreshPackets == {p \in DataPacket : Fresh(p)}
SoundPackets == {p \in FreshPackets : p.nSamples > 0}

Carried(p, hop) == IF hop = 1 THEN p ELSE Received(p)
Message(p, hop) ==
    [parts |-> 2, type |-> MessageType,
     payload |-> <<Serialize(Carried(p, hop))>>, hop |-> hop, original |-> p]

Queued == {[packet |-> p, original |-> p] : p \in SoundPackets}
Arrived == {[packet |-> Received(p), original |-> p] : p \in SoundPackets}
Messages ==
    ForeignMessages
    \cup {Message(p, hop) : p \in {q \in SoundPackets : ~SerializeThrows(q)},
                            hop \in {1, 2}}

PipeInv ==
    /\ Fresh(packet)
    /\ buffer \in Seq(Records)
    /\ packets \in Seq(FreshPackets)
    /\ queue \in Seq(Queued)
    /\ wire \in Seq(Messages)
    /\ relay \in Seq(Arrived)
    /\ delivered \in Seq(Arrived)
    /\ ~undefined

\* A received packet is as sound as the packet sent, is received as itself when
\* it is sent again, and can be sent whenever the original could.
LEMMA ReceivedSound ==
    ASSUME NEW p \in SoundPackets
    PROVE  /\ Received(p) \in SoundPackets
           /\ Received(Received(p)) = Received(p)
           /\ SerializeThrows(Received(p)) = SerializeThrows(p)
<1> DEFINE q == Received(p)
<1>1. p \in DataPacket /\ Fresh(p) /\ p.nSamples > 0
  BY DEF SoundPackets, FreshPackets
<1>2. /\ q \in DataPacket /\ q.names = p.names /\ q.start = p.start
      /\ q.end = p.end /\ q.rate = p.rate /\ q.dataType = "Double"
      /\ q.nSamples = p.nSamples /\ q.precision \in {"exact", "rounded"}
  BY <1>1 DEF Received, DataPacket, DataTypes, Precisions
<1>3. Received(q) = q
  <2> DEFINE r == Received(q)
  <2> HIDE DEF q
  <2>1. /\ r \in DataPacket /\ r.names = q.names /\ r.start = q.start
        /\ r.end = q.end /\ r.rate = q.rate /\ r.dataType = q.dataType
        /\ r.nSamples = q.nSamples /\ r.precision = q.precision
    BY <1>2 DEF Received, DataPacket, DataTypes, Precisions
  <2> HIDE DEF r
  <2>2. r = q
    BY <1>2, <2>1, SamePacket
  <2> QED
    BY <2>2 DEF r
<1> HIDE DEF q
<1>4. UpdateEndTime(q).end = UpdateEndTime(p).end
  <2>1. LastSample(q) = LastSample(p) /\ HaveSamplingRate(q) = HaveSamplingRate(p)
    BY <1>2 DEF LastSample, HaveSamplingRate
  <2> QED
    BY <1>1, <1>2, <2>1, UpdateKeeps
<1>5. q \in SoundPackets
  <2>1. q.nSamples \in Nat /\ q.nSamples > 0
    BY <1>1, <1>2 DEF DataPacket
  <2>2. q.dataType = "Unknown" <=> q.nSamples = 0
    BY <1>2, <2>1
  <2>3. Fresh(q)
    BY <1>1, <1>2, <1>4, <2>2 DEF Fresh
  <2> QED
    BY <1>2, <2>1, <2>3 DEF SoundPackets, FreshPackets
<1>6. SerializeThrows(q) = SerializeThrows(p)
  BY <1>2 DEF SerializeThrows, Have, HaveSamplingRate
<1> QED
  BY <1>3, <1>5, <1>6 DEF q

\* On either hop, a message is read as what Received makes of the original.
LEMMA MessageRead ==
    ASSUME NEW p \in SoundPackets, ~SerializeThrows(p), NEW hop \in {1, 2}
    PROVE  LET m == Message(p, hop)
           IN  /\ ~Unhandled(m) /\ m.hop = hop /\ m.original = p
               /\ ~DeserializeUndefined(m.payload[1])
               /\ Deserialize(m.payload[1]) = Received(p)
<1> DEFINE m == Message(p, hop)
           q == Carried(p, hop)
<1>1. /\ m.hop = hop /\ m.original = p /\ m.parts = 2 /\ m.type = MessageType
      /\ m.payload = <<Serialize(q)>>
  BY DEF Message
<1>2. q \in SoundPackets /\ ~SerializeThrows(q) /\ Received(q) = Received(p)
  BY ReceivedSound DEF Carried
<1> HIDE DEF m, q
<1>3. ~Unhandled(m) /\ m.payload[1] = Serialize(q)
  BY <1>1 DEF Unhandled
<1>4. Fresh(q) /\ q.nSamples > 0
  BY <1>2 DEF SoundPackets, FreshPackets
<1>5. ~DeserializeUndefined(Serialize(q)) /\ Deserialize(Serialize(q)) = Received(q)
  BY <1>2, <1>4, RoundTrip DEF Received
<1> QED
  BY <1>1, <1>2, <1>3, <1>5 DEF m

\* The unpacked packet of a record is fresh.
LEMMA UnpackFresh ==
    ASSUME NEW record \in Records, ~UnpackThrows(record)
    PROVE  PacketOf(record) \in FreshPackets
<1> DEFINE location == IF record.location = "" THEN "--" ELSE record.location
           names == [network |-> record.network, station |-> record.station,
                     channel |-> record.channel, locationCode |-> location]
           named == [EmptyPacket EXCEPT !.names = names]
           rated == SetSamplingRate(named, record.rate)
           time == RoundDiv(record.startTime, 1000)
           timed == SetStartTime(rated, time)
           filled == SetData(timed, SampleTypes[record.sampleType],
                             record.nSamples, "exact")
<1>1. /\ {record.network, record.station, record.channel, record.location}
             \subseteq Codes \cup {Unset}
      /\ record.nSamples \in Nat /\ record.rate \in Int
      /\ record.startTime \in Nat
  BY ImportAssumption DEF Unset
<1>2. names \in [Parts -> Codes \cup {Unset}]
  <2>1. location \in Codes \cup {Unset}
    BY <1>1, ImportAssumption
  <2> HIDE DEF location
  <2> QED
    BY <1>1, <2>1 DEF Parts
<1> HIDE DEF names
<1>3. Fresh(named)
  <2>1. EmptyPacket \in DataPacket
    BY EmptyFresh DEF Fresh
  <2>2. /\ named \in DataPacket /\ named.nSamples = 0 /\ named.start = 0
        /\ named.end = 0 /\ named.dataType = "Unknown"
    BY <1>2, <2>1 DEF EmptyPacket, DataPacket
  <2> HIDE DEF named
  <2>3. UpdateEndTime(named).end = named.start
    BY <2>2, UpdateKeeps
  <2> QED
    BY <2>2, <2>3 DEF Fresh
<1> HIDE DEF named
<1>4. /\ ~(record.rate <= 0)
      /\ record.nSamples > 0 => record.sampleType \in DOMAIN SampleTypes
  BY Zenon DEF UnpackThrows
<1>5. Fresh(rated)
  <2>1. record.rate > 0
    BY <1>1, <1>4
  <2> QED
    BY <1>1, <1>3, <2>1, RateFresh
<1> HIDE DEF rated
<1>6. time \in Nat
  BY <1>1, RoundDivNat
<1> HIDE DEF time
<1>7. Fresh(timed)
  BY <1>5, <1>6, StartFresh
<1> HIDE DEF timed
<1>8. ASSUME record.nSamples # 0 PROVE Fresh(filled)
  <2>1. record.nSamples > 0
    BY <1>1, <1>8
  <2>2. record.sampleType \in DOMAIN SampleTypes
    BY <1>4, <2>1
  <2>3. SampleTypes[record.sampleType] \in DataTypes
    BY <2>2 DEF SampleTypes, DataTypes
  <2> QED
    BY <1>1, <1>7, <2>3, DataFresh DEF Precisions
<1> HIDE DEF filled
<1>9. PacketOf(record) = IF record.nSamples = 0 THEN timed ELSE filled
  BY DEF PacketOf, filled, timed, time, rated, named, names
<1>10. Fresh(PacketOf(record))
  BY <1>7, <1>8, <1>9
<1> QED
  BY <1>10 DEF FreshPackets, Fresh

\* What is taken from a sequence and what is left of it.
LEMMA HeadTail ==
    ASSUME NEW S, NEW s \in Seq(S), s # <<>>
    PROVE  Head(s) \in S /\ Tail(s) \in Seq(S)
  OBVIOUS

LEMMA AppendSeq ==
    ASSUME NEW S, NEW s \in Seq(S), NEW e \in S PROVE Append(s, e) \in Seq(S)
  OBVIOUS

\* The callback queues only packets with samples.
LEMMA CallbackQueues ==
    ASSUME queue \in Seq(Queued), NEW p \in FreshPackets, Callback(p)
    PROVE  queue' \in Seq(Queued)
<1>1. CASE CallbackThrows(p)
  BY <1>1 DEF Callback
<1>2. CASE ~CallbackThrows(p)
  <2>1. p.nSamples > 0
    BY <1>2 DEF CallbackThrows, FreshPackets, DataPacket
  <2>2. [packet |-> p, original |-> p] \in Queued
    BY <2>1 DEF Queued, SoundPackets
  <2>3. queue' = Append(queue, [packet |-> p, original |-> p])
    BY <1>2 DEF Callback
  <2> QED
    BY <2>2, <2>3, AppendSeq
<1> QED
  BY <1>1, <1>2

\* What is sent is a message of its original: on the first hop the packet is
\* its original, on the second it is what was received.
LEMMA SendsMessage ==
    ASSUME wire \in Seq(Messages), NEW p \in SoundPackets, NEW hop \in {1, 2},
           NEW item, item = [packet |-> Carried(p, hop), original |-> p],
           Sends(item, hop)
    PROVE  wire' \in Seq(Messages)
<1>1. item.packet = Carried(p, hop) /\ item.original = p
  OBVIOUS
<1>2. SerializeThrows(Carried(p, hop)) = SerializeThrows(p)
  BY ReceivedSound DEF Carried
<1>3. CASE SerializeThrows(p)
  BY <1>1, <1>2, <1>3 DEF Sends
<1>4. CASE ~SerializeThrows(p)
  <2>1. Message(p, hop) \in Messages
    BY <1>4 DEF Messages
  <2>2. wire' = Append(wire, Message(p, hop))
    BY <1>1, <1>2, <1>4 DEF Sends, Message
  <2> QED
    BY <2>1, <2>2, AppendSeq
<1> QED
  BY <1>3, <1>4

LEMMA PublishPipe == PipeInv /\ Publish => PipeInv'
<1> SUFFICES ASSUME PipeInv, Publish PROVE PipeInv'
  OBVIOUS
<1> USE DEF PipeInv
<1>1. Head(queue) \in Queued /\ queue' \in Seq(Queued)
  BY HeadTail DEF Publish
<1>2. PICK p \in SoundPackets : Head(queue) = [packet |-> p, original |-> p]
  BY <1>1 DEF Queued
<1>3. Head(queue) = [packet |-> Carried(p, 1), original |-> p]
  BY <1>2 DEF Carried
<1>4. Sends(Head(queue), 1)
  BY DEF Publish
<1>5. wire' \in Seq(Messages)
  BY <1>3, <1>4, SendsMessage
<1> QED
  BY <1>1, <1>5 DEF Publish, readerVars

LEMMA RelayPipe == PipeInv /\ Relay => PipeInv'
<1> SUFFICES ASSUME PipeInv, Relay PROVE PipeInv'
  OBVIOUS
<1> USE DEF PipeInv
<1>1. Head(relay) \in Arrived /\ relay' \in Seq(Arrived)
  BY HeadTail DEF Relay
<1>2. PICK p \in SoundPackets :
          Head(relay) = [packet |-> Received(p), original |-> p]
  BY <1>1 DEF Arrived
<1>3. Head(relay) = [packet |-> Carried(p, 2), original |-> p]
  BY <1>2 DEF Carried
<1>4. Sends(Head(relay), 2)
  BY DEF Relay
<1>5. wire' \in Seq(Messages)
  BY <1>3, <1>4, SendsMessage
<1> QED
  BY <1>1, <1>5 DEF Relay, readerVars

\* Every message that is handled can be read, and is read as Received says.
LEMMA ListenPipe == PipeInv /\ Listen => PipeInv'
<1> SUFFICES ASSUME PipeInv, Listen PROVE PipeInv'
  OBVIOUS
<1> USE DEF PipeInv
<1> DEFINE message == Head(wire)
           object == message.payload[1]
           item == [packet |-> Deserialize(object),
                    original |-> message.original]
<1>1. message \in Messages /\ wire' \in Seq(Messages) /\ ~Unhandled(message)
  BY HeadTail DEF Listen
<1>2. message \notin ForeignMessages
  BY <1>1 DEF ForeignMessages, Unhandled
<1>3. PICK p \in SoundPackets, hop \in {1, 2} :
          ~SerializeThrows(p) /\ message = Message(p, hop)
  BY <1>1, <1>2 DEF Messages
<1>4. /\ message.hop = hop /\ message.original = p
      /\ ~DeserializeUndefined(object) /\ Deserialize(object) = Received(p)
  BY <1>3, MessageRead
<1>5. item \in Arrived
  BY <1>4 DEF Arrived
<1>6. /\ relay' = IF message.hop = 1 THEN Append(relay, item) ELSE relay
      /\ delivered' = IF message.hop = 2 THEN Append(delivered, item)
                                         ELSE delivered
      /\ UNCHANGED undefined
  BY <1>4 DEF Listen
<1> HIDE DEF item, message, object
<1>7. relay' \in Seq(Arrived) /\ delivered' \in Seq(Arrived)
  BY <1>5, <1>6, AppendSeq
<1> QED
  BY <1>1, <1>6, <1>7 DEF Listen, readerVars

\* Losing a message, dropping it and foreign messages leave only messages that
\* are unhandled or sound.
LEMMA WirePipe == PipeInv /\ (Interfere \/ Lose \/ ListenDrops) => PipeInv'
<1> SUFFICES ASSUME PipeInv, Interfere \/ Lose \/ ListenDrops PROVE PipeInv'
  OBVIOUS
<1> USE DEF PipeInv
<1>1. wire' \in Seq(Messages)
  <2>1. CASE Interfere
    <3>1. PICK m \in ForeignMessages : wire' = <<m>>
      BY <2>1 DEF Interfere
    <3>2. m \in Messages
      BY DEF Messages
    <3> QED
      BY <3>1, <3>2
  <2>2. CASE Lose \/ ListenDrops
    BY <2>2, HeadTail DEF Lose, ListenDrops
  <2> QED
    BY <2>1, <2>2
<1> QED
  BY <1>1 DEF Interfere, Lose, ListenDrops, readerVars

LEMMA ReaderPipe ==
    PipeInv /\ (Collect \/ Unpack \/ UnpackFails \/ HandOver) => PipeInv'
<1> SUFFICES ASSUME PipeInv, Collect \/ Unpack \/ UnpackFails \/ HandOver
             PROVE  PipeInv'
  OBVIOUS
<1> USE DEF PipeInv
<1>1. CASE Collect
  <2>1. PICK first \in Requested, second \in Requested :
            buffer' \in {<<first>>, <<first, second>>}
    BY <1>1 DEF Collect
  <2>2. first \in Records /\ second \in Records
    BY DEF Requested
  <2>3. <<first>> \in Seq(Records) /\ <<first, second>> \in Seq(Records)
    BY <2>2
  <2>4. buffer' \in Seq(Records)
    BY <2>1, <2>3
  <2> QED
    BY <1>1, <2>4 DEF Collect, pipeVars
<1>2. CASE Unpack
  <2>1. Head(buffer) \in Records /\ buffer' \in Seq(Records)
    BY <1>2, HeadTail DEF Unpack
  <2>2. PacketOf(Head(buffer)) \in FreshPackets
    BY <1>2, <2>1, UnpackFresh DEF Unpack
  <2>3. packets' \in Seq(FreshPackets)
    BY <1>2, <2>2, AppendSeq DEF Unpack
  <2> QED
    BY <1>2, <2>1, <2>3 DEF Unpack, pipeVars
<1>3. CASE UnpackFails
  <2>1. buffer' \in Seq(Records) /\ packets' \in Seq(FreshPackets)
    BY <1>3 DEF UnpackFails
  <2> QED
    BY <1>3, <2>1 DEF UnpackFails, pipeVars
<1>4. CASE HandOver
  <2>1. CASE packets = <<>>
    BY <1>4, <2>1 DEF HandOver
  <2>2. CASE packets # <<>>
    <3>1. Head(packets) \in FreshPackets /\ packets' \in Seq(FreshPackets)
      BY <1>4, <2>2, HeadTail DEF HandOver
    <3>2. queue' \in Seq(Queued)
      BY <1>4, <2>2, <3>1, CallbackQueues DEF HandOver
    <3> QED
      BY <1>4, <3>1, <3>2 DEF HandOver
  <2> QED
    BY <2>1, <2>2
<1> QED
  BY <1>1, <1>2, <1>3, <1>4

LEMMA OtherPipe == PipeInv /\ (OtherBuilds \/ OtherHandsOver) => PipeInv'
<1> SUFFICES ASSUME PipeInv, OtherBuilds \/ OtherHandsOver PROVE PipeInv'
  OBVIOUS
<1> USE DEF PipeInv
<1>1. CASE OtherBuilds
  <2>1. Fresh(packet)'
    BY <1>1, CallFresh DEF OtherBuilds, PacketInv
  <2> QED
    BY <1>1, <2>1 DEF OtherBuilds, readerVars, pipeVars
<1>2. CASE OtherHandsOver
  <2>1. packet \in FreshPackets
    BY DEF FreshPackets, Fresh
  <2>2. queue' \in Seq(Queued)
    BY <1>2, <2>1, CallbackQueues DEF OtherHandsOver
  <2>3. Fresh(packet)'
    BY <1>2, EmptyFresh DEF OtherHandsOver
  <2> QED
    BY <1>2, <2>2, <2>3 DEF OtherHandsOver
<1> QED
  BY <1>1, <1>2

\* The invariant of a packet's way.
LEMMA PipeInvariance == ImportSpec => []PipeInv
<1>1. ImportInit => PipeInv
  BY EmptyFresh DEF ImportInit, PacketInit, PipeInv
<1>2. PipeInv /\ [ImportNext]_importVars => PipeInv'
  <2> SUFFICES ASSUME PipeInv, [ImportNext]_importVars PROVE PipeInv'
    OBVIOUS
  <2>1. CASE Configure
    BY <2>1 DEF Configure, readerVars, pipeVars, PipeInv
  <2>2. CASE UNCHANGED importVars
    BY <2>2 DEF importVars, readerVars, pipeVars, PipeInv
  <2>3. CASE Finished
    BY <2>2, <2>3 DEF Finished
  <2> QED
    BY <2>1, <2>2, <2>3, ReaderPipe, OtherPipe, PublishPipe, RelayPipe, WirePipe,
       ListenPipe DEF ImportNext
<1> QED
  BY <1>1, <1>2, PTL DEF ImportSpec

\* Over two processes, through the conversions of two messages and with losses
\* and foreign messages between them, a packet arrives with the header, the end
\* time and the samples it was handed over with.
THEOREM PacketsArriveIntact == ImportSpec => []ArrivesIntact
<1>1. PipeInv => ArrivesIntact
  <2> SUFFICES ASSUME PipeInv, NEW item \in InFlight
               PROVE  item.packet =
                          [item.original EXCEPT
                               !.dataType = "Double",
                               !.precision = IF item.original.precision = "wide"
                                             THEN "rounded" ELSE @]
    BY DEF ArrivesIntact
  <2>1. item \in Arrived
    BY DEF PipeInv, InFlight
  <2>2. PICK p \in SoundPackets : item = [packet |-> Received(p), original |-> p]
    BY <2>1 DEF Arrived
  <2>3. item.packet = Received(p) /\ item.original = p
    BY <2>2
  <2>4. p \in DataPacket
    BY DEF SoundPackets, FreshPackets
  <2> QED
    BY <2>3, <2>4 DEF Received, DataPacket
<1> QED
  BY <1>1, PipeInvariance, PTL

\* No message that a receiver reads is without samples, whichever client made
\* the packet: reading it would be undefined behaviour of objectToDataPacket().
THEOREM ReceiversDefined == ImportSpec => []NoUndefined
<1>1. PipeInv => NoUndefined
  BY DEF PipeInv, NoUndefined
<1> QED
  BY <1>1, PipeInvariance, PTL
---------------------------------------------------------------------------
(***************************************************************************)
(* From the file to the connection.                                        *)
(***************************************************************************)
Lines == Seq(STRING) \ {<<>>}

\* The provers do not know that a string literal is a string.
Texts == STRING \cup {"*"}
Selectors ==
    {s \in [network: Texts, station: Texts, channel: Texts,
            locationCode: Texts, type: {"Data", "All"}] : s.network # "*"}
Streams == {Stream(s) : s \in Selectors} \cup {AllStations}

\* What a selector stands for: Selected(line), once the line is parsed.
Meant(s) ==
    {record \in Records :
        /\ s.network = record.network
        /\ s.station \in {"*", record.station}
        /\ s.channel \in {"", "*", record.channel}
        /\ s.locationCode \in {"", "??", record.location}
        /\ s.type = "Data" => record.type = "D"}

\* The n-th selector is what the n-th line says.
Parsed ==
    /\ Len(mSelectors) <= Len(file)
    /\ \A i \in 1..Len(mSelectors) :
           mSelectors[i] = ParseSelector(file[i]) /\ ~ParseThrows(file[i])

\* Every stream is that of an accepted line among the first n, and each of
\* these has its stream.
FromLines(n) ==
    \A j \in 1..Len(streams) :
        \E i \in 1..n : i \in Accepted /\ streams[j] = Stream(mSelectors[i])
Placed(n) ==
    \A i \in 1..n :
        i \in Accepted =>
            \E j \in 1..Len(streams) : streams[j] = Stream(mSelectors[i])

SelectorInv ==
    /\ file \in Seq(Lines)
    /\ mSelectors \in Seq(Selectors)
    /\ refused \in Seq(Nat)
    /\ streams \in Seq(Streams)
    /\ Parsed
    /\ phase = "parse" => streams = <<>> /\ refused = <<>>
    /\ phase = "initialize" =>
           /\ Len(mSelectors) = Len(file)
           /\ Tried <= Len(mSelectors) /\ FromLines(Tried) /\ Placed(Tried)
           /\ \A j \in 1..Len(refused) : refused[j] <= Tried
    /\ phase \in {"connected", "unpack"} =>
           /\ Len(mSelectors) = Len(file)
           /\ \/ Accepted = {}
              \/ FromLines(Len(file)) /\ Placed(Len(file))

\* A line that the parser takes becomes a selector for one network and of type
\* Data or All, which stands for what the line selects.
LEMMA ParsedSelector ==
    ASSUME NEW line \in Lines, ~ParseThrows(line)
    PROVE  /\ ParseSelector(line) \in Selectors
           /\ Meant(ParseSelector(line)) = Selected(line)
           /\ line[5] = "D" => ParseSelector(line).type = "Data"
<1> DEFINE s == ParseSelector(line)
<1>1. line \in Seq(STRING) /\ Len(line) \in Nat /\ Len(line) >= 5
  BY DEF Lines, ParseThrows
<1>2. /\ line[1] \in STRING /\ line[2] \in STRING /\ line[3] \in STRING
      /\ line[4] \in STRING
  BY <1>1
<1>3. line[1] # "*"
  <2>1. Len(line[1]) = 2 /\ 1 # 2
    BY DEF ParseThrows, SetNetworkThrows
  <2> QED
    BY <2>1, WildLength, Zenon
<1>4. Upper(line[1]) \in STRING /\ Upper(line[1]) # "*"
  BY <1>2, <1>3, CapitalsAssumption DEF Upper
<1>5. Upper(line[2]) \in STRING
  BY <1>2, CapitalsAssumption DEF Upper
<1>6. /\ s.network = Upper(line[1]) /\ s.station = Upper(line[2])
      /\ s.channel = line[3] /\ s.locationCode = line[4]
      /\ s.type = IF line[5] = "D" THEN "Data" ELSE "All"
      /\ s = [network |-> s.network, station |-> s.station,
              channel |-> s.channel, locationCode |-> s.locationCode,
              type |-> s.type]
  BY DEF ParseSelector
<1>7. s \in Selectors
  BY <1>2, <1>4, <1>5, <1>6 DEF Selectors, Texts
<1>8. s.type = "Data" <=> line[5] = "D"
  BY <1>6
<1>9. Meant(s) = Selected(line)
  <2> HIDE DEF s
  <2> QED
    BY <1>6, <1>8 DEF Meant, Selected
<1> QED
  BY <1>7, <1>8, <1>9

\* A selector's stream selects nothing but what is meant; and all of it, unless
\* it is for all types of one named channel.
LEMMA StreamSelects ==
    ASSUME NEW s \in Selectors, NEW record \in Records
    PROVE  /\ StreamMatches(Stream(s), record) => record \in Meant(s)
           /\ /\ s.type = "Data" \/ s.channel \in {"", "*"}
              /\ record \in Meant(s)
              => StreamMatches(Stream(s), record)
<1> DEFINE g == GetSelector(s)
           bare == s.locationCode = "" /\ s.channel = ""
<1>1. /\ s.network # "*" /\ s.type \in {"Data", "All"}
      /\ s.channel \in Texts /\ s.locationCode \in Texts
  BY DEF Selectors
<1>2. /\ Stream(s).network = s.network /\ Stream(s).station = s.station
      /\ Stream(s).selector = g
  BY DEF Stream
<1>3. g.location = IF bare THEN ""
                   ELSE IF s.locationCode = "" THEN "??" ELSE s.locationCode
  BY DEF GetSelector
<1>4. g.location \in {"", "??", record.location}
      <=> s.locationCode \in {"", "??", record.location}
  BY <1>3
<1>5. g.type = IF s.type = "Data" THEN "D" ELSE "*"
  BY <1>1 DEF GetSelector, TypeLetter
<1>6. g.type \in {"*", record.type} <=> (s.type = "Data" => record.type = "D")
  BY <1>1, <1>5
<1>7. ASSUME NEW c \in Texts, NEW d
      PROVE  /\ ChannelMatches(<<c>>, d) <=> c = "*" \/ c = d
             /\ ChannelMatches(<<c, c>>, d) <=> c = "*"
             /\ ChannelMatches(<<>>, d)
  <2>1. /\ Len(<<c>>) = 1 /\ Len(<<c, c>>) = 2 /\ <<c>>[1] = c
        /\ <<c, c>>[1] = c /\ <<c, c>>[2] = c /\ Len(<<>>) = 0
    OBVIOUS
  <2>2. 1..1 = {1} /\ 1..2 = {1, 2} /\ 1..0 = {}
    OBVIOUS
  <2>3. (<<c>> = <<d>> <=> c = d) /\ <<c, c>> # <<d>>
    OBVIOUS
  <2> QED
    BY <2>1, <2>2, <2>3 DEF ChannelMatches
<1>8. g.channel = IF s.type = "Data"
                  THEN IF s.channel = "" THEN <<"*">> ELSE <<s.channel>>
                  ELSE IF bare THEN <<>>
                  ELSE IF s.channel = "" THEN <<"*">>
                  ELSE <<s.channel, s.channel>>
  <2>1. ASSUME NEW c \in Texts PROVE <<c>> \o <<c>> = <<c, c>>
    <3> DEFINE t == <<c>> \o <<c>>
    <3>1. <<c>> \in Seq(Texts) /\ Len(<<c>>) = 1 /\ <<c>>[1] = c
      OBVIOUS
    <3>2. t \in Seq(Texts) /\ Len(t) = 2 /\ t[1] = c /\ t[2] = c
      BY <3>1
    <3>3. /\ <<c, c>> \in Seq(Texts) /\ Len(<<c, c>>) = 2
          /\ <<c, c>>[1] = c /\ <<c, c>>[2] = c
      OBVIOUS
    <3> HIDE DEF t
    <3>4. t = <<c, c>>
      BY <3>2, <3>3
    <3> QED
      BY <3>4 DEF t
  <2>2. CASE s.type = "Data"
    BY <2>2 DEF GetSelector
  <2>3. CASE s.type = "All"
    BY <1>1, <2>1, <2>3 DEF GetSelector
  <2> QED
    BY <1>1, <2>2, <2>3
<1> HIDE DEF g
<1>9. CASE s.type = "Data" \/ s.channel \in {"", "*"}
  <2>1. ChannelMatches(g.channel, record.channel)
        <=> s.channel \in {"", "*", record.channel}
    <3>1. "*" \in Texts
      BY DEF Texts
    <3>2. CASE s.channel = "" /\ (s.type = "Data" \/ ~bare)
      <4>1. g.channel = <<"*">>
        BY <1>8, <3>2
      <4>2. ChannelMatches(<<"*">>, record.channel)
        BY <1>7, <3>1
      <4> QED
        BY <3>2, <4>1, <4>2
    <3>3. CASE s.type # "Data" /\ bare
      <4>1. g.channel = <<>>
        BY <1>8, <3>3
      <4>2. ChannelMatches(<<>>, record.channel)
        BY <1>7, <3>1
      <4> QED
        BY <3>3, <4>1, <4>2
    <3>4. CASE s.channel # "" /\ s.type = "Data"
      <4>1. g.channel = <<s.channel>>
        BY <1>8, <3>4
      <4>2. ChannelMatches(<<s.channel>>, record.channel)
            <=> s.channel = "*" \/ s.channel = record.channel
        BY <1>1, <1>7
      <4> QED
        BY <3>4, <4>1, <4>2
    <3>5. CASE s.channel # "" /\ s.type # "Data"
      <4>1. g.channel = <<s.channel, s.channel>> /\ s.channel = "*"
        BY <1>8, <1>9, <3>5
      <4>2. ChannelMatches(<<s.channel, s.channel>>, record.channel)
            <=> s.channel = "*"
        BY <1>1, <1>7
      <4> QED
        BY <4>1, <4>2
    <3> QED
      BY <3>2, <3>3, <3>4, <3>5
  <2> QED
    BY <1>1, <1>2, <1>4, <1>6, <2>1 DEF StreamMatches, Meant
<1>10. CASE s.type # "Data" /\ s.channel \notin {"", "*"}
  <2>1. g.channel = <<s.channel, s.channel>>
    BY <1>8, <1>10
  <2>2. ChannelMatches(<<s.channel, s.channel>>, record.channel)
        <=> s.channel = "*"
    BY <1>1, <1>7
  <2>3. ~ChannelMatches(g.channel, record.channel)
    BY <1>10, <2>1, <2>2
  <2> QED
    BY <1>2, <1>10, <2>3 DEF StreamMatches
<1> QED
  BY <1>9, <1>10

\* The streams a selector adds are streams.
LEMMA StreamsOfSelectors ==
    ASSUME NEW s \in Selectors PROVE Stream(s) \in Streams
  BY DEF Streams

LEMMA ParseLineKeeps == SelectorInv /\ ParseLine => SelectorInv'
<1> SUFFICES ASSUME SelectorInv, ParseLine PROVE SelectorInv'
  OBVIOUS
<1> DEFINE n == Len(mSelectors)
           line == file[n + 1]
           s == ParseSelector(line)
<1>1. /\ file \in Seq(Lines) /\ n < Len(file) /\ phase = "parse"
      /\ mSelectors \in Seq(Selectors) /\ streams = <<>> /\ refused = <<>>
      /\ UNCHANGED <<file, streams, refused>> /\ Parsed
  BY DEF SelectorInv, ParseLine
<1>2. n \in Nat /\ n + 1 \in 1..Len(file) /\ line \in Lines
  BY <1>1
<1>3. CASE ParseThrows(line) \/ AddThrows(s)
  <2>1. phase' = "failed" /\ UNCHANGED mSelectors
    BY <1>3 DEF ParseLine
  <2>2. Parsed'
    BY <1>1, <2>1 DEF Parsed
  <2> QED
    BY <1>1, <2>1, <2>2 DEF SelectorInv
<1>4. CASE ~(ParseThrows(line) \/ AddThrows(s))
  <2>1. mSelectors' = Append(mSelectors, s) /\ phase' = phase
    BY <1>4 DEF ParseLine
  <2>2. s \in Selectors
    BY <1>2, <1>4, ParsedSelector
  <2>3. mSelectors' \in Seq(Selectors)
    BY <1>1, <2>1, <2>2, AppendSeq
  <2>4. /\ Len(mSelectors') = n + 1 /\ mSelectors'[n + 1] = s
        /\ \A i \in 1..n : mSelectors'[i] = mSelectors[i]
    BY <1>1, <2>1, <2>2
  <2>5. Parsed'
    <3> SUFFICES /\ n + 1 <= Len(file)
                 /\ \A i \in 1..(n + 1) :
                        /\ mSelectors'[i] = ParseSelector(file[i])
                        /\ ~ParseThrows(file[i])
      BY <1>1, <2>4 DEF Parsed
    <3>1. ASSUME NEW i \in 1..n
          PROVE  /\ mSelectors'[i] = ParseSelector(file[i])
                 /\ ~ParseThrows(file[i])
      BY <1>1, <2>4 DEF Parsed
    <3>2. 1..(n + 1) = 1..n \cup {n + 1}
      BY <1>2
    <3> QED
      BY <1>2, <1>4, <2>4, <3>1, <3>2
  <2>6. refused' \in Seq(Nat) /\ streams' \in Seq(Streams)
    BY <1>1
  <2> QED
    BY <1>1, <2>1, <2>3, <2>5, <2>6 DEF SelectorInv
<1> QED
  BY <1>3, <1>4

LEMMA ParseEndsKeeps == SelectorInv /\ ParseEnds => SelectorInv'
<1> SUFFICES ASSUME SelectorInv, ParseEnds PROVE SelectorInv'
  OBVIOUS
<1>1. /\ streams = <<>> /\ refused = <<>> /\ mSelectors \in Seq(Selectors)
      /\ UNCHANGED <<file, mSelectors, streams, refused>>
      /\ phase' = "initialize" /\ Len(mSelectors) = Len(file) /\ Parsed
  BY DEF SelectorInv, ParseEnds
<1>2. Tried' = 0 /\ Len(streams') = 0 /\ Len(refused') = 0
  BY <1>1 DEF Tried
<1>3. (Tried <= Len(mSelectors))' /\ FromLines(Tried)' /\ Placed(Tried)'
  BY <1>1, <1>2 DEF FromLines, Placed
<1>4. Parsed'
  BY <1>1 DEF Parsed
<1> QED
  BY <1>1, <1>2, <1>3, <1>4 DEF SelectorInv

\* The next line gets its stream.
LEMMA AddStreamKeeps == SelectorInv /\ AddStream => SelectorInv'
<1> SUFFICES ASSUME SelectorInv, AddStream PROVE SelectorInv'
  OBVIOUS
<1> DEFINE n == Tried
           s == mSelectors[n + 1]
<1>1. /\ mSelectors \in Seq(Selectors) /\ streams \in Seq(Streams)
      /\ refused \in Seq(Nat) /\ n < Len(mSelectors)
      /\ Len(mSelectors) = Len(file)
      /\ FromLines(n) /\ Placed(n) /\ Parsed
      /\ \A j \in 1..Len(refused) : refused[j] <= n
      /\ streams' = Append(streams, Stream(s))
      /\ UNCHANGED <<file, phase, mSelectors, refused>>
      /\ phase = "initialize"
  BY DEF SelectorInv, AddStream
<1>2. n \in Nat /\ n + 1 \in 1..Len(mSelectors) /\ s \in Selectors
  BY <1>1 DEF Tried
<1>3. Tried' = n + 1
  BY <1>1 DEF Tried
<1>4. streams' \in Seq(Streams)
  BY <1>1, <1>2, StreamsOfSelectors, AppendSeq
<1>5. /\ Len(streams') = Len(streams) + 1
      /\ \A j \in 1..Len(streams) : streams'[j] = streams[j]
      /\ streams'[Len(streams) + 1] = Stream(s)
      /\ Len(streams) \in Nat
  BY <1>1
<1>6. Accepted' = Accepted
  BY <1>1 DEF Accepted
<1>7. n + 1 \in Accepted
  <2>1. ASSUME NEW j \in 1..Len(refused) PROVE refused[j] # n + 1
    BY <1>1, <1>2
  <2> QED
    BY <1>1, <1>2, <2>1 DEF Accepted
<1> HIDE DEF n
<1>8. FromLines(Tried)'
  <2> SUFFICES ASSUME NEW j \in 1..Len(streams')
               PROVE  \E i \in 1..(n + 1) :
                          i \in Accepted /\ streams'[j] = Stream(mSelectors[i])
    BY <1>1, <1>3, <1>6 DEF FromLines
  <2>1. CASE j \in 1..Len(streams)
    <3>1. PICK i \in 1..n : i \in Accepted /\ streams[j] = Stream(mSelectors[i])
      BY <1>1, <2>1 DEF FromLines
    <3> QED
      BY <1>2, <1>5, <2>1, <3>1
  <2>2. CASE j = Len(streams) + 1
    BY <1>2, <1>5, <1>7, <2>2
  <2> QED
    BY <1>5, <2>1, <2>2
<1>9. Placed(Tried)'
  <2> SUFFICES ASSUME NEW i \in 1..(n + 1), i \in Accepted
               PROVE  \E j \in 1..Len(streams') :
                          streams'[j] = Stream(mSelectors[i])
    BY <1>1, <1>3, <1>6 DEF Placed
  <2>1. CASE i \in 1..n
    BY <1>1, <1>5, <2>1 DEF Placed
  <2>2. CASE i = n + 1
    BY <1>5, <2>2
  <2> QED
    BY <1>2, <2>1, <2>2
<1>10. /\ (Tried <= Len(mSelectors))'
       /\ \A j \in 1..Len(refused') : refused'[j] <= Tried'
  BY <1>1, <1>2, <1>3
<1>11. Parsed' /\ file' \in Seq(Lines)
  BY <1>1 DEF SelectorInv, Parsed
<1> QED
  BY <1>1, <1>4, <1>8, <1>9, <1>10, <1>11 DEF SelectorInv

\* The next line is refused.
LEMMA AddStreamFailsKeeps == SelectorInv /\ AddStreamFails => SelectorInv'
<1> SUFFICES ASSUME SelectorInv, AddStreamFails PROVE SelectorInv'
  OBVIOUS
<1> DEFINE n == Tried
<1>1. /\ mSelectors \in Seq(Selectors) /\ streams \in Seq(Streams)
      /\ refused \in Seq(Nat) /\ n < Len(mSelectors)
      /\ Len(mSelectors) = Len(file)
      /\ FromLines(n) /\ Placed(n) /\ Parsed
      /\ \A j \in 1..Len(refused) : refused[j] <= n
      /\ refused' = Append(refused, n + 1)
      /\ UNCHANGED <<file, phase, mSelectors, streams>>
      /\ phase = "initialize"
  BY DEF SelectorInv, AddStreamFails
<1>2. n \in Nat /\ n + 1 \in Nat
  BY <1>1 DEF Tried
<1>3. Tried' = n + 1
  BY <1>1, <1>2 DEF Tried
<1>4. refused' \in Seq(Nat)
  BY <1>1, <1>2, AppendSeq
<1>5. /\ Len(refused') = Len(refused) + 1
      /\ \A j \in 1..Len(refused) : refused'[j] = refused[j]
      /\ refused'[Len(refused) + 1] = n + 1
      /\ Len(refused) \in Nat
  BY <1>1, <1>2
<1> HIDE DEF n
<1>6. n + 1 \notin Accepted' /\ Accepted' \subseteq Accepted
  BY <1>1, <1>5 DEF Accepted
<1>7. ASSUME NEW i \in 1..n, i \in Accepted PROVE i \in Accepted'
  <2>1. ASSUME NEW j \in 1..Len(refused') PROVE refused'[j] # i
    <3>1. CASE j \in 1..Len(refused)
      BY <1>5, <1>7, <3>1 DEF Accepted
    <3>2. CASE j = Len(refused) + 1
      BY <1>2, <1>5, <1>7, <3>2
    <3> QED
      BY <1>5, <3>1, <3>2
  <2> QED
    BY <1>1, <1>7, <2>1 DEF Accepted
<1>8. FromLines(Tried)'
  <2> SUFFICES ASSUME NEW j \in 1..Len(streams)
               PROVE  \E i \in 1..(n + 1) :
                          i \in Accepted' /\ streams[j] = Stream(mSelectors[i])
    BY <1>1, <1>3 DEF FromLines
  <2>1. PICK i \in 1..n : i \in Accepted /\ streams[j] = Stream(mSelectors[i])
    BY <1>1 DEF FromLines
  <2> QED
    BY <1>2, <1>7, <2>1
<1>9. Placed(Tried)'
  <2> SUFFICES ASSUME NEW i \in 1..(n + 1), i \in Accepted'
               PROVE  \E j \in 1..Len(streams) :
                          streams[j] = Stream(mSelectors[i])
    BY <1>1, <1>3 DEF Placed
  <2>1. i \in 1..n /\ i \in Accepted
    BY <1>2, <1>6
  <2> QED
    BY <1>1, <2>1 DEF Placed
<1>10. (Tried <= Len(mSelectors))'
  BY <1>1, <1>2, <1>3
<1>11. \A j \in 1..Len(refused') : refused'[j] <= Tried'
  <2> SUFFICES ASSUME NEW j \in 1..Len(refused') PROVE refused'[j] <= n + 1
    BY <1>3
  <2>1. CASE j \in 1..Len(refused)
    <3>1. refused[j] \in Nat /\ refused[j] <= n
      BY <1>1, <2>1
    <3> QED
      BY <1>2, <1>5, <2>1, <3>1
  <2>2. CASE j = Len(refused) + 1
    BY <1>2, <1>5, <2>2
  <2> QED
    BY <1>5, <2>1, <2>2
<1>12. Parsed' /\ file' \in Seq(Lines)
  BY <1>1 DEF SelectorInv, Parsed
<1> QED
  BY <1>1, <1>4, <1>8, <1>9, <1>10, <1>11, <1>12 DEF SelectorInv

\* Without any stream every line was refused, and only then are all stations
\* asked for.
LEMMA InitializeEndsKeeps == SelectorInv /\ InitializeEnds => SelectorInv'
<1> SUFFICES ASSUME SelectorInv, InitializeEnds PROVE SelectorInv'
  OBVIOUS
<1>1. /\ streams \in Seq(Streams) /\ Len(mSelectors) = Len(file)
      /\ FromLines(Len(file)) /\ Placed(Len(file)) /\ Parsed
      /\ UNCHANGED <<file, mSelectors, refused>>
  BY DEF SelectorInv, InitializeEnds
<1>2. phase' \in {"connected", "failed"} /\ streams' \in Seq(Streams)
  <2>1. <<AllStations>> \in Seq(Streams)
    <3>1. AllStations \in Streams
      BY DEF Streams
    <3> QED
      BY <3>1
  <2> QED
    BY <1>1, <2>1 DEF InitializeEnds
<1>3. Accepted' = Accepted /\ Parsed'
  BY <1>1 DEF Accepted, Parsed
<1>4. CASE streams = <<>>
  <2>1. Len(streams) = 0
    BY <1>4
  <2>2. Accepted = {}
    BY <1>1, <2>1 DEF Placed, Accepted
  <2> QED
    BY <1>1, <1>2, <1>3, <2>2 DEF SelectorInv
<1>5. CASE streams # <<>>
  <2>1. streams' = streams
    BY <1>5 DEF InitializeEnds
  <2>2. FromLines(Len(file))' /\ Placed(Len(file))'
    BY <1>1, <1>3, <2>1 DEF FromLines, Placed
  <2> QED
    BY <1>1, <1>2, <1>3, <2>2 DEF SelectorInv
<1> QED
  BY <1>4, <1>5

\* What the invariant says depends on the selectors and streams, and on the
\* phase only as far as the reader leaves it.
LEMMA ReaderKeeps ==
    ASSUME SelectorInv, UNCHANGED <<file, mSelectors, streams, refused>>,
           \/ phase' = phase
           \/ /\ phase \in {"connected", "unpack"}
              /\ phase' \in {"connected", "unpack"}
    PROVE  SelectorInv'
<1>1. Accepted' = Accepted /\ Tried' = Tried /\ (Parsed => Parsed')
  BY DEF Accepted, Tried, Parsed
<1>2. FromLines(Tried) /\ Placed(Tried) => FromLines(Tried)' /\ Placed(Tried)'
  BY <1>1 DEF FromLines, Placed
<1>3. FromLines(Len(file)) /\ Placed(Len(file))
      => FromLines(Len(file))' /\ Placed(Len(file))'
  BY <1>1 DEF FromLines, Placed
<1> QED
  BY <1>1, <1>2, <1>3 DEF SelectorInv

\* The invariant of the configuration; the reader goes between "connected" and
\* "unpack" and leaves the streams alone.
LEMMA SelectorInvariance == ImportSpec => []SelectorInv
<1>1. ImportInit => SelectorInv
  <2> SUFFICES ASSUME ImportInit PROVE SelectorInv
    OBVIOUS
  <2>1. /\ file \in Files /\ phase = "parse" /\ mSelectors = <<>>
        /\ streams = <<>> /\ refused = <<>>
    BY DEF ImportInit, SelectorInit
  <2>2. file \in Seq(Lines)
    BY <2>1, FilesAssumption DEF Lines
  <2>3. Parsed
    BY <2>1, <2>2 DEF Parsed
  <2> QED
    BY <2>1, <2>2, <2>3 DEF SelectorInv
<1>2. SelectorInv /\ [ImportNext]_importVars => SelectorInv'
  <2> SUFFICES ASSUME SelectorInv, [ImportNext]_importVars PROVE SelectorInv'
    OBVIOUS
  <2>1. CASE Configure
    BY <2>1, ParseLineKeeps, ParseEndsKeeps, AddStreamKeeps,
       AddStreamFailsKeeps, InitializeEndsKeeps DEF Configure, SelectorNext
  <2>2. CASE Collect \/ UnpackFails \/ HandOver
    <3>1. /\ UNCHANGED <<file, mSelectors, streams, refused>>
          /\ \/ phase' = phase
             \/ /\ phase \in {"connected", "unpack"}
                /\ phase' \in {"connected", "unpack"}
      BY <2>2 DEF Collect, UnpackFails, HandOver
    <3> QED
      BY <3>1, ReaderKeeps
  <2>3. CASE Unpack \/ OtherBuilds \/ OtherHandsOver \/ Publish \/ Relay
             \/ Interfere \/ Lose \/ ListenDrops \/ Listen \/ Finished
             \/ UNCHANGED importVars
    <3>1. UNCHANGED selectorVars
      BY <2>3 DEF Unpack, OtherBuilds, OtherHandsOver, Publish, Relay,
         Interfere, Lose, ListenDrops, Listen, Finished, importVars
    <3> QED
      BY <3>1, ReaderKeeps DEF selectorVars
  <2> QED
    BY <2>1, <2>2, <2>3 DEF ImportNext
<1> QED
  BY <1>1, <1>2, PTL DEF ImportSpec

\* For every file and set of records and whatever streams the library refuses, as
\* long as it accepts one: the server is asked for nothing but what the accepted
\* lines select, and for all that its lines for data packets do.  The parser, the
\* selector string and the list of streams are all between the two sides.
THEOREM AsksForAcceptedLines == ImportSpec => []AcceptedLinesRequested
<1>1. SelectorInv => AcceptedLinesRequested
  <2> SUFFICES ASSUME SelectorInv, phase = "connected", Accepted # {}
               PROVE  /\ Requested \subseteq SelectedByFile
                      /\ \A i \in Accepted :
                             file[i][5] = "D" =>
                                 Selected(file[i]) \subseteq Requested
    BY DEF AcceptedLinesRequested
  <2>1. /\ FromLines(Len(file)) /\ Placed(Len(file)) /\ Parsed
        /\ Len(mSelectors) = Len(file) /\ file \in Seq(Lines)
    BY DEF SelectorInv
  <2>2. ASSUME NEW i \in 1..Len(file)
        PROVE  /\ mSelectors[i] \in Selectors
               /\ Meant(mSelectors[i]) = Selected(file[i])
               /\ file[i][5] = "D" => mSelectors[i].type = "Data"
    <3>1. file[i] \in Lines
      BY <2>1
    <3>2. mSelectors[i] = ParseSelector(file[i]) /\ ~ParseThrows(file[i])
      BY <2>1 DEF Parsed
    <3> QED
      BY <3>1, <3>2, ParsedSelector
  <2>3. ASSUME NEW record \in Requested PROVE record \in SelectedByFile
    <3>1. record \in Records
      BY DEF Requested
    <3>2. PICK j \in 1..Len(streams) : StreamMatches(streams[j], record)
      BY DEF Requested
    <3>3. PICK i \in 1..Len(file) :
              i \in Accepted /\ streams[j] = Stream(mSelectors[i])
      BY <2>1 DEF FromLines
    <3>4. record \in Meant(mSelectors[i])
      BY <2>2, <3>1, <3>2, <3>3, StreamSelects
    <3>5. record \in Selected(file[i])
      BY <2>2, <3>4
    <3> QED
      BY <3>3, <3>5 DEF SelectedByFile
  <2>4. ASSUME NEW i \in Accepted, file[i][5] = "D",
               NEW record \in Selected(file[i])
        PROVE  record \in Requested
    <3>1. record \in Records
      BY DEF Selected
    <3>2. i \in 1..Len(file)
      BY DEF Accepted
    <3>3. PICK j \in 1..Len(streams) : streams[j] = Stream(mSelectors[i])
      BY <2>1, <3>2 DEF Placed
    <3>4. /\ mSelectors[i] \in Selectors /\ record \in Meant(mSelectors[i])
          /\ mSelectors[i].type = "Data"
      BY <2>2, <2>4, <3>2
    <3>5. StreamMatches(Stream(mSelectors[i]), record)
      BY <3>1, <3>4, StreamSelects
    <3> QED
      BY <3>1, <3>3, <3>5 DEF Requested
  <2> QED
    BY <2>3, <2>4
<1> QED
  BY <1>1, SelectorInvariance, PTL
=============================================================================
