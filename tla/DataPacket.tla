----------------------------- MODULE DataPacket -----------------------------
(***************************************************************************)
(* MessageFormats::Broadcasts::DataPacket: a packet of samples of one      *)
(* channel, its setters, and its conversion to and from a message.  The    *)
(* end time is a cached member that every setter must bring up to date.    *)
(* Times are in microseconds and sampling rates in tenths of a hertz.      *)
(* Samples are their type, number and precision: integers of 64 bits that  *)
(* no double represents are "wide", and "rounded" once they have been      *)
(* converted.                                                              *)
(***************************************************************************)
EXTENDS Integers, Sequences

CONSTANTS
    Codes,           \* the names of networks, stations, channels, locations
    Spellings,       \* strings passed as names
    StartTimes,      \* arguments of setStartTime
    SamplingRates,   \* arguments of setSamplingRate
    SampleCounts     \* lengths of the arguments of setData

Unset == ""
Parts == {"network", "station", "channel", "locationCode"}
DataTypes == {"Integer32", "Integer64", "Float", "Double"}
Precisions == {"exact", "wide", "rounded"}

\* A string as it is passed to a setter: a code, or only blanks, with or
\* without blanks and small letters that convertString() takes away.
Spelling == [code: Codes \cup {Unset}, tidy: BOOLEAN]

ASSUME PacketAssumption ==
    /\ Unset \notin Codes
    /\ Spellings \subseteq Spelling
    /\ StartTimes \subseteq Nat
    /\ SamplingRates \subseteq Int
    /\ SampleCounts \subseteq Nat

VARIABLE packet   \* the packet whose setters are called

DataPacket == [names: [Parts -> Codes \cup {Unset}],
               start: Nat, end: Nat, rate: Nat,
               dataType: DataTypes \cup {"Unknown"}, nSamples: Nat,
               precision: Precisions]

EmptyPacket == [names |-> [part \in Parts |-> Unset],
                start |-> 0, end |-> 0, rate |-> 0,
                dataType |-> "Unknown", nSamples |-> 0, precision |-> "exact"]
---------------------------------------------------------------------------
(***************************************************************************)
(* Members of DataPacket.                                                  *)
(***************************************************************************)

\* std::round(x/y) for x >= 0 and y > 0.
RoundDiv(x, y) == (2 * x + y) \div (2 * y)

isEmpty(s) == s.code = Unset
convertString(s) == s.code

Have(p, part) == p.names[part] # Unset
HaveSamplingRate(p) == p.rate > 0

\* The time of the last sample.
LastSample(p) == p.start + RoundDiv((p.nSamples - 1) * 10000000, p.rate)

UpdateEndTime(p) ==
    [p EXCEPT !.end = IF p.nSamples > 0 /\ HaveSamplingRate(p)
                      THEN LastSample(p) ELSE p.start]

SetName(p, part, s) == [p EXCEPT !.names[part] = convertString(s)]

SetSamplingRate(p, rate) == UpdateEndTime([p EXCEPT !.rate = rate])

\* Mutant: the end time of a packet that is moved in time stays behind.
SetStartTimeOnly(p, time) == [p EXCEPT !.start = time]

SetStartTime(p, time) == UpdateEndTime([p EXCEPT !.start = time])

\* An empty vector leaves the samples that are there.
SetData(p, type, n, precision) ==
    UpdateEndTime(IF n = 0 THEN p
                  ELSE [p EXCEPT !.dataType = type, !.nSamples = n,
                                 !.precision = precision])

GetEndTimeThrows(p) == ~HaveSamplingRate(p) \/ p.nSamples < 1

(***************************************************************************)
(* Messages.  Without samples a message has no "data": an empty sequence.  *)
(***************************************************************************)
SerializeThrows(p) == ~HaveSamplingRate(p) \/ \E part \in Parts : ~Have(p, part)

Serialize(p) ==
    [names |-> p.names, startTime |-> p.start, samplingRate |-> p.rate,
     data |-> IF p.nSamples > 0
              THEN <<[n |-> p.nSamples, precision |-> p.precision]>> ELSE <<>>]

\* operator[] of a constant object with a key that is not there is undefined.
DeserializeUndefined(message) == message.data = <<>>

\* Mutant: the start time is taken for seconds instead of microseconds.
DeserializeSeconds(message) ==
    LET data == message.data[1]
    IN  SetData([SetSamplingRate(EmptyPacket, message.samplingRate)
                     EXCEPT !.names = message.names,
                            !.start = message.startTime * 1000000],
                "Double", data.n, data.precision)

\* Whatever they were, samples become doubles.  The message's end time is not
\* read but computed anew.
Deserialize(message) ==
    LET data == message.data[1]
        named == [EmptyPacket EXCEPT !.names = message.names]
        rated == SetSamplingRate(named, message.samplingRate)
        started == SetStartTime(rated, message.startTime)
    IN  SetData(started, "Double", data.n,
                IF data.precision = "wide" THEN "rounded" ELSE data.precision)
---------------------------------------------------------------------------
(***************************************************************************)
(* Any program that calls the setters, in any order.                       *)
(***************************************************************************)
CallSetName(part, s) ==
    /\ ~isEmpty(s)
    /\ packet' = SetName(packet, part, s)

CallSetSamplingRate(rate) ==
    /\ rate > 0
    /\ packet' = SetSamplingRate(packet, rate)

CallSetStartTime(time) == packet' = SetStartTime(packet, time)

\* Only integers of 64 bits can be wide.
CallSetData(type, n, precision) ==
    /\ precision = "wide" => type = "Integer64"
    /\ packet' = SetData(packet, type, n, precision)

\* A blank name or a rate that is not positive: the setter throws.
CallThrows(s, rate) ==
    /\ isEmpty(s) \/ rate <= 0
    /\ UNCHANGED packet

CallClear == packet' = EmptyPacket

Call ==
    \/ \E part \in Parts, s \in Spellings : CallSetName(part, s)
    \/ \E rate \in SamplingRates : CallSetSamplingRate(rate)
    \/ \E time \in StartTimes : CallSetStartTime(time)
    \/ \E type \in DataTypes, n \in SampleCounts,
          precision \in {"exact", "wide"} : CallSetData(type, n, precision)
    \/ \E s \in Spellings, rate \in SamplingRates : CallThrows(s, rate)
    \/ CallClear

PacketInit == packet = EmptyPacket
PacketSpec == PacketInit /\ [][Call]_packet
---------------------------------------------------------------------------
\* The members have their types, and there is a data type exactly when there
\* are samples: size() and getData() choose one of four vectors by it.
PacketTypeOK ==
    /\ packet \in DataPacket
    /\ packet.dataType = "Unknown" <=> packet.nSamples = 0

\* The cached end time never lags behind: whenever getEndTime() answers, it
\* answers the time of the last sample, whichever of start time, sampling rate
\* and samples was set last and however often they were set.
EndTimeFresh == ~GetEndTimeThrows(packet) => packet.end = LastSample(packet)
===========================================================================
