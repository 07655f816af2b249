------------------------------- MODULE Import -------------------------------
(***************************************************************************)
(* The way of a packet from a SEEDLink server, or from another import      *)
(* client, to a subscriber behind the sanitizer: a record is unpacked into *)
(* a DataPacket, checked by the publisher's callback, queued, sent as a    *)
(* message, received, relayed by the sanitizer and received once more.     *)
(* The threads and the queues' limits are those of SeedLinkPublisher,      *)
(* Subscriber and Sanitizer; here the contents matter.  Each packet is     *)
(* accompanied by its original, as it was when it was handed over.         *)
(***************************************************************************)
EXTENDS DataPacket, StreamSelector

CONSTANTS
    MaxBuffers      \* bound: buffers or packets that the clients hand over

\* What libmseed makes of a record: names that are blank or codes, samples and
\* a start time in nanoseconds.
ASSUME ImportAssumption ==
    /\ MaxBuffers \in Nat
    /\ "--" \in Codes
    /\ Records \subseteq
           [network: Codes \cup {""}, station: Codes \cup {""},
            channel: Codes \cup {""}, location: Codes \cup {""}, type: STRING,
            sampleType: STRING, nSamples: Nat, rate: Int, startTime: Nat,
            damaged: BOOLEAN]

VARIABLES
    client,      \* the import client: "SEEDLink" or "other"
    buffer,      \* the records in the reader's buffer still to be unpacked
    packets,     \* dataPackets, the vector of unpacked packets
    handed,      \* history: buffers or packets handed over
    queue,       \* the publisher's queue
    wire,        \* messages between the processes
    relay,       \* packets within the sanitizer
    delivered,   \* packets that have reached the last subscriber
    undefined    \* whether a receiver's behaviour was undefined

readerVars == <<client, buffer, packets, handed>>
pipeVars == <<queue, wire, relay, delivered, undefined>>
importVars == <<selectorVars, packet, readerVars, pipeVars>>
---------------------------------------------------------------------------
(***************************************************************************)
(* The SEEDLink client: packetToCallback() and miniSEEDToDataPackets().    *)
(***************************************************************************)

\* sl_collect returns a packet of the requested streams: one or two records.
Collect ==
    /\ client = "SEEDLink"
    /\ phase = "connected"
    /\ handed < MaxBuffers
    /\ handed' = handed + 1
    /\ \E first \in Requested, second \in Requested :
           buffer' \in {<<first>>, <<first, second>>}
    /\ phase' = "unpack"
    /\ UNCHANGED <<file, mSelectors, streams, refused, packet, client, packets,
                   pipeVars>>

\* A record cannot be unpacked: libmseed fails, a setter refuses a blank name
\* or a rate, or the samples have no known type (a log's text has 'a').
SampleTypes == [i |-> "Integer32", f |-> "Float", d |-> "Double"]
UnpackThrows(record) ==
    \/ record.damaged
    \/ "" \in {record.network, record.station, record.channel}
    \/ record.rate <= 0
    \/ record.nSamples > 0 /\ record.sampleType \notin DOMAIN SampleTypes

\* A blank location becomes "--".
PacketOf(record) ==
    LET location == IF record.location = "" THEN "--" ELSE record.location
        named == [EmptyPacket EXCEPT !.names =
                     [network |-> record.network, station |-> record.station,
                      channel |-> record.channel, locationCode |-> location]]
        timed == SetStartTime(SetSamplingRate(named, record.rate),
                              RoundDiv(record.startTime, 1000))
    IN  IF record.nSamples = 0 THEN timed
        ELSE SetData(timed, SampleTypes[record.sampleType], record.nSamples,
                     "exact")

Unpack ==
    /\ phase = "unpack"
    /\ buffer # <<>>
    /\ ~UnpackThrows(Head(buffer))
    /\ packets' = Append(packets, PacketOf(Head(buffer)))
    /\ buffer' = Tail(buffer)
    /\ UNCHANGED <<selectorVars, packet, client, handed, pipeVars>>

\* The exception takes the vector with it: the whole buffer is skipped.
UnpackFails ==
    /\ phase = "unpack"
    /\ buffer # <<>>
    /\ UnpackThrows(Head(buffer))
    /\ packets' = <<>>
    /\ buffer' = <<>>
    /\ phase' = "connected"
    /\ UNCHANGED <<file, mSelectors, streams, refused, packet, client, handed,
                   pipeVars>>

(***************************************************************************)
(* addPacketsFromAcquisitionCallback().                                    *)
(***************************************************************************)
\* Mutant: packets without samples are let through.
RefusesUnnamed(p) ==
    \/ \E part \in {"network", "station", "channel"} : ~Have(p, part)
    \/ ~HaveSamplingRate(p)

CallbackThrows(p) ==
    \/ \E part \in {"network", "station", "channel"} : ~Have(p, part)
    \/ ~HaveSamplingRate(p)
    \/ p.nSamples < 1
    \/ p.dataType = "Unknown"

Callback(p) ==
    queue' = IF CallbackThrows(p) THEN queue
             ELSE Append(queue, [packet |-> p, original |-> p])

\* The loop over the packets of a buffer: each exception is caught on its own.
HandOver ==
    /\ phase = "unpack"
    /\ buffer = <<>>
    /\ IF packets = <<>>
       THEN phase' = "connected" /\ UNCHANGED <<packets, queue>>
       ELSE /\ Callback(Head(packets))
            /\ packets' = Tail(packets)
            /\ UNCHANGED phase
    /\ UNCHANGED <<file, mSelectors, streams, refused, packet, client, buffer,
                   handed, wire, relay, delivered, undefined>>

\* Another client of the IImportClient interface calls setters as it likes ...
OtherBuilds ==
    /\ client = "other"
    /\ handed < MaxBuffers
    /\ Call
    /\ UNCHANGED <<selectorVars, readerVars, pipeVars>>

\* ... and the callback, which moves the packet away.
OtherHandsOver ==
    /\ client = "other"
    /\ handed < MaxBuffers
    /\ handed' = handed + 1
    /\ Callback(packet)
    /\ packet' = EmptyPacket
    /\ UNCHANGED <<selectorVars, client, buffer, packets, wire, relay, delivered,
                   undefined>>
---------------------------------------------------------------------------
(***************************************************************************)
(* Publisher::send() in both processes, ZeroMQ, and Subscriber::listen().  *)
(* A message has two parts, the type and the payload; here it also knows   *)
(* the hop it is on and its packet's original.                             *)
(***************************************************************************)
MessageType == "US8::MessageFormats::Broadcasts::DataPacket"

\* serialize() throws: the packet is popped and not sent.
Sends(item, hop) ==
    wire' = IF SerializeThrows(item.packet) THEN wire
            ELSE Append(wire, [parts |-> 2, type |-> MessageType,
                               payload |-> <<Serialize(item.packet)>>,
                               hop |-> hop, original |-> item.original])

Publish ==
    /\ queue # <<>>
    /\ Sends(Head(queue), 1)
    /\ queue' = Tail(queue)
    /\ UNCHANGED <<selectorVars, packet, readerVars, relay, delivered,
                   undefined>>

Relay ==
    /\ relay # <<>>
    /\ Sends(Head(relay), 2)
    /\ relay' = Tail(relay)
    /\ UNCHANGED <<selectorVars, packet, readerVars, queue, delivered,
                   undefined>>

\* Someone else's message on the same broadcast: one part, another type, or a
\* payload that is no CBOR (an empty sequence).
ForeignMessages ==
    {[parts |-> n, type |-> type, payload |-> <<>>, hop |-> 1,
      original |-> EmptyPacket] : n \in {1, 2}, type \in {MessageType, "other"}}

Interfere ==
    /\ queue # <<>>
    /\ wire = <<>>
    /\ \E message \in ForeignMessages : wire' = <<message>>
    /\ UNCHANGED <<selectorVars, packet, readerVars, queue, relay, delivered,
                   undefined>>

\* ZeroMQ drops a message at a high-water mark or before a subscriber is there.
Lose ==
    /\ wire # <<>>
    /\ wire' = Tail(wire)
    /\ UNCHANGED <<selectorVars, packet, readerVars, queue, relay, delivered,
                   undefined>>

\* Not two parts, a type that is not handled, or from_cbor throws.
Unhandled(message) ==
    \/ message.parts # 2
    \/ message.type # MessageType
    \/ message.payload = <<>>

ListenDrops ==
    /\ wire # <<>>
    /\ Unhandled(Head(wire))
    /\ wire' = Tail(wire)
    /\ UNCHANGED <<selectorVars, packet, readerVars, queue, relay, delivered,
                   undefined>>

Listen ==
    /\ wire # <<>>
    /\ ~Unhandled(Head(wire))
    /\ wire' = Tail(wire)
    /\ LET message == Head(wire)
           object == message.payload[1]
           item == [packet |-> Deserialize(object),
                    original |-> message.original]
       IN  IF DeserializeUndefined(object)
           THEN undefined' = TRUE /\ UNCHANGED <<relay, delivered>>
           ELSE /\ relay' = IF message.hop = 1 THEN Append(relay, item)
                                               ELSE relay
                /\ delivered' = IF message.hop = 2 THEN Append(delivered, item)
                                                   ELSE delivered
                /\ UNCHANGED undefined
    /\ UNCHANGED <<selectorVars, packet, readerVars, queue>>

\* The program has ended, the bound is reached, or the client polls a server
\* that has nothing for it.
Finished ==
    /\ \/ phase = "failed"
       \/ phase = "connected" /\ Requested = {}
       \/ handed = MaxBuffers
    /\ UNCHANGED importVars

ImportInit ==
    /\ SelectorInit
    /\ PacketInit
    /\ client \in {"SEEDLink", "other"}
    /\ client = "other" => file = <<>>
    /\ buffer = <<>>
    /\ packets = <<>>
    /\ handed = 0
    /\ queue = <<>>
    /\ wire = <<>>
    /\ relay = <<>>
    /\ delivered = <<>>
    /\ undefined = FALSE

Configure ==
    /\ client = "SEEDLink"
    /\ SelectorNext
    /\ UNCHANGED <<packet, readerVars, pipeVars>>

ImportNext ==
    \/ Configure
    \/ Collect \/ Unpack \/ UnpackFails \/ HandOver
    \/ OtherBuilds \/ OtherHandsOver
    \/ Publish \/ Relay \/ Interfere \/ Lose \/ ListenDrops \/ Listen
    \/ Finished

ImportSpec == ImportInit /\ [][ImportNext]_importVars
---------------------------------------------------------------------------
InFlight == {relay[i] : i \in 1..Len(relay)}
            \cup {delivered[i] : i \in 1..Len(delivered)}

\* A packet that comes off the wire, after one hop or two, has the header, the
\* end time and the samples of the packet that was handed over, with its
\* samples as doubles: what message and setters recompute or convert (the end
\* time, the names, the sample type) loses nothing, except that integers of 64
\* bits beyond the reach of a double are rounded.
ArrivesIntact ==
    \A item \in InFlight :
        item.packet = [item.original EXCEPT
                           !.dataType = "Double",
                           !.precision = IF item.original.precision = "wide"
                                         THEN "rounded" ELSE @]

\* No receiver asks a message for samples it does not have: the callback's
\* check on the far side of two processes is the only thing that prevents it,
\* whichever client made the packet and whatever file configured it.
NoUndefined == ~undefined
===========================================================================
