--------------------------- MODULE StreamSelector ---------------------------
(***************************************************************************)
(* What the SEEDLink client asks its server for: the selectors of the      *)
(* initialization file, each a line of fields (network station channel     *)
(* location type), become StreamSelectors of the client's options and then *)
(* streams of the connection.                                              *)
(***************************************************************************)
EXTENDS Integers, Sequences

CONSTANTS
    Files,     \* initialization files: sequences of lines
    Capitals,  \* for each name with small letters: what ::toupper makes of it
    Records    \* what the server offers: records of [network, station,
               \* channel, location, type] and more

\* A line has at least one field, which may be blank.  (WildLength is a fact
\* about the string "*" that provers cannot compute.)
ASSUME FilesAssumption == Files \subseteq Seq(Seq(STRING) \ {<<>>})
ASSUME CapitalsAssumption ==
    /\ "" \notin DOMAIN Capitals /\ "*" \notin DOMAIN Capitals
    /\ \A s \in DOMAIN Capitals :
           /\ Capitals[s] \in STRING \ DOMAIN Capitals
           /\ Len(Capitals[s]) = Len(s) /\ Capitals[s] \notin {"", "*"}
ASSUME WildLength == Len("*") = 1

VARIABLES
    file,         \* the lines of the initialization file
    phase,        \* where the program is
    mSelectors,   \* ClientOptions::mSelectors, one for each line read so far
    streams,      \* the streams of the connection, once they were added
    refused       \* history: the lines whose stream sl_add_stream refused

selectorVars == <<file, phase, mSelectors, streams, refused>>
---------------------------------------------------------------------------
(***************************************************************************)
(* StreamSelector.                                                         *)
(***************************************************************************)

\* ::toupper on the letters of a network or station.
Upper(s) == IF s \in DOMAIN Capitals THEN Capitals[s] ELSE s

SetNetworkThrows(network) == Len(network) # 2
SetStationThrows(station) == station = ""

TypeLetter == [Data |-> "D", Timing |-> "T", Log |-> "L", Event |-> "E",
               Blockette |-> "B", Calibration |-> "C"]

\* The selector string, by its location, the parts of its channel and its
\* type.  For type All the channel is written twice.
GetSelector(s) ==
    LET bare == s.locationCode = "" /\ s.channel = ""
        location == IF bare THEN ""
                    ELSE IF s.locationCode = "" THEN "??" ELSE s.locationCode
        channel == IF s.channel = "" THEN <<"*">> ELSE <<s.channel>>
    IN  IF s.type # "All"
        THEN [location |-> location, channel |-> channel,
              type |-> TypeLetter[s.type]]
        ELSE [location |-> location,
              channel |-> IF bare THEN <<>>
                          ELSE IF s.channel = "" THEN channel
                          ELSE channel \o channel,
              type |-> "*"]

(***************************************************************************)
(* getSEEDLinkOptions() and ClientOptions::addStreamSelector().            *)
(***************************************************************************)

\* setNetwork() or setStation() throws, or at() does for want of a field.  Each
\* field is asked for if the line is longer than its index, and a line of two
\* letters for the network is: it needs all five fields.
ParseThrows(line) ==
    \/ SetNetworkThrows(line[1])
    \/ Len(line) < 5
    \/ SetStationThrows(line[2])

\* Mutant: the location is looked for in the field of the channel.
ParseSelectorEarly(line) ==
    [network |-> Upper(line[1]), station |-> Upper(line[2]),
     channel |-> line[3], locationCode |-> line[3],
     type |-> IF line[5] = "D" THEN "Data" ELSE "All"]

ParseSelector(line) ==
    [network |-> Upper(line[1]), station |-> Upper(line[2]),
     channel |-> line[3], locationCode |-> line[4],
     type |-> IF line[5] = "D" THEN "Data" ELSE "All"]

\* The stream a selector stands for.
Stream(s) == [network |-> s.network, station |-> s.station,
              selector |-> GetSelector(s)]

AddThrows(s) == \E i \in 1..Len(mSelectors) : Stream(mSelectors[i]) = Stream(s)

ParseLine ==
    /\ phase = "parse"
    /\ Len(mSelectors) < Len(file)
    /\ LET line == file[Len(mSelectors) + 1]
       IN  IF ParseThrows(line) \/ AddThrows(ParseSelector(line))
           THEN phase' = "failed" /\ UNCHANGED mSelectors
           ELSE /\ mSelectors' = Append(mSelectors, ParseSelector(line))
                /\ UNCHANGED phase
    /\ UNCHANGED <<file, streams, refused>>

ParseEnds ==
    /\ phase = "parse"
    /\ Len(mSelectors) = Len(file)
    /\ phase' = "initialize"
    /\ UNCHANGED <<file, mSelectors, streams, refused>>

(***************************************************************************)
(* ClientImpl::initialize().  The connection's list of streams is empty    *)
(* until sl_add_stream succeeds.                                           *)
(***************************************************************************)
Tried == Len(streams) + Len(refused)

AddStream ==
    /\ phase = "initialize"
    /\ Tried < Len(mSelectors)
    /\ streams' = Append(streams, Stream(mSelectors[Tried + 1]))
    /\ UNCHANGED <<file, phase, mSelectors, refused>>

\* sl_add_stream fails: the selector is left out and the client goes on.
AddStreamFails ==
    /\ phase = "initialize"
    /\ Tried < Len(mSelectors)
    /\ refused' = Append(refused, Tried + 1)
    /\ UNCHANGED <<file, phase, mSelectors, streams>>

AllStations == [network |-> "*", station |-> "*",
                selector |-> [location |-> "", channel |-> <<>>, type |-> "*"]]

\* Without a stream the client asks for all stations; this may fail too.
InitializeEnds ==
    /\ phase = "initialize"
    /\ Tried = Len(mSelectors)
    /\ IF streams = <<>>
       THEN \/ streams' = <<AllStations>> /\ phase' = "connected"
            \/ phase' = "failed" /\ UNCHANGED streams
       ELSE phase' = "connected" /\ UNCHANGED streams
    /\ UNCHANGED <<file, mSelectors, refused>>

SelectorInit ==
    /\ file \in Files
    /\ phase = "parse"
    /\ mSelectors = <<>>
    /\ streams = <<>>
    /\ refused = <<>>

SelectorNext ==
    \/ ParseLine \/ ParseEnds \/ AddStream \/ AddStreamFails \/ InitializeEnds
---------------------------------------------------------------------------
(***************************************************************************)
(* The server.  In a pattern "*" stands for any text and "??" for any two  *)
(* letters; a channel written twice is longer than any channel.            *)
(***************************************************************************)
ChannelMatches(parts, channel) ==
    parts = <<channel>> \/ \A i \in 1..Len(parts) : parts[i] = "*"

StreamMatches(stream, record) ==
    /\ stream.network \in {"*", record.network}
    /\ stream.station \in {"*", record.station}
    /\ stream.selector.location \in {"", "??", record.location}
    /\ ChannelMatches(stream.selector.channel, record.channel)
    /\ stream.selector.type \in {"*", record.type}

Requested == {record \in Records :
                 \E i \in 1..Len(streams) : StreamMatches(streams[i], record)}
---------------------------------------------------------------------------
\* What a line asks for by the comments of streamSelector.hpp (13-24, 52-69):
\* names in letters of any case, a blank or wild field for everything, and type
\* D for data packets where any other is for everything.
Selected(line) ==
    {record \in Records :
        /\ Upper(line[1]) = record.network
        /\ Upper(line[2]) \in {"*", record.station}
        /\ line[3] \in {"", "*", record.channel}
        /\ line[4] \in {"", "??", record.location}
        /\ line[5] = "D" => record.type = "D"}

\* The lines whose stream the library has accepted.
Accepted == {i \in 1..Len(file) : \A j \in 1..Len(refused) : refused[j] # i}

SelectedByFile == UNION {Selected(file[i]) : i \in Accepted}

\* The server is asked for nothing but what the accepted lines of the file
\* select, and for all that its lines for data packets do.  What the premise and
\* the type leave out is in RequestsAsConfigured.
AcceptedLinesRequested ==
    phase = "connected" /\ Accepted # {} =>
        /\ Requested \subseteq SelectedByFile
        /\ \A i \in Accepted :
               file[i][5] = "D" => Selected(file[i]) \subseteq Requested

\* streamSelector.hpp:17 says of type All `Return everything', and client.cpp:395
\* that all stations are asked for `if no streams were specified': the server is
\* asked for just what the accepted lines select, and for everything only by a
\* file without lines.
RequestsAsConfigured ==
    phase = "connected" =>
        Requested = IF file = <<>> THEN Records ELSE SelectedByFile
===========================================================================
