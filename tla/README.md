# A TLA+ model of us8

us8 moves seismic data packets between processes over ZeroMQ. A SEEDLink client
publishes packets, a proxy fans them out, a sanitizer removes packets from the
future, expired packets and duplicates, and publishes what is left. This
directory models the parts of that system with behaviour over time, checks them
with TLC on small instances and proves the safety results with TLAPS for every
instance. `PROJECT.json` maps each definition to the lines it stands for and
lists runs, mutants, hazards, findings and theorems.

## 1. The system

| Part | State | Operations | What is hard | What makes it correct |
|---|---|---|---|---|
| SEEDLink client, `broadcasts/dataPacket/seedLink/client.cpp` | connection position, state file, reader thread, `mKeepRunning`, `updateStateFile` | `connect`, `start`, `stop`, `disconnect`, reader loop around `sl_collect`, save and recover | the process is killed between collecting, handing over and saving | the saved number never skips a packet nor goes back |
| `seedLinkDataPacketBroadcastPublisher`, `seedLink/publisher.cpp` | bounded queue, publisher thread, signal flag | callback enqueues; thread trims, peeks, sends, pops | two threads on one lossy queue, shutdown order | what is sent is an ordered selection without repeats; a signal ends the process |
| `dataPacketBroadcastProxy`, `proxy.cpp` | proxy thread in `zmq::proxy_steerable`, REQ control socket, two authentication services | `start`, `pause`, `resume`, `stop`, signal | joins that may never return, three nested `stop()` calls | a process that is up terminates and leaves nothing behind |
| Authentication service, `messaging/zeromq/authentication/service.cpp` | `mAPIStarted`, `mKeepRunning`, PAIR pipe, ZAP REP socket | `start`, `stop`, ZAP thread's poll loop | a flag read by one thread and set by another before a poll without time-out | every request is received and answered; `stop()` ends the thread |
| Subscriber, `subscriber.cpp` | listener thread, `mKeepRunning` | `start`, `stop`, `listen` | `stop()` is called from two places | packets go to the callback in order |
| `dataPacketSanitizer`, `sanitizer/sanitizer.cpp` | two bounded queues, tester and publisher threads | enqueue, trim, test, publish, signal | four threads, two lossy queues, shutdown in mid-loop | order kept, no packet sent twice, quiet after `stop()`, ends |
| Duplicate tester, `sanitizer/testDuplicateDataPacket.cpp` | a circular buffer of headers per channel, log flags | `allow`, `logBadData` | overlaps, copies, back-fill, eviction, exceptions, changing rates | buffers ordered, of one rate, without copies and without overlaps that the slip test should see |
| Future and expired testers, `testFutureDataPacket.cpp`, `testExpiredDataPacket.cpp` | log flags | `allow`, `logBadData` | each reads the clock for itself; the duplicate tester remembers what it is asked about | a packet passes only if every enabled tester lets it; a packet from the future leaves no trace in the duplicate tester |
| Data packet message, `messageFormats/broadcasts/dataPacket.cpp` | header, samples of one of four types, cached end time | setters, `clear`, `serialize`, `deserialize` | setters in any order; two conversions between three processes | the end time is never stale; what arrives is what was handed over |
| Stream selectors, `seedLink/streamSelector.cpp`, `getSEEDLinkOptions()` | the selectors of the options, the streams of the connection | parse, add, add to the connection | optional fields, refused streams, the all-station fallback | the server is asked for what the lines of the file select |
| Web server (Beast), `services/webServer/` | accept loop, one session per connection, WebSocket response queue | asynchronous handlers | handlers in any order, failures, silent peers | one write at a time, no response lost or repeated, every connection released |
| Value classes (options, credentials, messages of the web server) | members | setters | – | without behaviour over time |
| oatpp web server, `webServer/` | – | – | – | not modelled: an experiment outside the build, its concurrency is oatpp's |

Packets flow SEEDLink server → client reader → queue → publisher thread →
proxy → subscriber's listener → first queue → tester → second queue →
publisher thread. Threads share only the queues and the running flags; the
processes share only ZeroMQ messages, which may be lost.

## 2. Modules

| Module | Models | State and actions |
|---|---|---|
| `DuplicateTest` | duplicate tester | `mCircularBuffers`, `capacity`, the log's sets and time; one action per branch of `allow()` (`NewChannel`, `Duplicate`, `Newest`, `Oldest`, `TimingSlip`, `BackFill`, and the exception paths), each with `logBadData()` inside it |
| `Testers` | future and expired testers and `checkPackets()`, extends `DuplicateTest` | a packet is taken, asked about by each enabled tester in turn while the clock runs, and passed or dropped; the log sets of both testers |
| `DataPacket` | the message class | one operator per setter; `packet` and the `Call` actions are any program that calls them; `Serialize`, `Deserialize` |
| `StreamSelector` | selectors | `ParseLine` … `InitializeEnds`: from the file to the streams of the connection; what the server makes of them |
| `Import` | a packet's way from record to subscriber, extends `DataPacket` and `StreamSelector` | unpack, callback, queue, `send()`, wire, `listen()`, relay; foreign messages and losses |
| `LossyFifo` | abstract specification of both pipelines | `Receive`, `Deliver`: each packet goes out at most once and in order, any packet may be lost |
| `Subscriber` | subscriber | the listener's loop; start/stop pieces that `Sanitizer` composes |
| `Sanitizer` | sanitizer process, extends `Subscriber` | main, tester and publisher threads at the granularity of their calls on shared state |
| `AuthService` | authentication service, one per socket | the ZAP thread and the three steps of `stop()` |
| `Proxy` | proxy process, extends `AuthService` | main thread, control socket, proxy thread, `stop()` from main, from `~Process` and from `~ServiceImpl` |
| `SeedLinkClient` | SEEDLink client | the reader's loop, state file, `connect()`, `disconnect()` |
| `SeedLinkPublisher` | publisher process, extends `SeedLinkClient` | main and publisher threads, kill and restart |
| `WebSocketSession` | one WebSocket session | operations completing, and handlers on the strand |
| `WebServer` | listener, `DetectSession`, plain and TLS HTTP sessions | one action per handler, errors and time-outs |
| `DuplicateTest_proofs`, `Testers_proofs`, `Import_proofs` (with the proofs of `DataPacket` and `StreamSelector`), `Sanitizer_proofs`, `SeedLinkPublisher_proofs`, `Proxy_proofs` (with those of `AuthService`), `WebSocketSession_proofs`, `WebServer_proofs` | – | theorems |
| `MC*` | – | instances for TLC |

Definitions marked `Mutant:` are faulty variants that show that a property can
fail; nothing else uses them.

### Abstractions

* A packet in `DuplicateTest` is its channel, start time (microseconds), nominal
  rate (tenths of a hertz) and number of samples; the end time, the rounding of
  the rate and the tolerance are computed as in the code. Samples are left out.
* A packet in the pipelines is a number. What each of the three testers answers in
  `Sanitizer` is arbitrary, only the order in which `checkPackets()` asks them is
  kept: that module is about the threads and queues around the testers, `Testers`
  and `DuplicateTest` are about the answers.
* `~Process` destroys the queues before the subscriber. A listener that writes to a
  destroyed queue is undefined behaviour: the write goes unnoticed or the process
  crashes, then or later (`ListenerOverruns`, `Crash`).
* The clock of `Testers` counts whole seconds and never goes back, as the testers'
  limits and intervals do. It may advance between any two testers.
* In `DataPacket` and `Import` names are codes, and the strings that setters take are
  codes with or without blanks and small letters. Samples are their type, number
  and precision: the one thing a conversion to doubles loses is the last bits of
  large 64-bit integers. The sampling rate is an exact number, sent as a double.
* Packets on their way through `Import` share no state, so one buffer of one or two
  records shows what can happen to a packet; threads, queue limits and shutdown are
  those of `Sanitizer` and `SeedLinkPublisher`. `DataPacket` objects are built by
  the SEEDLink client or by another client of the `IImportClient` interface, which
  calls the setters as it likes. Foreign messages are not in CBOR or not of the
  type; a foreign message of the right type without the right keys is undefined
  behaviour in `objectToDataPacket()` and is left out.
* A line of the initialization file is its fields. The code asks for each field if
  the line has more characters than the field's index, and every line with a network
  of two letters has: such a line needs all five fields. `Capitals` is `::toupper` on
  the names with small letters. Which records match a pattern is the server's
  business and external.
* Queue steps (`try_enqueue`, `try_dequeue`, `peek`, `pop`) are atomic; everything
  between them is a separate step. A full queue drops a packet.
* ZeroMQ, libslink, Beast, `std::thread::join` and peers are external: modelled by
  what the code relies on. `sl_savestate` is atomic; the server has one stream and
  one packet per record, and packets of other formats (`OtherFormats`) among them.
* `pause()`, `resume()` and `Client::connect()` have no caller in the programs. They
  are part of the interfaces, so the models may call them (`MaySteer` switches the
  first two).
  The publisher program never sets the state file option; `UseStateFile` switches
  it as `ClientOptions` allows.
* A WebSocket session's handlers run one at a time but, of those that are ready,
  any may run next, each kind in its own order. That allows every order a strand
  can produce. No source instantiates the class yet, and the HTTP session never
  upgrades a request, so `WebSocketSession` is a module of its own.
* Assertions are compiled out in release builds: the code after them is what is
  modelled.

## 3. Runs

Passing runs:

| Run | Bounds | What it shows |
|---|---|---|
| `duplicate_mixed` | 16 packets of 1, 2, 6 and no samples on one channel, one of another rate, buffer of 3 | `TypeOK`, `Sorted`, `NoTwins`, and `OverlapsOnlySpanning`: two headers of a buffer overlap only if the earlier one spans a later header, which is what the slip test cannot see. Three headers are the least that let a packet be evicted while another sorts between two. Any packet may come any number of times |
| `testers` | two channels, nine packets, clock at 100 and 101 s, log interval 1, any subset of the testers | `PassedMeetsAll`: what is passed on is not from the future, had not expired when it was taken, and was allowed by the duplicate tester, as far as these are enabled; `NotPoisoned`: the duplicate tester never holds a packet the future tester rejects; `OneRate`, and `SpansDuration` (an estimated capacity is enough for half the configured duration of packets like the first one, if these are longer than half a second), with changing rates; `FlagsReportedWhenDue`: the first packet a tester is asked about after the interval has every waiting flag reported, none is reported sooner and none is dropped |
| `import` | files of up to two of seven good lines, or one of five bad ones; nine records; one buffer or packet | `AcceptedLinesRequested`: the server is asked for nothing but what the accepted lines of the file select, and for all that lines for data packets do; `EndTimeFresh`; `ArrivesIntact` behind two hops; `NoUndefined`. Two lines are the least that can repeat each other or be refused in part; two records in a buffer the least that can be lost together |
| `sanitizer_pipeline` | 5 packets, queues of 2 trimmed above 1 | the process implements `LossyFifo` (`InOrder`); `QuietAfterStop`; `Terminates`, by a crash in a destroyed queue at worst; `EveryPacketTaken`. Queues of two with five packets reach full, trimmed, empty and destroyed queues |
| `proxy_process` | two services, two requests each, pause and resume | `OnlyLastUnanswered`, `CleanExit`, `StartedTerminates`, `RequestsReceived`. Deadlock is not checked because the process can hang (see `proxy_race`; a `stop()` after `pause()` hangs as well) |
| `seedlink` | 5 packets, one of another format, three lives, save interval 1, queue of 2 trimmed above 1 | `NoGap` and `StateForward` when the process is killed at any step, when `connect()` comes before `start()` and when `initialize()` throws; each life implements `LossyFifo` (`InOrder`); `Terminates` unless killed; `QueueDrains`. Five packets cover two saves, a restart between them and a full queue |
| `websocket_session` | 5 requests | `SingleWriter`, `NoGaps`, `Answered`, `Released` |
| `webserver_connections` | 2 connections, 2 requests each, 3 methods | `OneResponseEach`, `CloseHonoured`, `Accepted`, `Reaped` |

Runs that show a disagreement between the code and its documentation:

| Run | Documentation | What TLC finds |
|---|---|---|
| `duplicate_fresh` | `testDuplicateDataPacket.hpp:56` and 19-21 | a packet never seen before that back-fills the front of the buffer is recorded and rejected; the same property covers a packet whose counterpart was purged from a full buffer, which is rejected too |
| `sanitizer_stop` | `subscriber.hpp:22` | `Subscriber::stop()` starts the listener anew |
| `proxy_race` | `service.hpp:55` | `stop()` reads `mAPIStarted` before the thread sets it, sends no TERMINATE, and joins a thread asleep in `poll` |
| `import_selectors` | `client.cpp:395`, `streamSelector.hpp:17` | a file whose only line is refused asks for all stations; the same property covers a line of type All with a named channel, which is written twice and selects nothing |

Further deviations met while modelling, which have no run:

* a packet inside an older, longer one is allowed when the newest header is shorter
  (`testDuplicateDataPacket.hpp:15`; these are the overlaps that
  `OverlapsOnlySpanning` lets stand);
* when a channel's rate changes, `operator==` throws, `allow` stays true
  (`testDuplicateDataPacket.cpp:409`) and copies pass again and again, against
  `testDuplicateDataPacket.hpp:56`;
* at a nominal rate of 1005 Hz or more `operator==` throws for two packets of the
  same rate as well, and every copy passes; this is why `NoRepeat` assumes
  `RatesClassified`;
* the tolerance of `operator==` is one and a half samples, so packets of one or two
  samples can be taken for copies of their second but next neighbour: with such a
  packet back-filled after its look-alike was evicted, an answer of `allow()` repeats
  (`NoneBetweenCopies` excludes it);
* a line of fewer than five fields is always rejected because the length of the line
  is tested in place of the number of its fields (`publisher.cpp:598-618`); the
  dotted selectors of the comment at `publisher.cpp:579` are refused by
  `setNetwork()`; a blank station throws although `streamSelector.hpp` says that
  all stations are then imported;
* a message without samples is undefined behaviour for its receiver
  (`dataPacket.cpp:93`), which `serialize()` does not prevent; the callback does;
* a record that cannot be unpacked discards the packets of the records before it in
  the same buffer (`client.cpp:136`), and is not freed when a setter throws
  (`client.cpp:74-92`);
* a first packet of up to half a second divides by a duration that rounds to zero
  (`testDuplicateDataPacket.cpp:102`); the capacity it gets need not span any
  duration, so `SpansDuration` speaks of longer packets only;
* with the future test off the sanitizer passes nothing (`sanitizer.cpp:189`);
* `Proxy::resume()` has the guard and the new state of `pause()` (`proxy.cpp:158`), and
  a `stop()` after `pause()` cannot send TERMINATE on its REQ socket (`proxy.cpp:204`);
* the state file is written after interval + 1 packets (`client.cpp:287`), where
  `clientOptions.hpp:88` says that it is updated after the interval; theorem
  `LagBounded` has the exact number;
* `connect()` before `start()`, or an `initialize()` that throws after
  `mUseStateFile` is set, overwrites the state file with unset numbers
  (`client.cpp:176`); this is the exception in `StateForward`;
* the listener that `Subscriber::stop()` has started calls `try_enqueue` on a queue
  that `~Process` has destroyed (`sanitizer.cpp:158`, 428);
* `Process::stop()` of the publisher leaves the SEEDLink reader running until the
  client is destroyed (`publisher.cpp:219`), and a failed send is not counted in
  the gauge of skipped packets (`publisher.cpp:298`).

### Fairness

Weak fairness per thread: the operating system schedules every thread that can
take a step. The listener's receive has a time-out, so it always returns; the ZAP
thread's poll has none, so it is fair only when a message is there. A write or a
handshake on a Beast stream ends by the stream's time-outs at the latest, and a
time-out that is set fires. Accepting a connection does not fail for ever. Nothing
is assumed about signals, packets, peers, kills and restarts.

## 4. Proofs

Every safety property that a run expects to hold, invariants, action properties and
the refinements of `LossyFifo`, is also a theorem, for every value of the constants
that meets the named assumptions of the modules (TLC evaluates these on the runs).
Each proof finds an inductive invariant, shows it for the initial states and every
action, and derives the properties. TLC was used to check the invariants on the
runs' instances.

### Duplicate tester (`DuplicateTest_proofs`)

For all packets of positive rate, channels, positive capacities and clocks that
start no earlier than one logging interval:

* `Invariance`: `Spec => []IInv`; `TypeCorrect`, `SortedBuffers`, `SingleRate`,
  `NoCopiesBuffered`: `TypeOK`, `Sorted`, `OneRate` and `NoTwins`;
* `OverlapsAreSpans`: `OverlapsOnlySpanning`;
* `NoRepeat`: no copy of a recorded packet is recorded and passed again unless the
  channel has recorded nested packets (`NoRepeatUnlessNested`), if rates are
  classified and nothing fits between a packet and its copy. No run checks it: it says
  what the code does with purged packets, and `testDuplicateDataPacket.hpp:19-21` asks
  for the opposite (`duplicate_fresh`);
* `CapacitySuffices`: `SpansDuration`.

`IInv` is the conjunction of the types (with the bound of each buffer's length by its
capacity) and, for each buffer, that headers end no earlier than they start, are
ordered, of one rate, without copies and overlap only by spanning. The parts need each
other: a header is
inserted by time only because the search compared it with every header, which it does
only because all headers have one rate (otherwise the comparison throws half-way);
that the insertion keeps the order strict follows from the absence of copies. An
eviction keeps the overlaps in their place because it takes the earliest header, and
what spans comes before what is spanned.

`NoRepeat` is about packets that have left the buffer, of which `IInv` knows nothing.
`HistoryInv` relates all headers that were recorded to the buffer: as long as no
packet has spanned another, the headers in the buffer do not overlap, and a recorded
header that is not there lies before all that are, and is missing only if the buffer
is full. A copy of a missing header is then older than a full buffer, and rejected.
The two hypotheses are about the packets alone and both are needed: without either
TLC finds a copy that passes. Real channels meet them, except with rates of 1005 Hz
or more or packets of one or two samples.

`CapacitySuffices` rests on `RoomInv`, which ties the capacity to the one header in
the buffer, and on lemmas about rounding: beyond half a second a duration rounds to at
most three times itself, and the factor of 1.5 in the code then leaves room for half.

### The three testers (`Testers_proofs`)

For all limits, intervals, sets of enabled testers and clocks that do not go back:

* `FutureLeavesNoTrace` (`NotPoisoned`), `PassedPacketsMeetAll` (`PassedMeetsAll`) and
  `FlagsReportedInTime` (`FlagsReportedWhenDue`);
* `TestersCallDuplicateTest`: `TestersSpec => Spec`. The composition implements the
  duplicate tester alone, so its theorems hold behind the other testers
  (`DuplicateTestBehindTesters`).

The invariant adds to `IInv` what is known of a packet that is still allowed at each
step of the loop. The clock may pass a limit between two testers: what the future
tester let through stays in the past, and what the expired tester said is about the
time when the packet was taken.

### Messages, selectors and a packet's way (`Import_proofs`)

For all names, times, rates, sample counts, files of lines with at least one field,
and records with blank or known names:

* `PacketInvariance`, `PacketTypes`, `EndTimeAlwaysFresh` (`EndTimeFresh`): whatever
  order a program calls the setters in;
* `RoundTrip`: a packet with samples that is read from its own message is the packet
  that was written, with its samples as doubles;
* `PacketsArriveIntact` (`ArrivesIntact`), `ReceiversDefined` (`NoUndefined`);
* `AsksForAcceptedLines` (`AcceptedLinesRequested`), if the library accepts a line.

`EndTimeFresh` speaks only of packets with a rate and samples. The invariant says for
every packet that its end time is what `updateEndTime()` would make it, so that each
setter has one lemma (`UpdateFreshens`). `RoundTrip` needs the invariant too: the
receiver computes the end time anew, and it equals the sender's only because the
sender's was fresh. `PipeInv` says of everything on its way that it is determined by
the packet that was handed over: the packet itself in the queue and on the first hop,
what a receiver makes of it (`Received`) from then on; that `Received` changes a packet
once only is what makes the second hop harmless. `NoUndefined` follows because only
packets with samples get past the callback.

`SelectorInv` says that each selector is what its line says (`Parsed`), that every
stream is that of an accepted line and that each accepted line tried so far has its
stream; when none was accepted it says nothing, and `import_selectors` shows what the
code then does. `ParsedSelector` carries what a line selects over to its selector, and
`StreamSelects` compares, for any selector and record, what `getSelector()` writes with
what was meant. `WildLength` (the string `"*"` has one character) is an assumption only
because provers know nothing of the length of a string; with `CapitalsAssumption` it is
what keeps a wild network out of a stream.

### Sanitizer (`Sanitizer_proofs`)

For all capacities, thresholds, numbers of packets and enabled testers: `TypeCorrect`;
`ImplementsLossyFifo` (`InOrder`), step by step; `NothingAfterStop` (`QuietAfterStop`).
The invariant says which threads exist at each point of `main` (`ThreadInv`), and that
packet numbers increase from what was sent over the second queue and the tester's hand
to the first queue (`OrderInv`). The exception is the packet between `send` and `pop`,
which is sent and still in the queue.

### SEEDLink publisher (`SeedLinkPublisher_proofs`)

For all capacities, save intervals, numbers of packets and lives and any packets of
other formats: `TypeCorrect`; `NoPacketSkipped` (`NoGap`); `StateNeverBack`
(`StateForward`); `ImplementsLossyFifo` (`InOrder`): each life sends in the server's
order and nothing twice, although a restart repeats packets of the life before, for
which `LossyFifo` has a `Restart`; and `LagBounded` (`RedeliveryBounded`): a restart that
finds a number repeats at most one packet more than the interval.

The invariant ties the position to the file: the client has none before its reader has
recovered the saved one, and is not behind it afterwards (`StateInv`), so that a save
never goes back and a disconnect ahead of the recovery can only erase. `LagBounded` needs
an invariant of its own (`CountInv`): the data packets between the saved number and the
reader's are as many as its counter says, and what any life has handled ends where such a
count does, which survives a kill because it does not mention the reader that is gone.

### Proxy and authentication services (`Proxy_proofs`)

For any requests: `TypeCorrect`; `AnswersAllButLast` (`OnlyLastUnanswered`);
`NothingLeftBehind` (`CleanExit`). `stop()` is called up to three times, and each call
finds what the one before left; `Joined` and `PipeDown` say, by the count of the calls
and the service in hand, whose thread has been joined and whose pipe is down.
`ReplyInv` says that a service with an unanswered request will not poll again,
`PollInv` that what a poll reported is still there when it is handled.
`ServicesAssumption` names the two services the process has.

### Web server (`WebSocketSession_proofs`, `WebServer_proofs`)

For any number of requests a WebSocket session has one write outstanding
(`OneWriteAtATime`: `SingleWriter`) and sends a prefix of what it was given
(`ResponsesInOrder`: `NoGaps`). `SingleWriter` is not inductive: `queueSend()` decides by
the length of the queue, so the invariant ties the queue to the outstanding write
(`WriteInv`). `NoGaps` needs to know where every response is: written and removed, in
the queue, or posted, in this order (`PlaceInv`).

For any number of connections and requests: `TypeCorrect`; `EachRequestAnswered`
(`OneResponseEach`); `NoRequestAfterClose` (`CloseHonoured`). The invariant gives for
each stage of a connection how many responses its requests have, and that a
connection that reads on after a response was to be kept alive.

### Only model-checked

All liveness properties (`Terminates`, `EveryPacketTaken`, `StartedTerminates`,
`RequestsReceived`, `QueueDrains`, `Answered`, `Released`, `Accepted`, `Reaped`): they rest
on fairness, which is out of the prover's reach. The types of `WebSocketSession`,
`DataPacket`, `Testers` and `Import` are part of the proved invariants and are not
checked by a run of their own.

## 5. Not modelled

Command lines and the rest of the ini files, metrics and log texts; socket and ZAP
options and credentials, which are values handed to ZeroMQ; option classes, messages
and exceptions that only hold values; HTTP headers and bodies, and the text or binary
flag of a WebSocket stream; a kill within `sl_savestate`, whose write is libslink's;
the oatpp server, an experiment outside the build whose concurrency is oatpp's.

## 6. Plan

Done: the three testers as the sanitizer asks them; both packet processes against
`LossyFifo`; the proxy with its services; crash and restart of the SEEDLink client;
selectors, messages and a packet's way through them; the Beast web server; and the
proofs of their safety properties.

Next, in this order:

1. the testers' answers in place of the arbitrary ones inside `Sanitizer`: what
   `Testers` proves of the packets that pass, carried through the queues;
2. an invariant for the process that hangs in `proxy_race`: that a `stop()` which waits
   for ever has read `mAPIStarted` before the thread set it or follows a `pause()`;
3. an owner of a `Service` beside a PLAIN socket, with restarts.
