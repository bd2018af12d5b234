# WireSpaces in TLA+

A TLA+ model of the WireSpaces prototype: what its state machines do, checked
with TLC on small instances, and theorems about them checked by TLAPS for every
value of the constants. Line numbers refer to the sources under `src/`.

## 1. The system

WireSpaces is a messaging library for small embedded targets. Nothing in it
allocates or blocks: objects are wired together statically and polled from a
main loop, with a few interrupt handlers at the bottom.

| part | state it keeps | operations | talks to |
|---|---|---|---|
| **Compact BITS protocol** (`transports/bits/protocol.h`, `codec.cpp`) | none | encode and decode seven message classes | both BITS peers |
| **BITS receiver engine** (`receiver_engine.cpp`) | transfer state, SETUP, contiguous prefix, grant, receive bitmap, last activity | `process`, `poll`, `abort`, `sendDatagram` | application callbacks `beginTransfer`, `onSegment`, `onTransfer...`; a PDU sender |
| **BITS receiver** (`bits.cpp`) | one datagram slot, up to 16 segment slots | `receive`, `process`, `abort` | the engine, the Router |
| **BITS transmitter** (`bits.cpp`) | session: acknowledged prefix, grant, sent and acknowledged bitmaps, three kinds of timers and retry counters; one datagram slot | `startTransfer`, `receive`, `process`, `abort` | application callbacks, the Router |
| **Dispatcher, endpoint queues, mailboxes** (`core/dispatch.cpp`, `endpoint_queue.h`, `mailbox.cpp`, `containers/queue.h`) | bindings; a bounded queue; one snapshot | `dispatch`, `receive`, `dequeue`, `read` | endpoint receivers |
| **Router and forwarding** (`core/router.cpp`, `forwarding.h`, `domain.cpp`, `host.cpp`) | route table, interface sets | `forward`, `receive` | Links, Dispatcher |
| **UART Link** (`links/uart_hdlc`, `examples/arduino-uno/uart_hdlc_link.h`) | decoder position | `push`, `encode`, `trySend` | the USART |
| **CAN driver** (`platform/avr/mcp2515_can.h`, `mcp2515.h`, `spi0.h`) | none of its own: it lives in the controller's registers | `initialize500Kbps8MHz`, `transmit`, `receive` | the MCP2515, one SPI transaction at a time |
| **AVR platform** (`platform/avr`) | the millisecond counter, Timer 1 and the LED port | `now`, `setBuiltinLedBrightness`, three interrupt handlers | the main loop they interrupt |
| **Arduino images** (`examples/arduino-uno`) | received object and its echo copy, or the image under reception | the polling loop, BITS callbacks | everything above |
| **Ring buffer** (`containers/ring_buffer.h`) | two atomic indices | `enqueue`, `dequeue` | interrupt handler and main loop |
| **Services** (heartbeat, ping, LED, stack report) | a deadline, or one pending request | `receive`, `process` | Router |
| **ECU simulator** (`sim/`) | run state | `run`, shutdown | application callbacks |
| **Host tools** (`tools/wirespaces`) | a second, independent Compact BITS implementation: stop-and-wait sender, windowed receiver; LED scripts | `round_trip`, `set_brightness` | the Arduino images over the serial port |
| **Code generator** (`codegen/`) | none | topology to route tables | none |

BITS is the core: it is the only part with a protocol, with retries and with
state at two ends that must agree, and it holds nearly half of the library's
code. It is modelled in most depth. Beneath it the project models the routed
network (the deployment compiler, Routers, Dispatchers, receivers and one
service), the byte-stuffed UART frame, the ring buffer and the CAN driver; above
it the three Arduino images together with the PC scripts that talk to them.

### What is hard about it

* **Two windows.** The transmitter and the receiver each keep a sliding window,
  and learn of the other's only through ACKs, which may be lost, repeated,
  delayed and reordered, and which name segments by 8-bit wrapping numbers.
* **Identity.** A session identifier is eight bits wide and may be reused; a
  SETUP for a completed session begins it again.
* **Slots.** Each endpoint has one slot for control packets, shared with the
  application's own datagrams. A packet that finds it full is gone.
* **Partial failure.** A send may be taken, find the Link full, reach some of
  the Links of a fan-out, or fail; the sink may refuse a segment; the
  application may refuse a transfer.
* **Routing without state.** A Router remembers no packet. That a packet crosses
  each Link once and reaches each host once rests on what the deployment
  compiler accepted, on the ingress bit each Router leaves out, and on a Router
  ignoring what arrives over an attachment its Wire did not select.
* **Framing.** A lost, changed or invented byte must not cost more than the
  frame it falls in, and never make the decoder overrun its storage.
* **Interrupts and hardware.** The ring buffer, the LED and the millisecond clock
  are shared with interrupt handlers; the CAN controller captures and sends
  frames between any two register accesses of its driver.
* **Two implementations.** The PC scripts implement the protocol anew, in
  Python, and use the same session and sequence number in every run, against a
  board that keeps the state the previous run left it in.
* **Time.** Three retry timers at one end and an inactivity timer at the other
  run out at any moment relative to what is under way.

`PROJECT.json` lists the hazards behind these, each at the line where it bites; the
consequences that no property covers are in section 4.

## 2. The modules

```
BitsProtocol
  |-- BitsReceiverEngine ------ BitsReceiverOpen      (any traffic)
  |       |
  |-- BitsTransmitterSession -- BitsTransmitterOpen   (any answers)
          |                       BitsMachineProofs   (what both machines do)
          |                       BitsOpenProofs      (of both open modules)
   (both) BitsTransfer          any network, no slots
            |
          BitsEndpoints         slots, channels, losses, fairness
                                  BitsEndpointsProofs (of both)

WiringTopology   the deployment compiler -+
Router           one host's packet path  -+-- WireNetwork   hosts on shared Links
                                                WireNetworkProofs (of all three)

UartHdlcLink     one direction of a UART Link                         UartHdlcLinkProofs
RingBuffer       producer and consumer -- implements -- BoundedFifo   RingBufferProofs
Mcp2515Can       CAN driver and controller                            Mcp2515CanProofs

HostBits         the Python peers -+
BitsReceiverEngine                -+-- UnoBits   BITS images and PC scripts
BitsTransmitterSession            -+
UnoDemo          demonstration image, its interrupts and the LED script   UnoDemoProofs
```

**BitsProtocol** holds the vocabulary. A message is the record its decoder
produces; a PDU whose control byte decodes and whose body does not is a
`Malformed` record. Bitmaps are sets of window offsets; sequence numbers are
reduced by `SequenceModulus` (256 in the code). `AllLinkResults` is
`Router::forward` as a BITS sender sees it through `sendResult`.

**BitsReceiverEngine** and **BitsTransmitterSession** have no variables. Each
member function is an operator from the object's record to the *set* of its
outcomes, the next record and the PDUs a Link took; the set has one member per
answer of the environment (`LinkResults`, `Admissions`, `SinkResults`). The
record has the object's fields under their own names, and a few more that only
properties read: the segments handed to the sink, how often a Link took each
segment, the terminal callbacks so far, and what the application was told
complete.

Time is the fact that a timeout has passed since its stamp (`expired`,
`setup_due`, `due`, `probe_due`): stamping clears the fact and the environment
sets it at any later moment. So every length of every timeout is covered,
including timeouts shorter than a round trip.

**BitsReceiverOpen** and **BitsTransmitterOpen** close one machine with an
environment that may say anything at any time: conflicting and malformed SETUPs,
ACKs of an earlier life of the same session, foreign sessions. What holds there
holds for any peer, a faulty or a foreign one included.

**BitsTransfer** puts the two machines on a network that may hand over any
packet ever sent, any number of times, in any order, or never. `used` models the
rule of `api_notes.md` that an identity is not reused while its packets can
still arrive.

**BitsEndpoints** adds what the C++ classes put around the machines: `receive()`
with its slots, `process()` that serves one segment and then the datagram, an
expiry that empties the slots, and two bounded channels with a budget of losses,
duplicates and sideband datagrams. Every one of its steps is a step of
BitsTransfer (`ImplementsTransfer`).

**WiringTopology** is the part of `codegen/wiring_topology.py` and
`codegen/wiring_projection.py` that decides what a Wire may be. `graph` is the set
of physical attachments of hosts to shared Links; a Wire is a set of member
hosts and a set of selected attachments, obtained by inference, from a chain,
from an explicit realization or from the older list of Links. The compiler's
graph searches are stated as what they decide, by cuts: two nodes are
joined when every cut between them is crossed, and an attachment is necessary when its
removal separates members. Egress bits are the pinned ones and then the lowest
free ones in order; Links are numbered in the order of the interface names that
the compiler sorts by. A group is represented by the set of its members.
`RouteTable` is the table that is generated.

**Router** is one packet's way through one host, without variables: validation
of the ingress index, route lookup, ingress exclusion, `combineAdmission` over
the Links' answers, whether to dispatch, which receivers the Dispatcher offers a
packet to and what each answers. An `InterfaceSet` is the set of its bits. Null
receivers, which the Dispatcher skips, are left out of the tables.

**WireNetwork** is any number of hosts with tables from one deployment. An
admitted packet goes to every *physically* attached host, selected by the Wire or
not, since that is what a bus does. `Originate` is an application sending,
`Receive` the whole of `DomainContext::receive` (forward, then dispatch),
`ServiceRun` one turn of `PingService::run`. A snapshot receiver is bound after
the service at the same endpoint, so that offering to the first and offering to
all can be told apart. `carried`, `dispatched`, `admitted`, `reports`,
`disturbed` and `outcome` are histories that only properties read.

**UartHdlcLink** has the real flag, escape and XOR values and treats the CRC as
any function of the body. Each element on the line carries its frame's number and
its place, which the decoder does not see and the properties do. Every turn of
the receiver's loop is a step, so noise falls between any two bytes. A packet
that `trySend` calls too large leaves nothing on the line and is no step.

**RingBuffer** interleaves one producer and one consumer at every access to what
they share. The indices are atomic; an item is not, and is copied in two halves,
so that a copy overlapping a store would show. `EnqueueTest`, `EnqueueFirst`,
`EnqueueSecond`, `EnqueuePublish` are the lines of `enqueue`, and `DequeueTest` to
`DequeueAdvance` those of `dequeue`, `peek` and `clear`, which differ in where they
stop. The calls with a `Span` repeat them. **BoundedFifo** is what the class
promises: a FIFO whose operations happen at one instant. The refinement maps
`contents` to the slots between the two indices; a store takes effect at the
store of `write_index_`, a removal at that of `read_index_`.

**Mcp2515Can** has one action per SPI transaction of the driver (`pc` is the next
one) and the controller's actions beside them: `BusFrame` captures into RXB0, rolls
over to RXB1, or drops; `ControllerSends` sends transmit buffer 0;
`ControllerStarts` enters normal mode, perhaps too late. A buffer is the sequence
of its registers and the split of an identifier over two of them is arithmetic,
as in the code. The driver runs under the bench application's loop, which reports
every frame and turns UART commands into `transmit`. The controller is not part
of the repository; it is modelled from the registers and flags the driver uses,
with the bits where the data sheet has them. In particular the remote flag of a
standard frame is SRR in SIDL, and RTR beside the length is set for extended
frames only; `FrameOnBus` is the frame itself, which no register decides.

**HostBits** is the Python transmitter (`hostPoll`, `hostReceive`) and receiver
(`hostReceiver`), again as operators from an object to its next state and the
message returned. **UnoBits** puts them at one end of a serial line and a board
at the other. The `Ram` image is `BitsReceiver`, application memory and
`BitsTransmitter` in one loop (`RamReceives`, `RamRuns`); it reuses the operators of
BitsReceiverEngine and BitsTransmitterSession, so what the other runs say of them
is said of the same definitions. The `Boot` image is the engine with a window of
one, called for every frame, with callbacks that send datagrams while the engine
is inside a handler (`BootReceives`). An object is the number of its upload,
carried by every segment, so that a mixture of two uploads shows. `HostPolls`,
`HostReads`, `HostReturns`, `HostStops` and `NextUpload` are the loop of `round_trip`
and of the hardware test's `transfer_pattern`.

**UnoDemo** is the demonstration image's loop: `UartProcess`, `LedRequest`, `LedDone` and
`HeartbeatRun` in the order `runOnce` calls them, `Tick` and `TimerInterrupt` the
interrupt handlers, which run between any two of them, and the script
`led_ramp.py` with its repeated requests at the other end of the line.

Operators marked `Fault:` or "a bug to find" are plausible mistakes, one per property. They are not
part of any specification; each has been put in the place of the definition that
follows it, and TLC then reports its property violated.

## 3. The runs

| run | asks | bounds |
|---|---|---|
| `bits_open` | Each machine alone: are the receiver's grant, delivery, callbacks, ACK content and ended transfers right whatever arrives, and the transmitter's window, retry budget, completion and callbacks whatever is answered? | window 3, modulus 6, every Link answer. Receiver: six SETUPs of two sessions, one of four segments that wraps; every admission and sink answer. Transmitter: one retry; *every* ACK of its session, an object of four segments, wider than the window, and a second with the same identity |
| `transfer_faults` | Over any network, does anything of one session let the next one report a false completion? | an object as wide as the window of 2, then a second session whose sequence numbers overlap its own, a fan-out that reaches some Links, expiry, aborts of both sides |
| `endpoints_completion` | Does a transfer complete when the network is no worse than the budget, and is everything counted as acknowledged really delivered? | six segments, window 2, modulus 4 (sequence numbers wrap), three retries, two disturbances |
| `endpoints_abandoned` | Does every transfer end, does the receiver let go, and do slots, polling order and backlog expiry stay within BitsTransfer? | two segments, failing Links, local aborts, two disturbances |
| `network` | Does a deployment the compiler accepts carry, dispatch and answer every packet exactly as its Wires say? | three hosts; a bus with a second Link, a ring, a line; every Wire the compiler accepts over them (85 deployments); two packets and the responses; four Link answers, one loss, a queue of one |
| `uart_link` | Does noise cost only the frames it touches, within the decoder's storage? | two frames of bodies with flags, escapes and every length up to one too long; two lost, changed or invented bytes anywhere |
| `ring_buffer` | Do producer and consumer see one FIFO, and may they rely on `size()`? | three slots and the spare one, two values, Spans of two; index type just wide enough |
| `can_driver` | Is every captured frame with a standard identifier reported once and whole, is every accepted frame sent as it was given, are the buffers drained? | four frames on the bus of six kinds (both identifier registers in use, an empty frame, a length code beyond the last byte, an extended, a remote and an extended remote frame), two commands of three kinds |
| `uno_bits` | Do board and scripts agree about what was transferred, also after a script was stopped? | both images, two uploads of two segments, window 2, modulus 8 with a start at 6, two retries, two lost frames or early timeouts |
| `demo` | Is an acknowledged brightness the one last applied, does the port follow it under interrupts, do heartbeats keep their period when the clock wraps? | ramp of three steps with both static ends, three requests for each, queue of two, one lost frame or broadcast; period 3 on a clock modulo 5 |
| `endpoints_livelock` | a disagreement with the documents, section 4 | as above |
| `can_remote` | a disagreement with the driver's own comment, section 4 | as `can_driver`, two frames and one command |

Why these bounds are enough to be interesting. A window of two is the smallest
with a selective acknowledgment beside a gap; three segments make it slide while
older ACKs are out; `bits_open` uses three and four segments, so that a gap can lie
between two received ones and the window still slides. Its two machines share
nothing, so a behaviour is one of the receiver or one of the transmitter. Where an object has more segments than the modulus, or
starts next to the wrap, the reductions are exercised. One retry is enough to
have a first send, a repetition and an exhausted budget. `transfer_faults` has no
fault budget at all: the network is the set of everything ever sent, and so it
needs no retries.

In `network` the bus has listeners a Wire did not select, the ring has two ways
between any hosts, so that inference must refuse and explicit realizations must
not close the cycle, and in the line every attachment is necessary. The second
packet, a ping of `c`, meets a queue that the first may have filled. There is one
Wire: a route is looked up by the packet's Wire and no state is kept between
lookups, so a second would only multiply the states.

In `uart_link` two frames are what an error in one needs to spoil the next, and
two disturbances can forge a frame's end and its beginning.

In `ring_buffer` three slots let the indices wrap with items between them, and two
values tell the halves of one item from those of another. In `can_driver` four
frames fill both receive buffers, empty one and fill it again. In `uno_bits` the
second upload meets a board left active, expired, complete or still echoing by
the first; the disturbances are no more than the retries, as `RoundTripPasses`
needs. Its objects have two segments because of a spurious refusal described in
section 4. In `demo` the clock wraps every other period, and `MaxStall`, the time
between two polls, is below a period, as it is for a loop whose longest call
writes a few frames.

The session's counters are bounded by the code itself (`max_retries`). The bounds
of the model are `MaximumSegments`, which the code has at 65536 and the runs at 6,
`MaxDisturbances` and `ChannelCapacity` of BitsEndpoints, `MaximumHops` of
WiringTopology, `MaxLosses` and the length of `Publications` of WireNetwork, and
`MaxFrames` and `MaxNoise` of UartHdlcLink, `MaxSpan` of RingBuffer, `MaxBusFrames`
and `MaxCommands` of Mcp2515Can, `MaxUploads` and `MaxDisturbances` of UnoBits, and
`MaxSends`, `MaxStall` and `MaxDisturbances` of UnoDemo. `ModeAttempts`,
`LastStep`, `period_ms` and the moduli are values of the code, made smaller. A
channel at capacity loses the packet, as a full Link queue does. Deadlock is not checked where traffic simply ends.

### Fairness

`FairEndpointSpec` assumes weak fairness of each endpoint's `process()`, since
the main loops poll both for ever; of delivery in each direction, since a packet
under way arrives unless the budget loses it; and of the transmitter's timers,
since clocks advance. Nothing is assumed of the applications: starting and
aborting are never forced.

Fairness of the receiver's inactivity timer is assumed only with
`PatientTimers`, where a timeout runs out only when nothing is under way
(`Settled`) and the receiver outlasts its peer, which is how `api_notes.md` asks
for them to be configured: otherwise each arriving packet may renew it, and
nothing forces it to run out. `endpoints_completion` needs patient timers as well:
with timeouts shorter than the round trip the retries can be used up with
nothing lost.

`FairUnoSpec` assumes weak fairness of the board's loop, of the script's loop and
of the timers. Losses are bounded and a script may be stopped at any time. An
early host timeout counts as a disturbance; otherwise timers run out on a quiet
line only, since the scripts' `retry_timeout` is well above the round trip.
`Mcp2515Can!Spec` assumes weak fairness of the driver alone: `main` polls for ever
and an SPI transaction always ends. Nothing is assumed of the controller.

### What the liveness results say

`TransferCompletes` is what the code promises an application that respects its
configuration advice, and it holds with the slots, sideband datagrams and lost
final ACKs in the model. `TransferEnds` and `ReceiverReleases` hold under
failing Links and aborts with patient timers. A Link that answers *full* for
ever blocks a transfer for ever; that is documented backpressure, and the
liveness runs do not contain it. `RoundTripPasses` says the same of the `Ram` image
with the Python peer. It is not claimed of the `Boot` image, whose result is one
unacknowledged datagram. `BuffersDrain` is about the early return of `receive()` on
frames it does not support.

## 4. Disagreements found

* **A transfer that never ends** (`endpoints_livelock`). A SETUP is repeated
  because its timer is short; the copy is overtaken by the whole transfer, which
  completes at the receiver. The transmitter has seen a selective ACK of the
  last segment and not yet the final one when the late copy opens the session
  again with an empty window. Its first segment is still being repeated and
  arrives; the second is not, as the transmitter holds it as acknowledged.
  Nothing is outstanding, so it probes; every ACK resets `probe_retry_count`
  (bits.cpp:479), and the probes go on without limit although
  `bits_transport.md` section 7.5 says they are bounded. It takes reordering and a
  timeout below the round trip: on in-order channels, checked with the same
  constants and `Reordering = FALSE`, `TransferEnds` holds.
* **Remote frames reported as data** (`can_remote`). `receive()` tests bit 6 of the
  length register for a remote frame (mcp2515_can.h:179). The MCP2515 sets it for
  extended frames only, which have been refused by then; the remote flag of a
  standard frame is SRR, bit 4 of the register read before. So the test never
  succeeds, and a standard remote frame reaches the application as a data frame
  with whatever bytes the buffer held, against the comment at mcp2515_can.h:25,
  "exposes only standard 11-bit data frames". `CapturedOnceReportedOnce` therefore
  speaks of frames with a standard identifier, remote ones included.

Read off the code while modelling, no run being spent on them, as each is
a single test:

* `handleReject` (bits.cpp:495) ends an active transfer, where
  `bits_transport.md:266` says that a sender applies a REJECT only to a matching
  pending SETUP.
* A malformed SETUP is answered with REJECT(InvalidArgument)
  (receiver_engine.cpp:235), where `bits_transport.md:141` and
  `architecture_register.md:456` want silence.
* A SETUP which reuses the active session with other parameters is answered
  with REJECT(Busy) for that session (receiver_engine.cpp:258), where
  `bits_transport.md:145` has it dropped.
* A late SETUP begins a session again that was aborted (receiver_engine.cpp:261
  tests for an active transfer only), where `bits_transport.md:294` says "Late
  traffic cannot reactivate a cancelled session by accident." `EndedStaysEnded`
  allows it, and nothing else, to leave an ended transfer.
* `initialize()` of the AVR platform enables the SPI peripheral (init.h:19), whose
  clock is the pin of the built-in LED. The note in spi0.h:25 says that SCK takes
  precedence there, so the demonstration image's LED service may set a port that
  no longer drives the pin. `LedFollowsBrightness` is about the port, and
  `AcknowledgedIsShown` about the brightness last applied.

Consequences worth knowing, none of them against a document:

* A board of the `Ram` image that receives a repeated SETUP of a one-segment object
  after its segment answers Busy, since the completed object is still held; the
  script then fails although the object arrived.
* The `Boot` image never repeats its image result.
* `receive()` of the CAN driver looks at RXB0 first, so of two frames the later one
  may be reported first.
* `clear()` of the ring buffer goes on while its producer keeps up with it, and a
  third thread's `size()` may read the two indices at different moments; nothing
  in the repository does either.
* Nothing asserts that the ring's index type holds its capacity
  (ring_buffer.h:28-32). With a capacity of 256 and `uint8_t` indices the last slot
  is never used and `size()` is one too large once the indices have wrapped. No
  instance in the repository gives an index type of its own.
* The receive buffers are configured to take any message (mcp2515_can.h:108). In
  this mode the controller also keeps what it had of a frame that an error cut
  short; the model's bus has whole frames only.

## 5. What is proved

TLAPS checks these for every value of the constants that meets the named
assumptions of the modules. The bounds of the runs (`MaxDisturbances`,
`MaxBusFrames`, `MaxSends`, ...) are constants too, and nothing is assumed of
them.

| module | theorem | states |
|---|---|---|
| BitsOpenProofs | `ReceiverTyped`, `ReceiverGrantBacked`, `ReceiverDeliversOnce`, `ReceiverEndsOnce`, `ReceiverCompletesWhole`, `ReceiverAckIsHonest` | the type invariant and the five invariants of the receiver in `bits_open`, whatever arrives |
| | `ReceiverSessionFixed`, `ReceiverStaysEnded` | its two action properties |
| | `TransmitterTyped`, `TransmitterWithinGrant`, `TransmitterCompletionWasSent`, `TransmitterRetriesBounded`, `TransmitterEnds` | the type invariant and the four invariants of the transmitter in `bits_open`, whatever is answered |
| | `TransmitterKeepsProgress` | its action property |
| BitsEndpointsProofs | `TransferCompletionIsTrue`, `TransferAckedWasDelivered` | end to end on any network: what the transmitter reports complete was completed, what it counts as acknowledged was delivered |
| | `EndpointsImplementTransfer` | BitsEndpoints implements BitsTransfer |
| | `EndpointsBelieveTheTruth` | hence the end-to-end results for the endpoints |
| WireNetworkProofs | `ResolvedWiresAreSound` | what the deployment compiler accepts is part of the graph, without cycles, and joins all its members and attachments |
| | `CarriedOnceAlways`, `DispatchedOnceAlways`, `ReachesEveryMemberAlways`, `DirectedReceptionAlways`, `PingAnsweredAlways`, `ForwardReportsAlways`, `DispatchReportsAlways` | the seven invariants of `network`, for every deployment the compiler accepts, any number of hosts, Links, Wires and packets |
| UartHdlcLinkProofs | `UartInvAlways` | the inductive invariant of the Link |
| | `UartTypeOKAlways`, `IntactFramesArriveAlways`, `QuietLineIsFifoAlways` | the three invariants of `uart_link`, for every body, checksum function, capacity and amount of noise |
| RingBufferProofs | `RingSizeIsUsable`, `RingImplementsFifo` | RingBuffer implements BoundedFifo, and `size()` may be relied on, for every capacity |
| UnoDemoProofs | `RampReportsWhatIsShown`, `LedIsAsApplied`, `HeartbeatKeepsItsPeriod` | the three invariants of `demo` |
| Mcp2515CanProofs | `CanAcceptedIsSentWhole`, `CanCapturedOnceReportedOnce` | the two invariants of `can_driver` |

### Assumptions

Widths, moduli, capacities and periods are positive; traffic, requests and frames
have the types the decoders and registers give them. Beyond that:

* `WindowFitsAssumption`: the window is narrower than the sequence numbers (16 of
  256 in the code). Without it an ACK's grant is ambiguous.
* `RingAssumption`: the index type holds the capacity. The class does not assert it
  (section 4); the default, 16 bits, holds every capacity used.
* `DemoAssumption`: a period and the longest time between two polls fit into a turn
  of the clock (minutes of 49 days).
* `CanAssumption`: a length code has four bits and a command as many bytes as it
  says.
* `WiringAssumption`: hosts and Links are finite, Links have an order (that of the
  interface names), and authored egress bits are below eight and differ at a host,
  as the schema and `parse_deployment` require.
* `NetworkAssumption`: a host has at most eight interfaces (`maxItems` in
  `wiring.schema.json`); applications send as the host they run on and on a Wire of
  the deployment. The number of Links, Wires and packets is not bounded.
* `RouterAssumption`: a dispatch table binds the two receivers modelled, each at most
  once, in any order and at any endpoints.
* `UartAssumption`: a packet is a nonempty sequence of bytes and its checksum has 16
  bits. Nothing else is assumed of the checksum, so nothing proved rests on what a
  CRC detects.
* `ShortObjects`, a hypothesis of the three end-to-end theorems and not an
  assumption of the model: an object has fewer segments than there are sequence
  numbers. BitsTransfer delays packets without bound, and there an ACK that is
  late by a whole turn of the numbers cannot be told from a new one. Longer
  objects are left to `endpoints_completion`, where the channels are bounded and
  the numbers wrap. The refinement and everything about one machine is proved
  without it.

### Arguments

**The receiver.** The inductive invariant `EngineInv` is the conjunction of the
four properties of the record. They need each other: the prefix after sliding is
whole only because the accepted set is what the window says (`DeliveredOnce`), and
the new grant is within storage only because the received bits lie inside the old
one (`GrantIsBacked`), which makes the count in `updateGrant` come out
(`WindowCount`). `ContiguousRunGap` says what the slide finds, by the least
number principle. `OpenInv` adds that every ACK of the last call is the one the
engine would send again now; `AckIsHonest` then is arithmetic modulo a symbolic
number. The action properties come from what each handler says of the record
before and after it (`SameView`, `Progressed`).

**The transmitter.** `SessionInv` needs one fact none of the properties states,
`AdmittedTold`: segments before the window were taken between once and
`1 + MaxRetries` times, a segment sent in the window exactly once more than its
retry counter says, and every other never. With it, completion follows since
everything lies before the window, and the retry bound since the counter is
bounded. The step that matters is `SlideTold`: a plausible ACK covers only sent
segments, so what moves before the window has been taken, and the counters move
with their segments. Nothing about the peer's honesty is used.

**End to end.** `TransferInv` joins both machines' invariants with three facts: the
receiver's application has heard of all the engine holds (`Recorded`); every ACK
ever sent is true of what was delivered, and stays true since deliveries are never
taken back; and the transmitter believes only that (`Believes`). The step that
matters is the arrival of an arbitrarily old ACK of the current session: its
window base names a prefix only up to the modulus, and the transmitter advances
by a wrapped difference. A true prefix is below the modulus by `ShortObjects`, so
the difference is either the true one or one beyond the segments that were sent,
which the transmitter refuses.

**The refinement by the endpoints.** `Carried` says that whatever is in a slot or a
channel was once sent, so each delivery, late service of a slot or expiry is a
step of BitsTransfer or changes only what BitsTransfer does not see.

**The deployment compiler.** `LoopFree` says that no attachment of a Wire can be
bypassed by the others, and `Sound` that the Wire is in addition part of the graph
and joined. Each way of selecting attachments has its own reason. Inferred ones
are bridges of the physical graph and remain so in any part of it, and those that
separate no member from the root are not needed to reach the others. A chain never
comes back to a host or a Link, so its places order it (`Placed`). A realization
and a list of Links are connected with one attachment fewer than nodes, and a
connected graph has at least that many, which is shown on the greatest set of nodes
for which it holds (`ConnectedSize`); removing an attachment that can be bypassed would
leave one too few. Connectedness is stated by cuts, so that no step is an induction
along a path.

**The network.** The inductive invariant is in three parts. `PlaceInv`: the tables are
those of an accepted deployment, every packet under way, queued, carried or
dispatched is one that was originated or its response, and packets flow away from
their origin (`FlowInv`): a Link that carried a packet took it from the one host on its
way to the origin, which is the origin or has itself taken the packet from the one
attachment it can arrive over. In a loop-free Wire this attachment is unique
(`Via`), so a Link asked to carry a packet has not carried it, and a host that takes
one has not had it; that is `CarriedOnce` and `DispatchedOnce`. A response needs that its
request was dispatched and dequeued before (`AnswerInv`), and that queues hold a
packet once (`QueueInv`). `AdmitInv`: admissions and reports are of dispatched
packets, and so each is new when it is recorded; with that
`DirectedReception` and `DispatchReportsItsReceivers` are inductive. `ReachInv`: a host
that has taken an undisturbed packet is done with it, all its other Links of the
Wire having carried it and a member having dispatched it (`Handled`). When nothing is under
way any more, the hosts and Links that are done form a side of a cut that no
attachment of the Wire crosses, and since the Wire is joined they are all of it.
`BitsTellApart` shows that egress bits lie below eight and differ at a host,
so masks give back attachments; `ForwardReportsItsLinks` needs no invariant
beyond that, only what the running combination is after each of the eight bits
(`IsRunning`).

**The UART Link.** `Stuffed` is a recursive function, and the proof works with its
prefixes: the stuffing of `n + 1` bytes is that of `n` and one or two bytes more, none
of them a flag (`StuffingTo`). `Tracks` says that the decoder has read the first `p`
bytes of a frame: it holds the bytes they stand for, or is one escape further, or has
given up as they are too many. `LineInv` says that what noise has not
touched is on the line as it was sent: every byte of an intact frame is followed by
the rest of its frame, and preceded by all of it that has not been read. `Following`
joins the two: the decoder tracks the frame whose bytes are next. The opening flag
starts it afresh whatever the decoder was in the middle of, which is why noise does
not spread. `PassedOn` gives every intact frame that has left the line a place in
`received`, in order, and while there was no noise every place is of such a
frame. The three properties are read off at an empty or a quiet line.

**The ring buffer.** `RingInv` gives every access its meaning between the two index
stores: all slots from the read to the write index hold whole items, the slot
being written lies outside them, the copy being made inside them, and what a side
read of the other's index is old but never too large.

**The demonstration image.** `HeartbeatInv` relates the wrapped clocks to the
unbounded time since the last heartbeat. `RampInv` says that the script's requests
keep the order of their steps on the line and in the queue, and that some step of
the script's is the one shown, which all pending requests have reached and no
response passes. `LedInv` adds to the property that a steady port has its
interrupts disabled, whatever flag is still pending.

**The CAN driver.** While `transmit()` writes, TXREQ is clear and the first registers
are those of the frame (`Written`); when it requests, `WrittenIsRead` puts the
identifier together again from the two registers it was split over. While
`receive()` reads, its buffer stays flagged, so the controller leaves it alone, and
`Reads` says what the driver has of the frame before each transaction; a capture
or a report moves a frame between bags without changing their sum. `RegistersTyped`
says of the registers of a captured frame that IDE tells the extended ones, that
the frame can be read back from those of a standard one, and that the bit the
driver takes for the remote flag is clear in them (`Filled`).

The type invariants `OpenTypeOK` and `SessionTypeOK` are stated by theorems and
therefore not checked by a run again.

### Model-checked only

* All liveness: `TransferCompletes`, `TransferEnds`, `ReceiverReleases`,
  `RoundTripPasses`, `BuffersDrain`. Fairness is out of the prover's reach.
* UnoBits: `UploadIsTrue`, `EchoIsOneObject` and `ReportIsTrue`. The module puts the two
  BITS machines under a second, independent protocol implementation and a
  board application; their invariant would need the Python peers' windows
  related to the machines' as `TransferInv` relates the machines to each other, for
  each of the two images. The lemmas of BitsMachineProofs about the machines
  themselves hold for it, that relation has no proof. For arbitrary uploads it would
  also need objects shorter than a turn of the sequence numbers: the scripts reuse one session,
  and a prefix of a whole turn left by a stopped script looks empty to the next one.
* End-to-end truth of objects longer than a turn of the sequence numbers (see
  `ShortObjects`), in `endpoints_completion`.

Recursion that is proved about is over prefixes, by the least prefix that would be
wrong, since induction with an arbitrary predicate is not available to the provers.

## 6. What is not modelled

Byte layouts, other than the stuffing of a UART frame; what a CRC detects (a
disturbed frame may still match, and no property says otherwise); the 32-bit
clocks of BITS (timeouts are events); application callbacks that abort the object
that called them (sending from a callback is in UnoBits); slots too small for a
packet.

Of the network: several Wires at once, `LocalDispatchForwarder` and hosts known
under more than one identity, the indices and the lock of the queue and the
mailbox (a queue is a sequence, a mailbox its latest packet), and the compiler's
reading and writing of files.

Of the rest: the ring buffer under a weaker memory order than the default one the
code uses; SPI bytes inside one transaction; the text of the bench application's
UART commands; the stack monitor, which paints and scans memory;
`StackReportService`, which has the timer of `HeartbeatService` and no user; the
Python HDLC decoder and command lines.

Not modelled at all, with the reason in `PROJECT.json`: the ECU simulator (a single
thread that calls one application object between parsing and logging), the
legacy HDLC framing (in no target), the classic CAN PDU adapter (declarations
only), CRC and foundation types (pure computation on bytes, whose result the
models take as given).

## 7. Plan

Order of work, most important first.

1. *Done*: BITS, both machines, their composition, the endpoints; the invariants
   of both machines proved.
2. *Done*: deployment compiler, Router, Dispatcher, receivers and ping as
   `WireNetwork`; the UART Link.
3. *Done*: the ring buffer as a refinement of a bounded FIFO; the Arduino images
   with the Python peers; the heartbeat and LED services under interrupts; the
   CAN driver against its controller.
4. **Network**: two Wires that share Links, four hosts, `LocalDispatchForwarder`.
5. *Done*: every safety property of the BITS runs, the refinement of BitsTransfer by
   BitsEndpoints, the ring buffer, the demonstration image, the CAN driver, the
   deployment compiler with the network, and the UART Link proved (section 5).
6. **Proofs**: `UploadIsTrue` of UnoBits from the lemmas of the two BITS machines.
