------------------------------- MODULE UnoBits ------------------------------
(***************************************************************************)
(* The two BITS images of the Arduino UNO against the PC scripts that test *)
(* them, over one serial line that loses frames.                           *)
(*                                                                         *)
(* "Ram" is examples/arduino-uno/bits_ram_transfer.cpp: BitsReceiver,      *)
(* application RAM and BitsTransmitter, which echoes every object it has   *)
(* received; its host is round_trip (tools/wirespaces/bits_ram_transfer).  *)
(* "Boot" is bits_boot_profile_ram.cpp: the synchronous engine with a      *)
(* window of one, whose callbacks send datagrams while the engine handles  *)
(* a PDU; its host is transfer_pattern of the hardware test.               *)
(*                                                                         *)
(* An object is the number of the upload that sent it, in every segment.   *)
(***************************************************************************)
EXTENDS HostBits, BitsTransmitterSession, SequencesExt

CONSTANTS
  Images,            \* which of "Ram" and "Boot" are built
  RamWindow,         \* segment_slots_: 2 in the code
  EngineLimit,       \* UINT32_MAX, the queued receiver's maximum_object_size
  StorageSize,       \* kMaximumObjectSize
  SegmentPayload,    \* kSegmentPayloadSize
  EchoSequence,      \* the clock's low byte when an echo starts
  UploadSetup(_, _), \* the SETUP of an image's n-th upload
  MaxUploads,        \* bound: uploads in a behaviour
  MaxDisturbances    \* bound: lost frames and early host timeouts

ASSUME UnoAssumption ==
  /\ Images \subseteq {"Ram", "Boot"}
  /\ LinkResults = {"Sent"}    \* uart0WriteSpan blocks until all is written
  /\ RamWindow \in 1 .. kCompactWindowWidth
  /\ \A built \in Images, n \in 1 .. MaxUploads :
       /\ setupTotalSize(UploadSetup(built, n)) \in 1 .. StorageSize
       /\ UploadSetup(built, n).segment_size = SegmentPayload
  /\ EchoSequence \in SequenceNumbers

VARIABLES
  image,          \* the firmware on the board
  upload,         \* the number of the current upload
  verdicts,       \* how the uploads before it ended, and it once it has
  up, down,       \* the host's transmitter and receiver
  result,         \* transfer_pattern's result: the report it has read
  toUno, toPc,    \* frames on the serial line
  uno,            \* the board: see InitialUno
  uploads,        \* history: objects onTransferComplete was called for
  reports,        \* history: image results the Boot image has sent
  disturbances    \* how many of MaxDisturbances have happened

host == <<up, down, result, verdicts, upload>>
history == <<uploads, reports>>
unoVars == <<image, host, toUno, toPc, uno, history, disturbances>>

RamEngine(admissions) == INSTANCE BitsReceiverEngine WITH
  ReceiveWindowWidth <- RamWindow, MaximumObjectSize <- EngineLimit,
  MaximumSegmentSize <- SegmentPayload,
  Admissions <- admissions, SinkResults <- {TRUE}

BootEngine == INSTANCE BitsReceiverEngine WITH
  ReceiveWindowWidth <- 1, MaximumObjectSize <- StorageSize,
  MaximumSegmentSize <- SegmentPayload,
  Admissions <- {"Accepted"}, SinkResults <- {TRUE}

Blank == [index \in SegmentIndices |-> 0]
SlotNumbers == 1 .. RamWindow
EmptyIngress == [slot \in SlotNumbers |-> NoMessage]

(* The board.  store, received, expected and complete are the application  *)
(* callbacks' members, in segments; the Boot image uses rx and them only.  *)
InitialUno ==
  [rx |-> BootEngine!InitialEngine, rxDatagram |-> NoMessage,
   rxSegments |-> EmptyIngress, store |-> Blank, received |-> 0,
   expected |-> 0, complete |-> FALSE, tx |-> InitialSession,
   txDatagram |-> NoMessage, echo |-> Blank, session_id |-> 0]

UnoInit ==
  /\ image \in Images
  /\ upload = 1 /\ verdicts = <<>>
  /\ up = HostTransmitter(UploadSetup(image, 1), 1)
  /\ down = InitialHostReceiver /\ result = "None"
  /\ toUno = <<>> /\ toPc = <<>>
  /\ uno = InitialUno
  /\ uploads = {} /\ reports = <<>> /\ disturbances = 0

Frames(messages) == SetToSeq(messages \ {NoMessage})

-----------------------------------------------------------------------------
(* The application's callbacks, as the step of the engine from before to   *)
(* after that m caused calls them.                                         *)

Began(before, after) == before.state # "Active" /\ after.state = "Active"
Finished(before, after) == before.state = "Active" /\ after.state = "Completed"
Dropped(before, after) ==
  before.state = "Active" /\ after.state \in {"Aborted", "Error"}

Callbacks(n, after, m) ==
  CASE Began(n.rx, after) ->
         [n EXCEPT !.rx = after, !.received = 0, !.expected = after.segment_count]
    [] after.accepted # n.rx.accepted ->
         [n EXCEPT !.rx = after, !.store[m.segment_index] = m.content,
                   !.received = Greater(@, m.segment_index + 1),
                   !.complete = @ \/ Finished(n.rx, after)]
    [] Dropped(n.rx, after) ->
         [n EXCEPT !.rx = after, !.received = 0, !.expected = 0,
                   !.complete = FALSE]
    [] OTHER -> [n EXCEPT !.rx = after]

\* The object in RAM when onTransferComplete is called.
Stored(n) == [index \in 0 .. (n.received - 1) |-> n.store[index]]

-----------------------------------------------------------------------------
(* The Ram image.                                                          *)

RamAdmission(n, m) ==
  CASE n.complete -> "Busy"
    [] m.type = "Setup" /\ setupTotalSize(m.setup) > StorageSize -> "TooLarge"
    [] OTHER -> "Accepted"

RamEngineStep(n, m) ==
  {[n |-> Callbacks(n, o.engine, m), out |-> Frames(o.out)]
     : o \in RamEngine({RamAdmission(n, m)})!EngineProcess(n.rx, m)}

Occupied(slots) == {slot \in SlotNumbers : slots[slot] # NoMessage}
FirstSegment(slots) ==
  IF Occupied(slots) = {} THEN NoMessage ELSE slots[First(Occupied(slots))]
WithoutFirst(slots) ==
  IF Occupied(slots) = {} THEN slots
  ELSE [slots EXCEPT ![First(Occupied(slots))] = NoMessage]

\* receiver_.process(): expiry empties the slots; else segment, then datagram.
RamReceiver(n) ==
  IF BootEngine!Expired(n.rx)
  THEN {[n |-> [Callbacks(n, BootEngine!poll(n.rx), NoMessage) EXCEPT
                  !.rxSegments = EmptyIngress, !.rxDatagram = NoMessage],
         out |-> <<>>]}
  ELSE UNION {{[n |-> [second.n EXCEPT !.rxSegments = WithoutFirst(@),
                                       !.rxDatagram = NoMessage],
                out |-> first.out \o second.out]
                 : second \in RamEngineStep(first.n, n.rxDatagram)}
              : first \in RamEngineStep(n, FirstSegment(n.rxSegments))}

EchoRequest(n) ==
  [session_id |-> n.session_id, initial_sequence_number |-> EchoSequence,
   object_size |-> SegmentPayload * (n.received - 1)
                     + n.rx.setup.final_segment_size,
   segment_size |-> SegmentPayload]

\* Fault: the transmitter's state is not looked at before the copy.
EchoAtOnce(n) ==
  IF ~n.complete THEN n
  ELSE IF Startable(n.tx, EchoRequest(n))
  THEN [n EXCEPT !.echo = n.store, !.tx = startTransfer(EchoRequest(n)),
                 !.received = 0, !.complete = FALSE, !.session_id = @ + 1]
  ELSE [n EXCEPT !.echo = n.store]

(* The object is copied and the copy is echoed, once no echo is running;   *)
(* only then may another upload begin.                                     *)
startEcho(n) ==
  IF ~n.complete \/ InTransfer(n.tx) THEN n
  ELSE IF Startable(n.tx, EchoRequest(n))
  THEN [n EXCEPT !.echo = n.store, !.tx = startTransfer(EchoRequest(n)),
                 !.received = 0, !.complete = FALSE, !.session_id = @ + 1]
  ELSE [n EXCEPT !.echo = n.store]

\* A segment of the echo carries the bytes echo_storage_ has at that moment.
EchoFrame(n, m) ==
  IF m.type = "Segment" THEN Carrying(m, n.echo[m.segment_index]) ELSE m

RamTransmitter(n) ==
  {[n |-> [n EXCEPT !.tx = o.session, !.txDatagram = NoMessage],
    out |-> Frames({EchoFrame(n, m) : m \in o.out})]
     : o \in SessionProcess(n.tx, n.txDatagram)}

\* receive() of the endpoint the frame is addressed to: retain it or drop it.
Retain(n, m) ==
  LET free == SlotNumbers \ Occupied(n.rxSegments)
  IN  CASE m.type \in {"Ack", "Reject"} ->
             [n EXCEPT !.txDatagram = IF @ = NoMessage THEN m ELSE @]
        [] m.type = "Segment" ->
             IF free = {} THEN n ELSE [n EXCEPT !.rxSegments[First(free)] = m]
        [] OTHER -> [n EXCEPT !.rxDatagram = IF @ = NoMessage THEN m ELSE @]

\* uart_receiver_.process(), one frame of it.
RamReceives ==
  /\ image = "Ram" /\ toUno # <<>>
  /\ uno' = Retain(uno, Head(toUno))
  /\ toUno' = Tail(toUno)
  /\ UNCHANGED <<image, host, toPc, history, disturbances>>

\* runOnce() after the UART: receiver, echo, transmitter.
RamRuns ==
  /\ image = "Ram"
  /\ \E received \in RamReceiver(uno) :
       \E sent \in RamTransmitter(startEcho(received.n)) :
         /\ uno' = sent.n
         /\ toPc' = toPc \o received.out \o sent.out
         /\ uploads' = IF ~uno.complete /\ received.n.complete
                       THEN uploads \cup {Stored(received.n)} ELSE uploads
  /\ UNCHANGED <<image, host, toUno, reports, disturbances>>

-----------------------------------------------------------------------------
(* The Boot image.                                                         *)

ImageReport(n) ==
  [type |-> "UserDatagram", session_id |-> n.rx.setup.session_id,
   status |-> CASE n.received # n.expected -> "LengthMismatch"
                [] \E i \in 0 .. (n.received - 1) : n.store[i] = 0
                     -> "DataMismatch"
                [] OTHER -> "Ok"]

\* Fault: the transfer is over before its last segment is stored.
ReportOfTransfer(n, after, m) ==
  IF after.accepted # n.rx.accepted /\ after.granted_end = after.segment_count
  THEN <<ImageReport(Callbacks(n, after, m))>> ELSE <<>>

(* onTransferComplete checks the image and sends the result, in the middle *)
(* of the handler, whose own ACK follows.                                  *)
ReportOf(n, after, m) ==
  IF Finished(n.rx, after) THEN <<ImageReport(Callbacks(n, after, m))>> ELSE <<>>

EchoResponse == [type |-> "UserDatagram", session_id |-> 0, status |-> "Echo"]

\* processFrame(): the PDU goes through the engine before the next byte.
BootReceives ==
  /\ image = "Boot" /\ toUno # <<>>
  /\ toUno' = Tail(toUno)
  /\ LET m == Head(toUno)
         sent == IF m.type = "UserDatagram" /\ ~BootEngine!Expired(uno.rx)
                 THEN <<EchoResponse>> ELSE <<>>
     IN  \E o \in BootEngine!EngineProcess(uno.rx, m) :
           /\ uno' = [Callbacks(uno, o.engine, m) EXCEPT !.complete = FALSE]
           /\ reports' = reports \o ReportOf(uno, o.engine, m)
           /\ toPc' = toPc \o sent \o ReportOf(uno, o.engine, m) \o Frames(o.out)
           /\ uploads' = IF Finished(uno.rx, o.engine)
                         THEN uploads \cup {Stored(Callbacks(uno, o.engine, m))}
                         ELSE uploads
  /\ UNCHANGED <<image, host, disturbances>>

\* engine.poll() at the head of the main loop.
BootPolls ==
  /\ image = "Boot"
  /\ uno' = Callbacks(uno, BootEngine!poll(uno.rx), NoMessage)
  /\ UNCHANGED <<image, host, toUno, toPc, history, disturbances>>

-----------------------------------------------------------------------------
(* The host: the loop of round_trip and of transfer_pattern.               *)

Running == Len(verdicts) < upload
Whole(n) == [i \in 0 .. up.setup.final_segment_index |-> n]

\* Both transfers are over: the script leaves its loop.
HostDone ==
  /\ up.state = "completed"
  /\ IF image = "Ram" THEN down.state = "completed" ELSE result # "None"

EndWith(verdict) == verdicts' = Append(verdicts, verdict)

HostPolls ==
  /\ Running /\ ~HostDone
  /\ LET polled == hostPoll(up)
     IN  /\ up' = polled.object
         /\ toUno' = toUno \o Frames({polled.out})
         /\ IF polled.object.state = "aborted" THEN EndWith("aborted")
            ELSE UNCHANGED verdicts
  /\ UNCHANGED <<image, down, result, upload, toPc, uno, history, disturbances>>

\* A frame for the upload's transmitter; a REJECT or ABORT raises.
HostTransmitterReads(m) ==
  /\ up' = hostReceive(up, m)
  /\ IF up'.state \in {"rejected", "aborted"} THEN EndWith(up'.state)
     ELSE UNCHANGED verdicts
  /\ UNCHANGED <<down, result, toUno>>

HostReceiverReads(m) ==
  /\ down' = hostReceiver(down, m).object
  /\ toUno' = toUno \o Frames({hostReceiver(down, m).out})
  /\ UNCHANGED <<up, result, verdicts>>

HostReportReads(m) ==
  /\ result' = IF m.session_id = up.setup.session_id THEN m.status ELSE result
  /\ UNCHANGED <<up, down, verdicts, toUno>>

HostReads ==
  /\ Running /\ toPc # <<>>
  /\ toPc' = Tail(toPc)
  /\ LET m == Head(toPc)
     IN  CASE m.type \in {"Ack", "Reject"} -> HostTransmitterReads(m)
           [] m.type = "UserDatagram" -> HostReportReads(m)
           [] OTHER -> HostReceiverReads(m)
  /\ UNCHANGED <<image, upload, uno, history, disturbances>>

HostReturns ==
  /\ Running /\ HostDone
  /\ EndWith(IF \/ image = "Ram" /\ down.data = Whole(upload)
                \/ image = "Boot" /\ result = "Ok"
             THEN "passed" ELSE "mismatch")
  /\ UNCHANGED <<image, up, down, result, upload, toUno, toPc, uno, history,
                 disturbances>>

\* The user interrupts the script, or its deadline passes.
HostStops ==
  /\ Running
  /\ EndWith("stopped")
  /\ UNCHANGED <<image, up, down, result, upload, toUno, toPc, uno, history,
                 disturbances>>

\* Nothing is under way on the line or waits in a slot of the board.
Settled ==
  /\ toUno = <<>> /\ toPc = <<>>
  /\ uno.rxDatagram = NoMessage /\ uno.txDatagram = NoMessage
  /\ Occupied(uno.rxSegments) = {}

(* The next upload.  The hardware test goes on at once, with the session   *)
(* of its own that follows; the script is started anew, which takes longer *)
(* than the frames of its predecessor, and what the board sent to a closed *)
(* port is gone.                                                           *)
NextUpload ==
  /\ ~Running /\ upload < MaxUploads
  /\ \/ image = "Boot" /\ Last(verdicts) = "passed" /\ UNCHANGED toPc
     \/ image = "Ram" /\ toUno = <<>> /\ uno.rxDatagram = NoMessage
        /\ Occupied(uno.rxSegments) = {} /\ toPc' = <<>>
  /\ upload' = upload + 1
  /\ up' = HostTransmitter(UploadSetup(image, upload + 1), upload + 1)
  /\ down' = InitialHostReceiver /\ result' = "None"
  /\ UNCHANGED <<image, verdicts, toUno, uno, history, disturbances>>

\* verify_datagram_echo: a user datagram the Boot image answers.
HostAsksEcho ==
  /\ image = "Boot" /\ Running
  /\ disturbances < MaxDisturbances /\ disturbances' = disturbances + 1
  /\ toUno' = Append(toUno, UserDatagram)
  /\ UNCHANGED <<image, host, toPc, uno, history>>

-----------------------------------------------------------------------------
(* The line and the clocks.                                                *)

(* A frame is damaged on the line, or the board, which blocks while it     *)
(* writes, lets the two bytes of the USART's buffer overrun.               *)
LoseFrame ==
  /\ disturbances < MaxDisturbances /\ disturbances' = disturbances + 1
  /\ \/ \E i \in DOMAIN toUno : toUno' = RemoveAt(toUno, i) /\ UNCHANGED toPc
     \/ \E i \in DOMAIN toPc : toPc' = RemoveAt(toPc, i) /\ UNCHANGED toUno
  /\ UNCHANGED <<image, host, uno, history>>

\* A port nobody has open loses what is sent to it.
ClosedPort ==
  /\ ~Running /\ toPc # <<>>
  /\ toPc' = <<>>
  /\ UNCHANGED <<image, host, toUno, uno, history, disturbances>>

(* retry_timeout exceeds the round trip, but a board that is slow for once *)
(* makes it run out early.                                                 *)
HostTimeout ==
  /\ Running
  /\ IF Settled THEN UNCHANGED disturbances
     ELSE /\ disturbances < MaxDisturbances
          /\ disturbances' = disturbances + 1
  /\ \/ /\ up.last # NoMessage /\ ~up.due
        /\ up' = [up EXCEPT !.due = TRUE]
     \/ /\ up.blocked = "Since"
        /\ up' = [up EXCEPT !.blocked = "Due"]
  /\ UNCHANGED <<image, down, result, verdicts, upload, toUno, toPc, uno, history>>

\* The echo's timers, when the line is quiet.
EchoTimeout ==
  /\ Settled
  /\ \/ /\ uno.tx.state = "Starting" /\ uno.tx.setup_sent /\ ~uno.tx.setup_due
        /\ uno' = [uno EXCEPT !.tx.setup_due = TRUE]
     \/ /\ uno.tx.state = "Active"
        /\ \E offset \in Outstanding(uno.tx) \ uno.tx.due :
             uno' = [uno EXCEPT !.tx.due = @ \cup {offset}]
     \/ /\ uno.tx.state = "Active" /\ uno.tx.probe_timer_active
        /\ ~uno.tx.probe_due
        /\ uno' = [uno EXCEPT !.tx.probe_due = TRUE]
  /\ UNCHANGED <<image, host, toUno, toPc, history, disturbances>>

\* Five seconds without a PDU of the session: the host is gone.
UploadExpires ==
  /\ Settled /\ ~Running
  /\ uno.rx.state = "Active" /\ ~uno.rx.expired
  /\ uno' = [uno EXCEPT !.rx.expired = TRUE]
  /\ UNCHANGED <<image, host, toUno, toPc, history, disturbances>>

-----------------------------------------------------------------------------

UnoNext ==
  \/ RamReceives \/ RamRuns \/ BootReceives \/ BootPolls
  \/ HostPolls \/ HostReads \/ HostReturns \/ HostStops
  \/ NextUpload \/ HostAsksEcho
  \/ LoseFrame \/ ClosedPort \/ HostTimeout \/ EchoTimeout \/ UploadExpires

UnoSpec == UnoInit /\ [][UnoNext]_unoVars

(* The board's main loop and the script's loop go round, frames arrive,    *)
(* and a timer on a quiet line runs out.                                   *)
UnoFairness ==
  /\ WF_unoVars(RamReceives) /\ WF_unoVars(RamRuns)
  /\ WF_unoVars(HostPolls) /\ WF_unoVars(HostReads) /\ WF_unoVars(HostReturns)
  /\ WF_unoVars(HostTimeout) /\ WF_unoVars(EchoTimeout)

FairUnoSpec == UnoSpec /\ UnoFairness

-----------------------------------------------------------------------------
(* Properties.                                                             *)

(* When the host's transmitter has completed, the board's application was  *)
(* given the complete object of this very upload: two implementations of   *)
(* the protocol agree, with retransmissions of both and a board left in    *)
(* any state by a script that was stopped                                  *)
(* (bits_ram_transfer.py:262-323, receiver_engine.cpp:117-205).            *)
UploadIsTrue == up.state = "completed" => Whole(upload) \in uploads

(* What comes back is one object the board received completely: the next   *)
(* upload, which may finish while an echo is still running, never gets     *)
(* into it (bits_ram_transfer.cpp:189-208).                                *)
EchoIsOneObject ==
  down.state = "completed" =>
    /\ down.data \in uploads
    /\ \E n \in 1 .. upload : \A i \in DOMAIN down.data : down.data[i] = n

(* The Boot image reports every completed transfer once, under its own     *)
(* session and as good, since the hosts only send the pattern it expects:  *)
(* the callbacks send while the engine is handling the last segment        *)
(* (bits_boot_profile_ram.cpp:135-164, receiver_engine.cpp:165-205).       *)
ReportIsTrue ==
  /\ \A i \in DOMAIN reports :
       /\ reports[i].status = "Ok"
       /\ \A j \in DOMAIN reports :
            reports[j].session_id = reports[i].session_id => i = j
  /\ image = "Boot" /\ uno.rx.state = "Completed" =>
       \E i \in DOMAIN reports :
         reports[i].session_id = uno.rx.setup.session_id

(* With no more disturbances than retries the first round trip passes,     *)
(* unless the user stops it (bits_ram_transfer.py:557-586).                *)
RoundTripPasses ==
  <>(image = "Ram" => verdicts # <<>> /\ verdicts[1] \in {"passed", "stopped"})

=============================================================================
