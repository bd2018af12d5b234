---------------------------- MODULE Mcp2515Can ----------------------------
(***************************************************************************)
(* The polling driver of the MCP2515 CAN controller                        *)
(* (platform/avr/mcp2515_can.h over mcp2515.h and spi0.h) under the bench  *)
(* application's loop (examples/arduino-uno/mcp2515_can_test.cpp).         *)
(*                                                                         *)
(* The driver and the controller run concurrently: one SPI transaction is  *)
(* one step of the driver, and between any two of them the controller may  *)
(* capture a frame from the bus into a receive buffer, or send the frame   *)
(* of transmit buffer 0.  The controller is external; it is modelled from  *)
(* the registers, flags and modes that the driver uses: a captured frame   *)
(* goes to RXB0, rolls over to RXB1 when RXB0 is flagged, and is dropped   *)
(* when both are; a flagged buffer keeps its content.                      *)
(*                                                                         *)
(* A buffer is the sequence of its registers SIDH, SIDL, EID8, EID0, DLC,  *)
(* D0 ...; registers hold numbers, so the split of an identifier over two  *)
(* registers and the flag bits beside it are arithmetic here as there.     *)
(***************************************************************************)
EXTENDS Integers, Sequences, Bags

CONSTANTS
    MaxData,        \* data bytes of a frame (8 in the code)
    ModeAttempts,   \* reads of CANSTAT that initialisation makes (1000)
    BusFrames,      \* frames other nodes send
    Commands,       \* frames the UART's commands ask for
    MaxBusFrames,   \* bound on the frames on the bus
    MaxCommands     \* bound on the commands

\* The length code of a frame has four bits.
ASSUME CanAssumption ==
    /\ MaxData \in 1 .. 15 /\ ModeAttempts \in Nat \ {0}
    /\ BusFrames \subseteq [id : Nat, dlc : 0 .. 15, extended : BOOLEAN,
                            remote : BOOLEAN, data : Seq(Nat)]
    /\ \A f \in BusFrames : Len(f.data) = MaxData
    /\ Commands \subseteq [identifier : Nat, size : Nat, data : Seq(Nat)]
    /\ \A f \in Commands : Len(f.data) = f.size

VARIABLES
    mode,       \* "Reset", "Config", "Requested" (normal mode asked for) or "Normal"
    rxb,        \* the registers of RXB0 and RXB1
    rxif,       \* CANINTF: the receive buffers flagged full
    txb0,       \* the registers of transmit buffer 0
    txreq,      \* TXB0CTRL's TXREQ
    pc,         \* the SPI transaction the driver makes next
    index,      \* loop counter of initialisation, transmit() and receive()
    flag,       \* receive(): the buffer it reads
    frame,      \* the frame transmit() or receive() works on
    captured,   \* bag of the frames with a standard identifier it captured
    reported,   \* bag of the frames the application reported
    accepted,   \* frames transmit() returned true for
    onBus,      \* frames the controller sent
    inputs      \* counts [bus, command], bounded
vars == <<mode, rxb, rxif, txb0, txreq, pc, index, flag, frame,
          captured, reported, accepted, onBus, inputs>>
controller == <<mode, rxb, rxif, txb0, txreq>>
history == <<captured, reported, accepted, onBus, inputs>>

Blank == [identifier |-> 0, size |-> 0, data |-> <<>>]

AtMost(n, m) == IF n < m THEN n ELSE m

---------------------------------------------------------------------------
(* The controller                                                          *)

\* The frame on the bus as an application should see it.  A remote frame has
\* no data of its own: its bytes are what the buffer happens to hold.
FrameOnBus(f) ==
    LET size == AtMost(f.dlc, MaxData) IN
    [identifier |-> f.id, size |-> size, data |-> SubSeq(f.data, 1, size)]

\* The registers it fills, as the controller's data sheet has them: beside
\* the identifier SIDL has IDE (8), and SRR (16) for a remote frame with a
\* standard identifier; RTR (64) beside the length is of extended frames only.
RegistersOf(f) ==
    LET ide_srr == IF f.extended THEN 8 ELSE IF f.remote THEN 16 ELSE 0
        rtr == IF f.extended /\ f.remote THEN 64 ELSE 0 IN
    << f.id \div 8, (f.id % 8) * 32 + ide_srr, 0, 0, f.dlc + rtr >> \o f.data

\* The standard frame that a buffer's registers stand for.
FrameOf(registers) ==
    LET size == AtMost(registers[5] % 16, MaxData) IN
    [identifier |-> registers[1] * 8 + registers[2] \div 32,
     size |-> size, data |-> SubSeq(registers, 6, 5 + size)]

\* IDE says that the identifier is a standard one.
IsStandard(registers) == (registers[2] \div 8) % 2 = 0

FreeBuffers == {0, 1} \ rxif

Captures(b, f) ==
    /\ rxb' = [rxb EXCEPT ![b] = RegistersOf(f)]
    /\ rxif' = rxif \cup {b}
    /\ captured' = IF f.extended THEN captured
                   ELSE captured (+) SetToBag({FrameOnBus(f)})

BusFrame(f) ==
    /\ mode = "Normal" /\ inputs.bus < MaxBusFrames
    /\ inputs' = [inputs EXCEPT !.bus = @ + 1]
    /\ IF FreeBuffers # {}
       THEN Captures(IF 0 \in FreeBuffers THEN 0 ELSE 1, f)
       ELSE UNCHANGED <<rxb, rxif, captured>>
    /\ UNCHANGED <<mode, txb0, txreq, pc, index, flag, frame, reported,
                   accepted, onBus>>

ControllerSends ==
    /\ mode = "Normal" /\ txreq
    /\ txreq' = FALSE
    /\ onBus' = Append(onBus, FrameOf(txb0))
    /\ UNCHANGED <<mode, rxb, rxif, txb0, pc, index, flag, frame, captured,
                   reported, accepted, inputs>>

\* The controller leaves configuration mode when the bus lets it.
ControllerStarts ==
    /\ mode = "Requested"
    /\ mode' = "Normal"
    /\ UNCHANGED <<rxb, rxif, txb0, txreq, pc, index, flag, frame, history>>

Controller ==
    \/ \E f \in BusFrames : BusFrame(f)
    \/ ControllerSends
    \/ ControllerStarts

---------------------------------------------------------------------------
(* initialize500Kbps8MHz()                                                 *)

\* The controller answers the reset with configuration mode, or is not there.
probeCanstat ==
    /\ pc = "Probe"
    /\ \/ mode' = "Config" /\ pc' = "Configure"
       \/ mode' = "Reset" /\ pc' = "Error"
    /\ txreq' = FALSE
    /\ UNCHANGED <<rxb, rxif, txb0, index, flag, frame, history>>

\* The writes up to the mode request change nothing that can race: in
\* configuration mode the controller is off the bus.
configure ==
    /\ pc = "Configure"
    /\ rxif' = {}
    /\ mode' = "Requested"
    /\ pc' = "AwaitMode" /\ index' = 0
    /\ UNCHANGED <<rxb, txb0, txreq, flag, frame, history>>

awaitMode ==
    /\ pc = "AwaitMode"
    /\ \/ mode = "Normal" /\ pc' = "Uart" /\ UNCHANGED index
       \/ /\ mode # "Normal"
          /\ index' = index + 1
          /\ pc' = IF index' < ModeAttempts THEN "AwaitMode" ELSE "Error"
    /\ UNCHANGED <<controller, flag, frame, history>>

\* main() writes ERROR:MCP2515 and loops for ever.
Halted == pc = "Error" /\ UNCHANGED vars

---------------------------------------------------------------------------
(* processUart(), processCommand() and transmit()                          *)

\* The registers transmit() writes, in the order of their addresses.
TransmitWrites(f) ==
    << f.identifier \div 8, (f.identifier % 8) * 32, 0, 0, f.size >> \o f.data

\* Answered T:BAD: not the form T:III:DD..., or an identifier over 0x7FF.
IsCommand(f) == f.identifier <= 2047 /\ f.size <= MaxData

processCommand(f) ==
    /\ pc = "Uart" /\ inputs.command < MaxCommands
    /\ inputs' = [inputs EXCEPT !.command = @ + 1]
    /\ IF IsCommand(f)
       THEN pc' = "TransmitTest" /\ frame' = f /\ index' = 0
       ELSE UNCHANGED <<pc, frame, index>>
    /\ UNCHANGED <<controller, flag, captured, reported, accepted, onBus>>

\* A bug to find: transmit() that does not look at TXREQ.
TransmitUntested ==
    /\ pc = "TransmitTest"
    /\ pc' = "TransmitWrite"
    /\ UNCHANGED <<controller, index, flag, frame, history>>

\* The read of TXB0CTRL: a pending request is answered T:BUSY.
transmitTest ==
    /\ pc = "TransmitTest"
    /\ pc' = IF txreq THEN "Uart" ELSE "TransmitWrite"
    /\ UNCHANGED <<controller, index, flag, frame, history>>

transmitWrite ==
    /\ pc = "TransmitWrite"
    /\ index' = index + 1
    /\ txb0' = [txb0 EXCEPT ![index'] = TransmitWrites(frame)[index']]
    /\ pc' = IF index' < Len(TransmitWrites(frame)) THEN pc ELSE "RequestToSend"
    /\ UNCHANGED <<mode, rxb, rxif, txreq, flag, frame, history>>

requestToSend ==
    /\ pc = "RequestToSend"
    /\ txreq' = TRUE
    /\ accepted' = Append(accepted, frame)
    /\ pc' = "Uart" /\ frame' = Blank /\ index' = 0
    /\ UNCHANGED <<mode, rxb, rxif, txb0, flag, captured, reported, onBus, inputs>>

\* No byte waits: main() goes on to receive().
uartEmpty ==
    /\ pc = "Uart"
    /\ pc' = "Flags"
    /\ frame' = Blank /\ index' = 0
    /\ UNCHANGED <<controller, flag, history>>

---------------------------------------------------------------------------
(* receive()                                                               *)

\* The one read of CANINTF chooses the buffer; none flagged ends main()'s
\* loop over receive().
readFlags ==
    /\ pc = "Flags"
    /\ \/ rxif = {} /\ pc' = "Uart" /\ UNCHANGED flag
       \/ /\ rxif # {}
          /\ flag' = IF 0 \in rxif THEN 0 ELSE 1
          /\ pc' = "Sidh"
    /\ UNCHANGED <<controller, index, frame, history>>

readSidh ==
    /\ pc = "Sidh"
    /\ frame' = [frame EXCEPT !.identifier = rxb[flag][1] * 8]
    /\ pc' = "Sidl"
    /\ UNCHANGED <<controller, index, flag, history>>

readSidl ==
    /\ pc = "Sidl"
    /\ LET sidl == rxb[flag][2]
           extended == (sidl \div 8) % 2 = 1 IN
       /\ frame' = IF extended THEN frame
                   ELSE [frame EXCEPT !.identifier = @ + sidl \div 32]
       /\ pc' = IF extended THEN "ClearUnsupported" ELSE "Dlc"
    /\ UNCHANGED <<controller, index, flag, history>>

readDlc ==
    /\ pc = "Dlc"
    /\ LET dlc == rxb[flag][5]
           remote == (dlc \div 64) % 2 = 1
           size == AtMost(dlc % 16, MaxData) IN
       /\ frame' = IF remote THEN frame
                   ELSE [frame EXCEPT !.size = size, !.data = <<>>]
       /\ pc' = IF remote THEN "ClearUnsupported"
                ELSE IF size = 0 THEN "Clear" ELSE "Data"
    /\ UNCHANGED <<controller, index, flag, history>>

readData ==
    /\ pc = "Data"
    /\ frame' = [frame EXCEPT !.data = Append(@, rxb[flag][6 + Len(@)])]
    /\ pc' = IF Len(frame'.data) < frame.size THEN "Data" ELSE "Clear"
    /\ UNCHANGED <<controller, index, flag, history>>

\* A bug to find: a plain write of zero to CANINTF instead of bitModify().
ClearEveryFlag == rxif' = {}

\* bitModify() clears the one flag; receive() returns true, main() reports
\* the frame and calls receive() again.
ClearFlag == rxif' = rxif \ {flag}

clearRead ==
    /\ pc = "Clear"
    /\ ClearFlag
    /\ reported' = reported (+) SetToBag({frame})
    /\ pc' = "Flags" /\ frame' = Blank
    /\ UNCHANGED <<mode, rxb, txb0, txreq, index, flag, captured, accepted,
                   onBus, inputs>>

\* A bug to find: the early return of receive() leaves the flag set.
ReturnWithoutClearing ==
    /\ pc = "ClearUnsupported"
    /\ pc' = "Uart"
    /\ frame' = Blank
    /\ UNCHANGED <<controller, index, flag, history>>

\* A frame that is refused: receive() returns false, which ends main()'s loop
\* although the other buffer may be flagged.
clearUnsupported ==
    /\ pc = "ClearUnsupported"
    /\ ClearFlag
    /\ pc' = "Uart"
    /\ frame' = Blank
    /\ UNCHANGED <<mode, rxb, txb0, txreq, index, flag, history>>

Driver ==
    \/ probeCanstat \/ configure \/ awaitMode \/ Halted
    \/ \E f \in Commands : processCommand(f)
    \/ transmitTest \/ transmitWrite \/ requestToSend \/ uartEmpty
    \/ readFlags \/ readSidh \/ readSidl \/ readDlc \/ readData
    \/ clearRead \/ clearUnsupported

---------------------------------------------------------------------------
Zeros == [i \in 1..(5 + MaxData) |-> 0]

Init ==
    /\ mode = "Reset"
    /\ rxb = [b \in {0, 1} |-> Zeros] /\ rxif = {}
    /\ txb0 = Zeros /\ txreq = FALSE
    /\ pc = "Probe" /\ index = 0 /\ flag = 0 /\ frame = Blank
    /\ captured = EmptyBag /\ reported = EmptyBag
    /\ accepted = <<>> /\ onBus = <<>>
    /\ inputs = [bus |-> 0, command |-> 0]

Next == Controller \/ Driver

\* main() never stops, and every SPI transaction ends.
Spec == Init /\ [][Next]_vars /\ WF_vars(Driver)

---------------------------------------------------------------------------
(* Properties                                                              *)

\* What a flagged receive buffer still holds for the application.
Held(b) == IF b \in rxif /\ IsStandard(rxb[b])
           THEN SetToBag({FrameOf(rxb[b])}) ELSE EmptyBag

\* receive() reads a buffer register by register while the controller keeps
\* capturing: every frame with a standard identifier that the controller
\* captured is reported once, whole and with its own identifier, size and
\* bytes, or is still held in a flagged buffer; no frame is torn, repeated or
\* dropped, and no extended one is reported.
CapturedOnceReportedOnce == captured = reported (+) Held(0) (+) Held(1)

\* "exposes only standard 11-bit data frames" (mcp2515_can.h): what receive()
\* returns true for was a data frame, and not a remote one, on the bus.
DataFramesOnly ==
    \A fr \in BagToSet(reported) :
        \E f \in BusFrames : ~f.extended /\ ~f.remote /\ fr = FrameOnBus(f)

\* transmit() writes the buffer register by register: what the controller
\* puts on the bus is what transmit() accepted, in that order, and the only
\* accepted frame not yet sent is the whole one in transmit buffer 0.
AcceptedIsSentWhole ==
    accepted = onBus \o (IF txreq THEN <<FrameOf(txb0)>> ELSE <<>>)

\* Frames that receive() refuses free their buffer too: once the bus falls
\* silent, every buffer is drained, whatever mixture of frames arrived.
BuffersDrain == rxif # {} ~> (rxif = {} \/ pc = "Error")

====
