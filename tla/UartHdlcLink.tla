---------------------------- MODULE UartHdlcLink ----------------------------
(***************************************************************************)
(* One direction of a UART Link: UartHdlcForwarder::trySend encodes a      *)
(* packet as a byte-stuffed frame (links/uart_hdlc/encoder.h) and writes   *)
(* it to the line; UartHdlcReceiver::process at the other end feeds every  *)
(* byte to the decoder (links/uart_hdlc/decoder.h) and passes on what it   *)
(* completes (examples/arduino-uno/uart_hdlc_link.h).                      *)
(*                                                                         *)
(* The line loses bytes, changes them and makes them up, MaxNoise times.   *)
(* Checksum stands for the CRC: any function of a frame's body.            *)
(***************************************************************************)
EXTENDS Integers, SequencesExt

CONSTANTS
  Bodies,          \* the canonical packets, header and payload bytes
  HeaderSize,      \* sizeof(Header)
  SendCapacity,    \* the sender's kMaximumCanonicalSize
  FrameCapacity,   \* the decoder's kFrameCapacity
  Checksum(_),     \* Crc16CcittFalse::compute
  NoiseBytes,      \* the bytes noise puts on the line
  MaxFrames,       \* bound: packets handed to the Link
  MaxNoise         \* bound: disturbances of the line

ASSUME UartAssumption ==
  /\ Bodies \subseteq Seq(0..255) \ {<<>>}
  /\ HeaderSize \in Nat /\ SendCapacity \in Nat /\ FrameCapacity \in Nat
  /\ \A b \in Bodies : Checksum(b) \in 0..(256 * 256 - 1)
  /\ NoiseBytes \subseteq 0..255 /\ MaxFrames \in Nat /\ MaxNoise \in Nat

VARIABLES
  line,       \* bytes under way: <<byte, its frame or 0, place in the frame>>
  decoder,    \* the HdlcDecoder
  sent,       \* bodies the Link accepted
  received,   \* bodies handed to DomainContext::receive
  damaged,    \* history: frames whose bytes noise touched
  noise       \* how many disturbances there have been

vars == <<line, decoder, sent, received, damaged, noise>>

kFlag == 126
kEscape == 125
kCrcSize == 2
EscapeXor(byte) == IF (byte \div 32) % 2 = 1 THEN byte - 32 ELSE byte + 32

----------------------------------------------------------------------------
(* HdlcEncoder.                                                            *)

Stuff(byte) ==
  IF byte \in {kFlag, kEscape} THEN <<kEscape, EscapeXor(byte)>> ELSE <<byte>>
Stuffed(bytes) ==
  LET stuffed[n \in 0..Len(bytes)] ==   \* the first n bytes
        IF n = 0 THEN <<>> ELSE stuffed[n - 1] \o Stuff(bytes[n])
  IN stuffed[Len(bytes)]
Trailer(body) == <<Checksum(body) % 256, Checksum(body) \div 256>>

\* Fault: the checksum is sent as it is, not stuffed.
EncodeBareTrailer(body) == <<kFlag>> \o Stuffed(body) \o Trailer(body) \o <<kFlag>>

encode(body) == <<kFlag>> \o Stuffed(body \o Trailer(body)) \o <<kFlag>>

(* UartHdlcForwarder::trySend: a packet that is not too large is on the    *)
(* line before the call returns; one that is leaves nothing behind.        *)
trySend ==
  /\ Len(sent) < MaxFrames
  /\ \E body \in Bodies :
       /\ Len(body) <= SendCapacity
       /\ sent' = Append(sent, body)
       /\ line' = line \o [i \in DOMAIN encode(body) |-> <<encode(body)[i], Len(sent) + 1, i>>]
  /\ UNCHANGED <<decoder, received, damaged, noise>>

----------------------------------------------------------------------------
(* HdlcDecoder: push() as the decoder it leaves and whether it returns     *)
(* true.                                                                   *)

InitialDecoder == [frame |-> <<>>, in_frame |-> FALSE, escaped |-> FALSE, ready |-> FALSE]
consume(d) == [d EXCEPT !.frame = <<>>, !.ready = FALSE]

Body(frame) == SubSeq(frame, 1, Len(frame) - kCrcSize)
hasValidCrc(frame) ==
  /\ Len(frame) > kCrcSize
  /\ Trailer(Body(frame)) = SubSeq(frame, Len(frame) - 1, Len(frame))

\* Fault: a flag that ends no frame leaves what was collected before it.
EndOnlyWhole(d) ==
  IF d.in_frame /\ ~d.escaped /\ hasValidCrc(d.frame)
  THEN [d EXCEPT !.frame = Body(@), !.ready = TRUE]
  ELSE [d EXCEPT !.in_frame = TRUE, !.escaped = FALSE]

\* A flag ends the frame under way, if it is whole, and begins the next.
OnFlag(d) ==
  IF d.in_frame /\ ~d.escaped /\ hasValidCrc(d.frame)
  THEN [d EXCEPT !.frame = Body(@), !.ready = TRUE]
  ELSE [d EXCEPT !.frame = <<>>, !.in_frame = TRUE, !.escaped = FALSE]

\* Fault: the storage check is one byte too late.
CollectLate(d, byte) ==
  IF Len(d.frame) > FrameCapacity + kCrcSize THEN InitialDecoder
  ELSE [d EXCEPT !.frame = Append(@, byte), !.escaped = FALSE]

\* A byte of the body or the trailer; a frame too long is given up.
Collect(d, byte) ==
  IF Len(d.frame) >= FrameCapacity + kCrcSize THEN InitialDecoder
  ELSE [d EXCEPT !.frame = Append(@, byte), !.escaped = FALSE]

push(d, byte) ==
  IF d.ready THEN d
  ELSE IF byte = kFlag THEN OnFlag(d)
  ELSE IF ~d.in_frame THEN d
  ELSE IF d.escaped THEN Collect(d, EscapeXor(byte))
  ELSE IF byte = kEscape THEN [d EXCEPT !.escaped = TRUE]
  ELSE Collect(d, byte)

(* UartHdlcReceiver::process, one turn of its loop: read a byte, push it,  *)
(* and pass a completed frame on if it can be a packet.                    *)
processByte ==
  /\ line # <<>>
  /\ line' = Tail(line)
  /\ LET next == push(decoder, Head(line)[1])
     IN IF next.ready
        THEN /\ received' = IF Len(next.frame) \in HeaderSize..FrameCapacity
                            THEN Append(received, next.frame) ELSE received
             /\ decoder' = consume(next)
        ELSE decoder' = next /\ UNCHANGED received
  /\ UNCHANGED <<sent, damaged, noise>>

----------------------------------------------------------------------------
(* The line.  A byte made up between two frames touches neither.           *)

Within(i) == IF i \in DOMAIN line /\ line[i][3] > 1 THEN {line[i][2]} ELSE {}
Disturb(newLine, frames) ==
  /\ noise < MaxNoise /\ noise' = noise + 1
  /\ line' = newLine
  /\ damaged' = damaged \union (frames \ {0})
  /\ UNCHANGED <<decoder, sent, received>>
LoseByte == \E i \in DOMAIN line : Disturb(RemoveAt(line, i), {line[i][2]})
ChangeByte ==
  \E i \in DOMAIN line, byte \in NoiseBytes :
    byte # line[i][1] /\ Disturb(ReplaceAt(line, i, <<byte, line[i][2], line[i][3]>>), {line[i][2]})
MakeUpByte ==
  \E i \in 1..(Len(line) + 1), byte \in NoiseBytes :
    Disturb(InsertAt(line, i, <<byte, 0, 0>>), Within(i))

Init ==
  /\ line = <<>> /\ decoder = InitialDecoder
  /\ sent = <<>> /\ received = <<>>
  /\ damaged = {} /\ noise = 0
Next == trySend \/ processByte \/ LoseByte \/ ChangeByte \/ MakeUpByte
Spec == Init /\ [][Next]_vars

----------------------------------------------------------------------------
(* Properties.                                                             *)

Fits(body) == Len(body) \in HeaderSize..FrameCapacity
IntactFrames == {n \in DOMAIN sent \ damaged : Fits(sent[n])}

\* Where the bodies of frames are in received: in the order they were sent.
PlacesOf(frames) ==
  {place \in [frames -> DOMAIN received] :
     \A n \in frames : /\ received[place[n]] = sent[n]
                       /\ \A m \in frames : m < n => place[m] < place[n]}

(* The decoder's storage holds a frame body and its trailer and no byte    *)
(* more, whatever arrives, and never keeps a frame the receiver has taken  *)
(* (HdlcDecoder::push, consume).                                           *)
UartTypeOK ==
  /\ Len(decoder.frame) <= FrameCapacity + kCrcSize
  /\ \A i \in DOMAIN decoder.frame : decoder.frame[i] \in 0..255
  /\ ~decoder.ready /\ (decoder.escaped => decoder.in_frame)
  /\ \A i \in DOMAIN line : line[i][1] \in 0..255
  /\ Len(sent) <= MaxFrames /\ noise \in 0..MaxNoise
  /\ \A n \in DOMAIN received : Fits(received[n])

(* Noise costs only the frames it touches: whatever was on the line before *)
(* and after, every packet whose own bytes arrive as they were sent, and   *)
(* that the receiver has room for, is passed on, in order.  A damaged,     *)
(* overlong or unfinished frame never takes its neighbour with it.         *)
IntactFramesArrive == line = <<>> => PlacesOf(IntactFrames) # {}

(* Without noise the Link is a FIFO of the packets the receiver has room   *)
(* for: nothing is repeated, reordered or made up, flags, escapes and      *)
(* checksum bytes that look like them included.                            *)
QuietLineIsFifo ==
  noise = 0 =>
    \E n \in 0..Len(sent) :
      \E place \in PlacesOf({m \in 1..n : Fits(sent[m])}) :
        \A i \in DOMAIN received : \E m \in DOMAIN place : place[m] = i

=============================================================================
