---------------------------- MODULE BitsProtocol ----------------------------
(***************************************************************************)
(* The Compact BITS wire vocabulary that both peers share: the SETUP       *)
(* geometry, the seven message classes and the wrapping sequence numbers   *)
(* of an ACK (transports/bits/protocol.h, codec.cpp).                      *)
(*                                                                         *)
(* A message is the record its decoder produces; a PDU whose control byte  *)
(* decodes but whose body does not is a Malformed record.  Bitmaps are     *)
(* sets of window offsets, so bit i of the C++ word is the member i here.  *)
(***************************************************************************)
EXTENDS Integers, FiniteSets

CONSTANTS
  kCompactWindowWidth,  \* bits in an ACK bitmap: 16 in the code
  SequenceModulus,      \* values of a wrapping sequence number: 256 in the code
  MaxRetries,           \* TimingConfig::max_retries
  LinkResults           \* what Router::forward may answer a BITS send

(* Router::forward as a BITS sender sees it: the packet was taken by the   *)
(* Link, the Link was full, a fan-out took it on some of its Links only,   *)
(* or no Link took it for good (too large, rejected, no route).            *)
AllLinkResults == {"Sent", "Full", "Partial", "Failed"}

ASSUME WidthAssumption == kCompactWindowWidth \in Nat \ {0}
ASSUME ModulusAssumption == SequenceModulus \in Nat \ {0}
ASSUME WindowFitsAssumption == kCompactWindowWidth < SequenceModulus
ASSUME RetriesAssumption == MaxRetries \in Nat
ASSUME LinkAssumption == LinkResults \subseteq AllLinkResults

Offsets == 0 .. (kCompactWindowWidth - 1)
SequenceNumbers == 0 .. (SequenceModulus - 1)

-----------------------------------------------------------------------------
(* SETUP and the geometry derived from it.                                 *)

Setups == [session_id : Nat, initial_sequence_number : SequenceNumbers,
           final_segment_index : Nat, segment_size : Nat,
           final_segment_size : Nat]

\* A value-initialised Setup{}.
EmptySetup == [session_id |-> 0, initial_sequence_number |-> 0,
               final_segment_index |-> 0, segment_size |-> 0,
               final_segment_size |-> 0]

setupSegmentCount(setup) == setup.final_segment_index + 1

setupTotalSize(setup) ==
  setup.final_segment_index * setup.segment_size + setup.final_segment_size

SegmentSize(setup, index) ==
  IF index = setup.final_segment_index THEN setup.final_segment_size
                                       ELSE setup.segment_size

-----------------------------------------------------------------------------
(* Wrapping sequence numbers.  An ACK names the last contiguous segment by *)
(* its sequence; the empty prefix is one before the initial sequence.      *)

sequenceFor(setup, index) ==
  (setup.initial_sequence_number + index) % SequenceModulus

baseSequence(setup, count) ==
  (setup.initial_sequence_number + count - 1) % SequenceModulus

\* Subtraction of two 8-bit sequence numbers.
SequenceDistance(from, to) == (to - from) % SequenceModulus

lowBitMask(count) == {offset \in Offsets : offset < count}

\* A bitmap shifted right by count positions.
ShiftRight(bitmap, count) ==
  {offset \in Offsets : offset + count \in bitmap}

-----------------------------------------------------------------------------
(* Messages.                                                               *)

RejectReasons == {"UnsupportedSegmentSize", "ObjectTooLarge", "Busy",
                  "InvalidArgument"}

SetupMessage(setup) == [type |-> "Setup", setup |-> setup]

SegmentMessage(setup, index) ==
  [type |-> "Segment", session_id |-> setup.session_id,
   segment_index |-> index, size |-> SegmentSize(setup, index)]

AckMessage(session, bitmap, max, base) ==
  [type |-> "Ack", session_id |-> session, window_bitmap |-> bitmap,
   max_receive_sequence |-> max, window_base |-> base]

ProbeMessage(session) == [type |-> "Probe", session_id |-> session]

AbortMessage(session) == [type |-> "Abort", session_id |-> session]

RejectMessage(session, reason) ==
  [type |-> "Reject", session_id |-> session, reason |-> reason]

UserDatagram == [type |-> "UserDatagram"]

\* kind is the message class of the control byte, session_id the second byte.
MalformedMessage(kind, session) ==
  [type |-> "Malformed", kind |-> kind, session_id |-> session]

\* No message: an ingress slot that is empty.
NoMessage == [type |-> "None"]

=============================================================================
