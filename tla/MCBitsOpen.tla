----------------------------- MODULE MCBitsOpen -----------------------------
(* The two machines of BITS, each alone against a peer that may say        *)
(* anything.  They share nothing but the constants, so a behaviour is one  *)
(* of the receiver or one of the transmitter, and the other rests.         *)
(*                                                                         *)
(* The receiver is offered two sessions, one of them announced with        *)
(* different geometries, segments of right and wrong sizes and indices,    *)
(* and bodies that do not decode.  The transmitter is answered with every  *)
(* ACK there is for one session, the other answers, and answers of another *)
(* session; its two objects use the same identity.                         *)
EXTENDS BitsReceiverOpen, BitsTransmitterOpen

Geometry(session_id, first, last, size, final) ==
  [session_id |-> session_id, initial_sequence_number |-> first,
   final_segment_index |-> last, segment_size |-> size,
   final_segment_size |-> final]

SetupTraffic ==
  {SetupMessage(Geometry(1, 5, 3, 2, 1)),    \* four segments, wrapping
   SetupMessage(Geometry(1, 5, 1, 2, 2)),    \* the same session, two segments
   SetupMessage(Geometry(2, 0, 0, 1, 1)),    \* another session
   SetupMessage(Geometry(2, 0, 1, 2, 3)),    \* bad sizes
   SetupMessage(Geometry(2, 0, 9, 2, 2)),    \* too large an object
   SetupMessage(Geometry(2, 0, 1, 3, 1))}    \* too large a segment

SegmentTraffic ==
  [type : {"Segment"}, session_id : {1, 2}, segment_index : 0 .. 4, size : {1, 2}]

OpenTraffic ==
  SetupTraffic \cup SegmentTraffic
    \cup [type : {"Probe", "Abort"}, session_id : {1, 2}]
    \cup {MalformedMessage("Setup", 1), MalformedMessage("Abort", 1), UserDatagram}

Request(session_id, first, size, segment) ==
  [session_id |-> session_id, initial_sequence_number |-> first,
   object_size |-> size, segment_size |-> segment]

SameSession == {Request(1, 3, 4, 1), Request(1, 3, 3, 2)}

AnyAnswer ==
  [type : {"Ack"}, session_id : {1}, window_bitmap : SUBSET Offsets,
   max_receive_sequence : SequenceNumbers, window_base : SequenceNumbers]
    \cup {AckMessage(2, {}, 0, 0), RejectMessage(1, "Busy"), RejectMessage(2, "Busy"),
          AbortMessage(1), AbortMessage(2), MalformedMessage("Ack", 1), UserDatagram}

ReceiverAlone == SessionInit /\ OpenNext /\ UNCHANGED session
TransmitterAlone == OpenInit /\ SessionNext /\ UNCHANGED openVars

MachinesInit == OpenInit /\ SessionInit
MachinesNext == ReceiverAlone \/ TransmitterAlone

MachinesSpec == MachinesInit /\ [][MachinesNext]_<<openVars, session>>

=============================================================================
