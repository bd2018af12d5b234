------------------------------ MODULE HostBits ------------------------------
(***************************************************************************)
(* The Compact BITS peers of the PC scripts, an implementation of its own  *)
(* beside the C++ one: CompactBitsTransmitter, which sends one segment and *)
(* waits, and CompactBitsReceiver (tools/wirespaces/bits_ram_transfer.py). *)
(*                                                                         *)
(* poll() and receive() map an object to its next state and the message    *)
(* they return, NoMessage for None.  The timers are the fact that          *)
(* retry_timeout has passed: due since _last_send_time, blocked = "Due"    *)
(* since _blocked_since.                                                   *)
(***************************************************************************)
EXTENDS BitsProtocol, TLC

CONSTANTS
  HostRetries,           \* maximum_retries: 10 in the scripts
  HostMaximumObject,     \* UNO_MAXIMUM_OBJECT_SIZE
  HostMaximumSegment     \* UNO_SEGMENT_SIZE

ASSUME HostAssumption ==
  HostRetries \in Nat /\ HostMaximumObject \in Nat /\ HostMaximumSegment \in Nat

Returns(object, message) == [object |-> object, out |-> message]

\* A SEGMENT with its bytes; content stands for them.
Carrying(message, content) == message @@ ("content" :> content)

-----------------------------------------------------------------------------
(* CompactBitsTransmitter.                                                 *)

NotOutstanding == -1

\* content stands for the object's bytes, the same for each of its segments.
HostTransmitter(setup, content) ==
  [state |-> "starting", setup |-> setup, content |-> content,
   acknowledged_count |-> 0, granted_end |-> 0,
   outstanding |-> NotOutstanding, last |-> NoMessage, due |-> FALSE,
   retry_count |-> 0, blocked |-> "No"]

record_send(u, message, retransmission) ==
  Returns([u EXCEPT !.last = message, !.due = FALSE,
                    !.retry_count = IF retransmission THEN @ + 1 ELSE 0],
          message)

HostGivesUp(u) ==
  Returns([u EXCEPT !.state = "aborted"], AbortMessage(u.setup.session_id))

retry_or_abort(u) ==
  IF u.retry_count >= HostRetries THEN HostGivesUp(u)
  ELSE record_send(u, u.last, TRUE)

\* The window is closed: wait, then probe.
PollBlocked(u) ==
  CASE u.blocked = "No" -> Returns([u EXCEPT !.blocked = "Since"], NoMessage)
    [] u.blocked = "Due" ->
         IF u.retry_count >= HostRetries THEN HostGivesUp(u)
         ELSE Returns([u EXCEPT !.blocked = "Since", !.retry_count = @ + 1],
                      ProbeMessage(u.setup.session_id))
    [] OTHER -> Returns(u, NoMessage)

SendNextSegment(u) ==
  record_send([u EXCEPT !.outstanding = u.acknowledged_count, !.blocked = "No"],
              Carrying(SegmentMessage(u.setup, u.acknowledged_count), u.content),
              FALSE)

hostPoll(u) ==
  CASE u.state = "starting" /\ u.last = NoMessage ->
         record_send(u, SetupMessage(u.setup), FALSE)
    [] \/ u.state = "starting" /\ u.last # NoMessage
       \/ u.state = "active" /\ u.outstanding # NotOutstanding ->
         IF u.due THEN retry_or_abort(u) ELSE Returns(u, NoMessage)
    [] u.state = "active" /\ u.outstanding = NotOutstanding ->
         IF u.acknowledged_count < u.granted_end THEN SendNextSegment(u)
         ELSE PollBlocked(u)
    [] OTHER -> Returns(u, NoMessage)

HostAdvance(u, m) ==
  SequenceDistance(baseSequence(u.setup, u.acknowledged_count), m.window_base)
HostGrant(m) == SequenceDistance(m.window_base, m.max_receive_sequence)

\* Fault: a cumulative ACK is believed whatever has been sent.
AckOfUnsentSegment(u, m) ==
  /\ m.session_id = u.setup.session_id
  /\ u.state \in {"starting", "active"}
  /\ HostAdvance(u, m) <= 1
  /\ HostGrant(m) <= kCompactWindowWidth
  /\ u.acknowledged_count + HostAdvance(u, m) + HostGrant(m)
       <= setupSegmentCount(u.setup)

(* The ACK is of this session, SETUP is out, the window moves by at most   *)
(* the one segment that is outstanding, and the grant lies in the object.  *)
HostTakesAck(u, m) ==
  /\ m.session_id = u.setup.session_id
  /\ u.state \in {"starting", "active"}
  /\ u.state = "starting" => u.last # NoMessage
  /\ HostAdvance(u, m) <= 1
  /\ HostGrant(m) <= kCompactWindowWidth
  /\ u.acknowledged_count + HostAdvance(u, m) + HostGrant(m)
       <= setupSegmentCount(u.setup)
  /\ HostAdvance(u, m) = 1 => u.outstanding = u.acknowledged_count

Greater(a, b) == IF a > b THEN a ELSE b

HostAck(u, m) ==
  LET advance == HostAdvance(u, m)
      count == u.acknowledged_count + advance
      outstanding == IF advance = 1 THEN NotOutstanding ELSE u.outstanding
      fresh == u.state = "starting" \/ outstanding = NotOutstanding
  IN  [u EXCEPT
         !.acknowledged_count = count,
         !.granted_end = Greater(@, count + HostGrant(m)),
         !.outstanding = outstanding,
         !.last = IF fresh THEN NoMessage ELSE @,
         !.retry_count = IF fresh THEN 0 ELSE @,
         !.blocked = IF fresh THEN "No" ELSE @,
         !.state = IF count = setupSegmentCount(u.setup)
                   THEN "completed" ELSE "active"]

(* receive(): REJECT and ABORT raise in every state, also after the last   *)
(* segment was acknowledged.                                               *)
hostReceive(u, m) ==
  CASE m.type = "Reject" /\ m.session_id = u.setup.session_id ->
         [u EXCEPT !.state = "rejected"]
    [] m.type = "Abort" /\ m.session_id = u.setup.session_id ->
         [u EXCEPT !.state = "aborted"]
    [] m.type = "Ack" /\ HostTakesAck(u, m) -> HostAck(u, m)
    [] OTHER -> u

-----------------------------------------------------------------------------
(* CompactBitsReceiver.                                                    *)

InitialHostReceiver ==
  [state |-> "idle", setup |-> EmptySetup, segment_count |-> 0,
   contiguous_count |-> 0, granted_end |-> 0, received_bitmap |-> {},
   data |-> <<>>]

Smaller(a, b) == IF a < b THEN a ELSE b

hostAck(d) ==
  LET base == baseSequence(d.setup, d.contiguous_count)
  IN  AckMessage(d.setup.session_id, d.received_bitmap,
                 IF d.granted_end > d.contiguous_count
                   THEN sequenceFor(d.setup, d.granted_end - 1) ELSE base,
                 base)

HostAcks(d) == Returns(d, hostAck(d))

HostRefusal(setup) ==
  CASE \/ setup.segment_size = 0 \/ setup.final_segment_size = 0
       \/ setup.final_segment_size > setup.segment_size -> "InvalidArgument"
    [] setup.segment_size > HostMaximumSegment -> "UnsupportedSegmentSize"
    [] setupTotalSize(setup) > HostMaximumObject -> "ObjectTooLarge"
    [] OTHER -> "None"

HostBegins(setup) ==
  [state |-> "active", setup |-> setup,
   segment_count |-> setupSegmentCount(setup), contiguous_count |-> 0,
   granted_end |-> Smaller(setupSegmentCount(setup), kCompactWindowWidth),
   received_bitmap |-> {},
   data |-> [i \in 0 .. setup.final_segment_index |-> 0]]

receive_setup(d, setup) ==
  IF HostRefusal(setup) # "None"
  THEN Returns(d, RejectMessage(setup.session_id, HostRefusal(setup)))
  ELSE IF d.state = "active"
  THEN IF setup = d.setup THEN HostAcks(d)
       ELSE Returns(d, RejectMessage(setup.session_id, "Busy"))
  ELSE HostAcks(HostBegins(setup))

\* The loop that counts the low one bits of the bitmap.
LowRun(bitmap) ==
  CHOOSE n \in 0 .. kCompactWindowWidth :
    n \notin bitmap /\ \A offset \in 0 .. (n - 1) : offset \in bitmap

StoreSegment(d, m) ==
  LET bitmap == d.received_bitmap \cup {m.segment_index - d.contiguous_count}
      count == d.contiguous_count + LowRun(bitmap)
  IN  [d EXCEPT !.data[m.segment_index] = m.content,
                !.received_bitmap = ShiftRight(bitmap, LowRun(bitmap)),
                !.contiguous_count = count,
                !.granted_end =
                  Smaller(d.segment_count, count + kCompactWindowWidth),
                !.state = IF count = d.segment_count THEN "completed" ELSE @]

\* A segment the receiver has, or has not granted, is only acknowledged.
HostHolds(d, m) ==
  \/ d.state = "completed"
  \/ m.segment_index < d.contiguous_count
  \/ m.segment_index >= d.granted_end
  \/ m.segment_index - d.contiguous_count \in d.received_bitmap

receive_segment(d, m) ==
  IF \/ d.state \notin {"active", "completed"}
     \/ m.session_id # d.setup.session_id
     \/ m.segment_index >= d.segment_count
  THEN Returns(d, NoMessage)
  ELSE IF HostHolds(d, m) THEN HostAcks(d)
  ELSE IF m.size # SegmentSize(d.setup, m.segment_index) THEN Returns(d, NoMessage)
  ELSE HostAcks(StoreSegment(d, m))

hostReceiver(d, m) ==
  CASE m.type = "Setup" -> receive_setup(d, m.setup)
    [] m.type = "Segment" -> receive_segment(d, m)
    [] /\ m.type = "Probe" /\ d.state \in {"active", "completed"}
       /\ m.session_id = d.setup.session_id -> HostAcks(d)
    [] m.type = "Abort" /\ d.state = "active" /\ m.session_id = d.setup.session_id
         -> Returns([d EXCEPT !.state = "aborted"], NoMessage)
    [] OTHER -> Returns(d, NoMessage)

=============================================================================
