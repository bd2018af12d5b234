----------------------- MODULE BitsTransmitterSession -----------------------
(***************************************************************************)
(* BitsTransmitter's TransferSession (transports/bits/bits.cpp), one       *)
(* operator per member function.  As in BitsReceiverEngine, an operator    *)
(* that sends returns the set of its outcomes, one for each answer of      *)
(* Router::forward.                                                        *)
(*                                                                         *)
(* A timer is the fact that its timeout has passed since its stamp:        *)
(* setup_due, probe_due and, per window offset, due.  Stamping clears the  *)
(* fact, the environment sets it at any later moment.                      *)
(***************************************************************************)
EXTENDS BitsProtocol

CONSTANTS
  MaximumPayload,     \* segment bytes that fit transmit_packet
  MaximumSegments     \* kMaximumCompactSegmentCount: 65536 in the code

ASSUME CapacityAssumption == MaximumPayload \in Nat /\ MaximumSegments \in Nat

SegmentIndices == 0 .. (MaximumSegments - 1)

TransmitterStates == {"Idle", "Starting", "Active", "Completed", "Rejected",
                      "Aborted", "Error"}

(* The session's fields; admitted, how often a Link took each segment of   *)
(* this transfer, and ended, its terminal callbacks, are read by           *)
(* properties only.                                                        *)
InitialSession ==
  [state |-> "Idle", setup |-> EmptySetup, segment_count |-> 0,
   acknowledged_count |-> 0, granted_end |-> 0,
   sent_bitmap |-> {}, acknowledged_bitmap |-> {},
   setup_sent |-> FALSE, setup_due |-> FALSE, setup_retry_count |-> 0,
   due |-> {}, segment_retry_count |-> [offset \in Offsets |-> 0],
   probe_timer_active |-> FALSE, probe_due |-> FALSE, probe_retry_count |-> 0,
   admitted |-> [index \in SegmentIndices |-> 0], ended |-> 0]

TxOutcome(session, messages) == [session |-> session, out |-> messages]
Quiet(session) == {TxOutcome(session, {})}

-----------------------------------------------------------------------------
(* startTransfer().                                                        *)

InTransfer(t) == t.state \in {"Starting", "Active"}

segmentCount(total, size) ==
  (total \div size) + (IF total % size = 0 THEN 0 ELSE 1)

\* A request [session_id, initial_sequence_number, object_size, segment_size].
SetupOf(q) ==
  LET last == segmentCount(q.object_size, q.segment_size) - 1
  IN  [session_id |-> q.session_id,
       initial_sequence_number |-> q.initial_sequence_number,
       final_segment_index |-> last, segment_size |-> q.segment_size,
       final_segment_size |-> q.object_size - last * q.segment_size]

\* startTransfer answers kStarted rather than one of its refusals.
Startable(t, q) ==
  /\ ~InTransfer(t)
  /\ q.object_size > 0 /\ q.segment_size > 0
  /\ segmentCount(q.object_size, q.segment_size) \in 1 .. MaximumSegments
  /\ q.segment_size <= MaximumPayload

startTransfer(q) ==
  [InitialSession EXCEPT
     !.state = "Starting", !.setup = SetupOf(q),
     !.segment_count = segmentCount(q.object_size, q.segment_size)]

-----------------------------------------------------------------------------
(* Ingress: handleDatagram() and the handlers behind it.                   *)

\* Fault: the retry counters stay where they were.
ShiftForgetsRetries(t, count) ==
  [t EXCEPT !.sent_bitmap = ShiftRight(@, count), !.due = ShiftRight(@, count),
            !.acknowledged_bitmap = ShiftRight(@, count)]

\* Fault: the selective acknowledgments stay where they were.
ShiftForgetsAcks(t, count) ==
  [t EXCEPT !.sent_bitmap = ShiftRight(@, count), !.due = ShiftRight(@, count)]

shiftWindow(t, count) ==
  [t EXCEPT !.sent_bitmap = ShiftRight(@, count),
            !.acknowledged_bitmap = ShiftRight(@, count),
            !.due = ShiftRight(@, count),
            !.segment_retry_count =
              [offset \in Offsets |-> IF offset + count \in Offsets
                 THEN t.segment_retry_count[offset + count] ELSE 0]]

Advance(t, m) ==
  SequenceDistance(baseSequence(t.setup, t.acknowledged_count), m.window_base)

GrantSpan(m) == SequenceDistance(m.window_base, m.max_receive_sequence)

\* Fault: an ACK may cover segments no Link has taken.
AckOfUnsent(t, m) ==
  /\ Advance(t, m) <= kCompactWindowWidth
  /\ GrantSpan(m) <= kCompactWindowWidth
  /\ t.acknowledged_count + Advance(t, m) + GrantSpan(m) <= t.segment_count
  /\ m.window_bitmap \subseteq lowBitMask(GrantSpan(m))

\* The ACK fits the window and covers only segments a Link has taken.
PlausibleAck(t, m) ==
  /\ Advance(t, m) <= kCompactWindowWidth
  /\ GrantSpan(m) <= kCompactWindowWidth
  /\ t.acknowledged_count + Advance(t, m) + GrantSpan(m) <= t.segment_count
  /\ m.window_bitmap \subseteq lowBitMask(GrantSpan(m))
  /\ lowBitMask(Advance(t, m)) \subseteq t.sent_bitmap

\* Fault: the transfer counts as complete once everything is granted.
CompleteOnGrant(t, m) ==
  LET count == t.acknowledged_count + Advance(t, m)
      done == count + GrantSpan(m) = t.segment_count
  IN  [shiftWindow(t, Advance(t, m)) EXCEPT
         !.acknowledged_count = count, !.granted_end = count + GrantSpan(m),
         !.state = IF done THEN "Completed" ELSE "Active",
         !.ended = IF done THEN @ + 1 ELSE @]

\* Fault: an older ACK takes back what a newer one granted.
GrantTakenBack(t, m) ==
  [shiftWindow(t, Advance(t, m)) EXCEPT
     !.acknowledged_count = @ + Advance(t, m),
     !.granted_end = t.acknowledged_count + Advance(t, m) + GrantSpan(m),
     !.state = "Active"]

\* What an ACK that passed the checks does to the session.
ApplyAck(t, m) ==
  LET shifted == shiftWindow(t, Advance(t, m))
      count == t.acknowledged_count + Advance(t, m)
      end == count + GrantSpan(m)
      done == count = t.segment_count
  IN  [shifted EXCEPT
         !.acknowledged_count = count,
         !.acknowledged_bitmap =
           @ \cup (m.window_bitmap \cap shifted.sent_bitmap),
         !.granted_end = IF end > @ THEN end ELSE @,
         !.probe_timer_active = FALSE, !.probe_retry_count = 0,
         !.state = IF done THEN "Completed" ELSE "Active",
         !.ended = IF done THEN @ + 1 ELSE @]

\* Fault: the session of the ACK is not compared.
AckOfAnySession(t, m) ==
  IF InTransfer(t) /\ t.setup_sent /\ PlausibleAck(t, m) THEN ApplyAck(t, m) ELSE t

handleAck(t, m) ==
  IF /\ InTransfer(t)
     /\ m.session_id = t.setup.session_id
     /\ t.setup_sent
     /\ PlausibleAck(t, m)
  THEN ApplyAck(t, m)
  ELSE t

\* A REJECT is applied while Starting and while Active alike.
handleReject(t, m) ==
  IF InTransfer(t) /\ m.session_id = t.setup.session_id
  THEN [t EXCEPT !.state = "Rejected", !.ended = @ + 1]
  ELSE t

transitionToAborted(t) ==
  IF t.state = "Aborted" THEN t
  ELSE [t EXCEPT !.state = "Aborted", !.ended = @ + 1]

\* Fault: an ABORT is applied to a transfer that has ended.
PeerAbortInAnyState(t, m) ==
  IF m.session_id = t.setup.session_id THEN transitionToAborted(t) ELSE t

handlePeerAbort(t, m) ==
  IF InTransfer(t) /\ m.session_id = t.setup.session_id
  THEN transitionToAborted(t)
  ELSE t

\* A body that does not decode stops the session, without a callback.
handleDatagram(t, m) ==
  CASE m.type = "Ack"    -> handleAck(t, m)
    [] m.type = "Reject" -> handleReject(t, m)
    [] m.type = "Abort"  -> handlePeerAbort(t, m)
    [] m.type = "Malformed" -> [t EXCEPT !.state = "Error"]
    [] OTHER -> t

-----------------------------------------------------------------------------
(* Egress.                                                                 *)

(* forwardPacket(): a full Link leaves the session as it was, so the next  *)
(* call tries again; any other failure stops the session, a fan-out that   *)
(* reached some of its Links included.                                     *)
Forward(t, message, taken) ==
  {TxOutcome(CASE result = "Sent" -> taken
               [] result = "Full" -> t
               [] OTHER -> [t EXCEPT !.state = "Error"],
             IF result \in {"Sent", "Partial"} THEN {message} ELSE {})
     : result \in LinkResults}

sendSetup(t, retransmission) ==
  Forward(t, SetupMessage(t.setup),
          [t EXCEPT !.setup_sent = TRUE, !.setup_due = FALSE,
                    !.setup_retry_count = IF retransmission THEN @ + 1 ELSE @])

\* Fault: a retransmission does not count.
RetransmitUncounted(t, offset, retransmission) ==
  Forward(t, SegmentMessage(t.setup, t.acknowledged_count + offset),
          [t EXCEPT !.sent_bitmap = @ \cup {offset}, !.due = @ \ {offset},
                    !.probe_timer_active = FALSE])

sendSegment(t, offset, retransmission) ==
  LET index == t.acknowledged_count + offset
  IN  Forward(t, SegmentMessage(t.setup, index),
              [t EXCEPT !.sent_bitmap = @ \cup {offset},
                        !.due = @ \ {offset},
                        !.segment_retry_count[offset] =
                          IF retransmission THEN @ + 1 ELSE 0,
                        !.probe_timer_active = FALSE,
                        !.admitted[index] = @ + 1])

sendProbe(t) ==
  Forward(t, ProbeMessage(t.setup.session_id),
          [t EXCEPT !.probe_due = FALSE, !.probe_retry_count = @ + 1])

(* sendAbort() and transitionToAborted(), from abort() and from the three  *)
(* retry limits: the transfer ends whether or not a Link takes the ABORT.  *)
AbortTransfer(t) ==
  {TxOutcome(transitionToAborted(t),
             IF result \in {"Sent", "Partial"}
               THEN {AbortMessage(t.setup.session_id)} ELSE {})
     : result \in LinkResults}

retryLimitReached(count) == count >= MaxRetries

StartingStep(t) ==
  CASE ~t.setup_sent -> sendSetup(t, FALSE)
    [] t.setup_sent /\ t.setup_due ->
         IF retryLimitReached(t.setup_retry_count) THEN AbortTransfer(t)
                                                   ELSE sendSetup(t, TRUE)
    [] OTHER -> Quiet(t)

Window(t) == lowBitMask(t.granted_end - t.acknowledged_count)
Unsent(t) == Window(t) \ t.sent_bitmap
Outstanding(t) == (t.sent_bitmap \ t.acknowledged_bitmap) \cap Window(t)
Overdue(t) == Outstanding(t) \cap t.due

First(offsets) == CHOOSE o \in offsets : \A p \in offsets : o <= p

RetransmitStep(t, offset) ==
  IF retryLimitReached(t.segment_retry_count[offset])
  THEN AbortTransfer(t) ELSE sendSegment(t, offset, TRUE)

ProbeStep(t) ==
  CASE ~t.probe_timer_active ->
         Quiet([t EXCEPT !.probe_timer_active = TRUE, !.probe_due = FALSE])
    [] t.probe_timer_active /\ t.probe_due ->
         IF retryLimitReached(t.probe_retry_count) THEN AbortTransfer(t)
                                                   ELSE sendProbe(t)
    [] OTHER -> Quiet(t)

\* New segments first, then retransmissions, then the probe of an idle window.
ActiveStep(t) ==
  CASE Unsent(t) # {} -> sendSegment(t, First(Unsent(t)), FALSE)
    [] Unsent(t) = {} /\ Overdue(t) # {} -> RetransmitStep(t, First(Overdue(t)))
    [] /\ Unsent(t) = {} /\ Overdue(t) = {}
       /\ Outstanding(t) = {} /\ t.acknowledged_count < t.segment_count
         -> ProbeStep(t)
    [] OTHER -> Quiet([t EXCEPT !.probe_timer_active = FALSE,
                                !.probe_retry_count = 0])

Step(t) ==
  CASE t.state = "Starting" -> StartingStep(t)
    [] t.state = "Active"   -> ActiveStep(t)
    [] OTHER -> Quiet(t)

\* process(): the retained datagram first, then at most one send.
SessionProcess(t, m) ==
  UNION {Step(handled) : handled \in {handleDatagram(t, m)}}

-----------------------------------------------------------------------------
(* What every reachable session satisfies, whatever packets it is given.   *)

Sessions ==
  [state : TransmitterStates, setup : Setups, segment_count : Nat,
   acknowledged_count : Nat, granted_end : Nat,
   sent_bitmap : SUBSET Offsets, acknowledged_bitmap : SUBSET Offsets,
   setup_sent : BOOLEAN, setup_due : BOOLEAN, setup_retry_count : 0 .. MaxRetries,
   due : SUBSET Offsets, segment_retry_count : [Offsets -> 0 .. MaxRetries],
   probe_timer_active : BOOLEAN, probe_due : BOOLEAN,
   probe_retry_count : 0 .. MaxRetries,
   admitted : [SegmentIndices -> Nat], ended : Nat]

(* The transmitter never has a segment in the window that was not granted, *)
(* and a grant never runs past the object (bits.cpp:284-297, 473-476).     *)
WithinGrant(t) ==
  /\ t.acknowledged_count <= t.granted_end
  /\ t.granted_end <= t.segment_count
  /\ t.granted_end <= t.acknowledged_count + kCompactWindowWidth
  /\ t.sent_bitmap \subseteq Window(t)
  /\ t.acknowledged_bitmap \subseteq t.sent_bitmap

(* Completion needs every segment to have been taken by the local Link in  *)
(* this very transfer, also when its session identifier had an earlier     *)
(* life whose ACKs still arrive (the comment at bits.cpp:461-462).         *)
CompletedWasSent(t) ==
  t.state = "Completed" =>
    \A index \in 0 .. (t.segment_count - 1) : t.admitted[index] > 0

(* No segment is sent more often than once and max_retries times: the      *)
(* retry counters follow their segments when the window slides, whichever  *)
(* ACK slides it (bits.cpp:308, 562-566, 618-626).                         *)
WithinRetries(t) ==
  \A index \in SegmentIndices : t.admitted[index] <= 1 + MaxRetries

(* A transfer has at most one terminal callback, none while it runs, and   *)
(* one if it ended by protocol.                                            *)
SessionEndedOnce(t) ==
  /\ t.ended <= 1
  /\ InTransfer(t) => t.ended = 0
  /\ t.state \in {"Completed", "Rejected", "Aborted"} => t.ended = 1

=============================================================================
