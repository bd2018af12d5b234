------------------------- MODULE BitsReceiverEngine -------------------------
(***************************************************************************)
(* BitsReceiverEngine: the synchronous receiver state machine of           *)
(* transports/bits/receiver_engine.cpp, one operator per member function.  *)
(*                                                                         *)
(* An operator maps an engine record to the set of its outcomes: the next  *)
(* engine, and the PDUs a Link took during the call.  The set has one      *)
(* member for each answer the environment may give to the calls the        *)
(* function makes: Router::forward (LinkResults), the application's        *)
(* beginTransfer (Admissions) and its onSegment (SinkResults).             *)
(*                                                                         *)
(* Time is abstract.  The field expired says that inactivity_timeout_ms    *)
(* have passed since last_activity_ms: stamping the clock clears it, and   *)
(* the environment may set it at any later moment.                         *)
(***************************************************************************)
EXTENDS BitsProtocol

CONSTANTS
  ReceiveWindowWidth,   \* config_.receive_window_width, after the clamp
  MaximumObjectSize,    \* config_.maximum_object_size
  MaximumSegmentSize,   \* config_.maximum_segment_size
  Admissions,           \* what beginTransfer may answer
  SinkResults           \* what onSegment may answer

AllAdmissions == {"Accepted", "Busy", "TooLarge", "Rejected"}

ASSUME ReceiveWidthAssumption == ReceiveWindowWidth \in 0 .. kCompactWindowWidth
ASSUME LimitsAssumption ==
  MaximumObjectSize \in Nat /\ MaximumSegmentSize \in Nat
ASSUME ApplicationAssumption ==
  Admissions \subseteq AllAdmissions /\ SinkResults \subseteq BOOLEAN

ReceiverStates == {"Idle", "Active", "Completed", "Aborted", "Error"}

(* The engine's fields, and four that only the properties read: accepted   *)
(* and repeated are the segments onSegment was called for since            *)
(* beginTransfer, once and more than once; ended counts the terminal       *)
(* callbacks of the current transfer; completions and deliveries are the   *)
(* sessions and the <<session, index>> pairs the application ever got.     *)
InitialEngine ==
  [state |-> "Idle", setup |-> EmptySetup, segment_count |-> 0,
   contiguous_count |-> 0, granted_end |-> 0, receive_bitmap |-> {},
   expired |-> FALSE,
   accepted |-> {}, repeated |-> {}, ended |-> 0,
   completions |-> {}, deliveries |-> {}]

Outcome(engine, messages) == [engine |-> engine, out |-> messages]
Silent(engine) == {Outcome(engine, {})}

-----------------------------------------------------------------------------
(* Sending.                                                                *)

\* Fault: a transfer that has ended fails as well.
FailAlways(e) == [e EXCEPT !.state = "Error", !.ended = @ + 1]

\* fail(): only an active transfer fails, and the application hears it once.
Fail(e) ==
  IF e.state = "Active"
  THEN [e EXCEPT !.state = "Error", !.ended = @ + 1]
  ELSE e

(* sendPrepared(): a full Link counts as sent, and the peer's own retry    *)
(* asks for the answer again.  A partial fan-out did reach the wire, yet   *)
(* it is a failure.                                                        *)
Send(e, message, failed) ==
  {Outcome(IF result \in {"Sent", "Full"} THEN e ELSE failed,
           IF result \in {"Sent", "Partial"} THEN {message} ELSE {})
     : result \in LinkResults}

\* Fault: base and grant are the next sequence numbers, one too far each.
AckOfNext(e) ==
  AckMessage(e.setup.session_id,
             e.receive_bitmap \cap lowBitMask(e.granted_end - e.contiguous_count),
             sequenceFor(e.setup, e.granted_end),
             sequenceFor(e.setup, e.contiguous_count))

CurrentAck(e) ==
  LET base == baseSequence(e.setup, e.contiguous_count)
  IN  AckMessage(e.setup.session_id,
                 e.receive_bitmap
                   \cap lowBitMask(e.granted_end - e.contiguous_count),
                 IF e.granted_end > e.contiguous_count
                   THEN sequenceFor(e.setup, e.granted_end - 1) ELSE base,
                 base)

sendAck(e) == Send(e, CurrentAck(e), Fail(e))

sendReject(e, session, reason) == Send(e, RejectMessage(session, reason), e)

-----------------------------------------------------------------------------
(* Segments.                                                               *)

Lesser(a, b) == IF a < b THEN a ELSE b

\* Fault: the whole object is granted, whatever storage there is.
GrantWhole(e) == [e EXCEPT !.granted_end = e.segment_count]

(* updateGrant(): grant while the object, the window and the unreceived    *)
(* part of the window leave room.                                          *)
UpdateGrant(e) ==
  LET span == e.granted_end - e.contiguous_count
      unreceived == span - Cardinality(e.receive_bitmap \cap lowBitMask(span))
      room == Lesser(e.segment_count - e.granted_end,
                     Lesser(ReceiveWindowWidth - span,
                            ReceiveWindowWidth - unreceived))
  IN  [e EXCEPT !.granted_end = IF room > 0 THEN @ + room ELSE @]

\* How many segments the bitmap adds to the contiguous prefix.
ContiguousRun(bitmap) ==
  CHOOSE n \in 0 .. kCompactWindowWidth :
    /\ n \notin bitmap
    /\ \A offset \in 0 .. (n - 1) : offset \in bitmap

\* Fault: complete as soon as everything is granted.
CompleteWhenGranted(e) ==
  IF e.granted_end = e.segment_count
  THEN [e EXCEPT !.state = "Completed", !.ended = @ + 1,
                 !.completions = @ \cup {e.setup.session_id}]
  ELSE e

Complete(e) ==
  IF e.contiguous_count = e.segment_count
  THEN [e EXCEPT !.state = "Completed", !.ended = @ + 1,
                 !.completions = @ \cup {e.setup.session_id}]
  ELSE e

\* Mark the segment in the window and slide the window over the prefix.
Slide(e, index) ==
  LET bitmap == e.receive_bitmap \cup {index - e.contiguous_count}
      run == ContiguousRun(bitmap)
  IN  [e EXCEPT !.receive_bitmap = ShiftRight(bitmap, run),
                !.contiguous_count = @ + run,
                !.accepted = @ \cup {index},
                !.repeated = IF index \in e.accepted THEN @ \cup {index} ELSE @,
                !.deliveries = @ \cup {<<e.setup.session_id, index>>}]

(* What an accepted segment makes of the engine: slide, grant, complete.   *)
(* The one-member sets name the intermediate engines.                      *)
Accept(e, index) ==
  {Complete(granted)
     : granted \in {UpdateGrant(slid) : slid \in {Slide(e, index)}}}

\* Fault: the receive bitmap is not consulted.
AcceptableAgain(e, index) ==
  /\ e.state # "Completed"
  /\ index >= e.contiguous_count
  /\ index < e.granted_end
  /\ index - e.contiguous_count < ReceiveWindowWidth

\* The segment is new, inside the grant and inside the window.
Acceptable(e, index) ==
  /\ e.state # "Completed"
  /\ index >= e.contiguous_count
  /\ index < e.granted_end
  /\ index - e.contiguous_count < ReceiveWindowWidth
  /\ index - e.contiguous_count \notin e.receive_bitmap

\* Fault: a segment received before is dropped without an ACK.
DropRepeated(e, m) ==
  IF \/ e.state \notin {"Active", "Completed"}
     \/ m.session_id # e.setup.session_id
     \/ m.size # SegmentSize(e.setup, m.segment_index)
     \/ ~Acceptable(e, m.segment_index)
  THEN Silent(e)
  ELSE UNION {sendAck(next) : next \in Accept(e, m.segment_index)}

handleSegment(e, m) ==
  LET renewed == [e EXCEPT !.expired = IF m.segment_index < e.granted_end
                                         THEN FALSE ELSE @]
  IN  IF \/ e.state \notin {"Active", "Completed"}
         \/ m.session_id # e.setup.session_id
         \/ m.segment_index >= e.segment_count
         \/ m.size # SegmentSize(e.setup, m.segment_index)
      THEN Silent(e)
      ELSE IF ~Acceptable(e, m.segment_index)
      THEN sendAck(renewed)
      ELSE UNION {IF taken THEN sendAck(next) ELSE Silent(Fail(renewed))
                    : taken \in SinkResults,
                      next \in Accept(renewed, m.segment_index)}

-----------------------------------------------------------------------------
(* Control messages.                                                       *)

\* The accepted transfer replaces whatever the engine held before.
Begin(e, requested) ==
  UpdateGrant([e EXCEPT !.state = "Active", !.setup = requested,
                        !.segment_count = setupSegmentCount(requested),
                        !.contiguous_count = 0, !.granted_end = 0,
                        !.receive_bitmap = {}, !.expired = FALSE,
                        !.accepted = {}, !.repeated = {}, !.ended = 0])

AdmissionReason(admission) ==
  CASE admission = "Busy" -> "Busy"
    [] admission = "TooLarge" -> "ObjectTooLarge"
    [] OTHER -> "InvalidArgument"

\* Why the request is refused before the application is asked, if it is.
SetupRefusal(requested) ==
  CASE \/ requested.segment_size = 0
       \/ requested.final_segment_size = 0
       \/ requested.final_segment_size > requested.segment_size
         -> "InvalidArgument"
    [] setupTotalSize(requested) > MaximumObjectSize -> "ObjectTooLarge"
    [] \/ ReceiveWindowWidth = 0
       \/ requested.segment_size > MaximumSegmentSize
         -> "UnsupportedSegmentSize"
    [] OTHER -> "None"

\* Fault: any acceptable SETUP begins a transfer, also during another one.
RestartOnSetup(e, requested) ==
  IF SetupRefusal(requested) # "None" THEN Silent(e)
  ELSE UNION {sendAck(begun) : begun \in {Begin(e, requested)}}

handleSetup(e, requested) ==
  IF SetupRefusal(requested) # "None"
  THEN sendReject(e, requested.session_id, SetupRefusal(requested))
  ELSE IF e.state = "Active"
  THEN IF requested = e.setup THEN sendAck([e EXCEPT !.expired = FALSE])
       ELSE sendReject(e, requested.session_id, "Busy")
  ELSE UNION {IF admission = "Accepted" THEN sendAck(begun)
              ELSE sendReject(e, requested.session_id,
                              AdmissionReason(admission))
                : admission \in Admissions, begun \in {Begin(e, requested)}}

handleProbe(e, m) ==
  IF e.state \in {"Active", "Completed"} /\ m.session_id = e.setup.session_id
  THEN sendAck([e EXCEPT !.expired = FALSE])
  ELSE Silent(e)

\* Fault: the state is not consulted.
AbortInAnyState(e, m) ==
  IF m.session_id = e.setup.session_id
  THEN Silent([e EXCEPT !.state = "Aborted", !.ended = @ + 1])
  ELSE Silent(e)

handleAbort(e, m) ==
  IF e.state = "Active" /\ m.session_id = e.setup.session_id
  THEN Silent([e EXCEPT !.state = "Aborted", !.ended = @ + 1])
  ELSE Silent(e)

(* handleControl(), handleSegment() behind the decoders.  Only a SETUP     *)
(* whose body does not decode is answered, if it has a session byte; every *)
(* other malformed or misdirected message leaves the engine as it is.      *)
Handle(e, m) ==
  CASE m.type = "Segment" -> handleSegment(e, m)
    [] m.type = "Setup"   -> handleSetup(e, m.setup)
    [] m.type = "Probe"   -> handleProbe(e, m)
    [] m.type = "Abort"   -> handleAbort(e, m)
    [] m.type = "Malformed" /\ m.kind = "Setup"
         -> sendReject(e, m.session_id, "InvalidArgument")
    [] OTHER -> Silent(e)

-----------------------------------------------------------------------------
(* The engine's entry points.                                              *)

Expired(e) == e.state = "Active" /\ e.expired

\* Fault: expiry is noticed and nothing is released.
PollWithoutRelease(e) == e

\* poll(): an expired transfer fails locally, without a packet.
poll(e) == IF Expired(e) THEN Fail(e) ELSE e

\* process(): expiry discards the PDU that found it.
EngineProcess(e, m) == IF Expired(e) THEN Silent(Fail(e)) ELSE Handle(e, m)

\* abort(): the transfer ends whether or not a Link takes the ABORT.
EngineAbort(e) ==
  LET ended == [e EXCEPT !.state = "Aborted", !.ended = @ + 1]
  IN  Send(ended, AbortMessage(e.setup.session_id), ended)

-----------------------------------------------------------------------------
(* What every reachable engine satisfies, whatever packets it is given.    *)

Engines ==
  [state : ReceiverStates, setup : Setups, segment_count : Nat,
   contiguous_count : Nat, granted_end : Nat, receive_bitmap : SUBSET Offsets,
   expired : BOOLEAN, accepted : SUBSET Nat, repeated : SUBSET Nat,
   ended : Nat, completions : SUBSET Nat, deliveries : SUBSET (Nat \X Nat)]

(* The grant never exceeds the object or the storage behind it, and every  *)
(* selective receipt lies inside the grant (BTR-6).                        *)
GrantIsBacked(e) ==
  /\ e.contiguous_count <= e.granted_end
  /\ e.granted_end <= e.segment_count
  /\ e.granted_end <= e.contiguous_count + ReceiveWindowWidth
  /\ \A offset \in e.receive_bitmap :
       offset > 0 /\ e.contiguous_count + offset < e.granted_end

(* onSegment is called at most once for a segment of a transfer, and the   *)
(* window holds exactly the segments it was called for (BTR-3, BTR-4).     *)
DeliveredOnce(e) ==
  /\ e.repeated = {}
  /\ e.accepted = {i \in 0 .. (e.segment_count - 1) :
                     \/ i < e.contiguous_count
                     \/ i - e.contiguous_count \in e.receive_bitmap}

(* A transfer the application admitted ends with exactly one of its three  *)
(* terminal callbacks, and with none before it ends.                       *)
EndedOnce(e) ==
  e.ended = IF e.state \in {"Completed", "Aborted", "Error"} THEN 1 ELSE 0

\* A transfer is complete exactly when its prefix is the whole object.
CompleteWhenWhole(e) ==
  /\ e.state = "Active" => e.contiguous_count < e.segment_count
  /\ e.state = "Completed" => e.contiguous_count = e.segment_count

=============================================================================
