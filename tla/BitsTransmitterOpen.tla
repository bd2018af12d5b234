------------------------- MODULE BitsTransmitterOpen ------------------------
(***************************************************************************)
(* The transmitter's session against arbitrary traffic: any message of     *)
(* Answers may be in the datagram slot when process() runs, ACKs of an     *)
(* earlier transfer with the same identity and bodies that do not decode   *)
(* included.  Nothing is assumed of the peer, nor of the application's     *)
(* choice of session identifiers.                                          *)
(***************************************************************************)
EXTENDS BitsTransmitterSession

CONSTANTS Answers,    \* the messages that may be in the slot
          Requests    \* what the application may ask startTransfer for

AnsweringMessages ==
  [type : {"Ack"}, session_id : Nat, window_bitmap : SUBSET Offsets,
   max_receive_sequence : SequenceNumbers, window_base : SequenceNumbers]
    \cup [type : {"Reject"}, session_id : Nat, reason : RejectReasons]
    \cup [type : {"Abort"}, session_id : Nat]
    \cup [type : {"Malformed"}, kind : {"Ack", "Reject", "Abort"}, session_id : Nat]
    \cup {UserDatagram, NoMessage}

ASSUME AnswersAssumption == Answers \subseteq AnsweringMessages
ASSUME OpenRequestAssumption ==
  Requests \subseteq [session_id : Nat,
                      initial_sequence_number : SequenceNumbers,
                      object_size : Nat \ {0}, segment_size : Nat \ {0}]

VARIABLE session

SessionInit == session = InitialSession

SessionStarts(q) == Startable(session, q) /\ session' = startTransfer(q)

SessionPolls(m) == \E o \in SessionProcess(session, m) : session' = o.session

SessionAborts ==
  InTransfer(session) /\ \E o \in AbortTransfer(session) : session' = o.session

\* The clock passes the timeout of one running timer.
SetupExpires ==
  /\ session.state = "Starting" /\ session.setup_sent /\ ~session.setup_due
  /\ session' = [session EXCEPT !.setup_due = TRUE]

SegmentExpires ==
  /\ session.state = "Active"
  /\ \E offset \in Outstanding(session) \ session.due :
       session' = [session EXCEPT !.due = @ \cup {offset}]

ProbeExpires ==
  /\ session.state = "Active" /\ session.probe_timer_active /\ ~session.probe_due
  /\ session' = [session EXCEPT !.probe_due = TRUE]

SessionNext ==
  \/ \E q \in Requests : SessionStarts(q)
  \/ \E m \in Answers \cup {NoMessage} : SessionPolls(m)
  \/ SessionAborts
  \/ SetupExpires \/ SegmentExpires \/ ProbeExpires

SessionSpec == SessionInit /\ [][SessionNext]_session

-----------------------------------------------------------------------------
(* Invariants.                                                             *)

(* The session has its type.  In particular no retry counter passes        *)
(* max_retries, so the uint8_t that holds it never wraps (bits.cpp:598).   *)
SessionTypeOK == session \in Sessions

(* Every segment in the window lies within the grant, the grant within the *)
(* object and one window, and what is acknowledged was sent, whatever the  *)
(* peer answers (bits.cpp:284-297, 461-476).                               *)
SendsWithinGrant == WithinGrant(session)

(* A completed transfer had every segment taken by the local Link in this  *)
(* very transfer, also when its identity had an earlier life whose ACKs    *)
(* still arrive (bits.cpp:461-466).                                        *)
CompletionWasSent == CompletedWasSent(session)

(* No segment is sent more than once and max_retries times, whichever ACKs *)
(* slide the window under its retry counter (bits.cpp:308, 618-626).       *)
RetriesBounded == WithinRetries(session)

(* A transfer has at most one terminal callback, none while it runs, and   *)
(* one if it ended by protocol (bits.cpp:483-503, 646-652).                *)
TransmitterEndsOnce == SessionEndedOnce(session)

-----------------------------------------------------------------------------
(* Action properties.                                                      *)

(* Progress is never taken back: while a transfer is active, neither the   *)
(* acknowledged prefix nor the grant shrinks, and a segment acknowledged   *)
(* selectively stays acknowledged (bits.cpp:468-476).                      *)
ProgressIsKept ==
  [][(session.state = "Active" /\ session'.state = "Active") =>
       /\ session'.acknowledged_count >= session.acknowledged_count
       /\ session'.granted_end >= session.granted_end
       /\ \A offset \in session.acknowledged_bitmap :
            LET index == session.acknowledged_count + offset
            IN  \/ index < session'.acknowledged_count
                \/ index - session'.acknowledged_count
                     \in session'.acknowledged_bitmap]_session

=============================================================================
