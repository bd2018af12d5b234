---------------------------- MODULE BitsTransfer ----------------------------
(***************************************************************************)
(* A BITS transmitter and a BITS receiver over the least reliable network  *)
(* there is: whatever a Link ever took may be handed to the peer at any    *)
(* later time, any number of times, in any order, or never.  txSent and    *)
(* rxSent are therefore the sets of PDUs ever sent, and losing, delaying,  *)
(* duplicating or reordering one needs no action of its own.               *)
(*                                                                         *)
(* The single-packet ingress slots of the endpoints only delay a PDU the   *)
(* network could have delayed itself, so process() here draws its input    *)
(* from the network; BitsEndpoints models the slots.                       *)
(***************************************************************************)
EXTENDS BitsReceiverEngine, BitsTransmitterSession

CONSTANTS
  Requests,           \* what the application may ask startTransfer for
  InactivityTimeout,  \* FALSE: inactivity_timeout_ms is 0, no expiry
  LocalAborts         \* TRUE: the applications may call abort()

ASSUME RequestAssumption ==
  Requests \subseteq [session_id : Nat,
                      initial_sequence_number : SequenceNumbers,
                      object_size : Nat \ {0}, segment_size : Nat \ {0}]
ASSUME SwitchAssumption ==
  InactivityTimeout \in BOOLEAN /\ LocalAborts \in BOOLEAN

VARIABLES
  tx,       \* the transmitter's session
  rx,       \* the receiver's engine
  txSent,   \* PDUs the transmitter's Link took
  rxSent,   \* PDUs the receiver's Link took
  used      \* session identifiers already given to a transfer

vars == <<tx, rx, txSent, rxSent, used>>

Init ==
  /\ tx = InitialSession
  /\ rx = InitialEngine
  /\ txSent = {} /\ rxSent = {}
  /\ used = {}

-----------------------------------------------------------------------------
(* The transmitter.                                                        *)

(* The application starts a transfer.  It does not reuse the identity of   *)
(* a transfer whose packets can still arrive, as api_notes.md asks.        *)
StartTransfer(q) ==
  /\ Startable(tx, q)
  /\ q.session_id \notin used
  /\ tx' = startTransfer(q)
  /\ used' = used \cup {q.session_id}
  /\ UNCHANGED <<rx, txSent, rxSent>>

\* BitsTransmitter::process with m, or nothing, in its datagram slot.
TransmitterProcess ==
  \E m \in rxSent \cup {NoMessage} :
    \E o \in SessionProcess(tx, m) :
      /\ tx' = o.session
      /\ txSent' = txSent \cup o.out
      /\ UNCHANGED <<rx, rxSent, used>>

\* BitsTransmitter::abort.
TransmitterAbort ==
  /\ LocalAborts
  /\ InTransfer(tx)
  /\ \E o \in AbortTransfer(tx) :
       /\ tx' = o.session
       /\ txSent' = txSent \cup o.out
       /\ UNCHANGED <<rx, rxSent, used>>

\* The clock passes the timeout of one running timer.
SetupTimeout ==
  /\ tx.state = "Starting" /\ tx.setup_sent /\ ~tx.setup_due
  /\ tx' = [tx EXCEPT !.setup_due = TRUE]
  /\ UNCHANGED <<rx, txSent, rxSent, used>>

SegmentTimeout ==
  /\ tx.state = "Active"
  /\ \E offset \in Outstanding(tx) \ tx.due :
       tx' = [tx EXCEPT !.due = @ \cup {offset}]
  /\ UNCHANGED <<rx, txSent, rxSent, used>>

ProbeTimeout ==
  /\ tx.state = "Active" /\ tx.probe_timer_active /\ ~tx.probe_due
  /\ tx' = [tx EXCEPT !.probe_due = TRUE]
  /\ UNCHANGED <<rx, txSent, rxSent, used>>

-----------------------------------------------------------------------------
(* The receiver.                                                           *)

Segments == {m \in txSent : m.type = "Segment"}
Controls == {m \in txSent : m.type # "Segment"}

(* BitsReceiver::process with at most one segment and one datagram in its  *)
(* slots.  Expiry is looked at first and empties the slots; then the       *)
(* segment is handled, and the datagram after it.                          *)
ReceiverOutcomes(segment, datagram) ==
  IF Expired(rx) THEN Silent(poll(rx))
  ELSE UNION {{Outcome(second.engine, first.out \cup second.out)
                 : second \in EngineProcess(first.engine, datagram)}
              : first \in EngineProcess(rx, segment)}

ReceiverProcess ==
  \E segment \in Segments \cup {NoMessage}, datagram \in Controls \cup {NoMessage} :
    \E o \in ReceiverOutcomes(segment, datagram) :
      /\ rx' = o.engine
      /\ rxSent' = rxSent \cup o.out
      /\ UNCHANGED <<tx, txSent, used>>

\* BitsReceiver::abort.
ReceiverAbort ==
  /\ LocalAborts
  /\ rx.state = "Active"
  /\ \E o \in EngineAbort(rx) :
       /\ rx' = o.engine
       /\ rxSent' = rxSent \cup o.out
       /\ UNCHANGED <<tx, txSent, used>>

InactivityElapses ==
  /\ InactivityTimeout
  /\ rx.state = "Active" /\ ~rx.expired
  /\ rx' = [rx EXCEPT !.expired = TRUE]
  /\ UNCHANGED <<tx, txSent, rxSent, used>>

-----------------------------------------------------------------------------

Next ==
  \/ \E q \in Requests : StartTransfer(q)
  \/ TransmitterProcess \/ TransmitterAbort
  \/ SetupTimeout \/ SegmentTimeout \/ ProbeTimeout
  \/ ReceiverProcess \/ ReceiverAbort \/ InactivityElapses

Spec == Init /\ [][Next]_vars

-----------------------------------------------------------------------------
(* Safety.                                                                 *)

(* What the transmitter takes as received, by a cumulative or by a         *)
(* selective acknowledgment, the receiver's sink has accepted: it will     *)
(* never be sent again, so anything else would be a hole in the object     *)
(* (bits.cpp:468-474).                                                     *)
AckedWasDelivered ==
  \A i \in 0 .. (tx.segment_count - 1) :
    (\/ i < tx.acknowledged_count
     \/ i - tx.acknowledged_count \in tx.acknowledged_bitmap)
      => <<tx.setup.session_id, i>> \in rx.deliveries

(* A transfer the transmitter reports complete was reported complete by    *)
(* the receiver to its application first (bits.cpp:483-485).               *)
CompletionIsTrue ==
  tx.state = "Completed" => tx.setup.session_id \in rx.completions

=============================================================================
