---------------------------- MODULE BitsEndpoints ---------------------------
(***************************************************************************)
(* BitsTransmitter and BitsReceiver as the Dispatcher drives them: packets *)
(* travel over two bounded channels, receive() retains one in an ingress   *)
(* slot or drops it, and a later process() takes it from there             *)
(* (transports/bits/bits.cpp).                                             *)
(*                                                                         *)
(* The channels are what the Links and the wire between them make of a     *)
(* packet: in order unless Reordering, and losing or repeating at most     *)
(* MaxDisturbances of them.  tx, rx, txSent, rxSent and used are those of  *)
(* BitsTransfer, and every step here is a step of that specification.      *)
(***************************************************************************)
EXTENDS BitsTransfer, SequencesExt

CONSTANTS
  ChannelCapacity,   \* packets under way in one direction; more are lost
  Reordering,        \* TRUE: a channel may deliver any of its packets next
  MaxDisturbances,   \* losses, duplicates and sideband datagrams in a run
  PatientTimers      \* TRUE: timeouts exceed the round trip, see Settled

ASSUME ChannelAssumption ==
  /\ ChannelCapacity \in Nat \ {0} /\ MaxDisturbances \in Nat
  /\ Reordering \in BOOLEAN /\ PatientTimers \in BOOLEAN

VARIABLES
  txDatagram,     \* the transmitter's datagram_ingress
  rxDatagram,     \* the receiver's datagram_ingress
  rxSegments,     \* the receiver's segment_ingress
  toRx, toTx,     \* the channels
  disturbances    \* how many of MaxDisturbances have happened

ingress == <<txDatagram, rxDatagram, rxSegments>>
channels == <<toRx, toTx>>
endpointVars == <<vars, ingress, channels, disturbances>>

\* One slot per packet of the window: the window is as wide as the storage.
Slots == 0 .. (ReceiveWindowWidth - 1)
EmptySlots == [slot \in Slots |-> NoMessage]

EndpointInit ==
  /\ Init
  /\ txDatagram = NoMessage /\ rxDatagram = NoMessage
  /\ rxSegments = EmptySlots
  /\ toRx = <<>> /\ toTx = <<>>
  /\ disturbances = 0

-----------------------------------------------------------------------------
(* receive(): retain the packet, or answer kFull and leave it.             *)

RetainDatagram(slot, m) == IF slot = NoMessage THEN m ELSE slot

FreeSlots(slots) == {slot \in Slots : slots[slot] = NoMessage}
UsedSlots(slots) == Slots \ FreeSlots(slots)

RetainSegment(slots, m) ==
  IF FreeSlots(slots) = {} THEN slots
  ELSE [slots EXCEPT ![First(FreeSlots(slots))] = m]

ReceiverReceive(m) ==
  IF m.type = "Segment"
  THEN /\ rxSegments' = RetainSegment(rxSegments, m)
       /\ UNCHANGED rxDatagram
  ELSE /\ rxDatagram' = RetainDatagram(rxDatagram, m)
       /\ UNCHANGED rxSegments

TransmitterReceive(m) == txDatagram' = RetainDatagram(txDatagram, m)

-----------------------------------------------------------------------------
(* The channels.                                                           *)

\* A Link took the messages, at most one; a channel at its limit loses it.
Push(channel, messages) ==
  IF messages = {} \/ Len(channel) >= ChannelCapacity THEN channel
  ELSE Append(channel, CHOOSE m \in messages : TRUE)

Deliverable(channel) ==
  {i \in DOMAIN channel : Reordering \/ i = 1}

DeliverToReceiver ==
  /\ \E i \in Deliverable(toRx) :
       /\ ReceiverReceive(toRx[i])
       /\ toRx' = RemoveAt(toRx, i)
  /\ UNCHANGED <<vars, txDatagram, toTx, disturbances>>

DeliverToTransmitter ==
  /\ \E i \in Deliverable(toTx) :
       /\ TransmitterReceive(toTx[i])
       /\ toTx' = RemoveAt(toTx, i)
  /\ UNCHANGED <<vars, rxDatagram, rxSegments, toRx, disturbances>>

Disturb ==
  /\ disturbances < MaxDisturbances
  /\ disturbances' = disturbances + 1

Lose ==
  /\ Disturb
  /\ \/ /\ \E i \in DOMAIN toRx : toRx' = RemoveAt(toRx, i)
        /\ UNCHANGED toTx
     \/ /\ \E i \in DOMAIN toTx : toTx' = RemoveAt(toTx, i)
        /\ UNCHANGED toRx
  /\ UNCHANGED <<vars, ingress>>

Duplicate ==
  /\ Disturb
  /\ \/ /\ \E i \in DOMAIN toRx : toRx' = Push(toRx, {toRx[i]})
        /\ UNCHANGED toTx
     \/ /\ \E i \in DOMAIN toTx : toTx' = Push(toTx, {toTx[i]})
        /\ UNCHANGED toRx
  /\ UNCHANGED <<vars, ingress>>

-----------------------------------------------------------------------------
(* process(), abort() and sendDatagram() of the two endpoints.             *)

TransmitterPolls ==
  /\ \E o \in SessionProcess(tx, txDatagram) :
       /\ tx' = o.session
       /\ txSent' = txSent \cup o.out
       /\ toRx' = Push(toRx, o.out)
  /\ txDatagram' = NoMessage
  /\ UNCHANGED <<rx, rxSent, used, rxDatagram, rxSegments, toTx, disturbances>>

TransmitterCancels ==
  /\ LocalAborts /\ InTransfer(tx)
  /\ \E o \in AbortTransfer(tx) :
       /\ tx' = o.session
       /\ txSent' = txSent \cup o.out
       /\ toRx' = Push(toRx, o.out)
  /\ UNCHANGED <<rx, rxSent, used, ingress, toTx, disturbances>>

\* The segment in the lowest occupied slot, if there is one.
NextSegment ==
  IF UsedSlots(rxSegments) = {} THEN NoMessage
  ELSE rxSegments[First(UsedSlots(rxSegments))]

WithoutNextSegment ==
  IF UsedSlots(rxSegments) = {} THEN rxSegments
  ELSE [rxSegments EXCEPT ![First(UsedSlots(rxSegments))] = NoMessage]

\* An expired transfer takes the whole backlog with it.
ReceiverExpires ==
  /\ Expired(rx)
  /\ rx' = poll(rx)
  /\ rxSegments' = EmptySlots /\ rxDatagram' = NoMessage
  /\ UNCHANGED <<tx, txSent, rxSent, used, txDatagram, channels, disturbances>>

\* Fault: the datagram first, then the segment.
DatagramFirst ==
  /\ ~Expired(rx)
  /\ \E first \in EngineProcess(rx, rxDatagram) :
       \E second \in EngineProcess(first.engine, NextSegment) :
         /\ rx' = second.engine
         /\ rxSent' = rxSent \cup first.out \cup second.out
         /\ toTx' = Push(Push(toTx, first.out), second.out)
  /\ rxSegments' = WithoutNextSegment /\ rxDatagram' = NoMessage
  /\ UNCHANGED <<tx, txSent, used, txDatagram, toRx, disturbances>>

\* One segment, then the datagram, each with its own answer.
ReceiverPolls ==
  /\ ~Expired(rx)
  /\ \E first \in EngineProcess(rx, NextSegment) :
       \E second \in EngineProcess(first.engine, rxDatagram) :
         /\ rx' = second.engine
         /\ rxSent' = rxSent \cup first.out \cup second.out
         /\ toTx' = Push(Push(toTx, first.out), second.out)
  /\ rxSegments' = WithoutNextSegment /\ rxDatagram' = NoMessage
  /\ UNCHANGED <<tx, txSent, used, txDatagram, toRx, disturbances>>

ReceiverCancels ==
  /\ LocalAborts /\ rx.state = "Active"
  /\ \E o \in EngineAbort(rx) :
       /\ rx' = o.engine
       /\ rxSent' = rxSent \cup o.out
       /\ toTx' = Push(toTx, o.out)
  /\ UNCHANGED <<tx, txSent, used, ingress, toRx, disturbances>>

\* Sideband datagrams share the control slots with the protocol.
SendDatagram ==
  /\ Disturb
  /\ \/ toRx' = Push(toRx, {UserDatagram}) /\ UNCHANGED toTx
     \/ toTx' = Push(toTx, {UserDatagram}) /\ UNCHANGED toRx
  /\ UNCHANGED <<vars, ingress>>

-----------------------------------------------------------------------------
(* Time.                                                                   *)

\* Nothing is under way: a timeout longer than the round trip waits for this.
Settled ==
  /\ toRx = <<>> /\ toTx = <<>>
  /\ txDatagram = NoMessage /\ rxDatagram = NoMessage
  /\ rxSegments = EmptySlots

Unhurried == PatientTimers => Settled

TransmitterTimeout ==
  /\ Unhurried
  /\ SetupTimeout \/ SegmentTimeout \/ ProbeTimeout
  /\ UNCHANGED <<ingress, channels, disturbances>>

(* A receiver configured to outlast its peer's retries expires only once   *)
(* the peer has given up (api_notes.md, Abandoned-transfer recovery).      *)
ReceiverTimeout ==
  /\ Unhurried
  /\ PatientTimers => ~InTransfer(tx)
  /\ InactivityElapses
  /\ UNCHANGED <<ingress, channels, disturbances>>

EndpointStart ==
  /\ \E q \in Requests : StartTransfer(q)
  /\ UNCHANGED <<ingress, channels, disturbances>>

EndpointNext ==
  \/ EndpointStart
  \/ TransmitterPolls \/ TransmitterCancels \/ TransmitterTimeout
  \/ ReceiverExpires \/ ReceiverPolls \/ ReceiverCancels \/ ReceiverTimeout
  \/ DeliverToReceiver \/ DeliverToTransmitter
  \/ Lose \/ Duplicate \/ SendDatagram

EndpointSpec == EndpointInit /\ [][EndpointNext]_endpointVars

(* The main loops keep polling both endpoints, a packet under way arrives  *)
(* unless the wire loses it, and a timer that keeps running runs out.      *)
(* Nothing is assumed of the applications.  Where the receiver's timer may *)
(* be renewed for ever, which only patient timers exclude, no fairness of  *)
(* it is assumed.                                                          *)
Fairness ==
  /\ WF_endpointVars(TransmitterPolls)
  /\ WF_endpointVars(ReceiverPolls \/ ReceiverExpires)
  /\ WF_endpointVars(DeliverToReceiver)
  /\ WF_endpointVars(DeliverToTransmitter)
  /\ WF_endpointVars(TransmitterTimeout)
  /\ PatientTimers => WF_endpointVars(ReceiverTimeout)

FairEndpointSpec == EndpointSpec /\ Fairness

-----------------------------------------------------------------------------
(* Properties.                                                             *)

(* The slots and the channels add nothing to what the peers can do to each *)
(* other: every behaviour is one of BitsTransfer, whose invariants hence   *)
(* hold here as well (bits.cpp:111-190, 220-256).                          *)
ImplementsTransfer == Spec

(* A transfer that was started ends: the retries are bounded, so silence,  *)
(* loss and refusal all lead to a terminal state (bits.cpp:258-341).       *)
TransferEnds == InTransfer(tx) ~> ~InTransfer(tx)

(* With timeouts that exceed the round trip and no more losses than the    *)
(* retry budget covers, a transfer completes at both ends.                 *)
TransferCompletes ==
  tx.state = "Starting" ~> /\ tx.state = "Completed"
                           /\ tx.setup.session_id \in rx.completions

(* An admitted transfer does not hold the receiver for ever: it completes, *)
(* is aborted or fails, also when the peer falls silent                    *)
(* (receiver_engine.cpp:61-69).                                            *)
ReceiverReleases == rx.state = "Active" ~> rx.state # "Active"

=============================================================================
