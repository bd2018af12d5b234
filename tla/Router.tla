------------------------------- MODULE Router -------------------------------
(***************************************************************************)
(* The decisions of Router, the generated Forwarder, Dispatcher and the    *)
(* endpoint receivers (core/router.cpp, core/forwarding.h,                 *)
(* codegen/wiring_codegen.py, core/dispatch.cpp, core/endpoint_queue.h,    *)
(* core/mailbox.cpp), as operators on one host's tables and one packet.    *)
(* An InterfaceSet is the set of its bits.                                 *)
(***************************************************************************)
EXTENDS Naturals, Sequences

CONSTANTS
  Broadcast,          \* kBroadcastHostValue
  DispatchTable,      \* entries [endpoint, receiver], in table order
  PingMessageSize,    \* sizeof(PingMessage), the queue's payload capacity
  SnapshotCapacity,   \* kDefaultEndpointStorageCapacity
  ReceiveQueueCapacity

ASSUME RouterAssumption ==
  /\ PingMessageSize \in Nat /\ SnapshotCapacity \in Nat
  /\ ReceiveQueueCapacity \in Nat \ {0}
  /\ \A i \in DOMAIN DispatchTable :
       DispatchTable[i].receiver \in {"service", "snapshot"}
  /\ \A i, j \in DOMAIN DispatchTable :
       i # j => DispatchTable[i].receiver # DispatchTable[j].receiver

Admissions == {"Accepted", "Full", "TooLarge", "Rejected"}

(* Router::forward up to the call of the forwarder.                        *)
Incoming(packet) == IF packet.ingress = 0 THEN {} ELSE {packet.ingress - 1}

\* Fault: a packet is taken from an interface its Wire did not select.
RouteAnyIngress(table, packet) ==
  IF packet.ingress > 8 THEN "InvalidIngress"
  ELSE IF packet.wire \notin DOMAIN table THEN "NoRoute"
  ELSE IF packet.ingress # 0 /\ table[packet.wire] \subseteq Incoming(packet)
       THEN "NoEgress" ELSE "Forward"

RouteDecision(table, packet) ==
  IF packet.ingress > 8 THEN "InvalidIngress"
  ELSE IF packet.wire \notin DOMAIN table THEN "NoRoute"
  ELSE IF ~(Incoming(packet) \subseteq table[packet.wire]) THEN "InvalidIngress"
  ELSE IF packet.ingress # 0 /\ table[packet.wire] = Incoming(packet)
       THEN "NoEgress" ELSE "Forward"
Egress(table, packet) ==
  IF RouteDecision(table, packet) # "Forward" THEN {}
  ELSE table[packet.wire] \ Incoming(packet)

\* Fault: an acceptance after a refusal is not noticed.
CombineForgetful(current, next) ==
  IF current = "NoEgress" \/ current = next THEN next
  ELSE IF current \in {"Partial", "Accepted"} THEN "Partial"
  ELSE IF current = "Rejected" \/ next = "Rejected" THEN "Rejected"
  ELSE "TooLarge"

(* combineAdmission, and the generated Forwarder: one test per interface,  *)
(* in ascending order of their bits.                                       *)
combineAdmission(current, next) ==
  IF current = "NoEgress" \/ current = next THEN next
  ELSE IF current \in {"Partial", "Accepted"} \/ next = "Accepted" THEN "Partial"
  ELSE IF current = "Rejected" \/ next = "Rejected" THEN "Rejected"
  ELSE "TooLarge"
Forwarder(egress, answer) ==
  LET result[n \in 0..8] ==   \* after the interfaces with bits below n
        IF n = 0 THEN "NoEgress"
        ELSE IF n - 1 \in egress THEN combineAdmission(result[n - 1], answer[n - 1])
        ELSE result[n - 1]
  IN IF result[8] = "NoEgress" THEN "Accepted" ELSE result[8]
forward(table, packet, answer) ==
  IF RouteDecision(table, packet) = "Forward"
  THEN Forwarder(Egress(table, packet), answer)
  ELSE RouteDecision(table, packet)

(* Router::receive: what it stamps, and whether the packet is dispatched.  *)
Stamp(packet, index) == [packet EXCEPT !.ingress = index]
DispatchesLocally(table, packet, member) ==
  /\ packet.ingress # 0
  /\ RouteDecision(table, packet) \notin {"NoRoute", "InvalidIngress"}
  /\ member

(* Dispatcher::dispatch: the receivers a packet is offered to.             *)
hasSupportedControl(packet) == packet.transport \in {"Simple", "Bits"}
Matching(packet) ==
  {i \in DOMAIN DispatchTable : DispatchTable[i].endpoint = packet.endpoint}

\* Fault: a directed packet is offered to every receiver of its endpoint.
OfferedToTaps(packet, h, member) ==
  {DispatchTable[i].receiver : i \in
     {j \in Matching(packet) : hasSupportedControl(packet)
                               /\ packet.destination \in {Broadcast, h}}}

OfferedTo(packet, h, member) ==
  LET first == {i \in Matching(packet) : \A j \in Matching(packet) : i <= j}
      entries == IF ~hasSupportedControl(packet) THEN {}
                 ELSE IF packet.destination = Broadcast
                      THEN IF member THEN Matching(packet) ELSE {}
                      ELSE IF packet.destination = h THEN first ELSE {}
  IN {DispatchTable[i].receiver : i \in entries}

(* TransportFilterReceiver over EndpointReceiverQueue for the ping service,*)
(* EndpointSnapshotReceiver for the other receiver.                        *)

ReceiveResult(receiver, packet, queue) ==
  IF receiver = "service"
  THEN IF packet.transport # "Simple" \/ packet.size > PingMessageSize
       THEN "Rejected"
       ELSE IF Len(queue) = ReceiveQueueCapacity THEN "Full" ELSE "Accepted"
  ELSE IF packet.size > SnapshotCapacity THEN "Rejected" ELSE "Accepted"

\* Fault: a full queue hides that another receiver took the packet.
PriorityOfTrouble(result) ==
  CASE result = "Full" -> 3 [] result = "Accepted" -> 2
    [] result = "Rejected" -> 1 [] result = "NoEndpoint" -> 0

resultPriority(result) ==
  CASE result = "Accepted" -> 3 [] result = "Full" -> 2
    [] result = "Rejected" -> 1 [] result = "NoEndpoint" -> 0
DispatchResult(packet, h, member, queue) ==
  LET results == {ReceiveResult(r, packet, queue) : r \in OfferedTo(packet, h, member)}
  IN IF ~hasSupportedControl(packet) THEN "Rejected"
     ELSE CHOOSE best \in results \union {"NoEndpoint"} :
            \A other \in results : resultPriority(best) >= resultPriority(other)

=============================================================================
