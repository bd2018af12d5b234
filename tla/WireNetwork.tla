---------------------------- MODULE WireNetwork -----------------------------
(***************************************************************************)
(* Hosts built from one compiled deployment, exchanging packets over       *)
(* shared Links: every host runs a Router with its generated route table   *)
(* and Forwarder, a Dispatcher, and at the ping endpoint a PingService     *)
(* (services/ping/ping.h) and a snapshot receiver.                         *)
(*                                                                         *)
(* A Link that admits a packet carries it to every other host physically   *)
(* attached, whether or not the Wire selected that attachment; the Router  *)
(* there has to sort it out.  Links refuse packets and lose them.          *)
(***************************************************************************)
EXTENDS WiringTopology, Router, Bags

CONSTANTS
  PhysicalGraphs,   \* the physical graphs considered
  Wires,            \* the Wires of a deployment
  Publications,     \* the n-th: which packets the applications may originate
  LinkAnswers,      \* how a Link may answer trySend
  MaxLosses         \* bound: frames a Link loses

(* wiring.schema.json admits eight interfaces of a host.                   *)
ASSUME NetworkAssumption ==
  /\ PhysicalGraphs \subseteq SUBSET Attachments
  /\ \A g \in PhysicalGraphs, h \in Hosts : Cardinality(InterfacesOf(g, h)) <= 8
  /\ LinkAnswers \subseteq Admissions
  /\ MaxLosses \in Nat
  /\ Len(Publications) \in Nat /\ DOMAIN Publications = 1..Len(Publications)
  /\ \A n \in DOMAIN Publications : \A p \in Publications[n] :
       p.source \in Hosts /\ p.wire \in Wires

VARIABLES
  graph,       \* the attachments that exist
  wires,       \* the deployment: members and attachments of every Wire
  routes,      \* generated: the route table of every host
  bits,        \* generated: the egress bit of every attachment
  inbox,       \* packets under way to each attachment
  queue,       \* the ping service's receive queue, per host
  snapshot,    \* the snapshot receiver, per host
  sent,        \* the packets applications have originated, in order
  losses,      \* how many frames the Links have lost
  carried,     \* history: the (link, packet) transmissions, a bag
  dispatched,  \* history: the (host, packet) dispatches, a bag
  admitted,    \* history: the (host, receiver, packet) admissions
  reports,     \* history: (host, packet, result) as dispatch returned it
  disturbed,   \* history: packets a Link refused or lost somewhere
  outcome      \* history: the latest forward, its Links' answers and result

generated == <<graph, wires, routes, bits>>
vars == <<graph, wires, routes, bits, inbox, queue, snapshot, sent, losses, carried,
          dispatched, admitted, reports, disturbed, outcome>>

(* A packet's identity: sequence number and message type.                  *)
Key(packet) == <<packet.sequence_number, packet.type>>
Keys == (1..Len(Publications)) \X {"Request", "Response"}
NoPacket == <<0, "None">>

isMemberOf(h, w) == h \in wires[w].members
OnBit(h, bit) == CHOOSE a \in InterfacesOf(graph, h) : bits[a] = bit

NetworkInit ==
  /\ graph \in PhysicalGraphs
  /\ wires \in {d \in [Wires -> ResolvedWires(graph)] : ProjectionAccepts(d)}
  /\ routes = [h \in Hosts |-> RouteTable(graph, wires, h)]
  /\ bits = [a \in graph |-> egress_bit(graph, a)]
  /\ inbox = [a \in graph |-> <<>>]
  /\ queue = [h \in Hosts |-> <<>>]
  /\ snapshot = [h \in Hosts |-> [latest |-> NoPacket, generation |-> 0]]
  /\ sent = <<>> /\ losses = 0
  /\ carried = EmptyBag /\ dispatched = EmptyBag
  /\ admitted = {} /\ reports = {} /\ disturbed = {}
  /\ outcome = [answers |-> {}, result |-> "NoRoute"]

----------------------------------------------------------------------------
(* Router::forward at h.  Every selected Link answers trySend once; the    *)
(* ingress index is host-local and does not travel.                        *)

Answers(h, packet) == [Egress(routes[h], packet) -> LinkAnswers]
LinksTaking(h, packet, answer) ==
  {OnBit(h, bit).link : bit \in {b \in Egress(routes[h], packet) : answer[b] = "Accepted"}}
Transmit(boxes, h, packet, answer) ==
  [a \in graph |-> IF a.host # h /\ a.link \in LinksTaking(h, packet, answer)
                   THEN Append(boxes[a], Stamp(packet, 0)) ELSE boxes[a]]
RecordForward(h, packet, answer) ==
  /\ carried' = carried (+) SetToBag(LinksTaking(h, packet, answer) \X {Key(packet)})
  /\ disturbed' = disturbed \union
       {Key(packet) : bit \in {b \in Egress(routes[h], packet) : answer[b] # "Accepted"}}
  /\ outcome' = [answers |-> {answer[b] : b \in DOMAIN answer},
                 result |-> forward(routes[h], packet, answer)]

(* An application initializes a packet of local origin and forwards it.    *)
initialize(number, p) ==
  [sequence_number |-> number, type |-> "Request", wire |-> p.wire,
   source |-> p.source, destination |-> p.destination, ingress |-> 0,
   transport |-> p.transport, size |-> p.size, endpoint |-> p.endpoint]
Originate(h) ==
  /\ Len(sent) < Len(Publications)
  /\ \E p \in {q \in Publications[Len(sent) + 1] : q.source = h} :
       LET packet == initialize(Len(sent) + 1, p)
       IN \E answer \in Answers(h, packet) :
            /\ inbox' = Transmit(inbox, h, packet, answer)
            /\ RecordForward(h, packet, answer)
            /\ sent' = Append(sent, packet)
  /\ UNCHANGED <<generated, queue, snapshot, losses, dispatched, admitted, reports>>

----------------------------------------------------------------------------
(* DomainContext::receive at the host of attachment a: route the packet    *)
(* onward, then offer it to the local receivers.                           *)

Accepting(h, packet) ==
  {r \in OfferedTo(packet, h, isMemberOf(h, packet.wire)) :
     ReceiveResult(r, packet, queue[h]) = "Accepted"}
Dispatch(h, packet) ==
  LET accepting == Accepting(h, packet)
  IN /\ queue' = IF "service" \in accepting
                 THEN [queue EXCEPT ![h] = Append(@, packet)] ELSE queue
     /\ snapshot' = IF "snapshot" \in accepting
                    THEN [snapshot EXCEPT ![h] =
                            [latest |-> Key(packet), generation |-> @.generation + 1]]
                    ELSE snapshot
     /\ dispatched' = dispatched (+) SetToBag({<<h, Key(packet)>>})
     /\ admitted' = admitted \union ({h} \X accepting \X {Key(packet)})
     /\ reports' = reports \union
          {<<h, Key(packet),
             DispatchResult(packet, h, isMemberOf(h, packet.wire), queue[h])>>}
Receive(a) ==
  /\ inbox[a] # <<>>
  /\ LET h == a.host
         packet == Stamp(Head(inbox[a]), bits[a] + 1)
     IN /\ \E answer \in Answers(h, packet) :
             /\ inbox' = Transmit([inbox EXCEPT ![a] = Tail(@)], h, packet, answer)
             /\ RecordForward(h, packet, answer)
        /\ IF DispatchesLocally(routes[h], packet, isMemberOf(h, packet.wire))
           THEN Dispatch(h, packet)
           ELSE UNCHANGED <<queue, snapshot, dispatched, admitted, reports>>
  /\ UNCHANGED <<generated, sent, losses>>

(* A frame is lost on its way to one attachment.                           *)
Lose(a) ==
  /\ inbox[a] # <<>> /\ losses < MaxLosses
  /\ losses' = losses + 1
  /\ disturbed' = disturbed \union {Key(Head(inbox[a]))}
  /\ inbox' = [inbox EXCEPT ![a] = Tail(@)]
  /\ UNCHANGED <<generated, queue, snapshot, sent, carried, dispatched,
                 admitted, reports, outcome>>

----------------------------------------------------------------------------
(* PingService: one turn of run()'s loop, dequeue and processRequest.      *)

\* Fault: the response keeps the ingress index of the request.
ResponseKeepsIngress(request) ==
  [request EXCEPT !.type = "Response", !.source = request.destination,
                  !.destination = request.source,
                  !.transport = "Simple", !.size = PingMessageSize]

initializeResponseTo(request) ==
  [request EXCEPT !.type = "Response", !.source = request.destination,
                  !.destination = request.source, !.ingress = 0,
                  !.transport = "Simple", !.size = PingMessageSize]
Answerable(packet) ==
  /\ packet.size = PingMessageSize /\ packet.destination # Broadcast
  /\ packet.type = "Request"
ServiceRun(h) ==
  /\ queue[h] # <<>>
  /\ queue' = [queue EXCEPT ![h] = Tail(@)]
  /\ LET request == Head(queue[h])
         response == initializeResponseTo(request)
     IN IF Answerable(request)
        THEN \E answer \in Answers(h, response) :
               /\ inbox' = Transmit(inbox, h, response, answer)
               /\ RecordForward(h, response, answer)
        ELSE UNCHANGED <<inbox, carried, disturbed, outcome>>
  /\ UNCHANGED <<generated, snapshot, sent, losses, dispatched, admitted, reports>>

NetworkNext ==
  \/ \E h \in Hosts : Originate(h) \/ ServiceRun(h)
  \/ \E a \in graph : Receive(a) \/ Lose(a)

NetworkSpec == NetworkInit /\ [][NetworkNext]_vars

----------------------------------------------------------------------------
(* Properties.                                                             *)

PacketsOf(s) == {s[i] : i \in DOMAIN s}
UnderWay(key) == \E a \in graph : key \in {Key(p) : p \in PacketsOf(inbox[a])}
WireOf(key) == wires[sent[key[1]].wire]

(* A Wire is loop-free: whatever the hosts forward and in whatever order,  *)
(* no Link carries a packet twice, and only Links the Wire selected carry  *)
(* it (the resolvers of wiring_topology.py with Router::forward).          *)
CarriedOnce ==
  \A t \in BagToSet(carried) :
    /\ carried[t] = 1
    /\ t[1] \in {a.link : a \in WireOf(t[2]).attachments}

(* Router::receive never delivers a packet twice to a host, back to its    *)
(* origin, or to a host that is not a member of the packet's Wire, however *)
(* many Links the host listens on.                                         *)
DispatchedOnce ==
  \A t \in BagToSet(dispatched) :
    LET request == sent[t[2][1]]
        origin == IF t[2][2] = "Request" THEN request.source ELSE request.destination
    IN /\ dispatched[t] = 1
       /\ t[1] # origin
       /\ t[1] \in WireOf(t[2]).members

(* Destination controls acceptance: a directed packet is admitted only at  *)
(* its destination, by the first receiver of its endpoint and no tap, and  *)
(* a packet with unsupported controls nowhere (Dispatcher::dispatch).      *)
DirectedReception ==
  \A t \in admitted :
    LET request == sent[t[3][1]]
        destination == IF t[3][2] = "Request" THEN request.destination ELSE request.source
    IN /\ t[3][2] = "Request" => hasSupportedControl(request)
       /\ destination # Broadcast =>
            /\ t[1] = destination
            /\ \E i \in Matching(request) :
                 /\ DispatchTable[i].receiver = t[2]
                 /\ \A j \in Matching(request) : i <= j

(* The other side of CarriedOnce: once a packet no Link refused or lost is *)
(* no longer under way, every member of its Wire but the origin has had it *)
(* dispatched, and every Link of the Wire has carried it.                  *)
ReachesEveryMember ==
  \A n \in DOMAIN sent :
    LET key == Key(sent[n])
    IN /\ sent[n].wire \in DOMAIN routes[sent[n].source]
       /\ key \notin disturbed /\ ~UnderWay(key)
       => /\ \A h \in WireOf(key).members \ {sent[n].source} :
               BagIn(<<h, key>>, dispatched)
          /\ \A a \in WireOf(key).attachments : BagIn(<<a.link, key>>, carried)

(* A ping is answered: when the service of a member has admitted and       *)
(* processed a member's directed request and neither packet was refused or *)
(* lost on the way, the response has come back to the requester            *)
(* (PingService::sendResponse, PacketBuffer::initializeResponseTo).        *)
PingAnswered ==
  \A n \in DOMAIN sent :
    LET request == sent[n]
        response == <<n, "Response">>
    IN /\ <<request.destination, "service", Key(request)>> \in admitted
       /\ request.source \in wires[request.wire].members
       /\ request.destination # Broadcast /\ request.size = PingMessageSize
       /\ queue[request.destination] = <<>>
       /\ response \notin disturbed /\ ~UnderWay(response)
       => BagIn(<<request.source, response>>, dispatched)

(* What a forward reports is what its Links answered, whatever the order   *)
(* it asked them in: Accepted only if all accepted, Partial only if some   *)
(* did and some did not, Full only if all were full, and a rejection       *)
(* before a size failure (forwarding.h, the generated Forwarder).          *)
ForwardReportsItsLinks ==
  LET answers == outcome.answers
  IN answers # {} =>
       outcome.result = IF answers = {"Accepted"} THEN "Accepted"
                        ELSE IF "Accepted" \in answers THEN "Partial"
                        ELSE IF "Rejected" \in answers THEN "Rejected"
                        ELSE IF "TooLarge" \in answers THEN "TooLarge" ELSE "Full"

(* Dispatch reports acceptance exactly when some receiver kept the packet, *)
(* and a snapshot's generation counts the packets its receiver kept.       *)
DispatchReportsItsReceivers ==
  /\ \A t \in reports :
       (t[3] = "Accepted") <=> \E r \in {"service", "snapshot"} : <<t[1], r, t[2]>> \in admitted
  /\ \A h \in Hosts :
       snapshot[h].generation =
         Cardinality({t \in admitted : t[1] = h /\ t[2] = "snapshot"})

=============================================================================
