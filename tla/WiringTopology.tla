--------------------------- MODULE WiringTopology ---------------------------
(***************************************************************************)
(* The deployment compiler: which attachments a Wire may use               *)
(* (codegen/wiring_topology.py, over the shapes wiring_schema.py admits)   *)
(* and the masks and tables each host is built with                        *)
(* (codegen/wiring_projection.py).                                         *)
(*                                                                         *)
(* A physical graph is a set of attachments [host, link]; a host attaches  *)
(* to a Link at most once, so the pair names the interface, and Links are  *)
(* numbered in the order of their interfaces' names.  Graph questions are  *)
(* asked of cuts: two nodes are joined when every cut that separates them  *)
(* is crossed by an attachment.                                            *)
(***************************************************************************)
EXTENDS Naturals, Sequences, FiniteSets

CONSTANTS
  Hosts,              \* the hosts of the deployment
  Links,              \* its shared physical Links
  PinnedBits,         \* the authored EgressBits, a function on attachments
  MaximumHops,        \* bound: the hops of an authored Path
  kMaximumHostWires   \* memberships a HostInfo has room for

(* EgressBits as parse_deployment admits them: unequal ones at a host.     *)
ASSUME WiringAssumption ==
  /\ IsFiniteSet(Hosts) /\ IsFiniteSet(Links)
  /\ Links \subseteq Nat
  /\ DOMAIN PinnedBits \subseteq [host : Hosts, link : Links]
  /\ \A a, b \in DOMAIN PinnedBits :
       /\ PinnedBits[a] \in 0..7
       /\ a.host = b.host /\ a # b => PinnedBits[a] # PinnedBits[b]
  /\ MaximumHops \in Nat /\ kMaximumHostWires \in Nat

Attachments == [host : Hosts, link : Links]

----------------------------------------------------------------------------
(* PhysicalGraph: hosts and Links are the nodes, attachments the edges.    *)

HostNode(a) == <<"host", a.host>>
LinkNode(a) == <<"link", a.link>>
NodesOf(graph) == {HostNode(a) : a \in graph} \union {LinkNode(a) : a \in graph}
Degree(graph, link) == Cardinality({a \in graph : a.link = link})

Crosses(a, side) == (HostNode(a) \in side) # (LinkNode(a) \in side)

Joined(graph, u, v) ==
  \A side \in SUBSET (NodesOf(graph) \union {u}) :
    u \in side /\ v \notin side => \E a \in graph : Crosses(a, side)

Connected(nodes, graph) ==
  \A side \in (SUBSET nodes) \ {{}, nodes} : \E a \in graph : Crosses(a, side)

IsTree(nodes, graph) ==
  Connected(nodes, graph) /\ Cardinality(graph) + 1 = Cardinality(nodes)

Bridges(graph) ==
  {a \in graph : ~Joined(graph \ {a}, HostNode(a), LinkNode(a))}

----------------------------------------------------------------------------
(* The four ways to select a Wire's attachments, each with what it refuses.*)

(* infer: only bridges may be used, so no alternative path exists.         *)
InferRoot(members) == CHOOSE h \in members : TRUE
InferAccepts(graph, members) ==
  \A h \in members :
    Joined(Bridges(graph), <<"host", InferRoot(members)>>, <<"host", h>>)
infer(graph, members) ==
  {a \in Bridges(graph) : \E h \in members :
     ~Joined(Bridges(graph) \ {a}, <<"host", InferRoot(members)>>, <<"host", h>>)}

(* chain: an authored Path, hop pairs that share a Link and join at a host.*)
HopsOf(path) == 1 .. Len(path) \div 2
Departure(path, i) == path[2 * i - 1]
Arrival(path, i) == path[2 * i]
ChainAccepts(path) ==
  \A i \in HopsOf(path) :
    LET from == Departure(path, i)
        to == Arrival(path, i)
    IN /\ from.link = to.link /\ from.host # to.host
       /\ i > 1 => /\ from.host = Arrival(path, i - 1).host
                   /\ from # Arrival(path, i - 1)
       /\ to.host # Departure(path, 1).host
       /\ \A j \in 1..(i - 1) : /\ to.host # Arrival(path, j).host
                                /\ from.link # Departure(path, j).link
chain(path) == {path[i] : i \in DOMAIN path}
DeclaredPaths(graph) ==
  UNION {[1..(2 * n) -> graph] : n \in 1..MaximumHops}

\* Fault: a connected realization need not be a tree.
RealizationWithCycles(selected) ==
  /\ Cardinality(selected) >= 2
  /\ \A a \in selected : Degree(selected, a.link) >= 2
  /\ Connected(NodesOf(selected), selected)

\* An exact attachment tree in which no Link is left dangling.
RealizationAccepts(selected) ==
  /\ Cardinality(selected) >= 2
  /\ \A a \in selected : Degree(selected, a.link) >= 2
  /\ IsTree(NodesOf(selected), selected)

(* legacy: every attachment of the named Links.                            *)
legacy(graph, links) == {a \in graph : a.link \in links}
LegacyAccepts(graph, links, members) ==
  LET selected == legacy(graph, links)
  IN /\ \A l \in links : Degree(graph, l) >= 2
     /\ IsTree(NodesOf(selected) \union {<<"host", h>> : h \in members}, selected)

(* resolve_deployment, for one Wire: members and the attachments it uses.  *)
(* A Path or a Realization must visit every member.                        *)
Visits(selected, members) == members \subseteq {a.host : a \in selected}
Selections(graph, members) ==
  {selected \in {infer(graph, members)} : InferAccepts(graph, members)}
  \union {chain(path) : path \in
            {p \in DeclaredPaths(graph) : ChainAccepts(p) /\ Visits(chain(p), members)}}
  \union {selected \in SUBSET graph :
            RealizationAccepts(selected) /\ Visits(selected, members)}
  \union {legacy(graph, links) : links \in
            {ls \in SUBSET Links : LegacyAccepts(graph, ls, members)}}
ResolvedWires(graph) ==
  UNION {{[members |-> members, attachments |-> selected] :
            selected \in Selections(graph, members)} :
         members \in (SUBSET Hosts) \ {{}}}

----------------------------------------------------------------------------
(* project_deployment: pinned bits are reserved, the other interfaces take *)
(* the free bits in the order of their names.                              *)

InterfacesOf(graph, h) == {a \in graph : a.host = h}
egress_bit(graph, a) ==
  LET mine == InterfacesOf(graph, a.host)
      pinned == mine \intersect DOMAIN PinnedBits
      free == 0..7 \ {PinnedBits[p] : p \in pinned}
      earlier == {b \in mine \ pinned : b.link < a.link}
  IN IF a \in pinned THEN PinnedBits[a]
     ELSE CHOOSE bit \in free :
            Cardinality({f \in free : f < bit}) = Cardinality(earlier)

Mask(graph, h, selected) ==
  {egress_bit(graph, a) : a \in InterfacesOf(graph, h) \intersect selected}

\* Fault: only the members of a Wire get a route for it.
RouteTableOfMembers(graph, wires, h) ==
  [w \in {v \in DOMAIN wires : h \in wires[v].members} |->
     Mask(graph, h, wires[w].attachments)]

(* The route table of h: wires it has an interface on or is a member of.   *)
RouteTable(graph, wires, h) ==
  [w \in {v \in DOMAIN wires : \/ Mask(graph, h, wires[v].attachments) # {}
                               \/ h \in wires[v].members} |->
     Mask(graph, h, wires[w].attachments)]

Memberships(wires, h) == {w \in DOMAIN wires : h \in wires[w].members}
ProjectionAccepts(wires) ==
  \A h \in Hosts : Cardinality(Memberships(wires, h)) <= kMaximumHostWires

=============================================================================
