------------------------- MODULE WireNetworkProofs --------------------------
(***************************************************************************)
(* What the deployment compiler guarantees of every Wire it accepts, for   *)
(* every physical graph: no attachment of the Wire can be bypassed, and    *)
(* the members are joined. And from it the network's safety properties,    *)
(* for every deployment the compiler accepts, every table of receivers and *)
(* every answer of the Links.                                              *)
(***************************************************************************)
EXTENDS WireNetwork, FiniteSetTheorems, WellFoundedInduction, TLAPS

(* The deployment compiler.                                                *)

(* a has node n as one of its ends.                                        *)
Incident(n, a) == n = HostNode(a) \/ n = LinkNode(a)

(* Nothing of g crosses the side.                                          *)
Uncrossed(g, side) == \A a \in g : ~Crosses(a, side)

(* Every way from n to o goes over a.                                      *)
Via(g, o, n, a) == ~Joined(g \ {a}, n, o)

(* No attachment can be bypassed: there is no cycle.                       *)
LoopFree(g) == \A a \in g : ~Joined(g \ {a}, HostNode(a), LinkNode(a))

(* A Wire as the Routers need it: part of the graph, without cycles, all   *)
(* its attachments and members joined.                                     *)
Sound(g, members, selected) ==
  /\ selected \subseteq g
  /\ LoopFree(selected)
  /\ \E root : /\ \A m \in members : Joined(selected, <<"host", m>>, root)
               /\ \A a \in selected : Joined(selected, HostNode(a), root)

-----------------------------------------------------------------------------
(* Numbers and finite sets.                                                *)

(* Every nonempty set of naturals has a least member.                      *)
LEMMA LeastNatural ==
  ASSUME NEW S, S \subseteq Nat, S # {}
  PROVE  \E n \in S : \A m \in S : n <= m
<1>1. PICK n \in S : \A m \in S : <<m, n>> \notin OpToRel(<, Nat)
  BY WFMin, NatLessThanWellFounded
<1>2. \A m \in S : ~(m < n)
  BY <1>1 DEF OpToRel
<1>3. QED
  BY <1>2

(* Of a nonempty family of subsets of a finite set, some member is a least *)
(* one: no other member has fewer elements.                                *)
LEMMA LeastSubset ==
  ASSUME NEW S, IsFiniteSet(S), NEW F \in SUBSET SUBSET S, F # {}
  PROVE  \E A \in F : \A B \in F : Cardinality(A) <= Cardinality(B)
<1> DEFINE Sizes == {Cardinality(A) : A \in F}
<1>1. \A A \in F : Cardinality(A) \in Nat
  BY FS_Subset, FS_CardinalityType
<1>2. Sizes \subseteq Nat /\ Sizes # {}
  BY <1>1
<1>3. PICK n \in Sizes : \A m \in Sizes : n <= m
  <2> HIDE DEF Sizes
  <2> QED BY <1>2, LeastNatural
<1>4. QED
  BY <1>3

(* And some member is a greatest one.                                      *)
LEMMA GreatestSubset ==
  ASSUME NEW S, IsFiniteSet(S), NEW F \in SUBSET SUBSET S, F # {}
  PROVE  \E A \in F : \A B \in F : Cardinality(A) >= Cardinality(B)
<1> DEFINE Sizes == {Cardinality(S) - Cardinality(A) : A \in F}
<1>1. \A A \in F : Cardinality(A) \in Nat /\ Cardinality(A) <= Cardinality(S)
  BY FS_Subset, FS_CardinalityType
<1>2. Cardinality(S) \in Nat
  BY FS_CardinalityType
<1>3. Sizes \subseteq Nat /\ Sizes # {}
  BY <1>1, <1>2
<1>4. PICK n \in Sizes : \A m \in Sizes : n <= m
  <2> HIDE DEF Sizes
  <2> QED BY <1>3, LeastNatural
<1>5. PICK A \in F : n = Cardinality(S) - Cardinality(A)
  BY <1>4
<1>6. \A B \in F : n <= Cardinality(S) - Cardinality(B)
  BY <1>4
<1>7. \A B \in F : Cardinality(A) >= Cardinality(B)
  BY <1>1, <1>2, <1>5, <1>6
<1>8. QED
  BY <1>7

-----------------------------------------------------------------------------
(* Joined.                                                                 *)

(* An attachment crosses a side when exactly one of its ends is in it.     *)
LEMMA CrossesEnds ==
  ASSUME NEW a, NEW side
  PROVE  Crosses(a, side) <=> \/ HostNode(a) \in side /\ LinkNode(a) \notin side
                              \/ HostNode(a) \notin side /\ LinkNode(a) \in side
BY DEF Crosses

(* Any cut will do, also one with nodes the graph does not have.           *)
LEMMA CutJoined ==
  ASSUME NEW g, NEW u, NEW v, NEW side, Joined(g, u, v), u \in side, v \notin side
  PROVE  ~Uncrossed(g, side)
<1> DEFINE S == side \cap (NodesOf(g) \union {u})
<1>1. S \in SUBSET (NodesOf(g) \union {u}) /\ u \in S /\ v \notin S
  OBVIOUS
<1>2. PICK a \in g : Crosses(a, S)
  <2> HIDE DEF S
  <2> QED BY <1>1 DEF Joined
<1>3. HostNode(a) \in NodesOf(g) /\ LinkNode(a) \in NodesOf(g)
  BY DEF NodesOf
<1>4. Crosses(a, side)
  BY <1>2, <1>3, CrossesEnds
<1>5. QED
  BY <1>4 DEF Uncrossed

(* Nodes that are not joined have a cut between them.                      *)
LEMMA NotJoinedCut ==
  ASSUME NEW g, NEW u, NEW v, ~Joined(g, u, v)
  PROVE  \E side : u \in side /\ v \notin side /\ Uncrossed(g, side)
BY DEF Joined, Uncrossed

(* Joined is reflexive, symmetric, transitive and grows with the graph; an *)
(* attachment joins its ends.                                              *)
LEMMA JoinedSelf ==
  ASSUME NEW g, NEW u
  PROVE  Joined(g, u, u)
BY DEF Joined

(* Joining runs both ways.                                                 *)
LEMMA JoinedSymmetric ==
  ASSUME NEW g, NEW u, NEW v, Joined(g, u, v)
  PROVE  Joined(g, v, u)
<1>1. SUFFICES ASSUME ~Joined(g, v, u) PROVE FALSE
  OBVIOUS
<1>2. PICK side : v \in side /\ u \notin side /\ Uncrossed(g, side)
  BY <1>1, NotJoinedCut
<1> DEFINE S == (NodesOf(g) \union {u}) \ side
<1>3. u \in S /\ v \notin S
  BY <1>2
<1>4. ASSUME NEW a \in g PROVE ~Crosses(a, S)
  <2>1. HostNode(a) \in NodesOf(g) /\ LinkNode(a) \in NodesOf(g)
    BY DEF NodesOf
  <2>2. ~Crosses(a, side)
    BY <1>2 DEF Uncrossed
  <2>3. QED
    BY <2>1, <2>2, CrossesEnds
<1>5. Uncrossed(g, S)
  BY <1>4 DEF Uncrossed
<1>6. QED
  <2> HIDE DEF S
  <2> QED BY <1>3, <1>5, CutJoined

(* Joined nodes of joined nodes are joined.                                *)
LEMMA JoinedTransitive ==
  ASSUME NEW g, NEW u, NEW v, NEW w, Joined(g, u, v), Joined(g, v, w)
  PROVE  Joined(g, u, w)
<1>1. SUFFICES ASSUME ~Joined(g, u, w) PROVE FALSE
  OBVIOUS
<1>2. PICK side : u \in side /\ w \notin side /\ Uncrossed(g, side)
  BY <1>1, NotJoinedCut
<1>3. QED
  BY <1>2, CutJoined

(* What is joined stays joined in a larger graph.                          *)
LEMMA JoinedGrows ==
  ASSUME NEW g, NEW f, f \subseteq g, NEW u, NEW v, Joined(f, u, v)
  PROVE  Joined(g, u, v)
<1>1. SUFFICES ASSUME ~Joined(g, u, v) PROVE FALSE
  OBVIOUS
<1>2. PICK side : u \in side /\ v \notin side /\ Uncrossed(g, side)
  BY <1>1, NotJoinedCut
<1>3. Uncrossed(f, side)
  BY <1>2 DEF Uncrossed
<1>4. QED
  BY <1>2, <1>3, CutJoined

(* An attachment joins its host and its Link.                              *)
LEMMA JoinedEnds ==
  ASSUME NEW g, NEW a \in g
  PROVE  Joined(g, HostNode(a), LinkNode(a)) /\ Joined(g, LinkNode(a), HostNode(a))
<1>1. Joined(g, HostNode(a), LinkNode(a))
  <2>1. SUFFICES ASSUME ~Joined(g, HostNode(a), LinkNode(a)) PROVE FALSE
    OBVIOUS
  <2>2. PICK side : HostNode(a) \in side /\ LinkNode(a) \notin side /\ Uncrossed(g, side)
    BY <2>1, NotJoinedCut
  <2>3. QED
    BY <2>2, CrossesEnds DEF Uncrossed
<1>2. QED
  BY <1>1, JoinedSymmetric

(* A side that nothing crosses holds all that is joined to one of its nodes.*)
LEMMA ClosedSide ==
  ASSUME NEW g, NEW side, Uncrossed(g, side), NEW u \in side, NEW v, Joined(g, u, v)
  PROVE  v \in side
BY CutJoined

-----------------------------------------------------------------------------
(* The way to a node.                                                      *)

(* A node has at most one attachment over which all its ways to o go.      *)
LEMMA ViaUnique ==
  ASSUME NEW g, NEW o, NEW n, NEW a \in g, NEW b \in g, Incident(n, a), Incident(n, b),
         Via(g, o, n, a), Via(g, o, n, b), Joined(g, n, o)
  PROVE  a = b
<1>1. SUFFICES ASSUME a # b PROVE FALSE
  OBVIOUS
<1>2. PICK A : n \in A /\ o \notin A /\ Uncrossed(g \ {a}, A)
  BY NotJoinedCut DEF Via
<1>3. PICK B : n \in B /\ o \notin B /\ Uncrossed(g \ {b}, B)
  BY NotJoinedCut DEF Via
<1>4. ASSUME NEW e \in g PROVE ~Crosses(e, A \union B)
  <2>1. e # a => ~Crosses(e, A)
    BY <1>2 DEF Uncrossed
  <2>2. e # b => ~Crosses(e, B)
    BY <1>3 DEF Uncrossed
  <2>3. e = a => HostNode(e) \in B /\ LinkNode(e) \in B
    BY <1>1, <1>3, <2>2, CrossesEnds DEF Incident
  <2>4. e = b => HostNode(e) \in A /\ LinkNode(e) \in A
    BY <1>1, <1>2, <2>1, CrossesEnds DEF Incident
  <2>5. QED
    BY <2>1, <2>2, <2>3, <2>4, CrossesEnds
<1>5. Uncrossed(g, A \union B)
  BY <1>4 DEF Uncrossed
<1>6. QED
  BY <1>2, <1>3, <1>5, CutJoined

(* An attachment of a loop-free graph lies on the way of exactly one of    *)
(* its ends.                                                               *)
LEMMA ViaOneEnd ==
  ASSUME NEW g, NEW o, NEW a \in g, LoopFree(g), Joined(g, HostNode(a), o)
  PROVE  Via(g, o, HostNode(a), a) <=> ~Via(g, o, LinkNode(a), a)
<1>1. ASSUME Via(g, o, HostNode(a), a), Via(g, o, LinkNode(a), a) PROVE FALSE
  <2>1. PICK A : HostNode(a) \in A /\ o \notin A /\ Uncrossed(g \ {a}, A)
    BY <1>1, NotJoinedCut DEF Via
  <2>2. PICK B : LinkNode(a) \in B /\ o \notin B /\ Uncrossed(g \ {a}, B)
    BY <1>1, NotJoinedCut DEF Via
  <2>3. ASSUME NEW e \in g PROVE ~Crosses(e, A \union B)
    <3>1. e # a => ~Crosses(e, A) /\ ~Crosses(e, B)
      BY <2>1, <2>2 DEF Uncrossed
    <3>2. QED
      BY <2>1, <2>2, <3>1, CrossesEnds
  <2>4. Uncrossed(g, A \union B)
    BY <2>3 DEF Uncrossed
  <2>5. QED
    BY <2>1, <2>2, <2>4, CutJoined
<1>2. ASSUME ~Via(g, o, HostNode(a), a), ~Via(g, o, LinkNode(a), a) PROVE FALSE
  <2>1. Joined(g \ {a}, HostNode(a), o) /\ Joined(g \ {a}, o, LinkNode(a))
    BY <1>2, JoinedSymmetric DEF Via
  <2>2. Joined(g \ {a}, HostNode(a), LinkNode(a))
    BY <2>1, JoinedTransitive
  <2>3. QED
    BY <2>2 DEF LoopFree
<1>3. QED
  BY <1>1, <1>2

(* There is no way from a node to itself that an attachment could lie on.  *)
LEMMA ViaNotSelf ==
  ASSUME NEW g, NEW o, NEW a
  PROVE  ~Via(g, o, o, a)
BY JoinedSelf DEF Via

(* When removing a separates u from v, one end of a is still joined to u   *)
(* and the other to v.                                                     *)
LEMMA SplitEnds ==
  ASSUME NEW g, NEW a \in g, NEW u, NEW v, Joined(g, u, v), ~Joined(g \ {a}, u, v)
  PROVE  \/ Joined(g \ {a}, u, HostNode(a)) /\ Joined(g \ {a}, LinkNode(a), v)
         \/ Joined(g \ {a}, u, LinkNode(a)) /\ Joined(g \ {a}, HostNode(a), v)
<1>1. PICK A : u \in A /\ v \notin A /\ Uncrossed(g \ {a}, A)
  BY NotJoinedCut
<1>2. Crosses(a, A)
  <2>1. PICK e \in g : Crosses(e, A)
    BY <1>1, CutJoined DEF Uncrossed
  <2>2. QED
    BY <1>1, <2>1 DEF Uncrossed
<1>3. ASSUME NEW x, NEW y, Incident(x, a), Incident(y, a), x \in A, y \notin A
      PROVE  Joined(g \ {a}, u, x) /\ Joined(g \ {a}, y, v)
  <2>0. \A n : Incident(n, a) => n = x \/ n = y
    BY <1>3 DEF Incident
  <2>1. ASSUME ~Joined(g \ {a}, u, x) PROVE FALSE
    <3>1. PICK S : u \in S /\ x \notin S /\ Uncrossed(g \ {a}, S)
      BY <2>1, NotJoinedCut
    <3>2. ASSUME NEW e \in g PROVE ~Crosses(e, S \cap A)
      <4>1. e # a => ~Crosses(e, A) /\ ~Crosses(e, S)
        BY <1>1, <3>1 DEF Uncrossed
      <4>2. e = a => HostNode(e) \notin S \cap A /\ LinkNode(e) \notin S \cap A
        BY <1>3, <2>0, <3>1 DEF Incident
      <4>3. QED
        BY <4>1, <4>2, CrossesEnds
    <3>3. QED
      <4>1. Uncrossed(g, S \cap A)
        BY <3>2 DEF Uncrossed
      <4>2. QED
        BY <1>1, <3>1, <4>1, CutJoined
  <2>2. ASSUME ~Joined(g \ {a}, y, v) PROVE FALSE
    <3>1. PICK S : y \in S /\ v \notin S /\ Uncrossed(g \ {a}, S)
      BY <2>2, NotJoinedCut
    <3>2. ASSUME NEW e \in g PROVE ~Crosses(e, S \union A)
      <4>1. e # a => ~Crosses(e, A) /\ ~Crosses(e, S)
        BY <1>1, <3>1 DEF Uncrossed
      <4>2. e = a => HostNode(e) \in S \union A /\ LinkNode(e) \in S \union A
        BY <1>3, <2>0, <3>1 DEF Incident
      <4>3. QED
        BY <4>1, <4>2, CrossesEnds
    <3>3. QED
      <4>1. Uncrossed(g, S \union A)
        BY <3>2 DEF Uncrossed
      <4>2. QED
        BY <1>1, <3>1, <4>1, CutJoined
  <2>3. QED
    BY <2>1, <2>2
<1>4. QED
  BY <1>2, <1>3, CrossesEnds DEF Incident

-----------------------------------------------------------------------------
(* Trees.                                                                  *)

(* The attachments of g with both ends in the side.                        *)
Inside(g, side) == {a \in g : HostNode(a) \in side /\ LinkNode(a) \in side}

(* A connected graph has at most one node more than it has attachments.    *)
LEMMA ConnectedSize ==
  ASSUME NEW nodes, IsFiniteSet(nodes), nodes # {}, NEW g, IsFiniteSet(g),
         NodesOf(g) \subseteq nodes, Connected(nodes, g)
  PROVE  Cardinality(nodes) <= Cardinality(g) + 1
<1> DEFINE Grown == {S \in SUBSET nodes :
                       S # {} /\ Cardinality(S) <= Cardinality(Inside(g, S)) + 1}
<1>1. ASSUME NEW S \in SUBSET nodes
      PROVE  /\ IsFiniteSet(S) /\ Cardinality(S) \in Nat
             /\ IsFiniteSet(Inside(g, S)) /\ Cardinality(Inside(g, S)) \in Nat
             /\ Cardinality(Inside(g, S)) <= Cardinality(g)
  <2>1. IsFiniteSet(S) /\ Cardinality(S) \in Nat
    BY FS_Subset, FS_CardinalityType
  <2>2. Inside(g, S) \in SUBSET g
    BY DEF Inside
  <2>3. QED
    BY <2>1, <2>2, FS_Subset, FS_CardinalityType
<1>2. Grown # {}
  <2>1. PICK n \in nodes : TRUE
    OBVIOUS
  <2>2. {n} \in SUBSET nodes /\ Cardinality({n}) = 1
    BY FS_Singleton
  <2>3. Cardinality(Inside(g, {n})) \in Nat
    BY <1>1, <2>2
  <2>4. {n} \in Grown
    BY <2>2, <2>3
  <2>5. QED
    BY <2>4
<1>3. PICK S \in Grown : \A R \in Grown : Cardinality(S) >= Cardinality(R)
  <2>1. Grown \in SUBSET SUBSET nodes
    OBVIOUS
  <2>2. QED
    <3> HIDE DEF Grown
    <3> QED BY <1>2, <2>1, GreatestSubset
<1>4. ASSUME S # nodes PROVE FALSE
  <2>1. PICK a \in g : Crosses(a, S)
    BY <1>3, <1>4 DEF Connected
  <2>2. HostNode(a) \in nodes /\ LinkNode(a) \in nodes
    BY DEF NodesOf
  <2>3. PICK n \in nodes : /\ n \notin S /\ Incident(n, a)
                           /\ HostNode(a) \in S \union {n} /\ LinkNode(a) \in S \union {n}
    BY <2>1, <2>2, CrossesEnds DEF Incident
  <2> DEFINE R == S \union {n}
  <2>4. R \in SUBSET nodes /\ R # {}
    BY <2>3
  <2>5. Cardinality(R) = Cardinality(S) + 1
    <3>1. IsFiniteSet(S)
      BY <1>1, <1>3
    <3>2. QED
      BY <2>3, <3>1, FS_AddElement
  <2>6. Cardinality(Inside(g, R)) >= Cardinality(Inside(g, S)) + 1
    <3>1. a \notin Inside(g, S)
      BY <2>3 DEF Inside, Incident
    <3>2. Cardinality(Inside(g, S) \union {a}) = Cardinality(Inside(g, S)) + 1
      BY <1>1, <3>1, FS_AddElement
    <3>3. Inside(g, S) \union {a} \in SUBSET Inside(g, R)
      BY <2>3 DEF Inside
    <3>4. IsFiniteSet(Inside(g, R))
      BY <1>1, <2>4
    <3>5. Cardinality(Inside(g, S) \union {a}) <= Cardinality(Inside(g, R))
      BY <3>3, <3>4, FS_Subset
    <3>6. QED
      BY <3>2, <3>5
  <2>7. Cardinality(S) \in Nat /\ Cardinality(Inside(g, S)) \in Nat
        /\ Cardinality(Inside(g, R)) \in Nat
    BY <1>1, <2>4
  <2>8. Cardinality(S) <= Cardinality(Inside(g, S)) + 1
    BY <1>3
  <2>9. Cardinality(R) <= Cardinality(Inside(g, R)) + 1
    <3> HIDE DEF R
    <3> QED BY <2>5, <2>6, <2>7, <2>8
  <2>10. R \in Grown
    BY <2>4, <2>9
  <2>11. QED
    <3>1. Cardinality(S) >= Cardinality(R)
      BY <1>3, <2>10
    <3>2. QED
      <4> HIDE DEF R
      <4> QED BY <2>5, <2>7, <3>1
<1>5. Cardinality(nodes) <= Cardinality(Inside(g, nodes)) + 1
  BY <1>3, <1>4
<1>6. QED
  <2>1. Cardinality(g) \in Nat
    BY FS_CardinalityType
  <2>2. QED
    BY <1>1, <1>5, <2>1

(* The nodes of a connected graph are joined.                              *)
LEMMA ConnectedJoined ==
  ASSUME NEW nodes, NEW g, NodesOf(g) \subseteq nodes, Connected(nodes, g),
         NEW u \in nodes, NEW v \in nodes
  PROVE  Joined(g, u, v)
<1>1. SUFFICES ASSUME NEW side \in SUBSET (NodesOf(g) \union {u}), u \in side, v \notin side
               PROVE  \E a \in g : Crosses(a, side)
  BY DEF Joined
<1>2. side \in (SUBSET nodes) \ {{}, nodes}
  BY <1>1
<1>3. QED
  BY <1>2 DEF Connected

(* A tree is loop-free.                                                    *)
LEMMA TreeLoopFree ==
  ASSUME NEW nodes, IsFiniteSet(nodes), NEW g, IsFiniteSet(g),
         NodesOf(g) \subseteq nodes, IsTree(nodes, g)
  PROVE  LoopFree(g)
<1>1. SUFFICES ASSUME NEW a \in g, Joined(g \ {a}, HostNode(a), LinkNode(a)) PROVE FALSE
  BY DEF LoopFree
<1> DEFINE f == g \ {a}
<1>2. ASSUME NEW side \in (SUBSET nodes) \ {{}, nodes}
      PROVE  \E e \in f : Crosses(e, side)
  <2>1. PICK e \in g : Crosses(e, side)
    BY DEF IsTree, Connected
  <2>2. CASE e # a
    BY <2>1, <2>2
  <2>3. CASE e = a
    <3>1. CASE HostNode(a) \in side /\ LinkNode(a) \notin side
      BY <1>1, <3>1, CutJoined DEF Uncrossed
    <3>2. CASE HostNode(a) \notin side /\ LinkNode(a) \in side
      BY <1>1, <3>2, CutJoined, JoinedSymmetric DEF Uncrossed
    <3>3. QED
      BY <2>1, <2>3, <3>1, <3>2, CrossesEnds
  <2>4. QED
    BY <2>2, <2>3
<1>3. Connected(nodes, f)
  BY <1>2 DEF Connected
<1>4. NodesOf(f) \subseteq nodes
  BY DEF NodesOf
<1>5. nodes # {}
  BY DEF NodesOf
<1>6. IsFiniteSet(f) /\ Cardinality(f) = Cardinality(g) - 1
  BY <1>1, FS_RemoveElement
<1>7. Cardinality(nodes) <= Cardinality(f) + 1
  <2> HIDE DEF f
  <2> QED BY <1>3, <1>4, <1>5, <1>6, ConnectedSize
<1>8. Cardinality(g) + 1 = Cardinality(nodes) /\ Cardinality(g) \in Nat
  BY FS_CardinalityType DEF IsTree
<1>9. QED
  <2> HIDE DEF f
  <2> QED BY <1>6, <1>7, <1>8

-----------------------------------------------------------------------------
(* The four ways to select a Wire.                                         *)

(* There are finitely many attachments, and finitely many nodes.           *)
LEMMA FiniteAttachments ==
  IsFiniteSet(Attachments)
<1> DEFINE f == [p \in Hosts \X Links |-> [host |-> p[1], link |-> p[2]]]
<1>1. IsFiniteSet(Hosts \X Links)
  BY WiringAssumption, FS_Product
<1>2. ASSUME NEW a \in Attachments PROVE \E p \in Hosts \X Links : f[p] = a
  <2>1. <<a.host, a.link>> \in Hosts \X Links
    BY DEF Attachments
  <2>2. f[<<a.host, a.link>>] = a
    BY <2>1 DEF Attachments
  <2>3. QED
    BY <2>1, <2>2
<1>3. f \in [Hosts \X Links -> Attachments]
  BY DEF Attachments
<1>4. f \in Surjection(Hosts \X Links, Attachments)
  <2> HIDE DEF f
  <2> QED BY <1>2, <1>3 DEF Surjection
<1>5. QED
  <2> HIDE DEF f
  <2> QED BY <1>1, <1>4, FS_Surjection

(* A Wire has finitely many attachments and nodes.                         *)
LEMMA FiniteNodes ==
  ASSUME NEW g \in SUBSET Attachments
  PROVE  IsFiniteSet(g) /\ IsFiniteSet(NodesOf(g))
<1>1. IsFiniteSet(g)
  BY FiniteAttachments, FS_Subset
<1> DEFINE hn == [a \in g |-> HostNode(a)]
           ln == [a \in g |-> LinkNode(a)]
           HN == {HostNode(a) : a \in g}
           LN == {LinkNode(a) : a \in g}
<1>2. hn \in Surjection(g, HN)
  BY DEF Surjection
<1>3. ln \in Surjection(g, LN)
  BY DEF Surjection
<1>4. IsFiniteSet(HN) /\ IsFiniteSet(LN)
  <2> HIDE DEF hn, ln, HN, LN
  <2> QED BY <1>1, <1>2, <1>3, FS_Surjection
<1>5. IsFiniteSet(HN \union LN)
  <2> HIDE DEF HN, LN
  <2> QED BY <1>4, FS_Union
<1>6. QED
  BY <1>1, <1>5 DEF NodesOf

(* A realization the compiler accepts.                                     *)
LEMMA RealizationSound ==
  ASSUME NEW g \in SUBSET Attachments, NEW selected \in SUBSET g, NEW members,
         RealizationAccepts(selected), Visits(selected, members)
  PROVE  Sound(g, members, selected)
<1>1. IsFiniteSet(selected) /\ IsFiniteSet(NodesOf(selected))
  BY FiniteNodes
<1>2. IsTree(NodesOf(selected), selected) /\ Cardinality(selected) >= 2
  BY DEF RealizationAccepts
<1>3. LoopFree(selected)
  BY <1>1, <1>2, TreeLoopFree
<1>4. PICK c \in selected : TRUE
  BY <1>2, FS_EmptySet
<1>5. ASSUME NEW a \in selected PROVE Joined(selected, HostNode(a), HostNode(c))
  <2>1. HostNode(a) \in NodesOf(selected) /\ HostNode(c) \in NodesOf(selected)
    BY DEF NodesOf
  <2>2. QED
    BY <1>2, <2>1, ConnectedJoined DEF IsTree
<1>6. ASSUME NEW m \in members PROVE Joined(selected, <<"host", m>>, HostNode(c))
  <2>1. PICK a \in selected : a.host = m
    BY DEF Visits
  <2>2. HostNode(a) = <<"host", m>>
    BY <2>1 DEF HostNode
  <2>3. QED
    BY <1>5, <2>2
<1>7. QED
  BY <1>3, <1>5, <1>6 DEF Sound

(* A legacy list of Links the compiler accepts.                            *)
LEMMA LegacySound ==
  ASSUME NEW g \in SUBSET Attachments, NEW links,
         NEW members \in SUBSET Hosts, members # {}, LegacyAccepts(g, links, members)
  PROVE  Sound(g, members, legacy(g, links))
<1> DEFINE selected == legacy(g, links)
           MN == {<<"host", h>> : h \in members}
           nodes == NodesOf(selected) \union MN
<1>1. selected \in SUBSET g /\ selected \in SUBSET Attachments
  BY DEF legacy
<1>2. IsFiniteSet(selected) /\ IsFiniteSet(NodesOf(selected))
  BY <1>1, FiniteNodes
<1>3. IsFiniteSet(MN)
  <2>1. IsFiniteSet(members)
    BY WiringAssumption, FS_Subset
  <2> DEFINE f == [h \in members |-> <<"host", h>>]
  <2>2. f \in Surjection(members, MN)
    BY DEF Surjection
  <2>3. QED
    <3> HIDE DEF f, MN
    <3> QED BY <2>1, <2>2, FS_Surjection
<1>4. IsFiniteSet(nodes)
  <2> HIDE DEF MN, selected
  <2> QED BY <1>2, <1>3, FS_Union
<1>5. IsTree(nodes, selected)
  BY DEF LegacyAccepts
<1>6. NodesOf(selected) \subseteq nodes /\ MN \subseteq nodes
  OBVIOUS
<1>7. LoopFree(selected)
  <2> HIDE DEF nodes, selected
  <2> QED BY <1>2, <1>4, <1>5, <1>6, TreeLoopFree
<1>8. PICK r \in members : TRUE
  OBVIOUS
<1>9. ASSUME NEW u \in nodes PROVE Joined(selected, u, <<"host", r>>)
  <2>1. <<"host", r>> \in nodes
    OBVIOUS
  <2>2. QED
    <3> HIDE DEF nodes, selected
    <3> QED BY <1>5, <1>6, <2>1, ConnectedJoined DEF IsTree
<1>10. \A a \in selected : HostNode(a) \in nodes
  BY DEF NodesOf
<1>11. \A m \in members : <<"host", m>> \in nodes
  OBVIOUS
<1>12. QED
  <2> HIDE DEF nodes
  <2> QED BY <1>1, <1>7, <1>9, <1>10, <1>11 DEF Sound

(* Inference over bridges: when members are joined by bridges, those that  *)
(* separate one from the root already join them.                           *)
LEMMA InferSound ==
  ASSUME NEW g \in SUBSET Attachments, NEW members, InferAccepts(g, members)
  PROVE  Sound(g, members, infer(g, members))
<1> DEFINE B == Bridges(g)
           T == infer(g, members)
           root == <<"host", InferRoot(members)>>
<1>1. T \subseteq B /\ B \subseteq g
  BY DEF infer, Bridges
<1>2. ASSUME NEW f, f \subseteq g, NEW a \in B
      PROVE  ~Joined(f \ {a}, HostNode(a), LinkNode(a))
  <2>1. ~Joined(g \ {a}, HostNode(a), LinkNode(a))
    BY DEF Bridges
  <2>2. f \ {a} \subseteq g \ {a}
    BY <1>2
  <2>3. QED
    BY <2>1, <2>2, JoinedGrows
<1>3. LoopFree(T)
  BY <1>1, <1>2 DEF LoopFree
<1>4. ASSUME NEW h \in members PROVE Joined(T, root, <<"host", h>>)
  <2> DEFINE n == <<"host", h>>
             F == {S \in SUBSET B : Joined(S, root, n)}
  <2>1. F \in SUBSET SUBSET B /\ F # {}
    <3>1. B \in F
      BY DEF InferAccepts
    <3>2. QED
      BY <3>1
  <2>2. IsFiniteSet(B)
    BY <1>1, FiniteAttachments, FS_Subset
  <2>3. PICK S \in F : \A R \in F : Cardinality(S) <= Cardinality(R)
    <3> HIDE DEF F, B
    <3> QED BY <2>1, <2>2, LeastSubset
  <2>4. S \subseteq B /\ Joined(S, root, n)
    BY <2>3
  <2>5. ASSUME NEW a \in S PROVE a \in T
    <3>1. ~Joined(S \ {a}, root, n)
      <4>1. IsFiniteSet(S) /\ Cardinality(S) \in Nat
        BY <2>2, <2>4, FS_Subset, FS_CardinalityType
      <4>2. Cardinality(S \ {a}) = Cardinality(S) - 1
        BY <2>5, <4>1, FS_RemoveElement
      <4>3. S \ {a} \notin F
        BY <2>3, <4>1, <4>2
      <4>4. S \ {a} \in SUBSET B
        BY <2>4
      <4>5. QED
        BY <4>3, <4>4
    <3>2. ~Joined(B \ {a}, root, n)
      <4>1. SUFFICES ASSUME Joined(B \ {a}, root, n) PROVE FALSE
        OBVIOUS
      <4>2. S \ {a} \subseteq B \ {a}
        BY <2>4
      <4>3. \A u, v : Joined(S \ {a}, u, v) => Joined(B \ {a}, u, v)
        BY <4>2, JoinedGrows
      <4>4. \/ Joined(B \ {a}, root, HostNode(a)) /\ Joined(B \ {a}, LinkNode(a), n)
            \/ Joined(B \ {a}, root, LinkNode(a)) /\ Joined(B \ {a}, HostNode(a), n)
        <5> HIDE DEF root, n, B
        <5> QED BY <2>4, <3>1, <4>3, SplitEnds
      <4>5. Joined(B \ {a}, HostNode(a), LinkNode(a))
        <5> HIDE DEF root, n, B
        <5> QED BY <4>1, <4>4, JoinedSymmetric, JoinedTransitive
      <4>6. QED
        BY <1>1, <1>2, <2>4, <4>5
    <3>3. QED
      BY <2>4, <3>2 DEF infer
  <2>6. QED
    <3> HIDE DEF T, root, B, F
    <3> QED BY <2>4, <2>5, JoinedGrows
<1>5. ASSUME NEW a \in T PROVE Joined(T, HostNode(a), root)
  <2>1. PICK h \in members : ~Joined(B \ {a}, root, <<"host", h>>)
    BY DEF infer
  <2>2. ~Joined(T \ {a}, root, <<"host", h>>)
    <3>1. T \ {a} \subseteq B \ {a}
      BY <1>1
    <3>2. QED
      BY <2>1, <3>1, JoinedGrows
  <2>3. Joined(T, root, <<"host", h>>)
    BY <1>4
  <2>4. Joined(T \ {a}, root, HostNode(a)) \/ Joined(T \ {a}, root, LinkNode(a))
    <3> HIDE DEF T, root
    <3> QED BY <1>5, <2>2, <2>3, SplitEnds
  <2>5. Joined(T, root, HostNode(a)) \/ Joined(T, root, LinkNode(a))
    <3> HIDE DEF T, root
    <3>1. T \ {a} \subseteq T
      OBVIOUS
    <3>2. QED
      BY <2>4, <3>1, JoinedGrows
  <2>6. QED
    <3> HIDE DEF T, root
    <3> QED BY <1>5, <2>5, JoinedEnds, JoinedSymmetric, JoinedTransitive
<1>6. \A m \in members : Joined(T, <<"host", m>>, root)
  <2> HIDE DEF T, root
  <2> QED BY <1>4, JoinedSymmetric
<1>7. QED
  <2> HIDE DEF B, root
  <2> QED BY <1>1, <1>3, <1>5, <1>6 DEF Sound

(* The hosts of a chain up to its i-th departure and its first j Links.    *)
Passed(path, i, j) ==
  {HostNode(Departure(path, k)) : k \in 1..i} \union {LinkNode(Departure(path, k)) : k \in 1..j}

(* A chain visits no host and no Link twice: the ends of its attachments   *)
(* by their places.                                                        *)
Placed(path, m) ==
  /\ \A i \in 1..m : LinkNode(Arrival(path, i)) = LinkNode(Departure(path, i))
  /\ \A i \in 2..m : HostNode(Departure(path, i)) = HostNode(Arrival(path, i - 1))
  /\ \A i, j \in 1..m :
       LinkNode(Departure(path, i)) = LinkNode(Departure(path, j)) => i = j
  /\ \A i, j \in 1..m :
       HostNode(Departure(path, i)) = HostNode(Departure(path, j)) => i = j
  /\ \A i, j \in 1..m :
       HostNode(Arrival(path, i)) = HostNode(Departure(path, j)) => j = i + 1

(* The positions of the hosts and Links on a path that the chain resolver  *)
(* accepts: no host and no Link occurs twice.                              *)
LEMMA ChainPlaces ==
  ASSUME NEW path, NEW m \in Nat, Len(path) = 2 * m, ChainAccepts(path)
  PROVE  Placed(path, m)
<1>1. HopsOf(path) = 1..m
  <2>1. (2 * m) \div 2 = m
    OBVIOUS
  <2>2. QED
    BY <2>1 DEF HopsOf
<1>2. ASSUME NEW i \in 1..m
      PROVE  /\ Departure(path, i).link = Arrival(path, i).link
             /\ i > 1 => Departure(path, i).host = Arrival(path, i - 1).host
             /\ Arrival(path, i).host # Departure(path, 1).host
             /\ \A j \in 1..(i - 1) :
                  /\ Arrival(path, i).host # Arrival(path, j).host
                  /\ Departure(path, i).link # Departure(path, j).link
  BY <1>1 DEF ChainAccepts
<1>3. \A i, j \in 1..m : Departure(path, i).link = Departure(path, j).link => i = j
  <2>1. SUFFICES ASSUME NEW i \in 1..m, NEW j \in 1..m, i < j
                 PROVE  Departure(path, i).link # Departure(path, j).link
    OBVIOUS
  <2>2. i \in 1..(j - 1)
    BY <2>1
  <2>3. QED
    BY <1>2, <2>2
<1>4. \A i, j \in 1..m : Arrival(path, i).host = Arrival(path, j).host => i = j
  <2>1. SUFFICES ASSUME NEW i \in 1..m, NEW j \in 1..m, i < j
                 PROVE  Arrival(path, i).host # Arrival(path, j).host
    OBVIOUS
  <2>2. i \in 1..(j - 1)
    BY <2>1
  <2>3. QED
    BY <1>2, <2>2
<1>5. \A i, j \in 1..m : Arrival(path, i).host = Departure(path, j).host => j = i + 1
  <2>1. SUFFICES ASSUME NEW i \in 1..m, NEW j \in 1..m,
                        Arrival(path, i).host = Departure(path, j).host
                 PROVE  j = i + 1
    OBVIOUS
  <2>2. j > 1
    BY <1>2, <2>1
  <2>3. j - 1 \in 1..m /\ Arrival(path, j - 1).host = Arrival(path, i).host
    BY <1>2, <2>1, <2>2
  <2>4. j - 1 = i
    BY <1>4, <2>3
  <2>5. QED
    BY <2>4
<1>6. \A i, j \in 1..m : Departure(path, i).host = Departure(path, j).host => i = j
  <2>1. SUFFICES ASSUME NEW i \in 1..m, NEW j \in 1..m, i < j,
                        Departure(path, i).host = Departure(path, j).host
                 PROVE  FALSE
    OBVIOUS
  <2>2. j > 1 /\ j - 1 \in 1..m /\ Arrival(path, j - 1).host = Departure(path, i).host
    BY <1>2, <2>1
  <2>3. i = (j - 1) + 1
    BY <1>5, <2>2
  <2>4. QED
    BY <2>1, <2>3
<1>7. \A i \in 1..m : LinkNode(Arrival(path, i)) = LinkNode(Departure(path, i))
  BY <1>2 DEF LinkNode
<1>8. \A i \in 2..m : HostNode(Departure(path, i)) = HostNode(Arrival(path, i - 1))
  BY <1>2 DEF HostNode
<1>9. \A i, j \in 1..m :
        LinkNode(Departure(path, i)) = LinkNode(Departure(path, j)) => i = j
  BY <1>3 DEF LinkNode
<1>10. \A i, j \in 1..m :
         HostNode(Departure(path, i)) = HostNode(Departure(path, j)) => i = j
  BY <1>6 DEF HostNode
<1>11. \A i, j \in 1..m :
         HostNode(Arrival(path, i)) = HostNode(Departure(path, j)) => j = i + 1
  BY <1>5 DEF HostNode
<1>12. QED
  BY <1>7, <1>8, <1>9, <1>10, <1>11 DEF Placed

(* A Path the compiler accepts.                                            *)
LEMMA ChainSound ==
  ASSUME NEW g \in SUBSET Attachments, NEW path \in DeclaredPaths(g), NEW members,
         ChainAccepts(path), Visits(chain(path), members)
  PROVE  Sound(g, members, chain(path))
<1>1. PICK m \in 1..MaximumHops : path \in [1..(2 * m) -> g]
  BY DEF DeclaredPaths
<1>2. m \in Nat \ {0}
  BY <1>1, WiringAssumption
<1>3. Len(path) = 2 * m
  BY <1>1, <1>2
<1> DEFINE D(i) == HostNode(Departure(path, i))
           A(i) == HostNode(Arrival(path, i))
           L(i) == LinkNode(Departure(path, i))
           T == chain(path)
<1>4. /\ \A i \in 1..m : LinkNode(Arrival(path, i)) = L(i)
      /\ \A i \in 2..m : D(i) = A(i - 1)
      /\ \A i, j \in 1..m : L(i) = L(j) => i = j
      /\ \A i, j \in 1..m : D(i) = D(j) => i = j
      /\ \A i, j \in 1..m : A(i) = D(j) => j = i + 1
  <2>1. m \in Nat
    BY <1>2
  <2>2. Placed(path, m)
    BY <1>3, <2>1, ChainPlaces
  <2>3. QED
    BY <2>2 DEF Placed
<1>5. \A a \in T : \E i \in 1..m : a = Departure(path, i) \/ a = Arrival(path, i)
  <2>1. SUFFICES ASSUME NEW x \in 1..(2 * m)
                 PROVE  \E i \in 1..m : path[x] = Departure(path, i) \/ path[x] = Arrival(path, i)
    BY <1>1 DEF chain
  <2>2. PICK q \in Nat : x = 2 * q \/ x = 2 * q + 1
    <3>1. x \div 2 \in Nat /\ (x = 2 * (x \div 2) \/ x = 2 * (x \div 2) + 1)
      OBVIOUS
    <3>2. QED
      BY <3>1
  <2>3. CASE x = 2 * q
    <3>1. q \in 1..m
      BY <1>2, <2>3
    <3>2. QED
      BY <2>3, <3>1 DEF Arrival
  <2>4. CASE x = 2 * q + 1
    <3>1. q + 1 \in 1..m /\ x = 2 * (q + 1) - 1
      BY <1>2, <2>4
    <3>2. QED
      BY <3>1 DEF Departure
  <2>5. QED
    BY <2>2, <2>3, <2>4
<1>6. \A i \in 1..m : Departure(path, i) \in T /\ Arrival(path, i) \in T
  <2>1. SUFFICES ASSUME NEW i \in 1..m PROVE 2 * i - 1 \in 1..(2 * m) /\ 2 * i \in 1..(2 * m)
    BY <1>1 DEF Departure, Arrival, chain
  <2>2. QED
    BY <1>2
<1>7. T \subseteq g
  BY <1>1 DEF chain
<1>8. \A u, v : HostNode(u) # LinkNode(v)
  BY DEF HostNode, LinkNode
<1>9. ASSUME NEW a \in T PROVE ~Joined(T \ {a}, HostNode(a), LinkNode(a))
  <2>1. PICK i \in 1..m : a = Departure(path, i) \/ a = Arrival(path, i)
    BY <1>5
  <2>2. ASSUME NEW n \in 0..m, NEW k \in 1..m
        PROVE  /\ D(k) \in Passed(path, i, n) <=> k <= i
               /\ L(k) \in Passed(path, i, n) <=> k <= n
               /\ A(k) \in Passed(path, i, n) <=> k + 1 <= i
    <3>1. D(k) \in Passed(path, i, n) <=> k <= i
      BY <1>4, <1>8 DEF Passed
    <3>2. L(k) \in Passed(path, i, n) <=> k <= n
      BY <1>4, <1>8 DEF Passed
    <3>3. A(k) \in Passed(path, i, n) => k + 1 <= i
      <4>1. SUFFICES ASSUME A(k) \in Passed(path, i, n) PROVE k + 1 <= i
        OBVIOUS
      <4>2. PICK j \in 1..i : A(k) = D(j)
        BY <1>8, <4>1 DEF Passed
      <4>3. QED
        BY <1>4, <4>2
    <3>4. k + 1 <= i => A(k) \in Passed(path, i, n)
      <4>1. SUFFICES ASSUME k + 1 <= i PROVE A(k) \in Passed(path, i, n)
        OBVIOUS
      <4>2. k + 1 \in 2..m /\ k + 1 \in 1..i /\ (k + 1) - 1 = k
        BY <4>1
      <4>3. D(k + 1) = A(k)
        BY <1>4, <4>2
      <4>4. QED
        BY <4>2, <4>3 DEF Passed
    <3>5. QED
      BY <3>1, <3>2, <3>3, <3>4
  <2>3. ASSUME NEW n \in {i - 1, i}, NEW e \in T, Crosses(e, Passed(path, i, n))
        PROVE  IF n = i THEN e = Arrival(path, i) ELSE e = Departure(path, i)
    <3>1. n \in 0..m
      OBVIOUS
    <3>2. PICK k \in 1..m : e = Departure(path, k) \/ e = Arrival(path, k)
      BY <1>5
    <3>3. CASE e = Departure(path, k)
      <4>1. HostNode(e) = D(k) /\ LinkNode(e) = L(k)
        BY <3>3
      <4>2. (k <= i) # (k <= n)
        <5> HIDE DEF D, L, A, T
        <5> QED BY <2>2, <2>3, <3>1, <4>1, CrossesEnds
      <4>3. k = i /\ n = i - 1
        BY <4>2
      <4>4. QED
        BY <3>3, <4>3
    <3>4. CASE e = Arrival(path, k)
      <4>1. HostNode(e) = A(k) /\ LinkNode(e) = L(k)
        BY <1>4, <3>4
      <4>2. (k + 1 <= i) # (k <= n)
        <5> HIDE DEF D, L, A, T
        <5> QED BY <2>2, <2>3, <3>1, <4>1, CrossesEnds
      <4>3. k = i /\ n = i
        BY <4>2
      <4>4. QED
        BY <3>4, <4>3
    <3>5. QED
      BY <3>2, <3>3, <3>4
  <2>4. CASE a = Departure(path, i)
    <3> DEFINE S == Passed(path, i, i - 1)
    <3>1. Uncrossed(T \ {a}, S)
      <4> HIDE DEF T
      <4> QED BY <2>3, <2>4 DEF Uncrossed
    <3>2. HostNode(a) \in S /\ LinkNode(a) \notin S
      <4>1. i - 1 \in 0..m
        OBVIOUS
      <4>2. D(i) \in S /\ L(i) \notin S
        BY <2>2, <4>1
      <4>3. QED
        BY <2>4, <4>2
    <3>3. QED
      <4> HIDE DEF S, T
      <4> QED BY <3>1, <3>2, CutJoined
  <2>5. CASE a = Arrival(path, i)
    <3> DEFINE S == Passed(path, i, i)
    <3>1. Uncrossed(T \ {a}, S)
      <4> HIDE DEF T
      <4> QED BY <2>3, <2>5 DEF Uncrossed
    <3>2. LinkNode(a) \in S /\ HostNode(a) \notin S
      <4>1. A(i) \notin S /\ L(i) \in S
        BY <2>2
      <4>2. QED
        BY <1>4, <2>5, <4>1
    <3>3. QED
      <4> HIDE DEF S, T
      <4> QED BY <3>1, <3>2, CutJoined, JoinedSymmetric
  <2>6. QED
    BY <2>1, <2>4, <2>5
<1>10. LoopFree(T)
  BY <1>2, <1>9 DEF LoopFree
<1>11. ASSUME NEW side, D(1) \in side, Uncrossed(T, side)
       PROVE  \A i \in 1..m : D(i) \in side /\ A(i) \in side
  <2> DEFINE Out == {i \in 1..m : A(i) \notin side}
  <2>1. \A i \in 1..m : D(i) \in side => A(i) \in side
    <3>1. SUFFICES ASSUME NEW i \in 1..m, D(i) \in side PROVE A(i) \in side
      OBVIOUS
    <3>2. ~Crosses(Departure(path, i), side) /\ ~Crosses(Arrival(path, i), side)
      <4> HIDE DEF T
      <4> QED BY <1>6, <1>11 DEF Uncrossed
    <3>3. L(i) \in side
      BY <3>1, <3>2, CrossesEnds
    <3>4. QED
      BY <1>4, <3>2, <3>3, CrossesEnds
  <2>2. ASSUME Out # {} PROVE FALSE
    <3>1. PICK i \in Out : \A j \in Out : i <= j
      <4>1. Out \subseteq Nat
        OBVIOUS
      <4>2. QED
        <5> HIDE DEF Out
        <5> QED BY <2>2, <4>1, LeastNatural
    <3>2. i # 1
      BY <1>11, <2>1, <3>1
    <3>3. i - 1 \in 1..m /\ i - 1 \notin Out /\ i \in 2..m
      BY <3>1, <3>2
    <3>4. D(i) \in side
      BY <1>4, <3>3
    <3>5. QED
      BY <2>1, <3>1, <3>4
  <2>3. \A i \in 1..m : A(i) \in side
    BY <2>2
  <2>4. ASSUME NEW i \in 1..m PROVE D(i) \in side
    <3>1. CASE i = 1
      BY <1>11, <3>1
    <3>2. CASE i # 1
      <4>1. i \in 2..m /\ i - 1 \in 1..m
        BY <3>2
      <4>2. QED
        BY <1>4, <2>3, <4>1
    <3>3. QED
      BY <3>1, <3>2
  <2>5. QED
    BY <2>3, <2>4
<1>12. ASSUME NEW a \in T PROVE Joined(T, HostNode(a), D(1))
  <2>1. PICK i \in 1..m : a = Departure(path, i) \/ a = Arrival(path, i)
    BY <1>5
  <2>2. Joined(T, D(1), HostNode(a))
    <3>1. SUFFICES ASSUME ~Joined(T, D(1), HostNode(a)) PROVE FALSE
      OBVIOUS
    <3>2. PICK side : D(1) \in side /\ HostNode(a) \notin side /\ Uncrossed(T, side)
      <4> HIDE DEF D, T
      <4> QED BY <3>1, NotJoinedCut
    <3>3. QED
      BY <1>11, <2>1, <3>2
  <2>3. QED
    <3> HIDE DEF D, T
    <3> QED BY <2>2, JoinedSymmetric
<1>13. ASSUME NEW h \in members PROVE Joined(T, <<"host", h>>, D(1))
  <2>1. PICK a \in T : a.host = h
    BY DEF Visits
  <2>2. HostNode(a) = <<"host", h>>
    BY <2>1 DEF HostNode
  <2>3. QED
    BY <1>12, <2>2
<1>14. QED
  <2> HIDE DEF D
  <2> QED BY <1>7, <1>10, <1>12, <1>13 DEF Sound

(* Every Wire the compiler resolves is sound, whichever way its            *)
(* attachments were selected (resolve_deployment).                         *)
THEOREM ResolvedWiresAreSound ==
  ASSUME NEW g \in SUBSET Attachments, NEW wire \in ResolvedWires(g)
  PROVE  Sound(g, wire.members, wire.attachments) /\ wire.members \subseteq Hosts
<1>0. PICK members \in (SUBSET Hosts) \ {{}} :
        \E s \in Selections(g, members) : wire = [members |-> members, attachments |-> s]
  BY DEF ResolvedWires
<1>1. PICK selected \in Selections(g, members) :
        wire = [members |-> members, attachments |-> selected]
  BY <1>0
<1>2. Sound(g, members, selected)
  <2>1. CASE selected \in {s \in {infer(g, members)} : InferAccepts(g, members)}
    BY <2>1, InferSound
  <2>2. CASE selected \in {chain(path) : path \in
               {p \in DeclaredPaths(g) : ChainAccepts(p) /\ Visits(chain(p), members)}}
    BY <2>2, ChainSound
  <2>3. CASE selected \in {s \in SUBSET g : RealizationAccepts(s) /\ Visits(s, members)}
    BY <2>3, RealizationSound
  <2>4. CASE selected \in {legacy(g, links) : links \in
               {ls \in SUBSET Links : LegacyAccepts(g, ls, members)}}
    BY <2>4, LegacySound
  <2>5. QED
    BY <2>1, <2>2, <2>3, <2>4 DEF Selections
<1>3. QED
  BY <1>1, <1>2

-----------------------------------------------------------------------------
(* Egress bits.                                                            *)

(* The members of a finite set of numbers below a number.                  *)
Below(F, n) == {f \in F : f < n}

(* A byte has eight bits.                                                  *)
LEMMA EightBits ==
  IsFiniteSet(0..7) /\ Cardinality(0..7) = 8
<1>1. PICK n \in Nat : n = 7
  OBVIOUS
<1>2. IsFiniteSet(0..n) /\ Cardinality(0..n) = n + 1
  BY FS_Interval
<1>3. QED
  BY <1>1, <1>2

(* One number further, the count grows by that number's own place.         *)
LEMMA BelowNext ==
  ASSUME NEW F, F \subseteq Nat, IsFiniteSet(F), NEW n \in Nat
  PROVE  /\ Cardinality(Below(F, n)) \in Nat /\ Cardinality(Below(F, n + 1)) \in Nat
         /\ n \in F => Cardinality(Below(F, n + 1)) = Cardinality(Below(F, n)) + 1
         /\ n \notin F => Cardinality(Below(F, n + 1)) = Cardinality(Below(F, n))
<1>1. Below(F, n) \in SUBSET F /\ Below(F, n + 1) \in SUBSET F
  BY DEF Below
<1>2. IsFiniteSet(Below(F, n)) /\ Cardinality(Below(F, n)) \in Nat
      /\ Cardinality(Below(F, n + 1)) \in Nat
  BY <1>1, FS_Subset, FS_CardinalityType
<1>3. \A f \in F : f < n + 1 <=> f < n \/ f = n
  OBVIOUS
<1>4. ASSUME n \in F PROVE Cardinality(Below(F, n + 1)) = Cardinality(Below(F, n)) + 1
  <2>1. Below(F, n + 1) = Below(F, n) \union {n} /\ n \notin Below(F, n)
    <3>1. n \notin Below(F, n)
      BY DEF Below
    <3>2. \A f : f \in Below(F, n + 1) <=> f \in Below(F, n) \/ f = n
      BY <1>3, <1>4 DEF Below
    <3>3. QED
      BY <3>1, <3>2
  <2>2. QED
    BY <1>2, <2>1, FS_AddElement
<1>5. ASSUME n \notin F PROVE Below(F, n + 1) = Below(F, n)
  BY <1>3, <1>5 DEF Below
<1>6. QED
  BY <1>2, <1>4, <1>5

(* Counted from below, a set of bits has a member for every place.         *)
LEMMA PlacedBit ==
  ASSUME NEW F, F \subseteq 0..7, NEW k \in Nat, k < Cardinality(F)
  PROVE  \E bit \in F : Cardinality(Below(F, bit)) = k
<1>1. IsFiniteSet(F) /\ F \subseteq Nat
  <2>1. F \in SUBSET (0..7)
    OBVIOUS
  <2>2. IsFiniteSet(F)
    BY <2>1, EightBits, FS_Subset, Zenon
  <2>3. QED
    BY <2>2
<1> DEFINE More == {n \in Nat : Cardinality(Below(F, n)) > k}
<1>2. 8 \in More
  <2>1. \A f \in F : f < 8
    OBVIOUS
  <2>2. Below(F, 8) = F
    BY <2>1 DEF Below
  <2>3. QED
    BY <2>2
<1>3. PICK n \in More : \A m \in More : n <= m
  <2>1. More \subseteq Nat /\ More # {}
    BY <1>2
  <2>2. QED
    <3> HIDE DEF More
    <3> QED BY <2>1, LeastNatural
<1>4. n # 0
  <2>1. \A f \in F : ~(f < 0)
    BY <1>1
  <2>2. Below(F, 0) = {}
    BY <2>1 DEF Below
  <2>3. Cardinality(Below(F, 0)) = 0
    BY <2>2, FS_EmptySet
  <2>4. QED
    BY <1>3, <2>3
<1>5. PICK m \in Nat : n = m + 1
  <2>1. n - 1 \in Nat /\ n = (n - 1) + 1
    BY <1>3, <1>4
  <2>2. QED
    BY <2>1
<1>6. m \notin More
  BY <1>3, <1>5
<1>7. /\ Cardinality(Below(F, m)) \in Nat /\ Cardinality(Below(F, n)) \in Nat
      /\ m \in F => Cardinality(Below(F, n)) = Cardinality(Below(F, m)) + 1
      /\ m \notin F => Cardinality(Below(F, n)) = Cardinality(Below(F, m))
  <2> HIDE DEF More
  <2> QED BY <1>1, <1>5, BelowNext
<1>8. ~(Cardinality(Below(F, m)) > k) /\ Cardinality(Below(F, n)) > k
  BY <1>3, <1>6
<1>9. m \in F /\ Cardinality(Below(F, m)) = k
  <2> HIDE DEF More
  <2> QED BY <1>7, <1>8
<1>10. QED
  BY <1>9

(* The parts of egress_bit.                                                *)
PinnedOf(g, h) == InterfacesOf(g, h) \intersect DOMAIN PinnedBits
FreeBits(g, h) == 0..7 \ {PinnedBits[p] : p \in PinnedOf(g, h)}
EarlierThan(g, a) == {b \in InterfacesOf(g, a.host) \ PinnedOf(g, a.host) : b.link < a.link}

(* The graphs the schema admits: no host has more than eight interfaces.   *)
Admitted == {g \in SUBSET Attachments :
               \A h \in Hosts : Cardinality(InterfacesOf(g, h)) <= 8}

(* A host has at most eight interfaces, however many Links there are.      *)
LEMMA FewInterfaces ==
  ASSUME NEW g \in Admitted, NEW h \in Hosts
  PROVE  IsFiniteSet(InterfacesOf(g, h)) /\ Cardinality(InterfacesOf(g, h)) <= 8
<1> DEFINE I == InterfacesOf(g, h)
           f == [a \in I |-> a.link]
<1>1. f \in Injection(I, Links)
  <2>1. f \in [I -> Links]
    BY DEF Admitted, InterfacesOf, Attachments
  <2>2. \A a, b \in I : f[a] = f[b] => a = b
    BY DEF Admitted, InterfacesOf, Attachments
  <2>3. QED
    <3> HIDE DEF f, I
    <3> QED BY <2>1, <2>2 DEF Injection, IsInjective
<1>2. IsFiniteSet(I)
  <2> HIDE DEF f, I
  <2> QED BY <1>1, WiringAssumption, FS_Injection
<1>3. QED
  BY <1>2 DEF Admitted

(* An interface without an authored bit finds a free one, at the place its *)
(* name has among such interfaces.                                         *)
LEMMA FreeBitFound ==
  ASSUME NEW g \in Admitted, NEW a \in g, a \notin DOMAIN PinnedBits
  PROVE  /\ egress_bit(g, a) \in FreeBits(g, a.host)
         /\ Cardinality(Below(FreeBits(g, a.host), egress_bit(g, a)))
              = Cardinality(EarlierThan(g, a))
<1> DEFINE h == a.host
           mine == InterfacesOf(g, h)
           pinned == PinnedOf(g, h)
           taken == {PinnedBits[p] : p \in pinned}
           free == FreeBits(g, h)
           earlier == EarlierThan(g, a)
<1> g \in SUBSET Attachments /\ a.host \in Hosts
  BY DEF Admitted, Attachments
<1>1. IsFiniteSet(mine) /\ Cardinality(mine) <= 8 /\ Cardinality(mine) \in Nat
  BY FewInterfaces, FS_CardinalityType
<1>2. pinned \in SUBSET mine /\ a \in mine \ pinned
  BY DEF PinnedOf, InterfacesOf
<1>3. IsFiniteSet(pinned) /\ Cardinality(pinned) \in Nat
  <2> HIDE DEF mine, pinned
  <2> QED BY <1>1, <1>2, FS_Subset, FS_CardinalityType
<1>4. IsFiniteSet(taken) /\ Cardinality(taken) = Cardinality(pinned) /\ taken \in SUBSET (0..7)
  <2> DEFINE f == [p \in pinned |-> PinnedBits[p]]
  <2>1. f \in Surjection(pinned, taken)
    BY DEF Surjection
  <2>2. f \in Injection(pinned, taken)
    <3>1. \A p, q \in pinned : PinnedBits[p] = PinnedBits[q] => p = q
      BY WiringAssumption DEF PinnedOf, InterfacesOf
    <3>2. QED
      BY <3>1 DEF Injection, IsInjective
  <2>3. IsFiniteSet(taken) /\ Cardinality(taken) = Cardinality(pinned)
    <3> HIDE DEF f, taken, pinned
    <3> QED BY <1>3, <2>1, <2>2, FS_Surjection
  <2>4. taken \in SUBSET (0..7)
    BY WiringAssumption DEF PinnedOf
  <2>5. QED
    BY <2>3, <2>4
<1>5. free \in SUBSET (0..7) /\ Cardinality(free) = 8 - Cardinality(pinned)
  <2>1. free = 0..7 \ taken
    BY DEF FreeBits
  <2>2. IsFiniteSet(0..7) /\ Cardinality(0..7) = 8
    BY EightBits
  <2>3. (0..7) \cap taken = taken
    BY <1>4
  <2>4. Cardinality(free) = Cardinality(0..7) - Cardinality((0..7) \cap taken)
    <3> HIDE DEF free, taken
    <3> QED BY <2>1, <2>2, FS_Difference
  <2>5. QED
    <3> HIDE DEF free, taken
    <3> QED BY <1>4, <2>1, <2>2, <2>3, <2>4
<1>6. Cardinality(earlier) \in Nat /\ Cardinality(earlier) < Cardinality(free)
  <2>1. mine \cap pinned = pinned
    BY <1>2
  <2>2. IsFiniteSet(mine \ pinned)
        /\ Cardinality(mine \ pinned) = Cardinality(mine) - Cardinality(pinned)
    <3> HIDE DEF mine, pinned
    <3> QED BY <1>1, <2>1, FS_Difference
  <2>3. IsFiniteSet((mine \ pinned) \ {a})
        /\ Cardinality((mine \ pinned) \ {a}) = Cardinality(mine \ pinned) - 1
    <3> HIDE DEF mine, pinned
    <3> QED BY <1>2, <2>2, FS_RemoveElement
  <2>4. a.link \in Nat
    BY WiringAssumption DEF Attachments
  <2>5. earlier \in SUBSET ((mine \ pinned) \ {a})
    BY <2>4 DEF EarlierThan
  <2>6. Cardinality(earlier) \in Nat
        /\ Cardinality(earlier) <= Cardinality((mine \ pinned) \ {a})
    <3> HIDE DEF mine, pinned, earlier
    <3> QED BY <2>3, <2>5, FS_Subset, FS_CardinalityType
  <2>7. QED
    <3> HIDE DEF mine, pinned, earlier, free
    <3> QED BY <1>1, <1>3, <1>5, <2>2, <2>3, <2>6
<1>7. \E bit \in free : Cardinality(Below(free, bit)) = Cardinality(earlier)
  <2> HIDE DEF free, earlier
  <2> QED BY <1>5, <1>6, PlacedBit
<1>8. egress_bit(g, a) = CHOOSE bit \in free :
                           Cardinality({f \in free : f < bit}) = Cardinality(earlier)
  BY <1>2 DEF egress_bit, FreeBits, EarlierThan, PinnedOf
<1>9. QED
  <2> HIDE DEF free, earlier
  <2>1. /\ egress_bit(g, a) \in free
        /\ Cardinality(Below(free, egress_bit(g, a))) = Cardinality(earlier)
    BY <1>7, <1>8 DEF Below
  <2>2. QED
    BY <2>1 DEF free, earlier

(* The bits of a host's interfaces are within a byte and tell them apart   *)
(* (project_deployment).                                                   *)
LEMMA BitsTellApart ==
  ASSUME NEW g \in Admitted
  PROVE  /\ \A a \in g : egress_bit(g, a) \in 0..7
         /\ \A a, b \in g : a.host = b.host /\ egress_bit(g, a) = egress_bit(g, b) => a = b
<1> g \in SUBSET Attachments /\ \A a \in g : a.host \in Hosts
  BY DEF Admitted, Attachments
<1>1. ASSUME NEW a \in g, a \in DOMAIN PinnedBits
      PROVE  egress_bit(g, a) = PinnedBits[a] /\ a \in PinnedOf(g, a.host)
  BY <1>1 DEF egress_bit, PinnedOf, InterfacesOf
<1>2. \A a \in g : egress_bit(g, a) \in 0..7
  <2>1. SUFFICES ASSUME NEW a \in g PROVE egress_bit(g, a) \in 0..7
    OBVIOUS
  <2>2. CASE a \in DOMAIN PinnedBits
    BY <1>1, <2>2, WiringAssumption
  <2>3. CASE a \notin DOMAIN PinnedBits
    BY <2>3, FreeBitFound DEF FreeBits
  <2>4. QED
    BY <2>2, <2>3
<1>3. ASSUME NEW a \in g, NEW b \in g, a.host = b.host, a # b,
             a \in DOMAIN PinnedBits
      PROVE  egress_bit(g, a) # egress_bit(g, b)
  <2>1. CASE b \in DOMAIN PinnedBits
    BY <1>1, <1>3, <2>1, WiringAssumption
  <2>2. CASE b \notin DOMAIN PinnedBits
    <3>1. egress_bit(g, b) \in FreeBits(g, a.host)
      BY <1>3, <2>2, FreeBitFound
    <3>2. egress_bit(g, a) \notin FreeBits(g, a.host)
      BY <1>1, <1>3 DEF FreeBits
    <3>3. QED
      BY <3>1, <3>2
  <2>3. QED
    BY <2>1, <2>2
<1>4. ASSUME NEW a \in g, NEW b \in g, a.host = b.host, a.link < b.link,
             a \notin DOMAIN PinnedBits, b \notin DOMAIN PinnedBits
      PROVE  egress_bit(g, a) # egress_bit(g, b)
  <2>1. a.link \in Nat /\ b.link \in Nat
    BY WiringAssumption DEF Attachments
  <2>2. a \in EarlierThan(g, b) /\ a \notin EarlierThan(g, a)
    BY <1>4, <2>1 DEF EarlierThan, InterfacesOf, PinnedOf
  <2>3. EarlierThan(g, a) \subseteq EarlierThan(g, b)
    <3>1. \A c \in g : c.link \in Nat
      BY WiringAssumption DEF Attachments
    <3>2. QED
      BY <1>4, <2>1, <3>1 DEF EarlierThan, InterfacesOf
  <2>4. IsFiniteSet(EarlierThan(g, b))
    <3>1. EarlierThan(g, b) \in SUBSET InterfacesOf(g, b.host)
      BY DEF EarlierThan
    <3>2. QED
      BY <3>1, FewInterfaces, FS_Subset
  <2>5. Cardinality(EarlierThan(g, a)) # Cardinality(EarlierThan(g, b))
    BY <2>2, <2>3, <2>4, FS_Subset
  <2>6. QED
    BY <1>4, <2>5, FreeBitFound
<1>5. ASSUME NEW a \in g, NEW b \in g, a.host = b.host, egress_bit(g, a) = egress_bit(g, b)
      PROVE  a = b
  <2>1. SUFFICES ASSUME a # b PROVE FALSE
    OBVIOUS
  <2>2. a \notin DOMAIN PinnedBits /\ b \notin DOMAIN PinnedBits
    BY <1>3, <1>5, <2>1
  <2>3. a.link \in Nat /\ b.link \in Nat
    BY WiringAssumption DEF Attachments
  <2>4. a.link # b.link
    BY <1>5, <2>1 DEF Attachments
  <2>5. a.link < b.link \/ b.link < a.link
    BY <2>3, <2>4
  <2>6. QED
    BY <1>4, <1>5, <2>2, <2>5
<1>6. QED
  BY <1>2, <1>5

-----------------------------------------------------------------------------
(* The generated Forwarder.                                                *)

(* What a set of answers amounts to.                                       *)
Summary(answers) ==
  IF answers = {} THEN "NoEgress"
  ELSE IF answers = {"Accepted"} THEN "Accepted"
  ELSE IF "Accepted" \in answers THEN "Partial"
  ELSE IF "Rejected" \in answers THEN "Rejected"
  ELSE IF "TooLarge" \in answers THEN "TooLarge" ELSE "Full"

(* combineAdmission adds one answer to a summary.                          *)
LEMMA CombineSummary ==
  ASSUME NEW answers \in SUBSET Admissions, NEW next \in Admissions
  PROVE  combineAdmission(Summary(answers), next) = Summary(answers \union {next})
<1> DEFINE more == answers \union {next}
<1>1. CASE answers = {}
  BY <1>1 DEF Summary, combineAdmission, Admissions
<1>2. CASE answers = {"Accepted"}
  <2>1. Summary(answers) = "Accepted"
    BY <1>2 DEF Summary
  <2>2. next = "Accepted" => more = {"Accepted"}
    BY <1>2
  <2>3. next # "Accepted" => more # {} /\ more # {"Accepted"} /\ "Accepted" \in more
    BY <1>2
  <2>4. QED
    BY <2>1, <2>2, <2>3 DEF Summary, combineAdmission
<1>3. CASE answers # {} /\ answers # {"Accepted"} /\ "Accepted" \in answers
  <2>1. more # {} /\ more # {"Accepted"} /\ "Accepted" \in more
    BY <1>3
  <2>2. Summary(answers) = "Partial" /\ Summary(more) = "Partial"
    BY <1>3, <2>1 DEF Summary
  <2>3. next # "Partial"
    BY DEF Admissions
  <2>4. QED
    BY <2>2, <2>3 DEF combineAdmission
<1>4. CASE answers # {} /\ "Accepted" \notin answers
  <2>1. more # {} /\ more # {"Accepted"} /\ answers # {"Accepted"}
    BY <1>4
  <2>2. CASE next = "Accepted"
    <3>1. Summary(more) = "Partial"
      BY <2>1, <2>2 DEF Summary
    <3>2. Summary(answers) \in {"Rejected", "TooLarge", "Full"}
      BY <1>4, <2>1 DEF Summary
    <3>3. QED
      BY <2>2, <3>1, <3>2 DEF combineAdmission
  <2>3. CASE next # "Accepted"
    <3>1. "Accepted" \notin more
      BY <1>4, <2>3
    <3>2. \A x : x \in more <=> x \in answers \/ x = next
      OBVIOUS
    <3>3. Summary(answers) = IF "Rejected" \in answers THEN "Rejected"
                             ELSE IF "TooLarge" \in answers THEN "TooLarge" ELSE "Full"
      BY <1>4, <2>1 DEF Summary
    <3>4. Summary(more) = IF "Rejected" \in more THEN "Rejected"
                          ELSE IF "TooLarge" \in more THEN "TooLarge" ELSE "Full"
      BY <2>1, <3>1 DEF Summary
    <3>5. next \in {"Rejected", "TooLarge", "Full"}
      BY <2>3 DEF Admissions
    <3>6. QED
      <4> HIDE DEF more
      <4> QED BY <3>2, <3>3, <3>4, <3>5 DEF combineAdmission
  <2>4. QED
    BY <2>2, <2>3
<1>5. QED
  BY <1>1, <1>2, <1>3, <1>4

(* The Forwarder's running result is a function.                           *)
IsRunning(r, egress, answer) ==
  r = [n \in 0..8 |-> IF n = 0 THEN "NoEgress"
                      ELSE IF n - 1 \in egress THEN combineAdmission(r[n - 1], answer[n - 1])
                      ELSE r[n - 1]]

(* combineAdmission's running value over the eight interface bits exists,  *)
(* so the fold the model writes as a function is defined.                  *)
LEMMA RunningExists ==
  ASSUME NEW egress, NEW answer
  PROVE  \E r : IsRunning(r, egress, answer)
<1> DEFINE next(v, n) == IF n \in egress THEN combineAdmission(v, answer[n]) ELSE v
<1>1. PICK v0 : v0 = "NoEgress"
  OBVIOUS
<1>2. PICK v1 : v1 = next(v0, 0)
  OBVIOUS
<1>3. PICK v2 : v2 = next(v1, 1)
  OBVIOUS
<1>4. PICK v3 : v3 = next(v2, 2)
  OBVIOUS
<1>5. PICK v4 : v4 = next(v3, 3)
  OBVIOUS
<1>6. PICK v5 : v5 = next(v4, 4)
  OBVIOUS
<1>7. PICK v6 : v6 = next(v5, 5)
  OBVIOUS
<1>8. PICK v7 : v7 = next(v6, 6)
  OBVIOUS
<1>9. PICK v8 : v8 = next(v7, 7)
  OBVIOUS
<1> DEFINE r == [n \in 0..8 |-> IF n = 0 THEN v0 ELSE IF n = 1 THEN v1 ELSE IF n = 2 THEN v2
                   ELSE IF n = 3 THEN v3 ELSE IF n = 4 THEN v4 ELSE IF n = 5 THEN v5
                   ELSE IF n = 6 THEN v6 ELSE IF n = 7 THEN v7 ELSE v8]
<1>10. /\ r[0] = v0 /\ r[1] = v1 /\ r[2] = v2 /\ r[3] = v3 /\ r[4] = v4 /\ r[5] = v5
       /\ r[6] = v6 /\ r[7] = v7 /\ r[8] = v8
  OBVIOUS
<1>11. ASSUME NEW n \in 0..8, n # 0 PROVE r[n] = next(r[n - 1], n - 1)
  <2>1. n = 1 \/ n = 2 \/ n = 3 \/ n = 4 \/ n = 5 \/ n = 6 \/ n = 7 \/ n = 8
    BY <1>11
  <2>2. QED
    <3> HIDE DEF r, next
    <3> QED BY <1>2, <1>3, <1>4, <1>5, <1>6, <1>7, <1>8, <1>9, <1>10, <2>1
<1>12. \A n \in 0..8 : r[n] = IF n = 0 THEN "NoEgress" ELSE next(r[n - 1], n - 1)
  <2> HIDE DEF r, next
  <2> QED BY <1>1, <1>10, <1>11
<1>13. r = [n \in 0..8 |-> r[n]]
  OBVIOUS
<1>14. r = [n \in 0..8 |-> IF n = 0 THEN "NoEgress" ELSE next(r[n - 1], n - 1)]
  <2> HIDE DEF r, next
  <2> QED BY <1>12, <1>13
<1>15. QED
  <2>1. IsRunning(r, egress, answer)
    <3> HIDE DEF r
    <3> QED BY <1>14 DEF IsRunning
  <2>2. QED
    BY <2>1

(* The Forwarder reports the summary of its Links' answers.                *)
LEMMA ForwarderSummary ==
  ASSUME NEW egress, egress \subseteq 0..7, NEW answer \in [egress -> Admissions]
  PROVE  Forwarder(egress, answer) =
           IF egress = {} THEN "Accepted" ELSE Summary({answer[b] : b \in egress})
<1> DEFINE r == CHOOSE r : IsRunning(r, egress, answer)
<1>1. IsRunning(r, egress, answer)
  BY RunningExists
<1>2. Forwarder(egress, answer) = IF r[8] = "NoEgress" THEN "Accepted" ELSE r[8]
  BY DEF Forwarder, IsRunning
<1> HIDE DEF r
<1> DEFINE Seen(n) == {answer[b] : b \in Below(egress, n)}
           Wrong == {n \in 0..8 : r[n] # Summary(Seen(n))}
<1>3. \A n \in 0..8 : r[n] = IF n = 0 THEN "NoEgress"
                      ELSE IF n - 1 \in egress THEN combineAdmission(r[n - 1], answer[n - 1])
                      ELSE r[n - 1]
  BY <1>1 DEF IsRunning
<1>4. ASSUME Wrong # {} PROVE FALSE
  <2>1. PICK n \in Wrong : \A m \in Wrong : n <= m
    <3>1. Wrong \subseteq Nat
      OBVIOUS
    <3>2. QED
      <4> HIDE DEF Wrong
      <4> QED BY <1>4, <3>1, LeastNatural
  <2>2. n # 0
    <3>1. Below(egress, 0) = {}
      <4>1. \A b \in egress : ~(b < 0)
        OBVIOUS
      <4>2. QED
        BY <4>1 DEF Below
    <3>2. Seen(0) = {}
      BY <3>1
    <3>3. r[0] = "NoEgress"
      BY <1>3
    <3>4. r[0] = Summary(Seen(0))
      <4> HIDE DEF Seen
      <4> QED BY <3>2, <3>3 DEF Summary
    <3>5. QED
      BY <2>1, <3>4
  <2>3. PICK m \in 0..7 : n = m + 1
    <3>1. n - 1 \in 0..7 /\ n = (n - 1) + 1
      BY <2>1, <2>2
    <3>2. QED
      BY <3>1
  <2>4. r[m] = Summary(Seen(m))
    <3>1. m \in 0..8 /\ m \notin Wrong
      BY <2>1, <2>3
    <3>2. QED
      BY <3>1
  <2>5. r[n] = IF m \in egress THEN combineAdmission(r[m], answer[m]) ELSE r[m]
    BY <1>3, <2>1, <2>2, <2>3
  <2>6. \A b \in egress : b < n <=> b < m \/ b = m
    BY <2>3
  <2>7. CASE m \in egress
    <3>1. \A b : b \in Below(egress, n) <=> b \in Below(egress, m) \/ b = m
      BY <2>6, <2>7 DEF Below
    <3>2. Seen(n) = Seen(m) \union {answer[m]}
      BY <3>1
    <3>3. Seen(m) \in SUBSET Admissions /\ answer[m] \in Admissions
      BY <2>7 DEF Below
    <3>4. r[n] = Summary(Seen(n))
      <4> HIDE DEF Seen, Wrong
      <4> QED BY <2>4, <2>5, <2>7, <3>2, <3>3, CombineSummary
    <3>5. QED
      BY <2>1, <3>4
  <2>8. CASE m \notin egress
    <3>1. Below(egress, n) = Below(egress, m)
      BY <2>6, <2>8 DEF Below
    <3>2. r[n] = Summary(Seen(n))
      BY <2>4, <2>5, <2>8, <3>1
    <3>3. QED
      BY <2>1, <3>2
  <2>9. QED
    BY <2>7, <2>8
<1>5. r[8] = Summary(Seen(8))
  BY <1>4
<1>6. Seen(8) = {answer[b] : b \in egress}
  <2>1. \A b \in egress : b < 8
    OBVIOUS
  <2>2. Below(egress, 8) = egress
    BY <2>1 DEF Below
  <2>3. QED
    BY <2>2
<1>7. r[8] = "NoEgress" <=> egress = {}
  <2>1. Seen(8) = {} <=> egress = {}
    BY <1>6
  <2>2. Summary(Seen(8)) = "NoEgress" <=> Seen(8) = {}
    <3> HIDE DEF Seen
    <3> QED BY DEF Summary
  <2>3. QED
    BY <1>5, <2>1, <2>2
<1>8. QED
  BY <1>2, <1>5, <1>6, <1>7
-----------------------------------------------------------------------------
(* Packets.                                                                *)

(* A record with the fields of a packet and no others.                     *)
IsPacket(p) ==
  p = [sequence_number |-> p.sequence_number, type |-> p.type, wire |-> p.wire,
       source |-> p.source, destination |-> p.destination, ingress |-> p.ingress,
       transport |-> p.transport, size |-> p.size, endpoint |-> p.endpoint]

(* The packets applications may originate, those with their responses, and *)
(* any of them with an ingress index.                                      *)
RequestPackets ==
  {initialize(n, p) : n \in DOMAIN Publications,
                      p \in UNION {Publications[m] : m \in DOMAIN Publications}}
WirePackets == RequestPackets \union {initializeResponseTo(p) : p \in RequestPackets}
QueuedPackets == {Stamp(p, i) : p \in WirePackets, i \in 0..8}

(* All of p but its ingress index is as in q.                              *)
SamePacket(p, q) ==
  /\ p.sequence_number = q.sequence_number /\ p.type = q.type /\ p.wire = q.wire
  /\ p.source = q.source /\ p.destination = q.destination
  /\ p.transport = q.transport /\ p.size = q.size /\ p.endpoint = q.endpoint

(* Stamp changes the ingress index and nothing else.                       *)
LEMMA StampFields ==
  ASSUME NEW p, IsPacket(p), NEW i
  PROVE  /\ IsPacket(Stamp(p, i)) /\ Stamp(p, i).ingress = i
         /\ SamePacket(Stamp(p, i), p) /\ Key(Stamp(p, i)) = Key(p)
         /\ p.ingress = i => Stamp(p, i) = p
         /\ \A j : Stamp(Stamp(p, i), j) = Stamp(p, j)
<1>1. PICK n, t, w, s, d, g, tr, sz, ep :
        p = [sequence_number |-> n, type |-> t, wire |-> w, source |-> s, destination |-> d,
             ingress |-> g, transport |-> tr, size |-> sz, endpoint |-> ep]
  BY DEF IsPacket
<1>2. \A j : Stamp(p, j) = [sequence_number |-> n, type |-> t, wire |-> w, source |-> s,
                     destination |-> d, ingress |-> j, transport |-> tr, size |-> sz,
                     endpoint |-> ep]
  BY <1>1 DEF Stamp
<1>3. PICK q : q = Stamp(p, i)
  OBVIOUS
<1>4. q = [sequence_number |-> n, type |-> t, wire |-> w, source |-> s,
           destination |-> d, ingress |-> i, transport |-> tr, size |-> sz, endpoint |-> ep]
  BY <1>2, <1>3
<1>5. \A j : Stamp(q, j) = [sequence_number |-> n, type |-> t, wire |-> w, source |-> s,
                     destination |-> d, ingress |-> j, transport |-> tr, size |-> sz,
                     endpoint |-> ep]
  BY <1>4 DEF Stamp
<1>6. IsPacket(q) /\ q.ingress = i
  BY <1>4 DEF IsPacket
<1>7. SamePacket(q, p) /\ Key(q) = Key(p)
  BY <1>1, <1>4 DEF SamePacket, Key
<1>8. p.ingress = i => q = p
  BY <1>1, <1>4
<1>9. \A j : Stamp(q, j) = Stamp(p, j)
  BY <1>2, <1>5
<1>10. QED
  BY <1>3, <1>6, <1>7, <1>8, <1>9

(* What an application initializes, and what the service answers with.     *)
LEMMA RequestFields ==
  ASSUME NEW p \in RequestPackets
  PROVE  /\ IsPacket(p) /\ p.type = "Request" /\ p.ingress = 0
         /\ p.sequence_number \in DOMAIN Publications
         /\ p.wire \in Wires /\ p.source \in Hosts
<1>1. PICK n \in DOMAIN Publications,
           q \in UNION {Publications[m] : m \in DOMAIN Publications} : p = initialize(n, q)
  BY DEF RequestPackets
<1>2. q.wire \in Wires /\ q.source \in Hosts
  BY <1>1, NetworkAssumption
<1>3. QED
  BY <1>1, <1>2 DEF initialize, IsPacket

(* initializeResponseTo, field by field, on a packet given by its fields.  *)
LEMMA ResponseRecord ==
  ASSUME NEW n, NEW t, NEW w, NEW s, NEW d, NEW g, NEW tr, NEW sz, NEW ep, NEW p,
         p = [sequence_number |-> n, type |-> t, wire |-> w, source |-> s,
              destination |-> d, ingress |-> g, transport |-> tr, size |-> sz,
              endpoint |-> ep]
  PROVE  initializeResponseTo(p)
         = [sequence_number |-> n, type |-> "Response", wire |-> w, source |-> d,
            destination |-> s, ingress |-> 0, transport |-> "Simple",
            size |-> PingMessageSize, endpoint |-> ep]
<1>1. PICK p1 : p1 = [p EXCEPT !.type = "Response"]
  OBVIOUS
<1>2. p1 = [sequence_number |-> n, type |-> "Response", wire |-> w, source |-> s,
        destination |-> d, ingress |-> g, transport |-> tr, size |-> sz,
        endpoint |-> ep]
  BY <1>1
<1>3. PICK p2 : p2 = [p1 EXCEPT !.source = d]
  OBVIOUS
<1>4. p2 = [sequence_number |-> n, type |-> "Response", wire |-> w, source |-> d,
        destination |-> d, ingress |-> g, transport |-> tr, size |-> sz,
        endpoint |-> ep]
  BY <1>3, <1>2
<1>5. PICK p3 : p3 = [p2 EXCEPT !.destination = s]
  OBVIOUS
<1>6. p3 = [sequence_number |-> n, type |-> "Response", wire |-> w, source |-> d,
        destination |-> s, ingress |-> g, transport |-> tr, size |-> sz,
        endpoint |-> ep]
  BY <1>5, <1>4
<1>7. PICK p4 : p4 = [p3 EXCEPT !.ingress = 0]
  OBVIOUS
<1>8. p4 = [sequence_number |-> n, type |-> "Response", wire |-> w, source |-> d,
        destination |-> s, ingress |-> 0, transport |-> tr, size |-> sz,
        endpoint |-> ep]
  BY <1>7, <1>6
<1>9. PICK p5 : p5 = [p4 EXCEPT !.transport = "Simple"]
  OBVIOUS
<1>10. p5 = [sequence_number |-> n, type |-> "Response", wire |-> w, source |-> d,
        destination |-> s, ingress |-> 0, transport |-> "Simple", size |-> sz,
        endpoint |-> ep]
  BY <1>9, <1>8
<1>11. PICK p6 : p6 = [p5 EXCEPT !.size = PingMessageSize]
  OBVIOUS
<1>12. p6 = [sequence_number |-> n, type |-> "Response", wire |-> w, source |-> d,
        destination |-> s, ingress |-> 0, transport |-> "Simple", size |-> PingMessageSize,
        endpoint |-> ep]
  BY <1>11, <1>10
<1>13. p.destination = d /\ p.source = s
  OBVIOUS
<1>14. initializeResponseTo(p) = p6
  BY <1>1, <1>3, <1>5, <1>7, <1>9, <1>11, <1>13 DEF initializeResponseTo
<1>15. QED
  BY <1>12, <1>14

(* What initializeResponseTo makes of a packet: a Response on the same     *)
(* Wire and endpoint, with source and destination swapped.                 *)
LEMMA ResponseFields ==
  ASSUME NEW p, IsPacket(p)
  PROVE  LET q == initializeResponseTo(p)
         IN /\ IsPacket(q) /\ q.type = "Response" /\ q.ingress = 0 /\ q.wire = p.wire
            /\ q.sequence_number = p.sequence_number
            /\ q.source = p.destination /\ q.destination = p.source
            /\ q.transport = "Simple" /\ q.endpoint = p.endpoint
<1>1. PICK n, t, w, s, d, g, tr, sz, ep :
        p = [sequence_number |-> n, type |-> t, wire |-> w, source |-> s, destination |-> d,
             ingress |-> g, transport |-> tr, size |-> sz, endpoint |-> ep]
  BY DEF IsPacket
<1>2. initializeResponseTo(p) =
        [sequence_number |-> n, type |-> "Response", wire |-> w, source |-> d,
         destination |-> s, ingress |-> 0, transport |-> "Simple",
         size |-> PingMessageSize, endpoint |-> ep]
  BY <1>1, ResponseRecord
<1>3. QED
  BY <1>1, <1>2 DEF IsPacket

(* The response does not depend on the ingress index of the request.       *)
LEMMA ResponseOfStamped ==
  ASSUME NEW p, IsPacket(p), NEW i
  PROVE  initializeResponseTo(Stamp(p, i)) = initializeResponseTo(p)
<1>1. PICK n, t, w, s, d, g, tr, sz, ep :
        p = [sequence_number |-> n, type |-> t, wire |-> w, source |-> s, destination |-> d,
             ingress |-> g, transport |-> tr, size |-> sz, endpoint |-> ep]
  BY DEF IsPacket
<1>2. PICK q : q = Stamp(p, i)
  OBVIOUS
<1>3. q = [sequence_number |-> n, type |-> t, wire |-> w, source |-> s, destination |-> d,
           ingress |-> i, transport |-> tr, size |-> sz, endpoint |-> ep]
  BY <1>1, <1>2 DEF Stamp
<1>4. initializeResponseTo(p) =
        [sequence_number |-> n, type |-> "Response", wire |-> w, source |-> d,
         destination |-> s, ingress |-> 0, transport |-> "Simple",
         size |-> PingMessageSize, endpoint |-> ep]
  BY <1>1, ResponseRecord
<1>5. initializeResponseTo(q) =
        [sequence_number |-> n, type |-> "Response", wire |-> w, source |-> d,
         destination |-> s, ingress |-> 0, transport |-> "Simple",
         size |-> PingMessageSize, endpoint |-> ep]
  BY <1>3, ResponseRecord
<1>6. QED
  BY <1>2, <1>4, <1>5

(* A packet on a Link has no ingress index.                                *)
LEMMA WirePacketFields ==
  ASSUME NEW p \in WirePackets
  PROVE  IsPacket(p) /\ p.ingress = 0 /\ p.wire \in Wires
<1>1. CASE p \in RequestPackets
  BY <1>1, RequestFields
<1>2. CASE p \notin RequestPackets
  <2>1. PICK q \in RequestPackets : p = initializeResponseTo(q)
    BY <1>2 DEF WirePackets
  <2>2. IsPacket(q) /\ q.wire \in Wires
    BY RequestFields
  <2>3. QED
    BY <2>1, <2>2, ResponseFields
<1>3. QED
  BY <1>1, <1>2

(* The keys of a sequence of packets, and that each occurs in it once.     *)
KeysIn(s) == {Key(p) : p \in PacketsOf(s)}
DistinctKeys(s) == \A i, j \in DOMAIN s : Key(s[i]) = Key(s[j]) => i = j

(* A packet added to a queue adds its key, and no second entry of it.      *)
LEMMA AppendKeys ==
  ASSUME NEW S, NEW s \in Seq(S), NEW p \in S
  PROVE  /\ Append(s, p) \in Seq(S)
         /\ PacketsOf(Append(s, p)) = PacketsOf(s) \union {p}
         /\ KeysIn(Append(s, p)) = KeysIn(s) \union {Key(p)}
         /\ DistinctKeys(s) /\ Key(p) \notin KeysIn(s) => DistinctKeys(Append(s, p))
<1>1. PICK t : t = Append(s, p)
  OBVIOUS
<1>2. /\ t \in Seq(S) /\ DOMAIN s = 1..Len(s) /\ Len(s) \in Nat
      /\ DOMAIN t = 1..(Len(s) + 1)
      /\ t[Len(s) + 1] = p /\ \A i \in 1..Len(s) : t[i] = s[i]
  BY <1>1
<1>3. PacketsOf(t) = PacketsOf(s) \union {p}
  <2>1. \A q : q \in PacketsOf(t) <=> \E i \in 1..(Len(s) + 1) : q = t[i]
    BY <1>2 DEF PacketsOf
  <2>2. \A q : q \in PacketsOf(s) <=> \E i \in 1..Len(s) : q = s[i]
    BY <1>2 DEF PacketsOf
  <2>3. \A i : i \in 1..(Len(s) + 1) <=> i \in 1..Len(s) \/ i = Len(s) + 1
    BY <1>2
  <2>4. \A q : q \in PacketsOf(t) <=> q \in PacketsOf(s) \/ q = p
    BY <1>2, <2>1, <2>2, <2>3
  <2>5. QED
    BY <2>4
<1>4. KeysIn(t) = KeysIn(s) \union {Key(p)}
  BY <1>3 DEF KeysIn
<1>5. ASSUME DistinctKeys(s), Key(p) \notin KeysIn(s) PROVE DistinctKeys(t)
  <2>1. \A i \in 1..Len(s) : Key(t[i]) = Key(s[i]) /\ Key(t[i]) # Key(p)
    BY <1>2, <1>5 DEF KeysIn, PacketsOf
  <2>2. \A i \in DOMAIN t : i \in 1..Len(s) \/ i = Len(s) + 1
    BY <1>2
  <2>3. \A i, j \in 1..Len(s) : Key(t[i]) = Key(t[j]) => i = j
    BY <1>2, <1>5, <2>1 DEF DistinctKeys
  <2>4. Key(t[Len(s) + 1]) = Key(p)
    BY <1>2
  <2>5. QED
    BY <2>1, <2>2, <2>3, <2>4 DEF DistinctKeys
<1>6. QED
  BY <1>1, <1>2, <1>3, <1>4, <1>5

(* Taking the head of a queue takes its key and no other.                  *)
LEMMA TailKeys ==
  ASSUME NEW S, NEW s \in Seq(S), s # <<>>
  PROVE  /\ Tail(s) \in Seq(S) /\ Head(s) \in S /\ Head(s) \in PacketsOf(s)
         /\ PacketsOf(Tail(s)) \subseteq PacketsOf(s)
         /\ KeysIn(Tail(s)) \subseteq KeysIn(s) /\ Key(Head(s)) \in KeysIn(s)
         /\ DistinctKeys(s) => /\ DistinctKeys(Tail(s))
                               /\ KeysIn(Tail(s)) = KeysIn(s) \ {Key(Head(s))}
<1>1. PICK t : t = Tail(s)
  OBVIOUS
<1>2. /\ t \in Seq(S) /\ DOMAIN s = 1..Len(s) /\ Len(s) \in Nat /\ Len(s) >= 1
      /\ DOMAIN t = 1..(Len(s) - 1) /\ Head(s) = s[1]
      /\ \A i \in 1..(Len(s) - 1) : t[i] = s[i + 1] /\ i + 1 \in DOMAIN s
  BY <1>1
<1>3. Head(s) \in PacketsOf(s) /\ PacketsOf(t) \subseteq PacketsOf(s) /\ Head(s) \in S
  BY <1>2 DEF PacketsOf
<1>4. KeysIn(t) \subseteq KeysIn(s) /\ Key(Head(s)) \in KeysIn(s)
  BY <1>3 DEF KeysIn
<1>5. ASSUME DistinctKeys(s) PROVE DistinctKeys(t) /\ KeysIn(t) = KeysIn(s) \ {Key(Head(s))}
  <2>1. DistinctKeys(t)
    <3>1. SUFFICES ASSUME NEW i \in DOMAIN t, NEW j \in DOMAIN t, Key(t[i]) = Key(t[j])
                   PROVE  i = j
      BY DEF DistinctKeys
    <3>2. i + 1 \in DOMAIN s /\ j + 1 \in DOMAIN s /\ Key(s[i + 1]) = Key(s[j + 1])
      BY <1>2, <3>1
    <3>3. i + 1 = j + 1
      BY <1>5, <3>2 DEF DistinctKeys
    <3>4. QED
      BY <1>2, <3>3
  <2>2. Key(Head(s)) \notin KeysIn(t)
    <3>1. SUFFICES ASSUME NEW i \in DOMAIN t, Key(t[i]) = Key(Head(s)) PROVE FALSE
      BY DEF KeysIn, PacketsOf
    <3>2. i + 1 \in DOMAIN s /\ 1 \in DOMAIN s /\ Key(s[i + 1]) = Key(s[1])
      BY <1>2, <3>1
    <3>3. i + 1 = 1
      BY <1>5, <3>2 DEF DistinctKeys
    <3>4. QED
      BY <1>2, <3>3
  <2>3. ASSUME NEW p \in PacketsOf(s), Key(p) # Key(Head(s)) PROVE p \in PacketsOf(t)
    <3>1. PICK i \in DOMAIN s : p = s[i]
      BY DEF PacketsOf
    <3>2. i # 1
      BY <1>2, <2>3, <3>1
    <3>3. i - 1 \in DOMAIN t /\ t[i - 1] = s[i]
      BY <1>2, <3>2
    <3>4. QED
      BY <3>1, <3>3 DEF PacketsOf
  <2>4. \A k \in KeysIn(s) : k # Key(Head(s)) => k \in KeysIn(t)
    BY <2>3 DEF KeysIn
  <2>5. QED
    BY <1>4, <2>1, <2>2, <2>4
<1>6. QED
  BY <1>1, <1>2, <1>3, <1>4, <1>5

-----------------------------------------------------------------------------
(* What a Router does with the generated tables.                           *)

(* The hosts are built from one deployment the compiler accepts.           *)
Deployed ==
  /\ graph \in SUBSET Attachments /\ graph \in Admitted
  /\ DOMAIN wires = Wires
  /\ \A w \in Wires : /\ Sound(graph, wires[w].members, wires[w].attachments)
                      /\ wires[w].members \subseteq Hosts
  /\ routes = [h \in Hosts |-> RouteTable(graph, wires, h)]
  /\ bits = [a \in graph |-> egress_bit(graph, a)]

(* The attachments of h in t, other than the excluded ones.                *)
Ports(t, h, excluded) == {c \in t : c.host = h} \ excluded

(* Bits are within a byte, and give back their attachment.                 *)
LEMMA BitsGiveBack ==
  ASSUME Deployed
  PROVE  /\ \A a \in graph : bits[a] \in 0..7 /\ OnBit(a.host, bits[a]) = a
         /\ \A a, b \in graph : a.host = b.host /\ bits[a] = bits[b] => a = b
<1>1. /\ \A a \in graph : bits[a] \in 0..7
      /\ \A a, b \in graph : a.host = b.host /\ bits[a] = bits[b] => a = b
  BY BitsTellApart DEF Deployed
<1>2. ASSUME NEW a \in graph PROVE OnBit(a.host, bits[a]) = a
  <2>1. a \in InterfacesOf(graph, a.host)
    BY DEF InterfacesOf
  <2>2. \A b \in InterfacesOf(graph, a.host) : bits[b] = bits[a] => b = a
    BY <1>1 DEF InterfacesOf
  <2>3. QED
    BY <2>1, <2>2 DEF OnBit
<1>3. QED
  BY <1>1, <1>2

(* The route table of a host holds the bits of its attachments in the Wire.*)
LEMMA TableView ==
  ASSUME Deployed, NEW h \in Hosts, NEW w \in Wires
  PROVE  LET mask == {bits[c] : c \in Ports(wires[w].attachments, h, {})}
         IN /\ w \in DOMAIN routes[h] <=> mask # {} \/ h \in wires[w].members
            /\ w \in DOMAIN routes[h] => routes[h][w] = mask
<1> DEFINE T == wires[w].attachments
           mask == {bits[c] : c \in Ports(T, h, {})}
<1>1. T \subseteq graph
  BY DEF Deployed, Sound
<1>2. Mask(graph, h, T) = mask
  <2>1. InterfacesOf(graph, h) \intersect T = Ports(T, h, {})
    BY <1>1 DEF InterfacesOf, Ports
  <2>2. \A c \in Ports(T, h, {}) : bits[c] = egress_bit(graph, c)
    BY <1>1 DEF Deployed, Ports
  <2>3. QED
    BY <2>1, <2>2 DEF Mask
<1>3. routes[h] = RouteTable(graph, wires, h) /\ DOMAIN wires = Wires
  BY DEF Deployed
<1>4. w \in DOMAIN RouteTable(graph, wires, h) <=> mask # {} \/ h \in wires[w].members
  <2> HIDE DEF mask
  <2> QED BY <1>2, <1>3 DEF RouteTable
<1>5. w \in DOMAIN RouteTable(graph, wires, h) => RouteTable(graph, wires, h)[w] = mask
  <2> HIDE DEF mask
  <2> QED BY <1>2, <1>3 DEF RouteTable
<1>6. QED
  BY <1>3, <1>4, <1>5

(* A packet of local origin leaves over every attachment of the Wire.      *)
LEMMA OriginEgress ==
  ASSUME Deployed, NEW h \in Hosts, NEW packet, packet.wire \in Wires, packet.ingress = 0
  PROVE  Egress(routes[h], packet) =
           {bits[c] : c \in Ports(wires[packet.wire].attachments, h, {})}
<1> DEFINE mask == {bits[c] : c \in Ports(wires[packet.wire].attachments, h, {})}
<1>1. Incoming(packet) = {}
  BY DEF Incoming
<1>2. /\ packet.wire \in DOMAIN routes[h] => routes[h][packet.wire] = mask
      /\ packet.wire \notin DOMAIN routes[h] => mask = {}
  BY TableView
<1>3. CASE packet.wire \in DOMAIN routes[h]
  <2>1. RouteDecision(routes[h], packet) = "Forward"
    BY <1>1, <1>3 DEF RouteDecision
  <2>2. QED
    <3> HIDE DEF mask
    <3> QED BY <1>1, <1>2, <1>3, <2>1 DEF Egress, mask
<1>4. CASE packet.wire \notin DOMAIN routes[h]
  <2>1. RouteDecision(routes[h], packet) = "NoRoute"
    BY <1>1, <1>4 DEF RouteDecision
  <2>2. QED
    BY <1>2, <1>4, <2>1 DEF Egress
<1>5. QED
  BY <1>3, <1>4

(* A packet received over an attachment of the Wire leaves over the others *)
(* and is dispatched at members; any other is ignored.                     *)
LEMMA TransitEgress ==
  ASSUME Deployed, NEW a \in graph, NEW packet, packet.wire \in Wires,
         packet.ingress = bits[a] + 1
  PROVE  LET T == wires[packet.wire].attachments
             member == isMemberOf(a.host, packet.wire)
         IN /\ a \in T =>
                 /\ Egress(routes[a.host], packet) = {bits[c] : c \in Ports(T, a.host, {a})}
                 /\ DispatchesLocally(routes[a.host], packet, member) <=> member
            /\ a \notin T =>
                 /\ Egress(routes[a.host], packet) = {}
                 /\ ~DispatchesLocally(routes[a.host], packet, member)
<1> DEFINE h == a.host
           w == packet.wire
           T == wires[w].attachments
           mask == {bits[c] : c \in Ports(T, h, {})}
<1>1. h \in Hosts /\ T \subseteq graph
  BY DEF Deployed, Sound, Attachments
<1>2. packet.ingress # 0 /\ ~(packet.ingress > 8) /\ packet.ingress - 1 = bits[a]
  BY BitsGiveBack
<1>3. Incoming(packet) = {bits[a]}
  BY <1>2 DEF Incoming
<1>4. /\ w \in DOMAIN routes[h] <=> mask # {} \/ h \in wires[w].members
      /\ w \in DOMAIN routes[h] => routes[h][w] = mask
  BY <1>1, TableView
<1>5. CASE a \in T
  <2>1. bits[a] \in mask
    BY <1>5 DEF Ports
  <2>2. w \in DOMAIN routes[h] /\ routes[h][w] = mask
    BY <1>4, <2>1
  <2>3. RouteDecision(routes[h], packet) =
          IF mask = {bits[a]} THEN "NoEgress" ELSE "Forward"
    <3> HIDE DEF mask
    <3> QED BY <1>2, <1>3, <2>1, <2>2 DEF RouteDecision
  <2>4. Egress(routes[h], packet) = mask \ {bits[a]}
    <3> HIDE DEF mask
    <3> QED BY <1>3, <2>2, <2>3 DEF Egress
  <2>5. mask \ {bits[a]} = {bits[c] : c \in Ports(T, h, {a})}
    <3>1. \A c \in Ports(T, h, {}) : bits[c] = bits[a] <=> c = a
      BY <1>1, BitsGiveBack DEF Ports
    <3>2. \A c : c \in Ports(T, h, {a}) <=> c \in Ports(T, h, {}) /\ c # a
      BY DEF Ports
    <3>3. QED
      BY <3>1, <3>2
  <2>6. DispatchesLocally(routes[h], packet, isMemberOf(h, w)) <=> isMemberOf(h, w)
    <3> HIDE DEF mask
    <3> QED BY <1>2, <2>3 DEF DispatchesLocally
  <2>7. QED
    BY <1>5, <2>4, <2>5, <2>6
<1>6. CASE a \notin T
  <2>1. bits[a] \notin mask
    BY <1>1, <1>6, BitsGiveBack DEF Ports
  <2>2. RouteDecision(routes[h], packet) \in {"NoRoute", "InvalidIngress"}
    <3> HIDE DEF mask
    <3> QED BY <1>2, <1>3, <1>4, <2>1 DEF RouteDecision
  <2>3. Egress(routes[h], packet) = {}
    BY <2>2 DEF Egress
  <2>4. QED
    BY <1>6, <2>2, <2>3 DEF DispatchesLocally
<1>7. QED
  BY <1>5, <1>6

(* Every other host attached to a Link that took p has it in its inbox.    *)
Moved(g, boxes, h, p, links) ==
  [a \in g |-> IF a.host # h /\ a.link \in links THEN Append(boxes[a], p) ELSE boxes[a]]

(* What a forward over some ports does to the network: some of their Links *)
(* carry the packet, all of them unless it is disturbed.                   *)
ForwardedOver(ports, h, packet, boxes) ==
  \E links \in SUBSET {c.link : c \in ports} :
    /\ carried' = carried (+) SetToBag(links \X {Key(packet)})
    /\ inbox' = Moved(graph, boxes, h, Stamp(packet, 0), links)
    /\ disturbed \subseteq disturbed' /\ disturbed' \subseteq disturbed \union {Key(packet)}
    /\ Key(packet) \notin disturbed' => links = {c.link : c \in ports}

(* A forward puts the packet in the inboxes at the far ends of the Links   *)
(* that accepted it, and disturbs it if one of the Wire refused.           *)
LEMMA ForwardEffect ==
  ASSUME Deployed, NEW h \in Hosts, NEW packet, NEW ports \in SUBSET graph,
         \A c \in ports : c.host = h,
         Egress(routes[h], packet) = {bits[c] : c \in ports},
         NEW answer \in Answers(h, packet), NEW boxes,
         inbox' = Transmit(boxes, h, packet, answer), RecordForward(h, packet, answer)
  PROVE  ForwardedOver(ports, h, packet, boxes)
<1> DEFINE links == LinksTaking(h, packet, answer)
           taken == {b \in Egress(routes[h], packet) : answer[b] = "Accepted"}
<1>1. \A c \in ports : OnBit(h, bits[c]) = c
  BY BitsGiveBack
<1>2. links \in SUBSET {c.link : c \in ports}
  BY <1>1 DEF LinksTaking
<1>3. carried' = carried (+) SetToBag(links \X {Key(packet)})
  BY DEF RecordForward
<1>4. inbox' = Moved(graph, boxes, h, Stamp(packet, 0), links)
  BY DEF Transmit, Moved
<1>5. disturbed \subseteq disturbed' /\ disturbed' \subseteq disturbed \union {Key(packet)}
  BY DEF RecordForward
<1>6. ASSUME Key(packet) \notin disturbed' PROVE links = {c.link : c \in ports}
  <2>1. \A b \in Egress(routes[h], packet) : answer[b] = "Accepted"
    BY <1>6 DEF RecordForward
  <2>2. taken = {bits[c] : c \in ports}
    BY <2>1
  <2>3. links = {OnBit(h, b).link : b \in taken}
    BY DEF LinksTaking
  <2>4. QED
    BY <1>1, <2>2, <2>3
<1>7. QED
  <2> HIDE DEF links
  <2> QED BY <1>2, <1>3, <1>4, <1>5, <1>6 DEF ForwardedOver

-----------------------------------------------------------------------------
(* How a packet spreads over its Wire.                                     *)

(* The packet with a key, the Wire it travels on and where it starts.      *)
PacketOf(s, k) == IF k[2] = "Request" THEN s[k[1]] ELSE initializeResponseTo(s[k[1]])
Born(s) == (DOMAIN s) \X {"Request", "Response"}
TreeOf(W, s, k) == W[PacketOf(s, k).wire].attachments
OriginOf(s, k) == <<"host", PacketOf(s, k).source>>

(* Host h has taken k from the one attachment it can arrive over.          *)
Had(C, X, t, o, h, k) ==
  \E e \in t : /\ e.host = h /\ Via(t, o, HostNode(e), e)
               /\ <<e.link, k>> \in C /\ k \notin KeysIn(X[e])

(* A Link that carries k took it from the host on its way to the origin,   *)
(* which is the origin or has had k itself.                                *)
CarriedVia(C, X, t, o, l, k) ==
  /\ Joined(t, o, <<"link", l>>)
  /\ \E c \in t : /\ c.link = l /\ Via(t, o, LinkNode(c), c)
                  /\ HostNode(c) = o \/ Had(C, X, t, o, c.host, k)

(* What is under way was carried, and away from the origin.                *)
UnderWayFrom(C, t, o, b, k) ==
  /\ <<b.link, k>> \in C
  /\ b \in t => ~Via(t, o, LinkNode(b), b)

FlowInv(g, W, s, C, X, D) ==
  /\ \A t \in C : /\ t = <<t[1], t[2]>> /\ t[2] \in Born(s)
                  /\ CarriedVia(C, X, TreeOf(W, s, t[2]), OriginOf(s, t[2]), t[1], t[2])
  /\ \A b \in g :
       /\ DistinctKeys(X[b])
       /\ \A k \in KeysIn(X[b]) : UnderWayFrom(C, TreeOf(W, s, k), OriginOf(s, k), b, k)
  /\ \A t \in D : /\ t = <<t[1], t[2]>> /\ t[2] \in Born(s)
                  /\ <<"host", t[1]>> # OriginOf(s, t[2])
                  /\ t[1] \in W[PacketOf(s, t[2]).wire].members
                  /\ Had(C, X, TreeOf(W, s, t[2]), OriginOf(s, t[2]), t[1], t[2])

(* The Wires of packets under way are loop-free parts of the graph.        *)
LoopFreeWires(g, W, s) ==
  \A k \in Born(s) : TreeOf(W, s, k) \subseteq g /\ LoopFree(TreeOf(W, s, k))

(* Host h hands k to some Links, and others listen.                        *)
Spreads(g, C, X, h, k, links, C2, X2) ==
  /\ C2 = C \union (links \X {k})
  /\ \A b \in g :
       /\ DistinctKeys(X2[b])
       /\ KeysIn(X2[b]) \subseteq
            KeysIn(X[b]) \union (IF b.host # h /\ b.link \in links THEN {k} ELSE {})

(* What a host has had, it has had.                                        *)
LEMMA HadKept ==
  ASSUME NEW g, NEW C, NEW X, NEW h, NEW k, NEW links, NEW C2, NEW X2,
         Spreads(g, C, X, h, k, links, C2, X2), \A l \in links : <<l, k>> \notin C,
         NEW t \in SUBSET g, NEW o, NEW i, NEW j, Had(C, X, t, o, i, j)
  PROVE  Had(C2, X2, t, o, i, j)
<1>1. PICK e \in t : /\ e.host = i /\ Via(t, o, HostNode(e), e)
                     /\ <<e.link, j>> \in C /\ j \notin KeysIn(X[e])
  BY DEF Had
<1>2. <<e.link, j>> \in C2
  BY <1>1 DEF Spreads
<1>3. j \notin KeysIn(X2[e])
  <2>1. j = k => e.link \notin links
    BY <1>1
  <2>2. KeysIn(X2[e]) \subseteq
          KeysIn(X[e]) \union (IF e.host # h /\ e.link \in links THEN {k} ELSE {})
    BY DEF Spreads
  <2>3. QED
    BY <1>1, <2>1, <2>2
<1>4. QED
  BY <1>1, <1>2, <1>3 DEF Had

(* Links that have not carried k may carry it from a host on their way to  *)
(* the origin.                                                             *)
LEMMA FlowKept ==
  ASSUME NEW g, NEW W, NEW s, NEW C, NEW X, NEW D, FlowInv(g, W, s, C, X, D),
         LoopFreeWires(g, W, s), NEW h, NEW k \in Born(s), NEW links, NEW C2, NEW X2,
         Spreads(g, C, X, h, k, links, C2, X2), \A l \in links : <<l, k>> \notin C,
         \A l \in links : \E c \in TreeOf(W, s, k) :
           /\ c.host = h /\ c.link = l
           /\ Via(TreeOf(W, s, k), OriginOf(s, k), LinkNode(c), c)
           /\ Joined(TreeOf(W, s, k), OriginOf(s, k), LinkNode(c)),
         links # {} => \/ <<"host", h>> = OriginOf(s, k)
                       \/ Had(C2, X2, TreeOf(W, s, k), OriginOf(s, k), h, k)
  PROVE  FlowInv(g, W, s, C2, X2, D)
<1> DEFINE T == TreeOf(W, s, k)
           o == OriginOf(s, k)
<1>1. ASSUME NEW j \in Born(s), NEW i, Had(C, X, TreeOf(W, s, j), OriginOf(s, j), i, j)
      PROVE  Had(C2, X2, TreeOf(W, s, j), OriginOf(s, j), i, j)
  <2>1. TreeOf(W, s, j) \in SUBSET g
    BY DEF LoopFreeWires
  <2>2. QED
    BY <1>1, <2>1, HadKept
<1>2. ASSUME NEW t \in C2
      PROVE  /\ t = <<t[1], t[2]>> /\ t[2] \in Born(s)
             /\ CarriedVia(C2, X2, TreeOf(W, s, t[2]), OriginOf(s, t[2]), t[1], t[2])
  <2>1. CASE t \in C
    <3>1. /\ t = <<t[1], t[2]>> /\ t[2] \in Born(s)
          /\ CarriedVia(C, X, TreeOf(W, s, t[2]), OriginOf(s, t[2]), t[1], t[2])
      BY <2>1 DEF FlowInv
    <3>2. CarriedVia(C2, X2, TreeOf(W, s, t[2]), OriginOf(s, t[2]), t[1], t[2])
      BY <1>1, <3>1 DEF CarriedVia
    <3>3. QED
      BY <3>1, <3>2
  <2>2. CASE t \notin C
    <3>1. PICK l \in links : t = <<l, k>>
      BY <2>2 DEF Spreads
    <3>2. PICK c \in T : c.host = h /\ c.link = l /\ Via(T, o, LinkNode(c), c)
                         /\ Joined(T, o, LinkNode(c))
      BY <3>1
    <3>3. LinkNode(c) = <<"link", l>> /\ HostNode(c) = <<"host", h>>
      BY <3>2 DEF LinkNode, HostNode
    <3>4. CarriedVia(C2, X2, T, o, l, k)
      <4> HIDE DEF T, o
      <4> QED BY <3>2, <3>3 DEF CarriedVia, T, o
    <3>5. QED
      BY <3>1, <3>4
  <2>3. QED
    BY <2>1, <2>2
<1>3. ASSUME NEW b \in g, NEW j \in KeysIn(X2[b])
      PROVE  UnderWayFrom(C2, TreeOf(W, s, j), OriginOf(s, j), b, j)
  <2>1. CASE j \in KeysIn(X[b])
    BY <2>1 DEF FlowInv, UnderWayFrom, Spreads
  <2>2. CASE j \notin KeysIn(X[b])
    <3>1. j = k /\ b.host # h /\ b.link \in links
      BY <2>2 DEF Spreads
    <3>2. PICK c \in T : c.host = h /\ c.link = b.link /\ Via(T, o, LinkNode(c), c)
                         /\ Joined(T, o, LinkNode(c))
      BY <3>1
    <3>3. ASSUME b \in T, Via(T, o, LinkNode(b), b) PROVE FALSE
      <4>1. LinkNode(b) = LinkNode(c) /\ Joined(T, LinkNode(b), o)
        <5>1. LinkNode(b) = LinkNode(c)
          BY <3>2 DEF LinkNode
        <5>2. QED
          <6> HIDE DEF T, o
          <6> QED BY <3>2, <5>1, JoinedSymmetric
      <4>2. Incident(LinkNode(b), b) /\ Incident(LinkNode(b), c)
        BY <4>1 DEF Incident
      <4>3. b = c
        <5> HIDE DEF T, o
        <5> QED BY <3>2, <3>3, <4>1, <4>2, ViaUnique
      <4>4. QED
        BY <3>1, <3>2, <4>3
    <3>4. <<b.link, k>> \in C2
      BY <3>1 DEF Spreads
    <3>5. QED
      BY <3>1, <3>3, <3>4 DEF UnderWayFrom
  <2>3. QED
    BY <2>1, <2>2
<1>4. ASSUME NEW t \in D
      PROVE  /\ t = <<t[1], t[2]>> /\ t[2] \in Born(s)
             /\ <<"host", t[1]>> # OriginOf(s, t[2])
             /\ t[1] \in W[PacketOf(s, t[2]).wire].members
             /\ Had(C2, X2, TreeOf(W, s, t[2]), OriginOf(s, t[2]), t[1], t[2])
  BY <1>1 DEF FlowInv
<1>5. \A b \in g : DistinctKeys(X2[b])
  BY DEF Spreads
<1>6. QED
  BY <1>2, <1>3, <1>4, <1>5 DEF FlowInv

(* At its origin every attachment leads away.                              *)
LEMMA OriginSources ==
  ASSUME NEW t, NEW o, LoopFree(t), NEW h, o = <<"host", h>>, NEW c \in t, c.host = h
  PROVE  Via(t, o, LinkNode(c), c) /\ Joined(t, o, LinkNode(c))
<1>1. HostNode(c) = o
  BY DEF HostNode
<1>2. Joined(t, HostNode(c), o) /\ Joined(t, HostNode(c), LinkNode(c))
  BY <1>1, JoinedSelf, JoinedEnds
<1>3. ~Via(t, o, HostNode(c), c)
  BY <1>1, ViaNotSelf
<1>4. QED
  BY <1>1, <1>2, <1>3, ViaOneEnd

(* At any other host, every attachment but the one the packet came over;   *)
(* and neither have their Links carried it nor has the host had it before. *)
InTransit(W, s, C, D, e, k) ==
  LET T == TreeOf(W, s, k)
      o == OriginOf(s, k)
  IN /\ k \in Born(s) /\ <<"host", e.host>> # o
     /\ Via(T, o, HostNode(e), e) /\ <<e.link, k>> \in C
     /\ <<e.host, k>> \notin D
     /\ \A c \in Ports(T, e.host, {e}) :
          /\ Via(T, o, LinkNode(c), c) /\ Joined(T, o, LinkNode(c))
          /\ <<c.link, k>> \notin C

(* A packet in an inbox of its own tree came over that Link from the side  *)
(* of its origin, and has been nowhere beyond.                             *)
LEMMA TransitSources ==
  ASSUME NEW g, NEW W, NEW s, NEW C, NEW X, NEW D, FlowInv(g, W, s, C, X, D),
         LoopFreeWires(g, W, s), NEW k, NEW e \in g, k \in KeysIn(X[e]),
         e \in TreeOf(W, s, k)
  PROVE  InTransit(W, s, C, D, e, k)
<1> DEFINE T == TreeOf(W, s, k)
           o == OriginOf(s, k)
<1>1. <<e.link, k>> \in C /\ ~Via(T, o, LinkNode(e), e)
  BY DEF FlowInv, UnderWayFrom
<1>2. k \in Born(s) /\ CarriedVia(C, X, T, o, e.link, k)
  <2>1. PICK t \in C : t = <<e.link, k>>
    BY <1>1
  <2>2. t[1] = e.link /\ t[2] = k
    BY <2>1
  <2>3. QED
    BY <2>2 DEF FlowInv
<1>3. LoopFree(T)
  BY <1>2 DEF LoopFreeWires
<1>4. Joined(T, LinkNode(e), o) /\ Joined(T, HostNode(e), o)
  <2>1. Joined(T, o, LinkNode(e))
    BY <1>2 DEF CarriedVia, LinkNode
  <2>2. QED
    <3> HIDE DEF T, o
    <3> QED BY <2>1, JoinedSymmetric, JoinedEnds, JoinedTransitive DEF T
<1>5. Via(T, o, HostNode(e), e)
  <2> HIDE DEF o
  <2> QED BY <1>1, <1>3, <1>4, ViaOneEnd
<1>6. HostNode(e) = <<"host", e.host>> /\ HostNode(e) # o
  <2>1. HostNode(e) # o
    <3> HIDE DEF T, o
    <3> QED BY <1>5, ViaNotSelf
  <2>2. QED
    BY <2>1 DEF HostNode
<1>7. ASSUME NEW c \in T, c.host = e.host, Via(T, o, HostNode(c), c) PROVE c = e
  <2>1. HostNode(c) = HostNode(e)
    BY <1>7 DEF HostNode
  <2>2. Incident(HostNode(e), c) /\ Incident(HostNode(e), e)
    BY <2>1 DEF Incident
  <2>3. QED
    <3> HIDE DEF o
    <3> QED BY <1>4, <1>5, <1>7, <2>1, <2>2, ViaUnique
<1>8. ~Had(C, X, T, o, e.host, k)
  BY <1>7 DEF Had
<1>9. <<e.host, k>> \notin D
  <2>1. SUFFICES ASSUME NEW t \in D, t = <<e.host, k>> PROVE FALSE
    OBVIOUS
  <2>2. t[1] = e.host /\ t[2] = k
    BY <2>1
  <2>3. QED
    BY <1>8, <2>2 DEF FlowInv
<1>10. ASSUME NEW c \in Ports(T, e.host, {e})
       PROVE  /\ Via(T, o, LinkNode(c), c) /\ Joined(T, o, LinkNode(c))
              /\ <<c.link, k>> \notin C
  <2>1. c \in T /\ c.host = e.host /\ c # e
    BY DEF Ports
  <2>2. HostNode(c) = HostNode(e)
    BY <2>1 DEF HostNode
  <2>3. ~Via(T, o, HostNode(c), c)
    BY <1>7, <2>1
  <2>4. Via(T, o, LinkNode(c), c)
    <3> HIDE DEF T, o
    <3> QED BY <1>3, <1>4, <2>1, <2>2, <2>3, ViaOneEnd
  <2>5. Joined(T, o, LinkNode(c))
    <3> HIDE DEF T, o
    <3> QED BY <1>4, <2>1, <2>2, JoinedSymmetric, JoinedEnds, JoinedTransitive
  <2>6. ASSUME <<c.link, k>> \in C PROVE FALSE
    <3>1. PICK t \in C : t[1] = c.link /\ t[2] = k
      BY <2>6
    <3>2. CarriedVia(C, X, T, o, c.link, k)
      BY <3>1 DEF FlowInv
    <3>3. PICK d \in T : /\ d.link = c.link /\ Via(T, o, LinkNode(d), d)
                         /\ HostNode(d) = o \/ Had(C, X, T, o, d.host, k)
      BY <3>2 DEF CarriedVia
    <3>4. LinkNode(d) = LinkNode(c)
      BY <3>3 DEF LinkNode
    <3>5. Incident(LinkNode(c), d) /\ Incident(LinkNode(c), c)
      BY <3>4 DEF Incident
    <3>6. d = c
      <4> HIDE DEF T, o
      <4> QED BY <2>1, <2>4, <2>5, <3>3, <3>4, <3>5, ViaUnique, JoinedSymmetric
    <3>7. QED
      BY <1>6, <1>8, <2>1, <2>2, <3>3, <3>6
  <2>7. QED
    BY <2>4, <2>5, <2>6
<1>11. QED
  BY <1>1, <1>2, <1>5, <1>6, <1>9, <1>10 DEF InTransit

-----------------------------------------------------------------------------
(* The network's state.                                                    *)

(* Adding new elements, once each, to a bag of elements that occur once.   *)
LEMMA OnceAgain ==
  ASSUME NEW B, B = SetToBag(DOMAIN B), NEW N, N \intersect DOMAIN B = {}
  PROVE  /\ DOMAIN (B (+) SetToBag(N)) = DOMAIN B \union N
         /\ B (+) SetToBag(N) = SetToBag(DOMAIN B \union N)
<1>1. PICK S : S = DOMAIN B
  OBVIOUS
<1>2. B = [x \in S |-> 1] /\ SetToBag(N) = [x \in N |-> 1]
  BY <1>1 DEF SetToBag
<1>3. B (+) SetToBag(N) = [x \in S \union N |->
        (IF x \in S THEN B[x] ELSE 0) + (IF x \in N THEN SetToBag(N)[x] ELSE 0)]
  BY <1>1, <1>2 DEF (+)
<1>4. \A x \in S \union N :
        (IF x \in S THEN B[x] ELSE 0) + (IF x \in N THEN SetToBag(N)[x] ELSE 0) = 1
  BY <1>1, <1>2
<1>5. B (+) SetToBag(N) = [x \in S \union N |-> 1]
  BY <1>3, <1>4
<1>6. QED
  BY <1>1, <1>5 DEF SetToBag

(* p is, but for its ingress index, a packet of the history s.             *)
Genuine(s, p) == Key(p) \in Born(s) /\ Stamp(p, 0) = PacketOf(s, Key(p))

(* The history of the applications.                                        *)
History(s) ==
  /\ s \in Seq(RequestPackets)
  /\ \A n \in DOMAIN s : s[n].sequence_number = n

(* The packets of a history: a request and its response, on the Wire of    *)
(* the request, between the same two hosts.                                *)
LEMMA HistoryPackets ==
  ASSUME NEW s, History(s), NEW k \in Born(s)
  PROVE  /\ k = <<k[1], k[2]>> /\ k[1] \in DOMAIN s /\ k[2] \in {"Request", "Response"}
         /\ PacketOf(s, k) \in WirePackets /\ Key(PacketOf(s, k)) = k
         /\ PacketOf(s, k).wire = s[k[1]].wire /\ s[k[1]].wire \in Wires
         /\ PacketOf(s, k).source =
              IF k[2] = "Request" THEN s[k[1]].source ELSE s[k[1]].destination
         /\ PacketOf(s, k).destination =
              IF k[2] = "Request" THEN s[k[1]].destination ELSE s[k[1]].source
         /\ k[2] = "Response" => PacketOf(s, k).transport = "Simple"
         /\ PacketOf(s, k).endpoint = s[k[1]].endpoint
<1>1. PICK n \in DOMAIN s, t \in {"Request", "Response"} : k = <<n, t>>
  BY DEF Born
<1>2. k[1] = n /\ k[2] = t
  BY <1>1
<1>3. PICK r \in RequestPackets : r = s[n]
  BY DEF History
<1>4. /\ r.sequence_number = n /\ IsPacket(r) /\ r.type = "Request" /\ r.wire \in Wires
  BY <1>3, RequestFields DEF History
<1>5. CASE t = "Request"
  <2>1. PacketOf(s, k) = r
    BY <1>2, <1>3, <1>5 DEF PacketOf
  <2>2. Key(r) = k
    BY <1>1, <1>4, <1>5 DEF Key
  <2>3. QED
    BY <1>1, <1>2, <1>3, <1>4, <1>5, <2>1, <2>2 DEF WirePackets
<1>6. CASE t = "Response"
  <2>1. PICK q : q = initializeResponseTo(r)
    OBVIOUS
  <2>2. PacketOf(s, k) = q
    BY <1>2, <1>3, <1>6, <2>1 DEF PacketOf
  <2>3. /\ q.type = "Response" /\ q.wire = r.wire /\ q.sequence_number = r.sequence_number
        /\ q.source = r.destination /\ q.destination = r.source
        /\ q.transport = "Simple" /\ q.endpoint = r.endpoint
    BY <1>4, <2>1, ResponseFields
  <2>4. Key(q) = k
    BY <1>1, <1>4, <1>6, <2>3 DEF Key
  <2>5. q \in WirePackets
    BY <2>1 DEF WirePackets
  <2>6. QED
    BY <1>1, <1>2, <1>3, <1>4, <1>6, <2>2, <2>3, <2>4, <2>5
<1>7. QED
  BY <1>5, <1>6

(* What is known of a packet is known of its original.                     *)
LEMMA GenuineFields ==
  ASSUME NEW s, NEW p, IsPacket(p), Genuine(s, p)
  PROVE  SamePacket(p, PacketOf(s, Key(p)))
<1>1. SamePacket(Stamp(p, 0), p)
  BY StampFields
<1>2. QED
  BY <1>1 DEF Genuine, SamePacket

(* Another packet is originated: the packets so far stay what they are.    *)
Grown(s, p, t) ==
  /\ History(t) /\ Born(s) \subseteq Born(t)
  /\ \A k \in Born(s) : PacketOf(t, k) = PacketOf(s, k)
  /\ Key(p) \in Born(t) /\ PacketOf(t, Key(p)) = p /\ Key(p) \notin Born(s)
  /\ \A k \in Born(t) : k \in Born(s) \/ k[1] = Len(s) + 1
  /\ \A n \in DOMAIN s : t[n] = s[n]
  /\ DOMAIN t = DOMAIN s \union {Len(s) + 1} /\ t[Len(s) + 1] = p

(* What one more request adds to a history: its own two packets.           *)
LEMMA HistoryGrows ==
  ASSUME NEW s, History(s), NEW p \in RequestPackets, p.sequence_number = Len(s) + 1,
         NEW t, t = Append(s, p)
  PROVE  Grown(s, p, t)
<1>1. t = Append(s, p)
  OBVIOUS
<1>2. /\ s \in Seq(RequestPackets) /\ t \in Seq(RequestPackets) /\ Len(s) \in Nat
      /\ DOMAIN s = 1..Len(s) /\ DOMAIN t = 1..(Len(s) + 1)
      /\ t[Len(s) + 1] = p /\ \A n \in DOMAIN s : t[n] = s[n]
  BY <1>1 DEF History
<1>3. DOMAIN t = DOMAIN s \union {Len(s) + 1} /\ Len(s) + 1 \notin DOMAIN s
  BY <1>2
<1>4. History(t)
  BY <1>2, <1>3 DEF History
<1>5. p.type = "Request"
  BY RequestFields
<1>6. Key(p) = <<Len(s) + 1, "Request">>
  BY <1>5 DEF Key
<1>7. Born(s) \subseteq Born(t) /\ Key(p) \in Born(t)
  BY <1>3, <1>6 DEF Born
<1>8. \A k \in Born(s) : k[1] \in DOMAIN s
  BY DEF Born
<1>9. \A k \in Born(s) : PacketOf(t, k) = PacketOf(s, k)
  BY <1>2, <1>8 DEF PacketOf
<1>10. Key(p)[1] = Len(s) + 1 /\ Key(p)[2] = "Request"
  BY <1>6
<1>11. PacketOf(t, Key(p)) = p
  BY <1>2, <1>10 DEF PacketOf
<1>12. Key(p) \notin Born(s)
  BY <1>3, <1>6, <1>10 DEF Born
<1>13. \A k \in Born(t) : k \in Born(s) \/ k[1] = Len(s) + 1
  BY <1>3 DEF Born
<1>14. QED
  BY <1>1, <1>2, <1>3, <1>4, <1>7, <1>9, <1>11, <1>12, <1>13 DEF Grown

(* The flow so far is the same flow under a longer history.                *)
LEMMA FlowLonger ==
  ASSUME NEW g, NEW W, NEW s, NEW s2, NEW C, NEW X, NEW D, FlowInv(g, W, s, C, X, D),
         Born(s) \subseteq Born(s2), \A k \in Born(s) : PacketOf(s2, k) = PacketOf(s, k)
  PROVE  FlowInv(g, W, s2, C, X, D)
<1>1. \A k \in Born(s) : TreeOf(W, s2, k) = TreeOf(W, s, k) /\ OriginOf(s2, k) = OriginOf(s, k)
  BY DEF TreeOf, OriginOf
<1>2. \A t \in C : /\ t = <<t[1], t[2]>> /\ t[2] \in Born(s2)
                   /\ CarriedVia(C, X, TreeOf(W, s2, t[2]), OriginOf(s2, t[2]), t[1], t[2])
  BY <1>1 DEF FlowInv
<1>3. ASSUME NEW b \in g, NEW k \in KeysIn(X[b])
      PROVE  UnderWayFrom(C, TreeOf(W, s2, k), OriginOf(s2, k), b, k)
  <2>1. UnderWayFrom(C, TreeOf(W, s, k), OriginOf(s, k), b, k)
    BY DEF FlowInv
  <2>2. PICK t \in C : t = <<b.link, k>>
    BY <2>1 DEF UnderWayFrom
  <2>3. t[2] = k
    BY <2>2
  <2>4. k \in Born(s)
    BY <2>2, <2>3 DEF FlowInv
  <2>5. QED
    BY <1>1, <2>1, <2>4
<1>4. ASSUME NEW t \in D
      PROVE  /\ t = <<t[1], t[2]>> /\ t[2] \in Born(s2)
             /\ <<"host", t[1]>> # OriginOf(s2, t[2])
             /\ t[1] \in W[PacketOf(s2, t[2]).wire].members
             /\ Had(C, X, TreeOf(W, s2, t[2]), OriginOf(s2, t[2]), t[1], t[2])
  BY <1>1 DEF FlowInv
<1>5. \A b \in g : DistinctKeys(X[b])
  BY DEF FlowInv
<1>6. QED
  BY <1>2, <1>3, <1>4, <1>5 DEF FlowInv

(* A host that has had k and is not its origin may dispatch it.            *)
LEMMA FlowDispatch ==
  ASSUME NEW g, NEW W, NEW s, NEW C, NEW X, NEW D, FlowInv(g, W, s, C, X, D),
         NEW h, NEW k \in Born(s), <<"host", h>> # OriginOf(s, k),
         h \in W[PacketOf(s, k).wire].members,
         Had(C, X, TreeOf(W, s, k), OriginOf(s, k), h, k)
  PROVE  FlowInv(g, W, s, C, X, D \union {<<h, k>>})
<1>1. ASSUME NEW t \in D \union {<<h, k>>}
      PROVE  /\ t = <<t[1], t[2]>> /\ t[2] \in Born(s)
             /\ <<"host", t[1]>> # OriginOf(s, t[2])
             /\ t[1] \in W[PacketOf(s, t[2]).wire].members
             /\ Had(C, X, TreeOf(W, s, t[2]), OriginOf(s, t[2]), t[1], t[2])
  <2>1. CASE t \in D
    BY <2>1 DEF FlowInv
  <2>2. CASE t = <<h, k>>
    <3>1. t[1] = h /\ t[2] = k /\ t = <<t[1], t[2]>>
      BY <2>2
    <3>2. QED
      BY <3>1
  <2>3. QED
    BY <2>1, <2>2
<1>2. QED
  BY <1>1 DEF FlowInv

(* The tree of every packet is free of loops in a deployment.              *)
LEMMA WiresLoopFree ==
  ASSUME Deployed, NEW s, History(s)
  PROVE  LoopFreeWires(graph, wires, s)
<1>1. SUFFICES ASSUME NEW k \in Born(s)
               PROVE  TreeOf(wires, s, k) \subseteq graph /\ LoopFree(TreeOf(wires, s, k))
  BY DEF LoopFreeWires
<1>2. PICK w \in Wires : w = PacketOf(s, k).wire
  BY <1>1, HistoryPackets
<1>3. Sound(graph, wires[w].members, wires[w].attachments)
  BY DEF Deployed
<1>4. QED
  BY <1>2, <1>3 DEF TreeOf, Sound

(* A Link adds the packet to the inboxes of the other hosts.               *)
BoxesAfter(X, h, p, links, X2) ==
  /\ X2 \in [graph -> Seq(WirePackets)]
  /\ \A b \in graph :
       /\ DistinctKeys(X2[b])
       /\ KeysIn(X2[b]) = KeysIn(X[b])
            \union (IF b.host # h /\ b.link \in links THEN {Key(p)} ELSE {})
       /\ PacketsOf(X2[b]) \subseteq PacketsOf(X[b]) \union {p}

(* What the Links add to the inboxes: one key, at the far ends.            *)
LEMMA MovedBoxes ==
  ASSUME NEW X \in [graph -> Seq(WirePackets)], \A b \in graph : DistinctKeys(X[b]),
         NEW h, NEW p \in WirePackets, NEW links, NEW X2, X2 = Moved(graph, X, h, p, links),
         \A b \in graph : b.link \in links => Key(p) \notin KeysIn(X[b])
  PROVE  BoxesAfter(X, h, p, links, X2)
<1>1. ASSUME NEW b \in graph
      PROVE  /\ X2[b] \in Seq(WirePackets) /\ DistinctKeys(X2[b])
             /\ KeysIn(X2[b]) = KeysIn(X[b])
                  \union (IF b.host # h /\ b.link \in links THEN {Key(p)} ELSE {})
             /\ PacketsOf(X2[b]) \subseteq PacketsOf(X[b]) \union {p}
  <2>1. PICK x \in Seq(WirePackets) : x = X[b]
    OBVIOUS
  <2>2. CASE b.host # h /\ b.link \in links
    <3>1. X2[b] = Append(x, p)
      BY <2>1, <2>2 DEF Moved
    <3>2. DistinctKeys(x) /\ Key(p) \notin KeysIn(x)
      BY <2>1, <2>2
    <3>3. /\ Append(x, p) \in Seq(WirePackets)
          /\ PacketsOf(Append(x, p)) = PacketsOf(x) \union {p}
          /\ KeysIn(Append(x, p)) = KeysIn(x) \union {Key(p)}
          /\ DistinctKeys(Append(x, p))
      BY <3>2, AppendKeys
    <3>4. QED
      BY <2>1, <2>2, <3>1, <3>3
  <2>3. CASE ~(b.host # h /\ b.link \in links)
    <3>1. X2[b] = x
      BY <2>1, <2>3 DEF Moved
    <3>2. QED
      BY <2>1, <2>3, <3>1
  <2>4. QED
    BY <2>2, <2>3
<1>2. X2 = [b \in graph |-> X2[b]]
  BY DEF Moved
<1>3. X2 \in [graph -> Seq(WirePackets)]
  BY <1>1, <1>2
<1>4. QED
  BY <1>1, <1>3 DEF BoxesAfter

(* Attachment c leads away from the origin of k, over a Link that has not  *)
(* carried k.                                                              *)
LeadsAway(s, k, c) ==
  /\ Via(TreeOf(wires, s, k), OriginOf(s, k), LinkNode(c), c)
  /\ Joined(TreeOf(wires, s, k), OriginOf(s, k), LinkNode(c))
  /\ <<c.link, k>> \notin DOMAIN carried

(* Links take k from h: all those of its ports, unless k is disturbed.     *)
Spreading(s, h, k, ports, boxes, links) ==
  /\ DOMAIN carried' = DOMAIN carried \union (links \X {k})
  /\ carried' = SetToBag(DOMAIN carried')
  /\ inbox' \in [graph -> Seq(WirePackets)]
  /\ \A b \in graph :
       /\ KeysIn(inbox'[b]) = KeysIn(boxes[b])
            \union (IF b.host # h /\ b.link \in links THEN {k} ELSE {})
       /\ PacketsOf(inbox'[b]) \subseteq PacketsOf(boxes[b]) \union {PacketOf(s, k)}
  /\ disturbed \subseteq disturbed' /\ disturbed' \subseteq disturbed \union {k}
  /\ k \notin disturbed' => links = {c.link : c \in ports}
  /\ FlowInv(graph, wires, s, DOMAIN carried', inbox', DOMAIN dispatched)

(* A forward from a host that is the origin or has had the packet keeps    *)
(* the flow.                                                               *)
LEMMA ForwardStep ==
  ASSUME Deployed, NEW s, History(s), carried = SetToBag(DOMAIN carried),
         FlowInv(graph, wires, s, DOMAIN carried, inbox, DOMAIN dispatched),
         NEW k \in Born(s), NEW packet, Stamp(packet, 0) = PacketOf(s, k), Key(packet) = k,
         NEW h, NEW ports \in SUBSET TreeOf(wires, s, k),
         \A c \in ports : c.host = h /\ LeadsAway(s, k, c),
         NEW boxes \in [graph -> Seq(WirePackets)],
         \A b \in graph : DistinctKeys(boxes[b]) /\ KeysIn(boxes[b]) \subseteq KeysIn(inbox[b]),
         ports # {} =>
           \/ <<"host", h>> = OriginOf(s, k)
           \/ Had(DOMAIN carried, boxes, TreeOf(wires, s, k), OriginOf(s, k), h, k),
         ForwardedOver(ports, h, packet, boxes)
  PROVE  \E links \in SUBSET {c.link : c \in ports} : Spreading(s, h, k, ports, boxes, links)
<1>1. PICK links \in SUBSET {c.link : c \in ports} :
        /\ carried' = carried (+) SetToBag(links \X {k})
        /\ inbox' = Moved(graph, boxes, h, PacketOf(s, k), links)
        /\ disturbed \subseteq disturbed' /\ disturbed' \subseteq disturbed \union {k}
        /\ k \notin disturbed' => links = {c.link : c \in ports}
  BY DEF ForwardedOver
<1>2. LoopFreeWires(graph, wires, s)
  BY WiresLoopFree
<1>3. PICK T \in SUBSET graph : T = TreeOf(wires, s, k)
  BY <1>2 DEF LoopFreeWires
<1>4. PICK o : o = OriginOf(s, k)
  OBVIOUS
<1>5. PICK C : C = DOMAIN carried
  OBVIOUS
<1>6. \A l \in links : <<l, k>> \notin C
  BY <1>1, <1>5 DEF LeadsAway
<1>7. DOMAIN carried' = C \union (links \X {k}) /\ carried' = SetToBag(DOMAIN carried')
  <2>1. (links \X {k}) \intersect DOMAIN carried = {}
    BY <1>5, <1>6
  <2>2. PICK N : N = links \X {k}
    OBVIOUS
  <2>3. PICK B : B = carried
    OBVIOUS
  <2>4. B = SetToBag(DOMAIN B) /\ N \intersect DOMAIN B = {}
    BY <2>1, <2>2, <2>3
  <2>5. /\ DOMAIN (B (+) SetToBag(N)) = DOMAIN B \union N
        /\ B (+) SetToBag(N) = SetToBag(DOMAIN B \union N)
    BY <2>4, OnceAgain
  <2>6. QED
    BY <1>1, <1>5, <2>2, <2>3, <2>5
<1>8. PICK C2 : C2 = DOMAIN carried'
  OBVIOUS
<1>9. PICK p \in WirePackets : p = PacketOf(s, k) /\ Key(p) = k
  BY HistoryPackets
<1>10. \A b \in graph : b.link \in links => k \notin KeysIn(inbox[b])
  <2>1. SUFFICES ASSUME NEW b \in graph, b.link \in links, k \in KeysIn(inbox[b]) PROVE FALSE
    OBVIOUS
  <2>2. <<b.link, k>> \in C
    BY <1>5, <2>1 DEF FlowInv, UnderWayFrom
  <2>3. QED
    BY <1>6, <2>1, <2>2
<1>11. /\ inbox' \in [graph -> Seq(WirePackets)]
       /\ \A b \in graph :
            /\ DistinctKeys(inbox'[b])
            /\ KeysIn(inbox'[b]) = KeysIn(boxes[b])
                 \union (IF b.host # h /\ b.link \in links THEN {k} ELSE {})
            /\ PacketsOf(inbox'[b]) \subseteq PacketsOf(boxes[b]) \union {p}
  <2>1. \A b \in graph : DistinctKeys(boxes[b])
    OBVIOUS
  <2>2. \A b \in graph : b.link \in links => Key(p) \notin KeysIn(boxes[b])
    BY <1>9, <1>10
  <2>3. inbox' = Moved(graph, boxes, h, p, links)
    BY <1>1, <1>9
  <2>4. PICK X2 : X2 = Moved(graph, boxes, h, p, links)
    OBVIOUS
  <2>5. BoxesAfter(boxes, h, p, links, X2)
    BY <2>1, <2>2, <2>4, MovedBoxes
  <2>6. QED
    BY <1>9, <2>3, <2>4, <2>5 DEF BoxesAfter
<1>12. Spreads(graph, C, inbox, h, k, links, C2, inbox')
  BY <1>7, <1>8, <1>11 DEF Spreads
<1>13. \A l \in links : \E c \in T : /\ c.host = h /\ c.link = l
                                     /\ Via(T, o, LinkNode(c), c)
                                     /\ Joined(T, o, LinkNode(c))
  BY <1>1, <1>3, <1>4 DEF LeadsAway
<1>14. links # {} => <<"host", h>> = o \/ Had(C2, inbox', T, o, h, k)
  <2>1. SUFFICES ASSUME links # {}, Had(C, boxes, T, o, h, k) PROVE Had(C2, inbox', T, o, h, k)
    BY <1>1, <1>3, <1>4, <1>5
  <2>2. PICK e \in T : /\ e.host = h /\ Via(T, o, HostNode(e), e)
                       /\ <<e.link, k>> \in C /\ k \notin KeysIn(boxes[e])
    BY <2>1 DEF Had
  <2>3. KeysIn(inbox'[e]) = KeysIn(boxes[e])
    BY <1>3, <1>11, <2>2
  <2>4. <<e.link, k>> \in C2
    BY <1>7, <1>8, <2>2
  <2>5. QED
    BY <2>2, <2>3, <2>4 DEF Had
<1>15. FlowInv(graph, wires, s, C2, inbox', DOMAIN dispatched)
  <2>1. PICK X : X = inbox
    OBVIOUS
  <2>2. PICK X2 : X2 = inbox'
    OBVIOUS
  <2>3. PICK D : D = DOMAIN dispatched
    OBVIOUS
  <2>4. FlowInv(graph, wires, s, C, X, D) /\ Spreads(graph, C, X, h, k, links, C2, X2)
    BY <1>5, <1>12, <2>1, <2>2, <2>3
  <2>5. links # {} => <<"host", h>> = o \/ Had(C2, X2, T, o, h, k)
    BY <1>14, <2>2
  <2>6. FlowInv(graph, wires, s, C2, X2, D)
    BY <1>2, <1>3, <1>4, <1>6, <1>13, <2>4, <2>5, FlowKept
  <2>7. QED
    BY <2>2, <2>3, <2>6
<1>16. Spreading(s, h, k, ports, boxes, links)
  BY <1>1, <1>5, <1>7, <1>8, <1>9, <1>11, <1>15 DEF Spreading
<1>17. QED
  BY <1>16

-----------------------------------------------------------------------------
(* The inductive invariant, part one: what is where.                       *)

(* The inboxes and the service queues hold genuine packets.  A queue holds *)
(* packets its host dispatched, each once, and a directed one only at its  *)
(* destination.                                                            *)
BoxInv ==
  /\ inbox \in [graph -> Seq(WirePackets)]
  /\ \A b \in graph : \A p \in PacketsOf(inbox[b]) : Genuine(sent, p)
QueueInv ==
  /\ queue \in [Hosts -> Seq(QueuedPackets)]
  /\ \A h \in Hosts :
       /\ DistinctKeys(queue[h])
       /\ \A p \in PacketsOf(queue[h]) :
            /\ Genuine(sent, p) /\ <<h, Key(p)>> \in DOMAIN dispatched
            /\ p.destination # Broadcast => p.destination = h

(* A response was sent after its request was dispatched and dequeued.      *)
Dequeued(n) ==
  /\ <<sent[n].destination, <<n, "Request">>>> \in DOMAIN dispatched
  /\ <<n, "Request">> \notin KeysIn(queue[sent[n].destination])
AnswerInv ==
  \A t \in DOMAIN carried : t[2][2] = "Response" => Dequeued(t[2][1])

(* Every transmission and every dispatch happened once, along the Wire.    *)
OnceInv ==
  /\ carried = SetToBag(DOMAIN carried) /\ dispatched = SetToBag(DOMAIN dispatched)
  /\ FlowInv(graph, wires, sent, DOMAIN carried, inbox, DOMAIN dispatched)

PlaceInv ==
  Deployed /\ History(sent) /\ BoxInv /\ QueueInv /\ AnswerInv /\ OnceInv

(* The inboxes without the packet at the head of a's.                      *)
WithoutHead(X, a) == [X EXCEPT ![a] = Tail(@)]
HeadTaken(X, a, Y) ==
  /\ Y \in [graph -> Seq(WirePackets)]
  /\ \A b \in graph :
       /\ DistinctKeys(Y[b]) /\ PacketsOf(Y[b]) \subseteq PacketsOf(X[b])
       /\ KeysIn(Y[b]) = KeysIn(X[b]) \ (IF b = a THEN {Key(Head(X[a]))} ELSE {})

(* Taking the head of one inbox leaves the others as they are.             *)
LEMMA TakeHead ==
  ASSUME NEW X \in [graph -> Seq(WirePackets)], \A b \in graph : DistinctKeys(X[b]),
         NEW a \in graph, X[a] # <<>>
  PROVE  HeadTaken(X, a, WithoutHead(X, a))
<1>1. PICK x \in Seq(WirePackets) : x = X[a]
  OBVIOUS
<1>2. PICK Y : Y = WithoutHead(X, a)
  OBVIOUS
<1>3. /\ Y = [b \in graph |-> Y[b]] /\ Y[a] = Tail(x)
      /\ \A b \in graph : b # a => Y[b] = X[b]
  BY <1>1, <1>2 DEF WithoutHead
<1>4. /\ Tail(x) \in Seq(WirePackets) /\ PacketsOf(Tail(x)) \subseteq PacketsOf(x)
      /\ DistinctKeys(Tail(x)) /\ KeysIn(Tail(x)) = KeysIn(x) \ {Key(Head(x))}
  <2>1. x # <<>> /\ DistinctKeys(x)
    BY <1>1
  <2>2. QED
    BY <2>1, TailKeys
<1>5. ASSUME NEW b \in graph
      PROVE  /\ Y[b] \in Seq(WirePackets)
             /\ DistinctKeys(Y[b]) /\ PacketsOf(Y[b]) \subseteq PacketsOf(X[b])
             /\ KeysIn(Y[b]) = KeysIn(X[b]) \ (IF b = a THEN {Key(Head(X[a]))} ELSE {})
  <2>1. CASE b = a
    BY <1>1, <1>3, <1>4, <2>1
  <2>2. CASE b # a
    BY <1>3, <2>2
  <2>3. QED
    BY <2>1, <2>2
<1>6. Y \in [graph -> Seq(WirePackets)]
  BY <1>3, <1>5
<1>7. HeadTaken(X, a, Y)
  BY <1>5, <1>6 DEF HeadTaken
<1>8. QED
  BY <1>2, <1>7

(* A packet off an inbox or a queue.                                       *)
LEMMA HeadPacket ==
  ASSUME PlaceInv, NEW a \in graph, inbox[a] # <<>>
  PROVE  /\ Key(Head(inbox[a])) \in Born(sent) /\ Key(Head(inbox[a])) \in KeysIn(inbox[a])
         /\ Head(inbox[a]) = PacketOf(sent, Key(Head(inbox[a])))
         /\ IsPacket(Head(inbox[a]))
<1>1. PICK x \in Seq(WirePackets) : x = inbox[a]
  BY DEF PlaceInv, BoxInv
<1>2. PICK p \in WirePackets : p = Head(x) /\ p \in PacketsOf(x) /\ Key(p) \in KeysIn(x)
  BY <1>1, TailKeys
<1>3. Genuine(sent, p)
  BY <1>1, <1>2 DEF PlaceInv, BoxInv
<1>4. IsPacket(p) /\ p.ingress = 0
  BY WirePacketFields
<1>5. Stamp(p, 0) = p
  BY <1>4, StampFields
<1>6. QED
  BY <1>1, <1>2, <1>3, <1>4, <1>5 DEF Genuine

(* A queued packet has the fields of a packet.                             *)
LEMMA QueuedPacketFields ==
  ASSUME NEW p \in QueuedPackets
  PROVE  IsPacket(p)
<1>1. PICK q \in WirePackets, i \in 0..8 : p = Stamp(q, i)
  BY DEF QueuedPackets
<1>2. IsPacket(q)
  BY WirePacketFields
<1>3. QED
  BY <1>1, <1>2, StampFields

(* Attachments have hosts, Wires have attachments of the graph.            *)
LEMMA AttachedHost ==
  ASSUME Deployed, NEW a \in graph
  PROVE  a.host \in Hosts
BY DEF Deployed, Attachments

-----------------------------------------------------------------------------
(* What each action does, in these terms.                                  *)

(* Where a packet k goes that comes over a.                                *)
Onward(a, k) ==
  IF a \in TreeOf(wires, sent, k) THEN Ports(TreeOf(wires, sent, k), a.host, {a}) ELSE {}
Delivers(a, k) ==
  a \in TreeOf(wires, sent, k) /\ a.host \in wires[PacketOf(sent, k).wire].members

ReceiveEffect(a, k, links) ==
  /\ k \in Born(sent) /\ k = Key(Head(inbox[a])) /\ k \in KeysIn(inbox[a])
  /\ links \in SUBSET {c.link : c \in Onward(a, k)}
  /\ Spreading(sent, a.host, k, Onward(a, k), WithoutHead(inbox, a), links)
  /\ IF Delivers(a, k) THEN Dispatch(a.host, Stamp(PacketOf(sent, k), bits[a] + 1))
     ELSE UNCHANGED <<queue, snapshot, dispatched, admitted, reports>>

(* What Receive does, in the terms of the invariant: a packet leaves the   *)
(* inbox, spreads onward over the other attachments of its tree, and is    *)
(* dispatched if the host is a member.                                     *)
LEMMA ReceiveDoes ==
  ASSUME PlaceInv, NEW a \in graph, Receive(a)
  PROVE  \E k \in Born(sent) : \E links : ReceiveEffect(a, k, links)
<1>1. PICK k \in Born(sent) : /\ k = Key(Head(inbox[a])) /\ k \in KeysIn(inbox[a])
                              /\ Head(inbox[a]) = PacketOf(sent, k)
                              /\ IsPacket(PacketOf(sent, k))
  BY HeadPacket DEF Receive
<1>2. PICK p : p = PacketOf(sent, k)
  OBVIOUS
<1>3. PICK packet : packet = Stamp(p, bits[a] + 1)
  OBVIOUS
<1>4. /\ packet.ingress = bits[a] + 1 /\ packet.wire = p.wire /\ Key(packet) = k
      /\ Stamp(packet, 0) = p
  <2>1. IsPacket(p) /\ p.ingress = 0 /\ Key(p) = k
    BY <1>1, <1>2, HistoryPackets, WirePacketFields DEF PlaceInv
  <2>2. Stamp(p, 0) = p
    BY <2>1, StampFields
  <2>3. /\ Stamp(p, bits[a] + 1).ingress = bits[a] + 1
        /\ SamePacket(Stamp(p, bits[a] + 1), p) /\ Key(Stamp(p, bits[a] + 1)) = Key(p)
        /\ \A j : Stamp(Stamp(p, bits[a] + 1), j) = Stamp(p, j)
    BY <2>1, StampFields
  <2>4. QED
    BY <1>3, <2>1, <2>2, <2>3 DEF SamePacket
<1>5. PICK T : T = TreeOf(wires, sent, k)
  OBVIOUS
<1>6. /\ p.wire \in Wires /\ T = wires[p.wire].attachments /\ T \subseteq graph
  <2>1. LoopFreeWires(graph, wires, sent)
    BY WiresLoopFree DEF PlaceInv
  <2>2. p.wire \in Wires
    BY <1>2, HistoryPackets, WirePacketFields DEF PlaceInv
  <2>3. QED
    BY <1>2, <1>5, <2>1, <2>2 DEF LoopFreeWires, TreeOf
<1>7. Deployed /\ a.host \in Hosts
  BY AttachedHost DEF PlaceInv
<1>8. /\ Egress(routes[a.host], packet) = {bits[c] : c \in Onward(a, k)}
      /\ DispatchesLocally(routes[a.host], packet, isMemberOf(a.host, packet.wire))
           <=> Delivers(a, k)
  <2>1. CASE a \in T
    <3>1. Onward(a, k) = Ports(T, a.host, {a})
      BY <1>5, <2>1 DEF Onward
    <3>2. QED
      BY <1>2, <1>4, <1>5, <1>6, <1>7, <2>1, <3>1, TransitEgress DEF Delivers, isMemberOf
  <2>2. CASE a \notin T
    <3>1. Onward(a, k) = {}
      BY <1>5, <2>2 DEF Onward
    <3>2. {bits[c] : c \in Onward(a, k)} = {}
      BY <3>1
    <3>3. /\ Egress(routes[a.host], packet) = {}
          /\ ~DispatchesLocally(routes[a.host], packet, isMemberOf(a.host, packet.wire))
      BY <1>4, <1>6, <1>7, <2>2, TransitEgress
    <3>4. QED
      BY <1>5, <2>2, <3>2, <3>3 DEF Delivers
  <2>3. QED
    BY <2>1, <2>2
<1>9. PICK boxes : boxes = WithoutHead(inbox, a)
  OBVIOUS
<1>10. PICK answer \in Answers(a.host, packet) :
         /\ inbox' = Transmit(boxes, a.host, packet, answer)
         /\ RecordForward(a.host, packet, answer)
  BY <1>1, <1>2, <1>3, <1>9 DEF Receive, WithoutHead
<1>11. PICK ports \in SUBSET T : ports = Onward(a, k) /\ \A c \in ports : c.host = a.host
  <2>1. \A c \in Onward(a, k) : c \in T /\ c.host = a.host
    BY <1>5 DEF Onward, Ports
  <2>2. Onward(a, k) \in SUBSET T
    BY <2>1
  <2>3. QED
    BY <2>1, <2>2
<1>12. ForwardedOver(ports, a.host, packet, boxes)
  BY <1>6, <1>7, <1>8, <1>10, <1>11, ForwardEffect
<1>13. HeadTaken(inbox, a, boxes)
  BY <1>9, TakeHead DEF PlaceInv, BoxInv, OnceInv, FlowInv, Receive
<1>14. /\ boxes \in [graph -> Seq(WirePackets)]
       /\ \A b \in graph : DistinctKeys(boxes[b]) /\ KeysIn(boxes[b]) \subseteq KeysIn(inbox[b])
       /\ k \notin KeysIn(boxes[a])
  BY <1>1, <1>13 DEF HeadTaken
<1>15. /\ a \in T => /\ Via(T, OriginOf(sent, k), HostNode(a), a)
                     /\ <<a.link, k>> \in DOMAIN carried
       /\ \A c \in ports : LeadsAway(sent, k, c)
  <2>1. CASE a \in T
    <3>1. ports = Ports(T, a.host, {a})
      BY <1>5, <1>11, <2>1 DEF Onward
    <3>2. LoopFreeWires(graph, wires, sent)
      BY WiresLoopFree DEF PlaceInv
    <3>3. PICK C, X, D : /\ C = DOMAIN carried /\ X = inbox /\ D = DOMAIN dispatched
                         /\ FlowInv(graph, wires, sent, C, X, D)
      BY DEF PlaceInv, OnceInv
    <3>4. PICK o : o = OriginOf(sent, k)
      OBVIOUS
    <3>5. k \in KeysIn(X[a]) /\ a \in TreeOf(wires, sent, k)
      BY <1>1, <1>5, <2>1, <3>3
    <3>6. InTransit(wires, sent, C, D, a, k)
      BY <3>2, <3>3, <3>5, TransitSources
    <3>7. QED
      BY <1>5, <3>1, <3>3, <3>4, <3>6 DEF LeadsAway, InTransit
  <2>2. CASE a \notin T
    BY <1>5, <1>11, <2>2 DEF Onward
  <2>3. QED
    BY <2>1, <2>2
<1>16. ports # {} => Had(DOMAIN carried, boxes, T, OriginOf(sent, k), a.host, k)
  BY <1>5, <1>11, <1>14, <1>15 DEF Onward, Had
<1>17. PICK links \in SUBSET {c.link : c \in ports} :
         Spreading(sent, a.host, k, ports, boxes, links)
  <2>1. /\ Deployed /\ History(sent) /\ carried = SetToBag(DOMAIN carried)
        /\ FlowInv(graph, wires, sent, DOMAIN carried, inbox, DOMAIN dispatched)
    BY DEF PlaceInv, OnceInv
  <2>2. QED
    BY <1>1, <1>2, <1>4, <1>5, <1>11, <1>12, <1>14, <1>15, <1>16, <2>1, ForwardStep
<1>18. IF Delivers(a, k) THEN Dispatch(a.host, packet)
       ELSE UNCHANGED <<queue, snapshot, dispatched, admitted, reports>>
  BY <1>1, <1>2, <1>3, <1>8 DEF Receive
<1>19. ReceiveEffect(a, k, links)
  BY <1>1, <1>2, <1>3, <1>9, <1>11, <1>17, <1>18 DEF ReceiveEffect
<1>20. QED
  BY <1>19

(* From its origin a packet goes over every attachment of its Wire.        *)
FromOrigin(s, k) == Ports(TreeOf(wires, s, k), PacketOf(s, k).source, {})

(* The first forward of a packet spreads it over every attachment of its   *)
(* origin on its Wire.                                                     *)
LEMMA OriginForward ==
  ASSUME Deployed, NEW s, History(s), carried = SetToBag(DOMAIN carried),
         inbox \in [graph -> Seq(WirePackets)],
         FlowInv(graph, wires, s, DOMAIN carried, inbox, DOMAIN dispatched),
         NEW k \in Born(s), \A l : <<l, k>> \notin DOMAIN carried,
         NEW h \in Hosts, NEW packet, packet = PacketOf(s, k), packet.source = h,
         NEW answer \in Answers(h, packet),
         inbox' = Transmit(inbox, h, packet, answer), RecordForward(h, packet, answer)
  PROVE  \E links \in SUBSET {c.link : c \in FromOrigin(s, k)} :
           Spreading(s, h, k, FromOrigin(s, k), inbox, links)
<1>1. PICK T \in SUBSET graph : T = TreeOf(wires, s, k) /\ LoopFree(T)
  BY WiresLoopFree DEF LoopFreeWires
<1>2. /\ packet.wire \in Wires /\ packet.ingress = 0 /\ Key(packet) = k
      /\ Stamp(packet, 0) = packet
  <2>1. packet \in WirePackets /\ Key(packet) = k
    BY HistoryPackets
  <2>2. packet.wire \in Wires /\ packet.ingress = 0 /\ IsPacket(packet)
    BY <2>1, WirePacketFields
  <2>3. Stamp(packet, 0) = packet
    BY <2>2, StampFields
  <2>4. QED
    BY <2>1, <2>2, <2>3
<1>3. PICK ports : ports = FromOrigin(s, k) /\ ports = Ports(T, h, {})
  BY <1>1 DEF FromOrigin
<1>4. ports \in SUBSET T /\ ports \in SUBSET graph /\ \A c \in ports : c \in T /\ c.host = h
  BY <1>3 DEF Ports
<1>5. Egress(routes[h], packet) = {bits[c] : c \in ports}
  <2>1. T = wires[packet.wire].attachments
    BY <1>1 DEF TreeOf
  <2>2. QED
    BY <1>2, <1>3, <2>1, OriginEgress
<1>6. ForwardedOver(ports, h, packet, inbox)
  BY <1>4, <1>5, ForwardEffect
<1>7. OriginOf(s, k) = <<"host", h>>
  BY DEF OriginOf
<1>8. \A c \in ports : LeadsAway(s, k, c)
  BY <1>1, <1>4, <1>7, OriginSources DEF LeadsAway
<1>9. \A b \in graph : DistinctKeys(inbox[b]) /\ KeysIn(inbox[b]) \subseteq KeysIn(inbox[b])
  BY DEF FlowInv
<1>10. PICK boxes \in [graph -> Seq(WirePackets)] : boxes = inbox
  OBVIOUS
<1>11. /\ \A b \in graph : DistinctKeys(boxes[b]) /\ KeysIn(boxes[b]) \subseteq KeysIn(inbox[b])
       /\ ForwardedOver(ports, h, packet, boxes) /\ ports \in SUBSET TreeOf(wires, s, k)
       /\ \A c \in ports : c.host = h /\ LeadsAway(s, k, c)
       /\ Stamp(packet, 0) = PacketOf(s, k)
  BY <1>1, <1>2, <1>4, <1>6, <1>8, <1>9, <1>10
<1>12. \E links \in SUBSET {c.link : c \in ports} : Spreading(s, h, k, ports, boxes, links)
  BY <1>2, <1>7, <1>11, ForwardStep
<1>13. QED
  BY <1>3, <1>10, <1>12

OriginateEffect(h, packet, links) ==
  /\ packet \in RequestPackets /\ packet.sequence_number = Len(sent) + 1 /\ packet.source = h
  /\ sent' = Append(sent, packet)
  /\ links \in SUBSET {c.link : c \in FromOrigin(sent', Key(packet))}
  /\ Spreading(sent', h, Key(packet), FromOrigin(sent', Key(packet)), inbox, links)

(* What Originate does, in the terms of the invariant.                     *)
LEMMA OriginateDoes ==
  ASSUME PlaceInv, NEW h \in Hosts, Originate(h)
  PROVE  \E packet \in RequestPackets : \E links : OriginateEffect(h, packet, links)
<1>1. PICK n : n = Len(sent) + 1 /\ n \in DOMAIN Publications
  <2>1. Len(sent) \in Nat /\ Len(sent) < Len(Publications)
    BY DEF PlaceInv, History, Originate
  <2>2. QED
    BY <2>1, NetworkAssumption
<1>2. PICK q \in Publications[n] :
        /\ q.source = h
        /\ \E answer \in Answers(h, initialize(n, q)) :
             /\ inbox' = Transmit(inbox, h, initialize(n, q), answer)
             /\ RecordForward(h, initialize(n, q), answer)
        /\ sent' = Append(sent, initialize(n, q))
  BY <1>1 DEF Originate
<1>3. PICK packet \in RequestPackets : packet = initialize(n, q)
  BY <1>1, <1>2 DEF RequestPackets
<1>4. packet.sequence_number = n /\ packet.source = h
  BY <1>2, <1>3 DEF initialize
<1>5. PICK k : k = Key(packet)
  OBVIOUS
<1>6. PICK s : s = sent'
  OBVIOUS
<1>7. /\ History(s) /\ Born(sent) \subseteq Born(s)
      /\ \A j \in Born(sent) : PacketOf(s, j) = PacketOf(sent, j)
      /\ k \in Born(s) /\ PacketOf(s, k) = packet /\ k \notin Born(sent)
  <2>1. PICK old : old = sent /\ History(old)
    BY DEF PlaceInv
  <2>2. packet.sequence_number = Len(old) + 1 /\ s = Append(old, packet)
    BY <1>1, <1>2, <1>3, <1>4, <1>6, <2>1
  <2>3. Grown(old, packet, s)
    BY <2>1, <2>2, HistoryGrows
  <2>4. QED
    BY <1>5, <2>1, <2>3 DEF Grown
<1>8. FlowInv(graph, wires, s, DOMAIN carried, inbox, DOMAIN dispatched)
  BY <1>7, FlowLonger DEF PlaceInv, OnceInv
<1>9. \A l : <<l, k>> \notin DOMAIN carried
  <2>1. SUFFICES ASSUME NEW t \in DOMAIN carried, t[2] = k PROVE FALSE
    OBVIOUS
  <2>2. t[2] \in Born(sent)
    BY DEF PlaceInv, OnceInv, FlowInv
  <2>3. QED
    BY <1>7, <2>1, <2>2
<1>10. /\ Deployed /\ carried = SetToBag(DOMAIN carried)
       /\ inbox \in [graph -> Seq(WirePackets)]
  BY DEF PlaceInv, OnceInv, BoxInv
<1>11. PICK answer \in Answers(h, packet) :
         inbox' = Transmit(inbox, h, packet, answer) /\ RecordForward(h, packet, answer)
  BY <1>2, <1>3
<1>12. PICK links \in SUBSET {c.link : c \in FromOrigin(s, k)} :
         Spreading(s, h, k, FromOrigin(s, k), inbox, links)
  BY <1>4, <1>7, <1>8, <1>9, <1>10, <1>11, OriginForward
<1>13. OriginateEffect(h, packet, links)
  BY <1>1, <1>2, <1>3, <1>4, <1>5, <1>6, <1>12 DEF OriginateEffect
<1>14. QED
  BY <1>13

(* The service takes the request k off its queue and answers it.           *)
ResponseTo(k) == <<k[1], "Response">>
ServiceEffect(h, k, links) ==
  /\ k \in Born(sent) /\ k = Key(Head(queue[h])) /\ k \in KeysIn(queue[h])
  /\ queue' = [queue EXCEPT ![h] = Tail(@)]
  /\ IF Answerable(PacketOf(sent, k))
     THEN /\ k = <<k[1], "Request">> /\ k[1] \in DOMAIN sent /\ ResponseTo(k) \in Born(sent)
          /\ sent[k[1]].destination = h /\ PacketOf(sent, ResponseTo(k)).source = h
          /\ links \in SUBSET {c.link : c \in FromOrigin(sent, ResponseTo(k))}
          /\ Spreading(sent, h, ResponseTo(k), FromOrigin(sent, ResponseTo(k)), inbox, links)
     ELSE UNCHANGED <<inbox, carried, disturbed>>

(* What ServiceRun does, in the terms of the invariant: the head of the    *)
(* queue is taken and a ping is answered.                                  *)
LEMMA ServiceDoes ==
  ASSUME PlaceInv, NEW h \in Hosts, ServiceRun(h)
  PROVE  \E k \in Born(sent) : \E links : ServiceEffect(h, k, links)
<1>1. PICK x \in Seq(QueuedPackets) : x = queue[h] /\ x # <<>>
  BY DEF PlaceInv, QueueInv, ServiceRun
<1>2. PICK r \in QueuedPackets : r = Head(x) /\ r \in PacketsOf(x) /\ Key(r) \in KeysIn(x)
  BY <1>1, TailKeys
<1>3. /\ Genuine(sent, r) /\ <<h, Key(r)>> \in DOMAIN dispatched
      /\ r.destination # Broadcast => r.destination = h
  BY <1>1, <1>2 DEF PlaceInv, QueueInv
<1>4. IsPacket(r)
  BY QueuedPacketFields
<1>5. PICK k \in Born(sent) : k = Key(r) /\ Stamp(r, 0) = PacketOf(sent, k)
  BY <1>3 DEF Genuine
<1>6. SamePacket(r, PacketOf(sent, k))
  BY <1>3, <1>4, <1>5, GenuineFields
<1>7. Answerable(r) <=> Answerable(PacketOf(sent, k))
  BY <1>6 DEF SamePacket, Answerable
<1>8. queue' = [queue EXCEPT ![h] = Tail(@)]
  BY DEF ServiceRun
<1>9. CASE ~Answerable(r)
  <2>1. UNCHANGED <<inbox, carried, disturbed>>
    BY <1>1, <1>2, <1>9 DEF ServiceRun
  <2>2. ServiceEffect(h, k, {})
    BY <1>1, <1>2, <1>5, <1>7, <1>8, <1>9, <2>1 DEF ServiceEffect
  <2>3. QED
    BY <2>2
<1>10. CASE Answerable(r)
  <2>1. r.destination = h /\ r.type = "Request"
    BY <1>3, <1>10 DEF Answerable
  <2>2. k[1] \in DOMAIN sent /\ k = <<k[1], k[2]>>
    BY HistoryPackets DEF PlaceInv
  <2>3. k = <<k[1], "Request">> /\ k[2] = "Request"
    BY <1>5, <2>1, <2>2 DEF Key
  <2>4. PICK n \in DOMAIN sent : n = k[1]
    BY <2>2
  <2>5. PICK j : j = <<n, "Response">>
    OBVIOUS
  <2>6. j \in Born(sent) /\ j = ResponseTo(k) /\ j[1] = n /\ j[2] = "Response"
    BY <2>4, <2>5 DEF Born, ResponseTo
  <2>7. PacketOf(sent, k) = sent[n]
    BY <2>3, <2>4 DEF PacketOf
  <2>8. sent[n].destination = h
    BY <1>6, <2>1, <2>7 DEF SamePacket
  <2>9. initializeResponseTo(r) = PacketOf(sent, j)
    <3>1. initializeResponseTo(Stamp(r, 0)) = initializeResponseTo(r)
      BY <1>4, ResponseOfStamped
    <3>2. PacketOf(sent, j) = initializeResponseTo(sent[n])
      BY <2>6 DEF PacketOf
    <3>3. QED
      BY <1>5, <2>7, <3>1, <3>2
  <2>10. PICK response : response = PacketOf(sent, j) /\ response.source = h
    BY <2>6, <2>8, HistoryPackets DEF PlaceInv
  <2>11. PICK answer \in Answers(h, response) :
           inbox' = Transmit(inbox, h, response, answer) /\ RecordForward(h, response, answer)
    BY <1>1, <1>2, <1>10, <2>9, <2>10 DEF ServiceRun
  <2>12. \A l : <<l, j>> \notin DOMAIN carried
    <3>1. SUFFICES ASSUME NEW t \in DOMAIN carried, t[2] = j PROVE FALSE
      OBVIOUS
    <3>2. t[2][2] = "Response" /\ t[2][1] = n
      BY <2>6, <3>1
    <3>3. Dequeued(n)
      BY <3>2 DEF PlaceInv, AnswerInv
    <3>4. <<n, "Request">> \notin KeysIn(x)
      BY <1>1, <2>8, <3>3 DEF Dequeued
    <3>5. QED
      BY <1>2, <1>5, <2>3, <2>4, <3>4
  <2>13. /\ Deployed /\ History(sent) /\ carried = SetToBag(DOMAIN carried)
         /\ inbox \in [graph -> Seq(WirePackets)]
         /\ FlowInv(graph, wires, sent, DOMAIN carried, inbox, DOMAIN dispatched)
    BY DEF PlaceInv, OnceInv, BoxInv
  <2>14. PICK links \in SUBSET {c.link : c \in FromOrigin(sent, j)} :
           Spreading(sent, h, j, FromOrigin(sent, j), inbox, links)
    BY <2>6, <2>10, <2>11, <2>12, <2>13, OriginForward
  <2>15. ServiceEffect(h, k, links)
    BY <1>1, <1>2, <1>5, <1>7, <1>8, <1>10, <2>2, <2>3, <2>4, <2>6, <2>8, <2>10, <2>14
    DEF ServiceEffect
  <2>16. QED
    BY <2>15
<1>11. QED
  BY <1>9, <1>10

(* A lost frame: no Link carries anything, and the packet is disturbed.    *)
LoseEffect(a, k) ==
  /\ k \in Born(sent) /\ k = Key(Head(inbox[a])) /\ k \in KeysIn(inbox[a])
  /\ Spreading(sent, a.host, k, {}, WithoutHead(inbox, a), {})
  /\ k \in disturbed'

(* What Lose does, in the terms of the invariant.                          *)
LEMMA LoseDoes ==
  ASSUME PlaceInv, NEW a \in graph, Lose(a)
  PROVE  \E k \in Born(sent) : LoseEffect(a, k)
<1>1. PICK k \in Born(sent) : k = Key(Head(inbox[a])) /\ k \in KeysIn(inbox[a])
  BY HeadPacket DEF Lose
<1>2. PICK C, B : B = carried /\ C = DOMAIN B /\ B = SetToBag(C)
  BY DEF PlaceInv, OnceInv
<1>3. PICK Y : Y = WithoutHead(inbox, a) /\ inbox' = Y /\ carried' = B
  BY <1>2 DEF Lose, WithoutHead
<1>4. HeadTaken(inbox, a, Y)
  BY <1>3, TakeHead DEF PlaceInv, BoxInv, OnceInv, FlowInv, Lose
<1>5. ({} \X {k}) = {}
  OBVIOUS
<1>6. PICK X, D : /\ X = inbox /\ D = DOMAIN dispatched
                  /\ FlowInv(graph, wires, sent, C, X, D)
  BY <1>2 DEF PlaceInv, OnceInv
<1>7. Spreads(graph, C, X, a.host, k, {}, C, Y)
  BY <1>4, <1>5, <1>6 DEF Spreads, HeadTaken
<1>8. LoopFreeWires(graph, wires, sent)
  BY WiresLoopFree DEF PlaceInv
<1>9. FlowInv(graph, wires, sent, C, Y, D)
  <2>1. PICK links : links = {}
    OBVIOUS
  <2>2. Spreads(graph, C, X, a.host, k, links, C, Y) /\ ~(\E l : l \in links)
    BY <1>7, <2>1
  <2>3. QED
    BY <1>6, <1>8, <2>2, FlowKept
<1>10. {c.link : c \in {}} = {}
  OBVIOUS
<1>11. disturbed' = disturbed \union {k}
  BY <1>1 DEF Lose
<1>12. Spreading(sent, a.host, k, {}, Y, {})
  BY <1>2, <1>3, <1>4, <1>5, <1>6, <1>9, <1>10, <1>11 DEF Spreading, HeadTaken
<1>13. LoseEffect(a, k)
  BY <1>1, <1>3, <1>11, <1>12 DEF LoseEffect
<1>14. QED
  BY <1>13

-----------------------------------------------------------------------------
(* Every action keeps what is where.                                       *)

(* The generated tables never change.                                      *)
LEMMA DeployedKept ==
  ASSUME Deployed, UNCHANGED generated
  PROVE  Deployed'
BY DEF Deployed, generated

(* What the Links add to the inboxes is genuine.                           *)
LEMMA SpreadBoxes ==
  ASSUME NEW s, History(s), NEW h, NEW k \in Born(s), NEW ports, NEW links, NEW boxes,
         \A b \in graph : \A p \in PacketsOf(boxes[b]) : Genuine(s, p),
         Spreading(s, h, k, ports, boxes, links)
  PROVE  /\ inbox' \in [graph -> Seq(WirePackets)]
         /\ \A b \in graph : \A p \in PacketsOf(inbox'[b]) : Genuine(s, p)
<1>1. PICK q \in WirePackets : q = PacketOf(s, k) /\ Key(q) = k
  BY HistoryPackets
<1>2. Stamp(q, 0) = q
  BY WirePacketFields, StampFields
<1>3. Genuine(s, q)
  BY <1>1, <1>2 DEF Genuine
<1>4. \A b \in graph : PacketsOf(inbox'[b]) \subseteq PacketsOf(boxes[b]) \union {q}
  BY <1>1 DEF Spreading
<1>5. QED
  BY <1>3, <1>4 DEF Spreading

(* What is offered to the service is broadcast or directed to the host.    *)
LEMMA OfferedDirected ==
  ASSUME NEW packet, NEW h, NEW member, OfferedTo(packet, h, member) # {}
  PROVE  hasSupportedControl(packet) /\ packet.destination \in {Broadcast, h}
<1>1. CASE ~hasSupportedControl(packet)
  BY <1>1 DEF OfferedTo
<1>2. CASE hasSupportedControl(packet) /\ packet.destination \notin {Broadcast, h}
  BY <1>2 DEF OfferedTo
<1>3. QED
  BY <1>1, <1>2

(* Dispatching a packet the host has not dispatched before.                *)
DispatchEffect(h, packet) ==
  /\ DOMAIN dispatched' = DOMAIN dispatched \union {<<h, Key(packet)>>}
  /\ dispatched' = SetToBag(DOMAIN dispatched')
  /\ \A i \in Hosts : KeysIn(queue'[i]) \subseteq
                        KeysIn(queue[i]) \union (IF i = h THEN {Key(packet)} ELSE {})
  /\ \A i \in Hosts : KeysIn(queue[i]) \subseteq KeysIn(queue'[i])
  /\ "service" \in Accepting(h, packet) => Key(packet) \in KeysIn(queue'[h])

(* What a dispatch does to queues, dispatches and acceptances, and that it *)
(* keeps the queues within their bounds.                                   *)
LEMMA DispatchDoes ==
  ASSUME QueueInv, NEW h \in Hosts, NEW packet \in QueuedPackets, Genuine(sent, packet),
         dispatched = SetToBag(DOMAIN dispatched),
         <<h, Key(packet)>> \notin DOMAIN dispatched,
         sent' = sent, Dispatch(h, packet)
  PROVE  QueueInv' /\ DispatchEffect(h, packet)
<1>1. PICK k : k = Key(packet)
  OBVIOUS
<1>2. /\ DOMAIN dispatched' = DOMAIN dispatched \union {<<h, k>>}
      /\ dispatched' = SetToBag(DOMAIN dispatched')
  <2>1. PICK B, N : B = dispatched /\ N = {<<h, k>>}
    OBVIOUS
  <2>2. B = SetToBag(DOMAIN B) /\ N \intersect DOMAIN B = {}
    BY <1>1, <2>1
  <2>3. /\ DOMAIN (B (+) SetToBag(N)) = DOMAIN B \union N
        /\ B (+) SetToBag(N) = SetToBag(DOMAIN B \union N)
    BY <2>2, OnceAgain
  <2>4. dispatched' = B (+) SetToBag(N)
    BY <1>1, <2>1 DEF Dispatch
  <2>5. QED
    BY <2>1, <2>3, <2>4
<1>3. PICK x \in Seq(QueuedPackets) : x = queue[h] /\ DistinctKeys(x)
  BY DEF QueueInv
<1>4. k \notin KeysIn(x)
  BY <1>1, <1>3 DEF QueueInv, KeysIn
<1>5. CASE "service" \notin Accepting(h, packet)
  <2>1. queue' = queue
    BY <1>5 DEF Dispatch
  <2>2. QueueInv'
    BY <1>2, <2>1 DEF QueueInv
  <2>3. QED
    BY <1>1, <1>2, <1>5, <2>1, <2>2 DEF DispatchEffect
<1>6. CASE "service" \in Accepting(h, packet)
  <2>1. PICK y : y = Append(x, packet)
    OBVIOUS
  <2>2. /\ y \in Seq(QueuedPackets) /\ PacketsOf(y) = PacketsOf(x) \union {packet}
        /\ KeysIn(y) = KeysIn(x) \union {k} /\ DistinctKeys(y)
    BY <1>1, <1>3, <1>4, <2>1, AppendKeys
  <2>3. /\ queue' \in [Hosts -> Seq(QueuedPackets)]
        /\ queue'[h] = y /\ \A i \in Hosts : i # h => queue'[i] = queue[i]
    <3>1. queue' = [queue EXCEPT ![h] = y]
      BY <1>3, <1>6, <2>1 DEF Dispatch
    <3>2. QED
      BY <2>2, <3>1 DEF QueueInv
  <2>4. packet.destination # Broadcast => packet.destination = h
    BY <1>6, OfferedDirected DEF Accepting
  <2>5. ASSUME NEW i \in Hosts
        PROVE  /\ DistinctKeys(queue'[i])
               /\ \A p \in PacketsOf(queue'[i]) :
                    /\ Genuine(sent, p) /\ <<i, Key(p)>> \in DOMAIN dispatched'
                    /\ p.destination # Broadcast => p.destination = i
    <3>1. CASE i # h
      BY <1>2, <2>3, <3>1 DEF QueueInv
    <3>2. CASE i = h
      <4>1. ASSUME NEW p \in PacketsOf(y)
            PROVE  /\ Genuine(sent, p) /\ <<h, Key(p)>> \in DOMAIN dispatched'
                   /\ p.destination # Broadcast => p.destination = h
        <5>1. CASE p = packet
          BY <1>1, <1>2, <2>4, <5>1
        <5>2. CASE p \in PacketsOf(x)
          BY <1>2, <1>3, <5>2 DEF QueueInv
        <5>3. QED
          BY <2>2, <5>1, <5>2
      <4>2. QED
        BY <2>2, <2>3, <3>2, <4>1
    <3>3. QED
      BY <3>1, <3>2
  <2>6. QueueInv'
    BY <2>3, <2>5 DEF QueueInv
  <2>7. \A i \in Hosts : /\ KeysIn(queue'[i]) \subseteq
                              KeysIn(queue[i]) \union (IF i = h THEN {k} ELSE {})
                         /\ KeysIn(queue[i]) \subseteq KeysIn(queue'[i])
    BY <1>3, <2>2, <2>3
  <2>8. k \in KeysIn(queue'[h])
    BY <2>2, <2>3
  <2>9. QED
    BY <1>1, <1>2, <2>6, <2>7, <2>8 DEF DispatchEffect
<1>7. QED
  BY <1>5, <1>6

(* Genuine packets stay genuine when the history grows.                    *)
LEMMA GenuineLonger ==
  ASSUME NEW s, NEW s2, Born(s) \subseteq Born(s2),
         \A k \in Born(s) : PacketOf(s2, k) = PacketOf(s, k),
         NEW p, Genuine(s, p)
  PROVE  Genuine(s2, p)
BY DEF Genuine

(* Initially nothing is anywhere.                                          *)
LEMMA PlaceInit ==
  NetworkInit => PlaceInv
<1> SUFFICES ASSUME NetworkInit PROVE PlaceInv
  OBVIOUS
<1>1. graph \in SUBSET Attachments /\ graph \in Admitted
  BY NetworkAssumption DEF NetworkInit, Admitted
<1>2. DOMAIN wires = Wires /\ \A w \in Wires : wires[w] \in ResolvedWires(graph)
  <2>1. wires \in [Wires -> ResolvedWires(graph)]
    BY DEF NetworkInit
  <2>2. QED
    BY <2>1
<1>3. \A w \in Wires : /\ Sound(graph, wires[w].members, wires[w].attachments)
                       /\ wires[w].members \subseteq Hosts
  BY <1>1, <1>2, ResolvedWiresAreSound
<1>4. Deployed
  BY <1>1, <1>2, <1>3 DEF NetworkInit, Deployed
<1>5. sent = <<>> /\ sent \in Seq(RequestPackets) /\ DOMAIN sent = {}
  BY DEF NetworkInit
<1>6. History(sent)
  BY <1>5 DEF History
<1>7. \A s : s = <<>> => PacketsOf(s) = {} /\ KeysIn(s) = {} /\ DistinctKeys(s)
  <2>1. SUFFICES ASSUME NEW s, s = <<>> PROVE PacketsOf(s) = {} /\ KeysIn(s) = {} /\ DistinctKeys(s)
    OBVIOUS
  <2>2. DOMAIN s = {}
    BY <2>1
  <2>3. QED
    BY <2>2 DEF PacketsOf, KeysIn, DistinctKeys
<1>8. \A b \in graph : inbox[b] = <<>>
  BY DEF NetworkInit
<1>9. inbox \in [graph -> Seq(WirePackets)] /\ queue \in [Hosts -> Seq(QueuedPackets)]
  <2>1. <<>> \in Seq(WirePackets) /\ <<>> \in Seq(QueuedPackets)
    OBVIOUS
  <2>2. QED
    BY <2>1 DEF NetworkInit
<1>10. BoxInv
  BY <1>7, <1>8, <1>9 DEF BoxInv
<1>11. \A h \in Hosts : queue[h] = <<>>
  BY DEF NetworkInit
<1>12. QueueInv
  BY <1>7, <1>9, <1>11 DEF QueueInv
<1>13. carried = SetToBag({}) /\ dispatched = SetToBag({})
  BY DEF NetworkInit, EmptyBag
<1>14. /\ DOMAIN carried = {} /\ DOMAIN dispatched = {}
       /\ carried = SetToBag(DOMAIN carried) /\ dispatched = SetToBag(DOMAIN dispatched)
  BY <1>13 DEF SetToBag
<1>15. AnswerInv
  BY <1>14 DEF AnswerInv
<1>16. FlowInv(graph, wires, sent, DOMAIN carried, inbox, DOMAIN dispatched)
  BY <1>7, <1>8, <1>14 DEF FlowInv
<1>17. QED
  BY <1>4, <1>6, <1>10, <1>12, <1>14, <1>15, <1>16 DEF PlaceInv, OnceInv

(* Originate keeps the invariant: the new packet is at its origin only.    *)
LEMMA PlaceOriginate ==
  ASSUME PlaceInv, NEW h \in Hosts, Originate(h)
  PROVE  PlaceInv'
<1>1. PICK packet \in RequestPackets : \E links : OriginateEffect(h, packet, links)
  BY OriginateDoes
<1>2. PICK links : OriginateEffect(h, packet, links)
  BY <1>1
<1>3. UNCHANGED <<queue, dispatched>> /\ UNCHANGED generated
  BY DEF Originate
<1>4. PICK k : k = Key(packet)
  OBVIOUS
<1>5. PICK s, ports : /\ s = sent' /\ ports = FromOrigin(s, k)
                      /\ Spreading(s, h, k, ports, inbox, links)
  BY <1>2, <1>4 DEF OriginateEffect
<1>6. /\ History(s) /\ Born(sent) \subseteq Born(s)
      /\ \A j \in Born(sent) : PacketOf(s, j) = PacketOf(sent, j)
      /\ k \in Born(s) /\ \A n \in DOMAIN sent : s[n] = sent[n]
  <2>1. PICK old : old = sent /\ History(old)
    BY DEF PlaceInv
  <2>2. packet.sequence_number = Len(old) + 1 /\ s = Append(old, packet)
    BY <1>2, <1>5, <2>1 DEF OriginateEffect
  <2>3. Grown(old, packet, s)
    BY <2>1, <2>2, HistoryGrows
  <2>4. QED
    BY <1>4, <2>1, <2>3 DEF Grown
<1>7. Deployed'
  BY <1>3, DeployedKept DEF PlaceInv
<1>8. BoxInv'
  <2>1. \A b \in graph : \A p \in PacketsOf(inbox[b]) : Genuine(s, p)
    BY <1>6, GenuineLonger DEF PlaceInv, BoxInv
  <2>2. /\ inbox' \in [graph -> Seq(WirePackets)]
        /\ \A b \in graph : \A p \in PacketsOf(inbox'[b]) : Genuine(s, p)
    BY <1>5, <1>6, <2>1, SpreadBoxes
  <2>3. QED
    BY <1>3, <1>5, <2>2 DEF BoxInv, generated
<1>9. QueueInv'
  <2>1. \A i \in Hosts : \A p \in PacketsOf(queue[i]) : Genuine(s, p)
    BY <1>6, GenuineLonger DEF PlaceInv, QueueInv
  <2>2. QED
    BY <1>3, <1>5, <2>1 DEF PlaceInv, QueueInv
<1>10. OnceInv'
  <2>1. FlowInv(graph, wires, s, DOMAIN carried', inbox', DOMAIN dispatched)
    BY <1>5 DEF Spreading
  <2>2. carried' = SetToBag(DOMAIN carried')
    BY <1>5 DEF Spreading
  <2>3. QED
    BY <1>3, <1>5, <2>1, <2>2 DEF PlaceInv, OnceInv, generated
<1>11. AnswerInv'
  <2>1. SUFFICES ASSUME NEW t \in DOMAIN carried', t[2][2] = "Response"
                 PROVE  Dequeued(t[2][1])'
    BY DEF AnswerInv
  <2>2. t \in DOMAIN carried
    <3>1. ASSUME t \notin DOMAIN carried PROVE FALSE
      <4>1. PICK l : t = <<l, k>>
        BY <1>5, <3>1 DEF Spreading
      <4>2. k = <<packet.sequence_number, "Request">>
        BY <1>4, RequestFields DEF Key
      <4>3. QED
        BY <2>1, <4>1, <4>2
    <3>2. QED
      BY <3>1
  <2>3. Dequeued(t[2][1])
    BY <2>1, <2>2 DEF PlaceInv, AnswerInv
  <2>4. t[2] \in Born(sent)
    BY <2>2 DEF PlaceInv, OnceInv, FlowInv
  <2>5. s[t[2][1]] = sent[t[2][1]]
    BY <1>6, <2>4 DEF Born
  <2>6. QED
    BY <1>3, <1>5, <2>3, <2>5 DEF Dequeued
<1>12. QED
  BY <1>5, <1>6, <1>7, <1>8, <1>9, <1>10, <1>11 DEF PlaceInv

(* Lose keeps it: a packet taken off a Link is somewhere less.             *)
LEMMA PlaceLose ==
  ASSUME PlaceInv, NEW a \in graph, Lose(a)
  PROVE  PlaceInv'
<1>1. PICK k \in Born(sent) : LoseEffect(a, k)
  BY LoseDoes
<1>2. UNCHANGED <<queue, sent, dispatched, carried>> /\ UNCHANGED generated
  BY DEF Lose
<1>3. PICK Y : Y = WithoutHead(inbox, a)
  OBVIOUS
<1>4. Spreading(sent, a.host, k, {}, Y, {})
  BY <1>1, <1>3 DEF LoseEffect
<1>5. HeadTaken(inbox, a, Y)
  BY <1>3, TakeHead DEF PlaceInv, BoxInv, OnceInv, FlowInv, Lose
<1>6. BoxInv'
  <2>1. \A b \in graph : \A p \in PacketsOf(Y[b]) : Genuine(sent, p)
    BY <1>5 DEF PlaceInv, BoxInv, HeadTaken
  <2>2. History(sent)
    BY DEF PlaceInv
  <2>3. /\ inbox' \in [graph -> Seq(WirePackets)]
        /\ \A b \in graph : \A p \in PacketsOf(inbox'[b]) : Genuine(sent, p)
    BY <1>4, <2>1, <2>2, SpreadBoxes
  <2>4. QED
    BY <1>2, <2>3 DEF BoxInv, generated
<1>7. OnceInv'
  <2>1. FlowInv(graph, wires, sent, DOMAIN carried', inbox', DOMAIN dispatched)
    BY <1>4 DEF Spreading
  <2>2. QED
    BY <1>2, <2>1 DEF PlaceInv, OnceInv, generated
<1>8. Deployed'
  BY <1>2, DeployedKept DEF PlaceInv
<1>9. QueueInv' /\ AnswerInv' /\ History(sent')
  BY <1>2 DEF PlaceInv, QueueInv, AnswerInv, Dequeued
<1>10. QED
  BY <1>6, <1>7, <1>8, <1>9 DEF PlaceInv

(* ServiceRun keeps it: the response is new, as its request was not served *)
(* before.                                                                 *)
LEMMA PlaceService ==
  ASSUME PlaceInv, NEW h \in Hosts, ServiceRun(h)
  PROVE  PlaceInv'
<1>1. PICK k \in Born(sent) : \E links : ServiceEffect(h, k, links)
  BY ServiceDoes
<1>2. PICK links : ServiceEffect(h, k, links)
  BY <1>1
<1>3. UNCHANGED <<sent, dispatched>> /\ UNCHANGED generated
  BY DEF ServiceRun
<1>4. PICK x \in Seq(QueuedPackets) : x = queue[h] /\ x # <<>> /\ DistinctKeys(x)
  BY DEF PlaceInv, QueueInv, ServiceRun
<1>5. PICK y : y = Tail(x)
  OBVIOUS
<1>6. /\ y \in Seq(QueuedPackets) /\ PacketsOf(y) \subseteq PacketsOf(x)
      /\ DistinctKeys(y) /\ KeysIn(y) = KeysIn(x) \ {k}
  <2>1. k = Key(Head(x))
    BY <1>2, <1>4 DEF ServiceEffect
  <2>2. QED
    BY <1>4, <1>5, <2>1, TailKeys
<1>7. /\ queue' \in [Hosts -> Seq(QueuedPackets)]
      /\ queue'[h] = y /\ \A i \in Hosts : i # h => queue'[i] = queue[i]
  <2>1. queue' = [queue EXCEPT ![h] = y]
    BY <1>2, <1>4, <1>5 DEF ServiceEffect
  <2>2. QED
    BY <1>6, <2>1 DEF PlaceInv, QueueInv
<1>8. QueueInv'
  <2>1. ASSUME NEW i \in Hosts
        PROVE  /\ DistinctKeys(queue'[i])
               /\ \A p \in PacketsOf(queue'[i]) :
                    /\ Genuine(sent, p) /\ <<i, Key(p)>> \in DOMAIN dispatched
                    /\ p.destination # Broadcast => p.destination = i
    <3>1. CASE i = h
      BY <1>4, <1>6, <1>7, <3>1 DEF PlaceInv, QueueInv
    <3>2. CASE i # h
      BY <1>7, <3>2 DEF PlaceInv, QueueInv
    <3>3. QED
      BY <3>1, <3>2
  <2>2. QED
    BY <1>3, <1>7, <2>1 DEF QueueInv
<1>9. \A i \in Hosts : KeysIn(queue'[i]) \subseteq KeysIn(queue[i])
  BY <1>4, <1>6, <1>7
<1>10. ASSUME NEW n \in DOMAIN sent, Dequeued(n) PROVE Dequeued(n)'
  <2>1. PICK d : d = sent[n].destination
    OBVIOUS
  <2>2. PICK t \in DOMAIN dispatched : t[1] = d /\ t[2] = <<n, "Request">>
    BY <1>10, <2>1 DEF Dequeued
  <2>3. d \in Hosts
    <3>1. d \in wires[PacketOf(sent, t[2]).wire].members /\ t[2] \in Born(sent)
      BY <2>2 DEF PlaceInv, OnceInv, FlowInv
    <3>2. PICK w \in Wires : w = PacketOf(sent, t[2]).wire
      BY <3>1, HistoryPackets DEF PlaceInv
    <3>3. QED
      BY <3>1, <3>2 DEF PlaceInv, Deployed
  <2>4. QED
    BY <1>3, <1>9, <1>10, <2>1, <2>3 DEF Dequeued
<1>11. ASSUME NEW t \in DOMAIN carried, t[2][2] = "Response" PROVE Dequeued(t[2][1])'
  <2>1. Dequeued(t[2][1])
    BY <1>11 DEF PlaceInv, AnswerInv
  <2>2. t[2] \in Born(sent)
    BY <1>11 DEF PlaceInv, OnceInv, FlowInv
  <2>3. t[2][1] \in DOMAIN sent
    BY <2>2 DEF Born
  <2>4. QED
    BY <1>10, <2>1, <2>3
<1>12. Deployed' /\ History(sent')
  BY <1>3, DeployedKept DEF PlaceInv
<1>13. CASE ~Answerable(PacketOf(sent, k))
  <2>1. UNCHANGED <<inbox, carried>>
    BY <1>2, <1>13 DEF ServiceEffect
  <2>2. BoxInv' /\ OnceInv'
    BY <1>3, <2>1 DEF PlaceInv, BoxInv, OnceInv, generated
  <2>3. AnswerInv'
    BY <1>11, <2>1 DEF AnswerInv
  <2>4. QED
    BY <1>8, <1>12, <2>2, <2>3 DEF PlaceInv
<1>14. CASE Answerable(PacketOf(sent, k))
  <2>1. PICK j, ports : j = ResponseTo(k) /\ ports = FromOrigin(sent, j)
    OBVIOUS
  <2>2. /\ j \in Born(sent) /\ Spreading(sent, h, j, ports, inbox, links)
        /\ k = <<k[1], "Request">> /\ k[1] \in DOMAIN sent /\ sent[k[1]].destination = h
    BY <1>2, <1>14, <2>1 DEF ServiceEffect
  <2>3. BoxInv'
    <3>1. /\ inbox' \in [graph -> Seq(WirePackets)]
          /\ \A b \in graph : \A p \in PacketsOf(inbox'[b]) : Genuine(sent, p)
      BY <2>2, SpreadBoxes DEF PlaceInv, BoxInv
    <3>2. QED
      BY <1>3, <3>1 DEF BoxInv, generated
  <2>4. OnceInv'
    <3>1. /\ FlowInv(graph, wires, sent, DOMAIN carried', inbox', DOMAIN dispatched)
          /\ carried' = SetToBag(DOMAIN carried')
      BY <2>2 DEF Spreading
    <3>2. QED
      BY <1>3, <3>1 DEF PlaceInv, OnceInv, generated
  <2>5. Dequeued(k[1])'
    <3>1. PICK n : n = k[1] /\ k = <<n, "Request">> /\ sent[n].destination = h
      BY <2>2
    <3>2. <<h, k>> \in DOMAIN dispatched
      <4>1. PICK p \in PacketsOf(x) : Key(p) = k
        BY <1>2, <1>4 DEF ServiceEffect, KeysIn
      <4>2. QED
        BY <1>4, <4>1 DEF PlaceInv, QueueInv
    <3>3. k \notin KeysIn(queue'[h])
      BY <1>6, <1>7
    <3>4. QED
      BY <1>3, <3>1, <3>2, <3>3 DEF Dequeued
  <2>6. AnswerInv'
    <3>1. SUFFICES ASSUME NEW t \in DOMAIN carried', t[2][2] = "Response"
                   PROVE  Dequeued(t[2][1])'
      BY DEF AnswerInv
    <3>2. CASE t \in DOMAIN carried
      BY <1>11, <3>1, <3>2
    <3>3. CASE t \notin DOMAIN carried
      <4>1. PICK l : t = <<l, j>>
        BY <2>2, <3>3 DEF Spreading
      <4>2. t[2][1] = k[1]
        BY <2>1, <4>1 DEF ResponseTo
      <4>3. QED
        BY <2>5, <4>2
    <3>4. QED
      BY <3>2, <3>3
  <2>7. QED
    BY <1>8, <1>12, <2>3, <2>4, <2>6 DEF PlaceInv
<1>15. QED
  BY <1>13, <1>14

(* What a Router receives over a Wire is new to its host.                  *)
LEMMA ReceivedInTransit ==
  ASSUME PlaceInv, NEW a \in graph, NEW k \in KeysIn(inbox[a]),
         a \in TreeOf(wires, sent, k)
  PROVE  InTransit(wires, sent, DOMAIN carried, DOMAIN dispatched, a, k)
<1>1. PICK C, X, D : /\ C = DOMAIN carried /\ X = inbox /\ D = DOMAIN dispatched
                     /\ FlowInv(graph, wires, sent, C, X, D)
  BY DEF PlaceInv, OnceInv
<1>2. LoopFreeWires(graph, wires, sent)
  BY WiresLoopFree DEF PlaceInv
<1>3. k \in KeysIn(X[a])
  BY <1>1
<1>4. InTransit(wires, sent, C, D, a, k)
  BY <1>1, <1>2, <1>3, TransitSources
<1>5. QED
  BY <1>1, <1>4

(* What it dispatches, and what the host has had by then.                  *)
LEMMA Delivered ==
  ASSUME PlaceInv, NEW a \in graph, NEW k, NEW links, ReceiveEffect(a, k, links),
         Delivers(a, k), UNCHANGED <<sent, generated>>, NEW packet,
         packet = Stamp(PacketOf(sent, k), bits[a] + 1)
  PROVE  /\ Key(packet) = k /\ packet \in QueuedPackets /\ Genuine(sent, packet)
         /\ SamePacket(packet, PacketOf(sent, k))
         /\ a.host \in Hosts /\ <<a.host, k>> \notin DOMAIN dispatched
         /\ Dispatch(a.host, packet) /\ QueueInv' /\ DispatchEffect(a.host, packet)
<1>1. k \in Born(sent) /\ k \in KeysIn(inbox[a]) /\ Dispatch(a.host, packet)
  BY DEF ReceiveEffect
<1>2. PICK q \in WirePackets : q = PacketOf(sent, k) /\ Key(q) = k
  BY <1>1, HistoryPackets DEF PlaceInv
<1>3. IsPacket(q) /\ q.ingress = 0
  BY WirePacketFields
<1>4. PICK i \in 0..8 : i = bits[a] + 1
  <2>1. bits[a] \in 0..7
    BY BitsGiveBack DEF PlaceInv
  <2>2. bits[a] + 1 \in 0..8
    BY <2>1
  <2>3. QED
    BY <2>2
<1>5. packet = Stamp(q, i)
  BY <1>2, <1>4
<1>6. packet \in QueuedPackets
  BY <1>5 DEF QueuedPackets
<1>7. Key(packet) = k /\ Stamp(packet, 0) = Stamp(q, 0) /\ SamePacket(packet, q)
  BY <1>2, <1>3, <1>5, StampFields
<1>8. Stamp(q, 0) = q
  BY <1>3, StampFields
<1>9. Genuine(sent, packet)
  BY <1>1, <1>2, <1>7, <1>8 DEF Genuine
<1>10. InTransit(wires, sent, DOMAIN carried, DOMAIN dispatched, a, k)
  BY <1>1, ReceivedInTransit DEF Delivers
<1>11. <<a.host, k>> \notin DOMAIN dispatched
  BY <1>10 DEF InTransit
<1>12. a.host \in Hosts
  BY AttachedHost DEF PlaceInv
<1>13. QueueInv' /\ DispatchEffect(a.host, packet)
  <2>1. QueueInv /\ dispatched = SetToBag(DOMAIN dispatched) /\ sent' = sent
    BY DEF PlaceInv, OnceInv
  <2>2. QED
    BY <1>1, <1>6, <1>7, <1>9, <1>11, <1>12, <2>1, DispatchDoes
<1>14. QED
  BY <1>1, <1>2, <1>6, <1>7, <1>9, <1>11, <1>12, <1>13

(* Receive keeps it: beyond the receiving host the packet has never been,  *)
(* as the tree has no loop.                                                *)
LEMMA PlaceReceive ==
  ASSUME PlaceInv, NEW a \in graph, Receive(a)
  PROVE  PlaceInv'
<1>1. PICK k \in Born(sent) : \E links : ReceiveEffect(a, k, links)
  BY ReceiveDoes
<1>2. PICK links : ReceiveEffect(a, k, links)
  BY <1>1
<1>3. UNCHANGED <<sent, generated>>
  BY DEF Receive
<1>4. PICK T, o, h, Y, ports : /\ T = TreeOf(wires, sent, k) /\ o = OriginOf(sent, k)
                               /\ h = a.host /\ Y = WithoutHead(inbox, a)
                               /\ ports = Onward(a, k)
  OBVIOUS
<1>5. Spreading(sent, h, k, ports, Y, links)
  BY <1>2, <1>4 DEF ReceiveEffect
<1>6. HeadTaken(inbox, a, Y)
  BY <1>4, TakeHead DEF PlaceInv, BoxInv, OnceInv, FlowInv, Receive
<1>7. BoxInv'
  <2>1. \A b \in graph : \A p \in PacketsOf(Y[b]) : Genuine(sent, p)
    BY <1>6 DEF PlaceInv, BoxInv, HeadTaken
  <2>2. History(sent)
    BY DEF PlaceInv
  <2>3. /\ inbox' \in [graph -> Seq(WirePackets)]
        /\ \A b \in graph : \A p \in PacketsOf(inbox'[b]) : Genuine(sent, p)
    BY <1>5, <2>1, <2>2, SpreadBoxes
  <2>4. QED
    BY <1>3, <2>3 DEF BoxInv, generated
<1>8. Deployed' /\ History(sent')
  BY <1>3, DeployedKept DEF PlaceInv
<1>9. /\ FlowInv(graph, wires, sent, DOMAIN carried', inbox', DOMAIN dispatched)
      /\ carried' = SetToBag(DOMAIN carried')
      /\ DOMAIN carried' = DOMAIN carried \union (links \X {k})
  BY <1>5 DEF Spreading
<1>10. ASSUME NEW t \in DOMAIN carried', t[2][2] = "Response"
       PROVE  Dequeued(t[2][1]) /\ t[2][1] \in DOMAIN sent
  <2>1. PICK u \in DOMAIN carried : u[2] = t[2]
    <3>1. CASE t \in DOMAIN carried
      BY <3>1
    <3>2. CASE t \notin DOMAIN carried
      <4>1. PICK l \in links : t = <<l, k>>
        BY <1>9, <3>2
      <4>2. ports # {}
        BY <1>2, <1>4, <4>1 DEF ReceiveEffect
      <4>3. a \in T
        BY <1>4, <4>2 DEF Onward
      <4>4. InTransit(wires, sent, DOMAIN carried, DOMAIN dispatched, a, k)
        BY <1>2, <1>4, <4>3, ReceivedInTransit DEF ReceiveEffect
      <4>5. <<a.link, k>> \in DOMAIN carried
        BY <4>4 DEF InTransit
      <4>6. QED
        BY <4>1, <4>5
    <3>3. QED
      BY <3>1, <3>2
  <2>2. u[2] \in Born(sent)
    BY <2>1 DEF PlaceInv, OnceInv, FlowInv
  <2>3. u[2][1] \in DOMAIN sent
    BY <2>2 DEF Born
  <2>4. Dequeued(u[2][1])
    BY <1>10, <2>1 DEF PlaceInv, AnswerInv
  <2>5. QED
    BY <2>1, <2>3, <2>4
<1>11. CASE ~Delivers(a, k)
  <2>1. UNCHANGED <<queue, dispatched>>
    BY <1>2, <1>11 DEF ReceiveEffect
  <2>2. QueueInv'
    BY <1>3, <2>1 DEF PlaceInv, QueueInv
  <2>3. AnswerInv'
    BY <1>3, <1>10, <2>1 DEF AnswerInv, Dequeued
  <2>4. OnceInv'
    BY <1>3, <1>9, <2>1 DEF PlaceInv, OnceInv, generated
  <2>5. QED
    BY <1>7, <1>8, <2>2, <2>3, <2>4 DEF PlaceInv
<1>12. CASE Delivers(a, k)
  <2>1. PICK packet : packet = Stamp(PacketOf(sent, k), bits[a] + 1)
    OBVIOUS
  <2>2. /\ Key(packet) = k /\ h \in Hosts /\ <<h, k>> \notin DOMAIN dispatched
        /\ QueueInv' /\ DispatchEffect(h, packet)
    BY <1>2, <1>3, <1>4, <1>12, <2>1, Delivered
  <2>3. /\ DOMAIN dispatched' = DOMAIN dispatched \union {<<h, k>>}
        /\ dispatched' = SetToBag(DOMAIN dispatched')
        /\ \A i \in Hosts : KeysIn(queue'[i]) \subseteq
                              KeysIn(queue[i]) \union (IF i = h THEN {k} ELSE {})
    BY <2>2 DEF DispatchEffect
  <2>4. a \in T /\ h \in wires[PacketOf(sent, k).wire].members
    BY <1>4, <1>12 DEF Delivers
  <2>5. InTransit(wires, sent, DOMAIN carried, DOMAIN dispatched, a, k)
    BY <1>2, <1>4, <2>4, ReceivedInTransit DEF ReceiveEffect
  <2>6. Had(DOMAIN carried', inbox', T, o, h, k) /\ <<"host", h>> # o
    <3>1. <<"host", h>> # o /\ Via(T, o, HostNode(a), a) /\ <<a.link, k>> \in DOMAIN carried
      BY <1>4, <2>5 DEF InTransit
    <3>2. k \notin KeysIn(inbox'[a])
      <4>1. k \notin KeysIn(Y[a])
        BY <1>2, <1>6 DEF HeadTaken, ReceiveEffect
      <4>2. KeysIn(inbox'[a]) = KeysIn(Y[a])
        BY <1>4, <1>5 DEF Spreading
      <4>3. QED
        BY <4>1, <4>2
    <3>3. QED
      BY <1>4, <1>9, <2>4, <3>1, <3>2 DEF Had
  <2>7. FlowInv(graph, wires, sent, DOMAIN carried', inbox', DOMAIN dispatched')
    <3>1. PICK C2, X2, D : C2 = DOMAIN carried' /\ X2 = inbox' /\ D = DOMAIN dispatched
      OBVIOUS
    <3>2. FlowInv(graph, wires, sent, C2, X2, D) /\ Had(C2, X2, T, o, h, k)
      BY <1>9, <2>6, <3>1
    <3>3. FlowInv(graph, wires, sent, C2, X2, D \union {<<h, k>>})
      BY <1>4, <2>4, <2>6, <3>2, FlowDispatch
    <3>4. QED
      BY <2>3, <3>1, <3>3
  <2>8. OnceInv'
    BY <1>3, <1>9, <2>3, <2>7 DEF OnceInv, generated
  <2>9. AnswerInv'
    <3>1. SUFFICES ASSUME NEW t \in DOMAIN carried', t[2][2] = "Response"
                   PROVE  Dequeued(t[2][1])'
      BY DEF AnswerInv
    <3>2. PICK n \in DOMAIN sent : n = t[2][1] /\ Dequeued(n)
      BY <1>10, <3>1
    <3>3. PICK d, j : d = sent[n].destination /\ j = <<n, "Request">>
      OBVIOUS
    <3>4. <<d, j>> \in DOMAIN dispatched /\ j \notin KeysIn(queue[d])
      BY <3>2, <3>3 DEF Dequeued
    <3>5. d \in Hosts
      <4>1. PICK u \in DOMAIN dispatched : u[1] = d /\ u[2] = j
        BY <3>4
      <4>2. d \in wires[PacketOf(sent, j).wire].members /\ j \in Born(sent)
        BY <4>1 DEF PlaceInv, OnceInv, FlowInv
      <4>3. PICK w \in Wires : w = PacketOf(sent, j).wire
        BY <4>2, HistoryPackets DEF PlaceInv
      <4>4. QED
        BY <4>2, <4>3 DEF PlaceInv, Deployed
    <3>6. j = k => d # h
      BY <2>2, <3>4
    <3>7. j \notin KeysIn(queue'[d])
      BY <2>3, <3>4, <3>5, <3>6
    <3>8. QED
      BY <1>3, <2>3, <3>2, <3>3, <3>4, <3>7 DEF Dequeued
  <2>10. QED
    BY <1>7, <1>8, <2>2, <2>8, <2>9 DEF PlaceInv
<1>13. QED
  BY <1>11, <1>12

(* Every step keeps the invariant of what is where.                        *)
LEMMA PlaceKept ==
  PlaceInv /\ [NetworkNext]_vars => PlaceInv'
<1> SUFFICES ASSUME PlaceInv, [NetworkNext]_vars PROVE PlaceInv'
  OBVIOUS
<1>1. CASE \E h \in Hosts : Originate(h) \/ ServiceRun(h)
  BY <1>1, PlaceOriginate, PlaceService
<1>2. CASE \E a \in graph : Receive(a) \/ Lose(a)
  BY <1>2, PlaceReceive, PlaceLose
<1>3. CASE UNCHANGED vars
  BY <1>3 DEF PlaceInv, Deployed, BoxInv, QueueInv, AnswerInv, Dequeued, OnceInv, vars
<1>4. QED
  BY <1>1, <1>2, <1>3 DEF NetworkNext

(* The invariant says that no Link carries a packet twice.                 *)
LEMMA PlaceCarried ==
  PlaceInv => CarriedOnce
<1> SUFFICES ASSUME PlaceInv, NEW t \in BagToSet(carried)
             PROVE  carried[t] = 1 /\ t[1] \in {a.link : a \in WireOf(t[2]).attachments}
  BY DEF CarriedOnce
<1>1. t \in DOMAIN carried /\ carried = SetToBag(DOMAIN carried)
  BY DEF BagToSet, PlaceInv, OnceInv
<1>2. carried[t] = 1
  BY <1>1 DEF SetToBag
<1>3. /\ t[2] \in Born(sent)
      /\ CarriedVia(DOMAIN carried, inbox, TreeOf(wires, sent, t[2]), OriginOf(sent, t[2]),
                    t[1], t[2])
  BY <1>1 DEF PlaceInv, OnceInv, FlowInv
<1>4. TreeOf(wires, sent, t[2]) = WireOf(t[2]).attachments
  <2>1. PacketOf(sent, t[2]).wire = sent[t[2][1]].wire
    BY <1>3, HistoryPackets DEF PlaceInv
  <2>2. QED
    BY <2>1 DEF TreeOf, WireOf
<1>5. QED
  BY <1>2, <1>3, <1>4 DEF CarriedVia

(* The invariant says that no host dispatches a packet twice.              *)
LEMMA PlaceDispatched ==
  PlaceInv => DispatchedOnce
<1> SUFFICES ASSUME PlaceInv, NEW t \in BagToSet(dispatched)
             PROVE  /\ dispatched[t] = 1
                    /\ t[1] # IF t[2][2] = "Request" THEN sent[t[2][1]].source
                              ELSE sent[t[2][1]].destination
                    /\ t[1] \in WireOf(t[2]).members
  BY DEF DispatchedOnce
<1>1. t \in DOMAIN dispatched /\ dispatched = SetToBag(DOMAIN dispatched)
  BY DEF BagToSet, PlaceInv, OnceInv
<1>2. dispatched[t] = 1
  BY <1>1 DEF SetToBag
<1>3. /\ t[2] \in Born(sent) /\ <<"host", t[1]>> # OriginOf(sent, t[2])
      /\ t[1] \in wires[PacketOf(sent, t[2]).wire].members
  BY <1>1 DEF PlaceInv, OnceInv, FlowInv
<1>4. /\ PacketOf(sent, t[2]).wire = sent[t[2][1]].wire
      /\ PacketOf(sent, t[2]).source =
           IF t[2][2] = "Request" THEN sent[t[2][1]].source ELSE sent[t[2][1]].destination
  BY <1>3, HistoryPackets DEF PlaceInv
<1>5. t[1] # PacketOf(sent, t[2]).source
  BY <1>3 DEF OriginOf
<1>6. QED
  BY <1>2, <1>3, <1>4, <1>5 DEF WireOf

(* CarriedOnce, for every deployment: a Link never carries a packet twice, *)
(* and only Links of the packet's Wire carry it.                           *)
THEOREM CarriedOnceAlways ==
  NetworkSpec => []CarriedOnce
<1>1. NetworkSpec => []PlaceInv
  BY PlaceInit, PlaceKept, PTL DEF NetworkSpec
<1>2. QED
  BY <1>1, PlaceCarried, PTL

(* DispatchedOnce, for every deployment: a packet is dispatched at most    *)
(* once by a host, at members of its Wire only, and never at its origin.   *)
THEOREM DispatchedOnceAlways ==
  NetworkSpec => []DispatchedOnce
<1>1. NetworkSpec => []PlaceInv
  BY PlaceInit, PlaceKept, PTL DEF NetworkSpec
<1>2. QED
  BY <1>1, PlaceDispatched, PTL

-----------------------------------------------------------------------------
(* What a forward reports.                                                 *)

(* A route uses the eight interface bits only.                             *)
LEMMA EgressBits ==
  ASSUME Deployed, NEW h \in Hosts, NEW packet
  PROVE  Egress(routes[h], packet) \subseteq 0..7
<1>1. CASE RouteDecision(routes[h], packet) # "Forward"
  BY <1>1 DEF Egress
<1>2. CASE RouteDecision(routes[h], packet) = "Forward"
  <2>1. PICK w : w = packet.wire /\ w \in DOMAIN routes[h]
    BY <1>2 DEF RouteDecision
  <2>2. w \in Wires
    BY <2>1 DEF Deployed, RouteTable
  <2>3. routes[h][w] = {bits[c] : c \in Ports(wires[w].attachments, h, {})}
    BY <2>1, <2>2, TableView
  <2>4. wires[w].attachments \subseteq graph
    BY <2>2 DEF Deployed, Sound
  <2>5. \A c \in Ports(wires[w].attachments, h, {}) : bits[c] \in 0..7
    BY <2>4, BitsGiveBack DEF Ports
  <2>6. Egress(routes[h], packet) \subseteq routes[h][w]
    BY <1>2, <2>1 DEF Egress
  <2>7. QED
    BY <2>3, <2>5, <2>6
<1>3. QED
  BY <1>1, <1>2

(* A forward reports what the Links answered, whichever they are.          *)
LEMMA RecordReports ==
  ASSUME Deployed, NEW h \in Hosts, NEW packet, NEW answer \in Answers(h, packet),
         RecordForward(h, packet, answer)
  PROVE  ForwardReportsItsLinks'
<1>1. PICK egress : egress = Egress(routes[h], packet) /\ egress \subseteq 0..7
  BY EgressBits
<1>2. answer \in [egress -> Admissions] /\ DOMAIN answer = egress
  BY <1>1, NetworkAssumption DEF Answers
<1>3. PICK answers : answers = {answer[b] : b \in egress}
  OBVIOUS
<1>4. outcome' = [answers |-> answers, result |-> forward(routes[h], packet, answer)]
  BY <1>2, <1>3 DEF RecordForward
<1>5. SUFFICES ASSUME answers # {} PROVE outcome'.result = Summary(answers)
  BY <1>4 DEF ForwardReportsItsLinks, Summary
<1>6. egress # {}
  BY <1>3, <1>5
<1>7. RouteDecision(routes[h], packet) = "Forward"
  BY <1>1, <1>6 DEF Egress
<1>8. forward(routes[h], packet, answer) = Forwarder(egress, answer)
  BY <1>1, <1>7 DEF forward
<1>9. Forwarder(egress, answer) = Summary(answers)
  BY <1>1, <1>2, <1>3, <1>6, ForwarderSummary
<1>10. QED
  BY <1>4, <1>8, <1>9

(* ForwardReportsItsLinks, for every deployment, whichever of its eight    *)
(* interfaces a Wire uses and whatever their Links answer.                 *)
THEOREM ForwardReportsAlways ==
  NetworkSpec => []ForwardReportsItsLinks
<1>1. NetworkInit => ForwardReportsItsLinks
  BY DEF NetworkInit, ForwardReportsItsLinks
<1>2. PlaceInv /\ ForwardReportsItsLinks /\ [NetworkNext]_vars => ForwardReportsItsLinks'
  <2> SUFFICES ASSUME PlaceInv, ForwardReportsItsLinks, [NetworkNext]_vars
               PROVE  ForwardReportsItsLinks'
    OBVIOUS
  <2>1. Deployed
    BY DEF PlaceInv
  <2>2. ASSUME UNCHANGED outcome PROVE ForwardReportsItsLinks'
    BY <2>2 DEF ForwardReportsItsLinks
  <2>3. ASSUME NEW h \in Hosts, Originate(h) PROVE ForwardReportsItsLinks'
    <3>1. PICK packet : \E answer \in Answers(h, packet) : RecordForward(h, packet, answer)
      BY <2>3 DEF Originate
    <3>2. QED
      BY <2>1, <3>1, RecordReports
  <2>4. ASSUME NEW h \in Hosts, ServiceRun(h) PROVE ForwardReportsItsLinks'
    <3>1. \/ UNCHANGED outcome
          \/ \E packet : \E answer \in Answers(h, packet) : RecordForward(h, packet, answer)
      BY <2>4 DEF ServiceRun
    <3>2. QED
      BY <2>1, <2>2, <3>1, RecordReports
  <2>5. ASSUME NEW a \in graph, Receive(a) PROVE ForwardReportsItsLinks'
    <3>1. PICK packet : \E answer \in Answers(a.host, packet) :
                          RecordForward(a.host, packet, answer)
      BY <2>5 DEF Receive
    <3>2. QED
      BY <2>1, <3>1, AttachedHost, RecordReports
  <2>6. ASSUME NEW a \in graph, Lose(a) PROVE ForwardReportsItsLinks'
    BY <2>2, <2>6 DEF Lose
  <2>7. CASE UNCHANGED vars
    BY <2>2, <2>7 DEF vars
  <2>8. QED
    BY <2>3, <2>4, <2>5, <2>6, <2>7 DEF NetworkNext
<1>3. QED
  BY <1>1, <1>2, PlaceInit, PlaceKept, PTL DEF NetworkSpec

-----------------------------------------------------------------------------
(* The inductive invariant, part two: what the receivers keep.             *)

(* Receivers are those of the table.                                       *)
LEMMA OfferedReceivers ==
  ASSUME NEW packet, NEW h, NEW member
  PROVE  OfferedTo(packet, h, member) \subseteq {"service", "snapshot"}
<1>1. \A i \in Matching(packet) : DispatchTable[i].receiver \in {"service", "snapshot"}
  BY RouterAssumption DEF Matching
<1>2. QED
  BY <1>1 DEF OfferedTo

(* dispatch reports the best of its receivers' results.                    *)
LEMMA BestResult ==
  ASSUME NEW h, NEW packet
  PROVE  DispatchResult(packet, h, isMemberOf(h, packet.wire), queue[h]) = "Accepted"
           <=> Accepting(h, packet) # {}
<1>1. PICK member, offered : /\ member = isMemberOf(h, packet.wire)
                             /\ offered = OfferedTo(packet, h, member)
  OBVIOUS
<1>2. PICK results : results = {ReceiveResult(r, packet, queue[h]) : r \in offered}
  OBVIOUS
<1>3. results \subseteq {"Accepted", "Full", "Rejected"}
  BY <1>2 DEF ReceiveResult
<1>4. Accepting(h, packet) # {} <=> "Accepted" \in results
  BY <1>1, <1>2 DEF Accepting
<1>5. CASE ~hasSupportedControl(packet)
  <2>1. DispatchResult(packet, h, member, queue[h]) = "Rejected"
    BY <1>5 DEF DispatchResult
  <2>2. offered = {}
    BY <1>1, <1>5, OfferedDirected
  <2>3. QED
    BY <1>1, <1>2, <1>4, <2>1, <2>2
<1>6. CASE hasSupportedControl(packet)
  <2>1. PICK best : best = DispatchResult(packet, h, member, queue[h])
    OBVIOUS
  <2>2. best = CHOOSE b \in results \union {"NoEndpoint"} :
                 \A other \in results : resultPriority(b) >= resultPriority(other)
    BY <1>1, <1>2, <1>6, <2>1 DEF DispatchResult
  <2>3. /\ resultPriority("Accepted") = 3 /\ resultPriority("Full") = 2
        /\ resultPriority("Rejected") = 1
    BY DEF resultPriority
  <2>4. \E b \in results \union {"NoEndpoint"} :
          \A other \in results : resultPriority(b) >= resultPriority(other)
    <3>1. CASE "Accepted" \in results
      BY <1>3, <2>3, <3>1
    <3>2. CASE "Accepted" \notin results /\ "Full" \in results
      BY <1>3, <2>3, <3>2
    <3>3. CASE "Accepted" \notin results /\ "Full" \notin results /\ "Rejected" \in results
      <4>1. \A other \in results : other = "Rejected"
        BY <1>3, <3>3
      <4>2. \A other \in results : resultPriority("Rejected") >= resultPriority(other)
        BY <2>3, <4>1
      <4>3. QED
        BY <3>3, <4>2
    <3>4. CASE results = {}
      BY <3>4
    <3>5. QED
      BY <1>3, <3>1, <3>2, <3>3, <3>4
  <2>5. /\ best \in results \union {"NoEndpoint"}
        /\ \A other \in results : resultPriority(best) >= resultPriority(other)
    BY <2>2, <2>4
  <2>6. resultPriority("NoEndpoint") = 0
    BY DEF resultPriority
  <2>7. "Accepted" \in results <=> best = "Accepted"
    BY <1>3, <2>3, <2>5, <2>6
  <2>8. QED
    BY <1>1, <1>4, <2>1, <2>7
<1>7. QED
  BY <1>5, <1>6

(* What is admitted or reported was dispatched; admissions are finitely    *)
(* many, and a snapshot counts those of its receiver.                      *)
AdmitInv ==
  /\ IsFiniteSet(admitted)
  /\ \A t \in admitted : /\ t = <<t[1], t[2], t[3]>> /\ t[2] \in {"service", "snapshot"}
                         /\ <<t[1], t[3]>> \in DOMAIN dispatched
  /\ \A t \in reports : t = <<t[1], t[2], t[3]>> /\ <<t[1], t[2]>> \in DOMAIN dispatched
  /\ DOMAIN snapshot = Hosts
  /\ DirectedReception /\ DispatchReportsItsReceivers

(* Initially nothing has been admitted.                                    *)
LEMMA AdmitInit ==
  NetworkInit => AdmitInv
<1> SUFFICES ASSUME NetworkInit PROVE AdmitInv
  OBVIOUS
<1>1. admitted = {} /\ reports = {} /\ DOMAIN snapshot = Hosts
  BY DEF NetworkInit
<1>2. \A h \in Hosts : snapshot[h].generation = 0
  BY DEF NetworkInit
<1>3. IsFiniteSet({}) /\ Cardinality({}) = 0
  BY FS_EmptySet
<1>4. \A h \in Hosts : {t \in admitted : t[1] = h /\ t[2] = "snapshot"} = {}
  BY <1>1
<1>5. DispatchReportsItsReceivers
  BY <1>1, <1>2, <1>3, <1>4 DEF DispatchReportsItsReceivers
<1>6. QED
  BY <1>1, <1>3, <1>5 DEF AdmitInv, DirectedReception

(* DirectedReception of one admission, given what was sent.                *)
DirectedAt(request, t) ==
  LET destination == IF t[3][2] = "Request" THEN request.destination ELSE request.source
  IN /\ t[3][2] = "Request" => hasSupportedControl(request)
     /\ destination # Broadcast =>
          /\ t[1] = destination
          /\ \E i \in Matching(request) :
               /\ DispatchTable[i].receiver = t[2]
               /\ \A j \in Matching(request) : i <= j

(* DirectedReception, admission by admission.                              *)
LEMMA DirectedEach ==
  /\ DirectedReception <=> \A t \in admitted : DirectedAt(sent[t[3][1]], t)
  /\ DirectedReception' <=> \A t \in admitted' : DirectedAt(sent'[t[3][1]], t)
BY Zenon DEF DirectedReception, DirectedAt, Matching, hasSupportedControl

(* Actions that dispatch nothing.                                          *)
LEMMA AdmitIdle ==
  ASSUME PlaceInv, AdmitInv, UNCHANGED <<snapshot, dispatched, admitted, reports>>,
         \A n \in DOMAIN sent : sent'[n] = sent[n]
  PROVE  AdmitInv'
<1>1. ASSUME NEW t \in admitted PROVE sent'[t[3][1]] = sent[t[3][1]]
  <2>1. PICK u \in DOMAIN dispatched : u = <<t[1], t[3]>>
    BY DEF AdmitInv
  <2>2. u[2] = t[3]
    BY <2>1
  <2>3. t[3] \in Born(sent)
    BY <2>1, <2>2 DEF PlaceInv, OnceInv, FlowInv
  <2>4. QED
    BY <2>3 DEF Born
<1>2. DirectedReception'
  BY <1>1, DirectedEach DEF AdmitInv
<1>3. DispatchReportsItsReceivers'
  BY DEF AdmitInv, DispatchReportsItsReceivers
<1>4. QED
  BY <1>2, <1>3 DEF AdmitInv

(* A packet reaches only receivers that may have it.                       *)
MayHave(h, packet, r) ==
  /\ r \in {"service", "snapshot"} /\ hasSupportedControl(packet)
  /\ packet.destination # Broadcast =>
       /\ h = packet.destination
       /\ \E i \in Matching(packet) : /\ DispatchTable[i].receiver = r
                                      /\ \A j \in Matching(packet) : i <= j

(* A receiver that is offered a packet may have it.                        *)
LEMMA OfferedMayHave ==
  ASSUME NEW h, NEW packet, NEW member, NEW r \in OfferedTo(packet, h, member)
  PROVE  MayHave(h, packet, r)
<1>1. r \in {"service", "snapshot"}
  BY OfferedReceivers
<1>2. hasSupportedControl(packet) /\ packet.destination \in {Broadcast, h}
  BY OfferedDirected
<1>3. ASSUME packet.destination # Broadcast
      PROVE  \E i \in Matching(packet) : /\ DispatchTable[i].receiver = r
                                         /\ \A j \in Matching(packet) : i <= j
  BY <1>2, <1>3 DEF OfferedTo
<1>4. QED
  BY <1>1, <1>2, <1>3 DEF MayHave

(* A dispatch keeps what is known of admissions.                           *)
LEMMA AdmitDispatch ==
  ASSUME PlaceInv, AdmitInv, NEW h \in Hosts, NEW k \in Born(sent),
         NEW packet, Key(packet) = k, SamePacket(packet, PacketOf(sent, k)),
         <<h, k>> \notin DOMAIN dispatched, DispatchEffect(h, packet),
         Dispatch(h, packet), sent' = sent
  PROVE  AdmitInv'
<1>1. PICK accepting : accepting = Accepting(h, packet)
  OBVIOUS
<1>2. \A r \in accepting : MayHave(h, packet, r)
  BY <1>1, OfferedMayHave DEF Accepting
<1>3. DOMAIN dispatched' = DOMAIN dispatched \union {<<h, k>>}
  BY DEF DispatchEffect
<1>4. \A t : t \in admitted' <=> t \in admitted \/ \E r \in accepting : t = <<h, r, k>>
  <2>1. admitted' = admitted \union ({h} \X accepting \X {k})
    BY <1>1 DEF Dispatch
  <2>2. QED
    BY <2>1
<1>5. ASSUME NEW t \in admitted PROVE ~(t[1] = h /\ t[3] = k)
  BY DEF AdmitInv
<1>6. IsFiniteSet(admitted')
  <2>1. PICK x, y : x = <<h, "service", k>> /\ y = <<h, "snapshot", k>>
    OBVIOUS
  <2>2. IsFiniteSet((admitted \union {x}) \union {y})
    BY FS_AddElement DEF AdmitInv
  <2>3. admitted' \in SUBSET ((admitted \union {x}) \union {y})
    BY <1>2, <1>4, <2>1 DEF MayHave
  <2>4. QED
    BY <2>2, <2>3, FS_Subset
<1>7. ASSUME NEW t \in admitted'
      PROVE  /\ t = <<t[1], t[2], t[3]>> /\ t[2] \in {"service", "snapshot"}
             /\ <<t[1], t[3]>> \in DOMAIN dispatched'
  <2>1. CASE t \in admitted
    BY <1>3, <2>1 DEF AdmitInv
  <2>2. CASE t \notin admitted
    <3>1. PICK r \in accepting : t = <<h, r, k>>
      BY <1>4, <2>2
    <3>2. t[1] = h /\ t[2] = r /\ t[3] = k
      BY <3>1
    <3>3. QED
      BY <1>2, <1>3, <3>1, <3>2 DEF MayHave
  <2>3. QED
    BY <2>1, <2>2
<1>8. DirectedReception'
  <2>1. SUFFICES ASSUME NEW t \in admitted', NEW request, request = sent[t[3][1]]
                 PROVE  DirectedAt(request, t)
    BY DirectedEach
  <2>2. CASE t \in admitted
    BY <2>1, <2>2, DirectedEach DEF AdmitInv
  <2>3. CASE t \notin admitted
    <3>1. PICK r \in accepting : t = <<h, r, k>>
      BY <1>4, <2>3
    <3>2. t[1] = h /\ t[2] = r /\ t[3] = k
      BY <3>1
    <3>3. MayHave(h, packet, r)
      BY <1>2
    <3>4. PICK q : q = PacketOf(sent, k)
      OBVIOUS
    <3>5. PICK destination :
            destination = IF t[3][2] = "Request" THEN request.destination ELSE request.source
      OBVIOUS
    <3>6. q.destination = destination /\ q.endpoint = request.endpoint
      BY <2>1, <3>2, <3>4, <3>5, HistoryPackets DEF PlaceInv
    <3>7. /\ packet.destination = destination /\ packet.endpoint = request.endpoint
          /\ packet.transport = q.transport
      BY <3>4, <3>6 DEF SamePacket
    <3>8. Matching(packet) = Matching(request)
      BY <3>7 DEF Matching
    <3>9. t[3][2] = "Request" => q = request
      BY <2>1, <3>2, <3>4 DEF PacketOf
    <3>10. t[3][2] = "Request" => hasSupportedControl(request)
      BY <3>3, <3>7, <3>9 DEF MayHave, hasSupportedControl
    <3>11. QED
      BY <3>2, <3>3, <3>5, <3>7, <3>8, <3>10 DEF MayHave, DirectedAt
  <2>4. QED
    BY <2>2, <2>3
<1>9. /\ DOMAIN snapshot' = Hosts
      /\ \A i \in Hosts : snapshot'[i].generation =
           IF i = h /\ "snapshot" \in accepting THEN snapshot[i].generation + 1
           ELSE snapshot[i].generation
  <2>1. DOMAIN snapshot = Hosts
    BY DEF AdmitInv
  <2>2. CASE "snapshot" \in accepting
    <3>1. PICK new : new = [latest |-> k, generation |-> snapshot[h].generation + 1]
      OBVIOUS
    <3>2. snapshot' = [snapshot EXCEPT ![h] = new]
      BY <1>1, <2>2, <3>1 DEF Dispatch
    <3>3. DOMAIN snapshot' = Hosts /\ \A i \in Hosts : snapshot'[i] = IF i = h THEN new ELSE snapshot[i]
      BY <2>1, <3>2
    <3>4. new.generation = snapshot[h].generation + 1
      BY <3>1
    <3>5. QED
      BY <2>2, <3>3, <3>4
  <2>3. CASE "snapshot" \notin accepting
    <3>1. snapshot' = snapshot
      BY <1>1, <2>3 DEF Dispatch
    <3>2. QED
      BY <2>1, <2>3, <3>1
  <2>4. QED
    BY <2>2, <2>3
<1>10. ASSUME NEW i \in Hosts
       PROVE  snapshot'[i].generation =
                Cardinality({t \in admitted' : t[1] = i /\ t[2] = "snapshot"})
  <2>1. PICK A : A = {t \in admitted : t[1] = i /\ t[2] = "snapshot"}
    OBVIOUS
  <2>2. PICK B : B = {t \in admitted' : t[1] = i /\ t[2] = "snapshot"}
    OBVIOUS
  <2>3. snapshot[i].generation = Cardinality(A)
    BY <2>1 DEF AdmitInv, DispatchReportsItsReceivers
  <2>4. CASE i = h /\ "snapshot" \in accepting
    <3>1. PICK x : x = <<h, "snapshot", k>>
      OBVIOUS
    <3>2. x[1] = h /\ x[2] = "snapshot" /\ x[3] = k
      BY <3>1
    <3>3. x \notin A
      BY <1>5, <2>1, <3>2
    <3>4. B = A \union {x}
      <4>1. \A t : t \in B <=> t \in A \/ t = x
        <5>1. \A r \in accepting : <<h, r, k>>[1] = h /\ <<h, r, k>>[2] = r
          OBVIOUS
        <5>2. x \in B
          BY <1>4, <2>2, <2>4, <3>1, <3>2
        <5>3. ASSUME NEW t \in B, t \notin A PROVE t = x
          <6>1. PICK r \in accepting : t = <<h, r, k>>
            BY <1>4, <2>1, <2>2, <5>3
          <6>2. r = "snapshot"
            BY <2>2, <5>1, <5>3, <6>1
          <6>3. QED
            BY <3>1, <6>1, <6>2
        <5>4. A \subseteq B
          BY <1>4, <2>1, <2>2
        <5>5. QED
          BY <5>2, <5>3, <5>4
      <4>2. QED
        BY <4>1
    <3>5. IsFiniteSet(A)
      <4>1. A \in SUBSET admitted
        BY <2>1
      <4>2. QED
        BY <4>1, FS_Subset DEF AdmitInv
    <3>6. Cardinality(B) = Cardinality(A) + 1
      BY <3>3, <3>4, <3>5, FS_AddElement
    <3>7. QED
      BY <1>9, <2>2, <2>3, <2>4, <3>6
  <2>5. CASE ~(i = h /\ "snapshot" \in accepting)
    <3>1. \A r \in accepting : <<h, r, k>>[1] = h /\ <<h, r, k>>[2] = r
      OBVIOUS
    <3>2. B = A
      <4>1. \A t : t \in B <=> t \in A
        BY <1>4, <2>1, <2>2, <2>5, <3>1
      <4>2. QED
        BY <4>1
    <3>3. QED
      BY <1>9, <2>2, <2>3, <2>5, <3>2
  <2>6. QED
    BY <2>4, <2>5
<1>11. PICK result : /\ reports' = reports \union {<<h, k, result>>}
                     /\ result = "Accepted" <=> accepting # {}
  <2>1. PICK res : res = DispatchResult(packet, h, isMemberOf(h, packet.wire), queue[h])
    OBVIOUS
  <2>2. reports' = reports \union {<<h, k, res>>}
    BY <2>1 DEF Dispatch
  <2>3. res = "Accepted" <=> accepting # {}
    BY <1>1, <2>1, BestResult
  <2>4. QED
    BY <2>2, <2>3
<1>12. ASSUME NEW t \in reports'
       PROVE  /\ t = <<t[1], t[2], t[3]>> /\ <<t[1], t[2]>> \in DOMAIN dispatched'
              /\ (t[3] = "Accepted")
                   <=> \E r \in {"service", "snapshot"} : <<t[1], r, t[2]>> \in admitted'
  <2>1. CASE t \in reports
    <3>1. t = <<t[1], t[2], t[3]>> /\ <<t[1], t[2]>> \in DOMAIN dispatched
      BY <2>1 DEF AdmitInv
    <3>2. ~(t[1] = h /\ t[2] = k)
      BY <3>1
    <3>3. \A r, j : <<t[1], r, t[2]>> = <<h, j, k>> => t[1] = h /\ t[2] = k
      OBVIOUS
    <3>4. \A r : <<t[1], r, t[2]>> \in admitted' <=> <<t[1], r, t[2]>> \in admitted
      BY <1>4, <3>2, <3>3
    <3>5. (t[3] = "Accepted") <=> \E r \in {"service", "snapshot"} : <<t[1], r, t[2]>> \in admitted
      BY <2>1 DEF AdmitInv, DispatchReportsItsReceivers
    <3>6. QED
      BY <1>3, <3>1, <3>4, <3>5
  <2>2. CASE t \notin reports
    <3>1. t = <<h, k, result>>
      BY <1>11, <2>2
    <3>2. t[1] = h /\ t[2] = k /\ t[3] = result
      BY <3>1
    <3>3. ASSUME NEW r, <<h, r, k>> \in admitted' PROVE r \in accepting
      <4>1. PICK u \in admitted' : u = <<h, r, k>>
        BY <3>3
      <4>2. u[1] = h /\ u[2] = r /\ u[3] = k
        BY <4>1
      <4>3. u \notin admitted
        BY <1>5, <4>2
      <4>4. PICK j \in accepting : u = <<h, j, k>>
        BY <1>4, <4>3
      <4>5. r = j
        BY <4>2, <4>4
      <4>6. QED
        BY <4>4, <4>5
    <3>4. \A r \in accepting : r \in {"service", "snapshot"} /\ <<h, r, k>> \in admitted'
      BY <1>2, <1>4 DEF MayHave
    <3>5. accepting # {} <=> \E r \in {"service", "snapshot"} : <<h, r, k>> \in admitted'
      BY <3>3, <3>4
    <3>6. QED
      BY <1>3, <1>11, <3>1, <3>2, <3>5
  <2>3. QED
    BY <2>1, <2>2
<1>13. DispatchReportsItsReceivers'
  BY <1>10, <1>12 DEF DispatchReportsItsReceivers
<1>14. QED
  BY <1>6, <1>7, <1>8, <1>9, <1>12, <1>13 DEF AdmitInv

(* Every step keeps what is known of admissions.                           *)
LEMMA AdmitKept ==
  PlaceInv /\ AdmitInv /\ [NetworkNext]_vars => AdmitInv'
<1> SUFFICES ASSUME PlaceInv, AdmitInv, [NetworkNext]_vars PROVE AdmitInv'
  OBVIOUS
<1>1. ASSUME NEW h \in Hosts, Originate(h) PROVE AdmitInv'
  <2>1. PICK packet : sent' = Append(sent, packet)
    BY <1>1 DEF Originate
  <2>2. sent \in Seq(RequestPackets)
    BY DEF PlaceInv, History
  <2>3. \A n \in DOMAIN sent : sent'[n] = sent[n]
    BY <2>1, <2>2
  <2>4. UNCHANGED <<snapshot, dispatched, admitted, reports>>
    BY <1>1 DEF Originate
  <2>5. QED
    BY <2>3, <2>4, AdmitIdle
<1>2. ASSUME NEW h \in Hosts, ServiceRun(h) PROVE AdmitInv'
  BY <1>2, AdmitIdle DEF ServiceRun
<1>3. ASSUME NEW a \in graph, Lose(a) PROVE AdmitInv'
  BY <1>3, AdmitIdle DEF Lose
<1>4. ASSUME NEW a \in graph, Receive(a) PROVE AdmitInv'
  <2>1. PICK k \in Born(sent) : \E links : ReceiveEffect(a, k, links)
    BY <1>4, ReceiveDoes
  <2>2. PICK links : ReceiveEffect(a, k, links)
    BY <2>1
  <2>3. UNCHANGED <<sent, generated>>
    BY <1>4 DEF Receive
  <2>4. CASE ~Delivers(a, k)
    <3>1. UNCHANGED <<snapshot, dispatched, admitted, reports>>
      BY <2>2, <2>4 DEF ReceiveEffect
    <3>2. QED
      BY <2>3, <3>1, AdmitIdle
  <2>5. CASE Delivers(a, k)
    <3>1. PICK packet : packet = Stamp(PacketOf(sent, k), bits[a] + 1)
      OBVIOUS
    <3>2. /\ Key(packet) = k /\ SamePacket(packet, PacketOf(sent, k))
          /\ a.host \in Hosts /\ <<a.host, k>> \notin DOMAIN dispatched
          /\ Dispatch(a.host, packet) /\ DispatchEffect(a.host, packet)
      BY <2>2, <2>3, <2>5, <3>1, Delivered
    <3>3. QED
      BY <2>3, <3>2, AdmitDispatch
  <2>6. QED
    BY <2>4, <2>5
<1>5. CASE UNCHANGED vars
  BY <1>5, AdmitIdle DEF vars
<1>6. QED
  BY <1>1, <1>2, <1>3, <1>4, <1>5 DEF NetworkNext

(* DirectedReception, for every deployment and every dispatch table: a     *)
(* directed packet is admitted at its destination only, by the first       *)
(* receiver of its endpoint, and unsupported controls nowhere.             *)
THEOREM DirectedReceptionAlways ==
  NetworkSpec => []DirectedReception
<1>1. AdmitInv => DirectedReception
  BY DEF AdmitInv
<1>2. QED
  BY <1>1, PlaceInit, PlaceKept, AdmitInit, AdmitKept, PTL DEF NetworkSpec

(* DispatchReportsItsReceivers, for every deployment and dispatch table:   *)
(* dispatch reports acceptance exactly when a receiver kept the packet,    *)
(* and a snapshot's generation counts what its receiver kept.              *)
THEOREM DispatchReportsAlways ==
  NetworkSpec => []DispatchReportsItsReceivers
<1>1. AdmitInv => DispatchReportsItsReceivers
  BY DEF AdmitInv
<1>2. QED
  BY <1>1, PlaceInit, PlaceKept, AdmitInit, AdmitKept, PTL DEF NetworkSpec

-----------------------------------------------------------------------------
(* The inductive invariant, part three: an undisturbed packet is passed on.*)

(* Host h is done with k: all its Links of the Wire have carried k, and a  *)
(* member other than the origin has dispatched it.                         *)
Handled(s, C, D, h, k) ==
  /\ \A c \in TreeOf(wires, s, k) : c.host = h => <<c.link, k>> \in C
  /\ h \in wires[PacketOf(s, k).wire].members /\ <<"host", h>> # OriginOf(s, k)
       => <<h, k>> \in D

(* A host is done with what was under way to it and no longer is.          *)
PassedOn(s, C, X, D, N) ==
  \A k \in Born(s) \ N : \A b \in TreeOf(wires, s, k) :
    <<b.link, k>> \in C /\ k \notin KeysIn(X[b]) => Handled(s, C, D, b.host, k)

(* So is the origin of a request, and the service of one it has answered.  *)
OriginsDone(s, C, D, N) ==
  \A n \in DOMAIN s : <<n, "Request">> \notin N =>
    Handled(s, C, D, s[n].source, <<n, "Request">>)
Answered(n) ==
  /\ <<sent[n].destination, "service", <<n, "Request">>>> \in admitted
  /\ Answerable(sent[n])
  /\ <<n, "Request">> \notin KeysIn(queue[sent[n].destination])
ServicesDone ==
  \A n \in DOMAIN sent : Answered(n) /\ <<n, "Response">> \notin disturbed =>
    Handled(sent, DOMAIN carried, DOMAIN dispatched, sent[n].destination, <<n, "Response">>)

ReachInv ==
  /\ PassedOn(sent, DOMAIN carried, inbox, DOMAIN dispatched, disturbed)
  /\ OriginsDone(sent, DOMAIN carried, DOMAIN dispatched, disturbed)
  /\ ServicesDone

(* Done stays done.                                                        *)
LEMMA HandledGrows ==
  ASSUME NEW s, NEW C, NEW C2, C \subseteq C2, NEW D, NEW D2, D \subseteq D2, NEW h, NEW k,
         Handled(s, C, D, h, k)
  PROVE  Handled(s, C2, D2, h, k)
BY DEF Handled

(* The hosts a forward hands k to have it under way; the host that         *)
(* forwards it is done.                                                    *)
LEMMA PassingOn ==
  ASSUME Deployed, NEW s, History(s), NEW k \in Born(s), NEW h, NEW ports, NEW boxes, NEW links,
         Spreading(s, h, k, ports, boxes, links), NEW D2, DOMAIN dispatched \subseteq D2,
         PassedOn(s, DOMAIN carried, inbox, DOMAIN dispatched, disturbed),
         \A b \in graph : \A j \in KeysIn(inbox[b]) \ KeysIn(boxes[b]) : j = k /\ b.host = h,
         \A c \in TreeOf(wires, s, k) :
           /\ k \notin disturbed' /\ c.host = h
           /\ c.link \in links \/ k \in KeysIn(inbox[c]) \ KeysIn(boxes[c])
           => Handled(s, DOMAIN carried', D2, h, k)
  PROVE  PassedOn(s, DOMAIN carried', inbox', D2, disturbed')
<1>1. SUFFICES ASSUME NEW j \in Born(s) \ disturbed', NEW b \in TreeOf(wires, s, j),
                      <<b.link, j>> \in DOMAIN carried', j \notin KeysIn(inbox'[b])
               PROVE  Handled(s, DOMAIN carried', D2, b.host, j)
  BY DEF PassedOn
<1>2. b \in graph
  BY <1>1, WiresLoopFree DEF LoopFreeWires
<1>3. /\ DOMAIN carried' = DOMAIN carried \union (links \X {k})
      /\ KeysIn(inbox'[b]) = KeysIn(boxes[b])
           \union (IF b.host # h /\ b.link \in links THEN {k} ELSE {})
      /\ disturbed \subseteq disturbed'
  BY <1>2 DEF Spreading
<1>4. CASE j = k /\ b.host = h
           /\ (b.link \in links \/ k \in KeysIn(inbox[b]) \ KeysIn(boxes[b]))
  BY <1>1, <1>4
<1>5. CASE ~(j = k /\ b.host = h
             /\ (b.link \in links \/ k \in KeysIn(inbox[b]) \ KeysIn(boxes[b])))
  <2>1. <<b.link, j>> \in DOMAIN carried
    <3>1. ASSUME <<b.link, j>> \notin DOMAIN carried PROVE FALSE
      <4>1. j = k /\ b.link \in links
        BY <1>1, <1>3, <3>1
      <4>2. b.host # h
        BY <1>5, <4>1
      <4>3. k \in KeysIn(inbox'[b])
        BY <1>3, <4>1, <4>2
      <4>4. QED
        BY <1>1, <4>1, <4>3
    <3>2. QED
      BY <3>1
  <2>2. j \notin KeysIn(inbox[b])
    <3>1. ASSUME j \in KeysIn(inbox[b]) PROVE FALSE
      <4>1. j \notin KeysIn(boxes[b])
        BY <1>1, <1>3
      <4>2. j = k /\ b.host = h
        BY <1>2, <3>1, <4>1
      <4>3. QED
        BY <1>5, <3>1, <4>1, <4>2
    <3>2. QED
      BY <3>1
  <2>3. j \in Born(s) \ disturbed
    BY <1>1, <1>3
  <2>4. Handled(s, DOMAIN carried, DOMAIN dispatched, b.host, j)
    BY <1>1, <2>1, <2>2, <2>3 DEF PassedOn
  <2>5. DOMAIN carried \subseteq DOMAIN carried'
    BY <1>3
  <2>6. QED
    BY <2>4, <2>5, HandledGrows
<1>6. QED
  BY <1>4, <1>5

(* An origin whose Links all took the packet is done with it.              *)
LEMMA OriginDone ==
  ASSUME NEW s, NEW k, NEW h, h = PacketOf(s, k).source, NEW boxes, NEW links,
         Spreading(s, h, k, FromOrigin(s, k), boxes, links), k \notin disturbed', NEW D
  PROVE  Handled(s, DOMAIN carried', D, h, k)
<1>1. /\ DOMAIN carried' = DOMAIN carried \union (links \X {k})
      /\ links = {c.link : c \in FromOrigin(s, k)}
  BY DEF Spreading
<1>2. ASSUME NEW c \in TreeOf(wires, s, k), c.host = h PROVE <<c.link, k>> \in DOMAIN carried'
  <2>1. c \in FromOrigin(s, k)
    BY <1>2 DEF FromOrigin, Ports
  <2>2. QED
    BY <1>1, <2>1
<1>3. <<"host", h>> = OriginOf(s, k)
  BY DEF OriginOf
<1>4. QED
  BY <1>2, <1>3 DEF Handled

(* A Router that received k over the Wire is done with it.                 *)
LEMMA TransitDone ==
  ASSUME PlaceInv, NEW a \in graph, NEW k, NEW links, ReceiveEffect(a, k, links),
         k \notin disturbed', a \in TreeOf(wires, sent, k), NEW D2,
         Delivers(a, k) => <<a.host, k>> \in D2
  PROVE  Handled(sent, DOMAIN carried', D2, a.host, k)
<1>1. PICK T, ports : T = TreeOf(wires, sent, k) /\ ports = Ports(T, a.host, {a})
  OBVIOUS
<1>2. ports = Onward(a, k)
  BY <1>1 DEF Onward
<1>3. /\ DOMAIN carried' = DOMAIN carried \union (links \X {k})
      /\ links = {c.link : c \in ports}
  BY <1>2 DEF ReceiveEffect, Spreading
<1>4. <<a.link, k>> \in DOMAIN carried
  <2>1. InTransit(wires, sent, DOMAIN carried, DOMAIN dispatched, a, k)
    BY ReceivedInTransit DEF ReceiveEffect
  <2>2. QED
    BY <2>1 DEF InTransit
<1>5. ASSUME NEW c \in T, c.host = a.host PROVE <<c.link, k>> \in DOMAIN carried'
  <2>1. CASE c = a
    BY <1>3, <1>4, <2>1
  <2>2. CASE c # a
    <3>1. c \in ports
      BY <1>1, <1>5, <2>2 DEF Ports
    <3>2. QED
      BY <1>3, <3>1
  <2>3. QED
    BY <2>1, <2>2
<1>6. a.host \in wires[PacketOf(sent, k).wire].members => <<a.host, k>> \in D2
  BY DEF Delivers
<1>7. QED
  BY <1>1, <1>5, <1>6 DEF Handled

(* A packet that a host has handled stays handled.                         *)
LEMMA HandledLonger ==
  ASSUME NEW s, NEW s2, NEW k, PacketOf(s2, k) = PacketOf(s, k),
         NEW C, NEW C2, C \subseteq C2, NEW D, NEW D2, D \subseteq D2, NEW h,
         Handled(s, C, D, h, k)
  PROVE  Handled(s2, C2, D2, h, k)
BY DEF Handled, TreeOf, OriginOf

(* Dispatches are of packets of the history, at hosts.                     *)
LEMMA DispatchedWhere ==
  ASSUME PlaceInv, NEW d, NEW k, <<d, k>> \in DOMAIN dispatched
  PROVE  /\ d \in Hosts /\ k \in Born(sent) /\ <<"host", d>> # OriginOf(sent, k)
         /\ d \in wires[PacketOf(sent, k).wire].members
<1>1. PICK t \in DOMAIN dispatched : t[1] = d /\ t[2] = k
  OBVIOUS
<1>2. /\ d \in wires[PacketOf(sent, k).wire].members /\ k \in Born(sent)
      /\ <<"host", d>> # OriginOf(sent, k)
  BY <1>1 DEF PlaceInv, OnceInv, FlowInv
<1>3. PICK w \in Wires : w = PacketOf(sent, k).wire
  BY <1>2, HistoryPackets DEF PlaceInv
<1>4. QED
  BY <1>2, <1>3 DEF PlaceInv, Deployed

(* What has been admitted was sent, and at a host.                         *)
LEMMA AdmittedWhere ==
  ASSUME PlaceInv, AdmitInv, NEW d, NEW r, NEW k, <<d, r, k>> \in admitted
  PROVE  <<d, k>> \in DOMAIN dispatched /\ d \in Hosts /\ k \in Born(sent)
<1>1. PICK t \in admitted : t[1] = d /\ t[3] = k
  OBVIOUS
<1>2. <<d, k>> \in DOMAIN dispatched
  BY <1>1 DEF AdmitInv
<1>3. QED
  BY <1>2, DispatchedWhere

(* Initially there is nothing to reach anyone.                             *)
LEMMA ReachInit ==
  NetworkInit => ReachInv
<1> SUFFICES ASSUME NetworkInit PROVE ReachInv
  OBVIOUS
<1>1. DOMAIN sent = {}
  BY DEF NetworkInit
<1>2. Born(sent) = {}
  BY <1>1 DEF Born
<1>3. QED
  BY <1>1, <1>2 DEF ReachInv, PassedOn, OriginsDone, ServicesDone

(* Origins and services that are done stay done while packets move.        *)
LEMMA DoneKept ==
  ASSUME PlaceInv, ReachInv, wires' = wires, sent' = sent,
         DOMAIN carried \subseteq DOMAIN carried',
         DOMAIN dispatched \subseteq DOMAIN dispatched', disturbed \subseteq disturbed'
  PROVE  /\ OriginsDone(sent, DOMAIN carried', DOMAIN dispatched', disturbed')
         /\ \A n \in DOMAIN sent : Answered(n) /\ <<n, "Response">> \notin disturbed' =>
              Handled(sent, DOMAIN carried', DOMAIN dispatched', sent[n].destination,
                      <<n, "Response">>)
<1>1. ASSUME NEW h, NEW k, Handled(sent, DOMAIN carried, DOMAIN dispatched, h, k)
      PROVE  Handled(sent, DOMAIN carried', DOMAIN dispatched', h, k)
  BY <1>1, HandledGrows
<1>2. ASSUME NEW n \in DOMAIN sent, <<n, "Request">> \notin disturbed'
      PROVE  Handled(sent, DOMAIN carried', DOMAIN dispatched', sent[n].source,
                     <<n, "Request">>)
  BY <1>1, <1>2 DEF ReachInv, OriginsDone
<1>3. ASSUME NEW n \in DOMAIN sent, Answered(n), <<n, "Response">> \notin disturbed'
      PROVE  Handled(sent, DOMAIN carried', DOMAIN dispatched', sent[n].destination,
                     <<n, "Response">>)
  BY <1>1, <1>3 DEF ReachInv, ServicesDone
<1>4. QED
  BY <1>2, <1>3 DEF OriginsDone

(* The three parts make the next ReachInv, the Wires being the same.       *)
LEMMA ReachParts ==
  ASSUME wires' = wires, NEW s, s = sent',
         PassedOn(s, DOMAIN carried', inbox', DOMAIN dispatched', disturbed'),
         OriginsDone(s, DOMAIN carried', DOMAIN dispatched', disturbed'),
         \A n \in DOMAIN s : Answered(n)' /\ <<n, "Response">> \notin disturbed' =>
           Handled(s, DOMAIN carried', DOMAIN dispatched', s[n].destination, <<n, "Response">>)
  PROVE  ReachInv'
<1>1. \A C, D, h, k : Handled(s, C, D, h, k)
        <=> /\ \A c \in TreeOf(wires', s, k) : c.host = h => <<c.link, k>> \in C
            /\ h \in wires'[PacketOf(s, k).wire].members /\ <<"host", h>> # OriginOf(s, k)
                 => <<h, k>> \in D
  BY DEF Handled
<1>2. PassedOn(sent, DOMAIN carried, inbox, DOMAIN dispatched, disturbed)'
  BY <1>1 DEF PassedOn, Handled
<1>3. OriginsDone(sent, DOMAIN carried, DOMAIN dispatched, disturbed)'
  BY <1>1 DEF OriginsDone, Handled
<1>4. ServicesDone'
  BY <1>1 DEF ServicesDone, Handled
<1>5. QED
  BY <1>2, <1>3, <1>4 DEF ReachInv

(* Lose keeps it: the packet it takes is disturbed.                        *)
LEMMA ReachLose ==
  ASSUME PlaceInv, ReachInv, NEW a \in graph, Lose(a)
  PROVE  ReachInv'
<1>1. PICK k \in Born(sent) : LoseEffect(a, k)
  BY LoseDoes
<1>2. /\ wires' = wires /\ sent' = sent /\ queue' = queue /\ admitted' = admitted
      /\ dispatched' = dispatched /\ carried' = carried /\ disturbed \subseteq disturbed'
  BY DEF Lose, generated
<1>3. PICK Y : Y = WithoutHead(inbox, a)
  OBVIOUS
<1>4. Spreading(sent, a.host, k, {}, Y, {}) /\ k \in disturbed'
  BY <1>1, <1>3 DEF LoseEffect
<1>5. HeadTaken(inbox, a, Y)
  BY <1>3, TakeHead DEF PlaceInv, BoxInv, OnceInv, FlowInv, Lose
<1>6. \A b \in graph : \A j \in KeysIn(inbox[b]) \ KeysIn(Y[b]) : j = k /\ b.host = a.host
  BY <1>1, <1>5 DEF HeadTaken, LoseEffect
<1>7. PassedOn(sent, DOMAIN carried', inbox', DOMAIN dispatched, disturbed')
  BY <1>4, <1>6, PassingOn DEF PlaceInv, ReachInv
<1>8. /\ OriginsDone(sent, DOMAIN carried', DOMAIN dispatched', disturbed')
      /\ \A n \in DOMAIN sent : Answered(n) /\ <<n, "Response">> \notin disturbed' =>
           Handled(sent, DOMAIN carried', DOMAIN dispatched', sent[n].destination,
                   <<n, "Response">>)
  BY <1>2, DoneKept
<1>9. \A n : Answered(n)' <=> Answered(n)
  BY <1>2 DEF Answered
<1>10. QED
  BY <1>2, <1>7, <1>8, <1>9, ReachParts

(* Originate keeps it: the new packet leaves over all its Links or is      *)
(* disturbed.                                                              *)
LEMMA ReachOriginate ==
  ASSUME PlaceInv, AdmitInv, ReachInv, NEW h \in Hosts, Originate(h)
  PROVE  ReachInv'
<1>1. PICK packet \in RequestPackets : \E links : OriginateEffect(h, packet, links)
  BY OriginateDoes
<1>2. PICK links : OriginateEffect(h, packet, links)
  BY <1>1
<1>3. /\ wires' = wires /\ queue' = queue /\ admitted' = admitted /\ dispatched' = dispatched
  BY DEF Originate, generated
<1>4. PICK s, k : s = sent' /\ k = Key(packet)
  OBVIOUS
<1>5. Spreading(s, h, k, FromOrigin(s, k), inbox, links)
  BY <1>2, <1>4 DEF OriginateEffect
<1>6. Grown(sent, packet, s)
  <2>1. PICK old : old = sent /\ History(old)
    BY DEF PlaceInv
  <2>2. packet.sequence_number = Len(old) + 1 /\ s = Append(old, packet)
    BY <1>2, <1>4, <2>1 DEF OriginateEffect
  <2>3. Grown(old, packet, s)
    BY <2>1, <2>2, HistoryGrows
  <2>4. QED
    BY <2>1, <2>3
<1>7. /\ History(s) /\ Born(sent) \subseteq Born(s)
      /\ \A j \in Born(sent) : PacketOf(s, j) = PacketOf(sent, j)
      /\ k \in Born(s) /\ PacketOf(s, k) = packet
      /\ \A n \in DOMAIN sent : s[n] = sent[n]
      /\ DOMAIN s = DOMAIN sent \union {Len(sent) + 1}
  BY <1>4, <1>6 DEF Grown
<1>8. /\ DOMAIN carried \subseteq DOMAIN carried' /\ disturbed \subseteq disturbed'
  BY <1>5 DEF Spreading
<1>9. \A n \in DOMAIN sent : <<n, "Request">> \in Born(sent) /\ <<n, "Response">> \in Born(sent)
  BY DEF Born
<1>10. PassedOn(s, DOMAIN carried, inbox, DOMAIN dispatched, disturbed)
  <2>1. SUFFICES ASSUME NEW j \in Born(s) \ disturbed, NEW b \in TreeOf(wires, s, j),
                        <<b.link, j>> \in DOMAIN carried, j \notin KeysIn(inbox[b])
                 PROVE  Handled(s, DOMAIN carried, DOMAIN dispatched, b.host, j)
    BY DEF PassedOn
  <2>2. j \in Born(sent)
    <3>1. PICK t \in DOMAIN carried : t[2] = j
      BY <2>1
    <3>2. QED
      BY <3>1 DEF PlaceInv, OnceInv, FlowInv
  <2>3. b \in TreeOf(wires, sent, j) /\ PacketOf(s, j) = PacketOf(sent, j)
    BY <1>7, <2>1, <2>2 DEF TreeOf
  <2>4. Handled(sent, DOMAIN carried, DOMAIN dispatched, b.host, j)
    BY <2>1, <2>2, <2>3 DEF ReachInv, PassedOn
  <2>5. QED
    BY <2>3, <2>4, HandledLonger
<1>11. k \notin disturbed' => Handled(s, DOMAIN carried', DOMAIN dispatched, h, k)
  <2>1. h = PacketOf(s, k).source
    BY <1>2, <1>7 DEF OriginateEffect
  <2>2. QED
    BY <1>5, <2>1, OriginDone
<1>12. PassedOn(s, DOMAIN carried', inbox', DOMAIN dispatched, disturbed')
  <2>1. \A b \in graph : \A j \in KeysIn(inbox[b]) \ KeysIn(inbox[b]) : j = k /\ b.host = h
    OBVIOUS
  <2>2. QED
    BY <1>5, <1>7, <1>10, <1>11, <2>1, PassingOn DEF PlaceInv
<1>13. OriginsDone(s, DOMAIN carried', DOMAIN dispatched, disturbed')
  <2>1. SUFFICES ASSUME NEW n \in DOMAIN s, <<n, "Request">> \notin disturbed'
                 PROVE  Handled(s, DOMAIN carried', DOMAIN dispatched, s[n].source,
                                <<n, "Request">>)
    BY DEF OriginsDone
  <2>2. CASE n \in DOMAIN sent
    <3>1. Handled(sent, DOMAIN carried, DOMAIN dispatched, sent[n].source, <<n, "Request">>)
      BY <1>8, <2>1, <2>2 DEF ReachInv, OriginsDone
    <3>2. PacketOf(s, <<n, "Request">>) = PacketOf(sent, <<n, "Request">>) /\ s[n] = sent[n]
      BY <1>7, <1>9, <2>2
    <3>3. QED
      BY <1>8, <3>1, <3>2, HandledLonger
  <2>3. CASE n = Len(sent) + 1
    <3>1. s[n] = packet
      BY <1>6, <2>3 DEF Grown
    <3>2. packet.sequence_number = n /\ packet.source = h /\ packet.type = "Request"
      BY <1>2, <2>3, RequestFields DEF OriginateEffect
    <3>3. k = <<n, "Request">>
      BY <1>4, <3>2 DEF Key
    <3>4. QED
      BY <1>11, <2>1, <3>1, <3>2, <3>3
  <2>4. QED
    BY <1>7, <2>2, <2>3
<1>14. ASSUME NEW n \in DOMAIN s, Answered(n)', <<n, "Response">> \notin disturbed'
       PROVE  Handled(s, DOMAIN carried', DOMAIN dispatched, s[n].destination, <<n, "Response">>)
  <2>1. <<s[n].destination, "service", <<n, "Request">>>> \in admitted
    BY <1>3, <1>4, <1>14 DEF Answered
  <2>2. <<n, "Request">> \in Born(sent)
    BY <2>1, AdmittedWhere
  <2>3. n \in DOMAIN sent /\ s[n] = sent[n]
    BY <1>7, <2>2 DEF Born
  <2>4. Answered(n)
    BY <1>3, <1>4, <1>14, <2>3 DEF Answered, Answerable
  <2>5. Handled(sent, DOMAIN carried, DOMAIN dispatched, sent[n].destination, <<n, "Response">>)
    BY <1>8, <1>14, <2>3, <2>4 DEF ReachInv, ServicesDone
  <2>6. PacketOf(s, <<n, "Response">>) = PacketOf(sent, <<n, "Response">>)
    BY <1>7, <1>9, <2>3
  <2>7. QED
    BY <1>8, <2>3, <2>5, <2>6, HandledLonger
<1>15. QED
  BY <1>3, <1>4, <1>12, <1>13, <1>14, ReachParts

(* Receive keeps it: the host passes the packet on over all further Links  *)
(* and dispatches it, or the packet is disturbed.                          *)
LEMMA ReachReceive ==
  ASSUME PlaceInv, AdmitInv, ReachInv, NEW a \in graph, Receive(a)
  PROVE  ReachInv'
<1>1. PICK k \in Born(sent) : \E links : ReceiveEffect(a, k, links)
  BY ReceiveDoes
<1>2. PICK links : ReceiveEffect(a, k, links)
  BY <1>1
<1>3. UNCHANGED <<sent, generated>> /\ wires' = wires /\ sent' = sent
  BY DEF Receive, generated
<1>4. PICK h, Y, ports : h = a.host /\ Y = WithoutHead(inbox, a) /\ ports = Onward(a, k)
  OBVIOUS
<1>5. Spreading(sent, h, k, ports, Y, links)
  BY <1>2, <1>4 DEF ReceiveEffect
<1>6. HeadTaken(inbox, a, Y)
  BY <1>4, TakeHead DEF PlaceInv, BoxInv, OnceInv, FlowInv, Receive
<1>7. DOMAIN carried \subseteq DOMAIN carried' /\ disturbed \subseteq disturbed'
  BY <1>5 DEF Spreading
<1>8. PICK packet : packet = Stamp(PacketOf(sent, k), bits[a] + 1)
  OBVIOUS
<1>9. Delivers(a, k) => /\ Key(packet) = k /\ h \in Hosts
                        /\ Dispatch(h, packet) /\ DispatchEffect(h, packet)
  BY <1>2, <1>3, <1>4, <1>8, Delivered
<1>10. ~Delivers(a, k) => UNCHANGED <<queue, dispatched, admitted>>
  BY <1>2 DEF ReceiveEffect
<1>11. /\ DOMAIN dispatched \subseteq DOMAIN dispatched'
       /\ Delivers(a, k) => <<h, k>> \in DOMAIN dispatched'
  BY <1>9, <1>10 DEF DispatchEffect
<1>12. \A b \in graph : \A j \in KeysIn(inbox[b]) \ KeysIn(Y[b]) : j = k /\ b = a
  BY <1>2, <1>6 DEF HeadTaken, ReceiveEffect
<1>13. ASSUME NEW c \in TreeOf(wires, sent, k), k \notin disturbed', c.host = h,
              c.link \in links \/ k \in KeysIn(inbox[c]) \ KeysIn(Y[c])
       PROVE  Handled(sent, DOMAIN carried', DOMAIN dispatched', h, k)
  <2>1. a \in TreeOf(wires, sent, k)
    <3>1. CASE c.link \in links
      <4>1. ports # {}
        BY <1>2, <1>4, <3>1 DEF ReceiveEffect
      <4>2. QED
        BY <1>4, <4>1 DEF Onward
    <3>2. CASE k \in KeysIn(inbox[c]) \ KeysIn(Y[c])
      <4>1. c \in graph
        BY WiresLoopFree DEF LoopFreeWires, PlaceInv
      <4>2. QED
        BY <1>12, <1>13, <3>2, <4>1
    <3>3. QED
      BY <1>13, <3>1, <3>2
  <2>2. PICK D2 : D2 = DOMAIN dispatched' /\ (Delivers(a, k) => <<a.host, k>> \in D2)
    BY <1>4, <1>11
  <2>3. Handled(sent, DOMAIN carried', D2, a.host, k)
    BY <1>2, <1>13, <2>1, <2>2, TransitDone
  <2>4. QED
    BY <1>4, <2>2, <2>3
<1>14. PassedOn(sent, DOMAIN carried', inbox', DOMAIN dispatched', disturbed')
  <2>1. PICK D2 : D2 = DOMAIN dispatched' /\ DOMAIN dispatched \subseteq D2
    BY <1>11
  <2>2. /\ Deployed /\ History(sent)
        /\ PassedOn(sent, DOMAIN carried, inbox, DOMAIN dispatched, disturbed)
    BY DEF PlaceInv, ReachInv
  <2>3. \A b \in graph : \A j \in KeysIn(inbox[b]) \ KeysIn(Y[b]) : j = k /\ b.host = h
    BY <1>4, <1>12
  <2>4. \A c \in TreeOf(wires, sent, k) :
          /\ k \notin disturbed' /\ c.host = h
          /\ c.link \in links \/ k \in KeysIn(inbox[c]) \ KeysIn(Y[c])
          => Handled(sent, DOMAIN carried', D2, h, k)
    BY <1>13, <2>1
  <2>5. PassedOn(sent, DOMAIN carried', inbox', D2, disturbed')
    BY <1>5, <2>1, <2>2, <2>3, <2>4, PassingOn
  <2>6. QED
    BY <2>1, <2>5
<1>15. /\ OriginsDone(sent, DOMAIN carried', DOMAIN dispatched', disturbed')
       /\ \A n \in DOMAIN sent : Answered(n) /\ <<n, "Response">> \notin disturbed' =>
            Handled(sent, DOMAIN carried', DOMAIN dispatched', sent[n].destination,
                    <<n, "Response">>)
  BY <1>3, <1>7, <1>11, DoneKept
<1>16. ASSUME NEW n \in DOMAIN sent, Answered(n)' PROVE Answered(n)
  <2>1. PICK d, j : d = sent[n].destination /\ j = <<n, "Request">>
    OBVIOUS
  <2>2. <<d, "service", j>> \in admitted' /\ Answerable(sent[n]) /\ j \notin KeysIn(queue'[d])
    BY <1>3, <1>16, <2>1 DEF Answered, Answerable
  <2>3. CASE ~Delivers(a, k)
    BY <1>10, <2>1, <2>2, <2>3 DEF Answered
  <2>4. CASE Delivers(a, k)
    <3>1. /\ \A i \in Hosts : KeysIn(queue[i]) \subseteq KeysIn(queue'[i])
          /\ "service" \in Accepting(h, packet) => k \in KeysIn(queue'[h])
      BY <1>9, <2>4 DEF DispatchEffect
    <3>2. <<d, "service", j>> \in admitted
      <4>1. ASSUME <<d, "service", j>> \notin admitted PROVE FALSE
        <5>1. admitted' = admitted \union ({h} \X Accepting(h, packet) \X {k})
          BY <1>9, <2>4 DEF Dispatch
        <5>2. d = h /\ "service" \in Accepting(h, packet) /\ j = k
          BY <2>2, <4>1, <5>1
        <5>3. QED
          BY <2>2, <3>1, <5>2
      <4>2. QED
        BY <4>1
    <3>3. d \in Hosts
      BY <3>2, AdmittedWhere
    <3>4. QED
      BY <2>1, <2>2, <3>1, <3>2, <3>3 DEF Answered
  <2>5. QED
    BY <2>3, <2>4
<1>17. QED
  BY <1>3, <1>14, <1>15, <1>16, ReachParts

(* ServiceRun keeps it: the response leaves over all its Links or is       *)
(* disturbed.                                                              *)
LEMMA ReachService ==
  ASSUME PlaceInv, AdmitInv, ReachInv, NEW h \in Hosts, ServiceRun(h)
  PROVE  ReachInv'
<1>1. PICK k \in Born(sent) : \E links : ServiceEffect(h, k, links)
  BY ServiceDoes
<1>2. PICK links : ServiceEffect(h, k, links)
  BY <1>1
<1>3. wires' = wires /\ sent' = sent /\ admitted' = admitted /\ dispatched' = dispatched
  BY DEF ServiceRun, generated
<1>4. PICK x \in Seq(QueuedPackets) : x = queue[h] /\ x # <<>> /\ DistinctKeys(x)
  BY DEF PlaceInv, QueueInv, ServiceRun
<1>5. KeysIn(Tail(x)) = KeysIn(x) \ {k}
  <2>1. k = Key(Head(x))
    BY <1>2, <1>4 DEF ServiceEffect
  <2>2. QED
    BY <1>4, <2>1, TailKeys
<1>6. \A i \in Hosts : KeysIn(queue'[i]) = IF i = h THEN KeysIn(queue[i]) \ {k} ELSE KeysIn(queue[i])
  <2>1. queue' = [queue EXCEPT ![h] = Tail(x)] /\ DOMAIN queue = Hosts
    BY <1>2, <1>4 DEF ServiceEffect, PlaceInv, QueueInv
  <2>2. queue'[h] = Tail(x) /\ \A i \in Hosts : i # h => queue'[i] = queue[i]
    BY <2>1
  <2>3. QED
    BY <1>4, <1>5, <2>2
<1>7. ASSUME NEW n \in DOMAIN sent, Answered(n)'
      PROVE  \/ Answered(n)
             \/ k = <<n, "Request">> /\ sent[n].destination = h /\ Answerable(PacketOf(sent, k))
  <2>1. PICK d, j : d = sent[n].destination /\ j = <<n, "Request">>
    OBVIOUS
  <2>2. <<d, "service", j>> \in admitted /\ Answerable(sent[n]) /\ j \notin KeysIn(queue'[d])
    BY <1>3, <1>7, <2>1 DEF Answered, Answerable
  <2>3. d \in Hosts
    BY <2>2, AdmittedWhere
  <2>4. CASE j \notin KeysIn(queue[d])
    BY <2>1, <2>2, <2>4 DEF Answered
  <2>5. CASE j \in KeysIn(queue[d])
    <3>1. d = h /\ j = k
      BY <1>6, <2>2, <2>3, <2>5
    <3>2. PacketOf(sent, j) = sent[n]
      BY <2>1 DEF PacketOf
    <3>3. QED
      BY <2>1, <2>2, <3>1, <3>2
  <2>6. QED
    BY <2>4, <2>5
<1>8. CASE ~Answerable(PacketOf(sent, k))
  <2>1. inbox' = inbox /\ carried' = carried /\ disturbed' = disturbed
    BY <1>2, <1>8 DEF ServiceEffect
  <2>2. PassedOn(sent, DOMAIN carried', inbox', DOMAIN dispatched', disturbed')
    BY <1>3, <2>1 DEF ReachInv
  <2>3. OriginsDone(sent, DOMAIN carried', DOMAIN dispatched', disturbed')
    BY <1>3, <2>1 DEF ReachInv
  <2>4. \A n \in DOMAIN sent : Answered(n)' /\ <<n, "Response">> \notin disturbed' =>
          Handled(sent, DOMAIN carried', DOMAIN dispatched', sent[n].destination,
                  <<n, "Response">>)
    BY <1>3, <1>7, <1>8, <2>1 DEF ReachInv, ServicesDone
  <2>5. QED
    BY <1>3, <2>2, <2>3, <2>4, ReachParts
<1>9. CASE Answerable(PacketOf(sent, k))
  <2>1. PICK j : j = ResponseTo(k)
    OBVIOUS
  <2>2. /\ j \in Born(sent) /\ Spreading(sent, h, j, FromOrigin(sent, j), inbox, links)
        /\ PacketOf(sent, j).source = h
    BY <1>2, <1>9, <2>1 DEF ServiceEffect
  <2>3. DOMAIN carried \subseteq DOMAIN carried' /\ disturbed \subseteq disturbed'
    BY <2>2 DEF Spreading
  <2>4. j \notin disturbed' => Handled(sent, DOMAIN carried', DOMAIN dispatched, h, j)
    BY <2>2, OriginDone
  <2>5. PassedOn(sent, DOMAIN carried', inbox', DOMAIN dispatched, disturbed')
    <3>1. \A b \in graph : \A i \in KeysIn(inbox[b]) \ KeysIn(inbox[b]) : i = j /\ b.host = h
      OBVIOUS
    <3>2. /\ Deployed /\ History(sent)
          /\ PassedOn(sent, DOMAIN carried, inbox, DOMAIN dispatched, disturbed)
      BY DEF PlaceInv, ReachInv
    <3>3. QED
      BY <2>2, <2>4, <3>1, <3>2, PassingOn
  <2>6. /\ OriginsDone(sent, DOMAIN carried', DOMAIN dispatched', disturbed')
        /\ \A n \in DOMAIN sent : Answered(n) /\ <<n, "Response">> \notin disturbed' =>
             Handled(sent, DOMAIN carried', DOMAIN dispatched', sent[n].destination,
                     <<n, "Response">>)
    BY <1>3, <2>3, DoneKept
  <2>7. ASSUME NEW n \in DOMAIN sent, Answered(n)', <<n, "Response">> \notin disturbed'
        PROVE  Handled(sent, DOMAIN carried', DOMAIN dispatched', sent[n].destination,
                       <<n, "Response">>)
    <3>1. CASE Answered(n)
      BY <2>6, <2>7, <3>1
    <3>2. CASE k = <<n, "Request">> /\ sent[n].destination = h
      <4>1. j = <<n, "Response">>
        BY <2>1, <3>2 DEF ResponseTo
      <4>2. QED
        BY <1>3, <2>4, <2>7, <3>2, <4>1
    <3>3. QED
      BY <1>7, <2>7, <3>1, <3>2
  <2>8. QED
    BY <1>3, <2>5, <2>6, <2>7, ReachParts
<1>10. QED
  BY <1>8, <1>9

(* Every step keeps what packets not disturbed have reached.               *)
LEMMA ReachKept ==
  PlaceInv /\ AdmitInv /\ ReachInv /\ [NetworkNext]_vars => ReachInv'
<1> SUFFICES ASSUME PlaceInv, AdmitInv, ReachInv, [NetworkNext]_vars PROVE ReachInv'
  OBVIOUS
<1>1. CASE \E h \in Hosts : Originate(h) \/ ServiceRun(h)
  BY <1>1, ReachOriginate, ReachService
<1>2. CASE \E a \in graph : Receive(a) \/ Lose(a)
  BY <1>2, ReachReceive, ReachLose
<1>3. CASE UNCHANGED vars
  <2>1. /\ wires' = wires /\ sent' = sent /\ carried' = carried /\ inbox' = inbox
        /\ dispatched' = dispatched /\ disturbed' = disturbed /\ queue' = queue
        /\ admitted' = admitted
    BY <1>3 DEF vars
  <2>2. \A n : Answered(n)' <=> Answered(n)
    BY <2>1 DEF Answered
  <2>3. QED
    BY <2>1, <2>2, ReachParts DEF ReachInv, ServicesDone
<1>4. QED
  BY <1>1, <1>2, <1>3 DEF NetworkNext

(* A packet whose origin is done, and which is neither disturbed nor under *)
(* way, has been everywhere.                                               *)
LEMMA BeenEverywhere ==
  ASSUME PlaceInv, ReachInv, NEW k \in Born(sent), k \notin disturbed, ~UnderWay(k),
         NEW h, h = PacketOf(sent, k).source,
         Handled(sent, DOMAIN carried, DOMAIN dispatched, h, k),
         \/ \E c \in TreeOf(wires, sent, k) : c.host = h
         \/ h \in wires[PacketOf(sent, k).wire].members
  PROVE  /\ \A m \in wires[PacketOf(sent, k).wire].members : m # h => <<m, k>> \in DOMAIN dispatched
         /\ \A c \in TreeOf(wires, sent, k) : <<c.link, k>> \in DOMAIN carried
<1>1. PICK T, o, C, D, members : /\ T = TreeOf(wires, sent, k) /\ o = OriginOf(sent, k)
                                 /\ C = DOMAIN carried /\ D = DOMAIN dispatched
                                 /\ members = wires[PacketOf(sent, k).wire].members
  OBVIOUS
<1>2. o = <<"host", h>>
  BY <1>1 DEF OriginOf
<1>3. Sound(graph, members, T) /\ T \subseteq graph
  <2>1. PICK w \in Wires : w = PacketOf(sent, k).wire
    BY HistoryPackets DEF PlaceInv
  <2>2. Sound(graph, members, T)
    BY <1>1, <2>1 DEF PlaceInv, Deployed, TreeOf
  <2>3. QED
    BY <2>2 DEF Sound
<1>4. PICK root : /\ \A m \in members : Joined(T, <<"host", m>>, root)
                  /\ \A a \in T : Joined(T, HostNode(a), root)
  BY <1>3 DEF Sound
<1>5. Joined(T, o, root)
  <2>1. CASE h \in members
    BY <1>2, <1>4, <2>1
  <2>2. CASE h \notin members
    <3>1. PICK c \in T : c.host = h
      BY <1>1, <2>2
    <3>2. HostNode(c) = o
      BY <1>2, <3>1 DEF HostNode
    <3>3. QED
      BY <1>4, <3>2
  <2>3. QED
    BY <2>1, <2>2
<1> DEFINE side == {<<"link", l>> : l \in {c.link : c \in {d \in T : <<d.link, k>> \in C}}}
                   \union {<<"host", i>> : i \in {j \in Hosts \union {h} :
                                                    Handled(sent, C, D, j, k)}}
<1>6. \A c \in T : LinkNode(c) \in side <=> <<c.link, k>> \in C
  BY DEF LinkNode
<1>7. \A i : <<"host", i>> \in side <=> i \in Hosts \union {h} /\ Handled(sent, C, D, i, k)
  OBVIOUS
<1> HIDE DEF side
<1>8. Uncrossed(T, side)
  <2>1. SUFFICES ASSUME NEW c \in T PROVE HostNode(c) \in side <=> LinkNode(c) \in side
    BY CrossesEnds DEF Uncrossed
  <2>2. c.host \in Hosts /\ c \in graph
    BY <1>3, AttachedHost DEF PlaceInv
  <2>3. HostNode(c) \in side <=> Handled(sent, C, D, c.host, k)
    BY <1>7, <2>2 DEF HostNode
  <2>4. Handled(sent, C, D, c.host, k) => <<c.link, k>> \in C
    BY <1>1 DEF Handled
  <2>5. ASSUME <<c.link, k>> \in C PROVE Handled(sent, C, D, c.host, k)
    <3>1. k \notin KeysIn(inbox[c])
      BY <2>2 DEF UnderWay, KeysIn
    <3>2. k \in Born(sent) \ disturbed
      OBVIOUS
    <3>3. QED
      BY <1>1, <2>5, <3>1, <3>2 DEF ReachInv, PassedOn
  <2>6. QED
    BY <1>6, <2>3, <2>4, <2>5
<1>9. o \in side
  BY <1>1, <1>2, <1>7
<1>10. ASSUME NEW m \in members, m # h PROVE <<m, k>> \in D
  <2>1. Joined(T, o, <<"host", m>>)
    BY <1>4, <1>5, JoinedSymmetric, JoinedTransitive
  <2>2. <<"host", m>> \in side
    BY <1>8, <1>9, <2>1, ClosedSide
  <2>3. Handled(sent, C, D, m, k)
    BY <1>7, <2>2
  <2>4. <<"host", m>> # o
    BY <1>2, <1>10
  <2>5. QED
    BY <1>1, <2>3, <2>4 DEF Handled
<1>11. ASSUME NEW c \in T PROVE <<c.link, k>> \in C
  <2>1. Joined(T, o, HostNode(c))
    BY <1>4, <1>5, JoinedSymmetric, JoinedTransitive
  <2>2. HostNode(c) \in side
    BY <1>8, <1>9, <2>1, ClosedSide
  <2>3. Handled(sent, C, D, c.host, k)
    BY <1>7, <2>2 DEF HostNode
  <2>4. QED
    BY <1>1, <2>3 DEF Handled
<1>12. QED
  BY <1>1, <1>10, <1>11

(* The invariant says that a packet under way no more has reached all.     *)
LEMMA InvReaches ==
  PlaceInv /\ ReachInv => ReachesEveryMember
<1> SUFFICES ASSUME PlaceInv, ReachInv, NEW n \in DOMAIN sent,
                    sent[n].wire \in DOMAIN routes[sent[n].source],
                    Key(sent[n]) \notin disturbed, ~UnderWay(Key(sent[n]))
             PROVE  /\ \A h \in WireOf(Key(sent[n])).members \ {sent[n].source} :
                         BagIn(<<h, Key(sent[n])>>, dispatched)
                    /\ \A a \in WireOf(Key(sent[n])).attachments :
                         BagIn(<<a.link, Key(sent[n])>>, carried)
  BY DEF ReachesEveryMember
<1>1. PICK k \in Born(sent) : k = <<n, "Request">>
  BY DEF Born
<1>2. PacketOf(sent, k) = sent[n] /\ k[1] = n
  BY <1>1 DEF PacketOf
<1>3. Key(sent[n]) = k
  BY <1>2, HistoryPackets DEF PlaceInv
<1>4. PICK h \in Hosts : h = sent[n].source
  BY RequestFields DEF PlaceInv, History
<1>5. PICK w \in Wires : w = sent[n].wire
  BY <1>1, <1>2, HistoryPackets DEF PlaceInv
<1>6. \/ \E c \in TreeOf(wires, sent, k) : c.host = h
      \/ h \in wires[w].members
  <2>1. w \in DOMAIN routes[h]
    BY <1>4, <1>5
  <2>2. \/ {bits[c] : c \in Ports(wires[w].attachments, h, {})} # {}
        \/ h \in wires[w].members
    BY <2>1, TableView DEF PlaceInv
  <2>3. QED
    BY <1>2, <1>5, <2>2 DEF Ports, TreeOf
<1>7. Handled(sent, DOMAIN carried, DOMAIN dispatched, h, k)
  BY <1>1, <1>3, <1>4 DEF ReachInv, OriginsDone
<1>8. /\ \A m \in wires[w].members : m # h => <<m, k>> \in DOMAIN dispatched
      /\ \A c \in TreeOf(wires, sent, k) : <<c.link, k>> \in DOMAIN carried
  BY <1>2, <1>3, <1>4, <1>5, <1>6, <1>7, BeenEverywhere
<1>9. WireOf(k) = wires[w] /\ TreeOf(wires, sent, k) = wires[w].attachments
  BY <1>2, <1>5 DEF WireOf, TreeOf
<1>10. QED
  BY <1>3, <1>4, <1>8, <1>9 DEF BagIn, BagToSet

(* The invariant says that a processed ping is answered.                   *)
LEMMA InvAnswers ==
  PlaceInv /\ AdmitInv /\ ReachInv => PingAnswered
<1> SUFFICES ASSUME PlaceInv, AdmitInv, ReachInv, NEW n \in DOMAIN sent,
                    <<sent[n].destination, "service", Key(sent[n])>> \in admitted,
                    sent[n].source \in wires[sent[n].wire].members,
                    sent[n].destination # Broadcast, sent[n].size = PingMessageSize,
                    queue[sent[n].destination] = <<>>,
                    <<n, "Response">> \notin disturbed, ~UnderWay(<<n, "Response">>)
             PROVE  BagIn(<<sent[n].source, <<n, "Response">>>>, dispatched)
  BY DEF PingAnswered
<1>1. PICK j \in Born(sent), k \in Born(sent) : j = <<n, "Request">> /\ k = <<n, "Response">>
  BY DEF Born
<1>2. PacketOf(sent, j) = sent[n] /\ j[1] = n /\ k[1] = n /\ k[2] = "Response" /\ j[2] = "Request"
  BY <1>1 DEF PacketOf
<1>3. Key(sent[n]) = j /\ sent[n].type = "Request"
  <2>1. Key(sent[n]) = j
    BY <1>2, HistoryPackets DEF PlaceInv
  <2>2. sent[n] \in RequestPackets
    BY DEF PlaceInv, History
  <2>3. QED
    BY <2>1, <2>2, RequestFields
<1>4. PICK d : d = sent[n].destination
  OBVIOUS
<1>5. <<d, j>> \in DOMAIN dispatched
  BY <1>3, <1>4, AdmittedWhere
<1>6. d \in wires[sent[n].wire].members /\ <<"host", d>> # OriginOf(sent, j)
  BY <1>2, <1>5, DispatchedWhere
<1>7. d # sent[n].source
  BY <1>2, <1>6 DEF OriginOf
<1>8. KeysIn(queue[d]) = {}
  <2>1. DOMAIN <<>> = {}
    OBVIOUS
  <2>2. QED
    BY <1>4, <2>1 DEF KeysIn, PacketsOf
<1>9. Answered(n)
  BY <1>1, <1>3, <1>4, <1>8 DEF Answered, Answerable
<1>10. Handled(sent, DOMAIN carried, DOMAIN dispatched, d, k)
  BY <1>1, <1>4, <1>9 DEF ReachInv, ServicesDone
<1>11. PacketOf(sent, k).wire = sent[n].wire /\ PacketOf(sent, k).source = d
  BY <1>2, <1>4, HistoryPackets DEF PlaceInv
<1>12. \A m \in wires[sent[n].wire].members : m # d => <<m, k>> \in DOMAIN dispatched
  BY <1>1, <1>6, <1>10, <1>11, BeenEverywhere
<1>13. QED
  BY <1>1, <1>7, <1>12 DEF BagIn, BagToSet

(* ReachesEveryMember, for every deployment: a packet no Link refused or   *)
(* lost, once no longer under way, has been dispatched at every member of  *)
(* its Wire but the origin and carried by every Link of the Wire.          *)
THEOREM ReachesEveryMemberAlways ==
  NetworkSpec => []ReachesEveryMember
<1>1. NetworkSpec => [](PlaceInv /\ AdmitInv /\ ReachInv)
  BY PlaceInit, PlaceKept, AdmitInit, AdmitKept, ReachInit, ReachKept, PTL DEF NetworkSpec
<1>2. QED
  BY <1>1, InvReaches, PTL

(* PingAnswered, for every deployment: a member's ping the service has     *)
(* admitted and processed has its response dispatched at the requester,    *)
(* once the response is under way no more and no Link disturbed it.        *)
THEOREM PingAnsweredAlways ==
  NetworkSpec => []PingAnswered
<1>1. NetworkSpec => [](PlaceInv /\ AdmitInv /\ ReachInv)
  BY PlaceInit, PlaceKept, AdmitInit, AdmitKept, ReachInit, ReachKept, PTL DEF NetworkSpec
<1>2. QED
  BY <1>1, InvAnswers, PTL

=============================================================================
