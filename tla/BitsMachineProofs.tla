------------------------- MODULE BitsMachineProofs --------------------------
(***************************************************************************)
(* Every operation of the receiver engine and of the transmitter's session *)
(* preserves their invariants, for every window width, sequence modulus,   *)
(* retry budget, message and answer of the peer. The modules that put the  *)
(* two machines into a system cite these lemmas.                           *)
(***************************************************************************)
EXTENDS BitsReceiverEngine, BitsTransmitterSession, FiniteSetTheorems,
        WellFoundedInduction, TLAPS

(* The receiver engine.                                                    *)

(* What holds of an engine at rest.                                        *)
EngineInv(e) ==
  /\ e \in Engines
  /\ GrantIsBacked(e)
  /\ DeliveredOnce(e)
  /\ EndedOnce(e)
  /\ CompleteWhenWhole(e)

(* A message as the engine reads it: the fields the handler of its type    *)
(* uses have their types.                                                  *)
Readable(m) ==
  /\ m.type = "Setup" => m.setup \in Setups
  /\ m.type = "Segment" => m.segment_index \in Nat

(* The fields an ACK is made of are those of another engine.               *)
SameView(e, f) ==
  /\ f.setup = e.setup
  /\ f.contiguous_count = e.contiguous_count
  /\ f.granted_end = e.granted_end
  /\ f.receive_bitmap = e.receive_bitmap
  /\ f.accepted = e.accepted

(* The transfer went on: nothing it had granted or delivered is taken back.*)
Progressed(e, f) ==
  /\ f.setup = e.setup
  /\ f.contiguous_count >= e.contiguous_count
  /\ f.granted_end >= e.granted_end
  /\ e.accepted \subseteq f.accepted

(* An answer speaks for the engine that the call leaves behind.            *)
Answered(o) == \A a \in o.out : a.type = "Ack" => a = CurrentAck(o.engine)

(* The call left the transfer as it was, or ended it where it stood.       *)
Kept(e, o) ==
  /\ Answered(o)
  /\ SameView(e, o.engine)
  /\ o.engine.state = e.state \/ e.state = "Active"

(* One call of the engine: the transfer is left alone or ended, or an      *)
(* active one goes on, or one that is over gives way to a requested one.   *)
CallStep(e, m, o) ==
  \/ Kept(e, o)
  \/ e.state = "Active" /\ Answered(o) /\ Progressed(e, o.engine)
  \/ /\ e.state # "Active" /\ Answered(o) /\ m.type = "Setup"
     /\ o.engine.state \in {"Active", "Error"}
     /\ o.engine.setup = m.setup /\ o.engine.accepted = {}

-----------------------------------------------------------------------------
(* Every nonempty set of naturals has a least member.                      *)
LEMMA LeastNatural ==
  ASSUME NEW S, S \subseteq Nat, S # {}
  PROVE  \E n \in S : \A m \in S : n <= m
<1>1. PICK n \in S : \A m \in S : <<m, n>> \notin OpToRel(<, Nat)
  BY WFMin, NatLessThanWellFounded
<1>2. \A m \in S : ~(m < n)
  BY <1>1 DEF OpToRel
<1>3. QED
  BY <1>2

(* The bitmap has a first gap, at the end of the window at the latest.     *)
LEMMA ContiguousRunGap ==
  ASSUME NEW bitmap \in SUBSET Offsets
  PROVE  /\ ContiguousRun(bitmap) \in 0 .. kCompactWindowWidth
         /\ ContiguousRun(bitmap) \notin bitmap
         /\ \A offset \in 0 .. (ContiguousRun(bitmap) - 1) : offset \in bitmap
<1> DEFINE Gaps == {n \in 0 .. kCompactWindowWidth : n \notin bitmap}
<1>1. Gaps \subseteq Nat /\ kCompactWindowWidth \in Gaps
  BY WidthAssumption DEF Offsets
<1>2. PICK n \in Gaps : \A m \in Gaps : n <= m
  <2> HIDE DEF Gaps
  <2> QED BY <1>1, LeastNatural
<1>3. \A offset \in 0 .. (n - 1) : offset \in bitmap
  BY <1>2, WidthAssumption
<1>4. \E k \in 0 .. kCompactWindowWidth :
        /\ k \notin bitmap
        /\ \A offset \in 0 .. (k - 1) : offset \in bitmap
  BY <1>2, <1>3
<1>5. QED
  BY <1>4 DEF ContiguousRun

(* A part of the window can be counted.                                    *)
LEMMA WindowCount ==
  ASSUME NEW bitmap \in SUBSET Offsets
  PROVE  Cardinality(bitmap) \in Nat
<1>1. IsFiniteSet(Offsets)
  BY FS_Interval, WidthAssumption DEF Offsets
<1>2. QED
  BY <1>1, FS_Subset, FS_CardinalityType

-----------------------------------------------------------------------------
(* Division with remainder by a positive number.                           *)
LEMMA ModDivides ==
  ASSUME NEW M \in Nat \ {0}, NEW x \in Int
  PROVE  \E q \in Int, r \in 0 .. (M - 1) : x = q * M + r /\ x % M = r
<1>1. x \div M \in Int /\ x % M \in 0 .. (M - 1)
  OBVIOUS
<1>2. PICK q \in Int, r \in 0 .. (M - 1) : q = x \div M /\ r = x % M
  BY <1>1
<1>3. x = q * M + r
  BY <1>2
<1>4. QED
  BY <1>2, <1>3

(* The remainder is the only one.                                          *)
LEMMA ModUnique ==
  ASSUME NEW M \in Nat \ {0}, NEW q \in Int, NEW r \in 0 .. (M - 1)
  PROVE  (q * M + r) % M = r
OBVIOUS

(* Less than one turn of the sequence numbers apart, two positions are as  *)
(* far apart as their wrapped sequence numbers say.                        *)
LEMMA ModDistance ==
  ASSUME NEW M \in Nat \ {0}, NEW x \in Int, NEW y \in Int,
         y - x \in 0 .. (M - 1),
         NEW from, from = x % M, NEW to, to = y % M
  PROVE  (to - from) % M = y - x
<1>1. PICK q1 \in Int, r1 \in 0 .. (M - 1) : x = q1 * M + r1 /\ x % M = r1
  BY ModDivides
<1>2. PICK q2 \in Int, r2 \in 0 .. (M - 1) : y = q2 * M + r2 /\ y % M = r2
  BY ModDivides
<1>3. PICK q \in Int : q = q1 - q2
  OBVIOUS
<1>4. q * M = q1 * M - q2 * M
  BY <1>3
<1>5. PICK d \in 0 .. (M - 1) : d = y - x
  OBVIOUS
<1>6. r2 - r1 = q * M + d
  BY <1>1, <1>2, <1>4, <1>5
<1>7. from = r1 /\ to = r2
  BY <1>1, <1>2
<1>8. (q * M + d) % M = d
  BY ModUnique
<1>9. QED
  BY <1>5, <1>6, <1>7, <1>8

-----------------------------------------------------------------------------
(* updateGrant() only raises the grant, and keeps it inside the object and *)
(* the window.                                                             *)
LEMMA UpdateGrantBacked ==
  ASSUME NEW e \in Engines,
         e.contiguous_count <= e.granted_end,
         e.granted_end <= e.segment_count,
         e.granted_end <= e.contiguous_count + ReceiveWindowWidth
  PROVE  \E end \in Nat :
           /\ UpdateGrant(e) = [e EXCEPT !.granted_end = end]
           /\ e.granted_end <= end
           /\ end <= e.segment_count
           /\ end <= e.contiguous_count + ReceiveWindowWidth
<1> DEFINE span == e.granted_end - e.contiguous_count
           unreceived == span - Cardinality(e.receive_bitmap \cap lowBitMask(span))
           room == Lesser(e.segment_count - e.granted_end,
                          Lesser(ReceiveWindowWidth - span,
                                 ReceiveWindowWidth - unreceived))
           end == IF room > 0 THEN e.granted_end + room ELSE e.granted_end
<1>1. /\ e.granted_end \in Nat /\ e.contiguous_count \in Nat
      /\ e.segment_count \in Nat /\ ReceiveWindowWidth \in Nat
  BY ReceiveWidthAssumption, WidthAssumption DEF Engines
<1>2. unreceived \in Int
  <2>1. e.receive_bitmap \cap lowBitMask(span) \in SUBSET Offsets
    BY DEF lowBitMask
  <2>2. Cardinality(e.receive_bitmap \cap lowBitMask(span)) \in Nat
    BY <2>1, WindowCount
  <2>3. QED BY <1>1, <2>2
<1>3. /\ room \in Int
      /\ room <= e.segment_count - e.granted_end
      /\ room <= ReceiveWindowWidth - span
  <2> HIDE DEF unreceived
  <2> QED BY <1>1, <1>2 DEF Lesser
<1>4. UpdateGrant(e) = [e EXCEPT !.granted_end = end]
  BY DEF UpdateGrant
<1>5. /\ end \in Nat /\ e.granted_end <= end
      /\ end <= e.segment_count
      /\ end <= e.contiguous_count + ReceiveWindowWidth
  <2> HIDE DEF room
  <2> QED BY <1>1, <1>3
<1>6. QED
  <2> HIDE DEF end
  <2> QED BY <1>4, <1>5

(* Sliding the window over an accepted segment: the new prefix stays       *)
(* inside the grant, what is left of the window starts at a gap, and the   *)
(* segments taken by the sink are those the window says.                   *)
LEMMA SlideKeeps ==
  ASSUME NEW e, EngineInv(e), e.state = "Active",
         NEW index \in Nat, Acceptable(e, index)
  PROVE  LET s == Slide(e, index)
         IN  /\ s \in Engines
             /\ s.state = "Active" /\ s.ended = 0
             /\ s.segment_count = e.segment_count
             /\ GrantIsBacked(s)
             /\ DeliveredOnce(s)
             /\ Progressed(e, s)
<1> DEFINE c == e.contiguous_count
           bitmap == e.receive_bitmap \cup {index - c}
           run == ContiguousRun(bitmap)
           shifted == ShiftRight(bitmap, run)
           s == Slide(e, index)
<1>1. /\ e \in Engines /\ c \in Nat /\ e.granted_end \in Nat
      /\ e.segment_count \in Nat /\ e.receive_bitmap \in SUBSET Offsets
      /\ ReceiveWindowWidth \in Nat /\ kCompactWindowWidth \in Nat
      /\ ReceiveWindowWidth <= kCompactWindowWidth
  BY ReceiveWidthAssumption, WidthAssumption DEF EngineInv, Engines
<1>2. /\ index - c \in Offsets /\ c <= index /\ index < e.granted_end
      /\ index - c \notin e.receive_bitmap
  BY <1>1 DEF Acceptable, Offsets
<1>3. bitmap \in SUBSET Offsets
  BY <1>1, <1>2
<1>4. /\ run \in 0 .. kCompactWindowWidth /\ run \notin bitmap
      /\ \A offset \in 0 .. (run - 1) : offset \in bitmap
  <2> HIDE DEF bitmap
  <2> QED BY <1>3, ContiguousRunGap
<1>5. shifted \in SUBSET Offsets
  BY DEF ShiftRight
<1>6. /\ e.accepted \subseteq Nat /\ e.deliveries \subseteq Nat \X Nat
      /\ e.setup.session_id \in Nat /\ e.repeated = {}
      /\ e.accepted = {i \in 0 .. (e.segment_count - 1) :
                         i < c \/ i - c \in e.receive_bitmap}
      /\ c <= e.granted_end /\ e.granted_end <= e.segment_count
      /\ e.granted_end <= c + ReceiveWindowWidth
      /\ \A offset \in e.receive_bitmap : offset > 0 /\ c + offset < e.granted_end
  BY DEF EngineInv, Engines, Setups, DeliveredOnce, GrantIsBacked
<1>7. index \notin e.accepted
  BY <1>1, <1>2, <1>6
<1>8. s = [e EXCEPT !.receive_bitmap = shifted,
                    !.contiguous_count = c + run,
                    !.accepted = e.accepted \cup {index},
                    !.repeated = {},
                    !.deliveries = e.deliveries \cup {<<e.setup.session_id, index>>}]
  BY <1>6, <1>7 DEF Slide
<1>9. /\ s.receive_bitmap = shifted /\ s.contiguous_count = c + run
      /\ s.accepted = e.accepted \cup {index} /\ s.repeated = {}
      /\ s.deliveries = e.deliveries \cup {<<e.setup.session_id, index>>}
      /\ s.granted_end = e.granted_end /\ s.segment_count = e.segment_count
      /\ s.state = e.state /\ s.ended = e.ended /\ s.setup = e.setup
  <2> HIDE DEF shifted, run
  <2> QED BY <1>1, <1>8 DEF Engines
<1>10. s \in Engines
  <2> HIDE DEF shifted, run, s
  <2>1. /\ c + run \in Nat
        /\ e.accepted \cup {index} \in SUBSET Nat
        /\ e.deliveries \cup {<<e.setup.session_id, index>>} \in SUBSET (Nat \X Nat)
    BY <1>1, <1>4, <1>6
  <2>2. QED BY <1>1, <1>5, <1>8, <2>1 DEF Engines
<1>11. GrantIsBacked(s)
  <2> HIDE DEF run, s
  <2>1. \A offset \in bitmap : c + offset < e.granted_end
    BY <1>1, <1>2, <1>6
  <2>2. c + run <= e.granted_end
    BY <1>1, <1>4, <1>6, <2>1
  <2>3. \A offset \in shifted : offset > 0 /\ c + run + offset < e.granted_end
    BY <1>1, <1>4, <2>1 DEF ShiftRight, Offsets
  <2>4. QED
    <3> HIDE DEF shifted
    <3> QED BY <1>1, <1>4, <1>6, <1>9, <2>2, <2>3 DEF GrantIsBacked
<1>12. DeliveredOnce(s)
  <2> HIDE DEF s
  <2>1. ASSUME NEW i \in 0 .. (e.segment_count - 1)
        PROVE  (i < c + run \/ i - (c + run) \in shifted)
                 <=> (i < c \/ i - c \in bitmap)
    <3> HIDE DEF bitmap, run
    <3>1. CASE i < c
      BY <3>1, <1>1, <1>4
    <3>2. CASE i >= c /\ i < c + run
      BY <3>2, <1>1, <1>4
    <3>3. CASE i >= c + run
      <4>1. (i - c) - run = i - (c + run) /\ i - (c + run) >= 0
        BY <3>3, <1>1, <1>4
      <4>2. i - c \in bitmap => i - (c + run) \in shifted
        BY <4>1, <3>3, <1>1, <1>3, <1>4 DEF ShiftRight, Offsets
      <4>3. i - (c + run) \in shifted => i - c \in bitmap
        BY <4>1, <3>3, <1>1, <1>4 DEF ShiftRight
      <4>4. QED BY <4>2, <4>3, <3>3, <1>1, <1>4
    <3>4. QED BY <3>1, <3>2, <3>3, <1>1, <1>4
  <2>2. e.accepted \cup {index}
          = {i \in 0 .. (e.segment_count - 1) : i < c \/ i - c \in bitmap}
    BY <1>1, <1>2, <1>6
  <2>3. e.accepted \cup {index}
          = {i \in 0 .. (e.segment_count - 1) :
               i < c + run \/ i - (c + run) \in shifted}
    <3> HIDE DEF bitmap, run, shifted
    <3> QED BY <2>1, <2>2
  <2>4. QED
    <3> HIDE DEF shifted, run
    <3> QED BY <1>9, <2>3 DEF DeliveredOnce
<1>13. e.ended = 0
  BY DEF EngineInv, EndedOnce
<1>14. Progressed(e, s)
  <2> HIDE DEF s, run
  <2> QED BY <1>1, <1>4, <1>9 DEF Progressed
<1>15. QED
  BY <1>9, <1>10, <1>11, <1>12, <1>13, <1>14

(* An engine whose grant alone was raised, inside the object and the       *)
(* window, keeps its window and its sink.                                  *)
LEMMA RaisedGrantKeeps ==
  ASSUME NEW e \in Engines, GrantIsBacked(e), DeliveredOnce(e),
         NEW end \in Nat, e.granted_end <= end, end <= e.segment_count,
         end <= e.contiguous_count + ReceiveWindowWidth
  PROVE  LET r == [e EXCEPT !.granted_end = end]
         IN  /\ r \in Engines /\ GrantIsBacked(r) /\ DeliveredOnce(r)
             /\ r.state = e.state /\ r.ended = e.ended
             /\ r.segment_count = e.segment_count
             /\ r.contiguous_count = e.contiguous_count
             /\ r.setup = e.setup /\ r.granted_end = end
             /\ r.accepted = e.accepted
<1> DEFINE r == [e EXCEPT !.granted_end = end]
<1>1. /\ r \in Engines /\ r.granted_end = end /\ r.setup = e.setup
      /\ r.state = e.state /\ r.ended = e.ended
      /\ r.segment_count = e.segment_count
      /\ r.contiguous_count = e.contiguous_count
      /\ r.receive_bitmap = e.receive_bitmap
      /\ r.accepted = e.accepted /\ r.repeated = e.repeated
  BY DEF Engines
<1>2. /\ e.granted_end \in Nat /\ e.contiguous_count \in Nat
      /\ e.segment_count \in Nat /\ e.receive_bitmap \subseteq Nat
  BY WidthAssumption DEF Engines, Offsets
<1> HIDE DEF r
<1>3. GrantIsBacked(r)
  BY <1>1, <1>2 DEF GrantIsBacked
<1>4. DeliveredOnce(r)
  BY <1>1 DEF DeliveredOnce
<1>5. QED
  BY <1>1, <1>3, <1>4 DEF r

(* fail() preserves the invariants, and leaves no transfer active.         *)
LEMMA FailKeeps ==
  ASSUME NEW e, EngineInv(e)
  PROVE  /\ EngineInv(Fail(e)) /\ SameView(e, Fail(e))
         /\ IF e.state = "Active" THEN Fail(e).state = "Error" ELSE Fail(e) = e
<1>1. CASE e.state = "Active"
  <2> DEFINE f == [e EXCEPT !.state = "Error", !.ended = 1]
  <2>1. e \in Engines /\ e.ended = 0
    BY <1>1 DEF EngineInv, EndedOnce
  <2>2. /\ f \in Engines /\ f.state = "Error" /\ f.ended = 1
        /\ f.segment_count = e.segment_count /\ f.granted_end = e.granted_end
        /\ f.contiguous_count = e.contiguous_count
        /\ f.receive_bitmap = e.receive_bitmap
        /\ f.accepted = e.accepted /\ f.repeated = e.repeated
        /\ f.setup = e.setup
    BY <2>1 DEF Engines, ReceiverStates
  <2>3. Fail(e) = f
    BY <1>1, <2>1 DEF Fail
  <2> HIDE DEF f
  <2>4. EngineInv(f)
    BY <2>2 DEF EngineInv, GrantIsBacked, DeliveredOnce, EndedOnce, CompleteWhenWhole
  <2>5. QED BY <1>1, <2>2, <2>3, <2>4 DEF SameView
<1>2. CASE e.state # "Active"
  BY <1>2 DEF Fail, SameView
<1>3. QED
  BY <1>1, <1>2

(* Whatever the Link answers, sending leaves one of the two engines the    *)
(* sender chose, and takes at most the message it was given.               *)
LEMMA SendKeeps ==
  ASSUME NEW e, NEW failed, NEW message, EngineInv(e), EngineInv(failed),
         NEW o \in Send(e, message, failed)
  PROVE  /\ EngineInv(o.engine)
         /\ o.engine \in {e, failed} /\ o.out \subseteq {message}
BY DEF Send, Outcome

(* An engine that says nothing is left as it was given.                    *)
LEMMA SilentKeeps ==
  ASSUME NEW e, EngineInv(e), NEW o \in Silent(e)
  PROVE  EngineInv(o.engine) /\ o.engine = e /\ Answered(o)
BY DEF Silent, Outcome, Answered

(* An engine that stands where another stood would send the same ACK.      *)
LEMMA SameViewSameAck ==
  ASSUME NEW e, NEW f, SameView(e, f)
  PROVE  CurrentAck(f) = CurrentAck(e)
BY DEF SameView, CurrentAck

(* An engine that stands where another stood has taken nothing back.       *)
LEMMA SameViewProgressed ==
  ASSUME NEW e, EngineInv(e), NEW f, SameView(e, f)
  PROVE  Progressed(e, f)
<1>1. e.contiguous_count \in Nat /\ e.granted_end \in Nat
  BY DEF EngineInv, Engines
<1>2. QED
  BY <1>1 DEF SameView, Progressed

(* sendAck() ends an active transfer at most, and what it says is true of  *)
(* the engine it leaves, a failed one included.                            *)
LEMMA SendAckKeeps ==
  ASSUME NEW e, EngineInv(e), NEW o \in sendAck(e)
  PROVE  /\ EngineInv(o.engine) /\ Kept(e, o)
         /\ o.engine.state \in {e.state, "Error"}
<1>1. /\ EngineInv(Fail(e)) /\ SameView(e, Fail(e))
      /\ IF e.state = "Active" THEN Fail(e).state = "Error" ELSE Fail(e) = e
  BY FailKeeps
<1>2. /\ EngineInv(o.engine)
      /\ o.engine \in {e, Fail(e)} /\ o.out \subseteq {CurrentAck(e)}
  BY <1>1, SendKeeps DEF sendAck
<1>3. SameView(e, o.engine)
  BY <1>1, <1>2 DEF SameView
<1>4. CurrentAck(o.engine) = CurrentAck(e)
  BY <1>3, SameViewSameAck
<1>5. Answered(o)
  BY <1>2, <1>4 DEF Answered
<1>6. QED
  BY <1>1, <1>2, <1>3, <1>5 DEF Kept

(* sendReject() leaves the engine alone.                                   *)
LEMMA SendRejectKeeps ==
  ASSUME NEW e, EngineInv(e), NEW session, NEW reason,
         NEW o \in sendReject(e, session, reason)
  PROVE  EngineInv(o.engine) /\ Kept(e, o)
<1>1. /\ EngineInv(o.engine)
      /\ o.engine = e /\ o.out \subseteq {RejectMessage(session, reason)}
  BY SendKeeps DEF sendReject
<1>2. Answered(o)
  BY <1>1 DEF Answered, RejectMessage
<1>3. QED
  BY <1>1, <1>2 DEF Kept, SameView

(* Stamping the clock touches nothing the invariants read.                 *)
LEMMA ExpiryKeeps ==
  ASSUME NEW e, EngineInv(e), NEW flag \in BOOLEAN
  PROVE  LET r == [e EXCEPT !.expired = flag]
         IN  /\ EngineInv(r) /\ r.state = e.state
             /\ r.contiguous_count = e.contiguous_count
             /\ r.granted_end = e.granted_end
             /\ r.receive_bitmap = e.receive_bitmap
             /\ SameView(e, r)
<1> DEFINE r == [e EXCEPT !.expired = flag]
<1>1. e \in Engines
  BY DEF EngineInv
<1>2. /\ r \in Engines /\ r.state = e.state /\ r.ended = e.ended
      /\ r.segment_count = e.segment_count /\ r.granted_end = e.granted_end
      /\ r.contiguous_count = e.contiguous_count
      /\ r.receive_bitmap = e.receive_bitmap
      /\ r.accepted = e.accepted /\ r.repeated = e.repeated
      /\ r.setup = e.setup
  BY <1>1 DEF Engines
<1> HIDE DEF r
<1>3. EngineInv(r)
  BY <1>2 DEF EngineInv, GrantIsBacked, DeliveredOnce, EndedOnce, CompleteWhenWhole
<1>4. QED
  BY <1>2, <1>3 DEF r, SameView

-----------------------------------------------------------------------------
(* A segment the sink took: slide, grant and complete together preserve    *)
(* the invariants.                                                         *)
LEMMA AcceptKeeps ==
  ASSUME NEW e, EngineInv(e), e.state = "Active",
         NEW index \in Nat, Acceptable(e, index),
         NEW next \in Accept(e, index)
  PROVE  EngineInv(next) /\ Progressed(e, next)
<1> DEFINE s == Slide(e, index)
           g == UpdateGrant(s)
<1>1. /\ s \in Engines /\ s.state = "Active" /\ s.ended = 0
      /\ GrantIsBacked(s) /\ DeliveredOnce(s) /\ Progressed(e, s)
  BY SlideKeeps
<1>2. next = Complete(g)
  BY DEF Accept
<1> HIDE DEF s
<1>3. PICK end \in Nat :
        /\ g = [s EXCEPT !.granted_end = end]
        /\ s.granted_end <= end /\ end <= s.segment_count
        /\ end <= s.contiguous_count + ReceiveWindowWidth
  BY <1>1, UpdateGrantBacked DEF GrantIsBacked
<1>4. /\ g \in Engines /\ GrantIsBacked(g) /\ DeliveredOnce(g)
      /\ g.state = "Active" /\ g.ended = 0
      /\ g.setup = s.setup /\ g.contiguous_count = s.contiguous_count
      /\ g.granted_end = end /\ g.accepted = s.accepted
  BY <1>1, <1>3, RaisedGrantKeeps
<1> DEFINE Fields(x) == /\ x.granted_end \in Nat /\ x.contiguous_count \in Nat
<1>p. Progressed(e, g)
  <2>1. Fields(e) /\ Fields(s)
    BY <1>1 DEF EngineInv, Engines
  <2>2. QED BY <1>1, <1>3, <1>4, <2>1 DEF Progressed
<1> HIDE DEF g
<1>5. CASE g.contiguous_count = g.segment_count
  <2> DEFINE d == [g EXCEPT !.state = "Completed", !.ended = 1,
                            !.completions = g.completions \cup {g.setup.session_id}]
  <2>1. next = d
    BY <1>2, <1>4, <1>5 DEF Complete
  <2>2. g.completions \cup {g.setup.session_id} \in SUBSET Nat
    BY <1>4 DEF Engines, Setups
  <2>3. /\ d \in Engines /\ d.state = "Completed" /\ d.ended = 1
        /\ d.segment_count = g.segment_count /\ d.granted_end = g.granted_end
        /\ d.contiguous_count = g.contiguous_count
        /\ d.receive_bitmap = g.receive_bitmap
        /\ d.accepted = g.accepted /\ d.repeated = g.repeated
        /\ d.setup = g.setup
    BY <1>4, <2>2 DEF Engines, ReceiverStates
  <2> HIDE DEF d
  <2>4. EngineInv(next)
    BY <1>4, <1>5, <2>1, <2>3
    DEF EngineInv, GrantIsBacked, DeliveredOnce, EndedOnce, CompleteWhenWhole
  <2>5. QED BY <1>p, <2>1, <2>3, <2>4 DEF Progressed
<1>6. CASE g.contiguous_count # g.segment_count
  <2>1. next = g
    BY <1>2, <1>6 DEF Complete
  <2>2. g.contiguous_count < g.segment_count
    BY <1>4, <1>6 DEF Engines, GrantIsBacked
  <2>3. QED
    BY <1>4, <1>p, <2>1, <2>2 DEF EngineInv, EndedOnce, CompleteWhenWhole
<1>7. QED
  BY <1>5, <1>6

(* The engine with its clock stamped by a segment inside the grant.        *)
Renewed(e, m) ==
  [e EXCEPT !.expired = IF m.segment_index < e.granted_end THEN FALSE ELSE @]

(* handleSegment() drops the segment, answers it again, or gives it to the *)
(* sink, which takes it or fails the transfer.                             *)
LEMMA SegmentCases ==
  ASSUME NEW e, NEW m, NEW o \in handleSegment(e, m)
  PROVE  \/ o \in Silent(e)
         \/ /\ e.state \in {"Active", "Completed"}
            /\ o \in sendAck(Renewed(e, m))
         \/ /\ e.state \in {"Active", "Completed"}
            /\ Acceptable(e, m.segment_index)
            /\ \E taken \in SinkResults, next \in Accept(Renewed(e, m), m.segment_index) :
                 o \in IF taken THEN sendAck(next) ELSE Silent(Fail(Renewed(e, m)))
<1> DEFINE answers == UNION {IF taken THEN sendAck(next) ELSE Silent(Fail(Renewed(e, m)))
                               : taken \in SinkResults,
                                 next \in Accept(Renewed(e, m), m.segment_index)}
           stray == \/ e.state \notin {"Active", "Completed"}
                    \/ m.session_id # e.setup.session_id
                    \/ m.segment_index >= e.segment_count
                    \/ m.size # SegmentSize(e.setup, m.segment_index)
<1>1. handleSegment(e, m) = IF stray THEN Silent(e)
                            ELSE IF ~Acceptable(e, m.segment_index)
                            THEN sendAck(Renewed(e, m)) ELSE answers
  BY DEF handleSegment, Renewed
<1>2. ~stray => e.state \in {"Active", "Completed"}
  BY Zenon
<1>3. o \in answers =>
        \E taken \in SinkResults, next \in Accept(Renewed(e, m), m.segment_index) :
           o \in IF taken THEN sendAck(next) ELSE Silent(Fail(Renewed(e, m)))
  OBVIOUS
<1> HIDE DEF answers, stray
<1>4. QED
  BY <1>1, <1>2, <1>3

(* handleSegment() preserves the invariants, and an active transfer goes   *)
(* on or is left where it was.                                             *)
LEMMA HandleSegmentKeeps ==
  ASSUME NEW e, EngineInv(e), NEW m, m.segment_index \in Nat,
         NEW o \in handleSegment(e, m)
  PROVE  EngineInv(o.engine) /\ CallStep(e, m, o)
<1> DEFINE flag == IF m.segment_index < e.granted_end THEN FALSE ELSE e.expired
           renewed == Renewed(e, m)
<1>1. flag \in BOOLEAN
  BY DEF EngineInv, Engines
<1>2. /\ EngineInv(renewed) /\ renewed.state = e.state
      /\ renewed.contiguous_count = e.contiguous_count
      /\ renewed.granted_end = e.granted_end
      /\ renewed.receive_bitmap = e.receive_bitmap
      /\ SameView(e, renewed)
  <2>1. renewed = [e EXCEPT !.expired = flag]
    BY DEF Renewed
  <2> HIDE DEF flag, renewed
  <2>2. QED BY <1>1, <2>1, ExpiryKeeps
<1>3. \/ o \in Silent(e)
      \/ o \in sendAck(renewed)
      \/ /\ e.state \in {"Active", "Completed"}
         /\ Acceptable(e, m.segment_index)
         /\ \E taken \in SinkResults, next \in Accept(renewed, m.segment_index) :
              o \in IF taken THEN sendAck(next) ELSE Silent(Fail(renewed))
  BY SegmentCases
<1> HIDE DEF renewed
<1>4. CASE o \in Silent(e)
  BY <1>4, SilentKeeps DEF CallStep, Kept, SameView
<1>5. CASE o \in sendAck(renewed)
  BY <1>2, <1>5, SendAckKeeps DEF CallStep, Kept, SameView
<1>6. ASSUME e.state \in {"Active", "Completed"},
             Acceptable(e, m.segment_index),
             NEW taken \in SinkResults,
             NEW next \in Accept(renewed, m.segment_index),
             o \in IF taken THEN sendAck(next) ELSE Silent(Fail(renewed))
      PROVE  EngineInv(o.engine) /\ CallStep(e, m, o)
  <2>1. renewed.state = "Active" /\ Acceptable(renewed, m.segment_index)
    BY <1>2, <1>6 DEF Acceptable
  <2>2. EngineInv(next) /\ Progressed(renewed, next)
    BY <1>2, <2>1, AcceptKeeps
  <2>3. EngineInv(Fail(renewed)) /\ SameView(renewed, Fail(renewed))
    BY <1>2, FailKeeps
  <2>4. CASE taken
    <3>1. EngineInv(o.engine) /\ Kept(next, o)
      BY <1>6, <2>2, <2>4, SendAckKeeps
    <3>2. Progressed(e, o.engine)
      BY <1>2, <2>2, <3>1 DEF Kept, SameView, Progressed
    <3>3. QED BY <1>2, <2>1, <3>1, <3>2 DEF CallStep, Kept
  <2>5. CASE ~taken
    <3>1. o.engine = Fail(renewed) /\ EngineInv(o.engine) /\ Answered(o)
      BY <1>6, <2>3, <2>5, SilentKeeps
    <3>2. QED BY <1>2, <2>1, <2>3, <3>1 DEF CallStep, Kept, SameView
  <2>6. QED
    BY <2>4, <2>5
<1>7. QED
  BY <1>3, <1>4, <1>5, <1>6

-----------------------------------------------------------------------------
(* A newly accepted transfer satisfies the invariants whatever the engine  *)
(* held before.                                                            *)
LEMMA BeginKeeps ==
  ASSUME NEW e, EngineInv(e), NEW requested \in Setups
  PROVE  /\ EngineInv(Begin(e, requested))
         /\ Begin(e, requested).state = "Active"
         /\ Begin(e, requested).setup = requested
         /\ Begin(e, requested).accepted = {}
<1> DEFINE count == requested.final_segment_index + 1
           b == [e EXCEPT !.state = "Active", !.setup = requested,
                          !.segment_count = count,
                          !.contiguous_count = 0, !.granted_end = 0,
                          !.receive_bitmap = {}, !.expired = FALSE,
                          !.accepted = {}, !.repeated = {}, !.ended = 0]
<1>1. count \in Nat /\ count > 0 /\ ReceiveWindowWidth \in Nat
  BY ReceiveWidthAssumption, WidthAssumption DEF Setups
<1>2. Begin(e, requested) = UpdateGrant(b)
  BY DEF Begin, setupSegmentCount
<1>3. /\ b \in Engines /\ b.state = "Active" /\ b.segment_count = count
      /\ b.contiguous_count = 0 /\ b.granted_end = 0 /\ b.receive_bitmap = {}
      /\ b.accepted = {} /\ b.repeated = {} /\ b.ended = 0
      /\ b.setup = requested
  <2> HIDE DEF count
  <2>1. e \in Engines
    BY DEF EngineInv
  <2>2. QED BY <1>1, <2>1 DEF Engines, ReceiverStates
<1> HIDE DEF b, count
<1>4. GrantIsBacked(b) /\ DeliveredOnce(b)
  BY <1>1, <1>3 DEF GrantIsBacked, DeliveredOnce
<1>5. PICK end \in Nat :
        /\ UpdateGrant(b) = [b EXCEPT !.granted_end = end]
        /\ b.granted_end <= end /\ end <= b.segment_count
        /\ end <= b.contiguous_count + ReceiveWindowWidth
  BY <1>3, <1>4, UpdateGrantBacked DEF GrantIsBacked
<1> DEFINE r == UpdateGrant(b)
<1>6. /\ r \in Engines /\ GrantIsBacked(r) /\ DeliveredOnce(r)
      /\ r.state = "Active" /\ r.ended = 0 /\ r.segment_count = count
      /\ r.contiguous_count = 0 /\ r.setup = requested /\ r.accepted = {}
  BY <1>3, <1>4, <1>5, RaisedGrantKeeps
<1> HIDE DEF r
<1>7. EngineInv(r)
  BY <1>1, <1>6 DEF EngineInv, EndedOnce, CompleteWhenWhole
<1>8. QED
  BY <1>2, <1>6, <1>7 DEF r

(* handleSetup() refuses, answers its own transfer again, or begins one.   *)
LEMMA SetupCases ==
  ASSUME NEW e, NEW requested, NEW o \in handleSetup(e, requested)
  PROVE  \/ \E reason : o \in sendReject(e, requested.session_id, reason)
         \/ e.state = "Active" /\ o \in sendAck([e EXCEPT !.expired = FALSE])
         \/ e.state # "Active" /\ o \in sendAck(Begin(e, requested))
<1>1. CASE SetupRefusal(requested) # "None"
  BY <1>1 DEF handleSetup
<1>2. CASE SetupRefusal(requested) = "None" /\ e.state = "Active"
  BY <1>2 DEF handleSetup
<1>3. CASE SetupRefusal(requested) = "None" /\ e.state # "Active"
  <2>1. \E admission \in Admissions :
          o \in IF admission = "Accepted" THEN sendAck(Begin(e, requested))
                ELSE sendReject(e, requested.session_id, AdmissionReason(admission))
    BY <1>3 DEF handleSetup
  <2>2. QED BY <1>3, <2>1
<1>4. QED BY <1>1, <1>2, <1>3

(* handleSetup() preserves the invariants, and replaces only a transfer    *)
(* that is not active.                                                     *)
LEMMA HandleSetupKeeps ==
  ASSUME NEW e, EngineInv(e), NEW m, m.type = "Setup", m.setup \in Setups,
         NEW o \in handleSetup(e, m.setup)
  PROVE  EngineInv(o.engine) /\ CallStep(e, m, o)
<1> DEFINE requested == m.setup
           renewed == [e EXCEPT !.expired = FALSE]
           begun == Begin(e, requested)
<1>1. \/ \E reason : o \in sendReject(e, requested.session_id, reason)
      \/ o \in sendAck(renewed)
      \/ e.state # "Active" /\ o \in sendAck(begun)
  BY SetupCases
<1>2. EngineInv(renewed) /\ renewed.state = e.state /\ SameView(e, renewed)
  BY ExpiryKeeps
<1>3. /\ EngineInv(begun) /\ begun.state = "Active"
      /\ begun.setup = requested /\ begun.accepted = {}
  BY BeginKeeps
<1> HIDE DEF renewed, begun
<1>4. CASE \E reason : o \in sendReject(e, requested.session_id, reason)
  BY <1>4, SendRejectKeeps DEF CallStep
<1>5. CASE o \in sendAck(renewed)
  BY <1>2, <1>5, SendAckKeeps DEF CallStep, Kept, SameView
<1>6. CASE e.state # "Active" /\ o \in sendAck(begun)
  <2>1. /\ EngineInv(o.engine) /\ Kept(begun, o)
        /\ o.engine.state \in {"Active", "Error"}
    BY <1>3, <1>6, SendAckKeeps
  <2>2. QED BY <1>3, <1>6, <2>1 DEF CallStep, Kept, SameView
<1>7. QED
  BY <1>1, <1>4, <1>5, <1>6

(* handleProbe() restamps the clock and answers.                           *)
LEMMA HandleProbeKeeps ==
  ASSUME NEW e, EngineInv(e), NEW m, NEW o \in handleProbe(e, m)
  PROVE  EngineInv(o.engine) /\ CallStep(e, m, o)
<1> DEFINE renewed == [e EXCEPT !.expired = FALSE]
<1>1. EngineInv(renewed) /\ renewed.state = e.state /\ SameView(e, renewed)
  BY ExpiryKeeps
<1>2. o \in Silent(e) \/ o \in sendAck(renewed)
  BY DEF handleProbe
<1> HIDE DEF renewed
<1>3. CASE o \in Silent(e)
  BY <1>3, SilentKeeps DEF CallStep, Kept, SameView
<1>4. CASE o \in sendAck(renewed)
  BY <1>1, <1>4, SendAckKeeps DEF CallStep, Kept, SameView
<1>5. QED
  BY <1>2, <1>3, <1>4

(* Ending an active transfer by an abort, from either side.                *)
LEMMA AbortedKeeps ==
  ASSUME NEW e, EngineInv(e), e.state = "Active"
  PROVE  LET r == [e EXCEPT !.state = "Aborted", !.ended = @ + 1]
         IN  EngineInv(r) /\ SameView(e, r)
<1> DEFINE a == [e EXCEPT !.state = "Aborted", !.ended = 1]
<1>1. e \in Engines /\ e.ended = 0
  BY DEF EngineInv, EndedOnce
<1>2. /\ a \in Engines /\ a.state = "Aborted" /\ a.ended = 1
      /\ a.segment_count = e.segment_count /\ a.granted_end = e.granted_end
      /\ a.contiguous_count = e.contiguous_count
      /\ a.receive_bitmap = e.receive_bitmap
      /\ a.accepted = e.accepted /\ a.repeated = e.repeated
      /\ a.setup = e.setup
  BY <1>1 DEF Engines, ReceiverStates
<1>3. [e EXCEPT !.state = "Aborted", !.ended = @ + 1] = a
  BY <1>1
<1> HIDE DEF a
<1>4. EngineInv(a)
  BY <1>2 DEF EngineInv, GrantIsBacked, DeliveredOnce, EndedOnce, CompleteWhenWhole
<1>5. QED
  BY <1>2, <1>3, <1>4 DEF SameView

(* handleAbort() ends an active transfer, and no other.                    *)
LEMMA HandleAbortKeeps ==
  ASSUME NEW e, EngineInv(e), NEW m, NEW o \in handleAbort(e, m)
  PROVE  EngineInv(o.engine) /\ CallStep(e, m, o)
<1> DEFINE aborted == [e EXCEPT !.state = "Aborted", !.ended = @ + 1]
<1>1. o \in Silent(e) \/ (e.state = "Active" /\ o \in Silent(aborted))
  BY DEF handleAbort
<1>2. e.state = "Active" => EngineInv(aborted) /\ SameView(e, aborted)
  BY AbortedKeeps
<1> HIDE DEF aborted
<1>3. CASE o \in Silent(e)
  BY <1>3, SilentKeeps DEF CallStep, Kept, SameView
<1>4. CASE e.state = "Active" /\ o \in Silent(aborted)
  BY <1>2, <1>4, SilentKeeps DEF CallStep, Kept
<1>5. QED
  BY <1>1, <1>3, <1>4

-----------------------------------------------------------------------------
(* The engine's entry points preserve its invariants, for every message,   *)
(* every answer of the Link, the application and the sink.                 *)
LEMMA ProcessKeeps ==
  ASSUME NEW e, EngineInv(e), NEW m, Readable(m), NEW o \in EngineProcess(e, m)
  PROVE  EngineInv(o.engine) /\ CallStep(e, m, o)
<1>1. CASE Expired(e)
  <2>1. o \in Silent(Fail(e)) /\ e.state = "Active"
    BY <1>1 DEF EngineProcess, Expired
  <2>2. o.engine = Fail(e) /\ EngineInv(o.engine) /\ Answered(o)
    BY <2>1, FailKeeps, SilentKeeps
  <2>3. QED BY <2>1, <2>2, FailKeeps DEF CallStep, Kept
<1>2. CASE ~Expired(e)
  <2>1. o \in Handle(e, m)
    BY <1>2 DEF EngineProcess
  <2>2. CASE m.type = "Segment"
    BY <2>1, <2>2, HandleSegmentKeeps DEF Handle, Readable
  <2>3. CASE m.type = "Setup"
    BY <2>1, <2>3, HandleSetupKeeps DEF Handle, Readable
  <2>4. CASE m.type = "Probe"
    BY <2>1, <2>4, HandleProbeKeeps DEF Handle
  <2>5. CASE m.type = "Abort"
    BY <2>1, <2>5, HandleAbortKeeps DEF Handle
  <2>6. CASE m.type \notin {"Segment", "Setup", "Probe", "Abort"}
    <3>1. \/ o \in Silent(e)
          \/ o \in sendReject(e, m.session_id, "InvalidArgument")
      BY <2>1, <2>6 DEF Handle
    <3>2. QED
      BY <3>1, SendRejectKeeps, SilentKeeps DEF CallStep, Kept, SameView
  <2>7. QED BY <2>2, <2>3, <2>4, <2>5, <2>6
<1>3. QED
  BY <1>1, <1>2

(* poll() ends an expired transfer, and changes nothing else.              *)
LEMMA PollKeeps ==
  ASSUME NEW e, EngineInv(e)
  PROVE  EngineInv(poll(e)) /\ Kept(e, Outcome(poll(e), {}))
<1> DEFINE o == Outcome(poll(e), {})
<1>1. o.engine = poll(e) /\ Answered(o)
  BY DEF Outcome, Answered
<1>2. /\ EngineInv(poll(e)) /\ SameView(e, poll(e))
      /\ poll(e) = e \/ e.state = "Active"
  BY FailKeeps DEF poll, Expired, SameView
<1>3. QED
  BY <1>1, <1>2 DEF Kept

(* abort() ends an active transfer where it stands.                        *)
LEMMA EngineAbortKeeps ==
  ASSUME NEW e, EngineInv(e), e.state = "Active", NEW o \in EngineAbort(e)
  PROVE  EngineInv(o.engine) /\ Kept(e, o)
<1> DEFINE aborted == [e EXCEPT !.state = "Aborted", !.ended = @ + 1]
<1>1. EngineInv(aborted) /\ SameView(e, aborted)
  BY AbortedKeeps
<1>2. o \in Send(aborted, AbortMessage(e.setup.session_id), aborted)
  BY DEF EngineAbort
<1> HIDE DEF aborted
<1>3. /\ EngineInv(o.engine) /\ o.engine = aborted
      /\ o.out \subseteq {AbortMessage(e.setup.session_id)}
  BY <1>1, <1>2, SendKeeps
<1>4. Answered(o)
  BY <1>3 DEF Answered, AbortMessage
<1>5. QED
  BY <1>1, <1>3, <1>4 DEF Kept

(* What the ACK of an engine says is what its sink accepted and what its   *)
(* window can hold, also where the sequence numbers wrap.                  *)
LEMMA CurrentAckHonest ==
  ASSUME NEW e, EngineInv(e)
  PROVE  LET a == CurrentAck(e)
         IN  /\ a.session_id = e.setup.session_id
             /\ a.window_base = baseSequence(e.setup, e.contiguous_count)
             /\ 0 .. (e.contiguous_count - 1) \subseteq e.accepted
             /\ {e.contiguous_count + o : o \in a.window_bitmap} \subseteq e.accepted
             /\ SequenceDistance(a.window_base, a.max_receive_sequence)
                  = e.granted_end - e.contiguous_count
<1> DEFINE a == CurrentAck(e)
           c == e.contiguous_count
           g == e.granted_end
           isn == e.setup.initial_sequence_number
<1>1. /\ c \in Nat /\ g \in Nat /\ e.segment_count \in Nat
      /\ isn \in Int /\ e.receive_bitmap \subseteq Nat
  BY ModulusAssumption, WidthAssumption
  DEF EngineInv, Engines, Setups, SequenceNumbers, Offsets
<1>2. /\ c <= g /\ g <= e.segment_count /\ g <= c + ReceiveWindowWidth
      /\ \A offset \in e.receive_bitmap : c + offset < g
  BY DEF EngineInv, GrantIsBacked
<1>3. e.accepted = {i \in 0 .. (e.segment_count - 1) :
                      i < c \/ i - c \in e.receive_bitmap}
  BY DEF EngineInv, DeliveredOnce
<1>4. g - c \in 0 .. (SequenceModulus - 1)
  BY <1>1, <1>2, ReceiveWidthAssumption, WidthAssumption, ModulusAssumption,
     WindowFitsAssumption
<1>5. /\ a.session_id = e.setup.session_id
      /\ a.window_bitmap \subseteq e.receive_bitmap
      /\ a.window_base = (isn + c - 1) % SequenceModulus
      /\ a.max_receive_sequence = IF g > c THEN (isn + (g - 1)) % SequenceModulus
                                            ELSE a.window_base
  BY DEF CurrentAck, AckMessage, baseSequence, sequenceFor
<1> HIDE DEF a
<1>6. 0 .. (c - 1) \subseteq e.accepted
  BY <1>1, <1>2, <1>3
<1>7. {c + o : o \in a.window_bitmap} \subseteq e.accepted
  <2>1. ASSUME NEW o \in e.receive_bitmap
        PROVE  c + o \in e.accepted
    <3>1. o \in Nat /\ c + o \in 0 .. (e.segment_count - 1) /\ (c + o) - c = o
      BY <1>1, <1>2
    <3>2. QED BY <1>3, <3>1
  <2>2. QED BY <1>5, <2>1
<1>8. SequenceDistance(a.window_base, a.max_receive_sequence) = g - c
  <2> DEFINE x == isn + c - 1
             y == isn + g - 1
  <2>1. /\ x \in Int /\ y \in Int /\ y - x = g - c
        /\ isn + (g - 1) = y /\ (g = c => y = x)
    BY <1>1
  <2>2. a.window_base = x % SequenceModulus
    BY <1>5
  <2>3. a.max_receive_sequence = y % SequenceModulus
    <3> HIDE DEF x, y
    <3> QED BY <1>1, <1>2, <1>5, <2>1, <2>2
  <2>4. (a.max_receive_sequence - a.window_base) % SequenceModulus = y - x
    <3> HIDE DEF x, y
    <3> QED BY <1>4, <2>1, <2>2, <2>3, ModulusAssumption, ModDistance
  <2>5. QED BY <2>1, <2>4 DEF SequenceDistance
<1>9. a.window_base = baseSequence(e.setup, c)
  BY <1>5 DEF baseSequence
<1>10. QED
  BY <1>5, <1>6, <1>7, <1>8, <1>9 DEF a

(* The engine as its constructor leaves it.                                *)
LEMMA InitialEngineInv == EngineInv(InitialEngine)
<1>1. InitialEngine \in Engines
  <2>1. EmptySetup \in Setups
    BY ModulusAssumption DEF EmptySetup, Setups, SequenceNumbers
  <2>2. QED BY <2>1 DEF InitialEngine, Engines, ReceiverStates
<1>2. QED
  BY <1>1, ReceiveWidthAssumption, WidthAssumption
  DEF InitialEngine, EngineInv, GrantIsBacked, DeliveredOnce, EndedOnce, CompleteWhenWhole

-----------------------------------------------------------------------------
(* The transmitter's session.                                              *)

(* How often a Link took each segment, told by the window: segments before *)
(* it were taken within the budget, those sent in it once more than their  *)
(* retry counter says, and all others never.                               *)
AdmittedTold(t) ==
  /\ \A index \in SegmentIndices :
       index < t.acknowledged_count => t.admitted[index] \in 1 .. (1 + MaxRetries)
  /\ \A index \in SegmentIndices :
       (index >= t.acknowledged_count
          /\ index - t.acknowledged_count \notin t.sent_bitmap)
         => t.admitted[index] = 0
  /\ \A offset \in t.sent_bitmap :
       t.admitted[t.acknowledged_count + offset] = 1 + t.segment_retry_count[offset]

(* The inductive invariant of a session.                                   *)
SessionInv(t) ==
  /\ t \in Sessions
  /\ WithinGrant(t)
  /\ SessionEndedOnce(t)
  /\ t.segment_count <= MaximumSegments
  /\ t.state = "Completed" => t.acknowledged_count = t.segment_count
  /\ AdmittedTold(t)

(* A message as the session reads it.                                      *)
Answerable(m) ==
  m.type = "Ack" => /\ m.window_bitmap \in SUBSET Offsets
                    /\ m.window_base \in SequenceNumbers
                    /\ m.max_receive_sequence \in SequenceNumbers

(* The fields the window invariants read are those of another session.     *)
SameWindow(t, u) ==
  /\ u.segment_count = t.segment_count
  /\ u.acknowledged_count = t.acknowledged_count
  /\ u.granted_end = t.granted_end
  /\ u.sent_bitmap = t.sent_bitmap
  /\ u.acknowledged_bitmap = t.acknowledged_bitmap
  /\ u.segment_retry_count = t.segment_retry_count
  /\ u.admitted = t.admitted

(* What the peer has acknowledged and granted is as in another session.    *)
SameProgress(t, u) ==
  /\ u.acknowledged_count = t.acknowledged_count
  /\ u.granted_end = t.granted_end
  /\ u.acknowledged_bitmap = t.acknowledged_bitmap

(* Nothing the peer has acknowledged or granted is taken back.             *)
NotTakenBack(t, u) ==
  /\ u.acknowledged_count >= t.acknowledged_count
  /\ u.granted_end >= t.granted_end
  /\ \A offset \in t.acknowledged_bitmap :
       LET index == t.acknowledged_count + offset
       IN  \/ index < u.acknowledged_count
           \/ index - u.acknowledged_count \in u.acknowledged_bitmap

-----------------------------------------------------------------------------
(* The two invariants a reader wants follow from the inductive one.        *)
LEMMA SessionInvImplies ==
  ASSUME NEW t, SessionInv(t)
  PROVE  CompletedWasSent(t) /\ WithinRetries(t)
<1>1. /\ t \in Sessions /\ WithinGrant(t) /\ AdmittedTold(t)
      /\ t.segment_count <= MaximumSegments
      /\ t.state = "Completed" => t.acknowledged_count = t.segment_count
      /\ t.segment_count \in Nat /\ t.acknowledged_count \in Nat
      /\ t.sent_bitmap \subseteq Offsets
      /\ t.segment_retry_count \in [Offsets -> 0 .. MaxRetries]
      /\ MaxRetries \in Nat /\ MaximumSegments \in Nat
  BY RetriesAssumption, CapacityAssumption DEF SessionInv, Sessions
<1>2. CompletedWasSent(t)
  <2>1. SUFFICES ASSUME t.state = "Completed",
                        NEW index \in 0 .. (t.segment_count - 1)
                 PROVE  t.admitted[index] > 0
    BY DEF CompletedWasSent
  <2>2. index \in SegmentIndices /\ index < t.acknowledged_count
    BY <1>1, <2>1 DEF SegmentIndices
  <2>3. t.admitted[index] \in 1 .. (1 + MaxRetries)
    BY <1>1, <2>2 DEF AdmittedTold
  <2>4. QED BY <1>1, <2>3
<1>3. ASSUME NEW index \in SegmentIndices
      PROVE  t.admitted[index] <= 1 + MaxRetries
  <2>1. index \in Nat
    BY <1>1 DEF SegmentIndices
  <2>2. CASE index < t.acknowledged_count
    BY <1>1, <2>1, <2>2 DEF AdmittedTold
  <2>3. CASE index >= t.acknowledged_count /\ index - t.acknowledged_count \notin t.sent_bitmap
    BY <1>1, <2>1, <2>3 DEF AdmittedTold
  <2>4. CASE index >= t.acknowledged_count /\ index - t.acknowledged_count \in t.sent_bitmap
    <3>1. t.admitted[t.acknowledged_count + (index - t.acknowledged_count)]
            = 1 + t.segment_retry_count[index - t.acknowledged_count]
      BY <1>1, <2>4 DEF AdmittedTold
    <3>2. t.acknowledged_count + (index - t.acknowledged_count) = index
      BY <1>1, <2>1
    <3>3. t.segment_retry_count[index - t.acknowledged_count] \in 0 .. MaxRetries
      BY <1>1, <2>4
    <3>4. QED BY <1>1, <3>1, <3>2, <3>3
  <2>5. QED BY <1>1, <2>1, <2>2, <2>3, <2>4
<1>4. QED
  BY <1>2, <1>3 DEF WithinRetries

(* A session with the same progress has taken nothing back.                *)
LEMMA SameProgressNotTakenBack ==
  ASSUME NEW t, SessionInv(t), NEW u, SameProgress(t, u)
  PROVE  NotTakenBack(t, u)
<1>1. /\ t.acknowledged_count \in Nat /\ t.granted_end \in Nat
      /\ t.acknowledged_bitmap \subseteq Nat
  BY WidthAssumption DEF SessionInv, Sessions, Offsets
<1>2. \A offset \in t.acknowledged_bitmap :
        (t.acknowledged_count + offset) - t.acknowledged_count = offset
  BY <1>1
<1>3. QED
  BY <1>1, <1>2 DEF SameProgress, NotTakenBack

(* A step that leaves the window alone only has to answer for its state.   *)
LEMMA SameWindowKeeps ==
  ASSUME NEW t, SessionInv(t), NEW u \in Sessions, SameWindow(t, u),
         SessionEndedOnce(u), u.state = "Completed" => t.state = "Completed"
  PROVE  SessionInv(u)
<1>1. WithinGrant(u)
  BY DEF SessionInv, SameWindow, WithinGrant, Window
<1>2. AdmittedTold(u)
  BY DEF SessionInv, SameWindow, AdmittedTold
<1>3. QED
  BY <1>1, <1>2 DEF SessionInv, SameWindow

(* The session as its constructor leaves it.                               *)
LEMMA InitialSessionInv == SessionInv(InitialSession)
<1> DEFINE t == InitialSession
<1>1. EmptySetup \in Setups
  BY ModulusAssumption DEF EmptySetup, Setups, SequenceNumbers
<1>2. t \in Sessions
  BY <1>1, RetriesAssumption DEF InitialSession, Sessions, TransmitterStates
<1>3. WithinGrant(t)
  BY WidthAssumption DEF InitialSession, WithinGrant
<1>4. SessionEndedOnce(t)
  BY DEF InitialSession, SessionEndedOnce, InTransfer
<1>5. AdmittedTold(t)
  BY CapacityAssumption DEF InitialSession, AdmittedTold, SegmentIndices
<1>6. QED
  BY <1>2, <1>3, <1>4, <1>5, CapacityAssumption DEF SessionInv, InitialSession

-----------------------------------------------------------------------------
(* What the integer division of segmentCount() yields.                     *)
LEMMA Division ==
  ASSUME NEW a \in Nat, NEW b \in Nat \ {0}
  PROVE  /\ a \div b \in Nat
         /\ a % b \in 0 .. (b - 1)
         /\ a = b * (a \div b) + (a % b)
<1>1. a \div b \in Nat
  OBVIOUS
<1>2. a % b \in 0 .. (b - 1)
  OBVIOUS
<1>3. a = b * (a \div b) + (a % b)
  OBVIOUS
<1>4. QED BY <1>1, <1>2, <1>3

(* startTransfer() derives a SETUP that describes the object.              *)
LEMMA SetupOfTyped ==
  ASSUME NEW q, q.session_id \in Nat, q.initial_sequence_number \in SequenceNumbers,
         q.object_size \in Nat \ {0}, q.segment_size \in Nat \ {0},
         segmentCount(q.object_size, q.segment_size) \in 1 .. MaximumSegments
  PROVE  SetupOf(q) \in Setups
<1> DEFINE total == q.object_size
           size == q.segment_size
           whole == total \div size
           rest == total % size
           last == segmentCount(total, size) - 1
<1>1. /\ whole \in Nat /\ rest \in 0 .. (size - 1)
      /\ total = size * whole + rest
  BY Division
<1>2. last = IF rest = 0 THEN whole - 1 ELSE whole
  BY <1>1 DEF segmentCount
<1>3. last \in Nat
  BY CapacityAssumption
<1>4. total - last * size \in Nat
  <2>1. CASE rest = 0
    <3>1. (whole - 1) * size = size * whole - size
      BY <1>1
    <3>2. QED BY <1>1, <1>2, <2>1, <3>1
  <2>2. CASE rest # 0
    <3>1. whole * size = size * whole
      BY <1>1
    <3>2. QED BY <1>1, <1>2, <2>2, <3>1
  <2>3. QED BY <2>1, <2>2
<1>5. QED
  <2> HIDE DEF last
  <2>1. SetupOf(q) = [session_id |-> q.session_id,
                      initial_sequence_number |-> q.initial_sequence_number,
                      final_segment_index |-> last, segment_size |-> size,
                      final_segment_size |-> total - last * size]
    BY DEF SetupOf, last
  <2>2. QED BY <1>3, <1>4, <2>1 DEF Setups

(* A new transfer starts from the invariant.                               *)
LEMMA StartKeeps ==
  ASSUME NEW t, NEW q, q.session_id \in Nat,
         q.initial_sequence_number \in SequenceNumbers,
         q.object_size \in Nat \ {0}, q.segment_size \in Nat \ {0},
         Startable(t, q)
  PROVE  SessionInv(startTransfer(q))
<1> DEFINE count == segmentCount(q.object_size, q.segment_size)
           setup == SetupOf(q)
           u == [InitialSession EXCEPT !.state = "Starting", !.setup = setup,
                                       !.segment_count = count]
<1>1. count \in Nat /\ count <= MaximumSegments
  BY CapacityAssumption DEF Startable
<1>2. setup \in Setups
  BY SetupOfTyped DEF Startable
<1> HIDE DEF count, setup
<1>3. u \in Sessions
  <2>1. InitialSession \in Sessions
    BY InitialSessionInv DEF SessionInv
  <2>2. QED BY <1>1, <1>2, <2>1 DEF Sessions, TransmitterStates
<1>4. WithinGrant(u)
  BY <1>1, WidthAssumption DEF InitialSession, WithinGrant
<1>5. SessionEndedOnce(u)
  <2>1. u.state = "Starting" /\ u.ended = 0
    BY DEF InitialSession
  <2>2. QED BY <2>1 DEF SessionEndedOnce, InTransfer
<1>6. AdmittedTold(u)
  BY CapacityAssumption DEF InitialSession, AdmittedTold, SegmentIndices
<1>7. SessionInv(u)
  BY <1>1, <1>3, <1>4, <1>5, <1>6 DEF SessionInv, InitialSession
<1>8. QED
  BY <1>7 DEF startTransfer, count, setup

-----------------------------------------------------------------------------
(* Sequence arithmetic yields natural numbers.                             *)
LEMMA DistanceNatural ==
  ASSUME NEW from \in Int, NEW to \in Int
  PROVE  SequenceDistance(from, to) \in Nat
<1>1. to - from \in Int
  OBVIOUS
<1>2. QED BY <1>1, ModulusAssumption DEF SequenceDistance

(* The window moves by a number.                                           *)
LEMMA AdvanceNatural ==
  ASSUME NEW t \in Sessions, NEW m, Answerable(m), m.type = "Ack"
  PROVE  Advance(t, m) \in Nat /\ GrantSpan(m) \in Nat
<1>1. m.window_base \in Int /\ m.max_receive_sequence \in Int
  BY DEF Answerable, SequenceNumbers
<1>2. t.setup.initial_sequence_number \in Int /\ t.acknowledged_count \in Int
  BY DEF Sessions, Setups, SequenceNumbers
<1>3. baseSequence(t.setup, t.acknowledged_count) \in Int
  BY <1>2, ModulusAssumption DEF baseSequence
<1>4. QED
  BY <1>1, <1>3, DistanceNatural DEF Advance, GrantSpan

(* Sliding the window by a plausible ACK keeps every count where it was.   *)
LEMMA SlideTold ==
  ASSUME NEW t, SessionInv(t), NEW count \in Nat, count <= kCompactWindowWidth,
         lowBitMask(count) \subseteq t.sent_bitmap,
         NEW u, u.acknowledged_count = t.acknowledged_count + count,
         u.sent_bitmap = ShiftRight(t.sent_bitmap, count),
         u.segment_retry_count =
           [offset \in Offsets |-> IF offset + count \in Offsets
              THEN t.segment_retry_count[offset + count] ELSE 0],
         u.admitted = t.admitted
  PROVE  AdmittedTold(u)
<1> DEFINE base == t.acknowledged_count
<1>1. /\ base \in Nat /\ kCompactWindowWidth \in Nat \ {0} /\ MaxRetries \in Nat
      /\ t.sent_bitmap \subseteq Offsets
      /\ t.segment_retry_count \in [Offsets -> 0 .. MaxRetries]
      /\ AdmittedTold(t)
  BY RetriesAssumption, WidthAssumption DEF SessionInv, Sessions
<1> HIDE DEF base
<1>2. ASSUME NEW index \in SegmentIndices, index < base + count
      PROVE  t.admitted[index] \in 1 .. (1 + MaxRetries)
  <2>1. index \in Nat
    BY CapacityAssumption DEF SegmentIndices
  <2>2. CASE index < base
    BY <1>1, <2>2 DEF AdmittedTold, base
  <2>3. CASE index >= base
    <3>1. index - base \in lowBitMask(count)
      BY <1>1, <1>2, <2>1, <2>3 DEF lowBitMask, Offsets
    <3>2. index - base \in t.sent_bitmap /\ index - base \in Offsets
      BY <1>1, <3>1
    <3>3. t.admitted[base + (index - base)] = 1 + t.segment_retry_count[index - base]
      BY <1>1, <3>2 DEF AdmittedTold, base
    <3>4. base + (index - base) = index
      BY <1>1, <2>1
    <3>5. t.segment_retry_count[index - base] \in 0 .. MaxRetries
      BY <1>1, <3>2
    <3>6. QED BY <1>1, <3>3, <3>4, <3>5
  <2>4. QED BY <1>1, <2>1, <2>2, <2>3
<1>3. ASSUME NEW index \in SegmentIndices, index >= base + count,
             index - (base + count) \notin u.sent_bitmap
      PROVE  t.admitted[index] = 0
  <2>1. index \in Nat
    BY CapacityAssumption DEF SegmentIndices
  <2>2. index - (base + count) + count = index - base /\ index >= base
    BY <1>1, <1>3, <2>1
  <2>3. index - base \notin t.sent_bitmap
    <3>1. CASE index - (base + count) \in Offsets
      BY <1>3, <2>2, <3>1 DEF ShiftRight
    <3>2. CASE index - (base + count) \notin Offsets
      BY <1>1, <1>3, <2>1, <3>2 DEF Offsets
    <3>3. QED BY <3>1, <3>2
  <2>4. QED BY <1>1, <2>2, <2>3 DEF AdmittedTold, base
<1>4. ASSUME NEW offset \in u.sent_bitmap
      PROVE  t.admitted[base + count + offset] = 1 + u.segment_retry_count[offset]
  <2>1. offset \in Offsets /\ offset + count \in t.sent_bitmap
    BY DEF ShiftRight
  <2>2. offset + count \in Offsets /\ offset \in Nat
    BY <1>1, <2>1 DEF Offsets
  <2>3. t.admitted[base + (offset + count)] = 1 + t.segment_retry_count[offset + count]
    BY <1>1, <2>1 DEF AdmittedTold, base
  <2>4. base + (offset + count) = base + count + offset
    BY <1>1, <2>2
  <2>5. QED BY <2>1, <2>2, <2>3, <2>4
<1>5. QED
  BY <1>2, <1>3, <1>4 DEF AdmittedTold, base

(* shiftWindow() moves the window's fields and nothing else.               *)
LEMMA ShiftWindowMoves ==
  ASSUME NEW t \in Sessions, NEW count \in Nat
  PROVE  LET s == shiftWindow(t, count)
         IN  /\ s \in Sessions
             /\ s.acknowledged_count = t.acknowledged_count
             /\ s.segment_count = t.segment_count
             /\ s.granted_end = t.granted_end /\ s.admitted = t.admitted
             /\ s.ended = t.ended
             /\ s.sent_bitmap = ShiftRight(t.sent_bitmap, count)
             /\ s.acknowledged_bitmap = ShiftRight(t.acknowledged_bitmap, count)
             /\ s.segment_retry_count =
                  [offset \in Offsets |-> IF offset + count \in Offsets
                     THEN t.segment_retry_count[offset + count] ELSE 0]
<1> DEFINE retries == [offset \in Offsets |-> IF offset + count \in Offsets
                         THEN t.segment_retry_count[offset + count] ELSE 0]
           sent == ShiftRight(t.sent_bitmap, count)
           acks == ShiftRight(t.acknowledged_bitmap, count)
           late == ShiftRight(t.due, count)
           s == [t EXCEPT !.sent_bitmap = sent, !.acknowledged_bitmap = acks,
                          !.due = late, !.segment_retry_count = retries]
<1>1. retries \in [Offsets -> 0 .. MaxRetries]
  BY RetriesAssumption DEF Sessions
<1>2. sent \subseteq Offsets /\ acks \subseteq Offsets /\ late \subseteq Offsets
  BY DEF ShiftRight
<1>3. shiftWindow(t, count) = s
  BY DEF shiftWindow
<1> HIDE DEF retries, sent, acks, late
<1>4. s \in Sessions
  BY <1>1, <1>2 DEF Sessions
<1>5. /\ s.acknowledged_count = t.acknowledged_count
      /\ s.segment_count = t.segment_count
      /\ s.granted_end = t.granted_end /\ s.admitted = t.admitted
      /\ s.ended = t.ended /\ s.sent_bitmap = sent
      /\ s.acknowledged_bitmap = acks /\ s.segment_retry_count = retries
  BY DEF Sessions
<1>6. QED
  BY <1>3, <1>4, <1>5 DEF retries, sent, acks

(* An ACK that passed the checks keeps the invariant.                      *)
LEMMA ApplyAckKeeps ==
  ASSUME NEW t, SessionInv(t), InTransfer(t), NEW m, Answerable(m),
         m.type = "Ack", PlausibleAck(t, m)
  PROVE  SessionInv(ApplyAck(t, m)) /\ NotTakenBack(t, ApplyAck(t, m))
<1> DEFINE adv == Advance(t, m)
           span == GrantSpan(m)
           base == t.acknowledged_count
           count == base + adv
           end == count + span
           done == count = t.segment_count
           s == shiftWindow(t, adv)
           acks == s.acknowledged_bitmap \cup (m.window_bitmap \cap s.sent_bitmap)
           grant == IF end > s.granted_end THEN end ELSE s.granted_end
           state == IF done THEN "Completed" ELSE "Active"
           ended == IF done THEN s.ended + 1 ELSE s.ended
           u == [s EXCEPT !.acknowledged_count = count,
                          !.acknowledged_bitmap = acks, !.granted_end = grant,
                          !.probe_timer_active = FALSE,
                          !.probe_retry_count = 0, !.state = state,
                          !.ended = ended]
<1>1. /\ t \in Sessions /\ base \in Nat /\ t.segment_count \in Nat
      /\ t.granted_end \in Nat /\ t.ended = 0
      /\ t.sent_bitmap \subseteq Offsets /\ t.acknowledged_bitmap \subseteq Offsets
      /\ WithinGrant(t) /\ kCompactWindowWidth \in Nat \ {0} /\ MaxRetries \in Nat
  BY WidthAssumption, RetriesAssumption DEF SessionInv, Sessions, SessionEndedOnce
<1>2. adv \in Nat /\ span \in Nat
  BY <1>1, AdvanceNatural
<1>3. /\ adv <= kCompactWindowWidth /\ span <= kCompactWindowWidth
      /\ end <= t.segment_count
      /\ lowBitMask(adv) \subseteq t.sent_bitmap
      /\ m.window_bitmap \subseteq Offsets
  BY DEF PlausibleAck, Answerable
<1>4. ApplyAck(t, m) = u
  BY DEF ApplyAck
<1> HIDE DEF adv, span
<1>5. /\ s \in Sessions /\ s.acknowledged_count = base
      /\ s.segment_count = t.segment_count
      /\ s.granted_end = t.granted_end /\ s.admitted = t.admitted
      /\ s.ended = 0
      /\ s.sent_bitmap = ShiftRight(t.sent_bitmap, adv)
      /\ s.acknowledged_bitmap = ShiftRight(t.acknowledged_bitmap, adv)
      /\ s.segment_retry_count =
           [offset \in Offsets |-> IF offset + adv \in Offsets
              THEN t.segment_retry_count[offset + adv] ELSE 0]
  BY <1>1, <1>2, ShiftWindowMoves
<1> HIDE DEF s
<1>6. /\ count \in Nat /\ end \in Nat /\ grant \in Nat
      /\ grant >= t.granted_end /\ grant >= end
      /\ grant = end \/ grant = t.granted_end
  BY <1>1, <1>2, <1>5
<1>7. acks \subseteq Offsets /\ s.sent_bitmap \subseteq Offsets
  BY <1>3, <1>5 DEF ShiftRight
<1>8. state \in TransmitterStates /\ ended \in Nat
  BY <1>5 DEF TransmitterStates
<1>9. /\ (state = "Completed" /\ ended = 1 /\ count = t.segment_count)
         \/ (state = "Active" /\ ended = 0)
      /\ end = base + adv + span /\ count = base + adv
  BY <1>5
<1> HIDE DEF acks, grant, state, ended, count, end
<1>10. u \in Sessions
  <2>1. s \in Sessions /\ count \in Nat /\ grant \in Nat /\ acks \in SUBSET Offsets
    BY <1>5, <1>6, <1>7
  <2>2. 0 \in 0 .. MaxRetries
    BY <1>1
  <2>3. QED BY <1>8, <2>1, <2>2 DEF Sessions
<1>11. /\ u.acknowledged_count = count /\ u.granted_end = grant
       /\ u.segment_count = t.segment_count /\ u.sent_bitmap = s.sent_bitmap
       /\ u.acknowledged_bitmap = acks
       /\ u.segment_retry_count = s.segment_retry_count
       /\ u.admitted = t.admitted /\ u.state = state /\ u.ended = ended
  BY <1>5 DEF Sessions
<1> HIDE DEF u, base
<1>12. WithinGrant(u)
  <2>1. count <= t.granted_end \/ adv = 0
    <3>1. CASE adv > 0
      <4>1. adv - 1 \in lowBitMask(adv)
        BY <1>1, <1>2, <1>3, <3>1 DEF lowBitMask, Offsets
      <4>2. adv - 1 \in Window(t)
        BY <1>1, <1>3, <4>1 DEF WithinGrant
      <4>3. QED BY <1>1, <1>2, <1>9, <4>2 DEF Window, lowBitMask, base
    <3>2. QED BY <1>2, <3>1
  <2>2. base <= t.granted_end /\ t.granted_end <= base + kCompactWindowWidth
          /\ t.granted_end <= t.segment_count
    BY <1>1 DEF WithinGrant, base
  <2>3. count <= grant /\ grant <= t.segment_count
          /\ grant <= count + kCompactWindowWidth
    BY <1>1, <1>2, <1>3, <1>6, <1>9, <2>1, <2>2
  <2>4. ASSUME NEW offset \in s.sent_bitmap PROVE offset \in Window(u)
    <3>1. offset \in Offsets /\ offset + adv \in t.sent_bitmap
      BY <1>5 DEF ShiftRight
    <3>2. offset + adv < t.granted_end - base
      BY <1>1, <3>1 DEF WithinGrant, Window, lowBitMask, base
    <3>3. offset \in Int
      BY <1>1, <3>1 DEF Offsets
    <3>4. offset < grant - count
      BY <1>1, <1>2, <1>6, <1>9, <3>2, <3>3
    <3>5. QED BY <1>11, <3>1, <3>4 DEF Window, lowBitMask
  <2>5. acks \subseteq s.sent_bitmap
    BY <1>1, <1>5 DEF WithinGrant, acks, ShiftRight
  <2>6. QED BY <1>11, <2>3, <2>4, <2>5 DEF WithinGrant
<1>13. SessionEndedOnce(u)
  BY <1>9, <1>11 DEF SessionEndedOnce, InTransfer
<1>14. AdmittedTold(u)
  BY <1>2, <1>3, <1>5, <1>9, <1>11, SlideTold DEF base
<1>15. u.state = "Completed" => u.acknowledged_count = u.segment_count
  BY <1>9, <1>11
<1>16. NotTakenBack(t, u)
  <2>1. ASSUME NEW offset \in t.acknowledged_bitmap
        PROVE  base + offset < count \/ (base + offset) - count \in acks
    <3>1. offset \in Offsets /\ offset \in Int
      BY <1>1 DEF Offsets
    <3>2. CASE offset < adv
      BY <1>1, <1>2, <1>9, <3>1, <3>2 DEF base
    <3>3. CASE offset >= adv
      <4>1. offset - adv \in Offsets /\ (offset - adv) + adv = offset
        BY <1>1, <1>2, <3>1, <3>3 DEF Offsets
      <4>2. offset - adv \in acks
        BY <1>5, <4>1 DEF acks, ShiftRight
      <4>3. (base + offset) - count = offset - adv
        BY <1>1, <1>2, <1>9, <3>1 DEF base
      <4>4. QED BY <4>2, <4>3
    <3>4. QED BY <1>2, <3>1, <3>2, <3>3
  <2>2. count >= base
    BY <1>1, <1>2, <1>9 DEF base
  <2>3. QED BY <1>6, <1>11, <2>1, <2>2 DEF NotTakenBack, base
<1>17. QED
  BY <1>4, <1>10, <1>11, <1>12, <1>13, <1>14, <1>15, <1>16 DEF SessionInv

-----------------------------------------------------------------------------
(* Ends and errors leave the window alone.                                 *)
LEMMA EndKeeps ==
  ASSUME NEW t, SessionInv(t), InTransfer(t), NEW state \in {"Rejected", "Aborted"}
  PROVE  LET r == [t EXCEPT !.state = state, !.ended = @ + 1]
         IN  SessionInv(r) /\ SameProgress(t, r)
<1> DEFINE u == [t EXCEPT !.state = state, !.ended = 1]
<1>1. t \in Sessions /\ t.ended = 0
  BY DEF SessionInv, SessionEndedOnce
<1>2. [t EXCEPT !.state = state, !.ended = @ + 1] = u
  BY <1>1
<1>3. u \in Sessions
  <2>1. state \in TransmitterStates
    BY DEF TransmitterStates
  <2>2. QED BY <1>1, <2>1 DEF Sessions
<1>4. SameWindow(t, u) /\ u.state = state /\ u.ended = 1
  BY <1>1 DEF SameWindow, Sessions
<1> HIDE DEF u
<1>5. SessionEndedOnce(u)
  BY <1>4 DEF SessionEndedOnce, InTransfer
<1>6. SessionInv(u) /\ SameProgress(t, u)
  BY <1>3, <1>4, <1>5, SameWindowKeeps DEF SameWindow, SameProgress
<1>7. QED
  BY <1>2, <1>6

(* transitionToError() keeps the invariant.                                *)
LEMMA ErrorKeeps ==
  ASSUME NEW t, SessionInv(t)
  PROVE  LET r == [t EXCEPT !.state = "Error"]
         IN  SessionInv(r) /\ SameProgress(t, r)
<1> DEFINE u == [t EXCEPT !.state = "Error"]
<1>1. t \in Sessions /\ t.ended \in Nat /\ t.ended <= 1
  BY DEF SessionInv, SessionEndedOnce, Sessions
<1>2. u \in Sessions
  BY <1>1 DEF Sessions, TransmitterStates
<1>3. SameWindow(t, u) /\ u.state = "Error" /\ u.ended = t.ended
  BY <1>1 DEF SameWindow, Sessions
<1> HIDE DEF u
<1>4. SessionEndedOnce(u)
  BY <1>1, <1>3 DEF SessionEndedOnce, InTransfer
<1>5. SessionInv(u) /\ SameProgress(t, u)
  BY <1>2, <1>3, <1>4, SameWindowKeeps DEF SameWindow, SameProgress
<1>6. QED
  BY <1>5 DEF u

(* transitionToAborted() keeps the invariant.                              *)
LEMMA TransitionToAbortedKeeps ==
  ASSUME NEW t, SessionInv(t), InTransfer(t)
  PROVE  /\ SessionInv(transitionToAborted(t))
         /\ SameProgress(t, transitionToAborted(t))
BY EndKeeps DEF transitionToAborted, InTransfer

(* Every control packet keeps the invariant, and takes nothing back.       *)
LEMMA HandleDatagramKeeps ==
  ASSUME NEW t, SessionInv(t), NEW m, Answerable(m)
  PROVE  /\ SessionInv(handleDatagram(t, m))
         /\ NotTakenBack(t, handleDatagram(t, m))
<1>1. NotTakenBack(t, t)
  BY SameProgressNotTakenBack DEF SameProgress
<1>2. CASE m.type = "Ack"
  <2>1. SessionInv(handleAck(t, m)) /\ NotTakenBack(t, handleAck(t, m))
    BY <1>1, <1>2, ApplyAckKeeps DEF handleAck
  <2>2. QED BY <1>2, <2>1 DEF handleDatagram
<1>3. CASE m.type = "Reject"
  <2>1. SessionInv(handleReject(t, m)) /\ SameProgress(t, handleReject(t, m))
    BY EndKeeps DEF handleReject, SameProgress
  <2>2. QED BY <1>3, <2>1, SameProgressNotTakenBack DEF handleDatagram
<1>4. CASE m.type = "Abort"
  <2>1. SessionInv(handlePeerAbort(t, m)) /\ SameProgress(t, handlePeerAbort(t, m))
    BY TransitionToAbortedKeeps DEF handlePeerAbort, SameProgress
  <2>2. QED BY <1>4, <2>1, SameProgressNotTakenBack DEF handleDatagram
<1>5. CASE m.type = "Malformed"
  BY <1>5, ErrorKeeps, SameProgressNotTakenBack DEF handleDatagram
<1>6. CASE m.type \notin {"Ack", "Reject", "Abort", "Malformed"}
  BY <1>1, <1>6 DEF handleDatagram
<1>7. QED BY <1>2, <1>3, <1>4, <1>5, <1>6

-----------------------------------------------------------------------------
(* A send keeps the invariant if the state after a taken packet has it.    *)
LEMMA ForwardKeeps ==
  ASSUME NEW t, SessionInv(t), NEW taken, SessionInv(taken),
         SameProgress(t, taken), NEW message,
         NEW o \in Forward(t, message, taken)
  PROVE  SessionInv(o.session) /\ SameProgress(t, o.session)
<1>1. PICK result \in LinkResults :
        o.session = CASE result = "Sent" -> taken
                      [] result = "Full" -> t
                      [] OTHER -> [t EXCEPT !.state = "Error"]
  BY DEF Forward, TxOutcome
<1> DEFINE failed == [t EXCEPT !.state = "Error"]
<1>2. SessionInv(failed) /\ SameProgress(t, failed)
  BY ErrorKeeps
<1> HIDE DEF failed
<1>3. o.session \in {taken, t, failed}
  BY <1>1 DEF failed
<1>4. SameProgress(t, t)
  BY DEF SameProgress
<1>5. QED BY <1>2, <1>3, <1>4

(* abort() keeps the invariant.                                            *)
LEMMA AbortTransferKeeps ==
  ASSUME NEW t, SessionInv(t), InTransfer(t), NEW o \in AbortTransfer(t)
  PROVE  SessionInv(o.session) /\ SameProgress(t, o.session)
<1>1. o.session = transitionToAborted(t)
  BY DEF AbortTransfer, TxOutcome
<1>2. QED BY <1>1, TransitionToAbortedKeeps

(* A turn of process() that sends nothing.                                 *)
LEMMA QuietKeeps ==
  ASSUME NEW t, SessionInv(t), NEW o \in Quiet(t)
  PROVE  SessionInv(o.session) /\ SameProgress(t, o.session)
BY DEF Quiet, TxOutcome, SameProgress

(* Timers and the counters of SETUP and PROBE are not the window's.        *)
LEMMA TimersKeep ==
  ASSUME NEW t, SessionInv(t), NEW u \in Sessions, SameWindow(t, u),
         u.state = t.state, u.ended = t.ended
  PROVE  SessionInv(u) /\ SameProgress(t, u)
<1>1. SessionEndedOnce(u)
  BY DEF SessionInv, SessionEndedOnce, InTransfer
<1>2. QED BY <1>1, SameWindowKeeps DEF SameWindow, SameProgress

(* sendSetup() keeps the invariant.                                        *)
LEMMA SendSetupKeeps ==
  ASSUME NEW t, SessionInv(t), NEW retransmission \in BOOLEAN,
         retransmission => ~retryLimitReached(t.setup_retry_count),
         NEW o \in sendSetup(t, retransmission)
  PROVE  SessionInv(o.session) /\ SameProgress(t, o.session)
<1> DEFINE count == IF retransmission THEN t.setup_retry_count + 1
                                      ELSE t.setup_retry_count
           u == [t EXCEPT !.setup_sent = TRUE, !.setup_due = FALSE,
                          !.setup_retry_count = count]
<1>1. t \in Sessions /\ t.setup_retry_count \in 0 .. MaxRetries
  BY DEF SessionInv, Sessions
<1>2. count \in 0 .. MaxRetries
  BY <1>1, RetriesAssumption DEF retryLimitReached
<1>3. o \in Forward(t, SetupMessage(t.setup), u)
  BY DEF sendSetup
<1> HIDE DEF count
<1>4. u \in Sessions
  BY <1>1, <1>2 DEF Sessions
<1>5. SameWindow(t, u) /\ u.state = t.state /\ u.ended = t.ended
  BY <1>1 DEF SameWindow, Sessions
<1> HIDE DEF u
<1>6. SessionInv(u) /\ SameProgress(t, u)
  BY <1>4, <1>5, TimersKeep
<1>7. QED
  BY <1>3, <1>6, ForwardKeeps

(* sendProbe() keeps the invariant.                                        *)
LEMMA SendProbeKeeps ==
  ASSUME NEW t, SessionInv(t), ~retryLimitReached(t.probe_retry_count),
         NEW o \in sendProbe(t)
  PROVE  SessionInv(o.session) /\ SameProgress(t, o.session)
<1> DEFINE count == t.probe_retry_count + 1
           u == [t EXCEPT !.probe_due = FALSE, !.probe_retry_count = count]
<1>1. t \in Sessions /\ t.probe_retry_count \in 0 .. MaxRetries
  BY DEF SessionInv, Sessions
<1>2. count \in 0 .. MaxRetries
  BY <1>1, RetriesAssumption DEF retryLimitReached
<1>3. o \in Forward(t, ProbeMessage(t.setup.session_id), u)
  BY DEF sendProbe
<1> HIDE DEF count
<1>4. u \in Sessions
  BY <1>1, <1>2 DEF Sessions
<1>5. SameWindow(t, u) /\ u.state = t.state /\ u.ended = t.ended
  BY <1>1 DEF SameWindow, Sessions
<1> HIDE DEF u
<1>6. SessionInv(u) /\ SameProgress(t, u)
  BY <1>4, <1>5, TimersKeep
<1>7. QED
  BY <1>3, <1>6, ForwardKeeps

(* A segment taken once more keeps the count its retry counter tells.      *)
LEMMA SendSegmentKeeps ==
  ASSUME NEW t, SessionInv(t), NEW offset \in Window(t),
         NEW retransmission \in BOOLEAN,
         retransmission => /\ offset \in t.sent_bitmap
                           /\ ~retryLimitReached(t.segment_retry_count[offset]),
         ~retransmission => offset \notin t.sent_bitmap,
         NEW o \in sendSegment(t, offset, retransmission)
  PROVE  SessionInv(o.session) /\ SameProgress(t, o.session)
<1> DEFINE base == t.acknowledged_count
           index == base + offset
           count == IF retransmission THEN t.segment_retry_count[offset] + 1 ELSE 0
           retries == [t.segment_retry_count EXCEPT ![offset] = count]
           admitted == [t.admitted EXCEPT ![index] = 1 + count]
           sent == t.sent_bitmap \cup {offset}
           u == [t EXCEPT !.sent_bitmap = sent, !.due = @ \ {offset},
                          !.segment_retry_count = retries,
                          !.probe_timer_active = FALSE, !.admitted = admitted]
<1>1. /\ t \in Sessions /\ base \in Nat /\ t.segment_count \in Nat
      /\ t.granted_end \in Nat /\ WithinGrant(t) /\ AdmittedTold(t)
      /\ t.segment_count <= MaximumSegments
      /\ t.segment_retry_count \in [Offsets -> 0 .. MaxRetries]
      /\ t.admitted \in [SegmentIndices -> Nat]
      /\ t.sent_bitmap \subseteq Offsets
      /\ MaxRetries \in Nat /\ MaximumSegments \in Nat
      /\ kCompactWindowWidth \in Nat
  BY WidthAssumption, RetriesAssumption, CapacityAssumption DEF SessionInv, Sessions
<1>2. offset \in Offsets /\ offset \in Nat /\ offset < t.granted_end - base
  BY <1>1 DEF Window, lowBitMask, Offsets
<1>3. index \in SegmentIndices /\ index \in Nat /\ index - base = offset
  <2>1. t.granted_end <= MaximumSegments
    BY <1>1 DEF WithinGrant
  <2> HIDE DEF base
  <2>2. QED BY <1>1, <1>2, <2>1 DEF SegmentIndices
<1>4. t.admitted[index] = count
  <2>1. CASE retransmission
    BY <1>1, <1>2, <2>1 DEF AdmittedTold
  <2>2. CASE ~retransmission
    BY <1>1, <1>2, <1>3, <2>2 DEF AdmittedTold
  <2>3. QED BY <2>1, <2>2
<1>5. count \in 0 .. MaxRetries
  BY <1>1, <1>2 DEF retryLimitReached
<1>6. o \in Forward(t, SegmentMessage(t.setup, index), u)
  <2> DEFINE v == [t EXCEPT !.sent_bitmap = @ \cup {offset},
                            !.due = @ \ {offset},
                            !.segment_retry_count[offset] =
                              IF retransmission THEN @ + 1 ELSE 0,
                            !.probe_timer_active = FALSE,
                            !.admitted[index] = @ + 1]
  <2>1. o \in Forward(t, SegmentMessage(t.setup, index), v)
    BY DEF sendSegment
  <2>2. [t.admitted EXCEPT ![index] = @ + 1] = admitted
    BY <1>1, <1>4, <1>5
  <2>3. [t.segment_retry_count EXCEPT ![offset] = IF retransmission THEN @ + 1 ELSE 0]
          = retries
    OBVIOUS
  <2>4. v = u
    BY <1>1, <2>2, <2>3 DEF Sessions
  <2>5. QED BY <2>1, <2>4
<1>7. /\ retries \in [Offsets -> 0 .. MaxRetries] /\ sent \subseteq Offsets
      /\ admitted \in [SegmentIndices -> Nat]
  BY <1>1, <1>2, <1>3, <1>5
<1> HIDE DEF count, retries, admitted, sent
<1>8. u \in Sessions
  BY <1>1, <1>7 DEF Sessions
<1>9. /\ u.acknowledged_count = base /\ u.granted_end = t.granted_end
      /\ u.segment_count = t.segment_count /\ u.sent_bitmap = sent
      /\ u.acknowledged_bitmap = t.acknowledged_bitmap
      /\ u.segment_retry_count = retries /\ u.admitted = admitted
      /\ u.state = t.state /\ u.ended = t.ended
  BY <1>1 DEF Sessions
<1> HIDE DEF u
<1>10. WithinGrant(u)
  BY <1>1, <1>9 DEF WithinGrant, Window, sent
<1>11. AdmittedTold(u)
  <2>1. ASSUME NEW i \in SegmentIndices, i < base
        PROVE  admitted[i] \in 1 .. (1 + MaxRetries)
    <3>1. t.admitted[i] \in 1 .. (1 + MaxRetries)
      BY <1>1, <2>1 DEF AdmittedTold
    <3>2. i # index
      BY <1>1, <1>2, <2>1 DEF SegmentIndices
    <3>3. admitted[i] = t.admitted[i]
      BY <1>1, <3>2 DEF admitted
    <3>4. QED BY <3>1, <3>3
  <2>2. ASSUME NEW i \in SegmentIndices, i >= base, i - base \notin sent
        PROVE  admitted[i] = 0
    BY <1>1, <1>3, <2>2 DEF AdmittedTold, admitted, sent
  <2>3. ASSUME NEW p \in sent
        PROVE  admitted[base + p] = 1 + retries[p]
    <3>1. p \in Nat /\ p \in Offsets /\ p < t.granted_end - base
      BY <1>1, <1>2 DEF sent, WithinGrant, Window, lowBitMask, Offsets
    <3>2. base + p \in SegmentIndices
      <4>1. t.granted_end <= MaximumSegments
        BY <1>1 DEF WithinGrant
      <4> HIDE DEF base
      <4>2. QED BY <1>1, <3>1, <4>1 DEF SegmentIndices
    <3>3. CASE p = offset
      BY <1>1, <1>2, <1>3, <3>3 DEF admitted, retries
    <3>4. CASE p # offset
      <4>1. t.admitted[base + p] = 1 + t.segment_retry_count[p]
        BY <1>1, <3>4 DEF AdmittedTold, sent
      <4>2. base + p # index
        BY <1>1, <1>2, <3>1, <3>4
      <4>3. admitted[base + p] = t.admitted[base + p]
        BY <1>1, <3>2, <4>2 DEF admitted
      <4>4. retries[p] = t.segment_retry_count[p]
        BY <1>1, <3>1, <3>4 DEF retries
      <4>5. QED BY <4>1, <4>3, <4>4
    <3>5. QED BY <3>3, <3>4
  <2>4. QED BY <1>9, <2>1, <2>2, <2>3 DEF AdmittedTold
<1>12. SessionEndedOnce(u)
  BY <1>9 DEF SessionInv, SessionEndedOnce, InTransfer
<1>13. SessionInv(u) /\ SameProgress(t, u)
  BY <1>8, <1>9, <1>10, <1>11, <1>12 DEF SessionInv, SameProgress
<1>14. QED
  BY <1>6, <1>13, ForwardKeeps

-----------------------------------------------------------------------------
(* One call of process() keeps the invariant.                              *)
LEMMA FirstChosen ==
  ASSUME NEW offsets, offsets \subseteq Offsets, offsets # {}
  PROVE  First(offsets) \in offsets
<1>1. offsets \subseteq Nat
  BY WidthAssumption DEF Offsets
<1>2. PICK o \in offsets : \A p \in offsets : <<p, o>> \notin OpToRel(<, Nat)
  BY <1>1, WFMin, NatLessThanWellFounded
<1>3. \A p \in offsets : ~(p < o)
  BY <1>1, <1>2 DEF OpToRel
<1>4. \A p \in offsets : o <= p
  BY <1>1, <1>3
<1>5. QED BY <1>4 DEF First

(* process() while the SETUP is unanswered.                                *)
LEMMA StartingStepKeeps ==
  ASSUME NEW t, SessionInv(t), t.state = "Starting", NEW o \in StartingStep(t)
  PROVE  SessionInv(o.session) /\ SameProgress(t, o.session)
<1>1. InTransfer(t) /\ t.setup_sent \in BOOLEAN /\ t.setup_due \in BOOLEAN
  BY DEF InTransfer, SessionInv, Sessions
<1>2. CASE ~t.setup_sent
  BY <1>2, SendSetupKeeps DEF StartingStep
<1>3. CASE t.setup_sent /\ t.setup_due /\ retryLimitReached(t.setup_retry_count)
  BY <1>1, <1>3, AbortTransferKeeps DEF StartingStep
<1>4. CASE t.setup_sent /\ t.setup_due /\ ~retryLimitReached(t.setup_retry_count)
  BY <1>4, SendSetupKeeps DEF StartingStep
<1>5. CASE t.setup_sent /\ ~t.setup_due
  BY <1>5, QuietKeeps DEF StartingStep
<1>6. QED BY <1>1, <1>2, <1>3, <1>4, <1>5

(* process() with nothing outstanding.                                     *)
LEMMA ProbeStepKeeps ==
  ASSUME NEW t, SessionInv(t), InTransfer(t), NEW o \in ProbeStep(t)
  PROVE  SessionInv(o.session) /\ SameProgress(t, o.session)
<1> DEFINE u == [t EXCEPT !.probe_timer_active = TRUE, !.probe_due = FALSE]
<1>1. t \in Sessions
  BY DEF SessionInv
<1>2. t.probe_timer_active \in BOOLEAN /\ t.probe_due \in BOOLEAN
  BY <1>1 DEF Sessions
<1>3. u \in Sessions
  BY <1>1 DEF Sessions
<1>4. SameWindow(t, u) /\ u.state = t.state /\ u.ended = t.ended
  BY <1>1 DEF SameWindow, Sessions
<1>5. CASE ~t.probe_timer_active
  <2>1. o \in Quiet(u)
    BY <1>5 DEF ProbeStep
  <2> HIDE DEF u
  <2>2. SessionInv(u) /\ SameProgress(t, u)
    BY <1>3, <1>4, TimersKeep
  <2>3. o.session = u
    BY <2>1 DEF Quiet, TxOutcome
  <2>4. QED BY <2>2, <2>3
<1>6. CASE t.probe_timer_active /\ t.probe_due /\ retryLimitReached(t.probe_retry_count)
  BY <1>6, AbortTransferKeeps DEF ProbeStep
<1>7. CASE t.probe_timer_active /\ t.probe_due /\ ~retryLimitReached(t.probe_retry_count)
  BY <1>7, SendProbeKeeps DEF ProbeStep
<1>8. CASE t.probe_timer_active /\ ~t.probe_due
  BY <1>8, QuietKeeps DEF ProbeStep
<1>9. QED BY <1>2, <1>5, <1>6, <1>7, <1>8

(* process() while segments are outstanding.                               *)
LEMMA ActiveStepKeeps ==
  ASSUME NEW t, SessionInv(t), t.state = "Active", NEW o \in ActiveStep(t)
  PROVE  SessionInv(o.session) /\ SameProgress(t, o.session)
<1>1. InTransfer(t) /\ t \in Sessions
  BY DEF InTransfer, SessionInv
<1>2. Unsent(t) \subseteq Offsets /\ Overdue(t) \subseteq Offsets
  BY DEF Unsent, Overdue, Outstanding, Window, lowBitMask
<1>3. CASE Unsent(t) # {}
  <2>1. PICK f : f = First(Unsent(t)) /\ f \in Unsent(t)
    BY <1>2, <1>3, FirstChosen
  <2>2. o \in sendSegment(t, f, FALSE)
    BY <1>3, <2>1 DEF ActiveStep
  <2>3. f \in Window(t) /\ f \notin t.sent_bitmap
    BY <2>1 DEF Unsent
  <2>4. QED BY <2>2, <2>3, SendSegmentKeeps
<1>4. CASE Unsent(t) = {} /\ Overdue(t) # {}
  <2>1. PICK f : f = First(Overdue(t)) /\ f \in Overdue(t)
    BY <1>2, <1>4, FirstChosen
  <2>2. o \in RetransmitStep(t, f)
    BY <1>4, <2>1 DEF ActiveStep
  <2>3. f \in Window(t) /\ f \in t.sent_bitmap
    BY <2>1 DEF Overdue, Outstanding
  <2>4. CASE retryLimitReached(t.segment_retry_count[f])
    BY <1>1, <2>2, <2>4, AbortTransferKeeps DEF RetransmitStep
  <2>5. CASE ~retryLimitReached(t.segment_retry_count[f])
    <3>1. o \in sendSegment(t, f, TRUE)
      BY <2>2, <2>5 DEF RetransmitStep
    <3>2. QED BY <2>3, <2>5, <3>1, SendSegmentKeeps
  <2>6. QED BY <2>4, <2>5
<1>5. CASE /\ Unsent(t) = {} /\ Overdue(t) = {}
           /\ Outstanding(t) = {} /\ t.acknowledged_count < t.segment_count
  BY <1>1, <1>5, ProbeStepKeeps DEF ActiveStep
<1>6. CASE /\ Unsent(t) = {} /\ Overdue(t) = {}
           /\ ~(Outstanding(t) = {} /\ t.acknowledged_count < t.segment_count)
  <2> DEFINE u == [t EXCEPT !.probe_timer_active = FALSE, !.probe_retry_count = 0]
  <2>1. o \in Quiet(u)
    BY <1>6 DEF ActiveStep
  <2>2. u \in Sessions
    <3>1. 0 \in 0 .. MaxRetries
      BY RetriesAssumption
    <3>2. QED BY <1>1, <3>1 DEF Sessions
  <2>3. SameWindow(t, u) /\ u.state = t.state /\ u.ended = t.ended
    BY <1>1 DEF SameWindow, Sessions
  <2> HIDE DEF u
  <2>4. SessionInv(u) /\ SameProgress(t, u)
    BY <2>2, <2>3, TimersKeep
  <2>5. o.session = u
    BY <2>1 DEF Quiet, TxOutcome
  <2>6. QED BY <2>4, <2>5
<1>7. QED BY <1>3, <1>4, <1>5, <1>6

(* Whatever step() sends or does not, the peer's progress stays as it was. *)
LEMMA StepKeeps ==
  ASSUME NEW t, SessionInv(t), NEW o \in Step(t)
  PROVE  SessionInv(o.session) /\ SameProgress(t, o.session)
<1>1. CASE t.state = "Starting"
  BY <1>1, StartingStepKeeps DEF Step
<1>2. CASE t.state = "Active"
  BY <1>2, ActiveStepKeeps DEF Step
<1>3. CASE t.state \notin {"Starting", "Active"}
  BY <1>3, QuietKeeps DEF Step
<1>4. QED BY <1>1, <1>2, <1>3

(* process() as a whole.                                                   *)
LEMMA SessionProcessKeeps ==
  ASSUME NEW t, SessionInv(t), NEW m, Answerable(m), NEW o \in SessionProcess(t, m)
  PROVE  SessionInv(o.session) /\ NotTakenBack(t, o.session)
<1>1. PICK h : h = handleDatagram(t, m) /\ o \in Step(h)
  BY DEF SessionProcess
<1>2. SessionInv(h) /\ NotTakenBack(t, h)
  BY <1>1, HandleDatagramKeeps
<1>3. SessionInv(o.session) /\ SameProgress(h, o.session)
  BY <1>1, <1>2, StepKeeps
<1>4. QED BY <1>2, <1>3 DEF SameProgress, NotTakenBack

(* What a timer that ran out leaves of a session.                          *)
Ticked(u, t) == SessionInv(u) /\ SameProgress(t, u)

(* The clock keeps the invariant and the progress.                         *)
LEMMA ClockKeeps ==
  ASSUME NEW t, SessionInv(t)
  PROVE  /\ Ticked([t EXCEPT !.setup_due = TRUE], t)
         /\ Ticked([t EXCEPT !.probe_due = TRUE], t)
         /\ \A offset \in Offsets : Ticked([t EXCEPT !.due = @ \cup {offset}], t)
<1>1. t \in Sessions
  BY DEF SessionInv
<1>2. Ticked([t EXCEPT !.setup_due = TRUE], t)
  <2> DEFINE u == [t EXCEPT !.setup_due = TRUE]
  <2>1. u \in Sessions
    BY <1>1 DEF Sessions
  <2>2. SameWindow(t, u) /\ u.state = t.state /\ u.ended = t.ended
    BY <1>1 DEF SameWindow, Sessions
  <2> HIDE DEF u
  <2>3. Ticked(u, t)
    BY <2>1, <2>2, TimersKeep DEF Ticked
  <2>4. QED BY <2>3 DEF u
<1>3. Ticked([t EXCEPT !.probe_due = TRUE], t)
  <2> DEFINE u == [t EXCEPT !.probe_due = TRUE]
  <2>1. u \in Sessions
    BY <1>1 DEF Sessions
  <2>2. SameWindow(t, u) /\ u.state = t.state /\ u.ended = t.ended
    BY <1>1 DEF SameWindow, Sessions
  <2> HIDE DEF u
  <2>3. Ticked(u, t)
    BY <2>1, <2>2, TimersKeep DEF Ticked
  <2>4. QED BY <2>3 DEF u
<1>4. ASSUME NEW offset \in Offsets
      PROVE  Ticked([t EXCEPT !.due = @ \cup {offset}], t)
  <2> DEFINE u == [t EXCEPT !.due = @ \cup {offset}]
  <2>1. u \in Sessions
    BY <1>1 DEF Sessions
  <2>2. SameWindow(t, u) /\ u.state = t.state /\ u.ended = t.ended
    BY <1>1 DEF SameWindow, Sessions
  <2> HIDE DEF u
  <2>3. Ticked(u, t)
    BY <2>1, <2>2, TimersKeep DEF Ticked
  <2>4. QED BY <2>3 DEF u
<1>5. QED BY <1>2, <1>3, <1>4

=============================================================================
