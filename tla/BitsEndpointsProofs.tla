------------------------- MODULE BitsEndpointsProofs ------------------------
(***************************************************************************)
(* End to end: a transmitter believes of its object only what the receiver *)
(* has done, over a network that loses, delays, repeats and reorders       *)
(* packets without bound, for every window, retry budget, set of requests  *)
(* and answer of the Links, the application and the sink.  The endpoints,  *)
(* with their slots, polling order and bounded channels, do nothing that   *)
(* the machines on such a network do not, and inherit it.                  *)
(***************************************************************************)
EXTENDS BitsEndpoints, BitsMachineProofs, SequenceTheorems

(* An object has fewer segments than there are sequence numbers, as on     *)
(* this network it must: an ACK delayed by a whole turn of the sequence    *)
(* numbers cannot be told from a new one.                                  *)
ShortObjects ==
  \A q \in Requests : segmentCount(q.object_size, q.segment_size) < SequenceModulus

-----------------------------------------------------------------------------
(* The receiver's application has heard of what the engine holds.          *)
Recorded(e) ==
  /\ e.state # "Idle" => e.segment_count = setupSegmentCount(e.setup)
  /\ \A i \in e.accepted : <<e.setup.session_id, i>> \in e.deliveries
  /\ e.state # "Idle" /\ e.contiguous_count = e.segment_count
       => e.setup.session_id \in e.completions

(* What the application once heard stays heard.                            *)
Recalls(e, f) ==
  e.deliveries \subseteq f.deliveries /\ e.completions \subseteq f.completions

(* The fields the record is about are those of another engine.             *)
SameRecord(e, f) ==
  /\ f.setup = e.setup /\ f.segment_count = e.segment_count
  /\ f.contiguous_count = e.contiguous_count /\ f.accepted = e.accepted
  /\ f.deliveries = e.deliveries /\ f.completions = e.completions
  /\ f.state = "Idle" <=> e.state = "Idle"

(* One call of the engine, in terms of its record: the transfer stays the  *)
(* one it was or becomes the requested one, and only a transfer is         *)
(* acknowledged.                                                           *)
Told(e, m, o) ==
  /\ Recorded(o.engine) /\ Recalls(e, o.engine)
  /\ \A a \in o.out : a.type = "Ack" => o.engine.state # "Idle"
  /\ \/ o.engine.setup = e.setup /\ (o.engine.state = "Idle" <=> e.state = "Idle")
     \/ m.type = "Setup" /\ o.engine.setup = m.setup

(* An engine with the same record is as well recorded.                     *)
LEMMA SameRecordKeeps ==
  ASSUME NEW e, NEW f, SameRecord(e, f), Recorded(e)
  PROVE  Recorded(f) /\ Recalls(e, f)
BY DEF SameRecord, Recorded, Recalls

(* fail() tells the application of an end, and of nothing else.            *)
LEMMA FailSameRecord ==
  ASSUME NEW e, e \in Engines
  PROVE  SameRecord(e, Fail(e))
BY DEF Fail, SameRecord, Engines

(* sendAck() leaves the record as it is.                                   *)
LEMMA SendAckTold ==
  ASSUME NEW e, EngineInv(e), Recorded(e), e.state # "Idle", NEW m,
         NEW o \in sendAck(e)
  PROVE  Told(e, m, o)
<1>1. o.engine \in {e, Fail(e)}
  BY FailKeeps, SendKeeps DEF sendAck
<1>2. SameRecord(e, Fail(e)) /\ SameRecord(e, e)
  BY FailSameRecord DEF EngineInv, SameRecord
<1>3. SameRecord(e, o.engine)
  BY <1>1, <1>2
<1>4. Recorded(o.engine) /\ Recalls(e, o.engine)
  BY <1>3, SameRecordKeeps
<1>5. QED
  BY <1>3, <1>4 DEF Told, SameRecord

(* sendReject() leaves the engine alone, and acknowledges nothing.         *)
LEMMA SendRejectTold ==
  ASSUME NEW e, EngineInv(e), Recorded(e), NEW m, NEW session, NEW reason,
         NEW o \in sendReject(e, session, reason)
  PROVE  Told(e, m, o)
<1>1. o.engine = e /\ o.out \subseteq {RejectMessage(session, reason)}
  BY SendKeeps DEF sendReject
<1>2. \A a \in o.out : a.type # "Ack"
  BY <1>1 DEF RejectMessage
<1>3. QED
  BY <1>1, <1>2 DEF Told, Recalls

(* An engine that says nothing tells nothing new.                          *)
LEMMA SilentTold ==
  ASSUME NEW e, NEW f, SameRecord(e, f), Recorded(e), NEW m, NEW o \in Silent(f)
  PROVE  Told(e, m, o)
<1>1. o.engine = f /\ o.out = {}
  BY DEF Silent, Outcome
<1>2. QED
  BY <1>1, SameRecordKeeps DEF Told, SameRecord

(* Two calls after one another: what the first kept, the second tells.     *)
LEMMA ToldAfter ==
  ASSUME NEW e, NEW f, NEW m, NEW o, Told(f, m, o), Recalls(e, f), f.setup = e.setup,
         f.state = "Idle" <=> e.state = "Idle"
  PROVE  Told(e, m, o)
BY DEF Told, Recalls

(* onSegment() was called for every segment the engine marks, and          *)
(* onComplete() for a transfer whose last segment it marks.                *)
LEMMA AcceptRecorded ==
  ASSUME NEW e, EngineInv(e), Recorded(e), e.state = "Active",
         NEW index \in Nat, Acceptable(e, index),
         NEW next \in Accept(e, index)
  PROVE  /\ Recorded(next) /\ Recalls(e, next)
         /\ next.setup = e.setup /\ next.state # "Idle"
<1> DEFINE s == Slide(e, index)
           g == UpdateGrant(s)
           session == e.setup.session_id
<1>1. /\ s \in Engines /\ s.state = "Active" /\ GrantIsBacked(s)
      /\ s.setup = e.setup /\ s.segment_count = e.segment_count
  BY SlideKeeps DEF Progressed
<1>2. /\ s.accepted = e.accepted \cup {index}
      /\ s.deliveries = e.deliveries \cup {<<session, index>>}
      /\ s.completions = e.completions
  BY DEF Slide, EngineInv, Engines
<1>3. next = Complete(g)
  BY DEF Accept
<1> HIDE DEF s
<1>4. PICK end \in Nat : g = [s EXCEPT !.granted_end = end]
  BY <1>1, UpdateGrantBacked DEF GrantIsBacked
<1>5. /\ g \in Engines /\ g.state = "Active" /\ g.setup = e.setup
      /\ g.segment_count = e.segment_count
      /\ g.accepted = s.accepted /\ g.deliveries = s.deliveries
      /\ g.completions = s.completions
  BY <1>1, <1>4 DEF Engines
<1> HIDE DEF g
<1>6. /\ next.setup = g.setup /\ next.segment_count = g.segment_count
      /\ next.contiguous_count = g.contiguous_count
      /\ next.accepted = g.accepted /\ next.deliveries = g.deliveries
      /\ g.completions \subseteq next.completions
      /\ next.state \in {"Active", "Completed"}
      /\ g.contiguous_count = g.segment_count => session \in next.completions
  BY <1>3, <1>5 DEF Complete, Engines
<1>7. QED
  BY <1>2, <1>5, <1>6 DEF Recorded, Recalls

(* beginTransfer() starts a record of its own, and forgets no other.       *)
LEMMA BeginRecorded ==
  ASSUME NEW e, EngineInv(e), NEW requested \in Setups
  PROVE  Recorded(Begin(e, requested)) /\ Recalls(e, Begin(e, requested))
<1> DEFINE count == setupSegmentCount(requested)
           b == [e EXCEPT !.state = "Active", !.setup = requested,
                          !.segment_count = count,
                          !.contiguous_count = 0, !.granted_end = 0,
                          !.receive_bitmap = {}, !.expired = FALSE,
                          !.accepted = {}, !.repeated = {}, !.ended = 0]
<1>1. count \in Nat /\ count > 0 /\ ReceiveWindowWidth \in Nat
  BY ReceiveWidthAssumption, WidthAssumption DEF Setups, setupSegmentCount
<1>2. Begin(e, requested) = UpdateGrant(b)
  BY DEF Begin
<1> HIDE DEF count
<1>3. /\ b \in Engines /\ b.segment_count = count /\ b.setup = requested
      /\ b.contiguous_count = 0 /\ b.granted_end = 0 /\ b.accepted = {}
      /\ b.deliveries = e.deliveries /\ b.completions = e.completions
  BY <1>1 DEF EngineInv, Engines, ReceiverStates
<1> HIDE DEF b
<1>4. PICK end \in Nat : UpdateGrant(b) = [b EXCEPT !.granted_end = end]
  BY <1>1, <1>3, UpdateGrantBacked
<1> DEFINE r == UpdateGrant(b)
<1>5. /\ r.segment_count = count /\ r.setup = requested
      /\ r.contiguous_count = 0 /\ r.accepted = {}
      /\ r.deliveries = e.deliveries /\ r.completions = e.completions
  BY <1>3, <1>4 DEF Engines
<1> HIDE DEF r
<1>6. Recorded(r) /\ Recalls(e, r)
  BY <1>1, <1>5 DEF Recorded, Recalls, count
<1>7. QED
  BY <1>2, <1>6 DEF r

(* Stamping the clock leaves the record alone.                             *)
LEMMA StampSameRecord ==
  ASSUME NEW e, EngineInv(e), NEW flag \in BOOLEAN
  PROVE  SameRecord(e, [e EXCEPT !.expired = flag])
BY DEF SameRecord, EngineInv, Engines

(* handleSegment(): what it marks, the application has heard.              *)
LEMMA HandleSegmentTold ==
  ASSUME NEW e, EngineInv(e), Recorded(e), NEW m, m.segment_index \in Nat,
         NEW o \in handleSegment(e, m)
  PROVE  Told(e, m, o)
<1> DEFINE flag == IF m.segment_index < e.granted_end THEN FALSE ELSE e.expired
           r == Renewed(e, m)
<1>1. flag \in BOOLEAN /\ r = [e EXCEPT !.expired = flag]
  BY DEF EngineInv, Engines, Renewed
<1> HIDE DEF flag, r
<1>2. /\ EngineInv(r) /\ SameRecord(e, r) /\ r.state = e.state
      /\ SameRecord(e, e) /\ SameRecord(r, Fail(r))
      /\ r.contiguous_count = e.contiguous_count /\ r.granted_end = e.granted_end
      /\ r.receive_bitmap = e.receive_bitmap
  <2>1. /\ EngineInv(r) /\ r.state = e.state
        /\ r.contiguous_count = e.contiguous_count /\ r.granted_end = e.granted_end
        /\ r.receive_bitmap = e.receive_bitmap
    BY <1>1, ExpiryKeeps
  <2>2. SameRecord(e, r)
    BY <1>1, StampSameRecord
  <2>3. SameRecord(e, e)
    BY DEF SameRecord
  <2>4. SameRecord(r, Fail(r))
    BY <2>1, FailSameRecord DEF EngineInv
  <2>5. QED
    BY <2>1, <2>2, <2>3, <2>4
<1>3. Recorded(r) /\ Recalls(e, r)
  BY <1>2, SameRecordKeeps
<1>4. CASE o \in Silent(e)
  BY <1>2, <1>4, SilentTold
<1>5. CASE e.state \in {"Active", "Completed"} /\ o \in sendAck(r)
  <2>1. Told(r, m, o)
    BY <1>2, <1>3, <1>5, SendAckTold
  <2>2. QED
    BY <1>2, <1>3, <2>1, ToldAfter DEF SameRecord
<1>6. ASSUME e.state \in {"Active", "Completed"}, Acceptable(e, m.segment_index),
             NEW taken \in SinkResults, NEW next \in Accept(r, m.segment_index),
             o \in IF taken THEN sendAck(next) ELSE Silent(Fail(r))
      PROVE  Told(e, m, o)
  <2>1. r.state = "Active" /\ Acceptable(r, m.segment_index)
    BY <1>2, <1>6 DEF Acceptable
  <2>2. CASE taken
    <3>1. EngineInv(next)
      BY <1>2, <2>1, AcceptKeeps
    <3>2. /\ Recorded(next) /\ Recalls(r, next)
          /\ next.setup = r.setup /\ next.state # "Idle"
      BY <1>2, <1>3, <2>1, AcceptRecorded
    <3>3. Told(next, m, o)
      BY <1>6, <2>2, <3>1, <3>2, SendAckTold
    <3>4. Recalls(e, next) /\ next.setup = e.setup
      BY <1>2, <1>3, <3>2 DEF Recalls, SameRecord
    <3>5. QED
      BY <1>6, <3>2, <3>3, <3>4, ToldAfter
  <2>3. CASE ~taken
    <3>1. o \in Silent(Fail(r))
      BY <1>6, <2>3
    <3>2. SameRecord(e, Fail(r))
      BY <1>2 DEF SameRecord
    <3>3. QED
      BY <3>1, <3>2, SilentTold
  <2>4. QED
    BY <2>2, <2>3
<1>7. QED
  BY <1>4, <1>5, <1>6, SegmentCases DEF r

(* handleSetup(): the old record stays, and a new transfer starts its own. *)
LEMMA HandleSetupTold ==
  ASSUME NEW e, EngineInv(e), Recorded(e), NEW m, m.type = "Setup", m.setup \in Setups,
         NEW o \in handleSetup(e, m.setup)
  PROVE  Told(e, m, o)
<1> DEFINE r == [e EXCEPT !.expired = FALSE]
           b == Begin(e, m.setup)
<1>1. EngineInv(r) /\ SameRecord(e, r) /\ r.state = e.state
  BY ExpiryKeeps, StampSameRecord
<1>2. /\ EngineInv(b) /\ b.state = "Active" /\ b.setup = m.setup
      /\ Recorded(b) /\ Recalls(e, b)
  BY BeginKeeps, BeginRecorded
<1>3. \/ \E reason : o \in sendReject(e, m.setup.session_id, reason)
      \/ e.state = "Active" /\ o \in sendAck(r)
      \/ e.state # "Active" /\ o \in sendAck(b)
  BY SetupCases
<1> HIDE DEF r, b
<1>4. CASE \E reason : o \in sendReject(e, m.setup.session_id, reason)
  BY <1>4, SendRejectTold
<1>5. CASE e.state = "Active" /\ o \in sendAck(r)
  <2>1. Recorded(r) /\ Recalls(e, r)
    BY <1>1, SameRecordKeeps
  <2>2. Told(r, m, o)
    BY <1>1, <1>5, <2>1, SendAckTold
  <2>3. QED
    BY <1>1, <2>1, <2>2, ToldAfter DEF SameRecord
<1>6. CASE e.state # "Active" /\ o \in sendAck(b)
  <2>1. Told(b, m, o)
    BY <1>2, <1>6, SendAckTold
  <2>2. o.engine.setup = m.setup
    BY <1>2, <2>1 DEF Told
  <2>3. QED
    BY <1>2, <2>1, <2>2 DEF Told, Recalls
<1>7. QED
  BY <1>3, <1>4, <1>5, <1>6

(* handleProbe() answers for a transfer, and handleAbort() ends one.       *)
LEMMA HandleProbeTold ==
  ASSUME NEW e, EngineInv(e), Recorded(e), NEW m, NEW o \in handleProbe(e, m)
  PROVE  Told(e, m, o)
<1> DEFINE r == [e EXCEPT !.expired = FALSE]
<1>1. EngineInv(r) /\ SameRecord(e, r) /\ r.state = e.state
  BY ExpiryKeeps, StampSameRecord
<1>2. o \in Silent(e) \/ (e.state \in {"Active", "Completed"} /\ o \in sendAck(r))
  BY DEF handleProbe
<1> HIDE DEF r
<1>3. CASE o \in Silent(e)
  BY <1>3, SilentTold DEF SameRecord
<1>4. CASE e.state \in {"Active", "Completed"} /\ o \in sendAck(r)
  <2>1. Recorded(r) /\ Recalls(e, r)
    BY <1>1, SameRecordKeeps
  <2>2. Told(r, m, o)
    BY <1>1, <1>4, <2>1, SendAckTold
  <2>3. QED
    BY <1>1, <2>1, <2>2, ToldAfter DEF SameRecord
<1>5. QED
  BY <1>2, <1>3, <1>4

(* An aborted transfer leaves the record of its segments.                  *)
LEMMA AbortedSameRecord ==
  ASSUME NEW e, EngineInv(e), e.state = "Active"
  PROVE  SameRecord(e, [e EXCEPT !.state = "Aborted", !.ended = @ + 1])
BY DEF SameRecord, EngineInv, Engines

(* handleAbort() ends the transfer it names, and leaves the record.        *)
LEMMA HandleAbortTold ==
  ASSUME NEW e, EngineInv(e), Recorded(e), NEW m, NEW o \in handleAbort(e, m)
  PROVE  Told(e, m, o)
<1> DEFINE aborted == [e EXCEPT !.state = "Aborted", !.ended = @ + 1]
<1>1. o \in Silent(e) \/ (e.state = "Active" /\ o \in Silent(aborted))
  BY DEF handleAbort
<1>2. e.state = "Active" => SameRecord(e, aborted)
  BY AbortedSameRecord
<1> HIDE DEF aborted
<1>3. SameRecord(e, e)
  BY DEF SameRecord
<1>4. QED
  BY <1>1, <1>2, <1>3, SilentTold

(* Every call of process() keeps the record.                               *)
LEMMA ProcessTold ==
  ASSUME NEW e, EngineInv(e), Recorded(e), NEW m, Readable(m),
         NEW o \in EngineProcess(e, m)
  PROVE  Told(e, m, o)
<1>1. CASE Expired(e)
  <2>1. o \in Silent(Fail(e))
    BY <1>1 DEF EngineProcess
  <2>2. SameRecord(e, Fail(e))
    BY FailSameRecord DEF EngineInv
  <2>3. QED
    BY <2>1, <2>2, SilentTold
<1>2. CASE ~Expired(e)
  <2>1. o \in Handle(e, m)
    BY <1>2 DEF EngineProcess
  <2>2. CASE m.type = "Segment"
    BY <2>1, <2>2, HandleSegmentTold DEF Handle, Readable
  <2>3. CASE m.type = "Setup"
    BY <2>1, <2>3, HandleSetupTold DEF Handle, Readable
  <2>4. CASE m.type = "Probe"
    BY <2>1, <2>4, HandleProbeTold DEF Handle
  <2>5. CASE m.type = "Abort"
    BY <2>1, <2>5, HandleAbortTold DEF Handle
  <2>6. CASE m.type \notin {"Segment", "Setup", "Probe", "Abort"}
    <3>1. \/ o \in Silent(e)
          \/ o \in sendReject(e, m.session_id, "InvalidArgument")
      BY <2>1, <2>6 DEF Handle
    <3>2. SameRecord(e, e)
      BY DEF SameRecord
    <3>3. QED
      BY <3>1, <3>2, SendRejectTold, SilentTold
  <2>7. QED
    BY <2>2, <2>3, <2>4, <2>5, <2>6
<1>3. QED
  BY <1>1, <1>2

-----------------------------------------------------------------------------
(* What an ACK of a transfer says, of which every word has come true: a    *)
(* prefix of the object and the marked segments after it are delivered,    *)
(* and the whole object is only named when completion was reported.        *)
Backed(a, setup, deliveries, completions) ==
  \E c \in 0 .. setupSegmentCount(setup) :
    /\ a.session_id = setup.session_id
    /\ a.window_base = baseSequence(setup, c)
    /\ \A i \in 0 .. (c - 1) : <<setup.session_id, i>> \in deliveries
    /\ \A o \in a.window_bitmap : <<setup.session_id, c + o>> \in deliveries
    /\ c = setupSegmentCount(setup) => setup.session_id \in completions

(* What was true of an ACK stays true.                                     *)
LEMMA BackedStays ==
  ASSUME NEW a, NEW setup, NEW e, NEW f, Recalls(e, f),
         Backed(a, setup, e.deliveries, e.completions)
  PROVE  Backed(a, setup, f.deliveries, f.completions)
BY DEF Backed, Recalls

(* A sequence number is one.                                               *)
LEMMA SequenceTyped ==
  ASSUME NEW x \in Int
  PROVE  x % SequenceModulus \in SequenceNumbers
<1>1. SequenceModulus \in Nat \ {0}
  BY ModulusAssumption
<1>2. PICK q \in Int, r \in 0 .. (SequenceModulus - 1) : x % SequenceModulus = r
  BY <1>1, ModDivides
<1>3. QED
  BY <1>2 DEF SequenceNumbers

(* The ACK of an engine is backed by what the application heard.           *)
LEMMA CurrentAckBacked ==
  ASSUME NEW e, EngineInv(e), Recorded(e), e.state # "Idle"
  PROVE  /\ Answerable(CurrentAck(e))
         /\ Backed(CurrentAck(e), e.setup, e.deliveries, e.completions)
<1> DEFINE a == CurrentAck(e)
           c == e.contiguous_count
<1>1. /\ e.setup \in Setups /\ c \in Nat /\ e.granted_end \in Nat
      /\ e.receive_bitmap \in SUBSET Offsets /\ c <= e.segment_count
      /\ e.segment_count = setupSegmentCount(e.setup) /\ e.segment_count \in Nat
  BY DEF EngineInv, Engines, GrantIsBacked, Recorded
<1>2. e.setup.initial_sequence_number \in Int
  BY <1>1, ModulusAssumption DEF Setups, SequenceNumbers
<1>3. /\ baseSequence(e.setup, c) \in SequenceNumbers
      /\ sequenceFor(e.setup, e.granted_end - 1) \in SequenceNumbers
  BY <1>1, <1>2, SequenceTyped DEF baseSequence, sequenceFor
<1>4. /\ a.window_base = baseSequence(e.setup, c) /\ a.session_id = e.setup.session_id
      /\ a.window_bitmap \subseteq e.receive_bitmap
      /\ a.max_receive_sequence \in {sequenceFor(e.setup, e.granted_end - 1),
                                     baseSequence(e.setup, c)}
  BY DEF CurrentAck, AckMessage
<1>5. /\ 0 .. (c - 1) \subseteq e.accepted
      /\ {c + o : o \in a.window_bitmap} \subseteq e.accepted
  BY CurrentAckHonest
<1> HIDE DEF a, c
<1>6. Answerable(a)
  BY <1>1, <1>3, <1>4 DEF Answerable
<1>7. Backed(a, e.setup, e.deliveries, e.completions)
  <2>1. c \in 0 .. setupSegmentCount(e.setup)
    BY <1>1
  <2>2. \A o \in a.window_bitmap : c + o \in e.accepted
    BY <1>5
  <2>3. c = setupSegmentCount(e.setup) => e.setup.session_id \in e.completions
    BY <1>1 DEF Recorded, c
  <2>4. QED
    BY <1>4, <1>5, <2>1, <2>2, <2>3 DEF Backed, Recorded
<1>8. QED
  BY <1>6, <1>7 DEF a

-----------------------------------------------------------------------------
(* What the transmitter takes as received and as complete.                 *)
Believes(t, deliveries, completions) ==
  /\ \A i \in 0 .. (t.segment_count - 1) :
       (\/ i < t.acknowledged_count
        \/ i - t.acknowledged_count \in t.acknowledged_bitmap)
         => <<t.setup.session_id, i>> \in deliveries
  /\ t.state = "Completed" => t.setup.session_id \in completions

(* The transfer is another session's, and not further.                     *)
SameTransfer(t, u) ==
  /\ u.setup = t.setup /\ u.segment_count = t.segment_count
  /\ u.state = "Completed" => t.state = "Completed"
  /\ InTransfer(u) => InTransfer(t)

(* A PDU a session sends of its own transfer.                              *)
Outgoing(m, setup) ==
  /\ m.type = "Setup" => m = SetupMessage(setup)
  /\ m.type = "Segment" => m.segment_index \in Nat

(* Less than a turn apart, the wrapped difference of two bases is their    *)
(* distance, or what the distance leaves of the turn.                      *)
LEMMA BaseDistance ==
  ASSUME NEW setup \in Setups, NEW a \in Nat, NEW c \in Nat,
         a < SequenceModulus, c < SequenceModulus
  PROVE  SequenceDistance(baseSequence(setup, a), baseSequence(setup, c))
           = IF c >= a THEN c - a ELSE c + SequenceModulus - a
<1>1. PICK M \in Nat \ {0} : M = SequenceModulus
  BY ModulusAssumption
<1>2. PICK x \in Int, y \in Int : /\ x = setup.initial_sequence_number + a - 1
                                 /\ y = setup.initial_sequence_number + c - 1
  BY <1>1 DEF Setups, SequenceNumbers
<1>3. y - x = c - a
  BY <1>1, <1>2 DEF Setups, SequenceNumbers
<1>4. PICK p \in Int, r \in 0 .. (M - 1) : x = p * M + r /\ x % M = r
  BY ModDivides
<1>5. PICK q \in Int, v \in 0 .. (M - 1) : y = q * M + v /\ y % M = v
  BY ModDivides
<1>6. SequenceDistance(baseSequence(setup, a), baseSequence(setup, c)) = (v - r) % M
  BY <1>1, <1>2, <1>4, <1>5 DEF SequenceDistance, baseSequence
<1>7. CASE c >= a
  <2>1. PICK d \in 0 .. (M - 1) : d = c - a
    BY <1>1, <1>7
  <2>2. PICK n \in Int : n = p - q
    OBVIOUS
  <2>3. n * M = p * M - q * M
    BY <2>2
  <2>4. v - r = n * M + d
    BY <1>3, <1>4, <1>5, <2>1, <2>3
  <2>5. (n * M + d) % M = d
    BY ModUnique
  <2>6. QED
    BY <1>6, <1>7, <2>1, <2>4, <2>5
<1>8. CASE c < a
  <2>1. PICK d \in 0 .. (M - 1) : d = c + M - a
    BY <1>1, <1>8
  <2>2. PICK n \in Int : n = p - q - 1
    OBVIOUS
  <2>3. n * M = p * M - q * M - M
    BY <2>2
  <2>4. v - r = n * M + d
    BY <1>3, <1>4, <1>5, <2>1, <2>3
  <2>5. (n * M + d) % M = d
    BY ModUnique
  <2>6. QED
    BY <1>1, <1>6, <1>8, <2>1, <2>4, <2>5
<1>9. QED
  BY <1>7, <1>8

(* handleAck() reads the position an ACK of its transfer was sent at, for  *)
(* an object with fewer segments than there are sequence numbers.          *)
LEMMA AckPosition ==
  ASSUME NEW t, SessionInv(t), t.segment_count < SequenceModulus,
         NEW m, Answerable(m), m.type = "Ack", PlausibleAck(t, m),
         NEW c \in 0 .. t.segment_count, m.window_base = baseSequence(t.setup, c)
  PROVE  t.acknowledged_count + Advance(t, m) = c
<1> DEFINE a == t.acknowledged_count
<1>1. /\ SequenceModulus \in Nat /\ a \in Nat /\ t.segment_count \in Nat
      /\ a <= t.segment_count /\ t.setup \in Setups
  BY ModulusAssumption DEF SessionInv, Sessions, WithinGrant
<1>2. a < SequenceModulus /\ c \in Nat /\ c < SequenceModulus
  BY <1>1
<1>3. Advance(t, m) = IF c >= a THEN c - a ELSE c + SequenceModulus - a
  BY <1>1, <1>2, BaseDistance DEF Advance
<1>4. /\ Advance(t, m) \in Nat /\ GrantSpan(m) \in Nat
      /\ a + Advance(t, m) + GrantSpan(m) <= t.segment_count
  BY AdvanceNatural DEF SessionInv, PlausibleAck
<1> HIDE DEF a
<1>5. a + Advance(t, m) = c
  BY <1>1, <1>2, <1>3, <1>4
<1>6. QED
  BY <1>5 DEF a

(* An ACK whose words are true is believed only as far as it is true.      *)
LEMMA ApplyAckBelieves ==
  ASSUME NEW t, SessionInv(t), InTransfer(t), t.segment_count < SequenceModulus,
         t.segment_count = setupSegmentCount(t.setup),
         NEW deliveries, NEW completions, Believes(t, deliveries, completions),
         NEW m, Answerable(m), m.type = "Ack", PlausibleAck(t, m),
         Backed(m, t.setup, deliveries, completions)
  PROVE  /\ Believes(ApplyAck(t, m), deliveries, completions)
         /\ ApplyAck(t, m).setup = t.setup
         /\ ApplyAck(t, m).segment_count = t.segment_count
<1> DEFINE u == ApplyAck(t, m)
           s == shiftWindow(t, Advance(t, m))
           session == t.setup.session_id
           base == t.acknowledged_count
<1>1. PICK c \in 0 .. t.segment_count :
        /\ m.window_base = baseSequence(t.setup, c)
        /\ \A i \in 0 .. (c - 1) : <<session, i>> \in deliveries
        /\ \A o \in m.window_bitmap : <<session, c + o>> \in deliveries
        /\ c = t.segment_count => session \in completions
  BY DEF Backed
<1>2. base + Advance(t, m) = c
  BY <1>1, AckPosition
<1>3. /\ t \in Sessions /\ Advance(t, m) \in Nat /\ base \in Nat /\ c \in Nat
      /\ t.segment_count \in Nat /\ kCompactWindowWidth \in Nat
  BY AdvanceNatural, WidthAssumption DEF SessionInv, Sessions
<1>4. /\ s \in Sessions /\ s.setup = t.setup /\ s.segment_count = t.segment_count
      /\ s.acknowledged_bitmap = ShiftRight(t.acknowledged_bitmap, Advance(t, m))
  <2>1. s.setup = t.setup
    BY <1>3 DEF shiftWindow, Sessions
  <2>2. QED
    BY <1>3, <2>1, ShiftWindowMoves
<1>5. /\ u.setup = t.setup /\ u.segment_count = t.segment_count
      /\ u.acknowledged_count = c
      /\ u.acknowledged_bitmap =
           s.acknowledged_bitmap \cup (m.window_bitmap \cap s.sent_bitmap)
      /\ u.state = IF c = t.segment_count THEN "Completed" ELSE "Active"
  <2> HIDE DEF s
  <2>1. u = [s EXCEPT
         !.acknowledged_count = c,
         !.acknowledged_bitmap = @ \cup (m.window_bitmap \cap s.sent_bitmap),
         !.granted_end = IF c + GrantSpan(m) > @ THEN c + GrantSpan(m) ELSE @,
         !.probe_timer_active = FALSE, !.probe_retry_count = 0,
         !.state = IF c = t.segment_count THEN "Completed" ELSE "Active",
         !.ended = IF c = t.segment_count THEN @ + 1 ELSE @]
    BY <1>2 DEF ApplyAck, s
  <2> HIDE DEF u
  <2>2. QED
    BY <1>4, <2>1 DEF Sessions
<1> HIDE DEF u, s
<1>6. ASSUME NEW i \in 0 .. (u.segment_count - 1),
             \/ i < u.acknowledged_count
             \/ i - u.acknowledged_count \in u.acknowledged_bitmap
      PROVE  <<session, i>> \in deliveries
  <2>1. CASE i < c
    BY <1>1, <1>3, <1>5, <2>1
  <2>2. CASE i - c \in m.window_bitmap
    <3>1. c + (i - c) = i
      BY <1>3, <1>5
    <3>2. QED
      BY <1>1, <2>2, <3>1
  <2>3. CASE i - c \in s.acknowledged_bitmap
    <3>1. (i - c) + Advance(t, m) \in t.acknowledged_bitmap
      BY <1>4, <2>3 DEF ShiftRight
    <3>2. (i - c) + Advance(t, m) = i - base /\ i \in 0 .. (t.segment_count - 1)
      BY <1>2, <1>3, <1>5
    <3>3. QED
      BY <3>1, <3>2 DEF Believes
  <2>4. QED
    BY <1>5, <1>6, <2>1, <2>2, <2>3
<1>7. u.state = "Completed" => session \in completions
  BY <1>1, <1>5
<1>8. QED
  BY <1>5, <1>6, <1>7 DEF Believes, u

(* Every datagram: nothing is believed that is not true, and no other one  *)
(* changes the transfer.                                                   *)
LEMMA HandleDatagramBelieves ==
  ASSUME NEW t, SessionInv(t),
         InTransfer(t) => /\ t.segment_count < SequenceModulus
                          /\ t.segment_count = setupSegmentCount(t.setup),
         NEW deliveries, NEW completions, Believes(t, deliveries, completions),
         NEW m, Answerable(m),
         m.type = "Ack" /\ InTransfer(t) /\ m.session_id = t.setup.session_id
           => Backed(m, t.setup, deliveries, completions)
  PROVE  LET h == handleDatagram(t, m)
         IN  /\ Believes(h, deliveries, completions)
             /\ h.setup = t.setup /\ h.segment_count = t.segment_count
             /\ InTransfer(h) => InTransfer(t)
<1> DEFINE h == handleDatagram(t, m)
           Ended(u) == /\ u.setup = t.setup /\ u.segment_count = t.segment_count
                       /\ u.acknowledged_count = t.acknowledged_count
                       /\ u.acknowledged_bitmap = t.acknowledged_bitmap
                       /\ u.state \in {"Rejected", "Aborted", "Error"}
<1>1. t \in Sessions
  BY DEF SessionInv
<1>2. /\ Ended([t EXCEPT !.state = "Rejected", !.ended = @ + 1])
      /\ Ended([t EXCEPT !.state = "Error"])
      /\ Ended(transitionToAborted(t))
  BY <1>1 DEF Sessions, transitionToAborted
<1>3. \/ h = t \/ Ended(h)
      \/ /\ m.type = "Ack" /\ InTransfer(t) /\ m.session_id = t.setup.session_id
         /\ PlausibleAck(t, m) /\ h = ApplyAck(t, m)
  <2> HIDE DEF Ended
  <2>1. CASE m.type = "Ack"
    BY <2>1 DEF handleDatagram, handleAck
  <2>2. CASE m.type = "Reject"
    BY <1>2, <2>2 DEF handleDatagram, handleReject
  <2>3. CASE m.type = "Abort"
    BY <1>2, <2>3 DEF handleDatagram, handlePeerAbort
  <2>4. CASE m.type \notin {"Ack", "Reject", "Abort"}
    BY <1>2, <2>4 DEF handleDatagram
  <2>5. QED
    BY <2>1, <2>2, <2>3, <2>4
<1> HIDE DEF h
<1>4. CASE h = t
  BY <1>4 DEF h
<1>5. CASE Ended(h)
  BY <1>5 DEF Believes, InTransfer, h
<1>6. CASE /\ m.type = "Ack" /\ InTransfer(t) /\ m.session_id = t.setup.session_id
           /\ PlausibleAck(t, m) /\ h = ApplyAck(t, m)
  BY <1>6, ApplyAckBelieves DEF h
<1>7. QED
  BY <1>3, <1>4, <1>5, <1>6

(* One call of step(): the transfer is not changed, and what is sent is    *)
(* its own and only sent while it lasts.                                   *)
Sends(t, o) ==
  /\ SameTransfer(t, o.session)
  /\ \A m \in o.out : InTransfer(t) /\ Outgoing(m, t.setup)

(* A step that sends nothing.                                              *)
LEMMA QuietSends ==
  ASSUME NEW t, NEW u, SameTransfer(t, u), NEW o \in Quiet(u)
  PROVE  Sends(t, o)
BY DEF Quiet, TxOutcome, Sends

(* Whatever the Link answers, a send says what it was given to say.        *)
LEMMA ForwardSends ==
  ASSUME NEW t \in Sessions, InTransfer(t), NEW taken, SameTransfer(t, taken),
         NEW message, Outgoing(message, t.setup),
         NEW o \in Forward(t, message, taken)
  PROVE  Sends(t, o)
<1>1. SameTransfer(t, t) /\ SameTransfer(t, [t EXCEPT !.state = "Error"])
  BY DEF SameTransfer, Sessions, InTransfer
<1>2. /\ o.session \in {taken, t, [t EXCEPT !.state = "Error"]}
      /\ o.out \subseteq {message}
  BY DEF Forward, TxOutcome
<1>3. QED
  BY <1>1, <1>2 DEF Sends

(* An abort says so to the peer of the transfer it ends.                   *)
LEMMA AbortSends ==
  ASSUME NEW t \in Sessions, InTransfer(t), NEW o \in AbortTransfer(t)
  PROVE  Sends(t, o)
<1>1. SameTransfer(t, transitionToAborted(t))
  BY DEF transitionToAborted, SameTransfer, InTransfer, Sessions
<1>2. /\ o.session = transitionToAborted(t)
      /\ o.out \subseteq {AbortMessage(t.setup.session_id)}
  BY DEF AbortTransfer, TxOutcome
<1>3. Outgoing(AbortMessage(t.setup.session_id), t.setup)
  BY DEF Outgoing, AbortMessage
<1>4. QED
  BY <1>1, <1>2, <1>3 DEF Sends

(* sendSetup() says what the transfer is.                                  *)
LEMMA SendSetupSends ==
  ASSUME NEW t \in Sessions, InTransfer(t), NEW retransmission \in BOOLEAN,
         NEW o \in sendSetup(t, retransmission)
  PROVE  Sends(t, o)
<1> DEFINE taken == [t EXCEPT !.setup_sent = TRUE, !.setup_due = FALSE,
                       !.setup_retry_count = IF retransmission THEN @ + 1 ELSE @]
<1>1. SameTransfer(t, taken)
  BY DEF SameTransfer, Sessions, InTransfer
<1>2. o \in Forward(t, SetupMessage(t.setup), taken)
  BY DEF sendSetup
<1>3. Outgoing(SetupMessage(t.setup), t.setup)
  BY DEF Outgoing, SetupMessage
<1> HIDE DEF taken
<1>4. QED
  BY <1>1, <1>2, <1>3, ForwardSends

(* sendProbe() asks for an ACK of the transfer.                            *)
LEMMA SendProbeSends ==
  ASSUME NEW t \in Sessions, InTransfer(t), NEW o \in sendProbe(t)
  PROVE  Sends(t, o)
<1> DEFINE taken == [t EXCEPT !.probe_due = FALSE, !.probe_retry_count = @ + 1]
<1>1. SameTransfer(t, taken)
  BY DEF SameTransfer, Sessions, InTransfer
<1>2. o \in Forward(t, ProbeMessage(t.setup.session_id), taken)
  BY DEF sendProbe
<1>3. Outgoing(ProbeMessage(t.setup.session_id), t.setup)
  BY DEF Outgoing, ProbeMessage
<1> HIDE DEF taken
<1>4. QED
  BY <1>1, <1>2, <1>3, ForwardSends

(* sendSegment() names a segment of the transfer.                          *)
LEMMA SendSegmentSends ==
  ASSUME NEW t \in Sessions, InTransfer(t), NEW offset \in Offsets,
         NEW retransmission \in BOOLEAN, NEW o \in sendSegment(t, offset, retransmission)
  PROVE  Sends(t, o)
<1> DEFINE index == t.acknowledged_count + offset
           message == SegmentMessage(t.setup, index)
           taken == [t EXCEPT !.sent_bitmap = @ \cup {offset},
                        !.due = @ \ {offset},
                        !.segment_retry_count[offset] =
                          IF retransmission THEN @ + 1 ELSE 0,
                        !.probe_timer_active = FALSE,
                        !.admitted[index] = @ + 1]
<1>1. SameTransfer(t, taken)
  BY DEF SameTransfer, Sessions, InTransfer
<1>2. o \in Forward(t, message, taken)
  BY DEF sendSegment
<1>3. index \in Nat
  BY WidthAssumption DEF Sessions, Offsets
<1>4. Outgoing(message, t.setup)
  BY <1>3 DEF Outgoing, SegmentMessage
<1> HIDE DEF taken, message
<1>5. QED
  BY <1>1, <1>2, <1>4, ForwardSends

(* Each of the steps of process().                                         *)
LEMMA StepSends ==
  ASSUME NEW t, SessionInv(t), NEW o \in Step(t)
  PROVE  Sends(t, o)
<1>1. t \in Sessions /\ SameTransfer(t, t)
  BY DEF SessionInv, SameTransfer
<1>2. Unsent(t) \subseteq Offsets /\ Overdue(t) \subseteq Offsets
  BY DEF Unsent, Overdue, Outstanding, Window, lowBitMask
<1>3. CASE t.state = "Starting"
  <2>1. InTransfer(t) /\ o \in StartingStep(t)
    BY <1>3 DEF Step, InTransfer
  <2>2. \/ o \in sendSetup(t, FALSE) \/ o \in sendSetup(t, TRUE)
        \/ o \in AbortTransfer(t) \/ o \in Quiet(t)
    BY <1>1, <2>1 DEF StartingStep, Sessions
  <2>3. QED
    BY <1>1, <2>1, <2>2, SendSetupSends, AbortSends, QuietSends
<1>4. CASE t.state = "Active"
  <2>1. InTransfer(t) /\ o \in ActiveStep(t)
    BY <1>4 DEF Step, InTransfer
  <2>2. CASE Unsent(t) # {}
    <3>1. First(Unsent(t)) \in Offsets
      BY <1>2, <2>2, FirstChosen
    <3>2. o \in sendSegment(t, First(Unsent(t)), FALSE)
      BY <2>1, <2>2 DEF ActiveStep
    <3>3. QED
      BY <1>1, <2>1, <3>1, <3>2, SendSegmentSends
  <2>3. CASE Unsent(t) = {} /\ Overdue(t) # {}
    <3>1. First(Overdue(t)) \in Offsets
      BY <1>2, <2>3, FirstChosen
    <3>2. o \in RetransmitStep(t, First(Overdue(t)))
      BY <2>1, <2>3 DEF ActiveStep
    <3>3. \/ o \in AbortTransfer(t)
          \/ o \in sendSegment(t, First(Overdue(t)), TRUE)
      BY <3>2 DEF RetransmitStep
    <3>4. QED
      BY <1>1, <2>1, <3>1, <3>3, SendSegmentSends, AbortSends
  <2>4. CASE /\ Unsent(t) = {} /\ Overdue(t) = {}
             /\ Outstanding(t) = {} /\ t.acknowledged_count < t.segment_count
    <3> DEFINE u == [t EXCEPT !.probe_timer_active = TRUE, !.probe_due = FALSE]
    <3>1. SameTransfer(t, u)
      BY <1>1 DEF SameTransfer, Sessions, InTransfer
    <3>2. \/ o \in Quiet(u) \/ o \in AbortTransfer(t) \/ o \in sendProbe(t)
          \/ o \in Quiet(t)
      <4>1. o \in ProbeStep(t)
        BY <2>1, <2>4 DEF ActiveStep
      <4>2. QED
        BY <1>1, <4>1 DEF ProbeStep, Sessions
    <3> HIDE DEF u
    <3>3. QED
      BY <1>1, <2>1, <3>1, <3>2, SendProbeSends, AbortSends, QuietSends
  <2>5. CASE /\ Unsent(t) = {} /\ Overdue(t) = {}
             /\ ~(Outstanding(t) = {} /\ t.acknowledged_count < t.segment_count)
    <3> DEFINE u == [t EXCEPT !.probe_timer_active = FALSE, !.probe_retry_count = 0]
    <3>1. SameTransfer(t, u)
      BY <1>1 DEF SameTransfer, Sessions, InTransfer
    <3>2. o \in Quiet(u)
      BY <2>1, <2>5 DEF ActiveStep
    <3> HIDE DEF u
    <3>3. QED
      BY <3>1, <3>2, QuietSends
  <2>6. QED
    BY <2>2, <2>3, <2>4, <2>5
<1>5. CASE t.state \notin {"Starting", "Active"}
  BY <1>1, <1>5, QuietSends DEF Step
<1>6. QED
  BY <1>3, <1>4, <1>5

-----------------------------------------------------------------------------
(* The engine holds a transfer only because its SETUP was sent.            *)
Requested(e, sent) == e.state # "Idle" => SetupMessage(e.setup) \in sent

(* An answer says of a transfer whose SETUP was sent only what is true.    *)
Vouched(a, sent, e) ==
  /\ Answerable(a)
  /\ a.type = "Ack" => \E s \in sent : /\ s.type = "Setup"
                                       /\ Backed(a, s.setup, e.deliveries, e.completions)

(* A SETUP ever sent is the only one of its session, and the session is    *)
(* one the application has used up.                                        *)
OneSetup(m, t, identities) ==
  m.type = "Setup" =>
    /\ m = SetupMessage(m.setup)
    /\ m.setup.session_id \in identities
    /\ m.setup.session_id = t.setup.session_id => m.setup = t.setup

(* The transfer that runs is as its SETUP says, and short.                 *)
Described(t, identities) ==
  InTransfer(t) => /\ t.setup.session_id \in identities
                   /\ t.segment_count = setupSegmentCount(t.setup)
                   /\ t.segment_count < SequenceModulus

(* The inductive invariant: each peer's own, what each has sent, and what  *)
(* the transmitter believes.                                               *)
TransferInv ==
  /\ EngineInv(rx) /\ Recorded(rx) /\ Requested(rx, txSent)
  /\ SessionInv(tx) /\ Described(tx, used)
  /\ \A m \in txSent : Readable(m) /\ OneSetup(m, tx, used)
  /\ \A a \in rxSent : Vouched(a, txSent, rx)
  /\ Believes(tx, rx.deliveries, rx.completions)

(* What was said and believed stays true as the receiver goes on, and      *)
(* sending more takes nothing back.                                        *)
LEMMA TruthStays ==
  ASSUME NEW e, NEW f, Recalls(e, f), NEW sent, NEW more, sent \subseteq more
  PROVE  /\ \A a : Vouched(a, sent, e) => Vouched(a, more, f)
         /\ \A t : Believes(t, e.deliveries, e.completions)
                     => Believes(t, f.deliveries, f.completions)
<1>1. ASSUME NEW a, Vouched(a, sent, e)
      PROVE  Vouched(a, more, f)
  BY <1>1, BackedStays DEF Vouched
<1>2. ASSUME NEW t, Believes(t, e.deliveries, e.completions)
      PROVE  Believes(t, f.deliveries, f.completions)
  BY <1>2 DEF Believes, Recalls
<1>3. QED
  BY <1>1, <1>2

(* A call of the engine answers with nothing it cannot vouch for.          *)
LEMMA CallVouched ==
  ASSUME NEW e, EngineInv(e), Recorded(e), NEW sent, Requested(e, sent),
         NEW m, Readable(m),
         m.type = "Setup" => m \in sent /\ m = SetupMessage(m.setup),
         NEW o \in EngineProcess(e, m)
  PROVE  /\ EngineInv(o.engine) /\ Recorded(o.engine) /\ Requested(o.engine, sent)
         /\ Recalls(e, o.engine)
         /\ \A a \in o.out : Vouched(a, sent, o.engine)
<1>1. EngineInv(o.engine) /\ CallStep(e, m, o) /\ Told(e, m, o)
  BY ProcessKeeps, ProcessTold
<1>2. Recorded(o.engine) /\ Recalls(e, o.engine) /\ Answered(o)
  BY <1>1 DEF Told, CallStep, Kept
<1>3. Requested(o.engine, sent)
  BY <1>1 DEF Told, Requested
<1>4. ASSUME NEW a \in o.out
      PROVE  Vouched(a, sent, o.engine)
  <2>1. CASE a.type # "Ack"
    BY <2>1 DEF Vouched, Answerable
  <2>2. CASE a.type = "Ack"
    <3>1. a = CurrentAck(o.engine) /\ o.engine.state # "Idle"
      BY <1>1, <1>2, <2>2 DEF Answered, Told
    <3>2. /\ Answerable(a)
          /\ Backed(a, o.engine.setup, o.engine.deliveries, o.engine.completions)
      BY <1>1, <1>2, <3>1, CurrentAckBacked
    <3>3. SetupMessage(o.engine.setup) \in sent
      BY <1>3, <3>1 DEF Requested
    <3>4. /\ SetupMessage(o.engine.setup).type = "Setup"
          /\ SetupMessage(o.engine.setup).setup = o.engine.setup
      BY DEF SetupMessage
    <3>5. QED
      BY <3>2, <3>3, <3>4 DEF Vouched
  <2>3. QED
    BY <2>1, <2>2
<1>5. QED
  BY <1>1, <1>2, <1>3, <1>4

(* A step of the receiver that is recorded and vouched for is kept.        *)
LEMMA ReceiverSideKeeps ==
  ASSUME TransferInv, UNCHANGED <<tx, txSent, used>>,
         EngineInv(rx'), Recorded(rx'), Requested(rx', txSent), Recalls(rx, rx'),
         NEW out, rxSent' = rxSent \cup out,
         \A a \in out : Vouched(a, txSent, rx')
  PROVE  TransferInv'
<1>1. \A a \in rxSent' : Vouched(a, txSent, rx')
  BY TruthStays DEF TransferInv
<1>2. Believes(tx, rx'.deliveries, rx'.completions)
  BY TruthStays DEF TransferInv
<1>3. QED
  BY <1>1, <1>2 DEF TransferInv

(* A step of the transmitter within its transfer, that sends its own.      *)
LEMMA TransmitterSideKeeps ==
  ASSUME TransferInv, UNCHANGED <<rx, rxSent, used>>,
         SessionInv(tx'), tx'.setup = tx.setup, tx'.segment_count = tx.segment_count,
         InTransfer(tx') => InTransfer(tx),
         Believes(tx', rx.deliveries, rx.completions),
         NEW out, txSent' = txSent \cup out,
         \A m \in out : InTransfer(tx) /\ Outgoing(m, tx.setup)
  PROVE  TransferInv'
<1>1. Described(tx', used)
  BY DEF TransferInv, Described
<1>2. \A m \in txSent : Readable(m) /\ OneSetup(m, tx', used)
  BY DEF TransferInv, OneSetup
<1>3. ASSUME NEW m \in out
      PROVE  Readable(m) /\ OneSetup(m, tx', used)
  <2>1. tx.setup \in Setups /\ tx.setup.session_id \in used
    BY <1>3 DEF TransferInv, SessionInv, Sessions, Described
  <2>2. m.type = "Setup" => m = SetupMessage(tx.setup) /\ m.setup = tx.setup
    BY <1>3 DEF Outgoing, SetupMessage
  <2>3. QED
    BY <1>3, <2>1, <2>2 DEF Readable, OneSetup, Outgoing
<1>4. \A a \in rxSent : Vouched(a, txSent', rx)
  <2>1. Recalls(rx, rx) /\ txSent \subseteq txSent'
    BY DEF Recalls
  <2>2. QED
    BY <2>1, TruthStays DEF TransferInv
<1>5. Requested(rx, txSent')
  BY DEF TransferInv, Requested
<1>6. QED
  BY <1>1, <1>2, <1>3, <1>4, <1>5 DEF TransferInv

(* Nothing has been sent, and nothing is believed.                         *)
LEMMA TransferInitInv ==
  ASSUME Init
  PROVE  TransferInv
<1>1. EngineInv(rx) /\ SessionInv(tx)
  BY InitialEngineInv, InitialSessionInv DEF Init
<1>2. Recorded(rx) /\ Requested(rx, txSent)
  BY DEF Init, InitialEngine, Recorded, Requested
<1>3. Described(tx, used) /\ Believes(tx, rx.deliveries, rx.completions)
  BY DEF Init, InitialSession, Described, InTransfer, Believes
<1>4. QED
  BY <1>1, <1>2, <1>3 DEF Init, TransferInv

(* startTransfer() believes nothing yet, and its SETUP is unlike any sent. *)
LEMMA StartTransferKeeps ==
  ASSUME ShortObjects, TransferInv, NEW q \in Requests, StartTransfer(q)
  PROVE  TransferInv'
<1> DEFINE count == segmentCount(q.object_size, q.segment_size)
           u == startTransfer(q)
<1>1. /\ q.session_id \in Nat /\ q.initial_sequence_number \in SequenceNumbers
      /\ q.object_size \in Nat \ {0} /\ q.segment_size \in Nat \ {0}
      /\ Startable(tx, q) /\ q.session_id \notin used
      /\ tx' = u /\ used' = used \cup {q.session_id}
      /\ UNCHANGED <<rx, txSent, rxSent>>
  BY RequestAssumption DEF StartTransfer
<1>2. SessionInv(u)
  BY <1>1, StartKeeps
<1>3. count \in Nat /\ count < SequenceModulus
  BY <1>1, CapacityAssumption DEF Startable, ShortObjects
<1>4. /\ u.state = "Starting" /\ u.setup = SetupOf(q) /\ u.segment_count = count
      /\ u.acknowledged_count = 0 /\ u.acknowledged_bitmap = {}
  BY DEF startTransfer, InitialSession
<1>5. /\ SetupOf(q).session_id = q.session_id
      /\ SetupOf(q).final_segment_index = count - 1
  BY DEF SetupOf
<1> HIDE DEF count, u
<1>6. Described(u, used')
  <2>1. count = (count - 1) + 1
    BY <1>3
  <2>2. QED
    BY <1>1, <1>3, <1>4, <1>5, <2>1 DEF Described, setupSegmentCount
<1>7. Believes(u, rx.deliveries, rx.completions)
  BY <1>3, <1>4 DEF Believes
<1>8. ASSUME NEW m \in txSent
      PROVE  OneSetup(m, u, used')
  <2>1. OneSetup(m, tx, used)
    BY DEF TransferInv
  <2>2. QED
    BY <1>1, <1>4, <1>5, <2>1 DEF OneSetup
<1>9. QED
  BY <1>1, <1>2, <1>6, <1>7, <1>8 DEF TransferInv

(* BitsTransmitter::process believes an answer, and sends its own.         *)
LEMMA TransmitterProcessKeeps ==
  ASSUME TransferInv, TransmitterProcess
  PROVE  TransferInv'
<1>1. PICK m \in rxSent \cup {NoMessage} :
        \E o \in SessionProcess(tx, m) :
          /\ tx' = o.session /\ txSent' = txSent \cup o.out
          /\ UNCHANGED <<rx, rxSent, used>>
  BY DEF TransmitterProcess
<1> DEFINE h == handleDatagram(tx, m)
<1>2. PICK o \in Step(h) : /\ tx' = o.session /\ txSent' = txSent \cup o.out
                           /\ UNCHANGED <<rx, rxSent, used>>
  BY <1>1 DEF SessionProcess
<1>3. Answerable(m)
  BY DEF TransferInv, Vouched, Answerable, NoMessage
<1>4. ASSUME m.type = "Ack", InTransfer(tx), m.session_id = tx.setup.session_id
      PROVE  Backed(m, tx.setup, rx.deliveries, rx.completions)
  <2>1. m \in rxSent
    BY <1>4 DEF NoMessage
  <2>2. PICK s \in txSent : /\ s.type = "Setup"
                            /\ Backed(m, s.setup, rx.deliveries, rx.completions)
    BY <1>4, <2>1 DEF TransferInv, Vouched
  <2>3. s.setup.session_id = tx.setup.session_id
    BY <1>4, <2>2 DEF Backed
  <2>4. s.setup = tx.setup
    BY <2>2, <2>3 DEF TransferInv, OneSetup
  <2>5. QED
    BY <2>2, <2>4
<1>5. SessionInv(h)
  BY <1>3, HandleDatagramKeeps DEF TransferInv
<1>6. /\ Believes(h, rx.deliveries, rx.completions)
      /\ h.setup = tx.setup /\ h.segment_count = tx.segment_count
      /\ InTransfer(h) => InTransfer(tx)
  BY <1>3, <1>4, HandleDatagramBelieves DEF TransferInv, Described
<1> HIDE DEF h
<1>7. SessionInv(tx') /\ SameProgress(h, tx') /\ Sends(h, o)
  BY <1>2, <1>5, StepKeeps, StepSends
<1>8. /\ tx'.setup = tx.setup /\ tx'.segment_count = tx.segment_count
      /\ InTransfer(tx') => InTransfer(tx)
      /\ \A p \in o.out : InTransfer(tx) /\ Outgoing(p, tx.setup)
  BY <1>2, <1>6, <1>7 DEF Sends, SameTransfer
<1>9. Believes(tx', rx.deliveries, rx.completions)
  BY <1>2, <1>6, <1>7 DEF Sends, SameTransfer, SameProgress, Believes
<1>10. QED
  BY <1>2, <1>7, <1>8, <1>9, TransmitterSideKeeps

(* A session that is no further believes nothing more.                     *)
LEMMA StillBelieves ==
  ASSUME NEW t, NEW u, SameTransfer(t, u), SameProgress(t, u),
         NEW deliveries, NEW completions, Believes(t, deliveries, completions)
  PROVE  Believes(u, deliveries, completions)
BY DEF SameTransfer, SameProgress, Believes

(* BitsTransmitter::abort believes nothing new, and says ABORT at most.    *)
LEMMA TransmitterAbortKeeps ==
  ASSUME TransferInv, TransmitterAbort
  PROVE  TransferInv'
<1>1. InTransfer(tx) /\ SessionInv(tx) /\ tx \in Sessions
  BY DEF TransmitterAbort, TransferInv, SessionInv
<1>2. PICK o \in AbortTransfer(tx) : /\ tx' = o.session
                                     /\ txSent' = txSent \cup o.out
                                     /\ UNCHANGED <<rx, rxSent, used>>
  BY DEF TransmitterAbort
<1>3. SessionInv(tx') /\ SameProgress(tx, tx') /\ Sends(tx, o)
  BY <1>1, <1>2, AbortTransferKeeps, AbortSends
<1>4. SameTransfer(tx, tx') /\ \A p \in o.out : InTransfer(tx) /\ Outgoing(p, tx.setup)
  BY <1>2, <1>3 DEF Sends
<1>5. Believes(tx', rx.deliveries, rx.completions)
  BY <1>3, <1>4, StillBelieves DEF TransferInv
<1>6. QED
  BY <1>2, <1>3, <1>4, <1>5, TransmitterSideKeeps DEF SameTransfer

(* The clock of the transmitter changes nothing it believes.               *)
LEMMA TransmitterClockKeeps ==
  ASSUME TransferInv, SetupTimeout \/ SegmentTimeout \/ ProbeTimeout
  PROVE  TransferInv'
<1>1. SessionInv(tx) /\ tx \in Sessions
  BY DEF TransferInv, SessionInv
<1>2. /\ Ticked(tx', tx) /\ SameTransfer(tx, tx')
      /\ UNCHANGED <<rx, txSent, rxSent, used>>
  <2>1. CASE SetupTimeout
    <3>1. /\ tx' = [tx EXCEPT !.setup_due = TRUE]
          /\ UNCHANGED <<rx, txSent, rxSent, used>>
      BY <2>1 DEF SetupTimeout
    <3>2. SameTransfer(tx, tx')
      BY <1>1, <3>1 DEF SameTransfer, Sessions, InTransfer
    <3>3. QED
      BY <1>1, <3>1, <3>2, ClockKeeps
  <2>2. CASE SegmentTimeout
    <3>1. PICK offset \in Outstanding(tx) : tx' = [tx EXCEPT !.due = @ \cup {offset}]
      BY <2>2 DEF SegmentTimeout
    <3>2. offset \in Offsets
      BY DEF Outstanding, Window, lowBitMask
    <3>3. Ticked(tx', tx)
      BY <1>1, <3>1, <3>2, ClockKeeps
    <3>4. SameTransfer(tx, tx')
      BY <1>1, <3>1 DEF SameTransfer, Sessions, InTransfer
    <3>5. QED
      BY <2>2, <3>3, <3>4 DEF SegmentTimeout
  <2>3. CASE ProbeTimeout
    <3>1. /\ tx' = [tx EXCEPT !.probe_due = TRUE]
          /\ UNCHANGED <<rx, txSent, rxSent, used>>
      BY <2>3 DEF ProbeTimeout
    <3>2. SameTransfer(tx, tx')
      BY <1>1, <3>1 DEF SameTransfer, Sessions, InTransfer
    <3>3. QED
      BY <1>1, <3>1, <3>2, ClockKeeps
  <2>4. QED
    BY <2>1, <2>2, <2>3
<1>3. Believes(tx', rx.deliveries, rx.completions)
  BY <1>2, StillBelieves DEF TransferInv, Ticked
<1>4. PICK out : out = {}
  OBVIOUS
<1>5. /\ txSent' = txSent \cup out
      /\ \A m \in out : InTransfer(tx) /\ Outgoing(m, tx.setup)
  BY <1>2, <1>4
<1>6. /\ SessionInv(tx') /\ tx'.setup = tx.setup
      /\ tx'.segment_count = tx.segment_count
      /\ InTransfer(tx') => InTransfer(tx)
  BY <1>2 DEF Ticked, SameTransfer
<1>7. QED
  BY <1>2, <1>3, <1>5, <1>6, TransmitterSideKeeps

(* BitsReceiver::process: a segment and a datagram, or the expiry that     *)
(* finds both in their slots.                                              *)
LEMMA ReceiverProcessKeeps ==
  ASSUME TransferInv, ReceiverProcess
  PROVE  TransferInv'
<1>1. PICK segment \in Segments \cup {NoMessage}, datagram \in Controls \cup {NoMessage} :
        \E o \in ReceiverOutcomes(segment, datagram) :
          /\ rx' = o.engine /\ rxSent' = rxSent \cup o.out
          /\ UNCHANGED <<tx, txSent, used>>
  BY DEF ReceiverProcess
<1>2. PICK o \in ReceiverOutcomes(segment, datagram) :
          /\ rx' = o.engine /\ rxSent' = rxSent \cup o.out
          /\ UNCHANGED <<tx, txSent, used>>
  BY <1>1
<1>3. EngineInv(rx) /\ Recorded(rx) /\ Requested(rx, txSent)
  BY DEF TransferInv
<1>4. CASE Expired(rx)
  <2>1. rx' = Fail(rx) /\ o.out = {} /\ rx.state = "Active"
    BY <1>2, <1>4 DEF ReceiverOutcomes, Silent, Outcome, poll, Expired
  <2>2. EngineInv(rx') /\ SameRecord(rx, rx')
    BY <1>3, <2>1, FailKeeps, FailSameRecord DEF EngineInv
  <2>3. Recorded(rx') /\ Recalls(rx, rx') /\ Requested(rx', txSent)
    BY <1>3, <2>2, SameRecordKeeps DEF Requested, SameRecord
  <2>4. QED
    BY <1>2, <2>1, <2>2, <2>3, ReceiverSideKeeps
<1>5. CASE ~Expired(rx)
  <2>1. PICK first \in EngineProcess(rx, segment) :
          \E second \in EngineProcess(first.engine, datagram) :
            o = Outcome(second.engine, first.out \cup second.out)
    BY <1>5 DEF ReceiverOutcomes
  <2>2. PICK second \in EngineProcess(first.engine, datagram) :
          o.engine = second.engine /\ o.out = first.out \cup second.out
    BY <2>1 DEF Outcome
  <2>3. Readable(segment) /\ segment.type # "Setup"
    BY DEF TransferInv, Segments, Readable, NoMessage
  <2>4. /\ Readable(datagram)
        /\ datagram.type = "Setup"
             => datagram \in txSent /\ datagram = SetupMessage(datagram.setup)
    BY DEF TransferInv, Controls, Readable, NoMessage, OneSetup
  <2> DEFINE e == first.engine
  <2>5. /\ EngineInv(e) /\ Recorded(e) /\ Requested(e, txSent) /\ Recalls(rx, e)
        /\ \A a \in first.out : Vouched(a, txSent, e)
    BY <1>3, <2>3, CallVouched
  <2> HIDE DEF e
  <2>6. /\ EngineInv(rx') /\ Recorded(rx') /\ Requested(rx', txSent)
        /\ Recalls(e, rx') /\ \A a \in second.out : Vouched(a, txSent, rx')
    <3>1. second \in EngineProcess(e, datagram)
      BY DEF e
    <3>2. QED
      BY <1>2, <2>2, <2>4, <2>5, <3>1, CallVouched
  <2>7. Recalls(rx, rx')
    BY <2>5, <2>6 DEF Recalls
  <2>8. \A a \in o.out : Vouched(a, txSent, rx')
    BY <2>2, <2>5, <2>6, TruthStays
  <2>9. QED
    BY <1>2, <2>6, <2>7, <2>8, ReceiverSideKeeps
<1>6. QED
  BY <1>4, <1>5

(* BitsReceiver::abort, and the clock of the receiver.                     *)
LEMMA ReceiverEndKeeps ==
  ASSUME TransferInv, ReceiverAbort \/ InactivityElapses
  PROVE  TransferInv'
<1>1. EngineInv(rx) /\ Recorded(rx) /\ Requested(rx, txSent)
  BY DEF TransferInv
<1>2. CASE ReceiverAbort
  <2> DEFINE aborted == [rx EXCEPT !.state = "Aborted", !.ended = @ + 1]
  <2>1. rx.state = "Active"
    BY <1>2 DEF ReceiverAbort
  <2>2. PICK o \in EngineAbort(rx) : /\ rx' = o.engine
                                     /\ rxSent' = rxSent \cup o.out
                                     /\ UNCHANGED <<tx, txSent, used>>
    BY <1>2 DEF ReceiverAbort
  <2>3. EngineInv(rx')
    BY <1>1, <2>1, <2>2, EngineAbortKeeps
  <2>4. SameRecord(rx, aborted) /\ o \in Send(aborted, AbortMessage(rx.setup.session_id), aborted)
    BY <1>1, <2>1, AbortedSameRecord DEF EngineAbort
  <2> HIDE DEF aborted
  <2>5. rx' = aborted /\ \A a \in o.out : a.type = "Abort"
    BY <2>2, <2>4 DEF Send, Outcome, AbortMessage
  <2>6. Recorded(rx') /\ Recalls(rx, rx') /\ Requested(rx', txSent)
    BY <1>1, <2>4, <2>5, SameRecordKeeps DEF Requested, SameRecord
  <2>7. \A a \in o.out : Vouched(a, txSent, rx')
    BY <2>5 DEF Vouched, Answerable
  <2>8. QED
    BY <2>2, <2>3, <2>6, <2>7, ReceiverSideKeeps
<1>3. CASE InactivityElapses
  <2>0. PICK out : out = {}
    OBVIOUS
  <2>1. /\ rx' = [rx EXCEPT !.expired = TRUE] /\ rxSent' = rxSent \cup out
        /\ UNCHANGED <<tx, txSent, used>>
        /\ \A a \in out : Vouched(a, txSent, rx')
    BY <1>3, <2>0 DEF InactivityElapses
  <2>2. EngineInv(rx') /\ SameRecord(rx, rx')
    BY <1>1, <2>1, ExpiryKeeps, StampSameRecord
  <2>3. Recorded(rx') /\ Recalls(rx, rx') /\ Requested(rx', txSent)
    BY <1>1, <2>2, SameRecordKeeps DEF Requested, SameRecord
  <2>4. QED
    BY <2>1, <2>2, <2>3, ReceiverSideKeeps
<1>4. QED
  BY <1>2, <1>3

(* Every step keeps the invariant.                                         *)
LEMMA TransferNextInv ==
  ASSUME ShortObjects, TransferInv, [Next]_vars
  PROVE  TransferInv'
<1>1. CASE \E q \in Requests : StartTransfer(q)
  BY <1>1, StartTransferKeeps
<1>2. CASE TransmitterProcess
  BY <1>2, TransmitterProcessKeeps
<1>3. CASE TransmitterAbort
  BY <1>3, TransmitterAbortKeeps
<1>4. CASE SetupTimeout \/ SegmentTimeout \/ ProbeTimeout
  BY <1>4, TransmitterClockKeeps
<1>5. CASE ReceiverProcess
  BY <1>5, ReceiverProcessKeeps
<1>6. CASE ReceiverAbort \/ InactivityElapses
  BY <1>6, ReceiverEndKeeps
<1>7. CASE UNCHANGED vars
  BY <1>7 DEF vars, TransferInv
<1>8. QED
  BY <1>1, <1>2, <1>3, <1>4, <1>5, <1>6, <1>7 DEF Next

(* The invariant holds in every state the two peers reach.                 *)
LEMMA TransferAlwaysInv ==
  ASSUME ShortObjects
  PROVE  Spec => []TransferInv
<1>1. Init => TransferInv
  BY TransferInitInv
<1>2. TransferInv /\ [Next]_vars => TransferInv'
  BY TransferNextInv
<1>3. QED
  BY <1>1, <1>2, PTL DEF Spec

-----------------------------------------------------------------------------
(* BitsTransmitter reports a transfer complete only after the receiver's   *)
(* application was told the same, however old the ACK that says so and     *)
(* whichever transfers, aborts and failures lie in between.                *)
THEOREM TransferCompletionIsTrue ==
  ASSUME ShortObjects
  PROVE  Spec => []CompletionIsTrue
<1>1. TransferInv => CompletionIsTrue
  BY DEF TransferInv, Believes, CompletionIsTrue
<1>2. QED
  BY <1>1, TransferAlwaysInv, PTL

(* What handleAck() takes as received, in the prefix or by a bit of the    *)
(* window, the receiver's sink has accepted: the object has no hole.       *)
THEOREM TransferAckedWasDelivered ==
  ASSUME ShortObjects
  PROVE  Spec => []AckedWasDelivered
<1>1. TransferInv => AckedWasDelivered
  BY DEF TransferInv, Believes, AckedWasDelivered
<1>2. QED
  BY <1>1, TransferAlwaysInv, PTL

-----------------------------------------------------------------------------
(* The endpoints of BitsEndpoints implement BitsTransfer: what a slot or a *)
(* channel holds was sent, or is a datagram of the application's own, and  *)
(* to process() that is the same as an empty slot.                         *)
Unheard == {NoMessage, UserDatagram}

Carried ==
  /\ txDatagram \in rxSent \cup Unheard
  /\ rxDatagram \in Controls \cup Unheard
  /\ rxSegments \in [Slots -> Segments \cup {NoMessage}]
  /\ toRx \in Seq(txSent \cup {UserDatagram})
  /\ toTx \in Seq(rxSent \cup {UserDatagram})

(* A datagram of the application's own is left alone by both machines.     *)
LEMMA UserDatagramUnheard ==
  ASSUME NEW m \in Unheard
  PROVE  /\ \A e : EngineProcess(e, m) = EngineProcess(e, NoMessage)
         /\ \A t : SessionProcess(t, m) = SessionProcess(t, NoMessage)
<1>1. m.type \in {"None", "UserDatagram"} /\ NoMessage.type = "None"
  BY DEF Unheard, NoMessage, UserDatagram
<1>2. ASSUME NEW e
      PROVE  EngineProcess(e, m) = EngineProcess(e, NoMessage)
  <2>1. Handle(e, m) = Silent(e) /\ Handle(e, NoMessage) = Silent(e)
    BY <1>1 DEF Handle
  <2>2. QED
    BY <2>1 DEF EngineProcess
<1>3. ASSUME NEW t
      PROVE  SessionProcess(t, m) = SessionProcess(t, NoMessage)
  <2>1. handleDatagram(t, m) = t /\ handleDatagram(t, NoMessage) = t
    BY <1>1 DEF handleDatagram
  <2>2. QED
    BY <2>1 DEF SessionProcess
<1>4. QED
  BY <1>2, <1>3

(* A channel that loses or delivers one of its packets holds the others.   *)
LEMMA RemoveAtKeeps ==
  ASSUME NEW S, NEW s \in Seq(S), NEW i \in DOMAIN s
  PROVE  RemoveAt(s, i) \in Seq(S)
<1>1. i \in 1 .. Len(s) /\ Len(s) \in Nat /\ \A j \in 1 .. Len(s) : s[j] \in S
  OBVIOUS
<1>2. SubSeq(s, 1, i - 1) \in Seq(S) /\ SubSeq(s, i + 1, Len(s)) \in Seq(S)
  <2>1. \A j \in 1 .. (i - 1) : s[j] \in S
    BY <1>1
  <2>2. \A j \in (i + 1) .. Len(s) : s[j] \in S
    BY <1>1
  <2>3. QED
    BY <1>1, <2>1, <2>2, SubSeqProperties
<1>3. QED
  BY <1>2, ConcatProperties DEF RemoveAt

(* A channel takes a packet that was sent, or loses it.                    *)
LEMMA PushKeeps ==
  ASSUME NEW S, NEW s \in Seq(S), NEW messages, messages \subseteq S
  PROVE  Push(s, messages) \in Seq(S)
<1>1. messages # {} => (CHOOSE m \in messages : TRUE) \in S
  OBVIOUS
<1>2. QED
  BY <1>1 DEF Push

(* A longer history carries what a shorter one did.                        *)
LEMMA SeqGrows ==
  ASSUME NEW S, NEW T, S \subseteq T, NEW s \in Seq(S)
  PROVE  s \in Seq(T)
OBVIOUS

(* The lowest slot of some is one of them.                                 *)
LEMMA FirstSlotChosen ==
  ASSUME NEW slots, slots \subseteq Slots, slots # {}
  PROVE  First(slots) \in slots
<1>1. Slots \subseteq Offsets
  BY ReceiveWidthAssumption, WidthAssumption DEF Slots, Offsets
<1>2. QED
  BY <1>1, FirstChosen

(* The segment process() takes from its slots was sent, and the others     *)
(* stay in theirs.                                                         *)
LEMMA NextSegmentSent ==
  ASSUME NEW S, rxSegments \in [Slots -> S \cup {NoMessage}]
  PROVE  /\ NextSegment \in S \cup {NoMessage}
         /\ WithoutNextSegment \in [Slots -> S \cup {NoMessage}]
         /\ EmptySlots \in [Slots -> S \cup {NoMessage}]
<1>1. UsedSlots(rxSegments) \subseteq Slots
  BY DEF UsedSlots
<1>2. UsedSlots(rxSegments) # {} => First(UsedSlots(rxSegments)) \in Slots
  BY <1>1, FirstSlotChosen
<1>3. QED
  BY <1>2 DEF NextSegment, WithoutNextSegment, EmptySlots

(* receive() puts what arrives where it belongs, or drops it.              *)
LEMMA ReceiverReceiveKeeps ==
  ASSUME Carried, NEW m \in txSent \cup {UserDatagram}, ReceiverReceive(m)
  PROVE  /\ rxDatagram' \in Controls \cup Unheard
         /\ rxSegments' \in [Slots -> Segments \cup {NoMessage}]
<1>1. CASE m.type = "Segment"
  <2>1. m \in Segments
    BY <1>1 DEF Segments, UserDatagram
  <2>2. FreeSlots(rxSegments) \subseteq Slots
    BY DEF FreeSlots
  <2>3. FreeSlots(rxSegments) # {} => First(FreeSlots(rxSegments)) \in Slots
    BY <2>2, FirstSlotChosen
  <2>4. RetainSegment(rxSegments, m) \in [Slots -> Segments \cup {NoMessage}]
    BY <2>1, <2>3 DEF RetainSegment, Carried
  <2>5. QED
    BY <1>1, <2>4 DEF ReceiverReceive, Carried
<1>2. CASE m.type # "Segment"
  <2>1. m \in Controls \cup Unheard
    BY <1>2 DEF Controls, Unheard
  <2>2. RetainDatagram(rxDatagram, m) \in Controls \cup Unheard
    BY <2>1 DEF RetainDatagram, Carried
  <2>3. QED
    BY <1>2, <2>2 DEF ReceiverReceive, Carried
<1>3. QED
  BY <1>1, <1>2

(* The wire and receive() move packets and change neither machine.         *)
LEMMA WireCarries ==
  ASSUME Carried, \/ DeliverToReceiver \/ DeliverToTransmitter
                  \/ Lose \/ Duplicate \/ SendDatagram
  PROVE  UNCHANGED vars /\ Carried'
<1> DEFINE A == txSent \cup {UserDatagram}
           B == rxSent \cup {UserDatagram}
<1>1. toRx \in Seq(A) /\ toTx \in Seq(B)
  BY DEF Carried
<1>2. /\ \A i \in DOMAIN toRx : toRx[i] \in A /\ RemoveAt(toRx, i) \in Seq(A)
      /\ \A i \in DOMAIN toTx : toTx[i] \in B /\ RemoveAt(toTx, i) \in Seq(B)
  BY <1>1, RemoveAtKeeps
<1>3. /\ \A m \in A : Push(toRx, {m}) \in Seq(A)
      /\ \A m \in B : Push(toTx, {m}) \in Seq(B)
  BY <1>1, PushKeeps
<1> HIDE DEF A, B
<1>4. ASSUME UNCHANGED vars, toRx' \in Seq(A), toTx' \in Seq(B),
             txDatagram' \in rxSent \cup Unheard, rxDatagram' \in Controls \cup Unheard,
             rxSegments' \in [Slots -> Segments \cup {NoMessage}]
      PROVE  Carried'
  BY <1>4 DEF Carried, vars, Segments, Controls, A, B
<1>5. CASE DeliverToReceiver
  <2>1. PICK i \in Deliverable(toRx) :
          ReceiverReceive(toRx[i]) /\ toRx' = RemoveAt(toRx, i)
    BY <1>5 DEF DeliverToReceiver
  <2>2. i \in DOMAIN toRx
    BY DEF Deliverable
  <2>3. toRx[i] \in txSent \cup {UserDatagram} /\ toRx' \in Seq(A)
    BY <1>2, <2>1, <2>2 DEF A
  <2>4. /\ rxDatagram' \in Controls \cup Unheard
        /\ rxSegments' \in [Slots -> Segments \cup {NoMessage}]
    BY <2>1, <2>3, ReceiverReceiveKeeps
  <2>5. UNCHANGED vars /\ UNCHANGED <<txDatagram, toTx>>
    BY <1>5 DEF DeliverToReceiver
  <2>6. QED
    BY <1>1, <1>4, <2>3, <2>4, <2>5 DEF Carried
<1>6. CASE DeliverToTransmitter
  <2>1. PICK i \in Deliverable(toTx) :
          TransmitterReceive(toTx[i]) /\ toTx' = RemoveAt(toTx, i)
    BY <1>6 DEF DeliverToTransmitter
  <2>2. i \in DOMAIN toTx
    BY DEF Deliverable
  <2>3. toTx[i] \in rxSent \cup {UserDatagram} /\ toTx' \in Seq(B)
    BY <1>2, <2>1, <2>2 DEF B
  <2>4. txDatagram' \in rxSent \cup Unheard
    BY <2>1, <2>3 DEF TransmitterReceive, RetainDatagram, Carried, Unheard
  <2>5. UNCHANGED vars /\ UNCHANGED <<rxDatagram, rxSegments, toRx>>
    BY <1>6 DEF DeliverToTransmitter
  <2>6. QED
    BY <1>1, <1>4, <2>3, <2>4, <2>5 DEF Carried
<1>7. CASE Lose \/ Duplicate \/ SendDatagram
  <2>1. UNCHANGED vars /\ UNCHANGED ingress
    BY <1>7 DEF Lose, Duplicate, SendDatagram
  <2>2. UserDatagram \in A /\ UserDatagram \in B
    BY DEF A, B
  <2>3. toRx' \in Seq(A) /\ toTx' \in Seq(B)
    <3>1. CASE Lose
      BY <1>1, <1>2, <3>1 DEF Lose
    <3>2. CASE Duplicate
      BY <1>1, <1>2, <1>3, <3>2 DEF Duplicate
    <3>3. CASE SendDatagram
      BY <1>1, <1>3, <2>2, <3>3 DEF SendDatagram
    <3>4. QED
      BY <1>7, <3>1, <3>2, <3>3
  <2>4. QED
    BY <1>4, <2>1, <2>3 DEF Carried, ingress
<1>8. QED
  BY <1>5, <1>6, <1>7

(* Sending more leaves what is carried a part of what was sent.            *)
LEMMA CarriedGrows ==
  ASSUME Carried, NEW moreTx, NEW moreRx,
         txSent' = txSent \cup moreTx, rxSent' = rxSent \cup moreRx
  PROVE  /\ txDatagram \in rxSent' \cup Unheard
         /\ rxDatagram \in Controls' \cup Unheard
         /\ Segments \subseteq Segments'
         /\ rxSegments \in [Slots -> Segments' \cup {NoMessage}]
         /\ toRx \in Seq(txSent' \cup {UserDatagram})
         /\ toTx \in Seq(rxSent' \cup {UserDatagram})
<1>1. Segments \subseteq Segments' /\ Controls \subseteq Controls'
  BY DEF Segments, Controls
<1>2. /\ txSent \cup {UserDatagram} \subseteq txSent' \cup {UserDatagram}
      /\ rxSent \cup {UserDatagram} \subseteq rxSent' \cup {UserDatagram}
  OBVIOUS
<1>3. /\ toRx \in Seq(txSent' \cup {UserDatagram})
      /\ toTx \in Seq(rxSent' \cup {UserDatagram})
  BY <1>2, SeqGrows DEF Carried
<1>4. rxSegments \in [Slots -> Segments' \cup {NoMessage}]
  BY <1>1 DEF Carried
<1>5. QED
  BY <1>1, <1>3, <1>4 DEF Carried

(* A poll or an abort of the transmitter.                                  *)
LEMMA TransmitterCarries ==
  ASSUME Carried, TransmitterPolls \/ TransmitterCancels
  PROVE  Next /\ Carried'
<1>1. CASE TransmitterPolls
  <2>1. PICK o \in SessionProcess(tx, txDatagram) :
          /\ tx' = o.session /\ txSent' = txSent \cup o.out
          /\ toRx' = Push(toRx, o.out)
    BY <1>1 DEF TransmitterPolls
  <2>2. /\ txDatagram' = NoMessage
        /\ UNCHANGED <<rx, rxSent, used, rxDatagram, rxSegments, toTx>>
    BY <1>1 DEF TransmitterPolls
  <2>3. PICK m \in rxSent \cup {NoMessage} :
          SessionProcess(tx, txDatagram) = SessionProcess(tx, m)
    BY UserDatagramUnheard DEF Carried
  <2>4. TransmitterProcess
    BY <2>1, <2>2, <2>3 DEF TransmitterProcess
  <2>5. /\ toRx \in Seq(txSent' \cup {UserDatagram})
        /\ toTx \in Seq(rxSent' \cup {UserDatagram})
        /\ rxDatagram \in Controls' \cup Unheard
        /\ rxSegments \in [Slots -> Segments' \cup {NoMessage}]
    <3>1. rxSent' = rxSent \cup {}
      BY <2>2
    <3>2. QED
      BY <2>1, <3>1, CarriedGrows
  <2>6. o.out \subseteq txSent' \cup {UserDatagram}
    BY <2>1
  <2>7. toRx' \in Seq(txSent' \cup {UserDatagram})
    BY <2>1, <2>5, <2>6, PushKeeps
  <2>8. Carried'
    BY <2>2, <2>5, <2>7 DEF Carried, Unheard
  <2>9. QED
    BY <2>4, <2>8 DEF Next
<1>2. CASE TransmitterCancels
  <2>1. PICK o \in AbortTransfer(tx) :
          /\ tx' = o.session /\ txSent' = txSent \cup o.out
          /\ toRx' = Push(toRx, o.out)
    BY <1>2 DEF TransmitterCancels
  <2>2. /\ LocalAborts /\ InTransfer(tx)
        /\ UNCHANGED <<rx, rxSent, used, txDatagram, rxDatagram, rxSegments, toTx>>
    BY <1>2 DEF TransmitterCancels, ingress
  <2>3. TransmitterAbort
    BY <2>1, <2>2 DEF TransmitterAbort
  <2>4. /\ toRx \in Seq(txSent' \cup {UserDatagram})
        /\ toTx \in Seq(rxSent' \cup {UserDatagram})
        /\ txDatagram \in rxSent' \cup Unheard
        /\ rxDatagram \in Controls' \cup Unheard
        /\ rxSegments \in [Slots -> Segments' \cup {NoMessage}]
    <3>1. rxSent' = rxSent \cup {}
      BY <2>2
    <3>2. QED
      BY <2>1, <3>1, CarriedGrows
  <2>5. o.out \subseteq txSent' \cup {UserDatagram}
    BY <2>1
  <2>6. toRx' \in Seq(txSent' \cup {UserDatagram})
    BY <2>1, <2>4, <2>5, PushKeeps
  <2>7. Carried'
    BY <2>2, <2>4, <2>6 DEF Carried
  <2>8. QED
    BY <2>3, <2>7 DEF Next
<1>3. QED
  BY <1>1, <1>2

(* A poll of the receiver: the segment, then the datagram.                 *)
LEMMA ReceiverPollCarries ==
  ASSUME Carried, ReceiverPolls
  PROVE  Next /\ Carried'
<1>1. PICK first \in EngineProcess(rx, NextSegment) :
        \E second \in EngineProcess(first.engine, rxDatagram) :
          /\ rx' = second.engine
          /\ rxSent' = rxSent \cup first.out \cup second.out
          /\ toTx' = Push(Push(toTx, first.out), second.out)
  BY DEF ReceiverPolls
<1>2. PICK second \in EngineProcess(first.engine, rxDatagram) :
        /\ rx' = second.engine
        /\ rxSent' = rxSent \cup first.out \cup second.out
        /\ toTx' = Push(Push(toTx, first.out), second.out)
  BY <1>1
<1>3. /\ ~Expired(rx) /\ rxSegments' = WithoutNextSegment /\ rxDatagram' = NoMessage
      /\ UNCHANGED <<tx, txSent, used, txDatagram, toRx>>
  BY DEF ReceiverPolls
<1>4. /\ NextSegment \in Segments \cup {NoMessage}
      /\ WithoutNextSegment \in [Slots -> Segments \cup {NoMessage}]
  BY NextSegmentSent DEF Carried
<1>5. PICK m \in Controls \cup {NoMessage} :
        EngineProcess(first.engine, rxDatagram) = EngineProcess(first.engine, m)
  BY UserDatagramUnheard DEF Carried
<1> DEFINE o == Outcome(second.engine, first.out \cup second.out)
<1>6. o \in ReceiverOutcomes(NextSegment, m)
  BY <1>1, <1>2, <1>3, <1>5 DEF ReceiverOutcomes
<1>7. o.engine = second.engine /\ o.out = first.out \cup second.out
  BY DEF Outcome
<1> HIDE DEF o
<1>8. rx' = o.engine /\ rxSent' = rxSent \cup o.out
  BY <1>2, <1>7
<1>9. ReceiverProcess
  BY <1>3, <1>4, <1>6, <1>8 DEF ReceiverProcess
<1>10. /\ toRx \in Seq(txSent' \cup {UserDatagram})
       /\ toTx \in Seq(rxSent' \cup {UserDatagram})
       /\ txDatagram \in rxSent' \cup Unheard
  <2>1. txSent' = txSent \cup {}
    BY <1>3
  <2>2. QED
    BY <1>8, <2>1, CarriedGrows
<1>11. /\ first.out \subseteq rxSent' \cup {UserDatagram}
       /\ second.out \subseteq rxSent' \cup {UserDatagram}
  BY <1>2
<1>12. Push(toTx, first.out) \in Seq(rxSent' \cup {UserDatagram})
  BY <1>10, <1>11, PushKeeps
<1>13. toTx' \in Seq(rxSent' \cup {UserDatagram})
  BY <1>2, <1>11, <1>12, PushKeeps
<1>14. rxSegments' \in [Slots -> Segments' \cup {NoMessage}]
  BY <1>3, <1>4 DEF Segments
<1>15. Carried'
  BY <1>3, <1>10, <1>13, <1>14 DEF Carried, Unheard
<1>16. QED
  BY <1>9, <1>15 DEF Next

(* The receiver's expiry and abort.                                        *)
LEMMA ReceiverEndCarries ==
  ASSUME Carried, ReceiverExpires \/ ReceiverCancels
  PROVE  Next /\ Carried'
<1>1. CASE ReceiverExpires
  <2>1. /\ Expired(rx) /\ rx' = poll(rx)
        /\ rxSegments' = EmptySlots /\ rxDatagram' = NoMessage
        /\ UNCHANGED <<tx, txSent, rxSent, used, txDatagram, toRx, toTx>>
    BY <1>1 DEF ReceiverExpires, channels
  <2> DEFINE o == Outcome(poll(rx), {})
  <2>2. o \in ReceiverOutcomes(NoMessage, NoMessage)
    BY <2>1 DEF ReceiverOutcomes, Silent
  <2>3. o.engine = poll(rx) /\ o.out = {}
    BY DEF Outcome
  <2> HIDE DEF o
  <2>4. rx' = o.engine /\ rxSent' = rxSent \cup o.out
    BY <2>1, <2>3
  <2>5. ReceiverProcess
    BY <2>1, <2>2, <2>4 DEF ReceiverProcess
  <2>6. rxSegments' \in [Slots -> Segments' \cup {NoMessage}]
    BY <2>1 DEF EmptySlots
  <2>7. Carried'
    BY <2>1, <2>6 DEF Carried, Unheard
  <2>8. QED
    BY <2>5, <2>7 DEF Next
<1>2. CASE ReceiverCancels
  <2>1. PICK o \in EngineAbort(rx) :
          /\ rx' = o.engine /\ rxSent' = rxSent \cup o.out
          /\ toTx' = Push(toTx, o.out)
    BY <1>2 DEF ReceiverCancels
  <2>2. /\ LocalAborts /\ rx.state = "Active"
        /\ UNCHANGED <<tx, txSent, used, txDatagram, rxDatagram, rxSegments, toRx>>
    BY <1>2 DEF ReceiverCancels, ingress
  <2>3. ReceiverAbort
    BY <2>1, <2>2 DEF ReceiverAbort
  <2>4. /\ toRx \in Seq(txSent' \cup {UserDatagram})
        /\ toTx \in Seq(rxSent' \cup {UserDatagram})
        /\ txDatagram \in rxSent' \cup Unheard
        /\ rxDatagram \in Controls' \cup Unheard
        /\ rxSegments \in [Slots -> Segments' \cup {NoMessage}]
    <3>1. txSent' = txSent \cup {}
      BY <2>2
    <3>2. QED
      BY <2>1, <3>1, CarriedGrows
  <2>5. o.out \subseteq rxSent' \cup {UserDatagram}
    BY <2>1
  <2>6. toTx' \in Seq(rxSent' \cup {UserDatagram})
    BY <2>1, <2>4, <2>5, PushKeeps
  <2>7. Carried'
    BY <2>2, <2>4, <2>6 DEF Carried
  <2>8. QED
    BY <2>3, <2>7 DEF Next
<1>3. QED
  BY <1>1, <1>2

(* A start or a timeout leaves slots and channels as they are.             *)
LEMMA ApartCarries ==
  ASSUME Carried, EndpointStart \/ TransmitterTimeout \/ ReceiverTimeout
  PROVE  Next /\ Carried'
<1>1. Next /\ UNCHANGED <<txSent, rxSent, ingress, channels>>
  <2>1. CASE EndpointStart
    BY <2>1 DEF EndpointStart, StartTransfer, Next
  <2>2. CASE TransmitterTimeout
    BY <2>2 DEF TransmitterTimeout, SetupTimeout, SegmentTimeout, ProbeTimeout, Next
  <2>3. CASE ReceiverTimeout
    BY <2>3 DEF ReceiverTimeout, InactivityElapses, Next
  <2>4. QED
    BY <2>1, <2>2, <2>3
<1>2. QED
  BY <1>1 DEF Carried, ingress, channels, Segments, Controls

(* Every step of the endpoints is one of BitsTransfer, or changes nothing  *)
(* of it.                                                                  *)
LEMMA EndpointStepCarries ==
  ASSUME Carried, [EndpointNext]_endpointVars
  PROVE  [Next]_vars /\ Carried'
<1>1. CASE \/ DeliverToReceiver \/ DeliverToTransmitter
           \/ Lose \/ Duplicate \/ SendDatagram
  BY <1>1, WireCarries
<1>2. CASE TransmitterPolls \/ TransmitterCancels
  BY <1>2, TransmitterCarries
<1>3. CASE ReceiverPolls
  BY <1>3, ReceiverPollCarries
<1>4. CASE ReceiverExpires \/ ReceiverCancels
  BY <1>4, ReceiverEndCarries
<1>5. CASE EndpointStart \/ TransmitterTimeout \/ ReceiverTimeout
  BY <1>5, ApartCarries
<1>6. CASE UNCHANGED endpointVars
  <2>1. UNCHANGED vars /\ UNCHANGED <<ingress, channels>>
    BY <1>6 DEF endpointVars
  <2>2. QED
    BY <2>1 DEF vars, ingress, channels, Carried, Segments, Controls
<1>7. QED
  BY <1>1, <1>2, <1>3, <1>4, <1>5, <1>6 DEF EndpointNext

(* At first nothing is under way.                                          *)
LEMMA EndpointInitCarries ==
  ASSUME EndpointInit
  PROVE  Init /\ Carried
<1>1. Init /\ txDatagram \in Unheard /\ rxDatagram \in Unheard
  BY DEF EndpointInit, Unheard
<1>2. rxSegments \in [Slots -> Segments \cup {NoMessage}]
  BY DEF EndpointInit, EmptySlots
<1>3. toRx \in Seq(txSent \cup {UserDatagram}) /\ toTx \in Seq(rxSent \cup {UserDatagram})
  BY DEF EndpointInit
<1>4. QED
  BY <1>1, <1>2, <1>3 DEF Carried

(* The ingress slots, the two process() calls and the bounded channels of  *)
(* BitsEndpoints add nothing to what the peers can do to each other over   *)
(* the unreliable network: every behaviour is one of BitsTransfer.         *)
THEOREM EndpointsImplementTransfer == EndpointSpec => ImplementsTransfer
<1>1. EndpointInit => Init /\ Carried
  BY EndpointInitCarries
<1>2. Carried /\ [EndpointNext]_endpointVars => Carried'
  BY EndpointStepCarries
<1>3. Carried /\ [EndpointNext]_endpointVars => [Next]_vars
  BY EndpointStepCarries
<1>4. EndpointSpec => Spec
  BY <1>1, <1>2, <1>3, PTL DEF EndpointSpec, Spec
<1>5. QED
  BY <1>4 DEF ImplementsTransfer

(* So what the transmitter of the endpoints takes as received and as       *)
(* complete is what the receiver's application has heard.                  *)
THEOREM EndpointsBelieveTheTruth ==
  ASSUME ShortObjects
  PROVE  EndpointSpec => [](AckedWasDelivered /\ CompletionIsTrue)
<1>1. EndpointSpec => Spec
  BY EndpointsImplementTransfer DEF ImplementsTransfer
<1>2. QED
  BY <1>1, TransferAckedWasDelivered, TransferCompletionIsTrue, PTL

=============================================================================
