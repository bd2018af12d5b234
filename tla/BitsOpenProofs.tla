--------------------------- MODULE BitsOpenProofs ---------------------------
(***************************************************************************)
(* The receiver engine and the transmitter's session are each safe against *)
(* arbitrary traffic, for every window width, sequence modulus, limit,     *)
(* retry budget, set of requests and environment.                          *)
(***************************************************************************)
EXTENDS BitsReceiverOpen, BitsTransmitterOpen, BitsMachineProofs

(* The receiver engine.                                                    *)

(* The inductive invariant: the engine's own, the type of the message it   *)
(* was last given, and every ACK of the last call being the one the engine *)
(* would send again now.                                                   *)
OpenInv ==
  /\ EngineInv(engine)
  /\ heard \in IncomingMessages
  /\ \A a \in said : a.type = "Ack" => a = CurrentAck(engine)

(* What a step does to the transfer, in the engine's words.                *)
Advanced ==
  \/ /\ SameView(engine, engine')
     /\ engine'.state = engine.state \/ engine.state = "Active"
  \/ engine.state = "Active" /\ Progressed(engine, engine')
  \/ /\ engine.state # "Active" /\ heard'.type = "Setup"
     /\ engine'.state \in {"Active", "Error"}
     /\ engine'.setup = heard'.setup /\ engine'.accepted = {}

(* Every message of the traffic is one the engine can read.                *)
LEMMA TrafficReadable ==
  ASSUME NEW m \in IncomingMessages
  PROVE  Readable(m)
BY DEF IncomingMessages, Readable, UserDatagram, NoMessage

(* A SETUP that arrived is the message of its parameters.                  *)
LEMMA IncomingSetup ==
  ASSUME NEW m \in IncomingMessages, m.type = "Setup"
  PROVE  m = SetupMessage(m.setup)
BY DEF IncomingMessages, SetupMessage, UserDatagram, NoMessage

(* The message before the first call.                                      *)
LEMMA NoMessageIncoming == NoMessage \in IncomingMessages
BY DEF IncomingMessages

(* The invariant holds of a new engine.                                    *)
LEMMA OpenInitInv ==
  ASSUME OpenInit
  PROVE  OpenInv
BY InitialEngineInv, NoMessageIncoming DEF OpenInit, OpenInv

(* Every step preserves the invariant and moves the transfer only forward. *)
LEMMA OpenNextInv ==
  ASSUME OpenInv, [OpenNext]_openVars
  PROVE  OpenInv' /\ Advanced
<1>1. ASSUME NEW m \in Traffic, EngineHears(m)
      PROVE  OpenInv' /\ Advanced
  <2>1. m \in IncomingMessages
    BY TrafficAssumption
  <2>2. PICK o \in EngineProcess(engine, m) : Takes(o)
    BY <1>1 DEF EngineHears
  <2>3. EngineInv(o.engine) /\ CallStep(engine, m, o)
    BY <2>1, TrafficReadable, ProcessKeeps DEF OpenInv
  <2>4. engine' = o.engine /\ said' = o.out /\ heard' = m
    BY <1>1, <2>2 DEF EngineHears, Takes
  <2>5. Answered(o)
    BY <2>3 DEF CallStep, Kept
  <2>6. OpenInv'
    BY <2>1, <2>3, <2>4, <2>5 DEF OpenInv, Answered
  <2>7. Advanced
    BY <2>3, <2>4 DEF Advanced, CallStep, Kept
  <2>8. QED BY <2>6, <2>7
<1>2. CASE EnginePolls
  <2> DEFINE o == Outcome(poll(engine), {})
  <2>1. EngineInv(o.engine) /\ Kept(engine, o) /\ o.out = {}
    BY PollKeeps DEF OpenInv, Outcome
  <2>2. engine' = o.engine /\ said' = {} /\ heard' = NoMessage
    BY <1>2, <2>1 DEF EnginePolls, Takes
  <2> HIDE DEF o
  <2>3. QED
    BY <2>1, <2>2, NoMessageIncoming DEF OpenInv, Advanced, Kept
<1>3. CASE EngineAborts
  <2>1. PICK o \in EngineAbort(engine) : Takes(o)
    BY <1>3 DEF EngineAborts
  <2>2. EngineInv(o.engine) /\ Kept(engine, o)
    BY <1>3, EngineAbortKeeps DEF OpenInv, EngineAborts
  <2>3. engine' = o.engine /\ said' = o.out /\ heard' = NoMessage
    BY <1>3, <2>1 DEF EngineAborts, Takes
  <2>4. QED
    BY <2>2, <2>3, NoMessageIncoming DEF OpenInv, Advanced, Kept, Answered
<1>4. CASE EngineWaits
  BY <1>4, ExpiryKeeps, NoMessageIncoming DEF OpenInv, EngineWaits, Advanced
<1>5. CASE UNCHANGED openVars
  BY <1>5 DEF OpenInv, openVars, Advanced, SameView
<1>6. QED
  BY <1>1, <1>2, <1>3, <1>4, <1>5 DEF OpenNext

(* The invariant holds in every state the engine reaches.                  *)
LEMMA OpenAlwaysInv == OpenSpec => []OpenInv
<1>1. OpenInit => OpenInv
  BY OpenInitInv
<1>2. OpenInv /\ [OpenNext]_openVars => OpenInv'
  BY OpenNextInv
<1>3. QED
  BY <1>1, <1>2, PTL DEF OpenSpec

-----------------------------------------------------------------------------
(* Whatever messages arrive, in whatever order, and whatever the Link, the *)
(* application and the sink answer, the engine's record keeps its type,    *)
(* and the bits left of the window after a slide are window offsets.       *)
THEOREM ReceiverTyped == OpenSpec => []OpenTypeOK
<1>1. OpenInv => OpenTypeOK
  BY DEF OpenInv, EngineInv, OpenTypeOK
<1>2. QED
  BY <1>1, OpenAlwaysInv, PTL

(* updateGrant() never grants past the object or past the storage of the   *)
(* window, whatever arrives.                                               *)
THEOREM ReceiverGrantBacked == OpenSpec => []OpenGrantBacked
<1>1. OpenInv => OpenGrantBacked
  BY DEF OpenInv, EngineInv, OpenGrantBacked
<1>2. QED
  BY <1>1, OpenAlwaysInv, PTL

(* handleSegment() gives no segment of a transfer to the sink twice, and   *)
(* the window holds exactly the segments the sink was given.               *)
THEOREM ReceiverDeliversOnce == OpenSpec => []OpenDeliveredOnce
<1>1. OpenInv => OpenDeliveredOnce
  BY DEF OpenInv, EngineInv, OpenDeliveredOnce
<1>2. QED
  BY <1>1, OpenAlwaysInv, PTL

(* An admitted transfer has exactly one terminal callback when it is over  *)
(* and none before, also when its sink or its Link fails.                  *)
THEOREM ReceiverEndsOnce == OpenSpec => []OpenEndsOnce
<1>1. OpenInv => OpenEndsOnce
  BY DEF OpenInv, EngineInv, OpenEndsOnce
<1>2. QED
  BY <1>1, OpenAlwaysInv, PTL

(* A transfer is reported complete exactly when its whole object was       *)
(* received.                                                               *)
THEOREM ReceiverCompletesWhole == OpenSpec => []OpenCompleteWhenWhole
<1>1. OpenInv => OpenCompleteWhenWhole
  BY DEF OpenInv, EngineInv, OpenCompleteWhenWhole
<1>2. QED
  BY <1>1, OpenAlwaysInv, PTL

(* sendAck() acknowledges no segment before its sink accepted it: the      *)
(* wrapped base it sends is that of the accepted prefix, the bitmap marks  *)
(* accepted segments, and the grant is the span the window has storage for.*)
THEOREM ReceiverAckIsHonest == OpenSpec => []AckIsHonest
<1>1. OpenInv => AckIsHonest
  <2> SUFFICES ASSUME OpenInv, NEW a \in said, a.type = "Ack"
               PROVE  /\ a.session_id = engine.setup.session_id
                      /\ a.window_base
                           = baseSequence(engine.setup, engine.contiguous_count)
                      /\ 0 .. (engine.contiguous_count - 1) \subseteq engine.accepted
                      /\ {engine.contiguous_count + o : o \in a.window_bitmap}
                           \subseteq engine.accepted
                      /\ SequenceDistance(a.window_base, a.max_receive_sequence)
                           = engine.granted_end - engine.contiguous_count
    BY DEF AckIsHonest
  <2>1. a = CurrentAck(engine) /\ EngineInv(engine)
    BY DEF OpenInv
  <2>2. QED
    BY <2>1, CurrentAckHonest
<1>2. QED
  BY <1>1, OpenAlwaysInv, PTL

(* handleSetup() refuses to replace an active transfer: its parameters     *)
(* stay, and its prefix, its grant and what its sink accepted only grow.   *)
THEOREM ReceiverSessionFixed == OpenSpec => ActiveSessionFixed
<1>1. OpenInv /\ [OpenNext]_openVars =>
        [engine.state = "Active" /\ engine'.state = "Active" =>
           /\ engine'.setup = engine.setup
           /\ engine'.contiguous_count >= engine.contiguous_count
           /\ engine'.granted_end >= engine.granted_end
           /\ engine.accepted \subseteq engine'.accepted]_openVars
  <2> SUFFICES ASSUME OpenInv, [OpenNext]_openVars, engine.state = "Active"
               PROVE  Progressed(engine, engine')
    BY DEF Progressed
  <2>1. SameView(engine, engine') \/ Progressed(engine, engine')
    BY OpenNextInv DEF Advanced
  <2>2. QED
    BY <2>1, SameViewProgressed DEF OpenInv
<1>2. QED
  BY <1>1, OpenAlwaysInv, PTL DEF OpenSpec, ActiveSessionFixed

(* Late segments, probes and aborts of a transfer that is over change      *)
(* nothing: only an admitted SETUP leaves it, for the transfer it asks for.*)
THEOREM ReceiverStaysEnded == OpenSpec => EndedStaysEnded
<1>1. OpenInv /\ [OpenNext]_openVars =>
        [engine.state \in {"Completed", "Aborted", "Error"} =>
           \/ /\ engine'.state = engine.state /\ engine'.setup = engine.setup
              /\ engine'.accepted = engine.accepted
           \/ /\ engine'.state \in {"Active", "Error"} /\ engine'.accepted = {}
              /\ heard' = SetupMessage(engine'.setup)]_openVars
  <2> SUFFICES ASSUME OpenInv, [OpenNext]_openVars,
                      engine.state \in {"Completed", "Aborted", "Error"}
               PROVE  \/ /\ engine'.state = engine.state
                         /\ engine'.setup = engine.setup
                         /\ engine'.accepted = engine.accepted
                      \/ /\ engine'.state \in {"Active", "Error"}
                         /\ engine'.accepted = {}
                         /\ heard' = SetupMessage(engine'.setup)
    OBVIOUS
  <2>1. OpenInv' /\ Advanced /\ engine.state # "Active"
    BY OpenNextInv
  <2>2. heard'.type = "Setup" => heard' = SetupMessage(heard'.setup)
    BY <2>1, IncomingSetup DEF OpenInv
  <2>3. QED
    BY <2>1, <2>2 DEF Advanced, SameView
<1>2. QED
  BY <1>1, OpenAlwaysInv, PTL DEF OpenSpec, EndedStaysEnded

-----------------------------------------------------------------------------
(* The transmitter's session.                                              *)

OpenSessionInv == SessionInv(session)

(* Whatever is in the slot is a message as the session reads it.           *)
LEMMA AnswersAnswerable ==
  ASSUME NEW m \in Answers \cup {NoMessage}
  PROVE  Answerable(m)
<1>1. m \in AnsweringMessages
  BY AnswersAssumption DEF AnsweringMessages
<1>2. CASE m.type = "Ack"
  BY <1>1, <1>2 DEF AnsweringMessages, Answerable, UserDatagram, NoMessage
<1>3. CASE m.type # "Ack"
  BY <1>3 DEF Answerable
<1>4. QED BY <1>2, <1>3

(* A step that leaves a transfer active: nothing was taken back.           *)
StillActiveKeeps ==
  session.state = "Active" /\ session'.state = "Active"
    => NotTakenBack(session, session')

(* Every step of the open specification keeps the invariant, and what the  *)
(* peer acknowledged and granted.                                          *)
LEMMA SessionNextInv ==
  ASSUME OpenSessionInv, [SessionNext]_session
  PROVE  OpenSessionInv' /\ StillActiveKeeps
<1> SUFFICES SessionInv(session') /\ StillActiveKeeps
  BY DEF OpenSessionInv
<1>0. SessionInv(session)
  BY DEF OpenSessionInv
<1>1. CASE \E q \in Requests : SessionStarts(q)
  <2>1. PICK q \in Requests : SessionStarts(q)
    BY <1>1
  <2>2. /\ q.session_id \in Nat /\ q.initial_sequence_number \in SequenceNumbers
        /\ q.object_size \in Nat \ {0} /\ q.segment_size \in Nat \ {0}
    BY OpenRequestAssumption
  <2>3. Startable(session, q) /\ session' = startTransfer(q)
    BY <2>1 DEF SessionStarts
  <2>4. session.state # "Active"
    BY <2>3 DEF Startable, InTransfer
  <2>5. QED BY <1>0, <2>2, <2>3, <2>4, StartKeeps DEF StillActiveKeeps
<1>2. CASE \E m \in Answers \cup {NoMessage} : SessionPolls(m)
  <2>1. PICK m \in Answers \cup {NoMessage} : SessionPolls(m)
    BY <1>2
  <2>2. PICK o \in SessionProcess(session, m) : session' = o.session
    BY <2>1 DEF SessionPolls
  <2>3. QED
    BY <1>0, <2>2, AnswersAnswerable, SessionProcessKeeps DEF StillActiveKeeps
<1>3. ASSUME SessionInv(session'), SameProgress(session, session')
      PROVE  SessionInv(session') /\ StillActiveKeeps
  BY <1>0, <1>3, SameProgressNotTakenBack DEF StillActiveKeeps
<1>4. CASE SessionAborts
  <2>1. InTransfer(session)
    BY <1>4 DEF SessionAborts
  <2>2. PICK o \in AbortTransfer(session) : session' = o.session
    BY <1>4 DEF SessionAborts
  <2>3. QED BY <1>0, <1>3, <2>1, <2>2, AbortTransferKeeps
<1>5. CASE SetupExpires
  BY <1>0, <1>3, <1>5, ClockKeeps DEF SetupExpires, Ticked
<1>6. CASE SegmentExpires
  <2>1. PICK offset \in Outstanding(session) :
          session' = [session EXCEPT !.due = @ \cup {offset}]
    BY <1>6 DEF SegmentExpires
  <2>2. offset \in Offsets
    BY DEF Outstanding, Window, lowBitMask
  <2>3. Ticked(session', session)
    BY <1>0, <2>1, <2>2, ClockKeeps
  <2>4. QED BY <1>3, <2>3 DEF Ticked
<1>7. CASE ProbeExpires
  BY <1>0, <1>3, <1>7, ClockKeeps DEF ProbeExpires, Ticked
<1>8. CASE UNCHANGED session
  BY <1>0, <1>3, <1>8 DEF SameProgress
<1>9. QED
  BY <1>1, <1>2, <1>4, <1>5, <1>6, <1>7, <1>8 DEF SessionNext

(* The invariant holds in every state the session reaches.                 *)
LEMMA SessionAlwaysInv == SessionSpec => []OpenSessionInv
<1>1. SessionInit => OpenSessionInv
  BY InitialSessionInv DEF SessionInit, OpenSessionInv
<1>2. OpenSessionInv /\ [SessionNext]_session => OpenSessionInv'
  BY SessionNextInv
<1>3. QED
  BY <1>1, <1>2, PTL DEF SessionSpec

-----------------------------------------------------------------------------
(* The session keeps its type: in particular no retry counter passes       *)
(* max_retries, whatever the peer answers.                                 *)
THEOREM TransmitterTyped == SessionSpec => []SessionTypeOK
<1>1. OpenSessionInv => SessionTypeOK
  BY DEF OpenSessionInv, SessionInv, SessionTypeOK
<1>2. QED
  BY <1>1, SessionAlwaysInv, PTL

(* process() sends only what the peer granted, and believes no             *)
(* acknowledgment of what was not sent.                                    *)
THEOREM TransmitterWithinGrant == SessionSpec => []SendsWithinGrant
<1>1. OpenSessionInv => SendsWithinGrant
  BY DEF OpenSessionInv, SessionInv, SendsWithinGrant
<1>2. QED
  BY <1>1, SessionAlwaysInv, PTL

(* A completed transfer had every segment taken by a Link in this very     *)
(* transfer, whatever ACKs of earlier ones arrive (handleAck()).           *)
THEOREM TransmitterCompletionWasSent == SessionSpec => []CompletionWasSent
<1>1. OpenSessionInv => CompletionWasSent
  BY SessionInvImplies DEF OpenSessionInv, CompletionWasSent
<1>2. QED
  BY <1>1, SessionAlwaysInv, PTL

(* No segment is sent more than once and max_retries times, whichever ACKs *)
(* make shiftWindow() move its retry counter.                              *)
THEOREM TransmitterRetriesBounded == SessionSpec => []RetriesBounded
<1>1. OpenSessionInv => RetriesBounded
  BY SessionInvImplies DEF OpenSessionInv, RetriesBounded
<1>2. QED
  BY <1>1, SessionAlwaysInv, PTL

(* A transfer has at most one terminal callback, none while it runs, and   *)
(* one if it ended by protocol.                                            *)
THEOREM TransmitterEnds == SessionSpec => []TransmitterEndsOnce
<1>1. OpenSessionInv => TransmitterEndsOnce
  BY DEF OpenSessionInv, SessionInv, TransmitterEndsOnce
<1>2. QED
  BY <1>1, SessionAlwaysInv, PTL

(* handleAck() never takes back what an earlier ACK acknowledged or        *)
(* granted while the transfer is active, in whatever order ACKs arrive.    *)
THEOREM TransmitterKeepsProgress == SessionSpec => ProgressIsKept
<1>1. OpenSessionInv /\ [SessionNext]_session =>
        [(session.state = "Active" /\ session'.state = "Active") =>
           /\ session'.acknowledged_count >= session.acknowledged_count
           /\ session'.granted_end >= session.granted_end
           /\ \A offset \in session.acknowledged_bitmap :
                LET index == session.acknowledged_count + offset
                IN  \/ index < session'.acknowledged_count
                    \/ index - session'.acknowledged_count
                         \in session'.acknowledged_bitmap]_session
  BY SessionNextInv DEF StillActiveKeeps, NotTakenBack
<1>2. QED
  BY <1>1, SessionAlwaysInv, PTL DEF SessionSpec, ProgressIsKept

=============================================================================
