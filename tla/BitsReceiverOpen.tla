-------------------------- MODULE BitsReceiverOpen --------------------------
(***************************************************************************)
(* The receiver engine against arbitrary traffic: any message of Traffic,  *)
(* from any sender and in any order, may be handed to process(), conflicts *)
(* and malformed bodies included.  BitsTransfer closes the engine with the *)
(* transmitter it was written for; nothing is assumed of the peer here.    *)
(***************************************************************************)
EXTENDS BitsReceiverEngine

CONSTANTS Traffic,            \* the messages that may arrive
          InactivityTimeout   \* FALSE: inactivity_timeout_ms is 0, no expiry

IncomingMessages ==
  [type : {"Setup"}, setup : Setups]
    \cup [type : {"Segment"}, session_id : Nat, segment_index : Nat, size : Nat]
    \cup [type : {"Probe", "Abort"}, session_id : Nat]
    \cup [type : {"Malformed"}, kind : {"Setup", "Segment", "Probe", "Abort"},
          session_id : Nat]
    \cup {UserDatagram, NoMessage}

ASSUME TrafficAssumption == Traffic \subseteq IncomingMessages
ASSUME OpenTimeoutAssumption == InactivityTimeout \in BOOLEAN

VARIABLES
  engine,   \* the engine's record
  heard,    \* the message of the last call, NoMessage for the others
  said      \* the PDUs a Link took during the last call

openVars == <<engine, heard, said>>

OpenInit ==
  /\ engine = InitialEngine
  /\ heard = NoMessage /\ said = {}

\* A call ended with outcome o.
Takes(o) == engine' = o.engine /\ said' = o.out

EngineHears(m) ==
  /\ heard' = m
  /\ \E o \in EngineProcess(engine, m) : Takes(o)

EnginePolls ==
  /\ heard' = NoMessage
  /\ Takes(Outcome(poll(engine), {}))

EngineAborts ==
  /\ engine.state = "Active"
  /\ heard' = NoMessage
  /\ \E o \in EngineAbort(engine) : Takes(o)

EngineWaits ==
  /\ InactivityTimeout
  /\ engine.state = "Active" /\ ~engine.expired
  /\ engine' = [engine EXCEPT !.expired = TRUE]
  /\ heard' = NoMessage /\ said' = {}

OpenNext ==
  \/ \E m \in Traffic : EngineHears(m)
  \/ EnginePolls \/ EngineAborts \/ EngineWaits

OpenSpec == OpenInit /\ [][OpenNext]_openVars

-----------------------------------------------------------------------------
(* Invariants.                                                             *)

(* The engine and its last input have their types: in particular every bit *)
(* of the receive bitmap is a window offset after the window has slid      *)
(* (receiver_engine.cpp:175-183).                                          *)
OpenTypeOK ==
  /\ engine \in Engines
  /\ heard \in IncomingMessages

(* The grant never runs past the object or past the window storage behind  *)
(* it, whatever arrives (updateGrant, receiver_engine.cpp:373-392).        *)
OpenGrantBacked == GrantIsBacked(engine)

(* No segment of a transfer reaches the sink twice, and what the window    *)
(* says was received is what the sink accepted (handleSegment,             *)
(* receiver_engine.cpp:137-191).                                           *)
OpenDeliveredOnce == DeliveredOnce(engine)

(* A transfer has at most one terminal callback, and none while it runs,   *)
(* also when its sink or its Link fails (fail, receiver_engine.cpp:366).   *)
OpenEndsOnce == EndedOnce(engine)

(* A transfer is complete only when its sink has accepted every segment    *)
(* (receiver_engine.cpp:184-189).                                          *)
OpenCompleteWhenWhole == CompleteWhenWhole(engine)

(* An ACK that left the engine names only segments its sink has accepted:  *)
(* its base is the wrapped number of the last segment of the prefix, and   *)
(* the prefix and everything the bitmap marks beyond it have been through  *)
(* the sink.  Its modular grant is the span the engine has storage for.    *)
(* Receipt advances after the sink, never before it (BTR-3, sendAck).      *)
AckIsHonest ==
  \A a \in {m \in said : m.type = "Ack"} :
    /\ a.session_id = engine.setup.session_id
    /\ a.window_base = baseSequence(engine.setup, engine.contiguous_count)
    /\ 0 .. (engine.contiguous_count - 1) \subseteq engine.accepted
    /\ {engine.contiguous_count + o : o \in a.window_bitmap} \subseteq engine.accepted
    /\ SequenceDistance(a.window_base, a.max_receive_sequence)
         = engine.granted_end - engine.contiguous_count

-----------------------------------------------------------------------------
(* Action properties.                                                      *)

(* An active transfer keeps its parameters, its prefix and its grant for   *)
(* as long as it stays active, whatever SETUPs arrive (BTR-5, BTR-6).      *)
ActiveSessionFixed ==
  [][engine.state = "Active" /\ engine'.state = "Active" =>
       /\ engine'.setup = engine.setup
       /\ engine'.contiguous_count >= engine.contiguous_count
       /\ engine'.granted_end >= engine.granted_end
       /\ engine.accepted \subseteq engine'.accepted]_openVars

(* A transfer that has ended is left only for a new one, by an admitted    *)
(* SETUP: late segments, probes and aborts of the old one change nothing   *)
(* the application sees (receiver_engine.cpp:122-142, 202-206, 287-290).   *)
EndedStaysEnded ==
  [][engine.state \in {"Completed", "Aborted", "Error"} =>
       \/ /\ engine'.state = engine.state /\ engine'.setup = engine.setup
          /\ engine'.accepted = engine.accepted
       \/ /\ engine'.state \in {"Active", "Error"} /\ engine'.accepted = {}
          /\ heard' = SetupMessage(engine'.setup)]_openVars

=============================================================================
