-------------------------- MODULE Mcp2515CanProofs --------------------------
(***************************************************************************)
(* The CAN driver against a controller that captures and sends between any *)
(* two SPI transactions, for every data size, every mixture of frames on   *)
(* the bus and of commands, and whatever the bounds on their number.       *)
(***************************************************************************)
EXTENDS Mcp2515Can, SequenceTheorems, TLAPS

Places == 1 .. (5 + MaxData)
Registers == [Places -> Nat]
Frames == [identifier : Nat, size : Nat, data : Seq(Nat)]

-----------------------------------------------------------------------------
(* Sequences with the same length and the same items are the same.         *)
LEMMA SameItems ==
  ASSUME NEW S, NEW s \in Seq(S), NEW t \in Seq(S), Len(s) = Len(t),
         \A i \in 1 .. Len(s) : s[i] = t[i]
  PROVE  s = t
OBVIOUS

(* A sequence ends with what was appended.                                 *)
LEMMA EndsWithAppended ==
  ASSUME NEW S, NEW s \in Seq(S), NEW x \in S
  PROVE  Append(s, x) = s \o <<x>> /\ s \o <<>> = s
BY AppendProperties, ConcatProperties, SameItems

(* A command that transmit() is given is typed.                            *)
LEMMA CommandTyped ==
  ASSUME NEW f \in Commands, IsCommand(f)
  PROVE  /\ f \in Frames /\ f.identifier \in Nat
         /\ f.size \in 0 .. MaxData /\ f.data \in Seq(Nat) /\ Len(f.data) = f.size
<1>1. f \in Frames /\ Len(f.data) = f.size
  BY CanAssumption DEF Frames
<1>2. f.identifier \in Nat /\ f.size \in Nat /\ f.data \in Seq(Nat)
  BY <1>1 DEF Frames
<1>3. f.size <= MaxData /\ MaxData \in Nat
  BY CanAssumption DEF IsCommand
<1>4. QED
  BY <1>1, <1>2, <1>3

(* Identifiers are split over two registers and put together again.        *)
LEMMA IdentifierWhole ==
  ASSUME NEW id \in Nat
  PROVE  /\ id \div 8 \in Nat /\ (id % 8) * 32 \in Nat
         /\ (id \div 8) * 8 + ((id % 8) * 32) \div 32 = id
<1>1. id \div 8 \in Nat
  OBVIOUS
<1>2. id % 8 \in 0 .. 7
  OBVIOUS
<1>3. id = 8 * (id \div 8) + (id % 8)
  OBVIOUS
<1>4. PICK r \in 0 .. 7 : r = id % 8
  BY <1>2
<1>5. (r * 32) \div 32 = r
  BY <1>4
<1>6. QED
  BY <1>1, <1>3, <1>4, <1>5

(* A length of four bits is its own length code.                           *)
LEMMA LengthCode ==
  ASSUME NEW n \in Nat, n <= 15
  PROVE  n % 16 = n
OBVIOUS

(* What the registers' bits are worth.                                     *)
LEMMA LengthCodeTyped ==
  ASSUME NEW n \in Nat
  PROVE  n % 16 \in Nat /\ n \div 32 \in Nat /\ (n \div 8) % 2 \in {0, 1}
         /\ (n \div 64) % 2 \in {0, 1}
OBVIOUS

(* Data registers are a sequence of their own.                             *)
LEMMA DataOf ==
  ASSUME NEW registers \in Registers, NEW size \in 0 .. MaxData
  PROVE  LET data == SubSeq(registers, 6, 5 + size)
         IN  /\ data \in Seq(Nat) /\ Len(data) = size
             /\ \A i \in 1 .. size : data[i] = registers[5 + i]
<1>1. MaxData \in Nat /\ size \in Nat
  BY CanAssumption
<1>2. \A i \in 6 .. (5 + size) : registers[i] \in Nat
  BY <1>1 DEF Registers, Places
<1>3. QED
  BY <1>1, <1>2, SubSeqProperties

-----------------------------------------------------------------------------
(* What transmit() writes is a frame's registers, and the controller reads *)
(* the frame back from a buffer that holds them.                           *)
LEMMA WritesTyped ==
  ASSUME NEW f \in Commands, IsCommand(f)
  PROVE  LET w == TransmitWrites(f)
         IN  /\ w \in Seq(Nat) /\ Len(w) = 5 + f.size /\ Len(w) \in 5 .. (5 + MaxData)
             /\ w[1] = f.identifier \div 8 /\ w[2] = (f.identifier % 8) * 32
             /\ w[5] = f.size
             /\ \A i \in 1 .. f.size : w[5 + i] = f.data[i]
<1> DEFINE head == << f.identifier \div 8, (f.identifier % 8) * 32, 0, 0, f.size >>
           w == head \o f.data
<1>1. /\ f.identifier \in Nat /\ f.size \in Nat /\ f.size <= MaxData
      /\ f.data \in Seq(Nat) /\ Len(f.data) = f.size /\ MaxData \in Nat
  BY CommandTyped, CanAssumption
<1>2. f.identifier \div 8 \in Nat /\ (f.identifier % 8) * 32 \in Nat
  BY <1>1, IdentifierWhole
<1>3. head \in Seq(Nat) /\ Len(head) = 5
  BY <1>1, <1>2
<1>4. /\ head[1] = f.identifier \div 8 /\ head[2] = (f.identifier % 8) * 32
      /\ head[5] = f.size
  OBVIOUS
<1> HIDE DEF head
<1>5. /\ w \in Seq(Nat) /\ Len(w) = 5 + f.size
      /\ \A i \in 1 .. (5 + f.size) : w[i] = IF i <= 5 THEN head[i] ELSE f.data[i - 5]
  <2>1. /\ w \in Seq(Nat) /\ Len(w) = Len(head) + Len(f.data)
        /\ \A i \in 1 .. (Len(head) + Len(f.data)) :
             w[i] = IF i <= Len(head) THEN head[i] ELSE f.data[i - Len(head)]
    BY <1>1, <1>3, ConcatProperties
  <2> HIDE DEF w
  <2>2. QED
    BY <1>1, <1>3, <2>1
<1>6. \A i \in 1 .. f.size : w[5 + i] = f.data[i]
  <2> TAKE i \in 1 .. f.size
  <2>1. 5 + i \in 1 .. (5 + f.size) /\ ~(5 + i <= 5) /\ (5 + i) - 5 = i
    BY <1>1
  <2>2. QED
    BY <1>5, <2>1
<1>7. w[1] = head[1] /\ w[2] = head[2] /\ w[5] = head[5]
  BY <1>1, <1>5
<1>8. TransmitWrites(f) = w
  BY DEF TransmitWrites, head
<1> HIDE DEF w
<1>9. Len(w) \in 5 .. (5 + MaxData)
  BY <1>1, <1>5
<1>10. w[1] = f.identifier \div 8 /\ w[2] = (f.identifier % 8) * 32 /\ w[5] = f.size
  BY <1>4, <1>7
<1>11. w \in Seq(Nat) /\ Len(w) = 5 + f.size
  BY <1>5
<1>12. QED
  BY <1>6, <1>8, <1>9, <1>10, <1>11, Zenon

(* From a buffer that holds all of them the controller sends the frame.    *)
LEMMA WrittenIsRead ==
  ASSUME NEW f \in Commands, IsCommand(f), NEW registers \in Registers,
         \A i \in 1 .. Len(TransmitWrites(f)) : registers[i] = TransmitWrites(f)[i]
  PROVE  FrameOf(registers) = f
<1> DEFINE w == TransmitWrites(f)
           data == SubSeq(registers, 6, 5 + f.size)
<1>1. /\ f.identifier \in Nat /\ f.size \in Nat /\ f.size <= MaxData
      /\ f.data \in Seq(Nat) /\ Len(f.data) = f.size /\ MaxData \in 1 .. 15
      /\ f \in Frames
  BY CommandTyped, CanAssumption
<1>2. /\ Len(w) = 5 + f.size /\ w[1] = f.identifier \div 8
      /\ w[2] = (f.identifier % 8) * 32 /\ w[5] = f.size
      /\ \A i \in 1 .. f.size : w[5 + i] = f.data[i]
  BY WritesTyped
<1>3. \A i \in 1 .. Len(w) : registers[i] = w[i]
  OBVIOUS
<1> HIDE DEF w
<1>4. registers[1] = w[1] /\ registers[2] = w[2] /\ registers[5] = w[5]
  <2>1. f.size \in Nat /\ Len(w) = 5 + f.size
    BY <1>1, <1>2
  <2>2. 1 \in 1 .. Len(w) /\ 2 \in 1 .. Len(w) /\ 5 \in 1 .. Len(w)
    BY <2>1
  <2>3. QED
    BY <1>3, <2>2
<1>5. registers[1] * 8 + registers[2] \div 32 = f.identifier
  <2>1. f.identifier \in Nat
    BY <1>1
  <2>2. registers[1] = f.identifier \div 8 /\ registers[2] = (f.identifier % 8) * 32
    BY <1>2, <1>4
  <2>3. QED
    BY <2>1, <2>2, IdentifierWhole
<1>6. AtMost(registers[5] % 16, MaxData) = f.size
  <2> DEFINE n == f.size
  <2>1. n \in Nat /\ n <= MaxData /\ MaxData \in Nat
    BY <1>1
  <2>2. MaxData <= 15
    BY CanAssumption
  <2> HIDE DEF n
  <2>3. n <= 15
    BY <2>1, <2>2
  <2>4. n % 16 = n
    BY <2>1, <2>3, LengthCode
  <2>5. registers[5] = n
    BY <1>2, <1>4 DEF n
  <2>6. (IF n < MaxData THEN n ELSE MaxData) = n
    BY <2>1
  <2>7. AtMost(registers[5] % 16, MaxData) = n
    BY <2>4, <2>5, <2>6 DEF AtMost
  <2>8. QED
    BY <2>7 DEF n
<1>7. data = f.data
  <2>0. f.size \in 0 .. MaxData
    BY CommandTyped
  <2>1. /\ data \in Seq(Nat) /\ Len(data) = f.size
        /\ \A i \in 1 .. f.size : data[i] = registers[5 + i]
    BY <2>0, DataOf, Zenon
  <2> HIDE DEF data
  <2>2. \A i \in 1 .. f.size : data[i] = f.data[i]
    <3> TAKE i \in 1 .. f.size
    <3>1. 5 + i \in 1 .. Len(w)
      <4>1. f.size \in Nat /\ Len(w) = 5 + f.size
        BY <1>1, <1>2
      <4>2. QED
        BY <4>1
    <3>2. QED
      BY <1>2, <1>3, <2>1, <3>1, Zenon
  <2>3. QED
    BY <1>1, <2>1, <2>2, SameItems
<1>8. FrameOf(registers) = [identifier |-> f.identifier, size |-> f.size, data |-> f.data]
  BY <1>5, <1>6, <1>7 DEF FrameOf
<1>9. QED
  BY <1>1, <1>8 DEF Frames

(* The frame a buffer stands for is typed.                                 *)
LEMMA FrameTyped ==
  ASSUME NEW registers \in Registers
  PROVE  /\ FrameOf(registers) \in Frames
         /\ FrameOf(registers).size \in 0 .. MaxData
<1> DEFINE size == AtMost(registers[5] % 16, MaxData)
           id == registers[1] * 8 + registers[2] \div 32
<1>1. MaxData \in Nat
  BY CanAssumption
<1>2. registers[1] \in Nat /\ registers[2] \in Nat /\ registers[5] \in Nat
  BY <1>1 DEF Registers, Places
<1>3. registers[5] % 16 \in Nat
  BY <1>2, LengthCodeTyped
<1>4. size \in 0 .. MaxData
  BY <1>1, <1>3 DEF AtMost
<1>5. id \in Nat
  BY <1>2, LengthCodeTyped
<1> HIDE DEF size, id
<1>6. SubSeq(registers, 6, 5 + size) \in Seq(Nat)
  BY <1>4, DataOf
<1>7. FrameOf(registers) = [identifier |-> id, size |-> size,
                            data |-> SubSeq(registers, 6, 5 + size)]
  BY DEF FrameOf, size, id
<1>8. size \in Nat
  BY <1>1, <1>4
<1>9. QED
  BY <1>4, <1>5, <1>6, <1>7, <1>8 DEF Frames

-----------------------------------------------------------------------------
(* Bags as counts.                                                         *)
Counts(B) == B \in [DOMAIN B -> Nat]

IsSum(S, A, B) ==
  /\ Counts(S) /\ DOMAIN S = DOMAIN A \cup DOMAIN B
  /\ \A x \in DOMAIN S : S[x] = (IF x \in DOMAIN A THEN A[x] ELSE 0)
                                + (IF x \in DOMAIN B THEN B[x] ELSE 0)

(* A sum of counts is one.                                                 *)
LEMMA BagSum ==
  ASSUME NEW A, Counts(A), NEW B, Counts(B)
  PROVE  IsSum(A (+) B, A, B)
<1>1. \A x \in DOMAIN A \cup DOMAIN B :
        (IF x \in DOMAIN A THEN A[x] ELSE 0) + (IF x \in DOMAIN B THEN B[x] ELSE 0) \in Nat
  BY DEF Counts
<1>2. QED
  BY <1>1 DEF IsSum, Counts, (+)

(* The order of two summands does not matter.                              *)
LEMMA BagSwap ==
  ASSUME NEW A, Counts(A), NEW B, Counts(B), NEW C, Counts(C)
  PROVE  (A (+) B) (+) C = (A (+) C) (+) B
<1>1. PICK AB : AB = A (+) B
  OBVIOUS
<1>2. PICK AC : AC = A (+) C
  OBVIOUS
<1>3. IsSum(AB, A, B)
  BY <1>1, BagSum
<1>4. IsSum(AC, A, C)
  BY <1>2, BagSum
<1>5. PICK L : L = AB (+) C
  OBVIOUS
<1>6. PICK R : R = AC (+) B
  OBVIOUS
<1>7. IsSum(L, AB, C)
  <2>1. Counts(AB)
    BY <1>3 DEF IsSum
  <2>2. QED
    BY <1>5, <2>1, BagSum
<1>8. IsSum(R, AC, B)
  <2>1. Counts(AC)
    BY <1>4 DEF IsSum
  <2>2. QED
    BY <1>6, <2>1, BagSum
<1>9. DOMAIN L = DOMAIN R
  BY <1>3, <1>4, <1>7, <1>8 DEF IsSum
<1>10. ASSUME NEW x \in DOMAIN L
       PROVE  L[x] = R[x]
  <2>1. PICK a \in Nat : a = IF x \in DOMAIN A THEN A[x] ELSE 0
    BY DEF Counts
  <2>2. PICK b \in Nat : b = IF x \in DOMAIN B THEN B[x] ELSE 0
    BY DEF Counts
  <2>3. PICK c \in Nat : c = IF x \in DOMAIN C THEN C[x] ELSE 0
    BY DEF Counts
  <2>4. (IF x \in DOMAIN AB THEN AB[x] ELSE 0) = a + b
    BY <1>3, <2>1, <2>2 DEF IsSum
  <2>5. (IF x \in DOMAIN AC THEN AC[x] ELSE 0) = a + c
    BY <1>4, <2>1, <2>3 DEF IsSum
  <2>6. L[x] = (a + b) + c /\ R[x] = (a + c) + b
    BY <1>7, <1>8, <1>9, <2>2, <2>3, <2>4, <2>5 DEF IsSum
  <2>7. QED
    BY <2>6
<1>11. L = R
  BY <1>7, <1>8, <1>9, <1>10 DEF IsSum, Counts
<1>12. QED
  BY <1>1, <1>2, <1>5, <1>6, <1>11

(* The empty bag adds nothing.                                             *)
LEMMA BagEmpty ==
  ASSUME NEW A, Counts(A)
  PROVE  A (+) EmptyBag = A /\ Counts(EmptyBag)
<1>1. Counts(EmptyBag) /\ DOMAIN EmptyBag = {}
  BY DEF EmptyBag, SetToBag, Counts
<1>2. PICK S : S = A (+) EmptyBag
  OBVIOUS
<1>3. IsSum(S, A, EmptyBag)
  BY <1>1, <1>2, BagSum
<1>4. \A x \in DOMAIN A : S[x] = A[x]
  BY <1>1, <1>3 DEF IsSum, Counts
<1>5. S = A
  BY <1>1, <1>3, <1>4 DEF IsSum, Counts
<1>6. QED
  BY <1>1, <1>2, <1>5

-----------------------------------------------------------------------------
(* transmit(): the first n registers of the frame are in the buffer.  While *)
(* they are being written nothing is requested, so the controller leaves   *)
(* the buffer alone; when the request is made they are all there.          *)
Written(n) == \A i \in 1 .. n : txb0[i] = TransmitWrites(frame)[i]

Transmitting == pc \in {"TransmitTest", "TransmitWrite", "RequestToSend"}

TransmitInv ==
  /\ txb0 \in Registers /\ txreq \in BOOLEAN
  /\ onBus \in Seq(Frames) /\ accepted \in Seq(Frames)
  /\ pc = "Probe" => ~txreq
  /\ Transmitting => frame \in Commands /\ IsCommand(frame)
  /\ pc = "TransmitTest" => index = 0
  /\ pc = "TransmitWrite" => /\ ~txreq
                             /\ index \in 0 .. (Len(TransmitWrites(frame)) - 1)
                             /\ Written(index)
  /\ pc = "RequestToSend" => ~txreq /\ Written(Len(TransmitWrites(frame)))
  /\ AcceptedIsSentWhole

(* What the steps outside transmit() leave alone.                          *)
TransmitLeft ==
  /\ UNCHANGED <<txb0, txreq, onBus, accepted>>
  /\ pc' # "Probe"
  /\ ~Transmitting'

(* Such a step keeps the invariant of transmit().                          *)
LEMMA TransmitLeftInv ==
  ASSUME TransmitInv, TransmitLeft
  PROVE  TransmitInv'
BY DEF TransmitInv, TransmitLeft, Transmitting, AcceptedIsSentWhole, FrameOf, Written

(* So does one that leaves transmit() where it is.                         *)
LEMMA TransmitSameInv ==
  ASSUME TransmitInv, UNCHANGED <<txb0, txreq, onBus, accepted, pc, index, frame>>
  PROVE  TransmitInv'
BY DEF TransmitInv, Transmitting, AcceptedIsSentWhole, FrameOf, Written

(* Nothing has been accepted yet.                                          *)
LEMMA TransmitInit == Init => TransmitInv
<1> SUFFICES ASSUME Init PROVE TransmitInv
  OBVIOUS
<1>1. txb0 \in Registers
  BY DEF Init, Zeros, Registers, Places
<1>2. accepted = <<>> /\ onBus = <<>> /\ txreq = FALSE /\ pc = "Probe"
  BY DEF Init
<1>3. <<>> \in Seq(Frames) /\ <<>> = <<>> \o <<>>
  BY EmptySeq, ConcatProperties
<1>4. QED
  BY <1>1, <1>2, <1>3 DEF TransmitInv, Transmitting, AcceptedIsSentWhole

(* Every step keeps the invariant of transmit().                           *)
LEMMA TransmitNext == TransmitInv /\ [Next]_vars => TransmitInv'
<1> SUFFICES ASSUME TransmitInv, [Next]_vars PROVE TransmitInv'
  OBVIOUS
<1>1. CASE UNCHANGED vars
  BY <1>1, TransmitSameInv DEF vars
<1>2. ASSUME NEW f \in BusFrames, BusFrame(f) PROVE TransmitInv'
  BY <1>2, TransmitSameInv DEF BusFrame
<1>3. CASE ControllerSends
  <2>1. /\ txb0 \in Registers /\ onBus \in Seq(Frames) /\ accepted \in Seq(Frames)
        /\ accepted = onBus \o <<FrameOf(txb0)>>
    BY <1>3 DEF TransmitInv, AcceptedIsSentWhole, ControllerSends
  <2>2. FrameOf(txb0) \in Frames
    BY <2>1, FrameTyped
  <2>3. /\ onBus' = onBus \o <<FrameOf(txb0)>> /\ onBus' \in Seq(Frames)
        /\ onBus' \o <<>> = onBus'
    <3>1. onBus' = Append(onBus, FrameOf(txb0)) /\ onBus' \in Seq(Frames)
      BY <1>3, <2>1, <2>2, AppendProperties DEF ControllerSends
    <3>2. onBus' = onBus \o <<FrameOf(txb0)>>
      BY <2>1, <2>2, <3>1, EndsWithAppended
    <3>3. onBus' \o <<>> = onBus'
      BY <2>2, <3>1, EndsWithAppended
    <3>4. QED
      BY <3>1, <3>2, <3>3
  <2>4. UNCHANGED <<txb0, accepted, pc, index, frame>> /\ txreq' = FALSE
    BY <1>3 DEF ControllerSends
  <2>5. AcceptedIsSentWhole'
    BY <2>1, <2>3, <2>4 DEF AcceptedIsSentWhole
  <2>6. QED
    BY <2>1, <2>3, <2>4, <2>5 DEF TransmitInv, Transmitting, Written
<1>4. CASE ControllerStarts
  BY <1>4, TransmitSameInv DEF ControllerStarts, history
<1>5. CASE probeCanstat
  <2>1. ~txreq /\ txreq \in BOOLEAN
    BY <1>5 DEF TransmitInv, probeCanstat
  <2>2. TransmitLeft
    BY <1>5, <2>1 DEF probeCanstat, TransmitLeft, Transmitting, history
  <2>3. QED
    BY <2>2, TransmitLeftInv
<1>6. CASE configure \/ awaitMode \/ uartEmpty \/ readFlags
  <2>1. TransmitLeft
    BY <1>6 DEF configure, awaitMode, uartEmpty, readFlags, TransmitLeft,
                Transmitting, history, controller
  <2>2. QED
    BY <2>1, TransmitLeftInv
<1>7. CASE readSidh \/ readSidl \/ readDlc \/ readData \/ clearRead \/ clearUnsupported
  <2>1. TransmitLeft
    BY <1>7 DEF readSidh, readSidl, readDlc, readData, clearRead, clearUnsupported,
                TransmitLeft, Transmitting, history, controller
  <2>2. QED
    BY <2>1, TransmitLeftInv
<1>8. ASSUME NEW f \in Commands, processCommand(f) PROVE TransmitInv'
  <2>1. UNCHANGED <<txb0, txreq, onBus, accepted>>
    BY <1>8 DEF processCommand, controller
  <2>2. CASE IsCommand(f)
    <3>1. pc' = "TransmitTest" /\ frame' = f /\ index' = 0
      BY <1>8, <2>2 DEF processCommand
    <3>2. frame' \in Commands /\ IsCommand(frame)'
      BY <2>2, <3>1 DEF IsCommand
    <3>3. QED
      BY <2>1, <3>1, <3>2 DEF TransmitInv, Transmitting, AcceptedIsSentWhole, FrameOf
  <2>3. CASE ~IsCommand(f)
    <3>1. UNCHANGED <<pc, frame, index>>
      BY <1>8, <2>3 DEF processCommand
    <3>2. QED
      BY <2>1, <3>1, TransmitSameInv
  <2>4. QED
    BY <2>2, <2>3
<1>9. CASE transmitTest
  <2>1. /\ UNCHANGED <<txb0, txreq, onBus, accepted, index, frame>>
        /\ pc = "TransmitTest" /\ pc' = IF txreq THEN "Uart" ELSE "TransmitWrite"
    BY <1>9 DEF transmitTest, controller, history
  <2>2. frame \in Commands /\ IsCommand(frame) /\ index = 0 /\ txreq \in BOOLEAN
    BY <2>1 DEF TransmitInv, Transmitting
  <2>3. 0 \in 0 .. (Len(TransmitWrites(frame)) - 1)
    <3>1. Len(TransmitWrites(frame)) \in 5 .. (5 + MaxData)
      BY <2>2, WritesTyped
    <3>2. MaxData \in Nat
      BY CanAssumption
    <3>3. QED
      BY <3>1, <3>2
  <2>4. Written(0)
    BY DEF Written
  <2>5. CASE txreq
    <3>1. TransmitLeft
      BY <2>1, <2>5 DEF TransmitLeft, Transmitting
    <3>2. QED
      BY <3>1, TransmitLeftInv
  <2>6. CASE ~txreq
    <3>1. pc' = "TransmitWrite" /\ index' = 0 /\ ~txreq'
      BY <2>1, <2>2, <2>6
    <3>2. frame' \in Commands /\ IsCommand(frame)'
      BY <2>1, <2>2
    <3>3. Written(index)' /\ index' \in 0 .. (Len(TransmitWrites(frame')) - 1)
      BY <2>1, <2>3, <3>1 DEF Written
    <3>4. QED
      BY <2>1, <3>1, <3>2, <3>3 DEF TransmitInv, Transmitting, AcceptedIsSentWhole, FrameOf
  <2>7. QED
    BY <2>2, <2>5, <2>6
<1>10. CASE transmitWrite
  <2> DEFINE w == TransmitWrites(frame)
  <2>1. /\ UNCHANGED <<txreq, onBus, accepted, frame>> /\ index' = index + 1
        /\ txb0' = [txb0 EXCEPT ![index + 1] = w[index + 1]]
        /\ pc = "TransmitWrite"
        /\ pc' = IF index + 1 < Len(w) THEN "TransmitWrite" ELSE "RequestToSend"
    BY <1>10 DEF transmitWrite, history
  <2>2. /\ frame \in Commands /\ IsCommand(frame) /\ ~txreq /\ txreq \in BOOLEAN
        /\ index \in 0 .. (Len(w) - 1) /\ Written(index) /\ txb0 \in Registers
    BY <2>1 DEF TransmitInv, Transmitting
  <2>3. w \in Seq(Nat) /\ Len(w) \in 5 .. (5 + MaxData) /\ MaxData \in Nat
    BY <2>2, WritesTyped, CanAssumption
  <2>4. w' = w
    BY <2>1
  <2>w. \A i \in 1 .. index : txb0[i] = w[i]
    BY <2>2 DEF Written
  <2> HIDE DEF w
  <2>5. index + 1 \in 1 .. Len(w) /\ index + 1 \in Places
    BY <2>2, <2>3 DEF Places
  <2>6. txb0' \in Registers
    <3>1. w[index + 1] \in Nat
      BY <2>3, <2>5
    <3>2. QED
      BY <2>1, <2>2, <2>5, <3>1 DEF Registers
  <2>7. \A i \in 1 .. (index + 1) : txb0'[i] = w[i]
    <3>1. \A i \in Places : txb0'[i] = IF i = index + 1 THEN w[index + 1] ELSE txb0[i]
      BY <2>1, <2>2 DEF Registers
    <3>2. \A i \in 1 .. (index + 1) : i \in Places /\ (i = index + 1 \/ i \in 1 .. index)
      BY <2>2, <2>3, <2>5 DEF Places
    <3>3. QED
      BY <2>w, <3>1, <3>2
  <2>8. Written(index)'
    <3> USE DEF w
    <3>1. QED
      BY <2>1, <2>7 DEF Written
  <2>9. AcceptedIsSentWhole'
    <3>1. accepted = onBus \o <<>>
      BY <2>2 DEF TransmitInv, AcceptedIsSentWhole
    <3>2. QED
      BY <2>1, <2>2, <3>1 DEF AcceptedIsSentWhole
  <2>10. onBus' \in Seq(Frames) /\ accepted' \in Seq(Frames)
    BY <2>1 DEF TransmitInv
  <2>11. CASE index + 1 < Len(w)
    <3>1. index' \in 0 .. (Len(w) - 1) /\ pc' = "TransmitWrite"
      BY <2>1, <2>2, <2>3, <2>11
    <3> USE DEF w
    <3>2. QED
      BY <2>1, <2>2, <2>6, <2>8, <2>9, <2>10, <3>1 DEF TransmitInv, Transmitting
  <2>12. CASE ~(index + 1 < Len(w))
    <3>1. index + 1 = Len(w) /\ pc' = "RequestToSend"
      BY <2>1, <2>2, <2>3, <2>12
    <3> USE DEF w
    <3>2. Written(Len(TransmitWrites(frame)))'
      BY <2>1, <2>7, <3>1 DEF Written
    <3>3. QED
      BY <2>1, <2>2, <2>6, <2>9, <2>10, <3>1, <3>2 DEF TransmitInv, Transmitting
  <2>13. QED
    BY <2>11, <2>12
<1>11. CASE requestToSend
  <2>1. /\ UNCHANGED <<txb0, onBus>> /\ accepted' = Append(accepted, frame)
        /\ txreq' = TRUE /\ pc = "RequestToSend" /\ pc' = "Uart"
    BY <1>11 DEF requestToSend
  <2>2. /\ frame \in Commands /\ IsCommand(frame) /\ ~txreq /\ txreq \in BOOLEAN
        /\ Written(Len(TransmitWrites(frame))) /\ txb0 \in Registers
        /\ onBus \in Seq(Frames) /\ accepted \in Seq(Frames)
    BY <2>1 DEF TransmitInv, Transmitting
  <2>3. FrameOf(txb0) = frame
    BY <2>2, WrittenIsRead DEF Written
  <2>4. frame \in Frames
    BY <2>2, CommandTyped
  <2>5. accepted = onBus
    <3>1. accepted = onBus \o <<>>
      BY <2>2 DEF TransmitInv, AcceptedIsSentWhole
    <3>2. onBus \o <<>> = onBus
      BY <2>2, <2>4, EndsWithAppended
    <3>3. QED
      BY <3>1, <3>2
  <2>6. accepted' = onBus \o <<frame>> /\ accepted' \in Seq(Frames)
    BY <2>1, <2>2, <2>4, <2>5, EndsWithAppended, AppendProperties
  <2>7. AcceptedIsSentWhole'
    BY <2>1, <2>3, <2>6 DEF AcceptedIsSentWhole, FrameOf
  <2>8. QED
    BY <2>1, <2>2, <2>6, <2>7 DEF TransmitInv, Transmitting
<1>12. QED
  BY <1>1, <1>2, <1>3, <1>4, <1>5, <1>6, <1>7, <1>8, <1>9, <1>10, <1>11
     DEF Next, Controller, Driver, Halted

(* transmit() tests TXREQ, then writes the registers one transaction at a  *)
(* time while the controller runs: what goes on the bus is what it         *)
(* accepted, in that order, and the only accepted frame not yet sent is    *)
(* the whole one in transmit buffer 0.                                     *)
THEOREM CanAcceptedIsSentWhole == Spec => []AcceptedIsSentWhole
<1>1. TransmitInv => AcceptedIsSentWhole
  BY DEF TransmitInv
<1>2. QED
  BY <1>1, TransmitInit, TransmitNext, PTL DEF Spec

-----------------------------------------------------------------------------
(* receive(): what the driver has of the buffer's frame before each read.  *)
(* The buffer stays flagged until the last transaction, so the controller  *)
(* leaves its registers r as they are.                                     *)
Reading == {"Sidh", "Sidl", "Dlc", "Data", "Clear", "ClearUnsupported"}

Reads(p, fr, r) ==
  /\ p = "Sidl" => fr.identifier = r[1] * 8
  /\ p \in {"Dlc", "Data"} => fr.identifier = r[1] * 8 + r[2] \div 32
  /\ p = "Dlc" => IsStandard(r)
  /\ p = "Data" => /\ IsStandard(r)
                   /\ fr.size = AtMost(r[5] % 16, MaxData)
                   /\ Len(fr.data) < fr.size
                   /\ \A i \in 1 .. Len(fr.data) : fr.data[i] = r[5 + i]
  /\ p = "Clear" => IsStandard(r) /\ fr = FrameOf(r)
  /\ p = "ClearUnsupported" => ~IsStandard(r)

(* The bit that receive() takes for the remote flag is never set in a       *)
(* buffer that holds a standard frame.                                     *)
Filled == {r \in Registers : IsStandard(r) => (r[5] \div 64) % 2 = 0}

ReceiveTyped ==
  /\ rxb \in [{0, 1} -> Filled] /\ rxif \subseteq {0, 1}
  /\ flag \in {0, 1} /\ frame \in Frames

ReadingInv ==
  /\ pc = "Probe" => rxif = {} /\ mode = "Reset"
  /\ pc = "Configure" => rxif = {} /\ mode = "Config"
  /\ pc \in Reading => flag \in rxif /\ Reads(pc, frame, rxb[flag])

BagsInv == Counts(captured) /\ Counts(reported) /\ CapturedOnceReportedOnce

ReceiveInv == ReceiveTyped /\ ReadingInv /\ BagsInv

(* What a buffer holds, as a function of the registers and the flags.      *)
HeldIn(b, buffers, flags) ==
  IF b \in flags /\ IsStandard(buffers[b])
  THEN SetToBag({FrameOf(buffers[b])}) ELSE EmptyBag

(* Before and after a step.                                                *)
LEMMA HeldBags ==
  ASSUME NEW b \in {0, 1}
  PROVE  /\ Held(b) = HeldIn(b, rxb, rxif)
         /\ Held(b)' = HeldIn(b, rxb', rxif')
BY DEF Held, HeldIn, FrameOf, IsStandard, AtMost

(* A bag of one frame.                                                     *)
LEMMA OneCounts ==
  ASSUME NEW x
  PROVE  Counts(SetToBag({x}))
BY DEF Counts, SetToBag

(* What a buffer holds is a bag.                                           *)
LEMMA HeldCounts ==
  ASSUME NEW b, NEW buffers, NEW flags
  PROVE  Counts(HeldIn(b, buffers, flags))
<1>1. Counts(EmptyBag)
  BY DEF EmptyBag, SetToBag, Counts
<1>2. QED
  BY <1>1, OneCounts DEF HeldIn

(* The frame that has all of the registers' bytes is the buffer's frame.   *)
LEMMA WholeFrame ==
  ASSUME NEW r \in Registers, NEW fr \in Frames,
         fr.identifier = r[1] * 8 + r[2] \div 32,
         fr.size = AtMost(r[5] % 16, MaxData), Len(fr.data) = fr.size,
         \A i \in 1 .. Len(fr.data) : fr.data[i] = r[5 + i]
  PROVE  fr = FrameOf(r)
<1> DEFINE size == AtMost(r[5] % 16, MaxData)
           data == SubSeq(r, 6, 5 + size)
<1>1. FrameOf(r) = [identifier |-> r[1] * 8 + r[2] \div 32, size |-> size, data |-> data]
  BY DEF FrameOf
<1>2. size \in 0 .. MaxData
  <2>1. size = FrameOf(r).size
    BY <1>1
  <2>2. QED
    BY <2>1, FrameTyped
<1>3. data \in Seq(Nat) /\ Len(data) = size /\ \A i \in 1 .. size : data[i] = r[5 + i]
  BY <1>2, DataOf, Zenon
<1> HIDE DEF data
<1>4. fr.data \in Seq(Nat) /\ Len(fr.data) = size
  BY DEF Frames
<1> HIDE DEF size
<1>5. fr.data = data
  <2>1. \A i \in 1 .. size : fr.data[i] = data[i]
    BY <1>3, <1>4
  <2>2. QED
    BY <1>3, <1>4, <2>1, SameItems
<1>6. fr.size = size
  BY DEF size
<1>7. fr = [identifier |-> fr.identifier, size |-> fr.size, data |-> fr.data]
  BY DEF Frames
<1>8. QED
  BY <1>1, <1>5, <1>6, <1>7

(* The bits beside the identifier do not disturb it, nor it them.          *)
LEMMA SidlBits ==
  ASSUME NEW id \in Nat, NEW bits \in {0, 8, 16}
  PROVE  /\ (id % 8) * 32 + bits \in Nat
         /\ (id \div 8) * 8 + ((id % 8) * 32 + bits) \div 32 = id
         /\ (((id % 8) * 32 + bits) \div 8) % 2 = IF bits = 8 THEN 1 ELSE 0
<1>1. id \div 8 \in Nat /\ id % 8 \in 0 .. 7 /\ id = 8 * (id \div 8) + (id % 8)
  OBVIOUS
<1>2. PICK r \in 0 .. 7 : r = id % 8
  BY <1>1
<1>3. (r * 32 + bits) \div 32 = r
  BY <1>2
<1>4. ((r * 32 + bits) \div 8) % 2 = IF bits = 8 THEN 1 ELSE 0
  <2>1. bits \div 8 \in {0, 1, 2} /\ (r * 32 + bits) \div 8 = r * 4 + bits \div 8
    BY <1>2
  <2>2. (r * 4 + bits \div 8) % 2 = IF bits = 8 THEN 1 ELSE 0
    BY <1>2
  <2>3. QED
    BY <2>1, <2>2
<1>5. QED
  BY <1>1, <1>2, <1>3, <1>4

(* The registers that a frame of the bus fills: IDE tells the extended     *)
(* ones, the remote flag of the length register is not set for the others. *)
LEMMA RegistersTyped ==
  ASSUME NEW f \in BusFrames
  PROVE  /\ RegistersOf(f) \in Filled
         /\ IsStandard(RegistersOf(f)) <=> ~f.extended
         /\ ~f.extended => FrameOf(RegistersOf(f)) = FrameOnBus(f)
<1> DEFINE ide_srr == IF f.extended THEN 8 ELSE IF f.remote THEN 16 ELSE 0
           sidl == (f.id % 8) * 32 + ide_srr
           dlc == f.dlc + (IF f.extended /\ f.remote THEN 64 ELSE 0)
           head == << f.id \div 8, sidl, 0, 0, dlc >>
           w == head \o f.data
<1>1. /\ f.id \in Nat /\ f.dlc \in Nat /\ f.data \in Seq(Nat) /\ Len(f.data) = MaxData
      /\ f.dlc \in 0 .. 15 /\ f.extended \in BOOLEAN /\ f.remote \in BOOLEAN
  <2>1. f \in [id : Nat, dlc : 0 .. 15, extended : BOOLEAN, remote : BOOLEAN, data : Seq(Nat)]
    BY CanAssumption
  <2>2. QED
    BY <2>1, CanAssumption
<1>2. ide_srr \in {0, 8, 16} /\ (ide_srr = 8 <=> f.extended)
  BY <1>1
<1>3. /\ sidl \in Nat /\ (sidl \div 8) % 2 = (IF f.extended THEN 1 ELSE 0)
      /\ (f.id \div 8) * 8 + sidl \div 32 = f.id
  <2>1. PICK bits \in {0, 8, 16} : bits = ide_srr
    BY <1>2
  <2>2. sidl = (f.id % 8) * 32 + bits /\ (bits = 8 <=> f.extended)
    BY <1>2, <2>1
  <2> HIDE DEF ide_srr, sidl
  <2>3. /\ (f.id % 8) * 32 + bits \in Nat
        /\ (f.id \div 8) * 8 + ((f.id % 8) * 32 + bits) \div 32 = f.id
        /\ (((f.id % 8) * 32 + bits) \div 8) % 2 = IF bits = 8 THEN 1 ELSE 0
    BY <1>1, SidlBits
  <2>4. QED
    BY <2>2, <2>3, Zenon
<1>4. ~f.extended => dlc = f.dlc
  BY <1>1
<1>5. f.id \div 8 \in Nat
  BY <1>1, IdentifierWhole
<1>6. sidl \in Nat
  BY <1>3
<1>7. dlc \in Nat
  BY <1>1
<1> HIDE DEF sidl, dlc
<1>8. head \in Seq(Nat) /\ Len(head) = 5
  BY <1>5, <1>6, <1>7
<1>9. head[1] = f.id \div 8 /\ head[2] = sidl /\ head[5] = dlc
  OBVIOUS
<1>10. RegistersOf(f) = w
  BY DEF RegistersOf, head, sidl, dlc, ide_srr
<1> HIDE DEF head
<1>11. /\ w \in Seq(Nat) /\ Len(w) = 5 + MaxData
      /\ \A i \in 1 .. (5 + MaxData) : w[i] = IF i <= 5 THEN head[i] ELSE f.data[i - 5]
  <2>1. /\ w \in Seq(Nat) /\ Len(w) = Len(head) + Len(f.data)
        /\ \A i \in 1 .. (Len(head) + Len(f.data)) :
             w[i] = IF i <= Len(head) THEN head[i] ELSE f.data[i - Len(head)]
    BY <1>1, <1>8, ConcatProperties
  <2>2. Len(head) = 5 /\ Len(f.data) = MaxData
    BY <1>1, <1>8
  <2> HIDE DEF w
  <2>3. QED
    BY <2>1, <2>2
<1> HIDE DEF w
<1>12. w \in Registers
  BY <1>11 DEF Registers, Places
<1>13. MaxData \in 1 .. 15
  BY CanAssumption
<1>14. w[1] = f.id \div 8 /\ w[2] = sidl /\ w[5] = dlc
  BY <1>11, <1>13, <1>9
<1>15. IsStandard(w) <=> ~f.extended
  BY <1>1, <1>3, <1>14 DEF IsStandard
<1>16. ASSUME ~f.extended PROVE (w[5] \div 64) % 2 = 0
  <2>1. w[5] \in 0 .. 15
    BY <1>1, <1>4, <1>14, <1>16
  <2>2. QED
    BY <2>1
<1>17. ASSUME ~f.extended PROVE FrameOf(w) = FrameOnBus(f)
  <2> DEFINE size == AtMost(f.dlc, MaxData)
             fr == [identifier |-> f.id, size |-> size, data |-> SubSeq(f.data, 1, size)]
  <2>1. size \in 0 .. MaxData
    BY <1>1, <1>13 DEF AtMost
  <2>2. w[5] % 16 = f.dlc
    <3>1. f.dlc \in Nat /\ f.dlc <= 15
      BY <1>1
    <3>2. w[5] = f.dlc
      BY <1>4, <1>14, <1>17
    <3>3. QED
      BY <3>1, <3>2, LengthCode
  <2>3. /\ SubSeq(f.data, 1, size) \in Seq(Nat) /\ Len(SubSeq(f.data, 1, size)) = size
        /\ \A i \in 1 .. size : SubSeq(f.data, 1, size)[i] = f.data[i]
    <3> HIDE DEF size
    <3>1. size \in Nat /\ \A i \in 1 .. size : f.data[i] \in Nat
      BY <1>1, <1>13, <2>1
    <3>2. QED
      BY <1>1, <1>13, <2>1, <3>1, SubSeqProperties
  <2>4. \A i \in 1 .. size : w[5 + i] = f.data[i]
    <3> TAKE i \in 1 .. size
    <3> HIDE DEF size
    <3>1. 5 + i \in 1 .. (5 + MaxData) /\ ~(5 + i <= 5) /\ (5 + i) - 5 = i
      BY <1>13, <2>1
    <3>2. QED
      BY <1>11, <3>1
  <2>5. size \in Nat
    BY <1>13, <2>1
  <2> HIDE DEF size
  <2>6. fr \in Frames /\ fr.identifier = f.id /\ fr.size = size
        /\ fr.data = SubSeq(f.data, 1, size)
    BY <1>1, <2>3, <2>5 DEF Frames
  <2>7. fr.identifier = w[1] * 8 + w[2] \div 32
    BY <1>3, <1>14, <2>6
  <2>8. \A i \in 1 .. Len(fr.data) : fr.data[i] = w[5 + i]
    BY <2>3, <2>4, <2>6
  <2>9. fr.size = AtMost(w[5] % 16, MaxData) /\ Len(fr.data) = fr.size
    BY <2>2, <2>3, <2>6 DEF size
  <2> HIDE DEF fr
  <2>10. fr = FrameOf(w)
    BY <1>12, <2>6, <2>7, <2>8, <2>9, WholeFrame
  <2>11. FrameOnBus(f) = fr
    BY DEF FrameOnBus, fr, size
  <2>12. QED
    BY <2>10, <2>11
<1>18. w \in Filled
  BY <1>12, <1>15, <1>16 DEF Filled
<1>19. QED
  BY <1>10, <1>15, <1>17, <1>18

(* A frame moves from the bus into a buffer, and from a buffer to the      *)
(* application, without a change of the whole.                             *)
LEMMA BagCapture ==
  ASSUME NEW A, Counts(A), NEW H, Counts(H), NEW X, Counts(X)
  PROVE  /\ ((A (+) EmptyBag) (+) H) (+) X = (A (+) X) (+) H
         /\ ((A (+) H) (+) EmptyBag) (+) X = (A (+) H) (+) X
<1>1. A (+) EmptyBag = A
  BY BagEmpty
<1>2. (A (+) H) (+) X = (A (+) X) (+) H
  BY BagSwap
<1>3. Counts(A (+) H)
  BY BagSum DEF IsSum
<1>4. (A (+) H) (+) EmptyBag = A (+) H
  BY <1>3, BagEmpty
<1>5. QED
  BY <1>1, <1>2, <1>4, Zenon

(* From a buffer to the application.                                       *)
LEMMA BagReport ==
  ASSUME NEW A, Counts(A), NEW H, Counts(H), NEW X, Counts(X)
  PROVE  /\ (A (+) X) (+) H = ((A (+) X) (+) EmptyBag) (+) H
         /\ (A (+) H) (+) X = ((A (+) X) (+) H) (+) EmptyBag
<1>1. Counts(A (+) X)
  BY BagSum DEF IsSum
<1>2. (A (+) X) (+) EmptyBag = A (+) X
  BY <1>1, BagEmpty
<1>3. Counts((A (+) X) (+) H)
  BY <1>1, BagSum DEF IsSum
<1>4. ((A (+) X) (+) H) (+) EmptyBag = (A (+) X) (+) H
  BY <1>3, BagEmpty
<1>5. (A (+) H) (+) X = (A (+) X) (+) H
  BY BagSwap
<1>6. QED
  BY <1>2, <1>4, <1>5, Zenon

(* The bags of a step that leaves both buffers and the reports alone.      *)
LEMMA BagsSame ==
  ASSUME BagsInv, UNCHANGED <<rxb, rxif, captured, reported>>
  PROVE  BagsInv'
<1>1. Held(0)' = Held(0) /\ Held(1)' = Held(1)
  BY HeldBags
<1>2. QED
  BY <1>1 DEF BagsInv, CapturedOnceReportedOnce, Counts

(* The frame between two calls.                                            *)
LEMMA BlankTyped == Blank \in Frames
<1>1. <<>> \in Seq(Nat)
  BY EmptySeq
<1>2. QED
  BY <1>1 DEF Blank, Frames

(* Nothing has been captured yet.                                          *)
LEMMA ReceiveInit == Init => ReceiveInv
<1> SUFFICES ASSUME Init PROVE ReceiveInv
  OBVIOUS
<1>1. ReceiveTyped
  <2>1. Zeros \in Registers /\ Zeros[5] = 0
    BY CanAssumption DEF Zeros, Registers, Places
  <2>2. Zeros \in Filled
    BY <2>1 DEF Filled
  <2>3. QED
    BY <2>2, BlankTyped DEF Init, ReceiveTyped
<1>2. ReadingInv
  BY DEF Init, ReadingInv, Reading
<1>3. BagsInv
  <2>1. Counts(EmptyBag)
    BY DEF EmptyBag, SetToBag, Counts
  <2>2. EmptyBag (+) EmptyBag = EmptyBag
    BY <2>1, BagEmpty
  <2>3. Held(0) = EmptyBag /\ Held(1) = EmptyBag
    BY DEF Held, Init
  <2>4. captured = EmptyBag /\ reported = EmptyBag
    BY DEF Init
  <2>5. QED
    BY <2>1, <2>2, <2>3, <2>4 DEF BagsInv, CapturedOnceReportedOnce
<1>4. QED
  BY <1>1, <1>2, <1>3 DEF ReceiveInv

-----------------------------------------------------------------------------
(* A captured frame goes to a buffer that is not being read.               *)
LEMMA CaptureKeeps ==
  ASSUME ReceiveInv, NEW f \in BusFrames, BusFrame(f)
  PROVE  ReceiveInv'
<1>1. /\ UNCHANGED <<mode, pc, flag, frame, reported>> /\ mode = "Normal"
  BY DEF BusFrame
<1>2. /\ rxb \in [{0, 1} -> Filled] /\ rxif \subseteq {0, 1}
      /\ flag \in {0, 1} /\ frame \in Frames
      /\ Counts(captured) /\ Counts(reported)
      /\ captured = (reported (+) Held(0)) (+) Held(1)
  BY DEF ReceiveInv, ReceiveTyped, BagsInv, CapturedOnceReportedOnce
<1>3. pc # "Probe" /\ pc # "Configure"
  BY <1>1 DEF ReceiveInv, ReadingInv
<1>4. CASE FreeBuffers = {}
  <2>1. UNCHANGED <<rxb, rxif, captured>>
    BY <1>4 DEF BusFrame
  <2>2. BagsInv'
    BY <1>1, <2>1, BagsSame DEF ReceiveInv
  <2>3. ReceiveTyped'
    BY <1>1, <1>2, <2>1 DEF ReceiveTyped
  <2>4. ReadingInv'
    BY <1>1, <1>3, <2>1 DEF ReceiveInv, ReadingInv
  <2>5. QED
    BY <2>2, <2>3, <2>4 DEF ReceiveInv
<1>5. CASE FreeBuffers # {}
  <2> DEFINE r == RegistersOf(f)
             X == SetToBag({FrameOf(r)})
  <2>1. PICK b \in {0, 1} : b \notin rxif /\ Captures(b, f)
    BY <1>5 DEF BusFrame, FreeBuffers
  <2>2. /\ rxb' = [rxb EXCEPT ![b] = r] /\ rxif' = rxif \cup {b}
        /\ captured' = IF IsStandard(r) THEN captured (+) X ELSE captured
    BY <2>1, RegistersTyped DEF Captures
  <2>3. r \in Filled
    BY RegistersTyped
  <2>4. Counts(X)
    BY OneCounts
  <2> HIDE DEF r
  <2>5. ReceiveTyped'
    BY <1>1, <1>2, <2>2, <2>3 DEF ReceiveTyped
  <2>6. ReadingInv'
    <3>1. ASSUME pc \in Reading PROVE flag \in rxif' /\ rxb'[flag] = rxb[flag]
      <4>1. flag \in rxif
        BY <3>1 DEF ReceiveInv, ReadingInv
      <4>2. QED
        BY <1>2, <2>1, <2>2, <4>1
    <3>2. pc \in Reading => Reads(pc, frame, rxb[flag])
      BY DEF ReceiveInv, ReadingInv
    <3>3. pc' \in Reading => flag' \in rxif' /\ Reads(pc', frame', rxb'[flag'])
      BY <1>1, <3>1, <3>2
    <3>4. QED
      BY <1>1, <1>3, <3>3 DEF ReadingInv
  <2>7. HeldIn(b, rxb, rxif) = EmptyBag
    BY <2>1 DEF HeldIn
  <2>8. HeldIn(b, rxb', rxif') = IF IsStandard(r) THEN X ELSE EmptyBag
    <3>1. b \in rxif' /\ rxb'[b] = r
      BY <1>2, <2>1, <2>2
    <3>2. QED
      BY <3>1 DEF HeldIn
  <2>9. \A c \in {0, 1} \ {b} : HeldIn(c, rxb', rxif') = HeldIn(c, rxb, rxif)
    <3> TAKE c \in {0, 1} \ {b}
    <3>1. rxb'[c] = rxb[c] /\ (c \in rxif' <=> c \in rxif)
      BY <1>2, <2>1, <2>2
    <3>2. QED
      BY <3>1 DEF HeldIn
  <2>10. \A c \in {0, 1} : /\ Held(c) = HeldIn(c, rxb, rxif)
                           /\ Held(c)' = HeldIn(c, rxb', rxif')
                           /\ Counts(Held(c))
    BY HeldBags, HeldCounts
  <2> HIDE DEF X
  <2>11. Counts(captured')
    <3>1. Counts(captured (+) X)
      BY <1>2, <2>4, BagSum DEF IsSum
    <3>2. QED
      BY <1>2, <2>2, <3>1
  <2>12. captured' = (reported (+) Held(0)') (+) Held(1)'
    <3>1. CASE ~IsStandard(r)
      <4>1. captured' = captured
        BY <2>2, <3>1
      <4>2. \A c \in {0, 1} : Held(c)' = Held(c)
        BY <2>7, <2>8, <2>9, <2>10, <3>1
      <4>3. Held(0)' = Held(0) /\ Held(1)' = Held(1)
        BY <4>2
      <4>4. QED
        BY <1>2, <4>1, <4>3, Zenon
    <3>2. CASE IsStandard(r) /\ b = 0
      <4>1. Held(0) = EmptyBag /\ Held(0)' = X /\ Held(1)' = Held(1) /\ Counts(Held(1))
        BY <2>7, <2>8, <2>9, <2>10, <3>2
      <4>2. captured' = ((reported (+) EmptyBag) (+) Held(1)) (+) X
        BY <1>2, <2>2, <3>2, <4>1
      <4>3. QED
        BY <1>2, <2>4, <4>1, <4>2, BagCapture
    <3>3. CASE IsStandard(r) /\ b = 1
      <4>1. Held(1) = EmptyBag /\ Held(1)' = X /\ Held(0)' = Held(0) /\ Counts(Held(0))
        BY <2>7, <2>8, <2>9, <2>10, <3>3
      <4>2. captured' = ((reported (+) Held(0)) (+) EmptyBag) (+) X
        BY <1>2, <2>2, <3>3, <4>1
      <4>3. QED
        BY <1>2, <2>4, <4>1, <4>2, BagCapture
    <3>4. QED
      BY <3>1, <3>2, <3>3
  <2>13. BagsInv'
    BY <1>1, <1>2, <2>11, <2>12 DEF BagsInv, CapturedOnceReportedOnce, Counts
  <2>14. QED
    BY <2>5, <2>6, <2>13 DEF ReceiveInv
<1>6. QED
  BY <1>4, <1>5

(* receive() gives the buffer back: with a report when it held a standard  *)
(* frame, without one when it did not.                                     *)
LEMMA ClearKeeps ==
  ASSUME ReceiveInv, clearRead \/ clearUnsupported
  PROVE  ReceiveInv'
<1> DEFINE X == SetToBag({frame})
<1>1. /\ UNCHANGED <<mode, rxb, flag, captured>> /\ rxif' = rxif \ {flag}
      /\ pc' \in {"Flags", "Uart"} /\ frame' = Blank
  BY DEF clearRead, clearUnsupported, ClearFlag, history
<1>2. /\ rxb \in [{0, 1} -> Filled] /\ rxif \subseteq {0, 1}
      /\ flag \in {0, 1} /\ frame \in Frames
      /\ Counts(captured) /\ Counts(reported)
      /\ captured = (reported (+) Held(0)) (+) Held(1)
  BY DEF ReceiveInv, ReceiveTyped, BagsInv, CapturedOnceReportedOnce
<1>3. ReceiveTyped'
  BY <1>1, <1>2, BlankTyped DEF ReceiveTyped
<1>4. ReadingInv'
  BY <1>1 DEF ReadingInv, Reading
<1>5. pc \in Reading
  BY DEF clearRead, clearUnsupported, Reading
<1>6. flag \in rxif /\ Reads(pc, frame, rxb[flag])
  BY <1>5 DEF ReceiveInv, ReadingInv
<1>7. HeldIn(flag, rxb', rxif') = EmptyBag
  BY <1>1 DEF HeldIn
<1>8. \A c \in {0, 1} \ {flag} : HeldIn(c, rxb', rxif') = HeldIn(c, rxb, rxif)
  BY <1>1 DEF HeldIn
<1>9. \A c \in {0, 1} : /\ Held(c) = HeldIn(c, rxb, rxif)
                        /\ Held(c)' = HeldIn(c, rxb', rxif')
                        /\ Counts(Held(c))
  BY HeldBags, HeldCounts
<1>10. CASE clearUnsupported
  <2>1. reported' = reported /\ pc = "ClearUnsupported"
    BY <1>10 DEF clearUnsupported, history
  <2>2. HeldIn(flag, rxb, rxif) = EmptyBag
    BY <1>6, <2>1 DEF HeldIn, Reads
  <2>3. Held(0)' = Held(0) /\ Held(1)' = Held(1)
    BY <1>2, <1>7, <1>8, <1>9, <2>2
  <2>4. BagsInv'
    BY <1>1, <1>2, <2>1, <2>3 DEF BagsInv, CapturedOnceReportedOnce, Counts
  <2>5. QED
    BY <1>3, <1>4, <2>4 DEF ReceiveInv
<1>11. CASE clearRead
  <2>1. reported' = reported (+) X /\ pc = "Clear"
    BY <1>11 DEF clearRead
  <2>2. HeldIn(flag, rxb, rxif) = X
    <3>1. IsStandard(rxb[flag]) /\ frame = FrameOf(rxb[flag])
      BY <1>6, <2>1 DEF Reads
    <3>2. QED
      BY <1>6, <3>1 DEF HeldIn
  <2>3. Counts(X)
    BY OneCounts
  <2> HIDE DEF X
  <2>4. Counts(reported')
    BY <1>2, <2>1, <2>3, BagSum DEF IsSum
  <2>5. captured = (reported' (+) Held(0)') (+) Held(1)'
    <3>1. CASE flag = 0
      <4>1. Held(0) = X /\ Held(0)' = EmptyBag /\ Held(1)' = Held(1) /\ Counts(Held(1))
        BY <1>7, <1>8, <1>9, <2>2, <3>1
      <4>2. captured = (reported (+) X) (+) Held(1)
        BY <1>2, <4>1, Zenon
      <4>3. captured = ((reported (+) X) (+) EmptyBag) (+) Held(1)
        BY <1>2, <2>3, <4>1, <4>2, BagReport
      <4>4. QED
        BY <2>1, <4>1, <4>3, Zenon
    <3>2. CASE flag = 1
      <4>1. Held(1) = X /\ Held(1)' = EmptyBag /\ Held(0)' = Held(0) /\ Counts(Held(0))
        BY <1>7, <1>8, <1>9, <2>2, <3>2
      <4>2. captured = (reported (+) Held(0)) (+) X
        BY <1>2, <4>1, Zenon
      <4>3. captured = ((reported (+) X) (+) Held(0)) (+) EmptyBag
        BY <1>2, <2>3, <4>1, <4>2, BagReport
      <4>4. QED
        BY <2>1, <4>1, <4>3, Zenon
    <3>3. QED
      BY <1>2, <3>1, <3>2
  <2>6. BagsInv'
    BY <1>1, <1>2, <2>4, <2>5 DEF BagsInv, CapturedOnceReportedOnce, Counts
  <2>7. QED
    BY <1>3, <1>4, <2>6 DEF ReceiveInv
<1>12. QED
  BY <1>10, <1>11

-----------------------------------------------------------------------------
(* The reads of receive(), each of which leaves the controller alone.      *)
LEMMA ReadKeeps ==
  ASSUME ReceiveInv, UNCHANGED <<mode, rxb, rxif, flag, captured, reported>>,
         frame' \in Frames, pc' \in Reading, flag \in rxif,
         Reads(pc', frame', rxb[flag])
  PROVE  ReceiveInv'
<1>1. ReceiveTyped'
  BY DEF ReceiveInv, ReceiveTyped
<1>2. ReadingInv'
  <2>1. pc' # "Probe" /\ pc' # "Configure"
    BY DEF Reading
  <2>2. flag' \in rxif' /\ Reads(pc', frame', rxb'[flag'])
    OBVIOUS
  <2>3. QED
    BY <2>1, <2>2 DEF ReadingInv
<1>3. BagsInv'
  BY BagsSame DEF ReceiveInv
<1>4. QED
  BY <1>1, <1>2, <1>3 DEF ReceiveInv

(* The registers that receive() reads are numbers.                         *)
LEMMA ReadTyped ==
  ASSUME ReceiveInv, pc \in Reading
  PROVE  /\ flag \in rxif /\ rxb[flag] \in Registers /\ frame \in Frames
         /\ rxb[flag] \in Filled
         /\ rxb[flag][1] \in Nat /\ rxb[flag][2] \in Nat /\ rxb[flag][5] \in Nat
         /\ Reads(pc, frame, rxb[flag])
<1>1. /\ flag \in rxif /\ rxb[flag] \in Filled /\ frame \in Frames
      /\ Reads(pc, frame, rxb[flag])
  BY DEF ReceiveInv, ReadingInv, ReceiveTyped
<1>2. rxb[flag] \in Registers
  BY <1>1 DEF Filled
<1>3. 1 \in Places /\ 2 \in Places /\ 5 \in Places
  BY CanAssumption DEF Places
<1>4. QED
  BY <1>1, <1>2, <1>3 DEF Registers

(* The read of SIDH: the upper part of the identifier.                     *)
LEMMA SidhKeeps ==
  ASSUME ReceiveInv, readSidh
  PROVE  ReceiveInv'
<1> DEFINE r == rxb[flag]
<1>1. /\ pc = "Sidh" /\ pc' = "Sidl" /\ frame' = [frame EXCEPT !.identifier = r[1] * 8]
      /\ UNCHANGED <<mode, rxb, rxif, flag, captured, reported>>
  BY DEF readSidh, controller, history
<1>2. flag \in rxif /\ frame \in Frames /\ r[1] \in Nat
  BY <1>1, ReadTyped DEF Reading
<1> HIDE DEF r
<1>3. frame' \in Frames /\ frame'.identifier = r[1] * 8
  BY <1>1, <1>2 DEF Frames
<1>4. Reads(pc', frame', r)
  BY <1>1, <1>3 DEF Reads
<1>5. QED
  BY <1>1, <1>2, <1>3, <1>4, ReadKeeps DEF r, Reading

(* The read of SIDL: the rest of it, or an extended frame.                 *)
LEMMA SidlKeeps ==
  ASSUME ReceiveInv, readSidl
  PROVE  ReceiveInv'
<1> DEFINE r == rxb[flag]
           extended == (r[2] \div 8) % 2 = 1
<1>1. /\ pc = "Sidl" /\ pc' = IF extended THEN "ClearUnsupported" ELSE "Dlc"
      /\ frame' = IF extended THEN frame
                  ELSE [frame EXCEPT !.identifier = frame.identifier + r[2] \div 32]
      /\ UNCHANGED <<mode, rxb, rxif, flag, captured, reported>>
  BY DEF readSidl, controller, history
<1>2. /\ flag \in rxif /\ frame \in Frames /\ r[1] \in Nat /\ r[2] \in Nat
      /\ Reads(pc, frame, r)
  BY <1>1, ReadTyped DEF Reading
<1> HIDE DEF r
<1>3. frame.identifier = r[1] * 8
  BY <1>1, <1>2 DEF Reads
<1>4. (r[2] \div 8) % 2 \in {0, 1} /\ r[2] \div 32 \in Nat
  BY <1>2, LengthCodeTyped
<1>5. CASE extended
  <2>1. pc' = "ClearUnsupported" /\ frame' = frame
    BY <1>1, <1>5
  <2>2. ~IsStandard(r)
    BY <1>5 DEF IsStandard
  <2>3. Reads(pc', frame', r)
    BY <2>1, <2>2 DEF Reads
  <2>4. QED
    BY <1>1, <1>2, <2>1, <2>3, ReadKeeps DEF r, Reading
<1>6. CASE ~extended
  <2>1. pc' = "Dlc" /\ frame' = [frame EXCEPT !.identifier = frame.identifier + r[2] \div 32]
    BY <1>1, <1>6
  <2>2. frame.identifier + r[2] \div 32 = r[1] * 8 + r[2] \div 32
    BY <1>3
  <2>3. r[1] * 8 + r[2] \div 32 \in Nat
    BY <1>2, <1>4
  <2>4. frame' \in Frames /\ frame'.identifier = r[1] * 8 + r[2] \div 32
    BY <1>2, <2>1, <2>2, <2>3 DEF Frames
  <2>5. IsStandard(r)
    BY <1>4, <1>6 DEF IsStandard
  <2>6. Reads(pc', frame', r)
    BY <2>1, <2>4, <2>5 DEF Reads
  <2>7. QED
    BY <1>1, <1>2, <2>1, <2>4, <2>6, ReadKeeps DEF r, Reading
<1>7. QED
  BY <1>5, <1>6

(* The read of DLC: the size; the test for a remote frame never succeeds.  *)
LEMMA DlcKeeps ==
  ASSUME ReceiveInv, readDlc
  PROVE  ReceiveInv'
<1> DEFINE r == rxb[flag]
           remote == (r[5] \div 64) % 2 = 1
           size == AtMost(r[5] % 16, MaxData)
<1>1. /\ pc = "Dlc"
      /\ pc' = IF remote THEN "ClearUnsupported" ELSE IF size = 0 THEN "Clear" ELSE "Data"
      /\ frame' = IF remote THEN frame ELSE [frame EXCEPT !.size = size, !.data = <<>>]
      /\ UNCHANGED <<mode, rxb, rxif, flag, captured, reported>>
  BY DEF readDlc, controller, history
<1>2. /\ flag \in rxif /\ frame \in Frames /\ r \in Registers /\ r[5] \in Nat
      /\ r \in Filled /\ Reads(pc, frame, r)
  BY <1>1, ReadTyped DEF Reading
<1> HIDE DEF r
<1>3. frame.identifier = r[1] * 8 + r[2] \div 32 /\ IsStandard(r)
  BY <1>1, <1>2 DEF Reads
<1>4. ~remote
  BY <1>2, <1>3 DEF Filled
<1>5. size \in Nat
  <2>1. size = FrameOf(r).size
    BY DEF FrameOf
  <2>2. FrameOf(r).size \in Nat
    BY <1>2, FrameTyped DEF Frames
  <2>3. QED
    BY <2>1, <2>2
<1>6. CASE ~remote
  <2>1. IsStandard(r)
    BY <1>3
  <2> HIDE DEF size
  <2>2. frame' = [frame EXCEPT !.size = size, !.data = <<>>]
    BY <1>1, <1>6
  <2>3. /\ frame' \in Frames /\ frame'.identifier = r[1] * 8 + r[2] \div 32
        /\ frame'.size = size /\ frame'.data = <<>>
    <3>1. <<>> \in Seq(Nat)
      BY EmptySeq
    <3>2. QED
      BY <1>2, <1>3, <1>5, <2>2, <3>1 DEF Frames
  <2>4. Len(frame'.data) = 0 /\ \A i \in 1 .. Len(frame'.data) : frame'.data[i] = r[5 + i]
    BY <2>3
  <2>5. CASE size = 0
    <3>1. pc' = "Clear"
      BY <1>1, <1>6, <2>5
    <3>2. frame' = FrameOf(r)
      BY <1>2, <2>3, <2>4, <2>5, WholeFrame DEF size
    <3>3. Reads(pc', frame', r)
      BY <2>1, <3>1, <3>2 DEF Reads
    <3>4. QED
      BY <1>1, <1>2, <2>3, <3>1, <3>3, ReadKeeps DEF r, Reading
  <2>6. CASE size # 0
    <3>1. pc' = "Data"
      BY <1>1, <1>6, <2>6
    <3>2. Len(frame'.data) < frame'.size
      BY <1>5, <2>3, <2>4, <2>6
    <3>3. Reads(pc', frame', r)
      BY <2>1, <2>3, <2>4, <3>1, <3>2 DEF Reads, size
    <3>4. QED
      BY <1>1, <1>2, <2>3, <3>1, <3>3, ReadKeeps DEF r, Reading
  <2>7. QED
    BY <2>5, <2>6
<1>7. QED
  BY <1>4, <1>6

(* The read of a data byte.                                                *)
LEMMA DataKeeps ==
  ASSUME ReceiveInv, readData
  PROVE  ReceiveInv'
<1> DEFINE r == rxb[flag]
           d == frame.data
           x == r[6 + Len(d)]
<1>1. /\ pc = "Data" /\ frame' = [frame EXCEPT !.data = Append(d, x)]
      /\ pc' = IF Len(frame'.data) < frame.size THEN "Data" ELSE "Clear"
      /\ UNCHANGED <<mode, rxb, rxif, flag, captured, reported>>
  BY DEF readData, controller, history
<1>2. /\ flag \in rxif /\ frame \in Frames /\ r \in Registers /\ Reads(pc, frame, r)
  BY <1>1, ReadTyped DEF Reading
<1>3. d \in Seq(Nat) /\ frame.size \in Nat /\ Len(d) \in Nat
  BY <1>2 DEF Frames
<1> HIDE DEF r
<1>4. /\ frame.identifier = r[1] * 8 + r[2] \div 32 /\ IsStandard(r)
      /\ frame.size = AtMost(r[5] % 16, MaxData) /\ Len(d) < frame.size
      /\ \A i \in 1 .. Len(d) : d[i] = r[5 + i]
  BY <1>1, <1>2 DEF Reads
<1>5. x \in Nat
  <2>1. frame.size = FrameOf(r).size
    BY <1>4 DEF FrameOf
  <2>2. frame.size \in 0 .. MaxData
    BY <1>2, <2>1, FrameTyped
  <2>3. MaxData \in Nat
    BY CanAssumption
  <2> HIDE DEF d
  <2>4. 6 + Len(d) \in Places
    BY <1>3, <1>4, <2>2, <2>3 DEF Places
  <2>5. QED
    BY <1>2, <2>4 DEF Registers
<1>6. /\ Append(d, x) \in Seq(Nat) /\ Len(Append(d, x)) = Len(d) + 1
      /\ \A i \in 1 .. Len(d) : Append(d, x)[i] = d[i]
      /\ Append(d, x)[Len(d) + 1] = x
  <2> HIDE DEF d, x
  <2>1. QED
    BY <1>3, <1>5, AppendProperties
<1>7. \A i \in 1 .. (Len(d) + 1) : Append(d, x)[i] = r[5 + i]
  <2> HIDE DEF d
  <2> TAKE i \in 1 .. (Len(d) + 1)
  <2>1. CASE i \in 1 .. Len(d)
    BY <1>4, <1>6, <2>1
  <2>2. CASE i = Len(d) + 1
    <3>1. 5 + i = 6 + Len(d)
      BY <1>3, <2>2
    <3>2. QED
      BY <1>6, <2>2, <3>1
  <2>3. QED
    BY <1>3, <2>1, <2>2
<1> DEFINE e == Append(d, x)
<1>8. e \in Seq(Nat) /\ Len(e) = Len(d) + 1 /\ \A i \in 1 .. Len(e) : e[i] = r[5 + i]
  BY <1>6, <1>7
<1>9. frame' = [frame EXCEPT !.data = e]
  BY <1>1
<1> HIDE DEF d, x, e
<1>10. /\ frame' \in Frames /\ frame'.identifier = frame.identifier
       /\ frame'.size = frame.size /\ frame'.data = e
  BY <1>2, <1>8, <1>9 DEF Frames
<1>11. CASE Len(e) < frame.size
  <2>1. pc' = "Data"
    BY <1>1, <1>10, <1>11
  <2>2. Reads(pc', frame', r)
    BY <1>4, <1>8, <1>10, <1>11, <2>1 DEF Reads
  <2>3. QED
    BY <1>1, <1>2, <1>10, <2>1, <2>2, ReadKeeps DEF r, Reading
<1>12. CASE ~(Len(e) < frame.size)
  <2>1. pc' = "Clear"
    BY <1>1, <1>10, <1>12
  <2>2. Len(e) = frame.size
    BY <1>3, <1>4, <1>8, <1>12
  <2>3. frame' = FrameOf(r)
    BY <1>2, <1>4, <1>8, <1>10, <2>2, WholeFrame
  <2>4. Reads(pc', frame', r)
    BY <1>4, <2>1, <2>3 DEF Reads
  <2>5. QED
    BY <1>1, <1>2, <1>10, <2>1, <2>4, ReadKeeps DEF r, Reading
<1>13. QED
  BY <1>11, <1>12

(* Steps that read no buffer.                                              *)
LEMMA ElsewhereKeeps ==
  ASSUME ReceiveInv, UNCHANGED <<rxb, rxif, captured, reported>>,
         flag' \in {0, 1}, frame' \in Frames, pc' \notin Reading,
         pc' # "Probe", pc' = "Configure" => rxif = {} /\ mode' = "Config"
  PROVE  ReceiveInv'
<1>1. ReceiveTyped'
  BY DEF ReceiveInv, ReceiveTyped
<1>2. ReadingInv'
  BY DEF ReadingInv
<1>3. BagsInv'
  BY BagsSame DEF ReceiveInv
<1>4. QED
  BY <1>1, <1>2, <1>3 DEF ReceiveInv

(* Every step keeps the invariant of receive().                            *)
LEMMA ReceiveNext == ReceiveInv /\ [Next]_vars => ReceiveInv'
<1> SUFFICES ASSUME ReceiveInv, [Next]_vars PROVE ReceiveInv'
  OBVIOUS
<1>0. flag \in {0, 1} /\ frame \in Frames
  BY DEF ReceiveInv, ReceiveTyped
<1>1. CASE UNCHANGED <<mode, rxb, rxif, pc, flag, frame, captured, reported>>
  <2>1. BagsInv'
    BY <1>1, BagsSame DEF ReceiveInv
  <2>2. ReceiveTyped' /\ ReadingInv'
    BY <1>1 DEF ReceiveInv, ReceiveTyped, ReadingInv
  <2>3. QED
    BY <2>1, <2>2 DEF ReceiveInv
<1>2. ASSUME NEW f \in BusFrames, BusFrame(f) PROVE ReceiveInv'
  BY <1>2, CaptureKeeps
<1>3. CASE ControllerSends
  BY <1>1, <1>3 DEF ControllerSends
<1>4. CASE ControllerStarts
  <2>1. pc # "Probe" /\ pc # "Configure"
    BY <1>4 DEF ReceiveInv, ReadingInv, ControllerStarts
  <2>2. UNCHANGED <<rxb, rxif, pc, flag, frame, captured, reported>>
    BY <1>4 DEF ControllerStarts, history
  <2>3. BagsInv'
    BY <2>2, BagsSame DEF ReceiveInv
  <2>4. ReceiveTyped' /\ ReadingInv'
    BY <2>1, <2>2 DEF ReceiveInv, ReceiveTyped, ReadingInv
  <2>5. QED
    BY <2>3, <2>4 DEF ReceiveInv
<1>5. CASE probeCanstat
  <2>1. /\ UNCHANGED <<rxb, rxif, flag, frame, captured, reported>>
        /\ pc = "Probe" /\ pc' \in {"Configure", "Error"}
        /\ pc' = "Configure" => mode' = "Config"
    BY <1>5 DEF probeCanstat, history
  <2>2. rxif = {}
    BY <2>1 DEF ReceiveInv, ReadingInv
  <2>3. QED
    BY <1>0, <2>1, <2>2, ElsewhereKeeps DEF Reading
<1>6. CASE configure
  <2>1. /\ UNCHANGED <<rxb, flag, frame, captured, reported>>
        /\ pc = "Configure" /\ pc' = "AwaitMode" /\ rxif' = {}
    BY <1>6 DEF configure, history
  <2>2. rxif' = rxif
    BY <2>1 DEF ReceiveInv, ReadingInv
  <2>3. QED
    BY <1>0, <2>1, <2>2, ElsewhereKeeps DEF Reading
<1>7. CASE awaitMode
  <2>1. /\ UNCHANGED <<rxb, rxif, flag, frame, captured, reported>>
        /\ pc' \in {"Uart", "AwaitMode", "Error"}
    BY <1>7 DEF awaitMode, controller, history
  <2>2. QED
    BY <1>0, <2>1, ElsewhereKeeps DEF Reading
<1>8. CASE Halted
  BY <1>1, <1>8 DEF Halted, vars
<1>9. ASSUME NEW f \in Commands, processCommand(f) PROVE ReceiveInv'
  <2>1. /\ UNCHANGED <<rxb, rxif, flag, captured, reported>>
        /\ pc = "Uart" /\ pc' \in {"TransmitTest", "Uart"}
        /\ \/ frame' = f /\ IsCommand(f)
           \/ frame' = frame
    BY <1>9 DEF processCommand, controller
  <2>2. frame' \in Frames
    BY <1>0, <2>1, CommandTyped
  <2>3. QED
    BY <1>0, <2>1, <2>2, ElsewhereKeeps DEF Reading
<1>10. CASE transmitTest \/ transmitWrite
  <2>1. /\ UNCHANGED <<rxb, rxif, flag, frame, captured, reported>>
        /\ pc' \in {"Uart", "TransmitWrite", "RequestToSend"}
    BY <1>10 DEF transmitTest, transmitWrite, controller, history
  <2>2. QED
    BY <1>0, <2>1, ElsewhereKeeps DEF Reading
<1>11. CASE requestToSend \/ uartEmpty
  <2>1. /\ UNCHANGED <<rxb, rxif, flag, captured, reported>>
        /\ pc' \in {"Uart", "Flags"} /\ frame' = Blank
    BY <1>11 DEF requestToSend, uartEmpty, controller, history
  <2>2. QED
    BY <1>0, <2>1, BlankTyped, ElsewhereKeeps DEF Reading
<1>12. CASE readFlags
  <2>1. UNCHANGED <<mode, rxb, rxif, frame, captured, reported>>
    BY <1>12 DEF readFlags, controller, history
  <2>2. CASE rxif = {} /\ pc' = "Uart" /\ UNCHANGED flag
    BY <1>0, <2>1, <2>2, ElsewhereKeeps DEF Reading
  <2>3. CASE rxif # {} /\ flag' = (IF 0 \in rxif THEN 0 ELSE 1) /\ pc' = "Sidh"
    <3>1. rxif \subseteq {0, 1}
      BY DEF ReceiveInv, ReceiveTyped
    <3>2. flag' \in rxif /\ flag' \in {0, 1}
      BY <2>3, <3>1
    <3>3. ReceiveTyped'
      BY <2>1, <3>2 DEF ReceiveInv, ReceiveTyped
    <3>4. ReadingInv'
      BY <2>1, <2>3, <3>2 DEF ReadingInv, Reads
    <3>5. BagsInv'
      BY <2>1, BagsSame DEF ReceiveInv
    <3>6. QED
      BY <3>3, <3>4, <3>5 DEF ReceiveInv
  <2>4. QED
    BY <1>12, <2>2, <2>3 DEF readFlags
<1>13. CASE readSidh \/ readSidl \/ readDlc \/ readData
  BY <1>13, SidhKeeps, SidlKeeps, DlcKeeps, DataKeeps
<1>14. CASE clearRead \/ clearUnsupported
  BY <1>14, ClearKeeps
<1>15. CASE UNCHANGED vars
  BY <1>1, <1>15 DEF vars
<1>16. QED
  BY <1>2, <1>3, <1>4, <1>5, <1>6, <1>7, <1>8, <1>9, <1>10, <1>11, <1>12, <1>13,
     <1>14, <1>15 DEF Next, Controller, Driver

(* receive() reads a buffer register by register while the controller      *)
(* keeps capturing: every frame with a standard identifier that it         *)
(* captured is reported once and whole, or is still held in a flagged      *)
(* buffer.                                                                 *)
THEOREM CanCapturedOnceReportedOnce == Spec => []CapturedOnceReportedOnce
<1>1. ReceiveInv => CapturedOnceReportedOnce
  BY DEF ReceiveInv, BagsInv
<1>2. QED
  BY <1>1, ReceiveInit, ReceiveNext, PTL DEF Spec

=============================================================================
