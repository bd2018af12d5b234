------------------------- MODULE UartHdlcLinkProofs -------------------------
(***************************************************************************)
(* The UART Link for every set of packets, checksum, capacity and noise:   *)
(* the decoder reads back what the encoder wrote, and noise costs only the *)
(* frames it touches.                                                      *)
(***************************************************************************)
EXTENDS UartHdlcLink, SequenceTheorems, WellFoundedInduction, TLAPS

Byte == 0..255

(* Every nonempty set of naturals has a least member.                      *)
LEMMA LeastNatural ==
  ASSUME NEW S, S \subseteq Nat, S # {}
  PROVE  \E n \in S : \A m \in S : n <= m
<1>1. PICK n \in S : \A m \in S : <<m, n>> \notin OpToRel(<, Nat)
  BY WFMin, NatLessThanWellFounded
<1>2. \A m \in S : ~(m < n)
  BY <1>1 DEF OpToRel
<1>3. QED
  BY <1>2

(* A set that a number with all its predecessors in it belongs to.         *)
LEMMA IntervalInduction ==
  ASSUME NEW n \in Nat, NEW S, 0 \in S, \A k \in 0..(n - 1) : k \in S => k + 1 \in S
  PROVE  0..n \subseteq S
<1> DEFINE Wrong == {k \in 0..n : k \notin S}
<1>1. SUFFICES ASSUME Wrong # {} PROVE FALSE
  OBVIOUS
<1>2. PICK k \in Wrong : \A m \in Wrong : k <= m
  <2>1. Wrong \subseteq Nat
    OBVIOUS
  <2>2. QED
    <3> HIDE DEF Wrong
    <3> QED BY <1>1, <2>1, LeastNatural
<1>3. k # 0 /\ k \in 0..n /\ k - 1 \in 0..(n - 1)
  BY <1>2
<1>4. k - 1 \in S
  BY <1>2, <1>3
<1>5. (k - 1) + 1 \in S
  BY <1>3, <1>4
<1>6. QED
  BY <1>2, <1>3, <1>5

-----------------------------------------------------------------------------
(* Stuffing.                                                               *)

(* Inverting bit 5 keeps a byte a byte, undoes itself, and takes a flag    *)
(* and an escape to neither.                                               *)
LEMMA EscapeXorBytes ==
  /\ \A b \in Byte : EscapeXor(b) \in Byte
  /\ EscapeXor(94) = 126 /\ EscapeXor(93) = 125
  /\ EscapeXor(126) = 94 /\ EscapeXor(125) = 93
  BY DEF Byte, EscapeXor

(* What a byte is stuffed as: itself, or an escape and a byte that is none *)
(* of the two.                                                             *)
LEMMA StuffShape ==
  ASSUME NEW b \in Byte
  PROVE  /\ Stuff(b) \in Seq(Byte)
         /\ b \notin {kFlag, kEscape} => Stuff(b) = <<b>>
         /\ b \in {kFlag, kEscape} =>
              /\ Stuff(b) = <<kEscape, EscapeXor(b)>>
              /\ EscapeXor(b) \notin {kFlag, kEscape} /\ EscapeXor(EscapeXor(b)) = b
         /\ Len(Stuff(b)) \in 1..2
<1>0. kEscape \in Byte
  BY DEF kEscape, Byte
<1>1. EscapeXor(b) \in Byte /\ kEscape \in Byte
  BY <1>0, EscapeXorBytes
<1>2. CASE b \in {kFlag, kEscape}
  <2>1. Stuff(b) = <<kEscape, EscapeXor(b)>>
    BY <1>2 DEF Stuff
  <2>2. EscapeXor(b) \notin {kFlag, kEscape} /\ EscapeXor(EscapeXor(b)) = b
    BY <1>2, EscapeXorBytes DEF kFlag, kEscape
  <2>3. QED
    BY <1>1, <1>2, <2>1, <2>2
<1>3. CASE b \notin {kFlag, kEscape}
  <2>1. Stuff(b) = <<b>>
    BY <1>3 DEF Stuff
  <2>2. QED
    BY <1>3, <2>1
<1>4. QED
  BY <1>2, <1>3

(* The trailer is two bytes.                                               *)
LEMMA TrailerBytes ==
  ASSUME NEW body \in Bodies
  PROVE  Trailer(body) \in Seq(Byte) /\ Len(Trailer(body)) = 2
<1>1. PICK c : c = Checksum(body)
  OBVIOUS
<1>2. c \in 0..(256 * 256 - 1)
  BY <1>1, UartAssumption
<1>3. c % 256 \in Byte /\ c \div 256 \in Byte
  <2>1. PICK d : d = 256
    OBVIOUS
  <2>2. c \in Nat /\ c < d * d /\ d \in Nat /\ d > 0
    <3>1. d \in Nat /\ d > 0
      BY <2>1
    <3>2. c \in 0..(d * d - 1)
      BY <1>2, <2>1, Zenon
    <3>3. d * d \in Nat
      BY <3>1
    <3>4. PICK w : w = d * d
      OBVIOUS
    <3>5. w \in Nat /\ c \in 0..(w - 1)
      BY <3>2, <3>3, <3>4, Zenon
    <3>6. c \in Nat /\ c < w
      BY <3>5
    <3>7. QED
      BY <3>1, <3>4, <3>6
  <2>3. PICK q, r : q = c \div d /\ r = c % d
    OBVIOUS
  <2>4. q \in Int /\ r \in 0..(d - 1) /\ c = d * q + r
    BY <2>2, <2>3
  <2>5. q >= 0 /\ q < d
    BY <2>1, <2>2, <2>4
  <2>6. QED
    BY <2>1, <2>3, <2>4, <2>5 DEF Byte
<1>4. QED
  BY <1>1, <1>3 DEF Trailer

(* f has the stuffing of every prefix of bytes, up to n bytes of it.       *)
StuffingTo(f, bytes, n) ==
  /\ f \in [0..n -> Seq(Byte)]
  /\ f[0] = <<>>
  /\ \A k \in 1..n : f[k] = f[k - 1] \o Stuff(bytes[k])

(* The function Stuffed is defined by.                                     *)
IsStuffing(f, bytes) ==
  f = [n \in 0..Len(bytes) |-> IF n = 0 THEN <<>> ELSE f[n - 1] \o Stuff(bytes[n])]
StuffingOf(bytes) == CHOOSE f : IsStuffing(f, bytes)

(* It exists: stuffing can go on byte by byte.                             *)
LEMMA StuffingExists ==
  ASSUME NEW bytes \in Seq(Byte)
  PROVE  \E f : StuffingTo(f, bytes, Len(bytes))
<1> DEFINE N == Len(bytes)
           Good == {n \in 0..N : \E f : StuffingTo(f, bytes, n)}
<1>1. N \in Nat /\ \A k \in 1..N : bytes[k] \in Byte
  OBVIOUS
<1>2. 0 \in Good
  <2>1. StuffingTo([n \in 0..0 |-> <<>>], bytes, 0)
    BY DEF StuffingTo
  <2>2. QED
    BY <1>1, <2>1
<1>3. ASSUME NEW k \in 0..(N - 1), k \in Good PROVE k + 1 \in Good
  <2>1. PICK f : StuffingTo(f, bytes, k)
    BY <1>3
  <2>2. PICK next : next = f[k] \o Stuff(bytes[k + 1])
    OBVIOUS
  <2>3. next \in Seq(Byte)
    <3>1. f[k] \in Seq(Byte)
      BY <2>1, <1>3 DEF StuffingTo
    <3>2. bytes[k + 1] \in Byte
      BY <1>1, <1>3
    <3>3. Stuff(bytes[k + 1]) \in Seq(Byte)
      BY <3>2, StuffShape
    <3>4. QED
      BY <2>2, <3>1, <3>3, ConcatProperties
  <2> DEFINE g == [n \in 0..(k + 1) |-> IF n = k + 1 THEN next ELSE f[n]]
  <2>4. g \in [0..(k + 1) -> Seq(Byte)]
    BY <2>1, <2>3, <1>3 DEF StuffingTo
  <2>5. g[0] = <<>>
    BY <2>1, <1>3 DEF StuffingTo
  <2>6. ASSUME NEW j \in 1..(k + 1) PROVE g[j] = g[j - 1] \o Stuff(bytes[j])
    <3>1. CASE j = k + 1
      <4>1. j - 1 = k /\ k # k + 1 /\ k \in 0..(k + 1) /\ k + 1 \in 0..(k + 1)
        BY <3>1, <1>3
      <4>2. g[j] = next /\ g[j - 1] = f[k]
        BY <3>1, <4>1
      <4>3. QED
        BY <2>2, <3>1, <4>2
    <3>2. CASE j # k + 1
      <4>1. j \in 1..k /\ j - 1 \in 0..k /\ j - 1 # k + 1
        BY <3>2, <1>3
      <4>2. g[j] = f[j] /\ g[j - 1] = f[j - 1]
        BY <4>1, <3>2, <1>3
      <4>3. QED
        BY <2>1, <4>1, <4>2 DEF StuffingTo
    <3>3. QED
      BY <3>1, <3>2
  <2>7. StuffingTo(g, bytes, k + 1)
    <3> HIDE DEF g
    <3> QED BY <2>4, <2>5, <2>6 DEF StuffingTo
  <2>8. k + 1 \in 0..N
    BY <1>1, <1>3
  <2>9. QED
    BY <2>7, <2>8
<1>4. 0..N \subseteq Good
  <2> HIDE DEF Good, N
  <2> QED BY <1>1, <1>2, <1>3, IntervalInduction
<1>5. QED
  BY <1>1, <1>4

(* So what Stuffed is defined by goes on byte by byte.                     *)
LEMMA StuffingSteps ==
  ASSUME NEW bytes \in Seq(Byte)
  PROVE  /\ StuffingTo(StuffingOf(bytes), bytes, Len(bytes))
         /\ Stuffed(bytes) = StuffingOf(bytes)[Len(bytes)]
<1> DEFINE N == Len(bytes)
<1>1. N \in Nat /\ \A k \in 1..N : bytes[k] \in Byte
  OBVIOUS
<1>2. \E f : IsStuffing(f, bytes)
  <2>1. PICK f : StuffingTo(f, bytes, N)
    BY StuffingExists
  <2>2. \A n \in 0..N : f[n] = IF n = 0 THEN <<>> ELSE f[n - 1] \o Stuff(bytes[n])
    <3>1. \A n \in 0..N : n = 0 \/ n \in 1..N
      BY <1>1
    <3>2. f[0] = <<>> /\ \A n \in 1..N : f[n] = f[n - 1] \o Stuff(bytes[n])
      BY <2>1 DEF StuffingTo
    <3>3. QED
      BY <3>1, <3>2, <1>1
  <2>3. f = [n \in 0..N |-> f[n]]
    BY <2>1 DEF StuffingTo
  <2>4. IsStuffing(f, bytes)
    BY <2>2, <2>3 DEF IsStuffing
  <2>5. QED
    BY <2>4
<1>3. PICK f : f = StuffingOf(bytes)
  OBVIOUS
<1>4. IsStuffing(f, bytes)
  BY <1>2, <1>3 DEF StuffingOf
<1>5. DOMAIN f = 0..N /\ \A n \in 0..N : f[n] = IF n = 0 THEN <<>> ELSE f[n - 1] \o Stuff(bytes[n])
  BY <1>4 DEF IsStuffing
<1>6. f[0] = <<>> /\ \A k \in 1..N : f[k] = f[k - 1] \o Stuff(bytes[k])
  <2>1. 0 \in 0..N /\ \A k \in 1..N : k \in 0..N /\ k # 0
    BY <1>1
  <2>2. QED
    <3> HIDE DEF N
    <3> QED BY <1>5, <2>1
<1> DEFINE Good == {n \in 0..N : f[n] \in Seq(Byte)}
<1>7. 0..N \subseteq Good
  <2>1. 0 \in Good
    <3>1. 0 \in 0..N
      BY <1>1
    <3>2. <<>> \in Seq(Byte)
      BY EmptySeq
    <3>3. QED
      <4> HIDE DEF N
      <4> QED BY <1>6, <3>1, <3>2
  <2>2. ASSUME NEW k \in 0..(N - 1), k \in Good PROVE k + 1 \in Good
    <3>1. k + 1 \in 1..N /\ (k + 1) - 1 = k
      BY <1>1, <2>2
    <3>2. f[k + 1] = f[k] \o Stuff(bytes[k + 1])
      BY <1>6, <3>1
    <3>3. f[k] \in Seq(Byte) /\ Stuff(bytes[k + 1]) \in Seq(Byte)
      BY <1>1, <2>2, <3>1, StuffShape
    <3>4. f[k + 1] \in Seq(Byte)
      BY <3>2, <3>3, ConcatProperties
    <3>5. QED
      BY <3>1, <3>4
  <2>3. QED
    <3> HIDE DEF Good, N
    <3> QED BY <1>1, <2>1, <2>2, IntervalInduction
<1>8. f \in [0..N -> Seq(Byte)]
  <2>1. f = [n \in 0..N |-> f[n]]
    BY <1>4 DEF IsStuffing
  <2>2. \A n \in 0..N : f[n] \in Seq(Byte)
    BY <1>7
  <2>3. QED
    BY <2>1, <2>2
<1>9. StuffingTo(f, bytes, N)
  BY <1>6, <1>8 DEF StuffingTo
<1>10. Stuffed(bytes) = StuffingOf(bytes)[N]
  BY DEF Stuffed, StuffingOf, IsStuffing
<1>11. QED
  BY <1>3, <1>9, <1>10

(* The stuffing of a prefix is a prefix of the stuffing.                   *)
LEMMA StuffingPrefix ==
  ASSUME NEW f, NEW bytes \in Seq(Byte), NEW N \in Nat, N = Len(bytes),
         StuffingTo(f, bytes, N), NEW k \in 0..N, NEW m \in k..N
  PROVE  /\ Len(f[k]) <= Len(f[m])
         /\ \A i \in 1..Len(f[k]) : f[m][i] = f[k][i]
<1> DEFINE Extends(n) == /\ Len(f[k]) <= Len(f[n])
                         /\ \A i \in 1..Len(f[k]) : f[n][i] = f[k][i]
           Good == {n \in 0..N : n >= k => Extends(n)}
<1>0. \A n \in 0..N : f[n] \in Seq(Byte) /\ Len(f[n]) \in Nat
  BY DEF StuffingTo
<1>1. 0 \in Good
  BY <1>0
<1>2. ASSUME NEW n \in 0..(N - 1), n \in Good PROVE n + 1 \in Good
  <2>1. n \in 0..N /\ n + 1 \in 1..N /\ (n + 1) - 1 = n /\ bytes[n + 1] \in Byte
    BY <1>2
  <2>2. f[n + 1] = f[n] \o Stuff(bytes[n + 1])
    BY <2>1 DEF StuffingTo
  <2>3. Stuff(bytes[n + 1]) \in Seq(Byte)
    BY <2>1, StuffShape
  <2>4. /\ Len(f[n + 1]) = Len(f[n]) + Len(Stuff(bytes[n + 1]))
        /\ \A i \in 1..Len(f[n]) : f[n + 1][i] = f[n][i]
    <3>1. PICK s, t : s = f[n] /\ t = Stuff(bytes[n + 1])
      OBVIOUS
    <3>2. s \in Seq(Byte) /\ t \in Seq(Byte) /\ f[n + 1] = s \o t
      BY <1>0, <2>1, <2>2, <2>3, <3>1
    <3>3. /\ Len(s \o t) = Len(s) + Len(t) /\ Len(s) \in Nat /\ Len(t) \in Nat
          /\ \A i \in 1..Len(s) : (s \o t)[i] = s[i]
      BY <3>2, ConcatProperties, LenProperties
    <3>4. QED
      BY <3>1, <3>2, <3>3
  <2>5. Len(f[n]) \in Nat /\ Len(Stuff(bytes[n + 1])) \in Nat /\ Len(f[k]) \in Nat
    BY <1>0, <2>1, <2>3
  <2>6. CASE n + 1 = k
    BY <2>1, <2>6, <1>0
  <2>7. CASE n >= k
    <3>1. Extends(n)
      BY <1>2, <2>7
    <3>2. Len(f[k]) <= Len(f[n + 1])
      <4>1. PICK a, b, c, d : /\ a = Len(f[k]) /\ b = Len(f[n]) /\ c = Len(Stuff(bytes[n + 1]))
                              /\ d = Len(f[n + 1])
        OBVIOUS
      <4>2. a \in Nat /\ b \in Nat /\ c \in Nat /\ d = b + c /\ a <= b
        BY <2>4, <2>5, <3>1, <4>1
      <4>3. a <= d
        BY <4>2
      <4>4. QED
        BY <4>1, <4>3
    <3>3. ASSUME NEW i \in 1..Len(f[k]) PROVE f[n + 1][i] = f[k][i]
      BY <2>4, <2>5, <3>1, <3>3
    <3>4. QED
      BY <2>1, <3>2, <3>3
  <2>8. CASE n + 1 < k
    BY <2>1, <2>8
  <2>9. QED
    BY <2>6, <2>7, <2>8, <2>1
<1>3. 0..N \subseteq Good
  <2> HIDE DEF Good
  <2> QED BY <1>1, <1>2, IntervalInduction
<1>4. QED
  BY <1>3

-----------------------------------------------------------------------------
(* A frame on the line.                                                    *)

(* What a frame carries between its flags, before stuffing.                *)
Data(body) == body \o Trailer(body)

(* The body and its trailer, as bytes.                                     *)
LEMMA DataShape ==
  ASSUME NEW body \in Bodies
  PROVE  /\ body \in Seq(Byte) /\ Len(body) \in Nat /\ Len(body) > 0
         /\ Data(body) \in Seq(Byte) /\ Len(Data(body)) = Len(body) + 2
         /\ \A i \in 1..Len(body) : Data(body)[i] = body[i]
         /\ Data(body)[Len(body) + 1] = Trailer(body)[1]
         /\ Data(body)[Len(body) + 2] = Trailer(body)[2]
<1>1. body \in Seq(Byte) /\ body # <<>>
  BY UartAssumption DEF Byte
<1>2. Len(body) \in Nat /\ Len(body) > 0
  BY <1>1, EmptySeq
<1>3. PICK t : t = Trailer(body)
  OBVIOUS
<1>4. t \in Seq(Byte) /\ Len(t) = 2
  BY <1>3, TrailerBytes
<1>5. /\ body \o t \in Seq(Byte) /\ Len(body \o t) = Len(body) + 2
      /\ \A i \in 1..Len(body) + 2 :
           (body \o t)[i] = IF i <= Len(body) THEN body[i] ELSE t[i - Len(body)]
  <2>1. /\ body \o t \in Seq(Byte) /\ Len(body \o t) = Len(body) + Len(t)
        /\ \A i \in 1..Len(body) + Len(t) :
             (body \o t)[i] = IF i <= Len(body) THEN body[i] ELSE t[i - Len(body)]
    BY <1>1, <1>4, ConcatProperties
  <2>2. QED
    BY <1>4, <2>1
<1>6. \A i \in 1..Len(body) : i \in 1..Len(body) + 2 /\ i <= Len(body)
  BY <1>2
<1>7. PICK u, v, w : u = Len(body) /\ v = u + 1 /\ w = u + 2
  OBVIOUS
<1>8. /\ v \in 1..Len(body) + 2 /\ ~(v <= Len(body)) /\ v - Len(body) = 1
      /\ w \in 1..Len(body) + 2 /\ ~(w <= Len(body)) /\ w - Len(body) = 2
  BY <1>2, <1>7
<1>9. (body \o t)[v] = t[1] /\ (body \o t)[w] = t[2]
  BY <1>5, <1>8
<1>10. QED
  BY <1>1, <1>2, <1>3, <1>5, <1>6, <1>7, <1>9 DEF Data

(* A frame is the stuffed data between two flags.                          *)
LEMMA EncodeShape ==
  ASSUME NEW body \in Bodies
  PROVE  /\ encode(body) \in Seq(Byte)
         /\ Stuffed(Data(body)) \in Seq(Byte)
         /\ Len(encode(body)) = Len(Stuffed(Data(body))) + 2
         /\ encode(body)[1] = kFlag /\ encode(body)[Len(encode(body))] = kFlag
         /\ \A i \in 1..Len(Stuffed(Data(body))) :
              encode(body)[i + 1] = Stuffed(Data(body))[i]
<1>1. PICK s : s = Stuffed(Data(body))
  OBVIOUS
<1>2. s \in Seq(Byte)
  <2>1. PICK f, data : f = StuffingOf(data) /\ data = Data(body)
    OBVIOUS
  <2>2. data \in Seq(Byte)
    BY <2>1, DataShape
  <2>3. StuffingTo(f, data, Len(data)) /\ s = f[Len(data)] /\ Len(data) \in Nat
    BY <1>1, <2>1, <2>2, StuffingSteps
  <2>4. QED
    BY <2>3 DEF StuffingTo
<1>3. encode(body) = (<<kFlag>> \o s) \o <<kFlag>>
  BY <1>1 DEF encode, Data
<1>4. PICK k : k = <<kFlag>>
  OBVIOUS
<1>5. k \in Seq(Byte) /\ Len(k) = 1 /\ k[1] = kFlag
  BY <1>4 DEF kFlag, Byte
<1>6. /\ k \o s \in Seq(Byte) /\ Len(k \o s) = 1 + Len(s) /\ Len(s) \in Nat
      /\ \A i \in 1..1 + Len(s) : (k \o s)[i] = IF i <= 1 THEN k[i] ELSE s[i - 1]
  <2>1. /\ k \o s \in Seq(Byte) /\ Len(k \o s) = Len(k) + Len(s) /\ Len(s) \in Nat
        /\ \A i \in 1..Len(k) + Len(s) : (k \o s)[i] = IF i <= Len(k) THEN k[i] ELSE s[i - Len(k)]
    <3>1. k \in Seq(Byte) /\ s \in Seq(Byte)
      BY <1>2, <1>5
    <3>2. QED
      BY <3>1, ConcatProperties
  <2>2. QED
    BY <1>5, <2>1
<1>7. PICK t : t = k \o s
  OBVIOUS
<1>8. /\ t \o k \in Seq(Byte) /\ Len(t \o k) = Len(t) + 1
      /\ \A i \in 1..Len(t) + 1 : (t \o k)[i] = IF i <= Len(t) THEN t[i] ELSE k[i - Len(t)]
  BY <1>5, <1>6, <1>7, ConcatProperties
<1>9. Len(t) = 1 + Len(s) /\ t[1] = kFlag /\ \A i \in 1..Len(s) : t[i + 1] = s[i]
  <2>1. 1 \in 1..1 + Len(s)
    BY <1>6
  <2>2. \A i \in 1..Len(s) : i + 1 \in 1..1 + Len(s) /\ ~(i + 1 <= 1) /\ (i + 1) - 1 = i
    BY <1>6
  <2>3. QED
    BY <1>5, <1>6, <1>7, <2>1, <2>2
<1>10. PICK m : m = Len(t) + 1
  OBVIOUS
<1>11. (t \o k)[1] = kFlag /\ (t \o k)[m] = kFlag /\ m = Len(s) + 2
  <2>1. Len(t) \in Nat /\ Len(t) >= 1 /\ 1 \in 1..Len(t) + 1 /\ m \in 1..Len(t) + 1
        /\ ~(m <= Len(t)) /\ m - Len(t) = 1 /\ m = Len(s) + 2
    BY <1>6, <1>9, <1>10
  <2>2. (t \o k)[1] = t[1] /\ (t \o k)[m] = k[1]
    BY <1>8, <2>1
  <2>3. QED
    BY <1>5, <1>9, <2>1, <2>2
<1>12. ASSUME NEW i \in 1..Len(s) PROVE (t \o k)[i + 1] = s[i]
  <2>1. i + 1 \in 1..Len(t) + 1 /\ i + 1 <= Len(t)
    BY <1>6, <1>9, <1>12
  <2>2. QED
    BY <1>8, <1>9, <2>1
<1>13. encode(body) = t \o k
  BY <1>3, <1>4, <1>7
<1>14. QED
  BY <1>1, <1>2, <1>8, <1>10, <1>11, <1>12, <1>13

(* Where a byte b of the data is in a frame, q bytes of stuffing before it *)
(* and r up to its end.                                                    *)
Position(body, q, b, r) ==
  /\ q \in Nat /\ r \in Nat /\ r <= Len(encode(body)) - 2
  /\ b \notin {kFlag, kEscape} => r = q + 1 /\ encode(body)[q + 2] = b
  /\ b \in {kFlag, kEscape} =>
       /\ r = q + 2
       /\ encode(body)[q + 2] = kEscape /\ encode(body)[q + 3] = EscapeXor(b)

(* Where in the code of a frame every byte of its data is.                 *)
LEMMA EncodedAt ==
  ASSUME NEW body \in Bodies
  PROVE  /\ \A k \in 0..(Len(Data(body)) - 1) :
              Position(body, Len(StuffingOf(Data(body))[k]), Data(body)[k + 1],
                       Len(StuffingOf(Data(body))[k + 1]))
         /\ StuffingOf(Data(body))[0] = <<>>
         /\ Len(encode(body)) = 2 + Len(StuffingOf(Data(body))[Len(Data(body))])
<1>1. PICK data, f, N, s : /\ data = Data(body) /\ f = StuffingOf(data) /\ N = Len(data)
                           /\ s = Stuffed(data)
  OBVIOUS
<1>2. data \in Seq(Byte) /\ N \in Nat
  BY <1>1, DataShape
<1>3. StuffingTo(f, data, N) /\ s = f[N]
  BY <1>1, <1>2, StuffingSteps
<1>4. /\ s \in Seq(Byte) /\ Len(encode(body)) = Len(s) + 2
      /\ \A i \in 1..Len(s) : encode(body)[i + 1] = s[i]
  BY <1>1, EncodeShape
<1>5. ASSUME NEW k \in 0..(N - 1)
      PROVE  Position(body, Len(f[k]), data[k + 1], Len(f[k + 1]))
  <2>0. PICK q, b, r, t : q = Len(f[k]) /\ b = data[k + 1] /\ r = f[k + 1] /\ t = Stuff(b)
    OBVIOUS
  <2>1. k + 1 \in 1..N /\ k \in 0..N /\ k + 1 \in 0..N /\ (k + 1) - 1 = k /\ N \in (k + 1)..N
    BY <1>2, <1>5
  <2>2. b \in Byte /\ f[k] \in Seq(Byte) /\ r \in Seq(Byte) /\ r = f[k] \o t
    <3>1. b \in Byte
      BY <1>1, <1>2, <2>0, <2>1
    <3>2. f[k] \in Seq(Byte) /\ f[k + 1] \in Seq(Byte)
      BY <1>3, <2>1 DEF StuffingTo
    <3>3. f[k + 1] = f[(k + 1) - 1] \o Stuff(data[k + 1])
      BY <1>3, <2>1 DEF StuffingTo
    <3>4. QED
      BY <2>0, <2>1, <3>1, <3>2, <3>3
  <2>3. t \in Seq(Byte) /\ Len(t) \in 1..2
    BY <2>0, <2>2, StuffShape
  <2>4. /\ Len(r) = q + Len(t) /\ q \in Nat
        /\ \A i \in 1..q + Len(t) : r[i] = IF i <= q THEN f[k][i] ELSE t[i - q]
    <3>1. PICK u : u = f[k]
      OBVIOUS
    <3>2. u \in Seq(Byte) /\ r = u \o t /\ q = Len(u)
      BY <2>0, <2>2, <3>1
    <3>3. Len(u) \in Nat /\ Len(u \o t) = Len(u) + Len(t)
      BY <2>3, <3>2, ConcatProperties, LenProperties
    <3>4. \A i \in 1..Len(u) + Len(t) : (u \o t)[i] = IF i <= Len(u) THEN u[i] ELSE t[i - Len(u)]
      BY <2>3, <3>2, ConcatProperties
    <3>5. QED
      BY <3>1, <3>2, <3>3, <3>4
  <2>5. Len(r) <= Len(s) /\ \A i \in 1..Len(r) : s[i] = r[i]
    BY <1>1, <1>2, <1>3, <2>0, <2>1, StuffingPrefix
  <2>6. Len(r) \in Nat /\ Len(s) \in Nat
    BY <1>4, <2>2
  <2>7. ASSUME NEW i \in 1..Len(t) PROVE encode(body)[(q + i) + 1] = t[i]
    <3>1. PICK j : j = q + i
      OBVIOUS
    <3>2. /\ j \in 1..q + Len(t) /\ ~(j <= q) /\ j - q = i /\ j \in 1..Len(r) /\ j \in 1..Len(s)
      BY <2>3, <2>4, <2>5, <2>6, <2>7, <3>1
    <3>3. r[j] = t[i]
      BY <2>4, <3>2
    <3>4. QED
      BY <1>4, <2>5, <3>1, <3>2, <3>3
  <2>8. ASSUME b \notin {kFlag, kEscape} PROVE Position(body, q, b, Len(r))
    <3>1. t = <<b>> /\ Len(t) = 1 /\ t[1] = b
      BY <2>0, <2>2, <2>8, StuffShape
    <3>2. (q + 1) + 1 = q + 2 /\ 1 \in 1..Len(t)
      BY <2>4, <3>1
    <3>3. encode(body)[q + 2] = b
      BY <2>7, <3>1, <3>2
    <3>4. QED
      BY <1>4, <2>4, <2>5, <2>6, <2>8, <3>1, <3>3 DEF Position
  <2>9. ASSUME b \in {kFlag, kEscape} PROVE Position(body, q, b, Len(r))
    <3>1. t = <<kEscape, EscapeXor(b)>>
      BY <2>0, <2>2, <2>9, StuffShape
    <3>2. Len(t) = 2 /\ t[1] = kEscape /\ t[2] = EscapeXor(b)
      BY <3>1
    <3>3. (q + 1) + 1 = q + 2 /\ 1 \in 1..Len(t) /\ (q + 2) + 1 = q + 3 /\ 2 \in 1..Len(t)
      BY <2>4, <3>2
    <3>4. encode(body)[q + 2] = kEscape /\ encode(body)[q + 3] = EscapeXor(b)
      BY <2>7, <3>2, <3>3
    <3>5. QED
      BY <1>4, <2>4, <2>5, <2>6, <2>9, <3>2, <3>4 DEF Position
  <2>10. QED
    BY <2>0, <2>8, <2>9
<1>7. f[0] = <<>> /\ Len(encode(body)) = 2 + Len(f[N])
  <2>1. Len(s) \in Nat
    BY <1>4
  <2>2. QED
    BY <1>3, <1>4, <2>1 DEF StuffingTo
<1>8. QED
  BY <1>1, <1>5, <1>7

-----------------------------------------------------------------------------
(* The decoder inside a frame.                                             *)

Capacity == FrameCapacity + kCrcSize

Decoder(frame, in_frame, escaped, ready) ==
  [frame |-> frame, in_frame |-> in_frame, escaped |-> escaped, ready |-> ready]

(* The decoder with the first k bytes of data: it has them, or there were  *)
(* too many and it has given the frame up.                                 *)
Holding(data, k) ==
  IF k <= Capacity THEN Decoder(SubSeq(data, 1, k), TRUE, FALSE, FALSE) ELSE InitialDecoder

(* The same decoder, one escape further.                                   *)
Escaping(data, k) ==
  IF k <= Capacity THEN Decoder(SubSeq(data, 1, k), TRUE, TRUE, FALSE) ELSE InitialDecoder

(* d has read the first p bytes of the frame that carries body.            *)
Tracks(body, p, d) ==
  \E k \in 0..Len(Data(body)) :
    \/ /\ p = 1 + Len(StuffingOf(Data(body))[k])
       /\ d = Holding(Data(body), k)
    \/ /\ k < Len(Data(body)) /\ Data(body)[k + 1] \in {kFlag, kEscape}
       /\ p = 2 + Len(StuffingOf(Data(body))[k])
       /\ d = Escaping(Data(body), k)

(* The room of the decoder.                                                *)
LEMMA CapacityNat == Capacity \in Nat /\ Capacity = FrameCapacity + 2 /\ FrameCapacity \in Nat
<1>1. FrameCapacity \in Nat
  BY UartAssumption
<1>2. QED
  BY <1>1 DEF Capacity, kCrcSize

(* One more byte of a prefix.                                              *)
LEMMA PrefixGrows ==
  ASSUME NEW data \in Seq(Byte), NEW k \in 0..(Len(data) - 1)
  PROVE  /\ SubSeq(data, 1, k + 1) = Append(SubSeq(data, 1, k), data[k + 1])
         /\ Len(SubSeq(data, 1, k)) = k
<1>1. k + 1 \in 1..Len(data) /\ 1 \in 1..Len(data) /\ k + 1 \in 1..Len(data) /\ (k + 1) - 1 = k
  OBVIOUS
<1>2. SubSeq(data, 1, k + 1) = SubSeq(data, 1, (k + 1) - 1) \o <<data[k + 1]>>
  BY <1>1, SubSeqRecursiveSecond
<1>3. SubSeq(data, 1, k) \in Seq(Byte) /\ Len(SubSeq(data, 1, k)) = k /\ data[k + 1] \in Byte
  BY <1>1
<1>4. Append(SubSeq(data, 1, k), data[k + 1]) = SubSeq(data, 1, k) \o <<data[k + 1]>>
  BY <1>3, AppendIsConcat
<1>5. QED
  BY <1>1, <1>2, <1>3, <1>4

(* The decoder's fields.                                                   *)
LEMMA DecoderFields ==
  ASSUME NEW f, NEW i, NEW e, NEW r
  PROVE  /\ Decoder(f, i, e, r).frame = f /\ Decoder(f, i, e, r).in_frame = i
         /\ Decoder(f, i, e, r).escaped = e /\ Decoder(f, i, e, r).ready = r
  BY DEF Decoder

(* Collect on a decoder given by its fields.                               *)
LEMMA CollectDecoder ==
  ASSUME NEW f, NEW e, NEW b, Len(f) \in Nat, NEW d, d = Decoder(f, TRUE, e, FALSE)
  PROVE  /\ Len(f) >= Capacity => Collect(d, b) = InitialDecoder
         /\ ~(Len(f) >= Capacity) => Collect(d, b) = Decoder(Append(f, b), TRUE, FALSE, FALSE)
<1>1. PICK yes, no : yes = TRUE /\ no = FALSE
  OBVIOUS
<1>2. d = [frame |-> f, in_frame |-> yes, escaped |-> e, ready |-> no] /\ d.frame = f
  BY <1>1 DEF Decoder
<1>3. ASSUME Len(f) >= Capacity PROVE Collect(d, b) = InitialDecoder
  BY <1>2, <1>3 DEF Collect, Capacity
<1>4. ASSUME ~(Len(f) >= Capacity)
      PROVE  Collect(d, b) = Decoder(Append(f, b), TRUE, FALSE, FALSE)
  <2>1. Collect(d, b) = [d EXCEPT !.frame = Append(@, b), !.escaped = FALSE]
    BY <1>2, <1>4 DEF Collect, Capacity
  <2>2. PICK g : g = Append(f, b)
    OBVIOUS
  <2>3. PICK c : c = [d EXCEPT !.frame = g]
    OBVIOUS
  <2>4. c = [frame |-> g, in_frame |-> yes, escaped |-> e, ready |-> no]
    BY <1>2, <2>3
  <2>5. [c EXCEPT !.escaped = no] = [frame |-> g, in_frame |-> yes, escaped |-> no, ready |-> no]
    BY <2>4
  <2>6. [d EXCEPT !.frame = Append(@, b), !.escaped = FALSE] = [c EXCEPT !.escaped = no]
    BY <1>1, <1>2, <2>2, <2>3
  <2>7. QED
    BY <1>1, <2>1, <2>2, <2>5, <2>6 DEF Decoder
<1>5. QED
  BY <1>3, <1>4

(* One more byte of the data is collected, or gives the frame up.          *)
LEMMA CollectNext ==
  ASSUME NEW data \in Seq(Byte), NEW k \in 0..(Len(data) - 1), k <= Capacity, NEW e,
         NEW d, d = Decoder(SubSeq(data, 1, k), TRUE, e, FALSE)
  PROVE  Collect(d, data[k + 1]) = Holding(data, k + 1)
<1>1. PICK f, b : f = SubSeq(data, 1, k) /\ b = data[k + 1]
  OBVIOUS
<1>2. k \in Nat /\ Capacity \in Nat /\ Len(f) = k /\ Append(f, b) = SubSeq(data, 1, k + 1)
  BY <1>1, PrefixGrows, CapacityNat
<1>3. Len(f) \in Nat /\ d = Decoder(f, TRUE, e, FALSE)
  BY <1>1, <1>2
<1>4. CASE k + 1 <= Capacity
  <2>1. ~(Len(f) >= Capacity)
    BY <1>2, <1>4
  <2>2. Collect(d, b) = Decoder(Append(f, b), TRUE, FALSE, FALSE)
    BY <1>3, <2>1, CollectDecoder
  <2>3. QED
    BY <1>1, <1>2, <1>4, <2>2 DEF Holding
<1>5. CASE ~(k + 1 <= Capacity)
  <2>1. Len(f) >= Capacity /\ d.frame = f
    BY <1>2, <1>3, <1>5 DEF Decoder
  <2>2. Collect(d, b) = InitialDecoder
    BY <2>1 DEF Collect, Capacity
  <2>3. QED
    BY <1>1, <1>5, <2>2 DEF Holding
<1>6. QED
  BY <1>4, <1>5

(* push, inside a frame, of a byte that needs no escape.                   *)
LEMMA PushPlain ==
  ASSUME NEW data \in Seq(Byte), NEW k \in 0..(Len(data) - 1),
         data[k + 1] \notin {kFlag, kEscape}
  PROVE  push(Holding(data, k), data[k + 1]) = Holding(data, k + 1)
<1>0. k \in Nat /\ Capacity \in Nat
  BY CapacityNat
<1>1. CASE k <= Capacity
  <2>1. PICK d : d = Decoder(SubSeq(data, 1, k), TRUE, FALSE, FALSE)
    OBVIOUS
  <2>2. d.in_frame = TRUE /\ d.escaped = FALSE /\ d.ready = FALSE
    BY <2>1 DEF Decoder
  <2>3. push(d, data[k + 1]) = Collect(d, data[k + 1])
    BY <2>2 DEF push
  <2>4. QED
    BY <1>1, <2>1, <2>3, CollectNext DEF Holding
<1>2. CASE ~(k <= Capacity)
  <2>0. ~(k + 1 <= Capacity)
    BY <1>0, <1>2
  <2>1. Holding(data, k) = InitialDecoder /\ Holding(data, k + 1) = InitialDecoder
    BY <1>2, <2>0 DEF Holding
  <2>2. push(InitialDecoder, data[k + 1]) = InitialDecoder
    BY DEF push, InitialDecoder
  <2>3. QED
    BY <2>1, <2>2
<1>3. QED
  BY <1>1, <1>2

(* push, inside a frame, of an escape.                                     *)
LEMMA PushEscape ==
  ASSUME NEW data, NEW k \in Nat
  PROVE  push(Holding(data, k), kEscape) = Escaping(data, k)
<1>0. kEscape # kFlag
  BY DEF kFlag, kEscape
<1>1. CASE k <= Capacity
  <2>1. PICK f, yes, no : f = SubSeq(data, 1, k) /\ yes = TRUE /\ no = FALSE
    OBVIOUS
  <2>2. PICK d : d = Decoder(f, yes, no, no)
    OBVIOUS
  <2>3. d.in_frame = TRUE /\ d.escaped = FALSE /\ d.ready = FALSE
    BY <2>1, <2>2 DEF Decoder
  <2>4. push(d, kEscape) = [d EXCEPT !.escaped = TRUE]
    BY <1>0, <2>3 DEF push
  <2>5. d = [frame |-> f, in_frame |-> yes, escaped |-> no, ready |-> no]
    BY <2>2 DEF Decoder
  <2>6. [d EXCEPT !.escaped = yes] = [frame |-> f, in_frame |-> yes, escaped |-> yes, ready |-> no]
    BY <2>5
  <2>7. push(d, kEscape) = Decoder(f, yes, yes, no)
    BY <2>1, <2>4, <2>6 DEF Decoder
  <2>8. QED
    BY <1>1, <2>1, <2>2, <2>7 DEF Holding, Escaping
<1>2. CASE ~(k <= Capacity)
  <2>1. push(InitialDecoder, kEscape) = InitialDecoder
    BY <1>0 DEF push, InitialDecoder
  <2>2. QED
    BY <1>2, <2>1 DEF Holding, Escaping
<1>3. QED
  BY <1>1, <1>2

(* push, inside a frame, of the byte that follows an escape.               *)
LEMMA PushEscaped ==
  ASSUME NEW data \in Seq(Byte), NEW k \in 0..(Len(data) - 1),
         NEW x, x \notin {kFlag, kEscape}, EscapeXor(x) = data[k + 1]
  PROVE  push(Escaping(data, k), x) = Holding(data, k + 1)
<1>0. k \in Nat /\ Capacity \in Nat
  BY CapacityNat
<1>1. CASE k <= Capacity
  <2>1. PICK d : d = Decoder(SubSeq(data, 1, k), TRUE, TRUE, FALSE)
    OBVIOUS
  <2>2. d.in_frame = TRUE /\ d.escaped = TRUE /\ d.ready = FALSE
    BY <2>1 DEF Decoder
  <2>3. push(d, x) = Collect(d, data[k + 1])
    BY <2>2 DEF push
  <2>4. QED
    BY <1>1, <2>1, <2>3, CollectNext DEF Escaping
<1>2. CASE ~(k <= Capacity)
  <2>0. ~(k + 1 <= Capacity)
    BY <1>0, <1>2
  <2>1. Escaping(data, k) = InitialDecoder /\ Holding(data, k + 1) = InitialDecoder
    BY <1>2, <2>0 DEF Holding, Escaping
  <2>2. push(InitialDecoder, x) = InitialDecoder
    BY DEF push, InitialDecoder
  <2>3. QED
    BY <2>1, <2>2
<1>3. QED
  BY <1>1, <1>2

(* A flag leaves a decoder that is ready for the bytes of a frame, whether *)
(* or not it ended one.                                                    *)
Fresh == Decoder(<<>>, TRUE, FALSE, FALSE)

(* A flag behind a whole frame completes it.                               *)
LEMMA FlagEnds ==
  ASSUME NEW d, NEW f, d = Decoder(f, TRUE, FALSE, FALSE), hasValidCrc(f)
  PROVE  push(d, kFlag) = Decoder(Body(f), TRUE, FALSE, TRUE)
<1>1. d.frame = f /\ d.in_frame = TRUE /\ d.escaped = FALSE /\ d.ready = FALSE
  BY DEF Decoder
<1>2. push(d, kFlag) = [d EXCEPT !.frame = Body(@), !.ready = TRUE]
  BY <1>1 DEF push, OnFlag
<1>3. PICK yes, no, g : yes = TRUE /\ no = FALSE /\ g = Body(f)
  OBVIOUS
<1>4. d = [frame |-> f, in_frame |-> yes, escaped |-> no, ready |-> no]
  BY <1>3 DEF Decoder
<1>5. PICK c : c = [d EXCEPT !.frame = g]
  OBVIOUS
<1>6. c = [frame |-> g, in_frame |-> yes, escaped |-> no, ready |-> no]
  BY <1>4, <1>5
<1>7. [c EXCEPT !.ready = yes] = [frame |-> g, in_frame |-> yes, escaped |-> no, ready |-> yes]
  BY <1>6
<1>8. [d EXCEPT !.frame = Body(@), !.ready = TRUE] = [c EXCEPT !.ready = yes]
  BY <1>1, <1>3, <1>5
<1>9. QED
  BY <1>2, <1>3, <1>7, <1>8 DEF Decoder

(* Any other flag begins a frame anew.                                     *)
LEMMA FlagRestarts ==
  ASSUME NEW d, NEW f, NEW i \in BOOLEAN, NEW e \in BOOLEAN, d = Decoder(f, i, e, FALSE),
         ~(i = TRUE /\ e = FALSE /\ hasValidCrc(f))
  PROVE  push(d, kFlag) = Fresh
<1>1. d.frame = f /\ d.in_frame = i /\ d.escaped = e /\ d.ready = FALSE
  BY DEF Decoder
<1>2. push(d, kFlag) = [d EXCEPT !.frame = <<>>, !.in_frame = TRUE, !.escaped = FALSE]
  BY <1>1 DEF push, OnFlag
<1>3. PICK yes, no, g : yes = TRUE /\ no = FALSE /\ g = <<>>
  OBVIOUS
<1>4. d = [frame |-> f, in_frame |-> i, escaped |-> e, ready |-> no]
  BY <1>3 DEF Decoder
<1>5. PICK c : c = [d EXCEPT !.frame = g]
  OBVIOUS
<1>6. c = [frame |-> g, in_frame |-> i, escaped |-> e, ready |-> no]
  BY <1>4, <1>5
<1>7. PICK b : b = [c EXCEPT !.in_frame = yes]
  OBVIOUS
<1>8. b = [frame |-> g, in_frame |-> yes, escaped |-> e, ready |-> no]
  BY <1>6, <1>7
<1>9. [b EXCEPT !.escaped = no] = [frame |-> g, in_frame |-> yes, escaped |-> no, ready |-> no]
  BY <1>8
<1>10. [d EXCEPT !.frame = <<>>, !.in_frame = TRUE, !.escaped = FALSE] = [b EXCEPT !.escaped = no]
  BY <1>3, <1>5, <1>7
<1>11. QED
  BY <1>2, <1>3, <1>9, <1>10 DEF Decoder, Fresh

(* consume() empties the storage.                                          *)
LEMMA ConsumeDecoder ==
  ASSUME NEW f, NEW i, NEW e, NEW r
  PROVE  consume(Decoder(f, i, e, r)) = Decoder(<<>>, i, e, FALSE)
<1>1. PICK d : d = Decoder(f, i, e, r)
  OBVIOUS
<1>2. PICK no, g : no = FALSE /\ g = <<>>
  OBVIOUS
<1>3. d = [frame |-> f, in_frame |-> i, escaped |-> e, ready |-> r]
  BY <1>1 DEF Decoder
<1>4. PICK c : c = [d EXCEPT !.frame = g]
  OBVIOUS
<1>5. c = [frame |-> g, in_frame |-> i, escaped |-> e, ready |-> r]
  BY <1>3, <1>4
<1>6. [c EXCEPT !.ready = no] = [frame |-> g, in_frame |-> i, escaped |-> e, ready |-> no]
  BY <1>5
<1>7. consume(d) = [c EXCEPT !.ready = no]
  BY <1>2, <1>4 DEF consume
<1>8. QED
  BY <1>1, <1>2, <1>6, <1>7 DEF Decoder

(* The flag at the head of a frame.                                        *)
LEMMA TrackStart ==
  ASSUME NEW body \in Bodies
  PROVE  Tracks(body, 1, Fresh)
<1>1. PICK data, N : data = Data(body) /\ N = Len(data)
  OBVIOUS
<1>2. 0 \in 0..N /\ 0 <= Capacity
  BY <1>1, DataShape, CapacityNat
<1>3. SubSeq(data, 1, 0) = <<>>
  BY SubSeqEmpty
<1>4. Fresh = Holding(data, 0)
  BY <1>2, <1>3 DEF Fresh, Holding
<1>5. 1 = 1 + Len(StuffingOf(data)[0])
  <2>1. StuffingOf(data)[0] = <<>>
    BY <1>1, EncodedAt
  <2>2. QED
    BY <2>1
<1>6. QED
  BY <1>1, <1>2, <1>4, <1>5 DEF Tracks

(* Every byte between the flags.                                           *)
LEMMA TrackStep ==
  ASSUME NEW body \in Bodies, NEW p \in 1..(Len(encode(body)) - 2), NEW d, Tracks(body, p, d)
  PROVE  Tracks(body, p + 1, push(d, encode(body)[p + 1]))
<1>1. PICK data, N, f, L : /\ data = Data(body) /\ N = Len(data) /\ f = StuffingOf(data)
                           /\ L = Len(encode(body))
  OBVIOUS
<1>2. data \in Seq(Byte) /\ N \in Nat
  BY <1>1, DataShape
<1>3. /\ \A k \in 0..(N - 1) : Position(body, Len(f[k]), data[k + 1], Len(f[k + 1]))
      /\ L = 2 + Len(f[N])
  BY <1>1, EncodedAt
<1>4. L \in Nat /\ p \in 1..(L - 2)
  BY <1>1, EncodeShape
<1>5. PICK k \in 0..N :
        \/ p = 1 + Len(f[k]) /\ d = Holding(data, k)
        \/ /\ k < N /\ data[k + 1] \in {kFlag, kEscape}
           /\ p = 2 + Len(f[k]) /\ d = Escaping(data, k)
  BY <1>1 DEF Tracks
<1>6. k # N
  <2>1. SUFFICES ASSUME k = N PROVE FALSE
    OBVIOUS
  <2>2. p = 1 + Len(f[N])
    BY <1>2, <1>5, <2>1
  <2>3. QED
    BY <1>3, <1>4, <2>2
<1>7. k \in 0..(N - 1) /\ k + 1 \in 0..N /\ k \in Nat
  BY <1>2, <1>5, <1>6
<1>8. PICK q, b, r, x : q = Len(f[k]) /\ b = data[k + 1] /\ r = Len(f[k + 1]) /\ x = encode(body)[p + 1]
  OBVIOUS
<1>9. Position(body, q, b, r) /\ b \in Byte
  BY <1>1, <1>2, <1>3, <1>7, <1>8
<1>10. /\ q \in Nat /\ r \in Nat
       /\ b \notin {kFlag, kEscape} => r = q + 1 /\ encode(body)[q + 2] = b
       /\ b \in {kFlag, kEscape} =>
            /\ r = q + 2
            /\ encode(body)[q + 2] = kEscape /\ encode(body)[q + 3] = EscapeXor(b)
  BY <1>9 DEF Position
<1>11. CASE p = 1 + q /\ d = Holding(data, k) /\ b \notin {kFlag, kEscape}
  <2>1. p + 1 = q + 2 /\ p + 1 = 1 + r
    BY <1>10, <1>11
  <2>2. push(d, x) = Holding(data, k + 1)
    BY <1>1, <1>2, <1>7, <1>8, <1>10, <1>11, <2>1, PushPlain
  <2>3. QED
    BY <1>1, <1>7, <1>8, <2>1, <2>2 DEF Tracks
<1>12. CASE p = 1 + q /\ d = Holding(data, k) /\ b \in {kFlag, kEscape}
  <2>1. p + 1 = q + 2 /\ p + 1 = 2 + q
    BY <1>10, <1>12
  <2>2. push(d, x) = Escaping(data, k)
    BY <1>7, <1>8, <1>10, <1>12, <2>1, PushEscape
  <2>3. k < N /\ k \in 0..N
    BY <1>2, <1>7
  <2>4. QED
    BY <1>1, <1>8, <1>12, <2>1, <2>2, <2>3 DEF Tracks
<1>13. CASE p = 2 + q /\ d = Escaping(data, k) /\ b \in {kFlag, kEscape}
  <2>1. p + 1 = q + 3 /\ p + 1 = 1 + r
    BY <1>10, <1>13
  <2>2. x \notin {kFlag, kEscape} /\ EscapeXor(x) = b
    BY <1>8, <1>9, <1>10, <1>13, <2>1, StuffShape
  <2>3. push(d, x) = Holding(data, k + 1)
    BY <1>1, <1>2, <1>7, <1>8, <1>13, <2>2, PushEscaped
  <2>4. QED
    BY <1>1, <1>7, <1>8, <2>1, <2>3 DEF Tracks
<1>14. QED
  BY <1>5, <1>8, <1>11, <1>12, <1>13

(* The body and its trailer, come through whole.                           *)
LEMMA WholeIsValid ==
  ASSUME NEW body \in Bodies
  PROVE  Body(Data(body)) = body /\ hasValidCrc(Data(body))
<1>1. PICK data, t, n : data = Data(body) /\ t = Trailer(body) /\ n = Len(body)
  OBVIOUS
<1>2. /\ body \in Seq(Byte) /\ n \in Nat /\ n > 0 /\ data \in Seq(Byte) /\ Len(data) = n + 2
      /\ \A i \in 1..n : data[i] = body[i]
      /\ data[n + 1] = t[1] /\ data[n + 2] = t[2]
  BY <1>1, DataShape
<1>3. t \in Seq(Byte) /\ Len(t) = 2
  BY <1>1, TrailerBytes
<1>4. SubSeq(data, 1, n) = body
  <2>1. PICK s : s = SubSeq(data, 1, n)
    OBVIOUS
  <2>2. s \in Seq(Byte) /\ Len(s) = n /\ \A i \in 1..n : s[i] = data[i]
    BY <1>2, <2>1
  <2>3. s = body
    BY <1>1, <1>2, <2>2, SeqEqual
  <2>4. QED
    BY <2>1, <2>3
<1>5. SubSeq(data, n + 1, n + 2) = t
  <2>1. PICK s : s = SubSeq(data, n + 1, n + 2)
    OBVIOUS
  <2>2. s \in Seq(Byte) /\ Len(s) = 2 /\ s[1] = data[n + 1] /\ s[2] = data[n + 2]
    BY <1>2, <2>1
  <2>3. s = t
    BY <1>2, <1>3, <2>2, SeqEqual
  <2>4. QED
    BY <2>1, <2>3
<1>6. Len(data) - kCrcSize = n /\ Len(data) - 1 = n + 1 /\ Len(data) > kCrcSize
  BY <1>2 DEF kCrcSize
<1>7. Body(data) = body
  BY <1>4, <1>6 DEF Body
<1>8. hasValidCrc(data)
  BY <1>1, <1>2, <1>5, <1>6, <1>7 DEF hasValidCrc
<1>9. QED
  BY <1>1, <1>7, <1>8

(* The flag at the end of a frame: the body, if the decoder has room for   *)
(* it, and nothing if it has not.                                          *)
LEMMA TrackEnd ==
  ASSUME NEW body \in Bodies, NEW d, Tracks(body, Len(encode(body)) - 1, d)
  PROVE  /\ Len(body) <= FrameCapacity => push(d, kFlag) = Decoder(body, TRUE, FALSE, TRUE)
         /\ ~(Len(body) <= FrameCapacity) => push(d, kFlag) = Fresh
<1>1. PICK data, N, f, L : /\ data = Data(body) /\ N = Len(data) /\ f = StuffingOf(data)
                           /\ L = Len(encode(body))
  OBVIOUS
<1>2. data \in Seq(Byte) /\ N \in Nat /\ N = Len(body) + 2 /\ Len(body) \in Nat
  BY <1>1, DataShape
<1>3. /\ \A k \in 0..(N - 1) : Position(body, Len(f[k]), data[k + 1], Len(f[k + 1]))
      /\ L = 2 + Len(f[N])
  BY <1>1, EncodedAt
<1>4. L \in Nat
  BY <1>1, EncodeShape
<1>5. PICK k \in 0..N :
        \/ L - 1 = 1 + Len(f[k]) /\ d = Holding(data, k)
        \/ /\ k < N /\ data[k + 1] \in {kFlag, kEscape}
           /\ L - 1 = 2 + Len(f[k]) /\ d = Escaping(data, k)
  BY <1>1 DEF Tracks
<1>6. k = N
  <2>1. SUFFICES ASSUME k # N PROVE FALSE
    OBVIOUS
  <2>2. k \in 0..(N - 1)
    BY <1>2, <1>5, <2>1
  <2>3. PICK q, b, r : q = Len(f[k]) /\ b = data[k + 1] /\ r = Len(f[k + 1])
    OBVIOUS
  <2>4. Position(body, q, b, r)
    BY <1>3, <2>2, <2>3
  <2>5. /\ q \in Nat /\ r \in Nat /\ r <= L - 2
        /\ b \notin {kFlag, kEscape} => r = q + 1
        /\ b \in {kFlag, kEscape} => r = q + 2
    BY <1>1, <2>4 DEF Position
  <2>6. (L - 1 = 1 + q) \/ (L - 1 = 2 + q /\ b \in {kFlag, kEscape})
    BY <1>5, <2>3
  <2>7. QED
    BY <1>4, <2>5, <2>6
<1>7. d = Holding(data, N)
  BY <1>2, <1>5, <1>6
<1>8. CASE Len(body) <= FrameCapacity
  <2>1. N <= Capacity
    BY <1>2, <1>8, CapacityNat
  <2>2. SubSeq(data, 1, N) = data
    BY <1>1, <1>2, SubSeqFull
  <2>3. d = Decoder(data, TRUE, FALSE, FALSE)
    BY <1>7, <2>1, <2>2 DEF Holding
  <2>4. push(d, kFlag) = Decoder(Body(data), TRUE, FALSE, TRUE)
    BY <1>1, <2>3, WholeIsValid, FlagEnds
  <2>5. QED
    BY <1>1, <1>8, <2>4, WholeIsValid
<1>9. CASE ~(Len(body) <= FrameCapacity)
  <2>1. ~(N <= Capacity)
    BY <1>2, <1>9, CapacityNat
  <2>2. d = InitialDecoder
    BY <1>7, <2>1 DEF Holding
  <2>3. d = Decoder(<<>>, FALSE, FALSE, FALSE)
    BY <2>2 DEF InitialDecoder, Decoder
  <2>4. push(d, kFlag) = Fresh
    BY <2>3, FlagRestarts
  <2>5. QED
    BY <1>9, <2>4
<1>10. QED
  BY <1>8, <1>9

-----------------------------------------------------------------------------
(* The line.                                                               *)

ByteAt(l, i) == l[i][1]
FrameAt(l, i) == l[i][2]
PlaceAt(l, i) == l[i][3]

(* Entry i of one line is entry j of another, its byte aside.              *)
SameSpot(m, i, l, j) == FrameAt(m, i) = FrameAt(l, j) /\ PlaceAt(m, i) = PlaceAt(l, j)
SameEntry(m, i, l, j) == SameSpot(m, i, l, j) /\ ByteAt(m, i) = ByteAt(l, j)

Size(s, n) == Len(encode(s[n]))
CodeAt(s, n, p) == encode(s[n])[p]

Lines == Seq(Byte \X Nat \X Nat)

(* The entries of a line.                                                  *)
LEMMA LineTypes ==
  ASSUME NEW l \in Lines
  PROVE  /\ Len(l) \in Nat
         /\ \A i \in 1..Len(l) : /\ ByteAt(l, i) \in Byte /\ FrameAt(l, i) \in Nat
                                 /\ PlaceAt(l, i) \in Nat
  BY DEF Lines, ByteAt, FrameAt, PlaceAt

(* Entry i belongs to a frame that noise has not touched.                  *)
Known(l, dm, i) == FrameAt(l, i) # 0 /\ FrameAt(l, i) \notin dm

(* The frames are on the line in their order, and the bytes of a frame in  *)
(* theirs.                                                                 *)
InOrder(l) ==
  \A i, j \in 1..Len(l) :
    i < j /\ FrameAt(l, i) # 0 /\ FrameAt(l, j) # 0 =>
      \/ FrameAt(l, i) < FrameAt(l, j)
      \/ FrameAt(l, i) = FrameAt(l, j) /\ PlaceAt(l, i) < PlaceAt(l, j)

(* What is on the line of a frame noise has not touched: bytes as they     *)
(* were sent, with all that follow them right behind, and all before them  *)
(* right before unless they have been read.                                *)
AsSent(l, s, dm) ==
  \A i \in 1..Len(l) :
    Known(l, dm, i) => /\ PlaceAt(l, i) \in 1..Size(s, FrameAt(l, i))
                       /\ ByteAt(l, i) = CodeAt(s, FrameAt(l, i), PlaceAt(l, i))
GoesOn(l, s, dm) ==
  \A i \in 1..Len(l) :
    Known(l, dm, i) /\ PlaceAt(l, i) < Size(s, FrameAt(l, i)) =>
      /\ i < Len(l)
      /\ FrameAt(l, i + 1) = FrameAt(l, i) /\ PlaceAt(l, i + 1) = PlaceAt(l, i) + 1
GoesBack(l, dm) ==
  \A i \in 2..Len(l) :
    Known(l, dm, i) /\ PlaceAt(l, i) > 1 =>
      FrameAt(l, i - 1) = FrameAt(l, i) /\ PlaceAt(l, i - 1) = PlaceAt(l, i) - 1

LineInv(l, s, dm) ==
  /\ \A i \in 1..Len(l) : FrameAt(l, i) <= Len(s)
  /\ InOrder(l)
  /\ AsSent(l, s, dm)
  /\ GoesOn(l, s, dm)
  /\ GoesBack(l, dm)

(* Frames the receiver should have passed on: intact, of a size that fits, *)
(* and no longer on the line.                                              *)
Gone(l, s, dm) ==
  {n \in 1..Len(s) : /\ n \notin dm /\ Fits(s[n])
                     /\ \A i \in 1..Len(l) : FrameAt(l, i) # n}

(* They are older than what is on the line.                                *)
GoneFirst(l, s, dm) ==
  \A n \in Gone(l, s, dm), i \in 1..Len(l) : FrameAt(l, i) # 0 => n < FrameAt(l, i)

(* m is l without its entry k.                                             *)
Without(m, l, k) ==
  /\ Len(m) = Len(l) - 1
  /\ \A i \in 1..Len(m) : i < k => SameEntry(m, i, l, i)
  /\ \A i \in 1..Len(m) : i >= k => SameEntry(m, i, l, i + 1)

(* A byte is lost.                                                         *)
LEMMA LoseKeepsLine ==
  ASSUME NEW l \in Lines, NEW m \in Lines, NEW s, Len(s) \in Nat, NEW dm,
         LineInv(l, s, dm), GoneFirst(l, s, dm),
         NEW k \in 1..Len(l), Without(m, l, k),
         NEW more, dm \subseteq more, FrameAt(l, k) # 0 => FrameAt(l, k) \in more
  PROVE  LineInv(m, s, more) /\ GoneFirst(m, s, more) /\ Gone(m, s, more) \subseteq Gone(l, s, dm)
<1> DEFINE from(i) == IF i < k THEN i ELSE i + 1
<1>0. /\ Len(m) = Len(l) - 1
      /\ \A i \in 1..Len(m) : i < k => SameEntry(m, i, l, i)
      /\ \A i \in 1..Len(m) : i >= k => SameEntry(m, i, l, i + 1)
  BY DEF Without
<1>1. /\ Len(l) \in Nat /\ Len(m) \in Nat /\ Len(m) = Len(l) - 1
      /\ \A i \in 1..Len(l) : FrameAt(l, i) \in Nat /\ PlaceAt(l, i) \in Nat
  BY <1>0, LineTypes
<1>2. \A i \in 1..Len(m) :
        /\ from(i) \in 1..Len(l) /\ from(i) # k
        /\ FrameAt(m, i) = FrameAt(l, from(i)) /\ PlaceAt(m, i) = PlaceAt(l, from(i))
        /\ ByteAt(m, i) = ByteAt(l, from(i))
  BY <1>0, <1>1 DEF SameEntry, SameSpot
<1>3. \A i, j \in 1..Len(m) : i < j => from(i) < from(j)
  BY <1>1
<1>4. \A i \in 1..Len(m) : Known(m, more, i) =>
        Known(l, dm, from(i)) /\ FrameAt(l, from(i)) # FrameAt(l, k)
  BY <1>2 DEF Known
<1>5. \A i \in 1..Len(m) : FrameAt(m, i) <= Len(s)
  BY <1>2 DEF LineInv
<1>6. InOrder(m)
  <2> HIDE DEF from
  <2>1. SUFFICES ASSUME NEW i \in 1..Len(m), NEW j \in 1..Len(m), i < j,
                        FrameAt(m, i) # 0, FrameAt(m, j) # 0
                 PROVE  \/ FrameAt(m, i) < FrameAt(m, j)
                        \/ FrameAt(m, i) = FrameAt(m, j) /\ PlaceAt(m, i) < PlaceAt(m, j)
    BY DEF InOrder
  <2>2. from(i) \in 1..Len(l) /\ from(j) \in 1..Len(l) /\ from(i) < from(j)
    BY <1>2, <1>3, <2>1
  <2>3. QED
    BY <1>2, <2>1, <2>2 DEF LineInv, InOrder
<1>7. AsSent(m, s, more)
  <2> HIDE DEF from
  <2> QED BY <1>2, <1>4 DEF LineInv, AsSent
<1>8. GoesOn(m, s, more)
  <2>1. SUFFICES ASSUME NEW i \in 1..Len(m), Known(m, more, i),
                        PlaceAt(m, i) < Size(s, FrameAt(m, i))
                 PROVE  /\ i < Len(m)
                        /\ FrameAt(m, i + 1) = FrameAt(m, i) /\ PlaceAt(m, i + 1) = PlaceAt(m, i) + 1
    BY DEF GoesOn
  <2>2. PICK j \in 1..Len(l) : j = from(i)
    BY <1>2, <2>1
  <2>3. /\ FrameAt(m, i) = FrameAt(l, j) /\ PlaceAt(m, i) = PlaceAt(l, j)
        /\ Known(l, dm, j) /\ FrameAt(l, j) # FrameAt(l, k)
    <3> HIDE DEF from
    <3> QED BY <1>2, <1>4, <2>1, <2>2
  <2>4. j < Len(l) /\ FrameAt(l, j + 1) = FrameAt(l, j) /\ PlaceAt(l, j + 1) = PlaceAt(l, j) + 1
    BY <2>1, <2>3 DEF LineInv, GoesOn
  <2>5. j + 1 # k
    BY <2>3, <2>4
  <2>6. i < Len(m) /\ i + 1 \in 1..Len(m) /\ from(i + 1) = j + 1
    <3>1. CASE i < k
      <4>1. j = i /\ i + 1 < k
        BY <1>1, <2>2, <2>5, <3>1
      <4>2. i < Len(m) /\ i + 1 \in 1..Len(m)
        BY <1>1, <4>1
      <4>3. QED
        BY <4>1, <4>2
    <3>2. CASE ~(i < k)
      <4>1. j = i + 1 /\ ~(i + 1 < k)
        BY <1>1, <2>2, <3>2
      <4>2. i < Len(m) /\ i + 1 \in 1..Len(m)
        BY <1>1, <2>4, <4>1
      <4>3. QED
        BY <4>1, <4>2
    <3>3. QED
      BY <3>1, <3>2
  <2>7. FrameAt(m, i + 1) = FrameAt(l, j + 1) /\ PlaceAt(m, i + 1) = PlaceAt(l, j + 1)
    <3> HIDE DEF from
    <3> QED BY <1>2, <2>6
  <2>8. QED
    BY <2>3, <2>4, <2>6, <2>7
<1>9. GoesBack(m, more)
  <2>1. SUFFICES ASSUME NEW i \in 2..Len(m), Known(m, more, i), PlaceAt(m, i) > 1
                 PROVE  FrameAt(m, i - 1) = FrameAt(m, i) /\ PlaceAt(m, i - 1) = PlaceAt(m, i) - 1
    BY DEF GoesBack
  <2>2. i \in 1..Len(m) /\ i - 1 \in 1..Len(m)
    BY <1>1, <2>1
  <2>3. PICK j \in 1..Len(l) : j = from(i)
    BY <1>2, <2>2
  <2>4. /\ FrameAt(m, i) = FrameAt(l, j) /\ PlaceAt(m, i) = PlaceAt(l, j)
        /\ Known(l, dm, j) /\ FrameAt(l, j) # FrameAt(l, k)
    <3> HIDE DEF from
    <3> QED BY <1>2, <1>4, <2>1, <2>2, <2>3
  <2>5. j \in 2..Len(l)
    BY <1>1, <2>1, <2>3
  <2>6. FrameAt(l, j - 1) = FrameAt(l, j) /\ PlaceAt(l, j - 1) = PlaceAt(l, j) - 1
    BY <2>1, <2>4, <2>5 DEF LineInv, GoesBack
  <2>7. j - 1 # k
    BY <2>4, <2>6
  <2>8. from(i - 1) = j - 1
    BY <1>1, <2>1, <2>3, <2>7
  <2>9. FrameAt(m, i - 1) = FrameAt(l, j - 1) /\ PlaceAt(m, i - 1) = PlaceAt(l, j - 1)
    <3> HIDE DEF from
    <3> QED BY <1>2, <2>2, <2>8
  <2>10. QED
    BY <2>4, <2>6, <2>9
<1>10. Gone(m, s, more) \subseteq Gone(l, s, dm)
  <2>1. SUFFICES ASSUME NEW n \in Gone(m, s, more), NEW j \in 1..Len(l) PROVE FrameAt(l, j) # n
    BY DEF Gone
  <2>2. n \in 1..Len(s) /\ n \notin more /\ \A i \in 1..Len(m) : FrameAt(m, i) # n
    BY <2>1 DEF Gone
  <2>3. CASE j = k
    BY <2>2, <2>3
  <2>4. CASE j # k
    <3>1. PICK i : i = IF j < k THEN j ELSE j - 1
      OBVIOUS
    <3>2. i \in 1..Len(m) /\ from(i) = j
      BY <1>1, <2>4, <3>1
    <3>3. QED
      <4> HIDE DEF from
      <4> QED BY <1>2, <2>2, <3>2
  <2>5. QED
    BY <2>3, <2>4
<1>11. GoneFirst(m, s, more)
  <2> HIDE DEF from
  <2> QED BY <1>2, <1>10 DEF GoneFirst
<1>12. QED
  BY <1>5, <1>6, <1>7, <1>8, <1>9, <1>10, <1>11 DEF LineInv

(* m is l, the byte of entry k aside.                                      *)
Changed(m, l, k) ==
  /\ Len(m) = Len(l)
  /\ \A i \in 1..Len(m) : SameSpot(m, i, l, i)
  /\ \A i \in 1..Len(m) : i # k => ByteAt(m, i) = ByteAt(l, i)

(* A byte is changed.                                                      *)
LEMMA ChangeKeepsLine ==
  ASSUME NEW l \in Lines, NEW m \in Lines, NEW s, Len(s) \in Nat, NEW dm,
         LineInv(l, s, dm), GoneFirst(l, s, dm),
         NEW k \in 1..Len(l), Changed(m, l, k),
         NEW more, dm \subseteq more, FrameAt(l, k) # 0 => FrameAt(l, k) \in more
  PROVE  LineInv(m, s, more) /\ GoneFirst(m, s, more) /\ Gone(m, s, more) \subseteq Gone(l, s, dm)
<1>1. Len(l) \in Nat /\ Len(m) = Len(l)
  BY LineTypes DEF Changed
<1>2. \A i \in 1..Len(l) : FrameAt(m, i) = FrameAt(l, i) /\ PlaceAt(m, i) = PlaceAt(l, i)
  BY <1>1 DEF Changed, SameSpot
<1>3. \A i \in 1..Len(l) : Known(m, more, i) => /\ Known(l, dm, i) /\ i # k
                                                /\ ByteAt(m, i) = ByteAt(l, i)
  BY <1>1, <1>2 DEF Known, Changed
<1>4. \A i \in 1..Len(m) : FrameAt(m, i) <= Len(s)
  BY <1>1, <1>2 DEF LineInv
<1>5. InOrder(m)
  BY <1>1, <1>2 DEF LineInv, InOrder
<1>6. AsSent(m, s, more)
  BY <1>1, <1>2, <1>3 DEF LineInv, AsSent
<1>7. GoesOn(m, s, more)
  <2>1. SUFFICES ASSUME NEW i \in 1..Len(m), Known(m, more, i),
                        PlaceAt(m, i) < Size(s, FrameAt(m, i))
                 PROVE  /\ i < Len(m)
                        /\ FrameAt(m, i + 1) = FrameAt(m, i) /\ PlaceAt(m, i + 1) = PlaceAt(m, i) + 1
    BY DEF GoesOn
  <2>2. i < Len(l) /\ FrameAt(l, i + 1) = FrameAt(l, i) /\ PlaceAt(l, i + 1) = PlaceAt(l, i) + 1
    BY <1>1, <1>2, <1>3, <2>1 DEF LineInv, GoesOn
  <2>3. i + 1 \in 1..Len(l)
    BY <1>1, <2>1, <2>2
  <2>4. QED
    BY <1>1, <1>2, <2>1, <2>2, <2>3
<1>8. GoesBack(m, more)
  <2>1. SUFFICES ASSUME NEW i \in 2..Len(m), Known(m, more, i), PlaceAt(m, i) > 1
                 PROVE  FrameAt(m, i - 1) = FrameAt(m, i) /\ PlaceAt(m, i - 1) = PlaceAt(m, i) - 1
    BY DEF GoesBack
  <2>2. i \in 1..Len(l) /\ i - 1 \in 1..Len(l)
    BY <1>1, <2>1
  <2>3. FrameAt(l, i - 1) = FrameAt(l, i) /\ PlaceAt(l, i - 1) = PlaceAt(l, i) - 1
    BY <1>1, <1>2, <1>3, <2>1, <2>2 DEF LineInv, GoesBack
  <2>4. QED
    BY <1>1, <1>2, <2>2, <2>3
<1>9. Gone(m, s, more) \subseteq Gone(l, s, dm)
  BY <1>1, <1>2 DEF Gone
<1>10. GoneFirst(m, s, more)
  BY <1>1, <1>2, <1>9 DEF GoneFirst
<1>11. QED
  BY <1>4, <1>5, <1>6, <1>7, <1>8, <1>9, <1>10 DEF LineInv

(* A byte is made up.                                                      *)
LEMMA MakeUpKeepsLine ==
  ASSUME NEW l \in Lines, NEW m \in Lines, NEW s, Len(s) \in Nat, NEW dm,
         LineInv(l, s, dm), GoneFirst(l, s, dm),
         NEW k \in 1..(Len(l) + 1), Len(m) = Len(l) + 1,
         \A i \in 1..Len(m) : i < k => SameEntry(m, i, l, i),
         FrameAt(m, k) = 0,
         \A i \in 1..Len(m) : i > k => SameEntry(m, i, l, i - 1),
         NEW more, dm \subseteq more,
         k \in 1..Len(l) /\ PlaceAt(l, k) > 1 /\ FrameAt(l, k) # 0 => FrameAt(l, k) \in more
  PROVE  LineInv(m, s, more) /\ GoneFirst(m, s, more) /\ Gone(m, s, more) \subseteq Gone(l, s, dm)
<1> DEFINE from(i) == IF i < k THEN i ELSE i - 1
<1>1. /\ Len(l) \in Nat /\ Len(m) \in Nat /\ k \in 1..Len(m)
      /\ \A i \in 1..Len(l) : FrameAt(l, i) \in Nat /\ PlaceAt(l, i) \in Nat
  BY LineTypes
<1>2. \A i \in 1..Len(m) : i # k =>
        /\ from(i) \in 1..Len(l)
        /\ FrameAt(m, i) = FrameAt(l, from(i)) /\ PlaceAt(m, i) = PlaceAt(l, from(i))
        /\ ByteAt(m, i) = ByteAt(l, from(i))
  BY <1>1 DEF SameEntry, SameSpot
<1>3. \A i, j \in 1..Len(m) : i < j /\ i # k /\ j # k => from(i) < from(j)
  BY <1>1
<1>4. \A i \in 1..Len(m) : Known(m, more, i) => i # k /\ Known(l, dm, from(i)) /\ FrameAt(m, i) \notin more
  BY <1>2 DEF Known
<1>5. \A i \in 1..Len(m) : FrameAt(m, i) <= Len(s)
  BY <1>2 DEF LineInv
<1>6. InOrder(m)
  <2> HIDE DEF from
  <2>1. SUFFICES ASSUME NEW i \in 1..Len(m), NEW j \in 1..Len(m), i < j,
                        FrameAt(m, i) # 0, FrameAt(m, j) # 0
                 PROVE  \/ FrameAt(m, i) < FrameAt(m, j)
                        \/ FrameAt(m, i) = FrameAt(m, j) /\ PlaceAt(m, i) < PlaceAt(m, j)
    BY DEF InOrder
  <2>2. from(i) \in 1..Len(l) /\ from(j) \in 1..Len(l) /\ from(i) < from(j) /\ i # k /\ j # k
    BY <1>2, <1>3, <2>1
  <2>3. QED
    BY <1>2, <2>1, <2>2 DEF LineInv, InOrder
<1>7. AsSent(m, s, more)
  <2> HIDE DEF from
  <2> QED BY <1>2, <1>4 DEF LineInv, AsSent
<1>8. GoesOn(m, s, more)
  <2>1. SUFFICES ASSUME NEW i \in 1..Len(m), Known(m, more, i),
                        PlaceAt(m, i) < Size(s, FrameAt(m, i))
                 PROVE  /\ i < Len(m)
                        /\ FrameAt(m, i + 1) = FrameAt(m, i) /\ PlaceAt(m, i + 1) = PlaceAt(m, i) + 1
    BY DEF GoesOn
  <2>2. PICK j \in 1..Len(l) : j = from(i)
    BY <1>2, <1>4, <2>1
  <2>3. /\ FrameAt(m, i) = FrameAt(l, j) /\ PlaceAt(m, i) = PlaceAt(l, j) /\ i # k
        /\ Known(l, dm, j) /\ FrameAt(l, j) \notin more /\ FrameAt(l, j) # 0
    <3> HIDE DEF from
    <3> QED BY <1>2, <1>4, <2>1, <2>2 DEF Known
  <2>4. j < Len(l) /\ FrameAt(l, j + 1) = FrameAt(l, j) /\ PlaceAt(l, j + 1) = PlaceAt(l, j) + 1
    BY <2>1, <2>3 DEF LineInv, GoesOn
  <2>5. AsSent(l, s, dm)
    BY DEF LineInv
  <2>6. PlaceAt(l, j) \in Nat /\ PlaceAt(l, j) >= 1
    BY <1>1, <2>2, <2>3, <2>5 DEF AsSent
  <2>7. j + 1 # k
    BY <1>1, <2>2, <2>3, <2>4, <2>6
  <2>8. i < Len(m) /\ i + 1 \in 1..Len(m) /\ from(i + 1) = j + 1 /\ i + 1 # k
    BY <1>1, <2>1, <2>2, <2>3, <2>4, <2>7
  <2>9. FrameAt(m, i + 1) = FrameAt(l, j + 1) /\ PlaceAt(m, i + 1) = PlaceAt(l, j + 1)
    <3> HIDE DEF from
    <3> QED BY <1>2, <2>8
  <2>10. QED
    BY <2>3, <2>4, <2>8, <2>9
<1>9. GoesBack(m, more)
  <2>1. SUFFICES ASSUME NEW i \in 2..Len(m), Known(m, more, i), PlaceAt(m, i) > 1
                 PROVE  FrameAt(m, i - 1) = FrameAt(m, i) /\ PlaceAt(m, i - 1) = PlaceAt(m, i) - 1
    BY DEF GoesBack
  <2>2. i \in 1..Len(m) /\ i - 1 \in 1..Len(m)
    BY <1>1, <2>1
  <2>3. PICK j \in 1..Len(l) : j = from(i)
    BY <1>2, <1>4, <2>1, <2>2
  <2>4. /\ FrameAt(m, i) = FrameAt(l, j) /\ PlaceAt(m, i) = PlaceAt(l, j) /\ i # k
        /\ Known(l, dm, j) /\ FrameAt(l, j) \notin more /\ FrameAt(l, j) # 0
    <3> HIDE DEF from
    <3> QED BY <1>2, <1>4, <2>1, <2>2, <2>3 DEF Known
  <2>5. j # k
    BY <2>1, <2>3, <2>4
  <2>6. j \in 2..Len(l) /\ i - 1 # k /\ from(i - 1) = j - 1
    BY <1>1, <2>1, <2>3, <2>4, <2>5
  <2>7. FrameAt(l, j - 1) = FrameAt(l, j) /\ PlaceAt(l, j - 1) = PlaceAt(l, j) - 1
    BY <2>1, <2>4, <2>6 DEF LineInv, GoesBack
  <2>8. FrameAt(m, i - 1) = FrameAt(l, j - 1) /\ PlaceAt(m, i - 1) = PlaceAt(l, j - 1)
    <3> HIDE DEF from
    <3> QED BY <1>2, <2>2, <2>6
  <2>9. QED
    BY <2>4, <2>7, <2>8
<1>10. Gone(m, s, more) \subseteq Gone(l, s, dm)
  <2>1. SUFFICES ASSUME NEW n \in Gone(m, s, more)
                 PROVE  n \notin dm /\ \A j \in 1..Len(l) : FrameAt(l, j) # n
    BY DEF Gone
  <2>2. n \in 1..Len(s) /\ n \notin more /\ \A i \in 1..Len(m) : FrameAt(m, i) # n
    BY <2>1 DEF Gone
  <2>3. ASSUME NEW j \in 1..Len(l) PROVE FrameAt(l, j) # n
    <3>1. PICK i : i = IF j < k THEN j ELSE j + 1
      OBVIOUS
    <3>2. i \in 1..Len(m) /\ i # k /\ from(i) = j
      BY <1>1, <2>3, <3>1
    <3>3. QED
      <4> HIDE DEF from
      <4> QED BY <1>2, <2>2, <3>2
  <2>4. QED
    BY <2>2, <2>3
<1>11. GoneFirst(m, s, more)
  <2>1. SUFFICES ASSUME NEW n \in Gone(m, s, more), NEW i \in 1..Len(m), FrameAt(m, i) # 0
                 PROVE  n < FrameAt(m, i)
    BY DEF GoneFirst
  <2>2. i # k
    BY <2>1
  <2> HIDE DEF from
  <2>3. QED
    BY <1>2, <1>10, <2>1, <2>2 DEF GoneFirst
<1>12. QED
  BY <1>5, <1>6, <1>7, <1>8, <1>9, <1>10, <1>11 DEF LineInv

(* The code of a frame that was sent.                                      *)
LEMMA SizeNat ==
  ASSUME NEW s \in Seq(Bodies), NEW n \in 1..Len(s)
  PROVE  /\ s[n] \in Bodies /\ Size(s, n) \in Nat /\ Size(s, n) >= 2
         /\ CodeAt(s, n, 1) = kFlag /\ CodeAt(s, n, Size(s, n)) = kFlag
<1>1. s[n] \in Bodies
  OBVIOUS
<1>2. PICK b, t : b = s[n] /\ t = Stuffed(Data(b))
  OBVIOUS
<1>3. /\ Len(t) \in Nat /\ Len(encode(b)) = Len(t) + 2
      /\ encode(b)[1] = kFlag /\ encode(b)[Len(encode(b))] = kFlag
  BY <1>1, <1>2, EncodeShape
<1>4. QED
  BY <1>1, <1>2, <1>3 DEF Size, CodeAt

(* m is l without its first entry.                                         *)
Behind(m, l) == Len(m) = Len(l) - 1 /\ \A i \in 1..Len(m) : SameEntry(m, i, l, i + 1)

(* Of the frames gone from m and not from l: none but n, the frame of the  *)
(* first entry of l, and n only with its last byte.                        *)
GoneBy(m, l, s, dm, n) ==
  /\ Gone(l, s, dm) \subseteq Gone(m, s, dm)
  /\ Gone(m, s, dm) \subseteq Gone(l, s, dm) \union {n}
  /\ \A g \in Gone(l, s, dm) : g # n /\ (n # 0 => g < n)
  /\ n \in Gone(m, s, dm) <=> Known(l, dm, 1) /\ Fits(s[n]) /\ PlaceAt(l, 1) = Size(s, n)

(* A byte is read: at most the frame it belongs to is gone, and it is if   *)
(* that was its last byte.                                                 *)
LEMMA ReadKeepsLine ==
  ASSUME NEW l \in Lines, NEW m \in Lines, NEW s \in Seq(Bodies), NEW dm,
         LineInv(l, s, dm), GoneFirst(l, s, dm), Len(l) > 0, Behind(m, l),
         NEW n, n = FrameAt(l, 1)
  PROVE  LineInv(m, s, dm) /\ GoneFirst(m, s, dm) /\ GoneBy(m, l, s, dm, n)
<1>1. /\ Len(l) \in Nat /\ Len(m) \in Nat /\ 1 \in 1..Len(l) /\ Len(m) = Len(l) - 1
      /\ \A i \in 1..Len(l) : FrameAt(l, i) \in Nat /\ PlaceAt(l, i) \in Nat
  BY LineTypes DEF Behind
<1>2. \A i \in 1..Len(m) :
        /\ i + 1 \in 1..Len(l) /\ i + 1 \in 2..Len(l)
        /\ FrameAt(m, i) = FrameAt(l, i + 1) /\ PlaceAt(m, i) = PlaceAt(l, i + 1)
        /\ ByteAt(m, i) = ByteAt(l, i + 1)
  BY <1>1 DEF Behind, SameEntry, SameSpot
<1>3. \A i \in 1..Len(m) : Known(m, dm, i) <=> Known(l, dm, i + 1)
  BY <1>2 DEF Known
<1>4. \A i \in 1..Len(m) : FrameAt(m, i) <= Len(s)
  BY <1>2 DEF LineInv
<1>5. InOrder(m)
  <2>1. SUFFICES ASSUME NEW i \in 1..Len(m), NEW j \in 1..Len(m), i < j,
                        FrameAt(m, i) # 0, FrameAt(m, j) # 0
                 PROVE  \/ FrameAt(m, i) < FrameAt(m, j)
                        \/ FrameAt(m, i) = FrameAt(m, j) /\ PlaceAt(m, i) < PlaceAt(m, j)
    BY DEF InOrder
  <2>2. i + 1 \in 1..Len(l) /\ j + 1 \in 1..Len(l) /\ i + 1 < j + 1
    BY <1>1, <2>1
  <2>3. QED
    BY <1>2, <2>1, <2>2 DEF LineInv, InOrder
<1>6. AsSent(m, s, dm)
  BY <1>2, <1>3 DEF LineInv, AsSent
<1>7. GoesOn(m, s, dm)
  <2>1. SUFFICES ASSUME NEW i \in 1..Len(m), Known(m, dm, i),
                        PlaceAt(m, i) < Size(s, FrameAt(m, i))
                 PROVE  /\ i < Len(m)
                        /\ FrameAt(m, i + 1) = FrameAt(m, i) /\ PlaceAt(m, i + 1) = PlaceAt(m, i) + 1
    BY DEF GoesOn
  <2>2. PICK j \in 1..Len(l) : j = i + 1
    BY <1>2, <2>1
  <2>3. j < Len(l) /\ FrameAt(l, j + 1) = FrameAt(l, j) /\ PlaceAt(l, j + 1) = PlaceAt(l, j) + 1
    BY <1>2, <1>3, <2>1, <2>2 DEF LineInv, GoesOn
  <2>4. i < Len(m) /\ i + 1 \in 1..Len(m)
    BY <1>1, <2>1, <2>2, <2>3
  <2>5. QED
    BY <1>2, <2>1, <2>2, <2>3, <2>4
<1>8. GoesBack(m, dm)
  <2>1. SUFFICES ASSUME NEW i \in 2..Len(m), Known(m, dm, i), PlaceAt(m, i) > 1
                 PROVE  FrameAt(m, i - 1) = FrameAt(m, i) /\ PlaceAt(m, i - 1) = PlaceAt(m, i) - 1
    BY DEF GoesBack
  <2>2. i \in 1..Len(m) /\ i - 1 \in 1..Len(m) /\ (i - 1) + 1 = i /\ (i + 1) - 1 = i /\ i + 1 \in 2..Len(l)
    BY <1>1, <2>1
  <2>3. FrameAt(l, i) = FrameAt(l, i + 1) /\ PlaceAt(l, i) = PlaceAt(l, i + 1) - 1
    BY <1>2, <1>3, <2>1, <2>2 DEF LineInv, GoesBack
  <2>4. QED
    BY <1>2, <2>2, <2>3
<1>9. \A g \in Gone(l, s, dm) : g # n /\ (n # 0 => g < n)
  BY <1>1 DEF Gone, GoneFirst
<1>10. Gone(l, s, dm) \subseteq Gone(m, s, dm)
  BY <1>2 DEF Gone
<1>11. Gone(m, s, dm) \subseteq Gone(l, s, dm) \union {n}
  <2>1. SUFFICES ASSUME NEW g \in Gone(m, s, dm), g # n, NEW j \in 1..Len(l)
                 PROVE  FrameAt(l, j) # g
    BY DEF Gone
  <2>2. CASE j = 1
    BY <2>1, <2>2
  <2>3. CASE j # 1
    <3>1. PICK i \in 1..Len(m) : j = i + 1
      <4>1. j - 1 \in 1..Len(m) /\ j = (j - 1) + 1
        BY <1>1, <2>1, <2>3
      <4>2. QED
        BY <4>1
    <3>2. QED
      BY <1>2, <2>1, <3>1 DEF Gone
  <2>4. QED
    BY <2>2, <2>3
<1>12. ASSUME Known(l, dm, 1), PlaceAt(l, 1) = Size(s, n), NEW i \in 2..Len(l), FrameAt(l, i) # 0
       PROVE  n < FrameAt(l, i)
  <2>1. i \in 1..Len(l) /\ 1 < i
    BY <1>1, <1>12
  <2>2. n < FrameAt(l, i) \/ (n = FrameAt(l, i) /\ PlaceAt(l, 1) < PlaceAt(l, i))
    BY <1>1, <1>12, <2>1 DEF LineInv, InOrder, Known
  <2>3. ASSUME n = FrameAt(l, i), PlaceAt(l, 1) < PlaceAt(l, i) PROVE FALSE
    <3>1. Known(l, dm, i)
      BY <1>12, <2>3 DEF Known
    <3>2. AsSent(l, s, dm)
      BY DEF LineInv
    <3>3. PlaceAt(l, i) \in 1..Size(s, FrameAt(l, i)) /\ PlaceAt(l, 1) \in 1..Size(s, n)
      BY <1>1, <1>12, <2>1, <3>1, <3>2 DEF AsSent
    <3>4. QED
      BY <1>1, <1>12, <2>1, <2>3, <3>3
  <2>4. QED
    BY <2>2, <2>3
<1>13. ASSUME n \in Gone(m, s, dm)
       PROVE  Known(l, dm, 1) /\ Fits(s[n]) /\ PlaceAt(l, 1) = Size(s, n)
  <2>1. n \in 1..Len(s) /\ n \notin dm /\ Fits(s[n]) /\ \A i \in 1..Len(m) : FrameAt(m, i) # n
    BY <1>13 DEF Gone
  <2>2. Known(l, dm, 1)
    BY <2>1 DEF Known
  <2>3. PlaceAt(l, 1) \in 1..Size(s, n)
    BY <1>1, <2>2 DEF LineInv, AsSent
  <2>4. ~(PlaceAt(l, 1) < Size(s, n))
    <3>1. SUFFICES ASSUME PlaceAt(l, 1) < Size(s, n) PROVE FALSE
      OBVIOUS
    <3>2. GoesOn(l, s, dm)
      BY DEF LineInv
    <3>3. 1 < Len(l) /\ FrameAt(l, 1 + 1) = n
      BY <1>1, <2>2, <3>1, <3>2 DEF GoesOn
    <3>4. 1 \in 1..Len(m)
      BY <1>1, <3>3
    <3>5. FrameAt(m, 1) = n
      BY <1>2, <3>3, <3>4
    <3>6. QED
      BY <2>1, <3>4, <3>5
  <2>5. Size(s, n) \in Nat
    BY <2>1, SizeNat
  <2>6. QED
    BY <2>1, <2>2, <2>3, <2>4, <2>5
<1>14. ASSUME Known(l, dm, 1), Fits(s[n]), PlaceAt(l, 1) = Size(s, n)
       PROVE  n \in Gone(m, s, dm)
  <2>1. n \notin dm /\ n # 0 /\ n <= Len(s) /\ n \in Nat
    BY <1>1, <1>14 DEF Known, LineInv
  <2>2. n \in 1..Len(s)
    BY <2>1
  <2>3. ASSUME NEW i \in 1..Len(m) PROVE FrameAt(m, i) # n
    <3>1. i + 1 \in 2..Len(l) /\ FrameAt(m, i) = FrameAt(l, i + 1) /\ FrameAt(l, i + 1) \in Nat
      BY <1>1, <1>2, <2>3
    <3>2. CASE FrameAt(l, i + 1) = 0
      BY <2>1, <3>1, <3>2
    <3>3. CASE FrameAt(l, i + 1) # 0
      <4>1. n < FrameAt(l, i + 1)
        BY <1>12, <1>14, <3>1, <3>3
      <4>2. QED
        BY <2>1, <3>1, <4>1
    <3>4. QED
      BY <3>2, <3>3
  <2>4. QED
    BY <1>14, <2>1, <2>2, <2>3 DEF Gone
<1>15. GoneFirst(m, s, dm)
  <2>1. SUFFICES ASSUME NEW g \in Gone(m, s, dm), NEW i \in 1..Len(m), FrameAt(m, i) # 0
                 PROVE  g < FrameAt(m, i)
    BY DEF GoneFirst
  <2>2. i + 1 \in 2..Len(l) /\ i + 1 \in 1..Len(l) /\ FrameAt(m, i) = FrameAt(l, i + 1)
    BY <1>2, <2>1
  <2>3. CASE g \in Gone(l, s, dm)
    BY <2>1, <2>2, <2>3 DEF GoneFirst
  <2>4. CASE g = n
    BY <1>12, <1>13, <2>1, <2>2, <2>4
  <2>5. QED
    BY <1>11, <2>1, <2>3, <2>4
<1>16. LineInv(m, s, dm)
  BY <1>4, <1>5, <1>6, <1>7, <1>8 DEF LineInv
<1>17. GoneBy(m, l, s, dm, n)
  BY <1>9, <1>10, <1>11, <1>13, <1>14 DEF GoneBy
<1>18. QED
  BY <1>15, <1>16, <1>17

(* m is l with the code of frame a of t behind it.                         *)
Extended(m, l, t, a) ==
  /\ Len(m) = Len(l) + Size(t, a)
  /\ \A i \in 1..Len(l) : SameEntry(m, i, l, i)
  /\ \A p \in 1..Size(t, a) : /\ FrameAt(m, Len(l) + p) = a /\ PlaceAt(m, Len(l) + p) = p
                               /\ ByteAt(m, Len(l) + p) = CodeAt(t, a, p)

(* t is s with one more.                                                   *)
OneMore(t, s) == Len(t) = Len(s) + 1 /\ \A n \in 1..Len(s) : t[n] = s[n]

(* A frame is put on the line, behind all that is there.                   *)
LEMMA SendKeepsLine ==
  ASSUME NEW l \in Lines, NEW m \in Lines, NEW s \in Seq(Bodies), NEW t \in Seq(Bodies), NEW dm,
         LineInv(l, s, dm), GoneFirst(l, s, dm),
         OneMore(t, s), NEW a, a = Len(s) + 1, Extended(m, l, t, a)
  PROVE  LineInv(m, t, dm) /\ GoneFirst(m, t, dm) /\ Gone(m, t, dm) = Gone(l, s, dm)
<1>0. PICK N, z : N = Len(l) /\ z = Size(t, a)
  OBVIOUS
<1>1. /\ N \in Nat /\ Len(s) \in Nat /\ a \in Nat /\ a \in 1..Len(t) /\ a > Len(s) /\ a # 0
      /\ Len(t) = Len(s) + 1
      /\ \A i \in 1..N : FrameAt(l, i) \in Nat /\ PlaceAt(l, i) \in Nat
  BY <1>0, LineTypes DEF OneMore
<1>2. z \in Nat /\ z >= 2 /\ Len(m) = N + z
  BY <1>0, <1>1, SizeNat DEF Extended
<1>3. \A i \in 1..N : /\ i \in 1..Len(m)
                      /\ FrameAt(m, i) = FrameAt(l, i) /\ PlaceAt(m, i) = PlaceAt(l, i)
                      /\ ByteAt(m, i) = ByteAt(l, i) /\ FrameAt(l, i) <= Len(s)
  BY <1>0, <1>1, <1>2 DEF Extended, SameEntry, SameSpot, LineInv
<1>4. \A i \in 1..Len(m) : i > N =>
        /\ i - N \in 1..z /\ FrameAt(m, i) = a /\ PlaceAt(m, i) = i - N
        /\ ByteAt(m, i) = CodeAt(t, a, i - N)
  <2>1. SUFFICES ASSUME NEW i \in 1..Len(m), i > N
                 PROVE  /\ i - N \in 1..z /\ FrameAt(m, i) = a /\ PlaceAt(m, i) = i - N
                        /\ ByteAt(m, i) = CodeAt(t, a, i - N)
    OBVIOUS
  <2>2. PICK p : p = i - N
    OBVIOUS
  <2>3. p \in 1..z /\ i = N + p
    BY <1>1, <1>2, <2>1, <2>2
  <2>4. QED
    BY <1>0, <2>2, <2>3 DEF Extended
<1>5. \A i \in 1..N : Known(m, dm, i) =>
        /\ Known(l, dm, i) /\ FrameAt(l, i) \in 1..Len(s)
        /\ t[FrameAt(l, i)] = s[FrameAt(l, i)]
  <2>1. SUFFICES ASSUME NEW i \in 1..N, Known(m, dm, i)
                 PROVE  /\ Known(l, dm, i) /\ FrameAt(l, i) \in 1..Len(s)
                        /\ t[FrameAt(l, i)] = s[FrameAt(l, i)]
    OBVIOUS
  <2>2. Known(l, dm, i) /\ FrameAt(l, i) # 0
    BY <1>3, <2>1 DEF Known
  <2>3. FrameAt(l, i) \in 1..Len(s)
    BY <1>1, <1>3, <2>1, <2>2
  <2>4. QED
    BY <2>2, <2>3 DEF OneMore
<1>6. \A i \in 1..N : Known(m, dm, i) => Size(t, FrameAt(l, i)) = Size(s, FrameAt(l, i))
  BY <1>5 DEF Size
<1>7. \A i \in 1..N : Known(m, dm, i) => \A p : CodeAt(t, FrameAt(l, i), p) = CodeAt(s, FrameAt(l, i), p)
  BY <1>5 DEF CodeAt
<1>8. \A i \in 1..Len(m) : FrameAt(m, i) <= Len(t)
  <2>1. SUFFICES ASSUME NEW i \in 1..Len(m) PROVE FrameAt(m, i) <= Len(t)
    OBVIOUS
  <2>2. CASE i > N
    BY <1>1, <1>4, <2>2
  <2>3. CASE ~(i > N)
    <3>1. i \in 1..N
      BY <1>1, <1>2, <2>3
    <3>2. QED
      BY <1>1, <1>3, <3>1
  <2>4. QED
    BY <2>2, <2>3
<1>9. InOrder(m)
  <2>1. SUFFICES ASSUME NEW i \in 1..Len(m), NEW j \in 1..Len(m), i < j,
                        FrameAt(m, i) # 0, FrameAt(m, j) # 0
                 PROVE  \/ FrameAt(m, i) < FrameAt(m, j)
                        \/ FrameAt(m, i) = FrameAt(m, j) /\ PlaceAt(m, i) < PlaceAt(m, j)
    BY DEF InOrder
  <2>2. CASE i > N
    <3>1. j > N
      BY <1>1, <1>2, <2>1, <2>2
    <3>2. QED
      BY <1>1, <1>4, <2>1, <2>2, <3>1
  <2>3. CASE ~(i > N) /\ j > N
    <3>1. i \in 1..N
      BY <1>1, <1>2, <2>3
    <3>2. QED
      BY <1>1, <1>3, <1>4, <2>3, <3>1
  <2>4. CASE ~(i > N) /\ ~(j > N)
    <3>1. i \in 1..N /\ j \in 1..N
      BY <1>1, <1>2, <2>4
    <3>2. QED
      BY <1>0, <1>3, <2>1, <3>1 DEF LineInv, InOrder
  <2>5. QED
    BY <2>2, <2>3, <2>4
<1>10. AsSent(m, t, dm)
  <2>1. SUFFICES ASSUME NEW i \in 1..Len(m), Known(m, dm, i)
                 PROVE  /\ PlaceAt(m, i) \in 1..Size(t, FrameAt(m, i))
                        /\ ByteAt(m, i) = CodeAt(t, FrameAt(m, i), PlaceAt(m, i))
    BY DEF AsSent
  <2>2. CASE i > N
    BY <1>0, <1>4, <2>1, <2>2
  <2>3. CASE ~(i > N)
    <3>1. i \in 1..N
      BY <1>1, <1>2, <2>3
    <3>2. /\ PlaceAt(l, i) \in 1..Size(s, FrameAt(l, i))
          /\ ByteAt(l, i) = CodeAt(s, FrameAt(l, i), PlaceAt(l, i))
      BY <1>0, <1>5, <2>1, <3>1 DEF LineInv, AsSent
    <3>3. QED
      BY <1>3, <1>6, <1>7, <2>1, <3>1, <3>2
  <2>4. QED
    BY <2>2, <2>3
<1>11. GoesOn(m, t, dm)
  <2>1. SUFFICES ASSUME NEW i \in 1..Len(m), Known(m, dm, i),
                        PlaceAt(m, i) < Size(t, FrameAt(m, i))
                 PROVE  /\ i < Len(m)
                        /\ FrameAt(m, i + 1) = FrameAt(m, i) /\ PlaceAt(m, i + 1) = PlaceAt(m, i) + 1
    BY DEF GoesOn
  <2>2. CASE i > N
    <3>1. i - N < z /\ FrameAt(m, i) = a /\ PlaceAt(m, i) = i - N
      BY <1>0, <1>4, <2>1, <2>2
    <3>2. i < Len(m) /\ i + 1 \in 1..Len(m) /\ i + 1 > N /\ (i + 1) - N = (i - N) + 1
      BY <1>1, <1>2, <2>1, <2>2, <3>1
    <3>3. QED
      BY <1>4, <3>1, <3>2
  <2>3. CASE ~(i > N)
    <3>1. i \in 1..N
      BY <1>1, <1>2, <2>3
    <3>2. /\ i < N
          /\ FrameAt(l, i + 1) = FrameAt(l, i) /\ PlaceAt(l, i + 1) = PlaceAt(l, i) + 1
      BY <1>0, <1>3, <1>5, <1>6, <2>1, <3>1 DEF LineInv, GoesOn
    <3>3. i + 1 \in 1..N /\ i < Len(m)
      BY <1>1, <1>2, <3>1, <3>2
    <3>4. QED
      BY <1>3, <3>1, <3>2, <3>3
  <2>4. QED
    BY <2>2, <2>3
<1>12. GoesBack(m, dm)
  <2>1. SUFFICES ASSUME NEW i \in 2..Len(m), Known(m, dm, i), PlaceAt(m, i) > 1
                 PROVE  FrameAt(m, i - 1) = FrameAt(m, i) /\ PlaceAt(m, i - 1) = PlaceAt(m, i) - 1
    BY DEF GoesBack
  <2>2. CASE i > N
    <3>1. i \in 1..Len(m) /\ i - 1 \in 1..Len(m)
      BY <1>1, <1>2, <2>1
    <3>2. FrameAt(m, i) = a /\ PlaceAt(m, i) = i - N
      BY <1>4, <2>2, <3>1
    <3>3. i - 1 > N /\ (i - 1) - N = (i - N) - 1
      BY <1>1, <2>1, <3>2
    <3>4. QED
      BY <1>4, <3>1, <3>2, <3>3
  <2>3. CASE ~(i > N)
    <3>0. i \in Int /\ i >= 2 /\ i <= N
      BY <1>1, <1>2, <2>3
    <3>1. i \in 1..N /\ i - 1 \in 1..N /\ i \in 2..N
      BY <1>1, <3>0
    <3>2. FrameAt(l, i - 1) = FrameAt(l, i) /\ PlaceAt(l, i - 1) = PlaceAt(l, i) - 1
      BY <1>0, <1>3, <1>5, <2>1, <3>1 DEF LineInv, GoesBack
    <3>3. QED
      BY <1>3, <3>1, <3>2
  <2>4. QED
    BY <2>2, <2>3
<1>13. Gone(m, t, dm) = Gone(l, s, dm)
  <2>1. ASSUME NEW n \in Gone(m, t, dm) PROVE n \in Gone(l, s, dm)
    <3>1. n \in 1..Len(t) /\ n \notin dm /\ Fits(t[n]) /\ \A i \in 1..Len(m) : FrameAt(m, i) # n
      BY <2>1 DEF Gone
    <3>2. N + 1 \in 1..Len(m) /\ N + 1 > N
      BY <1>1, <1>2
    <3>3. n # a
      BY <1>4, <3>1, <3>2
    <3>4. n \in 1..Len(s)
      BY <1>1, <3>1, <3>3
    <3>5. t[n] = s[n]
      BY <3>4 DEF OneMore
    <3>6. \A i \in 1..N : FrameAt(l, i) # n
      BY <1>3, <3>1
    <3>7. QED
      BY <1>0, <3>1, <3>4, <3>5, <3>6 DEF Gone
  <2>2. ASSUME NEW n \in Gone(l, s, dm) PROVE n \in Gone(m, t, dm)
    <3>1. n \in 1..Len(s) /\ n \notin dm /\ Fits(s[n]) /\ \A i \in 1..N : FrameAt(l, i) # n
      BY <1>0, <2>2 DEF Gone
    <3>2. n \in 1..Len(t) /\ t[n] = s[n] /\ n # a
      BY <1>1, <3>1 DEF OneMore
    <3>3. ASSUME NEW i \in 1..Len(m) PROVE FrameAt(m, i) # n
      <4>1. CASE i > N
        BY <1>4, <3>2, <4>1
      <4>2. CASE ~(i > N)
        <5>1. i \in 1..N
          BY <1>1, <1>2, <4>2
        <5>2. QED
          BY <1>3, <3>1, <5>1
      <4>3. QED
        BY <4>1, <4>2
    <3>4. QED
      BY <3>1, <3>2, <3>3 DEF Gone
  <2>3. QED
    BY <2>1, <2>2
<1>14. GoneFirst(m, t, dm)
  <2>1. SUFFICES ASSUME NEW n \in Gone(l, s, dm), NEW i \in 1..Len(m), FrameAt(m, i) # 0
                 PROVE  n < FrameAt(m, i)
    BY <1>13 DEF GoneFirst
  <2>2. n \in 1..Len(s)
    BY DEF Gone
  <2>3. CASE i > N
    BY <1>1, <1>4, <2>2, <2>3
  <2>4. CASE ~(i > N)
    <3>1. i \in 1..N
      BY <1>1, <1>2, <2>4
    <3>2. QED
      BY <1>0, <1>3, <2>1, <3>1 DEF GoneFirst
  <2>5. QED
    BY <2>3, <2>4
<1>15. QED
  BY <1>8, <1>9, <1>10, <1>11, <1>12, <1>13, <1>14 DEF LineInv

-----------------------------------------------------------------------------
(* The decoder, whatever arrives.                                          *)

DecoderOK(d) ==
  \E f \in Seq(Byte), i \in BOOLEAN, e \in BOOLEAN :
    d = Decoder(f, i, e, FALSE) /\ Len(f) <= Capacity /\ (e = TRUE => i = TRUE)

(* A completed frame.                                                      *)
Completed(d) == \E g \in Seq(Byte) : d = Decoder(g, TRUE, FALSE, TRUE)

(* The decoder once the receiver has taken the frame, if it completed one. *)
Taken(d) == IF d.ready THEN consume(d) ELSE d

(* A frame with a valid trailer has a body of bytes.                       *)
LEMMA BodyBytes ==
  ASSUME NEW f \in Seq(Byte), hasValidCrc(f)
  PROVE  Body(f) \in Seq(Byte)
<1>1. Len(f) \in Nat /\ Len(f) > 2
  BY DEF hasValidCrc, kCrcSize
<1>2. PICK n : n = Len(f) - 2
  OBVIOUS
<1>3. n \in 1..Len(f) /\ \A i \in 1..n : f[i] \in Byte
  BY <1>1, <1>2
<1>4. SubSeq(f, 1, n) \in Seq(Byte)
  BY <1>3, SubSeqProperties
<1>5. QED
  BY <1>2, <1>4 DEF Body, kCrcSize

(* What a flag leaves.                                                     *)
LEMMA FlagLeaves ==
  ASSUME NEW d, DecoderOK(d)
  PROVE  push(d, kFlag) = Fresh \/ Completed(push(d, kFlag))
<1>1. PICK f \in Seq(Byte), i \in BOOLEAN, e \in BOOLEAN : d = Decoder(f, i, e, FALSE)
  BY DEF DecoderOK
<1>2. CASE i = TRUE /\ e = FALSE /\ hasValidCrc(f)
  <2>1. d = Decoder(f, TRUE, FALSE, FALSE)
    BY <1>1, <1>2
  <2>2. push(d, kFlag) = Decoder(Body(f), TRUE, FALSE, TRUE)
    BY <1>2, <2>1, FlagEnds
  <2>3. QED
    BY <1>2, <2>2, BodyBytes DEF Completed
<1>3. CASE ~(i = TRUE /\ e = FALSE /\ hasValidCrc(f))
  BY <1>1, <1>3, FlagRestarts
<1>4. QED
  BY <1>2, <1>3

(* The decoder after a flag is within its bounds.                          *)
LEMMA FreshOK == DecoderOK(Fresh)
<1>1. <<>> \in Seq(Byte) /\ Len(<<>>) <= Capacity
  BY CapacityNat
<1>2. QED
  BY <1>1 DEF DecoderOK, Fresh

(* The decoder is within its bounds initially.                             *)
LEMMA InitialOK == DecoderOK(InitialDecoder)
<1>1. <<>> \in Seq(Byte) /\ Len(<<>>) <= Capacity
  BY CapacityNat
<1>2. InitialDecoder = Decoder(<<>>, FALSE, FALSE, FALSE)
  BY DEF InitialDecoder, Decoder
<1>3. QED
  BY <1>1, <1>2 DEF DecoderOK

(* Any other byte: collected, skipped or taken as an escape.               *)
LEMMA OtherLeaves ==
  ASSUME NEW d, DecoderOK(d), NEW b \in Byte, b # kFlag
  PROVE  DecoderOK(push(d, b))
<1>1. PICK f \in Seq(Byte), i \in BOOLEAN, e \in BOOLEAN :
        d = Decoder(f, i, e, FALSE) /\ Len(f) <= Capacity /\ (e = TRUE => i = TRUE)
  BY DEF DecoderOK
<1>2. d.frame = f /\ d.in_frame = i /\ d.escaped = e /\ d.ready = FALSE
  BY <1>1 DEF Decoder
<1>3. Len(f) \in Nat /\ Capacity \in Nat
  BY CapacityNat
<1>4. ASSUME NEW c \in Byte, i = TRUE PROVE DecoderOK(Collect(d, c))
  <2>1. d = Decoder(f, TRUE, e, FALSE)
    BY <1>1, <1>4
  <2>2. CASE Len(f) >= Capacity
    BY <1>3, <2>1, <2>2, CollectDecoder, InitialOK
  <2>3. CASE ~(Len(f) >= Capacity)
    <3>1. Collect(d, c) = Decoder(Append(f, c), TRUE, FALSE, FALSE)
      BY <1>3, <2>1, <2>3, CollectDecoder
    <3>2. Append(f, c) \in Seq(Byte) /\ Len(Append(f, c)) = Len(f) + 1
      BY <1>4
    <3>3. Len(Append(f, c)) <= Capacity
      BY <1>3, <2>3, <3>2
    <3>4. QED
      BY <3>1, <3>2, <3>3 DEF DecoderOK
  <2>4. QED
    BY <2>2, <2>3
<1>5. CASE i = FALSE
  <2>1. push(d, b) = d
    BY <1>2, <1>5 DEF push
  <2>2. QED
    BY <2>1
<1>6. CASE i = TRUE /\ e = TRUE
  <2>1. push(d, b) = Collect(d, EscapeXor(b))
    BY <1>2, <1>6 DEF push
  <2>2. EscapeXor(b) \in Byte
    BY EscapeXorBytes
  <2>3. QED
    BY <1>4, <1>6, <2>1, <2>2
<1>7. CASE i = TRUE /\ e = FALSE /\ b = kEscape
  <2>1. push(d, b) = [d EXCEPT !.escaped = TRUE]
    BY <1>2, <1>7 DEF push
  <2>2. PICK yes, no : yes = TRUE /\ no = FALSE
    OBVIOUS
  <2>3. d = [frame |-> f, in_frame |-> yes, escaped |-> no, ready |-> no]
    BY <1>1, <1>7, <2>2 DEF Decoder
  <2>4. [d EXCEPT !.escaped = yes] = [frame |-> f, in_frame |-> yes, escaped |-> yes, ready |-> no]
    BY <2>3
  <2>5. push(d, b) = Decoder(f, TRUE, TRUE, FALSE)
    BY <2>1, <2>2, <2>4 DEF Decoder
  <2>6. QED
    BY <1>1, <2>5 DEF DecoderOK
<1>8. CASE i = TRUE /\ e = FALSE /\ b # kEscape
  <2>1. push(d, b) = Collect(d, b)
    BY <1>2, <1>8 DEF push
  <2>2. QED
    BY <1>4, <1>8, <2>1
<1>9. QED
  BY <1>1, <1>5, <1>6, <1>7, <1>8

(* A decoder that has completed nothing is left as it is.                  *)
LEMMA TakenNothing ==
  ASSUME NEW d, DecoderOK(d)
  PROVE  Taken(d) = d /\ d.ready = FALSE
<1>1. PICK f \in Seq(Byte), i \in BOOLEAN, e \in BOOLEAN : d = Decoder(f, i, e, FALSE)
  BY DEF DecoderOK
<1>2. d.ready = FALSE
  BY <1>1 DEF Decoder
<1>3. QED
  BY <1>2 DEF Taken

(* A completed frame is handed over and leaves the decoder empty.          *)
LEMMA TakenFrame ==
  ASSUME NEW d, NEW g, d = Decoder(g, TRUE, FALSE, TRUE)
  PROVE  Taken(d) = Fresh /\ d.ready = TRUE /\ d.frame = g
<1>1. d.ready = TRUE /\ d.frame = g
  BY DEF Decoder
<1>2. consume(d) = Fresh
  BY ConsumeDecoder DEF Fresh
<1>3. QED
  BY <1>1, <1>2 DEF Taken

(* Reading a byte keeps the decoder within its bounds, and a flag always   *)
(* leaves it ready for the bytes of a frame.                               *)
LEMMA ReadingLeaves ==
  ASSUME NEW d, DecoderOK(d), NEW b \in Byte
  PROVE  /\ DecoderOK(Taken(push(d, b)))
         /\ b = kFlag => Taken(push(d, b)) = Fresh
         /\ push(d, b).ready => Completed(push(d, b))
<1>1. PICK c : c = push(d, b)
  OBVIOUS
<1>2. CASE b # kFlag
  <2>1. DecoderOK(c)
    BY <1>1, <1>2, OtherLeaves
  <2>2. Taken(c) = c /\ c.ready = FALSE
    BY <2>1, TakenNothing
  <2>3. QED
    BY <1>1, <1>2, <2>1, <2>2
<1>3. CASE b = kFlag /\ c = Fresh
  <2>1. Taken(c) = c /\ c.ready = FALSE
    BY <1>3, FreshOK, TakenNothing
  <2>2. QED
    BY <1>1, <1>3, <2>1, FreshOK
<1>4. CASE b = kFlag /\ Completed(c)
  <2>1. Taken(c) = Fresh
    BY <1>4, TakenFrame DEF Completed
  <2>2. QED
    BY <1>1, <1>4, <2>1, FreshOK
<1>5. QED
  BY <1>1, <1>2, <1>3, <1>4, FlagLeaves

(* Inside a frame the decoder has completed nothing.                       *)
LEMMA TrackingIsBusy ==
  ASSUME NEW body, NEW p, NEW d, Tracks(body, p, d)
  PROVE  d.ready = FALSE
<1>1. PICK k : d = Holding(Data(body), k) \/ d = Escaping(Data(body), k)
  BY DEF Tracks
<1>2. Holding(Data(body), k).ready = FALSE /\ Escaping(Data(body), k).ready = FALSE
  BY DEF Holding, Escaping, Decoder, InitialDecoder
<1>3. QED
  BY <1>1, <1>2

-----------------------------------------------------------------------------
(* What has been passed on.                                                *)

(* place says where in r the bodies of the frames g are: in the order they *)
(* were sent.                                                              *)
Placed(place, g, s, r) ==
  /\ place \in [g -> 1..Len(r)]
  /\ \A n \in g : r[place[n]] = s[n]
  /\ \A m, n \in g : m < n => place[m] < place[n]

(* r holds nothing else.                                                   *)
Covers(place, g, r) == \A i \in 1..Len(r) : \E n \in g : place[n] = i

(* Fewer frames are asked for.                                             *)
LEMMA PlacedFewer ==
  ASSUME NEW place, NEW g, NEW s, NEW r, Placed(place, g, s, r), NEW h, h \subseteq g
  PROVE  \E q : Placed(q, h, s, r)
<1>1. PICK q : q = [n \in h |-> place[n]]
  OBVIOUS
<1>2. q \in [h -> 1..Len(r)] /\ \A n \in h : q[n] = place[n]
  BY <1>1 DEF Placed
<1>3. Placed(q, h, s, r)
  BY <1>2 DEF Placed
<1>4. QED
  BY <1>3

(* Something else is passed on.                                            *)
LEMMA PlacedStays ==
  ASSUME NEW place, NEW g, NEW s, NEW r, Placed(place, g, s, r), Len(r) \in Nat,
         NEW t, Len(t) = Len(r) + 1, \A i \in 1..Len(r) : t[i] = r[i]
  PROVE  Placed(place, g, s, t)
<1>1. 1..Len(r) \subseteq 1..Len(t)
  OBVIOUS
<1>2. \A n \in g : place[n] \in 1..Len(r)
  BY DEF Placed
<1>3. QED
  BY <1>1, <1>2 DEF Placed

(* The body of frame a is passed on, behind those of older frames.         *)
LEMMA PlacedNext ==
  ASSUME NEW place, NEW g, NEW s, NEW r, Placed(place, g, s, r), Len(r) \in Nat,
         NEW t, Len(t) = Len(r) + 1, \A i \in 1..Len(r) : t[i] = r[i],
         NEW a, t[Len(t)] = s[a], a \in Nat, g \subseteq Nat, \A n \in g : n < a,
         NEW quiet, quiet => Covers(place, g, r)
  PROVE  \E q : Placed(q, g \union {a}, s, t) /\ (quiet => Covers(q, g \union {a}, t))
<1>1. PICK z, h : z = Len(t) /\ h = g \union {a}
  OBVIOUS
<1>2. z \in 1..z /\ z \in Nat /\ a \notin g /\ 1..Len(r) \subseteq 1..z
  BY <1>1
<1>3. PICK q : q = [n \in h |-> IF n = a THEN z ELSE place[n]]
  OBVIOUS
<1>4. \A n \in g : n \in h /\ n # a /\ place[n] \in 1..Len(r)
  BY <1>1, <1>2 DEF Placed
<1>5. q[a] = z /\ \A n \in g : q[n] = place[n]
  BY <1>1, <1>3, <1>4
<1>6. q \in [h -> 1..z]
  BY <1>1, <1>2, <1>3, <1>4
<1>7. \A n \in h : t[q[n]] = s[n]
  <2>1. SUFFICES ASSUME NEW n \in h PROVE t[q[n]] = s[n]
    OBVIOUS
  <2>2. CASE n = a
    BY <1>1, <1>5, <2>2
  <2>3. CASE n # a
    BY <1>1, <1>4, <1>5, <2>3 DEF Placed
  <2>4. QED
    BY <2>2, <2>3
<1>8. \A m, n \in h : m < n => q[m] < q[n]
  <2>1. SUFFICES ASSUME NEW m \in h, NEW n \in h, m < n PROVE q[m] < q[n]
    OBVIOUS
  <2>2. m # a
    <3>1. SUFFICES ASSUME m = a PROVE FALSE
      OBVIOUS
    <3>2. n = a \/ n < a
      BY <1>1
    <3>3. n \in Nat
      BY <1>1
    <3>4. QED
      BY <2>1, <3>1, <3>2, <3>3
  <2>3. m \in g /\ q[m] \in 1..Len(r)
    BY <1>1, <1>4, <1>5, <2>2
  <2>4. CASE n = a
    BY <1>1, <1>5, <2>3, <2>4
  <2>5. CASE n # a
    BY <1>1, <1>5, <2>1, <2>3, <2>5 DEF Placed
  <2>6. QED
    BY <2>4, <2>5
<1>9. ASSUME quiet PROVE Covers(q, h, t)
  <2>1. SUFFICES ASSUME NEW i \in 1..z PROVE \E n \in h : q[n] = i
    BY <1>1 DEF Covers
  <2>2. CASE i = z
    BY <1>1, <1>5, <2>2
  <2>3. CASE i # z
    <3>1. i \in 1..Len(r)
      BY <1>1, <2>1, <2>3
    <3>2. PICK n \in g : place[n] = i
      BY <1>9, <3>1 DEF Covers
    <3>3. QED
      BY <1>4, <1>5, <3>2
  <2>4. QED
    BY <2>2, <2>3
<1>10. Placed(q, h, s, t)
  BY <1>1, <1>6, <1>7, <1>8 DEF Placed
<1>11. QED
  BY <1>1, <1>9, <1>10

-----------------------------------------------------------------------------
(* The inductive invariant, of a line l, a decoder d, frames s sent, r     *)
(* received and dm damaged, and z disturbances.                            *)

Types(l, d, s, r, z) ==
  /\ l \in Lines /\ DecoderOK(d)
  /\ s \in Seq(Bodies) /\ Len(s) <= MaxFrames
  /\ r \in Seq(Seq(Byte)) /\ \A i \in 1..Len(r) : Fits(r[i])
  /\ z \in 0..MaxNoise

(* The decoder has read of the frame under way all that came before what   *)
(* is next on the line.                                                    *)
Following(l, d, s, dm) ==
  Len(l) > 0 /\ Known(l, dm, 1) /\ PlaceAt(l, 1) > 1 =>
    Tracks(s[FrameAt(l, 1)], PlaceAt(l, 1) - 1, d)

PassedOn(l, s, r, dm, z) ==
  \E place : /\ Placed(place, Gone(l, s, dm), s, r)
             /\ z = 0 => Covers(place, Gone(l, s, dm), r)

(* While nothing has been disturbed, only frames are on the line and the   *)
(* decoder keeps nothing between two of them.                              *)
Quiet(l, d, dm, z) ==
  z = 0 => /\ dm = {}
           /\ \A i \in 1..Len(l) : FrameAt(l, i) # 0
           /\ Len(l) = 0 \/ PlaceAt(l, 1) = 1 => d.frame = <<>>

Inv(l, d, s, r, dm, z) ==
  /\ Types(l, d, s, r, z)
  /\ LineInv(l, s, dm)
  /\ GoneFirst(l, s, dm)
  /\ Following(l, d, s, dm)
  /\ PassedOn(l, s, r, dm, z)
  /\ Quiet(l, d, dm, z)

UartInv == Inv(line, decoder, sent, received, damaged, noise)

(* A disturbance that keeps the line in order keeps the rest.              *)
LEMMA DisturbKeeps ==
  ASSUME NEW l, NEW d, NEW s, NEW r, NEW dm, NEW z, Inv(l, d, s, r, dm, z),
         NEW m \in Lines, NEW more, z < MaxNoise,
         LineInv(m, s, more) /\ GoneFirst(m, s, more) /\ Gone(m, s, more) \subseteq Gone(l, s, dm),
         Following(m, d, s, more)
  PROVE  Inv(m, d, s, r, more, z + 1)
<1>1. MaxNoise \in Nat /\ z \in 0..MaxNoise
  BY UartAssumption DEF Inv, Types
<1>2. z + 1 \in 0..MaxNoise /\ z + 1 # 0
  BY <1>1
<1>3. Types(m, d, s, r, z + 1)
  BY <1>2 DEF Inv, Types
<1>4. PICK place : Placed(place, Gone(l, s, dm), s, r)
  BY DEF Inv, PassedOn
<1>5. PICK q : Placed(q, Gone(m, s, more), s, r)
  BY <1>4, PlacedFewer
<1>6. PassedOn(m, s, r, more, z + 1)
  BY <1>2, <1>5 DEF PassedOn
<1>7. Quiet(m, d, more, z + 1)
  BY <1>2 DEF Quiet
<1>8. QED
  BY <1>3, <1>6, <1>7 DEF Inv

(* Entries of two lines that are the same.                                 *)
LEMMA EqualEntries ==
  ASSUME NEW m, NEW i, NEW l, NEW j, m[i] = l[j]
  PROVE  SameEntry(m, i, l, j)
  BY DEF SameEntry, SameSpot, ByteAt, FrameAt, PlaceAt

(* x is the part of l before its entry k, y that behind its first k.       *)
PieceTo(x, l, k) == Len(x) = k - 1 /\ \A i \in 1..(k - 1) : x[i] = l[i]
PieceOf(y, l, k) == Len(y) = Len(l) - k /\ \A i \in 1..(Len(l) - k) : y[i] = l[k + i]

(* The part of a sequence behind its first k entries.                      *)
LEMMA PieceBehind ==
  ASSUME NEW E, NEW l \in Seq(E), NEW k \in 0..Len(l), NEW y, y = SubSeq(l, k + 1, Len(l))
  PROVE  y \in Seq(E) /\ PieceOf(y, l, k)
<1>1. PICK n, j : n = Len(l) /\ j = k + 1
  OBVIOUS
<1>2. n \in Nat /\ j \in Int /\ n \in Int /\ n - j + 1 = n - k
  BY <1>1
<1>3. \A i \in j..n : l[i] \in E
  BY <1>1
<1>4. /\ y \in Seq(E) /\ Len(y) = IF j <= n THEN n - j + 1 ELSE 0
      /\ \A i \in 1..(n - j + 1) : y[i] = l[j + i - 1]
  BY <1>1, <1>2, <1>3, SubSeqProperties
<1>5. \A i \in Int : j + i - 1 = k + i
  BY <1>1
<1>6. Len(y) = n - k
  BY <1>1, <1>2, <1>4
<1>7. ASSUME NEW i \in 1..(n - k) PROVE y[i] = l[k + i]
  <2>1. i \in 1..(n - j + 1) /\ j + i - 1 = k + i
    BY <1>2, <1>5
  <2>2. QED
    BY <1>4, <2>1
<1>8. QED
  BY <1>1, <1>4, <1>6, <1>7 DEF PieceOf

(* The part of a sequence before its entry k.                              *)
LEMMA PieceBefore ==
  ASSUME NEW E, NEW l \in Seq(E), NEW k \in 1..(Len(l) + 1), NEW x, x = SubSeq(l, 1, k - 1)
  PROVE  x \in Seq(E) /\ PieceTo(x, l, k)
<1>1. PICK j : j = k - 1
  OBVIOUS
<1>2. j \in 0..Len(l) /\ j \in Int /\ 1 \in Int /\ j - 1 + 1 = j
  BY <1>1
<1>3. \A i \in 1..j : l[i] \in E
  BY <1>2
<1>4. /\ x \in Seq(E) /\ Len(x) = IF 1 <= j THEN j - 1 + 1 ELSE 0
      /\ \A i \in 1..(j - 1 + 1) : x[i] = l[1 + i - 1]
  BY <1>1, <1>2, <1>3, SubSeqProperties
<1>5. \A i \in Int : 1 + i - 1 = i
  OBVIOUS
<1>6. Len(x) = j
  BY <1>2, <1>4
<1>7. ASSUME NEW i \in 1..j PROVE x[i] = l[i]
  <2>1. i \in 1..(j - 1 + 1) /\ 1 + i - 1 = i
    BY <1>2, <1>5
  <2>2. QED
    BY <1>4, <2>1
<1>8. QED
  BY <1>1, <1>4, <1>6, <1>7 DEF PieceTo

(* The line without its entry k.                                           *)
LEMMA LineWithout ==
  ASSUME NEW l \in Lines, NEW k \in 1..Len(l), NEW m, m = RemoveAt(l, k)
  PROVE  m \in Lines /\ Without(m, l, k)
<1>1. PICK E, n : E = Byte \X Nat \X Nat /\ n = Len(l)
  OBVIOUS
<1>2. l \in Seq(E) /\ n \in Nat /\ k \in 1..n
  BY <1>1 DEF Lines
<1>3. PICK x, y : x = SubSeq(l, 1, k - 1) /\ y = SubSeq(l, k + 1, n)
  OBVIOUS
<1>4. x \in Seq(E) /\ Len(x) = k - 1 /\ \A i \in 1..(k - 1) : x[i] = l[i]
  <2>1. k \in 1..(Len(l) + 1)
    BY <1>1, <1>2
  <2>2. x \in Seq(E) /\ PieceTo(x, l, k)
    BY <1>2, <1>3, <2>1, PieceBefore
  <2>3. QED
    BY <2>2 DEF PieceTo
<1>5. y \in Seq(E) /\ Len(y) = n - k /\ \A i \in 1..(n - k) : y[i] = l[k + i]
  <2>1. k \in 0..Len(l) /\ y = SubSeq(l, k + 1, Len(l))
    BY <1>1, <1>2, <1>3
  <2>2. y \in Seq(E) /\ PieceOf(y, l, k)
    BY <1>2, <2>1, PieceBehind
  <2>3. QED
    BY <1>1, <2>2 DEF PieceOf
<1>6. m = x \o y
  BY <1>1, <1>3 DEF RemoveAt
<1>7. /\ m \in Seq(E) /\ Len(m) = n - 1
      /\ \A i \in 1..(n - 1) : m[i] = IF i <= k - 1 THEN x[i] ELSE y[i - (k - 1)]
  BY <1>2, <1>4, <1>5, <1>6
<1>8. ASSUME NEW i \in 1..Len(m), i < k PROVE m[i] = l[i]
  <2>1. i \in 1..(n - 1) /\ i \in 1..(k - 1) /\ i <= k - 1
    BY <1>2, <1>7, <1>8
  <2>2. QED
    BY <1>4, <1>7, <2>1
<1>9. ASSUME NEW i \in 1..Len(m), i >= k PROVE m[i] = l[i + 1]
  <2>1. PICK j : j = i - (k - 1)
    OBVIOUS
  <2>2. i \in 1..(n - 1) /\ ~(i <= k - 1) /\ j \in 1..(n - k) /\ k + j = i + 1
    BY <1>2, <1>7, <1>9, <2>1
  <2>3. QED
    BY <1>5, <1>7, <2>1, <2>2
<1>10. QED
  BY <1>1, <1>7, <1>8, <1>9, EqualEntries DEF Lines, Without

(* The line with one entry more, at k.                                     *)
LEMMA LineWith ==
  ASSUME NEW l \in Lines, NEW k \in 1..(Len(l) + 1), NEW e, e \in Byte \X Nat \X Nat,
         NEW m, m = InsertAt(l, k, e)
  PROVE  /\ m \in Lines /\ Len(m) = Len(l) + 1 /\ m[k] = e
         /\ \A i \in 1..Len(m) : i < k => SameEntry(m, i, l, i)
         /\ \A i \in 1..Len(m) : i > k => SameEntry(m, i, l, i - 1)
<1>1. PICK E, n : E = Byte \X Nat \X Nat /\ n = Len(l)
  OBVIOUS
<1>2. l \in Seq(E) /\ n \in Nat /\ k \in 1..(n + 1) /\ e \in E
  BY <1>1 DEF Lines
<1>3. PICK x, y, w : x = SubSeq(l, 1, k - 1) /\ y = SubSeq(l, k, n) /\ w = x \o <<e>>
  OBVIOUS
<1>4. x \in Seq(E) /\ Len(x) = k - 1 /\ \A i \in 1..(k - 1) : x[i] = l[i]
  <2>1. k \in 1..(Len(l) + 1)
    BY <1>1, <1>2
  <2>2. x \in Seq(E) /\ PieceTo(x, l, k)
    BY <1>2, <1>3, <2>1, PieceBefore
  <2>3. QED
    BY <2>2 DEF PieceTo
<1>5. y \in Seq(E) /\ Len(y) = n + 1 - k /\ \A i \in 1..(n + 1 - k) : y[i] = l[k - 1 + i]
  <2>1. PICK j : j = k - 1
    OBVIOUS
  <2>2. j \in 0..n /\ j + 1 = k /\ n - j = n + 1 - k
    BY <1>2, <2>1
  <2>3. y \in Seq(E) /\ Len(y) = n - j /\ \A i \in 1..(n - j) : y[i] = l[j + i]
    <3>1. j \in 0..Len(l) /\ y = SubSeq(l, j + 1, Len(l))
      BY <1>1, <1>3, <2>2
    <3>2. y \in Seq(E) /\ PieceOf(y, l, j)
      BY <1>2, <3>1, PieceBehind
    <3>3. QED
      BY <1>1, <3>2 DEF PieceOf
  <2>4. QED
    BY <2>1, <2>2, <2>3
<1>6. w \in Seq(E) /\ Len(w) = k /\ w[k] = e /\ \A i \in 1..(k - 1) : w[i] = l[i]
  <2>1. w = Append(x, e)
    BY <1>2, <1>3, <1>4, AppendIsConcat
  <2>2. /\ w \in Seq(E) /\ Len(w) = Len(x) + 1 /\ w[Len(x) + 1] = e
        /\ \A i \in 1..Len(x) : w[i] = x[i]
    BY <1>2, <1>4, <2>1, AppendProperties
  <2>3. Len(x) + 1 = k
    BY <1>2, <1>4
  <2>4. QED
    BY <1>4, <2>2, <2>3
<1>7. m = w \o y
  BY <1>1, <1>3 DEF InsertAt
<1>8. /\ m \in Seq(E) /\ Len(m) = n + 1
      /\ \A i \in 1..(n + 1) : m[i] = IF i <= k THEN w[i] ELSE y[i - k]
  <2>1. /\ m \in Seq(E) /\ Len(m) = Len(w) + Len(y)
        /\ \A i \in 1..Len(w) + Len(y) : m[i] = IF i <= Len(w) THEN w[i] ELSE y[i - Len(w)]
    <3>1. w \in Seq(E) /\ y \in Seq(E)
      BY <1>5, <1>6
    <3>2. QED
      BY <1>7, <3>1
  <2>2. Len(w) + Len(y) = n + 1 /\ Len(w) = k
    BY <1>2, <1>5, <1>6
  <2>3. QED
    BY <2>1, <2>2
<1>9. m[k] = e
  BY <1>2, <1>6, <1>8
<1>10. ASSUME NEW i \in 1..Len(m), i < k PROVE m[i] = l[i]
  <2>1. i \in 1..(n + 1) /\ i \in 1..(k - 1) /\ i <= k
    BY <1>2, <1>8, <1>10
  <2>2. QED
    BY <1>6, <1>8, <2>1
<1>11. ASSUME NEW i \in 1..Len(m), i > k PROVE m[i] = l[i - 1]
  <2>1. PICK j : j = i - k
    OBVIOUS
  <2>2. i \in 1..(n + 1) /\ ~(i <= k) /\ j \in 1..(n + 1 - k) /\ k - 1 + j = i - 1
    BY <1>2, <1>8, <1>11, <2>1
  <2>3. QED
    BY <1>5, <1>8, <2>1, <2>2
<1>12. QED
  BY <1>1, <1>8, <1>9, <1>10, <1>11, EqualEntries DEF Lines

(* LoseByte.                                                               *)
LEMMA LoseKeeps ==
  ASSUME NEW l, NEW d, NEW s, NEW r, NEW dm, NEW z, Inv(l, d, s, r, dm, z), z < MaxNoise,
         NEW k \in 1..Len(l), NEW m, m = RemoveAt(l, k),
         NEW more, more = dm \union ({FrameAt(l, k)} \ {0})
  PROVE  Inv(m, d, s, r, more, z + 1)
<1>1. /\ l \in Lines /\ s \in Seq(Bodies) /\ LineInv(l, s, dm) /\ GoneFirst(l, s, dm)
      /\ Following(l, d, s, dm)
  BY DEF Inv, Types
<1>2. Len(s) \in Nat /\ Len(l) \in Nat
  BY <1>1, LineTypes
<1>3. m \in Lines /\ Without(m, l, k)
  BY <1>1, LineWithout
<1>4. LineInv(m, s, more) /\ GoneFirst(m, s, more) /\ Gone(m, s, more) \subseteq Gone(l, s, dm)
  <2>1. dm \subseteq more /\ (FrameAt(l, k) # 0 => FrameAt(l, k) \in more)
    OBVIOUS
  <2>2. QED
    BY <1>1, <1>2, <1>3, <2>1, LoseKeepsLine
<1>5. Following(m, d, s, more)
  <2>1. SUFFICES ASSUME Len(m) > 0, Known(m, more, 1), PlaceAt(m, 1) > 1
                 PROVE  Tracks(s[FrameAt(m, 1)], PlaceAt(m, 1) - 1, d)
    BY DEF Following
  <2>2. 1 \in 1..Len(m) /\ 2 \in 2..Len(l) /\ Len(l) > 0 /\ k \in Nat
    BY <1>2, <1>3, <2>1 DEF Without
  <2>3. CASE k = 1
    <3>1. SameEntry(m, 1, l, 2)
      BY <1>3, <2>2, <2>3 DEF Without
    <3>2. FrameAt(m, 1) = FrameAt(l, 2) /\ PlaceAt(m, 1) = PlaceAt(l, 2)
      BY <3>1 DEF SameEntry, SameSpot
    <3>3. Known(l, dm, 2) /\ FrameAt(l, 2) # FrameAt(l, 1)
      BY <2>1, <2>3, <3>2 DEF Known
    <3>4. FrameAt(l, 2 - 1) = FrameAt(l, 2)
      BY <1>1, <2>1, <2>2, <3>2, <3>3 DEF LineInv, GoesBack
    <3>5. QED
      BY <3>3, <3>4
  <2>4. CASE k # 1
    <3>1. SameEntry(m, 1, l, 1)
      BY <1>3, <2>2, <2>4 DEF Without
    <3>2. FrameAt(m, 1) = FrameAt(l, 1) /\ PlaceAt(m, 1) = PlaceAt(l, 1)
      BY <3>1 DEF SameEntry, SameSpot
    <3>3. Known(l, dm, 1)
      BY <2>1, <3>2 DEF Known
    <3>4. QED
      BY <1>1, <2>1, <2>2, <3>2, <3>3 DEF Following
  <2>5. QED
    BY <2>3, <2>4
<1>6. QED
  BY <1>3, <1>4, <1>5, DisturbKeeps

(* m is l with its entry k replaced by e.                                  *)
ReplacedBy(m, l, k, e) == Len(m) = Len(l) /\ \A i \in 1..Len(l) : m[i] = IF i = k THEN e ELSE l[i]

(* A sequence with one entry replaced.                                     *)
LEMMA Replaced ==
  ASSUME NEW E, NEW l \in Seq(E), NEW k \in 1..Len(l), NEW e \in E
  PROVE  ReplaceAt(l, k, e) \in Seq(E) /\ ReplacedBy(ReplaceAt(l, k, e), l, k, e)
  BY ExceptSeq DEF ReplaceAt, ReplacedBy

(* ChangeByte.                                                             *)
LEMMA ChangeKeeps ==
  ASSUME NEW l, NEW d, NEW s, NEW r, NEW dm, NEW z, Inv(l, d, s, r, dm, z), z < MaxNoise,
         NEW k \in 1..Len(l), NEW b \in Byte,
         NEW m, m = ReplaceAt(l, k, <<b, FrameAt(l, k), PlaceAt(l, k)>>),
         NEW more, more = dm \union ({FrameAt(l, k)} \ {0})
  PROVE  Inv(m, d, s, r, more, z + 1)
<1>1. /\ l \in Lines /\ s \in Seq(Bodies) /\ LineInv(l, s, dm) /\ GoneFirst(l, s, dm)
      /\ Following(l, d, s, dm)
  BY DEF Inv, Types
<1>2. Len(s) \in Nat /\ Len(l) \in Nat /\ FrameAt(l, k) \in Nat /\ PlaceAt(l, k) \in Nat
  BY <1>1, LineTypes
<1>3. PICK E, e : E = Byte \X Nat \X Nat /\ e = <<b, FrameAt(l, k), PlaceAt(l, k)>>
  OBVIOUS
<1>4. e \in E /\ e[2] = FrameAt(l, k) /\ e[3] = PlaceAt(l, k) /\ l \in Seq(E)
  BY <1>1, <1>2, <1>3 DEF Lines
<1>5. m \in Seq(E) /\ Len(m) = Len(l) /\ \A i \in 1..Len(l) : m[i] = IF i = k THEN e ELSE l[i]
  <2>1. m = ReplaceAt(l, k, e)
    BY <1>3
  <2>2. e \in E /\ l \in Seq(E)
    BY <1>4
  <2>3. m \in Seq(E) /\ ReplacedBy(m, l, k, e)
    BY <2>1, <2>2, Replaced
  <2>4. QED
    BY <2>3 DEF ReplacedBy
<1>6. m \in Lines
  BY <1>3, <1>5 DEF Lines
<1>7. \A i \in 1..Len(m) : SameSpot(m, i, l, i)
  <2>1. SUFFICES ASSUME NEW i \in 1..Len(m) PROVE SameSpot(m, i, l, i)
    OBVIOUS
  <2>2. CASE i = k
    BY <1>4, <1>5, <2>2 DEF SameSpot, FrameAt, PlaceAt
  <2>3. CASE i # k
    BY <1>5, <2>3 DEF SameSpot, FrameAt, PlaceAt
  <2>4. QED
    BY <2>2, <2>3
<1>8. \A i \in 1..Len(m) : i # k => ByteAt(m, i) = ByteAt(l, i)
  BY <1>5 DEF ByteAt
<1>9. Changed(m, l, k)
  BY <1>5, <1>7, <1>8 DEF Changed
<1>10. LineInv(m, s, more) /\ GoneFirst(m, s, more) /\ Gone(m, s, more) \subseteq Gone(l, s, dm)
  <2>1. dm \subseteq more /\ (FrameAt(l, k) # 0 => FrameAt(l, k) \in more)
    OBVIOUS
  <2>2. QED
    BY <1>1, <1>2, <1>6, <1>9, <2>1, ChangeKeepsLine
<1>11. Following(m, d, s, more)
  <2>1. SUFFICES ASSUME Len(m) > 0, Known(m, more, 1), PlaceAt(m, 1) > 1
                 PROVE  Tracks(s[FrameAt(m, 1)], PlaceAt(m, 1) - 1, d)
    BY DEF Following
  <2>2. 1 \in 1..Len(m)
    BY <1>2, <1>5, <2>1
  <2>3. FrameAt(m, 1) = FrameAt(l, 1) /\ PlaceAt(m, 1) = PlaceAt(l, 1)
    BY <1>7, <2>2 DEF SameSpot
  <2>4. Known(l, dm, 1)
    BY <2>1, <2>3 DEF Known
  <2>5. QED
    BY <1>1, <1>5, <2>1, <2>3, <2>4 DEF Following
<1>12. QED
  BY <1>6, <1>10, <1>11, DisturbKeeps

(* MakeUpByte.                                                             *)
LEMMA MakeUpKeeps ==
  ASSUME NEW l, NEW d, NEW s, NEW r, NEW dm, NEW z, Inv(l, d, s, r, dm, z), z < MaxNoise,
         NEW k \in 1..(Len(l) + 1), NEW b \in Byte, NEW m, m = InsertAt(l, k, <<b, 0, 0>>),
         NEW more, dm \subseteq more,
         k \in 1..Len(l) /\ PlaceAt(l, k) > 1 /\ FrameAt(l, k) # 0 => FrameAt(l, k) \in more
  PROVE  Inv(m, d, s, r, more, z + 1)
<1>1. /\ l \in Lines /\ s \in Seq(Bodies) /\ LineInv(l, s, dm) /\ GoneFirst(l, s, dm)
      /\ Following(l, d, s, dm)
  BY DEF Inv, Types
<1>2. Len(s) \in Nat /\ Len(l) \in Nat
  BY <1>1, LineTypes
<1>3. PICK e : e = <<b, 0, 0>>
  OBVIOUS
<1>4. e \in Byte \X Nat \X Nat /\ e[2] = 0
  BY <1>3
<1>5. /\ m \in Lines /\ Len(m) = Len(l) + 1 /\ m[k] = e
      /\ \A i \in 1..Len(m) : i < k => SameEntry(m, i, l, i)
      /\ \A i \in 1..Len(m) : i > k => SameEntry(m, i, l, i - 1)
  BY <1>1, <1>3, <1>4, LineWith
<1>6. FrameAt(m, k) = 0
  BY <1>4, <1>5 DEF FrameAt
<1>7. LineInv(m, s, more) /\ GoneFirst(m, s, more) /\ Gone(m, s, more) \subseteq Gone(l, s, dm)
  BY <1>1, <1>2, <1>5, <1>6, MakeUpKeepsLine
<1>8. Following(m, d, s, more)
  <2>1. SUFFICES ASSUME Len(m) > 0, Known(m, more, 1), PlaceAt(m, 1) > 1
                 PROVE  Tracks(s[FrameAt(m, 1)], PlaceAt(m, 1) - 1, d)
    BY DEF Following
  <2>2. k # 1
    BY <1>6, <2>1 DEF Known
  <2>3. 1 \in 1..Len(m) /\ 1 < k /\ Len(l) > 0
    BY <1>2, <1>5, <2>1, <2>2
  <2>4. FrameAt(m, 1) = FrameAt(l, 1) /\ PlaceAt(m, 1) = PlaceAt(l, 1)
    BY <1>5, <2>3 DEF SameEntry, SameSpot
  <2>5. Known(l, dm, 1)
    BY <2>1, <2>4 DEF Known
  <2>6. QED
    BY <1>1, <2>1, <2>3, <2>4, <2>5 DEF Following
<1>9. QED
  BY <1>5, <1>7, <1>8, DisturbKeeps

(* The code of a frame, as entries of the line.                            *)
Entries(body, n) == [i \in DOMAIN encode(body) |-> <<encode(body)[i], n, i>>]

(* The entries of a frame: its code, byte by byte.                         *)
LEMMA EntriesShape ==
  ASSUME NEW body \in Bodies, NEW a \in Nat, NEW w, w = Entries(body, a)
  PROVE  /\ w \in Lines /\ Len(w) = Len(encode(body)) /\ Len(w) \in Nat
         /\ \A i \in 1..Len(w) : /\ FrameAt(w, i) = a /\ PlaceAt(w, i) = i
                                 /\ ByteAt(w, i) = encode(body)[i]
<1>1. PICK E, code : E = Byte \X Nat \X Nat /\ code = encode(body)
  OBVIOUS
<1>2. code \in Seq(Byte) /\ Len(code) \in Nat /\ DOMAIN code = 1..Len(code)
  BY <1>1, EncodeShape
<1>3. w = [i \in 1..Len(code) |-> <<code[i], a, i>>]
  BY <1>1, <1>2 DEF Entries
<1>4. \A i \in 1..Len(code) : <<code[i], a, i>> \in E
  BY <1>1, <1>2
<1>5. w \in Seq(E) /\ Len(w) = Len(code) /\ \A i \in 1..Len(code) : w[i] = <<code[i], a, i>>
  BY <1>2, <1>3, <1>4
<1>6. \A i \in 1..Len(w) : w[i][1] = code[i] /\ w[i][2] = a /\ w[i][3] = i
  BY <1>5
<1>7. QED
  BY <1>1, <1>2, <1>5, <1>6 DEF Lines, FrameAt, PlaceAt, ByteAt

(* m is x with y behind it.                                                *)
JoinOf(m, x, y) ==
  /\ Len(m) = Len(x) + Len(y)
  /\ \A i \in 1..Len(x) : m[i] = x[i]
  /\ \A i \in 1..Len(y) : m[Len(x) + i] = y[i]

(* Two sequences joined.                                                   *)
LEMMA Joined ==
  ASSUME NEW E, NEW x \in Seq(E), NEW y \in Seq(E)
  PROVE  x \o y \in Seq(E) /\ JoinOf(x \o y, x, y)
  BY DEF JoinOf

(* What trySend makes of the line and of sent.                             *)
LEMMA SendShape ==
  ASSUME NEW l \in Lines, NEW s \in Seq(Bodies), NEW body \in Bodies
  PROVE  /\ l \o Entries(body, Len(s) + 1) \in Lines
         /\ Append(s, body) \in Seq(Bodies) /\ OneMore(Append(s, body), s)
         /\ Extended(l \o Entries(body, Len(s) + 1), l, Append(s, body), Len(s) + 1)
<1>1. PICK a, t : a = Len(s) + 1 /\ t = Append(s, body)
  OBVIOUS
<1>2. Len(s) \in Nat /\ a \in Nat
  BY <1>1
<1>3. t \in Seq(Bodies) /\ OneMore(t, s) /\ t[a] = body
  BY <1>1, AppendProperties DEF OneMore
<1>4. PICK w : w = Entries(body, a)
  OBVIOUS
<1>5. /\ w \in Lines /\ Len(w) = Size(t, a)
      /\ \A i \in 1..Len(w) : /\ FrameAt(w, i) = a /\ PlaceAt(w, i) = i
                              /\ ByteAt(w, i) = CodeAt(t, a, i)
  BY <1>2, <1>3, <1>4, EntriesShape DEF Size, CodeAt
<1>6. PICK m : m = l \o w
  OBVIOUS
<1>7. m \in Lines /\ JoinOf(m, l, w)
  BY <1>5, <1>6, Joined DEF Lines
<1>8. \A i \in 1..Len(l) : SameEntry(m, i, l, i)
  BY <1>7, EqualEntries DEF JoinOf
<1>9. \A i \in 1..Len(w) : SameEntry(m, Len(l) + i, w, i)
  BY <1>7, EqualEntries DEF JoinOf
<1>10. Extended(m, l, t, a)
  BY <1>5, <1>7, <1>8, <1>9 DEF Extended, JoinOf, SameEntry, SameSpot
<1>11. QED
  BY <1>1, <1>3, <1>4, <1>6, <1>7, <1>10

(* trySend.                                                                *)
LEMMA SendKeeps ==
  ASSUME NEW l, NEW d, NEW s, NEW r, NEW dm, NEW z, Inv(l, d, s, r, dm, z), Len(s) < MaxFrames,
         NEW t \in Seq(Bodies), NEW m \in Lines, OneMore(t, s), Extended(m, l, t, Len(s) + 1)
  PROVE  Inv(m, d, t, r, dm, z)
<1>1. /\ l \in Lines /\ s \in Seq(Bodies) /\ LineInv(l, s, dm) /\ GoneFirst(l, s, dm)
      /\ Following(l, d, s, dm) /\ PassedOn(l, s, r, dm, z) /\ Quiet(l, d, dm, z)
  BY DEF Inv, Types
<1>2. PICK a : a = Len(s) + 1
  OBVIOUS
<1>3. Len(s) \in Nat /\ Len(l) \in Nat /\ a \in Nat /\ a # 0
  BY <1>1, <1>2, LineTypes
<1>4. Len(t) = Len(s) + 1 /\ a \in 1..Len(t) /\ \A n \in 1..Len(s) : t[n] = s[n]
  BY <1>2, <1>3 DEF OneMore
<1>5. Size(t, a) \in Nat /\ Size(t, a) >= 2
  BY <1>4, SizeNat
<1>6. Len(m) = Len(l) + Size(t, a)
  BY <1>2 DEF Extended
<1>7. \A i \in 1..Len(l) : SameEntry(m, i, l, i)
  BY <1>2 DEF Extended
<1>8. \A p \in 1..Size(t, a) : FrameAt(m, Len(l) + p) = a /\ PlaceAt(m, Len(l) + p) = p
  BY <1>2 DEF Extended
<1>9. LineInv(m, t, dm) /\ GoneFirst(m, t, dm) /\ Gone(m, t, dm) = Gone(l, s, dm)
  BY <1>1, <1>2, SendKeepsLine
<1>10. Types(m, d, t, r, z)
  <2>1. MaxFrames \in Nat
    BY UartAssumption
  <2>2. Len(t) <= MaxFrames
    BY <1>3, <1>4, <2>1
  <2>3. QED
    BY <2>2 DEF Inv, Types
<1>11. ASSUME Len(l) # 0
       PROVE  Following(m, d, t, dm)
  <2>1. SUFFICES ASSUME Known(m, dm, 1), PlaceAt(m, 1) > 1
                 PROVE  Tracks(t[FrameAt(m, 1)], PlaceAt(m, 1) - 1, d)
    BY DEF Following
  <2>2. 1 \in 1..Len(l) /\ Len(l) > 0
    BY <1>3, <1>11
  <2>3. FrameAt(m, 1) = FrameAt(l, 1) /\ PlaceAt(m, 1) = PlaceAt(l, 1) /\ FrameAt(l, 1) \in Nat
    BY <1>1, <1>7, <2>2, LineTypes DEF SameEntry, SameSpot
  <2>4. Known(l, dm, 1) /\ FrameAt(l, 1) # 0
    BY <2>1, <2>3 DEF Known
  <2>5. FrameAt(l, 1) \in 1..Len(s)
    BY <1>1, <1>3, <2>2, <2>3, <2>4 DEF LineInv
  <2>6. QED
    BY <1>1, <1>4, <2>1, <2>2, <2>3, <2>4, <2>5 DEF Following
<1>12. Following(m, d, t, dm)
  <2>1. CASE Len(l) = 0
    <3>1. 1 \in 1..Size(t, a) /\ Len(l) + 1 = 1
      BY <1>5, <2>1
    <3>2. PlaceAt(m, 1) = 1
      BY <1>8, <3>1
    <3>3. QED
      BY <3>2 DEF Following
  <2>2. QED
    BY <1>11, <2>1
<1>13. Quiet(m, d, dm, z)
  <2>1. SUFFICES ASSUME z = 0
                 PROVE  /\ dm = {} /\ \A i \in 1..Len(m) : FrameAt(m, i) # 0
                        /\ Len(m) = 0 \/ PlaceAt(m, 1) = 1 => d.frame = <<>>
    BY DEF Quiet
  <2>2. /\ dm = {} /\ \A i \in 1..Len(l) : FrameAt(l, i) # 0
        /\ Len(l) = 0 \/ PlaceAt(l, 1) = 1 => d.frame = <<>>
    BY <1>1, <2>1 DEF Quiet
  <2>3. ASSUME NEW i \in 1..Len(m) PROVE FrameAt(m, i) # 0
    <3>1. CASE i <= Len(l)
      <4>1. i \in 1..Len(l)
        BY <1>3, <3>1
      <4>2. QED
        BY <1>7, <2>2, <4>1 DEF SameEntry, SameSpot
    <3>2. CASE ~(i <= Len(l))
      <4>1. PICK p : p = i - Len(l)
        OBVIOUS
      <4>2. p \in 1..Size(t, a) /\ i = Len(l) + p
        BY <1>3, <1>5, <1>6, <3>2, <4>1
      <4>3. QED
        BY <1>3, <1>8, <4>2
    <3>3. QED
      BY <3>1, <3>2
  <2>4. ASSUME Len(m) = 0 \/ PlaceAt(m, 1) = 1 PROVE d.frame = <<>>
    <3>1. CASE Len(l) = 0
      BY <2>2, <3>1
    <3>2. CASE Len(l) # 0
      <4>1. 1 \in 1..Len(l) /\ Len(m) # 0
        BY <1>3, <1>5, <1>6, <3>2
      <4>2. PlaceAt(m, 1) = PlaceAt(l, 1)
        BY <1>7, <4>1 DEF SameEntry, SameSpot
      <4>3. QED
        BY <2>2, <2>4, <4>1, <4>2
    <3>3. QED
      BY <3>1, <3>2
  <2>5. QED
    BY <2>2, <2>3, <2>4
<1>14. PassedOn(m, t, r, dm, z)
  <2>1. PICK place, g : /\ g = Gone(l, s, dm) /\ Placed(place, g, s, r)
                        /\ z = 0 => Covers(place, g, r)
    BY <1>1 DEF PassedOn
  <2>2. g \subseteq 1..Len(s)
    BY <2>1 DEF Gone
  <2>3. \A n \in g : t[n] = s[n]
    BY <1>4, <2>2
  <2>4. Placed(place, g, t, r)
    BY <2>1, <2>3 DEF Placed
  <2>5. QED
    BY <1>9, <2>1, <2>4 DEF PassedOn
<1>15. QED
  BY <1>9, <1>10, <1>12, <1>13, <1>14 DEF Inv

(* The line after its first entry is read.                                 *)
LEMMA LineBehind ==
  ASSUME NEW l \in Lines, l # <<>>
  PROVE  /\ Tail(l) \in Lines /\ Behind(Tail(l), l) /\ Len(l) > 0
         /\ Head(l)[1] = ByteAt(l, 1)
<1>1. PICK E, m : E = Byte \X Nat \X Nat /\ m = Tail(l)
  OBVIOUS
<1>2. l \in Seq(E)
  BY <1>1 DEF Lines
<1>3. /\ m \in Seq(E) /\ Len(m) = Len(l) - 1 /\ Len(l) > 0 /\ Head(l) = l[1]
      /\ \A i \in 1..Len(m) : m[i] = l[i + 1]
  BY <1>1, <1>2
<1>4. \A i \in 1..Len(m) : SameEntry(m, i, l, i + 1)
  BY <1>3, EqualEntries
<1>5. QED
  BY <1>1, <1>3, <1>4 DEF Lines, Behind, ByteAt

(* The next byte of a frame, if it is inside it, comes behind the one that *)
(* was read.                                                               *)
LEMMA NextEntry ==
  ASSUME NEW l \in Lines, NEW m, Behind(m, l), Len(m) > 0, NEW dm, GoesBack(l, dm),
         Known(m, dm, 1), PlaceAt(m, 1) > 1
  PROVE  Known(l, dm, 1) /\ FrameAt(l, 1) = FrameAt(m, 1) /\ PlaceAt(l, 1) = PlaceAt(m, 1) - 1
<1>1. Len(l) \in Nat
  BY LineTypes
<1>2. 1 \in 1..Len(m) /\ 2 \in 2..Len(l)
  BY <1>1 DEF Behind
<1>3. FrameAt(m, 1) = FrameAt(l, 2) /\ PlaceAt(m, 1) = PlaceAt(l, 2)
  BY <1>2 DEF Behind, SameEntry, SameSpot
<1>4. Known(l, dm, 2)
  BY <1>3 DEF Known
<1>5. FrameAt(l, 2 - 1) = FrameAt(l, 2) /\ PlaceAt(l, 2 - 1) = PlaceAt(l, 2) - 1
  BY <1>2, <1>3, <1>4 DEF GoesBack
<1>6. FrameAt(l, 1) = FrameAt(l, 2) /\ PlaceAt(l, 1) = PlaceAt(l, 2) - 1
  BY <1>5
<1>7. QED
  BY <1>3, <1>4, <1>6 DEF Known

(* What process() passes on.                                               *)
Passes(r, c) ==
  IF c.ready /\ Len(c.frame) \in HeaderSize..FrameCapacity THEN Append(r, c.frame) ELSE r

(* process() passes on nothing, or one body that fits.                     *)
LEMMA PassesShape ==
  ASSUME NEW r \in Seq(Seq(Byte)), NEW c, c.ready => Completed(c)
  PROVE  /\ Passes(r, c) \in Seq(Seq(Byte))
         /\ \/ Passes(r, c) = r
            \/ /\ OneMore(Passes(r, c), r) /\ c.ready /\ Fits(c.frame)
               /\ Passes(r, c)[Len(r) + 1] = c.frame
<1>1. CASE ~(c.ready /\ Len(c.frame) \in HeaderSize..FrameCapacity)
  BY <1>1 DEF Passes
<1>2. CASE c.ready /\ Len(c.frame) \in HeaderSize..FrameCapacity
  <2>1. PICK g : g = c.frame
    OBVIOUS
  <2>2. g \in Seq(Byte)
    BY <1>2, <2>1 DEF Completed, Decoder
  <2>3. Passes(r, c) = Append(r, g)
    BY <1>2, <2>1 DEF Passes
  <2>4. /\ Append(r, g) \in Seq(Seq(Byte)) /\ OneMore(Append(r, g), r)
        /\ Append(r, g)[Len(r) + 1] = g
    BY <2>2, AppendProperties DEF OneMore
  <2>5. QED
    BY <1>2, <2>1, <2>3, <2>4 DEF Fits
<1>3. QED
  BY <1>1, <1>2

(* Everything passed on fits.                                              *)
LEMMA PassesFits ==
  ASSUME NEW r \in Seq(Seq(Byte)), \A i \in 1..Len(r) : Fits(r[i]),
         NEW c, c.ready => Completed(c)
  PROVE  \A i \in 1..Len(Passes(r, c)) : Fits(Passes(r, c)[i])
<1>1. PICK q, n : q = Passes(r, c) /\ n = Len(r)
  OBVIOUS
<1>2. n \in Nat
  BY <1>1
<1>3. q = r \/ (OneMore(q, r) /\ Fits(c.frame) /\ q[n + 1] = c.frame)
  BY <1>1, PassesShape
<1>4. ASSUME OneMore(q, r), Fits(c.frame), q[n + 1] = c.frame, NEW i \in 1..Len(q)
      PROVE  Fits(q[i])
  <2>1. Len(q) = n + 1 /\ \A j \in 1..n : q[j] = r[j]
    BY <1>1, <1>4 DEF OneMore
  <2>2. i = n + 1 \/ i \in 1..n
    BY <1>2, <1>4, <2>1
  <2>3. QED
    BY <1>1, <1>4, <2>1, <2>2
<1>5. QED
  BY <1>1, <1>3, <1>4

(* A step that makes no frame gone keeps what has been passed on, if it    *)
(* passes nothing on or there has been noise.                              *)
LEMMA NothingGone ==
  ASSUME NEW l, NEW m, NEW s, NEW dm, NEW z, NEW r \in Seq(Seq(Byte)), PassedOn(l, s, r, dm, z),
         Gone(m, s, dm) = Gone(l, s, dm), NEW q, q = r \/ (OneMore(q, r) /\ z # 0)
  PROVE  PassedOn(m, s, q, dm, z)
<1>1. PICK g, place : /\ g = Gone(l, s, dm) /\ Placed(place, g, s, r)
                      /\ z = 0 => Covers(place, g, r)
  BY DEF PassedOn
<1>2. CASE q = r
  BY <1>1, <1>2 DEF PassedOn
<1>3. CASE OneMore(q, r) /\ z # 0
  <2>1. Len(r) \in Nat /\ Len(q) = Len(r) + 1 /\ \A i \in 1..Len(r) : q[i] = r[i]
    BY <1>3 DEF OneMore
  <2>2. Placed(place, g, s, q)
    BY <1>1, <2>1, PlacedStays
  <2>3. QED
    BY <1>1, <1>3, <2>2 DEF PassedOn
<1>4. QED
  BY <1>2, <1>3

(* processByte.                                                            *)
LEMMA ReadKeeps ==
  ASSUME NEW l, NEW d, NEW s, NEW r, NEW dm, NEW z, Inv(l, d, s, r, dm, z),
         NEW m \in Lines, Behind(m, l), Len(l) > 0, NEW c, c = push(d, ByteAt(l, 1)),
         NEW e, e = Taken(c), NEW q, q = Passes(r, c)
  PROVE  Inv(m, e, s, q, dm, z)
<1>1. /\ l \in Lines /\ DecoderOK(d) /\ s \in Seq(Bodies) /\ r \in Seq(Seq(Byte))
      /\ LineInv(l, s, dm) /\ GoneFirst(l, s, dm) /\ Following(l, d, s, dm)
      /\ PassedOn(l, s, r, dm, z) /\ Quiet(l, d, dm, z)
      /\ AsSent(l, s, dm) /\ GoesOn(l, s, dm) /\ GoesBack(l, dm)
  BY DEF Inv, Types, LineInv
<1>2. PICK b, n, p : b = ByteAt(l, 1) /\ n = FrameAt(l, 1) /\ p = PlaceAt(l, 1)
  OBVIOUS
<1>3. Len(s) \in Nat /\ Len(l) \in Nat /\ 1 \in 1..Len(l) /\ b \in Byte /\ n \in Nat /\ p \in Nat
  BY <1>1, <1>2, LineTypes
<1>4. Len(m) = Len(l) - 1 /\ Len(m) \in Nat
  BY <1>3 DEF Behind
<1>5. LineInv(m, s, dm) /\ GoneFirst(m, s, dm) /\ GoneBy(m, l, s, dm, n)
  BY <1>1, <1>2, ReadKeepsLine
<1>6. /\ DecoderOK(e) /\ (b = kFlag => e = Fresh) /\ (c.ready => Completed(c))
  BY <1>1, <1>2, <1>3, ReadingLeaves
<1>7. q \in Seq(Seq(Byte)) /\ (q = r \/ OneMore(q, r))
  BY <1>1, <1>6, PassesShape
<1>8. Types(m, e, s, q, z)
  <2>1. \A i \in 1..Len(r) : Fits(r[i])
    BY DEF Inv, Types
  <2>2. \A i \in 1..Len(q) : Fits(q[i])
    BY <1>1, <1>6, <2>1, PassesFits
  <2>3. QED
    BY <1>6, <1>7, <2>2 DEF Inv, Types
<1>9. ASSUME z = 0 PROVE Known(l, dm, 1) /\ \A i \in 1..Len(m) : FrameAt(m, i) # 0
  <2>1. dm = {} /\ \A i \in 1..Len(l) : FrameAt(l, i) # 0
    BY <1>1, <1>9 DEF Quiet
  <2>2. \A i \in 1..Len(m) : i + 1 \in 1..Len(l) /\ FrameAt(m, i) = FrameAt(l, i + 1)
    BY <1>3, <1>4 DEF Behind, SameEntry, SameSpot
  <2>3. QED
    BY <1>3, <2>1, <2>2 DEF Known
<1>10. SUFFICES Following(m, e, s, dm) /\ PassedOn(m, s, q, dm, z) /\ Quiet(m, e, dm, z)
  BY <1>5, <1>8 DEF Inv
<1>11. CASE ~Known(l, dm, 1)
  <2>1. z # 0
    BY <1>9, <1>11
  <2>2. Gone(m, s, dm) = Gone(l, s, dm)
    BY <1>5, <1>11 DEF GoneBy
  <2>3. PassedOn(m, s, q, dm, z)
    BY <1>1, <1>7, <2>1, <2>2, NothingGone
  <2>4. Following(m, e, s, dm)
    BY <1>1, <1>11, NextEntry DEF Following
  <2>5. QED
    BY <2>1, <2>3, <2>4 DEF Quiet
<1>12. ASSUME Known(l, dm, 1)
       PROVE  /\ n \in 1..Len(s) /\ s[n] \in Bodies /\ Size(s, n) \in Nat /\ Size(s, n) >= 2
              /\ p \in 1..Size(s, n) /\ b = CodeAt(s, n, p)
              /\ CodeAt(s, n, 1) = kFlag /\ CodeAt(s, n, Size(s, n)) = kFlag
  <2>1. n # 0 /\ n <= Len(s)
    BY <1>1, <1>2, <1>3, <1>12 DEF LineInv, Known
  <2>2. n \in 1..Len(s)
    BY <1>3, <2>1
  <2>3. p \in 1..Size(s, n) /\ b = CodeAt(s, n, p)
    BY <1>1, <1>2, <1>3, <1>12 DEF AsSent
  <2>4. QED
    BY <1>1, <2>2, <2>3, SizeNat
<1>13. ASSUME Known(l, dm, 1), p < Size(s, n)
       PROVE  /\ Len(m) > 0 /\ FrameAt(m, 1) = n /\ PlaceAt(m, 1) = p + 1
              /\ Gone(m, s, dm) = Gone(l, s, dm)
  <2>1. 1 < Len(l) /\ FrameAt(l, 2) = n /\ PlaceAt(l, 2) = p + 1
    BY <1>1, <1>2, <1>3, <1>13 DEF GoesOn
  <2>2. 1 \in 1..Len(m) /\ Len(m) > 0
    BY <1>3, <1>4, <2>1
  <2>3. FrameAt(m, 1) = FrameAt(l, 2) /\ PlaceAt(m, 1) = PlaceAt(l, 2)
    BY <2>2 DEF Behind, SameEntry, SameSpot
  <2>4. p # Size(s, n)
    BY <1>12, <1>13
  <2>5. QED
    BY <1>2, <1>5, <2>1, <2>2, <2>3, <2>4 DEF GoneBy
<1>14. CASE Known(l, dm, 1) /\ p = 1
  <2>1. b = kFlag /\ e = Fresh /\ p < Size(s, n)
    BY <1>6, <1>12, <1>14
  <2>2. Tracks(s[n], 1, e)
    BY <1>12, <1>14, <2>1, TrackStart
  <2>3. Len(m) > 0 /\ FrameAt(m, 1) = n /\ PlaceAt(m, 1) = 2 /\ Gone(m, s, dm) = Gone(l, s, dm)
    BY <1>13, <1>14, <2>1
  <2>4. Following(m, e, s, dm)
    BY <2>2, <2>3 DEF Following
  <2>5. Quiet(m, e, dm, z)
    BY <1>1, <1>9, <2>3 DEF Quiet
  <2>6. ASSUME z = 0 PROVE q = r
    <3>1. d.frame = <<>>
      BY <1>1, <1>2, <1>14, <2>6 DEF Quiet
    <3>2. PICK f \in Seq(Byte), i \in BOOLEAN, x \in BOOLEAN : d = Decoder(f, i, x, FALSE)
      BY <1>1 DEF DecoderOK
    <3>3. f = <<>>
      BY <3>1, <3>2 DEF Decoder
    <3>4. ~hasValidCrc(f)
      BY <3>3 DEF hasValidCrc, kCrcSize
    <3>5. c = Fresh
      BY <1>2, <2>1, <3>2, <3>4, FlagRestarts
    <3>6. ~c.ready
      BY <3>5 DEF Fresh, Decoder
    <3>7. QED
      BY <3>6 DEF Passes
  <2>7. PassedOn(m, s, q, dm, z)
    BY <1>1, <1>7, <2>3, <2>6, NothingGone
  <2>8. QED
    BY <2>4, <2>5, <2>7
<1>15. ASSUME Known(l, dm, 1), p # 1 PROVE p > 1 /\ p - 1 \in Nat /\ Tracks(s[n], p - 1, d)
  <2>1. p > 1 /\ p - 1 \in Nat
    BY <1>12, <1>15
  <2>2. QED
    BY <1>1, <1>2, <1>15, <2>1 DEF Following
<1>16. CASE Known(l, dm, 1) /\ p # 1 /\ p < Size(s, n)
  <2>1. PICK body, k : body = s[n] /\ k = p - 1
    OBVIOUS
  <2>2. body \in Bodies /\ Tracks(body, k, d) /\ k \in Nat
    BY <1>12, <1>15, <1>16, <2>1
  <2>3. k \in 1..(Len(encode(body)) - 2) /\ k + 1 = p
    BY <1>12, <1>15, <1>16, <2>1 DEF Size
  <2>4. Tracks(body, p, c)
    BY <1>2, <1>12, <1>16, <2>1, <2>2, <2>3, TrackStep DEF CodeAt
  <2>5. c.ready = FALSE
    BY <2>4, TrackingIsBusy
  <2>6. e = c /\ q = r
    BY <2>5 DEF Taken, Passes
  <2>7. Len(m) > 0 /\ FrameAt(m, 1) = n /\ PlaceAt(m, 1) = p + 1 /\ Gone(m, s, dm) = Gone(l, s, dm)
    BY <1>13, <1>16
  <2>8. PlaceAt(m, 1) - 1 = p /\ PlaceAt(m, 1) # 1
    BY <1>3, <1>15, <1>16, <2>7
  <2>9. Following(m, e, s, dm)
    BY <2>1, <2>4, <2>6, <2>7, <2>8 DEF Following
  <2>10. Quiet(m, e, dm, z)
    BY <1>1, <1>9, <2>7, <2>8 DEF Quiet
  <2>11. PassedOn(m, s, q, dm, z)
    BY <1>1, <2>6, <2>7, NothingGone
  <2>12. QED
    BY <2>9, <2>10, <2>11
<1>17. CASE Known(l, dm, 1) /\ p # 1 /\ p = Size(s, n)
  <2>1. PICK body : body = s[n]
    OBVIOUS
  <2>2. body \in Bodies /\ b = kFlag /\ e = Fresh
    BY <1>6, <1>12, <1>17, <2>1
  <2>3. Tracks(body, Len(encode(body)) - 1, d)
    BY <1>15, <1>17, <2>1 DEF Size
  <2>4. /\ Len(body) <= FrameCapacity => c = Decoder(body, TRUE, FALSE, TRUE)
        /\ ~(Len(body) <= FrameCapacity) => c = Fresh
    BY <1>2, <2>2, <2>3, TrackEnd
  <2>5. Following(m, e, s, dm)
    <3>1. SUFFICES ASSUME Len(m) > 0, Known(m, dm, 1), PlaceAt(m, 1) > 1 PROVE FALSE
      BY DEF Following
    <3>2. FrameAt(m, 1) = n /\ p = PlaceAt(m, 1) - 1
      BY <1>1, <1>2, <3>1, NextEntry
    <3>3. 1 \in 1..Len(m)
      BY <1>4, <3>1
    <3>4. PlaceAt(m, 1) \in 1..Size(s, n)
      BY <1>5, <3>1, <3>2, <3>3 DEF LineInv, AsSent
    <3>5. QED
      BY <1>12, <1>17, <3>2, <3>4
  <2>6. Quiet(m, e, dm, z)
    <3>1. e.frame = <<>>
      BY <2>2 DEF Fresh, Decoder
    <3>2. QED
      BY <1>1, <1>9, <3>1 DEF Quiet
  <2>7. CASE Fits(body)
    <3>1. HeaderSize \in Nat /\ FrameCapacity \in Nat /\ Len(body) \in Nat
      BY <2>2, UartAssumption, DataShape
    <3>2. Len(body) <= FrameCapacity
      BY <2>7, <3>1 DEF Fits
    <3>3. c.ready = TRUE /\ c.frame = body
      BY <2>4, <3>2 DEF Decoder
    <3>4. q = Append(r, body)
      BY <2>7, <3>3 DEF Passes, Fits
    <3>5. body \in Seq(Byte)
      BY <2>2, DataShape
    <3>6. Len(r) \in Nat /\ Len(q) = Len(r) + 1 /\ q[Len(q)] = body /\ \A i \in 1..Len(r) : q[i] = r[i]
      <4>1. PICK S : S = Seq(Byte)
        OBVIOUS
      <4>2. r \in Seq(S) /\ body \in S
        BY <1>1, <3>5, <4>1
      <4>3. /\ Len(q) = Len(r) + 1 /\ q[Len(r) + 1] = body /\ \A i \in 1..Len(r) : q[i] = r[i]
        BY <3>4, <4>2, AppendProperties
      <4>4. QED
        BY <4>2, <4>3
    <3>7. PICK g, place : /\ g = Gone(l, s, dm) /\ Placed(place, g, s, r)
                          /\ z = 0 => Covers(place, g, r)
      BY <1>1 DEF PassedOn
    <3>8. Gone(m, s, dm) = g \union {n}
      BY <1>2, <1>5, <1>17, <2>1, <2>7, <3>7 DEF GoneBy
    <3>9. g \subseteq Nat /\ \A k \in g : k < n
      <4>1. n # 0
        BY <1>12, <1>17
      <4>2. QED
        BY <1>3, <1>5, <3>7, <4>1 DEF GoneBy, Gone
    <3>10. PICK quiet : quiet = (z = 0)
      OBVIOUS
    <3>11. \E w : Placed(w, g \union {n}, s, q) /\ (quiet => Covers(w, g \union {n}, q))
      BY <1>3, <2>1, <3>6, <3>7, <3>9, <3>10, PlacedNext
    <3>12. PassedOn(m, s, q, dm, z)
      BY <3>8, <3>10, <3>11 DEF PassedOn
    <3>13. QED
      BY <2>5, <2>6, <3>12
  <2>8. CASE ~Fits(body)
    <3>1. Gone(m, s, dm) = Gone(l, s, dm)
      BY <1>5, <2>1, <2>8 DEF GoneBy
    <3>2. ~(c.ready /\ Len(c.frame) \in HeaderSize..FrameCapacity)
      <4>1. CASE Len(body) <= FrameCapacity
        <5>1. c.frame = body
          BY <2>4, <4>1 DEF Decoder
        <5>2. QED
          BY <2>8, <5>1 DEF Fits
      <4>2. CASE ~(Len(body) <= FrameCapacity)
        BY <2>4, <4>2 DEF Fresh, Decoder
      <4>3. QED
        BY <4>1, <4>2
    <3>3. q = r
      BY <3>2 DEF Passes
    <3>4. PassedOn(m, s, q, dm, z)
      BY <1>1, <3>1, <3>3, NothingGone
    <3>5. QED
      BY <2>5, <2>6, <3>4
  <2>9. QED
    BY <2>7, <2>8
<1>18. p < Size(s, n) \/ p = Size(s, n) \/ ~Known(l, dm, 1)
  BY <1>12
<1>19. QED
  BY <1>11, <1>14, <1>16, <1>17, <1>18

-----------------------------------------------------------------------------
(* The theorems.                                                           *)

(* Initially the line is empty and the decoder outside a frame.            *)
LEMMA UartStarts == Init => UartInv
<1>1. SUFFICES ASSUME Init PROVE UartInv
  OBVIOUS
<1>2. PICK l, d, none : l = <<>> /\ d = InitialDecoder /\ none = {}
  OBVIOUS
<1>3. /\ line = l /\ decoder = d /\ sent = l /\ received = l /\ damaged = none /\ noise = 0
  BY <1>1, <1>2 DEF Init
<1>4. Len(l) = 0 /\ l \in Lines /\ l \in Seq(Bodies) /\ l \in Seq(Seq(Byte)) /\ 1..Len(l) = {}
  BY <1>2 DEF Lines
<1>5. MaxFrames \in Nat /\ MaxNoise \in Nat
  BY UartAssumption
<1>6. Types(l, d, l, l, 0)
  <2>1. DecoderOK(d)
    BY <1>2, InitialOK
  <2>2. QED
    BY <1>4, <1>5, <2>1 DEF Types
<1>7. LineInv(l, l, none)
  <2>1. GoesBack(l, none)
    BY <1>4 DEF GoesBack
  <2>2. QED
    BY <1>4, <2>1 DEF LineInv, InOrder, AsSent, GoesOn
<1>8. Gone(l, l, none) = {}
  BY <1>4 DEF Gone
<1>9. GoneFirst(l, l, none)
  BY <1>8 DEF GoneFirst
<1>10. Following(l, d, l, none)
  BY <1>4 DEF Following
<1>11. PassedOn(l, l, l, none, 0)
  <2>0. PICK place : place = [n \in {} |-> 0]
    OBVIOUS
  <2>1. place \in [{} -> 1..Len(l)]
    BY <2>0
  <2>2. Placed(place, {}, l, l) /\ Covers(place, {}, l)
    BY <1>4, <2>1 DEF Placed, Covers
  <2>3. QED
    BY <1>8, <2>2 DEF PassedOn
<1>12. Quiet(l, d, none, 0)
  BY <1>2, <1>4 DEF Quiet, InitialDecoder
<1>13. Inv(l, d, l, l, none, 0)
  BY <1>6, <1>7, <1>9, <1>10, <1>11, <1>12 DEF Inv
<1>14. QED
  BY <1>3, <1>13 DEF UartInv

(* Every step keeps the invariant.                                         *)
LEMMA UartStep == UartInv /\ [Next]_vars => UartInv'
<1>1. SUFFICES ASSUME UartInv, [Next]_vars PROVE UartInv'
  OBVIOUS
<1>2. PICK l, d, s, r, dm, z : /\ l = line /\ d = decoder /\ s = sent
                               /\ r = received /\ dm = damaged /\ z = noise
  OBVIOUS
<1>3. PICK m, e, t, q, more, y : /\ m = line' /\ e = decoder' /\ t = sent'
                                 /\ q = received' /\ more = damaged' /\ y = noise'
  OBVIOUS
<1>4. Inv(l, d, s, r, dm, z)
  BY <1>1, <1>2 DEF UartInv
<1>5. SUFFICES Inv(m, e, t, q, more, y)
  BY <1>3 DEF UartInv
<1>6. l \in Lines /\ s \in Seq(Bodies) /\ Len(l) \in Nat /\ DOMAIN l = 1..Len(l)
  <2>1. l \in Lines /\ s \in Seq(Bodies)
    BY <1>4 DEF Inv, Types
  <2>2. QED
    BY <2>1, LineTypes DEF Lines
<1>7. NoiseBytes \subseteq Byte
  BY UartAssumption DEF Byte
<1>8. CASE trySend
  <2>1. PICK body \in Bodies : t = Append(s, body) /\ m = l \o Entries(body, Len(s) + 1)
    BY <1>2, <1>3, <1>8 DEF trySend, Entries
  <2>2. e = d /\ q = r /\ more = dm /\ y = z /\ Len(s) < MaxFrames
    BY <1>2, <1>3, <1>8 DEF trySend
  <2>3. t \in Seq(Bodies) /\ m \in Lines /\ OneMore(t, s) /\ Extended(m, l, t, Len(s) + 1)
    BY <1>6, <2>1, SendShape
  <2>4. Inv(m, d, t, r, dm, z)
    BY <1>4, <2>2, <2>3, SendKeeps
  <2>5. QED
    BY <2>2, <2>4
<1>9. CASE processByte
  <2>1. PICK c : c = push(d, Head(l)[1])
    OBVIOUS
  <2>2. l # <<>> /\ m = Tail(l) /\ t = s /\ more = dm /\ y = z
    BY <1>2, <1>3, <1>9 DEF processByte
  <2>3. e = Taken(c) /\ q = Passes(r, c)
    BY <1>2, <1>3, <1>9, <2>1 DEF processByte, Taken, Passes
  <2>4. m \in Lines /\ Behind(m, l) /\ Len(l) > 0 /\ c = push(d, ByteAt(l, 1))
    BY <1>6, <2>1, <2>2, LineBehind
  <2>5. Inv(m, e, s, q, dm, z)
    BY <1>4, <2>3, <2>4, ReadKeeps
  <2>6. QED
    BY <2>2, <2>5
<1>10. CASE LoseByte
  <2>1. PICK k \in 1..Len(l) : Disturb(RemoveAt(line, k), {line[k][2]})
    BY <1>2, <1>6, <1>10 DEF LoseByte
  <2>2. /\ z < MaxNoise /\ y = z + 1 /\ m = RemoveAt(l, k) /\ e = d /\ t = s /\ q = r
        /\ more = dm \union ({FrameAt(l, k)} \ {0})
    BY <1>2, <1>3, <2>1 DEF Disturb, FrameAt
  <2>3. Inv(m, d, s, r, more, z + 1)
    BY <1>4, <2>2, LoseKeeps
  <2>4. QED
    BY <2>2, <2>3
<1>11. CASE ChangeByte
  <2>1. PICK k \in 1..Len(l), b \in NoiseBytes :
          Disturb(ReplaceAt(line, k, <<b, line[k][2], line[k][3]>>), {line[k][2]})
    BY <1>2, <1>6, <1>11 DEF ChangeByte
  <2>2. /\ z < MaxNoise /\ y = z + 1 /\ e = d /\ t = s /\ q = r
        /\ m = ReplaceAt(l, k, <<b, FrameAt(l, k), PlaceAt(l, k)>>)
        /\ more = dm \union ({FrameAt(l, k)} \ {0})
    BY <1>2, <1>3, <2>1 DEF Disturb, FrameAt, PlaceAt
  <2>3. b \in Byte
    BY <1>7, <2>1
  <2>4. Inv(m, d, s, r, more, z + 1)
    BY <1>4, <2>2, <2>3, ChangeKeeps
  <2>5. QED
    BY <2>2, <2>4
<1>12. CASE MakeUpByte
  <2>1. PICK k \in 1..(Len(l) + 1), b \in NoiseBytes :
          Disturb(InsertAt(line, k, <<b, 0, 0>>), Within(k))
    BY <1>2, <1>12 DEF MakeUpByte
  <2>2. /\ z < MaxNoise /\ y = z + 1 /\ e = d /\ t = s /\ q = r
        /\ m = InsertAt(l, k, <<b, 0, 0>>) /\ more = dm \union (Within(k) \ {0})
    BY <1>2, <1>3, <2>1 DEF Disturb
  <2>3. b \in Byte /\ dm \subseteq more
    BY <1>7, <2>1, <2>2
  <2>4. k \in 1..Len(l) /\ PlaceAt(l, k) > 1 /\ FrameAt(l, k) # 0 => FrameAt(l, k) \in more
    BY <1>2, <1>6, <2>2 DEF Within, PlaceAt, FrameAt
  <2>5. Inv(m, d, s, r, more, z + 1)
    BY <1>4, <2>2, <2>3, <2>4, MakeUpKeeps
  <2>6. QED
    BY <2>2, <2>5
<1>13. CASE UNCHANGED vars
  <2>1. m = l /\ e = d /\ t = s /\ q = r /\ more = dm /\ y = z
    BY <1>2, <1>3, <1>13 DEF vars
  <2>2. QED
    BY <1>4, <2>1
<1>14. QED
  BY <1>1, <1>8, <1>9, <1>10, <1>11, <1>12, <1>13 DEF Next

(* The invariant of the Link, in every state: the line keeps the bytes of  *)
(* every frame that noise has not touched together and in order, and the   *)
(* decoder has read of the frame under way exactly what came before them.  *)
THEOREM UartInvAlways == Spec => []UartInv
<1>1. Init => UartInv
  BY UartStarts
<1>2. UartInv /\ [Next]_vars => UartInv'
  BY UartStep
<1>3. QED
  BY <1>1, <1>2, PTL DEF Spec

(* HdlcDecoder::push keeps its storage to a body and a trailer, whatever   *)
(* arrives, and process() passes on only what can be a packet.             *)
THEOREM UartTypeOKAlways == Spec => []UartTypeOK
<1>1. ASSUME UartInv PROVE UartTypeOK
  <2>1. Types(line, decoder, sent, received, noise)
    BY <1>1 DEF UartInv, Inv
  <2>2. PICK f \in Seq(Byte), i \in BOOLEAN, x \in BOOLEAN :
          decoder = Decoder(f, i, x, FALSE) /\ Len(f) <= Capacity /\ (x = TRUE => i = TRUE)
    BY <2>1 DEF Types, DecoderOK
  <2>3. decoder.frame = f /\ decoder.in_frame = i /\ decoder.escaped = x /\ decoder.ready = FALSE
    BY <2>2 DEF Decoder
  <2>4. Len(decoder.frame) <= FrameCapacity + kCrcSize
    BY <2>2, <2>3 DEF Capacity
  <2>5. \A n \in DOMAIN decoder.frame : decoder.frame[n] \in 0..255
    <3>1. \A n \in DOMAIN f : f[n] \in Byte
      BY <2>2
    <3>2. QED
      BY <2>3, <3>1 DEF Byte
  <2>6. ~decoder.ready /\ (decoder.escaped => decoder.in_frame)
    BY <2>2, <2>3
  <2>7. \A n \in DOMAIN line : line[n][1] \in 0..255
    BY <2>1 DEF Types, Lines, Byte
  <2>8. Len(sent) <= MaxFrames /\ noise \in 0..MaxNoise
    BY <2>1 DEF Types
  <2>9. \A n \in DOMAIN received : Fits(received[n])
    BY <2>1 DEF Types
  <2>10. QED
    BY <2>4, <2>5, <2>6, <2>7, <2>8, <2>9 DEF UartTypeOK
<1>2. QED
  BY <1>1, UartInvAlways, PTL

(* Frames that are gone have their places in received.                     *)
LEMMA PlacesFound ==
  ASSUME UartInv, NEW g, g \subseteq Gone(line, sent, damaged)
  PROVE  \E place : place \in PlacesOf(g)
<1>1. PICK q : Placed(q, Gone(line, sent, damaged), sent, received)
  BY DEF UartInv, Inv, PassedOn
<1>2. PICK place : Placed(place, g, sent, received)
  BY <1>1, PlacedFewer
<1>3. DOMAIN received = 1..Len(received)
  BY DEF UartInv, Inv, Types
<1>4. QED
  BY <1>2, <1>3 DEF Placed, PlacesOf

(* Noise costs only the frames it touches: when the line is empty, the     *)
(* body of every frame whose own bytes were not disturbed, and that fits,  *)
(* has been passed on, in the order of trySend, whatever was on the line   *)
(* before and after it.                                                    *)
THEOREM IntactFramesArriveAlways == Spec => []IntactFramesArrive
<1>1. ASSUME UartInv PROVE IntactFramesArrive
  <2>1. SUFFICES ASSUME line = <<>> PROVE PlacesOf(IntactFrames) # {}
    BY DEF IntactFramesArrive
  <2>2. Len(line) = 0 /\ 1..Len(line) = {} /\ DOMAIN sent = 1..Len(sent)
    BY <1>1, <2>1 DEF UartInv, Inv, Types
  <2>3. IntactFrames \subseteq Gone(line, sent, damaged)
    BY <2>2 DEF IntactFrames, Gone
  <2>4. QED
    BY <1>1, <2>3, PlacesFound
<1>2. QED
  BY <1>1, UartInvAlways, PTL

(* Without noise the Link is a FIFO: received is the bodies of the frames  *)
(* that fit, of a prefix of what trySend accepted, once each and in order. *)
THEOREM QuietLineIsFifoAlways == Spec => []QuietLineIsFifo
<1>1. ASSUME UartInv PROVE QuietLineIsFifo
  <2>1. SUFFICES ASSUME noise = 0
                 PROVE  \E n \in 0..Len(sent) :
                          \E place \in PlacesOf({m \in 1..n : Fits(sent[m])}) :
                            \A i \in DOMAIN received : \E m \in DOMAIN place : place[m] = i
    BY DEF QuietLineIsFifo
  <2>2. PICK l, s, r : l = line /\ s = sent /\ r = received
    OBVIOUS
  <2>3. /\ l \in Lines /\ s \in Seq(Bodies) /\ r \in Seq(Seq(Byte)) /\ damaged = {}
        /\ LineInv(l, s, {}) /\ GoneFirst(l, s, {}) /\ PassedOn(l, s, r, {}, 0)
        /\ \A i \in 1..Len(l) : FrameAt(l, i) # 0
    BY <1>1, <2>1, <2>2 DEF UartInv, Inv, Types, Quiet
  <2>4. /\ Len(l) \in Nat /\ Len(s) \in Nat /\ DOMAIN r = 1..Len(r)
        /\ \A i \in 1..Len(l) : FrameAt(l, i) \in Nat /\ FrameAt(l, i) <= Len(s)
    BY <2>3, LineTypes DEF LineInv
  <2>5. PICK n : n = IF Len(l) = 0 THEN Len(s) ELSE FrameAt(l, 1) - 1
    OBVIOUS
  <2>6. n \in 0..Len(s)
    <3>1. CASE Len(l) = 0
      BY <2>4, <2>5, <3>1
    <3>2. CASE Len(l) # 0
      <4>1. 1 \in 1..Len(l)
        BY <2>4, <3>2
      <4>2. QED
        BY <2>3, <2>4, <2>5, <3>2, <4>1
    <3>3. QED
      BY <3>1, <3>2
  <2>7. ASSUME NEW m \in 1..n, NEW i \in 1..Len(l) PROVE FrameAt(l, i) # m
    <3>1. 1 \in 1..Len(l) /\ Len(l) # 0
      BY <2>4
    <3>2. n = FrameAt(l, 1) - 1 /\ FrameAt(l, 1) \in Nat /\ FrameAt(l, i) \in Nat
      BY <2>4, <2>5, <3>1
    <3>3. FrameAt(l, 1) <= FrameAt(l, i)
      <4>1. CASE i = 1
        BY <3>2, <4>1
      <4>2. CASE i # 1
        <5>1. 1 < i
          BY <2>4, <4>2
        <5>2. QED
          BY <2>3, <3>1, <3>2, <5>1 DEF LineInv, InOrder
      <4>3. QED
        BY <4>1, <4>2
    <3>4. QED
      BY <2>6, <3>2, <3>3
  <2>8. Gone(l, s, {}) = {m \in 1..n : Fits(s[m])}
    <3>1. ASSUME NEW m \in Gone(l, s, {}) PROVE m \in 1..n /\ Fits(s[m])
      <4>1. m \in 1..Len(s) /\ Fits(s[m])
        BY <3>1 DEF Gone
      <4>2. CASE Len(l) = 0
        BY <2>5, <4>1, <4>2
      <4>3. CASE Len(l) # 0
        <5>1. 1 \in 1..Len(l)
          BY <2>4, <4>3
        <5>2. m < FrameAt(l, 1)
          BY <2>3, <3>1, <5>1 DEF GoneFirst
        <5>3. QED
          BY <2>4, <2>5, <4>1, <4>3, <5>1, <5>2
      <4>4. QED
        BY <4>2, <4>3
    <3>2. ASSUME NEW m \in 1..n, Fits(s[m]) PROVE m \in Gone(l, s, {})
      <4>1. m \in 1..Len(s)
        BY <2>4, <2>6
      <4>2. QED
        BY <2>7, <3>2, <4>1 DEF Gone
    <3>3. QED
      BY <3>1, <3>2
  <2>9. PICK g : g = {m \in 1..n : Fits(s[m])}
    OBVIOUS
  <2>10. PICK place : Placed(place, g, s, r) /\ Covers(place, g, r)
    BY <2>3, <2>8, <2>9 DEF PassedOn
  <2>11. place \in PlacesOf(g) /\ DOMAIN place = g
    BY <2>2, <2>4, <2>10 DEF PlacesOf, Placed
  <2>12. \A i \in DOMAIN received : \E m \in DOMAIN place : place[m] = i
    BY <2>2, <2>4, <2>10, <2>11 DEF Covers
  <2>13. QED
    BY <2>2, <2>6, <2>9, <2>11, <2>12
<1>2. QED
  BY <1>1, UartInvAlways, PTL

=============================================================================
