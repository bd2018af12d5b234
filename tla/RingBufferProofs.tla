-------------------------- MODULE RingBufferProofs --------------------------
(***************************************************************************)
(* The ring buffer implements a bounded FIFO for every capacity, index     *)
(* width and set of items, whatever the interleaving of its producer and   *)
(* its consumer.                                                           *)
(***************************************************************************)
EXTENDS RingBuffer, SequenceTheorems, TLAPS

Halves == Values \cup {Nothing}
Slots == Halves \X Halves
Whole == {<<value, value>> : value \in Values}

Producers == [pc : {"test", "first", "second", "publish"}, span : Seq(Values)]
Consumers == [pc : {"test", "first", "second", "advance"},
              call : {"None", "Dequeue", "Peek", "Clear"}, left : Nat,
              item : Slots]

(* The distance from one index to the other, and the slot k places on.     *)
Gap(w, r) == IF w >= r THEN w - r ELSE w + kCapacity + 1 - r
Place(r, k) ==
  IF r + k - 1 <= kCapacity THEN r + k - 1 ELSE r + k - 1 - (kCapacity + 1)

RingTypeOK ==
  /\ buffer \in [Indices -> Slots]
  /\ write_index \in Indices /\ read_index \in Indices
  /\ producer \in Producers /\ consumer \in Consumers
  /\ room \in Nat /\ stock \in Nat

(* Every slot between the indices holds a whole item.                      *)
StoredWhole == \A k \in 1 .. Occupied : buffer[SlotOf(k)] \in Whole

(* A producer past its test has a free slot, and has filled what its       *)
(* program counter says.                                                   *)
ProducerHas ==
  /\ producer.pc # "test" => producer.span # <<>> /\ Occupied < kCapacity
  /\ producer.pc \in {"second", "publish"} =>
       buffer[write_index][1] = Head(producer.span)
  /\ producer.pc = "publish" => buffer[write_index][2] = Head(producer.span)

(* A consumer past its test has an item, and has copied what its program   *)
(* counter says; only a call that takes the item gives its slot back.      *)
ConsumerHas ==
  /\ consumer.pc # "test" => consumer.call # "None" /\ Occupied > 0
  /\ consumer.pc \in {"second", "advance"} =>
       consumer.item[1] = buffer[read_index][1]
  /\ consumer.pc = "advance" =>
       consumer.item[2] = buffer[read_index][2] /\ consumer.call # "Peek"

RingInv ==
  /\ RingTypeOK /\ StoredWhole /\ ProducerHas /\ ConsumerHas /\ SizeIsUsable

(* What the abstract queue holds.                                          *)
Contents == [k \in 1 .. Occupied |-> buffer[SlotOf(k)]]

-----------------------------------------------------------------------------
(* increment() steps to the next slot, and wraps only at the last one.     *)
LEMMA IncrementNext ==
  ASSUME NEW i \in Indices
  PROVE  /\ increment(i) = IF i = kCapacity THEN 0 ELSE i + 1
         /\ increment(i) \in Indices
<1>1. kCapacity \in Nat /\ IndexModulus \in Nat /\ kCapacity < IndexModulus
  BY RingAssumption
<1>2. CASE i = kCapacity
  BY <1>1, <1>2 DEF increment, Indices
<1>3. CASE i # kCapacity
  <2>1. i + 1 \in 0 .. (IndexModulus - 1) /\ i + 1 \in Indices
    BY <1>1, <1>3 DEF Indices
  <2>2. (i + 1) % IndexModulus = i + 1
    BY <1>1, <2>1
  <2>3. QED BY <1>3, <2>1, <2>2 DEF increment
<1>4. QED
  BY <1>2, <1>3

(* The distance of the indices counts the items, empty and full included.  *)
LEMMA GapCounts ==
  ASSUME NEW w \in Indices, NEW r \in Indices
  PROVE  /\ Gap(w, r) \in 0 .. kCapacity
         /\ w = r <=> Gap(w, r) = 0
         /\ increment(w) = r <=> Gap(w, r) = kCapacity
<1>1. kCapacity \in Nat \ {0}
  BY RingAssumption
<1>2. QED
  BY <1>1, IncrementNext DEF Gap, Indices

(* Storing the write index adds the slot it named; storing the read index  *)
(* drops the slot it named and renumbers the others.                       *)
LEMMA GapMoves ==
  ASSUME NEW w \in Indices, NEW r \in Indices
  PROVE  /\ Gap(w, r) < kCapacity => /\ Gap(increment(w), r) = Gap(w, r) + 1
                                     /\ Place(r, Gap(w, r) + 1) = w
         /\ Gap(w, r) > 0 => Gap(w, increment(r)) = Gap(w, r) - 1
<1>1. kCapacity \in Nat \ {0}
  BY RingAssumption
<1>2. QED
  BY <1>1, IncrementNext DEF Gap, Place, Indices

(* The oldest item is at the read index, and none at the write index.      *)
LEMMA PlaceMoves ==
  ASSUME NEW w \in Indices, NEW r \in Indices
  PROVE  /\ Place(r, 1) = r
         /\ \A k \in 1 .. Gap(w, r) : Place(r, k) \in Indices /\ Place(r, k) # w
         /\ \A k \in 1 .. (Gap(w, r) - 1) : Place(increment(r), k) = Place(r, k + 1)
<1>1. kCapacity \in Nat \ {0}
  BY RingAssumption
<1>2. Place(r, 1) = r
  BY <1>1 DEF Place, Indices
<1>3. ASSUME NEW k \in 1 .. Gap(w, r)
      PROVE  Place(r, k) \in Indices /\ Place(r, k) # w
  BY <1>1 DEF Gap, Place, Indices
<1>4. ASSUME NEW k \in 1 .. (Gap(w, r) - 1)
      PROVE  Place(increment(r), k) = Place(r, k + 1)
  BY <1>1, IncrementNext DEF Gap, Place, Indices
<1>5. QED
  BY <1>2, <1>3, <1>4

(* size() is the number of items, also where its arithmetic wraps.         *)
LEMMA SizeCounts ==
  ASSUME write_index \in Indices, read_index \in Indices
  PROVE  size = Occupied /\ Occupied = Gap(write_index, read_index)
<1>1. kCapacity \in Nat /\ IndexModulus \in Nat /\ kCapacity < IndexModulus
  BY RingAssumption
<1>2. Occupied = Gap(write_index, read_index)
  BY DEF Occupied, Gap
<1>3. CASE write_index >= read_index
  BY <1>2, <1>3 DEF size, Occupied
<1>4. CASE ~(write_index >= read_index)
  <2> DEFINE n == (kCapacity + 1 - read_index) + write_index
  <2>1. n \in 0 .. (IndexModulus - 1) /\ n = write_index + kCapacity + 1 - read_index
    BY <1>1, <1>4 DEF Indices
  <2>2. n % IndexModulus = n
    <3> HIDE DEF n
    <3> QED BY <1>1, <2>1
  <2>3. size = n % IndexModulus /\ Occupied = write_index + kCapacity + 1 - read_index
    BY <1>4 DEF size, Occupied
  <2>4. QED BY <1>2, <2>1, <2>2, <2>3
<1>5. QED
  BY <1>3, <1>4

-----------------------------------------------------------------------------
(* What the invariant says of the indices, in the words of the lemmas.     *)
LEMMA InvIndices ==
  ASSUME RingTypeOK
  PROVE  /\ Occupied = Gap(write_index, read_index)
         /\ Occupied \in 0 .. kCapacity
         /\ size = Occupied
         /\ isEmpty <=> Occupied = 0
         /\ isFull <=> Occupied = kCapacity
         /\ Occupied > 0 => SlotOf(1) = read_index
         /\ \A k \in 1 .. Occupied : SlotOf(k) \in Indices /\ SlotOf(k) # write_index
<1>1. write_index \in Indices /\ read_index \in Indices
  BY DEF RingTypeOK
<1>2. Occupied = Gap(write_index, read_index) /\ size = Occupied
  BY <1>1, SizeCounts
<1>3. \A k : SlotOf(k) = Place(read_index, k)
  BY DEF SlotOf, Place
<1>4. QED
  BY <1>1, <1>2, <1>3, GapCounts, PlaceMoves DEF isEmpty, isFull

(* An item in the ring is readable at the read index.                      *)
LEMMA InvHead ==
  ASSUME RingInv, Occupied > 0
  PROVE  buffer[read_index] \in Whole /\ read_index # write_index
<1>1. Occupied \in Nat /\ SlotOf(1) = read_index /\ 1 \in 1 .. Occupied
  BY InvIndices, RingAssumption DEF RingInv
<1>2. QED
  BY <1>1, InvIndices DEF RingInv, StoredWhole

(* The store of half an item touches no slot that holds one.               *)
LEMMA StoreHalfKeeps ==
  ASSUME RingInv, NEW half \in {1, 2}, producer.span # <<>>, StoreHalf(half)
  PROVE  /\ buffer' \in [Indices -> Slots]
         /\ \A i \in Indices \ {write_index} : buffer'[i] = buffer[i]
         /\ buffer'[write_index][half] = Head(producer.span)
         /\ buffer'[write_index][3 - half] = buffer[write_index][3 - half]
         /\ Head(producer.span) \in Values
<1>1. /\ write_index \in Indices /\ buffer \in [Indices -> Slots]
      /\ producer.span \in Seq(Values)
  BY DEF RingInv, RingTypeOK, Producers
<1>2. PICK h \in Values : h = Head(producer.span)
  BY <1>1, HeadTailProperties
<1>3. buffer' = [buffer EXCEPT ![write_index] = [buffer[write_index] EXCEPT ![half] = h]]
  BY <1>2 DEF StoreHalf
<1>4. PICK a \in Halves, b \in Halves : buffer[write_index] = <<a, b>>
  BY <1>1 DEF Slots
<1>5. /\ [buffer[write_index] EXCEPT ![half] = h] \in Slots
      /\ [buffer[write_index] EXCEPT ![half] = h][half] = h
      /\ [buffer[write_index] EXCEPT ![half] = h][3 - half] = buffer[write_index][3 - half]
  BY <1>4 DEF Slots, Halves
<1>6. QED
  BY <1>1, <1>2, <1>3, <1>5

(* Everything but the store of an index leaves the count of items alone.   *)
LEMMA SameIndices ==
  ASSUME UNCHANGED indices
  PROVE  Occupied' = Occupied /\ \A k : SlotOf(k)' = SlotOf(k)
BY DEF indices, Occupied, SlotOf

-----------------------------------------------------------------------------
(* The producer's calls.                                                   *)
LEMMA CallEnqueueKeeps ==
  ASSUME RingInv, CallEnqueue
  PROVE  RingInv'
<1>1. producer' \in Producers /\ producer'.pc = "test"
  <2>1. PICK n \in 1 .. MaxSpan : \E items \in [1 .. n -> Values] :
          producer' = [pc |-> "test", span |-> items]
    BY DEF CallEnqueue
  <2>2. PICK items \in [1 .. n -> Values] :
          producer' = [pc |-> "test", span |-> items]
    BY <2>1
  <2>3. n \in Nat
    BY RingAssumption
  <2>4. items \in Seq(Values)
    BY <2>3, SeqDef
  <2>5. QED BY <2>2, <2>4 DEF Producers
<1>2. /\ UNCHANGED <<buffer, indices, consumer, room, stock>>
      /\ UNCHANGED <<write_index, read_index>>
  BY DEF CallEnqueue, indices
<1>3. Occupied' = Occupied /\ \A k : SlotOf(k)' = SlotOf(k)
  BY <1>2, SameIndices
<1>4. QED
  BY <1>1, <1>2, <1>3
  DEF RingInv, RingTypeOK, StoredWhole, ProducerHas, ConsumerHas, SizeIsUsable

(* What the producer may take size() to be.                                *)
LEMMA ProducerSizeKeeps ==
  ASSUME RingInv, ProducerSize
  PROVE  RingInv'
<1>1. /\ UNCHANGED <<buffer, indices, producer, consumer, stock>>
      /\ UNCHANGED <<write_index, read_index>>
      /\ room' = kCapacity - size
  BY DEF ProducerSize, indices
<1>2. Occupied' = Occupied /\ \A k : SlotOf(k)' = SlotOf(k)
  BY <1>1, SameIndices
<1>3. room' \in Nat /\ room' <= kCapacity - Occupied
  <2>1. size = Occupied /\ Occupied \in 0 .. kCapacity /\ kCapacity \in Nat
    BY InvIndices, RingAssumption DEF RingInv
  <2>2. QED BY <1>1, <2>1
<1>4. QED
  BY <1>1, <1>2, <1>3
  DEF RingInv, RingTypeOK, StoredWhole, ProducerHas, ConsumerHas, SizeIsUsable

(* The test for a free slot.                                               *)
LEMMA EnqueueTestKeeps ==
  ASSUME RingInv, EnqueueTest
  PROVE  RingInv'
<1>1. /\ UNCHANGED <<buffer, indices, consumer, room, stock>>
      /\ UNCHANGED <<write_index, read_index>>
      /\ producer.pc = "test" /\ producer.span # <<>>
  BY DEF EnqueueTest, ProducerStep, indices
<1>2. Occupied' = Occupied /\ \A k : SlotOf(k)' = SlotOf(k)
  BY <1>1, SameIndices
<1>3. /\ producer' \in Producers
      /\ producer'.pc = "test"
           \/ (producer'.pc = "first" /\ producer'.span # <<>> /\ Occupied < kCapacity)
  <2>1. producer \in Producers /\ <<>> \in Seq(Values)
    BY DEF RingInv, RingTypeOK
  <2>2. CASE isFull
    BY <1>1, <2>1, <2>2 DEF EnqueueTest, Producers
  <2>3. CASE ~isFull
    <3>1. Occupied < kCapacity
      BY <2>3, InvIndices, RingAssumption DEF RingInv
    <3>2. QED BY <1>1, <2>1, <2>3, <3>1 DEF EnqueueTest, Producers
  <2>4. QED BY <2>2, <2>3
<1>4. ProducerHas'
  BY <1>1, <1>2, <1>3 DEF ProducerHas
<1>5. QED
  BY <1>1, <1>2, <1>3, <1>4
  DEF RingInv, RingTypeOK, StoredWhole, ConsumerHas, SizeIsUsable

(* The two stores of an item: the slots of the others, the consumer's      *)
(* included, are left alone.                                               *)
LEMMA EnqueueStoreKeeps ==
  ASSUME RingInv, EnqueueFirst \/ EnqueueSecond
  PROVE  /\ RingInv' /\ UNCHANGED indices
         /\ \A k \in 1 .. Occupied : buffer'[SlotOf(k)] = buffer[SlotOf(k)]
<1>1. PICK half \in {1, 2} :
        /\ StoreHalf(half)
        /\ half = 1 => producer.pc = "first" /\ producer'.pc = "second"
        /\ half = 2 => producer.pc = "second" /\ producer'.pc = "publish"
        /\ producer' \in Producers /\ producer'.span = producer.span
  <2>1. producer \in Producers
    BY DEF RingInv, RingTypeOK
  <2>2. CASE EnqueueFirst
    <3>1. StoreHalf(1) /\ producer.pc = "first"
          /\ producer' = [producer EXCEPT !.pc = "second"]
      BY <2>2 DEF EnqueueFirst, ProducerStep
    <3>2. producer' \in Producers /\ producer'.pc = "second"
          /\ producer'.span = producer.span
      BY <2>1, <3>1 DEF Producers
    <3>3. QED BY <3>1, <3>2
  <2>3. CASE EnqueueSecond
    <3>1. StoreHalf(2) /\ producer.pc = "second"
          /\ producer' = [producer EXCEPT !.pc = "publish"]
      BY <2>3 DEF EnqueueSecond, ProducerStep
    <3>2. producer' \in Producers /\ producer'.pc = "publish"
          /\ producer'.span = producer.span
      BY <2>1, <3>1 DEF Producers
    <3>3. QED BY <3>1, <3>2
  <2>4. QED BY <2>2, <2>3
<1>2. /\ UNCHANGED <<write_index, read_index, consumer, room, stock>>
      /\ producer.span # <<>>
  BY DEF EnqueueFirst, EnqueueSecond, ProducerStep
<1>3. Occupied' = Occupied /\ (\A k : SlotOf(k)' = SlotOf(k)) /\ UNCHANGED indices
  BY <1>2, SameIndices DEF indices
<1>4. /\ buffer' \in [Indices -> Slots]
      /\ \A i \in Indices \ {write_index} : buffer'[i] = buffer[i]
      /\ buffer'[write_index][half] = Head(producer.span)
      /\ buffer'[write_index][3 - half] = buffer[write_index][3 - half]
  BY <1>1, <1>2, StoreHalfKeeps
<1>5. \A k \in 1 .. Occupied : buffer'[SlotOf(k)] = buffer[SlotOf(k)]
  BY <1>4, InvIndices DEF RingInv
<1>6. StoredWhole'
  BY <1>3, <1>5 DEF RingInv, StoredWhole
<1>7. ProducerHas'
  <2>1. Occupied < kCapacity
    BY <1>1 DEF RingInv, ProducerHas
  <2>2. CASE half = 1
    BY <1>1, <1>2, <1>3, <1>4, <2>1, <2>2 DEF ProducerHas
  <2>3. CASE half = 2
    <3>1. buffer[write_index][1] = Head(producer.span) /\ 3 - half = 1
      BY <1>1, <2>3 DEF RingInv, ProducerHas
    <3>2. QED BY <1>1, <1>2, <1>3, <1>4, <2>1, <2>3, <3>1 DEF ProducerHas
  <2>4. QED BY <2>2, <2>3
<1>8. ConsumerHas'
  <2>1. consumer.pc # "test" => buffer'[read_index] = buffer[read_index]
    <3>1. consumer.pc # "test" => read_index # write_index
      BY InvHead DEF RingInv, ConsumerHas
    <3>2. read_index \in Indices
      BY DEF RingInv, RingTypeOK
    <3>3. QED BY <1>4, <3>1, <3>2
  <2>2. QED BY <1>2, <1>3, <2>1 DEF RingInv, ConsumerHas
<1>9. RingTypeOK' /\ SizeIsUsable'
  BY <1>1, <1>2, <1>3, <1>4 DEF RingInv, RingTypeOK, SizeIsUsable
<1>10. QED
  BY <1>3, <1>5, <1>6, <1>7, <1>8, <1>9 DEF RingInv

(* The store of the write index publishes a whole item at the end.         *)
LEMMA EnqueuePublishKeeps ==
  ASSUME RingInv, EnqueuePublish
  PROVE  /\ RingInv' /\ UNCHANGED buffer
         /\ Occupied < kCapacity /\ Occupied' = Occupied + 1
         /\ \A k : SlotOf(k)' = SlotOf(k)
         /\ SlotOf(Occupied + 1) = write_index /\ buffer[write_index] \in Whole
<1>1. /\ producer.pc = "publish" /\ producer.span # <<>>
      /\ UNCHANGED <<buffer, read_index, consumer, stock>>
      /\ write_index' = increment(write_index)
      /\ producer' = [pc |-> "test", span |-> Tail(producer.span)]
      /\ room' = Less(room)
  BY DEF EnqueuePublish, ProducerStep
<1>2. /\ write_index \in Indices /\ read_index \in Indices
      /\ buffer \in [Indices -> Slots] /\ producer.span \in Seq(Values)
      /\ kCapacity \in Nat /\ room \in Nat /\ stock \in Nat
      /\ room <= kCapacity - Occupied /\ stock <= Occupied
  BY RingAssumption DEF RingInv, RingTypeOK, Producers, SizeIsUsable
<1>3. Occupied \in 0 .. kCapacity /\ Occupied < kCapacity
      /\ Occupied = Gap(write_index, read_index)
  BY <1>1, InvIndices DEF RingInv, ProducerHas
<1>4. /\ write_index' \in Indices
      /\ Gap(write_index', read_index) = Occupied + 1
      /\ Place(read_index, Occupied + 1) = write_index
  BY <1>1, <1>2, <1>3, IncrementNext, GapMoves
<1>5. /\ Occupied' = Occupied + 1 /\ \A k : SlotOf(k)' = SlotOf(k)
      /\ SlotOf(Occupied + 1) = write_index
  BY <1>1, <1>4 DEF Occupied, Gap, SlotOf, Place
<1>6. buffer[write_index] \in Whole
  <2>1. PICK a \in Halves, b \in Halves : buffer[write_index] = <<a, b>>
    BY <1>2 DEF Slots
  <2>2. /\ buffer[write_index][1] = Head(producer.span)
        /\ buffer[write_index][2] = Head(producer.span)
    BY <1>1 DEF RingInv, ProducerHas
  <2>3. Head(producer.span) \in Values
    BY <1>1, <1>2, HeadTailProperties
  <2>4. QED BY <2>1, <2>2, <2>3 DEF Whole
<1>7. StoredWhole'
  <2>1. \A k \in 1 .. (Occupied + 1) : k \in 1 .. Occupied \/ k = Occupied + 1
    BY <1>3
  <2>2. QED BY <1>1, <1>5, <1>6, <2>1 DEF RingInv, StoredWhole
<1>8. producer' \in Producers /\ producer'.pc = "test"
  BY <1>1, <1>2, HeadTailProperties DEF Producers
<1>9. ProducerHas' /\ ConsumerHas'
  BY <1>1, <1>3, <1>5, <1>8 DEF RingInv, ProducerHas, ConsumerHas
<1>10. room' \in Nat /\ room' <= kCapacity - Occupied' /\ stock' <= Occupied'
  BY <1>1, <1>2, <1>3, <1>5 DEF Less
<1>11. RingTypeOK'
  BY <1>1, <1>2, <1>4, <1>8, <1>10 DEF RingInv, RingTypeOK
<1>12. QED
  BY <1>1, <1>3, <1>5, <1>6, <1>7, <1>9, <1>10, <1>11 DEF RingInv, SizeIsUsable

-----------------------------------------------------------------------------
(* The consumer's calls.                                                   *)

(* A step of the consumer that stores no index answers only for its own    *)
(* record and its stock.                                                   *)
LEMMA ConsumerStepKeeps ==
  ASSUME RingInv, UNCHANGED <<buffer, write_index, read_index, producer, room>>,
         consumer' \in Consumers, stock' \in Nat, stock' <= Occupied,
         ConsumerHas'
  PROVE  RingInv'
<1>1. Occupied' = Occupied /\ \A k : SlotOf(k)' = SlotOf(k)
  BY SameIndices DEF indices
<1>2. QED
  BY <1>1 DEF RingInv, RingTypeOK, StoredWhole, ProducerHas, SizeIsUsable

(* The start of a call of the consumer.                                    *)
LEMMA ConsumerCallKeeps ==
  ASSUME RingInv, CallDequeue \/ CallPeek \/ CallClear
  PROVE  RingInv'
<1>1. PICK call \in {"Dequeue", "Peek", "Clear"}, left \in Nat : Call(call, left)
  BY RingAssumption DEF CallDequeue, CallPeek, CallClear
<1>2. /\ consumer' = [consumer EXCEPT !.call = call, !.left = left, !.pc = "test"]
      /\ UNCHANGED <<buffer, write_index, read_index, producer, room, stock>>
  BY <1>1 DEF Call, indices
<1>3. consumer' \in Consumers /\ consumer'.pc = "test"
  BY <1>2 DEF RingInv, RingTypeOK, Consumers
<1>4. ConsumerHas'
  BY <1>3 DEF ConsumerHas
<1>5. QED
  BY <1>2, <1>3, <1>4, ConsumerStepKeeps DEF RingInv, RingTypeOK, SizeIsUsable

(* What the consumer may take size() to be.                                *)
LEMMA ConsumerSizeKeeps ==
  ASSUME RingInv, ConsumerSize
  PROVE  RingInv'
<1>1. /\ UNCHANGED <<buffer, write_index, read_index, producer, consumer, room>>
      /\ stock' = size
  BY DEF ConsumerSize, indices
<1>2. stock' \in Nat /\ stock' <= Occupied
  BY <1>1, InvIndices, RingAssumption DEF RingInv
<1>3. Occupied' = Occupied
  BY <1>1, SameIndices DEF indices
<1>4. ConsumerHas' /\ consumer' \in Consumers
  BY <1>1, <1>3 DEF RingInv, RingTypeOK, ConsumerHas
<1>5. QED
  BY <1>1, <1>2, <1>4, ConsumerStepKeeps

(* A call that returns leaves a consumer at rest.                          *)
LEMMA ReturnRests ==
  ASSUME NEW c \in Consumers
  PROVE  Return(c) \in Consumers /\ Return(c).pc = "test"
<1>1. <<Nothing, Nothing>> \in Slots
  BY DEF Slots, Halves
<1>2. QED
  BY <1>1 DEF Return, Consumers

(* The test for an item.                                                   *)
LEMMA DequeueTestKeeps ==
  ASSUME RingInv, DequeueTest
  PROVE  RingInv'
<1>1. /\ UNCHANGED <<buffer, write_index, read_index, producer, room, stock>>
      /\ consumer.call # "None" /\ consumer \in Consumers
  BY DEF DequeueTest, ConsumerStep, RingInv, RingTypeOK
<1>2. Occupied' = Occupied
  BY <1>1, SameIndices DEF indices
<1>3. CASE isEmpty
  <2>1. consumer' \in Consumers /\ consumer'.pc = "test"
    BY <1>1, <1>3, ReturnRests DEF DequeueTest
  <2>2. ConsumerHas'
    BY <2>1 DEF ConsumerHas
  <2>3. QED
    BY <1>1, <2>1, <2>2, ConsumerStepKeeps DEF RingInv, RingTypeOK, SizeIsUsable
<1>4. CASE ~isEmpty
  <2>1. Occupied > 0
    BY <1>4, InvIndices, RingAssumption DEF RingInv
  <2>2. consumer' = [consumer EXCEPT !.pc = "first"]
    BY <1>4 DEF DequeueTest
  <2>3. /\ consumer' \in Consumers /\ consumer'.pc = "first"
        /\ consumer'.call = consumer.call
    BY <1>1, <2>2 DEF Consumers
  <2>4. ConsumerHas'
    BY <1>1, <1>2, <2>1, <2>3 DEF ConsumerHas
  <2>5. QED
    BY <1>1, <2>3, <2>4, ConsumerStepKeeps DEF RingInv, RingTypeOK, SizeIsUsable
<1>5. QED
  BY <1>3, <1>4

(* A copied half is the half the slot holds, and the other half of the     *)
(* copy stays.                                                             *)
LEMMA CopyHalfCopies ==
  ASSUME RingInv, NEW half \in {1, 2}, NEW next \in {"second", "advance"}
  PROVE  LET c == CopyHalf(half, next)
         IN  /\ c \in Consumers /\ c.pc = next /\ c.call = consumer.call
             /\ c.item[half] = buffer[read_index][half]
             /\ c.item[3 - half] = consumer.item[3 - half]
<1> DEFINE v == buffer[read_index][half]
           item == [consumer.item EXCEPT ![half] = v]
           c == [consumer EXCEPT !.item = item, !.pc = next]
<1>1. consumer \in Consumers /\ buffer[read_index] \in Slots
  BY DEF RingInv, RingTypeOK
<1>2. PICK a \in Halves, b \in Halves : consumer.item = <<a, b>>
  BY <1>1 DEF Consumers, Slots
<1>3. v \in Halves
  BY <1>1 DEF Slots
<1> HIDE DEF v
<1>4. /\ item \in Slots /\ item[half] = v
      /\ item[3 - half] = consumer.item[3 - half]
  BY <1>2, <1>3 DEF Slots
<1>5. CopyHalf(half, next) = c
  BY DEF CopyHalf, v
<1> HIDE DEF item
<1>6. c \in Consumers /\ c.pc = next /\ c.call = consumer.call /\ c.item = item
  BY <1>1, <1>4 DEF Consumers
<1>7. QED
  BY <1>4, <1>5, <1>6 DEF v

(* The copy of the first half of an item.                                  *)
LEMMA DequeueFirstKeeps ==
  ASSUME RingInv, DequeueFirst
  PROVE  RingInv'
<1>1. /\ UNCHANGED <<buffer, write_index, read_index, producer, room, stock>>
      /\ consumer.call # "None" /\ consumer.pc = "first"
      /\ consumer' = CopyHalf(1, "second")
  BY DEF DequeueFirst, ConsumerStep
<1>2. /\ consumer' \in Consumers /\ consumer'.pc = "second"
      /\ consumer'.call = consumer.call
      /\ consumer'.item[1] = buffer[read_index][1]
  BY <1>1, CopyHalfCopies
<1>3. Occupied' = Occupied
  BY <1>1, SameIndices DEF indices
<1>4. ConsumerHas'
  BY <1>1, <1>2, <1>3 DEF RingInv, ConsumerHas
<1>5. QED
  BY <1>1, <1>2, <1>4, ConsumerStepKeeps DEF RingInv, RingTypeOK, SizeIsUsable

(* The second copy makes the item whole: peek() returns it, dequeue() and  *)
(* clear() keep it until they store the read index.                        *)
LEMMA DequeueSecondKeeps ==
  ASSUME RingInv, DequeueSecond
  PROVE  /\ RingInv' /\ Occupied > 0
         /\ UNCHANGED <<buffer, indices, enqueued>>
         /\ dequeued' = dequeued \/ dequeued' = buffer[read_index]
<1> DEFINE c == CopyHalf(2, "advance")
<1>1. /\ UNCHANGED <<buffer, write_index, read_index, producer, enqueued, room, stock>>
      /\ consumer.call # "None" /\ consumer.pc = "second"
      /\ IF consumer.call = "Peek"
           THEN consumer' = Return(c) /\ dequeued' = c.item
           ELSE consumer' = c /\ dequeued' = dequeued
  BY DEF DequeueSecond, ConsumerStep
<1>2. /\ c \in Consumers /\ c.pc = "advance" /\ c.call = consumer.call
      /\ c.item[2] = buffer[read_index][2] /\ c.item[1] = consumer.item[1]
  BY CopyHalfCopies
<1> HIDE DEF c
<1>3. Occupied > 0 /\ consumer.item[1] = buffer[read_index][1]
  BY <1>1 DEF RingInv, ConsumerHas
<1>4. c.item = buffer[read_index]
  <2>1. PICK a, b : c.item = <<a, b>>
    BY <1>2 DEF Consumers, Slots
  <2>2. PICK x, y : buffer[read_index] = <<x, y>>
    BY DEF RingInv, RingTypeOK, Slots
  <2>3. QED BY <1>2, <1>3, <2>1, <2>2
<1>5. Occupied' = Occupied
  BY <1>1, SameIndices DEF indices
<1>6. consumer' \in Consumers /\ ConsumerHas'
  <2>1. CASE consumer.call = "Peek"
    <3>1. consumer' \in Consumers /\ consumer'.pc = "test"
      BY <1>1, <1>2, <2>1, ReturnRests
    <3>2. QED BY <3>1 DEF ConsumerHas
  <2>2. CASE consumer.call # "Peek"
    BY <1>1, <1>2, <1>3, <1>4, <1>5, <2>2 DEF ConsumerHas
  <2>3. QED BY <2>1, <2>2
<1>7. RingInv'
  BY <1>1, <1>6, ConsumerStepKeeps DEF RingInv, RingTypeOK, SizeIsUsable
<1>8. QED
  BY <1>1, <1>3, <1>4, <1>7 DEF indices

(* The store of the read index drops the first item, the one returned.     *)
LEMMA DequeueAdvanceKeeps ==
  ASSUME RingInv, DequeueAdvance
  PROVE  /\ RingInv' /\ UNCHANGED <<buffer, enqueued>>
         /\ Occupied > 0 /\ Occupied' = Occupied - 1
         /\ \A k \in 1 .. (Occupied - 1) : SlotOf(k)' = SlotOf(k + 1)
         /\ dequeued' = buffer[read_index]
<1>1. /\ consumer.pc = "advance" /\ consumer \in Consumers
      /\ UNCHANGED <<buffer, write_index, producer, enqueued, room>>
      /\ read_index' = increment(read_index)
      /\ dequeued' = consumer.item
      /\ stock' = Less(stock)
  BY DEF DequeueAdvance, ConsumerStep, RingInv, RingTypeOK
<1>2. /\ write_index \in Indices /\ read_index \in Indices
      /\ kCapacity \in Nat /\ room \in Nat /\ stock \in Nat
      /\ room <= kCapacity - Occupied /\ stock <= Occupied
  BY RingAssumption DEF RingInv, RingTypeOK, SizeIsUsable
<1>3. Occupied \in 0 .. kCapacity /\ Occupied > 0
      /\ Occupied = Gap(write_index, read_index)
  BY <1>1, InvIndices DEF RingInv, ConsumerHas
<1>4. consumer.item = buffer[read_index]
  <2>1. PICK a, b : consumer.item = <<a, b>>
    BY <1>1 DEF Consumers, Slots
  <2>2. PICK x, y : buffer[read_index] = <<x, y>>
    BY DEF RingInv, RingTypeOK, Slots
  <2>3. QED BY <1>1, <2>1, <2>2 DEF RingInv, ConsumerHas
<1>5. /\ read_index' \in Indices
      /\ Gap(write_index, read_index') = Occupied - 1
      /\ \A k \in 1 .. (Occupied - 1) : Place(read_index', k) = Place(read_index, k + 1)
  BY <1>1, <1>2, <1>3, IncrementNext, GapMoves, PlaceMoves
<1>6. Occupied' = Occupied - 1
  BY <1>1, <1>5 DEF Occupied, Gap
<1>7. \A k \in 1 .. (Occupied - 1) : SlotOf(k)' = SlotOf(k + 1)
  BY <1>5 DEF SlotOf, Place
<1>8. consumer' \in Consumers /\ consumer'.pc = "test"
  <2>1. CASE consumer.call = "Dequeue" /\ consumer.left = 1
    BY <1>1, <2>1, ReturnRests DEF DequeueAdvance
  <2>2. CASE ~(consumer.call = "Dequeue" /\ consumer.left = 1)
    <3>1. /\ consumer' = [consumer EXCEPT !.pc = "test", !.left = Less(consumer.left),
                                          !.item = <<Nothing, Nothing>>]
      BY <2>2 DEF DequeueAdvance
    <3>2. Less(consumer.left) \in Nat /\ <<Nothing, Nothing>> \in Slots
      BY <1>1 DEF Less, Consumers, Slots, Halves
    <3>3. QED BY <1>1, <3>1, <3>2 DEF Consumers
  <2>3. QED BY <2>1, <2>2
<1>9. StoredWhole'
  <2>1. \A k \in 1 .. (Occupied - 1) : k + 1 \in 1 .. Occupied
    BY <1>3
  <2>2. QED BY <1>1, <1>6, <1>7, <2>1 DEF RingInv, StoredWhole
<1>10. stock' \in Nat /\ stock' <= Occupied' /\ room' <= kCapacity - Occupied'
  BY <1>1, <1>2, <1>3, <1>6 DEF Less
<1>11. ProducerHas' /\ ConsumerHas'
  BY <1>1, <1>2, <1>3, <1>6, <1>8 DEF RingInv, ProducerHas, ConsumerHas
<1>12. RingTypeOK'
  BY <1>1, <1>2, <1>5, <1>8, <1>10 DEF RingInv, RingTypeOK
<1>13. QED
  BY <1>1, <1>3, <1>4, <1>6, <1>7, <1>9, <1>10, <1>11, <1>12 DEF RingInv, SizeIsUsable

-----------------------------------------------------------------------------
(* The refinement.                                                         *)

(* A function on an initial segment of the naturals is a sequence.         *)
LEMMA FunctionIsSeq ==
  ASSUME NEW n \in Nat, NEW S, NEW f \in [1 .. n -> S]
  PROVE  f \in Seq(S) /\ Len(f) = n
<1>1. f \in Seq(S)
  BY SeqDef
<1>2. QED
  BY <1>1, LenProperties

(* The slots between the indices are a sequence of whole items.            *)
LEMMA ContentsAre ==
  ASSUME RingInv
  PROVE  /\ Contents \in Seq(Whole) /\ Len(Contents) = Occupied
         /\ Occupied \in 0 .. kCapacity
         /\ Contents = <<>> <=> Occupied = 0
         /\ Occupied > 0 => Head(Contents) = buffer[read_index]
<1>1. Occupied \in 0 .. kCapacity /\ Occupied \in Nat
      /\ (Occupied > 0 => SlotOf(1) = read_index)
  BY InvIndices, RingAssumption DEF RingInv
<1>2. Contents \in [1 .. Occupied -> Whole]
  BY DEF Contents, RingInv, StoredWhole
<1>3. Contents \in Seq(Whole)
  BY <1>1, <1>2, FunctionIsSeq
<1>4. Len(Contents) = Occupied
  BY <1>1, <1>2, FunctionIsSeq
<1>5. Contents = <<>> <=> Occupied = 0
  BY <1>1, <1>3, <1>4, EmptySeq
<1>6. Occupied > 0 => Head(Contents) = buffer[read_index]
  <2>1. Occupied > 0 => Head(Contents) = Contents[1]
    BY <1>3, <1>4, <1>5
  <2>2. Occupied > 0 => Contents[1] = buffer[SlotOf(1)]
    BY <1>1 DEF Contents
  <2>3. QED BY <1>1, <2>1, <2>2
<1>7. QED
  BY <1>1, <1>3, <1>4, <1>5, <1>6

(* A step that stores no index and no occupied slot leaves the queue.      *)
LEMMA ContentsStay ==
  ASSUME UNCHANGED indices,
         \A k \in 1 .. Occupied : buffer'[SlotOf(k)] = buffer[SlotOf(k)]
  PROVE  Contents' = Contents
BY SameIndices DEF Contents

(* Publishing appends the item the producer stored.                        *)
LEMMA ContentsAppend ==
  ASSUME RingInv, EnqueuePublish
  PROVE  /\ Contents' = Append(Contents, buffer[write_index])
         /\ buffer[write_index] \in Whole /\ Len(Contents) < kCapacity
<1>1. /\ RingInv' /\ UNCHANGED buffer
      /\ Occupied < kCapacity /\ Occupied' = Occupied + 1
      /\ \A k : SlotOf(k)' = SlotOf(k)
      /\ SlotOf(Occupied + 1) = write_index /\ buffer[write_index] \in Whole
  BY EnqueuePublishKeeps
<1>2. /\ Contents \in Seq(Whole) /\ Len(Contents) = Occupied
      /\ Contents' \in Seq(Whole) /\ Len(Contents') = Occupied + 1
      /\ Occupied \in Nat
  <2>1. Occupied \in Nat
    BY ContentsAre, RingAssumption
  <2>2. Contents' \in [1 .. (Occupied + 1) -> Whole]
    BY <1>1 DEF Contents, RingInv, StoredWhole
  <2>3. Contents' \in Seq(Whole) /\ Len(Contents') = Occupied + 1
    BY <2>1, <2>2, FunctionIsSeq
  <2>4. QED BY <2>1, <2>3, ContentsAre
<1> DEFINE longer == Append(Contents, buffer[write_index])
<1>3. /\ longer \in Seq(Whole) /\ Len(longer) = Occupied + 1
      /\ \A i \in 1 .. Occupied : longer[i] = Contents[i]
      /\ longer[Occupied + 1] = buffer[write_index]
  BY <1>1, <1>2, AppendProperties
<1>4. \A i \in 1 .. (Occupied + 1) : Contents'[i] = buffer[SlotOf(i)]
  BY <1>1 DEF Contents
<1>5. \A i \in 1 .. Occupied : Contents[i] = buffer[SlotOf(i)]
  BY DEF Contents
<1>6. \A i \in 1 .. (Occupied + 1) : Contents'[i] = longer[i]
  <2> HIDE DEF longer
  <2>1. \A i \in 1 .. (Occupied + 1) : i \in 1 .. Occupied \/ i = Occupied + 1
    BY <1>2
  <2>2. QED BY <1>1, <1>3, <1>4, <1>5, <2>1
<1>7. Contents' = longer
  <2> HIDE DEF longer
  <2> QED BY <1>2, <1>3, <1>6, SeqEqual
<1>8. QED
  BY <1>1, <1>2, <1>7

(* Storing the read index removes the head.                                *)
LEMMA ContentsTail ==
  ASSUME RingInv, DequeueAdvance
  PROVE  /\ Contents # <<>> /\ Contents' = Tail(Contents)
         /\ dequeued' = Head(Contents)
<1>1. /\ RingInv' /\ UNCHANGED buffer
      /\ Occupied > 0 /\ Occupied' = Occupied - 1
      /\ \A k \in 1 .. (Occupied - 1) : SlotOf(k)' = SlotOf(k + 1)
      /\ dequeued' = buffer[read_index]
  BY DequeueAdvanceKeeps
<1>2. /\ Contents \in Seq(Whole) /\ Len(Contents) = Occupied
      /\ Contents # <<>> /\ Head(Contents) = buffer[read_index]
      /\ Occupied \in Nat
  BY <1>1, ContentsAre, RingAssumption
<1>3. Contents' \in Seq(Whole) /\ Len(Contents') = Occupied - 1
  <2>1. Occupied - 1 \in Nat
    BY <1>1, <1>2
  <2>2. Contents' \in [1 .. (Occupied - 1) -> Whole]
    BY <1>1 DEF Contents, RingInv, StoredWhole
  <2>3. QED BY <2>1, <2>2, FunctionIsSeq
<1> DEFINE rest == Tail(Contents)
<1>4. /\ rest \in Seq(Whole) /\ Len(rest) = Occupied - 1
      /\ \A i \in 1 .. (Occupied - 1) : rest[i] = Contents[i + 1]
  BY <1>2, HeadTailProperties
<1>5. \A i \in 1 .. (Occupied - 1) : Contents'[i] = buffer[SlotOf(i + 1)]
  BY <1>1 DEF Contents
<1>6. \A i \in 1 .. (Occupied - 1) : Contents[i + 1] = buffer[SlotOf(i + 1)]
  BY <1>2 DEF Contents
<1>7. Contents' = rest
  <2> HIDE DEF rest
  <2>1. \A i \in 1 .. (Occupied - 1) : Contents'[i] = rest[i]
    BY <1>4, <1>5, <1>6
  <2>2. QED BY <1>3, <1>4, <2>1, SeqEqual
<1>8. QED
  BY <1>1, <1>2, <1>7

(* What the FIFO may do in one step, over the slots between the indices.   *)
FifoStep ==
  \/ \E item \in Whole :
       /\ Len(Contents) < kCapacity /\ Contents' = Append(Contents, item)
       /\ enqueued' = TRUE /\ UNCHANGED dequeued
  \/ /\ Len(Contents) = kCapacity
     /\ enqueued' = FALSE /\ UNCHANGED <<Contents, dequeued>>
  \/ /\ Contents # <<>> /\ dequeued' = Head(Contents)
     /\ Contents' = Tail(Contents) /\ UNCHANGED enqueued
  \/ /\ Contents # <<>> /\ dequeued' = Head(Contents)
     /\ UNCHANGED <<Contents, enqueued>>
  \/ /\ Contents = <<>> /\ dequeued' = Nothing
     /\ UNCHANGED <<Contents, enqueued>>
  \/ UNCHANGED <<Contents, enqueued, dequeued>>

(* Every step keeps the invariant and is a step of the FIFO.               *)
LEMMA RingNextInv ==
  ASSUME RingInv, [RingNext]_ringVars
  PROVE  RingInv' /\ FifoStep
<1>0. ASSUME UNCHANGED <<buffer, indices>>
      PROVE  Contents' = Contents
  BY <1>0, ContentsStay
<1>1. CASE CallEnqueue
  BY <1>0, <1>1, CallEnqueueKeeps DEF CallEnqueue, FifoStep
<1>2. CASE ProducerSize
  BY <1>0, <1>2, ProducerSizeKeeps DEF ProducerSize, FifoStep
<1>3. CASE EnqueueTest
  <2>1. Contents' = Contents /\ dequeued' = dequeued
    BY <1>0, <1>3 DEF EnqueueTest, ProducerStep, indices
  <2>2. CASE isFull
    <3>1. enqueued' = FALSE
      BY <1>3, <2>2 DEF EnqueueTest
    <3>2. Len(Contents) = kCapacity
      BY <2>2, ContentsAre, InvIndices DEF RingInv
    <3>3. QED BY <1>3, <2>1, <3>1, <3>2, EnqueueTestKeeps DEF FifoStep
  <2>3. CASE ~isFull
    <3>1. enqueued' = enqueued
      BY <1>3, <2>3 DEF EnqueueTest
    <3>2. QED BY <1>3, <2>1, <3>1, EnqueueTestKeeps DEF FifoStep
  <2>4. QED BY <2>2, <2>3
<1>4. CASE EnqueueFirst \/ EnqueueSecond
  <2>1. RingInv' /\ Contents' = Contents
    BY <1>4, EnqueueStoreKeeps, ContentsStay
  <2>2. UNCHANGED <<enqueued, dequeued>>
    BY <1>4 DEF EnqueueFirst, EnqueueSecond, ProducerStep
  <2>3. QED BY <2>1, <2>2 DEF FifoStep
<1>5. CASE EnqueuePublish
  <2>1. enqueued' = TRUE /\ dequeued' = dequeued
    BY <1>5 DEF EnqueuePublish, ProducerStep
  <2>2. QED BY <1>5, <2>1, EnqueuePublishKeeps, ContentsAppend DEF FifoStep
<1>6. CASE CallDequeue \/ CallPeek \/ CallClear
  <2>1. UNCHANGED <<buffer, indices, enqueued, dequeued>>
    BY <1>6 DEF CallDequeue, CallPeek, CallClear, Call
  <2>2. QED BY <1>0, <1>6, <2>1, ConsumerCallKeeps DEF FifoStep
<1>7. CASE ConsumerSize
  BY <1>0, <1>7, ConsumerSizeKeeps DEF ConsumerSize, FifoStep
<1>8. CASE DequeueTest
  <2>1. Contents' = Contents /\ enqueued' = enqueued
    BY <1>0, <1>8 DEF DequeueTest, ConsumerStep, indices
  <2>2. CASE isEmpty
    <3>1. dequeued' = Nothing
      BY <1>8, <2>2 DEF DequeueTest
    <3>2. Contents = <<>>
      BY <2>2, ContentsAre, InvIndices DEF RingInv
    <3>3. QED BY <1>8, <2>1, <3>1, <3>2, DequeueTestKeeps DEF FifoStep
  <2>3. CASE ~isEmpty
    <3>1. dequeued' = dequeued
      BY <1>8, <2>3 DEF DequeueTest
    <3>2. QED BY <1>8, <2>1, <3>1, DequeueTestKeeps DEF FifoStep
  <2>4. QED BY <2>2, <2>3
<1>9. CASE DequeueFirst
  <2>1. UNCHANGED <<buffer, indices, enqueued, dequeued>>
    BY <1>9 DEF DequeueFirst, ConsumerStep, indices
  <2>2. QED BY <1>0, <1>9, <2>1, DequeueFirstKeeps DEF FifoStep
<1>10. CASE DequeueSecond
  <2>1. /\ RingInv' /\ Occupied > 0
        /\ UNCHANGED <<buffer, indices, enqueued>>
        /\ dequeued' = dequeued \/ dequeued' = buffer[read_index]
    BY <1>10, DequeueSecondKeeps
  <2>2. Contents # <<>> /\ Head(Contents) = buffer[read_index]
    BY <2>1, ContentsAre
  <2>3. QED BY <1>0, <2>1, <2>2 DEF FifoStep
<1>11. CASE DequeueAdvance
  BY <1>11, DequeueAdvanceKeeps, ContentsTail DEF FifoStep
<1>12. CASE UNCHANGED ringVars
  <2>1. UNCHANGED <<buffer, indices, enqueued, dequeued>>
    BY <1>12 DEF ringVars
  <2>2. RingInv'
    <3>1. Occupied' = Occupied /\ \A k : SlotOf(k)' = SlotOf(k)
      BY <2>1, SameIndices
    <3>2. QED BY <1>12, <3>1
      DEF RingInv, RingTypeOK, StoredWhole, ProducerHas, ConsumerHas, SizeIsUsable,
          ringVars, indices
  <2>3. QED BY <1>0, <2>1, <2>2 DEF FifoStep
<1>13. QED
  BY <1>1, <1>2, <1>3, <1>4, <1>5, <1>6, <1>7, <1>8, <1>9, <1>10, <1>11, <1>12
  DEF RingNext, Producing, Consuming

(* The ring starts empty.                                                  *)
LEMMA RingInitInv ==
  ASSUME RingInit
  PROVE  RingInv /\ Contents = <<>>
<1>1. kCapacity \in Nat \ {0} /\ 0 \in Indices
  BY RingAssumption DEF Indices
<1>2. Occupied = 0
  BY DEF RingInit, Occupied
<1>3. RingTypeOK
  <2>1. <<Nothing, Nothing>> \in Slots /\ <<>> \in Seq(Values)
    BY DEF Slots, Halves
  <2>2. QED BY <1>1, <2>1 DEF RingInit, RingTypeOK, Producers, Consumers
<1>4. RingInv
  BY <1>1, <1>2, <1>3
  DEF RingInit, RingInv, StoredWhole, ProducerHas, ConsumerHas, SizeIsUsable
<1>5. QED
  BY <1>2, <1>4, ContentsAre

(* The invariant holds in every state the ring reaches.                    *)
LEMMA RingAlwaysInv == RingSpec => []RingInv
<1>1. RingInit => RingInv
  BY RingInitInv
<1>2. RingInv /\ [RingNext]_ringVars => RingInv'
  BY RingNextInv
<1>3. QED
  BY <1>1, <1>2, PTL DEF RingSpec

-----------------------------------------------------------------------------
(* What size() told the consumer it can still dequeue, and what it left    *)
(* the producer it can still enqueue, for every capacity and index width.  *)
THEOREM RingSizeIsUsable == RingSpec => []SizeIsUsable
<1>1. RingInv => SizeIsUsable
  BY DEF RingInv
<1>2. QED
  BY <1>1, RingAlwaysInv, PTL

(* The ring buffer, its two sides interleaved between any two accesses,    *)
(* implements the bounded FIFO: no item is lost, repeated, reordered or    *)
(* torn, and a refusal tells the truth (enqueue(), dequeue(), peek()).     *)
THEOREM RingImplementsFifo == RingSpec => ImplementsFifo
<1>1. RingInit => Fifo!FifoInit
  <2> SUFFICES ASSUME RingInit PROVE Fifo!FifoInit
    OBVIOUS
  <2>1. Contents = <<>> /\ enqueued = TRUE /\ dequeued = Nothing
    BY RingInitInv DEF RingInit
  <2>2. QED BY <2>1 DEF Fifo!FifoInit, Contents
<1>2. RingInv /\ [RingNext]_ringVars => [Fifo!FifoNext]_(Fifo!fifoVars)
  <2> SUFFICES ASSUME RingInv, [RingNext]_ringVars
               PROVE  [Fifo!FifoNext]_(Fifo!fifoVars)
    OBVIOUS
  <2>1. FifoStep
    BY RingNextInv
  <2>2. QED BY <2>1
    DEF FifoStep, Contents, Whole, Fifo!FifoNext, Fifo!fifoVars, Fifo!Put,
        Fifo!Refuse, Fifo!Take, Fifo!Look, Fifo!FindNothing
<1>3. QED
  BY <1>1, <1>2, RingAlwaysInv, PTL DEF RingSpec, ImplementsFifo, Fifo!FifoSpec

=============================================================================
