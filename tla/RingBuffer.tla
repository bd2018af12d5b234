----------------------------- MODULE RingBuffer -----------------------------
(***************************************************************************)
(* containers/ring_buffer.h with its two users, a producer (an interrupt   *)
(* handler or a thread) and a consumer, interleaved at every access to     *)
(* what they share: the two atomic indices and the slots.  A slot is not   *)
(* atomic: an item is copied in two halves, so that a copy which overlaps  *)
(* a store of the other side shows as an item of two different halves.     *)
(*                                                                         *)
(* Each index is stored by one side only, so the load of one's own index   *)
(* is no step of its own.                                                  *)
(***************************************************************************)
EXTENDS Naturals, Sequences

CONSTANTS
  Values,         \* the items, as the two equal halves of a slot hold them
  kCapacity,      \* template parameter: items the queue can contain
  IndexModulus,   \* values of IndexType: 2^16 for the default
  MaxSpan,        \* bound: items in one call with a Span
  Nothing         \* no item: dequeue and peek returned false

\* The index type must hold the capacity.  The class does not assert it.
ASSUME RingAssumption ==
  /\ kCapacity \in Nat \ {0} /\ IndexModulus \in Nat
  /\ kCapacity < IndexModulus
  /\ MaxSpan \in Nat \ {0}
  /\ Nothing \notin Values \X Values

VARIABLES
  buffer,        \* kCapacity + 1 slots
  write_index,   \* stored by the producer
  read_index,    \* stored by the consumer
  producer,      \* its program counter and the items it has yet to enqueue
  consumer,      \* its program counter, call, budget and local item
  enqueued,      \* what the last enqueue() of one item returned
  dequeued,      \* what the last dequeue() or peek() of one item returned
  room,          \* enqueues the producer may count on, after its size()
  stock          \* dequeues the consumer may count on, after its size()

indices == <<write_index, read_index>>
ringVars == <<buffer, indices, producer, consumer, enqueued, dequeued, room, stock>>

Indices == 0 .. kCapacity

increment(index) == IF index = kCapacity THEN 0 ELSE (index + 1) % IndexModulus

isEmpty == write_index = read_index

\* Fault: the oldest item is overwritten.
NeverFull == FALSE

isFull == increment(write_index) = read_index

\* Fault: the spare slot is forgotten when the indices have wrapped.
SizeWithoutSpare ==
  IF write_index >= read_index THEN write_index - read_index
  ELSE (kCapacity - read_index) + write_index

size ==
  IF write_index >= read_index THEN write_index - read_index
  ELSE ((kCapacity + 1 - read_index) + write_index) % IndexModulus

RingInit ==
  /\ buffer = [index \in Indices |-> <<Nothing, Nothing>>]
  /\ write_index = 0 /\ read_index = 0
  /\ producer = [pc |-> "test", span |-> <<>>]
  /\ consumer = [pc |-> "test", call |-> "None", left |-> 0,
                 item |-> <<Nothing, Nothing>>]
  /\ enqueued = TRUE /\ dequeued = Nothing
  /\ room = 0 /\ stock = 0

Less(n) == IF n = 0 THEN 0 ELSE n - 1

-----------------------------------------------------------------------------
(* The producer: enqueue() of an item or of a Span, size().                *)

ProducerStep(pc) ==
  /\ producer.span # <<>> /\ producer.pc = pc
  /\ UNCHANGED <<read_index, consumer, dequeued, stock>>

CallEnqueue ==
  /\ producer.span = <<>>
  /\ \E n \in 1 .. MaxSpan : \E items \in [1 .. n -> Values] :
       producer' = [pc |-> "test", span |-> items]
  /\ UNCHANGED <<buffer, indices, consumer, enqueued, dequeued, room, stock>>

(* A full ring ends the call, also in the middle of a Span: the items      *)
(* before stay enqueued.                                                   *)
EnqueueTest ==
  /\ ProducerStep("test")
  /\ IF isFull
     THEN /\ producer' = [producer EXCEPT !.span = <<>>]
          /\ enqueued' = FALSE
     ELSE /\ producer' = [producer EXCEPT !.pc = "first"]
          /\ UNCHANGED enqueued
  /\ UNCHANGED <<buffer, write_index, room>>

StoreHalf(half) == buffer' = [buffer EXCEPT ![write_index][half] = Head(producer.span)]

EnqueueFirst ==
  /\ ProducerStep("first")
  /\ StoreHalf(1)
  /\ producer' = [producer EXCEPT !.pc = "second"]
  /\ UNCHANGED <<write_index, enqueued, room>>

EnqueueSecond ==
  /\ ProducerStep("second")
  /\ StoreHalf(2)
  /\ producer' = [producer EXCEPT !.pc = "publish"]
  /\ UNCHANGED <<write_index, enqueued, room>>

EnqueuePublish ==
  /\ ProducerStep("publish")
  /\ write_index' = increment(write_index)
  /\ producer' = [pc |-> "test", span |-> Tail(producer.span)]
  /\ enqueued' = TRUE
  /\ room' = Less(room)
  /\ UNCHANGED buffer

ProducerSize ==
  /\ producer.span = <<>>
  /\ room' = kCapacity - size
  /\ UNCHANGED <<buffer, indices, producer, consumer, enqueued, dequeued, stock>>

-----------------------------------------------------------------------------
(* The consumer: dequeue() of an item or of a Span, peek(), clear(),       *)
(* size().                                                                 *)

ConsumerStep(pc) ==
  /\ consumer.call # "None" /\ consumer.pc = pc
  /\ UNCHANGED <<buffer, write_index, producer, enqueued, room>>

Call(call, left) ==
  /\ consumer.call = "None"
  /\ consumer' = [consumer EXCEPT !.call = call, !.left = left, !.pc = "test"]
  /\ UNCHANGED <<buffer, indices, producer, enqueued, dequeued, room, stock>>

CallDequeue == \E n \in 1 .. MaxSpan : Call("Dequeue", n)
CallPeek == Call("Peek", 1)
CallClear == Call("Clear", 0)

Return(c) == [c EXCEPT !.call = "None", !.pc = "test", !.left = 0,
                       !.item = <<Nothing, Nothing>>]

DequeueTest ==
  /\ ConsumerStep("test")
  /\ IF isEmpty
     THEN consumer' = Return(consumer) /\ dequeued' = Nothing
     ELSE /\ consumer' = [consumer EXCEPT !.pc = "first"]
          /\ UNCHANGED dequeued
  /\ UNCHANGED <<read_index, stock>>

CopyHalf(half, next) ==
  [consumer EXCEPT !.item[half] = buffer[read_index][half], !.pc = next]

DequeueFirst ==
  /\ ConsumerStep("first")
  /\ consumer' = CopyHalf(1, "second")
  /\ UNCHANGED <<read_index, dequeued, stock>>

(* The copy is complete.  peek() returns with it; dequeue() goes on to     *)
(* give the slot back.                                                     *)
DequeueSecond ==
  /\ ConsumerStep("second")
  /\ LET copied == CopyHalf(2, "advance")
     IN  IF consumer.call = "Peek"
         THEN consumer' = Return(copied) /\ dequeued' = copied.item
         ELSE consumer' = copied /\ UNCHANGED dequeued
  /\ UNCHANGED <<read_index, stock>>

(* clear() goes round until it finds the ring empty, dequeue() until its   *)
(* Span is full.                                                           *)
DequeueAdvance ==
  /\ ConsumerStep("advance")
  /\ read_index' = increment(read_index)
  /\ dequeued' = consumer.item
  /\ consumer' = IF consumer.call = "Dequeue" /\ consumer.left = 1
                 THEN Return(consumer)
                 ELSE [consumer EXCEPT !.pc = "test", !.left = Less(@),
                                       !.item = <<Nothing, Nothing>>]
  /\ stock' = Less(stock)

ConsumerSize ==
  /\ consumer.call = "None"
  /\ stock' = size
  /\ UNCHANGED <<buffer, indices, producer, consumer, enqueued, dequeued, room>>

-----------------------------------------------------------------------------

Producing ==
  EnqueueTest \/ EnqueueFirst \/ EnqueueSecond \/ EnqueuePublish

Consuming ==
  DequeueTest \/ DequeueFirst \/ DequeueSecond \/ DequeueAdvance

RingNext ==
  \/ CallEnqueue \/ ProducerSize \/ Producing
  \/ CallDequeue \/ CallPeek \/ CallClear \/ ConsumerSize \/ Consuming

RingSpec == RingInit /\ [][RingNext]_ringVars

-----------------------------------------------------------------------------
(* Properties.                                                             *)

Occupied ==
  IF write_index >= read_index THEN write_index - read_index
  ELSE write_index + kCapacity + 1 - read_index

SlotOf(k) ==
  IF read_index + k - 1 <= kCapacity THEN read_index + k - 1
  ELSE read_index + k - 1 - (kCapacity + 1)

Fifo == INSTANCE BoundedFifo WITH
  Items <- {<<value, value>> : value \in Values},
  Capacity <- kCapacity,
  contents <- [k \in 1 .. Occupied |-> buffer[SlotOf(k)]],
  put <- enqueued,
  got <- dequeued

(* Producer and consumer, interleaved between any two accesses, see one    *)
(* FIFO of kCapacity whole items: none is lost, repeated, reordered or     *)
(* torn, enqueue() refuses only a ring that holds kCapacity items and      *)
(* dequeue() fails only on one that holds none (ring_buffer.h:56-104).     *)
ImplementsFifo == Fifo!FifoSpec

(* What size() tells either side stays usable while the other goes on: the *)
(* consumer can dequeue that many items, the producer can enqueue what is  *)
(* left (ring_buffer.h:47-54).                                             *)
SizeIsUsable ==
  /\ stock <= Occupied
  /\ room <= kCapacity - Occupied

=============================================================================
