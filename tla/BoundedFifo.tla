----------------------------- MODULE BoundedFifo ----------------------------
(***************************************************************************)
(* What containers/ring_buffer.h promises its two users: a FIFO of at most *)
(* Capacity items, whose operations take effect at one instant and answer  *)
(* for that instant.                                                       *)
(***************************************************************************)
EXTENDS Naturals, Sequences

CONSTANTS
  Items,      \* what may be stored
  Capacity,   \* how many fit
  Nothing     \* the answer of an empty queue

VARIABLES
  contents,   \* the items stored, oldest first
  put,        \* the last answer the producer got
  got         \* the last item the consumer got, or Nothing

fifoVars == <<contents, put, got>>

FifoInit == contents = <<>> /\ put = TRUE /\ got = Nothing

Put(item) ==
  /\ Len(contents) < Capacity
  /\ contents' = Append(contents, item)
  /\ put' = TRUE
  /\ UNCHANGED got

Refuse ==
  /\ Len(contents) = Capacity
  /\ put' = FALSE
  /\ UNCHANGED <<contents, got>>

Take ==
  /\ contents # <<>>
  /\ got' = Head(contents)
  /\ contents' = Tail(contents)
  /\ UNCHANGED put

Look ==
  /\ contents # <<>>
  /\ got' = Head(contents)
  /\ UNCHANGED <<contents, put>>

FindNothing ==
  /\ contents = <<>>
  /\ got' = Nothing
  /\ UNCHANGED <<contents, put>>

FifoNext ==
  \/ \E item \in Items : Put(item)
  \/ Refuse \/ Take \/ Look \/ FindNothing

FifoSpec == FifoInit /\ [][FifoNext]_fifoVars

=============================================================================
