--------------------------- MODULE MCBitsEndpoints --------------------------
(* The requests of the endpoint runs: an object of two segments, and one   *)
(* whose sequence numbers go once around a modulus of four.                *)
EXTENDS BitsEndpoints

Request(session, first, size, segment) ==
  [session_id |-> session, initial_sequence_number |-> first,
   object_size |-> size, segment_size |-> segment]

OneTransfer == {Request(1, 7, 2, 1)}
LongTransfer == {Request(1, 3, 6, 1)}

=============================================================================
