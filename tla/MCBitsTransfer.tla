--------------------------- MODULE MCBitsTransfer ---------------------------
(* The requests of the transfer run: an object as wide as the window, and  *)
(* a second transfer whose first sequence number is the one the first      *)
(* transfer ends with.                                                     *)
EXTENDS BitsTransfer

Request(session, first, size, segment) ==
  [session_id |-> session, initial_sequence_number |-> first,
   object_size |-> size, segment_size |-> segment]

TwoSessions == {Request(1, 7, 2, 1), Request(2, 0, 1, 1)}

=============================================================================
