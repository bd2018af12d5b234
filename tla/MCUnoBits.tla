------------------------------ MODULE MCUnoBits -----------------------------
(* The uploads of the UNO runs, all of two segments.  The script uses one  *)
(* session and one initial sequence number for every round trip; the       *)
(* hardware test's second object has another session and a shorter end.    *)
EXTENDS UnoBits

ScriptSetup(built, n) ==
  [session_id |-> IF built = "Ram" THEN 1 ELSE n,
   initial_sequence_number |-> 6, final_segment_index |-> 1,
   segment_size |-> 2,
   final_segment_size |-> IF built = "Boot" /\ n = 2 THEN 1 ELSE 2]

=============================================================================
