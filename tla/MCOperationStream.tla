------------------------- MODULE MCOperationStream -------------------------
(* A writer and a reaper race on the metadata while two streams come and go. *)
EXTENDS OperationStream, TLC

MCCheckpoints == {1}

\* One event for each way an event bears on a stream and on the ladder.
MCStored == {"started", "progress", "completed", "cancelled", "awaiting_input"}

StreamsAlike == Permutations(Streams)

=============================================================================
