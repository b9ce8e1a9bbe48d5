---------------------------- MODULE MCEventStore ----------------------------
(* Two async writers race; one checkpoint can be paused at. *)
EXTENDS EventStore

MCCheckpoints == {1}

=============================================================================
