----------------------------- MODULE EventStore -----------------------------
(***************************************************************************)
(* The metadata of one SSE operation in Valkey and everything that writes  *)
(* it (middleware/sse/event_storage.py; the reaper's _fail_operation_sync  *)
(* in dagster/sensors/worker_reaper.py).  Operations share no state, so    *)
(* one is enough.  A step is one round trip to Valkey: a writer reads a    *)
(* snapshot, then decides and writes from it.                              *)
(*                                                                         *)
(*   SyncWriters   store_event_sync: WATCH on the pipeline, a real CAS     *)
(*   AsyncWriters  store_event: watch() on the pooled client, which guards *)
(*                 nothing, then a plain pipeline SETEX                    *)
(*   Recorders     update_operation_result_sync: GET, then SETEX           *)
(*   Reapers       _fail_operation_sync: WATCH on the pipeline             *)
(***************************************************************************)
EXTENDS OperationStatus

CONSTANTS AsyncWriters, SyncWriters, Recorders, Reapers, Checkpoints, ResultKeys

Writers == AsyncWriters \union SyncWriters \union Recorders \union Reapers

ASSUME CheckpointsAssumption == Checkpoints \subseteq Nat \ {NoRequest}

VARIABLES
  status, request, result,  \* the metadata record; result is result_data's keys
  envelope,   \* the idempotency envelope cached for the operation still exists
  missed,     \* history: an eviction that failed has left the envelope
  watching,   \* the writers whose WATCH on the key is still intact
  pc,         \* "idle", "write" (snapshot taken) or "evict"
  call        \* each writer's locals: the event, the checkpoint it carries and
              \* the metadata it read

meta == <<status, request, result>>
cached == <<envelope, missed>>
vars == <<meta, cached, watching, pc, call>>

Requests == Checkpoints \union {NoRequest}
Snapshot == [status : Status, request : Requests, result : SUBSET ResultKeys]
Call == [event : Event, asked : Requests, snap : Snapshot]

Fresh == [status |-> "pending", request |-> NoRequest, result |-> {}]
NoCall == [event |-> "started", asked |-> NoRequest, snap |-> Fresh]

TypeOK ==
  /\ status \in Status \union {Absent}
  /\ request \in Requests
  /\ result \subseteq ResultKeys
  /\ envelope \in BOOLEAN /\ missed \in BOOLEAN
  /\ watching \subseteq Writers
  /\ pc \in [Writers -> {"idle", "write", "evict"}]
  /\ call \in [Writers -> Call]

\* create_operation has run and the dispatcher has cached its envelope.
Init ==
  /\ status = "pending" /\ request = NoRequest /\ result = {}
  /\ envelope = TRUE /\ missed = FALSE
  /\ watching = {}
  /\ pc = [w \in Writers |-> "idle"]
  /\ call = [w \in Writers |-> NoCall]

-----------------------------------------------------------------------------
(* Reading a snapshot *)

\* Mutant: the existence check is gone.
ReadsAbsent(w, e, k) ==
  /\ pc[w] = "idle"
  /\ (e = "awaiting_input") = (k # NoRequest)
  /\ pc' = [pc EXCEPT ![w] = "write"]
  /\ call' = [call EXCEPT ![w] =
       [event |-> e, asked |-> k,
        snap |-> [status |-> status, request |-> request, result |-> result]]]
  /\ UNCHANGED <<meta, cached>>

\* GET of an existing key; a missing one ends the call (return, or ValueError
\* from store_event) with nothing changed.  Only a pause carries a checkpoint.
Read(w, e, k) ==
  /\ pc[w] = "idle"
  /\ status # Absent
  /\ (e = "awaiting_input") = (k # NoRequest)
  /\ pc' = [pc EXCEPT ![w] = "write"]
  /\ call' = [call EXCEPT ![w] =
       [event |-> e, asked |-> k,
        snap |-> [status |-> status, request |-> request, result |-> result]]]
  /\ UNCHANGED <<meta, cached>>

AsyncRead(w, e, k) == Read(w, e, k) /\ UNCHANGED watching

SyncRead(w, e, k) == Read(w, e, k) /\ watching' = watching \union {w}

\* No event: the recorder keeps the status it read.
RecordRead(w) == Read(w, "started", NoRequest) /\ UNCHANGED watching

ReaperRead(w) == status \in OpenStatuses /\ SyncRead(w, "error", NoRequest)

-----------------------------------------------------------------------------
(* Writing what the snapshot implies *)

New(w) == NextStatus[call[w].event]

Allowed(w) == TransitionAllowed(call[w].snap.status, New(w))

\* Mutant: a cancellation is not a failure.
EntersFailedOnly(w) ==
  /\ New(w) = "failed"
  /\ call[w].snap.status \notin TerminalStatuses

EntersFailure(w) ==
  /\ New(w) \in TerminalFailureStatuses
  /\ call[w].snap.status \notin TerminalStatuses

\* The call ends, at the eviction if its write moved the operation into failure.
Finish(w, next) ==
  /\ pc' = [pc EXCEPT ![w] = next]
  /\ call' = [call EXCEPT ![w] = NoCall]

\* The whole record is rewritten from the snapshot with the event applied,
\* which dirties every other WATCH on the key.  A completion merges its result
\* into what the Dagster job recorded.
Put(w, carried) ==
  /\ status' = New(w)
  /\ request' = ApplyInputRequest(call[w].snap.request, call[w].event, call[w].asked)
  /\ result' = call[w].snap.result \union
                 (IF call[w].event = "completed" THEN carried ELSE {})
  /\ watching' = {}
  /\ Finish(w, IF EntersFailure(w) THEN "evict" ELSE "idle")

Skip(w) ==
  /\ watching' = watching \ {w}
  /\ Finish(w, "idle")
  /\ UNCHANGED meta

AsyncWrite(w, carried) ==
  /\ pc[w] = "write"
  /\ IF Allowed(w) /\ status # Absent THEN Put(w, carried) ELSE Skip(w)
  /\ UNCHANGED cached

\* Mutant: EXEC without the WATCH.
UnwatchedWrite(w, carried) ==
  /\ pc[w] = "write"
  /\ IF Allowed(w) /\ status # Absent THEN Put(w, carried) ELSE Skip(w)
  /\ UNCHANGED cached

\* EXEC runs only if the WATCH is intact; a lost CAS drops the event.
SyncWrite(w, carried) ==
  /\ pc[w] = "write"
  /\ IF Allowed(w) /\ w \in watching THEN Put(w, carried) ELSE Skip(w)
  /\ UNCHANGED cached

\* SETEX of the snapshot with one more result key: no WATCH, and it re-creates
\* a key that has expired meanwhile.
RecordWrite(w, key) ==
  /\ pc[w] = "write"
  /\ status' = call[w].snap.status
  /\ request' = call[w].snap.request
  /\ result' = call[w].snap.result \union {key}
  /\ watching' = {}
  /\ Finish(w, "idle")
  /\ UNCHANGED cached

\* The binding is read and what it names deleted.
Evict(w) ==
  /\ pc[w] = "evict"
  /\ envelope' = FALSE
  /\ Finish(w, "idle")
  /\ UNCHANGED <<meta, missed, watching>>

\* The lookup or the DEL fails, which is logged and swallowed, there is no
\* binding to read, or the process dies before it gets here: nothing tries
\* again.  A DEL whose answer alone is lost is Evict.
EvictionFails(w) ==
  /\ pc[w] = "evict"
  /\ missed' = (missed \/ envelope)
  /\ Finish(w, "idle")
  /\ UNCHANGED <<meta, envelope, watching>>

\* The key's TTL runs out.
Expire ==
  /\ status # Absent
  /\ status' = Absent /\ request' = NoRequest /\ result' = {}
  /\ watching' = {}
  /\ UNCHANGED <<cached, pc, call>>

AsyncStep ==
  \E w \in AsyncWriters :
    \/ \E e \in Event, k \in Requests : AsyncRead(w, e, k)
    \/ \E carried \in SUBSET ResultKeys : AsyncWrite(w, carried)
    \/ Evict(w) \/ EvictionFails(w)

RecordStep ==
  \E w \in Recorders :
    \/ RecordRead(w)
    \/ \E key \in ResultKeys : RecordWrite(w, key)

SyncStep ==
  \E w \in SyncWriters :
    \/ \E e \in Event, k \in Requests : SyncRead(w, e, k)
    \/ \E carried \in SUBSET ResultKeys : SyncWrite(w, carried)
    \/ Evict(w) \/ EvictionFails(w)

ReaperStep ==
  \E w \in Reapers :
    \/ ReaperRead(w)
    \/ SyncWrite(w, {})
    \/ Evict(w) \/ EvictionFails(w)

CasNext == SyncStep \/ ReaperStep \/ Expire

Next == CasNext \/ AsyncStep \/ RecordStep

Spec == Init /\ [][Next]_vars

\* The same store when every writer uses the compare-and-set path.
CasSpec == Init /\ [][CasNext]_vars

-----------------------------------------------------------------------------
(* Properties *)

\* The first terminal status is final (the comment above _STATUS_PRIORITY): no
\* later event, duplicate or late writer moves a completed, failed or
\* cancelled operation to another status; only expiry ends it.
TerminalIsFinal ==
  [][(status \in TerminalStatuses) => (status' \in {status, Absent})]_vars

Ladder == INSTANCE OperationLadder
  WITH Checkpoints <- Checkpoints, status <- status, request <- request

\* Racing compare-and-set writers leave the operation as if each permitted
\* event had been applied at once: event_storage's CAS implements the ladder.
ImplementsLadder == Ladder!Spec

\* The idempotency envelope follows the outcome: once the operation has failed or
\* been cancelled it is gone, or its eviction is under way, unless that one
\* eviction failed; and it is still there for a client's retry while the
\* operation is open, paused or completed (entering_failure in
\* _update_operation_metadata_sync and the reaper).
EnvelopeFollowsOutcome ==
  /\ status \in TerminalFailureStatuses =>
       envelope = FALSE \/ missed \/ \E w \in Writers : pc[w] = "evict"
  /\ envelope = FALSE => status \in TerminalFailureStatuses \union {Absent}

\* A paused operation always carries the checkpoint its resume needs, whatever
\* writers race, so the resume endpoint's "checkpoint was not recorded" branch
\* is never taken; and an operation in the queue or running carries none.
PauseCarriesRequest ==
  /\ status = "awaiting_input" => request # NoRequest
  /\ status \in OpenStatuses => request = NoRequest

=============================================================================
