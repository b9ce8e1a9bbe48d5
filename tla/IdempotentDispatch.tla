------------------------- MODULE IdempotentDispatch -------------------------
(***************************************************************************)
(* middleware/operations.py: requests under an Idempotency-Key.  A request *)
(* looks its key up, claims it with SET NX, works, and records an envelope *)
(* or releases the claim.  Synchronous operations run there and then       *)
(* (execute_operation); dispatches enqueue a task (idempotent_dispatch     *)
(* around worker/client.py's enqueue_task) and bind the pending envelope   *)
(* to the operation, whose failure evicts it.  Each step is one round trip *)
(* to Valkey or the work between two of them.                              *)
(***************************************************************************)
EXTENDS Integers

CONSTANTS
  Syncs, Dispatches,   \* requests of the two kinds
  Keys, NoKey,         \* idempotency keys, scoped by user, graph and operation
  KeyOf,               \* the key each request carries, or NoKey
  Bodies, BodyOf,      \* body fingerprints (of a dispatch: its task parameters)
  Ops,                 \* operation ids
  NoOp,
  MaxBlips,            \* bound: cache calls that fail
  MaxOverruns,         \* bound: reservations that expire under their holder
  MaxCancels           \* bound: requests cancelled by their client

Requests == Syncs \union Dispatches

ASSUME RequestsAssumption ==
  /\ Syncs \intersect Dispatches = {}
  /\ NoKey \notin Keys /\ NoOp \notin Ops
  /\ KeyOf \in [Requests -> Keys \union {NoKey}]
  /\ BodyOf \in [Requests -> Bodies]

ASSUME BoundsAssumption ==
  {MaxBlips, MaxOverruns, MaxCancels} \subseteq Nat

VARIABLES
  cache,      \* each key's entry: nothing, a reservation marker, an envelope
  bound,      \* op-idem:{op}: the keys bound to each operation
  dedup,      \* worker:dedup: the operation last enqueued for a body
  task,       \* each operation: its status record and its task
  evicting,   \* where the terminal-status hook is with each operation
  doomed,     \* the keys it read for it
  pc, op,     \* where each request is and the operation it got
  answer,     \* what it was answered
  blips, overruns, cancels

shared == <<cache, bound, dedup>>
operations == <<task, evicting, doomed>>
requests == <<pc, op, answer>>
bounds == <<blips, overruns, cancels>>
vars == <<shared, operations, requests, bounds>>

NoEntry == [kind |-> "none"]

\* Mutant: a reservation that does not say for which body.
MarkerWithoutBody(body) == [kind |-> "marker"]

Marker(body) == [kind |-> "marker", body |-> body]
Envelope(body, o) == [kind |-> "envelope", body |-> body, op |-> o]

Entries ==
  {NoEntry} \union [kind : {"marker"}, body : Bodies]
            \union [kind : {"envelope"}, body : Bodies, op : Ops \union {NoOp}]

Working == {"work", "dedup", "create", "push"}
Releasing == {"release", "delete"}

TypeOK ==
  /\ cache \in [Keys -> Entries]
  /\ bound \in [Ops -> SUBSET Keys]
  /\ dedup \in [Bodies -> Ops \union {NoOp}]
  /\ task \in [Ops -> {"none", "created", "queued", "completed", "failed"}]
  /\ evicting \in [Ops -> {"no", "due", "collected", "done"}]
  /\ doomed \in [Ops -> SUBSET Keys]
  /\ pc \in [Requests -> {"new", "claim", "reread", "put", "bind", "done", "dead"}
                         \union Working \union Releasing]
  /\ op \in [Requests -> Ops \union {NoOp}]
  /\ answer \in [Requests -> {"none", "fresh", "replay", "conflict", "in_progress", "failed", "cancelled"}]
  /\ blips \in 0 .. MaxBlips
  /\ overruns \in 0 .. MaxOverruns
  /\ cancels \in 0 .. MaxCancels

Init ==
  /\ cache = [k \in Keys |-> NoEntry]
  /\ bound = [o \in Ops |-> {}]
  /\ dedup = [b \in Bodies |-> NoOp]
  /\ task = [o \in Ops |-> "none"]
  /\ evicting = [o \in Ops |-> "no"]
  /\ doomed = [o \in Ops |-> {}]
  /\ pc = [r \in Requests |-> "new"]
  /\ op = [r \in Requests |-> NoOp]
  /\ answer = [r \in Requests |-> "none"]
  /\ blips = 0 /\ overruns = 0 /\ cancels = 0

-----------------------------------------------------------------------------
Goto(r, next) == pc' = [pc EXCEPT ![r] = next] /\ UNCHANGED answer

Answer(r, a) ==
  /\ pc' = [pc EXCEPT ![r] = "done"]
  /\ answer' = [answer EXCEPT ![r] = a]

\* A cache call reaches Valkey, or fails and is swallowed.
Up == UNCHANGED bounds
Blip == blips < MaxBlips /\ blips' = blips + 1 /\ UNCHANGED <<overruns, cancels>>

Entry(r) == cache[KeyOf[r]]
SetEntry(r, entry) == cache' = [cache EXCEPT ![KeyOf[r]] = entry]

FirstStep(r) == IF r \in Syncs THEN "work" ELSE "dedup"

-----------------------------------------------------------------------------
(* Claiming the key *)

\* The verdict of IdempotencyCache.get on a hit.
Hit(r) ==
  Answer(r, CASE Entry(r).body # BodyOf[r] -> "conflict"
              [] Entry(r).kind = "marker" -> "in_progress"
              [] OTHER -> "replay")

\* The lookup; without a key there is none.
Lookup(r) ==
  /\ pc[r] = "new"
  /\ IF KeyOf[r] = NoKey THEN Goto(r, FirstStep(r)) /\ Up
     ELSE \/ Up /\ IF Entry(r) = NoEntry THEN Goto(r, "claim") ELSE Hit(r)
          \/ Blip /\ Goto(r, "claim")
  /\ UNCHANGED <<shared, operations, op>>

\* reserve: SET NX with the reservation's TTL.  An outage counts as success.
Claim(r) ==
  /\ pc[r] = "claim"
  /\ \/ /\ Up
        /\ IF Entry(r) = NoEntry
           THEN SetEntry(r, Marker(BodyOf[r])) /\ Goto(r, FirstStep(r))
           ELSE UNCHANGED cache /\ Goto(r, "reread")
     \/ Blip /\ UNCHANGED cache /\ Goto(r, FirstStep(r))
  /\ UNCHANGED <<bound, dedup, operations, op>>

\* Mutant: with the winner's claim gone, the loser works.
RereadWorks(r) ==
  /\ pc[r] = "reread"
  /\ IF Entry(r) = NoEntry THEN Goto(r, FirstStep(r)) ELSE Hit(r)
  /\ Up
  /\ UNCHANGED <<shared, operations, op>>

\* Losing the claim: replay what the winner recorded, or say it is in progress.
Reread(r) ==
  /\ pc[r] = "reread"
  /\ \/ Up /\ IF Entry(r) = NoEntry THEN Answer(r, "in_progress") ELSE Hit(r)
     \/ Blip /\ Answer(r, "in_progress")
  /\ UNCHANGED <<shared, operations, op>>

-----------------------------------------------------------------------------
(* The work *)

\* Mutant: a failure after the commit leaves the claim.
RunKeepsClaim(r) ==
  /\ pc[r] = "work"
  /\ Goto(r, "put") \/ Goto(r, "release") \/ Answer(r, "failed")
  /\ UNCHANGED <<shared, operations, op, bounds>>

\* The runner and its hook: success goes on to record, any failure to release,
\* also one of the hook after the runner committed.
Run(r) ==
  /\ pc[r] = "work"
  /\ Goto(r, "put") \/ Goto(r, "release")
  /\ UNCHANGED <<shared, operations, op, bounds>>

\* enqueue_task looks for a recent identical task; validation may also refuse
\* the request before.
DedupRead(r) ==
  LET recent == dedup[BodyOf[r]]
  IN /\ pc[r] = "dedup"
     /\ \/ recent # NoOp /\ op' = [op EXCEPT ![r] = recent] /\ Goto(r, "put")
        \/ recent = NoOp /\ Goto(r, "create") /\ UNCHANGED op
        \/ Goto(r, "release") /\ UNCHANGED op
     /\ UNCHANGED <<shared, operations, bounds>>

\* The operation's status record, under a fresh id.
Create(r, o) ==
  /\ pc[r] = "create"
  /\ task[o] = "none"
  /\ task' = [task EXCEPT ![o] = "created"]
  /\ op' = [op EXCEPT ![r] = o]
  /\ Goto(r, "push")
  /\ UNCHANGED <<shared, evicting, doomed, bounds>>

\* Mutant: no MULTI; the dedup key may go through alone.
PushInTwo(r) ==
  /\ pc[r] = "push"
  /\ dedup' = [dedup EXCEPT ![BodyOf[r]] = op[r]]
  /\ \/ task' = [task EXCEPT ![op[r]] = "queued"] /\ Goto(r, "put")
     \/ UNCHANGED task /\ Goto(r, "release")
  /\ UNCHANGED <<cache, bound, evicting, doomed, op, bounds>>

\* MULTI: the dedup key and the task, though the answer may be lost; or the queue
\* cannot be reached.
Push(r) ==
  /\ pc[r] = "push"
  /\ \/ /\ dedup' = [dedup EXCEPT ![BodyOf[r]] = op[r]]
        /\ task' = [task EXCEPT ![op[r]] = "queued"]
        /\ Goto(r, "put") \/ Goto(r, "release")
     \/ Goto(r, "release") /\ UNCHANGED <<dedup, task>>
  /\ UNCHANGED <<cache, bound, evicting, doomed, op, bounds>>

-----------------------------------------------------------------------------
(* Recording and releasing *)

\* put replaces whatever is under the key; a dispatch then binds its operation.
Put(r) ==
  /\ pc[r] = "put"
  /\ IF KeyOf[r] = NoKey THEN UNCHANGED cache /\ Up
     ELSE \/ Up /\ SetEntry(r, Envelope(BodyOf[r], op[r]))
          \/ Blip /\ UNCHANGED cache
  /\ IF r \in Dispatches /\ KeyOf[r] # NoKey THEN Goto(r, "bind") ELSE Answer(r, "fresh")
  /\ UNCHANGED <<bound, dedup, operations, op>>

Bind(r) ==
  /\ pc[r] = "bind"
  /\ \/ Up /\ bound' = [bound EXCEPT ![op[r]] = @ \union {KeyOf[r]}]
     \/ Blip /\ UNCHANGED bound
  /\ Answer(r, "fresh")
  /\ UNCHANGED <<cache, dedup, operations, op>>

\* release reads first, and deletes if it saw a marker, whoever's it was.
ReleaseRead(r) ==
  /\ pc[r] = "release"
  /\ IF KeyOf[r] = NoKey THEN Answer(r, "failed") /\ Up
     ELSE \/ Up /\ IF Entry(r).kind = "marker" THEN Goto(r, "delete") ELSE Answer(r, "failed")
          \/ Blip /\ Answer(r, "failed")
  /\ UNCHANGED <<shared, operations, op>>

ReleaseDelete(r) ==
  /\ pc[r] = "delete"
  /\ \/ Up /\ SetEntry(r, NoEntry)
     \/ Blip /\ UNCHANGED cache
  /\ Answer(r, "failed")
  /\ UNCHANGED <<bound, dedup, operations, op>>

\* The API process dies.
Crash(r) ==
  /\ pc[r] \notin {"new", "done", "dead"}
  /\ Goto(r, "dead")
  /\ UNCHANGED <<shared, operations, op, bounds>>

\* A request is cancelled.  While it looks at its key that releases nothing, not
\* even a claim whose answer was still under way; while a dispatch validates and
\* enqueues it releases the claim, as a failure does; once record has begun
\* nothing does, even if the envelope was not stored yet.  The release itself is
\* not shielded: it may be cut short before its GET or its DEL has reached the
\* cache, or after.  (execute_operation shields its work and its release.)
Cancelled(r) ==
  /\ cancels < MaxCancels
  /\ cancels' = cancels + 1
  /\ \/ pc[r] \in {"claim", "reread"} /\ Answer(r, "cancelled") /\ UNCHANGED cache
     \/ /\ pc[r] = "claim" /\ Entry(r) = NoEntry
        /\ SetEntry(r, Marker(BodyOf[r])) /\ Answer(r, "cancelled")
     \/ /\ r \in Dispatches /\ pc[r] \in Working
        /\ Goto(r, "release") /\ UNCHANGED cache
     \/ /\ r \in Dispatches /\ pc[r] \in {"put", "bind"} \union Releasing
        /\ Answer(r, "cancelled") /\ UNCHANGED cache
     \/ /\ r \in Dispatches /\ pc[r] = "delete"
        /\ SetEntry(r, NoEntry) /\ Answer(r, "cancelled")
  /\ UNCHANGED <<bound, dedup, operations, op, blips, overruns>>

-----------------------------------------------------------------------------
(* The operation and its eviction *)

\* Mutant: completion evicts like failure.
CompleteEvicts(o) ==
  /\ task[o] = "queued"
  /\ task' = [task EXCEPT ![o] = "completed"]
  /\ evicting' = [evicting EXCEPT ![o] = "due"]
  /\ UNCHANGED <<shared, doomed, requests, bounds>>

Complete(o) ==
  /\ task[o] = "queued"
  /\ task' = [task EXCEPT ![o] = "completed"]
  /\ UNCHANGED <<shared, evicting, doomed, requests, bounds>>

\* It fails or is cancelled; EventStore's status write, then its eviction hook.
Fail(o) ==
  /\ task[o] = "queued"
  /\ task' = [task EXCEPT ![o] = "failed"]
  /\ evicting' = [evicting EXCEPT ![o] = "due"]
  /\ UNCHANGED <<shared, doomed, requests, bounds>>

EvictTo(o, next) == evicting' = [evicting EXCEPT ![o] = next]

\* invalidate_operation: SMEMBERS, then DEL of the keys and the set.
Collect(o) ==
  /\ evicting[o] = "due"
  /\ \/ /\ Up
        /\ doomed' = [doomed EXCEPT ![o] = bound[o]]
        /\ EvictTo(o, IF bound[o] = {} THEN "done" ELSE "collected")
     \/ Blip /\ UNCHANGED doomed /\ EvictTo(o, "done")
  /\ UNCHANGED <<shared, task, requests>>

Delete(o) ==
  /\ evicting[o] = "collected"
  /\ \/ /\ Up
        /\ cache' = [k \in Keys |-> IF k \in doomed[o] THEN NoEntry ELSE cache[k]]
        /\ bound' = [bound EXCEPT ![o] = {}]
     \/ Blip /\ UNCHANGED <<cache, bound>>
  /\ EvictTo(o, "done")
  /\ UNCHANGED <<dedup, task, doomed, requests>>

\* The request holds its key's claim, or works as if it did.
Holding(r) == KeyOf[r] \in Keys /\ pc[r] \in Working \union Releasing \union {"put"}

\* TTLs.  A marker that was left behind expires, or one whose holder's work takes
\* longer; the 24 h of an envelope are longer than any behaviour considered.
ExpireMarker(k) ==
  /\ cache[k].kind = "marker"
  /\ IF \E r \in Requests : Holding(r) /\ KeyOf[r] = k
     THEN overruns < MaxOverruns /\ overruns' = overruns + 1
     ELSE UNCHANGED overruns
  /\ cache' = [cache EXCEPT ![k] = NoEntry]
  /\ UNCHANGED <<bound, dedup, operations, requests, blips, cancels>>

ExpireDedup(b) ==
  /\ dedup[b] # NoOp
  /\ dedup' = [dedup EXCEPT ![b] = NoOp]
  /\ UNCHANGED <<cache, bound, operations, requests, bounds>>

-----------------------------------------------------------------------------
RequestStep(r) ==
  \/ Lookup(r) \/ Claim(r) \/ Reread(r)
  \/ Run(r) \/ DedupRead(r) \/ Push(r) \/ \E o \in Ops : Create(r, o)
  \/ Put(r) \/ Bind(r) \/ ReleaseRead(r) \/ ReleaseDelete(r)

OperationStep(o) == Complete(o) \/ Fail(o) \/ Collect(o) \/ Delete(o)

Next ==
  \/ \E r \in Requests : RequestStep(r) \/ Crash(r) \/ Cancelled(r)
  \/ \E o \in Ops : OperationStep(o)
  \/ \E k \in Keys : ExpireMarker(k)
  \/ \E b \in Bodies : ExpireDedup(b)

Spec == Init /\ [][Next]_vars

-----------------------------------------------------------------------------
(* Properties *)

\* The cache has answered every call and work has ended within its reservation:
\* what the guard presupposes ("IDEMPOTENCY_RESERVATION_TTL_SECONDS", and the
\* cache is best-effort).
Guarded == blips = 0 /\ overruns = 0

\* Guarded requests with one key never work side by side: the second is told
\* "in progress" whatever fails, is released, crashes or expires around it.
OneHolderPerKey ==
  Guarded =>
    \A r1, r2 \in Requests :
      Holding(r1) /\ Holding(r2) /\ KeyOf[r1] = KeyOf[r2] => r1 = r2

\* And an operation is recorded once per key: a second request is answered fresh
\* only after the first one's operation failed.
RecordedOncePerKey ==
  Guarded =>
    \A r1, r2 \in Requests :
      /\ r1 # r2 /\ KeyOf[r1] = KeyOf[r2] /\ KeyOf[r1] # NoKey
      /\ answer[r1] = "fresh" /\ answer[r2] = "fresh"
      => \E r \in {r1, r2} : op[r] # NoOp /\ task[op[r]] = "failed"

\* "Prevents ghost dedup keys": the operation a dedup key names was pushed.
DedupNamesPushedTask ==
  \A b \in Bodies : dedup[b] # NoOp => task[dedup[b]] \notin {"none", "created"}

\* Every exit that did not record an envelope releases the reservation, failures
\* of the hook and cancellations of the work included: a marker has a request at
\* work behind it, or one that died, or was cancelled while it claimed, recorded
\* or released, or met an outage, and left the marker to its TTL.
ReservationIsHeld ==
  \A k \in Keys : cache[k].kind = "marker" /\ blips = 0 =>
    \E r \in Requests :
      KeyOf[r] = k /\ (Holding(r) \/ pc[r] = "dead" \/ answer[r] = "cancelled")

=============================================================================
