----------------------------- MODULE QueryQueue -----------------------------
(***************************************************************************)
(* middleware/graph/query_queue.py: the in-process queue of graph queries. *)
(* Everything runs on one event loop, so what a coroutine does between two *)
(* awaits is one step.  A query's entry in the heap and its record have    *)
(* separate lives: cancelling ends the record and leaves the entry.        *)
(***************************************************************************)
EXTENDS Integers, FiniteSets, Sequences, SequencesExt

CONSTANTS
  Queries,        \* query ids, each submitted at most once
  Users,
  Owner,          \* the user who submits each query
  Priority,       \* and its priority
  MaxQueue,       \* max_queue_size
  MaxConcurrent,  \* max_concurrent_queries
  MaxPerUser,     \* max_queries_per_user
  MaxCompleted    \* _max_completed

ASSUME QueriesAssumption ==
  /\ IsFiniteSet(Queries)
  /\ Owner \in [Queries -> Users]
  /\ Priority \in [Queries -> Nat]

ASSUME LimitsAssumption ==
  {MaxQueue, MaxConcurrent, MaxPerUser, MaxCompleted} \subseteq Nat \ {0}

VARIABLES
  status,     \* QueuedQuery.status, "new" before it is submitted
  created,    \* its created_at, a logical clock
  heap,       \* _queue: the ids with an entry in the priority queue
  records,    \* the keys of _queries
  running,    \* the keys of _running_queries
  completed,  \* the keys of _completed_queries, oldest first
  count       \* _user_query_counts, 0 when there is no key

vars == <<status, created, heap, records, running, completed, count>>

Finished == {"completed", "failed", "cancelled"}
QueryStatus == {"new", "pending", "running"} \union Finished

TypeOK ==
  /\ status \in [Queries -> QueryStatus]
  /\ created \in [Queries -> 0 .. Cardinality(Queries)]
  /\ heap \subseteq records
  /\ records \subseteq Queries
  /\ running \subseteq records
  /\ completed \in Seq(Queries)
  /\ count \in [Users -> 0 .. MaxPerUser]

Init ==
  /\ status = [q \in Queries |-> "new"]
  /\ created = [q \in Queries |-> 0]
  /\ heap = {} /\ records = {} /\ running = {}
  /\ completed = <<>>
  /\ count = [u \in Users |-> 0]

-----------------------------------------------------------------------------
(* Operations *)

\* Mutant: no limit per user.
SubmitsUnlimited(q) ==
  /\ status[q] = "new"
  /\ Cardinality(heap) < MaxQueue
  /\ status' = [status EXCEPT ![q] = "pending"]
  /\ created' = [created EXCEPT ![q] = Cardinality({r \in Queries : status[r] # "new"}) + 1]
  /\ heap' = heap \union {q}
  /\ records' = records \union {q}
  /\ count' = [count EXCEPT ![Owner[q]] = @ + 1]
  /\ UNCHANGED <<running, completed>>

\* submit_query.  Admission control may refuse whenever it likes, the two limits
\* always do; a refusal changes nothing.
Submit(q) ==
  /\ status[q] = "new"
  /\ Cardinality(heap) < MaxQueue
  /\ count[Owner[q]] < MaxPerUser
  /\ status' = [status EXCEPT ![q] = "pending"]
  /\ created' = [created EXCEPT ![q] = Cardinality({r \in Queries : status[r] # "new"}) + 1]
  /\ heap' = heap \union {q}
  /\ records' = records \union {q}
  /\ count' = [count EXCEPT ![Owner[q]] = @ + 1]
  /\ UNCHANGED <<running, completed>>

\* The heap's order: highest priority, then oldest.
Before(q, r) ==
  \/ Priority[q] > Priority[r]
  \/ Priority[q] = Priority[r] /\ created[q] <= created[r]

\* Mutants: one query too many at once; the entry's record is not looked at.
DispatchesOneMore(q) ==
  /\ Cardinality(running) <= MaxConcurrent
  /\ q \in heap
  /\ \A r \in heap : Before(q, r)
  /\ heap' = heap \ {q}
  /\ IF status[q] = "pending"
     THEN /\ status' = [status EXCEPT ![q] = "running"]
          /\ running' = running \union {q}
     ELSE UNCHANGED <<status, running>>
  /\ UNCHANGED <<created, records, completed, count>>

DispatchesAnyEntry(q) ==
  /\ Cardinality(running) < MaxConcurrent
  /\ q \in heap
  /\ \A r \in heap : Before(q, r)
  /\ heap' = heap \ {q}
  /\ status' = [status EXCEPT ![q] = "running"]
  /\ running' = running \union {q}
  /\ UNCHANGED <<created, records, completed, count>>

\* One turn of _process_queue.  While the worker waits for an entry only it could
\* fill the capacity it found.
Dispatch(q) ==
  /\ Cardinality(running) < MaxConcurrent
  /\ q \in heap
  /\ \A r \in heap : Before(q, r)
  /\ heap' = heap \ {q}
  /\ IF q \in records /\ status[q] = "pending"
     THEN /\ status' = [status EXCEPT ![q] = "running"]
          /\ running' = running \union {q}
     ELSE UNCHANGED <<status, running>>
  /\ UNCHANGED <<created, records, completed, count>>

\* _completed_queries[id] = query, then the oldest beyond the limit go.
Completed(q) ==
  LET all == Append(completed, q)
  IN IF Len(all) > MaxCompleted THEN Tail(all) ELSE all

Released(u) == [count EXCEPT ![u] = IF @ = 0 THEN 0 ELSE @ - 1]

\* Mutants: a failed query keeps its user's slot; its own slot is never freed.
FinishKeepsCount(q, outcome) ==
  /\ q \in running
  /\ status' = [status EXCEPT ![q] = outcome]
  /\ completed' = Completed(q)
  /\ running' = running \ {q}
  /\ count' = IF outcome = "failed" THEN count ELSE Released(Owner[q])
  /\ UNCHANGED <<created, heap, records>>

FinishKeepsSlot(q, outcome) ==
  /\ q \in running
  /\ status[q] = "running"
  /\ status' = [status EXCEPT ![q] = outcome]
  /\ completed' = Completed(q)
  /\ count' = Released(Owner[q])
  /\ UNCHANGED <<created, heap, records, running>>

\* _execute_query's finally clause, after the executor's result, error or timeout.
Finish(q, outcome) ==
  /\ q \in running
  /\ status' = [status EXCEPT ![q] = outcome]
  /\ completed' = Completed(q)
  /\ running' = running \ {q}
  /\ count' = Released(Owner[q])
  /\ UNCHANGED <<created, heap, records>>

\* cancel_query by the owner; anything but a pending query is refused.
Cancellable(q) == q \in records /\ status[q] = "pending"

Cancel(q) ==
  /\ Cancellable(q)
  /\ status' = [status EXCEPT ![q] = "cancelled"]
  /\ completed' = Completed(q)
  /\ count' = Released(Owner[q])
  /\ UNCHANGED <<created, heap, records, running>>

\* _cleanup_query, 300 s after an execution.  A cancelled query's record stays.
Forget(q) ==
  /\ q \in records
  /\ status[q] \in {"completed", "failed"}
  /\ records' = records \ {q}
  /\ UNCHANGED <<status, created, heap, running, completed, count>>

\* What get_query_status answers.
Report(q) ==
  IF q \in running /\ q \in records THEN "running"
  ELSE IF q \in ToSet(completed) THEN status[q]
  ELSE IF q \in records THEN "pending"
  ELSE "none"

-----------------------------------------------------------------------------
Execute(q) == \E outcome \in {"completed", "failed"} : Finish(q, outcome)

QueueStep == \E q \in Queries : Dispatch(q) \/ Execute(q) \/ Forget(q)

Next == QueueStep \/ \E q \in Queries : Submit(q) \/ Cancel(q)

Spec == Init /\ [][Next]_vars

\* The worker keeps turning, and every execution ends: query_timeout bounds it.
Fairness ==
  /\ WF_vars(\E q \in Queries : Dispatch(q))
  /\ \A q \in Queries : WF_vars(Execute(q))

FairSpec == Spec /\ Fairness

-----------------------------------------------------------------------------
(* Properties *)

Active(u) == {q \in Queries : Owner[q] = u /\ status[q] \in {"pending", "running"}}

\* _user_query_counts counts each user's pending and running queries exactly,
\* through every race of cancel_query with the worker and with executions: no
\* slot is given back twice and none is kept.
CountsMatchWork == \A u \in Users : count[u] = Cardinality(Active(u))

\* max_concurrent_queries bounds what runs, and a pending query always has the
\* entry the worker will find it by; only one that is running occupies a slot.
NothingStranded ==
  /\ Cardinality(running) <= MaxConcurrent
  /\ \A q \in Queries : status[q] = "pending" => q \in heap
  /\ \A q \in Queries : status[q] = "running" <=> q \in running

\* The outcome a query ended with never changes, and it is not dispatched again
\* from the entry that cancel_query leaves behind.
FinishedIsFinal ==
  [][\A q \in Queries : status[q] \in Finished => status'[q] = status[q]]_vars

\* Every submitted query is finished or cancelled in the end.
QuerySettles == \A q \in Queries : status[q] = "pending" ~> status[q] \in Finished

=============================================================================
