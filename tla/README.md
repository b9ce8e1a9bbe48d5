# RoboSystems in TLA+

TLA+ models of the concurrent core of RoboSystems, TLC configurations that check
them on small instances, and TLAPS proofs of their main properties for every
instance. Paths below are relative to `src/robosystems/`.

## 1. The system and its parts

RoboSystems is a FastAPI service over PostgreSQL, Valkey (a Redis) and graph
databases. A request either answers at once or becomes an *operation*: a record
in Valkey, a task on a Valkey list that a worker process executes, and events a
client follows over SSE. A Dagster daemon runs jobs and sensors beside it.

| Component | State it keeps | Operations | Talks to | What makes it correct |
|---|---|---|---|---|
| SSE operation store, `middleware/sse/event_storage.py` | one metadata record per operation (status, pending question, result), an event log | create, store an event (async, sync), replay, merge a result, cancel, expire | everyone that reports progress; streams; the idempotency cache | the status only climbs its ladder; the first terminal status is final; the envelope of a failed operation is evicted, unless that eviction failed; the log explains the status |
| SSE streams and relay, `middleware/sse/streaming.py`, `redis_subscriber.py` | per process one pub/sub connection with its channels, a queue per open stream, a slot per stream and user | connect, replay, subscribe, relay, deliver, drop, leave | store, clients | a stream that ends has said how; a subscribed stream misses nothing; slots are not leaked |
| Worker queue, `worker/` | `worker:tasks`, one inflight list per worker, dedup keys | enqueue, BLMOVE, execute, pause, release, requeue | store, reaper | no accepted task is lost; a task ends |
| Reaper, `dagster/sensors/worker_reaper.py`; DLQ commands, `admin/commands/worker.py` | `worker:dlq` | scan, verdict, take back, requeue, dead-letter, fail, delete empty lists; retry, clear | queue, store | only abandoned tasks are taken; only spent tasks are parked |
| Cancel and resume, `routers/operations.py` | none | cancel, resume | store, queue | a resume never strands its operation |
| Idempotent operations, `middleware/operations.py`, `worker/client.py` | per key a reservation or an envelope; bindings of envelopes to operations | look up, reserve, run, record, bind, release, evict | handlers, store, queue | one request per key works at a time; a result is recorded once; a failure makes way for a retry |
| Graph query queue, `middleware/graph/query_queue.py` | a heap, four tables, a count per user | submit, dispatch, finish, cancel, forget, report | callers, graph engines | limits hold; every query ends; outcomes are final |
| Callers of that queue, `routers/graphs/mcp/remote.py`, `routers/graphs/query/streaming.py` | one connection each | submit, poll, stream, abandon | query queue | they answer when the query ends and abandon nothing |
| Distributed locks, `middleware/auth/distributed_lock.py`, `operations/locking.py` | lock keys with owner ids | acquire, extend, release | API and workers | one holder; no release of another's lock |
| Materialization lock and connection pools, `graph_api/core/ladybug/` | readers and a rebuild per graph; pooled connections | acquire, evict, rebuild | graph engine | no query on a graph being replaced |
| Circuit breaker, `middleware/robustness/circuit_breaker.py` | failures per graph and operation | record, check, half-open | MCP, query routes | opens on failures, closes on recovery |
| Fiscal calendar and close, `operations/roboledger/fiscal_calendar/`, `commands/fiscal_calendar.py` | period rows, the close pointer, a fence per month, stamped statements | close, reopen, backfill and re-stamp, publish | QuickBooks, ledger writers | a closed month is frozen, complete, published and, until an earlier month is reopened, true to its statements; no month is passed over |
| Credits, `models/core/graph/graph_credits.py`, `operations/graph/credit_service.py` | a balance per pool, a ledger of transactions, the month of the last allocation | charge, drain, add a bonus, allocate monthly, reset, delete old ledger rows | billing, operators | never negative; the ledger and what was deleted from it sum to the balance; every month is granted once |
| Allocation and provisioning, `middleware/graph/allocation_manager.py`, `operations/graph/` | registry of instances and graphs | allocate, create, roll back, deprovision | DynamoDB, graph API | capacity is never exceeded or leaked |
| OAuth server, `operations/oauth_server/` | clients, codes, token families, grants | authorize, exchange, refresh, revoke | database | a code is used once; a rotated token is dead |
| Billing, `dagster/jobs/billing.py`, `models/core/billing/` | subscriptions, invoices | activate, renew, cancel, bill | Stripe, provisioning | the life cycle is respected; a month is billed once |
| Ledger events, schedules, reports, `operations/event_block/`, `operations/roboledger/` | entries, events and their obligations | create, edit, delete, reverse an entry; promote, approve, retract, publish an obligation; reports | the close, QuickBooks | writes stay out of closed months; what was retracted never posts; balanced entries |
| MCP tools, operators, GraphQL, adapters, taxonomy, infrastructure | little of their own | | | |

Hard behaviours, in short: Valkey round trips of several processes interleave,
so what was read is stale when it is written; processes die between two round
trips; keys expire under their owners; a reaper cannot tell a dead worker from a
slow one; a client goes away in the middle. `PROJECT.json` lists each hazard at
its line with the properties about it.

## 2. The modules

| Module | Models | Needs |
|---|---|---|
| `OperationStatus` | statuses, events and the transition table | |
| `OperationLadder` | what the store promises about one operation (abstract) | `OperationStatus` |
| `EventStore` | the metadata record and its four kinds of writers | `OperationStatus`; implements `OperationLadder` |
| `OperationStream` | the event log, the pub/sub relay and the streams around that record | `EventStore`; implements its `CasSpec` |
| `WorkerQueue` | queue, workers, reaper, DLQ, cancel and resume, time | `OperationStatus` |
| `QueryQueue` | the in-process query queue | |
| `QueryBridges` | its callers, composed with it | `QueryQueue`; implements it |
| `IdempotentDispatch` | idempotency keys, dispatch, deduplication, eviction | |
| `PeriodBooks` | what a closed month promises the reader of its statements (abstract) | |
| `PeriodClose` | the month-end close and everything that races it | implements `PeriodBooks` |
| `CreditPool` | the credit pool of one graph and its ledger | |
| `*Proofs` | the theorems about the module they name | TLAPS |
| `MC*` | instances for TLC | |

Operators named as mutants stand before the definition they alter. They are used
by no specification: each is a plausible mistake that some checked property must
notice.

### EventStore

One operation, since operations share no state. A writer's call is two steps,
*read* (`AsyncRead`, `SyncRead`, `RecordRead`, `ReaperRead`: the GET) and *write*
(`AsyncWrite`, `SyncWrite`, `RecordWrite`: SETEX of a record computed from the
snapshot), and for a failing one a third, `Evict`. `call[w]` holds the locals.
The eviction is tried once: `EvictionFails` is a lookup or a DEL that raises, which
the store, the reaper and the idempotency cache log and swallow
(`event_storage.py:206`, `:218`, `middleware/operations.py:534`, `:580`), a binding
that is not there, or the death of the process; `missed` records that it left the
envelope behind.

* `store_event_sync` and the reaper use WATCH on the pipeline: `watching` is the
  set of writers whose WATCH is intact, every write empties it, and `SyncWrite`
  drops the event if the writer is no longer in it, as the code's bare `except`
  does.
* `store_event` calls `watch()` on the pooled client, which issues nothing that
  protects the later pipeline. `AsyncWrite` only looks at the TTL.
* `update_operation_result_sync` writes whatever it read (`RecordWrite`).

`CasSpec` is the same store with compare-and-set writers only.

### OperationStream

The other half of `store_event_sync`, and what reads it. A writer first appends to
the log (`AppendEvent`: INCR and ZADD), then publishes (`PublishEvent`) and then
updates the metadata, which is `EventStore`'s read and write (`UpdateMetadata`,
`WriteMetadata`). The reaper (`ReapMetadata`) writes metadata and no event.
The API process is one event loop with one pub/sub connection: `channel` says
whether that connection is subscribed, `known` whether the `subscriptions` table
says so; the table is written after the await, so the two may differ.

| Actions | Code |
|---|---|
| `Relay` | `_listen_for_events` and `broadcast_event`, the drop of a connection whose queue is full included |
| `Connect`, `Replay`, `Enter`, `Subscribed` | `create_sse_stream_starlette` up to its loop: read the metadata, replay, `add_connection` or 429, SUBSCRIBE |
| `ReplayAll`, `Deliver` | the whole log for an operation already over, or one event of the queue |
| `Disconnect`, `Leave`, `Unsubscribed` | the client going away and the `finally` clause |

`seen[t]` is the set of kinds a client was sent and `fed` the streams with an
unbroken subscription. SUBSCRIBE and UNSUBSCRIBE take effect when they are sent.
Sequence numbers, which only order a replay, `emit_event_to_operation`'s local
broadcast and async writers are left out; the log does not expire. So are two ways
in which a subscription goes wrong: a SUBSCRIBE that fails, which `streaming.py`
swallows and after which the stream goes on unsubscribed, and an UNSUBSCRIBE that
is cancelled in the `finally` clause, which leaves the channel as it was.

### WorkerQueue

`queue`, `inflight` (a bag per worker, since LREM counts copies) and `dlq` are
the Valkey lists; `status`, `request` and `age` the metadata; `pc`, `job`,
`event`, `snap` the locals of workers, API requests and operator commands; `todo`,
`rpc`, `rjob`, `sweep` and `emptied` the reaper's tick. A status event is
`StoreRead` and then a write, like `EventStore`'s async writer. Two history
variables: `erased`, the workers whose inflight entry the reaper's clean-up of
empty lists has deleted, and `owed`, the operations that were pushed and not yet
brought to an end, nor lost with the memory of a process that died while it moved
them from one list to another, nor with an entry that was erased.

| Actions | Code |
|---|---|
| `Pick`, `Check`, `Outcome`, `Release` | the BLMOVE loop and `_process_task` up to its `finally` |
| `Crash`, `Restart` | death of a worker at any point; the service restarts it |
| `Create`, `EnqueuePush` | `enqueue_task` (its deduplication is in `IdempotentDispatch`) |
| `Cancel`, `Resume`, `ResumePush`, `ClientWrite`, `ApiCrash` | the endpoints, and an API process dying between round trips |
| `Scan`, `Examine`, `TakeBack`, `Requeue`, `DeadLetter`, `ReaperFail` | one sensor tick: LRANGE, GET, LREM, RPUSH, the compare-and-set |
| `LookEmpty`, `DeleteList` | the end of the tick: LLEN of each list the SCAN found and, in a round trip of its own, DEL of one that was empty |
| `ReaperCrash` | death of the Dagster daemon anywhere in a tick |
| `DlqPop`, `DlqRequeue`, `AdminCrash`, `DlqClear` | `worker dlq retry`, its death between LPOP and RPUSH, and `clear` |
| `Tick`, `Expire` | time and the metadata's TTL |

`Outcome` covers a return, an exception, a timeout and a pause. A worker may run
for twice its budget, which is what `run_blocking` allows. Malformed payloads,
tracing, metrics and ECS scale-in protection are left out: none changes a list or
a status. A worker restarted under its old host name and pid, as a restarted
container is, has its old inflight list, hence `Restart` keeps it.

### QueryQueue and QueryBridges

All of it runs on one event loop, so a step is what a coroutine does between two
awaits. `heap` (entries) and `records` (`_queries`) are separate because
`cancel_query` ends the record and leaves the entry. `Dispatch` is one turn of
`_process_queue` including the check that the entry's record is still pending;
`Finish` is the `finally` clause of `_execute_query`. Admission control may refuse
whenever it likes, which is simply not submitting.

`QueryBridges` adds the MCP bridge (`Open`, `Poll`, `GiveUp`, `Abandon`) and the
SSE stream (`Watch`, `StreamRows`, `MarkCompleted`, `Disconnect`). `Text` is what
Python's `str()` makes of a `(str, Enum)` member; the bridge compares that, the
stream compares the members.

### IdempotentDispatch

`cache` holds for each key nothing, a marker or an envelope; `bound` the keys
bound to an operation; `dedup` the worker-side keys. A request goes `Lookup`,
`Claim` (SET NX), possibly `Reread`, then `Run` (a synchronous operation) or
`DedupRead`, `Create`, `Push` (a dispatch), then `Put` and `Bind`, or
`ReleaseRead` and `ReleaseDelete`. The operation fails or completes on its own
(`Fail`, `Complete`), and a failure collects and deletes the bound envelopes
(`Collect`, `Delete`). `Blip` is a cache call that fails and is swallowed, and
`Crash` an API process that dies. `Cancelled` is a client that goes away. Work
under `execute_operation` is shielded, so only claiming can be interrupted there. A
dispatch is interrupted anywhere: at work it goes on to its release; while it
claims, records, or releases it answers with what its last round trip left, since
the release in the `finally` clause is not shielded and catches `Exception` only.
`ExpireMarker` is the reservation's TTL, which may pass while its holder still works
(`overruns`). The two properties about one key are stated for behaviours in which
the cache answered every call and no work outlived its reservation (`Guarded`), as
the comment at `operations.py:52` says of the guard; the other two are not.

### PeriodClose

The months with a `FiscalPeriod` row, the calendar's `closedThrough` pointer, the
entries and the schedule obligations (`event`, each drafting the entry of its own
name), what QuickBooks has taken (`qb`) and the fence per month. A closer is a
close, a reopen or a backfill; a writer is a request that writes the journal or an
event.

| Actions | Code |
|---|---|
| `StartClose`, `StartReopen`, `StartBackfill`, `BackfillRead` | the commands of `commands/fiscal_calendar.py` and the close task, with what each reads before the fence |
| `TakeFence`, `Release`, `Abort` | `exclusive_period_fence`, a session lock that outlives the commits under it |
| `Reopen`, `RestampReopen` | `reopen_period`, and the reopen a re-stamp leaves for the close to commit |
| `Gate`, `Publish`, `FinishPublish` | `closeable_gate`; one `execute_event_block` per draft in its savepoint; the commit in the middle of the close |
| `Route`, `Finish` | `PeriodCloseService.close`: the bulk post, flushed, the choice between advancing and re-closing, the stamp, the final commit |
| `StartWrite`, `TakeShared` | the peek, then `assert_period_not_closed`: the shared fence and the status, month by month |
| `CreateEntry`, `UpdateEntry`, `DeleteEntry`, `ReverseEntry` | `commands/journal_entries.py` |
| `VoidEvent`, `Promote`, `Classify`, `Approve` | `update_event_block` and `promotion.py` with the `schedule_entry_due` handler |
| `ExecuteSend`, `ExecuteCommit`, `ExecuteRejected` | `execute_event_block` on request |

`Lines(entry, m)` is the posted ledger of a month, what the freeze protects.
`Statement(entry, m)` is what its statements are drawn from, and a stamp stores it
in `sets[m]`: the month's own lines for what flows through it, and all lines posted
before it for the balances, retained earnings and changes of cash, which
`reports/fact_grid.py` and `reports/statement_sets.py` accumulate up to the period's
end. An earlier month can be reopened while later ones stay closed
(`fiscal_calendar/service.py:597`: "you lose sequential invariance"); their
statements stay and may become stale. `unsettled` is the history of that: the
closed months stamped while an earlier month was not closed, or followed by the
reopening of one, until they are stamped again.

A row a transaction has written stays locked until it ends (`EventFree`,
`EntryFree`, `CalendarFree`), and a row a session has loaded is not refreshed by a
later query (`seen`, `through`). `Abort` stands for every refusal:
the sync and reconciling gates, an unbalanced ledger, a failing stamp, a lock not
granted, the death of the process. Left out: gate overrides (an operator's explicit
wish to close an incomplete month), the close target, which gates nothing, manual
events that publish, superseding and the other manual transitions, the voiding of
orphans, the RequestId window of QuickBooks and the content of what it holds;
obligations' drafts are not moved to another month. Every close stamps: where no
reporting is set up the code skips the stamp without an error, which is left out.

### CreditPool

One pool: `balance` and `granted` are columns of `graph_credits`, `ledger` the sum
of `graph_credit_transactions.amount` and `keys` the monthly idempotency keys in
it. `Debit`, `Drain` and `AddBonus` are single transactions: the conditional UPDATE
holds the row lock until the ledger row is committed with it. `FallsShort` and
`Drain` are two statements. The monthly allocation and the administrator's reset
are one protocol, `Begin`, `WillForfeit` and `Forfeit` (or `ForfeitsNothing`),
`Reload`, `FindsGrant`, `Grant` (or `CommitRow`), with a commit at `Forfeit` and one
at the end; an allocation has idempotency keys and a reset has none. Creation too
is two commits (`CreateForGraph`, `RecordInitial`). `GivesUp` and `CreationDies` are
deaths between commits. `WriteBack` is the write of the row: an attribute assigned
the value that was loaded is not written. Transactions are READ COMMITTED and a
commit expires what was read. The sessions of requests and resets
(`db/platform.py:112`) flush only at their commit. That of the monthly Dagster job
(`dagster/resources/database.py:29`) flushes before each query, so its last lookup
writes the row and it holds the row's lock until it commits (`RowLocked`).

`CleanUp` is the retention job (`dagster/jobs/billing.py:1153`), which deletes the
rows other than allocations that are older than twelve times thirty days:
`Retention` months here, counted in whole months. `before[m]` is what such rows
posted through month `m` and `trimmed` what has been deleted, so that
`Booked == ledger + trimmed` is what the ledger would hold without it. It may also
take an old month's expiration key with its row. `overlapped`, `died` and `trimmed`
are history variables. A drain counts as billed and a refusal as unbilled. Left out:
the balance cache and the pre-flight that uses it, the usage ledger, repository
pools, tier changes and storage limits.

## 3. What the runs check

Every passing property has a mutant of the code in `PROJECT.json` that TLC finds
violating it under the same configuration.

| Run | Checks | Result |
|---|---|---|
| `OperationStream` | `TypeOK`, `EnvelopeFollowsOutcome`, `PauseCarriesRequest`, `ImplementsLadder`, `TerminalIsFinal` | compare-and-set writers and the reaper implement the ladder, the first terminal status is final, the envelope goes only with a failure and stays after one only if its eviction failed, a pause keeps its checkpoint |
| | `StreamTypeOK`, `OpenStreamsWithinLimit`, `EndedStreamSawOutcome`, `NothingMissedWhileFed` | queues keep their bound and users their limit; a stream that ends has sent the event behind the outcome; nothing is lost between PUBLISH and a subscribed stream |
| `OperationStreamFeed` | `LiveStreamListens` | violated: a stream that ends unsubscribes the process from under another |
| `EventStoreAsyncFinal` | `TerminalIsFinal` | violated: a stale snapshot of the async path overwrites a terminal status |
| `WorkerQueueSafety` | `TypeOK`, `TaskConservation` | no task is lost over enqueue, pause, resume, cancel, deaths, the reaper's tick, the dead-letter queue and its commands, but with a process that holds it or a worker whose entry was erased |
| `WorkerQueueLive` | `AttemptRunsOnce`, `RetriesExhaustedBeforeDlq`, `TaskSettles` | two workers never hold the same attempt of a first run (before a redrive); only spent tasks are parked; every pushed task that is not lost ends or is parked |
| `WorkerQueueCleanup` | `CrashLeavesTask` | violated: a task taken between the LLEN and the DEL of a reaper's clean-up is lost when its worker dies |
| `QueryBridges` | `TypeOK`, `CountsMatchWork`, `NothingStranded`, `FinishedIsFinal`, `QuerySettles` | limits and counts are exact, outcomes final, and every submitted query ends |
| | `CallersTypeOK`, `NothingLeftWaiting`, `ImplementsQueue` | callers use the queue by its operations and abandon nothing |
| `IdempotentSafety` | `TypeOK`, `OneHolderPerKey`, `RecordedOncePerKey`, `ReservationIsHeld`, `DedupNamesPushedTask` | one request per key works at a time and is recorded once, claims are released, and a dedup key names a pushed task, with crashes, cancellations (of the release too), an outage and an overrun |
| `PeriodClose` | `TypeOK`, `FrozenWhileClosed`, `StatementsMatchLedger`, `ImplementsBooks` | the ledger of a closed month does not move and its statements stay true unless an earlier month was open at the stamp or reopened since: the close implements `PeriodBooks` |
| | `NoDraftLeftInClosed`, `NothingOmitted`, `ClosedIsInQuickBooks`, `RetractedNeverPosts`, `HistoryHasNoGap` | a closed month is complete, its obligations are in QuickBooks and marked, retractions hold, months close in order |
| `PeriodCloseReverse` | `FrozenWhileClosed` | violated: a reversal fenced the month its entry has left |
| `CreditPool` | `TypeOK`, `LedgerFoots`, `MonthIsGranted` | never overdrawn; the ledger and what the retention job cut from it sum to the balance unless a reset was overlapped or it, or the creation, died; no month's grant is lost |
| `CreditPoolReset` | `FootsThroughResets` | violated: a commit between a reset's read and its absolute write |

The violated runs are findings; `PROJECT.json` quotes the line each contradicts.

### Bounds

* *Event store and streams.* One compare-and-set writer and the reaper, one
  checkpoint; two streams of one user and room for one (for two in
  `OperationStreamFeed`), a queue of one, two events (`MaxEvents`) of five kinds
  (`Stored`): one for each way an event bears on a stream and on the ladder. Every
  race of the store is between a snapshot and one other write; two streams suffice
  for one to be refused, to unsubscribe the other or to overflow. More writers,
  streams and events are covered by the proofs. `EventStoreAsyncFinal` has two async
  writers and a recorder.
* *Worker queue.* One API request at a time, two attempts (`MaxRetries`; the code has
  three, and the middle one behaves as the first), a budget of one tick, a queue of
  one (`MaxQueue`: no request is accepted beyond it, requeues are), one redrive; deaths
  (`MaxCrashes`) are shared by workers, the reaper and the operator's command.
  `WorkerQueueSafety` has one operation, one worker, one operator, one pause and one
  death, and no expiry (`MetaTtl` above `MaxAge`); `WorkerQueueLive` one operation, two
  workers, expiry, two deaths, no operator and no pause; `WorkerQueueCleanup` a second
  operation: the SCAN finds the list by the task of the first, and that of the second
  enters it in the window. Ages saturate at `MaxAge`, which
  is at or above every threshold a run uses. One death suffices for a task to be left
  behind, reaped, retried and parked. In these runs every task type has a handler; an
  unhandled one, and more of everything else, is covered by the proofs, which have no
  bounds.
* *Query queue and callers.* A bridge, a stream and a plain request, so three
  queries, of one user, at two priorities; two places in the queue and two per user,
  one execution at a time, one place in the completed cache: every limit is reached,
  and so is eviction from the cache.
* *Idempotency.* Three requests on one key (keys do not interact) and one without,
  two bodies, two operations, one outage (`MaxBlips`), one overrun (`MaxOverruns`),
  two cancellations
  (`MaxCancels`), so that one can cut short the release that another has led to;
  crashes are not bounded. Requests and operations
  that play the same part are interchangeable, which `Symmetry` uses; the run has
  safety properties only.

* *Close.* Two months, both completed; one local entry that an edit may move, one
  obligation of the first month, two closers and one writer, each as often as it
  likes; write-back on. Two closers are what a race over the calendar takes, one
  writer what a race over the fence takes. `PeriodCloseReverse` needs two writers
  and two local entries, and one closer. `MaxVer` is 0: an edit changes the month,
  and a change of content alone is covered by the proofs.
* *Credits.* An allocation of one, a call that costs one, a post-hoc call that costs
  two and drains, a bonus of one that can make it affordable, two runs of the
  allocation job and an administrator's reset, three months, three starts
  (`MaxMonth`, `MaxStarts`): a run can die, overlap another and cross midnight
  before the next month's. Rows are kept for two months (`Retention`; twelve in the
  code), so the third month cuts the first one's; later cuts are covered by the proofs.

`CHECK_DEADLOCK FALSE` where requests are finite and everything may be done; the
close's requests are repeatable, and its two runs check deadlock.

### Fairness

* `WorkerQueue`: weak fairness of each worker's steps (an asyncio loop that always
  returns to BLMOVE; executions are bounded by their budget and grace), of a
  worker's restart (ECS restarts the service), of the reaper's steps (a sensor
  that runs every minute in an always-on daemon) and of time. Crashes, requests
  and expiry have none.
* `QueryQueue`, and `QueryBridges` with the same assumptions and none about the
  callers: weak fairness of dispatch (the worker's `while True`) and of each
  execution's end (`query_timeout` bounds it). A stream of new queries of higher
  priority could starve one of lower priority; `QuerySettles` is about finitely
  many queries and says only that nothing is forgotten.

## 4. What is proved

All for any constants that meet the named assumptions.

* `EventStoreProofs`: `TypeCorrect`; `CasImplementsLadder`, by the invariant that
  a writer whose WATCH is intact holds a snapshot equal to the record, so its
  write is the ladder's `Advance` on the current values; `CasTerminalIsFinal`
  from the ladder's transition table; `EnvelopeCorrect`, adding that an eviction is
  under way only once the operation has failed (after a failure the envelope is gone,
  its eviction is under way, or that eviction failed); `PauseKeepsRequest` for every
  kind of writer, because each snapshot already relates status and question.
  `OnlyStaleSnapshotsUndo` bounds the finding of `EventStoreAsyncFinal`: with writers
  of every kind, a step that undoes a terminal status is the write of an async
  writer or a recorder from a snapshot that the record has left. It rests on the
  WATCH invariant above, which those writers do not disturb.
* `OperationStreamProofs`: `StreamImplementsStore`, that every step of the store with
  its log and streams is a step of `CasSpec` or a stutter, so that
  `StreamKeepsLadder`, `StreamKeepsEnvelope` and `StreamKeepsRequest` follow from the
  theorems above. `LimitHolds`, by the invariant that exactly the streams that got
  past the limit and have not left hold a slot. `EndedSawOutcome`, by the invariant
  that the event behind every status is in the log before the status is written
  (`StoryInv`), and that what a stream found decides whether it replays or goes live
  (`EndInv`). `NothingMissed`, by the invariant that messages keep their order over
  relay and queues and that the channel is open while somebody is fed.
  `ListensUnlessOneLeavesBeside` bounds the finding of `OperationStreamFeed`: as long
  as no stream waits for its UNSUBSCRIBE while another listens (`NoneLeavesBeside`),
  every live stream listens, however many come and go; the subscription table may
  be ahead of the channel only while an UNSUBSCRIBE is out (`ListenInv`). The model's
  SUBSCRIBE always succeeds (section 2), and the theorem says nothing of one that fails.
* `WorkerQueueProofs`: `TypeCorrect`; `Conservation`, by the invariant that an
  owed operation is held: in a list, in the hand of whoever moves it, or by a worker
  whose entry was erased, and an entry counts as erased only while its worker is at
  work on the task (`HandInv`); `DlqHoldsSpentTasks`, by the invariant that a
  verdict of dead-lettering is only ever reached on the last attempt.
  `AttemptInOneHand`, over any deaths and retries, pauses and expiries, by an
  invariant about every attempt of a first run (`OnceInv`): it waits in one place
  once (the queue, the hand of the request that created it or of the reaper that
  requeues it) or has been taken, by one worker; as long as the reaper can still
  retry it, no later attempt of the operation exists; and an operation that has not
  been created has none. `PausedTasksHaveQuestions`: a paused operation has the
  question its resume answers and an open one has none, because every snapshot
  agrees with itself (`RecordInv`) and `PutMetadata` writes status and question
  together.
* `QueryQueueProofs`: `TypeCorrect`, `CountsExact`, `NoQueryStranded` and
  `OutcomesFinal`, from one inductive invariant that relates statuses, tables and
  counts. `CountsExact` is also why `cancel_query`'s indexing of
  `_user_query_counts` cannot raise.
* `QueryBridgesProofs`: `CallersImplementQueue`, that every step of the bridges and
  streams is an operation of the queue or leaves it alone, so that the four results
  above hold among its callers (`QueueAmongCallers`), and with the fairness of both
  (`CallersImplementFairQueue`). `BridgesCleanUp`, by the invariant (`BInv`) that a
  call holds a submitted query from its submission to its end, unless it was refused
  (`CallInv`), and that a query that no longer waits never waits again (`QueueKeeps`).
* `IdempotentDispatchProofs`: `TypeCorrect`, with the invariant that only a
  dispatch with an operation ever records one; `OneHolder`, that no two requests
  work under one key. The last is not inductive by itself: the holder's marker must
  be shown to stay, so the invariant adds that it is there (`MarkerInv`), that what
  an eviction collected or will find bound are envelopes of its own operation
  (`DoomedInv`), that an envelope about to be bound is still the requester's own
  (`BindInv`), and that an operation fails at most once and only after its push
  (`PushInv`). Only `Guarded` behaviours satisfy it: the proof needs a cache that
  answers wherever it uses the marker, and reservations that outlast the work.
  `RecordedOnce` builds on it: an envelope stays until its operation failed
  (`EnvelopeStays`), so whoever records next under the key held a marker where a
  live envelope would have been. `DedupNamesPushed` and `ReservationHeld` need no
  guard against overruns; the latter excepts deaths, outages and requests cancelled
  while they claim, record or release, and pairs "a request stops answering for a marker
  only by taking it away" with "a marker is put there by somebody who then answers
  for it".

* `PeriodCloseProofs`, one inductive invariant `Inv`: a closer at work holds its month
  and no writer is in a month that is held or closed (`FenceInv`); nothing of an
  obligation is posted without its marker (`RowInv`); a request whose entry is at
  QuickBooks keeps its month and its row (`SendInv`); and what a closer has decided
  still holds of the rows it decided on, across the commit in the middle
  (`CloserInv`). From it: `NothingLeftToPost`, `NoAdjustmentOmitted`,
  `PostedIsInQuickBooks`, `NoMonthPassedOver` and, with write-back on,
  `RetractionHolds`. `FrozenWhileClosed`, `StatementsMatchLedger` and
  `ImplementsBooks` do not hold for all constants (`PeriodCloseReverse` is the
  counterexample), and the proofs say exactly why. `OnlyStaleReversalsReach`: in
  every behaviour, a step that moves the ledger of a closed month is a
  `StaleReversal`, one of an entry that has left the month its request fenced.
  `ClosedMonthIsFrozen`, `StatementsStayTrue` and `ClosesTheBooks` hold of the
  behaviours without such a step (`ReversalsInPlace`), whatever edits move. The
  statements are those of months that are not `unsettled`: their content reaches back
  over all earlier months, and the proof needs that the months before a settled one
  are all closed (`SettledInv`), hence frozen. Of a later month that stays closed over
  the reopening of an earlier one the code promises nothing, nor do the books.
  `BooksHoldWhereNoneMoves` needs no condition on the reversals where no entry is
  movable or there is one writer, as in the run `PeriodClose`: there a request still
  finds its entry where it peeked it (`PeekInv`), so no reversal is ever stale.
* `CreditPoolProofs`, one inductive invariant `PoolInv`: the types, what holds of a
  job whatever overlaps it (`JobInv`), that the gate's month is granted and, as long
  as no reset was overlapped or died, that a session's balance is the row's
  (`SeenInv`), that a month in the ledger is behind the gate or being granted
  (`GateInv`) and that one job at most has forfeited and not yet filled the pool
  (`BooksInv`). From it `NeverOverdrawn`, `LedgerKeepsFooting` and `NoMonthLost`, for
  any costs, calls, bonuses, jobs and months. Footing is of what was booked: the sum
  of the rows that are left falls short of the balance by exactly what the retention
  job has cut (`CutKeepsBooked`), which the theorem states by adding `trimmed`.

Only model-checked: liveness (`TaskSettles`, `QuerySettles`), which is outside what
the prover handles. What the violated runs refute is not proved;
`OnlyStaleSnapshotsUndo`, `ListensUnlessOneLeavesBeside` and `OnlyStaleReversalsReach`
prove that in the models nothing else than what those runs show breaks it;
`LedgerKeepsFooting`, that beside it only a death between two commits moves what was
booked off the balance, and `Conservation`, that beside the erased entry only the
death of a process that holds a task loses it.

## 5. What is not modelled, and the plan

Left out within the modelled components: the numbers that order the event log, the
Dagster monitor's polling, a store outage inside a worker, and what section 2 names
for the streams, the close and the pool. The remaining components are in
`PROJECT.json` with their reasons. Most of the repository's lines are in them:
request and response models, adapters, taxonomy and serialization, report building
and infrastructure move data and have little state that two actors share. Next, in
this order:

1. `DistributedLock` (expiry under a live holder, extend, release by id) and
   `OperationLocks` on top: the lock an API call takes and its worker releases.
   Abstract specification: a mutex with leases. Proof: one holder per fencing
   token while leases are respected.
2. `GraphProvisioning`: allocation, creation, roll-back within its budget and
   deprovisioning. Proof: no slot is leaked or given twice.
3. `OAuthTokens`: codes, refresh rotation and family revocation.
4. `CircuitBreaker` and the materialization lock with its pool.
5. `SubscriptionBilling`, and the composition of `WorkerQueue` with
   `IdempotentDispatch`.
6. Proofs for each of these as it is modelled, and what the queue and the ladder
   promise each other when `WorkerQueue` writes through `EventStore`.

## 6. Observed in the code, without a run

The models reach the behaviours listed first, but for what is said of QuickBooks'
RequestId window; they have no run because no document or test of the repository
promises otherwise in so many words, or because a run above already shows the same
cause. Two items after them contradict a comment. The last three were read in the
code and are outside the models.

* `event_storage.py:518`: `update_operation_result_sync` writes back the whole
  record it read, so a job's late result can undo a status that was written in
  between, a terminal one included (`RecordWrite`, same cause as
  `EventStoreAsyncFinal`).
* `worker_reaper.py:142`: a task's age is taken from its operation's metadata and
  so counts the time it queued. A task that queued for its whole budget, or one in
  the grace of `run_blocking`, is taken from a live worker and a second worker runs
  the next attempt beside it. Handlers have to bear that.
* `worker_reaper.py:148`: the tick decides on a snapshot of the inflight list and of
  the metadata, and LREM's count is ignored. A worker that completes and releases
  between them has its task pushed and run again after its operation completed.
* `worker_reaper.py:148` and `admin/commands/worker.py:100`: between LREM and RPUSH,
  or LPOP and RPUSH, the task is in one process's memory. If it dies there the task
  is lost and its operation stays as it was until its metadata expires. These two
  windows and the clean-up of `WorkerQueueCleanup` are the ways in which a task is lost
  (`Conservation`).
* `event_storage.py:206`, `:218`, `middleware/operations.py:534`, `:580`: the eviction of
  a failed operation's envelope is tried once, and a lookup or DEL that fails is logged
  and swallowed. The pending envelope is then replayed until it expires, after 24 h.
* `query_queue.py:253`, `:319`, `:471`: `get_query_status` takes any record that is
  neither running nor in the completed cache for pending. A finished query
  is reported pending for up to 300 s once the cache has dropped it, and a
  cancelled one for ever, since only executions remove records.
* `query_queue.py:168`, `:307`: the capacity check counts heap entries, those of
  cancelled queries included, until the worker's turn discards them; with a full set
  of running queries a burst of cancellations leaves the queue refusing submissions.
* `streaming.py:569`: the stream awaits `queue_manager.mark_completed`, which the
  queue manager does not define; the stream ends with an error event after its last
  row instead of its completion event.
* `middleware/operations.py:452`: release is a GET and a DEL. When a request outlives its
  reservation another may claim the key and record between the two, and the DEL
  removes that envelope.
* `middleware/operations.py:856`, `:874`, `:452`: a request cancelled while its SET NX
  is under way never reaches the block that releases, and one cancelled in that block
  is cut short between its GET and its DEL, which are not shielded and catch
  `Exception` only; the key then answers "in progress" until the reservation expires.
  The docstring at `:845` counts a cancellation among the exits that release, which is
  true of one while the dispatch works.
* `client.py:55`: the dedup key is read and, several round trips later, set, so two
  identical requests may both find nothing and both enqueue.
* `routers/operations.py:513`: between `requeue_task` and `resume_operation` a worker
  may run the resumed task up to its next pause; the late resumed event then moves
  `awaiting_input` to `running` and erases the new question. The comment at `:505` is
  about the other order.

Streams:

* `streaming.py:253`, `:309`: the metadata is read before the subscription, so an
  outcome published in between is neither replayed nor relayed, and the stream sends
  keepalives until its client leaves. The same holds of any event between the replay
  and the subscription; one stored before and published after arrives twice.
* `streaming.py:186`: a stream dropped for its full queue is not told, since the error
  it should be sent finds the same queue full; it stays open and silent.
* `worker_reaper.py:188`: the reaper's failure publishes no event, so the live streams
  of an operation it fails never end.
* `redis_subscriber.py:88`: two streams that leave around one that joins can take a
  channel out of the table that the connection listens to, or leave one in it that it
  does not, after which new streams of that operation do not subscribe.

Close:

* `fiscal_calendar/service.py:597`: an earlier month may be reopened while later ones stay
  closed, as its docstring says. What is posted there then is missing from the balances
  stamped on the later months (`unsettled`), and nothing in the code marks those as
  stale or re-stamps them; a backfill with `restamp` does, when somebody runs it.
* `fiscal_calendar/service.py:545`: reopening month 2, reopening month 1 and closing 2
  again leaves the pointer behind both; closing 1 then advances it to 1, and month 3
  is refused until 2, closed beyond the pointer, is reopened and closed once more.
* `commands/fiscal_calendar.py`: the backfill counts drafts before it takes the fence. A
  draft added meanwhile to a month it found `closing` is posted with the rest.
* `execute_event_block` and the close's publish: when QuickBooks takes an entry and its
  answer is lost, the event goes back to `pending` without a marker. It can then be
  voided, since `_assert_retractable` (`event_block/commands.py:199`) sees nothing
  landed, while QuickBooks holds the entry; or its draft be corrected and published
  again, which within the RequestId window marks the ledger's new content with
  QuickBooks' old one, and after it makes a duplicate.
* The same rejection makes the event `pending`, and the next attempt to close is refused
  until it is promoted again.
* Without write-back, a void that found no rows at its peek takes no fence and can
  commit between the close's bulk UPDATE and its commit: the retracted event's entry
  is posted. `RetractionHolds` assumes write-back.
* `execute_event_block` sets every linked entry `posted`, a reversed one too, and fences
  the event's month only.

Credits:

* `graph_credits.py:330`: a pool refilled between the UPDATE that failed and the drain
  makes the drain match nothing, and a completed post-hoc call is billed nothing.
* `graph_credits.py:449`: a reset or allocation that dies between its two commits, or a
  creation that dies before its first ledger row, leaves the ledger off the balance.
* `graph_credits.py:500`: an allocation that begins before midnight and ends after the
  next month's sets `last_allocation_date` back and opens that month's gate again; the
  idempotency key is then what keeps the month from being granted twice.
* `dagster/jobs/billing.py:1177`: the retention job deletes old ledger rows other than
  allocations, after which the sum of the rows that are left is no longer the balance
  (`CleanUp`).

In contradiction to a comment, and in the models:

* `middleware/operations.py:815`: the envelope is stored and bound after the task was
  pushed. An operation that fails first has its eviction find nothing bound, and the
  pending envelope is replayed for 24 h; so it is when `bind_operation` fails, which is
  swallowed (`:499`). The comment at `:62` says the eviction prevents that.
* `remote.py:626`: `get_query_status` returns a member of a `(str, Enum)` class, whose
  `str()` is `"QueryStatus.COMPLETED"`; no comparison with `"completed"` is ever true,
  so the bridge polls until its 300 s timeout, where the docstring at `:583` says it
  answers on completion.

Outside the models:

* `operations/locking.py:222`: the fence is held on a connection of its own; when that
  connection is lost in the middle of a close the close goes on unfenced.
* `commands/fiscal_calendar.py:248`: a death between the commit and `mark_graph_stale`
  leaves the graph unaware of the close.
* `streaming.py:304`, `:399`: a stream whose SUBSCRIBE fails goes on without it and hears
  nothing; one that is cancelled in its `finally` clause may leave its channel
  subscribed.
