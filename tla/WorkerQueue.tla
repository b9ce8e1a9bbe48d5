----------------------------- MODULE WorkerQueue -----------------------------
(***************************************************************************)
(* The background task queue: worker/client.py puts tasks on a Valkey      *)
(* list, worker/consumer.py moves each to a per-worker inflight list, runs *)
(* it and removes it, dagster/sensors/worker_reaper.py takes stale inflight*)
(* entries back, routers/operations.py cancels and resumes operations and  *)
(* admin/commands/worker.py drains the dead-letter queue.  A step is one   *)
(* round trip to Valkey or one decision between two of them; any process   *)
(* of another kind may step in between.                                    *)
(***************************************************************************)
EXTENDS OperationStatus, Integers, Sequences, SequencesExt

CONSTANTS
  Ops,           \* operation ids, each enqueued at most once
  Handled,       \* those whose task type has a registered handler
  Workers,       \* worker ids (host and pid), hence inflight lists
  Clients,       \* concurrent API requests
  Admins,        \* concurrent "worker dlq" commands
  MaxRetries,    \* MAX_RETRIES
  Budget,        \* TASK_TIMEOUTS of the task, in ticks
  StaleGrace,    \* STALE_GRACE_SECONDS, in ticks
  MetaTtl,       \* age from which metadata may have expired
  MaxAge,        \* bound: ages saturate here
  MaxPauses,     \* bound: checkpoints a task pauses at
  MaxCrashes,    \* bound: workers, daemons and commands that die in a behaviour
  MaxRedrives,   \* bound: tasks taken back out of the DLQ in a behaviour
  MaxQueue       \* bound: no request is accepted when the queue is this long

ASSUME ConstantsAssumption ==
  /\ Handled \subseteq Ops
  /\ Workers \intersect (Clients \union Admins) = {}
  /\ Clients \intersect Admins = {}
  /\ MaxRetries \in Nat \ {0}
  /\ {Budget, StaleGrace, MetaTtl, MaxAge, MaxPauses, MaxCrashes,
       MaxRedrives, MaxQueue} \subseteq Nat

Procs == Workers \union Clients \union Admins
Requests == 0 .. MaxPauses

\* A queued task: resume is the checkpoint whose answer it carries, 0 on a
\* first run.
Payload == [op : Ops, attempt : 1 .. MaxRetries, resume : Requests]
NoTask == [op |-> "none"]

VARIABLES
  queue,      \* worker:tasks
  inflight,   \* worker:inflight:{id} as a bag: copies of each payload
  dlq,        \* worker:dlq
  status,     \* sse:operation:meta: the status field, Absent when no key
  request,    \* its input_request
  age,        \* ticks since its created_at
  fresh,      \* operation ids not generated yet
  pc, job,    \* where each process is and the payload it holds
  event,      \* the status event it is storing
  snap,       \* the metadata it read for that
  ran,        \* ticks a worker's handler has been executing
  crashes, redrives,
  todo,       \* inflight entries the reaper's tick has still to examine
  rpc, rjob,  \* where the reaper is; the entry it is moving and why
  sweep,      \* inflight lists the tick's SCAN found and has still to clean up
  emptied,    \* the list, if any, whose LLEN was 0 and whose DEL comes next
  owed,       \* history: operations with a task pushed that has not ended, nor
              \* died with the process that was moving it, nor after its entry
              \* was erased
  erased      \* history: workers whose task's entry the clean-up deleted

store == <<status, request, age, fresh>>
lists == <<queue, inflight, dlq>>
procs == <<pc, job, event, snap, ran, crashes, redrives>>
cleanup == <<sweep, emptied>>
reaper == <<todo, rpc, rjob, cleanup>>
history == <<owed, erased>>
vars == <<store, lists, procs, reaper, history>>

Verdicts == {"none", "clean", "requeue", "dlq", "dlq_fail"}
NoEntry == [worker |-> "none", task |-> NoTask, verdict |-> "none"]

TypeOK ==
  /\ queue \in Seq(Payload) /\ dlq \in Seq(Payload)
  /\ inflight \in [Workers -> [Payload -> Nat]]
  /\ status \in [Ops -> Status \union {Absent}]
  /\ request \in [Ops -> Requests]
  /\ age \in [Ops -> 0 .. MaxAge]
  /\ fresh \subseteq Ops
  /\ pc \in [Procs -> {"down", "idle", "create", "push", "repush", "requeue", "picked",
                       "read", "write", "execute", "release"}]
  /\ job \in [Procs -> Payload \union {NoTask}]
  /\ event \in [Procs -> Event]
  /\ snap \in [Procs -> [status : Status, request : Requests]]
  /\ ran \in [Workers -> 0 .. 2 * Budget]
  /\ crashes \in 0 .. MaxCrashes
  /\ redrives \in 0 .. MaxRedrives
  /\ todo \subseteq Workers \X Payload
  /\ rpc \in {"idle", "remove", "push", "fail"}
  /\ rjob \in [worker : Workers, task : Payload, verdict : Verdicts] \union {NoEntry}
  /\ sweep \subseteq Workers /\ emptied \subseteq Workers
  /\ owed \subseteq Ops /\ erased \subseteq Workers

NoSnap == [status |-> "pending", request |-> NoRequest]

Init ==
  /\ queue = <<>> /\ dlq = <<>>
  /\ inflight = [w \in Workers |-> [p \in Payload |-> 0]]
  /\ status = [o \in Ops |-> Absent]
  /\ request = [o \in Ops |-> NoRequest]
  /\ age = [o \in Ops |-> 0]
  /\ fresh = Ops
  /\ pc = [p \in Procs |-> "idle"]
  /\ job = [p \in Procs |-> NoTask]
  /\ event = [p \in Procs |-> "started"]
  /\ snap = [p \in Procs |-> NoSnap]
  /\ ran = [w \in Workers |-> 0]
  /\ crashes = 0 /\ redrives = 0
  /\ todo = {} /\ rpc = "idle" /\ rjob = NoEntry
  /\ sweep = {} /\ emptied = {}
  /\ owed = {} /\ erased = {}

-----------------------------------------------------------------------------
(* Processes *)

Goto(p, next) == pc' = [pc EXCEPT ![p] = next]

\* The process drops its locals.
Leave(p, next) ==
  /\ Goto(p, next)
  /\ job' = [job EXCEPT ![p] = NoTask]
  /\ event' = [event EXCEPT ![p] = "started"]
  /\ snap' = [snap EXCEPT ![p] = NoSnap]

Return(p) == Leave(p, "idle")

\* The event is stored, or cannot be: the worker goes on without it.
EventDone(w, next) ==
  /\ Goto(w, next)
  /\ event' = [event EXCEPT ![w] = "started"]
  /\ snap' = [snap EXCEPT ![w] = NoSnap]

\* Take a job and start at next.
Take(p, task, next) ==
  /\ Goto(p, next)
  /\ job' = [job EXCEPT ![p] = task]

\* Store event e on the operation of p's job: read the metadata first.
StoreEvent(p, e) ==
  /\ Goto(p, "read")
  /\ event' = [event EXCEPT ![p] = e]

Push(task) == queue' = Append(queue, task)

\* LREM 1: remove one copy, or none if it is gone already.
Removed(w, task) == [inflight EXCEPT ![w][task] = IF @ = 0 THEN 0 ELSE @ - 1]

\* p gives its job up without an LREM: what the entry would have given back is
\* gone if the clean-up has erased it.
Forget(p) ==
  /\ owed' = IF p \in erased THEN owed \ {job[p].op} ELSE owed
  /\ erased' = erased \ {p}

-----------------------------------------------------------------------------
(* Storing a status event, as EventStore's async writers do *)

\* store_event's exists and GET.  On a missing operation it raises: an API call
\* ends with an error; a worker ends its task, except that an unknown task
\* type's failure escapes _process_task before the LREM.
StoreRead(p) ==
  /\ pc[p] = "read"
  /\ LET o == job[p].op IN
     IF status[o] # Absent
     THEN /\ Goto(p, "write")
          /\ snap' = [snap EXCEPT ![p] = [status |-> status[o], request |-> request[o]]]
          /\ UNCHANGED <<job, event, history>>
     ELSE IF p \in Workers /\ o \in Handled
     THEN EventDone(p, "release") /\ UNCHANGED <<job, history>>
     ELSE Return(p) /\ Forget(p)
  /\ UNCHANGED <<store, lists, ran, crashes, redrives, reaper>>

\* The write, decided on the snapshot and guarded by nothing but the TTL call.
PutMetadata(p) ==
  LET o == job[p].op
      new == NextStatus[event[p]]
  IN IF TransitionAllowed(snap[p].status, new) /\ status[o] # Absent
     THEN /\ status' = [status EXCEPT ![o] = new]
          /\ request' = [request EXCEPT ![o] =
               ApplyInputRequest(snap[p].request, event[p], job[p].resume + 1)]
     ELSE UNCHANGED <<status, request>>

WorkerWrite(w) ==
  /\ pc[w] = "write"
  /\ PutMetadata(w)
  /\ EventDone(w, IF event[w] = "started" THEN "execute" ELSE "release")
  /\ UNCHANGED <<age, fresh, lists, job, ran, crashes, redrives, reaper, history>>

ClientWrite(c) ==
  /\ pc[c] = "write"
  /\ PutMetadata(c)
  /\ Return(c)
  /\ UNCHANGED <<age, fresh, lists, ran, crashes, redrives, reaper, history>>

-----------------------------------------------------------------------------
(* The consumer loop *)

\* Mutant: BLPOP, with nothing left behind in Valkey.
PopsOnly(w) ==
  /\ pc[w] = "idle"
  /\ queue # <<>>
  /\ queue' = Tail(queue)
  /\ Take(w, Head(queue), "picked")
  /\ UNCHANGED <<store, inflight, dlq, event, snap, ran, crashes, redrives, reaper, history>>

\* BLMOVE from the queue to the worker's own inflight list.
Pick(w) ==
  /\ pc[w] = "idle"
  /\ queue # <<>>
  /\ queue' = Tail(queue)
  /\ inflight' = [inflight EXCEPT ![w][Head(queue)] = @ + 1]
  /\ Take(w, Head(queue), "picked")
  /\ UNCHANGED <<store, dlq, event, snap, ran, crashes, redrives, reaper, history>>

\* No handler: fail it.  Cancelled while it waited: skip it.  Else mark it
\* running.
Check(w) ==
  /\ pc[w] = "picked"
  /\ IF job[w].op \notin Handled THEN StoreEvent(w, "error")
     ELSE IF status[job[w].op] = "cancelled" THEN Goto(w, "release") /\ UNCHANGED event
     ELSE StoreEvent(w, "started")
  /\ UNCHANGED <<store, lists, job, snap, ran, crashes, redrives, reaper, history>>

\* execute() returns, raises, times out or pauses at its next checkpoint.
Outcome(w, e) ==
  /\ pc[w] = "execute"
  /\ e = "awaiting_input" => job[w].resume < MaxPauses
  /\ StoreEvent(w, e)
  /\ ran' = [ran EXCEPT ![w] = 0]
  /\ UNCHANGED <<store, lists, job, snap, crashes, redrives, reaper, history>>

Outcomes == {"completed", "error", "awaiting_input"}

\* The finally clause.
Release(w) ==
  /\ pc[w] = "release"
  /\ inflight' = Removed(w, job[w])
  /\ Return(w)
  /\ owed' = owed \ {job[w].op}
  /\ erased' = erased \ {w}
  /\ UNCHANGED <<store, queue, dlq, ran, crashes, redrives, reaper>>

\* The process dies, at any point; its inflight list stays behind.
Crash(w) ==
  /\ pc[w] # "down"
  /\ crashes < MaxCrashes
  /\ crashes' = crashes + 1
  /\ Leave(w, "down")
  /\ Forget(w)
  /\ ran' = [ran EXCEPT ![w] = 0]
  /\ UNCHANGED <<store, lists, redrives, reaper>>

Restart(w) ==
  /\ pc[w] = "down"
  /\ Goto(w, "idle")
  /\ UNCHANGED <<store, lists, job, event, snap, ran, crashes, redrives, reaper, history>>

-----------------------------------------------------------------------------
(* API requests: enqueue, cancel, resume *)

\* create_operation_response, then the RPUSH (deduplication is the subject of
\* IdempotentDispatch).
Create(c, o) ==
  /\ pc[c] = "idle"
  /\ o \in fresh
  /\ Len(queue) < MaxQueue
  /\ fresh' = fresh \ {o}
  /\ status' = [status EXCEPT ![o] = "pending"]
  /\ Take(c, [op |-> o, attempt |-> 1, resume |-> 0], "push")
  /\ UNCHANGED <<request, age, lists, event, snap, ran, crashes, redrives, reaper, history>>

EnqueuePush(c) ==
  /\ pc[c] = "push"
  /\ Push(job[c])
  /\ owed' = owed \union {job[c].op}
  /\ Return(c)
  /\ UNCHANGED <<store, inflight, dlq, ran, crashes, redrives, reaper, erased>>

\* 404 and 409 leave everything alone.
Cancel(c, o) ==
  /\ pc[c] = "idle"
  /\ status[o] \notin TerminalStatuses \union {Absent}
  /\ job' = [job EXCEPT ![c] = [op |-> o, attempt |-> 1, resume |-> 0]]
  /\ StoreEvent(c, "cancelled")
  /\ UNCHANGED <<store, lists, snap, ran, crashes, redrives, reaper, history>>

Resume(c, o) ==
  /\ pc[c] = "idle"
  /\ status[o] = "awaiting_input"
  /\ request[o] # NoRequest
  /\ Len(queue) < MaxQueue
  /\ Take(c, [op |-> o, attempt |-> 1, resume |-> request[o]], "repush")
  /\ UNCHANGED <<store, lists, event, snap, ran, crashes, redrives, reaper, history>>

\* Queue first, status second.
ResumePush(c) ==
  /\ pc[c] = "repush"
  /\ Push(job[c])
  /\ owed' = owed \union {job[c].op}
  /\ StoreEvent(c, "resumed")
  /\ UNCHANGED <<store, inflight, dlq, job, snap, ran, crashes, redrives, reaper, erased>>

\* The API process dies between two round trips.
ApiCrash(c) ==
  /\ pc[c] # "idle"
  /\ Return(c)
  /\ UNCHANGED <<store, lists, ran, crashes, redrives, reaper, history>>

-----------------------------------------------------------------------------
(* The reaper's tick *)

Stale(o) == age[o] >= Budget + StaleGrace

\* SCAN and LRANGE of every inflight list.
Scan ==
  /\ rpc = "idle" /\ todo = {} /\ cleanup = <<{}, {}>>
  /\ todo' = {e \in Workers \X Payload : inflight[e[1]][e[2]] > 0}
  /\ todo' # {}
  /\ sweep' = {e[1] : e \in todo'}
  /\ UNCHANGED <<store, lists, procs, rpc, rjob, emptied, history>>

\* Mutants: the attempt limit one too high, one too low; entries whose metadata
\* has expired are passed over.
VerdictFrom(task, last, expired) ==
  LET o == task.op
  IN CASE status[o] = Absent -> expired
       [] status[o] \notin OpenStatuses \union {Absent} -> "clean"
       [] status[o] \in OpenStatuses /\ ~Stale(o) -> "none"
       [] OTHER -> IF last THEN "dlq_fail" ELSE "requeue"

RetriesOnceMore(task) == VerdictFrom(task, task.attempt > MaxRetries, "requeue")

RetriesOnceLess(task) ==
  LET last == task.attempt >= MaxRetries - 1
  IN VerdictFrom(task, last, IF last THEN "dlq" ELSE "requeue")

PassesOverExpired(task) == VerdictFrom(task, task.attempt >= MaxRetries, "none")

\* What an entry's metadata, read once, says should become of it.
Verdict(task) ==
  LET o == task.op
      last == task.attempt >= MaxRetries
  IN CASE status[o] = Absent -> IF last THEN "dlq" ELSE "requeue"
       [] status[o] \notin OpenStatuses \union {Absent} -> "clean"
       [] status[o] \in OpenStatuses /\ ~Stale(o) -> "none"
       [] OTHER -> IF last THEN "dlq_fail" ELSE "requeue"

Examine(w, task) ==
  /\ rpc = "idle"
  /\ <<w, task>> \in todo
  /\ todo' = todo \ {<<w, task>>}
  /\ IF Verdict(task) = "none" THEN UNCHANGED <<rpc, rjob>>
     ELSE /\ rpc' = "remove"
          /\ rjob' = [worker |-> w, task |-> task, verdict |-> Verdict(task)]
  /\ UNCHANGED <<store, lists, procs, cleanup, history>>

ReaperDone == rpc' = "idle" /\ rjob' = NoEntry

\* Mutant: an exhausted task is removed and forgotten.
DropsExhausted ==
  /\ rpc = "remove"
  /\ inflight' = Removed(rjob.worker, rjob.task)
  /\ IF rjob.verdict = "requeue" THEN rpc' = "push" /\ UNCHANGED <<rjob, owed>>
     ELSE /\ ReaperDone
          /\ owed' = IF rjob.verdict = "clean" THEN owed \ {rjob.task.op} ELSE owed
  /\ UNCHANGED <<store, queue, dlq, procs, todo, cleanup, erased>>

\* LREM; how many copies it removed is not looked at.
TakeBack ==
  /\ rpc = "remove"
  /\ inflight' = Removed(rjob.worker, rjob.task)
  /\ IF rjob.verdict = "clean"
     THEN ReaperDone /\ owed' = owed \ {rjob.task.op}
     ELSE rpc' = "push" /\ UNCHANGED <<rjob, owed>>
  /\ UNCHANGED <<store, queue, dlq, procs, todo, cleanup, erased>>

\* Mutant: the attempt is not counted.
RequeuesUncounted ==
  /\ rpc = "push"
  /\ rjob.verdict = "requeue"
  /\ Push(rjob.task)
  /\ ReaperDone
  /\ UNCHANGED <<store, inflight, dlq, procs, todo, cleanup, history>>

Requeue ==
  /\ rpc = "push"
  /\ rjob.verdict = "requeue"
  /\ Push([rjob.task EXCEPT !.attempt = @ + 1])
  /\ ReaperDone
  /\ UNCHANGED <<store, inflight, dlq, procs, todo, cleanup, history>>

DeadLetter ==
  /\ rpc = "push"
  /\ rjob.verdict \in {"dlq", "dlq_fail"}
  /\ dlq' = Append(dlq, rjob.task)
  /\ IF rjob.verdict = "dlq_fail" THEN rpc' = "fail" /\ UNCHANGED rjob ELSE ReaperDone
  /\ UNCHANGED <<store, queue, inflight, procs, todo, cleanup, history>>

\* _fail_operation_sync: a real compare-and-set (EventStore's ReaperRead and
\* SyncWrite), here one step; losing it changes nothing.
ReaperFail ==
  /\ rpc = "fail"
  /\ \/ /\ status[rjob.task.op] \in OpenStatuses
        /\ status' = [status EXCEPT ![rjob.task.op] = "failed"]
     \/ /\ \/ status[rjob.task.op] \notin OpenStatuses
           \/ \E p \in Procs : pc[p] = "write" /\ job[p].op = rjob.task.op
        /\ UNCHANGED status
  /\ ReaperDone
  /\ UNCHANGED <<request, age, fresh, lists, procs, todo, cleanup, history>>

\* The tick ends with a clean-up of the lists its SCAN found: LLEN, and DEL of
\* one that was empty.
LookEmpty(w) ==
  /\ rpc = "idle" /\ todo = {} /\ emptied = {}
  /\ w \in sweep
  /\ sweep' = sweep \ {w}
  /\ emptied' = {v \in {w} : \A task \in Payload : inflight[v][task] = 0}
  /\ UNCHANGED <<store, lists, procs, todo, rpc, rjob, history>>

\* The DEL takes what a BLMOVE has put there since: the task its worker is on,
\* and whatever a worker that died in between has left.
DeleteList(w) ==
  LET gone == {task \in Payload : inflight[w][task] > 0} IN
  /\ w \in emptied
  /\ emptied' = {}
  /\ inflight' = [inflight EXCEPT ![w] = [task \in Payload |-> 0]]
  /\ erased' = IF job[w] \in gone THEN erased \union {w} ELSE erased
  /\ owed' = owed \ {task.op : task \in gone \ {job[w]}}
  /\ UNCHANGED <<store, queue, dlq, procs, todo, rpc, rjob, sweep>>

\* The daemon dies in the middle of a tick; the next one starts from the lists.
\* Between the LREM and the RPUSH the task is in its memory only.
ReaperCrash ==
  /\ rpc # "idle" \/ todo # {} \/ cleanup # <<{}, {}>>
  /\ crashes < MaxCrashes
  /\ crashes' = crashes + 1
  /\ owed' = IF rpc = "push" THEN owed \ {rjob.task.op} ELSE owed
  /\ ReaperDone
  /\ todo' = {} /\ sweep' = {} /\ emptied' = {}
  /\ UNCHANGED <<store, lists, pc, job, event, snap, ran, redrives, erased>>

-----------------------------------------------------------------------------
(* "worker dlq retry" and "worker dlq clear" *)

DlqPop(a) ==
  /\ pc[a] = "idle"
  /\ dlq # <<>>
  /\ redrives < MaxRedrives
  /\ redrives' = redrives + 1
  /\ dlq' = Tail(dlq)
  /\ Take(a, [Head(dlq) EXCEPT !.attempt = 1], "requeue")
  /\ UNCHANGED <<store, queue, inflight, event, snap, ran, crashes, reaper, history>>

DlqRequeue(a) ==
  /\ pc[a] = "requeue"
  /\ Push(job[a])
  /\ Return(a)
  /\ UNCHANGED <<store, inflight, dlq, ran, crashes, redrives, reaper, history>>

\* The command dies between its LPOP and its RPUSH.
AdminCrash(a) ==
  /\ pc[a] = "requeue"
  /\ crashes < MaxCrashes
  /\ crashes' = crashes + 1
  /\ owed' = owed \ {job[a].op}
  /\ Return(a)
  /\ UNCHANGED <<store, lists, ran, redrives, reaper, erased>>

\* An operator gives up on what is there.
DlqClear(a) ==
  /\ pc[a] = "idle"
  /\ dlq # <<>>
  /\ dlq' = <<>>
  /\ owed' = owed \ {task.op : task \in ToSet(dlq)}
  /\ UNCHANGED <<store, queue, inflight, procs, reaper, erased>>

-----------------------------------------------------------------------------
(* Time *)

\* A handler is given up when its budget and, for work in a thread, the grace of
\* one more budget (run_blocking) are spent.
Tick ==
  /\ \A w \in Workers : pc[w] = "execute" => ran[w] < 2 * Budget
  /\ age' = [o \in Ops |->
       IF status[o] = Absent \/ age[o] = MaxAge THEN age[o] ELSE age[o] + 1]
  /\ ran' = [w \in Workers |-> IF pc[w] = "execute" THEN ran[w] + 1 ELSE 0]
  /\ <<age', ran'>> # <<age, ran>>
  /\ UNCHANGED <<status, request, fresh, lists, pc, job, event, snap, crashes, redrives, reaper, history>>

Expire(o) ==
  /\ status[o] # Absent
  /\ age[o] >= MetaTtl
  /\ status' = [status EXCEPT ![o] = Absent]
  /\ request' = [request EXCEPT ![o] = NoRequest]
  /\ UNCHANGED <<age, fresh, lists, procs, reaper, history>>

-----------------------------------------------------------------------------
(* The system *)

WorkerStep(w) ==
  \/ Pick(w) \/ Check(w) \/ StoreRead(w) \/ WorkerWrite(w) \/ Release(w)
  \/ \E e \in Outcomes : Outcome(w, e)

\* What an accepted request goes on to do.
ClientStep(c) == EnqueuePush(c) \/ ResumePush(c) \/ StoreRead(c) \/ ClientWrite(c)

NewRequest(c) == \E o \in Ops : Create(c, o) \/ Cancel(c, o) \/ Resume(c, o)

ReaperStep ==
  \/ Scan \/ TakeBack \/ Requeue \/ DeadLetter \/ ReaperFail
  \/ \E e \in todo : Examine(e[1], e[2])
  \/ \E w \in Workers : LookEmpty(w) \/ DeleteList(w)

AdminStep(a) == DlqPop(a) \/ DlqRequeue(a) \/ DlqClear(a)

Next ==
  \/ \E w \in Workers : WorkerStep(w) \/ Crash(w) \/ Restart(w)
  \/ \E c \in Clients : NewRequest(c) \/ ClientStep(c) \/ ApiCrash(c)
  \/ \E a \in Admins : AdminStep(a) \/ AdminCrash(a)
  \/ ReaperStep
  \/ ReaperCrash
  \/ Tick
  \/ \E o \in Ops : Expire(o)

Spec == Init /\ [][Next]_vars

\* Workers that are up keep running their loop and their service restarts them;
\* the sensor runs every minute; time passes.  Requests need never arrive.
Fairness ==
  /\ \A w \in Workers : WF_vars(WorkerStep(w)) /\ WF_vars(Restart(w))
  /\ WF_vars(ReaperStep)
  /\ WF_vars(Tick)

FairSpec == Spec /\ Fairness

-----------------------------------------------------------------------------
(* Properties *)

\* Some copy of the operation's task is still held by the queue machinery.
Held(o) ==
  \/ \E task \in ToSet(queue) \union ToSet(dlq) : task.op = o
  \/ \E w \in Workers, task \in Payload : task.op = o /\ inflight[w][task] > 0
  \/ \E a \in Admins : pc[a] = "requeue" /\ job[a].op = o
  \/ rpc = "push" /\ rjob.task.op = o
  \/ \E w \in erased : job[w].op = o

\* No accepted task is lost: whatever workers crash and whenever they do, a task
\* that was pushed and has not been brought to an end is in the queue, in some
\* inflight list, in the DLQ, in the hands of whoever is moving it, or, once the
\* reaper's clean-up has erased its entry, in those of its worker (consumer.py's
\* reliability comment, the reaper's LREM and RPUSH).  Only the death of a daemon
\* or a command that holds the task itself, or of the worker whose entry was
\* erased, can lose it.
TaskConservation == \A o \in owed : Held(o)

\* A task is parked in the DLQ only after its last attempt, whether its metadata
\* had expired or it was stale, and however often the DLQ was drained before.
RetriesExhaustedBeforeDlq ==
  \A task \in ToSet(dlq) : task.attempt = MaxRetries

Busy(w) == pc[w] \notin {"down", "idle"}

\* Until a task is taken back out of the DLQ, one attempt of an operation's first run
\* is in one worker's hands only: retries are told apart by their attempt number,
\* whatever is resumed beside them.  Two answers to one checkpoint are not.
AttemptRunsOnce ==
  redrives = 0 =>
    \A w1, w2 \in Workers :
      Busy(w1) /\ Busy(w2) /\ w1 # w2 /\ job[w1].resume = 0 => job[w1] # job[w2]

\* A pushed task is eventually brought to an end or parked in the DLQ, although
\* workers crash: the reaper finds what they left, but for what is lost as
\* TaskConservation says.
TaskSettles ==
  \A o \in Ops : o \in owed ~> (o \notin owed \/ \E task \in ToSet(dlq) : task.op = o)

\* On a crash the task stays where the reaper finds it (consumer.py: "On crash,
\* the task stays in the inflight list for the reaper sensor to find and
\* requeue").  Not so once the reaper's clean-up has erased the entry.
CrashLeavesTask ==
  [][\A w \in Workers, o \in owed :
       (Busy(w) /\ job[w].op = o /\ pc'[w] = "down") => Held(o)']_vars

=============================================================================
