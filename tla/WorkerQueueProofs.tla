------------------------- MODULE WorkerQueueProofs -------------------------
(* Proofs about WorkerQueue, for every number of operations, workers,       *)
(* clients and retries.                                                     *)
EXTENDS WorkerQueue, TLAPS

-----------------------------------------------------------------------------
(* Sequences as sets of tasks *)

LEMMA AppendSet ==
  ASSUME NEW S, NEW s \in Seq(S), NEW e \in S
  PROVE  Append(s, e) \in Seq(S) /\ ToSet(Append(s, e)) = ToSet(s) \union {e}
<1>1. Append(s, e) \in Seq(S)
  OBVIOUS
<1>2. \A x \in ToSet(Append(s, e)) : x \in ToSet(s) \union {e}
  BY DEF ToSet
<1>3. \A i \in DOMAIN s : s[i] \in ToSet(Append(s, e))
  <2> TAKE i \in DOMAIN s
  <2>1. i \in DOMAIN Append(s, e) /\ Append(s, e)[i] = s[i]
    OBVIOUS
  <2> QED BY <2>1 DEF ToSet
<1>4. e \in ToSet(Append(s, e))
  <2>1. Len(s) + 1 \in DOMAIN Append(s, e) /\ Append(s, e)[Len(s) + 1] = e
    OBVIOUS
  <2> QED BY <2>1 DEF ToSet
<1> QED BY <1>1, <1>2, <1>3, <1>4 DEF ToSet

LEMMA TailSet ==
  ASSUME NEW S, NEW s \in Seq(S), s # <<>>
  PROVE  /\ Head(s) \in S /\ Tail(s) \in Seq(S)
         /\ ToSet(s) = {Head(s)} \union ToSet(Tail(s))
<1>1. Head(s) \in S /\ Tail(s) \in Seq(S) /\ Len(s) \in Nat \ {0}
  OBVIOUS
<1>2. \A i \in DOMAIN s : s[i] \in {Head(s)} \union ToSet(Tail(s))
  <2> TAKE i \in DOMAIN s
  <2>1. CASE i = 1
    BY <2>1
  <2>2. CASE i # 1
    <3>1. i - 1 \in DOMAIN Tail(s) /\ Tail(s)[i - 1] = s[i]
      BY <2>2
    <3> QED BY <3>1 DEF ToSet
  <2> QED BY <2>1, <2>2
<1>3. \A i \in DOMAIN Tail(s) : Tail(s)[i] \in ToSet(s)
  <2> TAKE i \in DOMAIN Tail(s)
  <2>1. i + 1 \in DOMAIN s /\ s[i + 1] = Tail(s)[i]
    OBVIOUS
  <2> QED BY <2>1 DEF ToSet
<1>4. Head(s) \in ToSet(s)
  <2>1. 1 \in DOMAIN s /\ s[1] = Head(s)
    BY <1>1
  <2> QED BY <2>1 DEF ToSet
<1> QED BY <1>1, <1>2, <1>3, <1>4 DEF ToSet

-----------------------------------------------------------------------------
(* Types *)

\* A process that is up and at work holds a task; only a task with a checkpoint
\* left stores a pause.
JobInv ==
  \A p \in Procs :
    /\ pc[p] \notin {"idle", "down"} => job[p] \in Payload
    /\ event[p] = "awaiting_input" =>
         pc[p] \in {"read", "write", "release"} /\ job[p].resume < MaxPauses

\* Between two of its calls the reaper holds an entry and a verdict for it.
EntryInv ==
  rpc # "idle" =>
    /\ rjob.worker \in Workers
    /\ rjob.task \in Payload
    /\ rjob.verdict \in Verdicts \ {"none"}
    /\ rjob.verdict = "requeue" => rjob.task.attempt < MaxRetries

StoreType ==
  /\ status \in [Ops -> Status \union {Absent}]
  /\ request \in [Ops -> Requests]
  /\ age \in [Ops -> 0 .. MaxAge]
  /\ fresh \subseteq Ops
  /\ owed \subseteq Ops /\ erased \subseteq Workers

ListType ==
  /\ queue \in Seq(Payload) /\ dlq \in Seq(Payload)
  /\ inflight \in [Workers -> [Payload -> Nat]]

ProcType ==
  /\ pc \in [Procs -> {"down", "idle", "create", "push", "repush", "requeue", "picked",
                       "read", "write", "execute", "release"}]
  /\ job \in [Procs -> Payload \union {NoTask}]
  /\ event \in [Procs -> Event]
  /\ snap \in [Procs -> [status : Status, request : Requests]]
  /\ ran \in [Workers -> 0 .. 2 * Budget]
  /\ crashes \in 0 .. MaxCrashes
  /\ redrives \in 0 .. MaxRedrives

ReaperType ==
  /\ todo \subseteq Workers \X Payload
  /\ rpc \in {"idle", "remove", "push", "fail"}
  /\ rjob \in [worker : Workers, task : Payload, verdict : Verdicts] \union {NoEntry}
  /\ sweep \subseteq Workers /\ emptied \subseteq Workers

ProcInv == ProcType /\ JobInv
ReaperInv == ReaperType /\ EntryInv
TypeInv == StoreType /\ ListType /\ ProcInv /\ ReaperInv

LEMMA TypeInvImplies == TypeInv => TypeOK
BY DEF TypeInv, StoreType, ListType, ProcInv, ProcType, ReaperInv, ReaperType, TypeOK

LEMMA Constants ==
  /\ Budget \in Nat /\ MaxAge \in Nat /\ MaxPauses \in Nat
  /\ MaxCrashes \in Nat /\ MaxRedrives \in Nat /\ MaxRetries \in Nat \ {0}
  /\ NoSnap \in [status : Status, request : Requests]
  /\ \A o \in Ops, r \in Requests : [op |-> o, attempt |-> 1, resume |-> r] \in Payload
  /\ 0 \in Requests
BY ConstantsAssumption DEF NoSnap, Status, Requests, NoRequest, Payload

LEMMA LadderTypes ==
  /\ \A e \in Event : NextStatus[e] \in Status
  /\ \A k : \A r \in Requests, e \in Event :
       e = "awaiting_input" => ApplyInputRequest(r, e, k) = k
  /\ \A k : \A r \in Requests, e \in Event :
       e # "awaiting_input" => ApplyInputRequest(r, e, k) \in Requests
BY Constants
DEF Event, Status, NextStatus, ApplyInputRequest, NoRequest

\* The frame: what an action leaves alone keeps its type.
LEMMA Frames ==
  ASSUME TypeInv
  PROVE  /\ UNCHANGED <<store, history>> => StoreType'
         /\ UNCHANGED lists => ListType'
         /\ UNCHANGED procs => ProcInv'
         /\ UNCHANGED reaper => ReaperInv'
BY DEF TypeInv, StoreType, ListType, ProcInv, ProcType, JobInv, ReaperInv, ReaperType,
       EntryInv, store, history, lists, procs, reaper, cleanup

\* A worker whose event is dealt with.
LEMMA EventDoneType ==
  ASSUME TypeInv, NEW p \in Procs, pc[p] \notin {"idle", "down"},
         NEW next \in {"execute", "release"}, EventDone(p, next),
         UNCHANGED <<job, ran, crashes, redrives>>
  PROVE  ProcInv'
BY Constants DEF TypeInv, ProcInv, ProcType, JobInv, EventDone, Goto, Event

\* What giving a job up does to the history.
LEMMA ForgetType ==
  ASSUME TypeInv, NEW p \in Procs, UNCHANGED store, Forget(p)
  PROVE  StoreType'
BY DEF TypeInv, StoreType, Forget, store

\* A process that drops its locals.
LEMMA Leaves ==
  ASSUME TypeInv, NEW p \in Procs, NEW next \in {"idle", "down"}, Leave(p, next),
         ran' \in [Workers -> 0 .. 2 * Budget],
         crashes' \in 0 .. MaxCrashes, redrives' \in 0 .. MaxRedrives
  PROVE  ProcInv'
BY Constants DEF TypeInv, ProcInv, ProcType, JobInv, Leave, Goto, Event

\* LREM of one copy leaves a bag of tasks.
LEMMA RemovedType ==
  ASSUME ListType, NEW w \in Workers, NEW task \in Payload
  PROVE  Removed(w, task) \in [Workers -> [Payload -> Nat]]
BY DEF ListType, Removed

\* A status event writes a status and a request.
LEMMA MetadataTypes ==
  ASSUME TypeInv, NEW p \in Procs, pc[p] = "write", PutMetadata(p)
  PROVE  /\ status' \in [Ops -> Status \union {Absent}]
         /\ request' \in [Ops -> Requests]
<1>1. event[p] \in Event /\ snap[p].request \in Requests
  BY DEF TypeInv, ProcInv, ProcType
<1>2. NextStatus[event[p]] \in Status
  BY <1>1, LadderTypes
<1>3. ApplyInputRequest(snap[p].request, event[p], job[p].resume + 1) \in Requests
  <2>1. job[p] \in Payload /\ job[p].resume \in 0 .. MaxPauses
    BY DEF TypeInv, ProcInv, JobInv, Payload, Requests
  <2>2. CASE event[p] = "awaiting_input"
    <3>1. job[p].resume + 1 \in Requests
      BY <2>1, <2>2, Constants DEF TypeInv, ProcInv, JobInv, Requests
    <3> QED BY <1>1, <2>2, <3>1, LadderTypes
  <2>3. CASE event[p] # "awaiting_input"
    BY <1>1, <2>3, LadderTypes
  <2> QED BY <2>2, <2>3
<1> QED BY <1>2, <1>3 DEF PutMetadata, TypeInv, StoreType

LEMMA WorkerTypes ==
  ASSUME TypeInv, NEW w \in Workers
  PROVE  /\ Pick(w) => TypeInv'
         /\ Check(w) => TypeInv'
         /\ WorkerWrite(w) => TypeInv'
         /\ Release(w) => TypeInv'
         /\ \A e \in Outcomes : Outcome(w, e) => TypeInv'
         /\ Crash(w) => TypeInv'
         /\ Restart(w) => TypeInv'
<1> w \in Procs
  BY DEF Procs
<1>1. ASSUME Pick(w) PROVE TypeInv'
  <2>1. Head(queue) \in Payload /\ Tail(queue) \in Seq(Payload)
    BY <1>1, TailSet DEF Pick, TypeInv, ListType
  <2>2. ProcInv'
    BY <1>1, <2>1 DEF Pick, Take, Goto, TypeInv, ProcInv, ProcType, JobInv
  <2>3. ListType'
    BY <1>1, <2>1 DEF Pick, TypeInv, ListType
  <2> QED BY <1>1, <2>2, <2>3, Frames DEF Pick, TypeInv
<1>2. ASSUME Check(w) PROVE TypeInv'
  <2>1. ProcInv'
    BY <1>2 DEF Check, StoreEvent, Goto, TypeInv, ProcInv, ProcType, JobInv, Event
  <2> QED BY <1>2, <2>1, Frames DEF Check, TypeInv
<1>3. ASSUME WorkerWrite(w) PROVE TypeInv'
  <2>1. ProcInv'
    BY <1>3, EventDoneType DEF WorkerWrite
  <2>2. StoreType'
    BY <1>3, MetadataTypes DEF WorkerWrite, TypeInv, StoreType, history
  <2> QED BY <1>3, <2>1, <2>2, Frames DEF WorkerWrite, TypeInv
<1>4. ASSUME Release(w) PROVE TypeInv'
  <2>1. ProcInv'
    BY <1>4, Leaves DEF Release, Return, TypeInv, ProcInv, ProcType
  <2>2. job[w] \in Payload
    BY <1>4 DEF Release, TypeInv, ProcInv, JobInv
  <2>3. ListType'
    BY <1>4, <2>2, RemovedType DEF Release, TypeInv, ListType
  <2>4. StoreType'
    BY <1>4 DEF Release, TypeInv, StoreType, store
  <2> QED BY <1>4, <2>1, <2>3, <2>4, Frames DEF Release, TypeInv
<1>5. ASSUME NEW e \in Outcomes, Outcome(w, e) PROVE TypeInv'
  <2>1. ProcInv'
    BY <1>5, Constants DEF Outcome, Outcomes, StoreEvent, Goto, TypeInv, ProcInv, ProcType,
                           JobInv, Event
  <2> QED BY <1>5, <2>1, Frames DEF Outcome, TypeInv
<1>6. ASSUME Crash(w) PROVE TypeInv'
  <2>1. ProcInv'
    BY <1>6, Leaves, Constants DEF Crash, TypeInv, ProcInv, ProcType
  <2> QED BY <1>6, <2>1, Frames, ForgetType DEF Crash, TypeInv
<1>7. ASSUME Restart(w) PROVE TypeInv'
  <2>1. ProcInv'
    BY <1>7 DEF Restart, Goto, TypeInv, ProcInv, ProcType, JobInv
  <2> QED BY <1>7, <2>1, Frames DEF Restart, TypeInv
<1> QED BY <1>1, <1>2, <1>3, <1>4, <1>5, <1>6, <1>7

LEMMA ReadTypes ==
  ASSUME TypeInv, NEW p \in Procs, StoreRead(p)
  PROVE  TypeInv'
<1>1. job[p] \in Payload /\ job[p].op \in Ops
  BY DEF StoreRead, TypeInv, ProcInv, JobInv, Payload
<1>2. CASE status[job[p].op] # Absent
  <2>1. [status |-> status[job[p].op], request |-> request[job[p].op]]
          \in [status : Status, request : Requests]
    BY <1>1, <1>2 DEF TypeInv, StoreType
  <2>2. ProcInv'
    BY <1>2, <2>1 DEF StoreRead, Goto, TypeInv, ProcInv, ProcType, JobInv
  <2>3. UNCHANGED history
    BY <1>2 DEF StoreRead
  <2> QED BY <2>2, <2>3, Frames DEF StoreRead, TypeInv
<1>3. CASE status[job[p].op] = Absent /\ p \in Workers /\ job[p].op \in Handled
  <2>1. ProcInv'
    BY <1>3, EventDoneType DEF StoreRead
  <2>2. UNCHANGED history
    BY <1>3 DEF StoreRead
  <2> QED BY <2>1, <2>2, Frames DEF StoreRead, TypeInv
<1>4. CASE status[job[p].op] = Absent /\ ~(p \in Workers /\ job[p].op \in Handled)
  <2>1. ProcInv'
    BY <1>4, Leaves DEF StoreRead, Return, TypeInv, ProcInv, ProcType
  <2>2. StoreType'
    BY <1>4, ForgetType DEF StoreRead
  <2> QED BY <2>1, <2>2, Frames DEF StoreRead, TypeInv
<1> QED BY <1>2, <1>3, <1>4

LEMMA ClientTypes ==
  ASSUME TypeInv, NEW c \in Clients
  PROVE  /\ \A o \in Ops : Create(c, o) \/ Cancel(c, o) \/ Resume(c, o) => TypeInv'
         /\ EnqueuePush(c) \/ ResumePush(c) \/ ClientWrite(c) \/ ApiCrash(c) => TypeInv'
<1> c \in Procs
  BY DEF Procs
<1>1. ASSUME NEW o \in Ops, Create(c, o) PROVE TypeInv'
  <2>1. ProcInv'
    BY <1>1, Constants DEF Create, Take, Goto, TypeInv, ProcInv, ProcType, JobInv
  <2>2. StoreType'
    BY <1>1 DEF Create, TypeInv, StoreType, Status, history
  <2> QED BY <1>1, <2>1, <2>2, Frames DEF Create, TypeInv
<1>2. ASSUME NEW o \in Ops, Cancel(c, o) PROVE TypeInv'
  <2>1. ProcInv'
    BY <1>2, Constants DEF Cancel, StoreEvent, Goto, TypeInv, ProcInv, ProcType, JobInv, Event
  <2> QED BY <1>2, <2>1, Frames DEF Cancel, TypeInv
<1>3. ASSUME NEW o \in Ops, Resume(c, o) PROVE TypeInv'
  <2>1. request[o] \in Requests
    BY DEF TypeInv, StoreType
  <2>2. ProcInv'
    BY <1>3, <2>1, Constants DEF Resume, Take, Goto, TypeInv, ProcInv, ProcType, JobInv
  <2> QED BY <1>3, <2>2, Frames DEF Resume, TypeInv
<1>4. ASSUME EnqueuePush(c) PROVE TypeInv'
  <2>1. job[c] \in Payload /\ job[c].op \in Ops
    BY <1>4 DEF EnqueuePush, TypeInv, ProcInv, JobInv, Payload
  <2>2. ProcInv'
    BY <1>4, Leaves DEF EnqueuePush, Return, TypeInv, ProcInv, ProcType
  <2>3. ListType' /\ StoreType'
    BY <1>4, <2>1, AppendSet DEF EnqueuePush, Push, TypeInv, ListType, StoreType, store
  <2> QED BY <1>4, <2>2, <2>3, Frames DEF EnqueuePush, TypeInv
<1>5. ASSUME ResumePush(c) PROVE TypeInv'
  <2>1. job[c] \in Payload /\ job[c].op \in Ops
    BY <1>5 DEF ResumePush, TypeInv, ProcInv, JobInv, Payload
  <2>2. ProcInv'
    BY <1>5 DEF ResumePush, StoreEvent, Goto, TypeInv, ProcInv, ProcType, JobInv, Event
  <2>3. ListType' /\ StoreType'
    BY <1>5, <2>1, AppendSet DEF ResumePush, Push, TypeInv, ListType, StoreType, store
  <2> QED BY <1>5, <2>2, <2>3, Frames DEF ResumePush, TypeInv
<1>6. ASSUME ClientWrite(c) PROVE TypeInv'
  <2>1. ProcInv'
    BY <1>6, Leaves DEF ClientWrite, Return, TypeInv, ProcInv, ProcType
  <2>2. StoreType'
    BY <1>6, MetadataTypes DEF ClientWrite, TypeInv, StoreType, history
  <2> QED BY <1>6, <2>1, <2>2, Frames DEF ClientWrite, TypeInv
<1>7. ASSUME ApiCrash(c) PROVE TypeInv'
  <2>1. ProcInv'
    BY <1>7, Leaves DEF ApiCrash, Return, TypeInv, ProcInv, ProcType
  <2> QED BY <1>7, <2>1, Frames DEF ApiCrash, TypeInv
<1> QED BY <1>1, <1>2, <1>3, <1>4, <1>5, <1>6, <1>7

LEMMA AdminTypes ==
  ASSUME TypeInv, NEW a \in Admins, AdminStep(a) \/ AdminCrash(a)
  PROVE  TypeInv'
<1> a \in Procs
  BY DEF Procs
<1>1. CASE DlqPop(a)
  <2>1. Head(dlq) \in Payload /\ Tail(dlq) \in Seq(Payload)
    BY <1>1, TailSet DEF DlqPop, TypeInv, ListType
  <2>2. [Head(dlq) EXCEPT !.attempt = 1] \in Payload
    BY <2>1, Constants DEF Payload
  <2> DEFINE task == [Head(dlq) EXCEPT !.attempt = 1]
  <2> HIDE DEF task
  <2>5. /\ pc' = [pc EXCEPT ![a] = "requeue"] /\ job' = [job EXCEPT ![a] = task]
        /\ pc[a] = "idle" /\ redrives' = redrives + 1 /\ redrives < MaxRedrives
        /\ UNCHANGED <<event, snap, ran, crashes>>
    BY <1>1 DEF DlqPop, Take, Goto, task
  <2>6. task \in Payload
    BY <2>2 DEF task
  <2>7. ProcType'
    BY <2>5, <2>6, Constants DEF TypeInv, ProcInv, ProcType
  <2>8. JobInv'
    BY <2>5, <2>6 DEF TypeInv, ProcInv, ProcType, JobInv
  <2>3. ProcInv'
    BY <2>7, <2>8 DEF ProcInv
  <2> QED BY <1>1, <2>1, <2>3, Frames DEF DlqPop, TypeInv, ListType
<1>2. CASE DlqRequeue(a)
  <2>1. job[a] \in Payload
    BY <1>2 DEF DlqRequeue, TypeInv, ProcInv, JobInv
  <2>2. ProcInv'
    BY <1>2, Leaves DEF DlqRequeue, Return, TypeInv, ProcInv, ProcType
  <2> QED BY <1>2, <2>1, <2>2, AppendSet, Frames DEF DlqRequeue, Push, TypeInv, ListType
<1>3. CASE DlqClear(a)
  <2>1. StoreType' /\ ListType'
    BY <1>3 DEF DlqClear, TypeInv, StoreType, ListType, store
  <2> QED BY <1>3, <2>1, Frames DEF DlqClear, TypeInv
<1>4. CASE AdminCrash(a)
  <2>1. crashes' \in 0 .. MaxCrashes
    BY <1>4, Constants DEF AdminCrash, TypeInv, ProcInv, ProcType
  <2>2. ProcInv'
    BY <1>4, <2>1, Leaves DEF AdminCrash, Return, TypeInv, ProcInv, ProcType
  <2>3. StoreType'
    BY <1>4 DEF AdminCrash, TypeInv, StoreType, store
  <2> QED BY <1>4, <2>2, <2>3, Frames DEF AdminCrash, TypeInv
<1> QED BY <1>1, <1>2, <1>3, <1>4 DEF AdminStep

LEMMA ReaperTypes ==
  ASSUME TypeInv, ReaperStep
  PROVE  TypeInv'
<1>1. CASE Scan
  <2>1. ReaperInv'
    BY <1>1 DEF Scan, TypeInv, ReaperInv, ReaperType, EntryInv
  <2> QED BY <1>1, <2>1, Frames DEF Scan, TypeInv
<1>2. CASE \E e \in todo : Examine(e[1], e[2])
  <2>1. PICK w \in Workers, task \in Payload : Examine(w, task)
    BY <1>2 DEF TypeInv, ReaperInv, ReaperType
  <2>2. Verdict(task) \in Verdicts
        /\ (Verdict(task) = "requeue" => task.attempt < MaxRetries)
    BY Constants DEF Verdict, Verdicts, Payload
  <2>3. ReaperInv'
    BY <2>1, <2>2 DEF Examine, TypeInv, ReaperInv, ReaperType, EntryInv, cleanup
  <2> QED BY <2>1, <2>3, Frames DEF Examine, TypeInv
<1>3. CASE TakeBack
  <2>1. rjob.worker \in Workers /\ rjob.task \in Payload /\ rjob.task.op \in Ops
    BY <1>3 DEF TakeBack, TypeInv, ReaperInv, EntryInv, Payload
  <2>2. ListType' /\ StoreType'
    BY <1>3, <2>1, RemovedType DEF TakeBack, TypeInv, ListType, StoreType, store
  <2>3. ReaperInv'
    BY <1>3 DEF TakeBack, ReaperDone, TypeInv, ReaperInv, ReaperType, EntryInv, cleanup
  <2> QED BY <1>3, <2>2, <2>3, Frames DEF TakeBack, TypeInv
<1>4. CASE Requeue
  <2>1. [rjob.task EXCEPT !.attempt = @ + 1] \in Payload
    BY <1>4, Constants DEF Requeue, TypeInv, ReaperInv, EntryInv, Payload
  <2>2. ListType'
    BY <1>4, <2>1, AppendSet DEF Requeue, Push, TypeInv, ListType
  <2>3. ReaperInv'
    BY <1>4 DEF Requeue, ReaperDone, TypeInv, ReaperInv, ReaperType, EntryInv, cleanup
  <2> QED BY <1>4, <2>2, <2>3, Frames DEF Requeue, TypeInv
<1>5. CASE DeadLetter
  <2>1. rjob.task \in Payload
    BY <1>5 DEF DeadLetter, TypeInv, ReaperInv, EntryInv
  <2>2. ListType'
    BY <1>5, <2>1, AppendSet DEF DeadLetter, TypeInv, ListType
  <2>3. ReaperInv'
    BY <1>5 DEF DeadLetter, ReaperDone, TypeInv, ReaperInv, ReaperType, EntryInv, cleanup
  <2> QED BY <1>5, <2>2, <2>3, Frames DEF DeadLetter, TypeInv
<1>6. CASE ReaperFail
  <2>1. StoreType'
    BY <1>6 DEF ReaperFail, TypeInv, StoreType, Status, history
  <2>2. ReaperInv'
    BY <1>6 DEF ReaperFail, ReaperDone, TypeInv, ReaperInv, ReaperType, EntryInv, cleanup
  <2> QED BY <1>6, <2>1, <2>2, Frames DEF ReaperFail, TypeInv
<1>7. ASSUME NEW w \in Workers, LookEmpty(w) PROVE TypeInv'
  <2>1. ReaperInv'
    BY <1>7 DEF LookEmpty, TypeInv, ReaperInv, ReaperType, EntryInv
  <2> QED BY <1>7, <2>1, Frames DEF LookEmpty, TypeInv
<1>8. ASSUME NEW w \in Workers, DeleteList(w) PROVE TypeInv'
  <2>1. ListType' /\ StoreType'
    BY <1>8 DEF DeleteList, TypeInv, ListType, StoreType, store
  <2>2. ReaperInv'
    BY <1>8 DEF DeleteList, TypeInv, ReaperInv, ReaperType, EntryInv
  <2> QED BY <1>8, <2>1, <2>2, Frames DEF DeleteList, TypeInv
<1> QED BY <1>1, <1>2, <1>3, <1>4, <1>5, <1>6, <1>7, <1>8 DEF ReaperStep

LEMMA TimeTypes ==
  ASSUME TypeInv
  PROVE  /\ Tick => TypeInv'
         /\ \A o \in Ops : Expire(o) => TypeInv'
         /\ ReaperCrash => TypeInv'
<1>1. ASSUME Tick PROVE TypeInv'
  <2>1. StoreType'
    BY <1>1, Constants DEF Tick, TypeInv, StoreType, history
  <2>2. ran' \in [Workers -> 0 .. 2 * Budget]
    BY <1>1, Constants DEF Tick, TypeInv, ProcInv, ProcType
  <2>3. ProcInv'
    BY <1>1, <2>2 DEF Tick, TypeInv, ProcInv, ProcType, JobInv
  <2> QED BY <1>1, <2>1, <2>3, Frames DEF Tick, TypeInv
<1>2. ASSUME NEW o \in Ops, Expire(o) PROVE TypeInv'
  <2>1. StoreType'
    BY <1>2, Constants DEF Expire, TypeInv, StoreType, NoRequest, history
  <2> QED BY <1>2, <2>1, Frames DEF Expire, TypeInv
<1>3. ASSUME ReaperCrash PROVE TypeInv'
  <2>1. ProcInv' /\ StoreType'
    BY <1>3, Constants DEF ReaperCrash, TypeInv, ProcInv, ProcType, JobInv, StoreType, store
  <2>2. ReaperInv'
    BY <1>3 DEF ReaperCrash, ReaperDone, TypeInv, ReaperInv, ReaperType, EntryInv
  <2> QED BY <1>3, <2>1, <2>2, Frames DEF ReaperCrash, TypeInv
<1> QED BY <1>1, <1>2, <1>3

LEMMA TypeStep == TypeInv /\ [Next]_vars => TypeInv'
<1> SUFFICES ASSUME TypeInv, [Next]_vars PROVE TypeInv'
  OBVIOUS
<1>1. CASE UNCHANGED vars
  BY <1>1, Frames DEF vars, TypeInv
<1>2. CASE Next
  BY <1>2, WorkerTypes, ReadTypes, ClientTypes, AdminTypes, ReaperTypes, TimeTypes
  DEF Next, WorkerStep, ClientStep, NewRequest, Procs
<1> QED BY <1>1, <1>2

LEMMA TypeInvHolds == Spec => []TypeInv
<1>1. Init => TypeInv
  BY Constants DEF Init, TypeInv, StoreType, ListType, ProcInv, ProcType, JobInv,
     ReaperInv, ReaperType, EntryInv, Event, NoRequest
<1> QED BY <1>1, TypeStep, PTL DEF Spec

\* Every variable of the queue keeps its type; in particular no attempt number
\* exceeds MaxRetries and no pause exceeds the task's checkpoints.
THEOREM TypeCorrect == Spec => []TypeOK
BY TypeInvHolds, TypeInvImplies, PTL

-----------------------------------------------------------------------------
(* No accepted task is lost *)

\* The places a task can be in.
InQueue(o) == \E task \in ToSet(queue) : task.op = o
InDlq(o) == \E task \in ToSet(dlq) : task.op = o
InFlight(o) == \E w \in Workers, task \in Payload : task.op = o /\ inflight[w][task] > 0
InAdminHand(o) == \E a \in Admins : pc[a] = "requeue" /\ job[a].op = o
InReaperHand(o) == rpc = "push" /\ rjob.task.op = o
InWorkerHand(o) == \E w \in erased : job[w].op = o

Parts(o) ==
  \/ InQueue(o) \/ InDlq(o) \/ InFlight(o)
  \/ InAdminHand(o) \/ InReaperHand(o) \/ InWorkerHand(o)

\* A worker without a task holds none, and nobody has erased its entry.
HandInv ==
  \A w \in Workers : pc[w] \in {"idle", "down"} => job[w] = NoTask /\ w \notin erased

LEMMA NoTaskIsNone == NoTask \notin Payload
<1> SUFFICES ASSUME NoTask \in Payload PROVE FALSE
  OBVIOUS
<1>1. DOMAIN NoTask = {"op", "attempt", "resume"}
  BY DEF Payload
<1>2. DOMAIN NoTask = {"op"}
  BY DEF NoTask
<1> QED BY <1>1, <1>2

LEMMA HandStep == TypeInv /\ HandInv /\ [Next]_vars => HandInv'
<1> SUFFICES ASSUME TypeInv, HandInv, [Next]_vars PROVE HandInv'
  OBVIOUS
<1> ProcType /\ erased \subseteq Workers
  BY DEF TypeInv, ProcInv, StoreType
<1>1. CASE UNCHANGED <<pc, job, erased>>
  BY <1>1 DEF HandInv
<1>2. ASSUME NEW p \in Procs,
             \/ \E next \in {"picked", "read", "write", "execute", "release"} :
                  pc' = [pc EXCEPT ![p] = next] /\ UNCHANGED erased
             \/ \E next : /\ pc' = [pc EXCEPT ![p] = next]
                           /\ job' = [job EXCEPT ![p] = NoTask]
                           /\ erased' = erased \ {p},
             \/ UNCHANGED job
             \/ \E task : job' = [job EXCEPT ![p] = task]
      PROVE  HandInv'
  BY <1>2 DEF HandInv, ProcType, Procs
<1>3. ASSUME NEW q \in Clients \union Admins, NEW next,
             pc' = [pc EXCEPT ![q] = next], erased' \subseteq erased,
             UNCHANGED job \/ \E task : job' = [job EXCEPT ![q] = task]
      PROVE  HandInv'
  <2>1. \A w \in Workers : w # q /\ w \in Procs /\ q \in Procs
    BY ConstantsAssumption DEF Procs
  <2>2. \A w \in Workers : pc'[w] = pc[w] /\ job'[w] = job[w]
    BY <1>3, <2>1 DEF ProcType
  <2> QED BY <1>3, <2>2 DEF HandInv
<1>4. ASSUME NEW w \in Workers, WorkerStep(w) \/ Crash(w) PROVE HandInv'
  BY <1>2, <1>4
  DEF WorkerStep, Pick, Check, StoreRead, WorkerWrite, Release, Outcome, Crash, StoreEvent, Take,
      EventDone, Return, Leave, Forget, Goto, history, Procs
<1>5. ASSUME NEW w \in Workers, Restart(w) PROVE HandInv'
  BY <1>5 DEF Restart, Goto, HandInv, ProcType, Procs, history
<1>6. ASSUME NEW c \in Clients, NewRequest(c) \/ ClientStep(c) \/ ApiCrash(c) PROVE HandInv'
  <2>1. erased' \subseteq erased
    BY <1>6 DEF NewRequest, ClientStep, Create, Cancel, Resume, EnqueuePush, ResumePush, StoreRead,
                ClientWrite, ApiCrash, Forget, history
  <2>2. PICK next : pc' = [pc EXCEPT ![c] = next]
    BY <1>6 DEF NewRequest, ClientStep, Create, Cancel, Resume, EnqueuePush, ResumePush, StoreRead,
                ClientWrite, ApiCrash, StoreEvent, Take, EventDone, Return, Leave, Goto
  <2>3. UNCHANGED job \/ \E task : job' = [job EXCEPT ![c] = task]
    BY <1>6 DEF NewRequest, ClientStep, Create, Cancel, Resume, EnqueuePush, ResumePush, StoreRead,
                ClientWrite, ApiCrash, StoreEvent, Take, Return, Leave
  <2> QED BY <1>3, <2>1, <2>2, <2>3
<1>7. ASSUME NEW a \in Admins, AdminStep(a) \/ AdminCrash(a) PROVE HandInv'
  <2>1. CASE DlqClear(a)
    BY <1>1, <2>1 DEF DlqClear, procs
  <2>2. CASE DlqPop(a) \/ DlqRequeue(a) \/ AdminCrash(a)
    <3>1. UNCHANGED erased
      BY <2>2 DEF DlqPop, DlqRequeue, AdminCrash, history
    <3>2. PICK next : pc' = [pc EXCEPT ![a] = next]
      BY <2>2 DEF DlqPop, DlqRequeue, AdminCrash, Take, Return, Leave, Goto
    <3>3. \E task : job' = [job EXCEPT ![a] = task]
      BY <2>2 DEF DlqPop, DlqRequeue, AdminCrash, Take, Return, Leave
    <3> QED BY <1>3, <3>1, <3>2, <3>3
  <2> QED BY <1>7, <2>1, <2>2 DEF AdminStep
<1>8. ASSUME NEW w \in Workers, DeleteList(w) PROVE HandInv'
  <2>1. UNCHANGED <<pc, job>> /\ erased' \subseteq erased \union {w}
    BY <1>8 DEF DeleteList, procs
  <2>2. w \in erased' => w \in erased \/ job[w] # NoTask
    BY <1>8, NoTaskIsNone DEF DeleteList
  <2> QED BY <2>1, <2>2 DEF HandInv
<1>9. CASE \/ ReaperStep /\ ~\E w \in Workers : DeleteList(w)
           \/ ReaperCrash \/ Tick \/ (\E o \in Ops : Expire(o)) \/ UNCHANGED vars
  BY <1>1, <1>9
  DEF ReaperStep, Scan, Examine, TakeBack, Requeue, DeadLetter, ReaperFail, LookEmpty, ReaperCrash,
      Tick, Expire, procs, history, vars
<1> QED BY <1>4, <1>5, <1>6, <1>7, <1>8, <1>9 DEF Next

\* What leaves a place alone leaves what it holds alone.
LEMMA PlaceFrames ==
  ASSUME NEW o
  PROVE  /\ UNCHANGED queue => (InQueue(o)' <=> InQueue(o))
         /\ UNCHANGED dlq => (InDlq(o)' <=> InDlq(o))
         /\ UNCHANGED inflight => (InFlight(o)' <=> InFlight(o))
         /\ UNCHANGED <<rpc, rjob>> => (InReaperHand(o)' <=> InReaperHand(o))
         /\ UNCHANGED <<pc, job>> => (InAdminHand(o)' <=> InAdminHand(o))
         /\ UNCHANGED <<erased, job>> => (InWorkerHand(o)' <=> InWorkerHand(o))
BY DEF InQueue, InDlq, InFlight, InReaperHand, InAdminHand, InWorkerHand

\* A process that keeps its job, or gives it up with what is due for it, leaves the
\* workers' hands alone.
LEMMA WorkersHands ==
  ASSUME ProcType, erased \subseteq Workers, NEW p \in Procs, NEW task, NEW o,
         UNCHANGED job \/ job' = [job EXCEPT ![p] = task],
         erased \ {p} \subseteq erased',
         (UNCHANGED job /\ erased \subseteq erased') \/ p \notin erased \/ o # job[p].op
  PROVE  InWorkerHand(o) => InWorkerHand(o)'
BY DEF InWorkerHand, ProcType, Procs

\* A worker's or a client's own step leaves the administrators' hands alone.
LEMMA OthersHands ==
  ASSUME NEW o, NEW p \in Workers \union Clients, NEW next, NEW task,
         \/ pc' = [pc EXCEPT ![p] = next] /\ UNCHANGED job
         \/ pc' = [pc EXCEPT ![p] = next] /\ job' = [job EXCEPT ![p] = task],
         ProcType
  PROVE  InAdminHand(o)' <=> InAdminHand(o)
<1>1. \A a \in Admins : a # p /\ a \in Procs /\ p \in Procs
  BY ConstantsAssumption DEF Procs
<1>2. \A a \in Admins : pc'[a] = pc[a] /\ job'[a] = job[a]
  BY <1>1 DEF ProcType
<1> QED BY <1>2 DEF InAdminHand

\* A pushed task is in the queue, with everything that was there before.
LEMMA PushHolds ==
  ASSUME ListType, NEW task \in Payload, Push(task), NEW o
  PROVE  InQueue(o)' <=> (InQueue(o) \/ o = task.op)
<1>1. ToSet(queue') = ToSet(queue) \union {task}
  BY AppendSet DEF Push, ListType
<1> QED BY <1>1 DEF InQueue

\* LREM of a task loses sight of no other operation.
LEMMA RemovedHolds ==
  ASSUME ListType, NEW w \in Workers, NEW task \in Payload, NEW o, o # task.op,
         inflight' = Removed(w, task), InFlight(o)
  PROVE  InFlight(o)'
<1>1. PICK v \in Workers, t \in Payload : t.op = o /\ inflight[v][t] > 0
  BY DEF InFlight
<1>2. inflight'[v][t] = inflight[v][t]
  BY <1>1 DEF Removed, ListType
<1> QED BY <1>1, <1>2 DEF InFlight

\* A step that touches none of the places but the workers' hands and accepts no task.
LEMMA Bystander ==
  ASSUME \A o \in owed : Parts(o), UNCHANGED <<lists, rpc, rjob>>, owed' \subseteq owed,
         \A o : InAdminHand(o)' <=> InAdminHand(o),
         \A o \in owed' : InWorkerHand(o) => InWorkerHand(o)'
  PROVE  (\A o \in owed : Parts(o))'
BY PlaceFrames DEF Parts, lists

LEMMA WorkerConserves ==
  ASSUME TypeInv, HandInv, \A o \in owed : Parts(o), NEW w \in Workers,
         WorkerStep(w) \/ Crash(w) \/ Restart(w)
  PROVE  (\A o \in owed : Parts(o))'
<1> /\ w \in Procs /\ ProcType /\ ListType /\ w \in Workers \union Clients
    /\ erased \subseteq Workers
  BY DEF Procs, TypeInv, ProcInv, StoreType
<1>1. CASE Pick(w)
  <2>1. /\ Head(queue) \in Payload
        /\ ToSet(queue) = {Head(queue)} \union ToSet(Tail(queue))
    BY <1>1, TailSet DEF Pick, ListType
  <2>2. SUFFICES ASSUME NEW o \in owed PROVE Parts(o)'
    BY <1>1 DEF Pick, history
  <2>3. InFlight(o) \/ o = Head(queue).op => InFlight(o)'
    BY <1>1, <2>1 DEF Pick, InFlight, ListType
  <2>4. InQueue(o) => InQueue(o)' \/ o = Head(queue).op
    BY <1>1, <2>1 DEF Pick, InQueue
  <2>5. InAdminHand(o)' <=> InAdminHand(o)
    BY <1>1, OthersHands DEF Pick, Take, Goto
  <2>6. InWorkerHand(o) => InWorkerHand(o)'
    <3>1. w \notin erased /\ UNCHANGED erased
      BY <1>1 DEF Pick, HandInv, history
    <3>2. \E task : job' = [job EXCEPT ![w] = task]
      BY <1>1 DEF Pick, Take
    <3> QED BY <3>1, <3>2, WorkersHands
  <2> QED BY <1>1, <2>3, <2>4, <2>5, <2>6, PlaceFrames DEF Pick, Parts, reaper
<1>2. CASE Release(w)
  <2>1. job[w] \in Payload
    BY <1>2 DEF Release, TypeInv, ProcInv, JobInv
  <2>2. SUFFICES ASSUME NEW o \in owed, o # job[w].op PROVE Parts(o)'
    BY <1>2 DEF Release
  <2>3. InFlight(o) => InFlight(o)'
    BY <1>2, <2>1, <2>2, RemovedHolds DEF Release
  <2>4. InAdminHand(o)' <=> InAdminHand(o)
    BY <1>2, OthersHands DEF Release, Return, Leave, Goto
  <2>5. InWorkerHand(o) => InWorkerHand(o)'
    BY <1>2, <2>2, WorkersHands DEF Release, Return, Leave
  <2> QED BY <1>2, <2>3, <2>4, <2>5, PlaceFrames DEF Release, Parts, reaper
<1>3. CASE Check(w) \/ StoreRead(w) \/ WorkerWrite(w) \/ (\E e \in Outcomes : Outcome(w, e))
           \/ Crash(w) \/ Restart(w)
  <2>1. UNCHANGED <<lists, reaper>> /\ owed' \subseteq owed
    BY <1>3 DEF Check, StoreRead, WorkerWrite, Outcome, Crash, Restart, Forget, history
  <2>2. \/ \E next : pc' = [pc EXCEPT ![w] = next] /\ UNCHANGED job
        \/ \E next : pc' = [pc EXCEPT ![w] = next] /\ job' = [job EXCEPT ![w] = NoTask]
    BY <1>3 DEF Check, StoreRead, WorkerWrite, Outcome, Crash, Restart, StoreEvent, EventDone,
                Return, Leave, Goto
  <2>3. \A o : InAdminHand(o)' <=> InAdminHand(o)
    BY <2>2, OthersHands
  <2>4. UNCHANGED <<job, erased>> \/ Forget(w)
    BY <1>3 DEF Check, StoreRead, WorkerWrite, Outcome, Crash, Restart, StoreEvent, EventDone,
                history
  <2>5. \A o \in owed' : InWorkerHand(o) => InWorkerHand(o)'
    BY <2>2, <2>4, WorkersHands DEF Forget
  <2> QED BY <2>1, <2>3, <2>5, Bystander DEF reaper
<1> QED BY <1>1, <1>2, <1>3 DEF WorkerStep

LEMMA ClientConserves ==
  ASSUME TypeInv, \A o \in owed : Parts(o), NEW c \in Clients,
         NewRequest(c) \/ ClientStep(c) \/ ApiCrash(c)
  PROVE  (\A o \in owed : Parts(o))'
<1> /\ c \in Procs /\ ProcType /\ ListType /\ c \in Workers \union Clients
    /\ erased \subseteq Workers /\ c \notin erased
  BY ConstantsAssumption DEF Procs, TypeInv, ProcInv, StoreType
<1>1. CASE EnqueuePush(c) \/ ResumePush(c)
  <2>1. job[c] \in Payload /\ Push(job[c])
    BY <1>1 DEF EnqueuePush, ResumePush, TypeInv, ProcInv, JobInv
  <2>2. owed' = owed \union {job[c].op} /\ UNCHANGED <<inflight, dlq, reaper>>
    BY <1>1 DEF EnqueuePush, ResumePush
  <2>3. \/ \E next : pc' = [pc EXCEPT ![c] = next] /\ UNCHANGED job
        \/ \E next : pc' = [pc EXCEPT ![c] = next] /\ job' = [job EXCEPT ![c] = NoTask]
    BY <1>1 DEF EnqueuePush, ResumePush, StoreEvent, Return, Leave, Goto
  <2>4. SUFFICES ASSUME NEW o \in owed' PROVE Parts(o)'
    OBVIOUS
  <2>5. InAdminHand(o)' <=> InAdminHand(o)
    BY <2>3, OthersHands
  <2>6. InQueue(o)' <=> (InQueue(o) \/ o = job[c].op)
    BY <2>1, PushHolds
  <2>7. InWorkerHand(o) => InWorkerHand(o)'
    BY <1>1, <2>3, WorkersHands DEF EnqueuePush, ResumePush
  <2> QED BY <2>2, <2>5, <2>6, <2>7, PlaceFrames DEF Parts, reaper
<1>2. CASE NewRequest(c) \/ StoreRead(c) \/ ClientWrite(c) \/ ApiCrash(c)
  <2>1. UNCHANGED <<lists, reaper>> /\ owed' \subseteq owed /\ erased \subseteq erased'
    BY <1>2 DEF NewRequest, Create, Cancel, Resume, StoreRead, ClientWrite, ApiCrash, Forget, history
  <2>2. \/ \E next : pc' = [pc EXCEPT ![c] = next] /\ UNCHANGED job
        \/ \E next, task : pc' = [pc EXCEPT ![c] = next] /\ job' = [job EXCEPT ![c] = task]
    BY <1>2 DEF NewRequest, Create, Cancel, Resume, StoreRead, ClientWrite, ApiCrash, Take,
                StoreEvent, EventDone, Return, Leave, Goto
  <2>3. \A o : InAdminHand(o)' <=> InAdminHand(o)
    BY <2>2, OthersHands
  <2>4. \A o : InWorkerHand(o) => InWorkerHand(o)'
    BY <2>1, <2>2, WorkersHands
  <2> QED BY <2>1, <2>3, <2>4, Bystander DEF reaper
<1> QED BY <1>1, <1>2 DEF ClientStep

LEMMA AdminConserves ==
  ASSUME TypeInv, \A o \in owed : Parts(o), NEW a \in Admins, AdminStep(a) \/ AdminCrash(a)
  PROVE  (\A o \in owed : Parts(o))'
<1> /\ a \in Procs /\ ProcType /\ ListType
    /\ erased \subseteq Workers /\ a \notin erased
  BY ConstantsAssumption DEF Procs, TypeInv, ProcInv, StoreType
<1>0. \A o : InWorkerHand(o) => InWorkerHand(o)'
  <2>1. UNCHANGED erased /\ (UNCHANGED job \/ \E task : job' = [job EXCEPT ![a] = task])
    BY DEF AdminStep, DlqPop, DlqRequeue, DlqClear, AdminCrash, Take, Return, Leave, history, procs
  <2> QED BY <2>1, WorkersHands
<1>1. CASE DlqPop(a)
  <2>1. /\ Head(dlq) \in Payload
        /\ ToSet(dlq) = {Head(dlq)} \union ToSet(Tail(dlq))
    BY <1>1, TailSet DEF DlqPop, ListType
  <2>2. SUFFICES ASSUME NEW o \in owed PROVE Parts(o)'
    BY <1>1 DEF DlqPop, history
  <2>3. InDlq(o) => InDlq(o)' \/ o = Head(dlq).op
    BY <1>1, <2>1 DEF DlqPop, InDlq
  <2> DEFINE task == [Head(dlq) EXCEPT !.attempt = 1]
  <2>4. task.op = Head(dlq).op
    BY <2>1 DEF Payload
  <2> HIDE DEF task
  <2>5. /\ pc[a] = "idle"
        /\ pc' = [pc EXCEPT ![a] = "requeue"] /\ job' = [job EXCEPT ![a] = task]
    BY <1>1 DEF DlqPop, Take, Goto, task
  <2>6. InAdminHand(o) \/ o = Head(dlq).op => InAdminHand(o)'
    BY <2>4, <2>5 DEF InAdminHand, ProcType, Procs
  <2> QED BY <1>0, <1>1, <2>3, <2>6, PlaceFrames DEF DlqPop, Parts, reaper
<1>2. CASE DlqRequeue(a)
  <2>1. job[a] \in Payload /\ Push(job[a])
    BY <1>2 DEF DlqRequeue, TypeInv, ProcInv, JobInv
  <2>2. SUFFICES ASSUME NEW o \in owed PROVE Parts(o)'
    BY <1>2 DEF DlqRequeue, history
  <2>3. InAdminHand(o) => InAdminHand(o)' \/ o = job[a].op
    BY <1>2 DEF DlqRequeue, Return, Leave, Goto, InAdminHand, ProcType, Procs
  <2>4. InQueue(o)' <=> (InQueue(o) \/ o = job[a].op)
    BY <2>1, PushHolds
  <2> QED BY <1>0, <1>2, <2>3, <2>4, PlaceFrames DEF DlqRequeue, Parts, reaper
<1>3. CASE DlqClear(a)
  <2>1. SUFFICES ASSUME NEW o \in owed, ~InDlq(o) PROVE Parts(o)'
    BY <1>3 DEF DlqClear, InDlq
  <2> QED BY <1>0, <1>3, <2>1, PlaceFrames DEF DlqClear, Parts, procs, reaper
<1>4. CASE AdminCrash(a)
  <2>1. SUFFICES ASSUME NEW o \in owed, o # job[a].op PROVE Parts(o)'
    BY <1>4 DEF AdminCrash
  <2>2. InAdminHand(o) => InAdminHand(o)'
    BY <1>4, <2>1 DEF AdminCrash, Return, Leave, Goto, InAdminHand, ProcType, Procs
  <2> QED BY <1>0, <1>4, <2>2, PlaceFrames DEF AdminCrash, Parts, lists, reaper
<1> QED BY <1>1, <1>2, <1>3, <1>4 DEF AdminStep

LEMMA ReaperConserves ==
  ASSUME TypeInv, \A o \in owed : Parts(o), ReaperStep
  PROVE  (\A o \in owed : Parts(o))'
<1> ListType
  BY DEF TypeInv
<1>1. CASE \/ Scan \/ (\E e \in todo : Examine(e[1], e[2])) \/ ReaperFail
           \/ \E w \in Workers : LookEmpty(w)
  <2>1. UNCHANGED <<lists, procs, history>> /\ rpc # "push"
    BY <1>1 DEF Scan, Examine, ReaperFail, LookEmpty
  <2>2. SUFFICES ASSUME NEW o \in owed PROVE Parts(o)'
    BY <2>1 DEF history
  <2> QED BY <2>1, PlaceFrames DEF Parts, lists, procs, history, InReaperHand
<1>2. CASE TakeBack
  <2>1. rjob.worker \in Workers /\ rjob.task \in Payload
    BY <1>2 DEF TakeBack, TypeInv, ReaperInv, EntryInv
  <2>2. SUFFICES ASSUME NEW o \in owed' PROVE Parts(o)'
    OBVIOUS
  <2>3. o \in owed /\ (o # rjob.task.op \/ InReaperHand(o)')
    BY <1>2 DEF TakeBack, InReaperHand
  <2>4. InFlight(o) /\ o # rjob.task.op => InFlight(o)'
    BY <1>2, <2>1, RemovedHolds DEF TakeBack
  <2> QED BY <1>2, <2>3, <2>4, PlaceFrames DEF TakeBack, Parts, procs, InReaperHand
<1>3. CASE Requeue
  <2> DEFINE task == [rjob.task EXCEPT !.attempt = @ + 1]
  <2>1. task \in Payload /\ task.op = rjob.task.op
    BY <1>3, Constants DEF Requeue, TypeInv, ReaperInv, EntryInv, Payload
  <2>2. Push(task)
    BY <1>3 DEF Requeue
  <2> HIDE DEF task
  <2>3. SUFFICES ASSUME NEW o \in owed PROVE Parts(o)'
    BY <1>3 DEF Requeue, history
  <2>4. InQueue(o)' <=> (InQueue(o) \/ o = rjob.task.op)
    BY <2>1, <2>2, PushHolds
  <2> QED BY <1>3, <2>4, PlaceFrames DEF Requeue, Parts, procs, history, InReaperHand
<1>4. CASE DeadLetter
  <2>1. ToSet(dlq') = ToSet(dlq) \union {rjob.task}
    BY <1>4, AppendSet DEF DeadLetter, ListType, TypeInv, ReaperInv, EntryInv
  <2>2. SUFFICES ASSUME NEW o \in owed PROVE Parts(o)'
    BY <1>4 DEF DeadLetter, history
  <2>3. InDlq(o)' <=> (InDlq(o) \/ o = rjob.task.op)
    BY <2>1 DEF InDlq
  <2> QED BY <1>4, <2>3, PlaceFrames DEF DeadLetter, Parts, procs, history, InReaperHand
<1>5. ASSUME NEW w \in Workers, DeleteList(w) PROVE (\A o \in owed : Parts(o))'
  <2> DEFINE gone == {task \in Payload : inflight[w][task] > 0}
  <2>1. /\ UNCHANGED <<queue, dlq, pc, job, rpc, rjob>>
        /\ inflight' = [inflight EXCEPT ![w] = [task \in Payload |-> 0]]
        /\ erased' = IF job[w] \in gone THEN erased \union {w} ELSE erased
        /\ owed' = owed \ {task.op : task \in gone \ {job[w]}}
    BY <1>5 DEF DeleteList, procs
  <2>2. SUFFICES ASSUME NEW o \in owed, o \notin {task.op : task \in gone \ {job[w]}}
                 PROVE  Parts(o)'
    BY <2>1
  <2>3. InWorkerHand(o) => InWorkerHand(o)'
    BY <2>1 DEF InWorkerHand
  <2>4. InFlight(o) => InFlight(o)' \/ InWorkerHand(o)'
    <3> SUFFICES ASSUME NEW v \in Workers, NEW task \in Payload, task.op = o,
                        inflight[v][task] > 0
                 PROVE  InFlight(o)' \/ InWorkerHand(o)'
      BY DEF InFlight
    <3>1. CASE v # w
      <4>1. inflight'[v][task] = inflight[v][task]
        BY <2>1, <3>1 DEF ListType
      <4> QED BY <4>1 DEF InFlight
    <3>2. CASE v = w
      <4>1. task \in gone
        BY <3>2
      <4>2. job[w] = task
        BY <2>2, <4>1
      <4> QED BY <2>1, <4>1, <4>2 DEF InWorkerHand
    <3> QED BY <3>1, <3>2
  <2> QED BY <2>1, <2>3, <2>4, PlaceFrames DEF Parts
<1> QED BY <1>1, <1>2, <1>3, <1>4, <1>5 DEF ReaperStep

LEMMA ConservationStep ==
  TypeInv /\ HandInv /\ TaskConservation /\ [Next]_vars => TaskConservation'
<1> SUFFICES ASSUME TypeInv, HandInv, \A o \in owed : Parts(o), [Next]_vars
             PROVE  (\A o \in owed : Parts(o))'
  BY DEF TaskConservation, Held, Parts, InQueue, InDlq, InFlight, InAdminHand, InReaperHand,
         InWorkerHand
<1>1. CASE UNCHANGED vars
  <2>1. UNCHANGED <<lists, rpc, rjob, owed, erased, pc, job>>
    BY <1>1 DEF vars, procs, reaper, history
  <2> QED BY <2>1, PlaceFrames, Bystander
<1>2. CASE Tick \/ \E o \in Ops : Expire(o)
  <2>1. UNCHANGED <<lists, rpc, rjob, owed, erased, pc, job>>
    BY <1>2 DEF Tick, Expire, procs, reaper, history
  <2> QED BY <2>1, PlaceFrames, Bystander
<1>3. CASE ReaperCrash
  <2>1. UNCHANGED <<lists, pc, job, erased>>
    BY <1>3 DEF ReaperCrash
  <2>2. SUFFICES ASSUME NEW o \in owed, ~InReaperHand(o) PROVE Parts(o)'
    BY <1>3 DEF ReaperCrash, InReaperHand
  <2> QED BY <2>1, <2>2, PlaceFrames DEF Parts, lists
<1>4. CASE Next /\ ~ReaperCrash /\ ~(Tick \/ \E o \in Ops : Expire(o))
  BY <1>4, WorkerConserves, ClientConserves, AdminConserves, ReaperConserves DEF Next
<1> QED BY <1>1, <1>2, <1>3, <1>4

\* Every accepted task that has not been brought to an end is in the queue, in an
\* inflight list, in the DLQ or in the hands of whoever is moving it, or of its
\* worker if the reaper's clean-up has erased its entry, for any number of workers,
\* requests, crashes, reaper ticks and DLQ retries, unless it died with the daemon
\* or the command that held it or with the worker whose entry was erased.
THEOREM Conservation == Spec => []TaskConservation
<1>1. Init => TaskConservation /\ HandInv
  BY DEF Init, TaskConservation, HandInv, Procs
<1> QED BY <1>1, ConservationStep, HandStep, TypeInvHolds, PTL DEF Spec

-----------------------------------------------------------------------------
(* Only spent tasks are parked *)

\* The reaper condemns an entry on its last attempt only.
VerdictInv ==
  rpc \in {"remove", "push"} /\ rjob.verdict \in {"dlq", "dlq_fail"} =>
    rjob.task.attempt = MaxRetries

DlqInv == RetriesExhaustedBeforeDlq /\ VerdictInv

LEMMA DlqStep == TypeInv /\ DlqInv /\ [Next]_vars => DlqInv'
<1> SUFFICES ASSUME TypeInv, DlqInv, [Next]_vars PROVE DlqInv'
  OBVIOUS
<1>1. CASE UNCHANGED <<dlq, rpc, rjob>>
  BY <1>1 DEF DlqInv, RetriesExhaustedBeforeDlq, VerdictInv
<1>2. CASE Scan \/ \E w \in Workers : LookEmpty(w) \/ DeleteList(w)
  BY <1>1, <1>2 DEF Scan, LookEmpty, DeleteList, lists
<1>3. CASE \E e \in todo : Examine(e[1], e[2])
  <2>1. PICK w \in Workers, task \in Payload : Examine(w, task)
    BY <1>3 DEF TypeInv, ReaperInv, ReaperType
  <2>2. task.attempt \in 1 .. MaxRetries
    BY DEF Payload
  <2>3. Verdict(task) \in {"dlq", "dlq_fail"} => task.attempt = MaxRetries
    <3>1. CASE task.attempt >= MaxRetries
      BY <2>2, <3>1, Constants
    <3>2. CASE ~(task.attempt >= MaxRetries)
      BY <3>2 DEF Verdict
    <3> QED BY <3>1, <3>2
  <2> QED BY <2>1, <2>3 DEF Examine, DlqInv, RetriesExhaustedBeforeDlq, VerdictInv, lists
<1>4. CASE TakeBack \/ Requeue \/ ReaperFail \/ ReaperCrash
  BY <1>4 DEF TakeBack, Requeue, ReaperFail, ReaperCrash, ReaperDone, NoEntry, DlqInv,
              RetriesExhaustedBeforeDlq, VerdictInv, lists
<1>5. CASE DeadLetter
  <2>1. ToSet(dlq') = ToSet(dlq) \union {rjob.task} /\ rjob.task.attempt = MaxRetries
    BY <1>5, AppendSet DEF DeadLetter, TypeInv, ListType, ReaperInv, EntryInv, DlqInv, VerdictInv
  <2>2. rpc' \notin {"remove", "push"}
    BY <1>5 DEF DeadLetter, ReaperDone
  <2> QED BY <2>1, <2>2 DEF DlqInv, RetriesExhaustedBeforeDlq, VerdictInv
<1>6. CASE \E a \in Admins : DlqPop(a) \/ DlqClear(a)
  <2>1. dlq # <<>> /\ (dlq' = Tail(dlq) \/ dlq' = <<>>) /\ UNCHANGED <<rpc, rjob>>
    BY <1>6 DEF DlqPop, DlqClear, reaper
  <2>2. ToSet(dlq') \subseteq ToSet(dlq)
    <3>1. CASE dlq' = Tail(dlq)
      <4>1. ToSet(dlq) = {Head(dlq)} \union ToSet(Tail(dlq))
        BY <2>1, TailSet DEF TypeInv, ListType
      <4> QED BY <3>1, <4>1
    <3>2. CASE dlq' = <<>>
      BY <3>2 DEF ToSet
    <3> QED BY <2>1, <3>1, <3>2
  <2> QED BY <2>1, <2>2 DEF DlqInv, RetriesExhaustedBeforeDlq, VerdictInv
<1>7. CASE Next /\ ~ReaperStep /\ ~ReaperCrash /\ ~(\E a \in Admins : DlqPop(a) \/ DlqClear(a))
  <2>1. UNCHANGED <<dlq, rpc, rjob>>
    BY <1>7
    DEF Next, WorkerStep, Pick, Check, StoreRead, WorkerWrite, Release, Outcome, Crash, Restart,
        NewRequest, Create, Cancel, Resume, ClientStep, EnqueuePush, ResumePush, ClientWrite,
        ApiCrash, AdminStep, AdminCrash, DlqRequeue, Tick, Expire, lists, reaper
  <2> QED BY <1>1, <2>1
<1>8. CASE UNCHANGED vars
  BY <1>1, <1>8 DEF vars, lists, reaper
<1> QED BY <1>2, <1>3, <1>4, <1>5, <1>6, <1>7, <1>8 DEF ReaperStep

\* A task reaches the DLQ on its last attempt only, however often its metadata
\* expires and however often the DLQ is drained.
THEOREM DlqHoldsSpentTasks == Spec => []RetriesExhaustedBeforeDlq
<1>1. Init => DlqInv
  BY DEF Init, DlqInv, RetriesExhaustedBeforeDlq, VerdictInv, ToSet
<1>2. DlqInv => RetriesExhaustedBeforeDlq
  BY DEF DlqInv
<1> QED BY <1>1, <1>2, DlqStep, TypeInvHolds, PTL DEF Spec

-----------------------------------------------------------------------------
(* A paused operation has its question *)

Agrees(s, r) ==
  /\ s = "awaiting_input" => r # NoRequest
  /\ s \in OpenStatuses => r = NoRequest

\* Every record agrees with itself, and so does every copy somebody has read; an
\* operation has no record before it is created.
RecordInv ==
  /\ \A o \in Ops : /\ Agrees(status[o], request[o])
                    /\ status[o] = Absent => request[o] = NoRequest
                    /\ o \in fresh => status[o] = Absent
  /\ \A p \in Procs : Agrees(snap[p].status, snap[p].request)

LEMMA LadderRows ==
  /\ NextStatus["started"] = "running" /\ NextStatus["resumed"] = "running"
  /\ NextStatus["completed"] = "completed" /\ NextStatus["error"] = "failed"
  /\ NextStatus["cancelled"] = "cancelled"
  /\ NextStatus["awaiting_input"] = "awaiting_input"
BY DEF NextStatus, Event

\* What an event makes of a record that agrees, the pause's question being asked.
LEMMA EventAgrees ==
  ASSUME NEW s, NEW r, Agrees(s, r), NEW e \in Event, NEW k, k # NoRequest
  PROVE  Agrees(NextStatus[e], ApplyInputRequest(r, e, k)) \/ ~TransitionAllowed(s, NextStatus[e])
<1>1. CASE e = "awaiting_input"
  BY <1>1, LadderRows DEF Agrees, OpenStatuses, ApplyInputRequest
<1>2. CASE e \in {"started", "resumed"}
  BY <1>2, LadderRows DEF Agrees, OpenStatuses, ApplyInputRequest
<1>3. CASE e \in {"completed", "error", "cancelled"}
  BY <1>3, LadderRows DEF Agrees, OpenStatuses
<1> QED BY <1>1, <1>2, <1>3 DEF Event

\* Nobody's copy of a record is anything but the record, or the one before it.
LEMMA SnapMoves ==
  ASSUME TypeInv, [Next]_vars, NEW p \in Procs
  PROVE  \/ snap'[p] = snap[p] \/ snap'[p] = NoSnap
         \/ \E o \in Ops : snap'[p] = [status |-> status[o], request |-> request[o]]
<1>1. ASSUME NEW q \in Procs, StoreRead(q)
      PROVE  \/ snap'[p] = snap[p] \/ snap'[p] = NoSnap
             \/ \E o \in Ops : snap'[p] = [status |-> status[o], request |-> request[o]]
  <2>1. job[q].op \in Ops /\ snap \in [Procs -> [status : Status, request : Requests]]
    BY <1>1 DEF StoreRead, TypeInv, ProcInv, ProcType, JobInv, Payload
  <2> QED BY <1>1, <2>1 DEF StoreRead, EventDone, Return, Leave
<1>2. ASSUME NEW q \in Procs, NEW next, Leave(q, next) \/ EventDone(q, next)
      PROVE  snap'[p] = snap[p] \/ snap'[p] = NoSnap
  BY <1>2 DEF Leave, EventDone, TypeInv, ProcInv, ProcType
<1>3. ASSUME UNCHANGED snap
      PROVE  snap'[p] = snap[p]
  BY <1>3
<1> QED
  BY <1>1, <1>2, <1>3
  DEF Next, WorkerStep, Pick, Check, WorkerWrite, Release, Outcome, Crash, Restart, NewRequest,
      Create, Cancel, Resume, ClientStep, EnqueuePush, ResumePush, ClientWrite, ApiCrash,
      AdminStep, AdminCrash, DlqPop, DlqClear, DlqRequeue, Tick, Expire, ReaperStep, Scan,
      Examine, TakeBack, Requeue, DeadLetter, ReaperFail, LookEmpty, DeleteList, ReaperCrash,
      Return, procs, vars, Procs

\* A step writes the record of one operation at most: from a copy and an event,
\* as a new operation's, as a failed one, or not at all.
RecordMove(o) ==
  \/ UNCHANGED <<status, request>>
  \/ \E p \in Procs, r \in Requests :
       /\ TransitionAllowed(snap[p].status, NextStatus[event[p]]) /\ status[o] # Absent
       /\ status' = [status EXCEPT ![o] = NextStatus[event[p]]]
       /\ request' = [request EXCEPT ![o] = ApplyInputRequest(snap[p].request, event[p], r + 1)]
  \/ o \in fresh /\ status' = [status EXCEPT ![o] = "pending"] /\ UNCHANGED request
  \/ /\ status[o] # Absent /\ status' = [status EXCEPT ![o] = "failed"] /\ UNCHANGED request
  \/ /\ status' = [status EXCEPT ![o] = Absent]
     /\ request' = [request EXCEPT ![o] = NoRequest]

LEMMA RecordMoves ==
  ASSUME TypeInv, [Next]_vars
  PROVE  \/ UNCHANGED <<status, request, fresh>>
         \/ \E o \in Ops : RecordMove(o) /\ fresh' = fresh \ {o} /\ o \in fresh
         \/ \E o \in Ops : RecordMove(o) /\ status[o] # Absent /\ fresh' = fresh
<1>1. ASSUME NEW p \in Procs, pc[p] = "write", PutMetadata(p)
      PROVE  \/ UNCHANGED <<status, request>>
             \/ job[p].op \in Ops /\ RecordMove(job[p].op) /\ status[job[p].op] # Absent
  <2>1. job[p].op \in Ops /\ job[p].resume \in Requests
    BY <1>1 DEF TypeInv, ProcInv, JobInv, Payload
  <2> QED BY <1>1, <2>1 DEF PutMetadata, RecordMove
<1>2. ASSUME NEW w \in Workers, WorkerWrite(w)
      PROVE  \/ UNCHANGED <<status, request, fresh>>
             \/ \E o \in Ops : RecordMove(o) /\ status[o] # Absent /\ fresh' = fresh
  BY <1>1, <1>2 DEF WorkerWrite, Procs
<1>3. ASSUME NEW c \in Clients, ClientWrite(c)
      PROVE  \/ UNCHANGED <<status, request, fresh>>
             \/ \E o \in Ops : RecordMove(o) /\ status[o] # Absent /\ fresh' = fresh
  BY <1>1, <1>3 DEF ClientWrite, Procs
<1>4. ASSUME NEW c \in Clients, NEW o \in Ops, Create(c, o)
      PROVE  RecordMove(o) /\ fresh' = fresh \ {o} /\ o \in fresh
  BY <1>4 DEF Create, RecordMove
<1>5. ASSUME ReaperFail
      PROVE  \/ UNCHANGED <<status, request, fresh>>
             \/ \E o \in Ops : RecordMove(o) /\ status[o] # Absent /\ fresh' = fresh
  <2>1. rjob.task.op \in Ops
    BY <1>5 DEF ReaperFail, TypeInv, ReaperInv, EntryInv, Payload
  <2>2. Absent \notin OpenStatuses
    BY DEF Absent, OpenStatuses
  <2> QED BY <1>5, <2>1, <2>2 DEF ReaperFail, RecordMove
<1>6. ASSUME NEW o \in Ops, Expire(o)
      PROVE  RecordMove(o) /\ status[o] # Absent /\ fresh' = fresh
  BY <1>6 DEF Expire, RecordMove
<1>7. ASSUME NEW p \in Procs, StoreRead(p)
      PROVE  UNCHANGED <<status, request, fresh>>
  BY <1>7 DEF StoreRead, store
<1> QED
  BY <1>2, <1>3, <1>4, <1>5, <1>6, <1>7
  DEF Next, WorkerStep, Pick, Check, Release, Outcome, Crash, Restart, NewRequest, Cancel,
      Resume, ClientStep, EnqueuePush, ResumePush, ApiCrash, AdminStep, AdminCrash, DlqPop,
      DlqClear, DlqRequeue, Tick, ReaperStep, Scan, Examine, TakeBack, Requeue, DeadLetter,
      LookEmpty, DeleteList, ReaperCrash, store, vars, Procs

LEMMA RecordAgrees ==
  ASSUME TypeInv, RecordInv, NEW o \in Ops, RecordMove(o), NEW q \in Ops
  PROVE  /\ Agrees(status'[q], request'[q])
         /\ status'[q] = Absent => request'[q] = NoRequest
         /\ q # o => status'[q] = status[q]
         /\ status[q] = Absent => status'[q] = Absent \/ (q = o /\ o \in fresh)
<1>0. /\ status \in [Ops -> Status \union {Absent}] /\ request \in [Ops -> Requests]
      /\ Agrees(status[q], request[q]) /\ (status[q] = Absent => request[q] = NoRequest)
  BY DEF TypeInv, StoreType, RecordInv
<1>1. CASE UNCHANGED <<status, request>>
  BY <1>0, <1>1
<1>2. ASSUME NEW p \in Procs, NEW r \in Requests,
             TransitionAllowed(snap[p].status, NextStatus[event[p]]), status[o] # Absent,
             status' = [status EXCEPT ![o] = NextStatus[event[p]]],
             request' = [request EXCEPT ![o] = ApplyInputRequest(snap[p].request, event[p], r + 1)]
      PROVE  /\ Agrees(status'[q], request'[q]) /\ (status'[q] # Absent \/ q # o)
             /\ q # o => status'[q] = status[q] /\ request'[q] = request[q]
  <2>1. event[p] \in Event /\ Agrees(snap[p].status, snap[p].request)
    BY DEF TypeInv, ProcInv, ProcType, RecordInv
  <2>2. r + 1 # NoRequest
    BY Constants DEF Requests, NoRequest
  <2>3. Agrees(NextStatus[event[p]], ApplyInputRequest(snap[p].request, event[p], r + 1))
    BY <1>2, <2>1, <2>2, EventAgrees
  <2>4. NextStatus[event[p]] # Absent
    BY <2>1, LadderTypes DEF Absent, Status
  <2> QED BY <1>0, <1>2, <2>3, <2>4
<1>3. CASE o \in fresh /\ status' = [status EXCEPT ![o] = "pending"] /\ UNCHANGED request
  <2>1. request[o] = NoRequest
    BY <1>3 DEF RecordInv
  <2> QED BY <1>0, <1>3, <2>1 DEF Agrees, Absent
<1>4. CASE /\ status[o] # Absent /\ status' = [status EXCEPT ![o] = "failed"]
           /\ UNCHANGED request
  BY <1>0, <1>4 DEF Agrees, OpenStatuses, Absent
<1>5. CASE /\ status' = [status EXCEPT ![o] = Absent]
           /\ request' = [request EXCEPT ![o] = NoRequest]
  BY <1>0, <1>5 DEF Agrees, OpenStatuses, Absent
<1> QED BY <1>0, <1>1, <1>2, <1>3, <1>4, <1>5 DEF RecordMove

LEMMA RecordStep == TypeInv /\ RecordInv /\ [Next]_vars => RecordInv'
<1> SUFFICES ASSUME TypeInv, RecordInv, [Next]_vars PROVE RecordInv'
  OBVIOUS
<1>1. \A p \in Procs : Agrees(snap'[p].status, snap'[p].request)
  <2> SUFFICES ASSUME NEW p \in Procs PROVE Agrees(snap'[p].status, snap'[p].request)
    OBVIOUS
  <2>1. Agrees(snap[p].status, snap[p].request) /\ Agrees(NoSnap.status, NoSnap.request)
    BY DEF RecordInv, NoSnap, Agrees, OpenStatuses
  <2>2. \A o \in Ops : Agrees(status[o], request[o])
    BY DEF RecordInv
  <2>3. ASSUME NEW o \in Ops, snap'[p] = [status |-> status[o], request |-> request[o]]
        PROVE  Agrees(snap'[p].status, snap'[p].request)
    <3>1. snap'[p].status = status[o] /\ snap'[p].request = request[o]
      BY <2>3
    <3> QED BY <2>2, <3>1
  <2> QED BY <2>1, <2>3, SnapMoves
<1>2. CASE UNCHANGED <<status, request, fresh>>
  BY <1>1, <1>2 DEF RecordInv
<1>3. ASSUME NEW o \in Ops, RecordMove(o), fresh' = fresh \ {o} \/ (fresh' = fresh /\ o \notin fresh)
      PROVE  RecordInv'
  <2>1. ASSUME NEW q \in Ops
        PROVE  /\ Agrees(status'[q], request'[q])
               /\ status'[q] = Absent => request'[q] = NoRequest
               /\ q \in fresh' => status'[q] = Absent
    BY <1>3, RecordAgrees DEF RecordInv
  <2> QED BY <1>1, <2>1 DEF RecordInv
<1>4. \A o \in Ops : status[o] # Absent => o \notin fresh
  BY DEF RecordInv
<1> QED BY <1>2, <1>3, <1>4, RecordMoves

\* Whatever workers, requests, the reaper and expiry do to its record, a paused
\* operation has the question its resume answers, and one that is queued or
\* running has none: "checkpoint was not recorded" is never the endpoint's answer.
THEOREM PausedTasksHaveQuestions ==
  Spec => [](\A o \in Ops : /\ status[o] = "awaiting_input" => request[o] # NoRequest
                           /\ status[o] \in OpenStatuses => request[o] = NoRequest)
<1>1. Init => RecordInv
  BY DEF Init, RecordInv, Agrees, NoSnap, OpenStatuses, Absent
<1>2. RecordInv => \A o \in Ops : /\ status[o] = "awaiting_input" => request[o] # NoRequest
                                 /\ status[o] \in OpenStatuses => request[o] = NoRequest
  BY DEF RecordInv, Agrees
<1> QED BY <1>1, <1>2, RecordStep, TypeInvHolds, PTL DEF Spec

-----------------------------------------------------------------------------
(* One attempt of a first run is in one place *)

First == {p \in Payload : p.resume = 0}

\* What follows an attempt, and everything after it.
Retry(p) == [p EXCEPT !.attempt = @ + 1]
Later(q, p) == q.op = p.op /\ q.attempt > p.attempt

\* An attempt waits for a worker in the queue or in the hand that will push it.
InQ(p) == p \in ToSet(queue)
ByClient(p) == \E c \in Clients : pc[c] = "push" /\ job[c] = p
ByReaper(p) == rpc = "push" /\ rjob.verdict = "requeue" /\ Retry(rjob.task) = p
Waiting(p) == InQ(p) \/ ByClient(p) \/ ByReaper(p)

\* The reaper can still take worker w's entry of it back; or w is at work on it.
Reapable(w, p) ==
  \/ inflight[w][p] > 0
  \/ <<w, p>> \in todo
  \/ rpc = "remove" /\ rjob.worker = w /\ rjob.task = p
Taken(w, p) == Reapable(w, p) \/ (Busy(w) /\ job[w] = p)

Unspent(p) == Waiting(p) \/ \E w \in Workers : Reapable(w, p)
Known(p) == Waiting(p) \/ \E w \in Workers : Taken(w, p)

\* An attempt is waiting or taken and taken by one worker; as long as it can be
\* retried there is no later one; of a fresh operation there is none.
Chain ==
  /\ \A p \in First : Waiting(p) => \A w \in Workers : ~Taken(w, p)
  /\ \A p \in First, v, w \in Workers : Taken(v, p) /\ Taken(w, p) => v = w
  /\ \A p, q \in First : Unspent(p) /\ Later(q, p) => ~Known(q)
  /\ \A p \in First : p.op \in fresh => ~Known(p)

\* It waits in one place, and has one copy there.
QueueOnce ==
  \A i, j \in DOMAIN queue : queue[i] = queue[j] /\ queue[i].resume = 0 => i = j

ClientOnce ==
  /\ \A c \in Clients : pc[c] = "push" =>
       job[c] \in First /\ job[c].attempt = 1 /\ ~InQ(job[c])
  /\ \A c, d \in Clients : pc[c] = "push" /\ pc[d] = "push" /\ job[c] = job[d] => c = d
  /\ \A c \in Clients : pc[c] = "repush" => job[c].resume # 0

ReaperOnce ==
  /\ \A p \in First : ByReaper(p) => ~InQ(p)
  /\ rpc # "idle" => <<rjob.worker, rjob.task>> \notin todo

CopyOnce == \A w \in Workers, p \in First : inflight[w][p] <= 1

NoRedrive == \A a \in Admins : pc[a] # "requeue"

OnceInv == Chain /\ QueueOnce /\ ClientOnce /\ ReaperOnce /\ CopyOnce /\ NoRedrive

LEMMA SameTask ==
  ASSUME NEW p \in First, NEW q \in First, p.op = q.op
  PROVE  /\ p.attempt = q.attempt => p = q
         /\ p.attempt \in Nat \ {0} /\ q.attempt \in Nat
BY Constants DEF First, Payload

\* The chain is about what there is: it survives every loss.
LEMMA ChainShrinks ==
  ASSUME Chain, fresh' \subseteq fresh,
         \A p \in First : Waiting(p)' => Waiting(p),
         \A p \in First, w \in Workers :
           (Reapable(w, p)' => Reapable(w, p)) /\ (Taken(w, p)' => Taken(w, p))
  PROVE  Chain'
<1>1. \A p \in First : (Unspent(p)' => Unspent(p)) /\ (Known(p)' => Known(p))
  BY DEF Unspent, Known
<1> QED BY <1>1 DEF Chain

\* Steps that push nothing, take nothing from the queue and start no work.
LEMMA Quiet ==
  ASSUME TypeInv, OnceInv, fresh' \subseteq fresh, queue' = queue,
         \A c \in Clients : /\ pc'[c] = "push" => pc[c] = "push" /\ job'[c] = job[c]
                            /\ pc'[c] = "repush" => job'[c].resume # 0,
         \A a \in Admins : pc'[a] # "requeue",
         \A w \in Workers : Busy(w)' => Busy(w) /\ job'[w] = job[w],
         rpc' = "push" /\ rjob'.verdict = "requeue" => rpc = "push" /\ rjob' = rjob,
         rpc' # "idle" => <<rjob'.worker, rjob'.task>> \notin todo',
         \A p \in First, w \in Workers :
           (Reapable(w, p)' => Reapable(w, p)) /\ inflight'[w][p] <= inflight[w][p],
         inflight' \in [Workers -> [Payload -> Nat]]
  PROVE  OnceInv'
<1>1. \A p \in First : Waiting(p)' => Waiting(p)
  BY DEF Waiting, InQ, ByClient, ByReaper
<1>2. \A p \in First, w \in Workers : Taken(w, p)' => Taken(w, p)
  BY DEF Taken
<1>3. Chain'
  BY <1>1, <1>2, ChainShrinks DEF OnceInv
<1>4. QueueOnce'
  BY DEF OnceInv, QueueOnce
<1>5. ClientOnce'
  BY DEF OnceInv, ClientOnce, InQ
<1>6. ReaperOnce'
  BY DEF OnceInv, ReaperOnce, InQ, ByReaper
<1>7. CopyOnce'
  <2> SUFFICES ASSUME NEW w \in Workers, NEW p \in First PROVE inflight'[w][p] <= 1
    BY DEF CopyOnce
  <2>1. inflight[w][p] <= 1 /\ inflight'[w][p] <= inflight[w][p] /\ p \in Payload
    BY DEF OnceInv, CopyOnce, First
  <2>2. inflight[w][p] \in Nat /\ inflight'[w][p] \in Nat
    BY <2>1 DEF TypeInv, ListType
  <2> QED BY <2>1, <2>2
<1> QED BY <1>3, <1>4, <1>5, <1>6, <1>7 DEF OnceInv, NoRedrive

Moves(p, next, task) ==
  /\ pc' = [pc EXCEPT ![p] = next]
  /\ job' = [job EXCEPT ![p] = task]

Removes ==
  \/ inflight' = inflight
  \/ \E w \in Workers, t \in Payload : inflight' = Removed(w, t)

\* A step of one process that leaves the reaper alone.
LEMMA ProcQuiet ==
  ASSUME TypeInv, OnceInv, fresh' \subseteq fresh, UNCHANGED <<queue, reaper>>,
         NEW p \in Procs, NEW next, NEW task, Moves(p, next, task), Removes,
         next \notin {"push", "requeue"},
         p \in Clients /\ next = "repush" => task.resume # 0,
         p \in Workers => next \in {"idle", "down"} \/ (Busy(p) /\ task = job[p])
  PROVE  OnceInv'
<1>1. /\ inflight' \in [Workers -> [Payload -> Nat]]
      /\ \A w \in Workers, t \in Payload : inflight'[w][t] <= inflight[w][t]
  <2>1. inflight \in [Workers -> [Payload -> Nat]] /\ ListType
    BY DEF TypeInv, ListType
  <2>2. CASE inflight' = inflight
    BY <2>1, <2>2
  <2>3. CASE \E w \in Workers, t \in Payload : inflight' = Removed(w, t)
    <3>1. PICK w \in Workers, t \in Payload : inflight' = Removed(w, t)
      BY <2>3
    <3> QED BY <2>1, <3>1, RemovedType DEF Removed
  <2> QED BY <2>2, <2>3 DEF Removes
<1>2. pc \in [Procs -> {"down", "idle", "create", "push", "repush", "requeue", "picked",
                        "read", "write", "execute", "release"}]
      /\ job \in [Procs -> Payload \union {NoTask}]
  BY DEF TypeInv, ProcInv, ProcType
<1>3. \A q \in Procs : /\ pc'[q] = IF q = p THEN next ELSE pc[q]
                       /\ job'[q] = IF q = p THEN task ELSE job[q]
  BY <1>2 DEF Moves
<1>4. \A c \in Clients : /\ pc'[c] = "push" => pc[c] = "push" /\ job'[c] = job[c]
                         /\ pc'[c] = "repush" => job'[c].resume # 0
  BY <1>3 DEF Procs, OnceInv, ClientOnce
<1>5. \A a \in Admins : pc'[a] # "requeue"
  BY <1>3 DEF Procs, OnceInv, NoRedrive
<1>6. \A w \in Workers : Busy(w)' => Busy(w) /\ job'[w] = job[w]
  BY <1>3 DEF Procs, Busy
<1>7. \A q \in First, w \in Workers : Reapable(w, q)' => Reapable(w, q)
  BY <1>1 DEF Reapable, reaper, First, TypeInv, ListType
<1> QED BY <1>1, <1>4, <1>5, <1>6, <1>7, Quiet DEF reaper, OnceInv, ReaperOnce, First

LEMMA WorkerOnce ==
  ASSUME TypeInv, OnceInv, NEW w \in Workers,
         (WorkerStep(w) /\ ~Pick(w)) \/ Crash(w) \/ Restart(w)
  PROVE  OnceInv'
<1> w \in Procs /\ w \notin Clients
  BY ConstantsAssumption DEF Procs
<1>1. job = [job EXCEPT ![w] = job[w]]
  BY DEF TypeInv, ProcInv, ProcType
<1>2. CASE Release(w)
  <2>1. job[w] \in Payload
    BY <1>2 DEF Release, TypeInv, ProcInv, JobInv
  <2>2. UNCHANGED <<fresh, queue, reaper>> /\ Moves(w, "idle", NoTask)
    BY <1>2 DEF Release, Return, Leave, Goto, store, Moves
  <2>3. Removes
    BY <1>2, <2>1 DEF Release, Removes
  <2> QED BY <2>2, <2>3, ProcQuiet
<1>3. CASE Crash(w) \/ Restart(w)
  <2>1. UNCHANGED <<fresh, queue, reaper>> /\ Removes
    BY <1>3 DEF Crash, Restart, store, lists, Removes
  <2>2. Moves(w, "down", NoTask) \/ Moves(w, "idle", job[w])
    BY <1>1, <1>3 DEF Crash, Restart, Leave, Goto, Moves
  <2> QED BY <2>1, <2>2, ProcQuiet
<1>4. CASE Check(w) \/ StoreRead(w) \/ WorkerWrite(w) \/ \E e \in Outcomes : Outcome(w, e)
  <2>1. Busy(w) /\ UNCHANGED <<fresh, queue, reaper>> /\ Removes
    BY <1>4 DEF Check, StoreRead, WorkerWrite, Outcome, Busy, store, lists, Removes
  <2>2. \/ \E next \in {"read", "write", "execute", "release"} : Moves(w, next, job[w])
        \/ Moves(w, "idle", NoTask)
    BY <1>1, <1>4 DEF Check, StoreRead, WorkerWrite, Outcome, StoreEvent, EventDone, Return, Leave,
                      Goto, Moves
  <2> QED BY <2>1, <2>2, ProcQuiet
<1> QED BY <1>2, <1>3, <1>4 DEF WorkerStep

LEMMA ClientOnceStep ==
  ASSUME TypeInv, OnceInv, NEW c \in Clients,
         \/ \E o \in Ops : Cancel(c, o) \/ Resume(c, o)
         \/ StoreRead(c) \/ ClientWrite(c) \/ ApiCrash(c)
  PROVE  OnceInv'
<1> c \in Procs /\ c \notin Workers
  BY ConstantsAssumption DEF Procs
<1>1. job = [job EXCEPT ![c] = job[c]]
  BY DEF TypeInv, ProcInv, ProcType
<1>2. UNCHANGED <<fresh, queue, reaper>> /\ Removes
  BY DEF Cancel, Resume, StoreRead, ClientWrite, ApiCrash, store, lists, Removes
<1>3. CASE \E o \in Ops : Resume(c, o)
  <2>1. PICK o \in Ops : Resume(c, o)
    BY <1>3
  <2> DEFINE task == [op |-> o, attempt |-> 1, resume |-> request[o]]
  <2>2. task.resume # 0 /\ Moves(c, "repush", task)
    BY <2>1 DEF Resume, Take, Goto, NoRequest, Moves
  <2> HIDE DEF task
  <2> QED BY <1>2, <2>2, ProcQuiet
<1>4. CASE \E o \in Ops : Cancel(c, o)
  <2>1. PICK o \in Ops : Cancel(c, o)
    BY <1>4
  <2> DEFINE task == [op |-> o, attempt |-> 1, resume |-> 0]
  <2>2. Moves(c, "read", task)
    BY <2>1 DEF Cancel, StoreEvent, Goto, Moves
  <2> HIDE DEF task
  <2> QED BY <1>2, <2>2, ProcQuiet
<1>5. CASE StoreRead(c) \/ ClientWrite(c) \/ ApiCrash(c)
  <2>1. \/ \E next \in {"write", "release"} : Moves(c, next, job[c])
        \/ Moves(c, "idle", NoTask)
    BY <1>1, <1>5 DEF StoreRead, ClientWrite, ApiCrash, EventDone, Return, Leave, Goto, Moves
  <2> QED BY <1>2, <2>1, ProcQuiet
<1> QED BY <1>3, <1>4, <1>5

\* Reaper, administrator and time steps that push nothing onto the queue.
LEMMA ReaperQuiet ==
  ASSUME TypeInv, TypeInv', OnceInv,
         \/ Scan \/ (\E e \in todo : Examine(e[1], e[2])) \/ DeadLetter \/ ReaperFail \/ ReaperCrash
         \/ (TakeBack /\ rjob.verdict # "requeue")
         \/ \E w \in Workers : LookEmpty(w) \/ DeleteList(w)
  PROVE  OnceInv'
<1>1. UNCHANGED <<fresh, queue, pc, job>>
  BY DEF Scan, Examine, DeadLetter, ReaperFail, ReaperCrash, TakeBack, LookEmpty, DeleteList, store,
         procs, lists
<1>2. /\ inflight' \in [Workers -> [Payload -> Nat]]
      /\ \A w \in Workers, t \in Payload : inflight'[w][t] <= inflight[w][t]
  <2>1. inflight \in [Workers -> [Payload -> Nat]] /\ inflight' \in [Workers -> [Payload -> Nat]]
    BY DEF TypeInv, ListType
  <2>2. CASE TakeBack
    <3>1. rjob.worker \in Workers /\ rjob.task \in Payload
      BY <2>2 DEF TakeBack, TypeInv, ReaperInv, EntryInv
    <3> QED BY <2>1, <2>2, <3>1 DEF TakeBack, Removed
  <2>3. CASE \E w \in Workers : DeleteList(w)
    <3>1. PICK w \in Workers : inflight' = [inflight EXCEPT ![w] = [task \in Payload |-> 0]]
      BY <2>3 DEF DeleteList
    <3> QED BY <2>1, <3>1
  <2>4. CASE ~TakeBack /\ ~\E w \in Workers : DeleteList(w)
    <3>1. inflight' = inflight
      BY <2>4 DEF Scan, Examine, DeadLetter, ReaperFail, ReaperCrash, LookEmpty, lists
    <3> QED BY <2>1, <3>1
  <2> QED BY <2>2, <2>3, <2>4
<1>3. \A p \in First, w \in Workers : Reapable(w, p)' => Reapable(w, p)
  <2> SUFFICES ASSUME NEW p \in First, NEW w \in Workers, Reapable(w, p)'
               PROVE  Reapable(w, p)
    OBVIOUS
  <2>1. p \in Payload /\ (inflight'[w][p] > 0 => inflight[w][p] > 0)
    <3>1. p \in Payload
      BY DEF First
    <3>2. inflight'[w][p] <= inflight[w][p] /\ inflight'[w][p] \in Nat /\ inflight[w][p] \in Nat
      BY <1>2, <3>1 DEF TypeInv, ListType
    <3> QED BY <3>1, <3>2
  <2>2. CASE Scan
    <3>1. <<w, p>> \in todo' => inflight[w][p] > 0
      BY <2>2 DEF Scan
    <3>2. rpc' = "idle"
      BY <2>2 DEF Scan
    <3> QED BY <2>1, <3>1, <3>2 DEF Reapable
  <2>3. CASE \E e \in todo : Examine(e[1], e[2])
    <3>1. PICK e \in todo : Examine(e[1], e[2])
      BY <2>3
    <3>2. /\ <<e[1], e[2]>> \in todo /\ todo' = todo \ {<<e[1], e[2]>>}
          /\ rpc = "idle"
          /\ rpc' = "remove" => rjob'.worker = e[1] /\ rjob'.task = e[2]
      BY <3>1 DEF Examine
    <3> QED BY <2>1, <3>2 DEF Reapable
  <2>4. CASE DeadLetter \/ ReaperFail \/ ReaperCrash \/ (TakeBack /\ rjob.verdict # "requeue")
    <3>1. todo' \subseteq todo /\ rpc' # "remove"
      BY <2>4 DEF DeadLetter, ReaperFail, ReaperCrash, TakeBack, ReaperDone
    <3> QED BY <2>1, <3>1 DEF Reapable
  <2>5. CASE \E v \in Workers : LookEmpty(v) \/ DeleteList(v)
    <3>1. UNCHANGED <<todo, rpc, rjob>>
      BY <2>5 DEF LookEmpty, DeleteList
    <3> QED BY <2>1, <3>1 DEF Reapable
  <2> QED BY <2>2, <2>3, <2>4, <2>5
<1>4. rpc' = "push" /\ rjob'.verdict = "requeue" => rpc = "push" /\ rjob' = rjob
  BY DEF Scan, Examine, DeadLetter, ReaperFail, ReaperCrash, ReaperDone, TakeBack, LookEmpty,
         DeleteList
<1>5. rpc' # "idle" => <<rjob'.worker, rjob'.task>> \notin todo'
  <2>1. CASE \E e \in todo : Examine(e[1], e[2])
    <3>1. PICK e \in todo : Examine(e[1], e[2])
      BY <2>1
    <3> QED BY <3>1 DEF Examine
  <2>2. CASE Scan \/ ReaperFail \/ ReaperCrash
    BY <2>2 DEF Scan, ReaperFail, ReaperCrash, ReaperDone
  <2>3. CASE DeadLetter \/ TakeBack
    <3>1. todo' = todo /\ rpc # "idle" /\ (rpc' = "idle" \/ rjob' = rjob)
      BY <2>3 DEF DeadLetter, TakeBack, ReaperDone
    <3> QED BY <3>1 DEF OnceInv, ReaperOnce
  <2>4. CASE \E w \in Workers : LookEmpty(w) \/ DeleteList(w)
    <3>1. UNCHANGED <<todo, rpc, rjob>>
      BY <2>4 DEF LookEmpty, DeleteList
    <3> QED BY <3>1 DEF OnceInv, ReaperOnce
  <2> QED BY <2>1, <2>2, <2>3, <2>4
<1> QED BY <1>1, <1>2, <1>3, <1>4, <1>5, Quiet
    DEF OnceInv, ClientOnce, NoRedrive, Busy, First

\* What a push does to the queue.
LEMMA PushOnce ==
  ASSUME TypeInv, QueueOnce, NEW t \in Payload, Push(t), t \in First => ~InQ(t)
  PROVE  /\ QueueOnce'
         /\ \A p : InQ(p)' <=> (InQ(p) \/ p = t)
<1>1. queue \in Seq(Payload) /\ queue' = Append(queue, t)
  BY DEF TypeInv, ListType, Push
<1>2. \A p : InQ(p)' <=> (InQ(p) \/ p = t)
  BY <1>1, AppendSet DEF InQ
<1>3. QueueOnce'
  <2> SUFFICES ASSUME NEW i \in DOMAIN queue', NEW j \in DOMAIN queue',
                      queue'[i] = queue'[j], queue'[i].resume = 0
               PROVE  i = j
    BY DEF QueueOnce
  <2>1. /\ Len(queue) \in Nat /\ DOMAIN queue = 1 .. Len(queue)
        /\ i \in 1 .. Len(queue) + 1 /\ j \in 1 .. Len(queue) + 1
        /\ i # Len(queue) + 1 => i \in DOMAIN queue /\ queue'[i] = queue[i]
        /\ j # Len(queue) + 1 => j \in DOMAIN queue /\ queue'[j] = queue[j]
        /\ i = Len(queue) + 1 => queue'[i] = t
        /\ j = Len(queue) + 1 => queue'[j] = t
    BY <1>1
  <2>2. CASE i = Len(queue) + 1 /\ j # Len(queue) + 1
    <3>1. t \in First /\ queue[j] = t
      BY <2>1, <2>2 DEF First
    <3> QED BY <2>1, <2>2, <3>1 DEF InQ, ToSet
  <2>3. CASE i # Len(queue) + 1 /\ j = Len(queue) + 1
    <3>1. t \in First /\ queue[i] = t
      BY <2>1, <2>3 DEF First
    <3> QED BY <2>1, <2>3, <3>1 DEF InQ, ToSet
  <2>4. CASE i # Len(queue) + 1 /\ j # Len(queue) + 1
    BY <2>1, <2>4 DEF QueueOnce
  <2> QED BY <2>2, <2>3, <2>4
<1> QED BY <1>2, <1>3

\* And what taking its head does.
LEMMA HeadOnce ==
  ASSUME TypeInv, QueueOnce, queue # <<>>, queue' = Tail(queue)
  PROVE  /\ QueueOnce' /\ Head(queue) \in Payload /\ InQ(Head(queue))
         /\ \A p : InQ(p)' => InQ(p)
         /\ \A p \in First : InQ(p)' => p # Head(queue)
<1>1. queue \in Seq(Payload) /\ Len(queue) \in Nat \ {0} /\ DOMAIN queue = 1 .. Len(queue)
  BY DEF TypeInv, ListType
<1>2. \A i \in DOMAIN queue' : i + 1 \in DOMAIN queue /\ queue'[i] = queue[i + 1] /\ i \in Nat \ {0}
  BY <1>1
<1>3. Head(queue) = queue[1] /\ 1 \in DOMAIN queue
  BY <1>1
<1>4. QueueOnce'
  <2> SUFFICES ASSUME NEW i \in DOMAIN queue', NEW j \in DOMAIN queue',
                      queue'[i] = queue'[j], queue'[i].resume = 0
               PROVE  i = j
    BY DEF QueueOnce
  <2>1. i + 1 = j + 1
    BY <1>2 DEF QueueOnce
  <2> QED BY <1>2, <2>1
<1>5. /\ Head(queue) \in Payload /\ ToSet(queue) = {Head(queue)} \union ToSet(Tail(queue))
  BY <1>1, TailSet
<1>6. ASSUME NEW p \in First, InQ(p)', p = Head(queue) PROVE FALSE
  <2>1. Head(queue) \in ToSet(queue')
    BY <1>6 DEF InQ
  <2>2. PICK i \in DOMAIN queue' : queue'[i] = Head(queue)
    BY <2>1 DEF ToSet
  <2>3. queue[i + 1] = queue[1] /\ queue[1].resume = 0 /\ i + 1 # 1
    BY <1>2, <1>3, <1>6, <2>2 DEF First
  <2> QED BY <1>2, <1>3, <2>3 DEF QueueOnce
<1> QED BY <1>4, <1>5, <1>6 DEF InQ

LEMMA PickOnce ==
  ASSUME TypeInv, OnceInv, NEW w \in Workers, Pick(w)
  PROVE  OnceInv'
<1> w \in Procs /\ w \notin Clients /\ w \notin Admins
  BY ConstantsAssumption DEF Procs
<1>0. /\ QueueOnce' /\ Head(queue) \in Payload /\ InQ(Head(queue))
      /\ \A p : InQ(p)' => InQ(p)
      /\ \A p \in First : InQ(p)' => p # Head(queue)
  BY HeadOnce DEF Pick, OnceInv
<1> PICK t \in Payload : t = Head(queue)
  BY <1>0
<1>1. /\ QueueOnce' /\ t \in Payload /\ InQ(t)
      /\ \A p : InQ(p)' => InQ(p)
      /\ t \in First => ~InQ(t)'
  BY <1>0
<1>2. /\ inflight' = [inflight EXCEPT ![w][t] = @ + 1]
      /\ pc' = [pc EXCEPT ![w] = "picked"] /\ job' = [job EXCEPT ![w] = t]
      /\ UNCHANGED <<fresh, reaper>>
  BY DEF Pick, Take, Goto, store
<1>3. /\ pc \in [Procs -> {"down", "idle", "create", "push", "repush", "requeue", "picked",
                         "read", "write", "execute", "release"}]
      /\ job \in [Procs -> Payload \union {NoTask}]
      /\ inflight \in [Workers -> [Payload -> Nat]]
  BY DEF TypeInv, ProcInv, ProcType, ListType
<1>4. \A v \in Workers, p \in Payload :
        inflight'[v][p] = IF v = w /\ p = t THEN inflight[v][p] + 1 ELSE inflight[v][p]
  BY <1>1, <1>2, <1>3
<1>5. \A q \in Procs : q # w => pc'[q] = pc[q] /\ job'[q] = job[q]
  BY <1>2, <1>3
<1>6. pc'[w] = "picked" /\ job'[w] = t
  BY <1>2, <1>3
<1>7. \A p : /\ ByClient(p)' <=> ByClient(p)
             /\ ByReaper(p)' <=> ByReaper(p)
  <2>1. \A c \in Clients : pc'[c] = pc[c] /\ job'[c] = job[c]
    BY <1>5 DEF Procs
  <2> QED BY <1>2, <2>1 DEF ByClient, ByReaper, reaper
<1>8. \A p \in First : Waiting(p)' => Waiting(p) /\ p # t
  <2>1. t \in First => ~ByClient(t) /\ ~ByReaper(t)
    BY <1>1 DEF OnceInv, ClientOnce, ReaperOnce, ByClient
  <2> QED BY <1>1, <1>7, <2>1 DEF Waiting
<1>9. t \in First => \A v \in Workers : ~Taken(v, t)
  BY <1>1 DEF OnceInv, Chain, Waiting
<1>10. \A p \in First, v \in Workers :
         /\ Reapable(v, p)' => Reapable(v, p) \/ (v = w /\ p = t)
         /\ Taken(v, p)' => Taken(v, p) \/ (v = w /\ p = t)
  <2> SUFFICES ASSUME NEW p \in First, NEW v \in Workers, ~(v = w /\ p = t)
               PROVE  /\ Reapable(v, p)' => Reapable(v, p)
                      /\ Taken(v, p)' => Taken(v, p)
    OBVIOUS
  <2>1. inflight'[v][p] = inflight[v][p]
    BY <1>4 DEF First
  <2>2. Reapable(v, p)' => Reapable(v, p)
    BY <1>2, <2>1 DEF Reapable, reaper
  <2>3. Busy(v)' /\ job'[v] = p => Busy(v) /\ job[v] = p
    BY <1>5, <1>6 DEF Busy, Procs
  <2> QED BY <2>2, <2>3 DEF Taken
<1>11. Chain'
  <2>1. \A p \in First : (Unspent(p)' => Unspent(p)) /\ (Known(p)' => Known(p))
    <3>1. Waiting(t)
      BY <1>1 DEF Waiting
    <3> QED BY <1>8, <1>10, <3>1 DEF Unspent, Known
  <2> QED BY <1>2, <1>8, <1>9, <1>10, <2>1 DEF Chain, OnceInv
<1>12. ClientOnce' /\ ReaperOnce' /\ NoRedrive'
  <2>1. \A q \in Clients \union Admins : pc'[q] = pc[q] /\ job'[q] = job[q]
    BY <1>5 DEF Procs
  <2>2. ClientOnce'
    BY <1>1, <2>1 DEF OnceInv, ClientOnce
  <2>3. ReaperOnce'
    BY <1>1, <1>2, <1>7 DEF OnceInv, ReaperOnce, reaper
  <2> QED BY <2>1, <2>2, <2>3 DEF OnceInv, NoRedrive
<1>13. CopyOnce'
  <2> SUFFICES ASSUME NEW v \in Workers, NEW p \in First PROVE inflight'[v][p] <= 1
    BY DEF CopyOnce
  <2>1. p \in Payload /\ inflight[v][p] \in Nat /\ inflight[v][p] <= 1
    BY <1>3 DEF First, OnceInv, CopyOnce
  <2>2. v = w /\ p = t => inflight[v][p] = 0
    <3>1. p = t => ~(inflight[v][p] > 0)
      BY <1>9 DEF Taken, Reapable
    <3> QED BY <2>1, <3>1
  <2> QED BY <1>4, <2>1, <2>2
<1> QED BY <1>1, <1>11, <1>12, <1>13 DEF OnceInv

LEMMA CreateOnce ==
  ASSUME TypeInv, OnceInv, NEW c \in Clients, NEW o \in Ops, Create(c, o)
  PROVE  OnceInv'
<1> DEFINE new == [op |-> o, attempt |-> 1, resume |-> 0]
<1> c \in Procs /\ c \notin Workers /\ c \notin Admins
  BY ConstantsAssumption DEF Procs
<1>0. new \in First /\ new.op = o /\ new.attempt = 1
  BY Constants DEF First
<1>1. /\ pc' = [pc EXCEPT ![c] = "push"] /\ job' = [job EXCEPT ![c] = new]
      /\ fresh' = fresh \ {o} /\ o \in fresh /\ UNCHANGED <<queue, inflight, reaper>>
  BY DEF Create, Take, Goto, lists
<1> PICK t \in First : t = new
  BY <1>0
<1> HIDE DEF new
<1>2. t \in First /\ t.op = o /\ t.attempt = 1
  BY <1>0
<1>3. \A q \in Procs : q # c => pc'[q] = pc[q] /\ job'[q] = job[q]
  BY <1>1 DEF TypeInv, ProcInv, ProcType
<1>4. pc'[c] = "push" /\ job'[c] = t
  BY <1>1 DEF TypeInv, ProcInv, ProcType
<1>5. \A p \in First : p.op = o => ~Known(p)
  BY <1>1 DEF OnceInv, Chain
<1>6. \A p : /\ InQ(p)' <=> InQ(p)
             /\ ByReaper(p)' <=> ByReaper(p)
             /\ ByClient(p)' => ByClient(p) \/ p = t
  BY <1>1, <1>3, <1>4 DEF InQ, ByReaper, ByClient, reaper, Procs
<1>7. \A p \in First, w \in Workers :
        (Reapable(w, p)' <=> Reapable(w, p)) /\ (Taken(w, p)' <=> Taken(w, p))
  <2>1. \A w \in Workers : pc'[w] = pc[w] /\ job'[w] = job[w]
    BY <1>3 DEF Procs
  <2> QED BY <1>1, <2>1 DEF Reapable, Taken, Busy, reaper
<1>8. Chain'
  <2>1. \A p \in First : Waiting(p)' => Waiting(p) \/ p = t
    BY <1>6 DEF Waiting
  <2>2. \A p \in First : /\ Unspent(p)' => Unspent(p) \/ p = t
                         /\ Known(p)' => Known(p) \/ p = t
    BY <1>7, <2>1 DEF Unspent, Known
  <2>3. \A p \in First : Unspent(p) => Known(p)
    BY DEF Unspent, Known, Taken
  <2>4. \A w \in Workers : ~Taken(w, t)'
    BY <1>2, <1>5, <1>7 DEF Known
  <2>5. \A p, q \in First : Unspent(p)' /\ Later(q, p) => ~Known(q)'
    <3> SUFFICES ASSUME NEW p \in First, NEW q \in First, Unspent(p)', Later(q, p), Known(q)'
                 PROVE  FALSE
      OBVIOUS
    <3>1. p.op = q.op /\ q # p
      BY SameTask DEF Later
    <3>2. p.op # o
      BY <1>2, <1>5, <2>2, <2>3, <3>1
    <3> QED BY <1>2, <2>2, <3>1, <3>2 DEF OnceInv, Chain
  <2>6. \A p \in First : Waiting(p)' => \A w \in Workers : ~Taken(w, p)'
    BY <1>7, <2>1, <2>4 DEF OnceInv, Chain
  <2>7. \A p \in First, v, w \in Workers : Taken(v, p)' /\ Taken(w, p)' => v = w
    BY <1>7 DEF OnceInv, Chain
  <2>8. \A p \in First : p.op \in fresh' => ~Known(p)'
    BY <1>1, <1>2, <2>2 DEF OnceInv, Chain
  <2> QED BY <2>5, <2>6, <2>7, <2>8 DEF Chain
<1>9. ClientOnce'
  <2>1. ~Waiting(t) /\ ~InQ(t) /\ ~ByClient(t)
    BY <1>2, <1>5 DEF Known, Waiting
  <2>2. ASSUME NEW d \in Clients, pc'[d] = "push"
        PROVE  /\ job'[d] \in First /\ job'[d].attempt = 1 /\ ~InQ(job'[d])
               /\ d # c => pc[d] = "push" /\ job'[d] = job[d] /\ job[d] # t
    <3>1. CASE d = c
      BY <1>2, <1>4, <2>1, <3>1
    <3>2. CASE d # c
      <4>1. pc[d] = "push" /\ job'[d] = job[d]
        BY <1>3, <2>2, <3>2 DEF Procs
      <4> QED BY <2>1, <3>2, <4>1 DEF OnceInv, ClientOnce, ByClient
    <3> QED BY <3>1, <3>2
  <2>3. \A d \in Clients : pc'[d] = "repush" => job'[d].resume # 0
    BY <1>3, <1>4 DEF OnceInv, ClientOnce, Procs
  <2>4. \A d, e \in Clients : pc'[d] = "push" /\ pc'[e] = "push" /\ job'[d] = job'[e] => d = e
    BY <1>4, <2>2 DEF OnceInv, ClientOnce
  <2> QED BY <1>1, <2>2, <2>3, <2>4 DEF ClientOnce, InQ
<1>10. QueueOnce' /\ ReaperOnce' /\ CopyOnce' /\ NoRedrive'
  <2>1. QueueOnce' /\ CopyOnce'
    BY <1>1 DEF OnceInv, QueueOnce, CopyOnce
  <2>2. ReaperOnce'
    BY <1>1, <1>6 DEF OnceInv, ReaperOnce, reaper
  <2>3. NoRedrive'
    BY <1>3 DEF OnceInv, NoRedrive, Procs
  <2> QED BY <2>1, <2>2, <2>3
<1> QED BY <1>8, <1>9, <1>10 DEF OnceInv

\* A client that pushes: the attempt it held waits in the queue now.
LEMMA EnqueueOnce ==
  ASSUME TypeInv, OnceInv, NEW c \in Clients, EnqueuePush(c) \/ ResumePush(c)
  PROVE  OnceInv'
<1> c \in Procs /\ c \notin Workers /\ c \notin Admins
  BY ConstantsAssumption DEF Procs
<1>0. job[c] \in Payload /\ Push(job[c])
  BY DEF EnqueuePush, ResumePush, TypeInv, ProcInv, JobInv
<1> PICK t \in Payload : t = job[c]
  BY <1>0
<1>1. /\ UNCHANGED <<fresh, inflight, reaper>>
      /\ t \in First => pc[c] = "push" /\ t.attempt = 1 /\ ~InQ(t)
  BY DEF EnqueuePush, ResumePush, store, OnceInv, ClientOnce, First
<1>2. /\ \A q \in Procs : q # c => pc'[q] = pc[q] /\ job'[q] = job[q]
      /\ pc'[c] \in {"idle", "read"}
  BY DEF EnqueuePush, ResumePush, StoreEvent, Return, Leave, Goto, TypeInv, ProcInv, ProcType
<1>3. QueueOnce' /\ \A p : InQ(p)' <=> (InQ(p) \/ p = t)
  BY <1>0, <1>1, PushOnce DEF OnceInv
<1>4. \A p : (ByClient(p)' => ByClient(p)) /\ (ByReaper(p)' <=> ByReaper(p))
  BY <1>1, <1>2 DEF ByClient, ByReaper, reaper, Procs
<1>5. Chain'
  <2>1. \A p \in First : Waiting(p)' => Waiting(p)
    BY <1>1, <1>3, <1>4 DEF Waiting, ByClient
  <2>2. \A w \in Workers : pc'[w] = pc[w] /\ job'[w] = job[w]
    BY <1>2 DEF Procs
  <2>3. \A p \in First, w \in Workers :
          (Reapable(w, p)' => Reapable(w, p)) /\ (Taken(w, p)' => Taken(w, p))
    BY <1>1, <2>2 DEF Reapable, Taken, Busy, reaper
  <2> QED BY <1>1, <2>1, <2>3, ChainShrinks DEF OnceInv
<1>6. ClientOnce'
  <2>1. \A d \in Clients : pc'[d] \in {"push", "repush"} =>
          d # c /\ pc'[d] = pc[d] /\ job'[d] = job[d]
    BY <1>2 DEF Procs
  <2>2. \A d \in Clients : pc'[d] = "push" => job'[d] \in First /\ job'[d] # t /\ ~InQ(job'[d])
    BY <1>1, <2>1 DEF OnceInv, ClientOnce
  <2>3. \A d \in Clients : pc'[d] = "push" => ~(job'[d] \in ToSet(queue'))
    BY <1>3, <2>2 DEF InQ
  <2> QED BY <2>1, <2>2, <2>3 DEF OnceInv, ClientOnce, InQ
<1>7. ReaperOnce'
  <2>1. \A p \in First : ByReaper(p) => p # t
    <3> SUFFICES ASSUME NEW p \in First, ByReaper(p), p = t PROVE FALSE
      OBVIOUS
    <3>1. rjob.task \in Payload /\ t.attempt = 1 /\ Retry(rjob.task) = t
      BY <1>1 DEF ByReaper, TypeInv, ReaperInv, EntryInv
    <3>2. t.attempt = rjob.task.attempt + 1 /\ rjob.task.attempt \in Nat \ {0}
      BY <3>1, Constants DEF Retry, Payload
    <3> QED BY <3>1, <3>2
  <2> QED BY <1>1, <1>3, <1>4, <2>1 DEF OnceInv, ReaperOnce, reaper
<1>8. CopyOnce' /\ NoRedrive'
  BY <1>1, <1>2 DEF OnceInv, CopyOnce, NoRedrive, Procs
<1> QED BY <1>3, <1>5, <1>6, <1>7, <1>8 DEF OnceInv

\* What the reaper's hand holds while it moves an entry to be requeued.
LEMMA RetryTask ==
  ASSUME TypeInv, rpc # "idle", rjob.verdict = "requeue"
  PROVE  /\ rjob.worker \in Workers /\ rjob.task \in Payload
         /\ Retry(rjob.task) \in Payload
         /\ Retry(rjob.task).op = rjob.task.op
         /\ Retry(rjob.task).attempt = rjob.task.attempt + 1
         /\ Retry(rjob.task).resume = rjob.task.resume
BY Constants DEF TypeInv, ReaperInv, EntryInv, Retry, Payload

\* What an LREM leaves of the copies it is about, and of the others.
LEMMA RemovedCopies ==
  ASSUME TypeInv, NEW w \in Workers, NEW t \in Payload, inflight' = Removed(w, t)
  PROVE  /\ inflight' \in [Workers -> [Payload -> Nat]]
         /\ inflight[w][t] <= 1 => inflight'[w][t] = 0
         /\ \A v \in Workers, p \in Payload :
              /\ inflight[v][p] \in Nat /\ inflight'[v][p] \in Nat
              /\ inflight'[v][p] <= inflight[v][p]
<1> DEFINE left == IF inflight[w][t] = 0 THEN 0 ELSE inflight[w][t] - 1
<1>1. inflight \in [Workers -> [Payload -> Nat]]
  BY DEF TypeInv, ListType
<1>2. \A v \in Workers : inflight[v] \in [Payload -> Nat]
  BY <1>1
<1>3. \A v \in Workers, p \in Payload : inflight[v][p] \in Nat
  BY <1>2
<1>4. left \in Nat /\ left <= inflight[w][t] /\ (inflight[w][t] <= 1 => left = 0)
  BY <1>3
<1>5. inflight' = [inflight EXCEPT ![w] = [inflight[w] EXCEPT ![t] = left]]
  BY <1>1, <1>2 DEF Removed
<1> HIDE DEF left
<1>6. \A v \in Workers, p \in Payload :
        inflight'[v][p] = IF v = w /\ p = t THEN left ELSE inflight[v][p]
  BY <1>1, <1>2, <1>5
<1>7. inflight' \in [Workers -> [Payload -> Nat]]
  BY <1>1, <1>2, <1>4, <1>5
<1>8. \A v \in Workers, p \in Payload :
        inflight'[v][p] \in Nat /\ inflight'[v][p] <= inflight[v][p]
  BY <1>3, <1>4, <1>6
<1> QED BY <1>3, <1>4, <1>6, <1>7, <1>8

\* LREM of an entry to be requeued: its retry is the latest attempt there is.
LEMMA TakeBackOnce ==
  ASSUME TypeInv, OnceInv, TakeBack, rjob.verdict = "requeue"
  PROVE  OnceInv'
<1>1. /\ rpc = "remove" /\ rpc' = "push" /\ rjob' = rjob
      /\ inflight' = Removed(rjob.worker, rjob.task)
      /\ UNCHANGED <<fresh, queue, pc, job, todo>>
  BY DEF TakeBack, store, procs
<1> PICK t \in Payload : t = rjob.task
  BY <1>1, RetryTask
<1> PICK w \in Workers : w = rjob.worker
  BY <1>1, RetryTask
<1> PICK r \in Payload : r = Retry(t)
  BY <1>1, RetryTask
<1>2. /\ r.op = t.op /\ r.attempt = t.attempt + 1 /\ r.resume = t.resume
      /\ r \in First <=> t \in First
      /\ t.attempt \in Nat
  BY <1>1, RetryTask DEF First, Payload
<1>3. \A v \in Workers, p \in Payload : /\ inflight[v][p] \in Nat
                                       /\ inflight'[v][p] \in Nat
                                       /\ inflight'[v][p] <= inflight[v][p]
  BY <1>1, RemovedCopies
<1>4. Taken(w, t) /\ Reapable(w, t) /\ Unspent(t) /\ Known(t)
  BY <1>1 DEF Taken, Reapable, Unspent, Known
<1>5. <<w, t>> \notin todo
  BY <1>1 DEF OnceInv, ReaperOnce
<1>6. t \in First => inflight'[w][t] = 0
  BY <1>1, RemovedCopies DEF OnceInv, CopyOnce
<1>7. \A p \in First, v \in Workers : Reapable(v, p)' => Reapable(v, p) /\ p # t
  <2> SUFFICES ASSUME NEW p \in First, NEW v \in Workers, Reapable(v, p)'
               PROVE  Reapable(v, p) /\ p # t
    OBVIOUS
  <2>1. p \in Payload /\ (inflight'[v][p] > 0 \/ <<v, p>> \in todo)
    BY <1>1 DEF Reapable, First
  <2>2. Reapable(v, p)
    <3>1. inflight'[v][p] \in Nat /\ inflight[v][p] \in Nat /\ inflight'[v][p] <= inflight[v][p]
      BY <1>3, <2>1
    <3>2. inflight'[v][p] > 0 => inflight[v][p] > 0
      BY <3>1
    <3> QED BY <2>1, <3>2 DEF Reapable
  <2>3. v = w /\ p = t => FALSE
    <3>1. v = w /\ p = t => ~(inflight'[v][p] > 0)
      BY <1>6
    <3> QED BY <1>5, <2>1, <3>1
  <2>4. p = t => v = w
    BY <1>4, <2>2 DEF OnceInv, Chain, Taken
  <2> QED BY <2>2, <2>3, <2>4
<1>8. \A p \in First, v \in Workers : Taken(v, p)' => Taken(v, p)
  BY <1>1, <1>7 DEF Taken, Busy
<1>9. \A p : ~ByReaper(p) /\ (Waiting(p)' <=> Waiting(p) \/ p = r)
  BY <1>1 DEF Waiting, InQ, ByClient, ByReaper
<1>10. t \in First => /\ \A p \in First : Later(p, t) => ~Known(p)
                      /\ Later(r, t) /\ ~Waiting(t)
  BY <1>2, <1>4 DEF OnceInv, Chain, Later
<1>11. Chain'
  <2>1. \A p \in First : /\ Unspent(p)' => Unspent(p) \/ p = r
                         /\ Known(p)' => Known(p) \/ p = r
    BY <1>7, <1>8, <1>9 DEF Unspent, Known
  <2>2. t \in First => ~Unspent(t)'
    BY <1>2, <1>7, <1>9, <1>10 DEF Unspent
  <2>3. ASSUME NEW p \in First, NEW q \in First, Unspent(p)', Later(q, p), Known(q)'
        PROVE  FALSE
    <3>0. p.op = q.op /\ p.attempt < q.attempt /\ p.attempt \in Nat /\ q.attempt \in Nat
      BY <2>3, SameTask DEF Later
    <3>1. CASE p = r
      <4>1. Later(q, t) /\ t \in First
        BY <1>2, <3>0, <3>1 DEF Later
      <4> QED BY <1>10, <2>1, <2>3, <3>0, <3>1, <4>1
    <3>2. CASE p # r /\ q # r
      BY <2>1, <2>3, <3>2 DEF OnceInv, Chain
    <3>3. CASE p # r /\ q = r
      <4>1. t \in First /\ p.op = t.op /\ p.attempt <= t.attempt /\ p # t
        BY <1>2, <2>2, <2>3, <3>0, <3>3
      <4>2. p.attempt < t.attempt
        BY <1>2, <3>0, <4>1, SameTask
      <4>3. Later(t, p) /\ Unspent(p)
        BY <2>1, <2>3, <3>3, <4>1, <4>2 DEF Later
      <4> QED BY <1>4, <4>1, <4>3 DEF OnceInv, Chain
    <3> QED BY <3>1, <3>2, <3>3
  <2>4. \A p \in First : Waiting(p)' => \A v \in Workers : ~Taken(v, p)'
    <3>1. r \in First => \A v \in Workers : ~Taken(v, r)
      BY <1>2, <1>10 DEF Known
    <3> QED BY <1>8, <1>9, <3>1 DEF OnceInv, Chain
  <2>5. \A p \in First, v, u \in Workers : Taken(v, p)' /\ Taken(u, p)' => v = u
    BY <1>8 DEF OnceInv, Chain
  <2>6. \A p \in First : p.op \in fresh' => ~Known(p)'
    <3>1. r \in First => r.op \notin fresh
      BY <1>2, <1>4 DEF OnceInv, Chain
    <3> QED BY <1>1, <2>1, <3>1 DEF OnceInv, Chain
  <2> QED BY <2>3, <2>4, <2>5, <2>6 DEF Chain
<1>12. ReaperOnce'
  <2>1. \A p \in First : ByReaper(p)' => p = r /\ ~InQ(p)
    BY <1>1, <1>2, <1>10 DEF ByReaper, Known, Waiting
  <2> QED BY <1>1, <1>5, <2>1 DEF ReaperOnce, InQ
<1>13. CopyOnce'
  <2> SUFFICES ASSUME NEW v \in Workers, NEW p \in First PROVE inflight'[v][p] <= 1
    BY DEF CopyOnce
  <2>1. p \in Payload /\ inflight[v][p] <= 1
    BY DEF OnceInv, CopyOnce, First
  <2>2. inflight'[v][p] \in Nat /\ inflight[v][p] \in Nat /\ inflight'[v][p] <= inflight[v][p]
    BY <1>3, <2>1
  <2> QED BY <2>1, <2>2
<1>14. QueueOnce' /\ ClientOnce' /\ NoRedrive'
  BY <1>1 DEF OnceInv, QueueOnce, ClientOnce, NoRedrive, InQ
<1> QED BY <1>11, <1>12, <1>13, <1>14 DEF OnceInv

LEMMA RequeueOnce ==
  ASSUME TypeInv, OnceInv, Requeue
  PROVE  OnceInv'
<1>1. /\ rpc = "push" /\ rjob.verdict = "requeue" /\ rpc' = "idle" /\ Push(Retry(rjob.task))
      /\ UNCHANGED <<fresh, inflight, pc, job, todo>>
  BY DEF Requeue, ReaperDone, store, procs, Retry
<1> PICK r \in Payload : r = Retry(rjob.task)
  BY <1>1, RetryTask
<1>2. r \in First => ByReaper(r) /\ ~InQ(r)
  BY <1>1 DEF ByReaper, OnceInv, ReaperOnce
<1>3. QueueOnce' /\ \A p : InQ(p)' <=> (InQ(p) \/ p = r)
  BY <1>1, <1>2, PushOnce DEF OnceInv
<1>4. Chain'
  <2>1. \A p \in First : Waiting(p)' => Waiting(p)
    BY <1>1, <1>2, <1>3 DEF Waiting, ByClient, ByReaper
  <2>2. \A p \in First, w \in Workers :
          (Reapable(w, p)' => Reapable(w, p)) /\ (Taken(w, p)' => Taken(w, p))
    BY <1>1 DEF Reapable, Taken, Busy
  <2> QED BY <1>1, <2>1, <2>2, ChainShrinks DEF OnceInv
<1>5. ClientOnce'
  <2>1. r.attempt # 1
    <3>1. rjob.task.attempt \in Nat \ {0} /\ r.attempt = rjob.task.attempt + 1
      BY <1>1, RetryTask, Constants DEF Payload
    <3> QED BY <3>1
  <2>2. \A c \in Clients : pc[c] = "push" => ~InQ(job[c])' 
    <3> SUFFICES ASSUME NEW c \in Clients, pc[c] = "push" PROVE ~InQ(job[c])'
      OBVIOUS
    <3> PICK t \in First : t = job[c]
      BY DEF OnceInv, ClientOnce
    <3>1. ~InQ(t) /\ t.attempt = 1
      BY DEF OnceInv, ClientOnce
    <3>2. ~InQ(t)'
      BY <1>3, <2>1, <3>1
    <3> QED BY <1>1, <3>2 DEF InQ
  <2> QED BY <1>1, <2>2 DEF OnceInv, ClientOnce
<1>6. ReaperOnce' /\ CopyOnce' /\ NoRedrive'
  BY <1>1 DEF OnceInv, ReaperOnce, CopyOnce, NoRedrive, ByReaper
<1> QED BY <1>3, <1>4, <1>5, <1>6 DEF OnceInv

LEMMA OnceFrame ==
  ASSUME TypeInv, OnceInv, UNCHANGED <<fresh, queue, inflight, pc, job, reaper>>
  PROVE  OnceInv'
<1>1. \A c \in Clients : pc[c] = "repush" => job[c].resume # 0
  BY DEF OnceInv, ClientOnce
<1>2. rpc # "idle" => <<rjob.worker, rjob.task>> \notin todo
  BY DEF OnceInv, ReaperOnce
<1>3. inflight \in [Workers -> [Payload -> Nat]]
  BY DEF TypeInv, ListType
<1>4. \A w \in Workers, p \in First : inflight'[w][p] <= inflight[w][p]
  BY <1>3 DEF First
<1>5. \A w \in Workers, p \in First : Reapable(w, p)' => Reapable(w, p)
  BY DEF Reapable, reaper
<1>6. \A w \in Workers : Busy(w)' => Busy(w) /\ job'[w] = job[w]
  BY DEF Busy
<1> QED BY <1>1, <1>2, <1>3, <1>4, <1>5, <1>6, Quiet DEF OnceInv, NoRedrive, reaper

\* As long as no administrator took a task back out of the DLQ.
OnceUntilRedrive == redrives = 0 => OnceInv

LEMMA OnceStep == TypeInv /\ TypeInv' /\ OnceUntilRedrive /\ [Next]_vars => OnceUntilRedrive'
<1> SUFFICES ASSUME TypeInv, TypeInv', OnceUntilRedrive, [Next]_vars, redrives' = 0
             PROVE  OnceInv'
  BY DEF OnceUntilRedrive
<1>1. redrives \in Nat
  BY Constants DEF TypeInv, ProcInv, ProcType
<1>2. \A a \in Admins : ~DlqPop(a)
  BY <1>1 DEF DlqPop
<1>3. redrives = 0 /\ OnceInv
  <2>1. redrives' = redrives
    BY <1>2
    DEF Next, WorkerStep, Pick, Check, StoreRead, WorkerWrite, Release, Outcome, Crash, Restart,
        NewRequest, Create, Cancel, Resume, ClientStep, EnqueuePush, ResumePush, ClientWrite,
        ApiCrash, AdminStep, AdminCrash, DlqClear, DlqRequeue, Tick, Expire, ReaperStep, Scan,
        Examine, TakeBack, Requeue, DeadLetter, ReaperFail, LookEmpty, DeleteList, ReaperCrash,
        procs, vars
  <2> QED BY <2>1 DEF OnceUntilRedrive
<1>4. CASE UNCHANGED vars
  BY <1>3, <1>4, OnceFrame DEF vars, store, lists, procs
<1>5. CASE Tick \/ \E o \in Ops : Expire(o)
  <2>1. UNCHANGED <<fresh, queue, inflight, pc, job, reaper>>
    BY <1>5 DEF Tick, Expire, lists, procs
  <2> QED BY <1>3, <2>1, OnceFrame
<1>6. CASE \E w \in Workers : WorkerStep(w) \/ Crash(w) \/ Restart(w)
  BY <1>3, <1>6, WorkerOnce, PickOnce
<1>7. CASE \E c \in Clients : NewRequest(c) \/ ClientStep(c) \/ ApiCrash(c)
  BY <1>3, <1>7, CreateOnce, EnqueueOnce, ClientOnceStep DEF NewRequest, ClientStep
<1>8. CASE \E a \in Admins : AdminStep(a) \/ AdminCrash(a)
  <2>1. PICK a \in Admins : DlqClear(a)
    BY <1>2, <1>3, <1>8 DEF AdminStep, DlqRequeue, AdminCrash, OnceInv, NoRedrive
  <2>2. UNCHANGED <<fresh, queue, inflight, pc, job, reaper>>
    BY <2>1 DEF DlqClear, store, procs
  <2> QED BY <1>3, <2>2, OnceFrame
<1>9. CASE ReaperStep \/ ReaperCrash
  BY <1>3, <1>9, ReaperQuiet, TakeBackOnce, RequeueOnce DEF ReaperStep
<1> QED BY <1>4, <1>5, <1>6, <1>7, <1>8, <1>9 DEF Next

LEMMA OnceStart == Init => OnceInv
<1> SUFFICES ASSUME Init PROVE OnceInv
  OBVIOUS
<1>1. ToSet(queue) = {}
  BY DEF Init, ToSet
<1>2. \A p \in First : ~Waiting(p)
  BY <1>1 DEF Init, Waiting, InQ, ByClient, ByReaper, Procs
<1>3. \A p \in First, w \in Workers : ~Taken(w, p) /\ ~Reapable(w, p)
  BY DEF Init, Taken, Reapable, Busy, Procs, First
<1>4. Chain
  BY <1>2, <1>3 DEF Chain, Unspent, Known
<1>5. QueueOnce /\ ClientOnce /\ ReaperOnce /\ CopyOnce /\ NoRedrive
  BY <1>2, ConstantsAssumption
  DEF Init, QueueOnce, ClientOnce, ReaperOnce, CopyOnce, NoRedrive, Procs, Waiting, First
<1> QED BY <1>4, <1>5 DEF OnceInv

\* Until a task is taken back out of the DLQ, no two workers are at work on one attempt
\* of an operation's first run, whatever workers, reapers and requests die, whatever the
\* reaper takes from a live worker and whatever is resumed, for any number of each.
THEOREM AttemptInOneHand == Spec => []AttemptRunsOnce
<1>1. TypeInv /\ OnceUntilRedrive => AttemptRunsOnce
  <2> SUFFICES ASSUME TypeInv, OnceInv, NEW v \in Workers, NEW w \in Workers,
                      Busy(v), Busy(w), v # w, job[v].resume = 0, job[v] = job[w]
               PROVE  FALSE
    BY DEF OnceUntilRedrive, AttemptRunsOnce
  <2>1. job[v] \in First
    BY DEF TypeInv, ProcInv, JobInv, Busy, Procs, First
  <2> QED BY <2>1 DEF OnceInv, Chain, Taken
<1>2. Init => OnceUntilRedrive
  BY OnceStart DEF OnceUntilRedrive
<1> QED BY <1>1, <1>2, OnceStep, TypeInvHolds, PTL DEF Spec

=============================================================================
