---------------------------- MODULE PeriodClose ----------------------------
(* The month-end close of the RoboLedger books and everything that races it: *)
(* close, reopen and the history backfill (operations/roboledger/commands/   *)
(* fiscal_calendar.py, operations/roboledger/fiscal_calendar/), the journal  *)
(* and event writers (commands/journal_entries.py, operations/event_block/), *)
(* the period write fence they share (operations/locking.py) and the publish *)
(* of drafts to QuickBooks, which commits in the middle of a close.          *)
EXTENDS Integers

CONSTANTS
  NumPeriods,     \* months with a FiscalPeriod row, 1 the earliest
  LastCompleted,  \* the last completed calendar month
  Locals,         \* ids of journal entries no schedule produces
  Obligations,    \* schedule_entry_due events; each drafts the entry of its name
  DueMonth,       \* the month an obligation and its entry fall in
  Movable,        \* the entries an edit may move to another month
  Closers,        \* requests and worker tasks that close, reopen or backfill
  Writers,        \* requests that write the journal or an event
  NoOne,          \* no closer
  Writeback,      \* a QuickBooks connection with a write-back policy exists
  MaxVer          \* bound: contents a draft may be given

Periods == 1 .. NumPeriods
NoPeriod == -1        \* closed_through_period is NULL; 0 is the month before
                      \* the first row
Unread == -2          \* the calendar row is not loaded in this session
Entries == Locals \cup Obligations

ASSUME PeriodsAssumption == NumPeriods \in Nat \ {0} /\ LastCompleted \in Nat
ASSUME EntriesAssumption ==
  /\ Locals \cap Obligations = {}
  /\ Movable \subseteq Locals
  /\ DueMonth \in [Obligations -> Periods]
ASSUME NoOneAssumption == NoOne \notin Closers
ASSUME BoundsAssumption == Writeback \in BOOLEAN /\ MaxVer \in Nat

VARIABLES
  status,         \* status[p]: FiscalPeriod.status
  closedThrough,  \* FiscalCalendar.closed_through_period
  sets,           \* sets[p]: the canonical statement sets of the month
  unsettled,      \* history: closed months stamped over, or followed by, a
                  \* reopening of an earlier month
  entry,          \* entry[e]: the Entry row: status, month, content
  event,          \* event[o]: the obligation's status and QuickBooks marker
  qb,             \* the events QuickBooks has taken an entry for
  fence,          \* fence[p]: holder of the exclusive advisory lock
  job,            \* job[c]: a closer's progress
  task            \* task[w]: a writer's progress

calendar == <<status, closedThrough, sets, unsettled>>
ledgerVars == <<entry, event>>
vars == <<status, closedThrough, sets, unsettled, entry, event, qb, fence,
          job, task>>

Rows == Entries \X (0 .. MaxVer)     \* an entry as it stands
NoEntry == [st |-> "none", per |-> 1, ver |-> 0]

EntryStates == [st : {"none", "draft", "posted", "reversed", "deleted"},
                per : Periods, ver : 0 .. MaxVer]
EventStates == [st : {"pending", "classified", "committed", "fulfilled", "voided"},
                marked : BOOLEAN]
Jobs == [pc : {"idle", "counted", "waiting", "fenced", "publishing",
               "published", "routed", "committed"},
         op : {"close", "reopen", "backfill", "restamp"},
         per : Periods,
         seen : {"unread", "open", "closing", "closed"},
         through : Unread .. NumPeriods,
         todo : SUBSET Obligations, sent : SUBSET Obligations,
         rejected : SUBSET Obligations, posts : SUBSET Entries, failed : BOOLEAN,
         reopened : BOOLEAN, advance : BOOLEAN]
Tasks == [pc : {"idle", "fencing", "sent"},
          op : {"create", "edit", "delete", "reverse", "void", "promote",
                "approve", "classify", "execute"},
          e : Entries \cup {NoOne}, to : Periods, peek : Periods \cup {0},
          got : SUBSET Periods]

IdleJob == [pc |-> "idle", op |-> "close", per |-> 1, seen |-> "unread",
            through |-> Unread, todo |-> {}, sent |-> {}, rejected |-> {},
            posts |-> {}, failed |-> FALSE, reopened |-> FALSE, advance |-> FALSE]
IdleTask == [pc |-> "idle", op |-> "create", e |-> NoOne, to |-> 1, peek |-> 0,
             got |-> {}]

(* The rows as initialize_ledger leaves them: the months up to the boundary  *)
(* it was given are baseline-closed and carry no statements; schedules have  *)
(* materialized one pending obligation per open month.                       *)
Init ==
  /\ \E boundary \in {NoPeriod} \cup Periods :
       /\ boundary <= LastCompleted
       /\ \A o \in Obligations : DueMonth[o] > boundary
       /\ closedThrough = boundary
       /\ status = [p \in Periods |-> IF p <= boundary THEN "closed" ELSE "open"]
  /\ sets = [p \in Periods |-> {}]
  /\ unsettled = {}
  /\ entry = [e \in Entries |-> NoEntry]
  /\ event = [o \in Obligations |-> [st |-> "pending", marked |-> FALSE]]
  /\ qb = {}
  /\ fence = [p \in Periods |-> NoOne]
  /\ job = [c \in Closers |-> IdleJob]
  /\ task = [w \in Writers |-> IdleTask]

-----------------------------------------------------------------------------
(* The ledger as statements, gates and publishing read it.                   *)

Posted(book, p) == {e \in Entries : book[e].st = "posted" /\ book[e].per = p}
Lines(book, p) == {<<e, book[e].ver>> : e \in Posted(book, p)}

(* What the pivot draws a month's statements from: the flows from what the   *)
(* month posted; the balances, the retained earnings and the changes of cash *)
(* from all that was posted up to its end.                                   *)
Statement(book, p) ==
  [flow |-> Lines(book, p), opening |-> UNION {Lines(book, q) : q \in {n \in Periods : n < p}}]

Drafts(p) == {e \in Entries : entry[e].st = "draft" /\ entry[e].per = p}
Retracted(e) == e \in Obligations /\ event[e].st = "voided"

\* Mutant: any entry of the month counts as the obligation's draft.
StrandedByMonth(o) ==
  /\ event[o].st = "classified"
  /\ ~\E e \in Entries : entry[e].st \in {"draft", "posted"} /\ entry[e].per = DueMonth[o]
Stranded(o) == event[o].st = "classified" /\ entry[o].st = "none"

\* Mutant: an approved obligation is left out of the batch.
EligibleClassified(p) == {o \in Obligations \cap Drafts(p) : event[o].st = "classified"}
(* select_writeback_eligible_entries *)
Eligible(p) ==
  IF Writeback
  THEN {o \in Obligations \cap Drafts(p) : ~Retracted(o) /\ ~event[o].marked}
  ELSE {}

IsEarliestOpen(p) ==
  status[p] # "closed" /\ \A q \in Periods : q < p => status[q] = "closed"

(* A row a transaction has written stays locked until that transaction ends. *)
EventFree(o) ==
  /\ \A w \in Writers : ~(task[w].pc = "sent" /\ task[w].e = o)
  /\ \A c \in Closers : o \notin job[c].sent \cup job[c].rejected
EntryFree(e) == \A c \in Closers : e \notin job[c].posts
CalendarFree(c) == \A d \in Closers \ {c} : ~job[d].reopened
SharedHeld(p) == \E w \in Writers : p \in task[w].got

(* What a closer's own transaction reads: the backfill's reopen is flushed    *)
(* but not committed.                                                        *)
ViewStatus(c) == IF job[c].reopened THEN "closing" ELSE status[job[c].per]
ViewThrough(c) ==
  IF job[c].reopened /\ closedThrough = job[c].per
  THEN closedThrough - 1 ELSE closedThrough

-----------------------------------------------------------------------------
(* Closers.  Every step of a closer that fails ends in Abort: the exception  *)
(* rolls the session back and the context manager lets the fence go.         *)

Turn(c, j) == job' = [job EXCEPT ![c] = j]
Begin(c, o, p) == Turn(c, [IdleJob EXCEPT !.pc = "waiting", !.op = o, !.per = p])

StartClose(c, p) ==
  /\ job[c].pc = "idle"
  /\ Begin(c, "close", p)
  /\ UNCHANGED <<calendar, ledgerVars, qb, fence, task>>

StartReopen(c, p) ==
  /\ job[c].pc = "idle"
  /\ Begin(c, "reopen", p)
  /\ UNCHANGED <<calendar, ledgerVars, qb, fence, task>>

(* backfill_plan_history, one month of its walk: the drafts are counted and  *)
(* then the period row is read, both before the fence.                       *)
StartBackfill(c, p) ==
  /\ job[c].pc = "idle"
  /\ p <= closedThrough
  /\ Drafts(p) = {}
  /\ Turn(c, [IdleJob EXCEPT !.pc = "counted", !.op = "backfill", !.per = p,
                             !.through = closedThrough])
  /\ UNCHANGED <<calendar, ledgerVars, qb, fence, task>>

BackfillRead(c) ==
  LET p == job[c].per IN
  /\ job[c].pc = "counted"
  /\ Turn(c, [job[c] EXCEPT !.pc = "waiting", !.seen = status[p],
                            !.op = IF status[p] = "closed" THEN "restamp" ELSE "close"])
  /\ UNCHANGED <<calendar, ledgerVars, qb, fence, task>>

\* Mutant: writers inside the month are not waited for.
TakesFenceOverWriters(c) ==
  LET p == job[c].per IN
  /\ job[c].pc = "waiting" /\ fence[p] = NoOne
  /\ fence' = [fence EXCEPT ![p] = c]
  /\ Turn(c, [job[c] EXCEPT !.pc = "fenced"])
  /\ UNCHANGED <<calendar, ledgerVars, qb, task>>

(* exclusive_period_fence: a lock of the database session, so the commit in  *)
(* the middle of a close does not release it.                                *)
TakeFence(c) ==
  LET p == job[c].per IN
  /\ job[c].pc = "waiting"
  /\ fence[p] = NoOne
  /\ ~SharedHeld(p)
  /\ fence' = [fence EXCEPT ![p] = c]
  /\ Turn(c, [job[c] EXCEPT !.pc = "fenced"])
  /\ UNCHANGED <<calendar, ledgerVars, qb, task>>

(* The fence outlives the last commit.                                       *)
Committed(c) == Turn(c, [IdleJob EXCEPT !.pc = "committed"])

LaterClosed(p) == {q \in Periods : q > p /\ status[q] = "closed"}

\* Mutants: the reopened month goes back to open; its statements stay.
ReopenedAsOpen(p, through) ==
  /\ status' = [status EXCEPT ![p] = "open"]
  /\ closedThrough' = through
  /\ sets' = [sets EXCEPT ![p] = {}]
  /\ unsettled' = (unsettled \ {p}) \cup LaterClosed(p)
ReopenedKeepsSets(p, through) ==
  /\ status' = [status EXCEPT ![p] = "closing"]
  /\ closedThrough' = through
  /\ unsettled' = (unsettled \ {p}) \cup LaterClosed(p)
  /\ UNCHANGED sets

(* The rows of _reopen_under_fence.  A month closed later keeps its status   *)
(* and its statements, though they were drawn from this one too.             *)
Reopened(p, through) ==
  /\ status' = [status EXCEPT ![p] = "closing"]
  /\ closedThrough' = through
  /\ sets' = [sets EXCEPT ![p] = {}]
  /\ unsettled' = (unsettled \ {p}) \cup LaterClosed(p)

\* Mutant: every reopen takes the pointer one month back.
ReopenRetreats(c) ==
  LET p == job[c].per IN
  /\ job[c].pc = "fenced" /\ job[c].op = "reopen"
  /\ status[p] = "closed"
  /\ CalendarFree(c)
  /\ Reopened(p, closedThrough - 1)
  /\ Committed(c)
  /\ UNCHANGED <<ledgerVars, qb, fence, task>>

(* reopen_period: the writes and their commit.                               *)
Reopen(c) ==
  LET p == job[c].per IN
  /\ job[c].pc = "fenced" /\ job[c].op = "reopen"
  /\ status[p] = "closed"
  /\ CalendarFree(c)
  /\ Reopened(p, IF closedThrough = p THEN p - 1 ELSE closedThrough)
  /\ Committed(c)
  /\ UNCHANGED <<ledgerVars, qb, fence, task>>

(* _restamp_closed_period: the same writes, left for the close to commit.    *)
(* They hold the calendar row.                                               *)
RestampReopen(c) ==
  LET p == job[c].per IN
  /\ job[c].pc = "fenced" /\ job[c].op = "restamp" /\ ~job[c].reopened
  /\ status[p] = "closed"
  /\ CalendarFree(c)
  /\ Turn(c, [job[c] EXCEPT !.reopened = TRUE, !.seen = "closing",
                            !.through = IF closedThrough = p THEN p - 1 ELSE closedThrough])
  /\ UNCHANGED <<calendar, ledgerVars, qb, fence, task>>

(* closeable_gate, then the selection of what to publish.  A row this session *)
(* has loaded is not refreshed by a later query: the backfill read both rows  *)
(* before the fence.                                                         *)
Through(c) == IF job[c].through = Unread THEN ViewThrough(c) ELSE job[c].through
SequenceGate(p, view) ==
  /\ IF view = NoPeriod THEN IsEarliestOpen(p) ELSE p = view + 1
  /\ p > view
Gate(c) ==
  LET p == job[c].per
      seen == IF job[c].seen = "unread" THEN ViewStatus(c) ELSE job[c].seen
      batch == Eligible(p) IN
  /\ job[c].pc = "fenced"
  /\ job[c].op = "close" \/ job[c].reopened
  /\ seen = "closing" \/ SequenceGate(p, Through(c))
  /\ p <= LastCompleted
  /\ \A o \in Obligations :
       DueMonth[o] <= p => event[o].st # "pending" /\ ~Stranded(o)
  /\ Turn(c, [job[c] EXCEPT !.pc = IF batch = {} THEN "published" ELSE "publishing",
                            !.todo = batch, !.seen = "unread", !.through = Through(c)])
  /\ UNCHANGED <<calendar, ledgerVars, qb, fence, task>>

(* One execute_event_block of the batch, in its own savepoint.               *)
PublishAccepted(c, o) ==
  /\ ~Retracted(o)
  /\ IF event[o].marked
     THEN UNCHANGED qb /\ Turn(c, [job[c] EXCEPT !.todo = @ \ {o}])
     ELSE /\ qb' = qb \cup {o}
          /\ Turn(c, [job[c] EXCEPT !.todo = @ \ {o}, !.sent = @ \cup {o}])

(* QuickBooks refuses the entry, or takes it and the answer never arrives.   *)
PublishRejected(c, o) ==
  /\ ~Retracted(o) /\ ~event[o].marked
  /\ qb' = qb \/ qb' = qb \cup {o}
  /\ Turn(c, [job[c] EXCEPT !.todo = @ \ {o}, !.rejected = @ \cup {o}])

(* An exception, a retracted event's among them: the savepoint is rolled     *)
(* back, the batch goes on.                                                  *)
PublishRaised(c, o) ==
  /\ Turn(c, [job[c] EXCEPT !.todo = @ \ {o}, !.failed = TRUE])
  /\ UNCHANGED qb

Publish(c, o) ==
  /\ job[c].pc = "publishing" /\ o \in job[c].todo
  /\ EventFree(o)
  /\ PublishAccepted(c, o) \/ PublishRejected(c, o) \/ PublishRaised(c, o)
  /\ UNCHANGED <<calendar, ledgerVars, fence, task>>

(* The commit that ends _publish_drafts_to_qb makes the markers durable, and *)
(* whatever else the session had flushed; WritebackFailed is raised after it. *)
FinishPublish(c) ==
  LET p == job[c].per
      ok == job[c].sent
      bad == job[c].rejected IN
  /\ job[c].pc = "publishing" /\ job[c].todo = {}
  /\ event' = [o \in Obligations |->
                 IF o \in ok THEN [st |-> "fulfilled", marked |-> TRUE]
                 ELSE IF o \in bad THEN [event[o] EXCEPT !.st = "pending"]
                 ELSE event[o]]
  /\ entry' = [e \in Entries |-> IF e \in ok THEN [entry[e] EXCEPT !.st = "posted"] ELSE entry[e]]
  /\ IF job[c].reopened THEN Reopened(p, ViewThrough(c))
                        ELSE UNCHANGED calendar
  /\ IF bad # {} \/ job[c].failed
     THEN Committed(c)
     ELSE Turn(c, [job[c] EXCEPT !.pc = "published", !.sent = {}, !.reopened = FALSE,
                                 !.through = Unread])
  /\ UNCHANGED <<qb, fence, task>>

\* Mutant: the bulk update does not look at the owning event.
RoutePostsAll(c) ==
  LET p == job[c].per IN
  /\ job[c].pc = "published"
  /\ ViewStatus(c) # "closed"
  /\ Turn(c, [job[c] EXCEPT !.pc = "routed", !.through = Unread, !.posts = Drafts(p),
                            !.advance = ViewStatus(c) = "open" \/ p = Through(c) + 1])
  /\ UNCHANGED <<calendar, ledgerVars, qb, fence, task>>

(* The locked re-read of the period row; the bulk update that posts the      *)
(* drafts left in the month, except those of retracted events, flushed and   *)
(* not yet committed; and the choice between advancing the pointer and       *)
(* recording a re-close, made on the calendar this session has loaded: the   *)
(* gate's copy unless the publish commit expired it.                         *)
Route(c) ==
  LET p == job[c].per IN
  /\ job[c].pc = "published"
  /\ ViewStatus(c) # "closed"
  /\ Turn(c, [job[c] EXCEPT
       !.pc = "routed", !.through = Unread,
       !.posts = {e \in Drafts(p) : ~Retracted(e)},
       !.advance = \/ ViewStatus(c) = "open"
                   \/ IF Through(c) = NoPeriod THEN IsEarliestOpen(p) ELSE p = Through(c) + 1])
  /\ UNCHANGED <<calendar, ledgerVars, qb, fence, task>>

(* advance_closed_through checks the sequence again, on the locked row;      *)
(* record_reclose leaves the pointer alone.  (The close target, a goal that  *)
(* gates nothing, is left out.)                                              *)
Advanced(c, p) ==
  /\ IF closedThrough = NoPeriod THEN IsEarliestOpen(p) ELSE p = ViewThrough(c) + 1
  /\ closedThrough' = p

Stamped(p, book) ==
  /\ sets' = [sets EXCEPT ![p] = {Statement(book, p)}]
  /\ unsettled' = IF \E q \in Periods : q < p /\ status[q] # "closed"
                  THEN unsettled \cup {p} ELSE unsettled \ {p}

\* Mutant: the statements are drawn before the drafts post.
StampsBeforePosting(c) ==
  LET p == job[c].per IN
  /\ job[c].pc = "routed"
  /\ CalendarFree(c)
  /\ IF job[c].advance THEN Advanced(c, p)
     ELSE closedThrough' = ViewThrough(c)
  /\ entry' = [e \in Entries |-> IF e \in job[c].posts
                                 THEN [entry[e] EXCEPT !.st = "posted"] ELSE entry[e]]
  /\ status' = [status EXCEPT ![p] = "closed"]
  /\ Stamped(p, entry)
  /\ Committed(c)
  /\ UNCHANGED <<event, qb, fence, task>>

(* The rest of PeriodCloseService.close and close_period's commit: the month *)
(* is closed and its statements are stamped from what is posted.  The        *)
(* calendar row is locked before the stamp and until the commit, as by every *)
(* change of a status, so no month turns closed or not closed in between.    *)
(* (Where no reporting is set up nothing is stamped; that is left out.)      *)
Finish(c) ==
  LET p == job[c].per IN
  /\ job[c].pc = "routed"
  /\ CalendarFree(c)
  /\ IF job[c].advance THEN Advanced(c, p)
     ELSE closedThrough' = ViewThrough(c)
  /\ entry' = [e \in Entries |-> IF e \in job[c].posts THEN [entry[e] EXCEPT !.st = "posted"] ELSE entry[e]]
  /\ status' = [status EXCEPT ![p] = "closed"]
  /\ Stamped(p, entry')
  /\ Committed(c)
  /\ UNCHANGED <<event, qb, fence, task>>

LetGo(c) ==
  /\ Turn(c, IdleJob)
  /\ fence' = [p \in Periods |-> IF fence[p] = c THEN NoOne ELSE fence[p]]
  /\ UNCHANGED <<calendar, ledgerVars, qb, task>>

Release(c) == job[c].pc = "committed" /\ LetGo(c)

(* A refusal, a lock that was not granted in time, a failing gate, balance   *)
(* check or stamp, or the death of the process: the session rolls back.      *)
Abort(c) == job[c].pc \notin {"idle", "committed"} /\ LetGo(c)

CloserStep(c) ==
  \/ \E p \in Periods : StartClose(c, p) \/ StartReopen(c, p) \/ StartBackfill(c, p)
  \/ BackfillRead(c) \/ TakeFence(c) \/ Reopen(c) \/ RestampReopen(c) \/ Gate(c)
  \/ \E o \in Obligations : Publish(c, o)
  \/ FinishPublish(c) \/ Route(c) \/ Finish(c) \/ Release(c) \/ Abort(c)

-----------------------------------------------------------------------------
(* Writers.  A request peeks at its row, takes the shared fence of the months *)
(* it found, one by one in order, and then reads and writes under row locks  *)
(* and commits: assert_period_not_closed, lock_by_id.                        *)

(* The months a request fences: journal writers the entry's month and the    *)
(* one they name, a retraction the months of the event's rows, the handlers  *)
(* and execute the month of the event.                                       *)
Need(t) ==
  CASE t.op = "create" -> {t.to}
    [] t.op \in {"edit", "reverse"} -> {t.peek, t.to}
    [] t.op = "delete" -> {t.peek}
    [] t.op = "void" -> {t.peek} \ {0}
    [] t.op \in {"promote", "approve", "execute"} -> {DueMonth[t.e]}
    [] t.op = "classify" -> {}

Exists(e) == entry[e].st \notin {"none", "deleted"}
PeekedMonth(e) == IF Exists(e) THEN entry[e].per ELSE 0

Move(w, t) == task' = [task EXCEPT ![w] = t]

StartWrite(w, o, e, m) ==
  /\ task[w].pc = "idle"
  /\ CASE o = "create" -> e \in Locals /\ entry[e].st = "none"
       [] o = "edit" -> Exists(e) /\ (m = entry[e].per \/ e \in Movable)
       [] o = "reverse" -> Exists(e)
       [] o = "delete" -> Exists(e) /\ m = 1
       [] o = "execute" -> e \in Obligations /\ Writeback /\ m = 1
       [] OTHER -> e \in Obligations /\ m = 1
  /\ Move(w, [pc |-> "fencing", op |-> o, e |-> e, to |-> m, peek |-> PeekedMonth(e),
               got |-> {}])
  /\ UNCHANGED <<calendar, ledgerVars, qb, fence, job>>

\* Mutant: the status read before the fence is trusted.
TakesSharedUnchecked(w, m) ==
  /\ task[w].pc = "fencing"
  /\ m \in Need(task[w]) \ task[w].got
  /\ fence[m] = NoOne
  /\ Move(w, [task[w] EXCEPT !.got = @ \cup {m}])
  /\ UNCHANGED <<calendar, ledgerVars, qb, fence, job>>

(* Shared on the next month, then its status again: closed refuses.          *)
TakeShared(w, m) ==
  /\ task[w].pc = "fencing"
  /\ m \in Need(task[w]) \ task[w].got
  /\ \A n \in Need(task[w]) \ task[w].got : m <= n
  /\ fence[m] = NoOne
  /\ status[m] # "closed"
  /\ Move(w, [task[w] EXCEPT !.got = @ \cup {m}])
  /\ UNCHANGED <<calendar, ledgerVars, qb, fence, job>>

Ready(w, o) ==
  /\ task[w].pc = "fencing" /\ task[w].op = o
  /\ Need(task[w]) \subseteq task[w].got
Done(w) == Move(w, IdleTask)
RowFree(e) == EntryFree(e) /\ (e \in Obligations => EventFree(e))
Put(e, row) == entry' = [entry EXCEPT ![e] = row]

CreateEntry(w, s) ==
  LET e == task[w].e IN
  /\ Ready(w, "create")
  /\ entry[e].st = "none"
  /\ Put(e, [st |-> s, per |-> task[w].to, ver |-> 0])
  /\ UNCHANGED event

(* The draft's content, and perhaps its month: a date that moved since the   *)
(* peek refuses, the fence would be the wrong one.                           *)
UpdateEntry(w, v) ==
  LET e == task[w].e IN
  /\ Ready(w, "edit") /\ RowFree(e)
  /\ entry[e].st = "draft" /\ entry[e].per = task[w].peek
  /\ Put(e, [st |-> "draft", per |-> task[w].to, ver |-> v])
  /\ UNCHANGED event

(* The last entry of a live event may not go.                                *)
DeleteEntry(w) ==
  LET e == task[w].e IN
  /\ Ready(w, "delete") /\ RowFree(e)
  /\ entry[e].st = "draft" /\ entry[e].per = task[w].peek
  /\ e \in Obligations => Retracted(e)
  /\ Put(e, [NoEntry EXCEPT !.st = "deleted"])
  /\ UNCHANGED event

(* The original turns reversed and its reversal f posts at once.             *)
ReverseEntry(w, f) ==
  LET e == task[w].e IN
  /\ Ready(w, "reverse") /\ EntryFree(e)
  /\ entry[e].st = "posted" /\ entry[f].st = "none"
  /\ entry' = [entry EXCEPT ![e].st = "reversed",
                            ![f] = [st |-> "posted", per |-> task[w].to, ver |-> 0]]
  /\ UNCHANGED event

(* update_event_block to voided: only while nothing of the event has landed. *)
VoidEvent(w) ==
  LET o == task[w].e IN
  /\ Ready(w, "void") /\ EventFree(o)
  /\ event[o].st # "voided" /\ ~event[o].marked
  /\ entry[o].st \notin {"posted", "reversed"}
  /\ event' = [event EXCEPT ![o].st = "voided"]
  /\ UNCHANGED entry

(* schedule_entry_due: draft the closing entry, or refresh the draft from    *)
(* the schedule; a posted entry refuses.                                     *)
DraftFor(o) ==
  IF entry[o].st \in {"none", "draft"}
  THEN Put(o, [st |-> "draft", per |-> DueMonth[o], ver |-> 0])
  ELSE UNCHANGED entry

(* promote_pending_obligations, autopilot: pending and stranded obligations  *)
(* get their entry; a refused draft leaves the flip.                         *)
Promote(w) ==
  LET o == task[w].e IN
  /\ Ready(w, "promote") /\ RowFree(o)
  /\ event[o].st = "pending" \/ Stranded(o)
  /\ event' = [event EXCEPT ![o].st = "classified"]
  /\ DraftFor(o)

(* ... and co-pilot: the flip alone, without a fence.                        *)
Classify(w) ==
  LET o == task[w].e IN
  /\ Ready(w, "classify") /\ EventFree(o)
  /\ event[o].st = "pending"
  /\ event' = [event EXCEPT ![o].st = "classified"]
  /\ UNCHANGED entry

(* update_event_block to committed: the handler of a classified event fires. *)
Approve(w) ==
  LET o == task[w].e IN
  /\ Ready(w, "approve") /\ RowFree(o)
  /\ event[o].st = "classified" /\ entry[o].st # "posted"
  /\ event' = [event EXCEPT ![o].st = "committed"]
  /\ DraftFor(o)

(* execute_event_block on request: the row is locked, then QuickBooks is     *)
(* called; an answer is committed in a step of its own.                      *)
Publishable(o) == ~event[o].marked /\ event[o].st \notin {"voided", "fulfilled"}
ExecuteSend(w) ==
  LET o == task[w].e IN
  /\ Ready(w, "execute") /\ RowFree(o)
  /\ Publishable(o) /\ Exists(o)
  /\ qb' = qb \cup {o}
  /\ Move(w, [task[w] EXCEPT !.pc = "sent"])
  /\ UNCHANGED <<calendar, ledgerVars, fence, job>>

ExecuteCommit(w) ==
  LET o == task[w].e IN
  /\ task[w].pc = "sent"
  /\ event' = [event EXCEPT ![o] = [st |-> "fulfilled", marked |-> TRUE]]
  /\ entry' = [entry EXCEPT ![o].st = "posted"]
  /\ Done(w)
  /\ UNCHANGED <<calendar, qb, fence, job>>

(* Refused, nothing to send, or the answer lost: pending, to be tried again. *)
ExecuteRejected(w) ==
  LET o == task[w].e IN
  /\ \/ task[w].pc = "sent"
     \/ Ready(w, "execute") /\ RowFree(o) /\ Publishable(o)
  /\ event' = [event EXCEPT ![o].st = "pending"]
  /\ Done(w)
  /\ UNCHANGED <<calendar, qb, entry, fence, job>>

WriterCommits(w) ==
  /\ \/ \E s \in {"draft", "posted"} : CreateEntry(w, s)
     \/ \E v \in 0 .. MaxVer : UpdateEntry(w, v)
     \/ DeleteEntry(w)
     \/ \E f \in Locals : ReverseEntry(w, f)
     \/ VoidEvent(w) \/ Promote(w) \/ Classify(w) \/ Approve(w)
  /\ Done(w)
  /\ UNCHANGED <<calendar, qb, fence, job>>

WriterAborts(w) ==
  /\ task[w].pc # "idle"
  /\ Done(w)
  /\ UNCHANGED <<calendar, ledgerVars, qb, fence, job>>

WriterStep(w) ==
  \/ \E o \in {"create", "edit", "delete", "reverse", "void", "promote",
              "approve", "classify", "execute"}, e \in Entries, m \in Periods :
       StartWrite(w, o, e, m)
  \/ \E m \in Periods : TakeShared(w, m)
  \/ WriterCommits(w) \/ ExecuteSend(w) \/ ExecuteCommit(w) \/ ExecuteRejected(w)
  \/ WriterAborts(w)

Next ==
  \/ \E c \in Closers : CloserStep(c)
  \/ \E w \in Writers : WriterStep(w)

Spec == Init /\ [][Next]_vars

-----------------------------------------------------------------------------
(* Every row and every request stays within the statuses and phases the code  *)
(* knows.                                                                    *)
TypeOK ==
  /\ status \in [Periods -> {"open", "closing", "closed"}]
  /\ closedThrough \in NoPeriod .. NumPeriods
  /\ sets \in [Periods -> SUBSET [flow : SUBSET Rows, opening : SUBSET Rows]]
  /\ unsettled \subseteq Periods
  /\ entry \in [Entries -> EntryStates]
  /\ event \in [Obligations -> EventStates]
  /\ qb \subseteq Obligations
  /\ fence \in [Periods -> Closers \cup {NoOne}]
  /\ job \in [Closers -> Jobs]
  /\ task \in [Writers -> Tasks]

(* The statements stamped on a closed month are those of the ledger as it    *)
(* stands, the months before it included, however long ago they were stamped *)
(* - unless an earlier month was not closed then, or has been reopened since. *)
StatementsMatchLedger ==
  \A p \in Periods :
    status[p] = "closed" /\ p \notin unsettled => \A s \in sets[p] : s = Statement(entry, p)

(* Nothing is left to post in a closed month but drafts of retracted events. *)
NoDraftLeftInClosed ==
  \A p \in Periods : status[p] = "closed" => \A e \in Drafts(p) : Retracted(e)

(* Behind the close boundary every month has been closed: it is closed, or   *)
(* reopened; none was passed over.                                           *)
HistoryHasNoGap ==
  \A p \in Periods : p <= closedThrough => status[p] # "open"

(* A close omits no adjusting entry: no obligation of a closed month still   *)
(* waits for promotion or for its draft.                                     *)
NothingOmitted ==
  \A o \in Obligations :
    status[DueMonth[o]] = "closed" =>
      /\ event[o].st # "pending"
      /\ event[o].st = "classified" => entry[o].st # "none"

(* With write-back on, what a closed month posted for an obligation has      *)
(* reached QuickBooks and the ledger knows it.                               *)
ClosedIsInQuickBooks ==
  \A o \in Obligations :
    /\ Writeback
    /\ status[DueMonth[o]] = "closed"
    /\ entry[o].st = "posted"
    => event[o].marked /\ o \in qb

(* A retraction is refused once anything has landed, and what is retracted   *)
(* does not land later.                                                      *)
RetractedNeverPosts ==
  \A o \in Obligations : event[o].st = "voided" => entry[o].st \notin {"posted", "reversed"}

(* While a month is closed its ledger does not move.                         *)
FrozenWhileClosed ==
  [][\A p \in Periods : status[p] = "closed" /\ status'[p] = "closed"
       => Lines(entry', p) = Lines(entry, p)]_vars

(* Closing implements what the statements promise their reader.              *)
Books == INSTANCE PeriodBooks WITH
  Months <- Periods,
  phase <- status,
  ledger <- [p \in Periods |-> Lines(entry, p)],
  statements <- sets
ImplementsBooks == Books!BooksSpec
=============================================================================
