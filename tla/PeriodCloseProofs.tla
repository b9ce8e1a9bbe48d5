------------------------- MODULE PeriodCloseProofs -------------------------
(* Theorems about the month-end close, for any months, entries, obligations, *)
(* closers and writers.                                                      *)
EXTENDS PeriodClose, TLAPS

LEMMA Constants ==
  /\ NumPeriods \in Nat \ {0} /\ LastCompleted \in Nat /\ MaxVer \in Nat
  /\ 1 \in Periods /\ Periods \subseteq Nat \ {0}
  /\ Locals \subseteq Entries /\ Obligations \subseteq Entries
  /\ Movable \subseteq Locals /\ Locals \cap Obligations = {}
  /\ DueMonth \in [Obligations -> Periods]
  /\ NoOne \notin Closers
  /\ NoPeriod = -1 /\ Unread = -2
  /\ Unread \in Unread .. NumPeriods
  /\ NoPeriod .. NumPeriods \subseteq Unread .. NumPeriods
  /\ Writeback \in BOOLEAN
BY PeriodsAssumption, EntriesAssumption, NoOneAssumption, BoundsAssumption
   DEF Periods, Entries, NoPeriod, Unread

LEMMA IdleTyped == IdleJob \in Jobs /\ IdleTask \in Tasks /\ NoEntry \in EntryStates
BY Constants DEF IdleJob, Jobs, IdleTask, Tasks, NoEntry, EntryStates, Periods

LEMMA TypeInit == Init => TypeOK
<1> SUFFICES ASSUME Init PROVE TypeOK
  OBVIOUS
<1> USE Constants, IdleTyped
<1>1. closedThrough \in NoPeriod .. NumPeriods /\ status \in [Periods -> {"open", "closing", "closed"}]
  BY DEF Init, Periods
<1>2. event \in [Obligations -> EventStates] /\ entry \in [Entries -> EntryStates]
  BY DEF Init, EventStates
<1>3. QED
  BY <1>1, <1>2 DEF Init, TypeOK

LEMMA JobTyped ==
  ASSUME TypeOK, NEW c \in Closers
  PROVE  /\ job[c] \in Jobs
         /\ job[c].per \in Periods /\ job[c].per \in Nat \ {0}
         /\ closedThrough \in NoPeriod .. NumPeriods
         /\ ViewThrough(c) \in NoPeriod .. NumPeriods
         /\ Through(c) \in Unread .. NumPeriods
<1> USE Constants
<1>1. job[c] \in Jobs /\ closedThrough \in NoPeriod .. NumPeriods
  BY DEF TypeOK
<1>2. job[c].per \in Periods /\ job[c].through \in Unread .. NumPeriods
  BY <1>1 DEF Jobs
<1>3. ViewThrough(c) \in NoPeriod .. NumPeriods
  BY <1>1, <1>2 DEF ViewThrough, Periods
<1>4. QED
  BY <1>1, <1>2, <1>3 DEF Through, Periods

LEMMA TurnTyped ==
  ASSUME TypeOK, NEW c \in Closers, NEW j \in Jobs, Turn(c, j)
  PROVE  job' \in [Closers -> Jobs]
BY DEF TypeOK, Turn

LEMMA MoveTyped ==
  ASSUME TypeOK, NEW w \in Writers, NEW t \in Tasks, Move(w, t)
  PROVE  task' \in [Writers -> Tasks]
BY DEF TypeOK, Move

LEMMA CommittedTyped ==
  ASSUME TypeOK, NEW c \in Closers, Committed(c)
  PROVE  job' \in [Closers -> Jobs]
<1>1. [IdleJob EXCEPT !.pc = "committed"] \in Jobs
  BY IdleTyped DEF IdleJob, Jobs
<1>2. QED
  BY <1>1, TurnTyped DEF Committed

(* The rows of a reopened month.                                             *)
LEMMA ReopenedTyped ==
  ASSUME TypeOK, NEW p \in Periods, NEW t \in NoPeriod .. NumPeriods, Reopened(p, t)
  PROVE  /\ closedThrough' \in NoPeriod .. NumPeriods
         /\ status' \in [Periods -> {"open", "closing", "closed"}]
         /\ sets' \in [Periods -> SUBSET [flow : SUBSET Rows, opening : SUBSET Rows]]
         /\ unsettled' \subseteq Periods
BY DEF Reopened, LaterClosed, TypeOK

(* Each step of a closer keeps the types.                                    *)
LEMMA TypeCloser ==
  ASSUME TypeOK, NEW c \in Closers, CloserStep(c) PROVE TypeOK'
<1> USE DEF calendar, ledgerVars
<1>j. /\ job[c] \in Jobs
      /\ job[c].per \in Periods /\ job[c].per \in Nat \ {0}
      /\ closedThrough \in NoPeriod .. NumPeriods
      /\ ViewThrough(c) \in NoPeriod .. NumPeriods
      /\ Through(c) \in Unread .. NumPeriods
  BY JobTyped
<1>u. Unread \in Unread .. NumPeriods
  BY Constants
<1>1. ASSUME NEW p \in Periods, StartClose(c, p) \/ StartReopen(c, p) \/ StartBackfill(c, p)
      PROVE  TypeOK'
  <2>1. \A o \in {"close", "reopen"} :
          [IdleJob EXCEPT !.pc = "waiting", !.op = o, !.per = p] \in Jobs
    BY IdleTyped DEF IdleJob, Jobs
  <2>t. closedThrough \in Unread .. NumPeriods
    BY <1>j, Constants
  <2>2. [IdleJob EXCEPT !.pc = "counted", !.op = "backfill", !.per = p,
                        !.through = closedThrough] \in Jobs
    BY <2>t, IdleTyped DEF IdleJob, Jobs
  <2>3. job' \in [Closers -> Jobs]
    BY <1>1, <2>1, <2>2, TurnTyped DEF StartClose, StartReopen, StartBackfill, Begin
  <2>4. QED
    BY <1>1, <2>3 DEF StartClose, StartReopen, StartBackfill, TypeOK
<1>2. ASSUME BackfillRead(c) PROVE TypeOK'
  <2>1. status[job[c].per] \in {"open", "closing", "closed"}
    BY <1>j DEF TypeOK
  <2>2. [job[c] EXCEPT !.pc = "waiting", !.seen = status[job[c].per],
                       !.op = IF status[job[c].per] = "closed" THEN "restamp" ELSE "close"] \in Jobs
    BY <1>j, <2>1 DEF Jobs
  <2>3. job' \in [Closers -> Jobs]
    BY <1>2, <2>2, TurnTyped DEF BackfillRead
  <2>4. QED
    BY <1>2, <2>3 DEF BackfillRead, TypeOK
<1>3. ASSUME TakeFence(c) PROVE TypeOK'
  <2>1. [job[c] EXCEPT !.pc = "fenced"] \in Jobs
    BY <1>j DEF Jobs
  <2>2. job' \in [Closers -> Jobs]
    BY <1>3, <2>1, TurnTyped DEF TakeFence
  <2>3. QED
    BY <1>3, <2>2 DEF TakeFence, TypeOK
<1>4. ASSUME Reopen(c) PROVE TypeOK'
  <2>1. job[c].per - 1 \in NoPeriod .. NumPeriods
    BY <1>j, Constants DEF Periods
  <2>2. job' \in [Closers -> Jobs]
    BY <1>4, CommittedTyped DEF Reopen
  <2>3. QED
    BY <1>j, <1>4, <2>1, <2>2, ReopenedTyped DEF Reopen, TypeOK
<1>5. ASSUME RestampReopen(c) PROVE TypeOK'
  <2> DEFINE t == IF closedThrough = job[c].per THEN job[c].per - 1 ELSE closedThrough
  <2>1. t \in Unread .. NumPeriods
    BY <1>j, Constants DEF Periods
  <2>2. [job[c] EXCEPT !.reopened = TRUE, !.seen = "closing", !.through = t] \in Jobs
    BY <1>j, <2>1 DEF Jobs
  <2>3. job' \in [Closers -> Jobs]
    BY <1>5, <2>2, TurnTyped DEF RestampReopen
  <2>4. QED
    BY <1>5, <2>3 DEF RestampReopen, TypeOK
<1>6. ASSUME Gate(c) PROVE TypeOK'
  <2> DEFINE batch == Eligible(job[c].per)
  <2>1. batch \subseteq Obligations
    BY DEF Eligible
  <2>2. [job[c] EXCEPT !.pc = IF batch = {} THEN "published" ELSE "publishing",
                       !.todo = batch, !.seen = "unread", !.through = Through(c)] \in Jobs
    BY <1>j, <2>1 DEF Jobs
  <2>3. job' \in [Closers -> Jobs]
    BY <1>6, <2>2, TurnTyped DEF Gate
  <2>4. QED
    BY <1>6, <2>3 DEF Gate, TypeOK
<1>7. ASSUME NEW o \in Obligations, Publish(c, o) PROVE TypeOK'
  <2>1. /\ [job[c] EXCEPT !.todo = @ \ {o}] \in Jobs
        /\ [job[c] EXCEPT !.todo = @ \ {o}, !.sent = @ \cup {o}] \in Jobs
        /\ [job[c] EXCEPT !.todo = @ \ {o}, !.rejected = @ \cup {o}] \in Jobs
        /\ [job[c] EXCEPT !.todo = @ \ {o}, !.failed = TRUE] \in Jobs
    BY <1>j DEF Jobs
  <2>2. job' \in [Closers -> Jobs]
    BY <1>7, <2>1, TurnTyped DEF Publish, PublishAccepted, PublishRejected, PublishRaised
  <2>3. qb' \subseteq Obligations
    BY <1>7 DEF Publish, PublishAccepted, PublishRejected, PublishRaised, TypeOK
  <2>4. QED
    BY <1>7, <2>2, <2>3 DEF Publish, TypeOK
<1>8. ASSUME FinishPublish(c) PROVE TypeOK'
  <2>1. /\ closedThrough' \in NoPeriod .. NumPeriods
        /\ status' \in [Periods -> {"open", "closing", "closed"}]
        /\ sets' \in [Periods -> SUBSET [flow : SUBSET Rows, opening : SUBSET Rows]]
        /\ unsettled' \subseteq Periods
    BY <1>j, <1>8, ReopenedTyped DEF FinishPublish, TypeOK
  <2>2. [job[c] EXCEPT !.pc = "published", !.sent = {}, !.reopened = FALSE,
                       !.through = Unread] \in Jobs
    BY <1>j, <1>u DEF Jobs
  <2>3. job' \in [Closers -> Jobs]
    BY <1>8, <2>2, TurnTyped, CommittedTyped DEF FinishPublish
  <2>4. event' \in [Obligations -> EventStates]
    BY <1>8 DEF FinishPublish, TypeOK, EventStates
  <2>5. entry' \in [Entries -> EntryStates]
    BY <1>8 DEF FinishPublish, TypeOK, EntryStates
  <2>6. QED
    BY <1>8, <2>1, <2>3, <2>4, <2>5 DEF FinishPublish, TypeOK
<1>9. ASSUME Route(c) PROVE TypeOK'
  <2> DEFINE a == \/ ViewStatus(c) = "open"
                  \/ IF Through(c) = NoPeriod THEN IsEarliestOpen(job[c].per)
                     ELSE job[c].per = Through(c) + 1
             posts == {e \in Drafts(job[c].per) : ~Retracted(e)}
  <2>1. a \in BOOLEAN
    BY DEF IsEarliestOpen
  <2>2. posts \subseteq Entries
    BY DEF Drafts
  <2> HIDE DEF a, posts
  <2>3. [job[c] EXCEPT !.pc = "routed", !.through = Unread, !.posts = posts,
                       !.advance = a] \in Jobs
    BY <1>j, <1>u, <2>1, <2>2 DEF Jobs
  <2>4. job' \in [Closers -> Jobs]
    BY <1>9, <2>3, TurnTyped DEF Route, a, posts
  <2>5. QED
    BY <1>9, <2>4 DEF Route, TypeOK
<1>10. ASSUME Finish(c) PROVE TypeOK'
  <2>1. closedThrough' \in NoPeriod .. NumPeriods
    BY <1>j, <1>10, Constants DEF Finish, Advanced, Periods
  <2>2. entry' \in [Entries -> EntryStates]
    BY <1>10 DEF Finish, TypeOK, EntryStates
  <2>3. \A q \in Periods : Lines(entry', q) \subseteq Rows
    BY <2>2 DEF Lines, Posted, EntryStates, Rows
  <2> DEFINE S == SUBSET [flow : SUBSET Rows, opening : SUBSET Rows]
             drawn == {Statement(entry', job[c].per)}
  <2>s. drawn \in S
    BY <1>j, <2>3 DEF Statement
  <2>t. sets' = [sets EXCEPT ![job[c].per] = drawn] /\ sets \in [Periods -> S]
    BY <1>10 DEF Finish, Stamped, TypeOK
  <2>u. unsettled' \subseteq Periods
    BY <1>j, <1>10 DEF Finish, Stamped, TypeOK
  <2> HIDE DEF S, drawn
  <2>4. sets' \in [Periods -> S]
    BY <2>s, <2>t
  <2>5. job' \in [Closers -> Jobs]
    BY <1>10, CommittedTyped DEF Finish
  <2>6. status' \in [Periods -> {"open", "closing", "closed"}]
    BY <1>10 DEF Finish, TypeOK
  <2>7. QED
    BY <1>10, <2>1, <2>2, <2>4, <2>5, <2>6, <2>u DEF Finish, TypeOK, S
<1>11. ASSUME Release(c) \/ Abort(c) PROVE TypeOK'
  <2>1. job' \in [Closers -> Jobs]
    BY <1>11, IdleTyped, TurnTyped DEF Release, Abort, LetGo
  <2>2. QED
    BY <1>11, <2>1 DEF Release, Abort, LetGo, TypeOK
<1>12. QED
  BY <1>1, <1>2, <1>3, <1>4, <1>5, <1>6, <1>7, <1>8, <1>9, <1>10, <1>11 DEF CloserStep

(* What a request is about: an entry, of an obligation for the event handlers. *)
AskedInv ==
  \A w \in Writers :
    task[w].pc # "idle" =>
      /\ task[w].e \in Entries
      /\ task[w].op = "create" => task[w].e \in Locals
      /\ task[w].op \in {"void", "promote", "approve", "classify", "execute"}
           => task[w].e \in Obligations
      /\ task[w].pc = "sent" => task[w].op = "execute"

LEMMA AskedWriter ==
  ASSUME TypeOK, AskedInv, NEW w \in Writers, WriterStep(w) PROVE AskedInv'
<1>t. task \in [Writers -> Tasks]
  BY DEF TypeOK
<1> SUFFICES ASSUME NEW v \in Writers, task'[v].pc # "idle"
             PROVE  /\ task'[v].e \in Entries
                    /\ task'[v].op = "create" => task'[v].e \in Locals
                    /\ task'[v].op \in {"void", "promote", "approve", "classify", "execute"}
                         => task'[v].e \in Obligations
                    /\ task'[v].pc = "sent" => task'[v].op = "execute"
  BY DEF AskedInv
<1>1. ASSUME NEW t, Move(w, t) PROVE task'[v] = IF v = w THEN t ELSE task[v]
  BY <1>t, <1>1 DEF Move
<1>2. ASSUME Done(w) PROVE task'[v].pc = "idle" \/ (v # w /\ task'[v] = task[v])
  BY <1>1, <1>2 DEF Done, IdleTask, AskedInv
<1>3. CASE \E o \in {"create", "edit", "delete", "reverse", "void", "promote",
                     "approve", "classify", "execute"}, e \in Entries, m \in Periods :
             StartWrite(w, o, e, m)
  BY <1>1, <1>3 DEF StartWrite, AskedInv
<1>4. CASE \E m \in Periods : TakeShared(w, m)
  BY <1>1, <1>4, <1>t DEF TakeShared, AskedInv, Tasks
<1>5. CASE ExecuteSend(w)
  BY <1>1, <1>5, <1>t DEF ExecuteSend, Ready, AskedInv, Tasks
<1>6. CASE WriterCommits(w) \/ ExecuteCommit(w) \/ ExecuteRejected(w) \/ WriterAborts(w)
  <2>1. Done(w)
    BY <1>6 DEF WriterCommits, WriterAborts, ExecuteCommit, ExecuteRejected
  <2>2. QED
    BY <1>2, <2>1 DEF AskedInv
<1>7. QED
  BY <1>3, <1>4, <1>5, <1>6 DEF WriterStep

(* Each step of a writer keeps the types.                                    *)
LEMMA TypeWriter ==
  ASSUME TypeOK, AskedInv, NEW w \in Writers, WriterStep(w) PROVE TypeOK'
<1> USE DEF calendar, ledgerVars
<1>t. task[w] \in Tasks /\ entry \in [Entries -> EntryStates] /\ event \in [Obligations -> EventStates]
  BY DEF TypeOK
<1>d. ASSUME Done(w) PROVE task' \in [Writers -> Tasks]
  BY <1>d, IdleTyped, MoveTyped DEF Done
<1>1. ASSUME NEW o \in {"create", "edit", "delete", "reverse", "void", "promote",
                        "approve", "classify", "execute"},
             NEW e \in Entries, NEW m \in Periods, StartWrite(w, o, e, m)
      PROVE  TypeOK'
  <2>1. PeekedMonth(e) \in Periods \cup {0}
    BY <1>t DEF PeekedMonth, EntryStates
  <2>2. [pc |-> "fencing", op |-> o, e |-> e, to |-> m, peek |-> PeekedMonth(e),
         got |-> {}] \in Tasks
    BY <2>1 DEF Tasks
  <2>3. task' \in [Writers -> Tasks]
    BY <1>1, <2>2, MoveTyped DEF StartWrite
  <2>4. QED
    BY <1>1, <2>3 DEF StartWrite, TypeOK
<1>2. ASSUME NEW m \in Periods, TakeShared(w, m) PROVE TypeOK'
  <2>1. [task[w] EXCEPT !.got = @ \cup {m}] \in Tasks
    BY <1>t DEF Tasks
  <2>2. task' \in [Writers -> Tasks]
    BY <1>2, <2>1, MoveTyped DEF TakeShared
  <2>3. QED
    BY <1>2, <2>2 DEF TakeShared, TypeOK
<1>3. ASSUME WriterCommits(w) PROVE TypeOK'
  <2>1. entry' \in [Entries -> EntryStates] /\ event' \in [Obligations -> EventStates]
    <3>1. task[w].to \in Periods
      BY <1>t DEF Tasks
    <3>2. ASSUME NEW s \in {"draft", "posted"}, CreateEntry(w, s) PROVE entry' \in [Entries -> EntryStates] /\ event' \in [Obligations -> EventStates]
      <4>1. [st |-> s, per |-> task[w].to, ver |-> 0] \in EntryStates
        BY <3>1, Constants DEF EntryStates
      <4>2. QED
        BY <1>t, <3>2, <4>1 DEF CreateEntry, Put
    <3>3. ASSUME NEW v \in 0 .. MaxVer, UpdateEntry(w, v) PROVE entry' \in [Entries -> EntryStates] /\ event' \in [Obligations -> EventStates]
      <4>1. [st |-> "draft", per |-> task[w].to, ver |-> v] \in EntryStates
        BY <3>1 DEF EntryStates
      <4>2. QED
        BY <1>t, <3>3, <4>1 DEF UpdateEntry, Put
    <3>4. ASSUME DeleteEntry(w) PROVE entry' \in [Entries -> EntryStates] /\ event' \in [Obligations -> EventStates]
      <4>1. [NoEntry EXCEPT !.st = "deleted"] \in EntryStates
        BY IdleTyped DEF NoEntry, EntryStates
      <4>2. QED
        BY <1>t, <3>4, <4>1 DEF DeleteEntry, Put
    <3>5. ASSUME NEW f \in Locals, ReverseEntry(w, f) PROVE entry' \in [Entries -> EntryStates] /\ event' \in [Obligations -> EventStates]
      <4>1. [st |-> "posted", per |-> task[w].to, ver |-> 0] \in EntryStates
        BY <3>1, Constants DEF EntryStates
      <4>2. \A x \in EntryStates : [x EXCEPT !.st = "reversed"] \in EntryStates
        BY DEF EntryStates
      <4>3. QED
        BY <1>t, <3>5, <4>1, <4>2 DEF ReverseEntry
    <3>6. ASSUME NEW o \in Obligations, DraftFor(o) PROVE entry' \in [Entries -> EntryStates]
      <4>1. [st |-> "draft", per |-> DueMonth[o], ver |-> 0] \in EntryStates
        BY Constants DEF EntryStates
      <4>2. QED
        BY <1>t, <3>6, <4>1 DEF DraftFor, Put
    <3>7. ASSUME NEW o \in Obligations, NEW s \in {"pending", "classified", "committed", "voided"},
                 event' = [event EXCEPT ![o].st = s]
          PROVE  event' \in [Obligations -> EventStates]
      BY <1>t, <3>7 DEF EventStates
    <3>8. ASSUME VoidEvent(w) \/ Classify(w) \/ Promote(w) \/ Approve(w)
          PROVE  event' \in [Obligations -> EventStates]
      <4>1. task[w].e \in Obligations
        BY <3>8 DEF VoidEvent, Classify, Promote, Approve, Ready, AskedInv
      <4>2. QED
        BY <3>7, <3>8, <4>1 DEF VoidEvent, Classify, Promote, Approve
    <3>9. ASSUME VoidEvent(w) \/ Classify(w) \/ Promote(w) \/ Approve(w)
          PROVE  entry' \in [Entries -> EntryStates]
      <4>1. task[w].e \in Obligations
        BY <3>9 DEF VoidEvent, Classify, Promote, Approve, Ready, AskedInv
      <4>2. QED
        BY <1>t, <3>6, <3>9, <4>1 DEF VoidEvent, Classify, Promote, Approve
    <3>10. QED
      BY <1>3, <3>2, <3>3, <3>4, <3>5, <3>8, <3>9 DEF WriterCommits
  <2>2. QED
    BY <1>3, <1>d, <2>1 DEF WriterCommits, TypeOK
<1>4. ASSUME ExecuteSend(w) PROVE TypeOK'
  <2>1. [task[w] EXCEPT !.pc = "sent"] \in Tasks
    BY <1>t DEF Tasks
  <2>2. task' \in [Writers -> Tasks]
    BY <1>4, <2>1, MoveTyped DEF ExecuteSend
  <2>3. task[w].e \in Obligations
    BY <1>4 DEF ExecuteSend, Ready, AskedInv
  <2>4. QED
    BY <1>4, <2>2, <2>3 DEF ExecuteSend, TypeOK
<1>5. ASSUME ExecuteCommit(w) \/ ExecuteRejected(w) PROVE TypeOK'
  <2>1. \A x \in EventStates : [x EXCEPT !.st = "pending"] \in EventStates
    BY DEF EventStates
  <2>2. [st |-> "fulfilled", marked |-> TRUE] \in EventStates
    BY DEF EventStates
  <2>3. event' \in [Obligations -> EventStates]
    BY <1>t, <1>5, <2>1, <2>2 DEF ExecuteCommit, ExecuteRejected
  <2>4. \A x \in EntryStates : [x EXCEPT !.st = "posted"] \in EntryStates
    BY DEF EntryStates
  <2>5. entry' \in [Entries -> EntryStates]
    BY <1>t, <1>5, <2>4 DEF ExecuteCommit, ExecuteRejected
  <2>6. QED
    BY <1>5, <1>d, <2>3, <2>5 DEF ExecuteCommit, ExecuteRejected, TypeOK
<1>6. ASSUME WriterAborts(w) PROVE TypeOK'
  BY <1>6, <1>d DEF WriterAborts, TypeOK
<1>7. QED
  BY <1>1, <1>2, <1>3, <1>4, <1>5, <1>6 DEF WriterStep

BaseInv == TypeOK /\ AskedInv

LEMMA BaseStep == BaseInv /\ [Next]_vars => BaseInv'
<1> SUFFICES ASSUME BaseInv, [Next]_vars PROVE BaseInv'
  OBVIOUS
<1>1. ASSUME NEW c \in Closers, CloserStep(c) PROVE BaseInv'
  <2>1. task' = task
    BY <1>1 DEF CloserStep, StartClose, StartReopen, StartBackfill, BackfillRead, TakeFence,
                Reopen, RestampReopen, Gate, Publish, FinishPublish, Route, Finish, Release,
                Abort, LetGo
  <2>2. QED
    BY <1>1, <2>1, TypeCloser DEF BaseInv, AskedInv
<1>2. ASSUME NEW w \in Writers, WriterStep(w) PROVE BaseInv'
  BY <1>2, TypeWriter, AskedWriter DEF BaseInv
<1>3. CASE UNCHANGED vars
  BY <1>3 DEF BaseInv, AskedInv, TypeOK, vars
<1>4. QED
  BY <1>1, <1>2, <1>3 DEF Next

LEMMA BaseInit == Init => BaseInv
BY TypeInit DEF BaseInv, AskedInv, Init, IdleTask

LEMMA BaseAlways == Spec => []BaseInv
BY BaseInit, BaseStep, PTL DEF Spec

(* Every row, every closer's progress and every writer's stay within the      *)
(* statuses and phases the code knows (TypeOK), for any instance.             *)
THEOREM TypeCorrect == Spec => []TypeOK
<1>1. BaseInv => TypeOK
  BY DEF BaseInv
<1>2. QED
  BY <1>1, BaseAlways, PTL

-----------------------------------------------------------------------------
(* The fence, and what holds under it *)

Inside(c) == job[c].pc \in {"fenced", "publishing", "published", "routed"}

(* A closer at work holds its month, and no writer is in a month that is held *)
(* or closed.                                                                *)
FenceInv ==
  /\ \A c \in Closers : Inside(c) => fence[job[c].per] = c
  /\ \A w \in Writers : \A m \in task[w].got : fence[m] = NoOne /\ status[m] # "closed"

(* An obligation's entry stays in its month; what QuickBooks acknowledged is *)
(* there and was not retracted; with write-back on nothing of an obligation  *)
(* is posted without it.                                                     *)
RowInv ==
  \A o \in Obligations :
    /\ Exists(o) => entry[o].per = DueMonth[o]
    /\ event[o].marked => o \in qb /\ event[o].st # "voided"
    /\ Writeback /\ entry[o].st \in {"posted", "reversed"} => event[o].marked

(* A request whose entry is at QuickBooks has its month, and its row is locked. *)
SendInv ==
  \A w \in Writers :
    LET o == task[w].e IN
    task[w].pc = "sent" =>
      /\ DueMonth[o] \in task[w].got
      /\ Exists(o) /\ o \in qb /\ event[o].st # "voided"
(* An edit leaves an entry that may not move where it is.                    *)
EditInv ==
  \A w \in Writers :
    task[w].pc # "idle" /\ task[w].op = "edit" /\ task[w].e \notin Movable => task[w].to = task[w].peek

(* What a closer has decided still holds of the rows it decided on.          *)
Batch(c) == job[c].todo \cup job[c].sent \cup job[c].rejected
BatchInv(c) ==
  /\ Batch(c) # {} => job[c].pc = "publishing"
  /\ Batch(c) \subseteq Drafts(job[c].per)
  /\ \A o \in job[c].sent \cup job[c].rejected : ~Retracted(o)
  /\ job[c].sent \subseteq qb
  /\ job[c].pc = "publishing" /\ ~job[c].reopened => status[job[c].per] # "closed"
  /\ job[c].reopened => Inside(c) /\ status[job[c].per] = "closed"
GateInv(c) ==
  job[c].pc \in {"publishing", "published", "routed"} =>
    \A o \in Obligations : DueMonth[o] = job[c].per => event[o].st # "pending" /\ ~Stranded(o)
Unsent(c) == {o \in Obligations \cap Drafts(job[c].per) : ~Retracted(o) /\ ~event[o].marked}
PublishInv(c) ==
  Writeback =>
    /\ job[c].pc = "publishing" /\ ~job[c].failed => Unsent(c) \subseteq Batch(c)
    /\ job[c].pc \in {"published", "routed"} => Unsent(c) = {}
RouteInv(c) ==
  /\ job[c].pc # "routed" => job[c].posts = {}
  /\ job[c].posts \subseteq Drafts(job[c].per)
  /\ job[c].pc = "routed" =>
       /\ \A e \in Drafts(job[c].per) : e \in job[c].posts \/ Retracted(e)
       /\ status[job[c].per] = "closed" => job[c].posts = {}
       /\ Writeback => \A o \in job[c].posts \cap Obligations : event[o].marked
CloserInv == \A c \in Closers : BatchInv(c) /\ GateInv(c) /\ PublishInv(c) /\ RouteInv(c)
LedgerInv == NoDraftLeftInClosed /\ NothingOmitted
Inv == BaseInv /\ FenceInv /\ RowInv /\ SendInv /\ EditInv /\ CloserInv /\ LedgerInv

(* No edit moves an entry to another month, or there is no other request       *)
(* whose entry it could move.                                                *)
NoneMoves == Movable = {} \/ \A v, w \in Writers : v = w

(* Then a request still sees its entry where it peeked it.                   *)
PeekInv ==
  NoneMoves =>
    \A w \in Writers :
      LET e == task[w].e IN
      task[w].pc # "idle" /\ task[w].op \in {"edit", "delete", "reverse"}
        => entry[e].st # "none" /\ (entry[e].st = "deleted" \/ entry[e].per = task[w].peek)

LEMMA WriterFrame ==
  ASSUME NEW w \in Writers, WriterStep(w)
  PROVE  UNCHANGED <<status, closedThrough, sets, unsettled, fence, job>>
BY DEF WriterStep, StartWrite, TakeShared, WriterCommits, ExecuteSend, ExecuteCommit,
       ExecuteRejected, WriterAborts, calendar, ledgerVars

LEMMA CloserFrame ==
  ASSUME TypeOK, NEW c \in Closers, CloserStep(c)
  PROVE  task' = task /\ \A d \in Closers \ {c} : job'[d] = job[d]
<1>1. task' = task
  BY DEF CloserStep, StartClose, StartReopen, StartBackfill, BackfillRead, TakeFence, Reopen,
         RestampReopen, Gate, Publish, FinishPublish, Route, Finish, Release, Abort, LetGo
<1>2. \E j : Turn(c, j)
  <2>1. CASE \E p \in Periods : StartClose(c, p) \/ StartReopen(c, p) \/ StartBackfill(c, p)
    BY <2>1 DEF StartClose, StartReopen, StartBackfill, Begin
  <2>2. CASE BackfillRead(c) \/ TakeFence(c) \/ Reopen(c) \/ RestampReopen(c)
    BY <2>2 DEF BackfillRead, TakeFence, Reopen, RestampReopen, Committed
  <2>3. CASE Gate(c) \/ (\E o \in Obligations : Publish(c, o))
    BY <2>3 DEF Gate, Publish, PublishAccepted, PublishRejected, PublishRaised
  <2>4. CASE FinishPublish(c) \/ Route(c) \/ Finish(c)
    BY <2>4 DEF FinishPublish, Route, Finish, Committed
  <2>5. CASE Release(c) \/ Abort(c)
    BY <2>5 DEF Release, Abort, LetGo
  <2>6. QED
    BY <2>1, <2>2, <2>3, <2>4, <2>5 DEF CloserStep
<1>3. QED
  BY <1>1, <1>2 DEF Turn, TypeOK

LEMMA TurnIs ==
  ASSUME TypeOK, NEW c \in Closers, NEW j, Turn(c, j)
  PROVE  job'[c] = j
BY DEF Turn, TypeOK

(* What a step leaves of its closer's progress.                              *)
LEMMA AfterGate ==
  ASSUME TypeOK, NEW c \in Closers, Gate(c)
  PROVE  /\ job'[c].pc = (IF Eligible(job[c].per) = {} THEN "published" ELSE "publishing")
         /\ job'[c].todo = Eligible(job[c].per)
         /\ job'[c].per = job[c].per /\ job'[c].sent = job[c].sent
         /\ job'[c].rejected = job[c].rejected /\ job'[c].posts = job[c].posts
         /\ job'[c].failed = job[c].failed /\ job'[c].reopened = job[c].reopened
<1> DEFINE batch == Eligible(job[c].per)
           pc == IF batch = {} THEN "published" ELSE "publishing"
           t == Through(c)
<1>1. job'[c] = [job[c] EXCEPT !.pc = pc, !.todo = batch, !.seen = "unread", !.through = t]
  BY TurnIs DEF Gate
<1>2. job[c] \in Jobs
  BY JobTyped
<1> HIDE DEF batch, pc, t
<1>3. /\ job'[c].pc = pc /\ job'[c].todo = batch
      /\ job'[c].per = job[c].per /\ job'[c].sent = job[c].sent
      /\ job'[c].rejected = job[c].rejected /\ job'[c].posts = job[c].posts
      /\ job'[c].failed = job[c].failed /\ job'[c].reopened = job[c].reopened
  BY <1>1, <1>2 DEF Jobs
<1>4. QED
  BY <1>3 DEF pc, batch

LEMMA AfterRoute ==
  ASSUME TypeOK, NEW c \in Closers, Route(c)
  PROVE  /\ job'[c].pc = "routed"
         /\ job'[c].posts = {e \in Drafts(job[c].per) : ~Retracted(e)}
         /\ job'[c].per = job[c].per /\ job'[c].todo = job[c].todo
         /\ job'[c].sent = job[c].sent /\ job'[c].rejected = job[c].rejected
         /\ job'[c].failed = job[c].failed /\ job'[c].reopened = job[c].reopened
<1> DEFINE posts == {e \in Drafts(job[c].per) : ~Retracted(e)}
           a == \/ ViewStatus(c) = "open"
                \/ IF Through(c) = NoPeriod THEN IsEarliestOpen(job[c].per)
                   ELSE job[c].per = Through(c) + 1
<1>1. job'[c] = [job[c] EXCEPT !.pc = "routed", !.through = Unread, !.posts = posts, !.advance = a]
  BY TurnIs DEF Route
<1>2. job[c] \in Jobs
  BY JobTyped
<1> HIDE DEF posts, a
<1>3. QED
  BY <1>1, <1>2 DEF Jobs, posts

LEMMA AfterRestamp ==
  ASSUME TypeOK, NEW c \in Closers, RestampReopen(c)
  PROVE  /\ job'[c].reopened = TRUE /\ job'[c].pc = job[c].pc
         /\ job'[c].per = job[c].per /\ job'[c].todo = job[c].todo
         /\ job'[c].sent = job[c].sent /\ job'[c].rejected = job[c].rejected
         /\ job'[c].failed = job[c].failed /\ job'[c].posts = job[c].posts
<1> DEFINE t == IF closedThrough = job[c].per THEN job[c].per - 1 ELSE closedThrough
<1>1. job[c] \in Jobs
  BY JobTyped
<1>2. job'[c] = [job[c] EXCEPT !.reopened = TRUE, !.seen = "closing", !.through = t]
  BY TurnIs DEF RestampReopen
<1> HIDE DEF t
<1>3. QED
  BY <1>1, <1>2 DEF Jobs

LEMMA AfterBackfillRead ==
  ASSUME TypeOK, NEW c \in Closers, BackfillRead(c)
  PROVE  /\ job'[c].pc = "waiting"
         /\ job'[c].per = job[c].per /\ job'[c].todo = job[c].todo
         /\ job'[c].sent = job[c].sent /\ job'[c].rejected = job[c].rejected
         /\ job'[c].failed = job[c].failed /\ job'[c].posts = job[c].posts
         /\ job'[c].reopened = job[c].reopened
<1> DEFINE s == status[job[c].per]
           o == IF s = "closed" THEN "restamp" ELSE "close"
<1>1. job'[c] = [job[c] EXCEPT !.pc = "waiting", !.seen = s, !.op = o]
  BY TurnIs DEF BackfillRead
<1>2. job[c] \in Jobs
  BY JobTyped
<1> HIDE DEF s, o
<1>3. QED
  BY <1>1, <1>2 DEF Jobs

LEMMA AfterTakeFence ==
  ASSUME TypeOK, NEW c \in Closers, TakeFence(c)
  PROVE  /\ job'[c].pc = "fenced"
         /\ job'[c].per = job[c].per /\ job'[c].todo = job[c].todo
         /\ job'[c].sent = job[c].sent /\ job'[c].rejected = job[c].rejected
         /\ job'[c].failed = job[c].failed /\ job'[c].posts = job[c].posts
         /\ job'[c].reopened = job[c].reopened
<1>1. job[c] \in Jobs
  BY JobTyped
<1>2. QED
  BY <1>1, TurnIs DEF TakeFence, Jobs

LEMMA AfterPublish ==
  ASSUME TypeOK, NEW c \in Closers, NEW o \in Obligations, Publish(c, o)
  PROVE  /\ job'[c].pc = job[c].pc /\ job'[c].per = job[c].per
         /\ job'[c].posts = job[c].posts /\ job'[c].reopened = job[c].reopened
         /\ job'[c].todo = job[c].todo \ {o}
         /\ \/ /\ ~Retracted(o) /\ event[o].marked /\ qb' = qb
               /\ job'[c].sent = job[c].sent /\ job'[c].rejected = job[c].rejected
               /\ job'[c].failed = job[c].failed
            \/ /\ ~Retracted(o) /\ qb' = qb \cup {o}
               /\ job'[c].sent = job[c].sent \cup {o} /\ job'[c].rejected = job[c].rejected
               /\ job'[c].failed = job[c].failed
            \/ /\ ~Retracted(o) /\ qb \subseteq qb'
               /\ job'[c].sent = job[c].sent /\ job'[c].rejected = job[c].rejected \cup {o}
               /\ job'[c].failed = job[c].failed
            \/ /\ qb' = qb /\ job'[c].failed = TRUE
               /\ job'[c].sent = job[c].sent /\ job'[c].rejected = job[c].rejected
<1>1. job[c] \in Jobs
  BY JobTyped
<1>2. CASE PublishAccepted(c, o) /\ event[o].marked
  <2>1. job'[c] = [job[c] EXCEPT !.todo = @ \ {o}]
    BY <1>2, TurnIs DEF PublishAccepted
  <2>2. QED
    BY <1>1, <1>2, <2>1 DEF PublishAccepted, Jobs
<1>3. CASE PublishAccepted(c, o) /\ ~event[o].marked
  <2>1. job'[c] = [job[c] EXCEPT !.todo = @ \ {o}, !.sent = @ \cup {o}]
    BY <1>3, TurnIs DEF PublishAccepted
  <2>2. QED
    BY <1>1, <1>3, <2>1 DEF PublishAccepted, Jobs
<1>4. CASE PublishRejected(c, o)
  <2>1. job'[c] = [job[c] EXCEPT !.todo = @ \ {o}, !.rejected = @ \cup {o}]
    BY <1>4, TurnIs DEF PublishRejected
  <2>2. QED
    BY <1>1, <1>4, <2>1 DEF PublishRejected, Jobs
<1>5. CASE PublishRaised(c, o)
  <2>1. job'[c] = [job[c] EXCEPT !.todo = @ \ {o}, !.failed = TRUE]
    BY <1>5, TurnIs DEF PublishRaised
  <2>2. QED
    BY <1>1, <1>5, <2>1 DEF PublishRaised, Jobs
<1>6. QED
  BY <1>2, <1>3, <1>4, <1>5 DEF Publish

LEMMA AfterFinishPublish ==
  ASSUME TypeOK, NEW c \in Closers, FinishPublish(c)
  PROVE  \/ job'[c] = [IdleJob EXCEPT !.pc = "committed"]
         \/ /\ job[c].rejected = {} /\ job[c].failed = FALSE
            /\ job'[c].pc = "published" /\ job'[c].sent = {} /\ job'[c].reopened = FALSE
            /\ job'[c].per = job[c].per /\ job'[c].todo = {}
            /\ job'[c].rejected = {} /\ job'[c].posts = job[c].posts
<1>1. job[c] \in Jobs
  BY JobTyped
<1>2. CASE Committed(c)
  BY <1>2, TurnIs DEF Committed
<1>3. CASE /\ Turn(c, [job[c] EXCEPT !.pc = "published", !.sent = {}, !.reopened = FALSE,
                                    !.through = Unread])
           /\ job[c].rejected = {} /\ job[c].failed = FALSE /\ job[c].todo = {}
  <2>1. job'[c] = [job[c] EXCEPT !.pc = "published", !.sent = {}, !.reopened = FALSE,
                                 !.through = Unread]
    BY <1>3, TurnIs
  <2>2. QED
    BY <1>1, <1>3, <2>1 DEF Jobs
<1>4. job[c].failed \in BOOLEAN
  BY <1>1 DEF Jobs
<1>5. QED
  BY <1>2, <1>3, <1>4 DEF FinishPublish

(* A closer that waits, has ended or has only just begun has decided nothing. *)
LEMMA AfterStart ==
  ASSUME TypeOK, NEW c \in Closers,
         \/ \E p \in Periods : StartClose(c, p) \/ StartReopen(c, p) \/ StartBackfill(c, p)
         \/ Reopen(c) \/ Finish(c) \/ Release(c) \/ Abort(c)
  PROVE  /\ job'[c].pc \in {"idle", "waiting", "counted", "committed"}
         /\ job'[c].todo = {} /\ job'[c].sent = {} /\ job'[c].rejected = {}
         /\ job'[c].posts = {} /\ job'[c].reopened = FALSE
<1>1. ASSUME NEW p \in Periods, StartClose(c, p) \/ StartReopen(c, p)
      PROVE  \E o : job'[c] = [IdleJob EXCEPT !.pc = "waiting", !.op = o, !.per = p]
  BY <1>1, TurnIs DEF StartClose, StartReopen, Begin
<1>c. CASE \E p \in Periods : StartClose(c, p) \/ StartReopen(c, p)
  <2>1. PICK p, o : job'[c] = [IdleJob EXCEPT !.pc = "waiting", !.op = o, !.per = p]
    BY <1>1, <1>c
  <2>2. QED
    BY <2>1 DEF IdleJob
<1>2. ASSUME NEW p \in Periods, StartBackfill(c, p)
      PROVE  job'[c] = [IdleJob EXCEPT !.pc = "counted", !.op = "backfill", !.per = p,
                                       !.through = closedThrough]
  BY <1>2, TurnIs DEF StartBackfill
<1>b. CASE \E p \in Periods : StartBackfill(c, p)
  <2>1. PICK p : job'[c] = [IdleJob EXCEPT !.pc = "counted", !.op = "backfill", !.per = p,
                                           !.through = closedThrough]
    BY <1>2, <1>b
  <2>2. QED
    BY <2>1 DEF IdleJob
<1>3. ASSUME Reopen(c) \/ Finish(c) PROVE job'[c] = [IdleJob EXCEPT !.pc = "committed"]
  BY <1>3, TurnIs DEF Reopen, Finish, Committed
<1>4. ASSUME Release(c) \/ Abort(c) PROVE job'[c] = IdleJob
  BY <1>4, TurnIs DEF Release, Abort, LetGo
<1>5. CASE Reopen(c) \/ Finish(c) \/ Release(c) \/ Abort(c)
  BY <1>3, <1>4, <1>5 DEF IdleJob
<1>6. QED
  BY <1>b, <1>c, <1>5

(* A month is closed by the closer that holds it, and its statements and its *)
(* status are otherwise only those of a reopening.                           *)
LEMMA CloserFence ==
  ASSUME BaseInv, FenceInv, NEW c \in Closers, CloserStep(c)
  PROVE  /\ Inside(c)' => fence'[job'[c].per] = c
         /\ \A p \in Periods : status[p] # "closed" /\ status'[p] = "closed" => fence[p] = c
         /\ \A p \in Periods : \/ fence'[p] = fence[p]
                               \/ fence[p] = NoOne /\ ~SharedHeld(p) /\ fence'[p] = c
                               \/ fence[p] = c /\ fence'[p] = NoOne
<1> USE DEF calendar, ledgerVars, BaseInv
<1>j. job[c] \in Jobs /\ job[c].per \in Periods
  BY JobTyped
<1>s. status \in [Periods -> {"open", "closing", "closed"}] /\ fence \in [Periods -> Closers \cup {NoOne}]
  BY DEF TypeOK
<1>c. ASSUME Committed(c) PROVE ~Inside(c)'
  BY <1>c, TurnIs DEF Committed, Inside, IdleJob
<1>1. ASSUME NEW p \in Periods, StartClose(c, p) \/ StartReopen(c, p) \/ StartBackfill(c, p)
      PROVE  ~Inside(c)' /\ UNCHANGED <<status, fence>>
  <2>1. job'[c].pc \in {"waiting", "counted"}
    <3>1. CASE StartClose(c, p)
      <4>1. job'[c] = [IdleJob EXCEPT !.pc = "waiting", !.op = "close", !.per = p]
        BY <3>1, TurnIs DEF StartClose, Begin
      <4>2. QED
        BY <4>1 DEF IdleJob
    <3>2. CASE StartReopen(c, p)
      <4>1. job'[c] = [IdleJob EXCEPT !.pc = "waiting", !.op = "reopen", !.per = p]
        BY <3>2, TurnIs DEF StartReopen, Begin
      <4>2. QED
        BY <4>1 DEF IdleJob
    <3>3. CASE StartBackfill(c, p)
      BY <3>3, TurnIs DEF StartBackfill, IdleJob
    <3>4. QED
      BY <1>1, <3>1, <3>2, <3>3
  <2>2. QED
    BY <1>1, <2>1 DEF StartClose, StartReopen, StartBackfill, Inside
<1>2. ASSUME BackfillRead(c) PROVE ~Inside(c)' /\ UNCHANGED <<status, fence>>
  <2>1. job'[c] = [job[c] EXCEPT !.pc = "waiting", !.seen = status[job[c].per],
                     !.op = IF status[job[c].per] = "closed" THEN "restamp" ELSE "close"]
    BY <1>2, TurnIs DEF BackfillRead
  <2>2. job'[c].pc = "waiting"
    BY <1>j, <2>1 DEF Jobs
  <2>3. QED
    BY <1>2, <2>2 DEF BackfillRead, Inside
<1>3. ASSUME TakeFence(c)
      PROVE  /\ UNCHANGED status /\ job'[c].per = job[c].per
             /\ fence' = [fence EXCEPT ![job[c].per] = c]
             /\ fence[job[c].per] = NoOne /\ ~SharedHeld(job[c].per)
  BY <1>3, <1>j, TurnIs DEF TakeFence, Jobs
<1>4. ASSUME Reopen(c) PROVE ~Inside(c)' /\ UNCHANGED fence
                             /\ status' = [status EXCEPT ![job[c].per] = "closing"]
  BY <1>4, <1>c DEF Reopen, Reopened
<1>5. ASSUME RestampReopen(c) \/ Gate(c) \/ Route(c)
      PROVE  job'[c].per = job[c].per /\ Inside(c) /\ UNCHANGED <<status, fence>>
  <2>1. job'[c].per = job[c].per
    BY <1>5, AfterRestamp, AfterGate, AfterRoute
  <2>2. QED
    BY <1>5, <2>1 DEF RestampReopen, Gate, Route, Inside
<1>6. ASSUME NEW o \in Obligations, Publish(c, o)
      PROVE  job'[c].per = job[c].per /\ Inside(c) /\ UNCHANGED <<status, fence>>
  <2>1. job'[c].per = job[c].per
    BY <1>6, AfterPublish
  <2>2. QED
    BY <1>6, <2>1 DEF Publish, Inside
<1>7. ASSUME FinishPublish(c)
      PROVE  /\ Inside(c) /\ UNCHANGED fence
             /\ Inside(c)' => job'[c].per = job[c].per
             /\ status' = status \/ status' = [status EXCEPT ![job[c].per] = "closing"]
  <2>1. ~Inside(c)' \/ job'[c].per = job[c].per
    <3>1. CASE Committed(c)
      BY <3>1, <1>c
    <3>2. CASE Turn(c, [job[c] EXCEPT !.pc = "published", !.sent = {}, !.reopened = FALSE,
                                     !.through = Unread])
      BY <3>2, <1>j, TurnIs DEF Jobs
    <3>3. QED
      BY <1>7, <3>1, <3>2 DEF FinishPublish
  <2>2. QED
    BY <1>7, <2>1 DEF FinishPublish, Reopened, Inside
<1>8. ASSUME Finish(c)
      PROVE  Inside(c) /\ ~Inside(c)' /\ UNCHANGED fence
             /\ status' = [status EXCEPT ![job[c].per] = "closed"]
  BY <1>8, <1>c DEF Finish, Inside
<1>9. ASSUME Release(c) \/ Abort(c)
      PROVE  /\ UNCHANGED status /\ ~Inside(c)'
             /\ fence' = [p \in Periods |-> IF fence[p] = c THEN NoOne ELSE fence[p]]
  BY <1>9, TurnIs DEF Release, Abort, LetGo, Inside, IdleJob
<1>f. Inside(c) => fence[job[c].per] = c
  BY DEF FenceInv
<1>10. CASE TakeFence(c)
  BY <1>3, <1>10, <1>s, <1>j
<1>11. CASE Finish(c)
  BY <1>8, <1>11, <1>s, <1>j, <1>f
<1>12. CASE Release(c) \/ Abort(c)
  BY <1>9, <1>12, <1>s
<1>13. CASE FinishPublish(c) \/ Reopen(c)
  BY <1>4, <1>7, <1>13, <1>s, <1>j, <1>f
<1>14. CASE RestampReopen(c) \/ Gate(c) \/ Route(c) \/ \E o \in Obligations : Publish(c, o)
  BY <1>5, <1>6, <1>14, <1>f
<1>15. CASE BackfillRead(c) \/ \E p \in Periods : StartClose(c, p) \/ StartReopen(c, p) \/ StartBackfill(c, p)
  BY <1>1, <1>2, <1>15
<1>16. QED
  BY <1>10, <1>11, <1>12, <1>13, <1>14, <1>15 DEF CloserStep

LEMMA FenceStep == BaseInv /\ FenceInv /\ [Next]_vars => FenceInv'
<1> SUFFICES ASSUME BaseInv, FenceInv, [Next]_vars PROVE FenceInv'
  OBVIOUS
<1>t. /\ status \in [Periods -> {"open", "closing", "closed"}]
      /\ fence \in [Periods -> Closers \cup {NoOne}]
      /\ task \in [Writers -> Tasks] /\ job \in [Closers -> Jobs]
      /\ \A w \in Writers : task[w].got \subseteq Periods
      /\ \A d \in Closers : job[d].per \in Periods
  BY DEF BaseInv, TypeOK, Tasks, Jobs
<1>1. ASSUME NEW c \in Closers, CloserStep(c) PROVE FenceInv'
  <2>1. task' = task /\ \A d \in Closers \ {c} : job'[d] = job[d]
    BY <1>1, CloserFrame DEF BaseInv
  <2>2. /\ Inside(c)' => fence'[job'[c].per] = c
        /\ \A p \in Periods : status[p] # "closed" /\ status'[p] = "closed" => fence[p] = c
        /\ \A p \in Periods : \/ fence'[p] = fence[p]
                              \/ fence[p] = NoOne /\ ~SharedHeld(p) /\ fence'[p] = c
                              \/ fence[p] = c /\ fence'[p] = NoOne
    BY <1>1, CloserFence
  <2>3. ASSUME NEW d \in Closers, Inside(d)' PROVE fence'[job'[d].per] = d
    <3>1. CASE d = c
      BY <2>2, <2>3, <3>1
    <3>2. CASE d # c
      <4>1. fence[job[d].per] = d /\ job'[d].per = job[d].per
        BY <2>1, <2>3, <3>2 DEF FenceInv, Inside
      <4>2. QED
        BY <1>t, <2>2, <3>2, <4>1, Constants
    <3>3. QED
      BY <3>1, <3>2
  <2>4. ASSUME NEW w \in Writers, NEW m \in task'[w].got
        PROVE  fence'[m] = NoOne /\ status'[m] # "closed"
    <3>1. fence[m] = NoOne /\ status[m] # "closed" /\ m \in Periods /\ m \in task[w].got
      BY <1>t, <2>1, <2>4 DEF FenceInv
    <3>2. SharedHeld(m)
      BY <3>1 DEF SharedHeld
    <3>3. QED
      BY <2>2, <3>1, <3>2, Constants
  <2>5. QED
    BY <2>3, <2>4 DEF FenceInv
<1>2. ASSUME NEW w \in Writers, WriterStep(w) PROVE FenceInv'
  <2>1. UNCHANGED <<status, fence, job>>
    BY <1>2, WriterFrame
  <2>2. ASSUME NEW t, Move(w, t) PROVE \A v \in Writers : task'[v] = IF v = w THEN t ELSE task[v]
    BY <1>t, <2>2 DEF Move
  <2>3. ASSUME NEW v \in Writers, NEW m \in task'[v].got
        PROVE  m \in task[v].got \/ (fence[m] = NoOne /\ status[m] # "closed")
    <3>1. CASE \E o \in {"create", "edit", "delete", "reverse", "void", "promote",
                        "approve", "classify", "execute"}, e \in Entries, n \in Periods :
                 StartWrite(w, o, e, n)
      BY <2>2, <2>3, <3>1 DEF StartWrite
    <3>2. CASE \E n \in Periods : TakeShared(w, n)
      BY <1>t, <2>2, <2>3, <3>2 DEF TakeShared, Tasks
    <3>3. CASE ExecuteSend(w)
      BY <1>t, <2>2, <2>3, <3>3 DEF ExecuteSend, Tasks
    <3>4. CASE WriterCommits(w) \/ ExecuteCommit(w) \/ ExecuteRejected(w) \/ WriterAborts(w)
      <4>1. Done(w)
        BY <3>4 DEF WriterCommits, WriterAborts, ExecuteCommit, ExecuteRejected
      <4>2. QED
        BY <2>2, <2>3, <4>1 DEF Done, IdleTask
    <3>5. QED
      BY <1>2, <3>1, <3>2, <3>3, <3>4 DEF WriterStep
  <2>4. QED
    BY <2>1, <2>3 DEF FenceInv, Inside
<1>3. CASE UNCHANGED vars
  BY <1>3 DEF FenceInv, Inside, vars
<1>4. QED
  BY <1>1, <1>2, <1>3 DEF Next

-----------------------------------------------------------------------------
(* What a writer may do to a row *)

(* To an entry: draft it, move it within the months it holds, delete its      *)
(* draft, post a new one, reverse it, or post what QuickBooks took.           *)
EntryMove(w, e) ==
  \/ entry'[e] = entry[e]
  \/ /\ entry'[e].st = "draft" /\ entry'[e].per \in task[w].got
     /\ \/ entry[e].st = "none"
        \/ /\ entry[e].st = "draft" /\ entry[e].per \in task[w].got
           /\ e \in Movable \/ entry'[e].per = entry[e].per
     /\ e \in Obligations => entry'[e].per = DueMonth[e]
  \/ /\ entry[e].st = "draft" /\ entry[e].per \in task[w].got
     /\ entry'[e].st = "deleted"
     /\ e \in Obligations => EventFree(e)
  \/ entry[e].st = "none" /\ entry'[e].st = "posted" /\ entry'[e].per \in task[w].got /\ e \in Locals
  \/ /\ entry[e].st = "posted" /\ entry'[e].st = "reversed" /\ entry'[e].per = entry[e].per
     /\ task[w].pc # "idle" /\ task[w].op = "reverse" /\ task[w].e = e
     /\ task[w].peek \in task[w].got
  \/ /\ entry'[e].st = "posted" /\ entry'[e].per = entry[e].per
     /\ e \in Obligations /\ DueMonth[e] \in task[w].got
     /\ Exists(e) /\ event'[e].marked

(* To an event: classify it, retract it while nothing of it has landed, or   *)
(* in its month promote it, approve it or take QuickBooks's answer.          *)
EventMove(w, o) ==
  \/ event'[o] = event[o]
  \/ event[o].st = "pending" /\ event'[o] = [event[o] EXCEPT !.st = "classified"]
  \/ /\ event'[o] = [event[o] EXCEPT !.st = "voided"]
     /\ EventFree(o) /\ ~event[o].marked
     /\ entry[o].st \notin {"posted", "reversed"}
  \/ /\ DueMonth[o] \in task[w].got /\ event[o].st # "voided"
     /\ \/ event'[o] = [event[o] EXCEPT !.st = "classified"] /\ entry'[o].st # "none"
        \/ event'[o] = [event[o] EXCEPT !.st = "committed"]
        \/ event'[o] = [event[o] EXCEPT !.st = "pending"]
        \/ event'[o] = [st |-> "fulfilled", marked |-> TRUE] /\ o \in qb

LEMMA WriterRows ==
  ASSUME BaseInv, RowInv, SendInv, EditInv, NEW w \in Writers, WriterStep(w)
  PROVE  /\ \A e \in Entries : EntryMove(w, e)
         /\ \A o \in Obligations : EventMove(w, o)
         /\ qb \subseteq qb'
<1>t. /\ entry \in [Entries -> EntryStates] /\ event \in [Obligations -> EventStates]
      /\ Obligations \subseteq Entries /\ Locals \subseteq Entries
      /\ \A o \in Obligations : event[o] \in EventStates
  BY Constants DEF BaseInv, TypeOK
<1>a. task[w].pc # "idle" =>
        /\ task[w].e \in Entries
        /\ task[w].op = "create" => task[w].e \in Locals
        /\ task[w].op \in {"void", "promote", "approve", "classify", "execute"}
             => task[w].e \in Obligations
        /\ task[w].pc = "sent" => task[w].op = "execute"
  BY DEF BaseInv, AskedInv
<1>d. \A o \in Obligations : entry[o].st = "draft" => entry[o].per = DueMonth[o]
  BY DEF RowInv, Exists
<1>1. CASE UNCHANGED <<entry, event, qb>>
  BY <1>1 DEF EntryMove, EventMove
<1>2. ASSUME NEW s \in {"draft", "posted"}, CreateEntry(w, s), UNCHANGED qb
      PROVE  /\ \A e \in Entries : EntryMove(w, e)
             /\ \A o \in Obligations : EventMove(w, o)
             /\ qb \subseteq qb'
  <2>1. task[w].e \in Locals /\ task[w].to \in task[w].got
    BY <1>2, <1>a DEF CreateEntry, Ready, Need
  <2>2. task[w].e \notin Obligations
    BY <2>1, Constants
  <2>3. QED
    BY <1>2, <1>t, <2>1, <2>2 DEF CreateEntry, Put, EntryMove, EventMove
<1>3. ASSUME NEW v \in 0 .. MaxVer, UpdateEntry(w, v), UNCHANGED qb
      PROVE  /\ \A e \in Entries : EntryMove(w, e)
             /\ \A o \in Obligations : EventMove(w, o)
             /\ qb \subseteq qb'
  <2>1. task[w].to \in task[w].got /\ task[w].peek \in task[w].got /\ task[w].e \in Entries
    BY <1>3, <1>a DEF UpdateEntry, Ready, Need
  <2>2. task[w].e \in Obligations => task[w].to = DueMonth[task[w].e]
    BY <1>3, <1>d, Constants DEF UpdateEntry, Ready, EditInv
  <2>3. task[w].e \in Movable \/ task[w].to = entry[task[w].e].per
    BY <1>3 DEF UpdateEntry, Ready, EditInv
  <2>4. QED
    BY <1>3, <1>t, <2>1, <2>2, <2>3 DEF UpdateEntry, Put, EntryMove, EventMove
<1>4. ASSUME DeleteEntry(w), UNCHANGED qb
      PROVE  /\ \A e \in Entries : EntryMove(w, e)
             /\ \A o \in Obligations : EventMove(w, o)
             /\ qb \subseteq qb'
  <2>1. task[w].peek \in task[w].got /\ task[w].e \in Entries
    BY <1>4, <1>a DEF DeleteEntry, Ready, Need
  <2>2. entry' = [entry EXCEPT ![task[w].e] = [NoEntry EXCEPT !.st = "deleted"]]
    BY <1>4 DEF DeleteEntry, Put
  <2>3. [NoEntry EXCEPT !.st = "deleted"].st = "deleted"
    BY DEF NoEntry
  <2>4. QED
    BY <1>4, <1>t, <2>1, <2>2, <2>3 DEF DeleteEntry, EntryMove, EventMove, RowFree
<1>5. ASSUME NEW f \in Locals, ReverseEntry(w, f), UNCHANGED qb
      PROVE  /\ \A e \in Entries : EntryMove(w, e)
             /\ \A o \in Obligations : EventMove(w, o)
             /\ qb \subseteq qb'
  <2>1. /\ task[w].peek \in task[w].got /\ task[w].to \in task[w].got /\ task[w].e \in Entries
        /\ task[w].pc # "idle" /\ task[w].op = "reverse" /\ entry[task[w].e].st = "posted"
        /\ entry[f].st = "none" /\ f # task[w].e
    BY <1>5, <1>a DEF ReverseEntry, Ready, Need
  <2>2. /\ entry'[f] = [st |-> "posted", per |-> task[w].to, ver |-> 0]
        /\ entry'[task[w].e] = [entry[task[w].e] EXCEPT !.st = "reversed"]
        /\ \A e \in Entries \ {f, task[w].e} : entry'[e] = entry[e]
    BY <1>5, <1>t, <2>1 DEF ReverseEntry
  <2>3. entry'[task[w].e].st = "reversed" /\ entry'[task[w].e].per = entry[task[w].e].per
    BY <1>t, <2>1, <2>2 DEF EntryStates
  <2>4. ASSUME NEW e \in Entries PROVE EntryMove(w, e)
    <3>1. CASE e = f
      BY <2>1, <2>2, <3>1 DEF EntryMove
    <3>2. CASE e = task[w].e
      BY <2>1, <2>3, <3>2 DEF EntryMove
    <3>3. CASE e \notin {f, task[w].e}
      BY <2>2, <3>3 DEF EntryMove
    <3>4. QED
      BY <3>1, <3>2, <3>3
  <2>5. QED
    BY <1>5, <2>4 DEF ReverseEntry, EventMove
<1>6. ASSUME VoidEvent(w), UNCHANGED qb
      PROVE  /\ \A e \in Entries : EntryMove(w, e)
             /\ \A o \in Obligations : EventMove(w, o)
             /\ qb \subseteq qb'
  <2>1. task[w].e \in Obligations
    BY <1>6, <1>a DEF VoidEvent, Ready
  <2>2. QED
    BY <1>6, <1>t, <2>1 DEF VoidEvent, EntryMove, EventMove
<1>7. ASSUME Classify(w), UNCHANGED qb
      PROVE  /\ \A e \in Entries : EntryMove(w, e)
             /\ \A o \in Obligations : EventMove(w, o)
             /\ qb \subseteq qb'
  <2>1. task[w].e \in Obligations
    BY <1>7, <1>a DEF Classify, Ready
  <2>2. QED
    BY <1>7, <1>t, <2>1 DEF Classify, EntryMove, EventMove
<1>8. ASSUME Promote(w) \/ Approve(w), UNCHANGED qb
      PROVE  /\ \A e \in Entries : EntryMove(w, e)
             /\ \A o \in Obligations : EventMove(w, o)
             /\ qb \subseteq qb'
  <2> DEFINE o == task[w].e
  <2>1. o \in Obligations /\ DueMonth[o] \in task[w].got /\ DraftFor(o)
    BY <1>8, <1>a DEF Promote, Approve, Ready, Need
  <2>2. /\ entry[o].st \in {"none", "draft"} =>
             entry' = [entry EXCEPT ![o] = [st |-> "draft", per |-> DueMonth[o], ver |-> 0]]
        /\ entry[o].st \notin {"none", "draft"} => entry' = entry
    BY <2>1 DEF DraftFor, Put
  <2>3. \A e \in Entries : EntryMove(w, e)
    BY <1>d, <1>t, <2>1, <2>2 DEF EntryMove
  <2>4. entry'[o].st # "none"
    BY <1>t, <2>1, <2>2
  <2>5. \/ event' = [event EXCEPT ![o].st = "classified"]
        \/ event' = [event EXCEPT ![o].st = "committed"]
    BY <1>8 DEF Promote, Approve
  <2>6. event[o].st # "voided"
    BY <1>8 DEF Promote, Approve, Stranded
  <2> HIDE DEF o
  <2>7. ASSUME NEW x \in Obligations PROVE EventMove(w, x)
    BY <1>t, <2>1, <2>4, <2>5, <2>6 DEF EventMove
  <2>8. QED
    BY <1>8, <2>3, <2>7
<1>9. ASSUME ExecuteCommit(w)
      PROVE  /\ \A e \in Entries : EntryMove(w, e)
             /\ \A o \in Obligations : EventMove(w, o)
             /\ qb \subseteq qb'
  <2> DEFINE o == task[w].e
  <2>1. /\ o \in Obligations /\ DueMonth[o] \in task[w].got
        /\ Exists(o) /\ o \in qb /\ event[o].st # "voided"
    BY <1>9, <1>a DEF ExecuteCommit, SendInv
  <2>2. /\ event' = [event EXCEPT ![o] = [st |-> "fulfilled", marked |-> TRUE]]
        /\ entry' = [entry EXCEPT ![o].st = "posted"] /\ qb' = qb
    BY <1>9 DEF ExecuteCommit
  <2>3. /\ entry'[o].st = "posted" /\ entry'[o].per = entry[o].per
        /\ event'[o] = [st |-> "fulfilled", marked |-> TRUE]
    BY <1>t, <2>1, <2>2 DEF EntryStates
  <2> HIDE DEF o
  <2>4. ASSUME NEW e \in Entries PROVE EntryMove(w, e)
    BY <1>t, <2>1, <2>2, <2>3 DEF EntryMove
  <2>5. ASSUME NEW x \in Obligations PROVE EventMove(w, x)
    BY <1>t, <2>1, <2>2, <2>3 DEF EventMove
  <2>6. QED
    BY <2>2, <2>4, <2>5
<1>10. ASSUME ExecuteRejected(w)
      PROVE  /\ \A e \in Entries : EntryMove(w, e)
             /\ \A o \in Obligations : EventMove(w, o)
             /\ qb \subseteq qb'
  <2>1. /\ task[w].e \in Obligations /\ DueMonth[task[w].e] \in task[w].got
        /\ event[task[w].e].st # "voided"
    BY <1>10, <1>a DEF ExecuteRejected, SendInv, Ready, Need, Publishable
  <2>2. QED
    BY <1>10, <1>t, <2>1 DEF ExecuteRejected, EntryMove, EventMove
<1>11. CASE ExecuteSend(w)
  BY <1>11 DEF ExecuteSend, EntryMove, EventMove, ledgerVars
<1>12. CASE WriterAborts(w)
  BY <1>1, <1>12 DEF WriterAborts, ledgerVars
<1>13. CASE WriterCommits(w)
  BY <1>2, <1>3, <1>4, <1>5, <1>6, <1>7, <1>8, <1>13 DEF WriterCommits
<1>14. CASE \/ \E m \in Periods : TakeShared(w, m)
            \/ \E o \in {"create", "edit", "delete", "reverse", "void", "promote",
                        "approve", "classify", "execute"}, e \in Entries, m \in Periods :
                 StartWrite(w, o, e, m)
  BY <1>1, <1>14 DEF StartWrite, TakeShared, ledgerVars
<1>15. QED
  BY <1>9, <1>10, <1>11, <1>12, <1>13, <1>14 DEF WriterStep

-----------------------------------------------------------------------------
(* What a closer does to the rows, and what others leave of a held month     *)

LEMMA CloserRows ==
  ASSUME NEW c \in Closers, CloserStep(c)
  PROVE  /\ qb \subseteq qb'
         /\ \/ UNCHANGED <<status, sets, unsettled, entry, event>>
            \/ /\ Reopen(c) /\ UNCHANGED <<entry, event>>
               /\ status' = [status EXCEPT ![job[c].per] = "closing"]
               /\ sets' = [sets EXCEPT ![job[c].per] = {}]
               /\ unsettled' = (unsettled \ {job[c].per}) \cup LaterClosed(job[c].per)
            \/ FinishPublish(c)
            \/ Finish(c)
<1>1. CASE \/ BackfillRead(c) \/ TakeFence(c) \/ RestampReopen(c) \/ Gate(c) \/ Route(c)
           \/ Release(c) \/ Abort(c)
           \/ \E p \in Periods : StartClose(c, p) \/ StartReopen(c, p) \/ StartBackfill(c, p)
  BY <1>1 DEF StartClose, StartReopen, StartBackfill, BackfillRead, TakeFence, RestampReopen,
              Gate, Route, Release, Abort, LetGo, calendar, ledgerVars
<1>2. CASE \E o \in Obligations : Publish(c, o)
  BY <1>2 DEF Publish, PublishAccepted, PublishRejected, PublishRaised, calendar, ledgerVars
<1>3. CASE Reopen(c)
  BY <1>3 DEF Reopen, Reopened, ledgerVars
<1>4. CASE FinishPublish(c)
  BY <1>4 DEF FinishPublish
<1>5. CASE Finish(c)
  BY <1>5 DEF Finish
<1>6. QED
  BY <1>1, <1>2, <1>3, <1>4, <1>5 DEF CloserStep

(* The rows a publish commits and the rows a close posts are drafts of the   *)
(* closer's own month.                                                       *)
LEMMA FinishPublishRows ==
  ASSUME Inv, NEW c \in Closers, FinishPublish(c)
  PROVE  /\ job[c].per \in Periods
         /\ \A e \in Entries :
              \/ entry'[e] = entry[e]
              \/ /\ e \in job[c].sent /\ entry[e].st = "draft" /\ entry[e].per = job[c].per
                 /\ entry'[e].st = "posted" /\ entry'[e].per = job[c].per
         /\ \A o \in Obligations :
              \/ event'[o] = event[o] /\ o \notin job[c].sent
              \/ /\ o \in job[c].sent \cup job[c].rejected
                 /\ DueMonth[o] = job[c].per /\ event[o].st # "voided"
                 /\ \/ event'[o] = [st |-> "fulfilled", marked |-> TRUE] /\ o \in qb
                    \/ event'[o] = [event[o] EXCEPT !.st = "pending"] /\ o \notin job[c].sent
         /\ \/ UNCHANGED <<status, sets, unsettled>> /\ status[job[c].per] # "closed"
            \/ /\ status[job[c].per] = "closed"
               /\ status' = [status EXCEPT ![job[c].per] = "closing"]
               /\ sets' = [sets EXCEPT ![job[c].per] = {}]
               /\ unsettled' = (unsettled \ {job[c].per}) \cup LaterClosed(job[c].per)
         /\ qb' = qb
<1>j. job[c] \in Jobs /\ job[c].per \in Periods
  BY JobTyped DEF Inv, BaseInv
<1>1. BatchInv(c)
  BY DEF Inv, CloserInv
<1>2. \A o \in job[c].sent \cup job[c].rejected :
        /\ o \in Obligations /\ o \in Entries /\ entry[o].st = "draft" /\ entry[o].per = job[c].per
        /\ DueMonth[o] = job[c].per /\ event[o].st # "voided"
  BY <1>1, <1>j, Constants DEF BatchInv, Batch, Drafts, Jobs, Inv, RowInv, Exists, Retracted
<1>3. \A o \in job[c].sent : o \in qb
  BY <1>1 DEF BatchInv
<1>4. \A e \in Entries :
        IF e \in job[c].sent THEN entry'[e].st = "posted" /\ entry'[e].per = entry[e].per
        ELSE entry'[e] = entry[e]
  BY DEF FinishPublish, Inv, BaseInv, TypeOK, EntryStates
<1>5. \A o \in Obligations :
        event'[o] = IF o \in job[c].sent THEN [st |-> "fulfilled", marked |-> TRUE]
                    ELSE IF o \in job[c].rejected THEN [event[o] EXCEPT !.st = "pending"]
                    ELSE event[o]
  BY DEF FinishPublish
<1>6. \/ UNCHANGED <<status, sets, unsettled>> /\ status[job[c].per] # "closed"
      \/ /\ status[job[c].per] = "closed"
         /\ status' = [status EXCEPT ![job[c].per] = "closing"]
         /\ sets' = [sets EXCEPT ![job[c].per] = {}]
         /\ unsettled' = (unsettled \ {job[c].per}) \cup LaterClosed(job[c].per)
  BY <1>1 DEF FinishPublish, BatchInv, Reopened, calendar
<1>7. QED
  BY <1>j, <1>2, <1>3, <1>4, <1>5, <1>6 DEF FinishPublish

LEMMA FinishRows ==
  ASSUME Inv, NEW c \in Closers, Finish(c)
  PROVE  /\ job[c].per \in Periods
         /\ \A e \in Entries :
              \/ entry'[e] = entry[e] /\ e \notin job[c].posts
              \/ /\ e \in job[c].posts /\ entry[e].st = "draft" /\ entry[e].per = job[c].per
                 /\ entry'[e].st = "posted" /\ entry'[e].per = job[c].per
         /\ status' = [status EXCEPT ![job[c].per] = "closed"]
         /\ Stamped(job[c].per, entry')
         /\ UNCHANGED <<event, qb>>
<1>j. job[c] \in Jobs /\ job[c].per \in Periods
  BY JobTyped DEF Inv, BaseInv
<1>1. RouteInv(c)
  BY DEF Inv, CloserInv
<1>2. \A e \in job[c].posts : entry[e].st = "draft" /\ entry[e].per = job[c].per
  BY <1>1 DEF RouteInv, Drafts
<1>3. \A e \in Entries :
        IF e \in job[c].posts THEN entry'[e].st = "posted" /\ entry'[e].per = entry[e].per
        ELSE entry'[e] = entry[e]
  BY DEF Finish, Inv, BaseInv, TypeOK, EntryStates
<1>4. QED
  BY <1>j, <1>2, <1>3 DEF Finish

(* Nothing another process does touches the drafts of a month it is not in,  *)
(* its status, or what a close has established about its obligations.        *)
HeldStays(p) ==
  /\ status'[p] = status[p]
  /\ \A e \in Entries : (entry'[e].st = "draft" /\ entry'[e].per = p)
                          <=> (entry[e].st = "draft" /\ entry[e].per = p)
  /\ \A o \in Obligations : DueMonth[o] = p =>
       /\ event'[o].marked = event[o].marked
       /\ event[o].st = "voided" => event'[o].st = "voided"
       /\ event'[o].st = "pending" => event[o].st = "pending"
       /\ event'[o].st = "classified" /\ entry'[o].st = "none" =>
            event[o].st \in {"pending", "classified"} /\ entry[o].st = "none"

LEMMA WriterHeld ==
  ASSUME Inv, NEW w \in Writers, WriterStep(w), NEW p \in Periods, p \notin task[w].got
  PROVE  HeldStays(p)
<1>1. /\ \A e \in Entries : EntryMove(w, e)
      /\ \A o \in Obligations : EventMove(w, o)
  BY WriterRows DEF Inv
<1>2. p \notin task[w].got /\ status' = status
  BY WriterFrame DEF Inv, FenceInv
<1>3. /\ \A e \in Entries : entry[e] \in EntryStates
      /\ \A o \in Obligations : event[o] \in EventStates /\ o \in Entries
      /\ \A o \in Obligations : Exists(o) => entry[o].per = DueMonth[o]
  BY Constants DEF Inv, BaseInv, TypeOK, RowInv
<1>4. ASSUME NEW e \in Entries
      PROVE  (entry'[e].st = "draft" /\ entry'[e].per = p)
               <=> (entry[e].st = "draft" /\ entry[e].per = p)
  BY <1>1, <1>2, <1>3 DEF EntryMove, Exists, EntryStates
<1>5. ASSUME NEW o \in Obligations, DueMonth[o] = p
      PROVE  /\ event'[o].marked = event[o].marked
             /\ event[o].st = "voided" => event'[o].st = "voided"
             /\ event'[o].st = "pending" => event[o].st = "pending"
             /\ event'[o].st = "classified" /\ entry'[o].st = "none" =>
                  event[o].st \in {"pending", "classified"} /\ entry[o].st = "none"
  <2>1. entry'[o].st = "none" => entry[o].st = "none"
    BY <1>1, <1>3 DEF EntryMove, EntryStates
  <2>2. \/ event'[o] = event[o]
        \/ event[o].st = "pending" /\ event'[o] = [event[o] EXCEPT !.st = "classified"]
        \/ event'[o] = [event[o] EXCEPT !.st = "voided"]
    BY <1>1, <1>2, <1>5 DEF EventMove
  <2>3. event[o] \in EventStates
    BY <1>3
  <2>4. QED
    BY <2>1, <2>2, <2>3 DEF EventStates
<1>6. QED
  BY <1>2, <1>4, <1>5 DEF HeldStays

LEMMA CloserHeld ==
  ASSUME Inv, NEW c \in Closers, CloserStep(c), NEW p \in Periods, p # job[c].per
  PROVE  HeldStays(p) /\ \A o \in Obligations : DueMonth[o] = p => event'[o] = event[o]
<1>1. CASE UNCHANGED <<status, sets, unsettled, entry, event>>
  BY <1>1 DEF HeldStays
<1>2. CASE /\ UNCHANGED <<entry, event>>
           /\ status' = [status EXCEPT ![job[c].per] = "closing"]
  BY <1>2 DEF HeldStays, Inv, BaseInv, TypeOK
<1>t. /\ \A e \in Entries : entry[e] \in EntryStates
      /\ status \in [Periods -> {"open", "closing", "closed"}]
      /\ Obligations \subseteq Entries
  BY Constants DEF Inv, BaseInv, TypeOK
<1>3. CASE FinishPublish(c)
  <2>1. \A o \in Obligations : DueMonth[o] = p => event'[o] = event[o] /\ entry'[o].st = entry[o].st
    BY <1>3, <1>t, FinishPublishRows DEF Inv, CloserInv, BatchInv, Batch
  <2>2. \A e \in Entries : (entry'[e].st = "draft" /\ entry'[e].per = p)
                             <=> (entry[e].st = "draft" /\ entry[e].per = p)
    BY <1>3, <1>t, FinishPublishRows
  <2>3. status'[p] = status[p]
    BY <1>3, <1>t, FinishPublishRows
  <2>4. QED
    BY <2>1, <2>2, <2>3 DEF HeldStays
<1>4. CASE Finish(c)
  <2>1. event' = event
    BY <1>4 DEF Finish
  <2>2. \A e \in Entries : /\ (entry'[e].st = "draft" /\ entry'[e].per = p)
                                <=> (entry[e].st = "draft" /\ entry[e].per = p)
                           /\ entry'[e].st = "none" => entry[e].st = "none"
    BY <1>4, <1>t, FinishRows
  <2>3. status'[p] = status[p]
    BY <1>4, <1>t, FinishRows
  <2>4. QED
    BY <1>t, <2>1, <2>2, <2>3 DEF HeldStays
<1>5. QED
  BY <1>1, <1>2, <1>3, <1>4, CloserRows

-----------------------------------------------------------------------------
(* The invariant is inductive *)

(* A closer that did not step keeps its part of it.                          *)
LEMMA JobStays ==
  ASSUME Inv, BaseInv', NEW c \in Closers, job'[c] = job[c], qb \subseteq qb',
         Inside(c) => HeldStays(job[c].per),
         \A o \in job[c].sent \cup job[c].rejected : event'[o].st # "voided"
  PROVE  (BatchInv(c) /\ GateInv(c) /\ PublishInv(c) /\ RouteInv(c))'
<1>j. job[c] \in Jobs /\ job[c].per \in Periods /\ Obligations \subseteq Entries
  BY JobTyped, Constants DEF Inv, BaseInv
<1>b. BatchInv(c) /\ GateInv(c) /\ PublishInv(c) /\ RouteInv(c)
  BY DEF Inv, CloserInv
<1>e. \A o \in Obligations : o \in Drafts(job[c].per) => DueMonth[o] = job[c].per
  BY DEF Inv, RowInv, Exists, Drafts
<1>1. CASE ~Inside(c)
  <2>1. Batch(c) = {} /\ job[c].posts = {} /\ ~job[c].reopened
    BY <1>b, <1>1 DEF BatchInv, RouteInv, Inside
  <2>2. Batch(c)' = {} /\ ~Inside(c)'
    BY <1>1, <2>1 DEF Batch, Inside
  <2>3. BatchInv(c)'
    BY <1>1, <2>1, <2>2 DEF BatchInv, Batch, Inside
  <2>4. GateInv(c)' /\ PublishInv(c)' /\ RouteInv(c)'
    BY <1>1, <2>1 DEF GateInv, PublishInv, RouteInv, Inside
  <2>5. QED
    BY <2>3, <2>4
<1>2. CASE Inside(c)
  <2>1. HeldStays(job[c].per)
    BY <1>2
  <2>2. Drafts(job[c].per)' = Drafts(job[c].per)
    BY <2>1 DEF HeldStays, Drafts
  <2>3. status'[job[c].per] = status[job[c].per] /\ Batch(c)' = Batch(c) /\ Inside(c)'
    BY <1>2, <2>1 DEF HeldStays, Batch, Inside
  <2>4. BatchInv(c)'
    <3>1. \A o \in (job[c].sent \cup job[c].rejected)' : ~Retracted(o)'
      BY DEF Retracted
    <3>2. QED
      BY <1>b, <2>2, <2>3, <3>1 DEF BatchInv, Inside
  <2>5. GateInv(c)'
    BY <1>b, <2>1 DEF GateInv, HeldStays, Stranded
  <2>m. \A o \in Obligations : o \in Drafts(job[c].per) =>
          /\ event'[o].marked = event[o].marked
          /\ event[o].st = "voided" => event'[o].st = "voided"
    BY <1>e, <2>1 DEF HeldStays
  <2>6. Unsent(c)' \subseteq Unsent(c)
    BY <2>2, <2>m DEF Unsent, Retracted
  <2>7. PublishInv(c)'
    BY <1>b, <2>3, <2>6 DEF PublishInv
  <2>8. \A e \in Drafts(job[c].per) : Retracted(e) => Retracted(e)'
    BY <2>m DEF Retracted
  <2>9. \A o \in job[c].posts \cap Obligations : event[o].marked => event'[o].marked
    BY <1>b, <2>m DEF RouteInv
  <2>10. RouteInv(c)'
    BY <1>b, <2>2, <2>3, <2>8, <2>9 DEF RouteInv
  <2>11. QED
    BY <2>4, <2>5, <2>7, <2>10
<1>3. QED
  BY <1>1, <1>2

(* A closer's own step: what it has just decided, it decided on these rows.  *)
LEMMA JobSteps ==
  ASSUME Inv, NEW c \in Closers, CloserStep(c)
  PROVE  (BatchInv(c) /\ GateInv(c) /\ PublishInv(c) /\ RouteInv(c))'
<1>t. TypeOK
  BY DEF Inv, BaseInv
<1>j. job[c] \in Jobs /\ job[c].per \in Periods /\ Obligations \subseteq Entries
  BY <1>t, JobTyped, Constants
<1>b. BatchInv(c) /\ GateInv(c) /\ PublishInv(c) /\ RouteInv(c)
  BY DEF Inv, CloserInv
<1>d. status[job[c].per] = "closed" => \A e \in Drafts(job[c].per) : Retracted(e)
  BY <1>j DEF Inv, LedgerInv, NoDraftLeftInClosed
<1>w. Writeback \in BOOLEAN
  BY Constants
<1>1. ASSUME job'[c].pc \in {"idle", "counted", "waiting", "fenced", "committed"},
             job'[c].todo = {}, job'[c].sent = {}, job'[c].rejected = {},
             job'[c].posts = {},
             job'[c].reopened => Inside(c)' /\ status'[job'[c].per] = "closed"
      PROVE  (BatchInv(c) /\ GateInv(c) /\ PublishInv(c) /\ RouteInv(c))'
  BY <1>1 DEF BatchInv, GateInv, PublishInv, RouteInv, Batch
<1>2. CASE \/ \E p \in Periods : StartClose(c, p) \/ StartReopen(c, p) \/ StartBackfill(c, p)
           \/ Reopen(c) \/ Finish(c) \/ Release(c) \/ Abort(c)
  BY <1>t, <1>1, <1>2, AfterStart
<1>e. ASSUME job[c].pc \in {"counted", "waiting", "fenced"}
      PROVE  /\ job[c].todo = {} /\ job[c].sent = {} /\ job[c].rejected = {}
             /\ job[c].posts = {}
             /\ job[c].pc # "fenced" => ~job[c].reopened
  BY <1>b, <1>e DEF BatchInv, RouteInv, Batch, Inside
<1>3. CASE BackfillRead(c) \/ TakeFence(c)
  <2>1. job[c].pc \in {"counted", "waiting"} /\ job'[c].pc \in {"waiting", "fenced"}
    BY <1>t, <1>3, AfterBackfillRead, AfterTakeFence DEF BackfillRead, TakeFence
  <2>2. QED
    BY <1>t, <1>1, <1>3, <1>e, <2>1, AfterBackfillRead, AfterTakeFence
<1>4. CASE RestampReopen(c)
  <2>1. job[c].pc = "fenced" /\ status'[job[c].per] = "closed"
    BY <1>4 DEF RestampReopen, calendar
  <2>2. job'[c].pc = "fenced" /\ job'[c].per = job[c].per
    BY <1>t, <1>4, <2>1, AfterRestamp
  <2>3. QED
    BY <1>t, <1>1, <1>4, <1>e, <2>1, <2>2, AfterRestamp DEF Inside
<1>5. CASE Gate(c)
  <2>1. UNCHANGED <<status, entry, event, qb>> /\ job[c].pc = "fenced"
    BY <1>5 DEF Gate, calendar, ledgerVars
  <2>2. /\ job'[c].todo = Eligible(job[c].per) /\ job'[c].sent = {} /\ job'[c].rejected = {}
        /\ job'[c].posts = {} /\ job'[c].per = job[c].per /\ job'[c].reopened = job[c].reopened
        /\ job'[c].pc = (IF Eligible(job[c].per) = {} THEN "published" ELSE "publishing")
    BY <1>t, <1>5, <1>e, <2>1, AfterGate
  <2>3. Eligible(job[c].per) \subseteq Drafts(job[c].per)
    BY DEF Eligible
  <2>4. \A o \in Eligible(job[c].per) : ~Retracted(o)
    BY DEF Eligible
  <2>5. Batch(c)' = Eligible(job[c].per) /\ Drafts(job[c].per)' = Drafts(job[c].per)
    BY <2>1, <2>2 DEF Batch, Drafts
  <2>6. BatchInv(c)'
    BY <1>b, <1>d, <2>1, <2>2, <2>3, <2>4, <2>5 DEF BatchInv, Inside
  <2>7. GateInv(c)'
    <3>1. ASSUME NEW o \in Obligations, DueMonth[o] = job[c].per
          PROVE  event[o].st # "pending" /\ ~Stranded(o)
      <4>1. DueMonth[o] <= job[c].per
        BY <1>t, <3>1, JobTyped
      <4>2. QED
        BY <1>5, <4>1 DEF Gate
    <3>2. QED
      BY <2>1, <2>2, <3>1 DEF GateInv, Stranded
  <2>8. PublishInv(c)'
    <3>1. Writeback => Unsent(c)' = Eligible(job[c].per)
      BY <2>1, <2>2, <2>5 DEF Unsent, Eligible, Retracted
    <3>2. QED
      BY <2>2, <2>5, <3>1 DEF PublishInv
  <2>9. RouteInv(c)'
    BY <2>2 DEF RouteInv
  <2>10. QED
    BY <2>6, <2>7, <2>8, <2>9
<1>6. ASSUME NEW o \in Obligations, Publish(c, o)
      PROVE  (BatchInv(c) /\ GateInv(c) /\ PublishInv(c) /\ RouteInv(c))'
  <2>1. /\ UNCHANGED <<status, entry, event>> /\ job[c].pc = "publishing" /\ o \in job[c].todo
        /\ job'[c].pc = "publishing" /\ job'[c].per = job[c].per /\ job'[c].posts = job[c].posts
        /\ job'[c].reopened = job[c].reopened
    BY <1>t, <1>6, AfterPublish DEF Publish, calendar, ledgerVars
  <2>a. /\ job'[c].todo = job[c].todo \ {o}
        /\ \/ /\ ~Retracted(o) /\ event[o].marked /\ qb' = qb
              /\ job'[c].sent = job[c].sent /\ job'[c].rejected = job[c].rejected
              /\ job'[c].failed = job[c].failed
           \/ /\ ~Retracted(o) /\ qb' = qb \cup {o}
              /\ job'[c].sent = job[c].sent \cup {o} /\ job'[c].rejected = job[c].rejected
              /\ job'[c].failed = job[c].failed
           \/ /\ ~Retracted(o) /\ qb \subseteq qb'
              /\ job'[c].sent = job[c].sent /\ job'[c].rejected = job[c].rejected \cup {o}
              /\ job'[c].failed = job[c].failed
           \/ /\ qb' = qb /\ job'[c].failed = TRUE
              /\ job'[c].sent = job[c].sent /\ job'[c].rejected = job[c].rejected
    BY <1>t, <1>6, AfterPublish
  <2>k. Batch(c)' = job'[c].todo \cup job'[c].sent \cup job'[c].rejected
    BY DEF Batch
  <2>2. Batch(c)' \subseteq Batch(c) /\ job'[c].sent \subseteq qb'
    BY <1>b, <2>1, <2>a, <2>k DEF Batch, BatchInv
  <2>3. \A x \in (job[c].sent \cup job[c].rejected)' : ~Retracted(x)
    <3>1. \A x \in job[c].sent \cup job[c].rejected : ~Retracted(x)
      BY <1>b DEF BatchInv
    <3>2. QED
      BY <2>a, <3>1
  <2>4. Drafts(job[c].per)' = Drafts(job[c].per) /\ \A x : Retracted(x)' = Retracted(x)
    BY <2>1 DEF Drafts, Retracted
  <2>5. BatchInv(c)'
    <3>1. Batch(c)' \subseteq Drafts(job[c].per)'
      BY <1>b, <2>2, <2>4 DEF BatchInv
    <3>2. ~job'[c].reopened => status'[job'[c].per] # "closed"
      BY <1>b, <2>1 DEF BatchInv
    <3>3. job'[c].reopened => Inside(c)' /\ status'[job'[c].per] = "closed"
      BY <1>b, <2>1 DEF BatchInv, Inside
    <3>4. QED
      BY <2>1, <2>2, <2>3, <2>4, <3>1, <3>2, <3>3 DEF BatchInv
  <2>6. GateInv(c)'
    BY <1>b, <2>1 DEF GateInv, Stranded
  <2>7. Unsent(c)' = Unsent(c)
    BY <2>1, <2>4 DEF Unsent
  <2>8. \/ job'[c].failed = TRUE
        \/ job'[c].failed = job[c].failed /\ (Batch(c)' = Batch(c)
             \/ (event[o].marked /\ Batch(c) \ {o} \subseteq Batch(c)'))
    BY <2>1, <2>a, <2>k DEF Batch
  <2>9. PublishInv(c)'
    BY <1>b, <2>1, <2>7, <2>8 DEF PublishInv, Unsent
  <2>10. RouteInv(c)'
    BY <1>b, <2>1, <2>4 DEF RouteInv
  <2>11. QED
    BY <2>5, <2>6, <2>9, <2>10
<1>7. CASE FinishPublish(c)
  <2>1. CASE job'[c] = [IdleJob EXCEPT !.pc = "committed"]
    BY <1>1, <2>1 DEF IdleJob
  <2>2. CASE /\ job[c].rejected = {} /\ job[c].failed = FALSE
             /\ job'[c].pc = "published" /\ job'[c].sent = {} /\ job'[c].reopened = FALSE
             /\ job'[c].per = job[c].per /\ job'[c].todo = {}
             /\ job'[c].rejected = {} /\ job'[c].posts = job[c].posts
    <3>1. job[c].pc = "publishing" /\ job[c].todo = {} /\ job[c].posts = {}
      BY <1>7, <1>b DEF FinishPublish, RouteInv
    <3>2. BatchInv(c)'
      BY <2>2 DEF BatchInv, Batch
    <3>3. \A o \in Obligations : \/ event'[o] = event[o] /\ o \notin job[c].sent
                                 \/ event'[o].st = "fulfilled"
      <4>1. ASSUME NEW o \in Obligations
            PROVE  \/ event'[o] = event[o] /\ o \notin job[c].sent
                   \/ event'[o] = [st |-> "fulfilled", marked |-> TRUE]
        BY <1>7, <2>2, FinishPublishRows
      <4>2. QED
        BY <4>1
    <3>r. \A e \in Entries : \/ entry'[e] = entry[e]
                             \/ e \in job[c].sent /\ entry[e].st = "draft" /\ entry'[e].st = "posted"
      BY <1>7, FinishPublishRows
    <3>s. \A e \in job[c].sent : entry'[e].st = "posted"
      BY <1>7, <1>b, <1>t, <1>j DEF FinishPublish, BatchInv, Batch, TypeOK, EntryStates, Jobs
    <3>4. GateInv(c)'
      BY <1>b, <1>j, <2>2, <3>1, <3>3, <3>r DEF GateInv, Stranded
    <3>5. PublishInv(c)'
      <4>1. Writeback => Unsent(c) \subseteq job[c].sent
        BY <1>b, <2>2, <3>1 DEF PublishInv, Batch
      <4>2. Writeback => Unsent(c)' = {}
        <5>1. SUFFICES ASSUME Writeback, NEW o \in Unsent(c)' PROVE FALSE
          OBVIOUS
        <5>2. /\ o \in Obligations /\ entry'[o].st = "draft" /\ entry'[o].per = job[c].per
              /\ event'[o].st # "voided" /\ ~event'[o].marked
          BY <2>2, <5>1 DEF Unsent, Drafts, Retracted
        <5>3. o \notin job[c].sent /\ entry'[o] = entry[o]
          BY <1>j, <3>r, <3>s, <5>2
        <5>4. event'[o] = event[o]
          BY <1>7, <2>2, <5>2, <5>3, FinishPublishRows
        <5>5. o \in Unsent(c)
          BY <1>j, <5>2, <5>3, <5>4 DEF Unsent, Drafts, Retracted
        <5>6. QED
          BY <4>1, <5>1, <5>3, <5>5
      <4>3. QED
        BY <2>2, <4>2 DEF PublishInv
    <3>6. RouteInv(c)'
      BY <2>2, <3>1 DEF RouteInv
    <3>7. QED
      BY <3>2, <3>4, <3>5, <3>6
  <2>3. QED
    BY <1>t, <1>7, <2>1, <2>2, AfterFinishPublish
<1>8. CASE Route(c)
  <2>1. UNCHANGED <<status, entry, event, qb>> /\ job[c].pc = "published"
    BY <1>8 DEF Route, calendar, ledgerVars
  <2>2. /\ job'[c].pc = "routed"
        /\ job'[c].posts = {e \in Drafts(job[c].per) : ~Retracted(e)}
        /\ job'[c].per = job[c].per /\ job'[c].todo = job[c].todo
        /\ job'[c].sent = job[c].sent /\ job'[c].rejected = job[c].rejected
        /\ job'[c].failed = job[c].failed /\ job'[c].reopened = job[c].reopened
    BY <1>t, <1>8, AfterRoute
  <2>3. Batch(c) = {} /\ Batch(c)' = {}
    BY <1>b, <2>1, <2>2 DEF BatchInv, Batch
  <2>4. BatchInv(c)'
    BY <1>b, <2>1, <2>2, <2>3 DEF BatchInv, Inside, Batch
  <2>5. GateInv(c)'
    BY <1>b, <2>1, <2>2 DEF GateInv, Stranded
  <2>6. Drafts(job[c].per)' = Drafts(job[c].per) /\ \A x \in Entries : Retracted(x)' <=> Retracted(x)
    BY <2>1, <2>2 DEF Drafts, Retracted
  <2>u. Unsent(c)' = Unsent(c)
    BY <1>j, <2>1, <2>6 DEF Unsent
  <2>7. Unsent(c)' = Unsent(c) /\ (Writeback => Unsent(c) = {})
    BY <1>b, <2>1, <2>u DEF PublishInv
  <2>8. PublishInv(c)'
    BY <2>2, <2>7 DEF PublishInv
  <2>9. RouteInv(c)'
    <3>1. /\ (\A e \in Drafts(job[c].per) : e \in job[c].posts \/ Retracted(e))'
          /\ job'[c].posts \subseteq Drafts(job[c].per)'
      BY <2>2, <2>6 DEF Drafts
    <3>2. status'[job[c].per] = "closed" => job'[c].posts = {}
      BY <1>d, <2>1, <2>2
    <3>3. Writeback => \A o \in job'[c].posts \cap Obligations : event'[o].marked
      BY <2>1, <2>2, <2>7 DEF Unsent
    <3>4. QED
      BY <2>2, <3>1, <3>2, <3>3 DEF RouteInv
  <2>10. QED
    BY <2>4, <2>5, <2>8, <2>9
<1>9. QED
  BY <1>2, <1>3, <1>4, <1>5, <1>6, <1>7, <1>8 DEF CloserStep

LEMMA RowStep ==
  ASSUME Inv, [Next]_vars
  PROVE  RowInv'
<1>t. /\ \A e \in Entries : entry[e] \in EntryStates
      /\ \A o \in Obligations : event[o] \in EventStates /\ o \in Entries /\ o \notin Locals
  BY Constants DEF Inv, BaseInv, TypeOK
<1>r. \A o \in Obligations :
        /\ entry[o].st \notin {"none", "deleted"} => entry[o].per = DueMonth[o]
        /\ event[o].marked => o \in qb /\ event[o].st # "voided"
        /\ Writeback /\ entry[o].st \in {"posted", "reversed"} => event[o].marked
  BY DEF Inv, RowInv, Exists
<1>1. ASSUME NEW w \in Writers, WriterStep(w) PROVE RowInv'
  <2>1. /\ \A e \in Entries : EntryMove(w, e)
        /\ \A o \in Obligations : EventMove(w, o)
        /\ qb \subseteq qb'
    BY <1>1, WriterRows DEF Inv
  <2>2. SUFFICES ASSUME NEW o \in Obligations
                 PROVE  /\ Exists(o)' => entry'[o].per = DueMonth[o]
                        /\ event'[o].marked => o \in qb' /\ event'[o].st # "voided"
                        /\ Writeback /\ entry'[o].st \in {"posted", "reversed"} => event'[o].marked
    BY DEF RowInv
  <2>3. Exists(o)' => entry'[o].per = DueMonth[o]
    BY <1>r, <1>t, <2>1 DEF EntryMove, Exists
  <2>4. event[o] \in EventStates
    BY <1>t
  <2>k. \/ event'[o] = event[o]
        \/ event'[o] = [st |-> "fulfilled", marked |-> TRUE] /\ o \in qb
        \/ event'[o] = [event[o] EXCEPT !.st = "voided"] /\ ~event[o].marked
        \/ \E x \in {"classified", "committed", "pending"} : event'[o] = [event[o] EXCEPT !.st = x]
    BY <2>1 DEF EventMove
  <2>l. \/ event'[o] = event[o]
        \/ event'[o].marked /\ event'[o].st = "fulfilled" /\ o \in qb
        \/ event'[o].marked = event[o].marked /\ ~event[o].marked
        \/ event'[o].marked = event[o].marked /\ event'[o].st \in {"classified", "committed", "pending"}
    BY <2>4, <2>k DEF EventStates
  <2>5. event[o].marked => event'[o].marked
    BY <2>l
  <2>6. event'[o].marked => o \in qb' /\ event'[o].st # "voided"
    BY <1>r, <2>1, <2>l
  <2>7. Writeback /\ entry'[o].st \in {"posted", "reversed"} => event'[o].marked
    BY <1>r, <1>t, <2>1, <2>5 DEF EntryMove
  <2>8. QED
    BY <2>3, <2>6, <2>7
<1>2. ASSUME NEW c \in Closers, CloserStep(c) PROVE RowInv'
  <2>1. CASE UNCHANGED <<entry, event>>
    BY <1>2, <2>1, CloserRows DEF Inv, RowInv, Exists
  <2>2. CASE FinishPublish(c)
    <3>1. SUFFICES ASSUME NEW o \in Obligations
                   PROVE  /\ Exists(o)' => entry'[o].per = DueMonth[o]
                          /\ event'[o].marked => o \in qb' /\ event'[o].st # "voided"
                          /\ Writeback /\ entry'[o].st \in {"posted", "reversed"} => event'[o].marked
      BY DEF RowInv
    <3>2. /\ \/ entry'[o] = entry[o]
             \/ /\ o \in job[c].sent /\ entry[o].st = "draft" /\ entry[o].per = job[c].per
                /\ entry'[o].st = "posted" /\ entry'[o].per = job[c].per
          /\ \/ event'[o] = event[o] /\ o \notin job[c].sent
             \/ event'[o] = [st |-> "fulfilled", marked |-> TRUE] /\ o \in qb
             \/ event'[o] = [event[o] EXCEPT !.st = "pending"] /\ o \notin job[c].sent
          /\ qb' = qb
      BY <1>t, <2>2, FinishPublishRows
    <3>3. event[o] \in EventStates
      BY <1>t
    <3>4. QED
      BY <1>r, <3>2, <3>3 DEF Exists, EventStates
  <2>3. CASE Finish(c)
    <3>1. UNCHANGED <<event, qb>>
      BY <2>3 DEF Finish
    <3>2. Writeback => \A o \in job[c].posts \cap Obligations : event[o].marked
      BY <2>3 DEF Inv, CloserInv, RouteInv, Finish
    <3>3. SUFFICES ASSUME NEW o \in Obligations
                   PROVE  /\ Exists(o)' => entry'[o].per = DueMonth[o]
                          /\ Writeback /\ entry'[o].st \in {"posted", "reversed"} => event'[o].marked
      BY <1>r, <3>1 DEF RowInv
    <3>4. \/ entry'[o] = entry[o]
          \/ /\ o \in job[c].posts /\ entry[o].st = "draft" /\ entry[o].per = job[c].per
             /\ entry'[o].st = "posted" /\ entry'[o].per = job[c].per
      BY <1>t, <2>3, FinishRows
    <3>5. QED
      BY <1>r, <3>1, <3>2, <3>4 DEF Exists
  <2>4. QED
    BY <1>2, <2>1, <2>2, <2>3, CloserRows
<1>3. CASE UNCHANGED vars
  BY <1>3 DEF Inv, RowInv, Exists, vars
<1>4. QED
  BY <1>1, <1>2, <1>3 DEF Next

(* What a writer's step leaves of its own progress.                          *)
TaskMove(w) ==
  \/ \E o \in {"create", "edit", "delete", "reverse", "void", "promote",
              "approve", "classify", "execute"}, e \in Entries, m \in Periods :
       /\ StartWrite(w, o, e, m)
       /\ task'[w] = [pc |-> "fencing", op |-> o, e |-> e, to |-> m,
                      peek |-> PeekedMonth(e), got |-> {}]
  \/ /\ task'[w].pc = "fencing" /\ task[w].pc = "fencing" /\ task'[w].op = task[w].op
     /\ task'[w].e = task[w].e /\ task'[w].to = task[w].to
     /\ task'[w].peek = task[w].peek /\ UNCHANGED <<entry, event, qb>>
  \/ ExecuteSend(w) /\ task'[w] = [task[w] EXCEPT !.pc = "sent"]
  \/ task'[w] = IdleTask

LEMMA TaskStep ==
  ASSUME BaseInv, NEW w \in Writers, WriterStep(w)
  PROVE  /\ \A v \in Writers \ {w} : task'[v] = task[v]
         /\ TaskMove(w)
         /\ task'[w].pc = "sent" => ExecuteSend(w) /\ task'[w] = [task[w] EXCEPT !.pc = "sent"]
<1>t. task \in [Writers -> Tasks]
  BY DEF BaseInv, TypeOK
<1>m. ASSUME NEW t, Move(w, t) PROVE \A v \in Writers : task'[v] = IF v = w THEN t ELSE task[v]
  BY <1>t, <1>m DEF Move
<1>1. CASE \E o \in {"create", "edit", "delete", "reverse", "void", "promote",
                    "approve", "classify", "execute"}, e \in Entries, m \in Periods :
             StartWrite(w, o, e, m)
  <2>1. PICK o \in {"create", "edit", "delete", "reverse", "void", "promote",
                    "approve", "classify", "execute"}, e \in Entries, m \in Periods :
             StartWrite(w, o, e, m)
    BY <1>1
  <2>2. Move(w, [pc |-> "fencing", op |-> o, e |-> e, to |-> m, peek |-> PeekedMonth(e),
                 got |-> {}])
    BY <2>1 DEF StartWrite
  <2>3. task'[w] = [pc |-> "fencing", op |-> o, e |-> e, to |-> m, peek |-> PeekedMonth(e),
                    got |-> {}]
    BY <1>m, <2>2
  <2>4. task'[w].pc = "fencing"
    BY <2>3
  <2>5. QED
    BY <1>m, <2>1, <2>2, <2>3, <2>4 DEF TaskMove
<1>2. CASE \E m \in Periods : TakeShared(w, m)
  <2>1. PICK m \in Periods : TakeShared(w, m)
    BY <1>2
  <2>2. Move(w, [task[w] EXCEPT !.got = @ \cup {m}]) /\ task[w].pc = "fencing"
        /\ UNCHANGED <<entry, event, qb>>
    BY <2>1 DEF TakeShared, ledgerVars
  <2>3. task[w] \in Tasks
    BY <1>t
  <2>4. /\ task'[w].pc = "fencing" /\ task[w].pc = "fencing" /\ task'[w].op = task[w].op
        /\ task'[w].e = task[w].e /\ task'[w].to = task[w].to /\ task'[w].peek = task[w].peek
    BY <1>m, <2>2, <2>3 DEF Tasks
  <2>5. QED
    BY <1>m, <2>2, <2>4 DEF TaskMove
<1>3. CASE ExecuteSend(w)
  BY <1>m, <1>3 DEF ExecuteSend, TaskMove
<1>4. CASE WriterCommits(w) \/ ExecuteCommit(w) \/ ExecuteRejected(w) \/ WriterAborts(w)
  BY <1>m, <1>4 DEF WriterCommits, ExecuteCommit, ExecuteRejected, WriterAborts, Done, IdleTask, TaskMove
<1>5. QED
  BY <1>1, <1>2, <1>3, <1>4 DEF WriterStep

LEMMA SendStep ==
  ASSUME Inv, [Next]_vars
  PROVE  SendInv'
<1>t. /\ \A e \in Entries : entry[e] \in EntryStates
      /\ \A o \in Obligations : event[o] \in EventStates /\ o \in Entries /\ o \notin Locals
      /\ task \in [Writers -> Tasks]
  BY Constants DEF Inv, BaseInv, TypeOK
<1>a. \A v \in Writers : task[v].pc = "sent" => task[v].e \in Obligations
  BY DEF Inv, BaseInv, AskedInv
<1>s. \A v \in Writers : task[v].pc = "sent" =>
        /\ DueMonth[task[v].e] \in task[v].got
        /\ Exists(task[v].e) /\ task[v].e \in qb /\ event[task[v].e].st # "voided"
  BY DEF Inv, SendInv
<1>1. ASSUME NEW w \in Writers, WriterStep(w), NEW v \in Writers, task'[v].pc = "sent"
      PROVE  /\ DueMonth[task'[v].e] \in task'[v].got
             /\ entry'[task'[v].e].st \notin {"none", "deleted"} /\ task'[v].e \in qb' /\ event'[task'[v].e].st # "voided"
  <2>1. CASE v # w
    <3>1. task'[v] = task[v]
      BY <1>1, <2>1, TaskStep DEF Inv
    <3>2. ~EventFree(task[v].e) /\ task[v].e \in Obligations
      BY <1>1, <1>a, <3>1 DEF EventFree
    <3>3. EntryMove(w, task[v].e) /\ EventMove(w, task[v].e) /\ qb \subseteq qb'
      BY <1>1, <1>t, <3>2, WriterRows DEF Inv
    <3>4. event'[task[v].e].st # "voided"
      <4>1. event[task[v].e] \in EventStates /\ event[task[v].e].st # "voided"
        BY <1>1, <1>s, <1>t, <3>1, <3>2
      <4>2. QED
        BY <3>2, <3>3, <4>1 DEF EventMove, EventStates
    <3>5. entry'[task[v].e].st \notin {"none", "deleted"}
      BY <1>1, <1>s, <1>t, <3>1, <3>2, <3>3 DEF EntryMove, Exists
    <3>6. QED
      BY <1>1, <1>s, <3>1, <3>3, <3>4, <3>5
  <2>2. CASE v = w
    <3>1. ExecuteSend(w) /\ task'[w] = [task[w] EXCEPT !.pc = "sent"]
      BY <1>1, <2>2, TaskStep DEF Inv
    <3>2. task'[w].e = task[w].e /\ task'[w].got = task[w].got
      BY <1>t, <3>1 DEF Tasks
    <3>3. /\ DueMonth[task[w].e] \in task[w].got /\ event[task[w].e].st # "voided"
          /\ Exists(task[w].e) /\ task[w].e \in qb' /\ UNCHANGED <<entry, event>>
      BY <3>1 DEF ExecuteSend, Ready, Need, Publishable, ledgerVars
    <3>4. QED
      BY <2>2, <3>1, <3>2, <3>3 DEF Exists
  <2>3. QED
    BY <2>1, <2>2
<1>2. ASSUME NEW c \in Closers, CloserStep(c), NEW v \in Writers, task'[v].pc = "sent"
      PROVE  /\ DueMonth[task'[v].e] \in task'[v].got
             /\ entry'[task'[v].e].st \notin {"none", "deleted"} /\ task'[v].e \in qb' /\ event'[task'[v].e].st # "voided"
  <2>0. PICK o : o = task[v].e
    OBVIOUS
  <2>1. task' = task
    BY <1>2, CloserFrame DEF Inv, BaseInv
  <2>2. /\ o \in Obligations /\ o \in Entries /\ DueMonth[o] \in task[v].got
        /\ Exists(o) /\ o \in qb /\ event[o].st # "voided" /\ event[o] \in EventStates
    BY <1>2, <1>a, <1>s, <1>t, <2>0, <2>1
  <2>3. qb \subseteq qb'
    BY <1>2, CloserRows
  <2>4. entry'[o].st \notin {"none", "deleted"} /\ event'[o].st # "voided"
    <3>1. CASE UNCHANGED <<entry, event>>
      BY <2>2, <3>1 DEF Exists
    <3>2. CASE FinishPublish(c)
      <4>1. entry'[o] = entry[o] \/ entry'[o].st = "posted"
        BY <2>2, <3>2, FinishPublishRows
      <4>2. \/ event'[o] = event[o] \/ event'[o] = [st |-> "fulfilled", marked |-> TRUE]
            \/ event'[o] = [event[o] EXCEPT !.st = "pending"]
        BY <2>2, <3>2, FinishPublishRows
      <4>3. QED
        BY <2>2, <4>1, <4>2 DEF Exists, EventStates
    <3>3. CASE Finish(c)
      <4>1. entry'[o] = entry[o] \/ entry'[o].st = "posted"
        BY <2>2, <3>3, FinishRows
      <4>2. QED
        BY <2>2, <3>3, <4>1 DEF Exists, Finish
    <3>4. QED
      BY <1>2, <3>1, <3>2, <3>3, CloserRows
  <2>5. QED
    BY <2>0, <2>1, <2>2, <2>3, <2>4
<1>3. CASE UNCHANGED vars
  BY <1>3 DEF Inv, SendInv, Exists, vars
<1>4. QED
  BY <1>1, <1>2, <1>3 DEF Next, SendInv, Exists

LEMMA EditStep ==
  ASSUME Inv, [Next]_vars
  PROVE  EditInv'
<1>1. ASSUME NEW w \in Writers, WriterStep(w), NEW v \in Writers,
             task'[v].pc # "idle", task'[v].op = "edit", task'[v].e \notin Movable
      PROVE  task'[v].to = task'[v].peek
  <2>1. CASE v # w
    <3>1. task'[v] = task[v]
      BY <1>1, <2>1, TaskStep DEF Inv
    <3>2. EditInv
      BY DEF Inv
    <3>3. QED
      BY <1>1, <3>1, <3>2 DEF EditInv
  <2>2. CASE \E o \in {"create", "edit", "delete", "reverse", "void", "promote",
                      "approve", "classify", "execute"}, e \in Entries, m \in Periods :
                 /\ StartWrite(w, o, e, m) /\ v = w
                 /\ task'[w] = [pc |-> "fencing", op |-> o, e |-> e, to |-> m,
                                peek |-> PeekedMonth(e), got |-> {}]
    <3>1. PICK o, e, m :
                 /\ StartWrite(w, o, e, m) /\ v = w
                 /\ task'[w] = [pc |-> "fencing", op |-> o, e |-> e, to |-> m,
                                peek |-> PeekedMonth(e), got |-> {}]
      BY <2>2
    <3>2. o = "edit" /\ e \notin Movable /\ task'[v].to = m /\ task'[v].peek = PeekedMonth(e)
      BY <1>1, <3>1
    <3>3. Exists(e) /\ m = entry[e].per
      BY <3>1, <3>2 DEF StartWrite
    <3>4. QED
      BY <3>2, <3>3 DEF PeekedMonth
  <2>3. CASE ExecuteSend(w) /\ task'[w] = [task[w] EXCEPT !.pc = "sent"] /\ v = w
    <3>1. task'[w].op = task[w].op
      BY <2>3 DEF Inv, BaseInv, TypeOK, Tasks
    <3>2. QED
      BY <1>1, <2>3, <3>1 DEF ExecuteSend, Ready
  <2>4. QED
    <3>1. CASE task'[w] = IdleTask /\ v = w
      BY <1>1, <3>1 DEF IdleTask
    <3>2. CASE /\ task'[w].pc = "fencing" /\ task[w].pc = "fencing" /\ task'[w].op = task[w].op
               /\ task'[w].e = task[w].e /\ task'[w].to = task[w].to
               /\ task'[w].peek = task[w].peek /\ v = w
      BY <1>1, <3>2 DEF Inv, EditInv
    <3>3. v = w => TaskMove(w)
      BY <1>1, TaskStep DEF Inv
    <3>4. QED
      BY <2>1, <2>2, <2>3, <3>1, <3>2, <3>3 DEF TaskMove
<1>2. ASSUME NEW c \in Closers, CloserStep(c) PROVE EditInv'
  BY <1>2, CloserFrame DEF Inv, BaseInv, EditInv
<1>3. CASE UNCHANGED vars
  BY <1>3 DEF Inv, EditInv, vars
<1>4. QED
  BY <1>1, <1>2, <1>3 DEF Next, EditInv

LEMMA CloserInvStep ==
  ASSUME Inv, BaseInv', [Next]_vars
  PROVE  CloserInv'
<1>f. \A d \in Closers : Inside(d) => fence[job[d].per] = d
  BY DEF Inv, FenceInv
<1>j. TypeOK /\ \A d \in Closers : job[d].per \in Periods /\ job[d] \in Jobs
  BY JobTyped DEF Inv, BaseInv
<1>b. \A d \in Closers :
        /\ BatchInv(d) /\ GateInv(d) /\ PublishInv(d) /\ RouteInv(d)
        /\ \A o \in job[d].sent \cup job[d].rejected :
             /\ event[o].st # "voided" /\ Inside(d)
             /\ o \in Obligations /\ o \in Entries /\ DueMonth[o] = job[d].per
  <2>1. SUFFICES ASSUME NEW d \in Closers,
                        BatchInv(d) /\ GateInv(d) /\ PublishInv(d) /\ RouteInv(d),
                        NEW o \in job[d].sent \cup job[d].rejected
                 PROVE  /\ event[o].st # "voided" /\ Inside(d)
                        /\ o \in Obligations /\ o \in Entries /\ DueMonth[o] = job[d].per
    BY DEF Inv, CloserInv
  <2>2. o \in Drafts(job[d].per) /\ Inside(d) /\ ~Retracted(o)
    BY <2>1 DEF BatchInv, Batch, Inside
  <2>3. o \in Obligations
    BY <1>j, <2>1 DEF Jobs
  <2>4. QED
    BY <2>2, <2>3 DEF Inv, RowInv, Exists, Drafts, Retracted
<1>1. ASSUME NEW w \in Writers, WriterStep(w) PROVE CloserInv'
  <2>1. SUFFICES ASSUME NEW c \in Closers
                 PROVE  (BatchInv(c) /\ GateInv(c) /\ PublishInv(c) /\ RouteInv(c))'
    BY DEF CloserInv
  <2>2. job' = job
    BY <1>1, WriterFrame
  <2>3. qb \subseteq qb' /\ \A o \in Obligations : EventMove(w, o)
    BY <1>1, WriterRows DEF Inv
  <2>4. Inside(c) => HeldStays(job[c].per)
    <3>1. Inside(c) => job[c].per \notin task[w].got
      BY <1>f, Constants DEF Inv, FenceInv
    <3>2. QED
      BY <1>1, <1>j, <3>1, WriterHeld
  <2>5. ASSUME NEW o \in job[c].sent \cup job[c].rejected PROVE event'[o].st # "voided"
    <3>1. ~EventFree(o)
      BY <2>5 DEF EventFree
    <3>2. event[o].st # "voided" /\ event[o] \in EventStates /\ EventMove(w, o)
      BY <1>b, <1>j, <2>3, <2>5 DEF TypeOK
    <3>3. QED
      BY <3>1, <3>2 DEF EventMove, EventStates
  <2>6. QED
    BY <2>2, <2>3, <2>4, <2>5, JobStays
<1>2. ASSUME NEW c \in Closers, CloserStep(c) PROVE CloserInv'
  <2>1. SUFFICES ASSUME NEW d \in Closers, d # c
                 PROVE  (BatchInv(d) /\ GateInv(d) /\ PublishInv(d) /\ RouteInv(d))'
    BY <1>2, JobSteps DEF CloserInv
  <2>2. job'[d] = job[d] /\ qb \subseteq qb'
    BY <1>2, <1>j, <2>1, CloserFrame, CloserRows
  <2>3. CASE UNCHANGED <<status, sets, unsettled, entry, event>>
    <3>1. Inside(d) => HeldStays(job[d].per)
      BY <2>3 DEF HeldStays
    <3>2. \A o \in job[d].sent \cup job[d].rejected : event'[o].st # "voided"
      BY <1>b, <2>3
    <3>3. QED
      BY <2>2, <3>1, <3>2, JobStays
  <2>4. CASE Inside(c)
    <3>1. Inside(d) => job[d].per # job[c].per
      BY <1>f, <2>1, <2>4
    <3>2. Inside(d) => /\ HeldStays(job[d].per)
                       /\ \A o \in Obligations : DueMonth[o] = job[d].per => event'[o] = event[o]
      BY <1>2, <1>j, <3>1, CloserHeld
    <3>3. \A o \in job[d].sent \cup job[d].rejected : event'[o].st # "voided"
      BY <1>b, <3>2
    <3>4. QED
      BY <2>2, <3>2, <3>3, JobStays
  <2>5. UNCHANGED <<status, sets, unsettled, entry, event>> \/ Inside(c)
    BY <1>2, CloserRows DEF Reopen, FinishPublish, Finish, Inside
  <2>6. QED
    BY <2>3, <2>4, <2>5
<1>3. CASE UNCHANGED vars
  <2>1. SUFFICES ASSUME NEW d \in Closers
                 PROVE  (BatchInv(d) /\ GateInv(d) /\ PublishInv(d) /\ RouteInv(d))'
    BY DEF CloserInv
  <2>2. job' = job /\ qb' = qb /\ UNCHANGED <<status, entry, event>>
    BY <1>3 DEF vars
  <2>3. HeldStays(job[d].per)
    BY <2>2 DEF HeldStays
  <2>4. \A o \in job[d].sent \cup job[d].rejected : event'[o].st # "voided"
    BY <1>b, <2>2
  <2>5. QED
    BY <2>2, <2>3, <2>4, JobStays
<1>4. QED
  BY <1>1, <1>2, <1>3 DEF Next

(* What LedgerInv says of one month.                                         *)
MonthInv(p) ==
  status[p] = "closed" =>
    /\ \A e \in Entries : entry[e].st = "draft" /\ entry[e].per = p =>
         e \in Obligations /\ event[e].st = "voided"
    /\ \A o \in Obligations : DueMonth[o] = p =>
         /\ event[o].st # "pending"
         /\ event[o].st = "classified" => entry[o].st # "none"

LEMMA ByMonth == LedgerInv <=> \A p \in Periods : MonthInv(p)
<1>1. LedgerInv => \A p \in Periods : MonthInv(p)
  BY Constants DEF LedgerInv, NoDraftLeftInClosed, NothingOmitted, MonthInv, Drafts, Retracted
<1>2. (\A p \in Periods : MonthInv(p)) => LedgerInv
  BY Constants DEF LedgerInv, NoDraftLeftInClosed, NothingOmitted, MonthInv, Drafts, Retracted
<1>3. QED
  BY <1>1, <1>2

LEMMA HeldMonth ==
  ASSUME Inv, NEW p \in Periods, HeldStays(p)
  PROVE  MonthInv(p)'
<1>1. MonthInv(p)
  BY ByMonth DEF Inv
<1>2. \A o \in Obligations : o \in Entries /\ (entry[o].st = "draft" => entry[o].per = DueMonth[o])
  BY Constants DEF Inv, RowInv, Exists
<1>3. ASSUME status'[p] = "closed", NEW e \in Entries, entry'[e].st = "draft", entry'[e].per = p
      PROVE  e \in Obligations /\ event'[e].st = "voided"
  BY <1>1, <1>2, <1>3 DEF HeldStays, MonthInv
<1>4. ASSUME status'[p] = "closed", NEW o \in Obligations, DueMonth[o] = p
      PROVE  /\ event'[o].st # "pending"
             /\ event'[o].st = "classified" => entry'[o].st # "none"
  BY <1>1, <1>4 DEF HeldStays, MonthInv
<1>5. QED
  BY <1>3, <1>4 DEF MonthInv

LEMMA LedgerStep ==
  ASSUME Inv, [Next]_vars
  PROVE  LedgerInv'
<1>t. /\ \A c \in Closers : job[c].per \in Periods
      /\ status \in [Periods -> {"open", "closing", "closed"}]
      /\ Obligations \subseteq Entries
  BY JobTyped, Constants DEF Inv, BaseInv, TypeOK
<1>m. (\A p \in Periods : MonthInv(p)') => LedgerInv'
  <2>1. SUFFICES ASSUME \A p \in Periods : MonthInv(p)' PROVE LedgerInv'
    OBVIOUS
  <2>2. NoDraftLeftInClosed'
    BY <2>1 DEF MonthInv, NoDraftLeftInClosed, Drafts, Retracted
  <2>3. NothingOmitted'
    BY <2>1, Constants DEF MonthInv, NothingOmitted
  <2>4. QED
    BY <2>2, <2>3 DEF LedgerInv
<1>1. ASSUME NEW w \in Writers, WriterStep(w), NEW p \in Periods PROVE MonthInv(p)'
  <2>1. CASE status[p] = "closed"
    <3>1. p \notin task[w].got
      BY <2>1 DEF Inv, FenceInv
    <3>2. QED
      BY <1>1, <3>1, WriterHeld, HeldMonth
  <2>2. CASE status[p] # "closed"
    BY <1>1, <2>2, WriterFrame DEF MonthInv
  <2>3. QED
    BY <2>1, <2>2
<1>2. ASSUME NEW c \in Closers, CloserStep(c), NEW p \in Periods PROVE MonthInv(p)'
  <2>1. CASE p # job[c].per
    BY <1>2, <2>1, CloserHeld, HeldMonth
  <2>2. CASE UNCHANGED <<status, sets, unsettled, entry, event>>
    <3>1. HeldStays(p)
      BY <2>2 DEF HeldStays
    <3>2. QED
      BY <3>1, HeldMonth
  <2>3. CASE p = job[c].per /\ status'[p] # "closed"
    BY <2>3 DEF MonthInv
  <2>4. CASE p = job[c].per /\ Finish(c)
    <3>0. RouteInv(c) /\ GateInv(c) /\ job[c].pc = "routed"
      BY <2>4 DEF Finish, Inv, CloserInv
    <3>1. \A e \in Entries : entry[e].st = "draft" /\ entry[e].per = p =>
               e \in job[c].posts \/ (e \in Obligations /\ event[e].st = "voided")
      BY <2>4, <3>0 DEF RouteInv, Drafts, Retracted
    <3>g. \A o \in Obligations : DueMonth[o] = p =>
               /\ event[o].st # "pending"
               /\ event[o].st = "classified" => entry[o].st # "none"
      BY <2>4, <3>0 DEF GateInv, Stranded
    <3>2. /\ event' = event
          /\ \A e \in Entries : \/ entry'[e] = entry[e] /\ e \notin job[c].posts
                                \/ entry'[e].st = "posted"
      BY <2>4, FinishRows
    <3>3. QED
      BY <1>t, <3>1, <3>g, <3>2 DEF MonthInv
  <2>5. \/ UNCHANGED <<status, sets, unsettled, entry, event>>
        \/ status'[job[c].per] # "closed" \/ Finish(c)
    <3>1. CASE FinishPublish(c)
      BY <1>t, <3>1, FinishPublishRows
    <3>2. QED
      BY <1>2, <1>t, <3>1, CloserRows
  <2>6. QED
    BY <2>1, <2>2, <2>3, <2>4, <2>5
<1>3. ASSUME UNCHANGED vars, NEW p \in Periods PROVE MonthInv(p)'
  <2>1. HeldStays(p)
    BY <1>3 DEF HeldStays, vars
  <2>2. QED
    BY <2>1, HeldMonth
<1>4. QED
  BY <1>m, <1>1, <1>2, <1>3 DEF Next

LEMMA InvInit == Init => Inv
<1> SUFFICES ASSUME Init PROVE Inv
  OBVIOUS
<1>1. BaseInv
  BY BaseInit
<1>2. \A w \in Writers : task[w] = IdleTask
  BY DEF Init
<1>3. \A c \in Closers : job[c] = IdleJob
  BY DEF Init
<1>4. FenceInv /\ SendInv /\ EditInv
  BY <1>2, <1>3 DEF FenceInv, SendInv, EditInv, Inside, IdleJob, IdleTask
<1>5. \A e \in Entries : entry[e].st = "none"
  BY DEF Init, NoEntry
<1>6. \A o \in Obligations : event[o].st = "pending" /\ ~event[o].marked
  BY DEF Init
<1>7. RowInv
  BY <1>5, <1>6, Constants DEF RowInv, Exists
<1>8. ASSUME NEW c \in Closers PROVE BatchInv(c) /\ GateInv(c) /\ PublishInv(c) /\ RouteInv(c)
  BY <1>3 DEF BatchInv, Batch, GateInv, PublishInv, RouteInv, IdleJob
<1>9. LedgerInv
  <2>1. \A o \in Obligations : status[DueMonth[o]] # "closed"
    BY Constants DEF Init, Periods, NoPeriod
  <2>2. QED
    BY <1>5, <2>1 DEF LedgerInv, NoDraftLeftInClosed, NothingOmitted, Drafts
<1>10. QED
  BY <1>1, <1>4, <1>7, <1>8, <1>9 DEF Inv, CloserInv

LEMMA InvStep == Inv /\ [Next]_vars => Inv'
<1> SUFFICES ASSUME Inv, [Next]_vars PROVE Inv'
  OBVIOUS
<1>1. BaseInv'
  BY BaseStep DEF Inv
<1>2. FenceInv'
  BY FenceStep DEF Inv
<1>3. QED
  BY <1>1, <1>2, RowStep, SendStep, EditStep, CloserInvStep, LedgerStep DEF Inv

LEMMA InvAlways == Spec => []Inv
BY InvInit, InvStep, PTL DEF Spec

-----------------------------------------------------------------------------
(* The theorems *)

(* A closed month holds no draft but those of retracted events, whatever     *)
(* writers, closes, reopenings and backfills race it.                        *)
THEOREM NothingLeftToPost == Spec => []NoDraftLeftInClosed
<1>1. Inv => NoDraftLeftInClosed
  BY DEF Inv, LedgerInv
<1>2. QED
  BY <1>1, InvAlways, PTL

(* No obligation of a closed month still waits for promotion or for its      *)
(* draft: a classified one has its entry.                                    *)
THEOREM NoAdjustmentOmitted == Spec => []NothingOmitted
<1>1. Inv => NothingOmitted
  BY DEF Inv, LedgerInv
<1>2. QED
  BY <1>1, InvAlways, PTL

(* What a closed month posted for an obligation is in QuickBooks, and the    *)
(* ledger holds its marker.                                                  *)
THEOREM PostedIsInQuickBooks == Spec => []ClosedIsInQuickBooks
<1>1. Inv => ClosedIsInQuickBooks
  BY DEF Inv, RowInv, ClosedIsInQuickBooks
<1>2. QED
  BY <1>1, InvAlways, PTL

(* With write-back on, a retracted obligation has no posted entry: the       *)
(* marker that posting leaves is what the retraction looks at.               *)
THEOREM RetractionHolds ==
  ASSUME Writeback
  PROVE  Spec => []RetractedNeverPosts
<1>1. Inv => RetractedNeverPosts
  BY DEF Inv, RowInv, RetractedNeverPosts
<1>2. QED
  BY <1>1, InvAlways, PTL

(* Every month up to the close boundary was closed: an advance follows the   *)
(* sequence on the row it has locked, and a reopening takes the boundary     *)
(* back only from its own month.                                             *)
THEOREM NoMonthPassedOver == Spec => []HistoryHasNoGap
<1>1. Init => HistoryHasNoGap
  BY Constants DEF Init, HistoryHasNoGap, Periods, NoPeriod
<1>2. Inv /\ HistoryHasNoGap /\ [Next]_vars => HistoryHasNoGap'
  <2> SUFFICES ASSUME Inv, HistoryHasNoGap, [Next]_vars PROVE HistoryHasNoGap'
    OBVIOUS
  <2>t. status \in [Periods -> {"open", "closing", "closed"}] /\ closedThrough \in Int
        /\ Periods \subseteq Int /\ \A c \in Closers : job[c].per \in Periods
    BY JobTyped, Constants DEF Inv, BaseInv, TypeOK, NoPeriod
  <2>h. \A p \in Periods : p <= closedThrough => status[p] # "open"
    BY DEF HistoryHasNoGap
  <2>v. \A c \in Closers : ViewThrough(c) \in Int /\ ViewThrough(c) <= closedThrough
    BY <2>t DEF ViewThrough
  <2>1. ASSUME NEW c \in Closers, CloserStep(c) PROVE HistoryHasNoGap'
    <3>1. CASE Reopen(c)
      <4>1. closedThrough' <= closedThrough /\ closedThrough' \in Int
            /\ status' = [status EXCEPT ![job[c].per] = "closing"]
        BY <2>t, <3>1 DEF Reopen, Reopened
      <4>2. ASSUME NEW p \in Periods, p <= closedThrough' PROVE status'[p] # "open"
        BY <2>t, <2>h, <4>1, <4>2
      <4>3. QED
        BY <4>2 DEF HistoryHasNoGap
    <3>2. CASE FinishPublish(c)
      <4>1. \/ status' = status /\ closedThrough' = closedThrough
            \/ /\ status' = [status EXCEPT ![job[c].per] = "closing"]
               /\ closedThrough' = ViewThrough(c)
        BY <3>2 DEF FinishPublish, Reopened, calendar
      <4>2. ASSUME NEW p \in Periods, p <= closedThrough' PROVE status'[p] # "open"
        <5>1. p <= closedThrough
          BY <2>t, <2>v, <4>1, <4>2
        <5>2. QED
          BY <2>t, <2>h, <4>1, <5>1
      <4>3. QED
        BY <4>2 DEF HistoryHasNoGap
    <3>3. CASE Finish(c)
      <4>1. status' = [status EXCEPT ![job[c].per] = "closed"]
        BY <3>3 DEF Finish
      <4>2. \/ closedThrough' = ViewThrough(c)
            \/ closedThrough' = job[c].per /\ \A q \in Periods : q < job[c].per => status[q] = "closed"
            \/ closedThrough' = job[c].per /\ job[c].per = ViewThrough(c) + 1
        BY <3>3 DEF Finish, Advanced, IsEarliestOpen
      <4>3. ASSUME NEW p \in Periods, p <= closedThrough' PROVE status'[p] # "open"
        <5>1. p = job[c].per \/ p <= closedThrough \/ status[p] = "closed"
          <6>1. /\ p \in Int /\ job[c].per \in Int /\ closedThrough \in Int
                /\ ViewThrough(c) \in Int /\ ViewThrough(c) <= closedThrough
            BY <2>t, <2>v, <4>3
          <6> DEFINE through == ViewThrough(c)
                     per == job[c].per
          <6>2. closedThrough' = through => p <= closedThrough
            BY <4>3, <6>1
          <6>3. closedThrough' = per /\ per = through + 1 => p = per \/ p <= closedThrough
            BY <4>3, <6>1
          <6>4. closedThrough' = per => p = per \/ p < per
            BY <4>3, <6>1
          <6>5. QED
            BY <4>2, <4>3, <6>2, <6>3, <6>4
        <5>2. QED
          BY <2>t, <2>h, <4>1, <5>1
      <4>4. QED
        BY <4>3 DEF HistoryHasNoGap
    <3>4. CASE UNCHANGED <<status, closedThrough>>
      BY <3>4 DEF HistoryHasNoGap
    <3>5. QED
      BY <2>1, <3>1, <3>2, <3>3, <3>4
         DEF CloserStep, StartClose, StartReopen, StartBackfill, BackfillRead, TakeFence,
             RestampReopen, Gate, Publish, Route, Release, Abort, LetGo, calendar
  <2>2. ASSUME NEW w \in Writers, WriterStep(w) PROVE HistoryHasNoGap'
    BY <2>2, WriterFrame DEF HistoryHasNoGap
  <2>3. QED
    BY <2>1, <2>2 DEF Next, vars, HistoryHasNoGap
<1>3. QED
  BY <1>1, <1>2, InvAlways, PTL DEF Spec

-----------------------------------------------------------------------------
(* A closed month's ledger.  One step can reach it: a reversal whose entry an *)
(* edit moved to another month after the request peeked at it, which holds   *)
(* the fence of the wrong month.                                             *)
StaleReversal(w) ==
  /\ WriterCommits(w) /\ task[w].op = "reverse"
  /\ entry[task[w].e].per # task[w].peek

(* What the month's re-check in UpdateEntry and DeleteEntry would give        *)
(* ReverseEntry, too.                                                        *)
ReversalsInPlace == [][\A w \in Writers : ~StaleReversal(w)]_vars

LEMMA PeekInit == Init => PeekInv
BY DEF Init, PeekInv, IdleTask

LEMMA PeekStep ==
  ASSUME Inv, PeekInv, NoneMoves, [Next]_vars
  PROVE  PeekInv'
<1>t. /\ \A e \in Entries : entry[e] \in EntryStates
      /\ Obligations \subseteq Entries /\ Locals \subseteq Entries
  BY Constants DEF Inv, BaseInv, TypeOK
<1>p. \A v \in Writers :
        task[v].pc # "idle" /\ task[v].op \in {"edit", "delete", "reverse"} =>
          /\ task[v].e \in Entries
          /\ entry[task[v].e].st # "none"
          /\ entry[task[v].e].st = "deleted" \/ entry[task[v].e].per = task[v].peek
  BY DEF PeekInv, Inv, BaseInv, AskedInv
<1>1. ASSUME NEW e \in Entries, entry[e].st # "none",
             NEW w \in Writers, NEW v \in Writers, v # w, EntryMove(w, e)
      PROVE  /\ entry'[e].st # "none"
             /\ entry'[e].st = "deleted" \/ (entry'[e].per = entry[e].per /\ entry[e].st # "deleted")
                \/ entry'[e] = entry[e]
  <2>1. e \notin Movable
    BY <1>1 DEF NoneMoves
  <2>2. QED
    BY <1>1, <2>1 DEF EntryMove, Exists
<1>2. ASSUME NEW w \in Writers, WriterStep(w), NEW v \in Writers,
             task'[v].pc # "idle", task'[v].op \in {"edit", "delete", "reverse"}
      PROVE  /\ entry'[task'[v].e].st # "none"
             /\ entry'[task'[v].e].st = "deleted" \/ entry'[task'[v].e].per = task'[v].peek
  <2>0. \A e \in Entries : EntryMove(w, e)
    BY <1>2, WriterRows DEF Inv
  <2>1. CASE v # w
    <3>1. task'[v] = task[v]
      BY <1>2, <2>1, TaskStep DEF Inv
    <3>2. PICK e \in Entries : e = task[v].e
      BY <1>2, <1>p, <3>1
    <3>3. /\ entry[e].st # "none"
          /\ entry[e].st = "deleted" \/ entry[e].per = task[v].peek
      BY <1>2, <1>p, <3>1, <3>2
    <3>4. /\ entry'[e].st # "none"
          /\ entry'[e].st = "deleted" \/ (entry'[e].per = entry[e].per /\ entry[e].st # "deleted")
             \/ entry'[e] = entry[e]
      BY <1>1, <2>0, <2>1, <3>3
    <3>5. QED
      BY <3>1, <3>2, <3>3, <3>4
  <2>2. CASE v = w
    <3>1. TaskMove(w)
      BY <1>2, TaskStep DEF Inv
    <3>2. CASE \E o \in {"create", "edit", "delete", "reverse", "void", "promote",
                        "approve", "classify", "execute"}, e \in Entries, m \in Periods :
                 /\ StartWrite(w, o, e, m)
                 /\ task'[w] = [pc |-> "fencing", op |-> o, e |-> e, to |-> m,
                                peek |-> PeekedMonth(e), got |-> {}]
      <4>1. PICK o, e, m :
                 /\ StartWrite(w, o, e, m)
                 /\ task'[w] = [pc |-> "fencing", op |-> o, e |-> e, to |-> m,
                                peek |-> PeekedMonth(e), got |-> {}]
        BY <3>2
      <4>2. o \in {"edit", "delete", "reverse"} /\ task'[v].e = e /\ task'[v].peek = PeekedMonth(e)
        BY <1>2, <2>2, <4>1
      <4>3. Exists(e) /\ entry' = entry
        BY <4>1, <4>2 DEF StartWrite, ledgerVars
      <4>4. QED
        BY <4>2, <4>3 DEF PeekedMonth, Exists
    <3>3. CASE /\ task'[w].pc = "fencing" /\ task[w].pc = "fencing" /\ task'[w].op = task[w].op
               /\ task'[w].e = task[w].e /\ task'[w].to = task[w].to
               /\ task'[w].peek = task[w].peek /\ UNCHANGED <<entry, event, qb>>
      BY <1>2, <1>p, <2>2, <3>3
    <3>4. CASE ExecuteSend(w) /\ task'[w] = [task[w] EXCEPT !.pc = "sent"]
      <4>1. task'[w].op = task[w].op
        BY <3>4 DEF Inv, BaseInv, TypeOK, Tasks
      <4>2. QED
        BY <1>2, <2>2, <3>4, <4>1 DEF ExecuteSend, Ready
    <3>5. CASE task'[w] = IdleTask
      BY <1>2, <2>2, <3>5 DEF IdleTask
    <3>6. QED
      BY <3>1, <3>2, <3>3, <3>4, <3>5 DEF TaskMove
  <2>3. QED
    BY <2>1, <2>2
<1>3. ASSUME NEW c \in Closers, CloserStep(c), NEW v \in Writers,
             task'[v].pc # "idle", task'[v].op \in {"edit", "delete", "reverse"}
      PROVE  /\ entry'[task'[v].e].st # "none"
             /\ entry'[task'[v].e].st = "deleted" \/ entry'[task'[v].e].per = task'[v].peek
  <2>1. task' = task
    BY <1>3, CloserFrame DEF Inv, BaseInv
  <2>2. \A e \in Entries : entry'[e] = entry[e]
                           \/ (entry[e].st = "draft" /\ entry'[e].st = "posted"
                               /\ entry'[e].per = entry[e].per)
    BY <1>3, CloserRows, FinishPublishRows, FinishRows
  <2>3. PICK e \in Entries : e = task[v].e
    BY <1>3, <1>p, <2>1
  <2>4. /\ entry[e].st # "none"
        /\ entry[e].st = "deleted" \/ entry[e].per = task[v].peek
    BY <1>3, <1>p, <2>1, <2>3
  <2>5. QED
    BY <2>1, <2>2, <2>3, <2>4
<1>4. CASE UNCHANGED vars
  BY <1>4 DEF PeekInv, vars
<1>5. QED
  BY <1>2, <1>3, <1>4 DEF Next, PeekInv

LEMMA PeekAlways == Spec => [](Inv /\ PeekInv)
<1>1. Init => Inv /\ PeekInv
  BY InvInit, PeekInit
<1>2. (Inv /\ PeekInv) /\ [Next]_vars => (Inv /\ PeekInv)'
  <2>1. ~NoneMoves => PeekInv'
    BY DEF PeekInv, NoneMoves
  <2>2. QED
    BY <2>1, InvStep, PeekStep
<1>3. QED
  BY <1>1, <1>2, PTL DEF Spec

(* Which rows of the ledger a step may touch: no posted line of a month the  *)
(* stepping writer is not in, or the stepping closer does not hold.           *)
LEMMA LinesOf ==
  ASSUME NEW p \in Periods,
         \A e \in Entries : \/ entry'[e] = entry[e]
                            \/ /\ ~(entry[e].st = "posted" /\ entry[e].per = p)
                               /\ ~(entry'[e].st = "posted" /\ entry'[e].per = p)
  PROVE  Lines(entry', p) = Lines(entry, p)
<1>1. Posted(entry', p) = Posted(entry, p)
  BY DEF Posted
<1>2. \A e \in Posted(entry, p) : entry'[e] = entry[e]
  BY DEF Posted
<1>3. QED
  BY <1>1, <1>2 DEF Lines

LEMMA ReversalCommits ==
  ASSUME BaseInv, NEW w \in Writers, WriterStep(w), entry' # entry,
         task[w].pc # "idle", task[w].op = "reverse"
  PROVE  WriterCommits(w)
<1>1. task[w].pc # "sent"
  BY DEF BaseInv, AskedInv
<1>2. QED
  BY <1>1 DEF WriterStep, StartWrite, TakeShared, ExecuteSend, ExecuteCommit, ExecuteRejected,
              WriterAborts, ledgerVars

LEMMA WriterLines ==
  ASSUME Inv, NEW w \in Writers, WriterStep(w), ~StaleReversal(w),
         NEW p \in Periods, status[p] = "closed"
  PROVE  Lines(entry', p) = Lines(entry, p)
<1>1. p \notin task[w].got
  BY DEF Inv, FenceInv
<1>2. \A e \in Entries : EntryMove(w, e)
  BY WriterRows DEF Inv
<1>3. ASSUME NEW e \in Entries
      PROVE  \/ entry'[e] = entry[e]
             \/ /\ ~(entry[e].st = "posted" /\ entry[e].per = p)
                /\ ~(entry'[e].st = "posted" /\ entry'[e].per = p)
  <2>1. entry'[e] # entry[e] /\ task[w].pc # "idle" /\ task[w].op = "reverse" /\ task[w].e = e
          => entry[e].per = task[w].peek
    BY ReversalCommits DEF StaleReversal, Inv
  <2>2. e \in Obligations /\ Exists(e) => entry[e].per = DueMonth[e]
    BY DEF Inv, RowInv
  <2>3. EntryMove(w, e)
    BY <1>2
  <2>4. QED
    BY <1>1, <2>1, <2>2, <2>3 DEF EntryMove
<1>4. QED
  BY <1>3, LinesOf

LEMMA CloserLines ==
  ASSUME Inv, NEW c \in Closers, CloserStep(c), NEW p \in Periods,
         p # job[c].per \/ (status[p] = "closed" /\ status'[p] = "closed")
  PROVE  Lines(entry', p) = Lines(entry, p)
<1>t. status \in [Periods -> {"open", "closing", "closed"}] /\ job[c].per \in Periods
  BY JobTyped DEF Inv, BaseInv, TypeOK
<1>1. CASE entry' = entry
  BY <1>1
<1>2. CASE FinishPublish(c)
  <2>1. p # job[c].per
    BY <1>t, <1>2, FinishPublishRows
  <2>2. \A e \in Entries : entry'[e] = entry[e]
                           \/ (entry[e].per = job[c].per /\ entry'[e].per = job[c].per)
    BY <1>2, FinishPublishRows
  <2>3. QED
    BY <2>1, <2>2, LinesOf
<1>3. CASE Finish(c)
  <2>1. status[job[c].per] = "closed" => job[c].posts = {}
    BY <1>3 DEF Inv, CloserInv, RouteInv, Finish
  <2>2. \A e \in Entries : \/ entry'[e] = entry[e]
                           \/ /\ e \in job[c].posts
                              /\ entry[e].per = job[c].per /\ entry'[e].per = job[c].per
    BY <1>3, FinishRows
  <2>3. QED
    BY <2>1, <2>2, LinesOf
<1>4. QED
  BY <1>1, <1>2, <1>3, CloserRows

LEMMA LinesStay ==
  ASSUME Inv, [Next]_vars, \A w \in Writers : ~StaleReversal(w),
         NEW p \in Periods, status[p] = "closed", status'[p] = "closed"
  PROVE  Lines(entry', p) = Lines(entry, p)
<1>1. CASE UNCHANGED vars
  BY <1>1 DEF vars
<1>2. QED
  BY <1>1, WriterLines, CloserLines DEF Next

(* While a month stays closed no line of its ledger appears, changes or goes, *)
(* except by the reversal of an entry that left the month it was peeked in.  *)
THEOREM OnlyStaleReversalsReach ==
  Spec => [][(\A p \in Periods : status[p] = "closed" /\ status'[p] = "closed"
                => Lines(entry', p) = Lines(entry, p))
             \/ \E w \in Writers : StaleReversal(w)]_vars
<1>1. Inv /\ [Next]_vars =>
        [(\A p \in Periods : status[p] = "closed" /\ status'[p] = "closed"
            => Lines(entry', p) = Lines(entry, p))
         \/ \E w \in Writers : StaleReversal(w)]_vars
  BY LinesStay
<1>2. QED
  BY <1>1, InvAlways, PTL DEF Spec

(* So it is frozen where no reversal is stale.                               *)
THEOREM ClosedMonthIsFrozen == Spec /\ ReversalsInPlace => FrozenWhileClosed
<1>1. ASSUME Inv, [Next]_vars, [\A w \in Writers : ~StaleReversal(w)]_vars
      PROVE  [\A p \in Periods : status[p] = "closed" /\ status'[p] = "closed"
                => Lines(entry', p) = Lines(entry, p)]_vars
  BY <1>1, LinesStay
<1>2. QED
  BY <1>1, InvAlways, PTL DEF Spec, FrozenWhileClosed, ReversalsInPlace

(* A settled month stands on closed months only.                             *)
SettledInv ==
  \A p \in Periods :
    status[p] = "closed" /\ p \notin unsettled
      => \A q \in Periods : q < p => status[q] = "closed"

LEMMA SettledInit == Init => SettledInv
<1> SUFFICES ASSUME Init PROVE SettledInv
  OBVIOUS
<1>1. PICK boundary \in {NoPeriod} \cup Periods :
        status = [p \in Periods |-> IF p <= boundary THEN "closed" ELSE "open"]
  BY DEF Init
<1>2. boundary \in Int /\ Periods \subseteq Int
  BY Constants DEF Periods
<1>3. QED
  BY <1>1, <1>2 DEF SettledInv

LEMMA SettledStep ==
  ASSUME Inv, SettledInv, [Next]_vars PROVE SettledInv'
<1>t. /\ status \in [Periods -> {"open", "closing", "closed"}]
      /\ \A c \in Closers : job[c].per \in Periods
  BY JobTyped DEF Inv, BaseInv, TypeOK
<1>1. CASE UNCHANGED <<status, unsettled>>
  BY <1>1 DEF SettledInv
<1>2. ASSUME NEW m \in Periods,
             status' = [status EXCEPT ![m] = "closing"],
             unsettled' = (unsettled \ {m}) \cup LaterClosed(m)
      PROVE  SettledInv'
  <2> SUFFICES ASSUME NEW p \in Periods, status'[p] = "closed", p \notin unsettled',
                      NEW q \in Periods, q < p
               PROVE  status'[q] = "closed"
    BY DEF SettledInv
  <2>1. p # m /\ status[p] = "closed" /\ p \notin unsettled
    BY <1>t, <1>2
  <2>2. ~(p > m)
    BY <1>2, <2>1 DEF LaterClosed
  <2>3. q # m
    BY <2>2 DEF Periods
  <2>4. QED
    BY <1>t, <1>2, <2>1, <2>3 DEF SettledInv
<1>3. ASSUME NEW m \in Periods, status' = [status EXCEPT ![m] = "closed"], Stamped(m, entry')
      PROVE  SettledInv'
  BY <1>t, <1>3 DEF SettledInv, Stamped
<1>4. ASSUME NEW c \in Closers, CloserStep(c) PROVE SettledInv'
  <2>1. CASE FinishPublish(c)
    BY <1>1, <1>2, <2>1, FinishPublishRows
  <2>2. CASE Finish(c)
    BY <1>3, <2>2, FinishRows
  <2>3. QED
    BY <1>t, <1>1, <1>2, <1>4, <2>1, <2>2, CloserRows
<1>5. ASSUME NEW w \in Writers, WriterStep(w) PROVE SettledInv'
  BY <1>1, <1>5, WriterFrame
<1>6. QED
  BY <1>1, <1>4, <1>5 DEF Next, vars, calendar

(* The statements stamped on a closed month stay those of the ledger: they   *)
(* are drawn from what is posted when it closes, in it and before it, and    *)
(* all of that is frozen while the month is settled.                         *)
THEOREM StatementsStayTrue == Spec /\ ReversalsInPlace => []StatementsMatchLedger
<1>1. Init => StatementsMatchLedger
  BY DEF Init, StatementsMatchLedger
<1>2. ASSUME Inv, SettledInv, StatementsMatchLedger, [Next]_vars,
             [\A w \in Writers : ~StaleReversal(w)]_vars
      PROVE  StatementsMatchLedger'
  <2> DEFINE next == \A p \in Periods : status'[p] = "closed" /\ p \notin unsettled'
                       => \A s \in sets'[p] : s = Statement(entry', p)
  <2>p. next => StatementsMatchLedger'
    BY DEF StatementsMatchLedger, Statement, Lines, Posted
  <2>0. CASE UNCHANGED vars
    <3>1. UNCHANGED <<status, sets, unsettled, entry>>
      BY <2>0 DEF vars, calendar, ledgerVars
    <3>2. next
      BY <1>2, <3>1 DEF StatementsMatchLedger
    <3>3. QED
      BY <2>p, <3>2
  <2> SUFFICES ASSUME \A w \in Writers : ~StaleReversal(w),
                      NEW p \in Periods, status'[p] = "closed", p \notin unsettled',
                      NEW s \in sets'[p]
               PROVE  s = Statement(entry', p)
    BY <1>2, <2>0, <2>p
  <2>t. /\ status \in [Periods -> {"open", "closing", "closed"}]
        /\ sets \in [Periods -> SUBSET [flow : SUBSET Rows, opening : SUBSET Rows]]
        /\ \A c \in Closers : job[c].per \in Periods
    BY <1>2, JobTyped DEF Inv, BaseInv, TypeOK
  <2>s. SettledInv'
    BY <1>2, SettledStep
  <2>1. ASSUME status[p] = "closed", p \notin unsettled, s \in sets[p]
        PROVE  s = Statement(entry', p)
    <3>1. \A q \in Periods : q < p => status[q] = "closed" /\ status'[q] = "closed"
      BY <1>2, <2>1, <2>s DEF SettledInv
    <3>2. Lines(entry', p) = Lines(entry, p)
      BY <1>2, <2>1, LinesStay
    <3>3. \A q \in {n \in Periods : n < p} : Lines(entry', q) = Lines(entry, q)
      BY <1>2, <3>1, LinesStay
    <3>4. {Lines(entry', q) : q \in {n \in Periods : n < p}}
            = {Lines(entry, q) : q \in {n \in Periods : n < p}}
      BY <3>3
    <3>5. Statement(entry', p) = Statement(entry, p)
      BY <3>2, <3>4 DEF Statement
    <3>6. QED
      BY <1>2, <2>1, <3>5 DEF StatementsMatchLedger
  <2>2. ASSUME NEW m \in Periods,
               status' = [status EXCEPT ![m] = "closing"],
               sets' = [sets EXCEPT ![m] = {}],
               unsettled' = (unsettled \ {m}) \cup LaterClosed(m)
        PROVE  s = Statement(entry', p)
    BY <2>t, <2>1, <2>2
  <2>3. ASSUME NEW c \in Closers, CloserStep(c) PROVE s = Statement(entry', p)
    <3>1. CASE UNCHANGED <<status, sets, unsettled>>
      BY <2>1, <3>1
    <3>2. CASE FinishPublish(c)
      BY <2>2, <3>1, <3>2, <1>2, FinishPublishRows
    <3>3. CASE Finish(c)
      <4>1. /\ status' = [status EXCEPT ![job[c].per] = "closed"]
            /\ sets' = [sets EXCEPT ![job[c].per] = {Statement(entry', job[c].per)}]
            /\ p # job[c].per => p \notin unsettled
        BY <1>2, <3>3, FinishRows DEF Stamped
      <4>2. QED
        BY <2>t, <2>1, <4>1
    <3>4. QED
      BY <2>t, <2>2, <2>3, <3>1, <3>2, <3>3, <1>2, CloserRows
  <2>4. ASSUME NEW w \in Writers, WriterStep(w) PROVE s = Statement(entry', p)
    BY <1>2, <2>1, <2>4, WriterFrame
  <2>5. QED
    BY <1>2, <2>1, <2>3, <2>4 DEF Next, vars, calendar
<1>3. Inv /\ SettledInv /\ [Next]_vars => SettledInv'
  BY SettledStep
<1>4. QED
  BY <1>1, <1>2, <1>3, SettledInit, InvAlways, PTL DEF Spec, ReversalsInPlace

(* Closing keeps the promise of PeriodBooks: every step of a closer or of a   *)
(* writer is a write outside the closed months, a close, a reopening, or      *)
(* nothing the reader of the statements can see.                              *)
THEOREM ClosesTheBooks == Spec /\ ReversalsInPlace => ImplementsBooks
<1> DEFINE ledger == [p \in Periods |-> Lines(entry, p)]
<1> USE DEF Books!Write, Books!Close, Books!Reopen, Books!BooksNext, Books!booksVars
<1>1. Init => Books!BooksInit
  <2> SUFFICES ASSUME Init PROVE Books!BooksInit
    OBVIOUS
  <2>1. status \in [Periods -> {"open", "closing", "closed"}]
    BY TypeInit DEF TypeOK
  <2>2. \A p \in Periods : Lines(entry, p) = {}
    BY DEF Init, Lines, Posted, NoEntry
  <2>3. sets = [p \in Periods |-> {}] /\ unsettled = {}
    BY DEF Init
  <2>4. QED
    BY <2>1, <2>2, <2>3 DEF Books!BooksInit
<1>2. Inv /\ [Next]_vars /\ [\A w \in Writers : ~StaleReversal(w)]_vars
        => [Books!BooksNext]_(Books!booksVars)
  <2>0. CASE UNCHANGED vars
    BY <2>0 DEF vars, calendar, ledgerVars, Lines, Posted
  <2> SUFFICES ASSUME Inv, Next, \A w \in Writers : ~StaleReversal(w)
               PROVE  Books!BooksNext \/ UNCHANGED Books!booksVars
    BY <2>0
  <2>t. /\ status \in [Periods -> {"open", "closing", "closed"}]
        /\ sets \in [Periods -> SUBSET [flow : SUBSET Rows, opening : SUBSET Rows]]
        /\ \A c \in Closers : job[c].per \in Periods
    BY JobTyped DEF Inv, BaseInv, TypeOK
  <2>r. \A p \in Periods : Lines(entry', p) \in SUBSET Rows
    <3>1. entry' \in [Entries -> EntryStates]
      BY BaseStep DEF Inv, BaseInv, TypeOK
    <3>2. QED
      BY <3>1 DEF Lines, Posted, EntryStates, Rows
  <2>w. ASSUME \A p \in Periods : status[p] = "closed" => Lines(entry', p) = Lines(entry, p),
               UNCHANGED <<status, sets, unsettled>>
        PROVE  Books!Write
    BY <2>r, <2>w
  <2>1. ASSUME NEW w \in Writers, WriterStep(w) PROVE Books!BooksNext
    <3>1. UNCHANGED <<status, sets, unsettled>>
      BY <2>1, WriterFrame
    <3>2. QED
      BY <2>1, <2>w, <3>1, WriterLines
  <2>2. ASSUME NEW c \in Closers, CloserStep(c)
        PROVE  Books!BooksNext \/ UNCHANGED Books!booksVars
    <3> DEFINE m == job[c].per
    <3>m. m \in Periods
      BY <2>t
    <3>o. \A p \in Periods \ {m} : Lines(entry', p) = Lines(entry, p)
      BY <2>2, CloserLines
    <3>e. ledger' = [ledger EXCEPT ![m] = Lines(entry', m)]
      BY <3>m, <3>o
    <3> HIDE DEF m
    <3>1. CASE UNCHANGED <<status, sets, unsettled, entry, event>>
      BY <2>w, <3>1
    <3>2. CASE /\ status[m] = "closed"
               /\ status' = [status EXCEPT ![m] = "closing"]
               /\ sets' = [sets EXCEPT ![m] = {}]
               /\ unsettled' = (unsettled \ {m}) \cup LaterClosed(m)
      <4>1. Books!Reopen(m)
        BY <2>r, <3>m, <3>e, <3>2 DEF LaterClosed
      <4>2. QED
        BY <3>m, <4>1
    <3>3. CASE UNCHANGED <<status, sets, unsettled>> /\ status[m] # "closed"
      BY <2>w, <3>m, <3>o, <3>3
    <3>4. CASE Finish(c)
      <4>1. /\ status' = [status EXCEPT ![m] = "closed"]
            /\ Stamped(m, entry')
        BY <3>4, FinishRows DEF m
      <4>2. status[m] = "closed" => Lines(entry', m) = Lines(entry, m)
        <5>1. status'[m] = "closed"
          BY <2>t, <3>m, <4>1
        <5>2. QED
          BY <2>2, <3>m, <5>1, CloserLines
      <4>3. Books!Drawn(ledger', m) = Statement(entry', m)
        <5>1. /\ ledger'[m] = Lines(entry', m)
              /\ \A q \in {n \in Periods : n < m} : ledger'[q] = Lines(entry', q)
          BY <3>m
        <5> HIDE DEF ledger
        <5>2. {ledger'[q] : q \in {n \in Periods : n < m}}
                = {Lines(entry', q) : q \in {n \in Periods : n < m}}
          BY <5>1
        <5>3. QED
          BY <5>1, <5>2 DEF Books!Drawn, Statement
      <4>4. /\ sets' = [sets EXCEPT ![m] = {Books!Drawn(ledger', m)}]
            /\ unsettled' = IF \A n \in Periods : n < m => status[n] = "closed"
                            THEN unsettled \ {m} ELSE unsettled \cup {m}
        BY <4>1, <4>3 DEF Stamped
      <4>5. Books!Close(m)
        BY <2>r, <3>m, <3>e, <4>1, <4>2, <4>4
      <4>6. QED
        BY <3>m, <4>5
    <3>5. QED
      BY <2>2, <3>1, <3>2, <3>3, <3>4, CloserRows, FinishPublishRows DEF Reopen, m
  <2>3. QED
    BY <2>1, <2>2 DEF Next
<1>3. QED
  BY <1>1, <1>2, InvAlways, PTL DEF Spec, ImplementsBooks, Books!BooksSpec, ReversalsInPlace

(* And no reversal is stale where edits move no entry, or where requests take *)
(* turns: the code's promises hold there without a condition.                *)
THEOREM BooksHoldWhereNoneMoves ==
  ASSUME NoneMoves
  PROVE  Spec => FrozenWhileClosed /\ []StatementsMatchLedger /\ ImplementsBooks
<1>1. Inv /\ PeekInv => [\A w \in Writers : ~StaleReversal(w)]_vars
  <2> SUFFICES ASSUME Inv, PeekInv, NEW w \in Writers, StaleReversal(w)
               PROVE  FALSE
    OBVIOUS
  <2>1. task[w].pc # "idle" /\ entry[task[w].e].st = "posted"
    BY DEF StaleReversal, WriterCommits, CreateEntry, UpdateEntry, DeleteEntry, ReverseEntry,
           VoidEvent, Promote, Classify, Approve, Ready
  <2>2. QED
    BY <2>1 DEF StaleReversal, PeekInv
<1>2. Spec => ReversalsInPlace
  BY <1>1, PeekAlways, PTL DEF ReversalsInPlace
<1>3. QED
  BY <1>2, ClosedMonthIsFrozen, StatementsStayTrue, ClosesTheBooks, PTL

=============================================================================
