------------------------- MODULE QueryBridgesProofs -------------------------
(* Proofs about QueryBridges, for any callers and any queries: the callers  *)
(* implement the queue, so what QueryQueueProofs proves holds among them,   *)
(* and no bridge leaves a query of its own waiting.                         *)
EXTENDS QueryBridges, QueryQueueProofs

-----------------------------------------------------------------------------
(* What the callers know of their queries *)

\* The caller's query was submitted.
Called(c) == query[c] \in Queries /\ status[query[c]] # "new"

\* A caller has a query from its submission on, and a refused one never has.
CallInv ==
  \A c \in Callers :
    /\ phase[c] = "idle" => query[c] = NoQuery
    /\ phase[c] \notin {"idle", "done"} => Called(c)
    /\ phase[c] = "done" => query[c] = NoQuery \/ Called(c)

BInv == IInv /\ CallersTypeOK /\ CallInv /\ NothingLeftWaiting

LEMMA CallerSets ==
  /\ \A b \in Bridges : b \in Callers
  /\ \A s \in Streams : s \in Callers
BY DEF Callers

-----------------------------------------------------------------------------
(* Steps of the queue *)

\* A query that was submitted stays so, and cannot wait again.
LEMMA QueueKeeps ==
  ASSUME IInv, [Next]_vars, NEW q \in Queries, status[q] # "new"
  PROVE  status'[q] # "new" /\ (~Cancellable(q) => ~Cancellable(q)')
<1>1. CASE UNCHANGED vars
  BY <1>1 DEF vars, Cancellable
<1>2. CASE \E r \in Queries : Submit(r)
  <2>1. PICK r \in Queries : Submit(r)
    BY <1>2
  <2>2. r # q /\ status'[q] = status[q] /\ (q \in records' <=> q \in records)
    BY <2>1 DEF Submit, IInv, TypeOK
  <2> QED BY <2>2 DEF Cancellable
<1>3. CASE \E r \in Queries : Dispatch(r) \/ Execute(r) \/ Forget(r) \/ Cancel(r)
  <2>1. PICK r \in Queries : Dispatch(r) \/ Execute(r) \/ Forget(r) \/ Cancel(r)
    BY <1>3
  <2>2. /\ records' \subseteq records
        /\ status'[q] = status[q] \/ status'[q] \in {"running"} \union Finished
    BY <2>1 DEF Dispatch, Execute, Finish, Forget, Cancel, IInv, TypeOK, Finished
  <2> QED BY <2>2 DEF Cancellable, Finished
<1> QED BY <1>1, <1>2, <1>3 DEF Next, QueueStep

\* What a queue's step does to callers that do not move.
LEMMA CallersWatch ==
  ASSUME BInv, [Next]_vars, UNCHANGED callers
  PROVE  BInv'
<1>1. IInv'
  BY Step DEF BInv
<1>2. CallersTypeOK'
  BY DEF BInv, CallersTypeOK, callers
<1>3. CallInv'
  <2> SUFFICES ASSUME NEW c \in Callers PROVE Called(c) => Called(c)'
    BY DEF CallInv, BInv, callers
  <2> QED BY QueueKeeps DEF Called, BInv, callers
<1>4. NothingLeftWaiting'
  <2> SUFFICES ASSUME NEW b \in Bridges, phase[b] = "done", query[b] # NoQuery
               PROVE  ~Cancellable(query[b])'
    BY DEF NothingLeftWaiting, callers
  <2>1. ~Cancellable(query[b]) /\ Called(b)
    BY CallerSets DEF BInv, NothingLeftWaiting, CallInv
  <2>2. ~Cancellable(query[b])'
    BY <2>1, QueueKeeps DEF Called, BInv, callers, Cancellable
  <2> QED BY <2>2
<1> QED BY <1>1, <1>2, <1>3, <1>4 DEF BInv

-----------------------------------------------------------------------------
(* Steps of the callers *)

\* The status word is never one of those the bridge compares it with.
LEMMA TextNeverMatches ==
  ASSUME NEW s \in QueryStatus \ {"new"}
  PROVE  Text[s] \notin {"completed", "failed", "cancelled"}
BY DEF QueryStatus, Finished, Text

\* What a caller is told of its query: "none" only of one that has no record.
LEMMA Reports ==
  ASSUME NEW q, q \in Queries, status[q] # "new", TypeOK
  PROVE  /\ Report(q) \in (QueryStatus \ {"new"}) \union {"none"}
         /\ Report(q) = "none" => ~Cancellable(q)
<1>1. status[q] \in QueryStatus \ {"new"} /\ {"running", "pending"} \subseteq QueryStatus \ {"new"}
  BY DEF TypeOK, QueryStatus
<1>2. "none" \notin QueryStatus
  BY DEF QueryStatus, Finished
<1> QED BY <1>1, <1>2 DEF Report, Cancellable

\* Every step of the callers is a step of the queue's, or none.
LEMMA QueueUnderneath ==
  ASSUME BInv, [BridgesNext]_allVars
  PROVE  [Next]_vars
<1>1. CASE UNCHANGED allVars
  BY <1>1 DEF allVars
<1>2. CASE QueueStep \/ \E q \in Queries : Submit(q)
  BY <1>2 DEF Next
<1>3. CASE \E c \in Callers : Refused(c) \/ \E q \in Queries : Open(c, q)
  BY <1>3 DEF Refused, Open, Next
<1>4. CASE \E b \in Bridges : BridgeStep(b)
  <2>1. PICK b \in Bridges : BridgeStep(b)
    BY <1>4
  <2>2. CASE Abandon(b)
    <3>1. query[b] \in Queries
      BY <2>2, CallerSets DEF Abandon, BInv, CallInv, Called
    <3> QED BY <2>2, <3>1 DEF Abandon, Next
  <2>3. CASE Poll(b) \/ \E why \in {"timeout", "disconnected"} : GiveUp(b, why)
    BY <2>3 DEF Poll, GiveUp
  <2> QED BY <2>1, <2>2, <2>3 DEF BridgeStep
<1>5. CASE \E s \in Streams : StreamStep(s)
  BY <1>5 DEF StreamStep, Watch, StreamRows, MarkCompleted, Disconnect
<1> QED BY <1>1, <1>2, <1>3, <1>4, <1>5 DEF BridgesNext

\* A caller that goes on with the query it has.
LEMMA CallerMoves ==
  ASSUME BInv, [Next]_vars, NEW c \in Callers, NEW next \in Phases \ {"idle"},
         phase[c] \notin {"idle", "done"}, phase' = [phase EXCEPT ![c] = next],
         query' = query, CallersTypeOK',
         c \in Bridges /\ next = "done" => ~Cancellable(query[c])'
  PROVE  BInv'
<1>1. IInv'
  BY Step DEF BInv
<1>2. \A d \in Callers : /\ Called(d) => Called(d)'
                         /\ phase'[d] = IF d = c THEN next ELSE phase[d]
  BY QueueKeeps DEF BInv, Called, CallersTypeOK
<1>3. CallInv'
  BY <1>2 DEF BInv, CallInv
<1>4. NothingLeftWaiting'
  <2> SUFFICES ASSUME NEW b \in Bridges, phase'[b] = "done", query[b] # NoQuery
               PROVE  ~Cancellable(query[b])'
    BY DEF NothingLeftWaiting
  <2>1. CASE b = c
    BY <1>2, <2>1
  <2>2. CASE b # c
    <3>1. ~Cancellable(query[b]) /\ Called(b)
      BY <1>2, <2>2, CallerSets DEF BInv, NothingLeftWaiting, CallInv
    <3>2. ~Cancellable(query[b])'
      BY <3>1, QueueKeeps DEF Called, BInv, Cancellable
    <3> QED BY <3>2
  <2> QED BY <2>1, <2>2
<1> QED BY <1>1, <1>3, <1>4 DEF BInv

LEMMA OpenStep ==
  ASSUME BInv, NEW c \in Callers, NEW q \in Queries, Open(c, q)
  PROVE  BInv'
<1>1. [Next]_vars
  BY DEF Open, Next
<1>2. IInv'
  BY <1>1, Step DEF BInv
<1>3. CallersTypeOK'
  BY DEF Open, Reach, BInv, CallersTypeOK, Phases
<1>4. /\ \A d \in Callers : d # c => phase'[d] = phase[d] /\ query'[d] = query[d]
      /\ phase'[c] = "polling" /\ query'[c] = q /\ status'[q] = "pending"
  BY DEF Open, Reach, Submit, BInv, IInv, TypeOK, CallersTypeOK
<1>5. \A d \in Callers : d # c /\ Called(d) => Called(d)'
  BY <1>1, <1>4, QueueKeeps DEF BInv, Called
<1>6. CallInv'
  <2>1. Called(c)'
    BY <1>4 DEF Called
  <2> QED BY <1>4, <1>5, <2>1 DEF BInv, CallInv
<1>7. NothingLeftWaiting'
  <2> SUFFICES ASSUME NEW b \in Bridges, phase'[b] = "done", query'[b] # NoQuery
               PROVE  ~Cancellable(query[b])'
    BY DEF NothingLeftWaiting
  <2>1. b # c /\ b \in Callers
    BY <1>4, CallerSets
  <2>2. ~Cancellable(query[b]) /\ Called(b) /\ query'[b] = query[b]
    BY <1>4, <2>1 DEF BInv, NothingLeftWaiting, CallInv
  <2>3. ~Cancellable(query[b])'
    BY <1>1, <2>2, QueueKeeps DEF Called, BInv, Cancellable
  <2> QED BY <2>3
<1> QED BY <1>2, <1>3, <1>6, <1>7 DEF BInv

LEMMA RefusedStep ==
  ASSUME BInv, NEW c \in Callers, Refused(c)
  PROVE  BInv'
<1>1. /\ \A d \in Callers : d # c => phase'[d] = phase[d]
      /\ phase'[c] = "done" /\ query[c] = NoQuery /\ UNCHANGED <<vars, query>>
  BY DEF Refused, End, Reach, BInv, CallersTypeOK, CallInv
<1>2. IInv'
  BY <1>1, Step DEF BInv
<1>3. CallersTypeOK'
  BY DEF Refused, End, Reach, BInv, CallersTypeOK, Phases, Answers
<1>4. CallInv'
  BY <1>1 DEF BInv, CallInv, Called, vars
<1>5. NothingLeftWaiting'
  BY <1>1, CallerSets DEF BInv, NothingLeftWaiting, Cancellable, vars
<1> QED BY <1>2, <1>3, <1>4, <1>5 DEF BInv

LEMMA PollStep ==
  ASSUME BInv, NEW b \in Bridges, Poll(b)
  PROVE  BInv'
<1> DEFINE s == Report(query[b])
<1>1. /\ phase[b] = "polling" /\ b \in Callers /\ UNCHANGED <<vars, query, rows>>
      /\ seen' = [seen EXCEPT ![b] = s] /\ [Next]_vars
  BY CallerSets DEF Poll
<1>2. query[b] \in Queries /\ status[query[b]] # "new" /\ TypeOK
  BY <1>1 DEF BInv, CallInv, Called, IInv
<1>3. s \in (QueryStatus \ {"new"}) \union {"none"} /\ (s = "none" => ~Cancellable(query[b]))
  BY <1>2, Reports
<1>4. \/ s = "none" /\ End(b, "done", "lost")
      \/ s # "none" /\ UNCHANGED <<phase, answer>>
  <2>1. CASE s = "none"
    BY <2>1 DEF Poll
  <2>2. CASE s # "none"
    <3>1. Text[s] \notin {"completed", "failed", "cancelled"}
      BY <1>3, <2>2, TextNeverMatches
    <3> QED BY <2>2, <3>1 DEF Poll
  <2> QED BY <2>1, <2>2
<1> HIDE DEF s
<1>5. CallersTypeOK'
  BY <1>1, <1>3, <1>4 DEF End, Reach, BInv, CallersTypeOK, Phases, Answers
<1>6. CASE s = "none"
  <2>1. phase' = [phase EXCEPT ![b] = "done"] /\ ~Cancellable(query[b])'
    BY <1>1, <1>3, <1>4, <1>6 DEF End, Reach, Cancellable, vars
  <2> QED BY <1>1, <1>5, <2>1, CallerMoves DEF Phases
<1>7. CASE s # "none"
  <2>1. phase' = [phase EXCEPT ![b] = "polling"]
    BY <1>1, <1>4, <1>7 DEF BInv, CallersTypeOK
  <2> QED BY <1>1, <1>5, <2>1, CallerMoves DEF Phases
<1> QED BY <1>6, <1>7

LEMMA GiveUpStep ==
  ASSUME BInv, NEW b \in Bridges, NEW why \in {"timeout", "disconnected"}, GiveUp(b, why)
  PROVE  BInv'
<1>1. /\ phase[b] = "polling" /\ b \in Callers /\ [Next]_vars /\ query' = query
      /\ phase' = [phase EXCEPT ![b] = "unsettled"]
  BY CallerSets DEF GiveUp, End, Reach
<1>2. CallersTypeOK'
  BY <1>1 DEF GiveUp, End, BInv, CallersTypeOK, Phases, Answers
<1> QED BY <1>1, <1>2, CallerMoves DEF Phases

LEMMA AbandonStep ==
  ASSUME BInv, NEW b \in Bridges, Abandon(b)
  PROVE  BInv'
<1>1. /\ phase[b] = "unsettled" /\ b \in Callers /\ query' = query
      /\ phase' = [phase EXCEPT ![b] = "done"]
  BY CallerSets DEF Abandon, Reach
<1>2. query[b] \in Queries
  BY <1>1 DEF BInv, CallInv, Called
<1>3. CallersTypeOK'
  BY <1>1 DEF Abandon, BInv, CallersTypeOK, Phases
<1>4. [Next]_vars
  BY <1>2 DEF Abandon, Next
<1>5. ~Cancellable(query[b])'
  <2>1. CASE Cancellable(query[b])
    BY <1>1, <1>2, <2>1 DEF Abandon, Cancel, Cancellable, BInv, IInv, TypeOK
  <2>2. CASE ~Cancellable(query[b])
    BY <1>1, <2>2 DEF Abandon, Cancellable, vars
  <2> QED BY <2>1, <2>2
<1> QED BY <1>1, <1>3, <1>4, <1>5, CallerMoves DEF Phases

LEMMA StreamsStep ==
  ASSUME BInv, NEW s \in Streams, StreamStep(s)
  PROVE  BInv'
<1>1. s \in Callers /\ s \notin Bridges /\ query' = query /\ [Next]_vars
      /\ phase[s] \in {"polling", "streaming", "marking"}
  BY CallerSets, CallersAssumption
  DEF StreamStep, Watch, StreamRows, MarkCompleted, Disconnect
<1>2. query[s] \in Queries /\ status[query[s]] # "new" /\ TypeOK
  BY <1>1 DEF BInv, CallInv, Called, IInv
<1>3. Report(query[s]) \in (QueryStatus \ {"new"}) \union {"none"}
  BY <1>2, Reports
<1>4. PICK next \in Phases \ {"idle"} : phase' = [phase EXCEPT ![s] = next]
  <2>1. phase = [phase EXCEPT ![s] = phase[s]] /\ phase[s] \in Phases \ {"idle"}
    BY <1>1 DEF BInv, CallersTypeOK, Phases
  <2> QED BY <2>1 DEF StreamStep, Watch, StreamRows, MarkCompleted, Disconnect, End, Reach, Phases
<1>5. CallersTypeOK'
  <2>1. answer' \in [Callers -> Answers]
    BY <1>1 DEF StreamStep, Watch, StreamRows, MarkCompleted, Disconnect, End, Reach, BInv,
                CallersTypeOK, Answers
  <2>2. seen' \in [Callers -> (QueryStatus \ {"new"}) \union {"none"}]
    BY <1>3 DEF StreamStep, Watch, StreamRows, MarkCompleted, Disconnect, BInv, CallersTypeOK
  <2>3. rows' \in [Streams -> BOOLEAN]
    BY DEF StreamStep, Watch, StreamRows, MarkCompleted, Disconnect, BInv, CallersTypeOK
  <2>4. phase' \in [Callers -> Phases]
    BY <1>4 DEF BInv, CallersTypeOK
  <2> QED BY <1>1, <2>1, <2>2, <2>3, <2>4 DEF BInv, CallersTypeOK
<1> QED BY <1>1, <1>4, <1>5, CallerMoves

-----------------------------------------------------------------------------
(* The theorems *)

LEMMA BridgesStart == BridgesInit => BInv
<1> SUFFICES ASSUME BridgesInit PROVE BInv
  OBVIOUS
<1>1. IInv
  BY Start DEF BridgesInit
<1>2. CallersTypeOK
  BY DEF BridgesInit, CallersTypeOK, Phases, Answers
<1>3. CallInv /\ NothingLeftWaiting
  BY CallerSets DEF BridgesInit, CallInv, NothingLeftWaiting
<1> QED BY <1>1, <1>2, <1>3 DEF BInv

LEMMA BridgesPreserve == BInv /\ [BridgesNext]_allVars => BInv'
<1> SUFFICES ASSUME BInv, [BridgesNext]_allVars PROVE BInv'
  OBVIOUS
<1>1. CASE \/ UNCHANGED allVars
           \/ (QueueStep \/ \E q \in Queries : Submit(q)) /\ UNCHANGED callers
  BY <1>1, QueueUnderneath, CallersWatch DEF allVars
<1>2. CASE \E c \in Callers : Refused(c) \/ \E q \in Queries : Open(c, q)
  BY <1>2, RefusedStep, OpenStep
<1>3. CASE \E b \in Bridges : BridgeStep(b)
  BY <1>3, PollStep, GiveUpStep, AbandonStep DEF BridgeStep
<1>4. CASE \E s \in Streams : StreamStep(s)
  BY <1>4, StreamsStep
<1> QED BY <1>1, <1>2, <1>3, <1>4 DEF BridgesNext

LEMMA BridgesHold == BridgesSpec => []BInv
BY BridgesStart, BridgesPreserve, PTL DEF BridgesSpec

\* MCP bridges, SSE streams and the other requests together drive the queue by its
\* own operations only: each of their steps is one of QueryQueue or leaves it alone.
THEOREM CallersImplementQueue == BridgesSpec => ImplementsQueue
<1>1. BridgesInit => Init
  BY DEF BridgesInit
<1>2. BInv /\ [BridgesNext]_allVars => [Next]_vars
  BY QueueUnderneath
<1> QED BY <1>1, <1>2, BridgesHold, PTL DEF BridgesSpec, ImplementsQueue, Spec

\* Callers keep their types; in particular none polls for a query it did not submit.
THEOREM CallersTypeCorrect == BridgesSpec => []CallersTypeOK
<1>1. BInv => CallersTypeOK
  BY DEF BInv
<1> QED BY <1>1, BridgesHold, PTL

\* A bridge's call that ended, however it ended, leaves no query of its own waiting,
\* for any number of bridges and streams.
THEOREM BridgesCleanUp == BridgesSpec => []NothingLeftWaiting
<1>1. BInv => NothingLeftWaiting
  BY DEF BInv
<1> QED BY <1>1, BridgesHold, PTL

\* What is proved of the queue alone holds among its callers: exact counts, the
\* limits, and outcomes that are settled once.
THEOREM QueueAmongCallers ==
  BridgesSpec => [](TypeOK /\ CountsMatchWork /\ NothingStranded) /\ FinishedIsFinal
BY CallersImplementQueue, TypeCorrect, CountsExact, NoQueryStranded, OutcomesFinal, PTL
DEF ImplementsQueue

\* The callers add no assumption to the queue's fairness: with it, their system is
\* the fair queue, whoever stops looking at a query.
THEOREM CallersImplementFairQueue == BridgesFairSpec => FairSpec
BY CallersImplementQueue, PTL DEF BridgesFairSpec, FairSpec, ImplementsQueue

=============================================================================
