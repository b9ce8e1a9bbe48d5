-------------------------- MODULE EventStoreProofs --------------------------
(* Proofs about EventStore, for any sets of writers, checkpoints and keys. *)
EXTENDS EventStore, TLAPS

-----------------------------------------------------------------------------
(* Types *)

\* The ladder's tables are total on their domains.
LEMMA LadderTypes ==
  /\ \A e \in Event : NextStatus[e] \in Status
  /\ \A s \in Status : StatusPriority[s] \in {0, 1, 2}
BY DEF Event, Status, NextStatus, StatusPriority, TerminalStatuses, TerminalFailureStatuses

\* Its rows, one by one.
LEMMA LadderRows ==
  /\ NextStatus["started"] = "running" /\ NextStatus["resumed"] = "running"
  /\ NextStatus["completed"] = "completed"
  /\ NextStatus["error"] = "failed"
  /\ NextStatus["cancelled"] = "cancelled"
  /\ NextStatus["awaiting_input"] = "awaiting_input"
BY DEF NextStatus, Event

\* Whatever is stored, the request stays a request.
LEMMA RequestTypes ==
  ASSUME NEW r \in Requests, NEW e \in Event, NEW k \in Requests
  PROVE  ApplyInputRequest(r, e, k) \in Requests
BY DEF ApplyInputRequest, Requests

\* Reading a snapshot and finishing a call keep every variable in its type.
LEMMA ReadType ==
  ASSUME TypeOK, NEW w \in Writers, NEW e \in Event, NEW k \in Requests, Read(w, e, k)
  PROVE  /\ pc' \in [Writers -> {"idle", "write", "evict"}]
         /\ call' \in [Writers -> Call]
         /\ UNCHANGED <<meta, cached>>
BY DEF TypeOK, Read, Call, Snapshot, meta

LEMMA FinishType ==
  ASSUME TypeOK, NEW w \in Writers, NEW next \in {"idle", "evict"}, Finish(w, next)
  PROVE  /\ pc' \in [Writers -> {"idle", "write", "evict"}]
         /\ call' \in [Writers -> Call]
BY DEF TypeOK, Finish, Call, Snapshot, NoCall, Fresh, Event, Status, Requests

LEMMA PutType ==
  ASSUME TypeOK, NEW w \in Writers, NEW carried \in SUBSET ResultKeys,
         Put(w, carried), UNCHANGED cached
  PROVE  TypeOK'
<1>1. call[w] \in Call
  BY DEF TypeOK
<1>2. status' \in Status
  BY <1>1, LadderTypes DEF Put, New, Call
<1>3. request' \in Requests
  BY <1>1, RequestTypes DEF Put, Call, Snapshot
<1>4. result' \subseteq ResultKeys
  BY <1>1 DEF Put, Call, Snapshot
<1>5. pc' \in [Writers -> {"idle", "write", "evict"}] /\ call' \in [Writers -> Call]
  BY FinishType DEF Put
<1> QED
  BY <1>2, <1>3, <1>4, <1>5 DEF Put, TypeOK, cached

LEMMA SkipType ==
  ASSUME TypeOK, NEW w \in Writers, Skip(w), UNCHANGED cached
  PROVE  TypeOK'
BY FinishType DEF Skip, TypeOK, meta, cached

LEMMA TypeStep == TypeOK /\ [Next]_vars => TypeOK'
<1> SUFFICES ASSUME TypeOK, [Next]_vars PROVE TypeOK'
  OBVIOUS
<1> USE DEF Writers
<1>1. ASSUME NEW w \in AsyncWriters, NEW e \in Event, NEW k \in Requests, AsyncRead(w, e, k)
      PROVE  TypeOK'
  BY <1>1, ReadType DEF AsyncRead, TypeOK, meta, cached
<1>2. ASSUME NEW w \in AsyncWriters, NEW c \in SUBSET ResultKeys, AsyncWrite(w, c)
      PROVE  TypeOK'
  BY <1>2, PutType, SkipType DEF AsyncWrite
<1>3. ASSUME NEW w \in Writers, Evict(w) \/ EvictionFails(w)
      PROVE  TypeOK'
  BY <1>3, FinishType DEF Evict, EvictionFails, TypeOK, meta
<1>4. ASSUME NEW w \in Recorders, RecordRead(w)
      PROVE  TypeOK'
  <2>1. "started" \in Event /\ NoRequest \in Requests
    BY DEF Event, Requests
  <2> QED BY <1>4, <2>1, ReadType DEF RecordRead, TypeOK, meta, cached
<1>5. ASSUME NEW w \in Recorders, NEW key \in ResultKeys, RecordWrite(w, key)
      PROVE  TypeOK'
  <2>1. call[w] \in Call
    BY DEF TypeOK
  <2>2. /\ pc' \in [Writers -> {"idle", "write", "evict"}]
        /\ call' \in [Writers -> Call]
    BY <1>5, FinishType DEF RecordWrite
  <2> QED BY <1>5, <2>1, <2>2 DEF RecordWrite, TypeOK, Call, Snapshot, cached
<1>6. ASSUME NEW w \in Writers, NEW e \in Event, NEW k \in Requests, SyncRead(w, e, k)
      PROVE  TypeOK'
  BY <1>6, ReadType DEF SyncRead, TypeOK, meta, cached
<1>7. ASSUME NEW w \in Writers, NEW c \in SUBSET ResultKeys, SyncWrite(w, c)
      PROVE  TypeOK'
  BY <1>7, PutType, SkipType DEF SyncWrite
<1>8. ASSUME NEW w \in Reapers, ReaperRead(w)
      PROVE  TypeOK'
  <2>1. "error" \in Event /\ NoRequest \in Requests
    BY DEF Event, Requests
  <2> QED BY <1>6, <1>8, <2>1 DEF ReaperRead
<1>9. CASE Expire
  BY <1>9 DEF Expire, TypeOK, Requests, cached
<1>10. CASE UNCHANGED vars
  BY <1>10 DEF vars, meta, TypeOK, cached
<1> QED
  BY <1>1, <1>2, <1>3, <1>4, <1>5, <1>6, <1>7, <1>8, <1>9, <1>10
  DEF Next, CasNext, AsyncStep, RecordStep, SyncStep, ReaperStep

LEMMA InitType == Init => TypeOK
<1> SUFFICES ASSUME Init PROVE TypeOK
  OBVIOUS
<1>1. NoCall \in Call
  BY DEF NoCall, Fresh, Call, Snapshot, Status, Event, Requests
<1>2. envelope \in BOOLEAN /\ missed \in BOOLEAN
  BY DEF Init
<1> QED BY <1>1, <1>2 DEF Init, TypeOK, Status, Requests

\* Every variable of the store keeps its type.
THEOREM TypeCorrect == Spec => []TypeOK
BY InitType, TypeStep, PTL DEF Spec

-----------------------------------------------------------------------------
(* The compare-and-set writers implement the ladder *)

\* A writer whose WATCH is intact holds the metadata as it is now: the heart of
\* the compare-and-set path.
WatchIsFresh ==
  \A w \in watching :
    /\ pc[w] = "write"
    /\ status # Absent
    /\ call[w].snap = [status |-> status, request |-> request, result |-> result]

\* Only a pause carries a checkpoint.
PauseCarriesCheckpoint ==
  \A w \in Writers : call[w].event = "awaiting_input" => call[w].asked # NoRequest

CasInv == TypeOK /\ WatchIsFresh /\ PauseCarriesCheckpoint

LEMMA CasIsSpec == CasNext => Next
BY DEF Next

LEMMA PauseStep ==
  ASSUME TypeOK, PauseCarriesCheckpoint, [Next]_vars
  PROVE  PauseCarriesCheckpoint'
<1>1. ASSUME NEW w \in Writers, NEW e \in Event, NEW k \in Requests, Read(w, e, k)
      PROVE  PauseCarriesCheckpoint'
  BY <1>1 DEF Read, PauseCarriesCheckpoint, TypeOK
<1>2. ASSUME NEW w \in Writers, NEW next, Finish(w, next)
      PROVE  PauseCarriesCheckpoint'
  BY <1>2 DEF Finish, NoCall, PauseCarriesCheckpoint, TypeOK
<1>3. ASSUME UNCHANGED call
      PROVE  PauseCarriesCheckpoint'
  BY <1>3 DEF PauseCarriesCheckpoint
<1>4. "started" \in Event /\ "error" \in Event /\ NoRequest \in Requests
  BY DEF Event, Requests
<1> QED
  BY <1>1, <1>2, <1>3, <1>4
  DEF Next, CasNext, AsyncStep, RecordStep, SyncStep, ReaperStep, AsyncRead, AsyncWrite,
      RecordRead, RecordWrite, SyncRead, SyncWrite, ReaperRead, Evict, EvictionFails, Expire,
      Put, Skip,
      Writers, vars

\* The ladder's instance reads the same status tables as the store.
LEMMA SharedTables ==
  /\ Ladder!Absent = Absent
  /\ Ladder!NoRequest = NoRequest
  /\ Ladder!Event = Event
  /\ Ladder!NextStatus = NextStatus
  /\ \A c, n : Ladder!TransitionAllowed(c, n) <=> TransitionAllowed(c, n)
  /\ \A r, e, k : Ladder!ApplyInputRequest(r, e, k) = ApplyInputRequest(r, e, k)
<1>1. Ladder!Absent = Absent /\ Ladder!NoRequest = NoRequest /\ Ladder!Event = Event
  BY DEF Ladder!Absent, Absent, Ladder!NoRequest, NoRequest, Ladder!Event, Event
<1>2. Ladder!NextStatus = NextStatus
  BY <1>1, Zenon DEF Ladder!NextStatus, NextStatus
<1>3. Ladder!TerminalStatuses = TerminalStatuses
  BY DEF Ladder!TerminalStatuses, TerminalStatuses,
         Ladder!TerminalFailureStatuses, TerminalFailureStatuses
<1>4. Ladder!StatusPriority = StatusPriority
  BY Zenon DEF Ladder!StatusPriority, StatusPriority, Ladder!Status, Status,
               Ladder!TerminalStatuses, TerminalStatuses,
               Ladder!TerminalFailureStatuses, TerminalFailureStatuses
<1>5. \A c, n : Ladder!TransitionAllowed(c, n) <=> TransitionAllowed(c, n)
  BY <1>3, <1>4 DEF Ladder!TransitionAllowed, TransitionAllowed
<1>6. \A r, e, k : Ladder!ApplyInputRequest(r, e, k) = ApplyInputRequest(r, e, k)
  BY <1>1, Zenon DEF Ladder!ApplyInputRequest, ApplyInputRequest
<1> QED BY <1>1, <1>2, <1>5, <1>6

\* A compare-and-set write is a step of the ladder.
LEMMA PutIsLadderStep ==
  ASSUME CasInv, NEW w \in Writers, w \in watching, Allowed(w),
         NEW c \in SUBSET ResultKeys, Put(w, c)
  PROVE  Ladder!Next
<1> DEFINE e == call[w].event
           k == call[w].asked
<1>1. e \in Event /\ k \in Checkpoints \union {NoRequest}
  BY DEF CasInv, TypeOK, Call, Requests
<1>2. status # Absent /\ call[w].snap.status = status /\ call[w].snap.request = request
  BY DEF CasInv, WatchIsFresh
<1>3. e = "awaiting_input" => k # NoRequest
  BY DEF CasInv, PauseCarriesCheckpoint
<1>4. Ladder!Advance(e, k)
  BY <1>2, <1>3, SharedTables DEF Put, Allowed, New, Ladder!Advance
<1> QED BY <1>1, <1>4, SharedTables DEF Ladder!Next

\* It holds beside writers of the other kinds, too: whatever they write dirties
\* the watched key.
LEMMA CasInvStep == CasInv /\ [Next]_vars => CasInv'
<1> SUFFICES ASSUME CasInv, [Next]_vars PROVE CasInv'
  OBVIOUS
<1>1. TypeOK' /\ PauseCarriesCheckpoint'
  BY TypeStep, PauseStep DEF CasInv
<1>2. WatchIsFresh'
  <2> USE DEF CasInv, WatchIsFresh
  <2>1. ASSUME NEW w \in Writers, NEW e \in Event, NEW k \in Requests, SyncRead(w, e, k)
        PROVE  WatchIsFresh'
    BY <2>1 DEF SyncRead, Read, TypeOK, meta
  <2>2. ASSUME NEW w \in Writers, NEW c \in SUBSET ResultKeys, SyncWrite(w, c)
        PROVE  WatchIsFresh'
    <3>1. CASE Allowed(w) /\ w \in watching
      BY <2>2, <3>1 DEF SyncWrite, Put
    <3>2. CASE ~(Allowed(w) /\ w \in watching)
      BY <2>2, <3>2 DEF SyncWrite, Skip, Finish, TypeOK, meta
    <3> QED BY <3>1, <3>2
  <2>3. ASSUME NEW w \in Writers, Evict(w) \/ EvictionFails(w)
        PROVE  WatchIsFresh'
    BY <2>3 DEF Evict, EvictionFails, Finish, TypeOK, meta
  <2>4. CASE Expire
    BY <2>4 DEF Expire
  <2>5. CASE UNCHANGED vars
    BY <2>5 DEF vars, meta
  <2>6. "error" \in Event /\ NoRequest \in Requests
    BY DEF Event, Requests
  <2>7. ASSUME NEW w \in Writers, NEW e, NEW k, Read(w, e, k), UNCHANGED watching
        PROVE  WatchIsFresh'
    BY <2>7 DEF Read, TypeOK, meta
  <2>8. ASSUME NEW w \in Writers, NEW c, AsyncWrite(w, c)
        PROVE  WatchIsFresh'
    BY <2>8 DEF AsyncWrite, Put, Skip, Finish, TypeOK, meta
  <2>9. ASSUME NEW w \in Writers, NEW key, RecordWrite(w, key)
        PROVE  WatchIsFresh'
    BY <2>9 DEF RecordWrite
  <2> QED
    BY <2>1, <2>2, <2>3, <2>4, <2>5, <2>6, <2>7, <2>8, <2>9
    DEF Next, CasNext, SyncStep, ReaperStep, ReaperRead, AsyncStep, AsyncRead, RecordStep,
        RecordRead, Writers
<1> QED BY <1>1, <1>2 DEF CasInv

LEMMA CasInvInit == Init => CasInv
BY InitType
  DEF Init, CasInv, WatchIsFresh, PauseCarriesCheckpoint, NoCall

LEMMA CasInvHolds == CasSpec => []CasInv
<1>1. CasInv /\ [CasNext]_vars => CasInv'
  BY CasInvStep, CasIsSpec
<1> QED BY <1>1, CasInvInit, PTL DEF CasSpec

\* However many processes race to store events, an operation written only by
\* the compare-and-set path behaves as the ladder promises.
THEOREM CasImplementsLadder == CasSpec => ImplementsLadder
<1>1. Init => Ladder!Init
  BY SharedTables DEF Init, Ladder!Init
<1>2. CasInv /\ [CasNext]_vars => [Ladder!Next]_(Ladder!ladderVars)
  <2> SUFFICES ASSUME CasInv, [CasNext]_vars
               PROVE  Ladder!Next \/ UNCHANGED Ladder!ladderVars
    OBVIOUS
  <2>1. ASSUME NEW w \in Writers, NEW c \in SUBSET ResultKeys, SyncWrite(w, c)
        PROVE  Ladder!Next \/ UNCHANGED Ladder!ladderVars
    BY <2>1, PutIsLadderStep DEF SyncWrite, Skip, meta, Ladder!ladderVars
  <2>2. CASE Expire
    BY <2>2, SharedTables DEF Expire, Ladder!Expire, Ladder!Next
  <2>3. CASE UNCHANGED meta
    BY <2>3 DEF meta, Ladder!ladderVars
  <2>4. ASSUME NEW w \in Writers, NEW e, NEW k, SyncRead(w, e, k)
        PROVE  UNCHANGED meta
    BY <2>4 DEF SyncRead, Read
  <2> QED
    BY <2>1, <2>2, <2>3, <2>4
    DEF CasNext, SyncStep, ReaperStep, ReaperRead, Evict, EvictionFails, Writers, vars
<1> QED
  BY <1>1, <1>2, CasInvHolds, PTL DEF CasSpec, ImplementsLadder, Ladder!Spec

\* Consequently the first terminal status is final on that path.
THEOREM CasTerminalIsFinal == CasSpec => TerminalIsFinal
<1>1. [Ladder!Next]_(Ladder!ladderVars) =>
        (status \in TerminalStatuses => status' \in {status, Absent})
  BY SharedTables DEF Ladder!Next, Ladder!ladderVars, Ladder!Advance, Ladder!Expire, TransitionAllowed
<1>2. ImplementsLadder => TerminalIsFinal
  BY <1>1, PTL DEF ImplementsLadder, Ladder!Spec, TerminalIsFinal
<1> QED BY <1>2, CasImplementsLadder, PTL

\* A write from a snapshot that the record has left behind.
StaleWrite(w) ==
  /\ pc[w] = "write" /\ pc'[w] # "write"
  /\ call[w].snap.status # status

\* With every kind of writer, only the two kinds that guard nothing can undo a
\* terminal status, and only from a snapshot taken before it: the whole cost of
\* the watch() on the pooled client and of the recorder's GET and SETEX.
THEOREM OnlyStaleSnapshotsUndo ==
  Spec => [][(status \in TerminalStatuses => status' \in {status, Absent})
             \/ \E w \in AsyncWriters \union Recorders : StaleWrite(w)]_vars
<1> DEFINE Kept == status \in TerminalStatuses => status' \in {status, Absent}
<1>1. ASSUME CasInv, Next
      PROVE  Kept \/ \E w \in AsyncWriters \union Recorders : StaleWrite(w)
  <2>1. ASSUME NEW w \in Writers, NEW c, Put(w, c), Allowed(w), call[w].snap.status = status
        PROVE  Kept
    BY <2>1 DEF Put, Allowed, TransitionAllowed
  <2>2. ASSUME NEW w \in Writers, NEW next \in {"idle", "evict"}, Finish(w, next)
        PROVE  pc'[w] # "write"
    BY <1>1, <2>2 DEF Finish, CasInv, TypeOK
  <2>3. ASSUME NEW w \in AsyncWriters, NEW c, AsyncWrite(w, c)
        PROVE  Kept \/ StaleWrite(w)
    BY <2>1, <2>2, <2>3 DEF AsyncWrite, Skip, Put, StaleWrite, meta, Writers
  <2>4. ASSUME NEW w \in Recorders, NEW key, RecordWrite(w, key)
        PROVE  Kept \/ StaleWrite(w)
    BY <2>2, <2>4 DEF RecordWrite, StaleWrite, Writers
  <2>5. ASSUME NEW w \in Writers, NEW c, SyncWrite(w, c)
        PROVE  Kept
    BY <1>1, <2>1, <2>5 DEF SyncWrite, Skip, meta, CasInv, WatchIsFresh
  <2>6. CASE UNCHANGED status \/ Expire
    BY <2>6 DEF Expire
  <2> QED
    BY <1>1, <2>3, <2>4, <2>5, <2>6
    DEF Next, CasNext, AsyncStep, RecordStep, SyncStep, ReaperStep, AsyncRead, RecordRead,
        SyncRead, ReaperRead, Read, Evict, EvictionFails, meta, Writers
<1>2. CasInv /\ [Next]_vars =>
        [Kept \/ \E w \in AsyncWriters \union Recorders : StaleWrite(w)]_vars
  BY <1>1
<1> QED BY <1>2, CasInvInit, CasInvStep, PTL DEF Spec

-----------------------------------------------------------------------------
(* The envelope follows the outcome *)

\* A writer on its way to the eviction has moved the operation into failure.
EvictingMeansFailed ==
  \A w \in Writers : pc[w] = "evict" => status \in TerminalFailureStatuses \union {Absent}

EnvelopeInv == EvictingMeansFailed /\ EnvelopeFollowsOutcome

LEMMA EnvelopeStep ==
  ASSUME CasInv, EnvelopeInv, [CasNext]_vars
  PROVE  EnvelopeInv'
<1> USE DEF EnvelopeInv, EvictingMeansFailed, EnvelopeFollowsOutcome
<1>1. ASSUME NEW w \in Writers, NEW e \in Event, NEW k \in Requests, SyncRead(w, e, k)
      PROVE  EnvelopeInv'
  BY <1>1 DEF SyncRead, Read, CasInv, TypeOK, meta, cached
<1>2. ASSUME NEW w \in Writers, NEW c \in SUBSET ResultKeys, SyncWrite(w, c)
      PROVE  EnvelopeInv'
  <2>1. CASE Allowed(w) /\ w \in watching
    <3>1. call[w].snap.status = status /\ status # Absent
      BY <2>1 DEF CasInv, WatchIsFresh
    <3>2. status \in TerminalStatuses => status' = status
      BY <1>2, <2>1, <3>1 DEF SyncWrite, Put, Allowed, TransitionAllowed
    <3>3. pc' = [pc EXCEPT ![w] = IF EntersFailure(w) THEN "evict" ELSE "idle"]
      BY <1>2, <2>1 DEF SyncWrite, Put, Finish
    <3>4. EntersFailure(w) => status' \in TerminalFailureStatuses
      BY <1>2, <2>1 DEF SyncWrite, Put, EntersFailure
    <3>5. status' \in TerminalFailureStatuses /\ status \notin TerminalStatuses
            => EntersFailure(w)
      BY <1>2, <2>1, <3>1 DEF SyncWrite, Put, EntersFailure
    <3>6. UNCHANGED cached /\ pc \in [Writers -> {"idle", "write", "evict"}] /\ pc[w] = "write"
      BY <1>2 DEF SyncWrite, CasInv, TypeOK
    <3> QED
      BY <3>1, <3>2, <3>3, <3>4, <3>5, <3>6 DEF TerminalStatuses, TerminalFailureStatuses, Absent, cached
  <2>2. CASE ~(Allowed(w) /\ w \in watching)
    BY <1>2, <2>2 DEF SyncWrite, Skip, Finish, CasInv, TypeOK, meta, cached
  <2> QED BY <2>1, <2>2
<1>3. ASSUME NEW w \in Writers, Evict(w) \/ EvictionFails(w)
      PROVE  EnvelopeInv'
  BY <1>3 DEF Evict, EvictionFails, Finish, CasInv, TypeOK, meta, cached
<1>4. CASE Expire
  BY <1>4 DEF Expire, TerminalFailureStatuses, Absent
<1>5. CASE UNCHANGED vars
  BY <1>5 DEF vars, meta, cached
<1>6. "error" \in Event /\ NoRequest \in Requests
  BY DEF Event, Requests
<1> QED
  BY <1>1, <1>2, <1>3, <1>4, <1>5, <1>6
  DEF CasNext, SyncStep, ReaperStep, ReaperRead, Writers

\* With compare-and-set writers the envelope of a finished operation survives
\* and that of a failed one is evicted, in every interleaving, whenever the
\* eviction itself does not fail.
THEOREM EnvelopeCorrect == CasSpec => []EnvelopeFollowsOutcome
<1>1. Init => EnvelopeInv
  BY DEF Init, EnvelopeInv, EvictingMeansFailed, EnvelopeFollowsOutcome,
         TerminalFailureStatuses
<1>2. CasInv /\ EnvelopeInv /\ [CasNext]_vars => EnvelopeInv'
  BY EnvelopeStep
<1>3. EnvelopeInv => EnvelopeFollowsOutcome
  BY DEF EnvelopeInv
<1> QED BY <1>1, <1>2, <1>3, CasInvHolds, PTL DEF CasSpec

-----------------------------------------------------------------------------
(* A pause never loses its checkpoint *)

\* The status and the request of a metadata record agree.
Consistent(s, r) ==
  /\ s = "awaiting_input" => r # NoRequest
  /\ s \in OpenStatuses => r = NoRequest

PauseInv ==
  /\ PauseCarriesCheckpoint
  /\ Consistent(status, request)
  /\ \A w \in Writers : Consistent(call[w].snap.status, call[w].snap.request)

\* Applying a permitted event to a consistent record gives a consistent one.
LEMMA PutConsistent ==
  ASSUME TypeOK, PauseInv, NEW w \in Writers, NEW c, Allowed(w), Put(w, c)
  PROVE  Consistent(status', request')
<1> DEFINE e == call[w].event
<1>1. e \in Event /\ call[w].snap.status \in Status
  BY DEF TypeOK, Call, Snapshot
<1>2. status' = NextStatus[e]
      /\ request' = ApplyInputRequest(call[w].snap.request, e, call[w].asked)
  BY DEF Put, New
<1>3. CASE e = "awaiting_input"
  BY <1>2, <1>3, LadderRows DEF PauseInv, PauseCarriesCheckpoint, Consistent,
                                OpenStatuses, ApplyInputRequest
<1>4. CASE e \in {"started", "resumed"}
  BY <1>2, <1>4, LadderRows DEF Consistent, OpenStatuses, ApplyInputRequest
<1>5. CASE e \in {"completed", "error", "cancelled"}
  BY <1>2, <1>5, LadderRows DEF Consistent, OpenStatuses, ApplyInputRequest
<1> QED BY <1>1, <1>3, <1>4, <1>5 DEF Event

LEMMA PauseInvStep ==
  ASSUME TypeOK, PauseInv, [Next]_vars
  PROVE  PauseInv'
<1>1. PauseCarriesCheckpoint'
  BY PauseStep DEF PauseInv
<1>2. ASSUME NEW w \in Writers, NEW e \in Event, NEW k \in Requests, Read(w, e, k)
      PROVE  PauseInv'
  BY <1>1, <1>2 DEF Read, PauseInv, TypeOK, meta
<1>3. ASSUME NEW w \in Writers, NEW next, Finish(w, next), Consistent(status', request')
      PROVE  PauseInv'
  BY <1>1, <1>3 DEF Finish, NoCall, Fresh, PauseInv, TypeOK, Consistent, OpenStatuses
<1>4. ASSUME NEW w \in Writers, NEW c, Allowed(w), Put(w, c)
      PROVE  PauseInv'
  BY <1>3, <1>4, PutConsistent DEF Put
<1>5. ASSUME NEW w \in Writers, Skip(w)
      PROVE  PauseInv'
  BY <1>3, <1>5 DEF Skip, meta, PauseInv
<1>6. ASSUME NEW w \in Recorders, NEW key, RecordWrite(w, key)
      PROVE  PauseInv'
  BY <1>3, <1>6 DEF RecordWrite, PauseInv, Writers
<1>7. ASSUME NEW w \in Writers, Evict(w) \/ EvictionFails(w)
      PROVE  PauseInv'
  BY <1>3, <1>7 DEF Evict, EvictionFails, meta, PauseInv
<1>8. CASE Expire
  BY <1>1, <1>8 DEF Expire, PauseInv, Consistent, Absent, OpenStatuses
<1>9. CASE UNCHANGED vars
  BY <1>1, <1>9 DEF vars, meta, PauseInv
<1>10. "started" \in Event /\ "error" \in Event /\ NoRequest \in Requests
  BY DEF Event, Requests
<1> QED
  BY <1>2, <1>4, <1>5, <1>6, <1>7, <1>8, <1>9, <1>10
  DEF Next, CasNext, AsyncStep, RecordStep, SyncStep, ReaperStep, AsyncRead, AsyncWrite,
      RecordRead, SyncRead, SyncWrite, ReaperRead, Writers

\* Even with writers that guard nothing, a paused operation keeps the
\* checkpoint its resume needs.
THEOREM PauseKeepsRequest == Spec => []PauseCarriesRequest
<1>1. Init => PauseInv
  BY DEF Init, PauseInv, PauseCarriesCheckpoint, Consistent, NoCall, Fresh, OpenStatuses
<1>2. TypeOK /\ PauseInv /\ [Next]_vars => PauseInv'
  BY PauseInvStep
<1>3. PauseInv => PauseCarriesRequest
  BY DEF PauseInv, Consistent, PauseCarriesRequest
<1> QED BY <1>1, <1>2, <1>3, TypeCorrect, PTL DEF Spec

=============================================================================
