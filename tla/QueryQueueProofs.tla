-------------------------- MODULE QueryQueueProofs --------------------------
(* Proofs about QueryQueue, for any finite set of queries, any users and    *)
(* any limits.                                                              *)
EXTENDS QueryQueue, FiniteSetTheorems, TLAPS

-----------------------------------------------------------------------------
(* The inductive invariant *)

\* An entry in the heap is that of a waiting query or of one cancelled there.
HeapInv == \A q \in heap : status[q] \in {"pending", "cancelled"}

IInv == TypeOK /\ NothingStranded /\ CountsMatchWork /\ HeapInv

LEMMA Limits ==
  /\ MaxQueue \in Nat \ {0} /\ MaxConcurrent \in Nat \ {0}
  /\ MaxPerUser \in Nat \ {0} /\ MaxCompleted \in Nat \ {0}
BY LimitsAssumption

LEMMA Sizes ==
  ASSUME NEW S \in SUBSET Queries
  PROVE  /\ IsFiniteSet(S)
         /\ Cardinality(S) \in Nat
         /\ Cardinality(S) <= Cardinality(Queries)
         /\ \A q \in Queries : q \notin S =>
              /\ Cardinality(S \union {q}) = Cardinality(S) + 1
              /\ Cardinality(S) + 1 <= Cardinality(Queries)
         /\ \A q \in S : Cardinality(S \ {q}) = Cardinality(S) - 1
<1>1. IsFiniteSet(S) /\ Cardinality(S) <= Cardinality(Queries) /\ Cardinality(S) \in Nat
  BY QueriesAssumption, FS_Subset, FS_CardinalityType
<1>2. ASSUME NEW q \in Queries, q \notin S
      PROVE  /\ Cardinality(S \union {q}) = Cardinality(S) + 1
             /\ Cardinality(S) + 1 <= Cardinality(Queries)
  <2>1. Cardinality(S \union {q}) = Cardinality(S) + 1
    BY <1>1, <1>2, FS_AddElement
  <2>2. S \union {q} \in SUBSET Queries
    OBVIOUS
  <2>3. Cardinality(S \union {q}) <= Cardinality(Queries)
    BY <2>2, QueriesAssumption, FS_Subset
  <2> QED BY <2>1, <2>3
<1>3. ASSUME NEW q \in S PROVE Cardinality(S \ {q}) = Cardinality(S) - 1
  BY <1>1, FS_RemoveElement
<1> QED BY <1>1, <1>2, <1>3

\* The list of finished queries stays a list of queries.
LEMMA CompletedType ==
  ASSUME completed \in Seq(Queries), NEW q \in Queries
  PROVE  Completed(q) \in Seq(Queries)
<1> DEFINE all == Append(completed, q)
<1>1. all \in Seq(Queries) /\ all # <<>>
  <2>1. all \in Seq(Queries) /\ Len(all) = Len(completed) + 1 /\ Len(completed) \in Nat
    OBVIOUS
  <2> HIDE DEF all
  <2>2. all # <<>>
    BY <2>1
  <2> QED BY <2>1, <2>2
<1> HIDE DEF all
<1>2. Tail(all) \in Seq(Queries)
  BY <1>1
<1> QED BY <1>1, <1>2 DEF Completed, all

\* A user's active queries after q alone changed status.
LEMMA ActiveAfter ==
  ASSUME TypeOK, NEW q \in Queries, NEW s \in QueryStatus,
         status' = [status EXCEPT ![q] = s], NEW u \in Users
  PROVE  /\ Active(u) \in SUBSET Queries
         /\ q \in Active(u) <=> (Owner[q] = u /\ status[q] \in {"pending", "running"})
         /\ Active(u)' =
              IF Owner[q] = u /\ s \in {"pending", "running"} THEN Active(u) \union {q}
              ELSE Active(u) \ {q}
BY DEF TypeOK, Active

-----------------------------------------------------------------------------
(* Every step keeps it *)

LEMMA SubmitStep ==
  ASSUME IInv, NEW q \in Queries, Submit(q)
  PROVE  IInv'
<1> DEFINE old == {r \in Queries : status[r] # "new"}
<1>1. Owner[q] \in Users /\ status[q] = "new"
  BY QueriesAssumption DEF Submit
<1>2. Cardinality(old) \in Nat /\ Cardinality(old) + 1 <= Cardinality(Queries)
  <2>1. old \in SUBSET Queries /\ q \notin old
    BY <1>1
  <2> QED BY <2>1, Sizes
<1>3. Cardinality(Queries) \in Nat
  BY QueriesAssumption, FS_CardinalityType
<1>4. created' \in [Queries -> 0 .. Cardinality(Queries)]
  <2>1. created' = [created EXCEPT ![q] = Cardinality(old) + 1]
    BY DEF Submit
  <2> HIDE DEF old
  <2>2. Cardinality(old) + 1 \in 0 .. Cardinality(Queries)
    BY <1>2, <1>3
  <2> QED BY <2>1, <2>2 DEF IInv, TypeOK
<1>5. TypeOK'
  BY <1>1, <1>4, Limits DEF Submit, IInv, TypeOK, QueryStatus
<1>6. NothingStranded' /\ HeapInv'
  BY <1>1 DEF Submit, IInv, TypeOK, NothingStranded, HeapInv
<1>7. CountsMatchWork'
  <2> SUFFICES ASSUME NEW u \in Users PROVE count'[u] = Cardinality(Active(u)')
    BY DEF CountsMatchWork
  <2>1. /\ Active(u) \in SUBSET Queries /\ q \notin Active(u)
        /\ Active(u)' = IF Owner[q] = u THEN Active(u) \union {q} ELSE Active(u)
    <3>1. /\ TypeOK /\ "pending" \in QueryStatus /\ "pending" \in {"pending", "running"}
          /\ status' = [status EXCEPT ![q] = "pending"]
          /\ status[q] \notin {"pending", "running"}
      BY <1>1 DEF Submit, IInv, QueryStatus
    <3>2. /\ Active(u) \in SUBSET Queries /\ q \notin Active(u)
          /\ Active(u)' =
               IF Owner[q] = u THEN Active(u) \union {q} ELSE Active(u) \ {q}
      BY <3>1, ActiveAfter
    <3> QED BY <3>2
  <2>2. count[u] = Cardinality(Active(u)) /\ count[u] \in Nat
    BY Limits DEF IInv, CountsMatchWork, TypeOK
  <2>3. CASE Owner[q] = u
    <3>1. Cardinality(Active(u) \union {q}) = Cardinality(Active(u)) + 1
      BY <2>1, Sizes
    <3> QED BY <2>1, <2>2, <2>3, <3>1 DEF Submit, IInv, TypeOK
  <2>4. CASE Owner[q] # u
    BY <2>1, <2>2, <2>4 DEF Submit, IInv, TypeOK
  <2> QED BY <2>3, <2>4
<1> QED BY <1>5, <1>6, <1>7 DEF IInv

LEMMA DispatchStep ==
  ASSUME IInv, NEW q \in Queries, Dispatch(q)
  PROVE  IInv'
<1>1. CASE q \in records /\ status[q] = "pending"
  <2>1. /\ status' = [status EXCEPT ![q] = "running"] /\ running' = running \union {q}
        /\ heap' = heap \ {q} /\ UNCHANGED <<created, records, completed, count>>
        /\ Cardinality(running) < MaxConcurrent /\ status[q] = "pending"
    BY <1>1 DEF Dispatch
  <2>2. TypeOK' /\ HeapInv'
    <3>1. TypeOK'
      BY <1>1, <2>1 DEF IInv, TypeOK, QueryStatus
    <3>2. HeapInv'
      BY <1>1, <2>1 DEF IInv, TypeOK, HeapInv
    <3> QED BY <3>1, <3>2
  <2>3. NothingStranded'
    <3>1. running \in SUBSET Queries /\ q \notin running
      BY <2>1 DEF IInv, TypeOK, NothingStranded
    <3>2. Cardinality(running') = Cardinality(running) + 1 /\ Cardinality(running) \in Nat
      BY <2>1, <3>1, Sizes
    <3>3. Cardinality(running') <= MaxConcurrent
      BY <2>1, <3>2, Limits
    <3> QED BY <2>1, <3>3 DEF IInv, TypeOK, NothingStranded
  <2>4. CountsMatchWork'
    <3> SUFFICES ASSUME NEW u \in Users PROVE count'[u] = Cardinality(Active(u)')
      BY DEF CountsMatchWork
    <3>1. /\ q \in Active(u) <=> Owner[q] = u
          /\ Active(u)' = IF Owner[q] = u THEN Active(u) \union {q} ELSE Active(u) \ {q}
      <4>1. TypeOK /\ "running" \in QueryStatus /\ "running" \in {"pending", "running"}
        BY DEF IInv, QueryStatus
      <4> QED BY <2>1, <4>1, ActiveAfter
    <3>2. Active(u)' = Active(u)
      BY <3>1
    <3> QED BY <2>1, <3>2 DEF IInv, CountsMatchWork
  <2> QED BY <2>2, <2>3, <2>4 DEF IInv
<1>2. CASE ~(q \in records /\ status[q] = "pending")
  <2>1. heap' = heap \ {q} /\ UNCHANGED <<status, running, created, records, completed, count>>
        /\ q \in records
    BY <1>2 DEF Dispatch, IInv, TypeOK
  <2> QED BY <1>2, <2>1 DEF IInv, TypeOK, NothingStranded, HeapInv, CountsMatchWork, Active
<1> QED BY <1>1, <1>2

\* Ending an active query gives back its user's slot, once.
LEMMA ReleaseStep ==
  ASSUME IInv, NEW q \in Queries, NEW s \in Finished,
         status[q] \in {"pending", "running"},
         status' = [status EXCEPT ![q] = s], count' = Released(Owner[q])
  PROVE  CountsMatchWork' /\ count' \in [Users -> 0 .. MaxPerUser]
<1>1. Owner[q] \in Users /\ s \in QueryStatus /\ s \notin {"pending", "running"}
  BY QueriesAssumption DEF Finished, QueryStatus
<1>2. ASSUME NEW u \in Users
      PROVE  count'[u] = Cardinality(Active(u)')
  <2>1. /\ Active(u) \in SUBSET Queries
        /\ Active(u)' = Active(u) \ {q}
        /\ q \in Active(u) <=> Owner[q] = u
    BY <1>1, ActiveAfter DEF IInv
  <2>2. count[u] = Cardinality(Active(u)) /\ count[u] \in Nat
    BY Limits DEF IInv, CountsMatchWork, TypeOK
  <2>3. CASE Owner[q] = u
    <3>1. Cardinality(Active(u) \ {q}) = Cardinality(Active(u)) - 1
      BY <2>1, <2>3, Sizes
    <3>2. Cardinality(Active(u) \ {q}) \in Nat
      BY <2>1, Sizes
    <3>3. count[u] # 0
      BY <2>2, <3>1, <3>2
    <3> QED BY <2>1, <2>2, <2>3, <3>1, <3>3 DEF Released, IInv, TypeOK
  <2>4. CASE Owner[q] # u
    BY <2>1, <2>2, <2>4 DEF Released, IInv, TypeOK
  <2> QED BY <2>3, <2>4
<1>3. count' \in [Users -> 0 .. MaxPerUser]
  BY <1>1, Limits DEF Released, IInv, TypeOK
<1> QED BY <1>2, <1>3 DEF CountsMatchWork

LEMMA FinishStep ==
  ASSUME IInv, NEW q \in Queries, NEW outcome \in {"completed", "failed"}, Finish(q, outcome)
  PROVE  IInv'
<1>1. status[q] = "running" /\ outcome \in Finished /\ completed' \in Seq(Queries)
  BY CompletedType DEF Finish, IInv, NothingStranded, Finished, TypeOK
<1>2. CountsMatchWork' /\ count' \in [Users -> 0 .. MaxPerUser]
  BY <1>1, ReleaseStep DEF Finish
<1>3. TypeOK' /\ HeapInv'
  BY <1>1, <1>2 DEF Finish, IInv, TypeOK, HeapInv, Finished, QueryStatus
<1>4. NothingStranded'
  <2>1. Cardinality(running') <= MaxConcurrent
    <3>1. running \in SUBSET Queries /\ q \in running /\ running' = running \ {q}
          /\ Cardinality(running) <= MaxConcurrent
      BY DEF Finish, IInv, TypeOK, NothingStranded
    <3>2. Cardinality(running \ {q}) = Cardinality(running) - 1 /\ Cardinality(running) \in Nat
      BY <3>1, Sizes
    <3> QED BY <3>1, <3>2, Limits
  <2> QED BY <1>1, <2>1 DEF Finish, IInv, TypeOK, NothingStranded
<1> QED BY <1>2, <1>3, <1>4 DEF IInv

LEMMA CancelStep ==
  ASSUME IInv, NEW q \in Queries, Cancel(q)
  PROVE  IInv'
<1>1. status[q] = "pending" /\ "cancelled" \in Finished /\ completed' \in Seq(Queries)
  BY CompletedType DEF Cancel, Cancellable, IInv, Finished, TypeOK
<1>2. CountsMatchWork' /\ count' \in [Users -> 0 .. MaxPerUser]
  BY <1>1, ReleaseStep DEF Cancel
<1>3. TypeOK' /\ HeapInv' /\ NothingStranded'
  BY <1>1, <1>2 DEF Cancel, IInv, TypeOK, HeapInv, Finished, QueryStatus, NothingStranded
<1> QED BY <1>2, <1>3 DEF IInv

LEMMA ForgetStep ==
  ASSUME IInv, NEW q \in Queries, Forget(q)
  PROVE  IInv'
BY DEF Forget, IInv, TypeOK, HeapInv, NothingStranded, CountsMatchWork, Active

LEMMA Step == IInv /\ [Next]_vars => IInv'
<1> SUFFICES ASSUME IInv, [Next]_vars PROVE IInv'
  OBVIOUS
<1>1. CASE UNCHANGED vars
  BY <1>1 DEF vars, IInv, TypeOK, HeapInv, NothingStranded, CountsMatchWork, Active
<1>2. CASE Next
  BY <1>2, SubmitStep, DispatchStep, FinishStep, CancelStep, ForgetStep
  DEF Next, QueueStep, Execute
<1> QED BY <1>1, <1>2

LEMMA Start == Init => IInv
<1> SUFFICES ASSUME Init PROVE IInv
  OBVIOUS
<1>1. Cardinality(Queries) \in Nat
  BY QueriesAssumption, FS_CardinalityType
<1>2. TypeOK /\ HeapInv
  BY <1>1, Limits DEF Init, TypeOK, HeapInv, QueryStatus
<1>3. NothingStranded
  BY FS_EmptySet, Limits DEF Init, NothingStranded
<1>4. CountsMatchWork
  <2>1. \A u \in Users : Active(u) = {}
    BY DEF Init, Active
  <2> QED BY <2>1, FS_EmptySet DEF Init, CountsMatchWork
<1> QED BY <1>2, <1>3, <1>4 DEF IInv

LEMMA Holds == Spec => []IInv
BY Start, Step, PTL DEF Spec

-----------------------------------------------------------------------------
(* The theorems *)

\* The queue's tables keep their types; an entry in the heap always finds its
\* record, and no user exceeds max_queries_per_user.
THEOREM TypeCorrect == Spec => []TypeOK
<1>1. IInv => TypeOK
  BY DEF IInv
<1> QED BY <1>1, Holds, PTL

\* Each user's count is the number of that user's pending and running queries,
\* whatever the limits and however cancellations race with executions.
THEOREM CountsExact == Spec => []CountsMatchWork
<1>1. IInv => CountsMatchWork
  BY DEF IInv
<1> QED BY <1>1, Holds, PTL

\* What runs stays within max_concurrent_queries and what waits can be found.
THEOREM NoQueryStranded == Spec => []NothingStranded
<1>1. IInv => NothingStranded
  BY DEF IInv
<1> QED BY <1>1, Holds, PTL

\* A query's outcome is settled once.
THEOREM OutcomesFinal == Spec => FinishedIsFinal
<1>1. IInv /\ [Next]_vars =>
        [\A q \in Queries : status[q] \in Finished => status'[q] = status[q]]_vars
  BY DEF Next, QueueStep, Execute, Submit, Dispatch, Finish, Cancel, Cancellable, Forget,
         Finished, IInv, TypeOK, NothingStranded
<1> QED BY <1>1, Holds, PTL DEF Spec, FinishedIsFinal

=============================================================================
