------------------------ MODULE OperationStreamProofs ------------------------
(***************************************************************************)
(* Proofs about OperationStream, for any writers and reapers that are      *)
(* distinct, any set of streams and any bounds.                            *)
(***************************************************************************)
EXTENDS OperationStream, EventStoreProofs, FiniteSetTheorems

-----------------------------------------------------------------------------
(* Sequences *)

\* The elements of a sequence after an append, and before and after a tail.
LEMMA AppendSet ==
  ASSUME NEW S, NEW s \in Seq(S), NEW e \in S
  PROVE  /\ Append(s, e) \in Seq(S)
         /\ ToSet(Append(s, e)) = ToSet(s) \union {e}
<1>1. Append(s, e) \in Seq(S)
  OBVIOUS
<1>2. \A x \in ToSet(Append(s, e)) : x \in ToSet(s) \union {e}
  BY DEF ToSet
<1>3. \A i \in DOMAIN s : s[i] \in ToSet(Append(s, e))
  <2> TAKE i \in DOMAIN s
  <2>1. i \in DOMAIN Append(s, e) /\ Append(s, e)[i] = s[i]
    OBVIOUS
  <2> QED BY <2>1 DEF ToSet
<1>4. e \in ToSet(Append(s, e))
  <2>1. Len(s) + 1 \in DOMAIN Append(s, e) /\ Append(s, e)[Len(s) + 1] = e
    OBVIOUS
  <2> QED BY <2>1 DEF ToSet
<1> QED BY <1>1, <1>2, <1>3, <1>4 DEF ToSet

LEMMA TailSet ==
  ASSUME NEW S, NEW s \in Seq(S), s # <<>>
  PROVE  /\ Head(s) \in S /\ Tail(s) \in Seq(S)
         /\ ToSet(s) = {Head(s)} \union ToSet(Tail(s))
<1>1. Head(s) \in S /\ Tail(s) \in Seq(S) /\ Len(s) \in Nat \ {0}
  OBVIOUS
<1>2. \A i \in DOMAIN s : s[i] \in {Head(s)} \union ToSet(Tail(s))
  <2> TAKE i \in DOMAIN s
  <2>1. CASE i = 1
    BY <2>1
  <2>2. CASE i # 1
    <3>1. i - 1 \in DOMAIN Tail(s) /\ Tail(s)[i - 1] = s[i]
      BY <2>2
    <3> QED BY <3>1 DEF ToSet
  <2> QED BY <2>1, <2>2
<1>3. \A i \in DOMAIN Tail(s) : Tail(s)[i] \in ToSet(s)
  <2> TAKE i \in DOMAIN Tail(s)
  <2>1. i + 1 \in DOMAIN s /\ s[i + 1] = Tail(s)[i]
    OBVIOUS
  <2> QED BY <2>1 DEF ToSet
<1>4. Head(s) \in ToSet(s)
  <2>1. 1 \in DOMAIN s /\ s[1] = Head(s)
    BY <1>1
  <2> QED BY <2>1 DEF ToSet
<1> QED BY <1>1, <1>2, <1>3, <1>4 DEF ToSet

\* Numbers in strictly increasing order.
Increasing(s) == \A i, j \in DOMAIN s : i < j => s[i] < s[j]

LEMMA AppendIncreasing ==
  ASSUME NEW s \in Seq(Nat), NEW e \in Nat, Increasing(s), \A x \in ToSet(s) : x < e
  PROVE  Increasing(Append(s, e))
<1> SUFFICES ASSUME NEW i \in DOMAIN Append(s, e), NEW j \in DOMAIN Append(s, e), i < j
             PROVE  Append(s, e)[i] < Append(s, e)[j]
  BY DEF Increasing
<1>1. i \in DOMAIN s /\ Append(s, e)[i] = s[i]
  OBVIOUS
<1>2. CASE j = Len(s) + 1
  BY <1>1, <1>2 DEF ToSet
<1>3. CASE j # Len(s) + 1
  <2>1. j \in DOMAIN s /\ Append(s, e)[j] = s[j]
    BY <1>3
  <2> QED BY <1>1, <2>1 DEF Increasing
<1> QED BY <1>2, <1>3

LEMMA TailIncreasing ==
  ASSUME NEW s \in Seq(Nat), s # <<>>, Increasing(s)
  PROVE  /\ Increasing(Tail(s))
         /\ \A x \in ToSet(Tail(s)) : Head(s) < x
<1>1. ASSUME NEW i \in DOMAIN Tail(s)
      PROVE  i + 1 \in DOMAIN s /\ Tail(s)[i] = s[i + 1] /\ i \in Nat /\ 1 <= i
  OBVIOUS
<1>2. Increasing(Tail(s))
  BY <1>1 DEF Increasing
<1>3. 1 \in DOMAIN s /\ Head(s) = s[1]
  OBVIOUS
<1>4. \A i \in DOMAIN Tail(s) : Head(s) < Tail(s)[i]
  BY <1>1, <1>3 DEF Increasing
<1> QED BY <1>2, <1>4 DEF ToSet

-----------------------------------------------------------------------------
(* The store below the streams *)

\* What is published, and so reaches the metadata, was stored before.
OutgoingInv ==
  /\ log \subseteq Kind
  /\ outgoing \in [SyncWriters -> [stage : {"none", "logged", "published"},
                                   event : Kind, asked : Requests]]
  /\ \A w \in SyncWriters :
       /\ outgoing[w].stage # "none" => outgoing[w].event \in log
       /\ outgoing[w].stage = "published" => outgoing[w].event \in Event

LEMMA OutgoingInit == StreamInit => OutgoingInv
BY DEF StreamInit, OutgoingInv, NoEvent, Kind, Event, Requests

LEMMA OutgoingStep == OutgoingInv /\ [StreamNext]_allVars => OutgoingInv'
<1> SUFFICES ASSUME OutgoingInv, [StreamNext]_allVars PROVE OutgoingInv'
  OBVIOUS
<1> USE DEF OutgoingInv
<1>1. NoEvent \in [stage : {"none", "logged", "published"}, event : Kind, asked : Requests]
      /\ NoEvent.stage = "none"
  BY DEF NoEvent, Kind, Event, Requests
<1>2. ASSUME NEW w \in SyncWriters, NEW e \in Stored, NEW k \in Requests, AppendEvent(w, e, k)
      PROVE  OutgoingInv'
  BY <1>2, StreamsAssumption DEF AppendEvent, Kind
<1>3. ASSUME NEW w \in SyncWriters, PublishEvent(w)
      PROVE  OutgoingInv'
  BY <1>1, <1>3 DEF PublishEvent, Kind
<1>4. ASSUME NEW w \in SyncWriters, UpdateMetadata(w)
      PROVE  OutgoingInv'
  BY <1>1, <1>4 DEF UpdateMetadata
<1>5. ASSUME UNCHANGED <<log, outgoing>>
      PROVE  OutgoingInv'
  BY <1>5
<1>6. ASSUME NEW w \in SyncWriters, WriteMetadata(w)
      PROVE  UNCHANGED <<log, outgoing>>
  BY <1>6 DEF WriteMetadata, streamVars
<1>7. ASSUME ReapMetadata \/ ExpireMetadata \/ Relay \/ UNCHANGED allVars
      PROVE  UNCHANGED <<log, outgoing>>
  BY <1>7 DEF ReapMetadata, ExpireMetadata, Relay, streamVars, allVars
<1>8. ASSUME NEW t \in Streams, StreamStep(t)
      PROVE  UNCHANGED <<log, outgoing>>
  BY <1>8 DEF StreamStep, Connect, Replay, Enter, Subscribed, ReplayAll, Deliver,
              Disconnect, Leave, Unsubscribed
<1> QED
  BY <1>2, <1>3, <1>4, <1>5, <1>6, <1>7, <1>8 DEF StreamNext, WriterStep

LEMMA OutgoingHolds == StreamSpec => []OutgoingInv
BY OutgoingInit, OutgoingStep, PTL DEF StreamSpec

LEMMA StepIsCasStep ==
  ASSUME OutgoingInv, [StreamNext]_allVars
  PROVE  [CasNext]_vars
<1>1. ASSUME NEW w \in SyncWriters, UpdateMetadata(w)
      PROVE  [CasNext]_vars
  BY <1>1 DEF UpdateMetadata, OutgoingInv, CasNext, SyncStep
<1>2. ASSUME NEW w \in SyncWriters, WriteMetadata(w)
      PROVE  CasNext
  BY <1>2 DEF WriteMetadata, CasNext, SyncStep
<1>3. ASSUME ReapMetadata \/ ExpireMetadata
      PROVE  CasNext
  BY <1>3 DEF ReapMetadata, ExpireMetadata, CasNext
<1>4. ASSUME NEW w \in SyncWriters, NEW e, NEW k, AppendEvent(w, e, k) \/ PublishEvent(w)
      PROVE  UNCHANGED vars
  BY <1>4 DEF AppendEvent, PublishEvent
<1>5. ASSUME Relay \/ UNCHANGED allVars
      PROVE  UNCHANGED vars
  BY <1>5 DEF Relay, allVars
<1>6. ASSUME NEW t \in Streams, StreamStep(t)
      PROVE  UNCHANGED vars
  BY <1>6 DEF StreamStep, Connect, Replay, Enter, Subscribed, ReplayAll, Deliver,
              Disconnect, Leave, Unsubscribed
<1> QED
  BY <1>1, <1>2, <1>3, <1>4, <1>5, <1>6 DEF StreamNext, WriterStep

\* Seen from the metadata alone, the store with its log, its relay and its
\* streams is the compare-and-set store: store_event's first two writes and
\* every step of a stream are stutters of it.
THEOREM StreamImplementsStore == StreamSpec => CasSpec
<1>1. StreamInit => Init
  BY DEF StreamInit
<1>2. OutgoingInv /\ [StreamNext]_allVars => [CasNext]_vars
  BY StepIsCasStep
<1> QED BY <1>1, <1>2, OutgoingHolds, PTL DEF StreamSpec, CasSpec

-----------------------------------------------------------------------------
(* Types *)

\* What the streams and the relay hold, each set and count in its type.
PartsTypeOK ==
  /\ published \in Seq(Kind)
  /\ pipe \in Seq(1 .. Len(published))
  /\ channel \in BOOLEAN /\ known \in BOOLEAN
  /\ conns \subseteq slots /\ slots \subseteq Streams /\ fed \subseteq conns
  /\ queue \in [Streams -> Seq(1 .. Len(published))]
  /\ \A t \in Streams : Len(queue[t]) <= QueueSize
  /\ sp \in [Streams -> Phases]
  /\ found \in [Streams -> Status \union {Absent}]
  /\ seen \in [Streams -> SUBSET Kind]
  /\ upto \in [Streams -> 0 .. Len(published)]
  /\ reaped \in BOOLEAN

LEMMA LongerSeq ==
  ASSUME NEW m \in Nat, NEW n \in Nat, m <= n, NEW s \in Seq(1 .. m)
  PROVE  s \in Seq(1 .. n)
<1>1. 1 .. m \subseteq 1 .. n
  OBVIOUS
<1>2. \A i \in 1 .. Len(s) : s[i] \in 1 .. n
  BY <1>1
<1> QED BY <1>2

LEMMA PartsInit == StreamInit => PartsTypeOK
<1> SUFFICES ASSUME StreamInit PROVE PartsTypeOK
  OBVIOUS
<1>1. published = <<>> /\ pipe = <<>> /\ Len(published) = 0
  BY DEF StreamInit
<1>2. <<>> \in Seq(Kind) /\ <<>> \in Seq(1 .. Len(published)) /\ Len(<<>>) <= QueueSize
  BY StreamsAssumption
<1>3. queue \in [Streams -> Seq(1 .. Len(published))] /\ \A t \in Streams : Len(queue[t]) <= QueueSize
  BY <1>2 DEF StreamInit
<1>4. upto \in [Streams -> 0 .. Len(published)]
  BY <1>1 DEF StreamInit
<1> QED
  BY <1>1, <1>2, <1>3, <1>4 DEF StreamInit, PartsTypeOK, Phases

LEMMA PartsStep ==
  ASSUME TypeOK, OutgoingInv, PartsTypeOK, [StreamNext]_allVars
  PROVE  PartsTypeOK'
<1> USE DEF PartsTypeOK
<1>1. ASSUME NEW w \in SyncWriters, NEW e, NEW k, AppendEvent(w, e, k)
      PROVE  PartsTypeOK'
  BY <1>1 DEF AppendEvent, relay, streams
<1>2. ASSUME NEW w \in SyncWriters, PublishEvent(w)
      PROVE  PartsTypeOK'
  <2>1. /\ published' \in Seq(Kind) /\ Len(published') = Len(published) + 1
        /\ Len(published) \in Nat
    BY <1>2 DEF PublishEvent, OutgoingInv
  <2>2. pipe \in Seq(1 .. Len(published'))
        /\ \A t \in Streams : queue[t] \in Seq(1 .. Len(published'))
    <3>1. Len(published') \in Nat /\ Len(published) <= Len(published')
      BY <2>1
    <3>2. \A s \in Seq(1 .. Len(published)) : s \in Seq(1 .. Len(published'))
      BY <2>1, <3>1, LongerSeq
    <3> QED BY <3>2
  <2>3. Len(published') \in 1 .. Len(published')
    BY <2>1
  <2>4. pipe' \in Seq(1 .. Len(published'))
    <3>1. Append(pipe, Len(published')) \in Seq(1 .. Len(published'))
      BY <2>2, <2>3, AppendSet
    <3> QED BY <1>2, <2>2, <3>1 DEF PublishEvent
  <2>5. upto \in [Streams -> 0 .. Len(published')]
    BY <2>1
  <2> QED BY <1>2, <2>1, <2>2, <2>4, <2>5 DEF PublishEvent, streams
<1>3. ASSUME NEW w \in SyncWriters, UpdateMetadata(w) \/ WriteMetadata(w)
      PROVE  PartsTypeOK'
  BY <1>3 DEF UpdateMetadata, WriteMetadata, relay, streams, streamVars
<1>4. ASSUME ReapMetadata \/ ExpireMetadata \/ UNCHANGED allVars
      PROVE  PartsTypeOK'
  BY <1>4 DEF ReapMetadata, ExpireMetadata, relay, streams, streamVars, allVars
<1>5. CASE Relay
  <2> DEFINE full == {t \in conns : Len(queue[t]) = QueueSize}
  <2>1. /\ pipe # <<>> /\ pipe' = Tail(pipe)
        /\ queue' = [t \in Streams |->
             IF t \in conns \ full THEN Append(queue[t], Head(pipe)) ELSE queue[t]]
        /\ conns' = conns \ full /\ fed' = fed \ full
        /\ UNCHANGED <<published, channel, known, slots, sp, found, seen, upto, reaped>>
    BY <1>5 DEF Relay
  <2>2. Head(pipe) \in 1 .. Len(published) /\ Tail(pipe) \in Seq(1 .. Len(published))
    BY <2>1, TailSet
  <2>3. ASSUME NEW t \in Streams
        PROVE  queue'[t] \in Seq(1 .. Len(published)) /\ Len(queue'[t]) <= QueueSize
    <3>1. queue[t] \in Seq(1 .. Len(published)) /\ Len(queue[t]) <= QueueSize
          /\ Len(queue[t]) \in Nat
      OBVIOUS
    <3>2. CASE t \in conns \ full
      <4>1. Len(queue[t]) < QueueSize
        BY <3>1, <3>2, StreamsAssumption
      <4>2. queue'[t] = Append(queue[t], Head(pipe))
        BY <2>1, <3>2
      <4> QED BY <2>2, <3>1, <4>1, <4>2, StreamsAssumption
    <3>3. CASE t \notin conns \ full
      BY <2>1, <3>1, <3>3
    <3> QED BY <3>2, <3>3
  <2>4. queue' \in [Streams -> Seq(1 .. Len(published))]
    BY <2>1, <2>3
  <2> HIDE DEF full
  <2> QED BY <2>1, <2>2, <2>3, <2>4
<1>6. ASSUME NEW t \in Streams, Connect(t) \/ Replay(t) \/ ReplayAll(t) \/ Disconnect(t)
      PROVE  PartsTypeOK'
  <2>1. sp' \in [Streams -> Phases]
    BY <1>6 DEF Connect, Replay, ReplayAll, Disconnect, Go, Phases
  <2>2. found' \in [Streams -> Status \union {Absent}]
    BY <1>6 DEF Connect, Replay, ReplayAll, Disconnect, TypeOK
  <2>3. seen' \in [Streams -> SUBSET Kind]
    BY <1>6 DEF Connect, Replay, ReplayAll, Disconnect, OutgoingInv
  <2>4. UNCHANGED <<published, pipe, channel, known, conns, slots, queue, fed, upto, reaped>>
    BY <1>6 DEF Connect, Replay, ReplayAll, Disconnect, relay
  <2> QED BY <2>1, <2>2, <2>3, <2>4
<1>7. ASSUME NEW t \in Streams, Enter(t)
      PROVE  PartsTypeOK'
  <2>1. sp' \in [Streams -> Phases]
    BY <1>7 DEF Enter, Go, Following, Phases
  <2>2. upto' \in [Streams -> 0 .. Len(published)]
    <3>1. Len(published) \in 0 .. Len(published)
      OBVIOUS
    <3> QED BY <1>7, <3>1 DEF Enter
  <2>3. /\ conns' \subseteq slots' /\ slots' \subseteq Streams /\ fed' \subseteq conns'
        /\ channel' \in BOOLEAN
        /\ UNCHANGED <<published, pipe, known, queue, found, seen, reaped>>
    BY <1>7 DEF Enter
  <2> QED BY <2>1, <2>2, <2>3
<1>8. ASSUME NEW t \in Streams, Subscribed(t) \/ Unsubscribed(t)
      PROVE  PartsTypeOK'
  BY <1>8 DEF Subscribed, Unsubscribed, Go, Following, Phases
<1>9. ASSUME NEW t \in Streams, Deliver(t)
      PROVE  PartsTypeOK'
  <2>1. Head(queue[t]) \in 1 .. Len(published) /\ Tail(queue[t]) \in Seq(1 .. Len(published))
        /\ Len(Tail(queue[t])) <= QueueSize
    <3>1. queue[t] \in Seq(1 .. Len(published)) /\ queue[t] # <<>> /\ Len(queue[t]) <= QueueSize
      BY <1>9 DEF Deliver
    <3>2. Len(Tail(queue[t])) <= Len(queue[t]) /\ Len(Tail(queue[t])) \in Nat
      BY <3>1
    <3> QED BY <3>1, <3>2, TailSet, StreamsAssumption
  <2>2. published[Head(queue[t])] \in Kind
    BY <2>1
  <2>3. upto' \in [Streams -> 0 .. Len(published)]
    BY <1>9, <2>1 DEF Deliver
  <2>4. /\ queue' \in [Streams -> Seq(1 .. Len(published))]
        /\ \A u \in Streams : Len(queue'[u]) <= QueueSize
    BY <1>9, <2>1 DEF Deliver
  <2>5. sp' \in [Streams -> Phases]
    BY <1>9 DEF Deliver, Go, Phases
  <2>6. seen' \in [Streams -> SUBSET Kind]
    BY <1>9, <2>2 DEF Deliver
  <2> QED BY <1>9, <2>3, <2>4, <2>5, <2>6 DEF Deliver
<1>10. ASSUME NEW t \in Streams, Leave(t)
       PROVE  PartsTypeOK'
  <2>1. sp' \in [Streams -> Phases] /\ found' \in [Streams -> Status \union {Absent}]
        /\ seen' \in [Streams -> SUBSET Kind]
    BY <1>10 DEF Leave, Go, Phases
  <2>2. upto' \in [Streams -> 0 .. Len(published)]
    BY <1>10 DEF Leave
  <2>3. /\ queue' \in [Streams -> Seq(1 .. Len(published))]
        /\ \A u \in Streams : Len(queue'[u]) <= QueueSize
    BY <1>10, StreamsAssumption DEF Leave
  <2>4. /\ conns' \subseteq slots' /\ slots' \subseteq Streams /\ fed' \subseteq conns'
        /\ UNCHANGED <<published, pipe, known, reaped>> /\ channel' \in BOOLEAN
    BY <1>10 DEF Leave
  <2> QED BY <2>1, <2>2, <2>3, <2>4
<1> QED
  BY <1>1, <1>2, <1>3, <1>4, <1>5, <1>6, <1>7, <1>8, <1>9, <1>10
  DEF StreamNext, WriterStep, StreamStep

LEMMA PartsHold == StreamSpec => [](TypeOK /\ OutgoingInv /\ PartsTypeOK)
<1>1. CasSpec => []TypeOK
  BY CasInvHolds, PTL DEF CasInv
<1>2. TypeOK /\ OutgoingInv /\ PartsTypeOK /\ [StreamNext]_allVars => PartsTypeOK'
  BY PartsStep
<1> QED
  BY <1>1, <1>2, PartsInit, OutgoingHolds, StreamImplementsStore, PTL DEF StreamSpec

\* The log, the relay, the manager and the streams keep their types.
THEOREM StreamTypeCorrect == StreamSpec => []StreamTypeOK
<1>1. OutgoingInv /\ PartsTypeOK => StreamTypeOK
  BY DEF OutgoingInv, PartsTypeOK, StreamTypeOK
<1> QED BY <1>1, PartsHold, PTL

-----------------------------------------------------------------------------
(* A user's slots *)

Holding == {"subscribing", "subscribed", "live", "ended", "closing"}

\* Exactly the streams that got past the limit, and have not left, hold a slot;
\* one refused or cut short before is on its way out without any.
SlotInv ==
  /\ OpenStreams \subseteq slots
  /\ \A t \in slots : sp[t] \in Holding
  /\ IsFiniteSet(slots) /\ Cardinality(slots) <= MaxConnections

LEMMA SlotStep ==
  ASSUME PartsTypeOK, SlotInv, [StreamNext]_allVars
  PROVE  SlotInv'
<1> USE DEF SlotInv, OpenStreams, Holding
<1>1. ASSUME UNCHANGED <<slots, sp>>
      PROVE  SlotInv'
  BY <1>1
<1>2. ASSUME NEW w \in SyncWriters, WriterStep(w)
      PROVE  UNCHANGED <<slots, sp>>
  BY <1>2 DEF WriterStep, AppendEvent, PublishEvent, UpdateMetadata, WriteMetadata,
              relay, streams, streamVars
<1>3. ASSUME ReapMetadata \/ ExpireMetadata \/ Relay \/ UNCHANGED allVars
      PROVE  UNCHANGED <<slots, sp>>
  BY <1>3 DEF ReapMetadata, ExpireMetadata, Relay, relay, streams, streamVars, allVars
<1>4. ASSUME NEW t \in Streams,
             \/ Connect(t) \/ Replay(t) \/ Subscribed(t) \/ ReplayAll(t) \/ Deliver(t)
             \/ Disconnect(t) \/ Unsubscribed(t)
      PROVE  SlotInv'
  <2>1. UNCHANGED slots
    BY <1>4 DEF Connect, Replay, Subscribed, ReplayAll, Deliver, Disconnect, Unsubscribed, relay
  <2>2. \A u \in Streams \ {t} : sp'[u] = sp[u]
    BY <1>4 DEF Connect, Replay, Subscribed, ReplayAll, Deliver, Disconnect, Unsubscribed,
                Go, PartsTypeOK
  <2>3. /\ t \in slots => sp'[t] \in Holding
        /\ sp'[t] \in {"subscribing", "subscribed", "live"} => t \in slots
    BY <1>4 DEF Connect, Replay, Subscribed, ReplayAll, Deliver, Disconnect, Unsubscribed,
                Go, Following, PartsTypeOK
  <2> QED BY <2>1, <2>2, <2>3 DEF PartsTypeOK
<1>5. ASSUME NEW t \in Streams, Enter(t)
      PROVE  SlotInv'
  <2>1. \A u \in Streams \ {t} : sp'[u] = sp[u]
    BY <1>5 DEF Enter, Go, PartsTypeOK
  <2>2. CASE Cardinality(slots) >= MaxConnections
    BY <1>5, <2>1, <2>2 DEF Enter, Go, PartsTypeOK
  <2>3. CASE ~(Cardinality(slots) >= MaxConnections)
    <3>1. slots' = slots \union {t} /\ sp'[t] \in {"subscribing", "subscribed", "live"}
      BY <1>5, <2>3 DEF Enter, Go, Following, PartsTypeOK
    <3>2. t \notin slots
      BY <1>5 DEF Enter
    <3>3. Cardinality(slots) \in Nat /\ IsFiniteSet(slots')
          /\ Cardinality(slots') = Cardinality(slots) + 1
      BY <3>1, <3>2, FS_AddElement, FS_CardinalityType
    <3>4. Cardinality(slots') <= MaxConnections
      BY <2>3, <3>3, StreamsAssumption
    <3> QED BY <2>1, <3>1, <3>3, <3>4 DEF PartsTypeOK
  <2> QED BY <2>2, <2>3
<1>6. ASSUME NEW t \in Streams, Leave(t)
      PROVE  SlotInv'
  <2>1. slots' = slots \ {t} /\ sp'[t] \in {"unsubscribing", "closed"}
        /\ \A u \in Streams \ {t} : sp'[u] = sp[u]
    BY <1>6 DEF Leave, Go, PartsTypeOK
  <2>2. IsFiniteSet(slots') /\ Cardinality(slots') <= Cardinality(slots)
        /\ Cardinality(slots) \in Nat /\ Cardinality(slots') \in Nat
    BY <2>1, FS_Subset, FS_CardinalityType
  <2>3. Cardinality(slots') <= MaxConnections
    BY <2>2, StreamsAssumption
  <2> QED BY <2>1, <2>2, <2>3 DEF PartsTypeOK
<1> QED
  BY <1>1, <1>2, <1>3, <1>4, <1>5, <1>6 DEF StreamNext, StreamStep

\* A user's open streams never outnumber the limit, and no slot is lost: each
\* one taken belongs to a stream that is open or about to give it back.
THEOREM LimitHolds == StreamSpec => []OpenStreamsWithinLimit
<1>1. StreamInit => SlotInv
  BY FS_EmptySet, StreamsAssumption DEF StreamInit, SlotInv, OpenStreams
<1>2. PartsTypeOK /\ SlotInv /\ [StreamNext]_allVars => SlotInv'
  BY SlotStep
<1>3. PartsTypeOK /\ SlotInv => OpenStreamsWithinLimit
  BY DEF PartsTypeOK, SlotInv, OpenStreamsWithinLimit, OpenStreams, Holding
<1> QED BY <1>1, <1>2, <1>3, PartsHold, PTL DEF StreamSpec

-----------------------------------------------------------------------------
(* How a stream ends *)

\* The log holds the event behind status s, or the reaper set it.
Explained(s) ==
  \/ \E e \in log \intersect Event : NextStatus[e] = s
  \/ s = "failed" /\ reaped

\* A writer stores its event before it writes the status, and a snapshot is
\* written from the event only, so every status a stream can find is explained.
StoryInv ==
  /\ status \in EndingStatuses => Explained(status)
  /\ \A w \in SyncWriters : pc[w] = "write" => call[w].event \in log
  /\ \A w \in Reapers : pc[w] = "write" => call[w].event = "error"

LEMMA ExplainedLasts ==
  ASSUME NEW s, Explained(s), log \subseteq log', reaped => reaped'
  PROVE  Explained(s)'
BY DEF Explained

\* Nothing leaves the log, and the reaper's deed stands.
LEMMA HistoryGrows ==
  ASSUME PartsTypeOK, [StreamNext]_allVars
  PROVE  log \subseteq log' /\ (reaped => reaped')
<1>1. ASSUME NEW w \in SyncWriters, WriterStep(w)
      PROVE  log \subseteq log' /\ reaped' = reaped
  BY <1>1 DEF WriterStep, AppendEvent, PublishEvent, UpdateMetadata, WriteMetadata, streamVars
<1>2. ASSUME ReapMetadata \/ ExpireMetadata \/ Relay \/ UNCHANGED allVars
      PROVE  log \subseteq log' /\ (reaped => reaped')
  <2>1. CASE ReapMetadata
    <3>1. log' = log
      BY <2>1 DEF ReapMetadata
    <3>2. reaped => reaped'
      BY <2>1, Zenon DEF ReapMetadata
    <3> QED BY <3>1, <3>2
  <2> QED BY <1>2, <2>1 DEF ExpireMetadata, Relay, streamVars, allVars
<1>3. ASSUME NEW t \in Streams, StreamStep(t)
      PROVE  log \subseteq log' /\ reaped' = reaped
  BY <1>3 DEF StreamStep, Connect, Replay, Enter, Subscribed, ReplayAll, Deliver,
              Disconnect, Leave, Unsubscribed
<1> QED BY <1>1, <1>2, <1>3 DEF StreamNext

\* Reading: the writer now holds the event it stored.
LEMMA StoryRead ==
  ASSUME TypeOK, StoryInv, UNCHANGED <<log, reaped>>,
         NEW w \in SyncWriters \union Reapers, NEW e \in Event, NEW k, Read(w, e, k),
         w \in SyncWriters => e \in log, w \in Reapers => e = "error"
  PROVE  StoryInv'
<1>1. /\ \A v \in Writers \ {w} : pc'[v] = pc[v] /\ call'[v] = call[v]
      /\ call'[w].event = e /\ status' = status
  BY DEF Read, TypeOK, Writers, meta
<1>2. status' \in EndingStatuses => Explained(status)'
  BY <1>1 DEF StoryInv, Explained
<1> QED BY <1>1, <1>2 DEF StoryInv, Writers

\* Ending a call, with the status as it was or explained.
LEMMA StoryEnd ==
  ASSUME TypeOK, StoryInv, log \subseteq log', NEW w \in SyncWriters \union Reapers,
         NEW next \in {"idle", "evict"}, Finish(w, next),
         status' \in EndingStatuses => Explained(status)'
  PROVE  StoryInv'
<1>1. /\ \A v \in Writers \ {w} : pc'[v] = pc[v] /\ call'[v] = call[v]
      /\ pc'[w] # "write"
  BY DEF Finish, TypeOK, Writers
<1> QED BY <1>1 DEF StoryInv, Writers

\* What a writer puts is explained by the event it stored; what the reaper puts,
\* by the reaper.
LEMMA StoryWrite ==
  ASSUME TypeOK, StoryInv, log' = log, NEW w \in SyncWriters \union Reapers, NEW c,
         SyncWrite(w, c),
         w \in SyncWriters => reaped' = reaped,
         w \in Reapers => reaped' = (reaped \/ status' # status)
  PROVE  StoryInv'
<1>0. reaped => reaped'
  BY Zenon
<1>1. pc[w] = "write" /\ call[w].event \in Event
  BY DEF SyncWrite, TypeOK, Writers, Call
<1>2. CASE Allowed(w) /\ w \in watching
  <2>1. /\ status' = NextStatus[call[w].event]
        /\ Finish(w, IF EntersFailure(w) THEN "evict" ELSE "idle")
    BY <1>2 DEF SyncWrite, Put, New
  <2>2. CASE w \in SyncWriters
    <3>1. Explained(status)'
      BY <1>1, <2>1, <2>2 DEF StoryInv, Explained
    <3> QED BY <2>1, <3>1, StoryEnd
  <2>3. CASE w \in Reapers
    <3>1. status' = "failed"
      BY <1>1, <2>1, <2>3, LadderRows DEF StoryInv
    <3>2. CASE status = "failed"
      BY <1>0, <2>1, <3>1, <3>2, ExplainedLasts, StoryEnd DEF StoryInv
    <3>3. CASE status # "failed"
      <4>1. Explained(status)'
        BY <2>3, <3>1, <3>3 DEF Explained
      <4> QED BY <2>1, <4>1, StoryEnd
    <3> QED BY <3>2, <3>3
  <2> QED BY <2>2, <2>3
<1>3. CASE ~(Allowed(w) /\ w \in watching)
  <2>1. Finish(w, "idle") /\ status' = status
    BY <1>3 DEF SyncWrite, Skip, meta
  <2>2. status' \in EndingStatuses => Explained(status)'
    BY <1>0, <2>1, ExplainedLasts DEF StoryInv
  <2> QED BY <2>1, <2>2, StoryEnd
<1> QED BY <1>2, <1>3

LEMMA StoryStep ==
  ASSUME TypeOK, OutgoingInv, PartsTypeOK, StoryInv, [StreamNext]_allVars
  PROVE  StoryInv'
<1>1. ASSUME UNCHANGED vars
      PROVE  StoryInv'
  <2>1. status' = status /\ pc' = pc /\ call' = call
    BY <1>1 DEF vars, meta
  <2>2. status' \in EndingStatuses => Explained(status)'
    BY <2>1, HistoryGrows, ExplainedLasts DEF StoryInv
  <2> QED BY <2>1, <2>2, HistoryGrows DEF StoryInv
<1>2. ASSUME NEW w \in SyncWriters, NEW e, NEW k, AppendEvent(w, e, k) \/ PublishEvent(w)
      PROVE  UNCHANGED vars
  BY <1>2 DEF AppendEvent, PublishEvent
<1>3. ASSUME NEW w \in SyncWriters, UpdateMetadata(w)
      PROVE  StoryInv'
  <2>1. CASE SyncRead(w, outgoing[w].event, outgoing[w].asked)
    <3>1. /\ outgoing[w].event \in Event \intersect log /\ UNCHANGED <<log, reaped>>
          /\ w \notin Reapers
      BY <1>3, StreamsAssumption DEF UpdateMetadata, OutgoingInv
    <3> QED BY <2>1, <3>1, StoryRead DEF SyncRead
  <2> QED BY <1>1, <1>3, <2>1 DEF UpdateMetadata
<1>4. ASSUME NEW w \in SyncWriters, WriteMetadata(w)
      PROVE  StoryInv'
  <2>1. UNCHANGED <<log, reaped>> /\ w \notin Reapers
    BY <1>4, StreamsAssumption DEF WriteMetadata, streamVars
  <2>2. ASSUME NEW c, SyncWrite(w, c)
        PROVE  StoryInv'
    BY <2>1, <2>2, StoryWrite
  <2>3. CASE Evict(w) \/ EvictionFails(w)
    <3>1. Finish(w, "idle") /\ status' = status
      BY <2>3 DEF Evict, EvictionFails, meta
    <3> QED BY <2>1, <3>1, StoryEnd DEF StoryInv, Explained
  <2> QED BY <1>4, <2>2, <2>3 DEF WriteMetadata
<1>5. CASE ReapMetadata
  <2>1. PICK w \in Reapers : ReaperRead(w) \/ SyncWrite(w, {}) \/ Evict(w) \/ EvictionFails(w)
    BY <1>5 DEF ReapMetadata, ReaperStep
  <2>2. log' = log /\ reaped' = (reaped \/ status' # status) /\ w \notin SyncWriters
    BY <1>5, StreamsAssumption DEF ReapMetadata
  <2>3. CASE ReaperRead(w)
    <3>1. Read(w, "error", NoRequest) /\ "error" \in Event /\ status' = status
      BY <2>3 DEF ReaperRead, SyncRead, Read, meta, Event
    <3>2. reaped' = reaped
      BY <2>2, <3>1 DEF PartsTypeOK
    <3> QED BY <2>2, <3>1, <3>2, StoryRead
  <2>4. CASE SyncWrite(w, {})
    BY <2>2, <2>4, StoryWrite
  <2>5. CASE Evict(w) \/ EvictionFails(w)
    <3>1. Finish(w, "idle") /\ status' = status
      BY <2>5 DEF Evict, EvictionFails, meta
    <3> QED BY <2>2, <3>1, StoryEnd DEF StoryInv, Explained
  <2> QED BY <2>1, <2>3, <2>4, <2>5
<1>6. CASE ExpireMetadata
  <2>1. status' \notin EndingStatuses /\ pc' = pc /\ call' = call /\ log' = log
    BY <1>6 DEF ExpireMetadata, Expire, streamVars, EndingStatuses, TerminalStatuses,
                TerminalFailureStatuses, Absent
  <2> QED BY <2>1 DEF StoryInv
<1>7. ASSUME Relay \/ UNCHANGED allVars
      PROVE  UNCHANGED vars
  BY <1>7 DEF Relay, allVars
<1>8. ASSUME NEW t \in Streams, StreamStep(t)
      PROVE  UNCHANGED vars
  BY <1>8 DEF StreamStep, Connect, Replay, Enter, Subscribed, ReplayAll, Deliver,
              Disconnect, Leave, Unsubscribed
<1> QED
  BY <1>1, <1>2, <1>3, <1>4, <1>5, <1>6, <1>7, <1>8 DEF StreamNext, WriterStep

\* What a stream found decides whether it replays or goes live.
EndInv ==
  \A t \in Streams :
    /\ found[t] \in EndingStatuses => Explained(found[t])
    /\ sp[t] = "subscribed" => found[t] \in EndingStatuses
    /\ sp[t] = "live" => found[t] \notin EndingStatuses

LEMMA EndStep ==
  ASSUME TypeOK, OutgoingInv, PartsTypeOK, StoryInv, EndInv, EndedStreamSawOutcome,
         [StreamNext]_allVars
  PROVE  EndInv' /\ EndedStreamSawOutcome'
<1> DEFINE Ends(t) ==
      /\ found[t] \in EndingStatuses => Explained(found[t])
      /\ sp[t] = "subscribed" => found[t] \in EndingStatuses
      /\ sp[t] = "live" => found[t] \notin EndingStatuses
      /\ sp[t] = "ended" =>
           IF found[t] \in EndingStatuses
           THEN (\E e \in seen[t] \intersect Event : NextStatus[e] = found[t])
                \/ (found[t] = "failed" /\ reaped)
           ELSE seen[t] \intersect EndingKinds # {}
<1>1. ASSUME NEW t \in Streams, sp'[t] = sp[t], found'[t] = found[t], seen'[t] = seen[t]
      PROVE  Ends(t)'
  <2>1. Ends(t)
    BY DEF EndInv, EndedStreamSawOutcome
  <2>2. found'[t] \in EndingStatuses => Explained(found[t])'
    <3>1. ASSUME Explained(found[t])
          PROVE  Explained(found[t])'
      BY <1>1, <3>1, HistoryGrows DEF Explained
    <3> QED BY <1>1, <2>1, <3>1
  <2> QED BY <1>1, <2>1, <2>2, HistoryGrows
<1>2. ASSUME NEW t \in Streams, Connect(t)
      PROVE  Ends(t)'
  <2>1. found'[t] = status /\ sp'[t] \in {"closing", "connected"} /\ UNCHANGED <<log, reaped>>
    BY <1>2 DEF Connect, Go, PartsTypeOK
  <2>2. status \in EndingStatuses => Explained(found[t])'
    BY <2>1 DEF StoryInv, Explained
  <2> QED BY <2>1, <2>2
<1>3. ASSUME NEW t \in Streams, Enter(t) \/ Subscribed(t)
      PROVE  Ends(t)'
  <2>1. /\ found' = found /\ UNCHANGED <<log, reaped>>
        /\ sp'[t] \in {"closing", "subscribing", Following(t)}
    BY <1>3 DEF Enter, Subscribed, Go, PartsTypeOK
  <2>2. found[t] \in EndingStatuses => Explained(found[t])'
    BY <2>1 DEF EndInv, Explained
  <2> QED BY <2>1, <2>2 DEF Following
<1>4. ASSUME NEW t \in Streams, ReplayAll(t)
      PROVE  Ends(t)'
  <2>1. /\ found' = found /\ UNCHANGED <<log, reaped>> /\ found[t] \in EndingStatuses
        /\ sp'[t] = "ended" /\ seen'[t] = seen[t] \union log
    BY <1>4 DEF ReplayAll, Go, PartsTypeOK, EndInv
  <2>2. Explained(found[t]) /\ Explained(found[t])'
    BY <2>1 DEF EndInv, Explained
  <2>3. (\E e \in seen'[t] \intersect Event : NextStatus[e] = found[t])
        \/ (found[t] = "failed" /\ reaped)
    BY <2>1, <2>2 DEF Explained
  <2> QED BY <2>1, <2>2, <2>3
<1>5. ASSUME NEW t \in Streams, Deliver(t)
      PROVE  Ends(t)'
  <2> DEFINE i == Head(queue[t])
  <2>1. /\ found' = found /\ UNCHANGED <<log, reaped>> /\ found[t] \notin EndingStatuses
        /\ sp'[t] = IF published[i] \in EndingKinds THEN "ended" ELSE "live"
        /\ seen'[t] = seen[t] \union {published[i]}
    BY <1>5 DEF Deliver, Go, PartsTypeOK, EndInv
  <2> HIDE DEF i
  <2> QED BY <2>1
<1>6. ASSUME NEW t \in Streams, Replay(t) \/ Disconnect(t) \/ Unsubscribed(t)
      PROVE  Ends(t)'
  <2>1. /\ found' = found /\ UNCHANGED <<log, reaped>>
        /\ sp'[t] \in {"replayed", "closing", "closed"}
    BY <1>6 DEF Replay, Disconnect, Unsubscribed, Go, PartsTypeOK
  <2> QED BY <2>1 DEF EndInv, Explained
<1>7. ASSUME NEW t \in Streams, Leave(t)
      PROVE  Ends(t)'
  <2>1. found'[t] = Absent /\ sp'[t] \in {"unsubscribing", "closed"}
    BY <1>7 DEF Leave, Go, PartsTypeOK
  <2> QED BY <2>1 DEF EndingStatuses, TerminalStatuses, TerminalFailureStatuses, Absent
<1>8. ASSUME NEW t \in Streams, StreamStep(t), NEW u \in Streams, u # t
      PROVE  sp'[u] = sp[u] /\ found'[u] = found[u] /\ seen'[u] = seen[u]
  BY <1>8 DEF StreamStep, Connect, Replay, Enter, Subscribed, ReplayAll, Deliver,
              Disconnect, Leave, Unsubscribed, Go, PartsTypeOK
<1>9. ASSUME NEW w \in SyncWriters, WriterStep(w)
      PROVE  UNCHANGED <<sp, found, seen>>
  BY <1>9 DEF WriterStep, AppendEvent, PublishEvent, UpdateMetadata, WriteMetadata,
              streams, streamVars
<1>10. ASSUME ReapMetadata \/ ExpireMetadata \/ Relay \/ UNCHANGED allVars
       PROVE  UNCHANGED <<sp, found, seen>>
  BY <1>10 DEF ReapMetadata, ExpireMetadata, Relay, streams, streamVars, allVars
<1>11. ASSUME NEW t \in Streams
       PROVE  Ends(t)'
  <2>1. ASSUME NEW u \in Streams, StreamStep(u)
        PROVE  Ends(t)'
    <3>1. CASE u = t
      BY <1>2, <1>3, <1>4, <1>5, <1>6, <1>7, <2>1, <3>1 DEF StreamStep
    <3>2. CASE u # t
      BY <1>1, <1>8, <2>1, <3>2
    <3> QED BY <3>1, <3>2
  <2>2. CASE UNCHANGED <<sp, found, seen>>
    BY <1>1, <2>2
  <2> QED BY <1>9, <1>10, <2>1, <2>2 DEF StreamNext
<1> QED BY <1>11 DEF EndInv, EndedStreamSawOutcome

\* A stream that ends has shown its client the event behind the outcome,
\* however the writers, the relay and the reaper interleave with it.
THEOREM EndedSawOutcome == StreamSpec => []EndedStreamSawOutcome
<1>1. StreamInit => StoryInv /\ EndInv /\ EndedStreamSawOutcome
  BY DEF StreamInit, Init, StoryInv, EndInv, EndedStreamSawOutcome, EndingStatuses,
         TerminalStatuses, TerminalFailureStatuses, Absent, Writers
<1>2. TypeOK /\ OutgoingInv /\ PartsTypeOK /\ StoryInv /\ [StreamNext]_allVars => StoryInv'
  BY StoryStep
<1>3. TypeOK /\ OutgoingInv /\ PartsTypeOK /\ StoryInv /\ EndInv /\ EndedStreamSawOutcome
        /\ [StreamNext]_allVars => EndInv' /\ EndedStreamSawOutcome'
  BY EndStep
<1> QED BY <1>1, <1>2, <1>3, PartsHold, PTL DEF StreamSpec

-----------------------------------------------------------------------------
(* What a fed stream is owed *)

\* Messages keep their order on the way: what waits in a queue came before what
\* the relay has still to read.
OrderInv ==
  /\ Increasing(pipe)
  /\ \A t \in Streams :
       /\ Increasing(queue[t])
       /\ \A x \in ToSet(queue[t]), y \in ToSet(pipe) : x < y

\* The relay listens as long as somebody is fed.
FedInv == fed # {} => channel

LEMMA SeqNat ==
  ASSUME NEW n \in Nat, NEW s \in Seq(1 .. n)
  PROVE  s \in Seq(Nat) /\ \A x \in ToSet(s) : x \in 1 .. n
<1>1. \A i \in 1 .. Len(s) : s[i] \in Nat
  OBVIOUS
<1>2. s \in Seq(Nat)
  BY <1>1
<1> QED BY <1>2 DEF ToSet

LEMMA OrderStep ==
  ASSUME PartsTypeOK, OrderInv, [StreamNext]_allVars
  PROVE  OrderInv'
<1> USE DEF OrderInv
<1>0. /\ pipe \in Seq(Nat) /\ \A y \in ToSet(pipe) : y \in 1 .. Len(published)
      /\ \A t \in Streams : /\ queue[t] \in Seq(Nat)
                            /\ \A x \in ToSet(queue[t]) : x \in 1 .. Len(published)
      /\ Len(published) \in Nat
  BY SeqNat DEF PartsTypeOK
<1>1. ASSUME UNCHANGED <<pipe, queue>>
      PROVE  OrderInv'
  BY <1>1
<1>2. ASSUME NEW w \in SyncWriters, PublishEvent(w)
      PROVE  OrderInv'
  <2> DEFINE n == Len(published) + 1
  <2>1. queue' = queue /\ (pipe' = Append(pipe, n) \/ pipe' = pipe)
    BY <1>2 DEF PublishEvent, PartsTypeOK
  <2>2. n \in Nat /\ \A y \in ToSet(pipe) : y < n
    BY <1>0
  <2>3. Increasing(Append(pipe, n)) /\ ToSet(Append(pipe, n)) = ToSet(pipe) \union {n}
    BY <1>0, <2>2, AppendIncreasing, AppendSet
  <2>4. ASSUME NEW t \in Streams, NEW x \in ToSet(queue[t])
        PROVE  x < n
    <3>1. x \in 1 .. Len(published)
      BY <1>0
    <3> QED BY <1>0, <3>1
  <2> HIDE DEF n
  <2> QED BY <2>1, <2>3, <2>4
<1>3. CASE Relay
  <2>1. /\ pipe # <<>> /\ pipe' = Tail(pipe)
        /\ \A t \in Streams : queue'[t] = Append(queue[t], Head(pipe)) \/ queue'[t] = queue[t]
    BY <1>3 DEF Relay, PartsTypeOK
  <2>2. /\ Head(pipe) \in Nat /\ ToSet(pipe) = {Head(pipe)} \union ToSet(Tail(pipe))
        /\ Increasing(Tail(pipe)) /\ \A x \in ToSet(Tail(pipe)) : Head(pipe) < x
    BY <1>0, <2>1, TailSet, TailIncreasing
  <2>3. ASSUME NEW t \in Streams
        PROVE  /\ Increasing(Append(queue[t], Head(pipe)))
               /\ ToSet(Append(queue[t], Head(pipe))) = ToSet(queue[t]) \union {Head(pipe)}
    BY <1>0, <2>2, AppendIncreasing, AppendSet
  <2> QED BY <2>1, <2>2, <2>3
<1>4. ASSUME NEW t \in Streams, Deliver(t)
      PROVE  OrderInv'
  <2>1. /\ pipe' = pipe /\ queue[t] # <<>> /\ queue'[t] = Tail(queue[t])
        /\ \A u \in Streams \ {t} : queue'[u] = queue[u]
    BY <1>4 DEF Deliver, PartsTypeOK
  <2>2. Increasing(Tail(queue[t])) /\ ToSet(Tail(queue[t])) \subseteq ToSet(queue[t])
    BY <1>0, <2>1, TailSet, TailIncreasing
  <2> QED BY <2>1, <2>2
<1>5. ASSUME NEW t \in Streams, Leave(t)
      PROVE  OrderInv'
  <2>1. /\ pipe' = pipe /\ queue'[t] = <<>> /\ \A u \in Streams \ {t} : queue'[u] = queue[u]
    BY <1>5 DEF Leave, PartsTypeOK
  <2>2. Increasing(<<>>) /\ ToSet(<<>>) = {}
    BY DEF Increasing, ToSet
  <2> QED BY <2>1, <2>2
<1>6. ASSUME NEW t \in Streams,
             \/ Connect(t) \/ Replay(t) \/ Enter(t) \/ Subscribed(t) \/ ReplayAll(t)
             \/ Disconnect(t) \/ Unsubscribed(t)
      PROVE  UNCHANGED <<pipe, queue>>
  BY <1>6 DEF Connect, Replay, Enter, Subscribed, ReplayAll, Disconnect, Unsubscribed, relay
<1>7. ASSUME NEW w \in SyncWriters, NEW e, NEW k,
             AppendEvent(w, e, k) \/ UpdateMetadata(w) \/ WriteMetadata(w)
      PROVE  UNCHANGED <<pipe, queue>>
  BY <1>7 DEF AppendEvent, UpdateMetadata, WriteMetadata, relay, streamVars
<1>8. ASSUME ReapMetadata \/ ExpireMetadata \/ UNCHANGED allVars
      PROVE  UNCHANGED <<pipe, queue>>
  BY <1>8 DEF ReapMetadata, ExpireMetadata, relay, streamVars, allVars
<1> QED
  BY <1>1, <1>2, <1>3, <1>4, <1>5, <1>6, <1>7, <1>8 DEF StreamNext, WriterStep, StreamStep

LEMMA FedStep ==
  ASSUME PartsTypeOK, FedInv, [StreamNext]_allVars
  PROVE  FedInv'
<1> USE DEF FedInv
<1>1. ASSUME UNCHANGED <<fed, channel>>
      PROVE  FedInv'
  BY <1>1
<1>2. CASE Relay
  BY <1>2 DEF Relay
<1>3. ASSUME NEW t \in Streams, Enter(t)
      PROVE  FedInv'
  BY <1>3 DEF Enter
<1>4. ASSUME NEW t \in Streams, Leave(t)
      PROVE  FedInv'
  BY <1>4 DEF Leave
<1>5. ASSUME NEW t \in Streams,
             \/ Connect(t) \/ Replay(t) \/ Subscribed(t) \/ ReplayAll(t)
             \/ Deliver(t) \/ Disconnect(t) \/ Unsubscribed(t)
      PROVE  UNCHANGED <<fed, channel>>
  BY <1>5 DEF Connect, Replay, Subscribed, ReplayAll, Deliver, Disconnect, Unsubscribed, relay
<1>6. ASSUME NEW w \in SyncWriters, WriterStep(w)
      PROVE  UNCHANGED <<fed, channel>>
  BY <1>6 DEF WriterStep, AppendEvent, PublishEvent, UpdateMetadata, WriteMetadata,
              relay, streams, streamVars
<1>7. ASSUME ReapMetadata \/ ExpireMetadata \/ UNCHANGED allVars
      PROVE  UNCHANGED <<fed, channel>>
  BY <1>7 DEF ReapMetadata, ExpireMetadata, relay, streams, streamVars, allVars
<1> QED
  BY <1>1, <1>2, <1>3, <1>4, <1>5, <1>6, <1>7 DEF StreamNext, StreamStep

LEMMA OwedStep ==
  ASSUME PartsTypeOK, OrderInv, FedInv, NothingMissedWhileFed, [StreamNext]_allVars
  PROVE  NothingMissedWhileFed'
<1> DEFINE Owed(t) ==
      \A i \in upto[t] + 1 .. Len(published) : i \in ToSet(queue[t]) \union ToSet(pipe)
<1>0. /\ Len(published) \in Nat
      /\ \A t \in Streams : queue[t] \in Seq(Nat) /\ upto[t] \in 0 .. Len(published)
      /\ pipe \in Seq(Nat) /\ fed \subseteq Streams
  BY SeqNat DEF PartsTypeOK
<1>1. ASSUME NEW t \in Streams, t \in fed, UNCHANGED <<published, pipe>>,
             queue'[t] = queue[t], upto'[t] = upto[t]
      PROVE  Owed(t)'
  BY <1>1 DEF NothingMissedWhileFed
<1>2. ASSUME NEW w \in SyncWriters, PublishEvent(w), NEW t \in fed'
      PROVE  Owed(t)'
  <2> DEFINE n == Len(published) + 1
  <2>1. /\ fed' = fed /\ queue' = queue /\ upto' = upto
        /\ published' = Append(published, outgoing[w].event)
    BY <1>2 DEF PublishEvent, streams
  <2>2. Len(published') = n
    BY <2>1 DEF PartsTypeOK
  <2>3. pipe' = Append(pipe, n)
    BY <1>2, <2>1, <2>2 DEF PublishEvent, FedInv
  <2>4. ToSet(pipe') = ToSet(pipe) \union {n}
    BY <1>0, <2>3, AppendSet
  <2>5. \A i \in upto[t] + 1 .. n : i = n \/ i \in upto[t] + 1 .. Len(published)
    BY <1>0, <2>1
  <2>6. \A i \in upto[t] + 1 .. Len(published) : i \in ToSet(queue[t]) \union ToSet(pipe)
    BY <2>1 DEF NothingMissedWhileFed
  <2> HIDE DEF n
  <2> QED BY <2>1, <2>2, <2>4, <2>5, <2>6
<1>3. ASSUME Relay, NEW t \in fed'
      PROVE  Owed(t)'
  <2>1. /\ pipe # <<>> /\ pipe' = Tail(pipe) /\ t \in fed /\ UNCHANGED <<published, upto>>
        /\ queue'[t] = Append(queue[t], Head(pipe))
    BY <1>3 DEF Relay, PartsTypeOK
  <2>2. ToSet(pipe) = {Head(pipe)} \union ToSet(pipe') /\ Head(pipe) \in Nat
    BY <1>0, <2>1, TailSet
  <2>3. ToSet(queue'[t]) = ToSet(queue[t]) \union {Head(pipe)}
    BY <1>0, <2>1, <2>2, AppendSet
  <2>4. \A i \in upto[t] + 1 .. Len(published) : i \in ToSet(queue[t]) \union ToSet(pipe)
    BY <2>1 DEF NothingMissedWhileFed
  <2> QED BY <2>1, <2>2, <2>3, <2>4
<1>4. ASSUME NEW t \in Streams, Enter(t), NEW u \in fed'
      PROVE  Owed(u)'
  <2>1. UNCHANGED <<published, pipe, queue>> /\ \A v \in Streams \ {t} : upto'[v] = upto[v]
    BY <1>4 DEF Enter, PartsTypeOK
  <2>2. CASE u \in fed /\ upto'[u] = upto[u]
    BY <1>0, <1>1, <2>1, <2>2
  <2>3. CASE ~(u \in fed /\ upto'[u] = upto[u])
    <3>1. u \in Streams /\ upto'[u] = Len(published)
      BY <1>0, <1>4, <2>1, <2>3 DEF Enter, PartsTypeOK
    <3>2. \A i \in upto'[u] + 1 .. Len(published') : FALSE
      BY <1>0, <2>1, <3>1
    <3> QED BY <3>2
  <2> QED BY <2>2, <2>3
<1>5. ASSUME NEW t \in Streams, Deliver(t), NEW u \in fed'
      PROVE  Owed(u)'
  <2> DEFINE h == Head(queue[t])
  <2>1. /\ UNCHANGED <<published, pipe, fed>> /\ queue[t] # <<>>
        /\ queue'[t] = Tail(queue[t])
        /\ upto'[t] = IF h = upto[t] + 1 THEN h ELSE upto[t]
        /\ \A v \in Streams \ {t} : queue'[v] = queue[v] /\ upto'[v] = upto[v]
    BY <1>5 DEF Deliver, PartsTypeOK
  <2>2. CASE u # t
    BY <1>0, <1>1, <2>1, <2>2
  <2>3. CASE u = t
    <3>1. /\ h \in Nat /\ ToSet(queue[t]) = {h} \union ToSet(queue'[t])
          /\ \A x \in ToSet(queue'[t]) : h < x
      BY <1>0, <2>1, TailSet, TailIncreasing DEF OrderInv
    <3>2. \A y \in ToSet(pipe) : h < y
      BY <3>1 DEF OrderInv
    <3>3. \A i \in upto[t] + 1 .. Len(published) : i = h \/ i \in ToSet(queue'[t]) \union ToSet(pipe)
      BY <2>1, <2>3, <3>1 DEF NothingMissedWhileFed
    <3>4. upto[t] \in Nat /\ Len(published) \in Nat
      BY <1>0
    <3> HIDE DEF h
    <3>5. CASE h = upto[t] + 1
      <4>1. \A i \in h + 1 .. Len(published) :
              i \in upto[t] + 1 .. Len(published) /\ i # h
        BY <3>4, <3>5
      <4> QED BY <2>1, <2>3, <3>3, <3>5, <4>1
    <3>6. CASE h # upto[t] + 1
      <4>1. h \notin upto[t] + 1 .. Len(published)
        <5> SUFFICES ASSUME h \in upto[t] + 1 .. Len(published) PROVE FALSE
          OBVIOUS
        <5>1. upto[t] + 1 \in upto[t] + 1 .. Len(published) /\ upto[t] + 1 < h
          BY <3>1, <3>4, <3>6
        <5>2. upto[t] + 1 \in ToSet(queue'[t]) \union ToSet(pipe)
          BY <3>3, <3>6, <5>1
        <5>3. h < upto[t] + 1
          BY <3>1, <3>2, <5>2
        <5> QED BY <3>1, <3>4, <5>1, <5>3
      <4> QED BY <2>1, <2>3, <3>3, <3>6, <4>1
    <3> QED BY <3>5, <3>6
  <2> QED BY <2>2, <2>3
<1>6. ASSUME NEW t \in Streams, Leave(t), NEW u \in fed'
      PROVE  Owed(u)'
  <2>1. /\ u \in fed /\ u # t /\ UNCHANGED <<published, pipe>>
        /\ \A v \in Streams \ {t} : queue'[v] = queue[v] /\ upto'[v] = upto[v]
    BY <1>6 DEF Leave, PartsTypeOK
  <2> QED BY <1>0, <1>1, <2>1
<1>7. ASSUME UNCHANGED <<published, pipe, queue, upto, fed>>
      PROVE  NothingMissedWhileFed'
  BY <1>7 DEF NothingMissedWhileFed
<1>8. ASSUME NEW t \in Streams,
             \/ Connect(t) \/ Replay(t) \/ Subscribed(t) \/ ReplayAll(t)
             \/ Disconnect(t) \/ Unsubscribed(t)
      PROVE  UNCHANGED <<published, pipe, queue, upto, fed>>
  BY <1>8 DEF Connect, Replay, Subscribed, ReplayAll, Disconnect, Unsubscribed, relay
<1>9. ASSUME NEW w \in SyncWriters, NEW e, NEW k,
             AppendEvent(w, e, k) \/ UpdateMetadata(w) \/ WriteMetadata(w)
      PROVE  UNCHANGED <<published, pipe, queue, upto, fed>>
  BY <1>9 DEF AppendEvent, UpdateMetadata, WriteMetadata, relay, streams, streamVars
<1>10. ASSUME ReapMetadata \/ ExpireMetadata \/ UNCHANGED allVars
       PROVE  UNCHANGED <<published, pipe, queue, upto, fed>>
  BY <1>10 DEF ReapMetadata, ExpireMetadata, relay, streams, streamVars, allVars
<1>11. ASSUME \A t \in fed' : Owed(t)'
       PROVE  NothingMissedWhileFed'
  BY <1>11 DEF NothingMissedWhileFed
<1> HIDE DEF Owed
<1> QED
  BY <1>2, <1>3, <1>4, <1>5, <1>6, <1>7, <1>8, <1>9, <1>10, <1>11
  DEF StreamNext, WriterStep, StreamStep

\* As long as a stream keeps its place at the relay, each event published since
\* it subscribed has been sent, waits in its queue or is about to: the relay,
\* the bounded queue and the hand-over of the subscription lose none.
THEOREM NothingMissed == StreamSpec => []NothingMissedWhileFed
<1>1. StreamInit => OrderInv /\ FedInv /\ NothingMissedWhileFed
  BY DEF StreamInit, OrderInv, Increasing, ToSet, FedInv, NothingMissedWhileFed
<1>2. PartsTypeOK /\ OrderInv /\ [StreamNext]_allVars => OrderInv'
  BY OrderStep
<1>3. PartsTypeOK /\ FedInv /\ [StreamNext]_allVars => FedInv'
  BY FedStep
<1>4. PartsTypeOK /\ OrderInv /\ FedInv /\ NothingMissedWhileFed /\ [StreamNext]_allVars
        => NothingMissedWhileFed'
  BY OwedStep
<1> QED BY <1>1, <1>2, <1>3, <1>4, PartsHold, PTL DEF StreamSpec

-----------------------------------------------------------------------------
(* Who silences a stream *)

Listening == {"subscribing", "live"}

\* No stream waits for its UNSUBSCRIBE while another one listens.
NoneLeavesBeside ==
  \A t, u \in Streams : t # u /\ sp[t] = "unsubscribing" => sp[u] \notin Listening

\* Whoever listens has the channel; the table may say that it is there without it
\* only until the UNSUBSCRIBE has come back.
ListenInv ==
  /\ \A t \in Streams : sp[t] \in Listening => channel
  /\ known => channel \/ \E t \in Streams : sp[t] = "unsubscribing"

LEMMA ListenStep ==
  ASSUME PartsTypeOK, ListenInv, NoneLeavesBeside', [StreamNext]_allVars
  PROVE  ListenInv'
<1> USE DEF ListenInv, Listening
<1>1. ASSUME UNCHANGED <<channel, known, sp>>
      PROVE  ListenInv'
  BY <1>1
<1>2. ASSUME NEW w \in SyncWriters, WriterStep(w)
      PROVE  UNCHANGED <<channel, known, sp>>
  BY <1>2 DEF WriterStep, AppendEvent, PublishEvent, UpdateMetadata, WriteMetadata,
              relay, streams, streamVars
<1>3. ASSUME ReapMetadata \/ ExpireMetadata \/ Relay \/ UNCHANGED allVars
      PROVE  UNCHANGED <<channel, known, sp>>
  BY <1>3 DEF ReapMetadata, ExpireMetadata, Relay, relay, streams, streamVars, allVars
<1>4. ASSUME NEW t \in Streams,
             Connect(t) \/ Replay(t) \/ ReplayAll(t) \/ Deliver(t) \/ Disconnect(t)
      PROVE  ListenInv'
  <2>1. UNCHANGED <<channel, known>>
    BY <1>4 DEF Connect, Replay, ReplayAll, Deliver, Disconnect, relay
  <2>2. \A u \in Streams \ {t} : sp'[u] = sp[u]
    BY <1>4 DEF Connect, Replay, ReplayAll, Deliver, Disconnect, Go, PartsTypeOK
  <2>3. sp[t] # "unsubscribing" /\ (sp'[t] \in Listening => sp[t] \in Listening)
    BY <1>4 DEF Connect, Replay, ReplayAll, Deliver, Disconnect, Go, PartsTypeOK
  <2> QED BY <2>1, <2>2, <2>3
<1>5. ASSUME NEW t \in Streams, Enter(t)
      PROVE  ListenInv'
  <2>1. \A u \in Streams \ {t} : sp'[u] = sp[u]
    BY <1>5 DEF Enter, Go, PartsTypeOK
  <2>2. known' = known /\ sp[t] # "unsubscribing"
    BY <1>5 DEF Enter
  <2>3. \/ channel' = channel /\ sp'[t] \notin Listening
        \/ channel' = (channel \/ ~known)
    BY <1>5 DEF Enter, Go, PartsTypeOK
  <2>4. (sp'[t] \in Listening /\ \E u \in Streams \ {t} : sp[u] = "unsubscribing") => FALSE
    BY <2>1 DEF NoneLeavesBeside
  <2> QED BY <2>1, <2>2, <2>3, <2>4 DEF PartsTypeOK
<1>6. ASSUME NEW t \in Streams, Subscribed(t)
      PROVE  ListenInv'
  <2>1. \A u \in Streams \ {t} : sp'[u] = sp[u]
    BY <1>6 DEF Subscribed, Go, PartsTypeOK
  <2>2. channel /\ channel' = channel
    BY <1>6 DEF Subscribed
  <2> QED BY <2>1, <2>2
<1>7. ASSUME NEW t \in Streams, Leave(t)
      PROVE  ListenInv'
  <2>1. /\ \A u \in Streams \ {t} : sp'[u] = sp[u]
        /\ sp'[t] = IF known THEN "unsubscribing" ELSE "closed"
    BY <1>7 DEF Leave, Go, PartsTypeOK
  <2>2. known' = known /\ channel' = (channel /\ ~known)
    BY <1>7 DEF Leave
  <2>3. CASE known
    BY <2>1, <2>2, <2>3 DEF NoneLeavesBeside
  <2>4. CASE ~known
    BY <2>1, <2>2, <2>4 DEF PartsTypeOK
  <2> QED BY <2>3, <2>4
<1>8. ASSUME NEW t \in Streams, Unsubscribed(t)
      PROVE  ListenInv'
  <2>1. \A u \in Streams \ {t} : sp'[u] = sp[u]
    BY <1>8 DEF Unsubscribed, Go, PartsTypeOK
  <2>2. sp'[t] = "closed" /\ ~known' /\ channel' = channel
    BY <1>8 DEF Unsubscribed, Go, PartsTypeOK
  <2> QED BY <2>1, <2>2
<1> QED
  BY <1>1, <1>2, <1>3, <1>4, <1>5, <1>6, <1>7, <1>8 DEF StreamNext, StreamStep

\* A live stream is deaf only where a stream of the process was unsubscribing
\* while another one listened: without that, any number of streams may come, be
\* fed, end and go, and each listens for as long as it is live.
THEOREM ListensUnlessOneLeavesBeside ==
  StreamSpec /\ []NoneLeavesBeside => []LiveStreamListens
<1>1. StreamInit => ListenInv
  BY DEF StreamInit, ListenInv, Listening
<1>2. PartsTypeOK /\ ListenInv /\ NoneLeavesBeside' /\ [StreamNext]_allVars => ListenInv'
  BY ListenStep
<1>3. ListenInv => LiveStreamListens
  BY DEF ListenInv, Listening, LiveStreamListens
<1> QED BY <1>1, <1>2, <1>3, PartsHold, PTL DEF StreamSpec

-----------------------------------------------------------------------------
(* What the store promises, with its streams around it *)

\* The ladder, the finality of an outcome, the envelope and the pause hold of
\* the composed system, since it implements the store.
THEOREM StreamKeepsLadder == StreamSpec => ImplementsLadder /\ TerminalIsFinal
BY StreamImplementsStore, CasImplementsLadder, CasTerminalIsFinal, PTL

THEOREM StreamKeepsEnvelope == StreamSpec => []EnvelopeFollowsOutcome
BY StreamImplementsStore, EnvelopeCorrect, PTL

THEOREM StreamKeepsRequest == StreamSpec => []PauseCarriesRequest
<1>1. CasSpec => Spec
  BY CasIsSpec, PTL DEF CasSpec, Spec
<1> QED BY <1>1, StreamImplementsStore, PauseKeepsRequest, PTL

=============================================================================
