---------------------- MODULE IdempotentDispatchProofs ----------------------
(* Proofs about IdempotentDispatch, for any requests, keys, bodies and      *)
(* operations.                                                              *)
EXTENDS IdempotentDispatch, TLAPS

-----------------------------------------------------------------------------
(* Types *)

LEMMA KeysOf ==
  /\ \A r \in Requests : KeyOf[r] # NoKey => KeyOf[r] \in Keys
  /\ \A r \in Requests : KeyOf[r] \in Keys => KeyOf[r] # NoKey
  /\ \A r \in Requests : BodyOf[r] \in Bodies
  /\ Requests = Syncs \union Dispatches
BY RequestsAssumption DEF Requests

\* A dispatch that records has an operation.
OpInv ==
  \A r \in Requests :
    /\ pc[r] \in {"push", "bind"} => op[r] \in Ops
    /\ pc[r] = "put" /\ r \in Dispatches => op[r] \in Ops
    /\ pc[r] \in {"claim", "reread"} => KeyOf[r] \in Keys
    /\ pc[r] = "delete" => KeyOf[r] \in Keys
    /\ pc[r] = "bind" => KeyOf[r] \in Keys
    /\ pc[r] \in {"dedup", "create", "push", "bind"} => r \in Dispatches
    /\ pc[r] = "work" => r \in Syncs

TypeInv == TypeOK /\ OpInv

LEMMA TypeInit == Init => TypeInv
BY BoundsAssumption DEF Init, TypeInv, TypeOK, OpInv, Entries, NoEntry

LEMMA HitAnswers ==
  ASSUME NEW r \in Requests, Hit(r)
  PROVE  \E a \in {"conflict", "in_progress", "replay"} : Answer(r, a)
BY DEF Hit

LEMMA BoundsType ==
  ASSUME TypeOK, Up \/ Blip
  PROVE  /\ blips' \in 0 .. MaxBlips /\ cancels' \in 0 .. MaxCancels
         /\ overruns' \in 0 .. MaxOverruns
BY BoundsAssumption DEF Up, Blip, bounds, TypeOK

\* One step of a request keeps every type.
LEMMA RequestTypes ==
  ASSUME TypeInv, NEW r \in Requests, RequestStep(r) \/ Crash(r) \/ Cancelled(r)
  PROVE  TypeInv'
<1> TypeOK /\ OpInv
  BY DEF TypeInv
<1>1. CASE Lookup(r)
  <2>1. \/ Goto(r, FirstStep(r))
        \/ Goto(r, "claim") /\ KeyOf[r] \in Keys
        \/ \E a \in {"conflict", "in_progress", "replay"} : Answer(r, a)
    <3>1. CASE KeyOf[r] = NoKey
      BY <1>1, <3>1 DEF Lookup
    <3>2. CASE KeyOf[r] # NoKey
      BY <1>1, <3>2, KeysOf, HitAnswers DEF Lookup
    <3> QED BY <3>1, <3>2
  <2>2. UNCHANGED <<shared, operations, op>> /\ (Up \/ Blip)
    BY <1>1 DEF Lookup
  <2> QED BY <2>1, <2>2, KeysOf, BoundsType DEF TypeInv, TypeOK, OpInv, Goto, Answer, FirstStep,
        Working, Releasing, shared, operations
<1>2. CASE Claim(r)
  <2>1. cache' \in [Keys -> Entries]
    BY <1>2, KeysOf DEF Claim, SetEntry, Marker, TypeOK, Entries
  <2>2. Goto(r, FirstStep(r)) \/ Goto(r, "reread")
    BY <1>2 DEF Claim
  <2>3. UNCHANGED <<bound, dedup, operations, op>> /\ (Up \/ Blip) /\ KeyOf[r] \in Keys
    BY <1>2 DEF Claim, OpInv
  <2> QED BY <2>1, <2>2, <2>3, KeysOf, BoundsType DEF TypeInv, TypeOK, OpInv, Goto, FirstStep,
        Working, Releasing, operations
<1>3. CASE Reread(r)
  <2>1. \E a \in {"conflict", "in_progress", "replay"} : Answer(r, a)
    BY <1>3, HitAnswers DEF Reread
  <2>2. UNCHANGED <<shared, operations, op>> /\ (Up \/ Blip)
    BY <1>3 DEF Reread
  <2> QED BY <2>1, <2>2, BoundsType DEF TypeInv, TypeOK, OpInv, Answer, shared, operations
<1>4. CASE Run(r)
  BY <1>4, KeysOf, RequestsAssumption DEF Run, Goto, TypeInv, TypeOK, OpInv, Working, Releasing,
     shared, operations, bounds
<1>5. CASE DedupRead(r)
  <2>1. /\ op' \in [Requests -> Ops \union {NoOp}] /\ pc[r] = "dedup"
        /\ \A q \in Requests : q # r => op'[q] = op[q]
        /\ \/ Goto(r, "put") /\ op'[r] \in Ops
           \/ Goto(r, "create") \/ Goto(r, "release")
        /\ UNCHANGED <<shared, operations, bounds>>
    BY <1>5, KeysOf DEF DedupRead, TypeOK
  <2> QED BY <2>1 DEF Goto, TypeInv, TypeOK, OpInv, Working, Releasing,
        shared, operations, bounds
<1>6. CASE \E o \in Ops : Create(r, o)
  BY <1>6 DEF Create, Goto, TypeInv, TypeOK, OpInv, Working, Releasing, shared, bounds
<1>7. CASE Push(r)
  BY <1>7, KeysOf DEF Push, Goto, TypeInv, TypeOK, OpInv, Working, Releasing, bounds
<1>8. CASE Put(r)
  <2>1. cache' \in [Keys -> Entries]
    BY <1>8, KeysOf DEF Put, SetEntry, Envelope, TypeOK, Entries
  <2>2. \/ Goto(r, "bind") /\ r \in Dispatches /\ KeyOf[r] \in Keys /\ op[r] \in Ops
        \/ Answer(r, "fresh")
    BY <1>8, KeysOf DEF Put, OpInv
  <2>3. UNCHANGED <<bound, dedup, operations, op>> /\ (Up \/ Blip)
    BY <1>8 DEF Put
  <2> QED BY <2>1, <2>2, <2>3, BoundsType DEF TypeInv, TypeOK, OpInv, Goto, Answer, operations
<1>9. CASE Bind(r)
  <2>1. bound' \in [Ops -> SUBSET Keys]
    BY <1>9 DEF Bind, TypeOK, OpInv
  <2>2. Answer(r, "fresh") /\ UNCHANGED <<cache, dedup, operations, op>> /\ (Up \/ Blip)
    BY <1>9 DEF Bind
  <2> QED BY <2>1, <2>2, BoundsType DEF TypeInv, TypeOK, OpInv, Answer, operations
<1>10. CASE ReleaseRead(r)
  <2>1. (Goto(r, "delete") /\ KeyOf[r] \in Keys) \/ Answer(r, "failed")
    BY <1>10, KeysOf DEF ReleaseRead
  <2>2. UNCHANGED <<shared, operations, op>> /\ (Up \/ Blip)
    BY <1>10 DEF ReleaseRead
  <2> QED BY <2>1, <2>2, BoundsType DEF TypeInv, TypeOK, OpInv, Goto, Answer, Releasing, shared,
        operations
<1>11. CASE ReleaseDelete(r)
  <2>1. cache' \in [Keys -> Entries]
    BY <1>11 DEF ReleaseDelete, SetEntry, TypeOK, Entries
  <2>2. Answer(r, "failed") /\ UNCHANGED <<bound, dedup, operations, op>> /\ (Up \/ Blip)
    BY <1>11 DEF ReleaseDelete
  <2> QED BY <2>1, <2>2, BoundsType DEF TypeInv, TypeOK, OpInv, Answer, operations
<1>12. CASE Crash(r)
  BY <1>12 DEF Crash, Goto, TypeInv, TypeOK, OpInv, shared, operations, bounds
<1>13. CASE Cancelled(r)
  <2>1. cancels' \in 0 .. MaxCancels /\ UNCHANGED <<bound, dedup, operations, op, blips, overruns>>
    BY <1>13, BoundsAssumption DEF Cancelled, TypeOK
  <2>2. cache' \in [Keys -> Entries]
    BY <1>13, KeysOf DEF Cancelled, SetEntry, Marker, TypeOK, Entries
  <2>3. Goto(r, "release") \/ Answer(r, "cancelled")
    BY <1>13 DEF Cancelled
  <2> QED BY <2>1, <2>2, <2>3 DEF TypeInv, TypeOK, OpInv, Goto, Answer, Releasing, operations
<1> QED BY <1>1, <1>2, <1>3, <1>4, <1>5, <1>6, <1>7, <1>8, <1>9, <1>10, <1>11, <1>12, <1>13
    DEF RequestStep

LEMMA OtherTypes ==
  ASSUME TypeInv,
         \/ \E o \in Ops : OperationStep(o)
         \/ \E k \in Keys : ExpireMarker(k)
         \/ \E b \in Bodies : ExpireDedup(b)
  PROVE  TypeInv'
<1> TypeOK /\ OpInv
  BY DEF TypeInv
<1>1. ASSUME NEW o \in Ops, Complete(o) \/ Fail(o) PROVE TypeInv'
  BY <1>1 DEF Complete, Fail, TypeInv, TypeOK, OpInv, shared, requests, bounds
<1>2. ASSUME NEW o \in Ops, Collect(o) PROVE TypeInv'
  <2>1. UNCHANGED <<shared, task, requests>> /\ (Up \/ Blip)
    BY <1>2 DEF Collect
  <2>2. doomed' \in [Ops -> SUBSET Keys] /\ evicting' \in [Ops -> {"no", "due", "collected", "done"}]
    BY <1>2 DEF Collect, EvictTo, TypeOK
  <2> QED BY <2>1, <2>2, BoundsType DEF TypeInv, TypeOK, OpInv, shared, requests
<1>3. ASSUME NEW o \in Ops, Delete(o) PROVE TypeInv'
  <2>1. UNCHANGED <<dedup, task, doomed, requests>> /\ (Up \/ Blip)
    BY <1>3 DEF Delete
  <2>2. /\ cache' \in [Keys -> Entries] /\ bound' \in [Ops -> SUBSET Keys]
        /\ evicting' \in [Ops -> {"no", "due", "collected", "done"}]
    BY <1>3 DEF Delete, EvictTo, TypeOK, Entries
  <2> QED BY <2>1, <2>2, BoundsType DEF TypeInv, TypeOK, OpInv, requests
<1>4. ASSUME NEW k \in Keys, ExpireMarker(k) PROVE TypeInv'
  <2>1. UNCHANGED <<bound, dedup, operations, requests, blips, cancels>>
    BY <1>4 DEF ExpireMarker
  <2>2. cache' \in [Keys -> Entries] /\ overruns' \in 0 .. MaxOverruns
    BY <1>4, BoundsAssumption DEF ExpireMarker, TypeOK, Entries
  <2> QED BY <2>1, <2>2 DEF TypeInv, TypeOK, OpInv, operations, requests
<1>5. ASSUME NEW b \in Bodies, ExpireDedup(b) PROVE TypeInv'
  BY <1>5 DEF ExpireDedup, TypeInv, TypeOK, OpInv, operations, requests, bounds
<1> QED BY <1>1, <1>2, <1>3, <1>4, <1>5 DEF OperationStep

LEMMA TypeStep == TypeInv /\ [Next]_vars => TypeInv'
<1>1. CASE UNCHANGED vars
  BY <1>1 DEF vars, TypeInv, TypeOK, OpInv, shared, operations, requests, bounds
<1>2. CASE Next
  BY <1>2, RequestTypes, OtherTypes DEF Next
<1> QED BY <1>1, <1>2

LEMMA TypeInvHolds == Spec => []TypeInv
BY TypeInit, TypeStep, PTL DEF Spec

\* The cache, the bindings and the requests keep their types, outages included:
\* what sits under a key is nothing, a marker or an envelope.
THEOREM TypeCorrect == Spec => []TypeOK
<1>1. TypeInv => TypeOK
  BY DEF TypeInv
<1> QED BY <1>1, TypeInvHolds, PTL

-----------------------------------------------------------------------------
(* One holder per key *)

\* An operation fails once, after its task was pushed, and a request about to push
\* has an operation of its own that nobody else has touched.
PushInv ==
  /\ \A o \in Ops : evicting[o] # "no" => task[o] = "failed"
  /\ \A r \in Requests : pc[r] = "push" => task[op[r]] = "created"
  /\ \A r1, r2 \in Requests :
       pc[r1] = "push" /\ pc[r2] = "push" /\ op[r1] = op[r2] => r1 = r2

EnvelopeOf(k, o) == cache[k].kind = "envelope" /\ cache[k].op = o

\* The holder's marker is under its key.
MarkerInv == \A r \in Requests : Holding(r) => cache[KeyOf[r]].kind = "marker"

SingleInv ==
  \A r1, r2 \in Requests :
    Holding(r1) /\ Holding(r2) /\ KeyOf[r1] = KeyOf[r2] => r1 = r2

\* What an eviction deletes, or will find bound, are envelopes of its operation,
\* never somebody's marker.
DoomedInv ==
  \A o \in Ops, k \in Keys :
    /\ evicting[o] = "collected" /\ k \in doomed[o] => EnvelopeOf(k, o)
    /\ evicting[o] # "done" /\ k \in bound[o] => EnvelopeOf(k, o)

BindInv ==
  \A r \in Requests :
    pc[r] = "bind" /\ evicting[op[r]] # "done" => EnvelopeOf(KeyOf[r], op[r])

GuardInv == Guarded => MarkerInv /\ SingleInv /\ DoomedInv /\ BindInv

HolderInv == TypeInv /\ PushInv /\ GuardInv

LEMMA EntryKinds ==
  /\ NoEntry.kind = "none"
  /\ \A b : Marker(b).kind = "marker"
  /\ \A b, o : Envelope(b, o).kind = "envelope" /\ Envelope(b, o).op = o
BY DEF NoEntry, Marker, Envelope

LEMMA HolderInit == Init => HolderInv
<1> SUFFICES ASSUME Init PROVE HolderInv
  OBVIOUS
<1>1. TypeInv
  BY TypeInit
<1>2. PushInv
  BY DEF Init, PushInv
<1>3. GuardInv
  BY DEF Init, GuardInv, MarkerInv, SingleInv, DoomedInv, BindInv, Holding, Working, Releasing
<1> QED BY <1>1, <1>2, <1>3 DEF HolderInv

\* A step that only moves requests, none of them to "push", keeps PushInv.
LEMMA PushQuiet ==
  ASSUME TypeInv, PushInv, UNCHANGED <<task, evicting>>,
         \A q \in Requests : pc'[q] = "push" => pc[q] = "push" /\ op'[q] = op[q]
  PROVE  PushInv'
BY DEF PushInv

LEMMA PushStep == TypeInv /\ PushInv /\ [Next]_vars => PushInv'
<1> SUFFICES ASSUME TypeInv, PushInv, [Next]_vars PROVE PushInv'
  OBVIOUS
<1> TypeOK /\ OpInv
  BY DEF TypeInv
<1>1. CASE UNCHANGED vars
  BY <1>1, PushQuiet DEF vars, operations, requests
<1>2. ASSUME NEW r \in Requests, RequestStep(r) PROVE PushInv'
  <2>1. CASE Lookup(r)
    <3>1. Goto(r, FirstStep(r)) \/ Goto(r, "claim") \/ \E a : Answer(r, a)
      BY <2>1 DEF Lookup, Hit
    <3>2. UNCHANGED <<operations, op>>
      BY <2>1 DEF Lookup
    <3> QED BY <3>1, <3>2, PushQuiet DEF Goto, Answer, FirstStep, operations, TypeOK
  <2>2. CASE Claim(r)
    BY <2>2, PushQuiet DEF Claim, Goto, FirstStep, operations, TypeOK
  <2>3. CASE Reread(r)
    <3>1. (\E a : Answer(r, a)) /\ UNCHANGED <<operations, op>>
      BY <2>3 DEF Reread, Hit
    <3> QED BY <3>1, PushQuiet DEF Answer, operations, TypeOK
  <2>4. CASE Run(r)
    BY <2>4, PushQuiet DEF Run, Goto, operations, TypeOK
  <2>5. CASE DedupRead(r)
    <3>1. /\ Goto(r, "put") \/ Goto(r, "create") \/ Goto(r, "release")
          /\ \A q \in Requests : q # r => op'[q] = op[q]
          /\ UNCHANGED operations
      BY <2>5 DEF DedupRead, TypeOK
    <3> QED BY <3>1, PushQuiet DEF Goto, operations, TypeOK
  <2>6. CASE Push(r)
    <3>1. /\ Goto(r, "put") \/ Goto(r, "release")
          /\ pc[r] = "push" /\ UNCHANGED <<evicting, op>>
          /\ task' = [task EXCEPT ![op[r]] = "queued"] \/ UNCHANGED task
      BY <2>6 DEF Push
    <3> QED BY <3>1 DEF Goto, TypeOK, OpInv, PushInv
  <2>7. ASSUME NEW o \in Ops, Create(r, o) PROVE PushInv'
    <3>1. /\ pc' = [pc EXCEPT ![r] = "push"] /\ op' = [op EXCEPT ![r] = o]
          /\ task' = [task EXCEPT ![o] = "created"] /\ task[o] = "none" /\ UNCHANGED evicting
      BY <2>7 DEF Create, Goto
    <3> QED BY <3>1 DEF TypeOK, OpInv, PushInv
  <2>8. CASE Put(r)
    BY <2>8, PushQuiet DEF Put, Goto, Answer, operations, TypeOK
  <2>9. CASE Bind(r)
    BY <2>9, PushQuiet DEF Bind, Answer, operations, TypeOK
  <2>10. CASE ReleaseRead(r)
    BY <2>10, PushQuiet DEF ReleaseRead, Goto, Answer, operations, TypeOK
  <2>11. CASE ReleaseDelete(r)
    BY <2>11, PushQuiet DEF ReleaseDelete, Answer, operations, TypeOK
  <2> QED BY <1>2, <2>1, <2>2, <2>3, <2>4, <2>5, <2>6, <2>7, <2>8, <2>9, <2>10, <2>11
      DEF RequestStep
<1>3. ASSUME NEW r \in Requests, Crash(r) \/ Cancelled(r) PROVE PushInv'
  BY <1>3, PushQuiet DEF Crash, Cancelled, Goto, Answer, operations, TypeOK
<1>4. ASSUME NEW o \in Ops, OperationStep(o) PROVE PushInv'
  <2>1. CASE Complete(o) \/ Fail(o)
    <3>1. /\ task[o] = "queued" /\ task' \in [Ops -> {"none", "created", "queued", "completed", "failed"}]
          /\ evicting'[o] # "no" => task'[o] = "failed"
          /\ \A p \in Ops : p # o => task'[p] = task[p] /\ evicting'[p] = evicting[p]
          /\ UNCHANGED requests
      BY <2>1 DEF Complete, Fail, TypeOK, PushInv
    <3> QED BY <3>1 DEF PushInv, OpInv, requests
  <2>2. CASE Collect(o) \/ Delete(o)
    <3>1. /\ evicting[o] # "no" /\ UNCHANGED <<task, requests>>
          /\ \A p \in Ops : p # o => evicting'[p] = evicting[p]
      BY <2>2 DEF Collect, Delete, EvictTo, TypeOK
    <3> QED BY <3>1 DEF PushInv, requests
  <2> QED BY <1>4, <2>1, <2>2 DEF OperationStep
<1>5. ASSUME \/ \E k \in Keys : ExpireMarker(k)
             \/ \E b \in Bodies : ExpireDedup(b)
      PROVE  PushInv'
  BY <1>5, PushQuiet DEF ExpireMarker, ExpireDedup, operations, requests
<1> QED BY <1>1, <1>2, <1>3, <1>4, <1>5 DEF Next

\* Whose claim a request that does not move keeps.
LEMMA HoldingAfter ==
  ASSUME NEW q \in Requests, pc'[q] = pc[q]
  PROVE  Holding(q)' = Holding(q)
BY DEF Holding

\* A step that writes no entry, gives nobody a claim, and binds and dooms nothing new.
LEMMA GuardQuiet ==
  ASSUME GuardInv, Guarded' => Guarded,
         UNCHANGED <<cache, bound, doomed, evicting>>,
         \A q \in Requests : Holding(q)' => Holding(q),
         \A q \in Requests : pc'[q] = "bind" => pc[q] = "bind" /\ op'[q] = op[q]
  PROVE  GuardInv'
BY DEF GuardInv, MarkerInv, SingleInv, DoomedInv, BindInv, EnvelopeOf

\* A guarded step was guarded before it, and its cache calls reached Valkey.
LEMMA BoundsGuard ==
  ASSUME TypeOK, Up \/ Blip, Guarded'
  PROVE  Guarded /\ Up
BY DEF Up, Blip, Guarded, bounds, TypeOK

\* Claiming a key that has no entry: nobody holds it, and nothing of it is bound.
LEMMA GuardClaim ==
  ASSUME TypeInv, GuardInv, NEW r \in Requests, KeyOf[r] \in Keys,
         Entry(r) = NoEntry, SetEntry(r, Marker(BodyOf[r])),
         UNCHANGED <<bound, doomed, evicting, op>>, Guarded' => Guarded,
         \A q \in Requests : q # r => pc'[q] = pc[q],
         pc'[r] # "bind"
  PROVE  GuardInv'
<1> SUFFICES ASSUME Guarded' PROVE (MarkerInv /\ SingleInv /\ DoomedInv /\ BindInv)'
  BY DEF GuardInv
<1>1. MarkerInv /\ SingleInv /\ DoomedInv /\ BindInv /\ TypeOK /\ OpInv
  BY DEF GuardInv, TypeInv
<1>2. /\ cache'[KeyOf[r]].kind = "marker" /\ cache[KeyOf[r]].kind = "none"
      /\ \A k \in Keys : k # KeyOf[r] => cache'[k] = cache[k]
  BY <1>1, EntryKinds DEF Entry, SetEntry, TypeOK
<1>3. \A q \in Requests : q # r /\ Holding(q)' => Holding(q) /\ KeyOf[q] # KeyOf[r]
  BY <1>1, <1>2, HoldingAfter DEF MarkerInv
<1>4. MarkerInv'
  BY <1>1, <1>2, <1>3 DEF MarkerInv, Holding
<1>5. SingleInv'
  BY <1>1, <1>3 DEF SingleInv
<1>6. DoomedInv'
  BY <1>1, <1>2 DEF DoomedInv, EnvelopeOf
<1>7. BindInv'
  BY <1>1, <1>2 DEF BindInv, EnvelopeOf, OpInv
<1> QED BY <1>4, <1>5, <1>6, <1>7

\* The holder writing its own key gives up the claim; what was there was its marker.
LEMMA GuardOwn ==
  ASSUME TypeInv, GuardInv, NEW r \in Requests, Holding(r), NEW e, SetEntry(r, e),
         UNCHANGED <<bound, doomed, evicting, op>>, Guarded' => Guarded,
         \A q \in Requests : q # r => pc'[q] = pc[q],
         ~Holding(r)', pc'[r] = "bind" => e.kind = "envelope" /\ e.op = op[r]
  PROVE  GuardInv'
<1> SUFFICES ASSUME Guarded' PROVE (MarkerInv /\ SingleInv /\ DoomedInv /\ BindInv)'
  BY DEF GuardInv
<1>1. MarkerInv /\ SingleInv /\ DoomedInv /\ BindInv /\ TypeOK /\ OpInv
  BY DEF GuardInv, TypeInv
<1>2. /\ KeyOf[r] \in Keys /\ cache[KeyOf[r]].kind = "marker" /\ cache'[KeyOf[r]] = e
      /\ \A k \in Keys : k # KeyOf[r] => cache'[k] = cache[k]
  BY <1>1 DEF SetEntry, TypeOK, Holding, MarkerInv
<1>3. \A q \in Requests : Holding(q)' => q # r /\ Holding(q) /\ KeyOf[q] # KeyOf[r]
  BY <1>1, HoldingAfter DEF SingleInv
<1>4. MarkerInv'
  BY <1>1, <1>2, <1>3 DEF MarkerInv, Holding
<1>5. SingleInv'
  BY <1>1, <1>3 DEF SingleInv
<1>6. DoomedInv'
  BY <1>1, <1>2 DEF DoomedInv, EnvelopeOf
<1>7. BindInv'
  BY <1>1, <1>2 DEF BindInv, EnvelopeOf, OpInv
<1> QED BY <1>4, <1>5, <1>6, <1>7

LEMMA GuardRequest ==
  ASSUME TypeInv, GuardInv, NEW r \in Requests, RequestStep(r) \/ Crash(r) \/ Cancelled(r)
  PROVE  GuardInv'
<1> SUFFICES ASSUME Guarded' PROVE GuardInv'
  BY DEF GuardInv
<1> TypeOK /\ OpInv
  BY DEF TypeInv
<1>1. CASE Lookup(r)
  <2>1. \/ Goto(r, FirstStep(r)) /\ KeyOf[r] \notin Keys
        \/ Goto(r, "claim") \/ \E a : Answer(r, a)
    BY <1>1, KeysOf DEF Lookup, Hit
  <2>2. UNCHANGED <<shared, operations, op>> /\ (Up \/ Blip)
    BY <1>1 DEF Lookup
  <2>3. \A q \in Requests : Holding(q)' => Holding(q)
    BY <2>1 DEF Goto, Answer, Holding, TypeOK, Working, Releasing
  <2>4. \A q \in Requests : pc'[q] = "bind" => pc[q] = "bind" /\ op'[q] = op[q]
    BY <2>1, <2>2 DEF Goto, Answer, FirstStep, TypeOK
  <2> QED BY <2>2, <2>3, <2>4, BoundsGuard, GuardQuiet DEF shared, operations
<1>2. CASE Claim(r)
  <2>1. KeyOf[r] \in Keys /\ UNCHANGED <<bound, operations, op>> /\ (Up \/ Blip)
    BY <1>2 DEF Claim, OpInv
  <2>2. Guarded /\ Up /\ ~Blip
    BY <2>1, BoundsGuard DEF Blip, Up, bounds, TypeOK
  <2>3. CASE Entry(r) = NoEntry
    <3>1. SetEntry(r, Marker(BodyOf[r])) /\ Goto(r, FirstStep(r))
      BY <1>2, <2>2, <2>3 DEF Claim
    <3>2. pc'[r] # "bind" /\ \A q \in Requests : q # r => pc'[q] = pc[q]
      BY <3>1 DEF Goto, FirstStep, TypeOK
    <3> QED BY <2>1, <2>2, <2>3, <3>1, <3>2, GuardClaim DEF operations
  <2>4. CASE Entry(r) # NoEntry
    <3>1. UNCHANGED cache /\ pc' = [pc EXCEPT ![r] = "reread"]
      BY <1>2, <2>2, <2>4 DEF Claim, Goto
    <3>2. \A q \in Requests : Holding(q)' => Holding(q)
      BY <3>1 DEF Holding, TypeOK, Working, Releasing
    <3> QED BY <2>1, <2>2, <3>1, <3>2, GuardQuiet DEF operations, TypeOK
  <2> QED BY <2>3, <2>4
<1>3. CASE Reread(r)
  <2>1. (\E a : Answer(r, a)) /\ UNCHANGED <<shared, operations, op>> /\ (Up \/ Blip)
    BY <1>3 DEF Reread, Hit
  <2>2. \A q \in Requests : Holding(q)' => Holding(q)
    BY <2>1 DEF Answer, Holding, TypeOK, Working, Releasing
  <2>3. \A q \in Requests : pc'[q] = "bind" => pc[q] = "bind"
    BY <2>1 DEF Answer, TypeOK
  <2> QED BY <2>1, <2>2, <2>3, BoundsGuard, GuardQuiet DEF shared, operations
\* At work: the claim is kept on the way to recording or releasing.
<1>4. CASE Run(r) \/ DedupRead(r) \/ Push(r) \/ \E o \in Ops : Create(r, o)
  <2>1. /\ pc[r] \in Working
        /\ \E next \in {"put", "release", "create", "push"} : pc' = [pc EXCEPT ![r] = next]
        /\ UNCHANGED <<cache, bound, doomed, evicting, bounds>>
        /\ \A q \in Requests : q # r => op'[q] = op[q]
    <3>1. CASE Run(r)
      BY <3>1 DEF Run, Goto, Working, shared, operations
    <3>2. CASE DedupRead(r)
      BY <3>2 DEF DedupRead, Goto, Working, shared, operations, TypeOK
    <3>3. CASE Push(r)
      BY <3>3 DEF Push, Goto, Working
    <3>4. CASE \E o \in Ops : Create(r, o)
      BY <3>4 DEF Create, Goto, Working, shared, TypeOK
    <3> QED BY <1>4, <3>1, <3>2, <3>3, <3>4
  <2>2. \A q \in Requests : Holding(q)' => Holding(q)
    BY <2>1 DEF Holding, TypeOK
  <2>3. \A q \in Requests : pc'[q] = "bind" => pc[q] = "bind" /\ op'[q] = op[q]
    BY <2>1 DEF TypeOK
  <2> QED BY <2>1, <2>2, <2>3, GuardQuiet DEF Guarded, bounds
<1>5. CASE Put(r)
  <2>1. /\ pc[r] = "put" /\ UNCHANGED <<bound, operations, op>> /\ (Up \/ Blip)
        /\ (Goto(r, "bind") /\ KeyOf[r] # NoKey) \/ Answer(r, "fresh")
    BY <1>5 DEF Put, Up
  <2>2. Guarded /\ Up /\ ~Blip
    BY <2>1, BoundsGuard DEF Blip, Up, bounds, TypeOK
  <2>3. ~Holding(r)' /\ \A q \in Requests : q # r => pc'[q] = pc[q]
    BY <2>1 DEF Goto, Answer, Holding, Working, Releasing, TypeOK
  <2>4. CASE KeyOf[r] = NoKey
    <3>1. UNCHANGED cache /\ pc' = [pc EXCEPT ![r] = "done"]
      BY <1>5, <2>4 DEF Put, Answer
    <3>2. \A q \in Requests : Holding(q)' => Holding(q)
      BY <2>3, HoldingAfter
    <3> QED BY <2>1, <2>2, <3>1, <3>2, GuardQuiet DEF operations, TypeOK
  <2>5. CASE KeyOf[r] # NoKey
    <3>1. SetEntry(r, Envelope(BodyOf[r], op[r]))
      BY <1>5, <2>2, <2>5 DEF Put
    <3>2. Holding(r)
      BY <2>1, <2>5, KeysOf DEF Holding
    <3> QED BY <2>1, <2>2, <2>3, <3>1, <3>2, EntryKinds, GuardOwn DEF operations
  <2> QED BY <2>4, <2>5
<1>6. CASE Bind(r)
  <2>1. /\ pc[r] = "bind" /\ pc' = [pc EXCEPT ![r] = "done"]
        /\ UNCHANGED <<cache, operations, op>> /\ (Up \/ Blip)
    BY <1>6 DEF Bind, Answer
  <2>2. Guarded /\ Up /\ ~Blip
    BY <2>1, BoundsGuard DEF Blip, Up, bounds, TypeOK
  <2>3. bound' = [bound EXCEPT ![op[r]] = @ \union {KeyOf[r]}]
    BY <1>6, <2>2 DEF Bind
  <2>4. \A q \in Requests : Holding(q)' => Holding(q)
    BY <2>1 DEF Holding, Working, Releasing, TypeOK
  <2>5. MarkerInv' /\ SingleInv'
    BY <2>1, <2>2, <2>4 DEF GuardInv, MarkerInv, SingleInv
  <2>6. BindInv'
    BY <2>1, <2>2 DEF GuardInv, BindInv, EnvelopeOf, TypeOK, operations
  <2>7. DoomedInv'
    <3> SUFFICES ASSUME NEW o \in Ops, NEW k \in Keys
                 PROVE  /\ evicting[o] = "collected" /\ k \in doomed[o] => EnvelopeOf(k, o)
                        /\ evicting[o] # "done" /\ k \in bound'[o] => EnvelopeOf(k, o)
      BY <2>1 DEF DoomedInv, EnvelopeOf, operations
    <3>1. k \in bound'[o] => k \in bound[o] \/ (o = op[r] /\ k = KeyOf[r])
      BY <2>1, <2>3 DEF TypeOK
    <3> QED BY <2>1, <2>2, <3>1 DEF GuardInv, DoomedInv, BindInv
  <2> QED BY <2>5, <2>6, <2>7 DEF GuardInv
<1>7. CASE ReleaseRead(r)
  <2>1. /\ pc[r] = "release" /\ UNCHANGED <<shared, operations, op>> /\ (Up \/ Blip)
        /\ \E next \in {"delete", "done"} : pc' = [pc EXCEPT ![r] = next]
    BY <1>7 DEF ReleaseRead, Goto, Answer
  <2>2. \A q \in Requests : Holding(q)' => Holding(q)
    BY <2>1 DEF Holding, Working, Releasing, TypeOK
  <2>3. \A q \in Requests : pc'[q] = "bind" => pc[q] = "bind"
    BY <2>1 DEF TypeOK
  <2> QED BY <2>1, <2>2, <2>3, BoundsGuard, GuardQuiet DEF shared, operations
<1>8. CASE ReleaseDelete(r)
  <2>1. /\ pc[r] = "delete" /\ UNCHANGED <<bound, operations, op>> /\ (Up \/ Blip)
        /\ pc' = [pc EXCEPT ![r] = "done"]
    BY <1>8 DEF ReleaseDelete, Answer
  <2>2. Guarded /\ Up /\ ~Blip
    BY <2>1, BoundsGuard DEF Blip, Up, bounds, TypeOK
  <2>3. SetEntry(r, NoEntry)
    BY <1>8, <2>2 DEF ReleaseDelete
  <2>4. Holding(r) /\ ~Holding(r)' /\ pc'[r] # "bind" /\ \A q \in Requests : q # r => pc'[q] = pc[q]
    BY <2>1 DEF Holding, Working, Releasing, TypeOK, OpInv
  <2> QED BY <2>1, <2>2, <2>3, <2>4, GuardOwn DEF operations
<1>9. CASE Crash(r)
  <2>1. pc' = [pc EXCEPT ![r] = "dead"] /\ UNCHANGED <<shared, operations, op, bounds>>
    BY <1>9 DEF Crash, Goto
  <2>2. \A q \in Requests : Holding(q)' => Holding(q)
    BY <2>1 DEF Holding, Working, Releasing, TypeOK
  <2>3. \A q \in Requests : pc'[q] = "bind" => pc[q] = "bind"
    BY <2>1 DEF TypeOK
  <2> QED BY <2>1, <2>2, <2>3, GuardQuiet DEF shared, operations, Guarded, bounds
<1>10. CASE Cancelled(r)
  <2>1. /\ UNCHANGED <<bound, operations, op>> /\ (Guarded' => Guarded)
        /\ (Goto(r, "release") /\ pc[r] \in Working) \/ Answer(r, "cancelled")
    BY <1>10 DEF Cancelled, Guarded
  <2>2. \A q \in Requests : pc'[q] = "bind" => pc[q] = "bind"
    BY <2>1 DEF Goto, Answer, TypeOK
  <2>3. CASE UNCHANGED cache
    <3>1. \A q \in Requests : Holding(q)' => Holding(q)
      BY <2>1 DEF Goto, Answer, Holding, Working, Releasing, TypeOK
    <3> QED BY <2>1, <2>2, <2>3, <3>1, GuardQuiet DEF operations
  <2>4. CASE pc[r] = "claim" /\ Entry(r) = NoEntry /\ SetEntry(r, Marker(BodyOf[r]))
    <3>1. KeyOf[r] \in Keys /\ pc'[r] # "bind" /\ \A q \in Requests : q # r => pc'[q] = pc[q]
      BY <2>1, <2>4 DEF Goto, Answer, TypeOK, OpInv
    <3> QED BY <2>1, <2>4, <3>1, GuardClaim DEF operations
  <2>5. CASE pc[r] = "delete" /\ SetEntry(r, NoEntry) /\ Answer(r, "cancelled")
    <3>1. Holding(r) /\ ~Holding(r)' /\ pc'[r] # "bind" /\ \A q \in Requests : q # r => pc'[q] = pc[q]
      BY <2>5 DEF Answer, Holding, Working, Releasing, TypeOK, OpInv
    <3> QED BY <2>1, <2>5, <3>1, GuardOwn DEF operations
  <2> QED BY <1>10, <2>3, <2>4, <2>5 DEF Cancelled
<1> QED BY <1>1, <1>2, <1>3, <1>4, <1>5, <1>6, <1>7, <1>8, <1>9, <1>10 DEF RequestStep

LEMMA GuardOther ==
  ASSUME TypeInv, PushInv, GuardInv,
         \/ \E o \in Ops : OperationStep(o)
         \/ \E k \in Keys : ExpireMarker(k)
         \/ \E b \in Bodies : ExpireDedup(b)
  PROVE  GuardInv'
<1> SUFFICES ASSUME Guarded' PROVE (MarkerInv /\ SingleInv /\ DoomedInv /\ BindInv)'
  BY DEF GuardInv
<1> TypeOK /\ OpInv
  BY DEF TypeInv
<1>1. ASSUME NEW o \in Ops, Complete(o) \/ Fail(o)
      PROVE  (MarkerInv /\ SingleInv /\ DoomedInv /\ BindInv)'
  <2>1. UNCHANGED <<shared, doomed, requests>> /\ Guarded
    BY <1>1 DEF Complete, Fail, Guarded, bounds
  <2>2. \A p \in Ops : /\ evicting'[p] = "collected" => evicting[p] = "collected"
                       /\ evicting'[p] # "done" => evicting[p] # "done"
    BY <1>1 DEF Complete, Fail, PushInv, TypeOK
  <2> QED BY <2>1, <2>2 DEF GuardInv, MarkerInv, SingleInv, DoomedInv, BindInv, EnvelopeOf,
        Holding, shared, requests, OpInv
<1>2. ASSUME NEW o \in Ops, Collect(o)
      PROVE  (MarkerInv /\ SingleInv /\ DoomedInv /\ BindInv)'
  <2>1. UNCHANGED <<shared, requests>> /\ (Up \/ Blip) /\ evicting[o] = "due"
    BY <1>2 DEF Collect
  <2>2. Guarded /\ Up /\ ~Blip
    BY <2>1, BoundsGuard DEF Blip, Up, bounds, TypeOK
  <2>3. /\ doomed' = [doomed EXCEPT ![o] = bound[o]]
        /\ evicting' = [evicting EXCEPT ![o] = IF bound[o] = {} THEN "done" ELSE "collected"]
    BY <1>2, <2>2 DEF Collect, EvictTo
  <2>4. \A p \in Ops : /\ evicting'[p] = "collected" => doomed'[p] = IF p = o THEN bound[o] ELSE doomed[p]
                       /\ p # o => evicting'[p] = evicting[p]
                       /\ evicting'[p] # "done" => evicting[p] # "done"
    BY <2>1, <2>3 DEF TypeOK
  <2> QED BY <2>1, <2>2, <2>4 DEF GuardInv, MarkerInv, SingleInv, DoomedInv, BindInv, EnvelopeOf,
        Holding, shared, requests, OpInv
<1>3. ASSUME NEW o \in Ops, Delete(o)
      PROVE  (MarkerInv /\ SingleInv /\ DoomedInv /\ BindInv)'
  <2>1. /\ UNCHANGED <<doomed, requests>> /\ (Up \/ Blip)
        /\ evicting[o] = "collected" /\ evicting' = [evicting EXCEPT ![o] = "done"]
    BY <1>3 DEF Delete, EvictTo
  <2>2. Guarded /\ Up /\ ~Blip
    BY <2>1, BoundsGuard DEF Blip, Up, bounds, TypeOK
  <2>3. /\ cache' = [k \in Keys |-> IF k \in doomed[o] THEN NoEntry ELSE cache[k]]
        /\ bound' = [bound EXCEPT ![o] = {}]
    BY <1>3, <2>2 DEF Delete
  <2>4. ASSUME NEW k \in Keys, ~EnvelopeOf(k, o) PROVE cache'[k] = cache[k]
    BY <2>1, <2>2, <2>3, <2>4 DEF GuardInv, DoomedInv
  <2>5. MarkerInv' /\ SingleInv'
    BY <2>1, <2>2, <2>4 DEF GuardInv, MarkerInv, SingleInv, EnvelopeOf, Holding, requests
  <2>6. \A p \in Ops : p # o => evicting'[p] = evicting[p] /\ bound'[p] = bound[p]
    BY <2>1, <2>3 DEF TypeOK
  <2>7. evicting'[o] = "done"
    BY <2>1 DEF TypeOK
  <2>8. \A p \in Ops, k \in Keys : p # o /\ EnvelopeOf(k, p) => EnvelopeOf(k, p)'
    BY <2>4 DEF EnvelopeOf
  <2>9. DoomedInv'
    BY <2>1, <2>2, <2>6, <2>7, <2>8 DEF GuardInv, DoomedInv
  <2>10. BindInv'
    BY <2>1, <2>2, <2>6, <2>7, <2>8 DEF GuardInv, BindInv, requests, OpInv, EnvelopeOf
  <2> QED BY <2>5, <2>9, <2>10
<1>4. ASSUME NEW k \in Keys, ExpireMarker(k)
      PROVE  (MarkerInv /\ SingleInv /\ DoomedInv /\ BindInv)'
  <2>1. /\ UNCHANGED <<bound, operations, requests>> /\ cache[k].kind = "marker"
        /\ cache' = [cache EXCEPT ![k] = NoEntry]
    BY <1>4 DEF ExpireMarker
  <2>2. Guarded /\ \A r \in Requests : Holding(r) => KeyOf[r] # k
    BY <1>4 DEF ExpireMarker, Guarded, TypeOK
  <2>3. \A j \in Keys : j # k => cache'[j] = cache[j]
    BY <2>1 DEF TypeOK
  <2>4. \A j \in Keys, o \in Ops : EnvelopeOf(j, o) => EnvelopeOf(j, o)'
    BY <2>1, <2>3 DEF EnvelopeOf
  <2>5. MarkerInv' /\ SingleInv'
    BY <2>1, <2>2, <2>3 DEF GuardInv, MarkerInv, SingleInv, Holding, requests
  <2>6. DoomedInv'
    BY <2>1, <2>2, <2>4 DEF GuardInv, DoomedInv, operations
  <2>7. BindInv'
    BY <2>1, <2>2, <2>3 DEF GuardInv, BindInv, EnvelopeOf, operations, requests, OpInv
  <2> QED BY <2>5, <2>6, <2>7
<1>5. ASSUME NEW b \in Bodies, ExpireDedup(b)
      PROVE  (MarkerInv /\ SingleInv /\ DoomedInv /\ BindInv)'
  <2>1. UNCHANGED <<cache, bound, operations, requests, bounds>>
    BY <1>5 DEF ExpireDedup
  <2> QED BY <2>1 DEF GuardInv, Guarded, MarkerInv, SingleInv, DoomedInv, BindInv, EnvelopeOf,
        Holding, operations, requests, bounds
<1> QED BY <1>1, <1>2, <1>3, <1>4, <1>5 DEF OperationStep

LEMMA HolderStep == HolderInv /\ [Next]_vars => HolderInv'
<1> SUFFICES ASSUME TypeInv, PushInv, GuardInv, [Next]_vars PROVE HolderInv'
  BY DEF HolderInv
<1>1. TypeInv' /\ PushInv'
  BY TypeStep, PushStep
<1>2. CASE UNCHANGED vars
  <2>1. UNCHANGED <<cache, bound, doomed, evicting, pc, op, bounds>>
    BY <1>2 DEF vars, shared, operations, requests
  <2>2. \A q \in Requests : Holding(q)' => Holding(q)
    BY <2>1 DEF Holding
  <2>3. GuardInv'
    BY <2>1, <2>2, GuardQuiet DEF Guarded, bounds
  <2> QED BY <1>1, <2>3 DEF HolderInv
<1>3. CASE Next
  <2>1. GuardInv'
    BY <1>3, GuardRequest, GuardOther DEF Next
  <2> QED BY <1>1, <2>1 DEF HolderInv
<1> QED BY <1>2, <1>3

\* While the cache answers and no work outlives its reservation, two requests never
\* work under one key: the holder's marker stays until the holder itself replaces or
\* deletes it, since evictions delete envelopes only.
THEOREM OneHolder == Spec => []OneHolderPerKey
<1>1. HolderInv => OneHolderPerKey
  BY DEF HolderInv, GuardInv, OneHolderPerKey, SingleInv
<1> QED BY <1>1, HolderInit, HolderStep, PTL DEF Spec

-----------------------------------------------------------------------------
(* Recorded once per key *)

\* Only a request that is done was answered.
AnswerInv == \A r \in Requests : answer[r] # "none" => pc[r] = "done"

Failed(o) == o \in Ops /\ task[o] = "failed"

Recorded(r) == KeyOf[r] \in Keys /\ (pc[r] = "bind" \/ answer[r] = "fresh")

\* What a request recorded is there until its operation failed, so nobody else
\* records under the key before that.
RecordInv ==
  Guarded =>
    /\ \A r \in Requests : Recorded(r) /\ ~Failed(op[r]) => EnvelopeOf(KeyOf[r], op[r])
    /\ \A r1, r2 \in Requests :
         r1 # r2 /\ KeyOf[r1] = KeyOf[r2] /\ Recorded(r1) /\ Recorded(r2)
         => Failed(op[r1]) \/ Failed(op[r2])

OnceInv == HolderInv /\ AnswerInv /\ RecordInv

\* What a step of a request may do to the others, to its own place and answer.
LEMMA RequestMoves ==
  ASSUME TypeInv, NEW r \in Requests, RequestStep(r) \/ Crash(r) \/ Cancelled(r)
  PROVE  /\ pc[r] \notin {"done", "dead"}
         /\ \A q \in Requests : q # r => pc'[q] = pc[q] /\ op'[q] = op[q] /\ answer'[q] = answer[q]
         /\ answer'[r] # answer[r] => pc'[r] = "done"
         /\ pc[r] = "bind" => op'[r] = op[r]
         /\ pc'[r] = "bind" \/ (answer'[r] = "fresh" /\ answer[r] # "fresh")
            => Put(r) \/ Bind(r)
<1> TypeOK /\ OpInv
  BY DEF TypeInv
<1>1. CASE Lookup(r)
  <2>1. /\ pc[r] = "new" /\ UNCHANGED op
        /\ \/ Goto(r, FirstStep(r)) \/ Goto(r, "claim")
           \/ \E a \in {"conflict", "in_progress", "replay"} : Answer(r, a)
    BY <1>1, HitAnswers DEF Lookup
  <2> QED BY <2>1 DEF Goto, Answer, FirstStep, TypeOK
<1>2. CASE Claim(r)
  BY <1>2 DEF Claim, Goto, FirstStep, TypeOK
<1>3. CASE Reread(r)
  <2>1. /\ pc[r] = "reread" /\ UNCHANGED op
        /\ \E a \in {"conflict", "in_progress", "replay"} : Answer(r, a)
    BY <1>3, HitAnswers DEF Reread
  <2> QED BY <2>1 DEF Answer, TypeOK
<1>4. CASE Run(r)
  BY <1>4 DEF Run, Goto, TypeOK
<1>5. CASE DedupRead(r)
  BY <1>5 DEF DedupRead, Goto, TypeOK
<1>6. CASE \E o \in Ops : Create(r, o)
  BY <1>6 DEF Create, Goto, TypeOK
<1>7. CASE Push(r)
  BY <1>7 DEF Push, Goto, TypeOK
<1>8. CASE Put(r)
  BY <1>8 DEF Put, Goto, Answer, TypeOK
<1>9. CASE Bind(r)
  BY <1>9 DEF Bind, Answer, TypeOK
<1>10. CASE ReleaseRead(r)
  BY <1>10 DEF ReleaseRead, Goto, Answer, TypeOK
<1>11. CASE ReleaseDelete(r)
  BY <1>11 DEF ReleaseDelete, Answer, TypeOK
<1>12. CASE Crash(r)
  BY <1>12 DEF Crash, Goto, TypeOK
<1>13. CASE Cancelled(r)
  <2>1. /\ pc[r] \notin {"done", "dead"} /\ UNCHANGED op
        /\ Goto(r, "release") \/ Answer(r, "cancelled")
    BY <1>13 DEF Cancelled, Working, Releasing
  <2> QED BY <2>1 DEF Goto, Answer, TypeOK
<1> QED BY <1>1, <1>2, <1>3, <1>4, <1>5, <1>6, <1>7, <1>8, <1>9, <1>10, <1>11, <1>12, <1>13
    DEF RequestStep

\* Nothing restores the guard.
LEMMA GuardedBefore ==
  ASSUME TypeOK, [Next]_vars, Guarded'
  PROVE  Guarded
<1>1. ASSUME Up \/ Blip PROVE Guarded
  BY <1>1, BoundsGuard
<1>2. ASSUME UNCHANGED <<blips, overruns>> PROVE Guarded
  BY <1>2 DEF Guarded
<1>3. ASSUME NEW r \in Requests, RequestStep(r) \/ Crash(r) \/ Cancelled(r) PROVE Guarded
  <2>1. Up \/ Blip \/ UNCHANGED <<blips, overruns>>
    BY <1>3 DEF RequestStep, Lookup, Claim, Reread, Run, DedupRead, Push, Create, Put, Bind,
       ReleaseRead, ReleaseDelete, Crash, Cancelled, bounds
  <2> QED BY <1>1, <1>2, <2>1
<1>4. ASSUME NEW o \in Ops, OperationStep(o) PROVE Guarded
  <2>1. Up \/ Blip \/ UNCHANGED <<blips, overruns>>
    BY <1>4 DEF OperationStep, Complete, Fail, Collect, Delete, bounds
  <2> QED BY <1>1, <1>2, <2>1
<1>5. ASSUME NEW k \in Keys, ExpireMarker(k) PROVE Guarded
  BY <1>5 DEF ExpireMarker, Guarded, TypeOK
<1>6. ASSUME (\E b \in Bodies : ExpireDedup(b)) \/ UNCHANGED vars PROVE Guarded
  BY <1>2, <1>6 DEF ExpireDedup, vars, bounds
<1> QED BY <1>3, <1>4, <1>5, <1>6 DEF Next

LEMMA AnswerStep == TypeInv /\ AnswerInv /\ [Next]_vars => AnswerInv'
<1> SUFFICES ASSUME TypeInv, AnswerInv, [Next]_vars PROVE AnswerInv'
  OBVIOUS
<1>1. CASE UNCHANGED requests
  BY <1>1 DEF requests, AnswerInv
<1>2. ASSUME NEW r \in Requests, RequestStep(r) \/ Crash(r) \/ Cancelled(r) PROVE AnswerInv'
  BY <1>2, RequestMoves DEF AnswerInv
<1>3. ASSUME \/ \E o \in Ops : OperationStep(o)
             \/ \E k \in Keys : ExpireMarker(k)
             \/ \E b \in Bodies : ExpireDedup(b)
      PROVE  UNCHANGED requests
  BY <1>3 DEF OperationStep, Complete, Fail, Collect, Delete, ExpireMarker, ExpireDedup
<1> QED BY <1>1, <1>2, <1>3 DEF Next, vars

\* A failure is final: ids are fresh, and only a task that was pushed can end.
LEMMA FailedStays ==
  ASSUME TypeInv, PushInv, [Next]_vars, NEW o \in Ops, task[o] = "failed"
  PROVE  task'[o] = "failed"
<1> TypeOK /\ OpInv
  BY DEF TypeInv
<1>1. CASE UNCHANGED task
  BY <1>1
<1>2. ASSUME NEW r \in Requests, Push(r) PROVE task'[o] = "failed"
  BY <1>2 DEF Push, PushInv, TypeOK
<1>3. ASSUME NEW r \in Requests, NEW p \in Ops, Create(r, p) PROVE task'[o] = "failed"
  BY <1>3 DEF Create, TypeOK
<1>4. ASSUME NEW p \in Ops, Complete(p) \/ Fail(p) PROVE task'[o] = "failed"
  BY <1>4 DEF Complete, Fail, TypeOK
<1>5. ASSUME NEW r \in Requests,
             \/ Lookup(r) \/ Claim(r) \/ Reread(r) \/ Run(r) \/ DedupRead(r) \/ Put(r) \/ Bind(r)
             \/ ReleaseRead(r) \/ ReleaseDelete(r) \/ Crash(r) \/ Cancelled(r)
      PROVE  UNCHANGED task
  BY <1>5 DEF Lookup, Claim, Reread, Run, DedupRead, Put, Bind, ReleaseRead, ReleaseDelete, Crash,
     Cancelled, operations
<1>6. ASSUME NEW p \in Ops, Collect(p) \/ Delete(p) PROVE UNCHANGED task
  BY <1>6 DEF Collect, Delete
<1>7. ASSUME (\E k \in Keys : ExpireMarker(k)) \/ \E b \in Bodies : ExpireDedup(b)
      PROVE  UNCHANGED task
  BY <1>7 DEF ExpireMarker, ExpireDedup, operations
<1>8. ASSUME UNCHANGED vars PROVE UNCHANGED task
  BY <1>8 DEF vars, operations
<1> QED BY <1>1, <1>2, <1>3, <1>4, <1>5, <1>6, <1>7, <1>8 DEF Next, RequestStep, OperationStep

\* While guarded, an envelope stays until its operation failed: requests write only
\* over nothing or over their own marker.
LEMMA EnvelopeStays ==
  ASSUME HolderInv, [Next]_vars, Guarded',
         NEW k \in Keys, NEW o, EnvelopeOf(k, o), ~Failed(o)
  PROVE  EnvelopeOf(k, o)'
<1>1. TypeInv /\ TypeOK /\ OpInv /\ PushInv /\ GuardInv
  BY DEF HolderInv, TypeInv
<1>2. cache[k].kind = "envelope" /\ cache[k] # NoEntry
  BY EntryKinds DEF EnvelopeOf
<1>3. CASE UNCHANGED cache
  BY <1>3 DEF EnvelopeOf
<1>4. ASSUME NEW r \in Requests, NEW e, SetEntry(r, e), KeyOf[r] \in Keys,
             Entry(r) = NoEntry \/ (Guarded /\ Holding(r))
      PROVE  EnvelopeOf(k, o)'
  <2>1. k # KeyOf[r]
    BY <1>1, <1>2, <1>4 DEF Entry, GuardInv, MarkerInv
  <2> QED BY <1>1, <1>4, <2>1 DEF SetEntry, TypeOK, EnvelopeOf
<1>5. ASSUME NEW r \in Requests, Claim(r) \/ Cancelled(r) PROVE EnvelopeOf(k, o)'
  <2>1. \/ UNCHANGED cache
        \/ pc[r] = "claim" /\ Entry(r) = NoEntry /\ \E e : SetEntry(r, e)
        \/ Cancelled(r) /\ pc[r] = "delete" /\ \E e : SetEntry(r, e)
    BY <1>5 DEF Claim, Cancelled
  <2>2. CASE Cancelled(r) /\ pc[r] = "delete"
    <3>1. Guarded /\ KeyOf[r] \in Keys /\ Holding(r)
      BY <1>1, <2>2 DEF Cancelled, Guarded, OpInv, Holding, Releasing
    <3> QED BY <1>3, <1>4, <2>1, <3>1 DEF OpInv
  <2> QED BY <1>1, <1>3, <1>4, <2>1, <2>2 DEF OpInv
<1>6. ASSUME NEW r \in Requests, Put(r) \/ ReleaseDelete(r) PROVE EnvelopeOf(k, o)'
  <2>1. Up \/ Blip
    BY <1>6 DEF Put, ReleaseDelete
  <2>2. Guarded
    BY <1>1, <2>1, BoundsGuard
  <2>3. pc[r] \in Releasing \union {"put"}
    BY <1>6 DEF Put, ReleaseDelete, Releasing
  <2>4. UNCHANGED cache \/ (KeyOf[r] \in Keys /\ \E e : SetEntry(r, e))
    BY <1>1, <1>6, KeysOf DEF Put, ReleaseDelete, OpInv
  <2> QED BY <1>3, <1>4, <2>2, <2>3, <2>4 DEF Holding
<1>7. ASSUME NEW p \in Ops, Delete(p) PROVE EnvelopeOf(k, o)'
  <2>1. Up \/ Blip
    BY <1>7 DEF Delete
  <2>2. Guarded
    BY <1>1, <2>1, BoundsGuard
  <2>3. evicting[p] = "collected" /\ Failed(p) /\ p # o
    BY <1>1, <1>7 DEF Delete, PushInv, Failed
  <2>4. k \notin doomed[p]
    BY <1>1, <2>2, <2>3 DEF GuardInv, DoomedInv, EnvelopeOf
  <2> QED BY <1>3, <1>7, <2>4 DEF Delete, EnvelopeOf
<1>8. ASSUME NEW j \in Keys, ExpireMarker(j) PROVE EnvelopeOf(k, o)'
  <2>1. j # k /\ cache' = [cache EXCEPT ![j] = NoEntry]
    BY <1>2, <1>8 DEF ExpireMarker
  <2> QED BY <1>1, <2>1 DEF TypeOK, EnvelopeOf
<1>9. ASSUME NEW r \in Requests,
             \/ Lookup(r) \/ Reread(r) \/ Run(r) \/ DedupRead(r) \/ Push(r) \/ Bind(r)
             \/ (\E p \in Ops : Create(r, p)) \/ ReleaseRead(r) \/ Crash(r)
      PROVE  UNCHANGED cache
  BY <1>9 DEF Lookup, Reread, Run, DedupRead, Push, Bind, Create, ReleaseRead, Crash, shared
<1>10. ASSUME NEW p \in Ops, Complete(p) \/ Fail(p) \/ Collect(p) PROVE UNCHANGED cache
  BY <1>10 DEF Complete, Fail, Collect, shared
<1>11. ASSUME (\E b \in Bodies : ExpireDedup(b)) \/ UNCHANGED vars PROVE UNCHANGED cache
  BY <1>11 DEF ExpireDedup, vars, shared
<1> QED BY <1>3, <1>5, <1>6, <1>7, <1>8, <1>9, <1>10, <1>11 DEF Next, RequestStep, OperationStep

\* A request that recorded keeps its operation, and one that has just recorded held
\* the claim and replaced it by its envelope.
LEMMA RecordedStep ==
  ASSUME HolderInv, AnswerInv, [Next]_vars, Guarded', NEW r \in Requests
  PROVE  /\ Recorded(r) => op'[r] = op[r]
         /\ Recorded(r)' => Recorded(r) \/ (Guarded /\ Holding(r) /\ EnvelopeOf(KeyOf[r], op[r])')
         /\ Recorded(r)' => op'[r] = op[r]
<1>1. TypeInv /\ TypeOK /\ OpInv
  BY DEF HolderInv, TypeInv
<1>2. CASE UNCHANGED requests
  BY <1>2 DEF requests, Recorded
<1>3. ASSUME NEW q \in Requests, RequestStep(q) \/ Crash(q) \/ Cancelled(q), q # r
      PROVE  UNCHANGED <<pc[r], op[r], answer[r]>>
  BY <1>1, <1>3, RequestMoves
<1>4. ASSUME UNCHANGED <<pc[r], op[r], answer[r]>>
      PROVE  op'[r] = op[r] /\ (Recorded(r)' <=> Recorded(r))
  BY <1>4 DEF Recorded
<1>5. CASE RequestStep(r) \/ Crash(r) \/ Cancelled(r)
  <2>1. Recorded(r) => pc[r] = "bind"
    BY <1>1, <1>5, RequestMoves DEF Recorded, AnswerInv
  <2>2. Recorded(r) => op'[r] = op[r]
    BY <1>1, <1>5, <2>1, RequestMoves
  <2>3. ASSUME Recorded(r)', ~Recorded(r) PROVE Put(r)
    <3>1. Put(r) \/ Bind(r)
      BY <1>1, <1>5, <2>3, RequestMoves DEF Recorded
    <3> QED BY <1>1, <2>3, <3>1 DEF Bind, Recorded, OpInv
  <2>4. ASSUME Put(r), KeyOf[r] \in Keys
        PROVE  Guarded /\ Holding(r) /\ EnvelopeOf(KeyOf[r], op[r])' /\ op'[r] = op[r]
    <3>1. (Up \/ Blip) /\ pc[r] = "put" /\ UNCHANGED op
      BY <2>4 DEF Put
    <3>2. Guarded /\ Up /\ ~Blip
      BY <1>1, <3>1, BoundsGuard DEF Blip, Up, bounds, TypeOK
    <3>3. SetEntry(r, Envelope(BodyOf[r], op[r]))
      BY <2>4, <3>2, KeysOf DEF Put
    <3> QED BY <1>1, <2>4, <3>1, <3>2, <3>3, EntryKinds DEF Holding, EnvelopeOf, SetEntry, TypeOK
  <2> QED BY <2>2, <2>3, <2>4 DEF Recorded
<1>6. ASSUME \/ \E o \in Ops : OperationStep(o)
             \/ \E k \in Keys : ExpireMarker(k)
             \/ \E b \in Bodies : ExpireDedup(b)
             \/ UNCHANGED vars
      PROVE  UNCHANGED requests
  BY <1>6 DEF OperationStep, Complete, Fail, Collect, Delete, ExpireMarker, ExpireDedup, vars
<1> QED BY <1>2, <1>3, <1>4, <1>5, <1>6 DEF Next

LEMMA OnceStep == OnceInv /\ [Next]_vars => OnceInv'
<1> SUFFICES ASSUME HolderInv, AnswerInv, RecordInv, [Next]_vars PROVE OnceInv'
  BY DEF OnceInv
<1>1. HolderInv' /\ AnswerInv'
  BY HolderStep, AnswerStep DEF HolderInv
<1>2. RecordInv'
  <2> SUFFICES ASSUME Guarded'
               PROVE  /\ \A r \in Requests :
                           (Recorded(r) /\ ~Failed(op[r]) => EnvelopeOf(KeyOf[r], op[r]))'
                      /\ \A r1, r2 \in Requests :
                           (r1 # r2 /\ KeyOf[r1] = KeyOf[r2] /\ Recorded(r1) /\ Recorded(r2)
                            => Failed(op[r1]) \/ Failed(op[r2]))'
    BY DEF RecordInv
  <2>1. Guarded
    BY GuardedBefore DEF HolderInv, TypeInv
  <2>2. \A o : Failed(o) => Failed(o)'
    BY FailedStays DEF Failed, HolderInv
  <2>3. ASSUME NEW r \in Requests, Recorded(r)', ~Failed(op[r])' PROVE EnvelopeOf(KeyOf[r], op[r])'
    <3>1. op'[r] = op[r] /\ KeyOf[r] \in Keys /\ ~Failed(op[r])
      BY <2>2, <2>3, RecordedStep DEF Recorded
    <3>2. CASE Recorded(r)
      <4>1. EnvelopeOf(KeyOf[r], op[r])
        BY <2>1, <3>1, <3>2 DEF RecordInv
      <4>2. cache'[KeyOf[r]].kind = "envelope" /\ cache'[KeyOf[r]].op = op[r]
        BY <3>1, <4>1, EnvelopeStays DEF EnvelopeOf
      <4> QED BY <3>1, <4>2 DEF EnvelopeOf
    <3>3. CASE ~Recorded(r)
      BY <2>3, <3>3, RecordedStep
    <3> QED BY <3>2, <3>3
  <2>4. ASSUME NEW r \in Requests, NEW q \in Requests, r # q, KeyOf[r] = KeyOf[q],
               Recorded(r), Recorded(q)', ~Recorded(q)
        PROVE  Failed(op[r])
    <3>1. Holding(q)
      BY <2>4, RecordedStep
    <3>2. cache[KeyOf[r]].kind = "marker"
      BY <2>1, <2>4, <3>1 DEF HolderInv, GuardInv, MarkerInv
    <3> QED BY <2>1, <2>4, <3>2 DEF RecordInv, EnvelopeOf
  <2>5. ASSUME NEW r1 \in Requests, NEW r2 \in Requests, r1 # r2, KeyOf[r1] = KeyOf[r2],
               Recorded(r1)', Recorded(r2)'
        PROVE  Failed(op[r1])' \/ Failed(op[r2])'
    <3>1. op'[r1] = op[r1] /\ op'[r2] = op[r2]
      BY <2>5, RecordedStep
    <3>2. Failed(op[r1]) \/ Failed(op[r2])
      <4>1. CASE Recorded(r1) /\ Recorded(r2)
        BY <2>1, <2>5, <4>1 DEF RecordInv
      <4>2. CASE Recorded(r1) /\ ~Recorded(r2)
        BY <2>4, <2>5, <4>2
      <4>3. CASE ~Recorded(r1) /\ Recorded(r2)
        BY <2>4, <2>5, <4>3
      <4>4. CASE ~Recorded(r1) /\ ~Recorded(r2)
        <5>1. Holding(r1) /\ Holding(r2)
          BY <2>5, <4>4, RecordedStep
        <5> QED BY <2>1, <2>5, <5>1 DEF HolderInv, GuardInv, SingleInv
      <4> QED BY <4>1, <4>2, <4>3, <4>4
    <3> QED BY <2>2, <3>1, <3>2 DEF Failed
  <2> QED BY <2>3, <2>5
<1> QED BY <1>1, <1>2 DEF OnceInv

\* While guarded, an operation is recorded once per key: what a request recorded
\* stays under its key, where it turns every other request away, until its operation
\* has failed.
THEOREM RecordedOnce == Spec => []RecordedOncePerKey
<1>1. Init => OnceInv
  <2>1. Init => AnswerInv /\ RecordInv
    BY DEF Init, AnswerInv, RecordInv, Recorded
  <2> QED BY <2>1, HolderInit DEF OnceInv
<1>2. OnceInv => RecordedOncePerKey
  BY KeysOf, RequestsAssumption DEF OnceInv, RecordInv, RecordedOncePerKey, Recorded, Failed
<1> QED BY <1>1, <1>2, OnceStep, PTL DEF Spec

-----------------------------------------------------------------------------
(* Deduplication and reservations *)

Pushed(o) == o \in Ops /\ task[o] \in {"queued", "completed", "failed"}

DedupInv == \A b \in Bodies : dedup[b] # NoOp => Pushed(dedup[b])

LEMMA DedupStep == TypeInv /\ PushInv /\ DedupInv /\ [Next]_vars => DedupInv'
<1> SUFFICES ASSUME TypeInv, PushInv, DedupInv, [Next]_vars PROVE DedupInv'
  OBVIOUS
<1> TypeOK /\ OpInv
  BY DEF TypeInv
<1>1. CASE UNCHANGED <<dedup, task>>
  BY <1>1 DEF DedupInv, Pushed
<1>2. ASSUME NEW r \in Requests, Push(r) PROVE DedupInv'
  <2>1. op[r] \in Ops /\ BodyOf[r] \in Bodies
    BY <1>2, KeysOf DEF Push, OpInv
  <2>2. CASE /\ dedup' = [dedup EXCEPT ![BodyOf[r]] = op[r]]
             /\ task' = [task EXCEPT ![op[r]] = "queued"]
    <3>1. \A o \in Ops : Pushed(o) => Pushed(o)'
      BY <2>1, <2>2 DEF Pushed, TypeOK
    <3>2. Pushed(op[r])' \/ task'[op[r]] = "queued"
      BY <2>1, <2>2 DEF TypeOK
    <3> QED BY <2>1, <2>2, <3>1, <3>2 DEF DedupInv, Pushed, TypeOK
  <2> QED BY <1>1, <1>2, <2>2 DEF Push
<1>3. ASSUME NEW r \in Requests, NEW o \in Ops, Create(r, o) PROVE DedupInv'
  BY <1>3 DEF Create, shared, DedupInv, Pushed, TypeOK
<1>4. ASSUME NEW o \in Ops, Complete(o) \/ Fail(o) PROVE DedupInv'
  BY <1>4 DEF Complete, Fail, shared, DedupInv, Pushed, TypeOK
<1>5. ASSUME NEW b \in Bodies, ExpireDedup(b) PROVE DedupInv'
  BY <1>5 DEF ExpireDedup, operations, DedupInv, Pushed, TypeOK
<1>6. ASSUME NEW r \in Requests,
             \/ Lookup(r) \/ Claim(r) \/ Reread(r) \/ Run(r) \/ DedupRead(r) \/ Put(r) \/ Bind(r)
             \/ ReleaseRead(r) \/ ReleaseDelete(r) \/ Crash(r) \/ Cancelled(r)
      PROVE  UNCHANGED <<dedup, task>>
  BY <1>6 DEF Lookup, Claim, Reread, Run, DedupRead, Put, Bind, ReleaseRead, ReleaseDelete, Crash,
     Cancelled, operations, shared
<1>7. ASSUME \/ \E o \in Ops : Collect(o) \/ Delete(o)
             \/ \E k \in Keys : ExpireMarker(k)
             \/ UNCHANGED vars
      PROVE  UNCHANGED <<dedup, task>>
  BY <1>7 DEF Collect, Delete, ExpireMarker, vars, operations, shared
<1> QED BY <1>1, <1>2, <1>3, <1>4, <1>5, <1>6, <1>7 DEF Next, RequestStep, OperationStep

\* A deduplicated request is told of an operation whose task was pushed, outages,
\* crashes and lost answers included.
THEOREM DedupNamesPushed == Spec => []DedupNamesPushedTask
<1>1. Init => TypeInv /\ PushInv /\ DedupInv
  <2>1. Init => DedupInv
    BY DEF Init, DedupInv
  <2> QED BY <2>1, HolderInit DEF HolderInv
<1>2. TypeInv /\ PushInv /\ DedupInv /\ [Next]_vars => (TypeInv /\ PushInv /\ DedupInv)'
  BY TypeStep, PushStep, DedupStep
<1>3. DedupInv => DedupNamesPushedTask
  BY DEF DedupInv, Pushed, DedupNamesPushedTask
<1> QED BY <1>1, <1>2, <1>3, PTL DEF Spec

\* Somebody answers for a marker.
Answers(r) == Holding(r) \/ pc[r] = "dead" \/ answer[r] = "cancelled"

\* A request stops answering for its key's marker only by taking it away.
LEMMA AnswersOn ==
  ASSUME TypeInv, AnswerInv, blips' = 0,
         NEW r \in Requests, RequestStep(r) \/ Crash(r) \/ Cancelled(r),
         NEW q \in Requests, KeyOf[q] \in Keys, Answers(q)
  PROVE  Answers(q)' \/ cache'[KeyOf[q]].kind # "marker"
<1> TypeOK /\ OpInv
  BY DEF TypeInv
<1>1. CASE q # r
  BY <1>1, RequestMoves DEF Answers, Holding
<1>2. CASE q = r
  <2>1. pc[r] \in Working \union Releasing \union {"put"}
    BY <1>2, RequestMoves DEF Answers, Holding, AnswerInv
  <2>2. ~Blip
    BY DEF Blip, TypeOK
  <2>3. CASE Run(r) \/ DedupRead(r) \/ Push(r) \/ \E o \in Ops : Create(r, o)
    BY <1>2, <2>3 DEF Run, DedupRead, Push, Create, Goto, Answers, Holding, Working, Releasing, TypeOK
  <2>4. CASE Put(r) \/ ReleaseDelete(r)
    <3>1. SetEntry(r, Envelope(BodyOf[r], op[r])) \/ SetEntry(r, NoEntry)
      BY <1>2, <2>2, <2>4, KeysOf DEF Put, ReleaseDelete
    <3> QED BY <1>2, <3>1, EntryKinds DEF SetEntry, TypeOK
  <2>5. CASE ReleaseRead(r)
    <3>1. \/ pc' = [pc EXCEPT ![r] = "delete"]
          \/ Entry(r).kind # "marker" /\ UNCHANGED cache
      BY <1>2, <2>2, <2>5, KeysOf DEF ReleaseRead, Goto, shared
    <3> QED BY <1>2, <3>1 DEF Answers, Holding, Releasing, Entry, TypeOK
  <2>6. CASE Crash(r)
    BY <1>2, <2>6 DEF Crash, Goto, Answers, TypeOK
  <2>7. CASE Cancelled(r)
    <3>1. pc' = [pc EXCEPT ![r] = "release"] \/ answer' = [answer EXCEPT ![r] = "cancelled"]
      BY <2>7 DEF Cancelled, Goto, Answer
    <3> QED BY <1>2, <3>1 DEF Answers, Holding, Releasing, TypeOK
  <2>8. CASE Lookup(r) \/ Claim(r) \/ Reread(r) \/ Bind(r)
    BY <2>1, <2>8 DEF Lookup, Claim, Reread, Bind, Working, Releasing
  <2> QED BY <2>3, <2>4, <2>5, <2>6, <2>7, <2>8 DEF RequestStep
<1> QED BY <1>1, <1>2

\* A marker is put there by somebody who then answers for it.
LEMMA MarkerFrom ==
  ASSUME TypeInv, [Next]_vars, blips' = 0, NEW k \in Keys, cache'[k].kind = "marker"
  PROVE  \/ cache[k].kind = "marker"
         \/ \E r \in Requests : KeyOf[r] = k /\ Answers(r)'
<1> TypeOK /\ OpInv
  BY DEF TypeInv
<1>1. CASE UNCHANGED cache
  BY <1>1
<1>2. ASSUME NEW r \in Requests, Claim(r) \/ Cancelled(r), SetEntry(r, Marker(BodyOf[r]))
      PROVE  cache[k].kind = "marker" \/ \E q \in Requests : KeyOf[q] = k /\ Answers(q)'
  <2>1. CASE k # KeyOf[r]
    BY <1>2, <2>1 DEF SetEntry, TypeOK
  <2>2. CASE k = KeyOf[r] /\ Claim(r)
    <3>1. CASE Goto(r, FirstStep(r))
      <4>1. pc'[r] \in Working
        BY <3>1 DEF Goto, FirstStep, Working, TypeOK
      <4> QED BY <2>2, <4>1 DEF Answers, Holding
    <3>2. CASE UNCHANGED cache
      BY <3>2
    <3> QED BY <2>2, <3>1, <3>2 DEF Claim
  <2>3. CASE k = KeyOf[r] /\ Cancelled(r)
    <3>1. UNCHANGED cache \/ answer' = [answer EXCEPT ![r] = "cancelled"]
      BY <2>3 DEF Cancelled, Answer
    <3> QED BY <2>3, <3>1 DEF Answers, TypeOK
  <2> QED BY <1>2, <2>1, <2>2, <2>3
<1>3. ASSUME NEW r \in Requests, Claim(r) \/ Cancelled(r)
      PROVE  UNCHANGED cache \/ SetEntry(r, Marker(BodyOf[r])) \/ SetEntry(r, NoEntry)
  BY <1>3 DEF Claim, Cancelled
<1>4. ASSUME NEW r \in Requests, NEW e, SetEntry(r, e), e.kind # "marker"
      PROVE  cache[k].kind = "marker"
  BY <1>4 DEF SetEntry, TypeOK
<1>5. ASSUME NEW r \in Requests, Put(r) \/ ReleaseDelete(r) PROVE cache[k].kind = "marker"
  <2>1. UNCHANGED cache \/ SetEntry(r, Envelope(BodyOf[r], op[r])) \/ SetEntry(r, NoEntry)
    BY <1>5 DEF Put, ReleaseDelete
  <2> QED BY <1>1, <1>4, <2>1, EntryKinds
<1>6. ASSUME NEW p \in Ops, Delete(p) PROVE cache[k].kind = "marker"
  BY <1>1, <1>6, EntryKinds DEF Delete
<1>7. ASSUME NEW j \in Keys, ExpireMarker(j) PROVE cache[k].kind = "marker"
  BY <1>7, EntryKinds DEF ExpireMarker, TypeOK
<1>8. ASSUME NEW r \in Requests,
             \/ Lookup(r) \/ Reread(r) \/ Run(r) \/ DedupRead(r) \/ Push(r) \/ Bind(r)
             \/ (\E p \in Ops : Create(r, p)) \/ ReleaseRead(r) \/ Crash(r)
      PROVE  UNCHANGED cache
  BY <1>8 DEF Lookup, Reread, Run, DedupRead, Push, Bind, Create, ReleaseRead, Crash, shared
<1>9. ASSUME NEW p \in Ops, Complete(p) \/ Fail(p) \/ Collect(p) PROVE UNCHANGED cache
  BY <1>9 DEF Complete, Fail, Collect, shared
<1>10. ASSUME (\E b \in Bodies : ExpireDedup(b)) \/ UNCHANGED vars PROVE UNCHANGED cache
  BY <1>10 DEF ExpireDedup, vars, shared
<1>11. ASSUME NEW r \in Requests, SetEntry(r, NoEntry) PROVE cache[k].kind = "marker"
  BY <1>4, <1>11, EntryKinds
<1> QED BY <1>1, <1>2, <1>3, <1>5, <1>6, <1>7, <1>8, <1>9, <1>10, <1>11
    DEF Next, RequestStep, OperationStep

\* Nobody's failed call is forgotten.
LEMMA BlipsBefore ==
  ASSUME TypeOK, [Next]_vars, blips' = 0
  PROVE  blips = 0
<1>1. ASSUME Up \/ Blip \/ UNCHANGED blips PROVE blips = 0
  BY <1>1 DEF Up, Blip, bounds, TypeOK
<1>2. ASSUME NEW r \in Requests, RequestStep(r) \/ Crash(r) \/ Cancelled(r)
      PROVE  Up \/ Blip \/ UNCHANGED blips
  BY <1>2 DEF RequestStep, Lookup, Claim, Reread, Run, DedupRead, Push, Create, Put, Bind,
     ReleaseRead, ReleaseDelete, Crash, Cancelled, bounds
<1>3. ASSUME NEW o \in Ops, OperationStep(o) PROVE Up \/ Blip \/ UNCHANGED blips
  BY <1>3 DEF OperationStep, Complete, Fail, Collect, Delete, bounds
<1>4. ASSUME \/ \E k \in Keys : ExpireMarker(k)
             \/ \E b \in Bodies : ExpireDedup(b)
             \/ UNCHANGED vars
      PROVE  UNCHANGED blips
  BY <1>4 DEF ExpireMarker, ExpireDedup, vars, bounds
<1> QED BY <1>1, <1>2, <1>3, <1>4 DEF Next

LEMMA ReservationStep ==
  TypeInv /\ AnswerInv /\ ReservationIsHeld /\ [Next]_vars => ReservationIsHeld'
<1> SUFFICES ASSUME TypeInv, AnswerInv, ReservationIsHeld, [Next]_vars,
                    NEW k \in Keys, cache'[k].kind = "marker", blips' = 0
             PROVE  \E r \in Requests : KeyOf[r] = k /\ Answers(r)'
  BY DEF ReservationIsHeld, Answers, Holding
<1>1. CASE cache[k].kind = "marker"
  <2>1. PICK q \in Requests : KeyOf[q] = k /\ Answers(q)
    BY <1>1, BlipsBefore DEF ReservationIsHeld, Answers, TypeInv
  <2>2. ASSUME NEW r \in Requests, RequestStep(r) \/ Crash(r) \/ Cancelled(r) PROVE Answers(q)'
    BY <2>1, <2>2, AnswersOn
  <2>3. ASSUME \/ \E o \in Ops : OperationStep(o)
               \/ \E j \in Keys : ExpireMarker(j)
               \/ \E b \in Bodies : ExpireDedup(b)
               \/ UNCHANGED vars
        PROVE  UNCHANGED requests
    BY <2>3 DEF OperationStep, Complete, Fail, Collect, Delete, ExpireMarker, ExpireDedup, vars
  <2>4. ASSUME UNCHANGED requests PROVE Answers(q)'
    BY <2>1, <2>4 DEF requests, Answers, Holding
  <2> QED BY <2>1, <2>2, <2>3, <2>4 DEF Next
<1>2. CASE cache[k].kind # "marker"
  BY <1>2, MarkerFrom
<1> QED BY <1>1, <1>2

\* Every exit that recorded nothing releases the claim, but for deaths, outages
\* and cancellations of a claim, a record or a release: overrun or not, a marker has somebody at work behind it.
THEOREM ReservationHeld == Spec => []ReservationIsHeld
<1>1. Init => TypeInv /\ AnswerInv /\ ReservationIsHeld
  <2>1. Init => AnswerInv /\ ReservationIsHeld
    BY EntryKinds DEF Init, AnswerInv, ReservationIsHeld
  <2> QED BY <2>1, TypeInit
<1>2. TypeInv /\ AnswerInv /\ ReservationIsHeld /\ [Next]_vars
      => (TypeInv /\ AnswerInv /\ ReservationIsHeld)'
  BY TypeStep, AnswerStep, ReservationStep
<1> QED BY <1>1, <1>2, PTL DEF Spec

=============================================================================
