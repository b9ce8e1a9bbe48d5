-------------------------- MODULE CreditPoolProofs --------------------------
(***************************************************************************)
(* Proofs about the credit pool, for every allocation, every set of calls, *)
(* bonuses, allocation runs and resets, and every bound.                   *)
(*                                                                         *)
(* The pool is never overdrawn by the conditional UPDATE alone (TypeOK).   *)
(* That the ledger foots needs three more facts: what a job in flight has  *)
(* loaded is still the balance (SeenInv), the months whose rows the ledger *)
(* holds are behind the gate (GateInv), and what was booked lags the       *)
(* balance by what one job has forfeited (BooksInv).  All three hold until a job is   *)
(* overlapped by another commit or dies between its own.                   *)
(***************************************************************************)
EXTENDS CreditPool, TLAPS

(* A reset was overlapped, or died between its commits. *)
Torn == overlapped \/ died

Opening == IF pool = "opening" THEN Allocation ELSE 0

(* What holds of a job whatever overlaps it. *)
JobInv ==
  /\ granted <= month
  /\ \A j \in Jobs :
       /\ ~InFlight(j) => job[j] = NoJob
       /\ job[j].for <= month
       /\ job[j].phase \in {"loaded", "forfeiting"} => job[j].forfeit = 0
       /\ job[j].phase = "forfeiting" => job[j].seen # 0
       /\ job[j].phase = "closing" => j \in Allocators /\ Grants(job[j].for) \in keys

AbsentInv ==
  pool = "absent" =>
    /\ balance = 0 /\ Booked = 0 /\ granted = 0 /\ keys = {}
    /\ \A j \in Jobs : ~InFlight(j)
    /\ \A c \in Calls : call[c] = "new"

(* The session's balance is the row's, from its first read on but for the *)
(* moment between the forfeiture's commit and the reload.                 *)
SeenInv ==
  \A j \in Jobs : InFlight(j) /\ job[j].phase # "expired" => job[j].seen = balance

(* A month in the ledger is behind the gate, or is being granted now. *)
GateInv ==
  /\ \A j \in Allocators : InFlight(j) => granted < job[j].for
  /\ \A m \in Nat : Grants(m) \in keys => m <= granted
  /\ \A m \in Nat : Expiration(m) \in keys =>
       \/ m <= granted
       \/ \E k \in Allocators : job[k].forfeit # 0 /\ job[k].for = m
  /\ \A j \in Jobs : job[j].phase # "closing"

(* One job at most has forfeited the balance and not yet filled the pool,  *)
(* and a job that is past its forfeiture has made it, or another one has.  *)
BooksInv ==
  /\ \A j \in Jobs : job[j].forfeit # 0 =>
       /\ job[j].forfeit = balance
       /\ Booked + Opening = 0
       /\ \A k \in Jobs : job[k].forfeit # 0 => k = j
  /\ (\A j \in Jobs : job[j].forfeit = 0) => Booked + Opening = balance
  /\ \A j \in Jobs : job[j].phase \in {"expired", "filling", "granting"} =>
       \/ job[j].forfeit = balance
       \/ \E k \in Jobs : k # j /\ job[k].forfeit # 0

PoolInv ==
  /\ TypeOK
  /\ JobInv
  /\ AbsentInv
  /\ MonthIsGranted
  /\ ~Torn => SeenInv /\ GateInv /\ BooksInv

-----------------------------------------------------------------------------
LEMMA InitPool == Init => PoolInv
<1> SUFFICES ASSUME Init PROVE PoolInv
  OBVIOUS
<1> USE DEF Init
<1>0. \A j \in Jobs : job[j] = NoJob
  OBVIOUS
<1>1. TypeOK
  <2>1. job \in [Jobs -> [phase : {"idle"}, seen : Nat, for : Nat, forfeit : Nat]]
    BY DEF NoJob
  <2>2. call \in [Calls -> {"new"}]
    OBVIOUS
  <2>3. overlapped \in BOOLEAN /\ died \in BOOLEAN
    OBVIOUS
  <2>4. before \in [Aging -> Int] /\ month \in 1..MaxMonth
    BY PoolAssumption
  <2> QED BY <2>1, <2>2, <2>3, <2>4 DEF TypeOK
<1>2. JobInv
  <2>1. granted <= month
    OBVIOUS
  <2>2. ASSUME NEW j \in Jobs
        PROVE  job[j] = NoJob /\ job[j].for <= month /\ job[j].forfeit = 0
                 /\ job[j].phase \notin {"forfeiting", "closing"}
    BY <1>0 DEF NoJob
  <2> QED BY <2>1, <2>2 DEF JobInv
<1>3. AbsentInv
  BY <1>0 DEF AbsentInv, NoJob, InFlight, Booked
<1>4. MonthIsGranted
  BY DEF MonthIsGranted
<1>5. SeenInv
  BY <1>0 DEF SeenInv, NoJob, InFlight
<1>6. GateInv
  BY <1>0 DEF GateInv, NoJob, InFlight, Jobs
<1>7. BooksInv
  BY <1>0 DEF BooksInv, NoJob, Opening, Booked
<1> QED BY <1>1, <1>2, <1>3, <1>4, <1>5, <1>6, <1>7 DEF PoolInv

(* What a row posts is added to what was booked, and no cut changes that. *)
LEMMA PostBooks ==
  ASSUME TypeOK, NEW a \in Int, Post(a)
  PROVE  /\ ledger' \in Int /\ before' \in [Aging -> Int] /\ trimmed' \in Int
         /\ Booked' = Booked + a
  BY DEF TypeOK, Post, Booked

LEMMA CutKeepsBooked ==
  ASSUME TypeOK, CleanUp
  PROVE  /\ ledger' \in Int /\ trimmed' \in Int
         /\ Booked' = Booked
<1>1. month - Retention \in Aging
  BY PoolAssumption DEF TypeOK, CleanUp, Aging
<1>2. before[month - Retention] \in Int
  BY <1>1 DEF TypeOK
<1> QED BY <1>2 DEF TypeOK, CleanUp, Booked

(* The balance stays a natural number under every commit. *)
LEMMA TypeStep == TypeOK /\ JobInv /\ [Next]_vars => TypeOK'
<1> SUFFICES ASSUME TypeOK, JobInv, [Next]_vars PROVE TypeOK'
  OBVIOUS
<1> USE PoolAssumption DEF TypeOK, jobVars, moneyVars, oldRows, taint
<1>1. CASE CreateForGraph
  BY <1>1 DEF CreateForGraph
<1>2. CASE RecordInitial
  BY <1>2 DEF RecordInitial
<1>3. CASE CreationDies
  BY <1>3 DEF CreationDies
<1>4. CASE NextMonth
  BY <1>4 DEF NextMonth
<1>9. CASE CleanUp
  <2>1. ledger' \in Int /\ trimmed' \in Int
    BY <1>9, CutKeepsBooked
  <2>2. keys' \subseteq keys
    BY <1>9 DEF CleanUp
  <2> QED BY <1>9, <2>1, <2>2 DEF CleanUp
<1>10. ASSUME NEW a \in Int, Move(a)
       PROVE  /\ ledger' \in Int /\ before' \in [Aging -> Int] /\ trimmed' \in Int
              /\ overlapped' \in BOOLEAN /\ died' \in BOOLEAN
              /\ UNCHANGED <<pool, month, granted, keys, job, starts>>
  BY <1>10, PostBooks DEF Move, Overlaps
<1>5. ASSUME NEW c \in Calls, ChargeStep(c) PROVE TypeOK'
  <2>0. Cost[c] \in Nat
    OBVIOUS
  <2>1. CASE Debit(c)
    <3>1. Move(-Cost[c]) /\ balance >= Cost[c]
      BY <2>1 DEF Debit
    <3>2. balance' \in Nat
      BY <2>0, <3>1 DEF Move
    <3> QED BY <1>10, <2>0, <2>1, <3>1, <3>2 DEF Debit
  <2>2. CASE FallsShort(c)
    BY <2>2 DEF FallsShort
  <2>3. CASE Drain(c)
    <3>1. Move(-balance)
      BY <2>3 DEF Drain
    <3>2. balance' \in Nat
      BY <3>1 DEF Move
    <3> QED BY <1>10, <2>3, <3>1, <3>2 DEF Drain
  <2>4. CASE DrainsNothing(c)
    BY <2>4 DEF DrainsNothing
  <2>5. CASE ChargeFails(c)
    BY <2>5 DEF ChargeFails
  <2> QED BY <1>5, <2>1, <2>2, <2>3, <2>4, <2>5 DEF ChargeStep
<1>6. ASSUME NEW b \in Bonuses, AddBonus(b) PROVE TypeOK'
  <2>0. Bonus[b] \in Nat
    OBVIOUS
  <2>1. Move(Bonus[b])
    BY <1>6 DEF AddBonus
  <2>2. balance' \in Nat /\ given' \subseteq Bonuses
    BY <1>6, <2>0, <2>1 DEF AddBonus, Move
  <2> QED BY <1>6, <1>10, <2>0, <2>1, <2>2 DEF AddBonus
<1>7. ASSUME NEW j \in Jobs, JobStep(j) PROVE TypeOK'
  <2>1. CASE Begin(j)
    BY <2>1 DEF Begin
  <2>2. CASE ForfeitsNothing(j)
    BY <2>2 DEF ForfeitsNothing, Turn
  <2>3. CASE WillForfeit(j)
    BY <2>3 DEF WillForfeit, Turn
  <2>4. CASE Forfeit(j)
    <3>1. Expiration(job[j].for) \in {"monthly_expiration", "monthly_allocation"} \X Nat
      BY DEF Expiration
    <3>2. keys' \subseteq {"monthly_expiration", "monthly_allocation"} \X Nat
      BY <2>4, <3>1 DEF Forfeit
    <3>3. overlapped' \in BOOLEAN /\ died' \in BOOLEAN
      BY <2>4 DEF Forfeit, Overlaps
    <3>4. ledger' \in Int /\ before' \in [Aging -> Int] /\ trimmed' \in Int
      <4>1. -job[j].seen \in Int
        OBVIOUS
      <4> QED BY <2>4, <4>1, PostBooks DEF Forfeit
    <3>5. job' = [job EXCEPT ![j] = [job[j] EXCEPT !.phase = "expired",
                                       !.forfeit = job[j].forfeit + job[j].seen]]
      BY <2>4 DEF Forfeit
    <3>6. job[j].forfeit + job[j].seen \in Nat
      OBVIOUS
    <3>7. job' \in [Jobs -> [phase : {"idle", "loaded", "forfeiting", "expired",
                                    "filling", "granting", "closing"},
                             seen : Nat, for : Nat, forfeit : Nat]]
      BY <3>5, <3>6
    <3>8. /\ pool' = pool /\ month' = month /\ balance' = balance /\ granted' = granted
          /\ call' = call /\ given' = given /\ starts' = starts
      BY <2>4 DEF Forfeit
    <3> QED BY <3>2, <3>3, <3>4, <3>7, <3>8
  <2>5. CASE ForfeitBeaten(j)
    BY <2>5 DEF ForfeitBeaten, Turn
  <2>6. CASE Reload(j)
    <3>1. job' = [job EXCEPT ![j] = [job[j] EXCEPT !.phase = "filling", !.seen = balance]]
      BY <2>6 DEF Reload
    <3>2. job' \in [Jobs -> [phase : {"idle", "loaded", "forfeiting", "expired",
                                    "filling", "granting", "closing"},
                             seen : Nat, for : Nat, forfeit : Nat]]
      BY <3>1
    <3> QED BY <2>6, <3>2 DEF Reload
  <2>7. CASE FindsGrant(j)
    BY <2>7 DEF FindsGrant, Turn
  <2>8. CASE Grant(j)
    <3>1. Grants(job[j].for) \in {"monthly_expiration", "monthly_allocation"} \X Nat
      BY DEF Grants
    <3>2. keys' \subseteq {"monthly_expiration", "monthly_allocation"} \X Nat
      BY <2>8, <3>1 DEF Grant
    <3>3. overlapped' \in BOOLEAN /\ died' \in BOOLEAN
      BY <2>8 DEF Grant, WriteBack, Overlaps
    <3>4. balance' \in Nat /\ granted' \in Nat /\ ledger' \in Int
      BY <2>8 DEF Grant, WriteBack
    <3> QED BY <2>8, <3>2, <3>3, <3>4 DEF Grant, WriteBack, NoJob
  <2>9. CASE CommitRow(j)
    BY <2>9 DEF CommitRow, WriteBack, NoJob, Overlaps, InFlight
  <2>10. CASE GivesUp(j)
    BY <2>10 DEF GivesUp, NoJob
  <2> QED BY <1>7, <2>1, <2>2, <2>3, <2>4, <2>5, <2>6, <2>7, <2>8, <2>9, <2>10 DEF JobStep
<1>8. CASE UNCHANGED vars
  BY <1>8 DEF vars
<1> QED BY <1>1, <1>2, <1>3, <1>4, <1>5, <1>6, <1>7, <1>8, <1>9 DEF Next

(* Every step but the creation finds the pool there. *)
LEMMA PoolIsThere ==
  ASSUME AbsentInv
  PROVE  /\ \A c \in Calls : ChargeStep(c) => pool # "absent"
         /\ \A j \in Jobs : JobStep(j) => pool # "absent"
<1>1. ASSUME NEW c \in Calls, ChargeStep(c) PROVE pool # "absent"
  BY <1>1 DEF ChargeStep, Debit, FallsShort, Drain, DrainsNothing, ChargeFails, AbsentInv
<1>2. ASSUME NEW j \in Jobs, JobStep(j) PROVE pool # "absent"
  BY <1>2 DEF JobStep, Begin, ForfeitsNothing, WillForfeit, Forfeit, ForfeitBeaten, Reload,
    FindsGrant, Grant, CommitRow, GivesUp, InFlight, AbsentInv
<1> QED BY <1>1, <1>2

(* A job never runs for a month to come, a monthly row is looked for under *)
(* its key, and the gate's month has its grant.                            *)
LEMMA JobKept ==
  TypeOK /\ JobInv /\ AbsentInv /\ MonthIsGranted /\ [Next]_vars
    => JobInv' /\ AbsentInv' /\ MonthIsGranted'
<1> SUFFICES ASSUME TypeOK, JobInv, AbsentInv, MonthIsGranted, [Next]_vars
             PROVE  JobInv' /\ AbsentInv' /\ MonthIsGranted'
  OBVIOUS
<1>0. TypeOK'
  BY TypeStep
<1> USE DEF jobVars, moneyVars
<1>1. ASSUME pool # "absent", pool' # "absent", month' >= month, UNCHANGED <<job, granted>>,
             \A m : Grants(m) \in keys => Grants(m) \in keys'
      PROVE  JobInv' /\ AbsentInv' /\ MonthIsGranted'
  <2>1. JobInv'
    BY <1>0, <1>1 DEF JobInv, InFlight, TypeOK
  <2> QED BY <1>1, <2>1 DEF AbsentInv, MonthIsGranted
<1>2. CASE CreateForGraph
  <2>1. JobInv'
    BY <1>2 DEF JobInv, InFlight, CreateForGraph
  <2> QED BY <1>2, <2>1 DEF AbsentInv, MonthIsGranted, CreateForGraph
<1>3. CASE RecordInitial \/ CreationDies \/ NextMonth
  <2>1. pool # "absent" /\ pool' # "absent" /\ month' >= month
    BY <1>3 DEF RecordInitial, CreationDies, NextMonth, TypeOK
  <2>2. UNCHANGED <<job, granted, keys>>
    BY <1>3 DEF RecordInitial, CreationDies, NextMonth
  <2> QED BY <1>1, <2>1, <2>2
(* The retention job takes no grant. *)
<1>8. CASE CleanUp
  <2>1. pool # "absent" /\ pool' # "absent" /\ month' >= month
    BY <1>8 DEF CleanUp, TypeOK
  <2>2. UNCHANGED <<job, granted>>
    BY <1>8 DEF CleanUp
  <2>3. \A m : Grants(m) \in keys => Grants(m) \in keys'
    BY <1>8 DEF CleanUp, Grants, Expiration
  <2> QED BY <1>1, <2>1, <2>2, <2>3
<1>4. ASSUME NEW c \in Calls, ChargeStep(c) PROVE JobInv' /\ AbsentInv' /\ MonthIsGranted'
  <2>1. UNCHANGED <<pool, month, job, granted, keys>>
    BY <1>4 DEF ChargeStep, Debit, FallsShort, Drain, DrainsNothing, ChargeFails, Move
  <2> QED BY <1>1, <1>4, <2>1, PoolIsThere DEF TypeOK
<1>5. ASSUME NEW b \in Bonuses, AddBonus(b) PROVE JobInv' /\ AbsentInv' /\ MonthIsGranted'
  <2>1. UNCHANGED <<pool, month, job, granted, keys>> /\ pool # "absent"
    BY <1>5 DEF AddBonus, Move
  <2> QED BY <1>1, <2>1 DEF TypeOK
<1>6. ASSUME NEW j \in Jobs, JobStep(j) PROVE JobInv' /\ AbsentInv' /\ MonthIsGranted'
  <2>1. pool' = pool /\ pool # "absent" /\ month' = month
    BY <1>6, PoolIsThere DEF JobStep, Begin, ForfeitsNothing, WillForfeit, Forfeit,
      ForfeitBeaten, Reload, FindsGrant, Grant, CommitRow, GivesUp
  <2>2. keys \subseteq keys' /\ granted' <= month' /\ MonthIsGranted'
    <3>1. CASE Grant(j)
      BY <2>1, <3>1 DEF Grant, WriteBack, JobInv, MonthIsGranted, TypeOK
    <3>2. CASE CommitRow(j)
      BY <2>1, <3>2 DEF CommitRow, WriteBack, JobInv, MonthIsGranted, TypeOK
    <3>3. CASE Forfeit(j)
      BY <2>1, <3>3 DEF Forfeit, JobInv, MonthIsGranted
    <3>4. CASE UNCHANGED <<keys, granted>>
      BY <2>1, <3>4 DEF JobInv, MonthIsGranted
    <3> QED BY <1>6, <3>1, <3>2, <3>3, <3>4 DEF JobStep, Begin, ForfeitsNothing,
          WillForfeit, ForfeitBeaten, Reload, FindsGrant, GivesUp
  <2>3. ASSUME NEW k \in Jobs, k # j
        PROVE  job'[k] = job[k]
    BY <1>6, <2>3 DEF JobStep, Begin, ForfeitsNothing, WillForfeit, Forfeit, ForfeitBeaten,
      Reload, FindsGrant, Grant, CommitRow, WriteBack, GivesUp, Turn, TypeOK
  <2> DEFINE Kept(k) ==
        /\ job[k].phase = "idle" => job[k] = NoJob
        /\ job[k].for <= month
        /\ job[k].phase \in {"loaded", "forfeiting"} => job[k].forfeit = 0
        /\ job[k].phase = "forfeiting" => job[k].seen # 0
        /\ job[k].phase = "closing" => k \in Allocators /\ Grants(job[k].for) \in keys
  <2>4. Kept(j)'
    <3>0. Kept(j)
      BY DEF JobInv, InFlight
    <3>1. CASE Begin(j)
      BY <2>1, <3>1 DEF Begin, TypeOK
    <3>2. CASE ForfeitsNothing(j)
      BY <2>1, <3>0, <3>2 DEF ForfeitsNothing, Turn, TypeOK
    <3>3. CASE WillForfeit(j)
      BY <2>1, <3>0, <3>3 DEF WillForfeit, Turn, TypeOK
    <3>4. CASE Forfeit(j)
      BY <2>1, <3>0, <3>4 DEF Forfeit, TypeOK
    <3>5. CASE ForfeitBeaten(j)
      BY <2>1, <3>0, <3>5 DEF ForfeitBeaten, Turn, TypeOK
    <3>6. CASE Reload(j)
      BY <2>1, <3>0, <3>6 DEF Reload, TypeOK
    <3>7. CASE FindsGrant(j)
      BY <2>1, <3>0, <3>7 DEF FindsGrant, Turn, TypeOK, Known
    <3>8. CASE Grant(j) \/ CommitRow(j) \/ GivesUp(j)
      <4>1. job'[j] = NoJob
        BY <3>8 DEF Grant, CommitRow, WriteBack, GivesUp, TypeOK
      <4> QED BY <2>1, <4>1 DEF NoJob, TypeOK
    <3> QED BY <1>6, <3>1, <3>2, <3>3, <3>4, <3>5, <3>6, <3>7, <3>8 DEF JobStep
  <2>5. ASSUME NEW k \in Jobs, k # j
        PROVE  Kept(k)'
    <3>1. Kept(k)
      BY DEF JobInv, InFlight
    <3> QED BY <2>1, <2>2, <2>3, <2>5, <3>1
  <2>6. JobInv'
    BY <2>2, <2>4, <2>5 DEF JobInv, InFlight
  <2> QED BY <2>1, <2>2, <2>6 DEF AbsentInv
<1>7. CASE UNCHANGED vars
  <2>1. UNCHANGED <<pool, month, balance, granted, ledger, trimmed, keys, call, job>>
    BY <1>7 DEF vars
  <2> QED BY <2>1 DEF JobInv, InFlight, AbsentInv, MonthIsGranted, Booked
<1> QED BY <1>2, <1>3, <1>4, <1>5, <1>6, <1>7, <1>8 DEF Next

-----------------------------------------------------------------------------
(* The books, as long as no reset is overlapped or dies between its commits. *)

Untorn == SeenInv /\ GateInv /\ BooksInv

LEMMA OthersIdle ==
  ASSUME JobInv, NEW own, ~Overlaps(own)
  PROVE  \A k \in Jobs \ own : job[k] = NoJob /\ job[k].forfeit = 0 /\ job[k].phase = "idle"
  BY DEF JobInv, Overlaps, NoJob, InFlight

LEMMA TornStays == TypeOK /\ [Next]_vars /\ ~Torn' => ~Torn
<1> SUFFICES ASSUME TypeOK, [Next]_vars, ~Torn' PROVE ~Torn
  OBVIOUS
<1> USE DEF Torn, taint
<1>1. ASSUME NEW c \in Calls, ChargeStep(c) PROVE ~Torn
  BY <1>1 DEF ChargeStep, Debit, FallsShort, Drain, DrainsNothing, ChargeFails, Move
<1>2. ASSUME NEW b \in Bonuses, AddBonus(b) PROVE ~Torn
  BY <1>2 DEF AddBonus, Move
<1>3. ASSUME NEW j \in Jobs, JobStep(j) PROVE ~Torn
  BY <1>3 DEF JobStep, Begin, ForfeitsNothing, WillForfeit, Forfeit, ForfeitBeaten, Reload,
    FindsGrant, Grant, CommitRow, WriteBack, GivesUp
<1>4. CASE CreateForGraph \/ RecordInitial \/ CreationDies \/ NextMonth \/ CleanUp
  BY <1>4 DEF CreateForGraph, RecordInitial, CreationDies, NextMonth, CleanUp
<1>5. CASE UNCHANGED vars
  BY <1>5 DEF vars
<1> QED BY <1>1, <1>2, <1>3, <1>4, <1>5, Zenon DEF Next

(* So do the months, and the retention job. *)
LEMMA CreationKeepsBooks ==
  ASSUME TypeOK, JobInv, AbsentInv, Untorn, ~Torn',
         CreateForGraph \/ RecordInitial \/ CreationDies \/ NextMonth \/ CleanUp
  PROVE  Untorn'
<1> USE PoolAssumption DEF Untorn, jobVars, moneyVars, oldRows
<1>1. CASE CreateForGraph
  <2>1. \A j \in Jobs : ~InFlight(j) /\ job'[j] = job[j] /\ job[j] = NoJob
    BY <1>1 DEF CreateForGraph, AbsentInv, JobInv
  <2>2. SeenInv'
    BY <2>1 DEF SeenInv, InFlight
  <2>3. GateInv'
    BY <1>1, <2>1 DEF CreateForGraph, GateInv, AbsentInv, InFlight, NoJob, Jobs
  <2>4. BooksInv'
    BY <1>1, <2>1 DEF CreateForGraph, BooksInv, AbsentInv, Opening, NoJob, Booked
  <2> QED BY <2>2, <2>3, <2>4
<1>2. CASE RecordInitial
  <2>1. UNCHANGED <<job, balance, granted, keys>> /\ Booked' + Opening' = Booked + Opening
    BY <1>2 DEF RecordInitial, Opening, TypeOK, Booked
  <2> QED BY <2>1 DEF SeenInv, GateInv, BooksInv, InFlight
<1>3. CASE CreationDies
  BY <1>3 DEF CreationDies, Torn
<1>4. CASE NextMonth
  BY <1>4 DEF NextMonth, SeenInv, GateInv, BooksInv, InFlight, Opening, Booked
<1>5. CASE CleanUp
  <2>1. UNCHANGED <<pool, job, balance, granted>> /\ keys' \subseteq keys
    BY <1>5 DEF CleanUp
  <2>2. Booked' = Booked
    BY <1>5, CutKeepsBooked
  <2> QED BY <2>1, <2>2 DEF SeenInv, GateInv, BooksInv, InFlight, Opening
<1> QED BY <1>1, <1>2, <1>3, <1>4, <1>5

(* A charge or a bonus that commits while no job is in flight moves both. *)
LEMMA MoveKeepsBooks ==
  ASSUME TypeOK, JobInv, Untorn, ~Torn', NEW a \in Int, Move(a)
  PROVE  Untorn'
<1>1. ~Overlaps({})
  BY DEF Move, Torn
<1>2. \A k \in Jobs : job[k] = NoJob /\ job[k].forfeit = 0 /\ job[k].phase = "idle"
  BY <1>1, OthersIdle
<1>3. UNCHANGED <<job, pool, granted, keys>> /\ balance' = balance + a /\ Booked' = Booked + a
  BY PostBooks DEF Move, jobVars
<1>4. SeenInv'
  BY <1>2, <1>3 DEF SeenInv, InFlight
<1>5. GateInv'
  BY <1>3 DEF GateInv, Untorn, InFlight
<1>6. BooksInv'
  <2>1. Booked + Opening = balance
    BY <1>2 DEF BooksInv, Untorn
  <2>2. Booked' + Opening' = balance'
    BY <1>3, <2>1, PoolAssumption DEF Opening, TypeOK, Booked
  <2>3. \A k \in Jobs : job'[k].forfeit = 0 /\ job'[k].phase = "idle"
    BY <1>2, <1>3
  <2> QED BY <2>2, <2>3 DEF BooksInv
<1> QED BY <1>4, <1>5, <1>6 DEF Untorn

LEMMA ChargeKeepsBooks ==
  ASSUME TypeOK, JobInv, Untorn, ~Torn', NEW c \in Calls, ChargeStep(c)
  PROVE  Untorn'
<1>1. CASE Debit(c)
  <2>1. -Cost[c] \in Int
    BY PoolAssumption
  <2> QED BY <1>1, <2>1, MoveKeepsBooks DEF Debit
<1>2. CASE Drain(c)
  <2>1. -balance \in Int
    BY DEF TypeOK
  <2> QED BY <1>2, <2>1, MoveKeepsBooks DEF Drain
<1>3. CASE UNCHANGED <<pool, moneyVars, granted, keys, jobVars>>
  BY <1>3 DEF Untorn, SeenInv, GateInv, BooksInv, InFlight, Opening, Booked, moneyVars, oldRows,
    jobVars
<1> QED BY <1>1, <1>2, <1>3 DEF ChargeStep, FallsShort, DrainsNothing, ChargeFails

(* The job's own steps, each from what the others' silence leaves true. *)
LEMMA JobKeepsBooks ==
  ASSUME TypeOK, JobInv, Untorn, ~Torn', NEW j \in Jobs, JobStep(j), TypeOK'
  PROVE  Untorn'
<1> DEFINE old == job[j]
<1> DEFINE new == job'[j]
<1> USE DEF moneyVars, oldRows
<1>0. \A k \in Jobs : k # j => job'[k] = job[k]
  BY DEF JobStep, Begin, ForfeitsNothing, WillForfeit, Forfeit, ForfeitBeaten, Reload,
    FindsGrant, Grant, CommitRow, WriteBack, GivesUp, Turn, TypeOK
<1>1. pool' = pool /\ Opening' = Opening
  BY DEF Opening, JobStep, Begin, ForfeitsNothing, WillForfeit, Forfeit, ForfeitBeaten, Reload,
    FindsGrant, Grant, CommitRow, WriteBack, GivesUp
<1>14. Booked \in Int /\ Opening \in Int /\ balance \in Int /\ Allocation \in Int
  BY PoolAssumption DEF TypeOK, Booked, Opening
(* A month looked up and found is another job's, still in flight. *)
<1>2. ASSUME InFlight(j), old.forfeit = 0, Known(j, Expiration(old.for))
      PROVE  \E k \in Jobs : k # j /\ job[k].forfeit # 0
  <2>1. j \in Allocators /\ granted < old.for /\ old.for \in Nat
    BY <1>2 DEF Known, Untorn, GateInv, TypeOK
  <2>2. PICK k \in Allocators : job[k].forfeit # 0 /\ job[k].for = old.for
    BY <1>2, <2>1 DEF Known, Untorn, GateInv, TypeOK
  <2> QED BY <1>2, <2>2 DEF Jobs
(* A step that moves no money and no key. *)
<1>3. ASSUME UNCHANGED <<moneyVars, granted, keys>>, new.forfeit = old.forfeit,
             new.phase # "idle" /\ new.phase # "closing",
             old.phase # "idle" => new.for = old.for,
             old.phase = "idle" /\ j \in Allocators => granted < new.for,
             new.phase # "expired" => new.seen = balance,
             new.phase \in {"expired", "filling", "granting"} =>
               \/ new.forfeit = balance
               \/ \E k \in Jobs : k # j /\ job[k].forfeit # 0,
             old.phase = "idle" => old.forfeit = 0
      PROVE  Untorn'
  <2>1. SeenInv'
    BY <1>0, <1>3 DEF Untorn, SeenInv, InFlight
  <2>2. GateInv'
    <3>1. \A k \in Allocators : InFlight(k)' => granted' < job'[k].for
      BY <1>0, <1>3 DEF Untorn, GateInv, InFlight, Jobs
    <3>2. \A k \in Allocators : job[k].forfeit # 0 =>
            job'[k].forfeit # 0 /\ job'[k].for = job[k].for
      BY <1>0, <1>3 DEF Jobs
    <3>3. \A k \in Jobs : job'[k].phase # "closing"
      BY <1>0, <1>3 DEF Untorn, GateInv
    <3> QED BY <1>3, <3>1, <3>2, <3>3 DEF Untorn, GateInv
  <2>3. BooksInv'
    <3>1. \A k \in Jobs : job'[k].forfeit = job[k].forfeit
      BY <1>0, <1>3
    <3>2. \A k \in Jobs : k # j => job'[k].phase = job[k].phase
      BY <1>0
    <3>3. Booked' = Booked
      BY <1>3 DEF Booked
    <3> QED BY <1>1, <1>3, <3>1, <3>2, <3>3 DEF Untorn, BooksInv
  <2> QED BY <2>1, <2>2, <2>3 DEF Untorn
<1>4. CASE Begin(j)
  <2>1. new = [phase |-> "loaded", seen |-> balance, for |-> month, forfeit |-> 0]
    BY <1>4 DEF Begin, TypeOK
  <2>2. old = NoJob
    BY <1>4 DEF Begin, JobInv
  <2>3. j \in Allocators => granted < month
    BY <1>4 DEF Begin, JobInv, TypeOK
  <2>4. UNCHANGED <<moneyVars, granted, keys>>
    BY <1>4 DEF Begin
  <2> QED BY <1>3, <2>1, <2>2, <2>3, <2>4 DEF NoJob
<1>5. CASE ForfeitsNothing(j)
  <2>1. new = [old EXCEPT !.phase = "filling"] /\ UNCHANGED <<moneyVars, granted, keys>>
    BY <1>5 DEF ForfeitsNothing, Turn, TypeOK
  <2>2. old.phase = "loaded" /\ old.forfeit = 0 /\ old.seen = balance /\ InFlight(j)
    BY <1>5 DEF ForfeitsNothing, JobInv, Untorn, SeenInv, InFlight
  <2>3. old.forfeit = balance \/ \E k \in Jobs : k # j /\ job[k].forfeit # 0
    BY <1>2, <1>5, <2>2 DEF ForfeitsNothing
  <2>4. /\ new.phase = "filling" /\ new.seen = balance /\ new.for = old.for
        /\ new.forfeit = old.forfeit
    BY <2>1, <2>2 DEF TypeOK
  <2> QED BY <1>3, <2>1, <2>2, <2>3, <2>4
<1>6. CASE WillForfeit(j)
  <2>1. new = [old EXCEPT !.phase = "forfeiting"] /\ UNCHANGED <<moneyVars, granted, keys>>
    BY <1>6 DEF WillForfeit, Turn, TypeOK
  <2>2. old.phase = "loaded" /\ old.seen = balance
    BY <1>6 DEF WillForfeit, Untorn, SeenInv, InFlight
  <2>4. /\ new.phase = "forfeiting" /\ new.seen = balance /\ new.for = old.for
        /\ new.forfeit = old.forfeit
    BY <2>1, <2>2 DEF TypeOK
  <2> QED BY <1>3, <2>1, <2>2, <2>4
<1>7. CASE ForfeitBeaten(j)
  <2>1. new = [old EXCEPT !.phase = "expired"] /\ UNCHANGED <<moneyVars, granted, keys>>
    BY <1>7 DEF ForfeitBeaten, Turn, TypeOK
  <2>2. old.phase = "forfeiting" /\ old.forfeit = 0 /\ InFlight(j)
    BY <1>7 DEF ForfeitBeaten, JobInv, InFlight
  <2>3. \E k \in Jobs : k # j /\ job[k].forfeit # 0
    BY <1>2, <1>7, <2>2 DEF ForfeitBeaten
  <2>4. new.phase = "expired" /\ new.for = old.for /\ new.forfeit = old.forfeit
    BY <2>1, <2>2 DEF TypeOK
  <2> QED BY <1>3, <2>1, <2>2, <2>3, <2>4
<1>8. CASE Reload(j)
  <2>1. new = [old EXCEPT !.phase = "filling", !.seen = balance]
        /\ UNCHANGED <<moneyVars, granted, keys>>
    BY <1>8 DEF Reload, TypeOK
  <2>2. old.phase = "expired"
    BY <1>8 DEF Reload
  <2>3. old.forfeit = balance \/ \E k \in Jobs : k # j /\ job[k].forfeit # 0
    BY <2>2 DEF Untorn, BooksInv
  <2>4. /\ new.phase = "filling" /\ new.seen = balance /\ new.for = old.for
        /\ new.forfeit = old.forfeit
    BY <2>1, <2>2 DEF TypeOK
  <2> QED BY <1>3, <2>1, <2>2, <2>3, <2>4
<1>9. CASE FindsGrant(j)
  <2>2. old.phase = "filling" /\ old.seen = balance /\ InFlight(j)
    BY <1>9 DEF FindsGrant, Untorn, SeenInv, InFlight
  <2>3. ~Known(j, Grants(old.for))
    BY <2>2 DEF Known, Untorn, GateInv, TypeOK
  <2>1. new = [old EXCEPT !.phase = "granting"] /\ UNCHANGED <<moneyVars, granted, keys>>
    BY <1>9, <2>3 DEF FindsGrant, Turn, TypeOK
  <2>4. old.forfeit = balance \/ \E k \in Jobs : k # j /\ job[k].forfeit # 0
    BY <2>2 DEF Untorn, BooksInv
  <2>5. /\ new.phase = "granting" /\ new.seen = balance /\ new.for = old.for
        /\ new.forfeit = old.forfeit
    BY <2>1, <2>2 DEF TypeOK
  <2> QED BY <1>3, <2>1, <2>2, <2>4, <2>5
<1>10. CASE Forfeit(j)
  <2>0. ~Overlaps({j})
    BY <1>10 DEF Forfeit, Torn
  <2>1. \A k \in Jobs : k # j => job'[k] = NoJob /\ job[k].forfeit = 0
    <3>1. \A k \in Jobs \ {j} : job[k] = NoJob /\ job[k].forfeit = 0
      BY <2>0, OthersIdle
    <3> QED BY <1>0, <3>1
  <2>2. /\ old.phase = "forfeiting" /\ old.forfeit = 0 /\ old.seen # 0 /\ old.seen = balance
    BY <1>10 DEF Forfeit, JobInv, Untorn, SeenInv, InFlight
  <2>3. new = [old EXCEPT !.phase = "expired", !.forfeit = old.forfeit + old.seen]
    BY <1>10 DEF Forfeit, TypeOK
  <2>4. new.phase = "expired" /\ new.for = old.for /\ new.forfeit = balance
    BY <2>2, <2>3 DEF TypeOK
  <2>5. Booked' = Booked - balance /\ balance' = balance /\ granted' = granted
    <3>1. -old.seen \in Int
      BY DEF TypeOK
    <3>2. Booked' = Booked + -old.seen
      BY <1>10, <3>1, PostBooks DEF Forfeit
    <3> QED BY <1>10, <2>2, <3>2 DEF Forfeit, TypeOK, Booked
  <2>6. SeenInv'
    BY <2>1, <2>4 DEF SeenInv, InFlight, NoJob
  <2>7. GateInv'
    <3>1. \A k \in Allocators : InFlight(k)' => granted' < job'[k].for
      BY <2>1, <2>2, <2>4, <2>5 DEF Untorn, GateInv, InFlight, Jobs, NoJob
    <3>2. \A m \in Nat : Grants(m) \in keys' => m <= granted'
      BY <1>10, <2>5 DEF Forfeit, Untorn, GateInv, Grants, Expiration
    <3>3. ASSUME NEW m \in Nat, Expiration(m) \in keys'
          PROVE  m <= granted' \/ \E k \in Allocators : job'[k].forfeit # 0 /\ job'[k].for = m
      <4>1. CASE Expiration(m) \in keys
        BY <2>1, <2>2, <2>5, <4>1 DEF Untorn, GateInv, Jobs
      <4>2. CASE Expiration(m) \notin keys
        <5>1. j \in Allocators /\ m = old.for
          BY <1>10, <3>3, <4>2 DEF Forfeit, Expiration
        <5> QED BY <2>2, <2>4, <5>1
      <4> QED BY <4>1, <4>2
    <3>4. \A k \in Jobs : job'[k].phase # "closing"
      BY <2>1, <2>4 DEF NoJob
    <3> QED BY <3>1, <3>2, <3>3, <3>4 DEF GateInv
  <2>8. BooksInv'
    <3>1. Booked + Opening = balance
      BY <2>1, <2>2 DEF Untorn, BooksInv
    <3>2. Booked' + Opening' = 0
      BY <1>1, <1>14, <2>5, <3>1
    <3> QED BY <2>1, <2>2, <2>4, <2>5, <3>2 DEF BooksInv, NoJob
  <2> QED BY <2>6, <2>7, <2>8 DEF Untorn
<1>11. CASE Grant(j)
  <2>0. ~Overlaps({j})
    BY <1>11 DEF Grant, WriteBack, Torn
  <2>1. \A k \in Jobs : k # j => job'[k] = NoJob /\ job[k] = NoJob /\ job[k].forfeit = 0
    <3>1. \A k \in Jobs \ {j} : job[k] = NoJob /\ job[k].forfeit = 0
      BY <2>0, OthersIdle
    <3> QED BY <1>0, <3>1
  <2>2. old.phase = "granting" /\ old.seen = balance /\ InFlight(j)
    BY <1>11 DEF Grant, Untorn, SeenInv, InFlight
  <2>3. old.forfeit = balance
    BY <2>1, <2>2 DEF Untorn, BooksInv
  <2>4. Booked + Opening = 0
    BY <2>1, <2>3 DEF Untorn, BooksInv
  <2>5. new = NoJob /\ \A k \in Jobs : job'[k] = NoJob
    BY <1>11, <2>1 DEF Grant, WriteBack, TypeOK
  <2>6. balance' = Allocation /\ Booked' = Booked + Allocation
    BY <1>11, <2>2, PoolAssumption DEF Grant, WriteBack, Booked, TypeOK
  <2>7. SeenInv'
    BY <2>5 DEF SeenInv, InFlight, NoJob
  <2>8. BooksInv'
    <3>1. Booked' + Opening' = balance'
      BY <1>1, <1>14, <2>4, <2>6
    <3> QED BY <2>5, <3>1 DEF BooksInv, NoJob
  <2>9. GateInv'
    <3>1. j \in Allocators => granted' = old.for /\ granted < old.for
      BY <1>11, <2>2 DEF Grant, WriteBack, Untorn, GateInv
    <3>2. j \notin Allocators => granted' = granted /\ keys' = keys
      BY <1>11 DEF Grant, WriteBack
    <3>3. ASSUME NEW m \in Nat, Grants(m) \in keys' PROVE m <= granted'
      <4>1. CASE Grants(m) \in keys
        BY <3>1, <3>2, <4>1 DEF Untorn, GateInv, TypeOK
      <4>2. CASE Grants(m) \notin keys
        <5>1. m = old.for /\ j \in Allocators
          BY <1>11, <3>2, <3>3, <4>2 DEF Grant, Grants
        <5> QED BY <3>1, <5>1 DEF TypeOK
      <4> QED BY <4>1, <4>2
    <3>4. ASSUME NEW m \in Nat, Expiration(m) \in keys' PROVE m <= granted'
      <4>1. Expiration(m) \in keys
        BY <1>11, <3>4 DEF Grant, Grants, Expiration
      <4>2. CASE m <= granted
        BY <3>1, <3>2, <4>2 DEF TypeOK
      <4>3. CASE \E k \in Allocators : job[k].forfeit # 0 /\ job[k].for = m
        <5>1. j \in Allocators /\ m = old.for
          BY <2>1, <4>3 DEF Jobs
        <5> QED BY <3>1, <5>1 DEF TypeOK
      <4> QED BY <4>1, <4>2, <4>3 DEF Untorn, GateInv
    <3> QED BY <2>5, <3>3, <3>4 DEF GateInv, InFlight, NoJob, Jobs
  <2> QED BY <2>7, <2>8, <2>9 DEF Untorn
<1>12. CASE CommitRow(j)
  BY <1>12 DEF CommitRow, Untorn, GateInv
<1>13. CASE GivesUp(j)
  <2>1. old.forfeit = 0 /\ new = NoJob /\ UNCHANGED <<moneyVars, granted, keys>>
    BY <1>13 DEF GivesUp, TypeOK, Torn
  <2>2. \A k \in Jobs : job'[k].forfeit = job[k].forfeit
    BY <1>0, <2>1 DEF NoJob
  <2>3. SeenInv'
    BY <1>0, <2>1 DEF Untorn, SeenInv, InFlight, NoJob
  <2>4. GateInv'
    <3>1. \A k \in Allocators : InFlight(k)' => granted' < job'[k].for
      BY <1>0, <2>1 DEF Untorn, GateInv, InFlight, NoJob, Jobs
    <3>2. \A k \in Allocators : job[k].forfeit # 0 => job'[k] = job[k]
      BY <1>0, <2>1 DEF Jobs
    <3>3. \A k \in Jobs : job'[k].phase # "closing"
      BY <1>0, <2>1 DEF Untorn, GateInv, NoJob
    <3> QED BY <2>1, <3>1, <3>2, <3>3 DEF Untorn, GateInv
  <2>5. BooksInv'
    <3>1. \A k \in Jobs : k # j => job'[k].phase = job[k].phase
      BY <1>0
    <3>2. Booked' = Booked
      BY <2>1 DEF Booked
    <3> QED BY <1>1, <2>1, <2>2, <3>1, <3>2 DEF Untorn, BooksInv, NoJob
  <2> QED BY <2>3, <2>4, <2>5 DEF Untorn
<1> QED BY <1>4, <1>5, <1>6, <1>7, <1>8, <1>9, <1>10, <1>11, <1>12, <1>13 DEF JobStep

LEMMA PoolStep == PoolInv /\ [Next]_vars => PoolInv'
<1> SUFFICES ASSUME PoolInv, [Next]_vars PROVE PoolInv'
  OBVIOUS
<1>1. TypeOK' /\ JobInv' /\ AbsentInv' /\ MonthIsGranted'
  BY TypeStep, JobKept DEF PoolInv
<1>2. ASSUME ~Torn' PROVE Untorn'
  <2>1. TypeOK /\ JobInv /\ AbsentInv /\ Untorn
    BY <1>2, TornStays DEF PoolInv, Untorn
  <2>2. CASE CreateForGraph \/ RecordInitial \/ CreationDies \/ NextMonth \/ CleanUp
    BY <1>2, <2>1, <2>2, CreationKeepsBooks
  <2>3. ASSUME NEW c \in Calls, ChargeStep(c) PROVE Untorn'
    BY <1>2, <2>1, <2>3, ChargeKeepsBooks
  <2>4. ASSUME NEW b \in Bonuses, AddBonus(b) PROVE Untorn'
    <3>1. Bonus[b] \in Int
      BY PoolAssumption
    <3> QED BY <1>2, <2>1, <2>4, <3>1, MoveKeepsBooks DEF AddBonus
  <2>5. ASSUME NEW j \in Jobs, JobStep(j) PROVE Untorn'
    BY <1>1, <1>2, <2>1, <2>5, JobKeepsBooks
  <2>6. CASE UNCHANGED vars
    BY <2>1, <2>6 DEF vars, Untorn, SeenInv, GateInv, BooksInv, InFlight, Opening, Booked
  <2> QED BY <2>2, <2>3, <2>4, <2>5, <2>6 DEF Next
<1> QED BY <1>1, <1>2 DEF PoolInv, Untorn

LEMMA PoolHolds == Spec => []PoolInv
  BY InitPool, PoolStep, PTL DEF Spec

-----------------------------------------------------------------------------
(* No interleaving of charges, drains, bonuses, resets and months drives   *)
(* the balance below zero (consume_credits_atomic).                        *)
THEOREM NeverOverdrawn == Spec => []TypeOK
<1>1. PoolInv => TypeOK
  BY DEF PoolInv
<1> QED BY <1>1, PoolHolds, PTL

(* The ledger, with what the retention job has deleted from it, sums to    *)
(* the balance whenever nothing is in flight, unless a reset was           *)
(* overlapped by another commit, or it or the pool's creation died between *)
(* its own (allocate_monthly_credits, reset_pool, create_for_graph,        *)
(* cleanup_old_credit_transactions).                                       *)
THEOREM LedgerKeepsFooting == Spec => []LedgerFoots
<1>1. PoolInv => LedgerFoots
  <2> SUFFICES ASSUME PoolInv, pool = "open", ~Torn, ~Overlaps({}) PROVE Booked = balance
    BY DEF LedgerFoots, AtRest, Torn
  <2>1. \A k \in Jobs : job[k].forfeit = 0
    BY OthersIdle DEF PoolInv
  <2>2. Booked + Opening = balance
    BY <2>1 DEF PoolInv, BooksInv
  <2> QED BY <2>2 DEF Opening, PoolInv, TypeOK, Booked
<1> QED BY <1>1, PoolHolds, PTL

(* The monthly gate closes only on a month whose grant is in the ledger,   *)
(* however allocations die, overlap or cross midnight.                     *)
THEOREM NoMonthLost == Spec => []MonthIsGranted
<1>1. PoolInv => MonthIsGranted
  BY DEF PoolInv
<1> QED BY <1>1, PoolHolds, PTL

=============================================================================
