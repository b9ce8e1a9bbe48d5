----------------------------- MODULE CreditPool -----------------------------
(***************************************************************************)
(* The credit pool of one graph (models/core/graph/graph_credits.py and    *)
(* operations/graph/credit_service.py): a row of graph_credits with the    *)
(* balance that every charge is held against, and the ledger of            *)
(* graph_credit_transactions, whose sum is meant to equal that balance.    *)
(*                                                                         *)
(* Charges, drains and bonuses move the balance and post their row in one  *)
(* commit.  The monthly allocation and the administrator's reset do not:   *)
(* they read the row, post the forfeiture of what is left and commit, read *)
(* the row again, and commit the new balance with the row that grants it.  *)
(* Transactions run at READ COMMITTED and a commit expires what a session  *)
(* has read.  The session of the monthly job flushes by itself before each *)
(* query, and so holds the row from its last lookup to its commit; those   *)
(* of requests and resets flush only when they commit.                     *)
(*                                                                         *)
(* The retention job of the monthly run (dagster/jobs/billing.py) deletes  *)
(* the ledger's old rows, all but the allocations.                         *)
(***************************************************************************)
EXTENDS Integers

CONSTANTS
  Allocation,   \* monthly_allocation of the pool's tier
  Calls,        \* charges, each made once
  Cost,         \* Cost[c]: what call c costs
  PostHoc,      \* calls charged after they ran: drain_on_shortfall
  Bonuses,      \* administrators' bonus requests
  Bonus,        \* Bonus[b]: the credits of request b
  Allocators,   \* runs of the monthly allocation job
  Resetters,    \* administrators' pool resets
  Retention,    \* months a row that is no allocation is kept
  MaxMonth,     \* bound: calendar months
  MaxStarts     \* bound: times an allocation or a reset is begun

ASSUME PoolAssumption ==
  /\ Allocation \in Nat
  /\ Cost \in [Calls -> Nat \ {0}]
  /\ Bonus \in [Bonuses -> Nat \ {0}]
  /\ PostHoc \subseteq Calls
  /\ Allocators \intersect Resetters = {}
  /\ Retention \in Nat \ {0}
  /\ MaxMonth \in Nat \ {0}

Jobs == Allocators \union Resetters

(* The months whose rows grow old within the bound. *)
Aging == 1..(MaxMonth - Retention)

VARIABLES
  pool,      \* "absent", "opening" (row committed, first ledger row not yet), "open"
  month,     \* the calendar month; the pool is created in month 1
  balance,   \* current_balance
  granted,   \* the month of last_allocation_date
  ledger,    \* the sum of graph_credit_transactions.amount
  before,    \* before[m]: what rows other than allocations posted through month m,
             \*   for each month that comes to be cut off
  trimmed,   \* of that, the sum of the rows the retention job has deleted
  keys,      \* the monthly idempotency keys the ledger holds
  call,      \* how far each charge has come; a drain bills in part
  given,     \* bonuses credited
  job,       \* each allocation or reset in flight
  starts,    \* how many of them were begun
  overlapped, \* another commit came between a reset's first read and its last write
  died       \* a reset or the creation ended between its two commits

oldRows == <<before, trimmed>>
moneyVars == <<balance, ledger, oldRows>>
jobVars == <<job, starts>>
taint == <<overlapped, died>>
vars == <<pool, month, balance, granted, ledger, before, trimmed, keys, call, given, job,
          starts, overlapped, died>>

(* What an allocation or a reset in flight knows: the balance its session  *)
(* has loaded, the month it runs for, and the forfeiture it has committed. *)
NoJob == [phase |-> "idle", seen |-> 0, for |-> 0, forfeit |-> 0]

InFlight(j) == job[j].phase # "idle"

(* A commit by a caller outside the given jobs' own. *)
Overlaps(own) == \E j \in Jobs \ own : InFlight(j)

(* The monthly job's session has flushed its UPDATE and not yet committed: *)
(* another UPDATE of the row waits.                                        *)
RowLocked(own) == \E a \in Allocators \ own : job[a].phase \in {"granting", "closing"}

Expiration(m) == <<"monthly_expiration", m>>
Grants(m) == <<"monthly_allocation", m>>

(* create_transaction's lookup of an idempotency key; a reset passes none. *)
Known(j, key) == j \in Allocators /\ key \in keys

Init ==
  /\ pool = "absent"
  /\ month = 1
  /\ balance = 0
  /\ granted = 0
  /\ ledger = 0
  /\ before = [m \in Aging |-> 0]
  /\ trimmed = 0
  /\ keys = {}
  /\ call = [c \in Calls |-> "new"]
  /\ given = {}
  /\ job = [j \in Jobs |-> NoJob]
  /\ starts = 0
  /\ overlapped = FALSE
  /\ died = FALSE

-----------------------------------------------------------------------------
(* Creation: the row is committed with its full balance, then the ledger row. *)

CreateForGraph ==
  /\ pool = "absent"
  /\ month = 1
  /\ pool' = "opening"
  /\ balance' = Allocation
  /\ granted' = month
  /\ UNCHANGED <<month, ledger, oldRows, keys, call, given, jobVars, taint>>

RecordInitial ==
  /\ pool = "opening"
  /\ pool' = "open"
  /\ ledger' = ledger + Allocation
  /\ UNCHANGED <<month, balance, oldRows, granted, keys, call, given, jobVars, taint>>

(* The creator dies, or its second commit fails: nothing posts the row later. *)
CreationDies ==
  /\ pool = "opening"
  /\ pool' = "open"
  /\ died' = TRUE
  /\ UNCHANGED <<month, moneyVars, granted, keys, call, given, jobVars, overlapped>>

NextMonth ==
  /\ pool # "absent"
  /\ month < MaxMonth
  /\ month' = month + 1
  /\ UNCHANGED <<pool, moneyVars, granted, keys, call, given, jobVars, taint>>

(* The retention job deletes what was posted up to Retention months ago,   *)
(* counted in whole months.  An expiration may have been posted after the  *)
(* month it names, so which of the old months' keys go is left open.       *)
CleanUp ==
  /\ pool # "absent"
  /\ month > Retention
  /\ trimmed' = before[month - Retention]
  /\ ledger' = ledger - (before[month - Retention] - trimmed)
  /\ \E gone \in SUBSET {Expiration(m) : m \in 1..(month - Retention)} : keys' = keys \ gone
  /\ UNCHANGED <<pool, month, balance, before, granted, call, given, jobVars, taint>>

-----------------------------------------------------------------------------
(* Charges and bonuses: balance and ledger move together. *)

(* A row that is no allocation enters the ledger. *)
Post(amount) ==
  /\ ledger' = ledger + amount
  /\ before' = [m \in Aging |-> IF m < month THEN before[m] ELSE before[m] + amount]
  /\ trimmed' = trimmed

Move(amount) ==
  /\ ~RowLocked({})
  /\ balance' = balance + amount
  /\ Post(amount)
  /\ overlapped' = (overlapped \/ Overlaps({}))
  /\ UNCHANGED <<pool, month, granted, keys, jobVars, died>>

(* Mutant: the balance check is made by the pre-flight alone. *)
DebitsUnchecked(c) ==
  /\ pool # "absent"
  /\ call[c] = "new"
  /\ Move(-Cost[c])
  /\ call' = [call EXCEPT ![c] = "billed"]
  /\ UNCHANGED given

(* The conditional UPDATE of consume_credits_atomic and its ledger row. *)
Debit(c) ==
  /\ pool # "absent"
  /\ call[c] = "new"
  /\ balance >= Cost[c]
  /\ Move(-Cost[c])
  /\ call' = [call EXCEPT ![c] = "billed"]
  /\ UNCHANGED given

(* The UPDATE matched no row: refused, or on to the drain. *)
FallsShort(c) ==
  /\ pool # "absent"
  /\ call[c] = "new"
  /\ balance < Cost[c]
  /\ call' = [call EXCEPT ![c] = IF c \in PostHoc THEN "short" ELSE "unbilled"]
  /\ UNCHANGED <<pool, month, moneyVars, granted, keys, given, jobVars, taint>>

(* _drain_for_shortfall's one statement and its ledger row. *)
Drain(c) ==
  /\ call[c] = "short"
  /\ 0 < balance /\ balance < Cost[c]
  /\ Move(-balance)
  /\ call' = [call EXCEPT ![c] = "billed"]
  /\ UNCHANGED given

(* The drain finds the pool empty, or refilled beyond the cost meanwhile. *)
DrainsNothing(c) ==
  /\ call[c] = "short"
  /\ balance = 0 \/ balance >= Cost[c]
  /\ call' = [call EXCEPT ![c] = "unbilled"]
  /\ UNCHANGED <<pool, month, moneyVars, granted, keys, given, jobVars, taint>>

(* A database error rolls the charge back, or its process dies. *)
ChargeFails(c) ==
  /\ pool # "absent"
  /\ call[c] \in {"new", "short"}
  /\ call' = [call EXCEPT ![c] = "unbilled"]
  /\ UNCHANGED <<pool, month, moneyVars, granted, keys, given, jobVars, taint>>

(* The increment is a SQL expression, never a value read before. *)
AddBonus(b) ==
  /\ pool # "absent"
  /\ b \notin given
  /\ Move(Bonus[b])
  /\ given' = given \union {b}
  /\ UNCHANGED call

-----------------------------------------------------------------------------
(* The monthly allocation and the reset, statement by statement. *)

Turn(j, phase) == job' = [job EXCEPT ![j].phase = phase]

(* The row is loaded; an allocation goes on only when the month has none. *)
Begin(j) ==
  /\ pool # "absent"
  /\ ~InFlight(j)
  /\ starts < MaxStarts
  /\ j \in Allocators => granted # month
  /\ job' = [job EXCEPT ![j] =
               [phase |-> "loaded", seen |-> balance, for |-> month, forfeit |-> 0]]
  /\ starts' = starts + 1
  /\ UNCHANGED <<pool, month, moneyVars, granted, keys, call, given, taint>>

(* Mutant: only a monthly allocation records what it discards. *)
ResetForfeitsNothing(j) ==
  /\ job[j].phase = "loaded"
  /\ \/ job[j].seen = 0
     \/ j \in Resetters
     \/ Known(j, Expiration(job[j].for))
  /\ Turn(j, "filling")
  /\ UNCHANGED <<pool, month, moneyVars, granted, keys, call, given, starts, taint>>

(* _expire_unspent: nothing to forfeit, or the month's row is there already *)
(* and comes back with no commit, so the session keeps what it has loaded.  *)
ForfeitsNothing(j) ==
  /\ job[j].phase = "loaded"
  /\ job[j].seen = 0 \/ Known(j, Expiration(job[j].for))
  /\ Turn(j, "filling")
  /\ UNCHANGED <<pool, month, moneyVars, granted, keys, call, given, starts, taint>>

WillForfeit(j) ==
  /\ job[j].phase = "loaded"
  /\ job[j].seen # 0
  /\ ~Known(j, Expiration(job[j].for))
  /\ Turn(j, "forfeiting")
  /\ UNCHANGED <<pool, month, moneyVars, granted, keys, call, given, starts, taint>>

(* Mutant: the date is set before the forfeiture, whose commit writes it. *)
ForfeitStampsMonth(j) ==
  /\ job[j].phase = "forfeiting"
  /\ ~Known(j, Expiration(job[j].for))
  /\ Post(-job[j].seen)
  /\ keys' = IF j \in Allocators THEN keys \union {Expiration(job[j].for)} ELSE keys
  /\ granted' = IF j \in Allocators THEN job[j].for ELSE granted
  /\ job' = [job EXCEPT ![j].phase = "expired", ![j].forfeit = @ + job[j].seen]
  /\ overlapped' = (overlapped \/ Overlaps({j}))
  /\ UNCHANGED <<pool, month, balance, call, given, starts, died>>

(* The EXPIRATION row commits.  Beaten to its key, the row rolls back. *)
Forfeit(j) ==
  /\ job[j].phase = "forfeiting"
  /\ ~Known(j, Expiration(job[j].for))
  /\ Post(-job[j].seen)
  /\ keys' = IF j \in Allocators THEN keys \union {Expiration(job[j].for)} ELSE keys
  /\ job' = [job EXCEPT ![j].phase = "expired", ![j].forfeit = @ + job[j].seen]
  /\ overlapped' = (overlapped \/ Overlaps({j}))
  /\ UNCHANGED <<pool, month, balance, granted, call, given, starts, died>>

ForfeitBeaten(j) ==
  /\ job[j].phase = "forfeiting"
  /\ Known(j, Expiration(job[j].for))
  /\ Turn(j, "expired")
  /\ UNCHANGED <<pool, month, moneyVars, granted, keys, call, given, starts, taint>>

(* Reading monthly_allocation reloads the row that the commit expired. *)
Reload(j) ==
  /\ job[j].phase = "expired"
  /\ job' = [job EXCEPT ![j].phase = "filling", ![j].seen = balance]
  /\ UNCHANGED <<pool, month, moneyVars, granted, keys, call, given, starts, taint>>

(* The ALLOCATION row: known, the caller's commit writes the row alone.    *)
(* The monthly job's lookup flushes the new balance first, and waits for   *)
(* the row if another holds it; a reset's writes nothing yet.              *)
FindsGrant(j) ==
  /\ job[j].phase = "filling"
  /\ j \in Allocators => ~RowLocked({j})
  /\ Turn(j, IF Known(j, Grants(job[j].for)) THEN "closing" ELSE "granting")
  /\ UNCHANGED <<pool, month, moneyVars, granted, keys, call, given, starts, taint>>

(* The row is written: an attribute set to the value loaded is no change. *)
WriteBack(j) ==
  /\ ~RowLocked({j})
  /\ balance' = IF job[j].seen = Allocation THEN balance ELSE Allocation
  /\ granted' = IF j \in Allocators THEN job[j].for ELSE granted
  /\ job' = [job EXCEPT ![j] = NoJob]
  /\ overlapped' = (overlapped \/ Overlaps({j}))

Grant(j) ==
  /\ job[j].phase = "granting"
  /\ ~Known(j, Grants(job[j].for))
  /\ WriteBack(j)
  /\ ledger' = ledger + Allocation
  /\ keys' = IF j \in Allocators THEN keys \union {Grants(job[j].for)} ELSE keys
  /\ UNCHANGED <<pool, month, oldRows, call, given, starts, died>>

CommitRow(j) ==
  /\ job[j].phase = "closing"
  /\ WriteBack(j)
  /\ UNCHANGED <<pool, month, ledger, oldRows, keys, call, given, starts, died>>

(* The job's end without its last commit: beaten to the key, which rolls   *)
(* the row back with it, or the process dies or loses its connection.      *)
GivesUp(j) ==
  /\ InFlight(j)
  /\ job' = [job EXCEPT ![j] = NoJob]
  /\ died' = (died \/ job[j].forfeit # 0)
  /\ UNCHANGED <<pool, month, moneyVars, granted, keys, call, given, starts, overlapped>>

-----------------------------------------------------------------------------
ChargeStep(c) ==
  Debit(c) \/ FallsShort(c) \/ Drain(c) \/ DrainsNothing(c) \/ ChargeFails(c)

JobStep(j) ==
  \/ Begin(j) \/ ForfeitsNothing(j) \/ WillForfeit(j)
  \/ Forfeit(j) \/ ForfeitBeaten(j) \/ Reload(j)
  \/ FindsGrant(j) \/ Grant(j) \/ CommitRow(j) \/ GivesUp(j)

Next ==
  \/ CreateForGraph \/ RecordInitial \/ CreationDies \/ NextMonth \/ CleanUp
  \/ \E c \in Calls : ChargeStep(c)
  \/ \E b \in Bonuses : AddBonus(b)
  \/ \E j \in Jobs : JobStep(j)

Spec == Init /\ [][Next]_vars

-----------------------------------------------------------------------------
(* Types; above all, no interleaving of charges, drains, bonuses and       *)
(* resets drives the balance below zero (consume_credits_atomic:           *)
(* "concurrent callers cannot drive the pool negative").                   *)
TypeOK ==
  /\ pool \in {"absent", "opening", "open"}
  /\ month \in 1..MaxMonth
  /\ balance \in Nat
  /\ granted \in Nat
  /\ ledger \in Int
  /\ before \in [Aging -> Int]
  /\ trimmed \in Int
  /\ keys \subseteq {"monthly_expiration", "monthly_allocation"} \X Nat
  /\ call \in [Calls -> {"new", "short", "billed", "unbilled"}]
  /\ given \subseteq Bonuses
  /\ job \in [Jobs -> [phase : {"idle", "loaded", "forfeiting", "expired", "filling",
                                "granting", "closing"},
                       seen : Nat, for : Nat, forfeit : Nat]]
  /\ starts \in Nat
  /\ overlapped \in BOOLEAN
  /\ died \in BOOLEAN

AtRest == pool = "open" /\ ~Overlaps({})

(* What the ledger held before the retention job deleted from it. *)
Booked == ledger + trimmed

(* The ledger sums to the balance, but for what the retention job deleted, *)
(* whenever nothing is in flight, through any number of charges, drains,   *)
(* bonuses, months and resets, as long as each reset ran to its end with   *)
(* no other commit in between.                                             *)
LedgerFoots == AtRest /\ ~overlapped /\ ~died => Booked = balance

(* allocate_monthly_credits: the forfeiture is posted "so the ledger keeps *)
(* footing against the balance through every reset".                       *)
FootsThroughResets == AtRest /\ ~died => Booked = balance

(* The gate that admits one allocation a month closes only on a month      *)
(* whose grant is in the ledger: an allocation that dies, overlaps another *)
(* or crosses midnight never costs the pool its month.                     *)
MonthIsGranted == granted > 1 => Grants(granted) \in keys

=============================================================================
