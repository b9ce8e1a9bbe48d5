---------------------------- MODULE PeriodBooks ----------------------------
(* What closing a fiscal month promises the reader of its statements: the   *)
(* ledger of a closed month does not move, and the statements stamped on it *)
(* were drawn from that ledger and those of the months before.  A month has *)
(* to be reopened, which retracts its own statements, before anything in it *)
(* may change; the statements of later months stay, and from then on they   *)
(* promise nothing until they are stamped again.                            *)
EXTENDS Naturals

CONSTANTS Months,            \* numbers, in calendar order
          Rows               \* an entry as it stands in the ledger

VARIABLES
  phase,        \* phase[m]: "open" | "closing" | "closed"
  ledger,       \* ledger[m]: the posted lines of the month
  statements,   \* statements[m]: {} or {what the statements were drawn from}
  unsettled     \* closed months whose statements promise nothing

booksVars == <<phase, ledger, statements, unsettled>>

BooksInit ==
  /\ phase \in [Months -> {"open", "closing", "closed"}]
  /\ ledger = [m \in Months |-> {}]
  /\ statements = [m \in Months |-> {}]
  /\ unsettled = {}

Drawn(book, m) ==
  [flow |-> book[m], opening |-> UNION {book[n] : n \in {k \in Months : k < m}}]

(* A write reaches only months that are not closed. *)
Write ==
  /\ ledger' \in [Months -> SUBSET Rows]
  /\ \A m \in Months : phase[m] = "closed" => ledger'[m] = ledger[m]
  /\ UNCHANGED <<phase, statements, unsettled>>

(* Closing posts what is left of the month and draws the statements from it  *)
(* and what came before: they are settled if all of that is closed.          *)
(* Stamping a closed month again leaves its ledger alone.                    *)
Close(m) ==
  /\ \E posted \in SUBSET Rows :
       /\ phase[m] = "closed" => posted = ledger[m]
       /\ ledger' = [ledger EXCEPT ![m] = posted]
  /\ statements' = [statements EXCEPT ![m] = {Drawn(ledger', m)}]
  /\ phase' = [phase EXCEPT ![m] = "closed"]
  /\ unsettled' = IF \A n \in Months : n < m => phase[n] = "closed"
                  THEN unsettled \ {m} ELSE unsettled \cup {m}

(* Reopening takes the statements away with the promise, and the promise     *)
(* from the months closed after it.                                          *)
Reopen(m) ==
  /\ phase[m] = "closed"
  /\ \E posted \in SUBSET Rows : ledger' = [ledger EXCEPT ![m] = posted]
  /\ phase' = [phase EXCEPT ![m] = "closing"]
  /\ statements' = [statements EXCEPT ![m] = {}]
  /\ unsettled' = (unsettled \ {m}) \cup {n \in Months : n > m /\ phase[n] = "closed"}

BooksNext == Write \/ \E m \in Months : Close(m) \/ Reopen(m)

BooksSpec == BooksInit /\ [][BooksNext]_booksVars
=============================================================================
