--------------------------- MODULE OperationStatus ---------------------------
(***************************************************************************)
(* The status ladder of an SSE operation, shared by every writer of its    *)
(* metadata: middleware/sse/event_storage.py.  Only the status-changing    *)
(* events are modelled; a progress event leaves the metadata alone.        *)
(***************************************************************************)
EXTENDS Naturals

\* "absent" stands for a metadata key that does not exist (never created, or
\* expired).
Absent == "absent"

Status ==
  {"pending", "running", "awaiting_input", "completed", "failed", "cancelled"}

Event == {"started", "completed", "error", "cancelled", "awaiting_input", "resumed"}

TerminalFailureStatuses == {"failed", "cancelled"}

TerminalStatuses == TerminalFailureStatuses \union {"completed"}

\* The statuses a run is not known to have left; the reaper acts on these only.
OpenStatuses == {"pending", "running"}

StatusPriority ==
  [s \in Status |->
     CASE s = "pending" -> 0
       [] s \in {"running", "awaiting_input"} -> 1
       [] s \in TerminalStatuses -> 2]

NextStatus ==
  [e \in Event |->
     CASE e \in {"started", "resumed"} -> "running"
       [] e = "completed" -> "completed"
       [] e = "error" -> "failed"
       [] e = "cancelled" -> "cancelled"
       [] e = "awaiting_input" -> "awaiting_input"]

\* Mutant: only the rungs are compared, and the terminal statuses share one.
ComparesRungsOnly(current, new) == StatusPriority[new] >= StatusPriority[current]

TransitionAllowed(current, new) ==
  /\ current \in TerminalStatuses => new = current
  /\ StatusPriority[new] >= StatusPriority[current]

\* An operation's pending question is the number of the checkpoint that asked
\* it; 0 is Python's None.
NoRequest == 0

\* Mutant: only an answer clears the question; a fresh start leaves it.
KeepsRequestOnStart(request, e, asked) ==
  CASE e = "awaiting_input" -> asked
    [] e = "resumed" -> NoRequest
    [] OTHER -> request

\* The request on the metadata after event e, when the event carries asked.
ApplyInputRequest(request, e, asked) ==
  CASE e = "awaiting_input" -> asked
    [] e \in {"resumed", "started"} -> NoRequest
    [] OTHER -> request

=============================================================================
