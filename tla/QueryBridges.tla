---------------------------- MODULE QueryBridges ----------------------------
(***************************************************************************)
(* The callers that hold a connection open on a queued query: the MCP      *)
(* bridge (routers/graphs/mcp/remote.py, _stream_queued_call) and the SSE  *)
(* stream (routers/graphs/query/streaming.py, stream_sse_with_queue).      *)
(* Other requests submit and go (query/execute.py).                        *)
(***************************************************************************)
EXTENDS QueryQueue

CONSTANTS
  Bridges,  \* MCP calls that wait for their query
  Streams   \* SSE streams of a queued query

ASSUME CallersAssumption == Bridges \intersect Streams = {}

Callers == Bridges \union Streams

VARIABLES
  phase,    \* where each caller is
  query,    \* the query it submitted
  seen,     \* the last status it was given
  rows,     \* streams: every row has been sent
  answer    \* how its connection ended

callers == <<phase, query, seen, rows, answer>>
allVars == <<vars, callers>>

NoQuery == "none"
Phases == {"idle", "polling", "unsettled", "streaming", "marking", "done"}
Answers == {"none", "result", "failed", "lost", "timeout", "disconnected", "error"}

CallersTypeOK ==
  /\ phase \in [Callers -> Phases]
  /\ query \in [Callers -> Queries \union {NoQuery}]
  /\ seen \in [Callers -> (QueryStatus \ {"new"}) \union {"none"}]
  /\ rows \in [Streams -> BOOLEAN]
  /\ answer \in [Callers -> Answers]

BridgesInit ==
  /\ Init
  /\ phase = [c \in Callers |-> "idle"]
  /\ query = [c \in Callers |-> NoQuery]
  /\ seen = [c \in Callers |-> "none"]
  /\ rows = [s \in Streams |-> FALSE]
  /\ answer = [c \in Callers |-> "none"]

-----------------------------------------------------------------------------
Reach(c, next) == phase' = [phase EXCEPT ![c] = next]

End(c, next, result) ==
  /\ Reach(c, next)
  /\ answer' = [answer EXCEPT ![c] = result]

\* Submit and start polling.
Open(c, q) ==
  /\ phase[c] = "idle"
  /\ Submit(q)
  /\ query' = [query EXCEPT ![c] = q]
  /\ Reach(c, "polling")
  /\ UNCHANGED <<seen, rows, answer>>

\* A refused submission ends the call.
Refused(c) ==
  /\ phase[c] = "idle"
  /\ End(c, "done", "error")
  /\ UNCHANGED <<vars, query, seen, rows>>

\* str() of a status: of a (str, Enum) member it is its qualified name.
Text ==
  [s \in {"pending", "running", "completed", "failed", "cancelled"} |->
    CASE s = "pending" -> "QueryStatus.PENDING"
      [] s = "running" -> "QueryStatus.RUNNING"
      [] s = "completed" -> "QueryStatus.COMPLETED"
      [] s = "failed" -> "QueryStatus.FAILED"
      [] s = "cancelled" -> "QueryStatus.CANCELLED"]

\* Mutant: the bridge relays the status word for an answer.
PollRelaysStatus(b) ==
  LET s == Report(query[b])
  IN /\ phase[b] = "polling"
     /\ seen' = [seen EXCEPT ![b] = s]
     /\ IF s \in Finished THEN End(b, "done", s) ELSE UNCHANGED <<phase, answer>>
     /\ UNCHANGED <<vars, query, rows>>

\* One turn of the MCP bridge's loop.
Poll(b) ==
  LET s == Report(query[b])
      Settle(result) == End(b, "done", result)
  IN /\ phase[b] = "polling"
     /\ seen' = [seen EXCEPT ![b] = s]
     /\ IF s = "none" THEN Settle("lost")
        ELSE IF Text[s] = "completed" THEN Settle("result")
        ELSE IF Text[s] \in {"failed", "cancelled"} THEN Settle("failed")
        ELSE UNCHANGED <<phase, answer>>
     /\ UNCHANGED <<vars, query, rows>>

\* _QUEUE_BRIDGE_TIMEOUT_SECONDS pass, or the client goes away.
GiveUp(b, why) ==
  /\ phase[b] = "polling"
  /\ End(b, "unsettled", why)
  /\ UNCHANGED <<vars, query, seen, rows>>

\* Mutants: only a timeout cancels; a running query is cancelled too.
AbandonsOnTimeout(b) ==
  /\ phase[b] = "unsettled"
  /\ IF answer[b] = "timeout" /\ Cancellable(query[b]) THEN Cancel(query[b])
     ELSE UNCHANGED vars
  /\ Reach(b, "done")
  /\ UNCHANGED <<query, seen, rows, answer>>

AbandonsRunning(b) ==
  LET q == query[b]
  IN /\ phase[b] = "unsettled"
     /\ IF q \in records /\ status[q] \notin Finished
        THEN /\ status' = [status EXCEPT ![q] = "cancelled"]
             /\ completed' = Completed(q)
             /\ count' = Released(Owner[q])
             /\ UNCHANGED <<created, heap, records, running>>
        ELSE UNCHANGED vars
     /\ Reach(b, "done")
     /\ UNCHANGED <<query, seen, rows, answer>>

\* The finally clause: cancel what did not settle.
Abandon(b) ==
  /\ phase[b] = "unsettled"
  /\ IF Cancellable(query[b]) THEN Cancel(query[b]) ELSE UNCHANGED vars
  /\ Reach(b, "done")
  /\ UNCHANGED <<query, seen, rows, answer>>

\* One turn of the stream's loop: these statuses are compared as enum members.
Watch(c) ==
  LET s == Report(query[c])
  IN /\ phase[c] = "polling"
     /\ seen' = [seen EXCEPT ![c] = s]
     /\ CASE s = "running" -> Reach(c, "streaming") /\ UNCHANGED answer
          [] s = "completed" -> End(c, "done", "result")
          [] s = "failed" -> End(c, "done", "failed")
          [] OTHER -> UNCHANGED <<phase, answer>>
     /\ UNCHANGED <<vars, query, rows>>

\* The stream runs the statement itself and sends its rows, or that raises.
StreamRows(s) ==
  /\ phase[s] = "streaming"
  /\ \/ rows' = [rows EXCEPT ![s] = TRUE] /\ Reach(s, "marking") /\ UNCHANGED answer
     \/ End(s, "done", "error") /\ UNCHANGED rows
  /\ UNCHANGED <<vars, query, seen>>

\* queue_manager.mark_completed: the manager has no such method, and the
\* AttributeError ends the stream with an error event.
MarkCompleted(s) ==
  /\ phase[s] = "marking"
  /\ End(s, "done", "error")
  /\ UNCHANGED <<vars, query, seen, rows>>

Disconnect(s) ==
  /\ phase[s] \in {"polling", "streaming", "marking"}
  /\ End(s, "done", "disconnected")
  /\ UNCHANGED <<vars, query, seen, rows>>

-----------------------------------------------------------------------------
BridgeStep(b) == Poll(b) \/ Abandon(b) \/ \E why \in {"timeout", "disconnected"} : GiveUp(b, why)

StreamStep(s) == Watch(s) \/ StreamRows(s) \/ MarkCompleted(s) \/ Disconnect(s)

BridgesNext ==
  \/ QueueStep /\ UNCHANGED callers
  \/ \E q \in Queries : Submit(q) /\ UNCHANGED callers
  \/ \E c \in Callers : Refused(c) \/ \E q \in Queries : Open(c, q)
  \/ \E b \in Bridges : BridgeStep(b)
  \/ \E s \in Streams : StreamStep(s)

BridgesSpec == BridgesInit /\ [][BridgesNext]_allVars

\* The queue's own fairness; no caller need ever look at its query again.
BridgesFairSpec == BridgesSpec /\ Fairness

-----------------------------------------------------------------------------
(* Properties *)

\* A call that has ended leaves nothing of its own waiting in the queue, whether
\* it timed out, lost its client or was answered: only streams, which never
\* cancel, may.
NothingLeftWaiting ==
  \A b \in Bridges : phase[b] = "done" /\ query[b] # NoQuery => ~Cancellable(query[b])

\* The callers drive the queue by its operations only: what holds of QueryQueue
\* holds here.
ImplementsQueue == Spec

=============================================================================
