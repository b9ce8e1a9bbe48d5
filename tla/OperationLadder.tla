--------------------------- MODULE OperationLadder ---------------------------
(***************************************************************************)
(* What the operation store promises its clients about one operation:      *)
(* whatever writers race, the status and the recorded question change only *)
(* by a permitted event applied to their current values, or vanish         *)
(* together when the key expires (event_storage.py, the comment above      *)
(* _STATUS_PRIORITY).                                                      *)
(***************************************************************************)
EXTENDS OperationStatus

CONSTANT Checkpoints   \* the checkpoints a task may pause at

VARIABLES status, request

ladderVars == <<status, request>>

Init ==
  /\ status = "pending"
  /\ request = NoRequest

\* Only a pause asks a question, and every pause does.
Advance(e, asked) ==
  /\ status # Absent
  /\ e = "awaiting_input" => asked # NoRequest
  /\ TransitionAllowed(status, NextStatus[e])
  /\ status' = NextStatus[e]
  /\ request' = ApplyInputRequest(request, e, asked)

Expire ==
  /\ status' = Absent
  /\ request' = NoRequest

Next ==
  \/ \E e \in Event, asked \in Checkpoints \union {NoRequest} : Advance(e, asked)
  \/ Expire

Spec == Init /\ [][Next]_ladderVars

=============================================================================
