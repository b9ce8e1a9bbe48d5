SPECIFICATION BridgesFairSpec
CONSTANTS
  q1 = q1  q2 = q2  q3 = q3  q4 = q4
  alice = alice  bob = bob
  Queries = {q1, q2, q3}
  Users = {alice}
  Owner <- MCOwner
  Priority <- MCPriority
  MaxQueue = 2
  MaxConcurrent = 1
  MaxPerUser = 2
  MaxCompleted = 1
  Bridges = {b1}
  Streams = {s1}
INVARIANTS TypeOK CallersTypeOK CountsMatchWork NothingStranded NothingLeftWaiting
PROPERTIES ImplementsQueue FinishedIsFinal QuerySettles
CHECK_DEADLOCK FALSE
