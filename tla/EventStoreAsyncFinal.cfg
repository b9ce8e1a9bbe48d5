SPECIFICATION Spec
CONSTANTS
  AsyncWriters = {a1, a2}
  SyncWriters = {}
  Recorders = {j1}
  Reapers = {}
  Checkpoints <- MCCheckpoints
  ResultKeys = {graph_id}
PROPERTY TerminalIsFinal
CHECK_DEADLOCK FALSE
