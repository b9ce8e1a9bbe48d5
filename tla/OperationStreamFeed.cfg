SPECIFICATION StreamSpec
CONSTANTS
  AsyncWriters = {}
  SyncWriters = {s1}
  Recorders = {}
  Reapers = {}
  Checkpoints <- MCCheckpoints
  ResultKeys = {}
  Streams = {t1, t2}
  MaxConnections = 2
  QueueSize = 1
  MaxEvents = 2
  Stored <- MCStored
INVARIANT LiveStreamListens
CHECK_DEADLOCK FALSE
