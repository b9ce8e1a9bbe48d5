SPECIFICATION StreamSpec
CONSTANTS
  AsyncWriters = {}
  SyncWriters = {s1}
  Recorders = {}
  Reapers = {r1}
  Checkpoints <- MCCheckpoints
  ResultKeys = {}
  Streams = {t1, t2}
  MaxConnections = 1
  QueueSize = 1
  MaxEvents = 2
  Stored <- MCStored
INVARIANTS TypeOK EnvelopeFollowsOutcome PauseCarriesRequest StreamTypeOK OpenStreamsWithinLimit EndedStreamSawOutcome NothingMissedWhileFed
PROPERTIES ImplementsLadder TerminalIsFinal
CHECK_DEADLOCK FALSE
SYMMETRY StreamsAlike
