SPECIFICATION FairSpec
CONSTANTS
  Ops = {o1}
  Handled = {o1}
  Workers = {w1, w2}
  Clients = {c1}
  Admins = {}
  MaxRetries = 2
  Budget = 1
  StaleGrace = 0
  MetaTtl = 1
  MaxAge = 1
  MaxPauses = 0
  MaxCrashes = 2
  MaxRedrives = 1
  MaxQueue = 1
INVARIANTS AttemptRunsOnce RetriesExhaustedBeforeDlq
PROPERTY TaskSettles
CHECK_DEADLOCK FALSE
