SPECIFICATION Spec
CONSTANTS
  Ops = {o1, o2}
  Handled = {o1, o2}
  Workers = {w1}
  Clients = {c1}
  Admins = {}
  MaxRetries = 2
  Budget = 1
  StaleGrace = 0
  MetaTtl = 2
  MaxAge = 1
  MaxPauses = 0
  MaxCrashes = 1
  MaxRedrives = 1
  MaxQueue = 1
CHECK_DEADLOCK FALSE
PROPERTY CrashLeavesTask
