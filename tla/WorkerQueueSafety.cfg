SPECIFICATION Spec
CONSTANTS
  Ops = {o1}
  Handled = {o1}
  Workers = {w1}
  Clients = {c1}
  Admins = {a1}
  MaxRetries = 2
  Budget = 1
  StaleGrace = 0
  MetaTtl = 2
  MaxAge = 1
  MaxPauses = 1
  MaxCrashes = 1
  MaxRedrives = 1
  MaxQueue = 1
INVARIANTS TypeOK TaskConservation
CHECK_DEADLOCK FALSE
