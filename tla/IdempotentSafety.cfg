SPECIFICATION Spec
CONSTANTS
  k1 = k1  b1 = b1  b2 = b2
  Keys = {k1}
  NoKey = NoKey
  NoOp = NoOp
  Bodies = {b1, b2}
  KeyOf <- MCKeyOf
  BodyOf <- MCBodyOf
  Syncs = {r1, r4}
  Dispatches = {r2, r3}
  keyed = {r1, r2, r3}
  edited = {r1}
  Ops = {o1, o2}
  MaxOverruns = 1
  MaxBlips = 1
  MaxCancels = 2
INVARIANTS TypeOK OneHolderPerKey RecordedOncePerKey ReservationIsHeld DedupNamesPushedTask
CHECK_DEADLOCK FALSE
SYMMETRY Symmetry
