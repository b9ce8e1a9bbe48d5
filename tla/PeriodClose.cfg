SPECIFICATION Spec
CONSTANTS
  local = local  local2 = local2  due = due
  NoOne = NoOne
  NumPeriods = 2
  LastCompleted = 2
  Locals = {local}
  Obligations = {due}
  DueMonth <- MCDueMonth
  Movable = {local}
  Closers = {c1, c2}
  Writers = {w1}
  Writeback = TRUE
  MaxVer = 0
INVARIANTS TypeOK StatementsMatchLedger NoDraftLeftInClosed HistoryHasNoGap NothingOmitted ClosedIsInQuickBooks RetractedNeverPosts
PROPERTIES FrozenWhileClosed ImplementsBooks
SYMMETRY ClosersAlike
