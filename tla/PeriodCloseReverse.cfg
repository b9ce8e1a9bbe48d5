SPECIFICATION Spec
CONSTANTS
  local = local  local2 = local2  due = due
  NoOne = NoOne
  NumPeriods = 2
  LastCompleted = 2
  Locals = {local, local2}
  Obligations = {}
  DueMonth <- MCDueMonth
  Movable = {local}
  Closers = {c1}
  Writers = {w1, w2}
  Writeback = TRUE
  MaxVer = 0
PROPERTY FrozenWhileClosed
