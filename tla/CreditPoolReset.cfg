SPECIFICATION Spec
CONSTANTS
  cheap = cheap  dear = dear
  Allocation = 1
  Calls = {cheap, dear}
  Cost <- MCCost
  PostHoc = {dear}
  Bonuses = {b1}
  Bonus <- MCBonus
  Allocators = {a1, a2}
  Resetters = {r1}
  Retention = 2
  MaxMonth = 3
  MaxStarts = 3
INVARIANT FootsThroughResets
CHECK_DEADLOCK FALSE
SYMMETRY AllocatorsAlike
