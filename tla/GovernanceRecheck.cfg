SPECIFICATION Spec
CHECK_DEADLOCK FALSE
CONSTANTS
  Worker = {w1}
  Request = {}
  NoOne = none
  Plan <- CheckedPlan
  MaxRounds = 2
  MaxApprovals = 1
  MaxPasses = 1
INVARIANT EveryRoundCheckable
