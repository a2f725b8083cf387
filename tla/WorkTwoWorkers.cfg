SPECIFICATION Spec
CONSTANTS
  Worker = {p1, p2}
  WorkItem = {w1}
  Attempt = {a1, a2, a3}
  Slot = {org}
  w1 = w1
  org = org
  repo = repo
  Needs <- OneSlot
  Gates <- Gated
  Results = {"succeeded", "failed"}
  MaxAttempts = 2
  MaxTries = 2
  MaxNumber = 2
  None = None
  Other = Other
CHECK_DEADLOCK FALSE
CONSTRAINT TwoWorkerBound
SYMMETRY Symmetry
INVARIANTS NothingDangles OneActiveAttempt ClosedByEvidence OneCliPerAttempt
