SPECIFICATION Spec
CONSTANTS
  Worker = {p1}
  WorkItem = {w1}
  Attempt = {a1, a2, a3}
  Slot = {org, repo}
  w1 = w1
  org = org
  repo = repo
  Needs <- MCNeeds
  Gates <- Ungated
  Results = {"succeeded", "failed", "timed_out"}
  MaxAttempts = 2
  MaxTries = 3
  MaxNumber = 3
  None = None
  Other = Other
CHECK_DEADLOCK FALSE
SYMMETRY Symmetry
INVARIANTS LiveAttemptIsClaimant
PROPERTIES AttemptLifecycle SettledItemStays SlotsKeptWhileAttended
