SPECIFICATION Spec
CONSTANTS
  Worker = {p1}
  WorkItem = {w1}
  Attempt = {a1, a2}
  Slot = {org}
  w1 = w1
  org = org
  repo = repo
  Needs <- OneSlot
  Gates <- Ungated
  Results = {"succeeded", "failed", "timed_out"}
  MaxAttempts = 2
  MaxTries = 3
  MaxNumber = 2
  None = None
  Other = Other
CHECK_DEADLOCK FALSE
PROPERTY RetryStaysQueued
