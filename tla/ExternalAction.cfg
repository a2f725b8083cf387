SPECIFICATION Spec
CHECK_DEADLOCK FALSE
CONSTANTS
  Request = {r1, r2, r3}
  Payload = {p1, p2}
  NoOne = none
  NoPayload = nothing
  Lease = 3
  Timeout = 1
  Delay = 1
  MaxTime = 5
SYMMETRY Symmetry
INVARIANTS OneSender RepliesAreTrue
PROPERTY IsIdempotent
