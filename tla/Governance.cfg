SPECIFICATION Spec
CHECK_DEADLOCK FALSE
CONSTANTS
  Worker = {w1, w2}
  Request = {r1}
  NoOne = none
  Plan <- GatedPlans
  MaxRounds = 2
  MaxApprovals = 2
  MaxPasses = 1
CONSTRAINT Bounded
SYMMETRY Symmetry
INVARIANTS EvidenceClosesWork VerdictsRestOnChecks OneCheckerRuns
PROPERTY CheckerOutcomeStands
