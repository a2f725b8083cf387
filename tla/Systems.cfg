SPECIFICATION Spec
CONSTANTS
  a1 = a1
  a2 = a2
  a3 = a3
  nobody = nobody
  c1 = c1
  c2 = c2
  founder = founder
  g1 = g1
  g2 = g2
  p1 = p1
  m1 = m1
  k1 = k1
  k2 = k2
  d1 = d1
INVARIANTS TypeOK OneAssignee OnePullRequest OnePrimary DelegationKept DependenciesFirst
  DeliveredStays NoOccurrenceLost ResultIsTrue NoLineLost
  EvidenceComplete FailedRuntimesDropped AcceptedOnce OwnWorkComesHome NoEventMissed PagesComplete TranscriptFaithful UpgradeKeepsWork DefinitionsKnown
CHECK_DEADLOCK FALSE
