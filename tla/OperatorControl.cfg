SPECIFICATION LiveSpec
CONSTANTS
  Worker = {w1, w2}
  NoWorker = NoWorker
  s1 = s1
  s2 = s2
  Step = {s1, s2}
  DependsOn <- MCDependsOn
  Review = review
  LastFlow = 2
  LastVersion = 4
  MaxAttempts = 1
  Tries = 2
  Recurring = TRUE
  Overruns = FALSE
  Impatient = FALSE
INVARIANTS StepsInOrder CompletedMeansDone
PROPERTIES CompletedItemsStay KeepsEvaluating
CHECK_DEADLOCK FALSE
