SPECIFICATION Spec
CONSTANTS
  t1 = t1
  t2 = t2
  Trials = {t1}
  MaxAttempts = 2
  MaxFaults = 1
  MaxCrashes = 1
  MaxStarts = 3
INVARIANTS RewardIsEarned ArtifactsAreOfTheAttempt SecondLifeIsForALoss
CHECK_DEADLOCK FALSE
