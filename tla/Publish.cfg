SPECIFICATION Spec
CONSTANTS
  t1 = t1
  t2 = t2
  Trials = {t1, t2}
  Steps <- GuardedShip
  MinShipped = 1
  MaxFaults = 1
  MaxCrashes = 1
  MaxStarts = 3
SYMMETRY Symmetric
INVARIANTS ProgressCountsRecords PublishedIsRecorded PublishedPassedGuard ShippedMeansThere
CHECK_DEADLOCK FALSE
