SPECIFICATION Spec
CONSTANTS
  t1 = t1
  t2 = t2
  t3 = t3
  Trials = {t1, t2}
  ExecSlots = 1
  PostSlots = 1
  MaxAttempts = 1
  Steps <- ShipOnly
  TornWrites = FALSE
  MaxCrashes = 0
  MaxFaults = 0
  MaxStarts = 2
INVARIANT InterruptedIsNotRecorded
CHECK_DEADLOCK FALSE
