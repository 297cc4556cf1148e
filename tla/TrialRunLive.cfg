SPECIFICATION FairSpec
CONSTANTS
  t1 = t1
  t2 = t2
  t3 = t3
  Trials = {t1, t2}
  ExecSlots = 1
  PostSlots = 1
  MaxAttempts = 2
  Steps <- VetoThenShip
  TornWrites = FALSE
  MaxCrashes = 0
  MaxFaults = 1
  MaxStarts = 1
PROPERTIES LifeEnds 
CHECK_DEADLOCK FALSE
