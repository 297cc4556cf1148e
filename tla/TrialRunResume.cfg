SPECIFICATION Spec
CONSTANTS
  t1 = t1
  t2 = t2
  t3 = t3
  Trials = {t1, t2}
  ExecSlots = 1
  PostSlots = 1
  MaxAttempts = 1
  Steps <- GuardThenShip
  TornWrites = TRUE
  MaxCrashes = 1
  MaxFaults = 1
  MaxStarts = 2
SYMMETRY Symmetric
INVARIANTS RecordedOnce SlotDiscipline MemoryMatchesDisk MeasuredIsShipped SettledOncePerLoss CompleteReportIsTrue UnrunResultIsALeftover
PROPERTIES NoShipAfterRow DropIsFinal ImplementsLedger
CHECK_DEADLOCK FALSE
