SPECIFICATION FairSpec
CONSTANTS
  c1 = c1
  c2 = c2
  v1 = v1
  v2 = v2
  v3 = v3
  Cases = {c1}
  Versions = {v1, v2}
  Steps <- WarnThenRepair
  Slots = 1
  Rounds = 2
  MaxEdits = 0
  MaxStarts = 2
INVARIANTS RejectionIsAnAnswer MeasuredBytesAreHashed RepairIsRechecked
PROPERTY GateEnds
CHECK_DEADLOCK FALSE
