SPECIFICATION Spec
CONSTANTS
  c1 = c1
  c2 = c2
  v1 = v1
  v2 = v2
  Absent = Absent
  Cases = {c1}
  Versions = {v1, v2}
  Refused = {}
  GateSlots = 1
  Slots = 2
  MaxEdits = 1
  MaxFails = 0
  MaxStarts = 1
INVARIANT TrialRunsOnce
CHECK_DEADLOCK FALSE
