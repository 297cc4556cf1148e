SPECIFICATION MCSpec
CONSTANTS
  c1 = c1
  c2 = c2
  v1 = v1
  v2 = v2
  Absent = Absent
  Cases = {c1, c2}
  Versions = {v1, v2}
  Refused = {v2}
  GateSlots = 1
  Slots = 1
  MaxEdits = 1
  MaxFails = 1
  MaxStarts = 2
INVARIANTS StateIsVerdict TrialsAreOfAdmitted
PROPERTIES FinishIsComplete SettledBeforeRegate EveryCaseIsJudged
CHECK_DEADLOCK FALSE
