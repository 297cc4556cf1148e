SPECIFICATION Spec
CONSTANTS
  c1 = c1
  c2 = c2
  v1 = v1
  v2 = v2
  v3 = v3
  Cases = {c1}
  Versions = {v1, v2}
  Steps <- SkipThenRepair
  Slots = 1
  Rounds = 1
  MaxEdits = 0
  MaxStarts = 1
INVARIANT VerdictBoundToContent
CHECK_DEADLOCK FALSE
