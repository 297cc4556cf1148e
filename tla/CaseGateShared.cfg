SPECIFICATION Spec
CONSTANTS
  c1 = c1
  c2 = c2
  v1 = v1
  v2 = v2
  v3 = v3
  Cases = {c1, c2}
  Versions = {v1, v2}
  Steps <- HardThenSkip
  Slots = 2
  Rounds = 1
  MaxEdits = 1
  MaxStarts = 2
SYMMETRY Symmetric
INVARIANTS VerdictsAreEarned AdmittedIsJudged NothingIsLost
PROPERTY FiledVerdictIsKept
CHECK_DEADLOCK FALSE
