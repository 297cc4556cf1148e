SPECIFICATION MCSpec
CONSTANTS
  c1 = c1
  c2 = c2
  v1 = v1
  v2 = v2
  Absent = Absent
  Cases = {c1, c2}
  Versions = {v1, v2}
  Rank <- MCRank
  Covers <- MCCovers
  Slots = 2
  Target = 1
  Extra = 2
  MaxMishaps = 1
  MaxStarts = 2
INVARIANTS RolloutsOfAdmitted OneRowPerReroll OneRerollAtATime TriesAreBounded
PROPERTIES TargetIsPursued
CHECK_DEADLOCK FALSE
