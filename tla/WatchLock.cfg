SPECIFICATION FairSpec
CONSTANTS
  p1 = p1
  p2 = p2
  p3 = p3
  Nothing = Nothing
  Pids = {p1, p2, p3}
  Signals <- Reach
  MaxStarts = 4
  MaxCrashes = 2
INVARIANT OneOwnerUnlessRaced
PROPERTIES SettledLockIsKept StaleLockIsTaken
CHECK_DEADLOCK FALSE
