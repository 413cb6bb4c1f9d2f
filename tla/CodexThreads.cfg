CONSTANTS
  Session = {s1, s2}
  MaxStarts = 3
  MaxCrashes = 1
SPECIFICATION FairSpec
INVARIANTS
  OwnThread
  ProvisionalHidden
PROPERTIES
  GivenOnce
  StartSettles
CHECK_DEADLOCK FALSE
