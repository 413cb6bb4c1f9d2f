CONSTANTS
  Id = {s1}
  Client = {c1, c2, c3}
  Cap = 1
  MaxCrashes = 2
SPECIFICATION Spec
INVARIANT
  AdoptedNeverKilled
CHECK_DEADLOCK FALSE
