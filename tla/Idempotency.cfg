CONSTANTS
  Request = {r1, r2, r3, r4}
  Operation = {create, rename}
  None = None
  MaxCrashes = 2
  MaxFaults = 1
SPECIFICATION KeySpec
INVARIANTS
  CarriedOutOnce
CHECK_DEADLOCK FALSE
