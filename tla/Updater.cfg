CONSTANTS
  MaxVersion = 2
  MaxOps = 2
  MaxFaults = 1
SPECIFICATION FairSpec
INVARIANTS
  OneInstaller
  CurrentBoots
  FailureRestores
PROPERTIES
  DoneIsRunning
  StatusSettles
CHECK_DEADLOCK FALSE
