CONSTANTS
  MaxTaps = 1
  MaxFaults = 2
  MaxSent = 2
  Window = 1
SPECIFICATION FairSpec
INVARIANTS
  AcksOwnBytes
  NeverStranded
  VisibilityTold
PROPERTY
  ComesBack
CHECK_DEADLOCK FALSE
