CONSTANTS
  MaxCalls = 3
  MaxStops = 2
SPECIFICATION FairSpec
INVARIANTS
  NoOrphan
  HandshakeFirst
PROPERTIES
  CallsKept
  CallSettles
CHECK_DEADLOCK FALSE
