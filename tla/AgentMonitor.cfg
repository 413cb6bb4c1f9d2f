CONSTANTS
  Client = {b1, b2}
  Provider = {p1}
  Kinds = {"managed", "shell"}
SPECIFICATION FairSpec
INVARIANTS
  NativeOutranksScreen
PROPERTIES
  UnseenBlockerAlerts
  ItemFollowsBlocker
  AlertComesDown
  BlockerNoticed
  IdleNoticed
CHECK_DEADLOCK FALSE
