CONSTANTS
  Session = {s1, s2}
  Dir = {d1}
  Subscriber = {b1}
  Activity = {working}
  None = None
  Keep = 2
  Every = 2
  MaxEvents = 5
  MaxCrashes = 1
  MaxDrops = 1
SPECIFICATION Spec
INVARIANTS
  SessionWorkspaces
  NoGhosts
  MirrorExact
CHECK_DEADLOCK FALSE
