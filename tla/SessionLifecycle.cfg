CONSTANTS
  Id = {s1}
  Client = {c1, c2}
  Cap = 1
  MaxCrashes = 2
SPECIFICATION FairSpec
INVARIANTS
  StoppedStaysStopped
  ViewerHasProcess
  NoLeakedFiles
  SessionsSurviveRestarts
PROPERTY
  AttachAnswered
CHECK_DEADLOCK FALSE
