CONSTANTS
  High = 2
  Low = 1
  MaxPending = 2
  Client = {b1, b2}
  ChunkSizes = {1, 4}
  ReplaySizes = {0, 1}
  MaxOffered = 5
SPECIFICATION FairSpec
INVARIANTS
  PausedForLiveViewer
  StreamHasNoGap
PROPERTY
  ViewerReleasesPty
