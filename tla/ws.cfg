SPECIFICATION FairSpec
CONSTANTS
  Capacity = 3
  MaxPublished = 2
  MaxPings = 2
  MaxInbox = 2
INVARIANTS InOrder PongsKept
PROPERTIES ImplementsMetricsFeed LatestArrives SessionEnds
CHECK_DEADLOCK FALSE
