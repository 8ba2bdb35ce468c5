SPECIFICATION FairSpec
CONSTANTS
  NumItems = 2
  Workers = {w1, w2}
  MaxAttempts = 2
  OrphanAfter = 2
  RunLimit = 1
  KickMax = 1
  TickMax = 1
  MaxRequeues = 0
  InlineItems = {2}
PROPERTIES
  Drained
CHECK_DEADLOCK FALSE
