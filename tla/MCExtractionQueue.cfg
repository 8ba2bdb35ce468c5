SPECIFICATION Spec
CONSTANTS
  NumItems = 2
  Workers = {w1, w2}
  MaxAttempts = 2
  OrphanAfter = 2
  RunLimit = 1
  KickMax = 2
  TickMax = 2
  MaxRequeues = 1
  InlineItems = {}
INVARIANTS
  TypeOK
  ExclusiveLease
  AnsweredOnce
PROPERTIES
  AnalyzedIsFinal
  RecoversOnlyOrphans
  ImplementsJobBoard
CHECK_DEADLOCK FALSE
