\* Every clock setting over three time units; one restart of the server.
CONSTANTS
  Epsilon = 0
  Tolerance = 1
  LooseTolerance = 2
  Rounding = 0
  MaxDelay = 1
  MaxAdjust = 1
  MaxTime = 3
  MaxRestarts = 1
  MaxAge = 2
  RetryAfter = 1
SPECIFICATION Spec
INVARIANTS
  VerdictIsSound
  RebootShows
  MarkHasTask
PROPERTIES
  SnapshotMovesForward
CHECK_DEADLOCK FALSE
