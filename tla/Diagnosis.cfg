\* Three checks, replies of up to three calls.
CONSTANTS
  c1 = c1
  c2 = c2
  c3 = c3
  BadJSON = BadJSON
  Checks = {c1, c2, c3}
  MaxDiagnostics = 4
  MaxAttempts = 5
  MaxFailed = 3
  MaxRepeats = 2
  MaxOutput = 3
  MaxSize = 2
  MaxCalls = 3
SPECIFICATION FairSpec
INVARIANTS
  WithinLimits
  DispatchesAreCounted
  CutOffIsSaid
PROPERTIES
  DiagnosisEnds
CHECK_DEADLOCK FALSE
