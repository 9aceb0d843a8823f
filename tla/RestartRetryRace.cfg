\* Two requests under one key while the first waits for its check.
CONSTANTS
  r1 = r1
  r2 = r2
  k1 = k1
  NoRestart = NoRestart
  NoKey = NoKey
  Restarts = {r1, r2}
  Keys = {k1}
  MaxBoots = 1
  MaxCrashes = 0
SPECIFICATION Spec
INVARIANT OneRecordPerJob
CHECK_DEADLOCK FALSE
