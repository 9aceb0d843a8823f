\* The network drops after the restart was booked.
CONSTANTS
  r1 = r1
  r2 = r2
  k1 = k1
  NoRestart = NoRestart
  NoKey = NoKey
  Restarts = {r1}
  Keys = {}
  MaxBoots = 2
  MaxCrashes = 0
SPECIFICATION Spec
INVARIANT PendingIsNotBack
CHECK_DEADLOCK FALSE
