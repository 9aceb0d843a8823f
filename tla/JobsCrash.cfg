\* Two requests under one idempotency key over two connections, with a crash between
\* them; every job settles, and a dead registration fades.
CONSTANTS
  d1 = d1
  d2 = d2
  j1 = j1
  j2 = j2
  k1 = k1
  c1 = c1
  c2 = c2
  c3 = c3
  NoKey = NoKey
  NoConn = NoConn
  Devices = {d1}
  Jobs = {j1, j2}
  Keys = {k1}
  Conns = {c1, c2}
  MaxCrashes = 1
  Reports = {"Completed", "Rejected"}
  HellosInOrder = FALSE
SPECIFICATION FairSpec
INVARIANTS
  KeyNamesOneJob
PROPERTIES
  EveryJobSettles
  GoneDeviceFades
CHECK_DEADLOCK FALSE
