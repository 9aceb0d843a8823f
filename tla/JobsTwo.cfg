\* Two jobs without a key over two connections: results, timeouts, revocation, eviction,
\* a crash between any two commits; the control plane implements its contract.
CONSTANTS
  d1 = d1
  d2 = d2
  j1 = j1
  j2 = j2
  k1 = k1
  c1 = c1
  c2 = c2
  c3 = c3
  NoKey = NoKey
  NoConn = NoConn
  Devices = {d1}
  Jobs = {j1, j2}
  Keys = {NoKey}
  Conns = {c1, c2}
  MaxCrashes = 1
  Reports = {"Completed"}
  HellosInOrder = TRUE
SPECIFICATION Spec
SYMMETRY Symmetry
INVARIANTS
  MemoryMatchesRows
  RevokedIsQuiet
  RunsAtMostOnce
  CompletedWasRun
  LiveDeviceNotMarkedGone
  RevokedIsCutOff
PROPERTIES
  AnswerIsFinal
  ImplementsContract
CHECK_DEADLOCK FALSE
