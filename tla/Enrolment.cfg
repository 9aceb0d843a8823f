\* Two machines, perhaps clones, two tokens, two keys.
CONSTANTS
  m1 = m1
  m2 = m2
  d1 = d1
  d2 = d2
  t1 = t1
  t2 = t2
  k1 = k1
  k2 = k2
  k3 = k3
  NoToken = NoToken
  NoKey = NoKey
  NoDevice = NoDevice
  Machines = {m1, m2}
  Devices = {d1, d2}
  Tokens = {t1, t2}
  Keys = {k1, k2}
  MaxStray = 1
SPECIFICATION Spec
SYMMETRY Symmetry
INVARIANTS
  OneKeyPerToken
  MarkerWasEarned
PROPERTIES
  ReplacedByRecovery
  InstalledIsEnrolled
CHECK_DEADLOCK FALSE
