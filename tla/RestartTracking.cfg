\* Two requests, with a key and without, a reboot and a crash.
CONSTANTS
  r1 = r1
  r2 = r2
  k1 = k1
  NoRestart = NoRestart
  NoKey = NoKey
  Restarts = {r1, r2}
  Keys = {k1}
  MaxBoots = 2
  MaxCrashes = 1
SPECIFICATION FairSpec
INVARIANTS
  TypeOK
  ConfirmationFits
  ConfirmedIsNewBoot
PROPERTIES
  ClosedIsFinal
  TrackedRestartCloses
CHECK_DEADLOCK FALSE
