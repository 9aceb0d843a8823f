\* One crash, with no call lost.
CONSTANTS
  ann = ann
  bob = bob
  Nobody = Nobody
  Operators = {ann}
  LostCalls = FALSE
  MaxCrashes = 1
SPECIFICATION Spec
INVARIANTS
  FailedWasNotApplied
