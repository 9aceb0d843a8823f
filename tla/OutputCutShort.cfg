\* The timeout falls between the exit of a script and the end of its output.
CONSTANTS
  Limit = 4
  LegacyLimit = 6
  PipeSize = 2
  OutChars = {"a"}
  ErrChars = {"a"}
  MaxWrites = 2
  RequireAttestation = FALSE
SPECIFICATION Spec
INVARIANT
  FlagTellsAll
CHECK_DEADLOCK FALSE
