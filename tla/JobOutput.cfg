\* Characters of one and four bytes against a limit of four; a script four times as long as its pipes.
CONSTANTS
  Limit = 4
  LegacyLimit = 6
  PipeSize = 1
  OutChars = {"a", "h", "l"}
  ErrChars = {"a"}
  MaxWrites = 4
  RequireAttestation = FALSE
SPECIFICATION FairSpec
INVARIANTS
  StoredFits
PROPERTIES
  OutputIsDrained
  TimeoutAnswers
CHECK_DEADLOCK FALSE
