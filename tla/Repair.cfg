\* Two operators, three diagnosis runs, two crashes, lost calls.
CONSTANTS
  ann = ann
  bob = bob
  Nobody = Nobody
  Operators = {ann, bob}
  LostCalls = TRUE
  MaxCrashes = 2
SPECIFICATION FairSpec
INVARIANTS
  TypeOK
  RepairRunsAtMostOnce
  RepairWasApproved
  StoryOfOneRun
  ResolvedMeansRan
  WaitingIsDecidable
PROPERTIES
  DecisionStands
  FinishedIsFinal
  InvestigationEnds
