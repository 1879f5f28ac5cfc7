SPECIFICATION Spec
CONSTANTS
  None = None
  NumRows = 2
  Cutoff = 1
  Kickoff = 3
  MaxTime = 3
  MaxTuf = 2
  MaxNonce = 3
  MaxCalls = 4
  MaxKills = 1
  MaxFlakes = 2
INVARIANTS
  WitnessedInTime
  RequestBudget
  GraphIsExact
  PublicationIsWhole
CHECK_DEADLOCK FALSE
