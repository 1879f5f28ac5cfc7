SPECIFICATION Spec
CONSTANTS
  a = a
  b = b
  c = c
  d = d
  l = l
  Weeks = {"w1", "w2"}
  Candidates = {a, b, c, d, l}
  Variants = {1, 2}
  MaxTime = 3
  MaxRecords = 2
  None = None
  Week <- MCWeek
  Contract <- MCContract
  Cutoff <- MCCutoff
INVARIANTS
  QualifiedWasInTime
  OneCandidateChain
PROPERTIES
  NeverQualifiedLater
  OnlyWithdrawalDisqualifies
CHECK_DEADLOCK FALSE
