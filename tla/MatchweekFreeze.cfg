SPECIFICATION Spec
CONSTANTS
  None = None
  Revisions <- MCRevisions
  Rows = {"u1"}
  Ranks = {1}
  Lead = 1
  Opens = 3
  Closes = 5
  Moments = {3, 4}
  MaxTime = 4
  MaxDelay = 1
  MaxImports = 3
  MaxKills = 1
  MaxAppends = 2
INVARIANTS
  CutoffLeadsMembers
  FreezeIsReplayable
PROPERTIES
  WithdrawalIsFinal
  PassIsComplete
CHECK_DEADLOCK FALSE
