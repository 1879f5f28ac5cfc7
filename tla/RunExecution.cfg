SPECIFICATION FairSpec
CONSTANTS
  p1 = p1
  p2 = p2
  r1 = r1
  r2 = r2
  Pids = {p1}
  RunIds = {r1}
  Matchweeks = {mw1}
  Contracts = {c1}
  Results = {a}
  NumPhases = 2
  HardLimit = 2
  Guards = {TRUE, FALSE}
  StatReadable = TRUE
  NoRun = NoRun
  NoResult = NoResult
  MaxSpawns = 2
  MaxAttempts = 2
  MaxTime = 3
  MaxRot = 1
INVARIANTS
  ElapsedAccounts
PROPERTIES
  CallsEnd
CHECK_DEADLOCK FALSE
