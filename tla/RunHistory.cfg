SPECIFICATION Spec
CONSTANTS
  p1 = p1
  p2 = p2
  r1 = r1
  r2 = r2
  c1 = c1
  c2 = c2
  a = a
  b = b
  Pids = {p1}
  RunIds = {r1, r2}
  Matchweeks = {mw1}
  Contracts = {c1, c2}
  Results = {a, b}
  NumPhases = 2
  HardLimit = 1
  Guards = {FALSE}
  StatReadable = TRUE
  NoRun = NoRun
  NoResult = NoResult
  MaxSpawns = 2
  MaxAttempts = 2
  MaxTime = 0
  MaxRot = 0
SYMMETRY RunSymmetry
INVARIANTS
  NoCompatibleTwins
  CheckpointChain
  CompletionAttests
PROPERTIES
  HistoryIsFinal
  KeepsItsPromise
CHECK_DEADLOCK FALSE
