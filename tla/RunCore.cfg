SPECIFICATION StatusSpec
CONSTANTS
  p1 = p1
  p2 = p2
  r1 = r1
  r2 = r2
  Pids = {p1, p2}
  RunIds = {r1, r2}
  Matchweeks = {mw1}
  Contracts = {c1}
  Results = {a}
  NumPhases = 1
  HardLimit = 1
  Guards = {FALSE}
  StatReadable = TRUE
  NoRun = NoRun
  NoResult = NoResult
  MaxSpawns = 2
  MaxAttempts = 2
  MaxTime = 0
  MaxRot = 0
SYMMETRY RunSymmetry
INVARIANTS
  AtMostOneRunning
  TablesAgree
  ReportIsCoherent
PROPERTIES
  OnlyAbandonedAreInterrupted
CHECK_DEADLOCK FALSE
