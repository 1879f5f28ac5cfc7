SPECIFICATION InspectSpec
CONSTANTS
  b1 = b1
  b2 = b2
  Blobs = {b1}
  Medias = {m1, m2}
  Snapshots = {s1}
  NoJob = NoJob
  MaxStamps = 2
  MaxDamage = 1
  MaxPowerLoss = 1
INVARIANTS
  CatalogIsBacked
  ManifestsAreClosed
  ProtectedGraphSurvives
  AlarmsAreReal
CHECK_DEADLOCK FALSE
