SPECIFICATION Spec
CONSTANTS
  p1 = p1
  p2 = p2
  Processes = {p1, p2}
  Releases = {1, 2, 4}
  MaxOpens = 5
  MaxCommits = 2
  MaxDamage = 1
  None = None
SYMMETRY ProcessSymmetry
INVARIANTS
  NewIsReallyNew
PROPERTIES
  NewerStoreIsUntouched
  UpgradeIsAtomic
CHECK_DEADLOCK FALSE
