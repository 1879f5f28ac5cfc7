SPECIFICATION Spec
CONSTANTS
  o1 = o1
  o2 = o2
  b1 = b1
  b2 = b2
  Objects = {o1, o2}
  Backups = {b1}
  MaxCommits = 2
  MaxDamage = 1
  None = None
SYMMETRY ObjectSymmetry
INVARIANTS
  RestoreIsFaithful
PROPERTIES
  AckedBundleIsKept
  RestoreIsAtomic
CHECK_DEADLOCK FALSE
