SPECIFICATION Spec
CONSTANTS
  o1 = o1
  o2 = o2
  b1 = b1
  b2 = b2
  Objects = {o1}
  Backups = {b1, b2}
  MaxCommits = 1
  MaxDamage = 0
  None = None
PROPERTIES
  BundleIsImmutable
CHECK_DEADLOCK FALSE
