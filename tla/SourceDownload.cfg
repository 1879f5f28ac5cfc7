SPECIFICATION FairSpec
CONSTANTS
  None = None
  Length <- MCLength
  PageLength = 2
  PhraseAt = 2
  Searched = 3
  MaxSource = 3
  NetBytes = 5
  OpBytes = 3
  NetRequests = 4
  OpRequests = 2
  RetryCount = 1
  RedirectCount = 1
  MaxFetches = 3
  MaxKills = 1
  MaxWithdrawals = 1
INVARIANTS
  RetainedIsWhole
  RefusalIsNeverRetained
  BoundsHold
PROPERTIES
  CacheIsAtomic
  FetchEnds
CHECK_DEADLOCK FALSE
