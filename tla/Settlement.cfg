SPECIFICATION GradingSpec
CONSTANTS
  None = None
  Digests = {"d1"}
  MaxCalls = 3
  MaxKills = 1
  Evidence <- MCEvidence
  Packs <- MCPacks
  Preferences <- MCPreferences
INVARIANTS
  MarketsAgree
PROPERTIES
  LowerEvidenceIsInert
CHECK_DEADLOCK FALSE
