SPECIFICATION FindSpec
CONSTANTS
  Indexes <- MCIndexes
  Patterns <- MCPatterns
  Behinds <- MCBehinds
INVARIANTS
  ExactBeforeGreatest
  NeverTooSmall
  Recovers
  RowsReach
  ExactEntriesSuffice
  StartsInData
  WindowKeepsHits
  NoFalseHit
PROPERTIES
  Termination
