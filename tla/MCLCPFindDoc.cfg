SPECIFICATION FindSpec
CONSTANTS
  Indexes <- MCIndexes
  Patterns <- MCPatterns
  Behinds <- MCBehinds
INVARIANTS
  FindsInCorpus
