SPECIFICATION Spec
CONSTANTS
  Indexes <- MCIndexes
  Patterns <- MCPatterns
  Behinds <- MCBehinds
INVARIANTS
  AnswerExact
