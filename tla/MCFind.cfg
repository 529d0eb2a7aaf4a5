SPECIFICATION Spec
CONSTANTS
  Indexes <- MCIndexes
  Patterns <- MCPatterns
INVARIANTS
  TypeOK
  Partitioned
  ScanIsExact
  AnswerExact
