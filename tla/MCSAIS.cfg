SPECIFICATION Spec
CONSTANTS
  Invalid = 255
  Corpora <- MCCorpora
INVARIANTS
  STypesCorrect
  InOwnBucket
  AllPlaced
  ReductionFaithful
  SummarySorted
  LevelsHalve
  WayUpSorted
PROPERTIES
  NothingOverwritten
  Termination
  SortsTheCorpus
