SPECIFICATION Spec
CONSTANTS
  Corpora <- MCCorpora
  Grain = 4
  SerialCutoff = 1
  Poll = 2
INVARIANTS
  TypeOK
  ScansStayInside
  PretestHasNoGap
  RangesInOrder
PROPERTIES
  SortsTheCorpus
  Termination
