SPECIFICATION Spec
CONSTANTS
  Saves <- MCSaves
  Base = 2
  MaxRuns = 2
  MaxSize = 3
  NoSave = NoSave
INVARIANTS
  GoodReadIsExact
  RoundTrip
  StringsKeepIndices
