SPECIFICATION Spec
CONSTANTS
  Saves <- MCSavesCompressed
  Base = 2
  MaxRuns = 1
  MaxSize = 3
  NoSave = NoSave
INVARIANTS
  CompressedRoundTrip
