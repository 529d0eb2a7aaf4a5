SPECIFICATION Spec
CONSTANTS
  Wholes <- MCWholes
  Grain = 2
  Threads = 2
  Chunks = 2
  Capacity = 2
  InitDepth = 2
  Depths = 4
INVARIANTS
  CastIsSound
PROPERTIES
  ImplementsRanges
  Termination
