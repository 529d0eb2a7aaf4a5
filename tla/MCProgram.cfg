SPECIFICATION ProgramSpec
CONSTANTS
  Commands <- MCCommands
  ArgLists <- MCArgLists
  CorpusFile <- MCCorpusFile
  Files <- MCFiles
  Pattern <- MCPattern
  Newline = 1
  Bits = 3
  MaxSize = 4
  NoSave = NoSave
  Idle = Idle
  Absent = Absent
  Lost = Lost
  Silence = Silence
INVARIANTS
  CorpusFitsSort
PROPERTIES
  ImplementsArchive
  CommandEnds
