SPECIFICATION Spec
CONSTANTS
  ArgLists <- MCArgLists
INVARIANTS
  FindNeedsData
