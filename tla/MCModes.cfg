SPECIFICATION Spec
CONSTANTS
  ArgLists <- MCArgLists
INVARIANTS
  ArgumentsCountOnce
  ShortFormDecides
