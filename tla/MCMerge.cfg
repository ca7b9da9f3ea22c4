SPECIFICATION FairSpec
CONSTANTS
  MaxKey = 2
  Inputs <- MCInputs
INVARIANTS
  HeapSound
PROPERTIES
  MergesInGroups
  MergeEnds
CHECK_DEADLOCK FALSE
