SPECIFICATION MCSpec
CONSTANTS
  Inputs = {"sorted", "unsorted"}
  Keys <- MCKeys
  Vals <- MCVals
  Sizes <- MCSizes
  NoFSync = FALSE
  MaxRows = 3
  RawKeys <- MCRawKeys
  RawValues <- MCRawValues
  PrefixSize = 1
  MaxUnsorted = 3
  MaxTables = 2
INVARIANTS
  CommittedIsComplete
  SyncIsDurable
  NothingLost
  BlocksSized
  SortsStably
