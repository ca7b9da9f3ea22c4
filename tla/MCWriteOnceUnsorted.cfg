SPECIFICATION MCSpec
CONSTANTS
  Inputs = {"sorted"}
  Keys <- MCKeys
  Vals <- MCVals
  Sizes <- MCSizes
  NoFSync = FALSE
  MaxRows = 2
  RawKeys <- MCRawKeys
  RawValues <- MCRawValues
  PrefixSize = 1
  MaxUnsorted = 3
  MaxTables = 2
INVARIANT UnsortedOK
