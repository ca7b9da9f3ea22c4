SPECIFICATION FairMCSpec
CONSTANTS
  Parts <- AllParts
  Keys <- MCKeys
  Vals <- MCVals
  Sizes <- MCSizes
  Files <- MCFiles
  MaxRows = 3
  MaxSkip = 4
  V3Tables <- MCV3Tables
  V3Keys = {1, 2, 3, 4}
  IndexSizes = {3, 4}
  Versions = {2, 3}
  MaxPadding = 1
  Word = 32
  MaxKey = 4
  LevelDBTables <- MCLevelDBTables
  SoughtKeys <- MCSoughtKeys
  MaxLevelDBSkip = 5
  MayFail = FALSE
  Programs = {p1, p2}
  Names = {n1, n2}
  WrittenKeys = {0, 1}
  MaxWritten = 2
  MaxTables = 2
  kMaxAttempts = 2
  p1 = p1
  p2 = p2
  n1 = n1
  n2 = n2
INVARIANTS
  CursorInBlock
  FindsExactly
  FlagsFollowIterator
  PublishesSafely
PROPERTIES
  ReadsAsOneTable
  LevelDBReadsAsOneTable
  PathStaysNamed
  CallsEnd
