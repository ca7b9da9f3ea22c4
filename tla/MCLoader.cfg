SPECIFICATION MCSpec
CONSTANTS
  Works <- AllWorks
  Bytes = 16
  MaxRun = 4
  WordBytes = 4
  MaskBits = 4
  Nibble = 4
  MaxSteps = 4
  NaN = 99999
  Lengths = {3, 4, 5, 8, 9, 12, 16, 17, 21}
  OldLengths = {1, 2, 3, 4, 7, 9, 10}
  PackLengths = {2, 4, 5, 10, 20, 40}
  Series <- MCSeries
  OldSeries <- MCOldSeries
  Tails <- MCTails
  PutBytes = {0, 11, 12, 15}
  MaxPuts = 7
  TextFiles <- MCTextFiles
  TextOptions <- MCTextOptions
  TableSets <- MCTableSets
  TableOptions <- MCTableOptions
  ColumnFiles <- MCColumnFiles
  ColumnOptions <- MCColumnOptions
INVARIANTS
  RunLengthsReadBack
  RowsReadBack
  TextLoaded
  TablesMerged
  ColumnsLoaded
CHECK_DEADLOCK FALSE
