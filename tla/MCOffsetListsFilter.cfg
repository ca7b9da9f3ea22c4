SPECIFICATION MCSpec
CONSTANTS
  Parts = {"lists"}
  Pairs <- MCPairs
  Ops = {"thresholds"}
  Low = 0
  High = 2
  MinusInf <- MCMinusInf
  Worlds <- MCWorlds
  Statements <- MCStatements
  MaxQueries = 1
  SchemaFiles <- MCSchemaFiles
  MaxFailures = 0
  MaxStatements = 3
  Selections <- MCSelections
  FieldLists <- MCFieldLists
  Bases <- MCBases
  Sizes <- MCSizes
INVARIANTS FilterStaysInside
CHECK_DEADLOCK FALSE
