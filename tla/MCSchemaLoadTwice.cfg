SPECIFICATION MCSpec
CONSTANTS
  Parts = {"load"}
  Pairs <- MCPairs
  Ops = {"intersect", "subtract", "union", "greater", "less", "max", "min", "orderby", "thresholds"}
  Low = 0
  High = 2
  MinusInf <- MCMinusInf
  Worlds <- MCWorlds
  Statements <- MCStatements
  MaxQueries = 1
  SchemaFiles <- MCSchemaFiles
  MaxFailures = 2
  MaxStatements = 3
  Selections <- MCSelections
  FieldLists <- MCFieldLists
  Bases <- MCBases
  Sizes <- MCSizes
INVARIANTS IndexTablesComplete
CHECK_DEADLOCK FALSE
