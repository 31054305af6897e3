SPECIFICATION Spec
CONSTANTS
  Source <- SourceTable
  Menu <- Requests
  Flows <- Plans
  PageSize = 1
  SortColumns <- SortCols
  FilterColumns <- FilterCols
  Needle <- One
  Shuffled = TRUE
  MaxLine = 3
INVARIANTS
  ShownOnce
  NothingOverwritten
  RefusalsAreRight
PROPERTIES
  PageIsEvaluated
CHECK_DEADLOCK FALSE
