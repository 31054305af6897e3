SPECIFICATION Spec
CONSTANTS
  MaxOps = 4
  MaxTables = 2
  Kinds = {"request", "flow", "move", "gesture", "page"}
  Overlap = FALSE
  Budget = 2
PROPERTIES
  ImplementsJournal
CHECK_DEADLOCK FALSE
