SPECIFICATION Spec
CONSTANTS
  MaxOps = 3
  MaxTables = 2
  Kinds = {"request", "flow", "move", "gesture", "page", "retry", "runAll"}
  Overlap = TRUE
  Budget = 2
INVARIANTS
  AtRestUnlocked
  StoppedNeverLands
  
PROPERTY StopSettles
CHECK_DEADLOCK FALSE
