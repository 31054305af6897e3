SPECIFICATION SqlSpec
CONSTANTS
  MaxCallers = 2
  MaxEvals = 2
  Batches = 2
  Parallel = TRUE
INVARIANTS
  AloneReadsOwnRows
PROPERTIES
  NoHalfDeadRace
  StopSettles
CHECK_DEADLOCK FALSE
