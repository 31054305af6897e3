CONSTANTS
    Lookups = {a}
    MaxSaves = 2
    MaxExports = 2
    MaxRequests = 1
    MaxFlows = 1
SPECIFICATION DialogsSpec
INVARIANTS
  RequestIsNeverParked
PROPERTIES
  CancelledNeverWritten
  WrittenRowsEvaluated
  WaitEnds
CHECK_DEADLOCK FALSE
