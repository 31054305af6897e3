SPECIFICATION LoopSpec
CONSTANTS
  Step = {trim, sample}
  Thins = {sample}
  Budget = 2
  MaxRequests = 2
  MaxLoads = 1
  MaxSteps = 2
INVARIANTS
  RowsMatchPlan
  AnswerIsFresh
PROPERTIES
  ProvenanceKept
  Settles
CHECK_DEADLOCK FALSE
