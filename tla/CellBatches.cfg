CONSTANTS
    ItemCount = 5
    PromptCount = 2
    BatchSize = 2
    ChunkSize = 2
    Limit = 2
    Window = 1
SPECIFICATION BatchesSpec
INVARIANTS
  RateHeld
  ResultsInOrder
PROPERTIES
  NoCallAfterStop
  PassIsOver
CHECK_DEADLOCK FALSE
