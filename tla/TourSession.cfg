CONSTANTS
    join = join
    voice = voice
    Tours = {join, voice}
    Script <- Steps
    Needs <- Lookups
    MaxPlays = 2
    MaxOpens = 1
    MaxSends = 1
SPECIFICATION Spec
INVARIANTS
  ExitLeavesNothing
  ChipsAreOfTable
PROPERTIES
  StepsRunOnce
  CompletedWasPlayed
CHECK_DEADLOCK FALSE
