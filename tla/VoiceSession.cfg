CONSTANTS
    Models = {m1, m2}
    Hearing = {m1}
    MaxTyped = 1
    MaxMoves = 1
    MaxSwitches = 2
    MaxPresses = 2
    MaxToggles = 1
    MaxClips = 1
SPECIFICATION Spec
INVARIANTS
  StatusMatchesMic
  RunnerTellsJournal
PROPERTIES
  NothingSentAfterCancel
  SendingEnds
CHECK_DEADLOCK FALSE
