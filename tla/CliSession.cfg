SPECIFICATION Spec
CONSTANTS
  Width = 2
  Step = {2, 3}
  Joined = {3}
  MaxTurns = 3
INVARIANTS
  HistoryTellsPlan
  PlanIsHeld
PROPERTIES
  OrderSurvives
CHECK_DEADLOCK FALSE
