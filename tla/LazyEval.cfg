SPECIFICATION Spec
CONSTANTS
  Height = 5
  Prompts = 3
  PageSize = 2
  Step = {"ai", "flip", "rank"}
  MaxLine = 3
INVARIANTS
  AnswersBanked
PROPERTIES
  EvaluatedStays
  PageIsExact
