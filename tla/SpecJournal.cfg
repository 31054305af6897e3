SPECIFICATION Spec
CONSTANTS
  Plan = {p1, p2, p3}
  Label = {typed, spoken}
  MaxId = 3
PROPERTIES
  ForkedForever
  ImplementsTimeline
