\* Methods and PHP code call each other, throw and give up.
SPECIFICATION Spec
CONSTANTS
  Limit = 3
  MaxDepth = 8
  ContainerThrows = FALSE
INVARIANTS
  FramesMatch
  CountsMatch
