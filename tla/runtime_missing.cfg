\* __get throws while a method reads a service.
SPECIFICATION ThrowingSpec
CONSTANTS
  Limit = 2
  MaxDepth = 4
  ContainerThrows = TRUE
INVARIANT FramesMatch
