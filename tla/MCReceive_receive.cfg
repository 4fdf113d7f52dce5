SPECIFICATION Spec
CONSTANTS
  Size = 2
  Capacity = 1
  MaxChunk = 2
INVARIANTS
  DestinationIsWhole
PROPERTIES
  KeepsPromise
  HandlerReturns
CHECK_DEADLOCK FALSE
