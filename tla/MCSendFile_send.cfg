SPECIFICATION Spec
CONSTANTS
  Size = 2
INVARIANTS
  OneOutcome
  SuccessIsWhole
PROPERTIES
  OutcomeIsTold
  CancelledEnds
CHECK_DEADLOCK FALSE
