SPECIFICATION Spec
CONSTANTS
  MaxVersion = 2
  MaxToggles = 2
  MaxMishaps = 2
INVARIANTS
  SavedIsFound
  NothingOldComesBack
  ACopySurvives
  OneFormatRemains
CHECK_DEADLOCK FALSE
