SPECIFICATION Spec
CONSTANTS
  MaxRequests = 3
  MaxGeneration = 2
  MaxLosses = 1
  MaxInFlight = 2
  None = None
INVARIANTS Consistent AnswersAreTrue
PROPERTIES Settles
CHECK_DEADLOCK FALSE
