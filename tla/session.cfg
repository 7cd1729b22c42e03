SPECIFICATION FairSpec
CONSTANTS
  MaxGeneration = 2
  Slots = {c1, c2}
  MaxChain = 1
  Concurrent = FALSE
  MediaFaults = {"timeout", "disconnect"}
  None = None
INVARIANTS Consistent
PROPERTIES ImplementsLifecycle PublishesCurrent ClosedStartsNothing SessionSettles
CHECK_DEADLOCK FALSE
