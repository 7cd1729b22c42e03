SPECIFICATION Spec
CONSTANTS
  Ids = {i1, i2}
  Handles = {s1, s2}
  MaxSessions = 1
  MaxTickets = 1
  None = None
INVARIANTS Consistent RecordsCurrent LiveListed
PROPERTIES Settles
CHECK_DEADLOCK FALSE
