SPECIFICATION Spec
CONSTANTS
  Children = {c1, c2}
  MaxGeneration = 2
  MaxCommands = 3
  None = None
SYMMETRY AnyChild
INVARIANTS Consistent InputHitsWindowSeen
PROPERTIES InputInOrder
CHECK_DEADLOCK FALSE
