SPECIFICATION Spec
CONSTANTS
  Offers = {o1}
  Drops = {}
  Bytes <- OneByte
  Guids = {g1}
  Size <- TwoBytes
  MaxTemporary = 2
  MaxFiles = 1
  Regrants = FALSE
  MaxChain = 1
  MaxGeneration = 2
  None = None
INVARIANTS Consistent SinkSettled
PROPERTY EverythingReleased
CHECK_DEADLOCK FALSE
