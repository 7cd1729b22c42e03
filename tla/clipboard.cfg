\* One write and one read of two chunks, across one takeover.
SPECIFICATION Spec
CONSTANTS
    w1 = w1  r1 = r1  None = None
    Writes = {w1}
    Reads = {r1}
    Chunks = 2
    MaxChain = 2
    MaxGeneration = 2
INVARIANTS Consistent
PROPERTIES TransfersReleased
CHECK_DEADLOCK FALSE
