SPECIFICATION Spec
CONSTANTS
    Ceiling = 3
    Balanced = 2
    Pressured = 2
    Recovered = 2
    Diagnostics = FALSE
    MaxRequests = 3
    None = None
INVARIANTS Consistent
PROPERTIES AutomaticYields Settles
CHECK_DEADLOCK FALSE
