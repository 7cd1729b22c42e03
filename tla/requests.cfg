SPECIFICATION Spec
CONSTANTS
    n1 = n1  n2 = n2  o1 = o1  v1 = v1  q1 = q1  q2 = q2  None = None
    Notices = {n1, n2}
    Opens = {o1}
    Navigations = {v1}
    Configs = {q1, q2}
    MaxPending = 1
    MaxChain = 2
    MaxRequests = 2
    MaxGeneration = 2
INVARIANTS Consistent AnswersReachTheirCaller
PROPERTIES Settles
CHECK_DEADLOCK FALSE
