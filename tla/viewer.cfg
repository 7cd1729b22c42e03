\* Two recoveries in a row, two ICE restarts, two offers under way.
SPECIFICATION Spec
CONSTANTS
    MaxAttempts = 2
    MaxRestarts = 2
    MaxOffers = 2
    ConnectAfterClose = FALSE
INVARIANTS Consistent ServesAsTold
PROPERTIES TerminalIsFinal Settles
CHECK_DEADLOCK FALSE
