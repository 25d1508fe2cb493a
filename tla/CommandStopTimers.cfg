\* A timer set by a retry survives stop().
SPECIFICATION Spec
CONSTANTS
    Commands = {c1, c2}
    Devices = {d1}
    CommandTypes <- MCBuildable
    Buildable <- MCBuildable
    MaxRetriesBound = 1
    MaxHandlers = 1
    MaxAccepted = 1
PROPERTY StopClearsTimers
CHECK_DEADLOCK FALSE
