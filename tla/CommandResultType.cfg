\* A result settles a command of another type.
SPECIFICATION Spec
CONSTANTS
    Commands = {c1, c2}
    Devices = {d1}
    CommandTypes <- MCBuildable
    Buildable <- MCBuildable
    MaxRetriesBound = 1
    MaxHandlers = 1
    MaxAccepted = 1
PROPERTY ResultMatchesType
CHECK_DEADLOCK FALSE
