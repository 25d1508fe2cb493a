\* Stops and starts, two handlers for one request, two devices.
SPECIFICATION FairSpec
CONSTANTS
    Commands = {c1, c2}
    Devices = {d1, d2}
    CommandTypes <- MCTypes
    Buildable <- MCBuildable
    MaxRetriesBound = 1
    MaxHandlers = 2
    MaxAccepted = 2
INVARIANTS
    HeldTimerIsLive
    OneTimerPerAcceptance
PROPERTIES
    TimerNeverLost
    ImplementsLifecycle
    ClosesEveryCommand
CHECK_DEADLOCK FALSE
