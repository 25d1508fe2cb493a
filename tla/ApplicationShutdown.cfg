\* A signal during start(), or a second one.
SPECIFICATION Spec
CONSTANTS
    Configurations <- MCConfigurations
    Types = {"reading", "unknown"}
    MaxAttempts = 1
    MaxMessages = 1
    MaxSignals = 2
INVARIANTS
    GracefulShutdown
CHECK_DEADLOCK FALSE
