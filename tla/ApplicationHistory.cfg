\* The history endpoint with a connected database.
SPECIFICATION Spec
CONSTANTS
    Configurations <- MCConfigurations
    Types = {"reading", "unknown"}
    MaxAttempts = 1
    MaxMessages = 1
    MaxSignals = 2
INVARIANTS
    HistoryIsServed
CHECK_DEADLOCK FALSE
