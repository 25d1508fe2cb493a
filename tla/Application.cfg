\* Starts, messages, outages and signals at any time.
SPECIFICATION FairSpec
CONSTANTS
    Configurations <- MCConfigurations
    Types = {"list", "reading", "unknown"}
    MaxAttempts = 1
    MaxMessages = 2
    MaxSignals = 2
INVARIANTS
    MessagesInOrder
    NothingUnderWay
    OneSignalStopsAll
PROPERTIES
    SignalEndsProcess
CHECK_DEADLOCK FALSE
