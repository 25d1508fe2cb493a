\* Modules fall silent under a watchdog whose tasks are changed.
SPECIFICATION FairHealthSpec
CONSTANTS
    Defaults = {"deviceHealthCheck"}
    Names = {"deviceHealthCheck", "backup"}
    ConfigNames = {"deviceHealthCheck", "unknown"}
    MaxTasks = 2
    NoTask = NoTask
    Addresses = {1, 2}
    Modules = {1}
    MaxAddress = 1
    SlotCount = 2
    MaxEntries = 2
    OfflineAge = 0
    Ttl = 1
    Caching = TRUE
    Adapting = TRUE
    Repairing = TRUE
    Triggering = TRUE
INVARIANTS
    TypeOKHealth
    TasksFireAsListed
PROPERTIES
    SilentGoesOffline
    SilentIsForgotten
CHECK_DEADLOCK FALSE
