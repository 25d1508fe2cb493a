\* Two messages of two devices, two endpoints, two requests at a time, one retry or none.
SPECIFICATION FairSpec
CONSTANTS
    e1 = e1
    e2 = e2
    Messages <- MCMessages
    EndpointIds = {e1, e2}
    Endpoints <- MCEndpoints
    MaxSize = 2
    MaxRetries = 1
    MaxConcurrent = 2
INVARIANTS
    TypeOK
    EachCopyInOnePlace
    BufferedHasTimer
    StoppedIsQuiet
PROPERTIES
    ImplementsCustody
    EveryCopyEnds
