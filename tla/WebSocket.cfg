\* Two connections and room for one; one device and one type to subscribe to.
SPECIFICATION FairSpec
CONSTANTS
    Clients = {c1, c2}
    Devices = {d1}
    Types = {t1}
    MaxClients = 1
    Interval = 2
    Lateness = 3
INVARIANTS
    TypeOK
    CountIsReported
PROPERTIES
    AnsweringClientStays
    GoneClientIsDropped
