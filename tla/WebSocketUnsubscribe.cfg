\* One connection, one device to unsubscribe from.
SPECIFICATION Spec
CONSTANTS
    Clients = {c1}
    Devices = {d1}
    Types = {t1}
    MaxClients = 1
    Interval = 1
    Lateness = 0
PROPERTIES
    UnsubscribedGetsNothing
