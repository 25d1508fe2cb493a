\* No deduplication at all: what is not announced was not seen as a change.
SPECIFICATION Spec
CONSTANTS
    t1 = t1
    t2 = t2
    Sensors = {s1}
    Tags = {t1, t2}
    NoTag = NoTag
    Lost = Lost
    Windows = {0}
    CleanupInterval = 2
    MaxAge = 1
PROPERTIES
    EveryChangeIsAnnounced
