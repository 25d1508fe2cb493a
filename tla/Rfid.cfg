\* One sensor, two tags, no deduplication window or one of two ticks.
SPECIFICATION Spec
CONSTANTS
    t1 = t1
    t2 = t2
    Sensors = {s1}
    Tags = {t1, t2}
    NoTag = NoTag
    Lost = Lost
    Windows = {0, 2}
    CleanupInterval = 2
    MaxAge = 5
SYMMETRY Sym
INVARIANT ViewFollowsStore
PROPERTIES
    AnnouncedOncePerWindow
