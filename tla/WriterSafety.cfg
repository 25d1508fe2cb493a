\* Overlapping flushes, a full queue, failures, stop and restart.
SPECIFICATION Spec
CONSTANTS
    m1 = m1  m2 = m2  m3 = m3
    k1 = k1  k2 = k2  k3 = k3
    Messages = {m1, m2, m3}
    Keys = {k1, k2, k3}
    KeyOf <- SharedKeys
    Poison = {}
    Flushes = {f1, f2, f3}
    NoFlush = NoFlush
    BatchSize = 2
    MaxQueueSize = 2
    RetryCount = 2
INVARIANTS
    QueueBound
    NothingVanishes
    HeldOnce
PROPERTIES
    OnlyFailureStrands
    ImplementsCustody
CHECK_DEADLOCK FALSE
