\* A message is discarded for the failures of another.
SPECIFICATION UpSpec
CONSTANTS
    m1 = m1  m2 = m2  m3 = m3
    k1 = k1  k2 = k2  k3 = k3
    Messages = {m1, m2, m3}
    Keys = {k1, k2, k3}
    KeyOf <- SharedKeys
    Poison = {}
    Flushes = {f1, f2}
    NoFlush = NoFlush
    BatchSize = 2
    MaxQueueSize = 3
    RetryCount = 2
INVARIANT DiscardedWasRetried
CHECK_DEADLOCK FALSE
