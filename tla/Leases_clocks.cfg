CONSTANTS
    s1 = s1
    s2 = s2
    t1 = t1
    t2 = t2
    None = None
    Servers = {s1, s2}
    Steady = {s2}
    Tasks = {t1, t2}
    Corrupt = {t2}
    MaxEntries = 2
    RecoverMinIdle = 2
    RecoverInterval = 1
    HeartbeatInterval = 0
    UniqueTTL = 1
    RecoverBatch = 1
    MaxFaults = 1
SPECIFICATION Spec
INVARIANTS LockOutlivesLease RecoveredInTime
PROPERTY LeaseKept
