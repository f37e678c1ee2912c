CONSTANTS
    t1 = t1
    t2 = t2
    k1 = k1
    None = None
    Tasks = {t1, t2}
    EntryIds = {e1, e2, e3}
    Servers = {s1, s2}
    Keys = {k1}
    MaxRetry <- TwoRetries
    NoArchive = {t2}
    Retained = {t1}
    UniqueKey <- SameKey
    LeasesLapse = FALSE
    Operator = {}
SPECIFICATION FairSpec
INVARIANTS SinglePlace OneHolder ZSetsAgree UniqueInPipeline
PROPERTIES FollowsLifecycle EventuallySettled
