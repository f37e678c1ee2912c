CONSTANTS
    t1 = t1
    t2 = t2
    k1 = k1
    None = None
    Tasks = {t1}
    EntryIds = {e1, e2}
    Servers = {s1, s2}
    Keys = {}
    MaxRetry <- OneRetry
    NoArchive = {}
    Retained = {t1}
    UniqueKey <- NotUnique
    LeasesLapse = TRUE
    Operator = {"RunTask", "DeleteTask"}
SPECIFICATION Spec
SYMMETRY ServerEntrySymmetry
INVARIANTS TypeOK NoTaskLost
