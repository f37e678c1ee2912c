CONSTANTS
    a = a
    m1 = m1
    m2 = m2
    cb = cb
    z = z
    n1 = n1
    None = None
    Tasks = {m1, n1, m2, cb}
    Slots = {m1, m2}
    First = {m1, m2}
    NextLink <- GroupNext
    StageTask = None
    SlotOf <- GroupSlot
    Callback = cb
    Retained = {m1}
    Workers = {w1, w2}
    LeasesLapse = FALSE
    Operator = TRUE
    Janitor = {"completed"}
    Expires = FALSE
SPECIFICATION Spec
SYMMETRY WorkerSymmetry
CHECK_DEADLOCK FALSE
INVARIANT CallbackNotEarly
