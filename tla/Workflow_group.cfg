CONSTANTS
    a = a
    m1 = m1
    m2 = m2
    cb = cb
    z = z
    n1 = n1
    None = None
    Tasks = {m1, m2, cb}
    Slots = {m1, m2}
    First = {m1, m2}
    NextLink <- StageNext
    StageTask = None
    SlotOf <- StageSlot
    Callback = cb
    Retained = {}
    Workers = {w1, w2}
    LeasesLapse = TRUE
    Operator = FALSE
    Janitor = {"completed"}
    Expires = TRUE
SPECIFICATION Spec
SYMMETRY WorkerSymmetry
CHECK_DEADLOCK FALSE
INVARIANTS CallbackOnce CallbackNotEarly NoSlotStranded
