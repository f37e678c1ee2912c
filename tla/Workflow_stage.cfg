CONSTANTS
    a = a
    m1 = m1
    m2 = m2
    cb = cb
    z = z
    n1 = n1
    None = None
    Tasks = {a, m1, m2, cb, z}
    Slots = {m1, m2}
    First = {a}
    NextLink <- StageNext
    StageTask = a
    SlotOf <- StageSlot
    Callback = cb
    Retained = {m1}
    Workers = {w1, w2}
    LeasesLapse = FALSE
    Operator = TRUE
    Janitor = {"completed"}
    Expires = TRUE
SPECIFICATION Spec
SYMMETRY WorkerSymmetry
CHECK_DEADLOCK FALSE
INVARIANTS TypeOK ResultsComplete NoSlotStranded NoWorkflowLost
