SPECIFICATION Spec
CONSTANTS
    r1 = r1
    r2 = r2
    l1 = l1
    l2 = l2
    p1 = p1
    b1 = b1
    b2 = b2
    t1 = t1
    t2 = t2
    Products = {p1}
    NoBatch = NoBatch
    Batches = {NoBatch}
    Idle = Idle
    Absent = Absent
    Null = Null
    MaxQuantity = 2
    Doc <- SplitDoc
    InitStock <- SplitStock
    Requests = {r1}
    Lines = {l1, l2}
    Threads = {t1, t2}
    Branches = {b1, b2}
    LastDay = 1
    MaxSlices = 2
SYMMETRY Symmetry
CHECK_DEADLOCK FALSE
INVARIANTS
    LastDeliveryRollsUp
