SPECIFICATION Spec
CONSTANTS
    k1 = k1
    w1 = w1
    b1 = b1
    p1 = p1
    r1 = r1
    r2 = r2
    r3 = r3
    l1 = l1
    l2 = l2
    t1 = t1
    t2 = t2
    Kitchens = {k1}
    Warehouses = {w1}
    Branches = {b1}
    Products = {p1}
    NoBatch = NoBatch
    Idle = Idle
    NoTarget = NoTarget
    Absent = Absent
    Null = Null
    Threads = {t1, t2}
    Doc <- PurchaseDoc
    InitStock <- NoStock
    Requests = {r1}
    Lines = {l1}
    Batches = {NoBatch}
    LastDay = 1
    MaxQuantity = 2
    Reroutes <- Nowhere
SYMMETRY ThreadSymmetry
CHECK_DEADLOCK FALSE
INVARIANTS
    PurchaseCreditsTheCount
