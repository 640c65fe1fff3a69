SPECIFICATION HeadOfficeSpec
CONSTANTS
    k1 = k1
    w1 = w1
    b1 = b1
    p1 = p1
    r1 = r1
    r2 = r2
    l1 = l1
    l2 = l2
    t1 = t1
    t2 = t2
    Kitchens = {k1}
    Warehouses = {w1}
    Branches = {b1}
    Products = {p1}
    NoBatch = NoBatch
    Idle = Idle
    NoTarget = NoTarget
    Absent = Absent
    Null = Null
    Threads = {t1, t2}
    Doc <- CompeteDoc
    InitStock <- CompeteStock
    Requests = {r1, r2}
    Lines = {l1}
    Batches = {NoBatch}
    LastDay = 2
    MaxQuantity = 1
    Reroutes <- NoReroutes
    Almanacs <- TwoAlmanacs
    OwnEvents = {"final"}
    EventDays = {4}
    Factors = {2}
    EventDishes = {"tea", "bun"}
    Editors = {a1, a2}
SYMMETRY ThreadSymmetry
CONSTRAINT FewEvents
CHECK_DEADLOCK FALSE
INVARIANTS
    MovementsFollowStatus
    Conservation
    ShippedWhatWasApproved

    
