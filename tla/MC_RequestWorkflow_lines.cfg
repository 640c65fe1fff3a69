SPECIFICATION Spec
CONSTANTS
    k1 = k1
    w1 = w1
    b1 = b1
    p1 = p1
    r1 = r1
    r2 = r2
    r3 = r3
    l1 = l1
    l2 = l2
    t1 = t1
    t2 = t2
    Kitchens = {k1}
    Warehouses = {w1}
    Branches = {b1}
    Products = {p1}
    NoBatch = NoBatch
    Idle = Idle
    NoTarget = NoTarget
    Absent = Absent
    Null = Null
    Threads = {t1, t2}
    Doc <- LinesDoc
    InitStock <- LinesStock
    Requests = {r1, r2, r3}
    Lines = {l1, l2}
    Batches = {NoBatch, x1}
    LastDay = 2
    MaxQuantity = 2
    Reroutes <- KitchenOnly
SYMMETRY ThreadSymmetry
CONSTRAINT OneStory
CHECK_DEADLOCK FALSE
INVARIANTS
    DeliveryKeepsLots
    DeliveryKeepsExpiries
    ProducedMeansTicked
    PurchaseWithinApproval
PROPERTIES
    ApprovalIsFinal
