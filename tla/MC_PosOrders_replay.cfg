SPECIFICATION Spec
CONSTANTS
    p1 = p1
    p2 = p2
    Idle = Idle
    Orders = {o1}
    Products = {p1, p2}
    Threads = {t1, t2}
    Shelf <- OneEach
    Fresh <- OneFresh
    InitStock <- OneOnHand
SYMMETRY ThreadSymmetry
CHECK_DEADLOCK FALSE
INVARIANTS
    FiredOrdersAreSales
