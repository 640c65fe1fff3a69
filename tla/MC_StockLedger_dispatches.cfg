SPECIFICATION Spec
CONSTANTS
    NoBatch = NoBatch
    Free = Free
    Unused = Unused
    Idle = Idle
    Threads = {t1, t2}
    Batches = {NoBatch}
    LastDay = 2
    Today = 2
    RowCount = 2
    Products = {1, 2}
    InitKey <- PairKeys
    InitQty <- PairQty
    Docs <- BothWays
    Ops = {"dispatch"}
    MaxQuantity = 1
    MaxOnHand = 2
SYMMETRY ThreadSymmetry
CHECK_DEADLOCK FALSE
INVARIANTS
    NoWaitCycle
