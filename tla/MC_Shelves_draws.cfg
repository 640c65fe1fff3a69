SPECIFICATION WatchedSpec
CONSTANTS
    NoBatch = NoBatch
    Free = Free
    Unused = Unused
    Idle = Idle
    Threads = {t1, t2}
    Batches = {NoBatch}
    LastDay = 2
    Today = 2
    RowCount = 2
    Products = {1}
    InitKey <- ShelfKeys
    InitQty <- ShelfQty
    Docs <- OneOrTwoLines
    Ops = {"dispatch", "waste", "receive", "adjust", "expiry"}
    MaxQuantity = 1
    MaxOnHand = 2
SYMMETRY ThreadSymmetry
INVARIANTS
    
    DrawsAreSound
    
PROPERTIES
    DrawsAreAtomic
