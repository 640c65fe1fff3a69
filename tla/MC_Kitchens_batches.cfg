SPECIFICATION KitchensSpec
CONSTANTS
    r1 = r1
    r2 = r2
    l1 = l1
    l2 = l2
    p1 = p1
    b1 = b1
    b2 = b2
    t1 = t1
    t2 = t2
    Products = {p1}
    NoBatch = NoBatch
    Batches = {NoBatch}
    Idle = Idle
    Absent = Absent
    Null = Null
    MaxQuantity = 2
    Doc <- CompeteDoc
    InitStock <- CompeteStock
    Requests = {r1, r2}
    Lines = {l1}
    Threads = {t1, t2}
    Branches = {b1, b2}
    LastDay = 2
    MaxSlices = 2
    TargetLines = {"l1", "l2"}
    Outlets = {o1, o2}
    BatchOf <- TwoOfEach
    SplitSizes = {2}
    Hands = {h1, h2}
    Larder = 4
    MaxTargetEdits = 1
    MaxSplits = 2
    Parts = {"flour", "egg"}
    Formulas = {"f1", "f2"}
    FormulaOf <- TwoFormulas
    Cooks = {k1, k2}
    BatchSizes = {1, 3, 4}
    Pantry = 2100
    MaxVersions = 3
    MaxRuns = 2
    Tickets = {"t1", "t2"}
    Bills = {"b1"}
    BillOf <- OneBill
    Chefs = {k1, k2}
    Raw = 2
    Ready = 2
    MaxSwitches = 1
    Stations = {g1, g2}
    Items = {"i1", "i2"}
    CategoryOf <- GrillAndOther
    MaxEdits = 1
    MaxAttempts = 1
    Plans = {"p1", "p2"}
    PlanBranch <- BranchEach
    PlanDays = {d1}
    Suggestions = {0, 2}
    Planners = {k1, k2}
SYMMETRY Symmetry
CONSTRAINT KitchensBounds
CHECK_DEADLOCK FALSE
INVARIANTS
    SplitWithinReady
    Conservation
    RolledUpMeansAllReceived
    TargetsBalance
    ProductionIsAccounted
    
    KitchenHearsOnce
PROPERTIES
    PlansStand
