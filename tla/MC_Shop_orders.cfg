SPECIFICATION ShopSpec
CONSTANTS
    NoBatch = NoBatch
    Free = Free
    Unused = Unused
    Idle = Idle
    Threads = {t1, t2}
    Batches = {NoBatch}
    LastDay = 2
    Today = 2
    RowCount = 3
    Products = {1, 2, 3}
    InitKey <- PairKeys
    InitQty <- PairQty
    Docs <- BothWays
    Ops = {"sale", "count"}
    MaxQuantity = 1
    MaxOnHand = 2
    Tills = {s1, s2}
    Tenders = {x1, x2}
    Goods = 2
    Extras = {0, 1}
    TaxBp = 5000
    Discounts = {0, 1}
    MaxTender = 2
    Drawers = {d1, d2}
    Cashiers = {c1, m1}
    Managers = {m1}
    ShiftIds = {1, 2}
    Floats = {1}
    CashKinds = {"SALE", "REFUND"}
    CashAmounts = {2}
    Counts = {0, 1, 3}
    Threshold = 1
    MaxRows = 1
    TerminalIds = {n1, n2}
    Uids = {u1, u2}
    Desks = {e1, e2}
    MaxCodes = 2
    Dishes = {"burger", "deal"}
    PartsOf <- DealOfOne
    Admins = {a1, a2}
    Ideas = {i1}
    MaxMenus = 3
    MinorAmounts <- SmallSums
    Coins = {1, 2, 5}
    Weights <- UpToThree
    Packs <- TaxPacks
    Places <- TaxPlaces
    Dates = {1, 3, 4, 9}
    Carts <- SmallCarts
    People = {"ann", "bob", "kim", "sid"}
    RoleOf <- Appointments
    Homes = {"north", "south"}
    BranchLimit = 1
    TillAt <- NorthTill
    Tokens = {k1, k2, k3}
    Attempts = {a1, a2}
    Window = 4
    Week = 2
    TrustDays = 3
    HalfTrust = 2
    LowVolume = 5
    Grain = 10
    SoldChoices <- Histories
    RefusedChoices <- TurnedAway
    BlockedChoices <- EventDates
    Assumptions <- Guesses
    EventChoices <- EventsOfToday
SYMMETRY ThreadSymmetry
CONSTRAINT ShopBounds
CHECK_DEADLOCK FALSE
INVARIANTS
    NoWaitCycle
    MoneyStaysWithinTheBill
    BillAgreesWithPayments
    DrawersReconcile
    PairingIsExclusive
    MenuStands
    PricesAreRight
    ForecastIsSound
PROPERTIES
    AccessHolds
