SPECIFICATION OfficeSpec
CONSTANTS
    Callers = {"c1", "c2", "c3", "c4"}
    Keys = {"k1", "k2"}
    KeyOf <- KeyPairs
    BodyOf <- BodyPairs
    Split = {"k1"}
    MaxFaults = 1
    Shops = {"b1", "b2"}
    Broken = {"b1"}
    Sales = {"a", "c"}
    SaleOf <- TwoSales
    Refusals = {"r", "q"}
    RefusalOf <- TwoRefusals
    Clock = {22, 50}
    Offset = 5
    Cutoff = 3
    DaysBack = 1
    MaxPresses = 1
    Tenants = {"r1", "r2"}
    Clerks = {"k1"}
    MonthDays <- HalfYear
    SignupDays <- LastOfJanuary
    BillingDays <- TwoDates
    PayableMonths = {2}
    Firms = {"r1", "r3"}
    TierOf <- TierOfEach
    FeeOf <- FeeOfEach
    MonthOf <- FourDays
    Periods <- ShortPeriods
    Lookback = 2
CONSTRAINT OfficeBounds
CHECK_DEADLOCK FALSE
INVARIANTS
    UnchangedDaysAreRight
    
    
PROPERTIES
    PromisesOnceOnly
    JointKeysAreAnswered
    RecentDaysComeRight
    
