------------------------------- MODULE Demand ------------------------------
(***************************************************************************)
(* The rollup of sales and refused sales into daily_product_sales          *)
(* (services/demand.py, refusals.py, business_day.py, the nightly job and  *)
(* the manager's "day closed" button).  A rebuild reads the orders and the *)
(* refusals of a window of business days, deletes the window's rows and    *)
(* inserts what it read; orders arrive late from offline tills, and may be *)
(* voided or refunded afterwards.                                          *)
(***************************************************************************)
EXTENDS Integers, FiniteSets, SequencesExt, FiniteSetsExt, Sums

CONSTANTS
    Shops,          \* branches the nightly job goes through
    Broken,         \* branches whose rebuild raises
    Sales,          \* order lines
    SaleOf,         \* line -> [shop, hour, product, units]; "none" for a combo header
    Refusals,       \* refused sales queued by tills
    RefusalOf,      \* refusal -> [shop, hour, product, units, reason]
    Clock,          \* the hours, in UTC, at which the system is looked at
    Offset, Cutoff, \* the branches' time zone and business-day cutoff, in hours
    DaysBack,       \* days rebuilt besides today
    MaxPresses      \* bound: times the button is pressed

ASSUME DemandAssumption ==
    /\ Broken \subseteq Shops
    /\ Clock \subseteq Nat /\ Clock # {}
    /\ Offset \in Int /\ Cutoff \in 0..23 /\ DaysBack \in Nat /\ MaxPresses \in Nat
    /\ IsFiniteSet(Sales) /\ \A s \in Sales : SaleOf[s].hour \in Nat /\ SaleOf[s].units \in Nat
    /\ IsFiniteSet(Refusals)
    /\ \A r \in Refusals :
          /\ RefusalOf[r].hour \in Nat /\ RefusalOf[r].units \in Nat
          /\ RefusalOf[r].reason \in {"OUT_OF_STOCK", "SHORT_STOCK", "STAFF_PULLED"}

VARIABLES
    hour,           \* the present hour
    sales,          \* line -> "NONE", "SENT", "VOIDED" or "REFUNDED"
    refused,        \* refusals on record, by local id
    dailySales,     \* rows: [shop, day, product, units, unmet]
    night,          \* branches the running nightly job has yet to do
    rebuilds,       \* "night", "button" -> the rebuild it is in the middle of
    presses,        \* how often the button was pressed
    upToDate,       \* pairs <<shop, day>> unchanged since the rebuild on record read them
    rebuildsMet     \* pairs <<shop, day>> that two rebuilds were at at once

demandVars == <<hour, sales, refused, dailySales, night, rebuilds, presses, upToDate, rebuildsMet>>

Idle == [op |-> "none"]

-----------------------------------------------------------------------------
\* MUTANT of BusinessDay: the calendar date in the branch's time zone.
CalendarDay(h) == (h + Offset) \div 24
\* The local date, the cutoff hours earlier.
BusinessDay(h) == (h + Offset - Cutoff) \div 24

Window(h) == (BusinessDay(h) - DaysBack)..BusinessDay(h)

\* MUTANT of RealSale: a voided line still counts.
SoldOnce(s) == sales[s] \in {"SENT", "VOIDED"} /\ SaleOf[s].product # "none"
\* SENT, active, a product behind it, and no refund against the order.
RealSale(s) == sales[s] = "SENT" /\ SaleOf[s].product # "none"

DemandReasons == {"OUT_OF_STOCK", "SHORT_STOCK"}

SaleUnits == [s \in Sales |-> SaleOf[s].units]
RefusalUnits == [r \in Refusals |-> RefusalOf[r].units]

UnitsOf(shop, day, product) ==
    SumOver(SaleUnits,
        {s \in Sales : RealSale(s) /\ SaleOf[s].shop = shop
                       /\ SaleOf[s].product = product /\ BusinessDay(SaleOf[s].hour) = day})
UnmetOf(shop, day, product) ==
    SumOver(RefusalUnits,
        {r \in refused : RefusalOf[r].reason \in DemandReasons /\ RefusalOf[r].shop = shop
                         /\ RefusalOf[r].product = product /\ BusinessDay(RefusalOf[r].hour) = day})

Products == {SaleOf[s].product : s \in Sales} \cup {RefusalOf[r].product : r \in Refusals}

\* Rows with sales, and days that sold nothing but turned demand away.
RowsToWrite(shop, days) ==
    {row \in {[shop |-> shop, day |-> d, product |-> p,
               units |-> UnitsOf(shop, d, p), unmet |-> UnmetOf(shop, d, p)] :
              d \in days, p \in Products \ {"none"}} : row.units + row.unmet > 0}

-----------------------------------------------------------------------------
Pair(x) == <<x.shop, BusinessDay(x.hour)>>
Changes(x) == upToDate' = upToDate \ {Pair(x)}

\* A line is settled at the till, or replayed by an offline one hours later.
SyncSale(s) ==
    /\ sales[s] = "NONE" /\ SaleOf[s].hour <= hour
    /\ sales' = [sales EXCEPT ![s] = "SENT"]
    /\ Changes(SaleOf[s])
    /\ UNCHANGED <<hour, refused, dailySales, night, rebuilds, presses, rebuildsMet>>

TakeBack(s, how) ==
    /\ sales[s] = "SENT"
    /\ sales' = [sales EXCEPT ![s] = how]
    /\ Changes(SaleOf[s])
    /\ UNCHANGED <<hour, refused, dailySales, night, rebuilds, presses, rebuildsMet>>

\* A queued refusal already seen under its local id is skipped.
SyncRefusal(r) ==
    /\ r \notin refused /\ RefusalOf[r].hour <= hour
    /\ refused' = refused \cup {r}
    /\ Changes(RefusalOf[r])
    /\ UNCHANGED <<hour, sales, dailySales, night, rebuilds, presses, rebuildsMet>>

Tick ==
    /\ \E h \in Clock : h > hour /\ (\A g \in Clock : g > hour => h <= g) /\ hour' = h
    /\ UNCHANGED <<sales, refused, dailySales, night, rebuilds, presses, upToDate, rebuildsMet>>

-----------------------------------------------------------------------------
\* The totals of the window, as read.
Read(who, shop) ==
    /\ rebuilds[who] = Idle
    /\ rebuilds' = [rebuilds EXCEPT ![who] =
         [op |-> "read", shop |-> shop, days |-> Window(hour),
          rows |-> RowsToWrite(shop, Window(hour))]]
    /\ rebuildsMet' = rebuildsMet \cup
         {<<shop, d>> : d \in {e \in Window(hour) :
            \E w \in DOMAIN rebuilds :
               rebuilds[w] # Idle /\ rebuilds[w].shop = shop /\ e \in rebuilds[w].days}}
    /\ upToDate' = upToDate \cup {<<shop, d>> : d \in Window(hour)}

StartNight ==
    /\ night = << >>
    /\ rebuilds["night"] = Idle
    /\ night' = SetToSeq(Shops)
    /\ UNCHANGED <<hour, sales, refused, dailySales, rebuilds, presses, upToDate, rebuildsMet>>

NightRead ==
    /\ night # << >> /\ Head(night) \notin Broken
    /\ Read("night", Head(night))
    /\ UNCHANGED <<hour, sales, refused, dailySales, night, presses>>

\* MUTANT of AfterFailure: the job stops at the branch that failed.
Abandon == << >>
\* One branch failing does not abandon the rest.
AfterFailure == Tail(night)

NightFails ==
    /\ night # << >> /\ Head(night) \in Broken
    /\ night' = AfterFailure
    /\ UNCHANGED <<hour, sales, refused, dailySales, rebuilds, presses, upToDate, rebuildsMet>>

PressButton(shop) ==
    /\ presses < MaxPresses /\ shop \notin Broken
    /\ presses' = presses + 1
    /\ Read("button", shop)
    /\ UNCHANGED <<hour, sales, refused, dailySales, night>>

\* The rows the DELETE sees.
Delete(who) ==
    LET c == rebuilds[who] IN
    /\ c.op = "read"
    /\ rebuilds' = [rebuilds EXCEPT ![who] =
         [op |-> "deleted", shop |-> c.shop, days |-> c.days, rows |-> c.rows,
          gone |-> {row \in dailySales : row.shop = c.shop /\ row.day \in c.days}]]
    /\ UNCHANGED <<hour, sales, refused, dailySales, night, presses, upToDate, rebuildsMet>>

Key(row) == <<row.shop, row.day, row.product>>
Leaves(who) == night' = IF who = "night" THEN Tail(night) ELSE night

\* Insert and commit; rows another rebuild inserted meanwhile collide with the
\* unique grain and roll this one back, all its days: they are not on record.
Insert(who) ==
    LET c == rebuilds[who]
        kept == dailySales \ c.gone IN
    /\ c.op = "deleted"
    /\ IF \E row \in c.rows, old \in kept : Key(row) = Key(old)
       THEN dailySales' = dailySales /\ upToDate' = upToDate \ ({c.shop} \X c.days)
       ELSE dailySales' = kept \cup c.rows /\ upToDate' = upToDate
    /\ rebuilds' = [rebuilds EXCEPT ![who] = Idle]
    /\ Leaves(who)
    /\ UNCHANGED <<hour, sales, refused, presses, rebuildsMet>>

-----------------------------------------------------------------------------
DemandInit ==
    /\ hour \in {h \in Clock : \A g \in Clock : h <= g}
    /\ sales = [s \in Sales |-> "NONE"]
    /\ refused = {}
    /\ dailySales = {}
    /\ night = << >>
    /\ rebuilds = [w \in {"night", "button"} |-> Idle]
    /\ presses = 0
    /\ upToDate = {}
    /\ rebuildsMet = {}

Rebuilding(who) == Delete(who) \/ Insert(who)

DemandNext ==
    \/ \E s \in Sales : SyncSale(s) \/ \E how \in {"VOIDED", "REFUNDED"} : TakeBack(s, how)
    \/ \E r \in Refusals : SyncRefusal(r)
    \/ Tick
    \/ StartNight
    \/ NightRead
    \/ NightFails
    \/ \E shop \in Shops : PressButton(shop)
    \/ \E who \in {"night", "button"} : Rebuilding(who)

\* The scheduler runs the job again and again, and a request that was begun is
\* carried out; nothing makes tills sync or managers press.
DemandFairness ==
    /\ WF_demandVars(StartNight \/ NightRead \/ NightFails \/ Rebuilding("night"))
    /\ WF_demandVars(Rebuilding("button"))

DemandSpec == DemandInit /\ [][DemandNext]_demandVars /\ DemandFairness

-----------------------------------------------------------------------------
SoldOn(shop, day, product) == {s \in Sales :
    /\ SaleOf[s].shop = shop /\ SaleOf[s].product = product /\ sales[s] = "SENT"
    /\ SaleOf[s].hour + Offset \in (24 * day + Cutoff)..(24 * day + Cutoff + 23)}
TurnedAwayOn(shop, day, product) == {r \in refused :
    /\ RefusalOf[r].shop = shop /\ RefusalOf[r].product = product
    /\ RefusalOf[r].reason # "STAFF_PULLED"
    /\ RefusalOf[r].hour + Offset \in (24 * day + Cutoff)..(24 * day + Cutoff + 23)}

\* What a day's rows should say: sums over the business day's 24 hours.
DayIsRight(shop, day) == \A p \in Products \ {"none"} :
    LET rows == {row \in dailySales : Key(row) = <<shop, day, p>>}
        units == SumOver(SaleUnits, SoldOn(shop, day, p))
        unmet == SumOver(RefusalUnits, TurnedAwayOn(shop, day, p)) IN
    IF units + unmet = 0 THEN rows = {}
    ELSE rows = {[shop |-> shop, day |-> day, product |-> p, units |-> units, unmet |-> unmet]}

(***************************************************************************)
(* A day that has not changed since the last rebuild read it shows exactly *)
(* its real sales and its unmet demand: late orders are in, voided and     *)
(* refunded ones out, a combo is counted by its components only, and an    *)
(* hour after midnight belongs to the evening before.  Only while a        *)
(* rebuild is on its way, or after two of them overlapped, may it differ.  *)
(***************************************************************************)
UnchangedDaysAreRight ==
    \A pair \in upToDate \ rebuildsMet :
        (\A w \in DOMAIN rebuilds : rebuilds[w] = Idle \/ rebuilds[w].shop # pair[1])
            => DayIsRight(pair[1], pair[2])

(***************************************************************************)
(* Whatever tills sync, voids take out and managers press, once they come  *)
(* to rest the nightly job makes the days of its window right at every     *)
(* branch that can be rebuilt, even when another branch always fails and   *)
(* when a rebuild collided with the button's.                              *)
(***************************************************************************)
RecentDaysComeRight ==
    <>[](\A shop \in Shops \ Broken : \A d \in Window(hour) :
            d >= BusinessDay(Min(Clock)) - DaysBack => DayIsRight(shop, d))
=============================================================================
