------------------------------- MODULE Income ------------------------------
(***************************************************************************)
(* The platform owner's income report and forecast (services/income.py):   *)
(* what the restaurants paid and owe in a period, beside the period before, *)
(* by day, month, restaurant and plan, and what the next months should     *)
(* bring.  The figures come from queries made one after the other, each of *)
(* which sees what has been committed by then, while invoices are issued   *)
(* and paid and restaurants join: drifted says that this happened during   *)
(* the report.  Amounts are whole units; the days are numbered.            *)
(***************************************************************************)
EXTENDS Integers, FiniteSets, Sums

CONSTANTS
    Firms,          \* restaurants
    TierOf,         \* restaurant -> its plan tier
    FeeOf,          \* restaurant -> its plan amount, or 0 for none
    MonthOf,        \* day -> its month, both numbered without gaps
    Periods,        \* <<from, to>> a report may be asked for
    Lookback        \* months the forecast looks back, the current one included

Days == DOMAIN MonthOf

ASSUME IncomeAssumption ==
    /\ MonthOf \in [Days -> Nat] /\ Days \subseteq Nat /\ Lookback \in Nat \ {0}
    /\ FeeOf \in [Firms -> Nat] /\ DOMAIN TierOf = Firms
    /\ \A d, e \in Days : d <= e => MonthOf[d] <= MonthOf[e]
    /\ IsFiniteSet(Firms) /\ IsFiniteSet(Days)
    /\ Periods \subseteq Int \X Int /\ \A p \in Periods : p[1] <= p[2]

VARIABLES
    owed,           \* <<restaurant, day>> -> "none", "unpaid" or "paid"
    joined,         \* restaurant -> the day it was created, or -1
    report,         \* the figures collected so far
    drifted         \* something was written since the report began

incomeVars == <<owed, joined, report, drifted>>

NoReport == [stage |-> "none"]
Firm(i) == i[1]
Day(i) == i[2]
Fees == [i \in Firms \X Days |-> FeeOf[Firm(i)]]
Amounts(S) == SumOver(Fees, S)
Issued(from, to, how) == {i \in DOMAIN owed : owed[i] = how /\ from <= Day(i) /\ Day(i) <= to}
Onboarded(from, to) == {f \in Firms : joined[f] # -1 /\ from <= joined[f] /\ joined[f] <= to}

-----------------------------------------------------------------------------
Write == drifted' = (report.stage # "none")

Join(f, d) ==
    /\ joined[f] = -1
    /\ joined' = [joined EXCEPT ![f] = d]
    /\ Write /\ UNCHANGED <<owed, report>>

\* Issued, paid, or marked unpaid again.
SetInvoice(i, how) ==
    /\ joined[Firm(i)] # -1 /\ owed[i] # how
    /\ owed' = [owed EXCEPT ![i] = how]
    /\ Write /\ UNCHANGED <<joined, report>>

-----------------------------------------------------------------------------
\* MUTANT of PreviousPeriod: the day the period starts is in both.
PreviousPeriodTouching(from, to) == <<from - (to - from), from>>
\* As many days, ending the day before.
PreviousPeriod(from, to) == <<from - (to - from + 1), from - 1>>

BeginReport(p) ==
    /\ report = NoReport
    /\ report' = [stage |-> "unpaid", from |-> p[1], to |-> p[2],
                  collected |-> Amounts(Issued(p[1], p[2], "paid"))]
    /\ drifted' = FALSE
    /\ UNCHANGED <<owed, joined>>

AskUnpaid ==
    /\ report.stage = "unpaid"
    /\ report' = [x \in DOMAIN report \cup {"outstanding"} |->
                    CASE x = "stage" -> "onboarded"
                      [] x = "outstanding" -> Amounts(Issued(report.from, report.to, "unpaid"))
                      [] OTHER -> report[x]]
    /\ UNCHANGED <<owed, joined, drifted>>

AskOnboarded ==
    LET prev == PreviousPeriod(report.from, report.to) IN
    /\ report.stage = "onboarded"
    /\ report' = [x \in DOMAIN report \cup {"joined", "before"} |->
                    CASE x = "stage" -> "details"
                      [] x = "joined" -> Cardinality(Onboarded(report.from, report.to))
                      [] x = "before" -> Amounts(Issued(prev[1], prev[2], "paid"))
                      [] OTHER -> report[x]]
    /\ UNCHANGED <<owed, joined, drifted>>

\* MUTANT of ShownDays: the last day of the period is left off the chart.
ShownDaysShort(from, to) == {d \in Days : from <= d /\ d < to}
ShownDays(from, to) == {d \in Days : from <= d /\ d <= to}

\* MUTANT of ShownMonths: only whole months of the period are listed.
ShownMonthsWhole(from, to) ==
    {m \in {MonthOf[d] : d \in Days} : \A d \in Days : MonthOf[d] = m => from <= d /\ d <= to}
\* The months the days of the period fall in.
ShownMonths(from, to) == {MonthOf[d] : d \in ShownDays(from, to)}

\* The invoices of the period, read once more, are spread over the charts.
Rows(how) == Issued(report.from, report.to, how)
ByDay(how) == [d \in ShownDays(report.from, report.to) |->
                 Amounts({i \in Rows(how) : Day(i) = d})]
ByMonth(how) == [m \in ShownMonths(report.from, report.to) |->
                   Amounts({i \in Rows(how) : MonthOf[Day(i)] = m})]
ByFirm(how) == [f \in Firms |-> Amounts({i \in Rows(how) : Firm(i) = f})]
ByTier(how) == [t \in {TierOf[f] : f \in Firms} |->
                  Amounts({i \in Rows(how) : TierOf[Firm(i)] = t})]

Total(chart) == SumOver(chart, DOMAIN chart)
\* What each chart comes to.
Charted(how) == {Total(ByDay(how)), Total(ByMonth(how)), Total(ByFirm(how)), Total(ByTier(how))}

AskDetails ==
    /\ report.stage = "details"
    /\ report' = [x \in DOMAIN report \cup {"charts", "debts", "newcomers"} |->
                    CASE x = "stage" -> "aging"
                      [] x = "charts" -> Charted("paid")
                      [] x = "debts" -> Charted("unpaid")
                      [] x = "newcomers" -> {f \in Onboarded(report.from, report.to) :
                                               joined[f] \in ShownDays(report.from, report.to)}
                      [] OTHER -> report[x]]
    /\ UNCHANGED <<owed, joined, drifted>>

\* Unpaid invoices of any date, by age: those not due yet are the youngest.
AskAging ==
    /\ report.stage = "aging"
    /\ report' = [x \in DOMAIN report \cup {"aging"} |->
                    CASE x = "stage" -> "done"
                      [] x = "aging" -> Amounts({i \in DOMAIN owed : owed[i] = "unpaid"})
                      [] OTHER -> report[x]]
    /\ UNCHANGED <<owed, joined, drifted>>

CloseReport ==
    /\ report.stage = "done"
    /\ report' = NoReport
    /\ UNCHANGED <<owed, joined, drifted>>

-----------------------------------------------------------------------------
\* MUTANT of MonthSpan: a past month ends where the current one would.
MonthSpanToToday(m, today) == {d \in Days : MonthOf[d] >= m /\ d <= today}
\* A past month whole, the current one up to today.
MonthSpan(m, today) == {d \in Days : MonthOf[d] = m /\ d <= today}

\* Restaurants that joined in each of the months looked back on; the average
\* over the months that had any is what each month to come should add.
MonthCounts(today) ==
    [m \in (MonthOf[today] - (Lookback - 1))..MonthOf[today] |->
       Cardinality({f \in Firms : joined[f] \in MonthSpan(m, today)})]
Newcomers(today) == SumOver(MonthCounts(today), DOMAIN MonthCounts(today))
BusyMonths(today) == {m \in DOMAIN MonthCounts(today) : MonthCounts(today)[m] > 0}

IncomeInit ==
    /\ owed = [i \in Firms \X Days |-> "none"]
    /\ joined = [f \in Firms |-> -1]
    /\ report = NoReport /\ drifted = FALSE

IncomeNext ==
    \/ \E f \in Firms, d \in Days : Join(f, d)
    \/ \E i \in Firms \X Days, how \in {"paid", "unpaid"} : SetInvoice(i, how)
    \/ \E p \in Periods : BeginReport(p)
    \/ AskUnpaid \/ AskOnboarded \/ AskDetails \/ AskAging \/ CloseReport

IncomeSpec == IncomeInit /\ [][IncomeNext]_incomeVars

-----------------------------------------------------------------------------
(***************************************************************************)
(* The report adds up: the total collected is the total of every chart,    *)
(* likewise what is outstanding, everybody who joined is on the chart, and *)
(* what is outstanding in the period is part of all that is unpaid.  It    *)
(* fails only if something was paid, issued or created between two of the  *)
(* queries.                                                                *)
(***************************************************************************)
ReportAddsUp ==
    report.stage = "done" /\ ~drifted =>
        /\ report.charts = {report.collected}
        /\ report.debts = {report.outstanding}
        /\ Cardinality(report.newcomers) = report.joined
        /\ report.outstanding <= report.aging

(***************************************************************************)
(* The period is compared with the days right before it: together the two  *)
(* take in every payment once.                                             *)
(***************************************************************************)
ComparesWithTheDaysBefore ==
    report.stage = "done" /\ ~drifted =>
        report.collected + report.before =
            Amounts(Issued(report.from - (report.to - report.from + 1), report.to, "paid"))

(***************************************************************************)
(* The forecast counts every restaurant that joined in the months it looks *)
(* back on once, whatever day it is asked, so the average it projects is of *)
(* real newcomers.                                                         *)
(***************************************************************************)
NewcomersCountedOnce ==
    \A today \in Days :
        /\ Newcomers(today) =
             Cardinality({f \in Firms : /\ joined[f] # -1 /\ joined[f] <= today
                                        /\ MonthOf[joined[f]] > MonthOf[today] - Lookback})
        /\ Cardinality(BusyMonths(today)) <= Newcomers(today)

(***************************************************************************)
(* The income pages agree with the invoices and with themselves.           *)
(***************************************************************************)
IncomeAddsUp == ReportAddsUp /\ ComparesWithTheDaysBefore /\ NewcomersCountedOnce
=============================================================================
