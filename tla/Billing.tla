------------------------------- MODULE Billing -----------------------------
(***************************************************************************)
(* Subscription billing (services/billing.py, jobs/billing_cycle.py and the *)
(* super-admin routes): signing up issues today's invoice and the next     *)
(* month's, paying an invoice opens the month after it, and the billing job *)
(* issues every invoice that is due, catching up on the months it missed.  *)
(* The job holds the rows it selected until its first commit, and commits  *)
(* only after a restaurant for which it issued something.                  *)
(***************************************************************************)
EXTENDS Integers, FiniteSets, SequencesExt

CONSTANTS
    Tenants,        \* restaurants with a plan
    Clerks,         \* super-admin requests in progress
    MonthDays,      \* the months looked at: number -> days in it
    SignupDays,     \* dates of sign-up
    BillingDays,    \* dates on which the clock stops
    PayableMonths   \* bound: the months whose invoices are marked

ASSUME BillingAssumption == IsFiniteSet(Tenants) /\ MonthDays \in Seq(28..31)

Months == DOMAIN MonthDays
Dates == {d \in Months \X (1..31) : d[2] <= MonthDays[d[1]]}
OnOrBefore(d, e) == d[1] < e[1] \/ (d[1] = e[1] /\ d[2] <= e[2])
Never == <<0, 0>>

\* The months looked at go one beyond every date on which something is done.
ASSUME CalendarAssumption ==
    /\ SignupDays \subseteq Dates
    /\ BillingDays \subseteq {d \in Dates : d[1] + 1 \in Months}
    /\ \A m \in PayableMonths : m + 1 \in Months

VARIABLES
    today,          \* the present date
    tenants,        \* restaurant -> [status, next: next billing date]
    invoices,       \* restaurant -> (date -> paid)
    job,            \* the billing job: [queue, asOf, cache, dirty]
    clerkCalls,     \* request -> the handler it is in the middle of
    billedAt,       \* restaurant -> the date the last complete run billed it up to
    extra           \* restaurants with a payment recorded on a later day

billingVars == <<today, tenants, invoices, job, clerkCalls, billedAt, extra>>

\* MUTANT of AddMonth: thirty days later.
AddThirtyDays(d) == IF d[2] + 30 <= MonthDays[d[1]] THEN <<d[1], d[2] + 30>>
                    ELSE IF d[2] + 30 - MonthDays[d[1]] <= MonthDays[d[1] + 1]
                         THEN <<d[1] + 1, d[2] + 30 - MonthDays[d[1]]>>
                         ELSE <<d[1] + 2, d[2] + 30 - MonthDays[d[1]] - MonthDays[d[1] + 1]>>
\* The same day of the next month, or its last one.
AddMonth(d) == IF d[2] <= MonthDays[d[1] + 1] THEN <<d[1] + 1, d[2]>>
               ELSE <<d[1] + 1, MonthDays[d[1] + 1]>>

InvoiceOn(t, d) == d \in DOMAIN invoices[t]
\* Invoices issued unpaid on the dates that have none.
Issuing(bills, dates) ==
    [d \in DOMAIN bills \cup dates |-> IF d \in DOMAIN bills THEN bills[d] ELSE FALSE]
NoJob == [queue |-> << >>, asOf |-> Never, cache |-> << >>, dirty |-> << >>]
AtHome == [op |-> "none"]

-----------------------------------------------------------------------------
Signup(t, paid) ==
    /\ tenants[t].status = "NONE"
    /\ today \in SignupDays
    /\ tenants' = [tenants EXCEPT ![t] = [status |-> "ACTIVE", next |-> AddMonth(today)]]
    /\ invoices' = [invoices EXCEPT ![t] = [d \in {today, AddMonth(today)} |-> d = today /\ paid]]
    /\ UNCHANGED <<today, job, clerkCalls, billedAt, extra>>

SetStatus(t, status) ==
    /\ tenants[t].status \notin {"NONE", status}
    /\ tenants' = [tenants EXCEPT ![t].status = status]
    /\ UNCHANGED <<today, invoices, job, clerkCalls, billedAt, extra>>

NextDay ==
    /\ \E d \in BillingDays :
         /\ d # today /\ OnOrBefore(today, d)
         /\ \A e \in BillingDays : e # today /\ OnOrBefore(today, e) => OnOrBefore(d, e)
         /\ today' = d
    /\ UNCHANGED <<tenants, invoices, job, clerkCalls, billedAt, extra>>

-----------------------------------------------------------------------------
LoadMark(k, t, d, paid) ==
    /\ clerkCalls[k] = AtHome
    /\ clerkCalls' = [clerkCalls EXCEPT ![k] =
         [op |-> "mark", tenant |-> t, date |-> d, from |-> invoices[t][d], to |-> paid,
          next |-> tenants[t].next]]
    /\ UNCHANGED <<today, tenants, invoices, job, billedAt, extra>>

\* MUTANT of Opened: the month after is left to the job.
OpenedByTheJob(c) == {}
\* Marking an unpaid invoice paid opens the following month.
Opened(c) == IF c.to /\ ~c.from THEN {AddMonth(c.date)} ELSE {}

\* paid is written when it differs from what was read, the next billing date
\* when the one read lies before the month opened.
CommitMark(k) ==
    LET c == clerkCalls[k]
        marked == IF c.to = c.from THEN invoices
                  ELSE [invoices EXCEPT ![c.tenant][c.date] = c.to] IN
    /\ c.op = "mark"
    /\ invoices' = [marked EXCEPT ![c.tenant] = Issuing(@, Opened(c))]
    /\ tenants' = [tenants EXCEPT ![c.tenant].next =
         IF c.to /\ ~c.from /\ ~OnOrBefore(AddMonth(c.date), c.next) THEN AddMonth(c.date) ELSE @]
    /\ clerkCalls' = [clerkCalls EXCEPT ![k] = AtHome]
    /\ UNCHANGED <<today, job, billedAt, extra>>

\* The sign-up payment: today's invoice paid, or issued as paid when there is
\* none, which on a later day is one more than the cycle's.
RecordPayment(t) ==
    /\ tenants[t].status # "NONE"
    /\ IF InvoiceOn(t, today) /\ invoices[t][today]
       THEN UNCHANGED <<tenants, invoices, extra>>
       ELSE IF InvoiceOn(t, today)
       THEN /\ invoices' = [invoices EXCEPT ![t] =
                 [Issuing(@, {AddMonth(today)}) EXCEPT ![today] = TRUE]]
            /\ tenants' = [tenants EXCEPT ![t].next =
                 IF OnOrBefore(AddMonth(today), @) THEN @ ELSE AddMonth(today)]
            /\ UNCHANGED extra
       ELSE /\ invoices' = [invoices EXCEPT ![t] =
                 [Issuing(@, {today, tenants[t].next}) EXCEPT ![today] = TRUE]]
            /\ extra' = extra \cup {t}
            /\ UNCHANGED tenants
    /\ UNCHANGED <<today, job, clerkCalls, billedAt>>

GoHome(k) ==
    /\ clerkCalls[k] # AtHome
    /\ clerkCalls' = [clerkCalls EXCEPT ![k] = AtHome]
    /\ UNCHANGED <<today, tenants, invoices, job, billedAt, extra>>

-----------------------------------------------------------------------------
DueTenants == {t \in Tenants : tenants[t].status = "ACTIVE" /\ OnOrBefore(tenants[t].next, today)}

StartCycle ==
    /\ job.queue = << >>
    /\ DueTenants # {}
    /\ job' = [queue |-> SetToSeq(DueTenants), asOf |-> today,
               cache |-> [t \in Tenants |-> tenants[t].next], dirty |-> << >>]
    /\ UNCHANGED <<today, tenants, invoices, clerkCalls, billedAt, extra>>

\* The cycle that falls in month m: adding months one by one never brings back
\* a day that a short month cut off.
Cycle(d, m) == <<m, Min({d[2]} \cup {MonthDays[k] : k \in d[1]..m})>>
\* MUTANT of DueFrom: one cycle a run.
OneDueFrom(d, asOf) == {d[1]}
\* The months of every cycle from the next billing date on.
DueFrom(d, asOf) == {m \in d[1]..asOf[1] : OnOrBefore(Cycle(d, m), asOf)}
Latest(dates) == CHOOSE d \in dates : \A e \in dates : OnOrBefore(e, d)
LastDay == Latest(BillingDays)

Going(j) == IF j.queue = << >> THEN NoJob ELSE j

\* What is missing is issued; a restaurant's new date waits, uncommitted, for the
\* next commit of the run.
Bill(t, missing, dated) ==
    /\ billedAt' = [billedAt EXCEPT ![t] = job.asOf]
    /\ IF missing = {}
       THEN /\ job' = Going([job EXCEPT !.queue = Tail(@), !.dirty = dated])
            /\ UNCHANGED <<tenants, invoices>>
       ELSE /\ invoices' = [invoices EXCEPT ![t] = Issuing(@, missing)]
            /\ tenants' = [u \in Tenants |-> IF u \in DOMAIN dated
                                             THEN [tenants[u] EXCEPT !.next = dated[u]]
                                             ELSE tenants[u]]
            /\ job' = Going([job EXCEPT !.queue = Tail(@), !.cache = << >>, !.dirty = << >>])
    /\ UNCHANGED <<today, clerkCalls, extra>>

\* The rows selected at the start serve until the first commit expires them.
CycleStep ==
    \E t \in Range(job.queue) :
    \E from \in {IF job.cache = << >> THEN tenants[t].next ELSE job.cache[t]} :
    \E due \in {DueFrom(from, job.asOf)} :
    \E missing \in {{Cycle(from, m) : m \in due} \ DOMAIN invoices[t]} :
    \E dated \in {IF due = {} THEN job.dirty
                  ELSE [u \in DOMAIN job.dirty \cup {t} |->
                          IF u = t THEN Cycle(from, Max(due) + 1) ELSE job.dirty[u]]} :
        t = Head(job.queue) /\ Bill(t, missing, dated)

\* The job dies, or a colliding invoice rolls the rest of it back.
CycleFails ==
    /\ job.queue # << >>
    /\ today # LastDay
    /\ job' = NoJob
    /\ UNCHANGED <<today, tenants, invoices, clerkCalls, billedAt, extra>>

-----------------------------------------------------------------------------
BillingInit ==
    /\ today \in {d \in BillingDays : \A e \in BillingDays : OnOrBefore(d, e)}
    /\ tenants = [t \in Tenants |-> [status |-> "NONE", next |-> Never]]
    /\ invoices = [t \in Tenants |-> << >>]
    /\ job = NoJob
    /\ clerkCalls = [k \in Clerks |-> AtHome]
    /\ billedAt = [t \in Tenants |-> Never]
    /\ extra = {}

BillingNext ==
    \/ NextDay
    \/ StartCycle
    \/ CycleStep
    \/ CycleFails
    \/ \E t \in Tenants :
         \/ \E paid \in BOOLEAN : Signup(t, paid)
         \/ \E status \in {"ACTIVE", "HALTED"} : SetStatus(t, status)
         \/ RecordPayment(t)
    \/ \E k \in Clerks :
         \/ \E t \in Tenants, paid \in BOOLEAN : \E d \in DOMAIN invoices[t] :
              d[1] \in PayableMonths /\ LoadMark(k, t, d, paid)
         \/ CommitMark(k)
         \/ GoHome(k)

\* The scheduler runs the job, and the job goes on; nothing else is assured.
BillingFairness == WF_job(StartCycle \/ CycleStep)

BillingSpec == BillingInit /\ [][BillingNext]_billingVars /\ BillingFairness

-----------------------------------------------------------------------------
(***************************************************************************)
(* A subscription is invoiced exactly once in every calendar month from its *)
(* first invoice to its last, short months included, whoever issues them:  *)
(* sign-up, a payment that opens the next month, or the job, at once or    *)
(* months late.  (A sign-up payment recorded on a later day adds another.) *)
(***************************************************************************)
OneInvoiceAMonth ==
    \A t \in Tenants \ extra : \A d, e \in DOMAIN invoices[t] :
        /\ d[1] = e[1] => d = e
        /\ \A m \in d[1]..e[1] : \E f \in DOMAIN invoices[t] : f[1] = m

(***************************************************************************)
(* A paid invoice has the following month's on record: marking it paid and *)
(* opening the next one are one transaction.                               *)
(***************************************************************************)
PaidOpensTheNext ==
    \A t \in Tenants \ extra : \A d \in DOMAIN invoices[t] :
        invoices[t][d] => InvoiceOn(t, AddMonth(d))

\* The month after one that was invoiced has come without an invoice.
Behind(t) == /\ tenants[t].status = "ACTIVE"
             /\ \E d \in DOMAIN invoices[t] :
                    OnOrBefore(AddMonth(d), today) /\ ~InvoiceOn(t, AddMonth(d))

(***************************************************************************)
(* An active restaurant that is behind catches up, however many months the *)
(* job missed, once the clock rests on the last date and runs stop failing. *)
(***************************************************************************)
MissedMonthsAreBilled ==
    \A t \in Tenants : (today = LastDay /\ Behind(t)) ~> ~Behind(t)

(***************************************************************************)
(* Every month is billed once, in the order of the months.                 *)
(***************************************************************************)
BilledMonthByMonth == OneInvoiceAMonth /\ PaidOpensTheNext

(***************************************************************************)
(* services/billing.py says a cycle that is due "always advances           *)
(* next_billing_date": once a run has billed a restaurant up to a date, its *)
(* next billing date lies after it.  The first due cycle after sign-up, and *)
(* any whose invoice a payment opened, issues nothing, and a run that      *)
(* issues nothing is never committed.                                      *)
(***************************************************************************)
DueDatesAdvance ==
    \A t \in Tenants : job.queue = << >> /\ billedAt[t] # Never
        => ~OnOrBefore(tenants[t].next, billedAt[t])
=============================================================================
