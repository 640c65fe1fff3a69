------------------------------- MODULE MC_Office -------------------------------
(* What runs on its own or is sent again: keys of repeated requests, the        *)
(* nightly rebuild of sales, billing cycles, and the income pages over the      *)
(* invoices.  An instance of Idempotency, Demand, Billing and Income, which     *)
(* share no variable: a behaviour exercises the one component its focus names   *)
(* and leaves the others at rest.  Fairness is that of each component's         *)
(* specification, asked only of behaviours that exercise it.                    *)
EXTENDS Idempotency, Demand, Billing, Income, TLC

VARIABLE focus

\* Two requests that send one key with one body, and two that send another key
\* with different bodies.
KeyPairs == "c1" :> "k1" @@ "c2" :> "k1" @@ "c3" :> "k2" @@ "c4" :> "k2"
BodyPairs == "c1" :> "a" @@ "c2" :> "a" @@ "c3" :> "a" @@ "c4" :> "b"

\* Two branches of which the nightly job goes through a broken one first; at the
\* other a sale at one in the morning, a refusal at three, when the next business
\* day begins, and a day later a combo header and a dish the staff pulled.  At the
\* clock's second hour the window has moved on by a day: it overlaps the first one
\* in part.
TwoSales ==
  "a" :> [shop |-> "b2", hour |-> 20, product |-> "bun", units |-> 2]
  @@ "c" :> [shop |-> "b2", hour |-> 50, product |-> "none", units |-> 1]
TwoRefusals ==
  "r" :> [shop |-> "b2", hour |-> 22, product |-> "tea", units |-> 1, reason |-> "OUT_OF_STOCK"]
  @@ "q" :> [shop |-> "b2", hour |-> 50, product |-> "bun", units |-> 1, reason |-> "STAFF_PULLED"]

\* Half a year from January; two of its days are looked at.
HalfYear == <<31, 28, 31, 30, 31, 30, 31>>
LastOfJanuary == {<<1, 31>>}
TwoDates == {<<1, 31>>, <<4, 29>>}

\* Four days over two month ends; one firm pays three, the other five.
FourDays == [d \in 1..4 |-> IF d <= 2 THEN 1 ELSE d - 1]
TierOfEach == [f \in Firms |-> IF f = "r3" THEN "gold" ELSE "plain"]
FeeOfEach == [f \in Firms |-> IF f = "r1" THEN 3 ELSE 5]
ShortPeriods == {<<2, 3>>, <<3, 4>>}

\* A sign-up payment on a later day adds an invoice (see Billing); at most three
\* things happen to the income a report is made of, none between its queries.
\* A combo header is not a sale, whether undone or not: it is only sent.
OfficeBounds ==
  /\ extra = {}
  /\ ~drifted
  /\ \A line \in Sales : SaleOf[line].product = "none" => sales[line] \in {"NONE", "SENT"}
  /\ Cardinality({i \in DOMAIN owed : owed[i] # "none"})
       + Cardinality({f \in Firms : joined[f] # -1}) <= 3

OfficeInit ==
  /\ focus \in {"keys", "demand", "billing", "income"}
  /\ IdemInit
  /\ DemandInit
  /\ BillingInit
  /\ IncomeInit

OfficeNext ==
  /\ UNCHANGED focus
  /\ \/ focus = "keys" /\ IdemNext
          /\ UNCHANGED <<demandVars, billingVars, incomeVars>>
     \/ focus = "demand" /\ DemandNext
          /\ UNCHANGED <<idemVars, billingVars, incomeVars>>
     \/ focus = "billing" /\ BillingNext
          /\ UNCHANGED <<idemVars, demandVars, incomeVars>>
     \/ focus = "income" /\ IncomeNext
          /\ UNCHANGED <<idemVars, demandVars, billingVars>>

OfficeVars == <<focus, idemVars, demandVars, billingVars, incomeVars>>

OfficeFairness ==
  /\ \A c \in Callers : WF_idemVars(focus = "keys" /\ Progress(c))
  /\ WF_demandVars(focus = "demand" /\ (StartNight \/ NightRead \/ NightFails \/ Rebuilding("night")))
  /\ WF_demandVars(focus = "demand" /\ Rebuilding("button"))
  /\ WF_job(focus = "billing" /\ (StartCycle \/ CycleStep))

OfficeSpec == OfficeInit /\ [][OfficeNext]_OfficeVars /\ OfficeFairness

================================================================================
