----------------------------- MODULE MC_HeadOffice -----------------------------
(* The head office: requests that compete for stock, and the calendar of        *)
(* events.  An instance of RequestWorkflow and EventCalendar, which share no    *)
(* variable: a behaviour exercises the one component its focus names and leaves *)
(* the other at rest.                                                           *)
EXTENDS RequestWorkflow, EventCalendar, TLC

VARIABLE focus

CONSTANTS r1, r2, l1, l2, p1, k1, w1, b1, t1, t2

ThreadSymmetry == Permutations(Threads)

\* Two branch requests, one of them for resale goods, that compete for a unit
\* which expires on the first day and for one that does not expire; the
\* warehouse has a unit for the tenant without a kitchen.
CompeteDoc ==
  [r \in Requests |->
     [type |-> "BRANCH_TO_ADMIN", source |-> b1, resaleOnly |-> r = r2,
      product |-> [l \in Lines |-> p1], requested |-> [l \in Lines |-> 1]]]
CompeteStock ==
  [place \in Locations |-> [p \in Products |->
     CASE place = k1 -> [lot \in Lots |-> IF lot.expiry = 2 THEN 0 ELSE 1]
       [] place = w1 -> PutIn(EmptyBin, UnbatchedLot, 1)
       [] OTHER -> EmptyBin]]
NoReroutes == {}

\* Two almanacs: a year with two Ramadans, and one computed a day later in
\* which a fixed holiday is listed too.
Window_(key, source, from, until, mult) ==
  [key |-> key, source |-> source, from |-> from, until |-> until, mult |-> mult]
TwoAlmanacs ==
  {<<Window_("ramadan", "LUNAR", 1, 2, 3), Window_("ramadan", "LUNAR", 4, 5, 3)>>,
   <<Window_("ramadan", "LUNAR", 2, 3, 3), Window_("quaid", "FIXED", 5, 5, 3)>>}

\* Calls that differ in what they exercise: the admin's own event by itself,
\* numbers for it, generated events otherwise; no event written over a change.
FewEvents ==
  /\ mixed = {}
  /\ There("final") => {e \in Ids : There(e)} \subseteq {"final"}
  /\ \A r \in Editors : LET c == calendarCalls[r] IN
       /\ c.op = "numbers" => c.event = "final"
       /\ c.op = "generate" => ~There("final")
       /\ c.op = "update" => \/ ~There("final") /\ c.event # "quaid"
                             \/ There("final") /\ Numbered("final") = {}

HeadOfficeInit ==
  /\ focus \in {"requests", "calendar"}
  /\ Init /\ (focus # "requests" => hasKitchen)
  /\ CalendarInit

HeadOfficeNext ==
  /\ UNCHANGED focus
  /\ \/ focus = "requests" /\ Next
          /\ UNCHANGED <<calendarVars>>
     \/ focus = "calendar" /\ CalendarNext
          /\ UNCHANGED <<vars>>

HeadOfficeVars == <<focus, vars, calendarVars>>

HeadOfficeSpec == HeadOfficeInit /\ [][HeadOfficeNext]_HeadOfficeVars

================================================================================
