-------------------------------- MODULE Shifts ------------------------------
(***************************************************************************)
(* The cash drawer of a branch (services/shifts.py): a cashier opens a     *)
(* shift, cash goes in and out against it, and it is closed blind: the     *)
(* declared cash is compared with what the rows add up to.  A user may be  *)
(* signed in on several terminals, and nothing locks a shift between the   *)
(* read that finds it open and the commit that relies on it.               *)
(***************************************************************************)
EXTENDS Sums, Sequences

CONSTANTS
    Drawers,        \* sessions, each a user signed in on a terminal
    Cashiers,       \* users
    Managers,       \* those of them who hold VOID_AFTER_SEND
    ShiftIds,       \* bound: the shift rows there can be, numbered
    Floats,         \* opening floats
    CashKinds,      \* kinds of rows that bear on a drawer
    CashAmounts,    \* amounts of a row
    Counts,         \* what a cashier may declare to be in the drawer
    Threshold,      \* VARIANCE_APPROVAL_THRESHOLD_MINOR
    MaxRows         \* bound: cash rows

ASSUME ShiftsAssumption ==
    /\ ShiftIds \subseteq Nat /\ Counts \subseteq Nat /\ Floats \subseteq Nat /\ CashAmounts \subseteq Nat
    /\ Threshold \in Nat /\ MaxRows \in Nat

VARIABLES
    signedOn,        \* session -> its user, the same for the whole behaviour
    shifts,         \* id -> shift row, "ABSENT" until it is inserted
    cashRows,       \* payments, refunds and movements stamped with a shift
    drawerCalls,    \* session -> the handler it is in the middle of
    lateCash,       \* shifts whose closing overlapped a cash row
    openRace        \* users two of whose openings overlapped

shiftVars == <<signedOn, shifts, cashRows, drawerCalls, lateCash, openRace>>

NoShift == [status |-> "ABSENT"]
NewShift(u, float) ==
    [status |-> "OPEN", user |-> u, float |-> float,
     declared |-> 0, expected |-> 0, variance |-> 0, approved |-> FALSE]

\* MUTANT of OpenShiftsOf: the status is not part of the lookup.
AnyShiftOf(u) == {i \in ShiftIds : shifts[i].status # "ABSENT" /\ shifts[i].user = u}
OpenShiftsOf(u) == {i \in ShiftIds : shifts[i].status = "OPEN" /\ shifts[i].user = u}

\* MUTANT of Signed: money refunded is not taken off.
SignedIn(row) == row.amount
\* What a row does to the drawer; an opening without a sale moves nothing.
Signed(row) ==
    CASE row.kind \in {"SALE", "PAID_IN", "PICKUP"} -> row.amount
      [] row.kind \in {"REFUND", "PAID_OUT", "DROP"} -> -row.amount
      [] OTHER -> 0

ExpectedCash(i) ==
    shifts[i].float + SumOver([n \in DOMAIN cashRows |-> Signed(cashRows[n])],
                              {n \in DOMAIN cashRows : cashRows[n].shift = i})

DrawerRest == [op |-> "none"]
DrawerFree(s) == drawerCalls[s] = DrawerRest
Enter(s, c) == DrawerFree(s) /\ drawerCalls' = [drawerCalls EXCEPT ![s] = c]
Leave(s) == drawerCalls' = [drawerCalls EXCEPT ![s] = DrawerRest]

-----------------------------------------------------------------------------
LoadOpen(s, float) ==
    /\ OpenShiftsOf(signedOn[s]) = {}
    /\ Enter(s, [op |-> "open", float |-> float])
    /\ openRace' = openRace \cup
          {signedOn[u] : u \in {v \in Drawers \ {s} : drawerCalls[v].op = "open"
                                                     /\ signedOn[v] = signedOn[s]}}
    /\ UNCHANGED <<signedOn, shifts, cashRows, lateCash>>

CommitOpen(s) ==
    /\ drawerCalls[s].op = "open"
    /\ \E i \in ShiftIds :
          /\ shifts[i].status = "ABSENT"
          /\ \A j \in ShiftIds : j < i => shifts[j].status # "ABSENT"
          /\ shifts' = [shifts EXCEPT ![i] = NewShift(signedOn[s], drawerCalls[s].float)]
    /\ Leave(s)
    /\ UNCHANGED <<signedOn, cashRows, lateCash, openRace>>

\* The row is stamped with the one open shift found; two open shifts make the
\* lookup fail (scalar_one_or_none), none leaves the row outside every drawer.
LoadCash(s, kind, amount) ==
    /\ Len(cashRows) < MaxRows
    /\ \E i \in OpenShiftsOf(signedOn[s]) :
          /\ OpenShiftsOf(signedOn[s]) = {i}
          /\ Enter(s, [op |-> "cash", shift |-> i, kind |-> kind, amount |-> amount])
          /\ lateCash' = IF \E u \in Drawers : drawerCalls[u].op = "close"
                                               /\ drawerCalls[u].shift = i
                         THEN lateCash \cup {i} ELSE lateCash
    /\ UNCHANGED <<signedOn, shifts, cashRows, openRace>>

CommitCash(s) ==
    LET c == drawerCalls[s] IN
    /\ c.op = "cash"
    /\ cashRows' = Append(cashRows,
                       [shift |-> c.shift, kind |-> c.kind, amount |-> c.amount])
    /\ Leave(s)
    /\ UNCHANGED <<signedOn, shifts, lateCash, openRace>>

\* MUTANT of NeedsApproval: only a surplus is looked at.
NeedsApprovalOver(variance) == variance > Threshold
NeedsApproval(variance) == variance > Threshold \/ -variance > Threshold

\* Any session of the branch may close a shift; the sums are read once.
LoadClose(s, i, declared) ==
    LET variance == declared - ExpectedCash(i) IN
    /\ shifts[i].status = "OPEN"
    /\ NeedsApproval(variance) => signedOn[s] \in Managers
    /\ Enter(s, [op |-> "close", shift |-> i, declared |-> declared,
                 expected |-> ExpectedCash(i)])
    /\ lateCash' = IF \E u \in Drawers : drawerCalls[u].op = "cash"
                                         /\ drawerCalls[u].shift = i
                   THEN lateCash \cup {i} ELSE lateCash
    /\ UNCHANGED <<signedOn, shifts, cashRows, openRace>>

\* The columns written; approved_by_id is only touched by a manager.
CommitClose(s) ==
    LET c == drawerCalls[s] IN
    /\ c.op = "close"
    /\ shifts' = [shifts EXCEPT ![c.shift].status = "CLOSED",
                      ![c.shift].declared = c.declared,
                      ![c.shift].expected = c.expected,
                      ![c.shift].variance = c.declared - c.expected,
                      ![c.shift].approved = @ \/ signedOn[s] \in Managers]
    /\ Leave(s)
    /\ UNCHANGED <<signedOn, cashRows, lateCash, openRace>>

DrawerRollback(s) ==
    /\ ~DrawerFree(s)
    /\ Leave(s)
    /\ UNCHANGED <<signedOn, shifts, cashRows, lateCash, openRace>>

-----------------------------------------------------------------------------
ShiftInit ==
    /\ signedOn \in [Drawers -> Cashiers]
    /\ shifts = [i \in ShiftIds |-> NoShift]
    /\ cashRows = << >>
    /\ drawerCalls = [s \in Drawers |-> DrawerRest]
    /\ lateCash = {}
    /\ openRace = {}

ShiftNext == \E s \in Drawers :
    \/ \E f \in Floats : LoadOpen(s, f)
    \/ CommitOpen(s)
    \/ \E k \in CashKinds, a \in CashAmounts : LoadCash(s, k, a)
    \/ CommitCash(s)
    \/ \E i \in ShiftIds, d \in Counts : LoadClose(s, i, d)
    \/ CommitClose(s)
    \/ DrawerRollback(s)

ShiftSpec == ShiftInit /\ [][ShiftNext]_shiftVars

-----------------------------------------------------------------------------
\* A drawer that is out by more than the limit, over or short, was closed by a
\* manager, also when a cashier and a manager close it at the same time.
BigVarianceIsApproved ==
    \A i \in ShiftIds : shifts[i].status = "CLOSED" =>
        LET gap == shifts[i].variance IN
        (gap > Threshold \/ gap + Threshold < 0) => shifts[i].approved

CashOf(i, kinds) ==
    SumOver([n \in DOMAIN cashRows |-> cashRows[n].amount],
            {n \in DOMAIN cashRows : cashRows[n].shift = i /\ cashRows[n].kind \in kinds})

\* The expected cash of a closed shift is its float and all its rows, unless a
\* row was being written while it was closed: a later row finds no open shift.
ClosedDrawerAddsUp ==
    \A i \in ShiftIds \ lateCash : shifts[i].status = "CLOSED" =>
        /\ shifts[i].variance = shifts[i].declared - shifts[i].expected
        /\ shifts[i].expected = shifts[i].float
             + CashOf(i, {"SALE", "PAID_IN", "PICKUP"})
             - CashOf(i, {"REFUND", "PAID_OUT", "DROP"})

\* A cashier has two open drawers only when two openings overlapped.
OneDrawerPerCashier ==
    \A i, j \in ShiftIds :
        /\ shifts[i].status = "OPEN" /\ shifts[j].status = "OPEN"
        /\ shifts[i].user = shifts[j].user /\ shifts[i].user \notin openRace
        => i = j

\* A closed drawer can be trusted: its expectation is all its rows, a large gap
\* had a manager, and no cashier's rows are spread over two drawers.
DrawersReconcile ==
    ClosedDrawerAddsUp /\ BigVarianceIsApproved /\ OneDrawerPerCashier
=============================================================================
