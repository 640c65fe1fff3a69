------------------------------ MODULE Planning -----------------------------
(***************************************************************************)
(* Forecast plans (services/planning.py, api/v1/admin/forecast.py): the    *)
(* admin drafts a plan for a branch from the forecast, changes lines,      *)
(* confirms it, which tells the branch and the kitchens, or withdraws it.  *)
(* Only confirmed plans are visible to them.  Every handler loads the plan, *)
(* checks the status it read and writes with no comparison; a commit over  *)
(* another status is recorded in replanned.                                *)
(***************************************************************************)
EXTENDS Sums

CONSTANTS
    Plans,          \* plans
    PlanBranch,     \* plan -> its branch
    PlanDays,       \* dates of the window
    Suggestions,    \* units the forecast may suggest, units an admin may plan
    Planners        \* requests in progress

ASSUME PlanningAssumption == Suggestions \subseteq Nat /\ IsFiniteSet(Plans)

VARIABLES
    plans,          \* plan -> [status, suggested, planned: date -> units]
    announced,      \* plan -> what the branch and kitchens were told
    planCalls,      \* request -> the handler it is in the middle of
    replanned       \* plans written over a status other than the one read

planVars == <<plans, announced, planCalls, replanned>>

NoPlan == [status |-> "NONE"]
Aside == [op |-> "none"]
Opens(r, c) == planCalls[r] = Aside /\ planCalls' = [planCalls EXCEPT ![r] = c]
Closes(r) == planCalls' = [planCalls EXCEPT ![r] = Aside]
NoteRace(c) == replanned' = IF plans[c.plan].status # c.seen THEN replanned \cup {c.plan}
                            ELSE replanned

-----------------------------------------------------------------------------
\* The suggestion and the plan start identical.
CreateDraft(p, forecast) ==
    /\ plans[p] = NoPlan
    /\ plans' = [plans EXCEPT ![p] =
                   [status |-> "DRAFT", suggested |-> forecast, planned |-> forecast]]
    /\ UNCHANGED <<announced, planCalls, replanned>>

\* MUTANT of EditablePlan: anything but a withdrawn plan can be edited.
EditableUntilCancelled(s) == s \in {"DRAFT", "CONFIRMED"}
EditablePlan(s) == s = "DRAFT"

LoadOverride(r, p, d, units) ==
    /\ EditablePlan(plans[p].status)
    /\ Opens(r, [op |-> "override", plan |-> p, date |-> d, units |-> units, seen |-> plans[p].status])
    /\ UNCHANGED <<plans, announced, replanned>>

CommitOverride(r) ==
    LET c == planCalls[r] IN
    /\ c.op = "override"
    /\ plans' = [plans EXCEPT ![c.plan].planned[c.date] = c.units]
    /\ NoteRace(c)
    /\ Closes(r)
    /\ UNCHANGED announced

\* MUTANT of Confirmable: a withdrawn plan is confirmed again.
ConfirmableAgain(s) == s \in {"DRAFT", "CANCELLED"}
Confirmable(s) == s = "DRAFT"

\* The status is the plan's only column the handlers share with an override,
\* which writes the lines; the announcement carries the lines read.
LoadConfirm(r, p) ==
    /\ Confirmable(plans[p].status)
    /\ Opens(r, [op |-> "confirm", plan |-> p, lines |-> plans[p].planned, seen |-> plans[p].status])
    /\ UNCHANGED <<plans, announced, replanned>>

CommitConfirm(r) ==
    LET c == planCalls[r] IN
    /\ c.op = "confirm"
    /\ plans' = [plans EXCEPT ![c.plan].status = "CONFIRMED"]
    /\ announced' = [announced EXCEPT ![c.plan] = c.lines]
    /\ replanned' = IF plans[c.plan].status # c.seen \/ plans[c.plan].planned # c.lines
                    THEN replanned \cup {c.plan} ELSE replanned
    /\ Closes(r)

\* Withdrawing a withdrawn plan changes nothing.
LoadCancel(r, p) ==
    /\ plans[p].status \in {"DRAFT", "CONFIRMED"}
    /\ Opens(r, [op |-> "cancel", plan |-> p, seen |-> plans[p].status])
    /\ UNCHANGED <<plans, announced, replanned>>

CommitCancel(r) ==
    LET c == planCalls[r] IN
    /\ c.op = "cancel"
    /\ plans' = [plans EXCEPT ![c.plan].status = "CANCELLED"]
    /\ NoteRace(c)
    /\ Closes(r)
    /\ UNCHANGED announced

LeavePlan(r) ==
    /\ planCalls[r] # Aside
    /\ Closes(r)
    /\ UNCHANGED <<plans, announced, replanned>>

-----------------------------------------------------------------------------
\* MUTANT of Visible: drafts are counted too.
VisibleDrafts == {p \in Plans : plans[p].status \in {"DRAFT", "CONFIRMED"}}
Visible == {p \in Plans : plans[p].status = "CONFIRMED"}

\* What one branch expects, and what the kitchens produce for the chain.
Units(S, d) == SumOver([p \in S |-> plans[p].planned[d]], S)
BranchExpected(b, d) == Units({p \in Visible : PlanBranch[p] = b}, d)
KitchenTargets(d) == Units(Visible, d)

PlanInit ==
    /\ plans = [p \in Plans |-> NoPlan]
    /\ announced = [p \in Plans |-> << >>]
    /\ planCalls = [r \in Planners |-> Aside]
    /\ replanned = {}

PlanNext ==
    \/ \E p \in Plans, forecast \in [PlanDays -> Suggestions] : CreateDraft(p, forecast)
    \/ \E r \in Planners :
         \/ \E p \in Plans, d \in PlanDays, units \in Suggestions : LoadOverride(r, p, d, units)
         \/ \E p \in Plans : LoadConfirm(r, p) \/ LoadCancel(r, p)
         \/ CommitOverride(r)
         \/ CommitConfirm(r)
         \/ CommitCancel(r)
         \/ LeavePlan(r)

PlanSpec == PlanInit /\ [][PlanNext]_planVars

-----------------------------------------------------------------------------
(***************************************************************************)
(* What kitchens and branches read, plan by plan and summed over the chain, *)
(* is what they were told when the plans were confirmed: a confirmed plan  *)
(* is never moved underneath them.  It breaks only for a plan whose line   *)
(* was changed by a handler that read it as a draft and committed later.   *)
(***************************************************************************)
ConfirmedPlans == {p \in Plans : plans[p].status = "CONFIRMED"}
PlannedBranches == {PlanBranch[p] : p \in Plans}
TargetsAreAsAnnounced ==
    replanned = {} => \A d \in PlanDays :
        /\ KitchenTargets(d) = SumOver([p \in ConfirmedPlans |-> announced[p][d]], ConfirmedPlans)
        /\ KitchenTargets(d) = SumOver([b \in PlannedBranches |-> BranchExpected(b, d)],
                                      PlannedBranches)

(***************************************************************************)
(* A plan that was withdrawn is not brought back, and one that was         *)
(* confirmed does not become a draft: only a handler that had read the plan *)
(* before may write over it.                                               *)
(***************************************************************************)
WithdrawnStaysWithdrawn ==
    [][\A p \in Plans : plans[p].status = "CANCELLED" /\ plans'[p].status # "CANCELLED"
         => p \in replanned']_planVars

(***************************************************************************)
(* A plan stands as it was announced until it is withdrawn, and then stays *)
(* withdrawn.                                                              *)
(***************************************************************************)
PlansStand == []TargetsAreAsAnnounced /\ WithdrawnStaysWithdrawn
=============================================================================
