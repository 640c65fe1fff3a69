------------------------------ MODULE MC_Kitchens ------------------------------
(* The kitchens' side: deliveries to branches, production targets, recipes and  *)
(* runs, the preparation board, kitchen tickets and plans.  An instance of      *)
(* DeliveryFanout, ProductionTargets, Recipes, Preparation, Printing and        *)
(* Planning, which share no variable: a behaviour exercises the one component   *)
(* its focus names and leaves the others at rest.                               *)
EXTENDS DeliveryFanout, ProductionTargets, Recipes, Preparation, Printing, Planning

VARIABLE focus

CONSTANTS r1, r2, l1, l2, p1, b1, b2, t1, t2

Symmetry == Permutations(Threads) \cup Permutations(Branches)

\* Two batches announced against the same goods, of which some expire.
CompeteDoc ==
  [r \in Requests |-> [product |-> [l \in Lines |-> p1], requested |-> [l \in Lines |-> 2]]]
CompeteStock == [p \in Products |-> [lot \in Lots |-> 1]]

\* A target of two lines, two of each.
TwoOfEach == [l \in TargetLines |-> 2]

\* A recipe of two parts, one measured in units of a thousand and lost by 2.5%;
\* and another of one part, measured the other way round and lost by 3.33%.
Need(quantity, from, to, wastage) ==
  [quantity |-> quantity, from |-> from, to |-> to, wastage |-> wastage]
TwoFormulas ==
  "f1" :> [yield |-> 2, needs |-> "flour" :> Need(2500, 1, 1000, 250)
                                  @@ "egg" :> Need(1000, 1, 1, 0)]
  @@ "f2" :> [yield |-> 3, needs |-> "flour" :> Need(1, 1000, 1, 333)]

\* Two dishes of one order.
OneBill == [t \in Tickets |-> "b1"]

\* One item goes to the grill, the other has no category.
GrillAndOther == "i1" :> "grill" @@ "i2" :> ""
SomeRouting == CHOOSE r \in Routings : Consistent(r)

\* Plans of two branches for one day.
BranchEach == "p1" :> "b1" @@ "p2" :> "b2"

\* Where two handlers wrote over each other the properties say nothing.
KitchensBounds == ~targetRaced /\ overwritten = {}

KitchensInit ==
  /\ focus \in {"deliveries", "targets", "recipes", "board", "printing", "plans"}
  /\ Init
  /\ TargetInit
  /\ RecipeInit
  /\ PrepInit /\ (focus # "board" => centralKitchen)
  /\ PrintInit /\ (focus # "printing" => routing = SomeRouting)
  /\ PlanInit

KitchensNext ==
  /\ UNCHANGED focus
  /\ \/ focus = "deliveries" /\ Next
          /\ UNCHANGED <<targetVars, recipeVars, prepVars, printVars, planVars>>
     \/ focus = "targets" /\ TargetNext
          /\ UNCHANGED <<vars, recipeVars, prepVars, printVars, planVars>>
     \/ focus = "recipes" /\ RecipeNext
          /\ UNCHANGED <<vars, targetVars, prepVars, printVars, planVars>>
     \/ focus = "board" /\ PrepNext
          /\ UNCHANGED <<vars, targetVars, recipeVars, printVars, planVars>>
     \/ focus = "printing" /\ PrintNext
          /\ UNCHANGED <<vars, targetVars, recipeVars, prepVars, planVars>>
     \/ focus = "plans" /\ PlanNext
          /\ UNCHANGED <<vars, targetVars, recipeVars, prepVars, printVars>>

KitchensVars == <<focus, vars, targetVars, recipeVars, prepVars, printVars, planVars>>

KitchensSpec == KitchensInit /\ [][KitchensNext]_KitchensVars

================================================================================
