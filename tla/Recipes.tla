------------------------------ MODULE Recipes ------------------------------
(***************************************************************************)
(* Recipes of one finished good and the runs that make it                  *)
(* (services/recipes.py, services/production.py, services/units.py).       *)
(* Publishing a recipe retires the active ones and inserts the next        *)
(* version; a run explodes the newest active recipe into component draws,  *)
(* consumes them first and credits the output, in one transaction.         *)
(* Quantities are whole thousandths of a unit, the ledger's scale.         *)
(***************************************************************************)
EXTENDS Sums, Sequences, FiniteSetsExt

CONSTANTS
    Parts,          \* component products
    Formulas,       \* recipes that may be published, by name
    FormulaOf,      \* name -> [yield, needs: part -> [quantity, from, to, wastage]]
    Cooks,          \* requests in progress
    BatchSizes,     \* quantities a run is asked for
    Pantry,         \* bound: thousandths of a part the kitchen starts with
    MaxVersions,    \* bound: recipes published
    MaxRuns         \* bound: runs made

ASSUME RecipesAssumption ==
    /\ BatchSizes \subseteq Nat \ {0}
    /\ Pantry \in Nat /\ MaxVersions \in Nat /\ MaxRuns \in Nat
    /\ \A f \in Formulas :
         /\ FormulaOf[f].yield \in Nat \ {0}
         /\ \E S \in SUBSET Parts : FormulaOf[f].needs \in
              [S -> [quantity : Nat, from : Nat \ {0}, to : Nat \ {0}, wastage : Nat]]

VARIABLES
    recipes,        \* recipe rows, in id order: [version, active, formula]
    pantry,         \* part -> thousandths on hand
    baked,          \* finished goods credited
    runRows,        \* runs: [formula, asked, drawn, output]
    cookCalls       \* request -> the handler it is in the middle of

recipeVars == <<recipes, pantry, baked, runRows, cookCalls>>

Resting == [op |-> "none"]
Start(k, c) == cookCalls[k] = Resting /\ cookCalls' = [cookCalls EXCEPT ![k] = c]
Finish(k) == cookCalls' = [cookCalls EXCEPT ![k] = Resting]

-----------------------------------------------------------------------------
ActiveRows == {i \in DOMAIN recipes : recipes[i].active}

LoadPublish(k, f) ==
    /\ Start(k, [op |-> "publish", formula |-> f, previous |-> ActiveRows])
    /\ UNCHANGED <<recipes, pantry, baked, runRows>>

\* MUTANT of NextVersion: versions are numbered by a sequence of their own.
FreshVersion(previous) == 1 + Len(recipes)
\* One more than the newest of the rows read as active.
NextVersion(previous) == 1 + Max({0} \cup {recipes[i].version : i \in previous})

\* Unique on (product, version): the loser of two publishes is rolled back.
CommitPublish(k) ==
    LET c == cookCalls[k]
        v == NextVersion(c.previous) IN
    /\ c.op = "publish"
    /\ Len(recipes) < MaxVersions
    /\ \A i \in DOMAIN recipes : recipes[i].version # v
    /\ recipes' = Append(
         [i \in DOMAIN recipes |-> [recipes[i] EXCEPT !.active = @ /\ i \notin c.previous]],
         [version |-> v, active |-> TRUE, formula |-> c.formula])
    /\ Finish(k)
    /\ UNCHANGED <<pantry, baked, runRows>>

-----------------------------------------------------------------------------
HalfUp(n, d) == (2 * n + d) \div (2 * d)

\* From the recipe's unit into the stock unit, rounded to the ledger's scale.
Convert(need) == IF need.from = need.to THEN need.quantity
                 ELSE HalfUp(need.quantity * need.from, need.to)

\* MUTANT of BatchCount: half a batch is not run.
BatchCountDown(asked, yield) == asked \div yield
BatchCount(asked, yield) == (asked + yield - 1) \div yield

\* The expected loss on top, rounded again.
Uplift(gross, wastage) == HalfUp(gross * (10000 + wastage), 10000)

Draws(f, asked) == [p \in DOMAIN FormulaOf[f].needs |->
    LET need == FormulaOf[f].needs[p] IN
    Uplift(Convert(need) * BatchCount(asked, FormulaOf[f].yield), need.wastage)]
Output(f, asked) == BatchCount(asked, FormulaOf[f].yield) * FormulaOf[f].yield

\* The newest active recipe; without one the run is refused.
LoadRun(k, asked) ==
    /\ ActiveRows # {}
    /\ LET newest == CHOOSE i \in ActiveRows :
                       \A j \in ActiveRows : recipes[j].version <= recipes[i].version IN
       Start(k, [op |-> "run", formula |-> recipes[newest].formula, asked |-> asked])
    /\ UNCHANGED <<recipes, pantry, baked, runRows>>

\* MUTANT of Enough: only the first component is looked at.
EnoughOfOne(drawn) == \E p \in DOMAIN drawn : drawn[p] <= pantry[p]
Enough(drawn) == \A p \in DOMAIN drawn : drawn[p] <= pantry[p]

\* Every draw must be positive and covered, or the transaction is rolled back.
CommitRun(k) ==
    LET c == cookCalls[k]
        drawn == Draws(c.formula, c.asked) IN
    /\ c.op = "run"
    /\ Len(runRows) < MaxRuns
    /\ \A p \in DOMAIN drawn : drawn[p] > 0
    /\ Enough(drawn)
    /\ pantry' = [p \in Parts |-> IF p \in DOMAIN drawn THEN pantry[p] - drawn[p]
                                  ELSE pantry[p]]
    /\ baked' = baked + Output(c.formula, c.asked)
    /\ runRows' = Append(runRows, [formula |-> c.formula, asked |-> c.asked, drawn |-> drawn,
                                   output |-> Output(c.formula, c.asked)])
    /\ Finish(k)
    /\ UNCHANGED recipes

StopCooking(k) ==
    /\ cookCalls[k] # Resting
    /\ Finish(k)
    /\ UNCHANGED <<recipes, pantry, baked, runRows>>

-----------------------------------------------------------------------------
RecipeInit ==
    /\ recipes = << >>
    /\ pantry = [p \in Parts |-> Pantry]
    /\ baked = 0
    /\ runRows = << >>
    /\ cookCalls = [k \in Cooks |-> Resting]

RecipeNext == \E k \in Cooks :
    \/ \E f \in Formulas : LoadPublish(k, f)
    \/ \E asked \in BatchSizes : LoadRun(k, asked)
    \/ CommitPublish(k)
    \/ CommitRun(k)
    \/ StopCooking(k)

RecipeSpec == RecipeInit /\ [][RecipeNext]_recipeVars

-----------------------------------------------------------------------------
(***************************************************************************)
(* A product has at most one active recipe, whoever publishes at once: the *)
(* version is counted from the rows read as active, so a publish that did  *)
(* not see the other's row collides with it on the unique key.             *)
(***************************************************************************)
OneActiveRecipe == Cardinality(ActiveRows) <= 1

(***************************************************************************)
(* A run makes at least what was asked and less than a batch more, and     *)
(* draws for all of it what the recipe states with its expected loss, to   *)
(* within the two roundings (half a thousandth a batch, and one half more). *)
(***************************************************************************)
RunsCoverTheBatch ==
    \A i \in DOMAIN runRows :
        LET r == runRows[i]
            f == FormulaOf[r.formula] IN
        /\ r.output - r.asked \in 0..(f.yield - 1)
        /\ \A p \in DOMAIN f.needs :
             LET need == f.needs[p]
                 exact == need.quantity * need.from * (10000 + need.wastage) * r.output
                 made == r.drawn[p] * need.to * 10000 * f.yield
                 slack == need.to * (10000 * f.yield + (10000 + need.wastage) * r.output) IN
             2 * (made - exact) <= slack /\ 2 * (exact - made) <= slack

(***************************************************************************)
(* All or nothing: what left the pantry is what the runs on record drew,   *)
(* and what was credited is their output; no run draws what is not there.  *)
(***************************************************************************)
DrawnOf(r, p) == IF p \in DOMAIN r.drawn THEN r.drawn[p] ELSE 0
TotalDrawn(p) == SumOver([i \in DOMAIN runRows |-> DrawnOf(runRows[i], p)], DOMAIN runRows)
RunsAddUp ==
    /\ \A p \in Parts : pantry[p] >= 0 /\ Pantry - pantry[p] = TotalDrawn(p)
    /\ baked = SumOver([i \in DOMAIN runRows |-> runRows[i].output], DOMAIN runRows)

(***************************************************************************)
(* A run follows the one recipe in force, for whole batches, and draws and *)
(* credits all of it or nothing.                                           *)
(***************************************************************************)
ProductionIsAccounted == OneActiveRecipe /\ RunsCoverTheBatch /\ RunsAddUp
=============================================================================
