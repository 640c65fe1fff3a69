-------------------------------- MODULE MC_Shop --------------------------------
(* A restaurant's shop: the stock its sales draw on, the payments of an order,  *)
(* cash drawers, the pairing of terminals, its menu and prices, what it expects *)
(* to sell and the people who sign in.  An instance of components that share no *)
(* variable: a behaviour exercises the one its focus names and leaves the       *)
(* others at rest.                                                              *)
EXTENDS StockLedger, Payments, Shifts, Terminals, Menu, Pricing, Access, Forecast, TLC

VARIABLE focus

ThreadSymmetry == Permutations(Threads)

\* One lot of each of two products; sales list them in either order.
Key(product, day) == [product |-> product, batch |-> NoBatch, expiry |-> day]
PairKeys == [row \in Rows |-> IF row <= 2 THEN Key(row, 2) ELSE Unused]
PairQty == [row \in Rows |-> IF row <= 2 THEN 2 ELSE 0]
BothWays ==
  {<<[product |-> 1, q |-> 1], [product |-> 2, q |-> 1]>>,
   <<[product |-> 2, q |-> 1], [product |-> 1, q |-> 1]>>}

SomeSessions == CHOOSE on \in [Drawers -> Cashiers] : TRUE

\* A deal of one dish.
DealOfOne == "burger" :> {} @@ "deal" :> {"burger"}

\* Sums on both sides of zero, coins that divide them unevenly, weights with
\* zeros and ties; federal and provincial packs that succeed one another; lines
\* with a menu price, without one (-1), with surcharges and discounts.
SmallSums == -7..7
UpToThree == UNION {[1..n -> 0..3] : n \in 1..3}
Pack(country, province, since, until, bp) ==
  [country |-> country, province |-> province, since |-> since, until |-> until, bp |-> bp]
TaxPacks == {Pack("PK", "", 1, 9, 0), Pack("PK", "PRA", 3, 5, 1600),
             Pack("PK", "PRA", 4, 9, 800), Pack("AE", "", 2, 9, 500)}
TaxPlaces == {<<"PK", "PRA">>, <<"PK", "SRB">>, <<"AE", "">>}
CartLine(menu, price, quantity, surcharge, off) ==
  [menu |-> menu, price |-> price, quantity |-> quantity, surcharge |-> surcharge, off |-> off]
SmallCarts == {<<CartLine(-1, 9, 2, 3, 0), CartLine(7, 9, 1, 0, 2)>>,
               <<CartLine(15, 0, 2, 1, 0)>>,
               <<CartLine(-1, 5, 1, 0, 1), CartLine(-1, 5, 1, 0, 0)>>}

\* Two appointments at branches and two in the kitchen; one terminal.
Appointments == "ann" :> "BRANCH_MANAGER" @@ "bob" :> "BRANCH_STAFF"
             @@ "kim" :> "KITCHEN_MANAGER" @@ "sid" :> "KITCHEN_STAFF"
NorthTill == "d1" :> "north"

\* One story at a time: sessions of one account, the kitchen and its accounts,
\* the plan's branches, or work at the tills.
InSession == \/ \E t \in Tokens : ~Unissued(t)
             \/ \E r \in Attempts : authCalls[r].op = "refresh"
KitchenTime == ~kitchenOn \/ There("kim") \/ There("sid")
OpeningBranch == \E r \in Attempts : authCalls[r].op = "branch"
OneStory ==
  /\ InSession => /\ Cardinality({refreshTokens[t].session : t \in Tokens} \ {"none"}) <= 1
                  /\ kitchenOn /\ \A p \in People \ {"kim"} : ~There(p)
                  /\ branches = {}
  /\ KitchenTime => branches = {} /\ ~OpeningBranch
  /\ branches = {} => tillTokens = {} /\ tillWork = {}
  /\ OpeningBranch => tillTokens = {} /\ tillWork = {} /\ \A p \in People : ~There(p)

\* Publications that do not overlap and proposals that are not contested, as
\* the properties ask; proposals come before menus, one dish is off at a time.
OneMenuStory ==
  /\ ~overlapping /\ contested = {}
  /\ menus = << >> \/ \A i \in Ideas : ideas[i].status = "NONE"
  /\ Cardinality(pulled) + Cardinality(Dishes \ shelf) <= 1

\* Histories of four days with zeros, gaps and swings; refusals on one of them;
\* events on some; no events today, two tags of one event, or two events.
Histories == [1..4 -> {-1, 0, 6, 9}]
TurnedAway == {[d \in 1..4 |-> 0], [d \in 1..4 |-> IF d = 2 THEN 5 ELSE 0]}
EventDates == {{}, {2}, {1, 3}}
Guesses == {-1, 40}
Event(factors, own, weight) == [tags |-> factors, own |-> own, weight |-> weight]
Festival == Event("SNACK" :> 25 @@ "IFTAR" :> 35, -1, 3)
EventsOfToday ==
  {{}, {Festival}, {Festival, Event("GENERAL" :> 20, -1, 10)}, {Event("GENERAL" :> 13, 1, 0)}}

ShopBounds == OneStory /\ OneMenuStory

ShopInit ==
  /\ focus \in {"stock", "payments", "shifts", "terminals", "menu", "pricing", "access", "forecast"}
  /\ Init
  /\ PayInit /\ (focus # "payments" => bill.extras = 0)
  /\ ShiftInit /\ (focus # "shifts" => signedOn = SomeSessions)
  /\ TerminalInit
  /\ MenuInit
  /\ IF focus = "pricing" THEN PricingInit
     ELSE /\ question = [ask |-> "round", amount |-> 0, coin |-> 1, mode |-> "DOWN"]
          /\ answer = Unanswered
  /\ AccessInit
  /\ IF focus = "forecast" THEN ForecastInit
     ELSE /\ sold = [d \in 1..4 |-> 0] /\ refused = [d \in 1..4 |-> 0]
          /\ blocked = {} /\ assumption = -1 /\ dayEvents = {} /\ tags = {}
          /\ suggestion = Unasked

tillVars == <<payVars, shiftVars, terminalVars>>
officeVars == <<menuVars, pricingVars, accessVars, forecastVars>>

ShopNext ==
  /\ UNCHANGED focus
  /\ \/ focus = "stock" /\ Next /\ UNCHANGED <<tillVars, officeVars>>
     \/ focus = "payments" /\ PayNext
          /\ UNCHANGED <<vars, shiftVars, terminalVars, officeVars>>
     \/ focus = "shifts" /\ ShiftNext
          /\ UNCHANGED <<vars, payVars, terminalVars, officeVars>>
     \/ focus = "terminals" /\ TerminalNext
          /\ UNCHANGED <<vars, payVars, shiftVars, officeVars>>
     \/ focus = "menu" /\ MenuNext
          /\ UNCHANGED <<vars, tillVars, pricingVars, accessVars, forecastVars>>
     \/ focus = "pricing" /\ PricingNext
          /\ UNCHANGED <<vars, tillVars, menuVars, accessVars, forecastVars>>
     \/ focus = "access" /\ AccessNext
          /\ UNCHANGED <<vars, tillVars, menuVars, pricingVars, forecastVars>>
     \/ focus = "forecast" /\ ForecastNext
          /\ UNCHANGED <<vars, tillVars, menuVars, pricingVars, accessVars>>

ShopVars == <<focus, vars, tillVars, officeVars>>

ShopSpec == ShopInit /\ [][ShopNext]_ShopVars

================================================================================
