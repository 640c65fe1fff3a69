------------------------------- MODULE Shelves -------------------------------
(***************************************************************************)
(* What app/services/inventory.py promises those who call it (its opening  *)
(* comment and apply_dispatch_fefo): a document's goods leave in one step,  *)
(* the quantity asked of each product, from lots that hold it and may still *)
(* be used, first expired first out; or nothing leaves.  Goods that are put *)
(* on a shelf while a caller waits may be passed over: to that caller only  *)
(* the quantity is promised then, and not the order of the lots.            *)
(***************************************************************************)
EXTENDS StockLots

CONSTANTS Products, Callers, Docs, Today

VARIABLES
  bins,       \* product -> what is on hand of each lot
  asked,      \* caller -> the draw it waits for, or Nothing
  stirred     \* callers since whose request a lot grew

Nothing == [kind |-> "none"]
Waiting == {c \in Callers : asked[c] # Nothing}

\* All lines of a document for one product together.
Demand(doc, p) ==
  SumOver([i \in DOMAIN doc |-> IF doc[i].product = p THEN doc[i].q ELSE 0], DOMAIN doc)

\* Only a write-off of waste takes what has expired.
OldestDay(kind) == IF kind = "waste" THEN 1 ELSE Today

WholeDraws(bin, q, day) ==
  {take \in [Lots -> 0 .. q] : /\ \A lot \in Lots : take[lot] <= Takeable(bin, lot, day)
                               /\ Total(take) = q}
DrawsFor(c, bin, q, day) ==
  IF c \in stirred THEN WholeDraws(bin, q, day) ELSE FefoDraws(bin, q, day)

ShelfInit ==
  /\ bins \in [Products -> Bins]
  /\ asked = [c \in Callers |-> Nothing]
  /\ stirred = {}

Ask(c) ==
  /\ asked[c] = Nothing
  /\ \E kind \in {"sale", "dispatch", "waste"}, doc \in Docs :
       asked' = [asked EXCEPT ![c] = [kind |-> kind, doc |-> doc]]
  /\ UNCHANGED <<bins, stirred>>

Answer(c) ==
  /\ asked[c] # Nothing
  /\ asked' = [asked EXCEPT ![c] = Nothing]
  /\ stirred' = stirred \ {c}

Taken(p) == [lot \in Lots |-> bins[p][lot] - bins'[p][lot]]
Draw(c) ==
  /\ Answer(c)
  /\ bins' \in [Products -> Bins]
  /\ \A p \in Products :
       Taken(p) \in DrawsFor(c, bins[p], Demand(asked[c].doc, p), OldestDay(asked[c].kind))

Refuse(c) == Answer(c) /\ UNCHANGED bins

\* One lot is received, adjusted or counted.
Restock(p, lot) ==
  LET old == bins[p][lot]  new == bins'[p][lot] IN
  /\ UNCHANGED asked
  /\ new \in Nat
  /\ bins' = [bins EXCEPT ![p][lot] = new]
  /\ stirred' = IF new > old THEN Waiting ELSE stirred

\* All of a lot gets another expiry, which no other goods have.
Redate(p, lot, day) ==
  LET other == [lot EXCEPT !.expiry = day]  all == bins[p][lot] IN
  /\ UNCHANGED asked
  /\ all > 0 /\ bins[p][other] = 0
  /\ bins' = [bins EXCEPT ![p] = [@ EXCEPT ![lot] = 0, ![other] = all]]
  /\ stirred' = Waiting

ShelfNext ==
  \/ \E p \in Products, lot \in Lots :
       Restock(p, lot) \/ \E day \in Days \cup {Undated} : Redate(p, lot, day)
  \/ \E c \in Callers : Ask(c) \/ Draw(c) \/ Refuse(c)

ShelfSpec == ShelfInit /\ [][ShelfNext]_<<bins, asked, stirred>>
=============================================================================
