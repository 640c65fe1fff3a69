------------------------------- MODULE StockLots -------------------------------
(***************************************************************************)
(* Lots of stock and the earliest-expiry-first draw, the pure part of       *)
(* app/services/inventory.py shared by every module that moves goods.       *)
(*                                                                         *)
(* A lot is one inventory row of a product at a location: its batch code    *)
(* and its expiry day.  A bin is the on-hand quantity of every lot.  An     *)
(* undated lot never expires and is consumed last, so its expiry is the     *)
(* day after every day of the model (Undated).                              *)
(***************************************************************************)
EXTENDS Sums

CONSTANTS
  Batches,    \* batch codes in use
  NoBatch,    \* the unbatched bucket, batch_code ""
  LastDay     \* the last day of the model

ASSUME BatchAssumption == NoBatch \in Batches /\ IsFiniteSet(Batches)
ASSUME DayAssumption == LastDay \in Nat \ {0}

Days == 1 .. LastDay
Undated == LastDay + 1
Lots == [batch : Batches, expiry : Days \cup {Undated}]
UnbatchedLot == [batch |-> NoBatch, expiry |-> Undated]

Bins == [Lots -> Nat]
EmptyBin == [lot \in Lots |-> 0]

Total(bin) == SumOver(bin, Lots)

\* _dispatchable_conditions: a lot may be shipped through its expiry day.
Dispatchable(bin, lot, today) == bin[lot] > 0 /\ lot.expiry >= today

\* available_for_dispatch
Available(bin, today) ==
  SumOver(bin, {lot \in Lots : Dispatchable(bin, lot, today)})

\* Units of a lot a dispatch may take; an expired lot stays where it is.
TakeableOneTooMany(bin, lot, today) ==
  IF lot.expiry >= today THEN bin[lot] + 1 ELSE 0
Takeable(bin, lot, today) == IF Dispatchable(bin, lot, today) THEN bin[lot] ELSE 0

\* What apply_dispatch_fefo may take: a whole draw of q that leaves a lot
\* only after every earlier-expiring one is used up.  Rows of one expiry are
\* taken whole, in the order of their row ids, before the next is opened.
FefoDraws(bin, q, today) ==
  {take \in [Lots -> 0 .. q] :
     /\ \A lot \in Lots : take[lot] <= Takeable(bin, lot, today)
     /\ Total(take) = q
     /\ \A early, late \in Lots :
          /\ Dispatchable(bin, early, today)
          /\ early.expiry < late.expiry
          /\ take[late] > 0
          => take[early] = bin[early]
     /\ Cardinality({lot \in Lots : 0 < take[lot] /\ take[lot] < bin[lot]})
          <= 1}

\* One draw: the row ids fix which lot of an expiry goes first.
FefoTake(bin, q, today) == CHOOSE take \in FefoDraws(bin, q, today) : TRUE

Minus(bin, take) == [lot \in Lots |-> bin[lot] - take[lot]]
Plus(bin, give) == [lot \in Lots |-> bin[lot] + give[lot]]
PutIn(bin, lot, q) == [bin EXCEPT ![lot] = @ + q]

\* A branch keeps goods by product and expiry, so a credit drops the batch.
OnlyUnbatched(bin) ==
  [lot \in Lots |-> IF lot.batch = NoBatch THEN bin[lot] ELSE 0]
WithoutBatch(bin) ==
  [lot \in Lots |->
     IF lot.batch = NoBatch
     THEN SumOver(bin, {other \in Lots : other.expiry = lot.expiry})
     ELSE 0]

================================================================================
