---------------------------- MODULE StockLots_proofs ----------------------------
(***************************************************************************)
(* Bins of stock for any number of batches and days: what a draw takes and  *)
(* leaves, what a credit adds, and what survives when a batch is dropped.   *)
(***************************************************************************)
EXTENDS StockLots, Sums_proofs

--------------------------------------------------------------------------------
(* Draws and credits *)

\* A first-expired-first-out draw is a bin of exactly the quantity asked for.
LEMMA DrawIsExact ==
  ASSUME NEW bin, NEW q, NEW day, FefoDraws(bin, q, day) # {}
  PROVE  /\ FefoTake(bin, q, day) \in Bins
         /\ Total(FefoTake(bin, q, day)) = q
<1>1. FefoTake(bin, q, day) \in FefoDraws(bin, q, day)
  BY DEF FefoTake
<1> QED  BY <1>1 DEF FefoDraws, Bins

LEMMA PlusNothing ==
  ASSUME NEW bin \in Bins
  PROVE  Plus(EmptyBin, bin) = bin
BY DEF Plus, EmptyBin, Bins

LEMMA PlusIsBin ==
  ASSUME NEW bin \in Bins, NEW give \in Bins
  PROVE  Plus(bin, give) \in Bins
BY DEF Plus, Bins

--------------------------------------------------------------------------------
(* Sums of goods *)

LEMMA LotsAreFinite == IsFiniteSet(Lots)
<1> DEFINE pairs == Batches \X (Days \cup {Undated})
           lotOf == [pair \in pairs |-> [batch |-> pair[1], expiry |-> pair[2]]]
<1>1. IsFiniteSet(Days \cup {Undated})
  <2>1. IsFiniteSet(1 .. LastDay)
    BY DayAssumption, FS_Interval
  <2> QED  BY <2>1, FS_AddElement DEF Days
<1>2. IsFiniteSet(pairs)
  BY <1>1, BatchAssumption, FS_Product
<1>3. lotOf \in [pairs -> Lots]
  BY DEF Lots
<1>4. \A lot \in Lots : \E pair \in pairs : lotOf[pair] = lot
  <2> SUFFICES ASSUME NEW lot \in Lots PROVE \E pair \in pairs : lotOf[pair] = lot
    OBVIOUS
  <2>1. <<lot.batch, lot.expiry>> \in pairs
    BY DEF Lots
  <2>2. lotOf[<<lot.batch, lot.expiry>>] = lot
    BY <2>1 DEF Lots
  <2> QED  BY <2>1, <2>2
<1> HIDE DEF pairs, lotOf
<1>5. lotOf \in Surjection(pairs, Lots)
  BY <1>3, <1>4 DEF Surjection
<1> QED  BY <1>2, <1>5, FS_Surjection

LEMMA TotalIsNat ==
  ASSUME NEW bin \in Bins
  PROVE  Total(bin) \in Nat
BY LotsAreFinite, SumNotNegative DEF Bins, Total

LEMMA TotalOfNothing == Total(EmptyBin) = 0
BY LotsAreFinite, SumZero DEF EmptyBin, Total

LEMMA TotalOfPlus ==
  ASSUME NEW bin \in Bins, NEW give \in Bins
  PROVE  Total(Plus(bin, give)) = Total(bin) + Total(give)
<1>1. \A lot \in Lots : /\ bin[lot] \in Int /\ give[lot] \in Int
                        /\ Plus(bin, give)[lot] = bin[lot] + give[lot]
  BY DEF Bins, Plus
<1> QED  BY <1>1, LotsAreFinite, SumPlus DEF Total

\* A draw leaves a bin behind, short of what was drawn.
LEMMA DrawLeavesABin ==
  ASSUME NEW bin \in Bins, NEW q, NEW day, FefoDraws(bin, q, day) # {}
  PROVE  LET take == FefoTake(bin, q, day)
         IN Minus(bin, take) \in Bins /\ Total(Minus(bin, take)) = Total(bin) - q
<1> DEFINE take == FefoTake(bin, q, day)
<1>1. take \in FefoDraws(bin, q, day) /\ take \in Bins /\ Total(take) = q
  BY DrawIsExact DEF FefoTake
<1> HIDE DEF take
<1>2. \A lot \in Lots : bin[lot] \in Nat /\ take[lot] \in Nat /\ take[lot] <= bin[lot]
  BY <1>1 DEF FefoDraws, Takeable, Bins
<1>3. Minus(bin, take) \in Bins
  BY <1>2 DEF Minus, Bins
<1>4. \A lot \in Lots : /\ take[lot] \in Int /\ Minus(bin, take)[lot] \in Int
                        /\ bin[lot] = take[lot] + Minus(bin, take)[lot]
  BY <1>2 DEF Minus
<1>5. Total(bin) = Total(take) + Total(Minus(bin, take))
  BY <1>4, LotsAreFinite, SumPlus DEF Total
<1>6. Total(take) \in Nat /\ Total(Minus(bin, take)) \in Nat
  BY <1>1, <1>3, TotalIsNat
<1>7. \A a, b, c \in Int : a = b + c => c = a - b
  OBVIOUS
<1>8. Total(bin) \in Nat
  BY TotalIsNat
<1> QED  BY <1>1, <1>3, <1>5, <1>6, <1>7, <1>8 DEF take

\* Dropping the batch code keeps the units of every expiry, so all of them.
LEMMA ExpiriesSurvive ==
  ASSUME NEW bin \in Bins, NEW e \in Days \cup {Undated}
  PROVE  LET dated == {lot \in Lots : lot.expiry = e}
         IN /\ WithoutBatch(bin) \in Bins
            /\ SumOver(WithoutBatch(bin), dated) = SumOver(bin, dated)
<1> DEFINE dated == {lot \in Lots : lot.expiry = e}
           plain == [batch |-> NoBatch, expiry |-> e]
           bare == WithoutBatch(bin)
<1>1. ASSUME NEW lot \in Lots
      PROVE  SumOver(bin, {other \in Lots : other.expiry = lot.expiry}) \in Nat
  <2> DEFINE same == {other \in Lots : other.expiry = lot.expiry}
  <2>1. same \in SUBSET Lots
    OBVIOUS
  <2>2. IsFiniteSet(same)
    BY <2>1, LotsAreFinite, FS_Subset
  <2>3. \A other \in same : bin[other] \in Nat
    BY DEF Bins
  <2> HIDE DEF same
  <2>4. SumOver(bin, same) \in Nat
    BY <2>2, <2>3, SumNotNegative
  <2> QED  BY <2>4 DEF same
<1>2. bare \in Bins
  BY <1>1 DEF WithoutBatch, Bins
<1>3. plain \in Lots /\ plain \in dated /\ dated \in SUBSET Lots /\ IsFiniteSet(dated)
  <2>1. plain \in Lots
    BY BatchAssumption DEF Lots
  <2>2. dated \in SUBSET Lots
    OBVIOUS
  <2> QED  BY <2>1, <2>2, LotsAreFinite, FS_Subset
<1>4. bare[plain] = SumOver(bin, dated)
  BY <1>3 DEF WithoutBatch
<1>5. \A lot \in dated \ {plain} : bare[lot] = 0
  <2> SUFFICES ASSUME NEW lot \in dated, lot # plain PROVE bare[lot] = 0
    OBVIOUS
  <2>1. lot.batch # NoBatch
    BY DEF Lots
  <2> QED  BY <2>1 DEF WithoutBatch
<1>6. \A lot \in dated : bare[lot] \in Int
  BY <1>2 DEF Bins
<1> HIDE DEF dated, plain, bare
<1>7. SumOver(bare, dated) = SumOver(bare, {plain})
  <2>1. {plain} \in SUBSET dated
    BY <1>3
  <2> QED  BY <1>3, <1>5, <1>6, <2>1, SumWithoutZeros
<1>8. SumOver(bare, {plain}) = bare[plain]
  <2>1. {plain} \in SUBSET dated /\ {plain} \ {plain} = {}
    BY <1>3
  <2>2. SumOver(bare, {plain}) = bare[plain] + SumOver(bare, {})
    BY <1>3, <1>6, <2>1, SumRemove
  <2> QED  BY <1>2, <1>3, <2>2, SumEmpty DEF Bins
<1> QED  BY <1>2, <1>4, <1>7, <1>8 DEF dated, bare

LEMMA TotalWithoutBatch ==
  ASSUME NEW bin \in Bins
  PROVE  WithoutBatch(bin) \in Bins /\ Total(WithoutBatch(bin)) = Total(bin)
<1> DEFINE expiries == Days \cup {Undated}
           key == [lot \in Lots |-> lot.expiry]
           byDay == [e \in expiries |-> SumOver(bin, Group(Lots, key, e))]
           bare == WithoutBatch(bin)
<1>1. \A lot \in Lots : key[lot] \in expiries
  BY DEF Lots
<1>2. \A e \in expiries : Group(Lots, key, e) = {lot \in Lots : lot.expiry = e}
  BY DEF Group
<1>3. Undated \in expiries
  OBVIOUS
<1>4. bare \in Bins
  BY <1>3, ExpiriesSurvive
<1>5. \A e \in expiries : byDay[e] = SumOver(bare, Group(Lots, key, e))
  BY <1>2, ExpiriesSurvive
<1>6. \A lot \in Lots : bin[lot] \in Int /\ bare[lot] \in Int
  BY <1>4 DEF Bins
<1>7. IsFiniteSet(expiries)
  <2>1. IsFiniteSet(1 .. LastDay)
    BY DayAssumption, FS_Interval
  <2> QED  BY <2>1, FS_AddElement DEF Days
<1>8. \A e \in expiries : byDay[e] = SumOver(bin, Group(Lots, key, e))
  OBVIOUS
<1> HIDE DEF expiries, key, byDay, bare
<1>9. SumOver(bin, Lots) = SumOver(byDay, expiries)
  BY <1>1, <1>6, <1>7, <1>8, LotsAreFinite, SumByKey
<1>10. SumOver(bare, Lots) = SumOver(byDay, expiries)
  BY <1>1, <1>5, <1>6, <1>7, LotsAreFinite, SumByKey
<1> QED  BY <1>4, <1>9, <1>10 DEF Total, bare

================================================================================
