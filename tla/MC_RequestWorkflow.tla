-------------------------- MODULE MC_RequestWorkflow --------------------------
(* Small instances of RequestWorkflow for TLC. *)
EXTENDS RequestWorkflow, TLC

CONSTANTS r1, r2, r3, l1, l2, p1, k1, w1, b1, t1, t2

ThreadSymmetry == Permutations(Threads)

Place(where, bin) ==
  [place \in Locations |->
    [p \in Products |-> IF place = where THEN bin ELSE EmptyBin]]

AllLines(value) == [l \in Lines |-> value]
Ask(type, source, resale, amounts) ==
  [type |-> type, source |-> source, resaleOnly |-> resale,
   product |-> AllLines(p1), requested |-> amounts]

\* A kitchen draws a product from a warehouse, which holds a batch good for one
\* day and a lot that keeps, while a branch orders two lines of it from that
\* kitchen, which has half of what it needs;
\* by itself, a purchase order of two units on its first line and one on the
\* second.
LinesDoc ==
  [r \in Requests |->
     CASE r = r1 -> Ask("BRANCH_TO_ADMIN", b1, FALSE, AllLines(1))
       [] r = r2 -> Ask("KITCHEN_TO_WAREHOUSE", k1, FALSE, AllLines(1))
       [] OTHER -> Ask("WAREHOUSE_TO_ADMIN_PO", w1, FALSE,
                       [l \in Lines |-> IF l = l1 THEN 2 ELSE 1])]
LinesStock ==
  [Place(w1, [lot \in Lots |-> IF lot.expiry = (IF lot.batch = NoBatch THEN Undated ELSE 1)
                               THEN 1 ELSE 0])
     EXCEPT ![k1] = [p \in Products |-> PutIn(EmptyBin, UnbatchedLot, 1)]]

\* The chain is worked off by one call at a time, the purchase order by two and
\* within a day; no call gives the order a destination it has no use for, or a
\* batch or date.
OneStory ==
  \/ status[r3] = Absent /\ Cardinality({t \in Threads : call[t] # Idle}) <= 1
  \/ /\ status[r1] = Absent /\ status[r2] = Absent /\ hasKitchen /\ today = 1
     /\ target[r3] = NoTarget
     /\ \A t \in Threads : call[t] # Idle =>
          call[t].target = NoTarget /\ call[t].lot = UnbatchedLot

\* A purchase order of two units on its first line and one on the second.
PurchaseDoc ==
  [r \in Requests |->
     Ask("WAREHOUSE_TO_ADMIN_PO", w1, FALSE,
         [l \in Lines |-> IF l = l1 THEN 2 ELSE 1])]
NoStock == Place(w1, EmptyBin)

Nowhere == {}
KitchenOnly == {k1}

================================================================================
