---------------------------- MODULE MC_StockLedger ----------------------------
(* Small instances of StockLedger for TLC. *)
EXTENDS StockLedger, TLC

ThreadSymmetry == Permutations(Threads)

Key(product, day) == [product |-> product, batch |-> NoBatch, expiry |-> day]

\* A lot without a date, and a row to insert.
ShelfKeys == [row \in Rows |-> IF row = 1 THEN Key(1, Undated) ELSE Unused]
ShelfQty == [row \in Rows |-> IF row = 1 THEN 1 ELSE 0]

\* One lot of each product.
PairKeys == [row \in Rows |-> IF row <= 2 THEN Key(row, 2) ELSE Unused]
PairQty == [row \in Rows |-> IF row <= 2 THEN 2 ELSE 0]

\* A single lot, to be counted, and a row to insert.
CountKeys == [row \in Rows |-> IF row = 1 THEN Key(1, 2) ELSE Unused]
CountQty == [row \in Rows |-> IF row = 1 THEN 2 ELSE 0]

OneProduct == {<<[product |-> 1, q |-> 1]>>}
OnceOrTwice ==
  OneProduct \cup {<<[product |-> 1, q |-> 1], [product |-> 1, q |-> 1]>>}
BothWays ==
  {<<[product |-> 1, q |-> 1], [product |-> 2, q |-> 1]>>,
   <<[product |-> 2, q |-> 1], [product |-> 1, q |-> 1]>>}

================================================================================
