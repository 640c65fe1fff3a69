------------------------------ MODULE MC_Shelves ------------------------------
(* Two transactions on one product: a row of an undated lot, and a row still   *)
(* to be inserted, whose lot may be sold today for the last time.  It is        *)
(* received later, so the order of the ids is not the order of the dates.  A     *)
(* sale of one product is a dispatch of one line, and is left to MC_Shop.        *)
EXTENDS LedgerOnShelves, TLC

ThreadSymmetry == Permutations(Threads)

Key(day) == [product |-> 1, batch |-> NoBatch, expiry |-> day]
ShelfKeys == [row \in Rows |-> IF row = 1 THEN Key(Undated) ELSE Unused]
ShelfQty == [row \in Rows |-> IF row = 1 THEN 1 ELSE 0]
OneOrTwoLines ==
  {<<[product |-> 1, q |-> 1]>>, <<[product |-> 1, q |-> 1], [product |-> 1, q |-> 1]>>}
===============================================================================
