------------------------------ MODULE MC_PosOrders ------------------------------
(* Small instances of PosOrders for TLC. *)
EXTENDS PosOrders, TLC

CONSTANTS p1, p2

ThreadSymmetry == Permutations(Threads)

\* One unit of each product from the shelf, and one of the first made to order:
\* with a kitchen the order outruns the stock of the first product only.
OneEach == [o \in Orders |-> [p \in Products |-> 1]]
OneFresh == [o \in Orders |-> [p \in Products |-> IF p = p1 THEN 1 ELSE 0]]
OneOnHand == [p \in Products |-> 1]

================================================================================
