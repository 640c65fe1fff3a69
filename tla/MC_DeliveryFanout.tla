--------------------------- MODULE MC_DeliveryFanout ---------------------------
(* Small instances of DeliveryFanout for TLC. *)
EXTENDS DeliveryFanout

CONSTANTS r1, r2, l1, l2, p1, b1, b2, t1, t2

Symmetry == Permutations(Threads) \cup Permutations(Branches)

Announce(amounts) == [product |-> [l \in Lines |-> p1], requested |-> amounts]

\* One batch of two lines of one product; the goods are all there.
SplitDoc == [r \in Requests |-> Announce([l \in Lines |-> IF l = l1 THEN 2 ELSE 1])]
SplitStock == [p \in Products |-> PutIn(EmptyBin, UnbatchedLot, 3)]

\* Two batches announced against the same goods, of which some expire.
CompeteDoc == [r \in Requests |-> Announce([l \in Lines |-> 2])]
CompeteStock ==
  [p \in Products |-> [lot \in Lots |-> 1]]

================================================================================
