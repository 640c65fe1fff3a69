--------------------------- MODULE LedgerOnShelves ---------------------------
(***************************************************************************)
(* The ledger of rows, locks and transactions keeps the promise of Shelves. *)
(* A lot's quantity is that of its row, and a caller waits while it has a   *)
(* transaction that draws.  One history variable records, for each of them, *)
(* whether a lot grew since the transaction began: the snapshot of a line   *)
(* does not have it, or has it under another expiry.                        *)
(***************************************************************************)
EXTENDS StockLedger

VARIABLE stirred

KeyOf(p, lot) == [product |-> p, batch |-> lot.batch, expiry |-> lot.expiry]
OnHand ==
  [p \in Products |-> [lot \in Lots |-> SumOver(qty, {row \in Rows : key[row] = KeyOf(p, lot)})]]

Asked ==
  [t \in Threads |-> IF Drawing(t) THEN [kind |-> job[t].kind, doc |-> job[t].doc]
                     ELSE [kind |-> "none"]]

Shelf == INSTANCE Shelves WITH Callers <- Threads, bins <- OnHand, asked <- Asked

LotGrows ==
  LET old == OnHand  new == OnHand'
  IN  \E p \in Products, lot \in Lots : new[p][lot] > old[p][lot]

WatchedInit == Init /\ stirred = {}
WatchedNext ==
  /\ Next
  /\ stirred' = {t \in Threads : Drawing(t)' /\ (t \in stirred \/ LotGrows)}
WatchedSpec == WatchedInit /\ [][WatchedNext]_<<vars, stirred>>

\* A document's goods leave as if in one step, although its lines are opened, its
\* rows locked and its quantities taken one by one while others do the same, and
\* while goods are received, adjusted, counted and re-dated: exactly what was asked
\* leaves, from lots still good when it does, and first expired first out unless a
\* lot grew meanwhile.
DrawsAreAtomic == Shelf!ShelfSpec
=============================================================================
