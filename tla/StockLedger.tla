------------------------------ MODULE StockLedger ------------------------------
(***************************************************************************)
(* The single write path for stock, app/services/inventory.py, at the grain *)
(* of database rows, row locks and transactions, with the stock count of    *)
(* app/services/stock_counts.py that goes through it.                       *)
(*                                                                         *)
(* A transaction that draws several products first-expired-first-out is     *)
(* many steps: each line takes the snapshot of its SELECT ... FOR UPDATE,   *)
(* locks the rows of that snapshot one by one (re-checking the WHERE clause *)
(* on the version it finally gets, but not the ORDER BY), and keeps every   *)
(* lock to the end.  A write to one row is a single step: it waits for the  *)
(* lock, reads the row it locked and commits.                               *)
(*                                                                         *)
(* The location is fixed: rows of other locations share nothing with it.    *)
(***************************************************************************)
EXTENDS StockLots

CONSTANTS
  RowCount,   \* inventory rows, numbered by their ids
  Products,   \* product ids, numbers: sort_lock_order compares them
  Threads,
  Free,       \* an unlocked row
  Unused,     \* a row not yet inserted
  Idle,       \* a thread without a transaction
  InitKey,    \* product, batch and expiry of the rows there are
  InitQty,
  Docs,       \* documents drawn in one transaction: line number -> product, q
  Ops,        \* the operations clients call
  Today,
  MaxQuantity,\* bound on a receipt, an adjustment and a counted quantity
  MaxOnHand   \* bound on the quantity of a row and the sum of its movements

Rows == 1 .. RowCount
Kinds == {"sale", "dispatch", "waste"}
Amounts == 0 .. MaxQuantity
Keys == [product : Products, batch : Batches, expiry : Days \cup {Undated}]

ASSUME RowsAssumption ==
  /\ RowCount \in Nat
  /\ Products \subseteq Nat
  /\ MaxQuantity \in Nat /\ MaxOnHand \in Nat
  /\ Today \in Days
ASSUME InitAssumption ==
  /\ InitKey \in [Rows -> Keys \cup {Unused}]
  /\ InitQty \in [Rows -> Nat]
  /\ \A row \in Rows : InitKey[row] = Unused => InitQty[row] = 0
  /\ \A row, other \in Rows :
       InitKey[row] # Unused /\ InitKey[row] = InitKey[other] => row = other
ASSUME DocsAssumption ==
  \A doc \in Docs : /\ DOMAIN doc \subseteq Nat \ {0} /\ IsFiniteSet(DOMAIN doc)
                    /\ \A i \in DOMAIN doc : /\ doc[i].product \in Products
                                             /\ doc[i].q \in Nat
ASSUME MarkersAssumption ==
  /\ Unused \notin Keys
  /\ Free \notin Threads

VARIABLES
  key,        \* what each row is about, or Unused
  qty,        \* inventory_items.quantity
  moved,      \* the sum of the movements written for the row
  lockedBy,   \* the transaction that holds the row
  job         \* what each thread is doing

vars == <<key, qty, moved, lockedBy, job>>

\* A draw in progress.  "rank" is the expiry order of the line's snapshot.
DrawJobs ==
  [kind : Kinds, doc : Docs, todo : SUBSET Nat, cur : Nat,
   plan : SUBSET Rows, usable : SUBSET Rows,
   rank : [Rows -> 0 .. Undated], draw : [Rows -> Nat]]
\* A stock count between its unlocked read and its adjustment.
CountJobs ==
  [kind : {"count"}, product : Products, batch : Batches,
   row : 0 .. RowCount, seen : Nat, counted : Amounts]

ASSUME IdleAssumption == Idle \notin DrawJobs \cup CountJobs

TypeOK ==
  /\ key \in [Rows -> Keys \cup {Unused}]
  /\ qty \in [Rows -> Nat]
  /\ moved \in [Rows -> Int]
  /\ lockedBy \in [Rows -> Threads \cup {Free}]
  /\ job \in [Threads -> DrawJobs \cup CountJobs \cup {Idle}]

Init ==
  /\ key = InitKey
  /\ qty = InitQty
  /\ moved = [row \in Rows |-> 0]
  /\ lockedBy = [row \in Rows |-> Free]
  /\ job = [t \in Threads |-> Idle]

Drawing(t) == job[t] # Idle /\ job[t].kind \in Kinds
Counting(t) == job[t] # Idle /\ job[t].kind = "count"

--------------------------------------------------------------------------------
(* Drawing: apply_dispatch_fefo, apply_sale_deduction and                   *)
(* mark_waste_or_expiry_fefo, one call per line of a document               *)

\* An order adds up its lines by product first, a dispatch does not.
Begin(t, kind, doc) ==
  /\ kind \in Ops
  /\ job[t] = Idle
  /\ kind = "sale" =>
       \A i, j \in DOMAIN doc : doc[i].product = doc[j].product => i = j
  /\ job' = [job EXCEPT ![t] =
       [kind |-> kind, doc |-> doc, todo |-> DOMAIN doc, cur |-> 0,
        plan |-> {}, usable |-> {}, rank |-> [row \in Rows |-> 0],
        draw |-> [row \in Rows |-> 0]]]
  /\ UNCHANGED <<key, qty, moved, lockedBy>>

\* Sales go through sort_lock_order; a dispatch follows its document.
DocumentOrder(h) == {i \in h.todo : \A j \in h.todo : i <= j}
NextLines(h) ==
  IF h.kind = "sale"
  THEN {i \in h.todo : \A j \in h.todo : h.doc[i].product <= h.doc[j].product}
  ELSE DocumentOrder(h)

\* The WHERE clause; only waste reaches expired lots.
QuantityRead(h, row) == qty[row]
Left(h, row) == qty[row] - h.draw[row]
Matches(h, line, row) ==
  /\ key[row] # Unused
  /\ key[row].product = h.doc[line].product
  /\ Left(h, row) > 0
  /\ h.kind = "waste" \/ key[row].expiry >= Today

OpenLine(t) ==
  /\ Drawing(t)
  /\ job[t].cur = 0
  /\ \E i \in NextLines(job[t]) :
       LET found == {row \in Rows : Matches(job[t], i, row)}
       IN job' = [job EXCEPT ![t].cur = i,
                    ![t].plan = found,
                    ![t].rank = [row \in Rows |-> IF row \in found
                                                  THEN key[row].expiry ELSE 0]]
  /\ UNCHANGED <<key, qty, moved, lockedBy>>

\* MUTANT of Before: the order of the ids alone.
BeforeById(h, row, other) == row <= other
\* ORDER BY expiry, undated last, then id.
Before(h, row, other) ==
  \/ h.rank[row] < h.rank[other]
  \/ h.rank[row] = h.rank[other] /\ row <= other
FirstOf(h) == {row \in h.plan : \A other \in h.plan : Before(h, row, other)}

MayLock(t, row) == lockedBy[row] \in {Free, t}

LockWithoutRecheck(t) ==
  /\ Drawing(t)
  /\ \E row \in FirstOf(job[t]) :
       /\ MayLock(t, row)
       /\ lockedBy' = [lockedBy EXCEPT ![row] = t]
       /\ job' = [job EXCEPT ![t].plan = @ \ {row}, ![t].usable = @ \cup {row}]
  /\ UNCHANGED <<key, qty, moved>>
LockRow(t) ==
  /\ Drawing(t)
  /\ \E row \in FirstOf(job[t]) :
       /\ MayLock(t, row)
       /\ lockedBy' = [lockedBy EXCEPT ![row] = t]
       /\ job' = [job EXCEPT ![t].plan = @ \ {row},
                    ![t].usable = IF Matches(job[t], job[t].cur, row)
                                  THEN @ \cup {row} ELSE @]
  /\ UNCHANGED <<key, qty, moved>>

\* The loop over the locked rows: each gives min(quantity, remaining).
Takes(h) ==
  LET q == h.doc[h.cur].q
  IN {take \in [Rows -> 0 .. q] :
        /\ \A row \in Rows :
             take[row] <= IF row \in h.usable THEN Left(h, row) ELSE 0
        /\ SumOver(take, Rows) = q
        /\ \A row, later \in h.usable :
             /\ row # later
             /\ Before(h, row, later)
             /\ take[later] > 0
             => take[row] = Left(h, row)}

DrawLine(t) ==
  /\ Drawing(t)
  /\ job[t].cur # 0
  /\ job[t].plan = {}
  /\ \E take \in Takes(job[t]) :
       job' = [job EXCEPT
                 ![t].draw = [row \in Rows |-> @[row] + take[row]],
                 ![t].todo = @ \ {job[t].cur},
                 ![t].cur = 0,
                 ![t].usable = {},
                 ![t].rank = [row \in Rows |-> 0]]
  /\ UNCHANGED <<key, qty, moved, lockedBy>>

Released(t) == [row \in Rows |-> IF lockedBy[row] = t THEN Free ELSE lockedBy[row]]

CommitDraw(t) ==
  /\ Drawing(t)
  /\ job[t].cur = 0
  /\ job[t].todo = {}
  /\ qty' = [row \in Rows |-> qty[row] - job[t].draw[row]]
  /\ moved' = [row \in Rows |-> moved[row] - job[t].draw[row]]
  /\ lockedBy' = Released(t)
  /\ job' = [job EXCEPT ![t] = Idle]
  /\ UNCHANGED key

\* Short stock, a later failure, a deadlock victim or a lost connection.
Rollback(t) ==
  /\ job[t] # Idle
  /\ lockedBy' = Released(t)
  /\ job' = [job EXCEPT ![t] = Idle]
  /\ UNCHANGED <<key, qty, moved>>

--------------------------------------------------------------------------------
(* Writes to one row: _apply_delta *)

RowsOf(product, batch) ==
  {row \in Rows : key[row] # Unused /\ key[row].product = product
                  /\ key[row].batch = batch}

\* The quantity and its movement, on a row nobody holds.
WriteWithoutMovement(row, delta) ==
  /\ lockedBy[row] = Free
  /\ qty[row] + delta \in 0 .. MaxOnHand
  /\ qty' = [qty EXCEPT ![row] = @ + delta]
  /\ UNCHANGED <<moved, lockedBy>>
Write(row, delta) ==
  /\ lockedBy[row] = Free
  /\ qty[row] + delta \in 0 .. MaxOnHand
  /\ qty' = [qty EXCEPT ![row] = @ + delta]
  /\ moved' = [moved EXCEPT ![row] = @ + delta]
  /\ UNCHANGED lockedBy

\* The upsert: a new row under the next id.
InsertBlindly(row, k, q) ==
  /\ key[row] = Unused
  /\ \A other \in Rows : key[other] = Unused => row <= other
  /\ key' = [key EXCEPT ![row] = k]
  /\ qty' = [qty EXCEPT ![row] = q]
  /\ moved' = [moved EXCEPT ![row] = @ + q]
  /\ UNCHANGED lockedBy
Insert(row, k, q) ==
  /\ key[row] = Unused
  /\ \A other \in Rows : key[other] = Unused => row <= other
  /\ \A other \in Rows : key[other] # k
  /\ key' = [key EXCEPT ![row] = k]
  /\ qty' = [qty EXCEPT ![row] = q]
  /\ moved' = [moved EXCEPT ![row] = @ + q]
  /\ UNCHANGED lockedBy

\* receive_stock: the row of exactly this batch and expiry, or a new one.
Receive(k, q) ==
  /\ "receive" \in Ops
  /\ \/ \E row \in Rows : key[row] = k /\ Write(row, q) /\ UNCHANGED key
     \/ \E row \in Rows : Insert(row, k, q)
  /\ UNCHANGED job

\* adjust_stock and mark_waste_or_expiry: the one row of the batch, whatever
\* its expiry; two of them raise.  Only a gain may create a row, undated.
Adjust(product, batch, delta) ==
  /\ "adjust" \in Ops
  /\ \/ \E row \in Rows :
          RowsOf(product, batch) = {row} /\ Write(row, delta) /\ UNCHANGED key
     \/ /\ RowsOf(product, batch) = {}
        /\ delta > 0
        /\ \E row \in Rows :
             Insert(row, [product |-> product, batch |-> batch,
                          expiry |-> Undated], delta)
  /\ UNCHANGED job

\* update_expiry: no lock is taken to read, but the UPDATE waits for one; the
\* unique index refuses a second row of the same product, batch and expiry.
UpdateExpiry(row, day) ==
  /\ "expiry" \in Ops
  /\ key[row] # Unused
  /\ lockedBy[row] = Free
  /\ \A other \in Rows : key[other] # [key[row] EXCEPT !.expiry = day]
  /\ key' = [key EXCEPT ![row].expiry = day]
  /\ UNCHANGED <<qty, moved, lockedBy, job>>

--------------------------------------------------------------------------------
(* submit_count *)

\* The row is read into the session without a lock (0: there is none).
ReadForCount(t, product, batch, counted) ==
  /\ "count" \in Ops
  /\ job[t] = Idle
  /\ \E row \in 0 .. RowCount :
       /\ RowsOf(product, batch) = IF row = 0 THEN {} ELSE {row}
       /\ job' = [job EXCEPT ![t] =
            [kind |-> "count", product |-> product, batch |-> batch, row |-> row,
             seen |-> IF row = 0 THEN 0 ELSE qty[row], counted |-> counted]]
  /\ UNCHANGED <<key, qty, moved, lockedBy>>

\* adjust_stock by the variance.  The session already holds the row, so the
\* locking read does not refresh it: the new quantity is what was seen plus the
\* variance, while the movement says the variance.
CommitCount(t) ==
  /\ Counting(t)
  /\ LET h == job[t]
         variance == h.counted - h.seen
     IN \/ variance = 0 /\ UNCHANGED <<key, qty, moved, lockedBy>>
        \/ /\ variance # 0
           /\ h.row # 0
           /\ RowsOf(h.product, h.batch) = {h.row}
           /\ lockedBy[h.row] = Free
           /\ moved[h.row] + variance \in -MaxOnHand .. MaxOnHand
           /\ qty' = [qty EXCEPT ![h.row] = h.seen + variance]
           /\ moved' = [moved EXCEPT ![h.row] = @ + variance]
           /\ UNCHANGED <<key, lockedBy>>
        \/ /\ variance # 0
           /\ h.row = 0
           /\ \/ \E row \in Rows : /\ RowsOf(h.product, h.batch) = {row}
                                   /\ Write(row, variance)
                                   /\ UNCHANGED key
              \/ /\ RowsOf(h.product, h.batch) = {}
                 /\ variance > 0
                 /\ \E row \in Rows :
                      Insert(row, [product |-> h.product, batch |-> h.batch,
                                   expiry |-> Undated], variance)
  /\ job' = [job EXCEPT ![t] = Idle]

Next ==
  \/ \E t \in Threads, kind \in Kinds, doc \in Docs : Begin(t, kind, doc)
  \/ \E t \in Threads :
       \/ OpenLine(t) \/ LockRow(t) \/ DrawLine(t)
       \/ CommitDraw(t) \/ Rollback(t) \/ CommitCount(t)
  \/ \E t \in Threads, product \in Products, batch \in Batches, n \in Amounts :
       ReadForCount(t, product, batch, n)
  \/ \E k \in Keys, q \in Amounts \ {0} : Receive(k, q)
  \/ \E product \in Products, batch \in Batches,
        delta \in (-MaxQuantity .. MaxQuantity) \ {0} :
       Adjust(product, batch, delta)
  \/ \E row \in Rows, day \in Days \cup {Undated} : UpdateExpiry(row, day)

Spec == Init /\ [][Next]_vars

--------------------------------------------------------------------------------
(* Properties *)

\* Every change of a row is in the movement ledger: on hand is what there was
\* plus the movements, so no two writers ever worked from one reading of a row.
LedgerAccountsForStock ==
  \A row \in Rows : qty[row] = InitQty[row] + moved[row]

\* What a transaction has drawn so far is still there, behind its own locks: it
\* will commit without overselling whatever the others do (no oversell).
DrawsAreCovered ==
  \A t \in Threads : Drawing(t) =>
    \A row \in Rows : job[t].draw[row] > 0 =>
      lockedBy[row] = t /\ job[t].draw[row] <= qty[row]

\* Nothing past its expiry day is sold or dispatched, also when the expiry is
\* edited between the reading of a lot and its locking.
ShipsNothingExpired ==
  \A t \in Threads : Drawing(t) /\ job[t].kind # "waste" =>
    \A row \in Rows : job[t].draw[row] > 0 =>
      key[row] # Unused /\ key[row].expiry >= Today

\* A draw stays good until it commits: its goods are there and fit to leave.
DrawsAreSound == DrawsAreCovered /\ ShipsNothingExpired

\* A lot is one row: the partial unique indexes hold against every upsert and
\* expiry edit.
LotsAreUnique ==
  \A row, other \in Rows :
    key[row] # Unused /\ key[row] = key[other] => row = other

\* What a thread is waiting for.
WaitsFor(t, u) ==
  /\ t # u
  /\ Drawing(t)
  /\ \E row \in FirstOf(job[t]) : lockedBy[row] = u

\* The docstring of sort_lock_order: one order for every caller, so that
\* transactions which touch the same products never wait for each other in turn.
NoWaitCycle == \A t, u \in Threads : ~(WaitsFor(t, u) /\ WaitsFor(u, t))

================================================================================
