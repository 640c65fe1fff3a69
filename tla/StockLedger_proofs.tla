--------------------------- MODULE StockLedger_proofs ---------------------------
(***************************************************************************)
(* The stock write path for any number of rows, products, documents and     *)
(* transactions.  The invariant says what a transaction in progress owns:   *)
(* the rows it may use and the rows it has drawn from are locked by it, and *)
(* a locked row changes under nobody else's hands (Rely).  The second half  *)
(* shows that the ledger keeps the promise of Shelves: what a transaction   *)
(* has drawn is what its lines asked, in the order of its snapshots as long *)
(* as no lot grew (ShelfInv), so its commit is one draw from the shelves.   *)
(***************************************************************************)
EXTENDS LedgerOnShelves, StockLots_proofs

--------------------------------------------------------------------------------
(* The inductive invariant *)

Fresh(h, row) == key[row] # Unused /\ (h.kind = "waste" \/ key[row].expiry >= Today)

DrawOK(t) ==
  Drawing(t) =>
    /\ job[t].todo \subseteq DOMAIN job[t].doc
    /\ job[t].cur \in {0} \cup DOMAIN job[t].doc
    /\ \A row \in job[t].usable : lockedBy[row] = t /\ Fresh(job[t], row)
    /\ \A row \in Rows : job[t].draw[row] > 0 =>
         /\ lockedBy[row] = t
         /\ job[t].draw[row] <= qty[row]
         /\ Fresh(job[t], row)

LedgerInv ==
  /\ TypeOK
  /\ \A t \in Threads : DrawOK(t)
  /\ LotsAreUnique

\* What a transaction may count on while the others work.
Rely(t) ==
  /\ job'[t] = job[t]
  /\ \A row \in Rows : lockedBy[row] = t =>
       lockedBy'[row] = t /\ qty'[row] = qty[row] /\ key'[row] = key[row]

--------------------------------------------------------------------------------
(* Lemmas *)

LEMMA RowFacts == Rows \subseteq Nat /\ 0 \notin Rows
BY RowsAssumption DEF Rows

LEMMA KindOfJob ==
  ASSUME TypeOK, NEW t \in Threads
  PROVE  /\ Drawing(t) => job[t] \in DrawJobs
         /\ Counting(t) => job[t] \in CountJobs
         /\ ~(Drawing(t) /\ Counting(t))
BY DEF TypeOK, Drawing, Counting, DrawJobs, CountJobs, Kinds

LEMMA RelyKeepsDraws ==
  ASSUME TypeOK, NEW t \in Threads, DrawOK(t), Rely(t)
  PROVE  DrawOK(t)'
<1>1. Drawing(t)' => Drawing(t)
  BY DEF Rely, Drawing
<1>2. Drawing(t) => job[t] \in DrawJobs
  BY KindOfJob
<1> QED  BY <1>1, <1>2 DEF Rely, DrawOK, Fresh, DrawJobs

\* A thread without a draw in progress has nothing to keep.
LEMMA NoDraw ==
  ASSUME NEW t \in Threads, job'[t] = Idle \/ job'[t].kind \notin Kinds
  PROVE  DrawOK(t)'
BY DEF DrawOK, Drawing

\* A thread with a draw in hand is told apart from one without a transaction.
LEMMA BusyIsDrawing ==
  ASSUME TypeOK, NEW t \in Threads, NEW h \in DrawJobs, job' = [job EXCEPT ![t] = h]
  PROVE  Drawing(t)'
<1>1. job'[t] = h
  BY DEF TypeOK
<1> QED  BY <1>1, IdleAssumption DEF Drawing, DrawJobs

LEMMA InitLedger == Init => LedgerInv
<1> SUFFICES ASSUME Init  PROVE LedgerInv
  OBVIOUS
<1>1. TypeOK
  BY InitAssumption DEF Init, TypeOK
<1>2. \A t \in Threads : DrawOK(t)
  BY DEF Init, DrawOK, Drawing
<1>3. LotsAreUnique
  BY InitAssumption DEF Init, LotsAreUnique
<1> QED  BY <1>1, <1>2, <1>3 DEF LedgerInv

--------------------------------------------------------------------------------
(* The draw, step by step *)

LEMMA BeginStep ==
  ASSUME LedgerInv, NEW t \in Threads, NEW kind \in Kinds, NEW doc \in Docs,
         Begin(t, kind, doc)
  PROVE  LedgerInv' /\ Drawing(t)'
<1> USE DEF LedgerInv
<1> DEFINE h == [kind |-> kind, doc |-> doc, todo |-> DOMAIN doc, cur |-> 0,
                 plan |-> {}, usable |-> {}, rank |-> [row \in Rows |-> 0],
                 draw |-> [row \in Rows |-> 0]]
<1>1. job' = [job EXCEPT ![t] = h] /\ UNCHANGED <<key, qty, moved, lockedBy>>
  BY DEF Begin
<1>2. h \in DrawJobs
  BY DocsAssumption, DayAssumption DEF DrawJobs, Undated
<1>3. TypeOK'
  BY <1>1, <1>2 DEF TypeOK
<1>4. DrawOK(t)'
  BY <1>1, <1>2 DEF TypeOK, DrawOK, Fresh
<1>5. \A u \in Threads : u # t => Rely(u)
  BY <1>1 DEF TypeOK, Rely
<1>6. Drawing(t)'
  <2> HIDE DEF h
  <2> QED  BY <1>1, <1>2, BusyIsDrawing
<1> QED  BY <1>1, <1>3, <1>4, <1>5, <1>6, RelyKeepsDraws DEF LotsAreUnique

LEMMA OpenLineStep ==
  ASSUME LedgerInv, NEW t \in Threads, OpenLine(t)
  PROVE  LedgerInv' /\ Drawing(t)'
<1> USE DEF LedgerInv
<1>1. PICK i \in NextLines(job[t]) :
        LET found == {row \in Rows : Matches(job[t], i, row)}
        IN job' = [job EXCEPT ![t].cur = i,
                     ![t].plan = found,
                     ![t].rank = [row \in Rows |-> IF row \in found
                                                   THEN key[row].expiry ELSE 0]]
  BY DEF OpenLine
<1>2. Drawing(t) /\ job[t] \in DrawJobs /\ UNCHANGED <<key, qty, moved, lockedBy>>
  BY KindOfJob DEF OpenLine
<1> DEFINE found == {row \in Rows : Matches(job[t], i, row)}
           rank == [row \in Rows |-> IF row \in found THEN key[row].expiry ELSE 0]
           h == [job[t] EXCEPT !.cur = i, !.plan = found, !.rank = rank]
<1>3. job' = [job EXCEPT ![t] = h]
  BY <1>1, <1>2 DEF TypeOK
<1>4. i \in job[t].todo /\ i \in DOMAIN job[t].doc
  BY <1>2 DEF NextLines, DocumentOrder, DrawOK
<1>5. rank \in [Rows -> 0 .. Undated]
  <2>1. \A row \in found : key[row] \in Keys
    BY DEF TypeOK, Matches
  <2> QED  BY <2>1, DayAssumption DEF Keys, Days, Undated
<1>6. h \in DrawJobs
  BY <1>2, <1>4, <1>5, DocsAssumption DEF DrawJobs
<1>7. TypeOK'
  BY <1>2, <1>3, <1>6 DEF TypeOK
<1>8. DrawOK(t)'
  <2>1. job'[t] = h
    BY <1>3 DEF TypeOK
  <2> QED  BY <1>2, <1>4, <2>1 DEF DrawOK, Fresh, DrawJobs
<1>9. \A u \in Threads : u # t => Rely(u)
  BY <1>2, <1>3 DEF TypeOK, Rely
<1>10. Drawing(t)'
  <2> HIDE DEF h
  <2> QED  BY <1>3, <1>6, BusyIsDrawing
<1> QED  BY <1>2, <1>7, <1>8, <1>9, <1>10, RelyKeepsDraws DEF LotsAreUnique

LEMMA LockRowStep ==
  ASSUME LedgerInv, NEW t \in Threads, LockRow(t)
  PROVE  LedgerInv' /\ Drawing(t)'
<1> USE DEF LedgerInv
<1>1. PICK row \in FirstOf(job[t]) :
        /\ MayLock(t, row)
        /\ lockedBy' = [lockedBy EXCEPT ![row] = t]
        /\ job' = [job EXCEPT ![t].plan = @ \ {row},
                     ![t].usable = IF Matches(job[t], job[t].cur, row)
                                   THEN @ \cup {row} ELSE @]
  BY DEF LockRow
<1>2. Drawing(t) /\ job[t] \in DrawJobs /\ UNCHANGED <<key, qty, moved>>
  BY KindOfJob DEF LockRow
<1> DEFINE usable == IF Matches(job[t], job[t].cur, row)
                     THEN job[t].usable \cup {row} ELSE job[t].usable
           h == [job[t] EXCEPT !.plan = @ \ {row}, !.usable = usable]
<1>3. job' = [job EXCEPT ![t] = h] /\ row \in Rows
  BY <1>1, <1>2 DEF TypeOK, FirstOf, DrawJobs
<1>4. h \in DrawJobs
  BY <1>2, <1>3 DEF DrawJobs
<1>5. TypeOK'
  BY <1>1, <1>2, <1>3, <1>4 DEF TypeOK
<1>6. DrawOK(t)'
  <2>1. job'[t] = h /\ lockedBy'[row] = t
    BY <1>1, <1>3 DEF TypeOK
  <2>2. \A other \in Rows : lockedBy[other] = t => lockedBy'[other] = t
    BY <1>1, <1>3 DEF TypeOK
  <2>3. Matches(job[t], job[t].cur, row) => Fresh(job[t], row)
    BY DEF Matches, Fresh
  <2> QED  BY <1>2, <1>3, <2>1, <2>2, <2>3 DEF DrawOK, Fresh, DrawJobs
<1>7. \A u \in Threads : u # t => Rely(u)
  BY <1>1, <1>2, <1>3, MarkersAssumption DEF TypeOK, Rely, MayLock
<1>8. Drawing(t)'
  <2> HIDE DEF h
  <2> QED  BY <1>3, <1>4, BusyIsDrawing
<1> QED  BY <1>2, <1>5, <1>6, <1>7, <1>8, RelyKeepsDraws DEF LotsAreUnique

LEMMA DrawLineStep ==
  ASSUME LedgerInv, NEW t \in Threads, DrawLine(t)
  PROVE  LedgerInv' /\ Drawing(t)'
<1> USE DEF LedgerInv
<1>1. PICK take \in Takes(job[t]) :
        job' = [job EXCEPT
                 ![t].draw = [row \in Rows |-> @[row] + take[row]],
                 ![t].todo = @ \ {job[t].cur},
                 ![t].cur = 0,
                 ![t].usable = {},
                 ![t].rank = [row \in Rows |-> 0]]
  BY DEF DrawLine
<1>2. /\ Drawing(t) /\ job[t] \in DrawJobs /\ UNCHANGED <<key, qty, moved, lockedBy>>
      /\ job[t].cur # 0
  BY KindOfJob DEF DrawLine
<1> DEFINE draw == [row \in Rows |-> job[t].draw[row] + take[row]]
           h == [job[t] EXCEPT !.draw = draw, !.todo = @ \ {job[t].cur}, !.cur = 0,
                               !.usable = {}, !.rank = [row \in Rows |-> 0]]
<1>3. job' = [job EXCEPT ![t] = h]
  BY <1>1, <1>2 DEF TypeOK
<1>4. \A row \in Rows :
        /\ take[row] \in Nat
        /\ take[row] <= IF row \in job[t].usable THEN Left(job[t], row) ELSE 0
  <2>1. job[t].doc[job[t].cur].q \in Nat
    BY <1>2, DocsAssumption DEF DrawOK, DrawJobs
  <2> QED  BY <2>1 DEF Takes
<1>5. draw \in [Rows -> Nat]
  BY <1>2, <1>4 DEF DrawJobs
<1>6. h \in DrawJobs
  <2>1. [row \in Rows |-> 0] \in [Rows -> 0 .. Undated]
    BY DayAssumption DEF Undated
  <2> HIDE DEF draw
  <2> QED  BY <1>2, <1>5, <2>1 DEF DrawJobs
<1>7. TypeOK'
  BY <1>2, <1>3, <1>6 DEF TypeOK
<1>8. DrawOK(t)'
  <2>1. job'[t] = h
    BY <1>3 DEF TypeOK
  <2>2. ASSUME NEW row \in Rows, draw[row] > 0
        PROVE  lockedBy[row] = t /\ draw[row] <= qty[row] /\ Fresh(job[t], row)
    <3>1. job[t].draw[row] \in Nat /\ qty[row] \in Nat
      BY <1>2 DEF DrawJobs, TypeOK
    <3>2. CASE row \in job[t].usable
      BY <1>2, <1>4, <3>1, <3>2 DEF DrawOK, Left
    <3>3. CASE row \notin job[t].usable
      <4>1. take[row] = 0 /\ draw[row] = job[t].draw[row]
        BY <1>4, <3>1, <3>3
      <4> QED  BY <1>2, <2>2, <4>1 DEF DrawOK
    <3> QED  BY <3>2, <3>3
  <2> QED  BY <1>2, <2>1, <2>2 DEF DrawOK, Fresh, DrawJobs
<1>9. \A u \in Threads : u # t => Rely(u)
  BY <1>2, <1>3 DEF TypeOK, Rely
<1>10. Drawing(t)'
  <2> HIDE DEF h
  <2> QED  BY <1>3, <1>6, BusyIsDrawing
<1> QED  BY <1>2, <1>7, <1>8, <1>9, <1>10, RelyKeepsDraws DEF LotsAreUnique

LEMMA CommitDrawStep ==
  ASSUME LedgerInv, NEW t \in Threads, CommitDraw(t)
  PROVE  LedgerInv'
<1> USE DEF LedgerInv
<1>1. /\ Drawing(t) /\ job[t] \in DrawJobs /\ job' = [job EXCEPT ![t] = Idle]
      /\ qty' = [row \in Rows |-> qty[row] - job[t].draw[row]]
      /\ moved' = [row \in Rows |-> moved[row] - job[t].draw[row]]
      /\ lockedBy' = Released(t) /\ UNCHANGED key
  BY KindOfJob DEF CommitDraw
<1>2. \A row \in Rows : /\ job[t].draw[row] \in Nat
                        /\ job[t].draw[row] <= qty[row]
                        /\ job[t].draw[row] # 0 => lockedBy[row] = t
  BY <1>1 DEF DrawJobs, DrawOK, TypeOK
<1>3. TypeOK'
  BY <1>1, <1>2 DEF TypeOK, Released
<1>4. DrawOK(t)'
  BY <1>1, NoDraw DEF TypeOK
<1>5. \A u \in Threads : u # t => Rely(u)
  BY <1>1, <1>2 DEF TypeOK, Rely, Released
<1> QED  BY <1>1, <1>3, <1>4, <1>5, RelyKeepsDraws DEF LotsAreUnique

LEMMA RollbackStep ==
  ASSUME LedgerInv, NEW t \in Threads, Rollback(t)
  PROVE  LedgerInv'
<1> USE DEF LedgerInv
<1>1. /\ job' = [job EXCEPT ![t] = Idle] /\ lockedBy' = Released(t)
      /\ UNCHANGED <<key, qty, moved>>
  BY DEF Rollback
<1>2. TypeOK'
  BY <1>1 DEF TypeOK, Released
<1>3. DrawOK(t)'
  BY <1>1, NoDraw DEF TypeOK
<1>4. \A u \in Threads : u # t => Rely(u)
  BY <1>1 DEF TypeOK, Rely, Released
<1> QED  BY <1>1, <1>2, <1>3, <1>4, RelyKeepsDraws DEF LotsAreUnique

--------------------------------------------------------------------------------
(* The writes to one row *)

LEMMA KeysOfLots ==
  ASSUME NEW product \in Products, NEW batch \in Batches
  PROVE  [product |-> product, batch |-> batch, expiry |-> Undated] \in Keys
BY DEF Keys

\* A write to a row nobody holds disturbs no draw.
LEMMA WriteStep ==
  ASSUME LedgerInv, NEW row \in Rows, NEW delta \in Int, Write(row, delta),
         UNCHANGED key
  PROVE  /\ qty' \in [Rows -> Nat] /\ moved' \in [Rows -> Int]
         /\ LotsAreUnique'
         /\ \A t \in Threads : job'[t] = job[t] => Rely(t)
<1> USE DEF LedgerInv
<1>1. qty' \in [Rows -> Nat] /\ moved' \in [Rows -> Int]
  BY RowsAssumption DEF Write, TypeOK
<1>2. LotsAreUnique'
  BY DEF LotsAreUnique
<1>3. ASSUME NEW t \in Threads, job'[t] = job[t]  PROVE Rely(t)
  BY <1>3, MarkersAssumption DEF Write, Rely, TypeOK
<1> QED  BY <1>1, <1>2, <1>3

LEMMA InsertStep ==
  ASSUME LedgerInv, NEW row \in Rows, NEW k \in Keys, NEW q \in Nat,
         Insert(row, k, q)
  PROVE  /\ key' \in [Rows -> Keys \cup {Unused}]
         /\ qty' \in [Rows -> Nat] /\ moved' \in [Rows -> Int]
         /\ LotsAreUnique'
         /\ \A t \in Threads : DrawOK(t) /\ job'[t] = job[t] => DrawOK(t)'
<1> USE DEF LedgerInv
<1>1. /\ key' = [key EXCEPT ![row] = k] /\ qty' = [qty EXCEPT ![row] = q]
      /\ moved' = [moved EXCEPT ![row] = @ + q] /\ UNCHANGED lockedBy
      /\ key[row] = Unused /\ \A other \in Rows : key[other] # k
  BY DEF Insert
<1>2. /\ key' \in [Rows -> Keys \cup {Unused}]
      /\ qty' \in [Rows -> Nat] /\ moved' \in [Rows -> Int]
  BY <1>1 DEF TypeOK
<1>3. LotsAreUnique'
  BY <1>1 DEF LotsAreUnique, TypeOK
<1>4. ASSUME NEW t \in Threads, DrawOK(t), job'[t] = job[t]  PROVE DrawOK(t)'
  <2>1. \A other \in Rows : other # row =>
          key'[other] = key[other] /\ qty'[other] = qty[other]
    BY <1>1 DEF TypeOK
  <2>2. Drawing(t)' <=> Drawing(t)
    BY <1>4 DEF Drawing
  <2>3. Drawing(t) => job[t] \in DrawJobs
    BY KindOfJob
  <2>4. Drawing(t) => row \notin job[t].usable /\ ~(job[t].draw[row] > 0)
    BY <1>1, <1>4 DEF DrawOK, Fresh
  <2> QED  BY <1>1, <1>4, <2>1, <2>2, <2>3, <2>4 DEF DrawOK, Fresh, DrawJobs
<1> QED  BY <1>2, <1>3, <1>4

LEMMA ReceiveStep ==
  ASSUME LedgerInv, NEW k \in Keys, NEW q \in Amounts \ {0}, Receive(k, q)
  PROVE  LedgerInv'
<1>1. q \in Nat /\ job' = job /\ UNCHANGED lockedBy
  BY RowsAssumption DEF Amounts, Receive, Write, Insert
<1>2. CASE \E row \in Rows : key[row] = k /\ Write(row, q) /\ UNCHANGED key
  BY <1>1, <1>2, WriteStep, RelyKeepsDraws DEF LedgerInv, TypeOK
<1>3. CASE \E row \in Rows : Insert(row, k, q)
  BY <1>1, <1>3, InsertStep DEF LedgerInv, TypeOK
<1> QED  BY <1>2, <1>3 DEF Receive

LEMMA AdjustStep ==
  ASSUME LedgerInv, NEW product \in Products, NEW batch \in Batches,
         NEW delta \in (-MaxQuantity .. MaxQuantity) \ {0},
         Adjust(product, batch, delta)
  PROVE  LedgerInv'
<1>1. delta \in Int /\ job' = job /\ UNCHANGED lockedBy
  BY RowsAssumption DEF Adjust, Write, Insert
<1>2. CASE \E row \in Rows :
             RowsOf(product, batch) = {row} /\ Write(row, delta) /\ UNCHANGED key
  BY <1>1, <1>2, WriteStep, RelyKeepsDraws DEF LedgerInv, TypeOK
<1>3. CASE /\ delta > 0
           /\ \E row \in Rows :
                Insert(row, [product |-> product, batch |-> batch,
                             expiry |-> Undated], delta)
  <2>1. delta \in Nat
    BY <1>1, <1>3
  <2> QED  BY <1>1, <1>3, <2>1, InsertStep, KeysOfLots DEF LedgerInv, TypeOK
<1> QED  BY <1>2, <1>3 DEF Adjust

LEMMA UpdateExpiryStep ==
  ASSUME LedgerInv, NEW row \in Rows, NEW day \in Days \cup {Undated},
         UpdateExpiry(row, day)
  PROVE  LedgerInv'
<1> USE DEF LedgerInv
<1>1. /\ key[row] \in Keys /\ lockedBy[row] = Free
      /\ key' = [key EXCEPT ![row] = [key[row] EXCEPT !.expiry = day]]
      /\ \A other \in Rows : key[other] # [key[row] EXCEPT !.expiry = day]
      /\ UNCHANGED <<qty, moved, lockedBy, job>>
  BY DEF UpdateExpiry, TypeOK
<1>2. [key[row] EXCEPT !.expiry = day] \in Keys
  BY <1>1 DEF Keys
<1>3. TypeOK'
  BY <1>1, <1>2 DEF TypeOK
<1>4. LotsAreUnique'
  BY <1>1 DEF LotsAreUnique, TypeOK
<1>5. \A t \in Threads : Rely(t)
  BY <1>1, MarkersAssumption DEF Rely, TypeOK
<1> QED  BY <1>3, <1>4, <1>5, RelyKeepsDraws

--------------------------------------------------------------------------------
(* The stock count *)

LEMMA ReadForCountStep ==
  ASSUME LedgerInv, NEW t \in Threads, NEW product \in Products,
         NEW batch \in Batches, NEW counted \in Amounts,
         ReadForCount(t, product, batch, counted)
  PROVE  LedgerInv'
<1> USE DEF LedgerInv
<1>1. PICK row \in 0 .. RowCount :
        job' = [job EXCEPT ![t] =
           [kind |-> "count", product |-> product, batch |-> batch, row |-> row,
            seen |-> IF row = 0 THEN 0 ELSE qty[row], counted |-> counted]]
  BY DEF ReadForCount
<1> DEFINE h == [kind |-> "count", product |-> product, batch |-> batch, row |-> row,
                 seen |-> IF row = 0 THEN 0 ELSE qty[row], counted |-> counted]
<1>2. job' = [job EXCEPT ![t] = h] /\ UNCHANGED <<key, qty, moved, lockedBy>>
  BY <1>1 DEF ReadForCount
<1>3. h \in CountJobs
  <2>1. (IF row = 0 THEN 0 ELSE qty[row]) \in Nat
    BY RowsAssumption DEF TypeOK, Rows
  <2> QED  BY <2>1 DEF CountJobs
<1>4. TypeOK'
  BY <1>2, <1>3 DEF TypeOK
<1>5. DrawOK(t)'
  BY <1>2, NoDraw DEF TypeOK, Kinds
<1>6. \A u \in Threads : u # t => Rely(u)
  BY <1>2 DEF TypeOK, Rely
<1> QED  BY <1>2, <1>4, <1>5, <1>6, RelyKeepsDraws DEF LotsAreUnique

\* A count writes the quantity it was told, whatever it read: what goes wrong
\* in a race is the ledger, never a draw.
LEMMA CommitCountStep ==
  ASSUME LedgerInv, NEW t \in Threads, CommitCount(t)
  PROVE  LedgerInv'
<1> USE DEF LedgerInv
<1> DEFINE h == job[t]
           variance == h.counted - h.seen
           k == [product |-> h.product, batch |-> h.batch, expiry |-> Undated]
<1>1. h \in CountJobs /\ job' = [job EXCEPT ![t] = Idle]
  BY KindOfJob DEF CommitCount
<1>2. /\ h.counted \in Nat /\ h.seen \in Nat /\ variance \in Int
      /\ h.seen + variance = h.counted /\ k \in Keys
  <2>1. /\ h.counted \in Nat /\ h.seen \in Nat
        /\ h.product \in Products /\ h.batch \in Batches
    BY <1>1, RowsAssumption DEF CountJobs, Amounts
  <2>2. k \in Keys
    BY <2>1, KeysOfLots
  <2> QED  BY <2>1, <2>2
<1>3. DrawOK(t)'
  BY <1>1, NoDraw DEF TypeOK
<1>4. \A u \in Threads : u # t => job'[u] = job[u]
  BY <1>1 DEF TypeOK
<1>5. job' \in [Threads -> DrawJobs \cup CountJobs \cup {Idle}]
  BY <1>1 DEF TypeOK
<1>6. CASE UNCHANGED <<key, qty, moved, lockedBy>>
  <2>1. \A u \in Threads : u # t => Rely(u)
    BY <1>4, <1>6 DEF Rely
  <2> QED  BY <1>3, <1>5, <1>6, <2>1, RelyKeepsDraws DEF TypeOK, LotsAreUnique
<1>7. CASE /\ RowsOf(h.product, h.batch) = {h.row}
           /\ lockedBy[h.row] = Free
           /\ qty' = [qty EXCEPT ![h.row] = h.seen + variance]
           /\ moved' = [moved EXCEPT ![h.row] = @ + variance]
           /\ UNCHANGED <<key, lockedBy>>
  <2>1. h.row \in Rows
    BY <1>7 DEF RowsOf
  <2>2. TypeOK'
    BY <1>2, <1>5, <1>7, <2>1 DEF TypeOK
  <2>3. \A u \in Threads : u # t => Rely(u)
    BY <1>4, <1>7, <2>1, MarkersAssumption DEF Rely, TypeOK
  <2> QED  BY <1>3, <1>7, <2>2, <2>3, RelyKeepsDraws DEF LotsAreUnique
<1>8. CASE \E row \in Rows : Write(row, variance) /\ UNCHANGED key
  <2>1. PICK row \in Rows : Write(row, variance) /\ UNCHANGED key
    BY <1>8
  <2>2. UNCHANGED lockedBy
    BY <2>1 DEF Write
  <2> HIDE DEF variance
  <2>3. /\ qty' \in [Rows -> Nat] /\ moved' \in [Rows -> Int] /\ LotsAreUnique'
        /\ \A u \in Threads : u # t => Rely(u)
    BY <1>2, <1>4, <2>1, WriteStep
  <2> QED  BY <1>3, <1>5, <2>1, <2>2, <2>3, RelyKeepsDraws DEF TypeOK
<1>9. CASE variance > 0 /\ \E row \in Rows : Insert(row, k, variance)
  <2>1. PICK row \in Rows : Insert(row, k, variance)
    BY <1>9
  <2>2. variance \in Nat
    BY <1>2, <1>9
  <2>3. UNCHANGED lockedBy
    BY <2>1 DEF Insert
  <2> HIDE DEF variance, k
  <2>4. /\ key' \in [Rows -> Keys \cup {Unused}]
        /\ qty' \in [Rows -> Nat] /\ moved' \in [Rows -> Int] /\ LotsAreUnique'
        /\ \A u \in Threads : DrawOK(u) /\ u # t => DrawOK(u)'
    BY <1>2, <1>4, <2>1, <2>2, InsertStep
  <2> QED  BY <1>3, <1>5, <2>3, <2>4 DEF TypeOK
<1> QED  BY <1>6, <1>7, <1>8, <1>9 DEF CommitCount

--------------------------------------------------------------------------------
(* The specification *)

LEMMA NextLedger == LedgerInv /\ [Next]_vars => LedgerInv'
<1> SUFFICES ASSUME LedgerInv, [Next]_vars  PROVE LedgerInv'
  OBVIOUS
<1>1. ASSUME NEW t \in Threads, NEW kind \in Kinds, NEW doc \in Docs,
             Begin(t, kind, doc)
      PROVE  LedgerInv'
  BY <1>1, BeginStep
<1>2. ASSUME NEW t \in Threads,
             OpenLine(t) \/ LockRow(t) \/ DrawLine(t) \/ CommitDraw(t)
             \/ Rollback(t) \/ CommitCount(t)
      PROVE  LedgerInv'
  BY <1>2, OpenLineStep, LockRowStep, DrawLineStep, CommitDrawStep, RollbackStep,
     CommitCountStep
<1>3. ASSUME NEW t \in Threads, NEW product \in Products, NEW batch \in Batches,
             NEW n \in Amounts, ReadForCount(t, product, batch, n)
      PROVE  LedgerInv'
  BY <1>3, ReadForCountStep
<1>4. ASSUME NEW k \in Keys, NEW q \in Amounts \ {0}, Receive(k, q)
      PROVE  LedgerInv'
  BY <1>4, ReceiveStep
<1>5. ASSUME NEW product \in Products, NEW batch \in Batches,
             NEW delta \in (-MaxQuantity .. MaxQuantity) \ {0},
             Adjust(product, batch, delta)
      PROVE  LedgerInv'
  BY <1>5, AdjustStep
<1>6. ASSUME NEW row \in Rows, NEW day \in Days \cup {Undated},
             UpdateExpiry(row, day)
      PROVE  LedgerInv'
  BY <1>6, UpdateExpiryStep
<1>7. CASE UNCHANGED vars
  BY <1>7 DEF vars, LedgerInv, TypeOK, DrawOK, Drawing, Fresh, LotsAreUnique
<1> QED  BY <1>1, <1>2, <1>3, <1>4, <1>5, <1>6, <1>7 DEF Next

LEMMA LedgerInvariant == Spec => []LedgerInv
BY InitLedger, NextLedger, PTL DEF Spec

\* The rows, their locks and the jobs in progress keep their types: above all a
\* quantity on hand is never negative (inventory.py:1-20).
THEOREM StockTypeCorrect == Spec => []TypeOK
BY LedgerInvariant, PTL DEF LedgerInv

\* No oversell: a transaction that has drawn a quantity holds the row it comes
\* from, and the row still has it, however many others draw, receive, adjust,
\* count or edit at the same time (apply_dispatch_fefo and its callers).
THEOREM NoOversell == Spec => []DrawsAreCovered
<1>1. LedgerInv => DrawsAreCovered
  BY DEF LedgerInv, DrawOK, DrawsAreCovered
<1> QED  BY <1>1, LedgerInvariant, PTL

\* No sale and no dispatch takes a lot past its expiry day, although the expiry
\* of a lot can be edited between its selection and its locking.
THEOREM NothingExpiredShips == Spec => []ShipsNothingExpired
<1>1. LedgerInv => ShipsNothingExpired
  BY DEF LedgerInv, DrawOK, Fresh, ShipsNothingExpired
<1> QED  BY <1>1, LedgerInvariant, PTL

\* Both hold of every draw at once, whatever its transaction still waits for.
THEOREM DrawsStaySound == Spec => []DrawsAreSound
BY NoOversell, NothingExpiredShips, PTL DEF DrawsAreSound

\* A product, batch and expiry are one row at a location: no upsert, count or
\* expiry edit makes a second (the partial unique indexes of inventory_items).
THEOREM OneRowPerLot == Spec => []LotsAreUnique
BY LedgerInvariant, PTL DEF LedgerInv

--------------------------------------------------------------------------------
(* The ledger *)

NoCount == \A t \in Threads : ~Counting(t)
UnusedIsEmpty == \A row \in Rows : key[row] = Unused => qty[row] = 0
AccountInv == LedgerInv /\ NoCount /\ UnusedIsEmpty /\ LedgerAccountsForStock

\* Nothing but a stock count starts one.
LEMMA NoCountStep ==
  ASSUME AccountInv, "count" \notin Ops, [Next]_vars
  PROVE  NoCount'
<1>0. \A u \in Threads : ~Counting(u)
  BY DEF AccountInv, NoCount
<1>1. ASSUME NEW t \in Threads, NEW kind \in Kinds, NEW doc \in Docs,
             Begin(t, kind, doc)
      PROVE  NoCount'
  <2>1. job'[t].kind = kind /\ \A u \in Threads : u # t => job'[u] = job[u]
    BY <1>1 DEF Begin, AccountInv, LedgerInv, TypeOK
  <2> QED  BY <1>0, <2>1 DEF NoCount, Counting, Kinds
<1>2. ASSUME NEW t \in Threads, CommitDraw(t) \/ Rollback(t) \/ CommitCount(t)
      PROVE  NoCount'
  <2>1. job' = [job EXCEPT ![t] = Idle]
    BY <1>2 DEF CommitDraw, Rollback, CommitCount
  <2> QED  BY <1>0, <2>1 DEF NoCount, Counting, AccountInv, LedgerInv, TypeOK
<1>3. ASSUME NEW t \in Threads, OpenLine(t) \/ LockRow(t) \/ DrawLine(t)
      PROVE  NoCount'
  <2>1. Drawing(t) /\ job[t] \in DrawJobs
    BY <1>3, KindOfJob DEF OpenLine, LockRow, DrawLine, AccountInv, LedgerInv
  <2>2. /\ job'[t].kind = job[t].kind
        /\ \A u \in Threads : u # t => job'[u] = job[u]
    <3> USE <2>1 DEF AccountInv, LedgerInv, TypeOK, DrawJobs
    <3>1. CASE OpenLine(t)
      BY <3>1 DEF OpenLine
    <3>2. CASE LockRow(t)
      BY <3>2 DEF LockRow
    <3>3. CASE DrawLine(t)
      <4>1. PICK take \in Takes(job[t]) :
              job' = [job EXCEPT
                       ![t].draw = [row \in Rows |-> @[row] + take[row]],
                       ![t].todo = @ \ {job[t].cur},
                       ![t].cur = 0,
                       ![t].usable = {},
                       ![t].rank = [row \in Rows |-> 0]]
        BY <3>3 DEF DrawLine
      <4>2. \A u \in Threads : u # t => job'[u] = job[u]
        BY <4>1
      <4>3. job'[t].kind = job[t].kind
        BY <4>1
      <4> QED  BY <4>2, <4>3
    <3> QED  BY <1>3, <3>1, <3>2, <3>3
  <2> QED  BY <1>0, <2>1, <2>2 DEF NoCount, Counting, DrawJobs, Kinds
<1>4. CASE UNCHANGED job
  BY <1>0, <1>4 DEF NoCount, Counting
<1> QED  BY <1>1, <1>2, <1>3, <1>4 DEF Next, vars, ReadForCount, Receive, Adjust,
         UpdateExpiry

Accounted == UnusedIsEmpty /\ LedgerAccountsForStock

LEMMA AccountStep ==
  ASSUME AccountInv, "count" \notin Ops, [Next]_vars
  PROVE  Accounted'
<1> USE DEF AccountInv
<1>0. /\ qty \in [Rows -> Nat] /\ moved \in [Rows -> Int] /\ InitQty \in [Rows -> Nat]
      /\ key \in [Rows -> Keys \cup {Unused}] /\ Unused \notin Keys
  BY InitAssumption, MarkersAssumption DEF LedgerInv, TypeOK
<1>1. ASSUME NEW row \in Rows, NEW delta \in Int, Write(row, delta),
             key[row] # Unused, UNCHANGED key
      PROVE  Accounted'
  BY <1>0, <1>1 DEF Write, Accounted, LedgerAccountsForStock, UnusedIsEmpty
<1>2. ASSUME NEW row \in Rows, NEW k \in Keys, NEW q \in Nat, Insert(row, k, q)
      PROVE  Accounted'
  BY <1>0, <1>2 DEF Insert, Accounted, LedgerAccountsForStock, UnusedIsEmpty
<1>3. ASSUME NEW t \in Threads, CommitDraw(t)
      PROVE  Accounted'
  <2>1. job[t].draw \in [Rows -> Nat]
    BY <1>3, KindOfJob DEF CommitDraw, DrawJobs, LedgerInv
  <2>2. \A row \in Rows : job[t].draw[row] > 0 => key[row] # Unused
    BY <1>3 DEF CommitDraw, LedgerInv, DrawOK, Fresh
  <2> QED  BY <1>0, <1>3, <2>1, <2>2 DEF CommitDraw, Accounted,
           LedgerAccountsForStock, UnusedIsEmpty
<1>4. ASSUME NEW k \in Keys, NEW q \in Amounts \ {0}, Receive(k, q)
      PROVE  Accounted'
  <2>1. q \in Nat /\ k # Unused
    BY <1>0, RowsAssumption DEF Amounts
  <2> QED  BY <1>1, <1>2, <1>4, <2>1 DEF Receive
<1>5. ASSUME NEW product \in Products, NEW batch \in Batches,
             NEW delta \in (-MaxQuantity .. MaxQuantity) \ {0},
             Adjust(product, batch, delta)
      PROVE  Accounted'
  <2>1. delta \in Int
    BY RowsAssumption
  <2>2. CASE \E row \in Rows : RowsOf(product, batch) = {row} /\ Write(row, delta)
                               /\ UNCHANGED key
    BY <1>1, <2>1, <2>2 DEF RowsOf
  <2>3. CASE /\ delta > 0
             /\ \E row \in Rows :
                  Insert(row, [product |-> product, batch |-> batch,
                               expiry |-> Undated], delta)
    <3>1. delta \in Nat
      BY <2>1, <2>3
    <3> QED  BY <1>2, <2>3, <3>1, KeysOfLots
  <2> QED  BY <1>5, <2>2, <2>3 DEF Adjust
<1>6. ASSUME NEW row \in Rows, NEW day \in Days \cup {Undated},
             UpdateExpiry(row, day)
      PROVE  Accounted'
  <2>1. key[row] \in Keys /\ key'[row] = [key[row] EXCEPT !.expiry = day]
    BY <1>0, <1>6 DEF UpdateExpiry
  <2>2. key'[row] # Unused
    BY <1>0, <2>1 DEF Keys
  <2>3. /\ \A other \in Rows : other # row => key'[other] = key[other]
        /\ UNCHANGED <<qty, moved>>
    BY <1>0, <1>6 DEF UpdateExpiry
  <2> QED  BY <2>2, <2>3 DEF Accounted, LedgerAccountsForStock, UnusedIsEmpty
<1>7. CASE UNCHANGED <<key, qty, moved>>
  BY <1>7 DEF Accounted, LedgerAccountsForStock, UnusedIsEmpty
<1> QED  BY <1>3, <1>4, <1>5, <1>6, <1>7 DEF Next, vars, Begin, OpenLine, LockRow,
         DrawLine, Rollback, ReadForCount, CommitCount, NoCount

\* Where no stock count runs, what is on hand is exactly what there was plus the
\* movements of the ledger: the drawing, receiving, adjusting and editing paths of
\* inventory.py never lose an update among themselves.
THEOREM LedgerIsComplete ==
  ASSUME "count" \notin Ops
  PROVE  Spec => []LedgerAccountsForStock
<1>1. Init => AccountInv
  BY InitLedger, InitAssumption
     DEF Init, AccountInv, NoCount, Counting, UnusedIsEmpty, LedgerAccountsForStock
<1>2. AccountInv /\ [Next]_vars => AccountInv'
  BY NextLedger, NoCountStep, AccountStep DEF AccountInv, Accounted
<1>3. AccountInv => LedgerAccountsForStock
  BY DEF AccountInv
<1> QED  BY <1>1, <1>2, <1>3, PTL DEF Spec

--------------------------------------------------------------------------------
(* Sorted locks *)

\* The one order in which rows are locked: product, then expiry, then id.
Precedes(row, other) ==
  \/ key[row].product < key[other].product
  \/ /\ key[row].product = key[other].product
     /\ \/ key[row].expiry < key[other].expiry
        \/ key[row].expiry = key[other].expiry /\ row < other

\* What a sale holds comes before what it still wants, in this line and in the
\* lines to come.
SortedOK(t) ==
  /\ \A row \in Rows : lockedBy[row] = t => Drawing(t) /\ key[row] # Unused
  /\ Drawing(t) =>
       LET h == job[t]
       IN /\ h.kind = "sale"
          /\ \A i, j \in DOMAIN h.doc : h.doc[i].product = h.doc[j].product => i = j
          /\ h.cur # 0 => /\ h.cur \in h.todo
                          /\ \A j \in h.todo : h.doc[h.cur].product <= h.doc[j].product
          /\ h.cur = 0 => h.plan = {}
          /\ \A row \in h.plan : /\ key[row] # Unused
                                 /\ key[row].product = h.doc[h.cur].product
                                 /\ key[row].expiry = h.rank[row]
          /\ \A row \in Rows : lockedBy[row] = t =>
               /\ \A i \in h.todo \ {h.cur} : key[row].product < h.doc[i].product
               /\ \A wanted \in h.plan : Precedes(row, wanted)

SortedInv == LedgerInv /\ \A t \in Threads : SortedOK(t)

\* What another thread, or a write to one row, leaves of a sale's order.
Undisturbed(t) ==
  /\ job'[t] = job[t]
  /\ \A row \in Rows : lockedBy'[row] = t => lockedBy[row] = t
  /\ \A row \in Rows : key[row] # Unused => key'[row] = key[row]

LEMMA UndisturbedStaysSorted ==
  ASSUME TypeOK, NEW t \in Threads, SortedOK(t), Undisturbed(t)
  PROVE  SortedOK(t)'
<1>1. Drawing(t)' = Drawing(t)
  BY DEF Undisturbed, Drawing
<1>2. \A row \in Rows : lockedBy'[row] = t => /\ lockedBy[row] = t /\ Drawing(t)
                                              /\ key[row] # Unused /\ key'[row] = key[row]
  BY DEF Undisturbed, SortedOK
<1>3. Drawing(t) => \A row \in job[t].plan : row \in Rows /\ key'[row] = key[row]
  BY KindOfJob DEF SortedOK, Undisturbed, DrawJobs
<1> QED  BY <1>1, <1>2, <1>3 DEF SortedOK, Undisturbed, Precedes

\* A thread that holds nothing and draws nothing has nothing to keep.
LEMMA IdleIsSorted ==
  ASSUME NEW t \in Threads, \A row \in Rows : lockedBy'[row] # t, ~Drawing(t)'
  PROVE  SortedOK(t)'
BY DEF SortedOK

\* Keys only change by an expiry edit, and locks only by a draw.
LEMMA KeysStay ==
  ASSUME TypeOK, [Next]_vars, "expiry" \notin Ops
  PROVE  \A row \in Rows : key[row] # Unused => key'[row] = key[row]
<1>1. ASSUME NEW row \in Rows, NEW k, NEW q, Insert(row, k, q)
      PROVE  \A other \in Rows : key[other] # Unused => key'[other] = key[other]
  BY <1>1 DEF Insert, TypeOK
<1>2. CASE UNCHANGED key
  BY <1>2
<1>3. CASE \E row \in Rows : \E k, q : Insert(row, k, q)
  BY <1>1, <1>3
<1>4. ASSUME NEW t \in Threads, CommitCount(t)
      PROVE  UNCHANGED key \/ \E row \in Rows : \E k, q : Insert(row, k, q)
  BY <1>4 DEF CommitCount
<1>5. ASSUME NEW k \in Keys, NEW q \in Amounts \ {0}, Receive(k, q)
      PROVE  UNCHANGED key \/ \E row \in Rows : \E l, r : Insert(row, l, r)
  BY <1>5 DEF Receive
<1>6. ASSUME NEW product \in Products, NEW batch \in Batches,
             NEW delta \in (-MaxQuantity .. MaxQuantity) \ {0},
             Adjust(product, batch, delta)
      PROVE  UNCHANGED key \/ \E row \in Rows : \E l, r : Insert(row, l, r)
  BY <1>6 DEF Adjust
<1> QED  BY <1>2, <1>3, <1>4, <1>5, <1>6 DEF Next, vars, Begin, OpenLine, LockRow, DrawLine,
            CommitDraw, Rollback, ReadForCount, UpdateExpiry

LEMMA BeginSorted ==
  ASSUME SortedInv, NEW t \in Threads, NEW doc \in Docs, Begin(t, "sale", doc)
  PROVE  SortedOK(t)'
<1> DEFINE h == [kind |-> "sale", doc |-> doc, todo |-> DOMAIN doc, cur |-> 0,
                 plan |-> {}, usable |-> {}, rank |-> [row \in Rows |-> 0],
                 draw |-> [row \in Rows |-> 0]]
<1>1. /\ job[t] = Idle /\ UNCHANGED <<key, qty, moved, lockedBy>> /\ job'[t] = h
      /\ \A i, j \in DOMAIN doc : doc[i].product = doc[j].product => i = j
  BY DEF Begin, SortedInv, LedgerInv, TypeOK
<1>2. /\ h.kind = "sale" /\ h.doc = doc /\ h.cur = 0 /\ h.plan = {}
  OBVIOUS
<1> HIDE DEF h
<1>3. \A row \in Rows : lockedBy[row] # t
  BY <1>1 DEF SortedInv, SortedOK, Drawing
<1> QED  BY <1>1, <1>2, <1>3 DEF SortedOK

LEMMA OpenLineSorted ==
  ASSUME SortedInv, NEW t \in Threads, OpenLine(t)
  PROVE  SortedOK(t)'
<1>1. /\ TypeOK /\ SortedOK(t) /\ DrawOK(t) /\ Drawing(t) /\ job[t] \in DrawJobs
      /\ job[t].cur = 0 /\ UNCHANGED <<key, qty, moved, lockedBy>>
  BY KindOfJob DEF SortedInv, LedgerInv, OpenLine
<1>2. PICK i \in NextLines(job[t]) :
        LET found == {row \in Rows : Matches(job[t], i, row)}
        IN job' = [job EXCEPT ![t].cur = i,
                     ![t].plan = found,
                     ![t].rank = [row \in Rows |-> IF row \in found
                                                   THEN key[row].expiry ELSE 0]]
  BY DEF OpenLine
<1> DEFINE found == {row \in Rows : Matches(job[t], i, row)}
           rank == [row \in Rows |-> IF row \in found THEN key[row].expiry ELSE 0]
           old == job[t]
           new == [old EXCEPT !.cur = i, !.plan = found, !.rank = rank]
<1>3. job'[t] = new
  BY <1>1, <1>2 DEF TypeOK
<1>4. /\ new.kind = old.kind /\ new.doc = old.doc /\ new.todo = old.todo /\ new.cur = i
      /\ new.plan = found /\ new.rank = rank
  BY <1>1 DEF DrawJobs
<1>5. /\ i \in old.todo /\ \A j \in old.todo : old.doc[i].product <= old.doc[j].product
      /\ old.kind = "sale" /\ i # 0
      /\ \A row \in Rows : lockedBy[row] = t =>
           /\ key[row] # Unused
           /\ \A j \in old.todo : key[row].product < old.doc[j].product
  <2>1. old.kind = "sale"
    BY <1>1 DEF SortedOK
  <2>2. 0 \notin old.todo
    BY <1>1, DocsAssumption DEF DrawOK, DrawJobs
  <2> QED  BY <1>1, <2>1, <2>2 DEF NextLines, SortedOK
<1>6. \A row \in found : /\ row \in Rows /\ key[row] # Unused /\ rank[row] = key[row].expiry
                         /\ key[row].product = old.doc[i].product
  BY DEF Matches
<1>7. Drawing(t)'
  BY OpenLineStep DEF SortedInv
<1> HIDE DEF found, rank, old, new
<1>8. \A row \in Rows : lockedBy[row] = t => \A wanted \in found : Precedes(row, wanted)
  BY <1>5, <1>6 DEF Precedes
<1>9. \A j, l \in DOMAIN old.doc : old.doc[j].product = old.doc[l].product => j = l
  BY <1>1 DEF SortedOK, old
<1>10. \A row \in Rows : (lockedBy[row] = t)' => lockedBy[row] = t /\ key'[row] = key[row]
  BY <1>1
<1>11. \A row \in Rows : lockedBy'[row] = t => \A wanted \in found : Precedes(row, wanted)'
  BY <1>1, <1>8 DEF Precedes
<1> QED  BY <1>1, <1>3, <1>4, <1>5, <1>6, <1>7, <1>9, <1>10, <1>11 DEF SortedOK

\* The first of the snapshot is locked: it comes after everything held and
\* before everything that is left of the snapshot.
LEMMA LockRowSorted ==
  ASSUME SortedInv, NEW t \in Threads, LockRow(t)
  PROVE  SortedOK(t)'
<1>1. /\ TypeOK /\ SortedOK(t) /\ DrawOK(t) /\ Drawing(t) /\ job[t] \in DrawJobs
      /\ UNCHANGED <<key, qty, moved>>
  BY KindOfJob DEF SortedInv, LedgerInv, LockRow
<1>2. PICK row \in FirstOf(job[t]) :
        /\ MayLock(t, row)
        /\ lockedBy' = [lockedBy EXCEPT ![row] = t]
        /\ job' = [job EXCEPT ![t].plan = @ \ {row},
                     ![t].usable = IF Matches(job[t], job[t].cur, row)
                                   THEN @ \cup {row} ELSE @]
  BY DEF LockRow
<1> DEFINE old == job[t]
           usable == IF Matches(old, old.cur, row) THEN old.usable \cup {row} ELSE old.usable
           new == [old EXCEPT !.plan = @ \ {row}, !.usable = usable]
<1>3. job'[t] = new
  BY <1>1, <1>2 DEF TypeOK
<1>4. /\ new.kind = old.kind /\ new.doc = old.doc /\ new.todo = old.todo
      /\ new.cur = old.cur /\ new.plan = old.plan \ {row} /\ new.rank = old.rank
  BY <1>1 DEF DrawJobs
<1>5. Drawing(t)'
  BY LockRowStep DEF SortedInv
<1>6. /\ row \in old.plan /\ row \in Rows /\ old.plan \subseteq Rows
      /\ \A other \in old.plan : Before(old, row, other)
  BY <1>1 DEF FirstOf, DrawJobs
<1> HIDE DEF usable, new
<1>7. /\ old.kind = "sale" /\ old.cur # 0 /\ old.cur \in old.todo
      /\ old.todo \subseteq DOMAIN old.doc /\ old.doc \in Docs
      /\ \A j \in old.todo : old.doc[old.cur].product <= old.doc[j].product
      /\ \A i, j \in DOMAIN old.doc : old.doc[i].product = old.doc[j].product => i = j
      /\ \A other \in old.plan : /\ key[other] # Unused
                                 /\ key[other].product = old.doc[old.cur].product
                                 /\ key[other].expiry = old.rank[other]
      /\ \A held \in Rows : lockedBy[held] = t =>
           /\ key[held] # Unused
           /\ \A i \in old.todo \ {old.cur} : key[held].product < old.doc[i].product
           /\ \A wanted \in old.plan : Precedes(held, wanted)
  BY <1>1, <1>6 DEF SortedOK, DrawOK, DrawJobs
<1> HIDE DEF old
<1>8. \A i \in old.todo \ {old.cur} : key[row].product < old.doc[i].product
  <2> TAKE i \in old.todo \ {old.cur}
  <2>1. old.doc[i].product \in Nat /\ old.doc[old.cur].product \in Nat
    BY <1>7, DocsAssumption, RowsAssumption
  <2> QED  BY <1>6, <1>7, <2>1
<1>9. \A wanted \in old.plan \ {row} : Precedes(row, wanted)
  <2> TAKE wanted \in old.plan \ {row}
  <2>1. Before(old, row, wanted) /\ row \in Nat /\ wanted \in Nat /\ row # wanted
    BY <1>6, RowFacts
  <2> QED  BY <1>6, <1>7, <2>1 DEF Precedes, Before
<1>10. \A held \in Rows : lockedBy'[held] = t => lockedBy[held] = t \/ held = row
  BY <1>1, <1>2, <1>6 DEF TypeOK
<1>11. \A held \in Rows : lockedBy'[held] = t =>
         /\ key'[held] # Unused
         /\ \A i \in old.todo \ {old.cur} : key'[held].product < old.doc[i].product
         /\ \A wanted \in old.plan \ {row} : Precedes(held, wanted)'
  BY <1>1, <1>6, <1>7, <1>8, <1>9, <1>10 DEF Precedes
<1> QED  BY <1>1, <1>3, <1>4, <1>5, <1>7, <1>11 DEF SortedOK

LEMMA DrawLineSorted ==
  ASSUME SortedInv, NEW t \in Threads, DrawLine(t)
  PROVE  SortedOK(t)'
<1>1. /\ TypeOK /\ SortedOK(t) /\ DrawOK(t) /\ Drawing(t) /\ job[t] \in DrawJobs
      /\ job[t].plan = {} /\ UNCHANGED <<key, qty, moved, lockedBy>>
  BY KindOfJob DEF SortedInv, LedgerInv, DrawLine
<1>2. PICK take \in Takes(job[t]) :
        job' = [job EXCEPT
                 ![t].draw = [row \in Rows |-> @[row] + take[row]],
                 ![t].todo = @ \ {job[t].cur},
                 ![t].cur = 0,
                 ![t].usable = {},
                 ![t].rank = [row \in Rows |-> 0]]
  BY DEF DrawLine
<1> DEFINE old == job[t]
           draw == [row \in Rows |-> old.draw[row] + take[row]]
           new == [old EXCEPT !.draw = draw, !.todo = @ \ {old.cur}, !.cur = 0,
                              !.usable = {}, !.rank = [row \in Rows |-> 0]]
<1>3. job'[t] = new
  BY <1>1, <1>2 DEF TypeOK
<1> HIDE DEF draw
<1>4. /\ new.kind = old.kind /\ new.doc = old.doc /\ new.todo = old.todo \ {old.cur}
      /\ new.cur = 0 /\ new.plan = {}
  BY <1>1 DEF DrawJobs
<1>5. Drawing(t)'
  BY DrawLineStep DEF SortedInv
<1> HIDE DEF new
<1>6. \A held \in Rows : (lockedBy[held] = t)' =>
         /\ key'[held] # Unused
         /\ \A i \in old.todo \ {old.cur} : key'[held].product < old.doc[i].product
  BY <1>1 DEF SortedOK
<1>7. \A i, j \in DOMAIN old.doc : old.doc[i].product = old.doc[j].product => i = j
  BY <1>1 DEF SortedOK
<1>8. old.kind = "sale"
  BY <1>1 DEF SortedOK
<1> QED  BY <1>3, <1>4, <1>5, <1>6, <1>7, <1>8 DEF SortedOK

\* A thread that ends gives every lock back.
LEMMA EndSorted ==
  ASSUME SortedInv, NEW t \in Threads, job' = [job EXCEPT ![t] = Idle],
         lockedBy' = Released(t)
  PROVE  /\ SortedOK(t)'
         /\ \A u \in Threads \ {t} :
              /\ job'[u] = job[u]
              /\ \A row \in Rows : lockedBy'[row] = u => lockedBy[row] = u
<1>1. TypeOK
  BY DEF SortedInv, LedgerInv
<1>2. job'[t] = Idle /\ \A u \in Threads \ {t} : job'[u] = job[u]
  BY <1>1 DEF TypeOK
<1>3. \A row \in Rows : /\ lockedBy'[row] # t
                        /\ \A u \in Threads : lockedBy'[row] = u => lockedBy[row] = u
  BY MarkersAssumption DEF Released
<1>4. ~Drawing(t)'
  BY <1>2 DEF Drawing
<1> QED  BY <1>2, <1>3, <1>4, IdleIsSorted

LEMMA NextSorted ==
  ASSUME SortedInv, [Next]_vars, Ops \cap {"dispatch", "waste", "expiry"} = {}
  PROVE  SortedInv'
<1>1. TypeOK /\ LedgerInv' /\ \A t \in Threads : SortedOK(t)
  BY NextLedger DEF SortedInv, LedgerInv
<1>2. \A row \in Rows : key[row] # Unused => key'[row] = key[row]
  BY <1>1, KeysStay
<1>3. ASSUME NEW t \in Threads,
             /\ job'[t] = job[t]
             /\ \A row \in Rows : lockedBy'[row] = t => lockedBy[row] = t
      PROVE  SortedOK(t)'
  BY <1>1, <1>2, <1>3, UndisturbedStaysSorted DEF Undisturbed
<1>4. ASSUME UNCHANGED lockedBy, UNCHANGED job
      PROVE  \A u \in Threads : SortedOK(u)'
  BY <1>3, <1>4
<1>5. ASSUME NEW t \in Threads, SortedOK(t)',
             \A u \in Threads \ {t} :
               /\ job'[u] = job[u]
               /\ \A row \in Rows : lockedBy'[row] = u => lockedBy[row] = u
      PROVE  \A u \in Threads : SortedOK(u)'
  BY <1>3, <1>5
<1>6. ASSUME NEW t \in Threads, NEW kind \in Kinds, NEW doc \in Docs, Begin(t, kind, doc)
      PROVE  \A u \in Threads : SortedOK(u)'
  <2>1. kind = "sale"
    BY <1>6 DEF Begin, Kinds
  <2>2. SortedOK(t)'
    BY <1>6, <2>1, BeginSorted
  <2>3. UNCHANGED lockedBy /\ \A u \in Threads \ {t} : job'[u] = job[u]
    BY <1>1, <1>6 DEF Begin, TypeOK
  <2> QED  BY <1>5, <2>2, <2>3
<1>7. ASSUME NEW t \in Threads, OpenLine(t)
      PROVE  \A u \in Threads : SortedOK(u)'
  <2>1. UNCHANGED lockedBy /\ \A u \in Threads \ {t} : job'[u] = job[u]
    BY <1>1, <1>7 DEF OpenLine, TypeOK
  <2> QED  BY <1>5, <1>7, <2>1, OpenLineSorted
<1>8. ASSUME NEW t \in Threads, LockRow(t)
      PROVE  \A u \in Threads : SortedOK(u)'
  <2>1. \A u \in Threads \ {t} :
               /\ job'[u] = job[u]
               /\ \A row \in Rows : lockedBy'[row] = u => lockedBy[row] = u
    BY <1>1, <1>8 DEF LockRow, TypeOK
  <2> QED  BY <1>5, <1>8, <2>1, LockRowSorted
<1>9. ASSUME NEW t \in Threads, DrawLine(t)
      PROVE  \A u \in Threads : SortedOK(u)'
  <2>1. UNCHANGED lockedBy /\ \A u \in Threads \ {t} : job'[u] = job[u]
    BY <1>1, <1>9 DEF DrawLine, TypeOK
  <2> QED  BY <1>5, <1>9, <2>1, DrawLineSorted
<1>10. ASSUME NEW t \in Threads, CommitDraw(t) \/ Rollback(t)
       PROVE  \A u \in Threads : SortedOK(u)'
  <2>1. job' = [job EXCEPT ![t] = Idle] /\ lockedBy' = Released(t)
    BY <1>10 DEF CommitDraw, Rollback
  <2> QED  BY <1>5, <2>1, EndSorted
<1>11. ASSUME NEW t \in Threads, ~Drawing(t), UNCHANGED lockedBy, ~Drawing(t)',
              \A u \in Threads \ {t} : job'[u] = job[u]
       PROVE  \A u \in Threads : SortedOK(u)'
  <2>1. \A row \in Rows : lockedBy'[row] # t
    BY <1>1, <1>11 DEF SortedOK
  <2>2. SortedOK(t)'
    BY <1>11, <2>1, IdleIsSorted
  <2> QED  BY <1>5, <1>11, <2>2
<1>12. ASSUME NEW t \in Threads, CommitCount(t)
       PROVE  \A u \in Threads : SortedOK(u)'
  <2>1. /\ ~Drawing(t) /\ job'[t] = Idle /\ \A u \in Threads \ {t} : job'[u] = job[u]
    BY <1>1, <1>12, KindOfJob DEF CommitCount, TypeOK
  <2>2. UNCHANGED lockedBy
    BY <1>12 DEF CommitCount, Write, Insert
  <2> QED  BY <1>11, <2>1, <2>2 DEF Drawing
<1>13. ASSUME NEW t \in Threads, NEW product \in Products, NEW batch \in Batches,
              NEW n \in Amounts, ReadForCount(t, product, batch, n)
       PROVE  \A u \in Threads : SortedOK(u)'
  <2>1. /\ job[t] = Idle /\ UNCHANGED lockedBy /\ job'[t].kind = "count"
        /\ \A u \in Threads \ {t} : job'[u] = job[u]
    BY <1>1, <1>13 DEF ReadForCount, TypeOK
  <2> QED  BY <1>11, <2>1 DEF Drawing, Kinds
<1>14. ASSUME NEW k \in Keys, NEW q \in Amounts \ {0}, Receive(k, q)
       PROVE  \A u \in Threads : SortedOK(u)'
  BY <1>4, <1>14 DEF Receive, Write, Insert
<1>15. ASSUME NEW product \in Products, NEW batch \in Batches,
              NEW delta \in (-MaxQuantity .. MaxQuantity) \ {0},
              Adjust(product, batch, delta)
       PROVE  \A u \in Threads : SortedOK(u)'
  BY <1>4, <1>15 DEF Adjust, Write, Insert
<1>16. ASSUME NEW row \in Rows, NEW day \in Days \cup {Undated}, UpdateExpiry(row, day)
       PROVE  \A u \in Threads : SortedOK(u)'
  BY <1>16 DEF UpdateExpiry
<1>17. ASSUME UNCHANGED vars
       PROVE  \A u \in Threads : SortedOK(u)'
  BY <1>4, <1>17 DEF vars
<1>18. \A u \in Threads : SortedOK(u)'
  BY <1>6, <1>7, <1>8, <1>9, <1>10, <1>12, <1>13, <1>14, <1>15, <1>16, <1>17 DEF Next
<1> QED  BY <1>1, <1>18 DEF SortedInv

LEMMA SortedInvariant ==
  ASSUME Ops \cap {"dispatch", "waste", "expiry"} = {}
  PROVE  Spec => []SortedInv
<1>1. Init => SortedInv
  <2> SUFFICES ASSUME Init PROVE SortedInv
    OBVIOUS
  <2>1. \A t \in Threads : ~Drawing(t) /\ \A row \in Rows : lockedBy[row] # t
    BY MarkersAssumption DEF Init, Drawing
  <2> QED  BY <2>1, InitLedger DEF SortedInv, SortedOK
<1>2. SortedInv /\ [Next]_vars => SortedInv'
  <2> SUFFICES ASSUME SortedInv, [Next]_vars PROVE SortedInv'
    OBVIOUS
  <2> QED  BY NextSorted
<1> QED  BY <1>1, <1>2, PTL DEF Spec

\* Where a row is waited for, the waiter's row comes after it: along any chain of
\* waits, however long, the wanted rows only climb.
WaitsClimb ==
  \A t, u \in Threads :
    Drawing(t) /\ Drawing(u) =>
      \A row \in FirstOf(job[t]), next \in FirstOf(job[u]) :
        lockedBy[row] = u => Precedes(row, next)

\* Orders lock their products in sorted order (sort_lock_order), and each
\* product's lots by expiry and id: however many run beside stock counts,
\* receipts and adjustments, what one waits for comes before what its holder
\* waits for, so no chain of waits closes.  Dispatches and waste follow their
\* document instead, and an expiry edit moves a lot within the order.
THEOREM SalesLockUpwards ==
  ASSUME Ops \cap {"dispatch", "waste", "expiry"} = {}
  PROVE  Spec => []WaitsClimb
<1>1. SortedInv => WaitsClimb
  <2> SUFFICES ASSUME SortedInv, NEW t \in Threads, NEW u \in Threads, Drawing(t), Drawing(u),
                      NEW row \in FirstOf(job[t]), NEW next \in FirstOf(job[u]),
                      lockedBy[row] = u
               PROVE  Precedes(row, next)
    BY DEF WaitsClimb
  <2>1. row \in Rows /\ next \in job[u].plan
    BY KindOfJob DEF SortedInv, LedgerInv, FirstOf, DrawJobs
  <2> QED  BY <2>1 DEF SortedInv, SortedOK
<1> QED  BY <1>1, SortedInvariant, PTL

\* So two transactions never wait for each other in turn.
THEOREM SalesNeverDeadlock ==
  ASSUME Ops \cap {"dispatch", "waste", "expiry"} = {}
  PROVE  Spec => []NoWaitCycle
<1>1. SortedInv => NoWaitCycle
  <2> SUFFICES ASSUME SortedInv, NEW t \in Threads, NEW u \in Threads,
                      WaitsFor(t, u), WaitsFor(u, t)
               PROVE  FALSE
    BY DEF NoWaitCycle
  <2>1. PICK row \in FirstOf(job[t]) : lockedBy[row] = u
    BY DEF WaitsFor
  <2>2. PICK next \in FirstOf(job[u]) : lockedBy[next] = t
    BY DEF WaitsFor
  <2>3. /\ Drawing(t) /\ Drawing(u) /\ row \in job[t].plan /\ next \in job[u].plan
        /\ row \in Rows /\ next \in Rows
    BY KindOfJob DEF SortedInv, LedgerInv, WaitsFor, FirstOf, DrawJobs
  <2>4. Precedes(row, next) /\ Precedes(next, row)
    BY <2>1, <2>2, <2>3 DEF SortedInv, SortedOK
  <2>5. key[row] \in Keys /\ key[next] \in Keys
    BY <2>3 DEF SortedInv, LedgerInv, TypeOK, SortedOK
  <2>6. /\ key[row].product \in Nat /\ key[next].product \in Nat
        /\ key[row].expiry \in Nat /\ key[next].expiry \in Nat /\ row \in Nat /\ next \in Nat
    <3>1. \A k \in Keys : k.product \in Nat /\ k.expiry \in Nat
      <4>1. Days \cup {Undated} \subseteq Nat
        BY DayAssumption DEF Days, Undated
      <4> QED  BY <4>1, RowsAssumption DEF Keys
    <3> QED  BY <2>3, <2>5, <3>1, RowFacts
  <2> QED  BY <2>4, <2>6 DEF Precedes
<1> QED  BY <1>1, SortedInvariant, PTL

--------------------------------------------------------------------------------
(* One step: what it does to the rows *)

\* No row changes.
Still == UNCHANGED <<key, qty>>
\* One row nobody holds gets another quantity, or another expiry; or a row is
\* inserted for a lot that has none.
OneQuantity(row, n) ==
  /\ key[row] # Unused /\ lockedBy[row] = Free
  /\ qty' = [qty EXCEPT ![row] = n] /\ UNCHANGED key
OneExpiry(row, day) ==
  /\ key[row] # Unused /\ lockedBy[row] = Free
  /\ \A other \in Rows : key[other] # [key[row] EXCEPT !.expiry = day]
  /\ key' = [key EXCEPT ![row] = [key[row] EXCEPT !.expiry = day]] /\ UNCHANGED qty
OneRow(row, k, n) ==
  /\ key[row] = Unused /\ \A other \in Rows : key[other] # k
  /\ key' = [key EXCEPT ![row] = k] /\ qty' = [qty EXCEPT ![row] = n]
OneLot ==
  \/ \E row \in Rows, n \in Nat : OneQuantity(row, n)
  \/ \E row \in Rows, day \in Days \cup {Undated} : OneExpiry(row, day)
  \/ \E row \in Rows, k \in Keys, n \in Nat : OneRow(row, k, n)
\* No transaction that draws gets on.
NoDrawMoves ==
  \A t \in Threads : /\ Drawing(t)' <=> Drawing(t)
                     /\ Drawing(t) => job'[t] = job[t]

LEMMA NoDrawMovesIf ==
  ASSUME TypeOK, NEW t \in Threads, ~Drawing(t), ~Drawing(t)',
         \A u \in Threads \ {t} : job'[u] = job[u]
  PROVE  NoDrawMoves
BY DEF NoDrawMoves, Drawing

LEMMA WriteIsOneQuantity ==
  ASSUME TypeOK, NEW row \in Rows, NEW delta \in Int, Write(row, delta), UNCHANGED key,
         key[row] # Unused
  PROVE  OneLot
<1>1. qty[row] + delta \in Nat
  BY RowsAssumption DEF Write
<1>2. OneQuantity(row, qty[row] + delta)
  BY DEF Write, OneQuantity
<1> QED  BY <1>1, <1>2 DEF OneLot

LEMMA InsertIsOneRow ==
  ASSUME NEW row \in Rows, NEW k \in Keys, NEW n \in Nat, Insert(row, k, n)
  PROVE  OneLot
BY DEF Insert, OneRow, OneLot

\* The writes to one row, by whoever makes them.
LEMMA ReceiveOneLot ==
  ASSUME TypeOK, NEW k \in Keys, NEW q \in Amounts \ {0}, Receive(k, q)
  PROVE  OneLot /\ UNCHANGED job
<1>1. q \in Nat /\ k # Unused /\ UNCHANGED job
  BY RowsAssumption, MarkersAssumption DEF Amounts, Receive
<1>2. CASE \E row \in Rows : key[row] = k /\ Write(row, q) /\ UNCHANGED key
  BY <1>1, <1>2, WriteIsOneQuantity
<1>3. CASE \E row \in Rows : Insert(row, k, q)
  BY <1>1, <1>3, InsertIsOneRow
<1> QED  BY <1>1, <1>2, <1>3 DEF Receive

LEMMA AdjustOneLot ==
  ASSUME TypeOK, NEW product \in Products, NEW batch \in Batches,
         NEW delta \in (-MaxQuantity .. MaxQuantity) \ {0}, Adjust(product, batch, delta)
  PROVE  OneLot /\ UNCHANGED job
<1>1. delta \in Int /\ UNCHANGED job
  BY RowsAssumption DEF Adjust
<1>2. CASE \E row \in Rows : RowsOf(product, batch) = {row} /\ Write(row, delta) /\ UNCHANGED key
  <2>1. PICK row \in Rows : RowsOf(product, batch) = {row} /\ Write(row, delta) /\ UNCHANGED key
    BY <1>2
  <2>2. key[row] # Unused
    BY <2>1 DEF RowsOf
  <2> QED  BY <1>1, <2>1, <2>2, WriteIsOneQuantity
<1>3. CASE delta > 0 /\ \E row \in Rows :
             Insert(row, [product |-> product, batch |-> batch, expiry |-> Undated], delta)
  <2>1. delta \in Nat
    BY <1>1, <1>3
  <2> QED  BY <1>1, <1>3, <2>1, KeysOfLots, InsertIsOneRow
<1> QED  BY <1>2, <1>3 DEF Adjust

LEMMA CountOneLot ==
  ASSUME TypeOK, NEW t \in Threads, CommitCount(t)
  PROVE  (Still \/ OneLot) /\ NoDrawMoves
<1> DEFINE h == job[t]
           variance == h.counted - h.seen
           k == [product |-> h.product, batch |-> h.batch, expiry |-> Undated]
<1>1. h \in CountJobs /\ job' = [job EXCEPT ![t] = Idle] /\ ~Drawing(t)
  BY KindOfJob DEF CommitCount
<1>2. NoDrawMoves
  <2>1. job'[t] = Idle /\ \A u \in Threads \ {t} : job'[u] = job[u]
    BY <1>1 DEF TypeOK
  <2>2. ~Drawing(t)'
    BY <2>1 DEF Drawing
  <2> QED  BY <1>1, <2>1, <2>2, NoDrawMovesIf
<1>3. /\ h.counted \in Nat /\ h.seen \in Nat /\ variance \in Int
      /\ h.seen + variance = h.counted /\ k \in Keys
  <2>1. /\ h.counted \in Nat /\ h.seen \in Nat
        /\ h.product \in Products /\ h.batch \in Batches
    BY <1>1, RowsAssumption DEF CountJobs, Amounts
  <2>2. k \in Keys
    BY <2>1, KeysOfLots
  <2> QED  BY <2>1, <2>2
<1>4. CASE UNCHANGED <<key, qty, moved, lockedBy>>
  BY <1>2, <1>4 DEF Still
<1>5. CASE /\ RowsOf(h.product, h.batch) = {h.row}
           /\ lockedBy[h.row] = Free
           /\ qty' = [qty EXCEPT ![h.row] = h.seen + variance]
           /\ UNCHANGED <<key, lockedBy>>
  <2>1. h.row \in Rows /\ key[h.row] # Unused
    BY <1>5 DEF RowsOf
  <2>2. OneQuantity(h.row, h.counted)
    BY <1>3, <1>5, <2>1 DEF OneQuantity
  <2> QED  BY <1>2, <1>3, <1>5, <2>1, <2>2 DEF OneLot
<1>6. CASE \E row \in Rows : /\ RowsOf(h.product, h.batch) = {row}
                             /\ Write(row, variance) /\ UNCHANGED key
  <2>1. PICK row \in Rows : /\ RowsOf(h.product, h.batch) = {row}
                            /\ Write(row, variance) /\ UNCHANGED key
    BY <1>6
  <2>2. key[row] # Unused
    BY <2>1 DEF RowsOf
  <2> HIDE DEF variance
  <2> QED  BY <1>2, <1>3, <2>1, <2>2, WriteIsOneQuantity
<1>7. CASE variance > 0 /\ \E row \in Rows : Insert(row, k, variance)
  <2>1. variance \in Nat
    BY <1>3, <1>7
  <2> HIDE DEF variance, k
  <2> QED  BY <1>2, <1>3, <1>7, <2>1, InsertIsOneRow
<1> QED  BY <1>4, <1>5, <1>6, <1>7 DEF CommitCount

\* A step is one of a transaction that draws, or leaves all of them where they are
\* and changes one lot at most.
LEMMA StepKinds ==
  ASSUME LedgerInv, [Next]_vars
  PROVE  \/ \E t \in Threads, kind \in Kinds, doc \in Docs : Begin(t, kind, doc)
         \/ \E t \in Threads : OpenLine(t) \/ LockRow(t) \/ DrawLine(t) \/ CommitDraw(t)
         \/ \E t \in Threads : Drawing(t) /\ Rollback(t)
         \/ (Still \/ OneLot) /\ NoDrawMoves
<1>1. TypeOK
  BY DEF LedgerInv
<1>2. ASSUME UNCHANGED job PROVE NoDrawMoves
  BY <1>2 DEF NoDrawMoves, Drawing
<1>3. ASSUME NEW t \in Threads, Rollback(t), ~Drawing(t)
      PROVE  Still /\ NoDrawMoves
  <2>1. /\ job' = [job EXCEPT ![t] = Idle] /\ Still
    BY <1>3 DEF Rollback, Still
  <2>2. job'[t] = Idle /\ \A u \in Threads \ {t} : job'[u] = job[u]
    BY <1>1, <2>1 DEF TypeOK
  <2>3. ~Drawing(t)'
    BY <2>2 DEF Drawing
  <2> QED  BY <1>1, <1>3, <2>1, <2>2, <2>3, NoDrawMovesIf
<1>4. ASSUME NEW t \in Threads, NEW product \in Products, NEW batch \in Batches,
             NEW n \in Amounts, ReadForCount(t, product, batch, n)
      PROVE  Still /\ NoDrawMoves
  <2>1. /\ job[t] = Idle /\ Still /\ job'[t].kind = "count"
        /\ \A u \in Threads \ {t} : job'[u] = job[u]
    BY <1>1, <1>4 DEF ReadForCount, TypeOK, Still
  <2>2. ~Drawing(t) /\ ~Drawing(t)'
    BY <2>1 DEF Drawing, Kinds
  <2> QED  BY <1>1, <2>1, <2>2, NoDrawMovesIf
<1>5. ASSUME NEW row \in Rows, NEW day \in Days \cup {Undated}, UpdateExpiry(row, day)
      PROVE  OneLot /\ NoDrawMoves
  <2>1. OneExpiry(row, day) /\ UNCHANGED job
    BY <1>5 DEF UpdateExpiry, OneExpiry
  <2> QED  BY <1>2, <2>1 DEF OneLot
<1>6. CASE UNCHANGED vars
  BY <1>2, <1>6 DEF vars, Still
<1>7. CASE \E t \in Threads, kind \in Kinds, doc \in Docs : Begin(t, kind, doc)
  BY <1>7
<1>8. CASE \E t \in Threads : OpenLine(t) \/ LockRow(t) \/ DrawLine(t) \/ CommitDraw(t)
                              \/ Rollback(t) \/ CommitCount(t)
  BY <1>1, <1>3, <1>8, CountOneLot
<1>9. CASE \E t \in Threads, product \in Products, batch \in Batches, n \in Amounts :
             ReadForCount(t, product, batch, n)
  BY <1>4, <1>9
<1>10. CASE \E k \in Keys, q \in Amounts \ {0} : Receive(k, q)
  BY <1>1, <1>2, <1>10, ReceiveOneLot
<1>11. CASE \E product \in Products, batch \in Batches,
               delta \in (-MaxQuantity .. MaxQuantity) \ {0} : Adjust(product, batch, delta)
  BY <1>1, <1>2, <1>11, AdjustOneLot
<1>12. CASE \E row \in Rows, day \in Days \cup {Undated} : UpdateExpiry(row, day)
  BY <1>5, <1>12
<1> QED  BY <1>6, <1>7, <1>8, <1>9, <1>10, <1>11, <1>12 DEF Next

--------------------------------------------------------------------------------
(* The rows as lots on a shelf *)

LotOf(row) == [batch |-> key[row].batch, expiry |-> key[row].expiry]
RowsOfLot(p, lot) == {row \in Rows : key[row] = KeyOf(p, lot)}

LEMMA RowsAreFinite == IsFiniteSet(Rows)
BY RowsAssumption, FS_Interval DEF Rows

LEMMA LotKeys ==
  ASSUME NEW p \in Products, NEW lot \in Lots
  PROVE  KeyOf(p, lot) \in Keys /\ KeyOf(p, lot) # Unused
BY MarkersAssumption DEF KeyOf, Keys, Lots

LEMMA OneKeyPerLot ==
  ASSUME NEW p \in Products, NEW lot \in Lots, NEW r \in Products, NEW other \in Lots
  PROVE  KeyOf(p, lot) = KeyOf(r, other) <=> p = r /\ lot = other
<1>1. KeyOf(p, lot) = KeyOf(r, other) =>
        p = r /\ lot.batch = other.batch /\ lot.expiry = other.expiry
  BY DEF KeyOf
<1>2. lot.batch = other.batch /\ lot.expiry = other.expiry => lot = other
  BY DEF Lots
<1> QED  BY <1>1, <1>2

LEMMA RowsHaveLots ==
  ASSUME TypeOK, NEW row \in Rows, key[row] # Unused
  PROVE  /\ key[row] \in Keys /\ key[row].product \in Products /\ LotOf(row) \in Lots
         /\ key[row] = KeyOf(key[row].product, LotOf(row))
<1>1. key[row] \in Keys
  BY DEF TypeOK
<1> QED  BY <1>1 DEF Keys, Lots, LotOf, KeyOf

\* A lot is its row, when it has one, and holds nothing otherwise.
LEMMA HandIsRow ==
  ASSUME TypeOK, LotsAreUnique, NEW p \in Products, NEW lot \in Lots
  PROVE  /\ \A row \in Rows : key[row] = KeyOf(p, lot) => OnHand[p][lot] = qty[row]
         /\ (\A row \in Rows : key[row] # KeyOf(p, lot)) => OnHand[p][lot] = 0
         /\ OnHand[p][lot] \in Nat
<1>1. PICK mine : mine = RowsOfLot(p, lot)
  OBVIOUS
<1>2. OnHand[p][lot] = SumOver(qty, mine)
  BY <1>1 DEF OnHand, RowsOfLot
<1>3. mine \in SUBSET Rows /\ \A row \in Rows : qty[row] \in Nat
  BY <1>1 DEF RowsOfLot, TypeOK
<1>4. ASSUME NEW row \in Rows, key[row] = KeyOf(p, lot) PROVE OnHand[p][lot] = qty[row]
  <2>1. mine = {row}
    BY <1>1, <1>4, LotKeys DEF RowsOfLot, LotsAreUnique
  <2>2. SumOver(qty, mine) = qty[row] + SumOver(qty, mine \ {row})
    BY <1>3, <2>1, RowsAreFinite, SumRemove
  <2>3. mine \ {row} = {}
    BY <2>1
  <2> QED  BY <1>2, <1>3, <2>2, <2>3, SumEmpty
<1>5. ASSUME \A row \in Rows : key[row] # KeyOf(p, lot) PROVE OnHand[p][lot] = 0
  <2>1. mine = {}
    BY <1>1, <1>5 DEF RowsOfLot
  <2> QED  BY <1>2, <2>1, SumEmpty
<1>6. OnHand[p][lot] \in Nat
  BY <1>3, <1>4, <1>5
<1> QED  BY <1>4, <1>5, <1>6

LEMMA HandsAreBins ==
  ASSUME TypeOK, LotsAreUnique
  PROVE  OnHand \in [Products -> [Lots -> Nat]]
<1>1. \A p \in Products : \A lot \in Lots : OnHand[p][lot] \in Nat
  BY HandIsRow
<1>2. /\ DOMAIN OnHand = Products /\ OnHand = [p \in Products |-> OnHand[p]]
      /\ \A p \in Products : OnHand[p] = [lot \in Lots |-> OnHand[p][lot]]
  BY DEF OnHand
<1> HIDE DEF OnHand
<1>3. \A p \in Products : OnHand[p] \in [Lots -> Nat]
  BY <1>1, <1>2
<1> QED  BY <1>2, <1>3

\* Before a step and after it.
HandsFit ==
  /\ \A p \in Products, lot \in Lots :
       /\ \A row \in Rows : key[row] = KeyOf(p, lot) => OnHand[p][lot] = qty[row]
       /\ (\A row \in Rows : key[row] # KeyOf(p, lot)) => OnHand[p][lot] = 0
       /\ OnHand[p][lot] \in Nat
  /\ OnHand \in [Products -> [Lots -> Nat]]

LEMMA LedgerFitsHands == LedgerInv => HandsFit
BY HandIsRow, HandsAreBins DEF LedgerInv, HandsFit

LEMMA HandsFitOn == LedgerInv /\ [Next]_vars => HandsFit /\ HandsFit'
BY LedgerFitsHands, NextLedger, PTL

LEMMA StillHands ==
  ASSUME HandsFit, Still
  PROVE  OnHand' = OnHand /\ ~LotGrows
<1>1. OnHand' = OnHand
  BY DEF Still, OnHand
<1>2. \A p \in Products, lot \in Lots : OnHand[p][lot] \in Nat
  BY DEF HandsFit
<1> QED  BY <1>1, <1>2 DEF LotGrows

\* A lot whose row did not change holds what it held.
LEMMA OtherLotsStay ==
  ASSUME HandsFit, HandsFit', NEW p \in Products, NEW lot \in Lots,
         \A row \in Rows : /\ key[row] = KeyOf(p, lot) <=> key'[row] = KeyOf(p, lot)
                           /\ key[row] = KeyOf(p, lot) => qty'[row] = qty[row]
  PROVE  OnHand'[p][lot] = OnHand[p][lot]
<1>1. CASE \E row \in Rows : key[row] = KeyOf(p, lot)
  BY <1>1 DEF HandsFit
<1>2. CASE \A row \in Rows : key[row] # KeyOf(p, lot)
  BY <1>2 DEF HandsFit
<1> QED  BY <1>1, <1>2

\* One lot and no other changes.
LEMMA OneHand ==
  ASSUME HandsFit, HandsFit', NEW p \in Products, NEW lot \in Lots, NEW n \in Nat,
         OnHand'[p][lot] = n,
         \A r \in Products, other \in Lots :
           (r # p \/ other # lot) => OnHand'[r][other] = OnHand[r][other]
  PROVE  /\ OnHand' = [OnHand EXCEPT ![p][lot] = n]
         /\ LotGrows <=> n > OnHand[p][lot]
<1>1. PICK old : old = OnHand
  OBVIOUS
<1>2. PICK new : new = OnHand'
  OBVIOUS
<1>3. /\ old \in [Products -> [Lots -> Nat]] /\ new \in [Products -> [Lots -> Nat]]
      /\ new[p][lot] = n
      /\ \A r \in Products, other \in Lots : (r # p \/ other # lot) => new[r][other] = old[r][other]
  BY <1>1, <1>2 DEF HandsFit
<1>4. new = [old EXCEPT ![p][lot] = n]
  <2>1. \A r \in Products : new[r] = IF r = p THEN [old[p] EXCEPT ![lot] = n] ELSE old[r]
    <3> SUFFICES ASSUME NEW r \in Products
                 PROVE  new[r] = IF r = p THEN [old[p] EXCEPT ![lot] = n] ELSE old[r]
      OBVIOUS
    <3>1. new[r] \in [Lots -> Nat] /\ old[r] \in [Lots -> Nat]
      BY <1>3
    <3>2. CASE r = p
      BY <1>3, <3>1, <3>2
    <3>3. CASE r # p
      BY <1>3, <3>1, <3>3
    <3> QED  BY <3>2, <3>3
  <2> QED  BY <1>3, <2>1
<1>5. LotGrows <=> n > old[p][lot]
  <2>1. LotGrows <=> \E r \in Products, other \in Lots : new[r][other] > old[r][other]
    BY <1>1, <1>2 DEF LotGrows
  <2>2. \A r \in Products, other \in Lots : old[r][other] \in Nat /\ new[r][other] \in Nat
    BY <1>3
  <2> QED  BY <1>3, <2>1, <2>2
<1> QED  BY <1>1, <1>2, <1>4, <1>5

LEMMA QuantityHands ==
  ASSUME LedgerInv, HandsFit, HandsFit', NEW row \in Rows, NEW n \in Nat, OneQuantity(row, n)
  PROVE  LET p == key[row].product  lot == LotOf(row) IN
         /\ p \in Products /\ lot \in Lots
         /\ OnHand' = [OnHand EXCEPT ![p][lot] = n]
         /\ LotGrows <=> n > OnHand[p][lot]
<1> DEFINE p == key[row].product  lot == LotOf(row)
<1>1. p \in Products /\ lot \in Lots /\ key[row] = KeyOf(p, lot)
  BY RowsHaveLots DEF LedgerInv, OneQuantity
<1> HIDE DEF p, lot
<1>2. key' = key /\ qty'[row] = n /\ \A other \in Rows : other # row => qty'[other] = qty[other]
  BY DEF OneQuantity, LedgerInv, TypeOK
<1>3. OnHand'[p][lot] = n
  BY <1>1, <1>2 DEF HandsFit
<1>4. ASSUME NEW r \in Products, NEW other \in Lots, r # p \/ other # lot
      PROVE  OnHand'[r][other] = OnHand[r][other]
  <2>1. key[row] # KeyOf(r, other)
    BY <1>1, <1>4, OneKeyPerLot
  <2> QED  BY <1>2, <2>1, OtherLotsStay
<1>5. /\ OnHand' = [OnHand EXCEPT ![p][lot] = n]
      /\ LotGrows <=> n > OnHand[p][lot]
  BY <1>1, <1>3, <1>4, OneHand
<1> QED  BY <1>1, <1>5 DEF p, lot

LEMMA RowHands ==
  ASSUME LedgerInv, HandsFit, HandsFit', NEW row \in Rows, NEW k \in Keys, NEW n \in Nat,
         OneRow(row, k, n)
  PROVE  \E p \in Products, lot \in Lots :
           /\ OnHand' = [OnHand EXCEPT ![p][lot] = n]
           /\ LotGrows <=> n > OnHand[p][lot]
<1>1. PICK p \in Products, lot \in Lots : k = KeyOf(p, lot)
  <2>1. /\ k.product \in Products /\ [batch |-> k.batch, expiry |-> k.expiry] \in Lots
        /\ k = KeyOf(k.product, [batch |-> k.batch, expiry |-> k.expiry])
    BY DEF Keys, Lots, KeyOf
  <2> QED  BY <2>1
<1>2. /\ key'[row] = k /\ qty'[row] = n /\ key[row] = Unused
      /\ \A other \in Rows : key[other] # k
      /\ \A other \in Rows : other # row => key'[other] = key[other] /\ qty'[other] = qty[other]
  BY DEF OneRow, LedgerInv, TypeOK
<1>3. OnHand'[p][lot] = n
  BY <1>1, <1>2 DEF HandsFit
<1>4. ASSUME NEW r \in Products, NEW other \in Lots, r # p \/ other # lot
      PROVE  OnHand'[r][other] = OnHand[r][other]
  <2>1. KeyOf(r, other) # k /\ KeyOf(r, other) # Unused
    BY <1>1, <1>4, OneKeyPerLot, LotKeys
  <2> QED  BY <1>2, <2>1, OtherLotsStay
<1> QED  BY <1>3, <1>4, OneHand

\* The goods of a lot move to another expiry of the same batch, which had none.
LEMMA ExpiryHands ==
  ASSUME LedgerInv, HandsFit, HandsFit', NEW row \in Rows, NEW day \in Days \cup {Undated},
         OneExpiry(row, day)
  PROVE  LET p == key[row].product  lot == LotOf(row)  other == [lot EXCEPT !.expiry = day] IN
         /\ p \in Products /\ lot \in Lots /\ other \in Lots /\ other # lot
         /\ OnHand[p][other] = 0
         /\ OnHand' = [OnHand EXCEPT ![p] = [@ EXCEPT ![lot] = 0, ![other] = OnHand[p][lot]]]
         /\ LotGrows <=> OnHand[p][lot] > 0
<1> DEFINE p == key[row].product  lot == LotOf(row)  other == [lot EXCEPT !.expiry = day]
<1>1. /\ p \in Products /\ lot \in Lots /\ key[row] = KeyOf(p, lot)
  BY RowsHaveLots DEF LedgerInv, OneExpiry
<1>2. /\ other \in Lots
      /\ [key[row] EXCEPT !.expiry = day] = KeyOf(p, other)
  BY <1>1 DEF KeyOf, Lots
<1> HIDE DEF p, lot, other
<1>3. /\ key'[row] = KeyOf(p, other) /\ qty' = qty
      /\ \A next \in Rows : key[next] # KeyOf(p, other)
      /\ \A next \in Rows : next # row => key'[next] = key[next]
  BY <1>2 DEF OneExpiry, LedgerInv, TypeOK
<1>4. other # lot
  BY <1>1, <1>3
<1>5. OnHand[p][other] = 0 /\ OnHand[p][lot] = qty[row] /\ OnHand'[p][other] = qty[row]
  BY <1>1, <1>2, <1>3 DEF HandsFit
<1>6. OnHand'[p][lot] = 0
  <2>1. \A next \in Rows : key'[next] # KeyOf(p, lot)
    <3> SUFFICES ASSUME NEW next \in Rows, key'[next] = KeyOf(p, lot) PROVE FALSE
      OBVIOUS
    <3>1. next # row
      BY <1>1, <1>2, <1>3, <1>4, OneKeyPerLot
    <3>2. key[row] = key[next] /\ key[row] # Unused
      BY <1>1, <1>3, <3>1, LotKeys
    <3> QED  BY <3>1, <3>2 DEF LedgerInv, LotsAreUnique
  <2> QED  BY <1>1, <2>1 DEF HandsFit
<1>7. ASSUME NEW r \in Products, NEW next \in Lots, r # p \/ next \notin {lot, other}
      PROVE  OnHand'[r][next] = OnHand[r][next]
  <2>1. KeyOf(r, next) # KeyOf(p, lot) /\ KeyOf(r, next) # KeyOf(p, other)
    BY <1>1, <1>2, <1>7, OneKeyPerLot
  <2> QED  BY <1>1, <1>3, <2>1, OtherLotsStay
<1>8. PICK old : old = OnHand
  OBVIOUS
<1>9. PICK new : new = OnHand'
  OBVIOUS
<1>10. /\ old \in [Products -> [Lots -> Nat]] /\ new \in [Products -> [Lots -> Nat]]
       /\ new[p][lot] = 0 /\ new[p][other] = old[p][lot] /\ old[p][other] = 0
       /\ \A r \in Products, next \in Lots :
            (r # p \/ next \notin {lot, other}) => new[r][next] = old[r][next]
  BY <1>5, <1>6, <1>7, <1>8, <1>9 DEF HandsFit
<1>11. new = [old EXCEPT ![p] = [@ EXCEPT ![lot] = 0, ![other] = old[p][lot]]]
  <2> DEFINE swapped == [old[p] EXCEPT ![lot] = 0, ![other] = old[p][lot]]
  <2>1. new[p] = swapped
    <3>1. new[p] \in [Lots -> Nat] /\ swapped \in [Lots -> Nat]
      BY <1>1, <1>2, <1>10
    <3>2. \A next \in Lots : new[p][next] = swapped[next]
      BY <1>1, <1>2, <1>4, <1>10
    <3> HIDE DEF swapped
    <3> QED  BY <3>1, <3>2
  <2>2. \A r \in Products : r # p => new[r] = old[r]
    <3> SUFFICES ASSUME NEW r \in Products, r # p PROVE new[r] = old[r]
      OBVIOUS
    <3>1. new[r] \in [Lots -> Nat] /\ old[r] \in [Lots -> Nat]
      BY <1>10
    <3> QED  BY <1>10, <3>1
  <2> QED  BY <1>1, <1>10, <2>1, <2>2
<1>12. LotGrows <=> old[p][lot] > 0
  <2>1. LotGrows <=> \E r \in Products, next \in Lots : new[r][next] > old[r][next]
    BY <1>8, <1>9 DEF LotGrows
  <2>2. \A r \in Products, next \in Lots : old[r][next] \in Nat /\ new[r][next] \in Nat
    BY <1>10
  <2> QED  BY <1>1, <1>2, <1>10, <2>1, <2>2
<1>13. /\ OnHand[p][other] = 0
       /\ OnHand' = [OnHand EXCEPT ![p] = [@ EXCEPT ![lot] = 0, ![other] = OnHand[p][lot]]]
       /\ LotGrows <=> OnHand[p][lot] > 0
  BY <1>5, <1>8, <1>9, <1>11, <1>12
<1> QED  BY <1>1, <1>2, <1>4, <1>13 DEF p, lot, other

--------------------------------------------------------------------------------
(* What a transaction has drawn, line by line and lot by lot *)

Of(p, row) == key[row] # Unused /\ key[row].product = p
DrawnOf(h, p) == SumOver([row \in Rows |-> IF Of(p, row) THEN h.draw[row] ELSE 0], Rows)
\* What the lines taken so far ask of a product.
DoneOf(h, p) ==
  SumOver([i \in DOMAIN h.doc |-> IF h.doc[i].product = p /\ i \notin h.todo
                                  THEN h.doc[i].q ELSE 0], DOMAIN h.doc)

\* Each line is drawn whole, from lots of its product.
DrawnInFull(t) ==
  Drawing(t) =>
    LET h == job[t] IN
    /\ h.cur = 0 => h.plan = {} /\ h.usable = {}
    /\ h.cur # 0 => h.cur \in h.todo
    /\ \A row \in h.usable : key[row].product = h.doc[h.cur].product
    /\ \A p \in Products : DrawnOf(h, p) = DoneOf(h, p)

\* As long as no lot grew, the line in hand knows every lot it may draw from under
\* its expiry, and a lot is begun when those before it are used up.
DrawnInOrder(t) ==
  Drawing(t) /\ t \notin stirred =>
    LET h == job[t] IN
    /\ h.cur # 0 =>
         \A row \in Rows : Matches(h, h.cur, row) =>
           row \in h.plan \cup h.usable /\ h.rank[row] = key[row].expiry
    /\ \A row, later \in Rows :
         /\ Fresh(h, row) /\ h.draw[later] > 0
         /\ key[row].product = key[later].product /\ Precedes(row, later)
         => Left(h, row) = 0

ShelfInv ==
  /\ LedgerInv
  /\ \A t \in Threads : DrawnInFull(t) /\ DrawnInOrder(t)
  /\ stirred \subseteq {t \in Threads : Drawing(t)}

\* A row that comes to stand for another lot takes one that had no row.
LEMMA KeysMove ==
  ASSUME LedgerInv, [Next]_vars, NEW row \in Rows, key'[row] # key[row]
  PROVE  \A other \in Rows : key[other] # key'[row]
<1>1. TypeOK
  BY DEF LedgerInv
<1>2. CASE Still
  BY <1>2 DEF Still
<1>3. CASE OneLot
  BY <1>1, <1>3 DEF OneLot, OneQuantity, OneExpiry, OneRow, TypeOK
<1>4. UNCHANGED key \/ Still \/ OneLot
  BY StepKinds DEF Begin, OpenLine, LockRow, DrawLine, CommitDraw, Rollback
<1> QED  BY <1>2, <1>3, <1>4

\* Where no lot grows, a row keeps its lot and gets no more of it, or is empty.
LEMMA CalmRows ==
  ASSUME LedgerInv, [Next]_vars, ~LotGrows, NEW row \in Rows, key'[row] # Unused
  PROVE  \/ key'[row] = key[row] /\ qty'[row] <= qty[row]
         \/ qty'[row] = 0
<1>1. HandsFit /\ HandsFit' /\ LedgerInv'
  BY HandsFitOn, NextLedger
<1>2. key'[row] \in Keys /\ qty'[row] \in Nat
  BY <1>1 DEF LedgerInv, TypeOK
<1>3. PICK p \in Products, lot \in Lots : key'[row] = KeyOf(p, lot)
  <2>1. /\ key'[row].product \in Products
        /\ [batch |-> key'[row].batch, expiry |-> key'[row].expiry] \in Lots
        /\ key'[row] = KeyOf(key'[row].product,
                             [batch |-> key'[row].batch, expiry |-> key'[row].expiry])
    BY <1>2 DEF Keys, Lots, KeyOf
  <2> QED  BY <2>1
<1>4. /\ OnHand'[p][lot] = qty'[row] /\ OnHand[p][lot] \in Nat
      /\ ~(OnHand'[p][lot] > OnHand[p][lot])
  BY <1>1, <1>3 DEF HandsFit, LotGrows
<1>5. CASE key'[row] = key[row]
  <2>1. OnHand[p][lot] = qty[row]
    BY <1>1, <1>3, <1>5 DEF HandsFit
  <2> QED  BY <1>2, <1>4, <1>5, <2>1
<1>6. CASE key'[row] # key[row]
  <2>1. OnHand[p][lot] = 0
    BY <1>1, <1>3, <1>6, KeysMove DEF HandsFit
  <2> QED  BY <1>2, <1>4, <2>1
<1> QED  BY <1>5, <1>6

\* What the others' steps leave of a transaction in progress.
Holds(t) ==
  /\ Drawing(t) /\ Drawing(t)' /\ job'[t] = job[t]
  /\ \A row \in Rows : row \in job[t].usable \/ job[t].draw[row] > 0 =>
       key'[row] = key[row] /\ qty'[row] = qty[row]

LEMMA FullWhenHeld ==
  ASSUME LedgerInv, LedgerInv', NEW t \in Threads, DrawnInFull(t), Holds(t)
  PROVE  DrawnInFull(t)'
<1>1. job[t] \in DrawJobs
  BY KindOfJob DEF LedgerInv, Holds
<1>2. PICK h : h = job[t]
  OBVIOUS
<1>3. /\ Drawing(t) /\ Drawing(t)' /\ job'[t] = h
      /\ h.draw \in [Rows -> Nat] /\ h.usable \subseteq Rows
      /\ \A row \in Rows : row \in h.usable \/ h.draw[row] > 0 => key'[row] = key[row]
  BY <1>1, <1>2 DEF Holds, DrawJobs
<1>4. ASSUME NEW p \in Products PROVE DrawnOf(h, p)' = DrawnOf(h, p)
  <2>1. PICK old : old = [row \in Rows |-> IF Of(p, row) THEN h.draw[row] ELSE 0]
    OBVIOUS
  <2>2. PICK new : new = [row \in Rows |-> IF Of(p, row)' THEN h.draw[row] ELSE 0]
    OBVIOUS
  <2>3. \A row \in Rows : old[row] \in Int /\ old[row] = new[row]
    BY <1>3, <2>1, <2>2 DEF Of
  <2>4. SumOver(old, Rows) = SumOver(new, Rows)
    BY <2>3, RowsAreFinite, SumSame
  <2>5. DrawnOf(h, p) = SumOver(old, Rows)
    BY <2>1 DEF DrawnOf
  <2>6. DrawnOf(h, p)' = SumOver(new, Rows)
    BY <1>2, <1>3, <2>2 DEF DrawnOf
  <2> QED  BY <2>4, <2>5, <2>6
<1> QED  BY <1>2, <1>3, <1>4 DEF DrawnInFull, DoneOf

LEMMA OrderWhenHeld ==
  ASSUME LedgerInv, LedgerInv', [Next]_vars, NEW t \in Threads, DrawnInOrder(t), Holds(t),
         t \in stirred \/ LotGrows => t \in stirred'
  PROVE  DrawnInOrder(t)'
<1> SUFFICES ASSUME t \notin stirred, ~LotGrows PROVE DrawnInOrder(t)'
  BY DEF DrawnInOrder
<1>1. job[t] \in DrawJobs /\ DrawOK(t)
  BY KindOfJob DEF LedgerInv, Holds
<1>2. PICK h : h = job[t]
  OBVIOUS
<1>3. /\ Drawing(t) /\ job'[t] = h
      /\ h.draw \in [Rows -> Nat] /\ h.usable \subseteq Rows
      /\ qty \in [Rows -> Nat] /\ qty' \in [Rows -> Nat]
      /\ \A row \in Rows : row \in h.usable \/ h.draw[row] > 0 =>
           key'[row] = key[row] /\ qty'[row] = qty[row]
      /\ \A row \in Rows : h.draw[row] > 0 => h.draw[row] <= qty[row] /\ key[row] # Unused
  BY <1>1, <1>2 DEF Holds, DrawJobs, DrawOK, Fresh, LedgerInv, TypeOK
<1>4. \A row \in Rows : key'[row] # Unused =>
        \/ key'[row] = key[row] /\ qty'[row] <= qty[row]
        \/ qty'[row] = 0
  BY CalmRows
<1>5. ASSUME h.cur # 0, NEW row \in Rows, Matches(h, h.cur, row)'
      PROVE  row \in h.plan \cup h.usable /\ h.rank[row] = key'[row].expiry
  <2>1. /\ key'[row] # Unused /\ qty'[row] - h.draw[row] > 0
        /\ key'[row].product = h.doc[h.cur].product
        /\ h.kind = "waste" \/ key'[row].expiry >= Today
    BY <1>2, <1>3, <1>5 DEF Matches, Left
  <2>2. key'[row] = key[row] /\ qty'[row] <= qty[row]
    BY <1>3, <1>4, <2>1
  <2>3. Matches(h, h.cur, row)
    BY <1>3, <2>1, <2>2 DEF Matches, Left
  <2> QED  BY <1>2, <1>3, <1>5, <2>2, <2>3 DEF DrawnInOrder
<1>6. ASSUME NEW row \in Rows, NEW later \in Rows, Fresh(h, row)', h.draw[later] > 0,
             key'[row].product = key'[later].product, Precedes(row, later)'
      PROVE  qty'[row] - h.draw[row] = 0
  <2>1. key'[later] = key[later] /\ key'[row] # Unused
    BY <1>2, <1>3, <1>6 DEF Fresh
  <2>2. CASE h.draw[row] > 0 \/ key'[row] = key[row]
    <3>1. key'[row] = key[row]
      BY <1>3, <2>2
    <3>2. Fresh(h, row) /\ key[row].product = key[later].product /\ Precedes(row, later)
      BY <1>2, <1>3, <1>6, <2>1, <3>1 DEF Fresh, Precedes
    <3>3. qty[row] - h.draw[row] = 0
      BY <1>2, <1>3, <1>6, <3>2 DEF DrawnInOrder, Left
    <3>4. CASE h.draw[row] > 0
      BY <1>3, <3>3, <3>4
    <3>5. CASE h.draw[row] = 0
      BY <1>3, <1>4, <2>1, <3>3, <3>5
    <3> QED  BY <1>3, <3>4, <3>5
  <2>3. CASE h.draw[row] = 0 /\ key'[row] # key[row]
    BY <1>3, <1>4, <2>1, <2>3
  <2> QED  BY <1>3, <2>2, <2>3
<1> QED  BY <1>2, <1>3, <1>5, <1>6 DEF DrawnInOrder, Left

--------------------------------------------------------------------------------
(* The draw's own steps *)

LEMMA BeginDrawn ==
  ASSUME LedgerInv, NEW t \in Threads, NEW kind \in Kinds, NEW doc \in Docs, Begin(t, kind, doc)
  PROVE  DrawnInFull(t)' /\ DrawnInOrder(t)'
<1> DEFINE h == [kind |-> kind, doc |-> doc, todo |-> DOMAIN doc, cur |-> 0,
                 plan |-> {}, usable |-> {}, rank |-> [row \in Rows |-> 0],
                 draw |-> [row \in Rows |-> 0]]
<1>1. job'[t] = h
  BY DEF Begin, LedgerInv, TypeOK
<1>2. /\ h.doc = doc /\ h.todo = DOMAIN doc /\ h.cur = 0 /\ h.plan = {} /\ h.usable = {}
      /\ \A row \in Rows : h.draw[row] = 0
  OBVIOUS
<1> HIDE DEF h
<1>3. ASSUME NEW p \in Products PROVE DrawnOf(h, p)' = DoneOf(h, p)
  <2>1. PICK drawn : drawn = [row \in Rows |-> IF Of(p, row)' THEN h.draw[row] ELSE 0]
    OBVIOUS
  <2>2. PICK done : done = [i \in DOMAIN h.doc |-> IF h.doc[i].product = p /\ i \notin h.todo
                                                   THEN h.doc[i].q ELSE 0]
    OBVIOUS
  <2>3. SumOver(drawn, Rows) = 0
    BY <1>2, <2>1, RowsAreFinite, SumZero
  <2>4. SumOver(done, DOMAIN doc) = 0
    BY <1>2, <2>2, DocsAssumption, SumZero
  <2>5. DrawnOf(h, p)' = SumOver(drawn, Rows)
    <3>1. h' = h
      BY DEF h
    <3> QED  BY <2>1, <3>1 DEF DrawnOf
  <2>6. DoneOf(h, p) = SumOver(done, DOMAIN doc)
    BY <1>2, <2>2 DEF DoneOf
  <2> QED  BY <2>3, <2>4, <2>5, <2>6
<1>4. \A p : DoneOf(h, p)' = DoneOf(h, p)
  BY DEF DoneOf, h
<1>5. h' = h
  BY DEF h
<1>6. DrawnInFull(t)'
  BY <1>1, <1>2, <1>3, <1>4, <1>5 DEF DrawnInFull
<1>7. DrawnInOrder(t)'
  BY <1>1, <1>2, <1>5 DEF DrawnInOrder
<1> QED  BY <1>6, <1>7

\* A step that changes neither what was drawn nor which lines are done.
LEMMA SameDrawn ==
  ASSUME LedgerInv, NEW t \in Threads, Drawing(t), DrawnInFull(t), UNCHANGED key,
         NEW new, job'[t] = new, new.doc = job[t].doc, new.todo = job[t].todo,
         new.draw = job[t].draw
  PROVE  \A p \in Products : DrawnOf(new, p)' = DoneOf(new, p)'
<1>1. \A p \in Products : DrawnOf(job[t], p) = DoneOf(job[t], p)
  BY DEF DrawnInFull
<1>2. \A p \in Products : DrawnOf(new, p)' = DrawnOf(job[t], p)
  BY DEF DrawnOf, Of
<1>3. \A p \in Products : DoneOf(new, p)' = DoneOf(job[t], p)
  BY DEF DoneOf
<1> QED  BY <1>1, <1>2, <1>3

LEMMA OpenLineDrawn ==
  ASSUME LedgerInv, NEW t \in Threads, OpenLine(t), DrawnInFull(t), DrawnInOrder(t),
         t \in stirred => t \in stirred'
  PROVE  DrawnInFull(t)' /\ DrawnInOrder(t)'
<1>1. PICK i \in NextLines(job[t]) :
        LET found == {row \in Rows : Matches(job[t], i, row)}
        IN job' = [job EXCEPT ![t].cur = i,
                     ![t].plan = found,
                     ![t].rank = [row \in Rows |-> IF row \in found
                                                   THEN key[row].expiry ELSE 0]]
  BY DEF OpenLine
<1>2. /\ Drawing(t) /\ job[t] \in DrawJobs /\ UNCHANGED <<key, qty>> /\ DrawOK(t)
      /\ job[t].cur = 0
  BY KindOfJob DEF OpenLine, LedgerInv
<1>3. PICK old : old = job[t]
  OBVIOUS
<1>4. PICK found : found = {row \in Rows : Matches(old, i, row)}
  OBVIOUS
<1>5. PICK rank : rank = [row \in Rows |-> IF row \in found THEN key[row].expiry ELSE 0]
  OBVIOUS
<1>6. PICK new : new = [old EXCEPT !.cur = i, !.plan = found, !.rank = rank]
  OBVIOUS
<1>7. job'[t] = new
  BY <1>1, <1>2, <1>3, <1>4, <1>5, <1>6 DEF LedgerInv, TypeOK
<1>8. /\ new.kind = old.kind /\ new.doc = old.doc /\ new.todo = old.todo /\ new.cur = i
      /\ new.plan = found /\ new.rank = rank /\ new.usable = old.usable /\ new.draw = old.draw
  BY <1>2, <1>3, <1>6 DEF DrawJobs
<1>9. /\ i \in old.todo /\ i # 0 /\ old.usable = {}
  <2>1. 0 \notin old.todo
    BY <1>2, <1>3, DocsAssumption DEF DrawOK, DrawJobs
  <2> QED  BY <1>2, <1>3, <2>1 DEF NextLines, DocumentOrder, DrawnInFull
<1>10. \A p \in Products : DrawnOf(new, p)' = DoneOf(new, p)'
  BY <1>2, <1>3, <1>7, <1>8, SameDrawn
<1>11. DrawnInFull(t)'
  BY <1>7, <1>8, <1>9, <1>10 DEF DrawnInFull
<1>12. \A row \in Rows : Matches(new, i, row)' => row \in found /\ rank[row] = key'[row].expiry
  BY <1>2, <1>4, <1>5, <1>8 DEF Matches, Left
<1>13. DrawnInOrder(t)'
  <2> SUFFICES ASSUME t \notin stirred PROVE DrawnInOrder(t)'
    BY DEF DrawnInOrder
  <2>1. ASSUME NEW row \in Rows, NEW later \in Rows, Fresh(new, row)', new.draw[later] > 0,
               key'[row].product = key'[later].product, Precedes(row, later)'
        PROVE  Left(new, row)' = 0
    BY <1>2, <1>3, <1>8, <2>1 DEF DrawnInOrder, Fresh, Precedes, Left
  <2> QED  BY <1>7, <1>8, <1>12, <2>1 DEF DrawnInOrder
<1> QED  BY <1>11, <1>13

LEMMA LockRowDrawn ==
  ASSUME LedgerInv, NEW t \in Threads, LockRow(t), DrawnInFull(t), DrawnInOrder(t),
         t \in stirred => t \in stirred'
  PROVE  DrawnInFull(t)' /\ DrawnInOrder(t)'
<1>1. PICK row \in FirstOf(job[t]) :
        job' = [job EXCEPT ![t].plan = @ \ {row},
                     ![t].usable = IF Matches(job[t], job[t].cur, row)
                                   THEN @ \cup {row} ELSE @]
  BY DEF LockRow
<1>2. /\ Drawing(t) /\ job[t] \in DrawJobs /\ UNCHANGED <<key, qty>> /\ DrawOK(t)
  BY KindOfJob DEF LockRow, LedgerInv
<1>3. PICK old : old = job[t]
  OBVIOUS
<1>4. PICK usable : usable = IF Matches(old, old.cur, row) THEN old.usable \cup {row}
                             ELSE old.usable
  OBVIOUS
<1>5. PICK new : new = [old EXCEPT !.plan = @ \ {row}, !.usable = usable]
  OBVIOUS
<1>6. job'[t] = new
  BY <1>1, <1>2, <1>3, <1>4, <1>5 DEF LedgerInv, TypeOK
<1>7. /\ new.kind = old.kind /\ new.doc = old.doc /\ new.todo = old.todo /\ new.cur = old.cur
      /\ new.plan = old.plan \ {row} /\ new.rank = old.rank /\ new.usable = usable
      /\ new.draw = old.draw
  BY <1>2, <1>3, <1>5 DEF DrawJobs
<1>8. row \in old.plan /\ old.cur # 0
  BY <1>1, <1>2, <1>3 DEF FirstOf, DrawnInFull
<1>9. \A p \in Products : DrawnOf(new, p)' = DoneOf(new, p)'
  BY <1>2, <1>3, <1>6, <1>7, SameDrawn
<1>10. DrawnInFull(t)'
  BY <1>2, <1>3, <1>4, <1>6, <1>7, <1>8, <1>9 DEF DrawnInFull, Matches
<1>11. DrawnInOrder(t)'
  <2> SUFFICES ASSUME t \notin stirred PROVE DrawnInOrder(t)'
    BY DEF DrawnInOrder
  <2>1. ASSUME NEW next \in Rows, Matches(new, new.cur, next)'
        PROVE  next \in new.plan \cup new.usable /\ new.rank[next] = key'[next].expiry
    <3>1. Matches(old, old.cur, next)
      BY <1>2, <1>7, <2>1 DEF Matches, Left
    <3>2. next \in old.plan \cup old.usable /\ old.rank[next] = key[next].expiry
      BY <1>2, <1>3, <1>8, <3>1 DEF DrawnInOrder
    <3> QED  BY <1>2, <1>4, <1>7, <3>1, <3>2
  <2>2. ASSUME NEW next \in Rows, NEW later \in Rows, Fresh(new, next)', new.draw[later] > 0,
               key'[next].product = key'[later].product, Precedes(next, later)'
        PROVE  Left(new, next)' = 0
    BY <1>2, <1>3, <1>7, <2>2 DEF DrawnInOrder, Fresh, Precedes, Left
  <2> QED  BY <1>6, <1>7, <2>1, <2>2 DEF DrawnInOrder
<1> QED  BY <1>10, <1>11

\* What a line takes is what it asks, of its product and of no other.
LEMMA DrawLineInFull ==
  ASSUME LedgerInv, NEW old \in DrawJobs, NEW new \in DrawJobs, NEW take \in Takes(old),
         old.cur \in old.todo, old.todo \subseteq DOMAIN old.doc, old.usable \subseteq Rows,
         \A row \in old.usable : key[row] # Unused /\ key[row].product = old.doc[old.cur].product,
         new.doc = old.doc, new.todo = old.todo \ {old.cur},
         \A row \in Rows : new.draw[row] = old.draw[row] + take[row],
         NEW p \in Products, DrawnOf(old, p) = DoneOf(old, p)
  PROVE  DrawnOf(new, p) = DoneOf(new, p)
<1>1. /\ old.doc \in Docs /\ IsFiniteSet(DOMAIN old.doc) /\ old.cur \in DOMAIN old.doc
      /\ \A i \in DOMAIN old.doc : old.doc[i].q \in Nat
  BY DocsAssumption DEF DrawJobs
<1>2. PICK q \in Nat : q = old.doc[old.cur].q
  BY <1>1
<1>3. PICK mine : mine = old.doc[old.cur].product
  OBVIOUS
<1>4. /\ \A row \in Rows : /\ take[row] \in Nat /\ old.draw[row] \in Nat
                           /\ row \notin old.usable => take[row] = 0
      /\ SumOver(take, Rows) = q
  BY <1>2 DEF Takes, DrawJobs
<1>5. \A row \in Rows : take[row] > 0 => Of(mine, row)
  BY <1>3, <1>4 DEF Of
<1>6. PICK before : before = [row \in Rows |-> IF Of(p, row) THEN old.draw[row] ELSE 0]
  OBVIOUS
<1>7. PICK after : after = [row \in Rows |-> IF Of(p, row) THEN new.draw[row] ELSE 0]
  OBVIOUS
<1>8. PICK more : more = [row \in Rows |-> IF Of(p, row) THEN take[row] ELSE 0]
  OBVIOUS
<1>9. /\ DrawnOf(old, p) = SumOver(before, Rows) /\ DrawnOf(new, p) = SumOver(after, Rows)
  BY <1>6, <1>7 DEF DrawnOf
<1>10. \A row \in Rows : /\ before[row] \in Int /\ more[row] \in Int
                         /\ after[row] = before[row] + more[row]
  BY <1>4, <1>6, <1>7, <1>8
<1>11. SumOver(after, Rows) = SumOver(before, Rows) + SumOver(more, Rows)
  BY <1>10, RowsAreFinite, SumPlus
<1>12. SumOver(more, Rows) = IF mine = p THEN q ELSE 0
  <2>1. CASE mine = p
    <3>1. \A row \in Rows : take[row] \in Int /\ take[row] = more[row]
      BY <1>4, <1>5, <1>8, <2>1
    <3>2. SumOver(take, Rows) = SumOver(more, Rows)
      BY <3>1, RowsAreFinite, SumSame
    <3> QED  BY <1>4, <2>1, <3>2
  <2>2. CASE mine # p
    <3>1. \A row \in Rows : more[row] = 0
      BY <1>4, <1>5, <1>8, <2>2 DEF Of
    <3> QED  BY <2>2, <3>1, RowsAreFinite, SumZero
  <2> QED  BY <2>1, <2>2
<1>13. PICK done : done = [i \in DOMAIN old.doc |-> IF old.doc[i].product = p /\ i \notin old.todo
                                                    THEN old.doc[i].q ELSE 0]
  OBVIOUS
<1>14. PICK now : now = [i \in DOMAIN old.doc |->
                           IF old.doc[i].product = p /\ i \notin old.todo \ {old.cur}
                           THEN old.doc[i].q ELSE 0]
  OBVIOUS
<1>15. /\ DoneOf(old, p) = SumOver(done, DOMAIN old.doc)
       /\ DoneOf(new, p) = SumOver(now, DOMAIN old.doc)
  BY <1>13, <1>14 DEF DoneOf
<1>16. /\ \A i \in DOMAIN old.doc : done[i] \in Int /\ now[i] \in Int
       /\ \A i \in (DOMAIN old.doc) \ {old.cur} : now[i] = done[i]
       /\ done[old.cur] = 0 /\ now[old.cur] = IF mine = p THEN q ELSE 0
  BY <1>1, <1>2, <1>3, <1>13, <1>14
<1>17. PICK lines : lines = DOMAIN old.doc
  OBVIOUS
<1>18. PICK cur \in lines : cur = old.cur
  BY <1>1, <1>17
<1>19. /\ IsFiniteSet(lines) /\ \A i \in lines : done[i] \in Int /\ now[i] \in Int
       /\ \A i \in lines \ {cur} : now[i] = done[i]
       /\ done[cur] = 0 /\ now[cur] = IF mine = p THEN q ELSE 0
  BY <1>1, <1>16, <1>17, <1>18
<1>20. SumOver(now, lines) = SumOver(done, lines) - done[cur] + now[cur]
  BY <1>19, SumChange
<1>21. SumOver(done, lines) \in Int /\ SumOver(before, Rows) \in Int
  BY <1>10, <1>19, RowsAreFinite, SumIsInt
<1>22. SumOver(now, lines) = SumOver(done, lines) + IF mine = p THEN q ELSE 0
  BY <1>19, <1>20, <1>21
<1> QED  BY <1>9, <1>11, <1>12, <1>15, <1>17, <1>21, <1>22

\* A lot is drawn from when those before it are used up, if the snapshot is right.
LEMMA DrawLineInOrder ==
  ASSUME LedgerInv, NEW t \in Threads, Drawing(t), DrawnInOrder(t), t \notin stirred,
         NEW old \in DrawJobs, old = job[t], old.cur # 0, old.plan = {},
         \A row \in old.usable : key[row].product = old.doc[old.cur].product,
         NEW take \in Takes(old), NEW row \in Rows, NEW later \in Rows,
         Fresh(old, row), old.draw[later] + take[later] > 0,
         key[row].product = key[later].product, Precedes(row, later)
  PROVE  qty[row] - (old.draw[row] + take[row]) = 0
<1>1. /\ \A next \in Rows : /\ old.draw[next] \in Nat /\ qty[next] \in Nat
                            /\ old.draw[next] <= qty[next]
                            /\ old.draw[next] > 0 => Fresh(old, next)
      /\ \A next \in old.usable : Fresh(old, next)
  BY DEF LedgerInv, DrawOK, DrawJobs, TypeOK
<1>2. \A next \in Rows : /\ take[next] \in Nat
                         /\ take[next] <= IF next \in old.usable THEN Left(old, next) ELSE 0
  <2>1. old.doc[old.cur].q \in Nat
    BY DocsAssumption DEF LedgerInv, DrawOK, DrawJobs
  <2> QED  BY <2>1 DEF Takes
<1>3. CASE old.draw[later] > 0
  <2>1. Left(old, row) = 0
    BY <1>3 DEF DrawnInOrder
  <2> QED  BY <1>1, <1>2, <2>1 DEF Left
<1>4. CASE take[later] > 0
  <2>1. /\ later \in old.usable /\ Left(old, later) > 0
        /\ Fresh(old, later) /\ key[later].product = old.doc[old.cur].product
    BY <1>1, <1>2, <1>4 DEF Left
  <2>2. CASE Left(old, row) = 0
    BY <1>1, <1>2, <2>2 DEF Left
  <2>3. CASE Left(old, row) > 0
    <3>1. Matches(old, old.cur, row) /\ Matches(old, old.cur, later)
      BY <2>1, <2>3 DEF Matches, Fresh
    <3>2. /\ row \in old.usable /\ old.rank[row] = key[row].expiry
          /\ old.rank[later] = key[later].expiry
      BY <3>1 DEF DrawnInOrder
    <3>3. key[row] \in Keys /\ key[later] \in Keys
      BY <3>1 DEF Matches, LedgerInv, TypeOK
    <3>4. /\ key[row].product \in Nat /\ key[row].expiry \in Nat /\ key[later].expiry \in Nat
      <4>1. \A k \in Keys : k.product \in Nat /\ k.expiry \in Nat
        <5>1. Days \cup {Undated} \subseteq Nat /\ Products \subseteq Nat
          BY RowsAssumption, DayAssumption DEF Days, Undated
        <5> QED  BY <5>1 DEF Keys
      <4> QED  BY <3>3, <4>1
    <3>5. row # later /\ Before(old, row, later)
      BY <3>2, <3>4, RowFacts DEF Before, Precedes
    <3>6. take[row] = Left(old, row)
      BY <1>4, <2>1, <3>2, <3>5 DEF Takes
    <3> QED  BY <1>1, <3>6 DEF Left
  <2> QED  BY <1>1, <2>2, <2>3 DEF Left
<1> QED  BY <1>1, <1>2, <1>3, <1>4

LEMMA DrawLineDrawn ==
  ASSUME LedgerInv, NEW t \in Threads, DrawLine(t), DrawnInFull(t), DrawnInOrder(t),
         t \in stirred => t \in stirred'
  PROVE  DrawnInFull(t)' /\ DrawnInOrder(t)'
<1>1. PICK take \in Takes(job[t]) :
        job' = [job EXCEPT
                 ![t].draw = [row \in Rows |-> @[row] + take[row]],
                 ![t].todo = @ \ {job[t].cur},
                 ![t].cur = 0,
                 ![t].usable = {},
                 ![t].rank = [row \in Rows |-> 0]]
  BY DEF DrawLine
<1>2. /\ Drawing(t) /\ job[t] \in DrawJobs /\ UNCHANGED <<key, qty>> /\ DrawOK(t)
      /\ job[t].cur # 0 /\ job[t].plan = {}
  BY KindOfJob DEF DrawLine, LedgerInv
<1>3. PICK old \in DrawJobs : old = job[t]
  BY <1>2
<1>4. PICK draw : draw = [row \in Rows |-> old.draw[row] + take[row]]
  OBVIOUS
<1>5. PICK new : new = [old EXCEPT !.draw = draw, !.todo = @ \ {old.cur}, !.cur = 0,
                                   !.usable = {}, !.rank = [row \in Rows |-> 0]]
  OBVIOUS
<1>6. job'[t] = new
  BY <1>1, <1>2, <1>3, <1>4, <1>5 DEF LedgerInv, TypeOK
<1>7. /\ new.kind = old.kind /\ new.doc = old.doc /\ new.todo = old.todo \ {old.cur}
      /\ new.cur = 0 /\ new.plan = {} /\ new.usable = {} /\ new.draw = draw
      /\ \A row \in Rows : draw[row] = old.draw[row] + take[row]
  BY <1>2, <1>3, <1>4, <1>5 DEF DrawJobs
<1>8. new \in DrawJobs
  <2>1. LedgerInv' /\ Drawing(t)'
    BY DrawLineStep
  <2>2. /\ job'[t] \in DrawJobs \cup CountJobs \cup {Idle}
        /\ job'[t] # Idle /\ job'[t].kind \in Kinds
    BY <2>1 DEF LedgerInv, TypeOK, Drawing
  <2> QED  BY <1>6, <2>2 DEF CountJobs, Kinds
<1>9. /\ old.cur \in old.todo /\ old.todo \subseteq DOMAIN old.doc /\ old.usable \subseteq Rows
      /\ \A row \in old.usable : key[row] # Unused /\ key[row].product = old.doc[old.cur].product
  BY <1>2, <1>3 DEF DrawnInFull, DrawOK, Fresh, DrawJobs
<1>10. ASSUME NEW p \in Products PROVE DrawnOf(new, p)' = DoneOf(new, p)'
  <2>1. DrawnOf(old, p) = DoneOf(old, p)
    BY <1>2, <1>3 DEF DrawnInFull
  <2>2. DrawnOf(new, p) = DoneOf(new, p)
    <3>1. /\ take \in Takes(old)
          /\ \A row \in Rows : new.draw[row] = old.draw[row] + take[row]
      BY <1>1, <1>3, <1>7
    <3> QED  BY <1>7, <1>8, <1>9, <2>1, <3>1, DrawLineInFull
  <2> QED  BY <1>2, <2>2, <1>6 DEF DrawnOf, DoneOf, Of
<1>11. DrawnInFull(t)'
  BY <1>6, <1>7, <1>10 DEF DrawnInFull
<1>12. DrawnInOrder(t)'
  <2> SUFFICES ASSUME t \notin stirred PROVE DrawnInOrder(t)'
    BY DEF DrawnInOrder
  <2>1. ASSUME NEW row \in Rows, NEW later \in Rows, Fresh(new, row)', new.draw[later] > 0,
               key'[row].product = key'[later].product, Precedes(row, later)'
        PROVE  Left(new, row)' = 0
    <3>1. /\ Fresh(old, row) /\ old.draw[later] + take[later] > 0
          /\ key[row].product = key[later].product /\ Precedes(row, later)
      BY <1>2, <1>7, <2>1 DEF Fresh, Precedes
    <3>2. qty[row] - (old.draw[row] + take[row]) = 0
      BY <1>1, <1>2, <1>3, <1>9, <3>1, DrawLineInOrder
    <3> QED  BY <1>2, <1>7, <3>2 DEF Left
  <2> QED  BY <1>6, <1>7, <2>1 DEF DrawnInOrder
<1> QED  BY <1>11, <1>12

--------------------------------------------------------------------------------
(* The invariant of the draws *)

\* A transaction's step leaves the others what they have.
LEMMA OthersHold ==
  ASSUME LedgerInv, NEW t \in Threads, NEW u \in Threads, u # t, Drawing(u)',
         \/ \E kind \in Kinds, doc \in Docs : Begin(t, kind, doc)
         \/ OpenLine(t) \/ LockRow(t) \/ DrawLine(t) \/ CommitDraw(t) \/ Rollback(t)
  PROVE  Holds(u)
<1>1. UNCHANGED key /\ job'[u] = job[u]
  BY DEF LedgerInv, TypeOK, Begin, OpenLine, LockRow, DrawLine, CommitDraw, Rollback
<1>2. Drawing(u) /\ DrawOK(u) /\ job[u] \in DrawJobs
  BY <1>1, KindOfJob DEF LedgerInv, Drawing
<1>3. ASSUME NEW row \in Rows, lockedBy[row] = u PROVE qty'[row] = qty[row]
  <2>1. CASE CommitDraw(t)
    <3>1. /\ Drawing(t) /\ DrawOK(t) /\ job[t] \in DrawJobs
          /\ qty'[row] = qty[row] - job[t].draw[row]
      BY <2>1, KindOfJob DEF LedgerInv, CommitDraw
    <3>2. job[t].draw[row] \in Nat /\ qty[row] \in Nat
      BY <3>1 DEF DrawJobs, LedgerInv, TypeOK
    <3>3. ~(job[t].draw[row] > 0)
      BY <1>3, <3>1 DEF DrawOK
    <3> QED  BY <3>1, <3>2, <3>3
  <2>2. CASE ~CommitDraw(t)
    BY <2>2 DEF Begin, OpenLine, LockRow, DrawLine, Rollback
  <2> QED  BY <2>1, <2>2
<1>4. \A row \in Rows : row \in job[u].usable \/ job[u].draw[row] > 0 => lockedBy[row] = u
  BY <1>2 DEF DrawOK
<1> QED  BY <1>1, <1>2, <1>3, <1>4 DEF Holds

\* Nobody writes to a row that a transaction may draw from or has drawn from.
LEMMA AllHold ==
  ASSUME LedgerInv, Still \/ OneLot, NoDrawMoves, NEW u \in Threads, Drawing(u)'
  PROVE  Holds(u)
<1>1. Drawing(u) /\ job'[u] = job[u] /\ DrawOK(u)
  BY DEF NoDrawMoves, LedgerInv
<1>2. \A row \in Rows : row \in job[u].usable \/ job[u].draw[row] > 0 =>
        lockedBy[row] # Free /\ key[row] # Unused
  BY <1>1, MarkersAssumption DEF DrawOK, Fresh
<1>3. ASSUME NEW row \in Rows, lockedBy[row] # Free, key[row] # Unused
      PROVE  key'[row] = key[row] /\ qty'[row] = qty[row]
  <2>1. CASE Still
    BY <2>1 DEF Still
  <2>2. CASE OneLot
    BY <1>3, <2>2 DEF OneLot, OneQuantity, OneExpiry, OneRow, LedgerInv, TypeOK
  <2> QED  BY <2>1, <2>2
<1> QED  BY <1>1, <1>2, <1>3 DEF Holds

\* What the history variable does.
LEMMA Stirring ==
  ASSUME ShelfInv, [WatchedNext]_<<vars, stirred>>
  PROVE  /\ [Next]_vars
         /\ \A t \in Threads : t \in stirred' => Drawing(t)'
         /\ \A t \in Threads : Drawing(t)' /\ (t \in stirred \/ LotGrows) => t \in stirred'
         /\ stirred' \subseteq Threads
<1>1. CASE WatchedNext
  BY <1>1 DEF WatchedNext
<1>2. CASE UNCHANGED <<vars, stirred>>
  <2>1. ~LotGrows
    <3>1. HandsFit /\ Still
      BY <1>2, LedgerFitsHands DEF ShelfInv, Still, vars
    <3> QED  BY <3>1, StillHands
  <2> QED  BY <1>2, <2>1 DEF ShelfInv, vars, Drawing
<1> QED  BY <1>1, <1>2

LEMMA InitShelf == WatchedInit => ShelfInv
BY InitLedger DEF WatchedInit, ShelfInv, DrawnInFull, DrawnInOrder, Init, Drawing

LEMMA NextShelf == ShelfInv /\ [WatchedNext]_<<vars, stirred>> => ShelfInv'
<1> SUFFICES ASSUME ShelfInv, [WatchedNext]_<<vars, stirred>> PROVE ShelfInv'
  OBVIOUS
<1>1. /\ [Next]_vars /\ stirred' \subseteq Threads
      /\ \A t \in Threads : t \in stirred' => Drawing(t)'
      /\ \A t \in Threads : Drawing(t)' /\ (t \in stirred \/ LotGrows) => t \in stirred'
  BY Stirring
<1>2. LedgerInv /\ LedgerInv' /\ \A t \in Threads : DrawnInFull(t) /\ DrawnInOrder(t)
  BY <1>1, NextLedger DEF ShelfInv
<1>3. ASSUME NEW t \in Threads, ~Drawing(t)' PROVE DrawnInFull(t)' /\ DrawnInOrder(t)'
  BY <1>3 DEF DrawnInFull, DrawnInOrder
<1>4. ASSUME NEW t \in Threads, Drawing(t)', Holds(t) PROVE DrawnInFull(t)' /\ DrawnInOrder(t)'
  <2>1. t \in stirred \/ LotGrows => t \in stirred'
    BY <1>1, <1>4
  <2> QED  BY <1>1, <1>2, <1>4, <2>1, FullWhenHeld, OrderWhenHeld
<1>5. \A t \in Threads : DrawnInFull(t)' /\ DrawnInOrder(t)'
  <2>1. ASSUME NEW t \in Threads, NEW kind \in Kinds, NEW doc \in Docs, Begin(t, kind, doc)
        PROVE  \A u \in Threads : DrawnInFull(u)' /\ DrawnInOrder(u)'
    BY <1>2, <1>3, <1>4, <2>1, BeginDrawn, OthersHold
  <2>2. ASSUME NEW t \in Threads, OpenLine(t) \/ LockRow(t) \/ DrawLine(t)
        PROVE  \A u \in Threads : DrawnInFull(u)' /\ DrawnInOrder(u)'
    <3>1. Drawing(t)'
      BY <1>2, <2>2, OpenLineStep, LockRowStep, DrawLineStep
    <3>2. t \in stirred => t \in stirred'
      BY <1>1, <3>1
    <3>3. DrawnInFull(t)' /\ DrawnInOrder(t)'
      BY <1>2, <2>2, <3>2, OpenLineDrawn, LockRowDrawn, DrawLineDrawn
    <3> QED  BY <1>2, <1>3, <1>4, <2>2, <3>3, OthersHold
  <2>3. ASSUME NEW t \in Threads, CommitDraw(t) \/ Rollback(t)
        PROVE  \A u \in Threads : DrawnInFull(u)' /\ DrawnInOrder(u)'
    <3>1. ~Drawing(t)'
      BY <1>2, <2>3 DEF CommitDraw, Rollback, Drawing, LedgerInv, TypeOK
    <3> QED  BY <1>2, <1>3, <1>4, <2>3, <3>1, OthersHold
  <2>4. CASE (Still \/ OneLot) /\ NoDrawMoves
    BY <1>2, <1>3, <1>4, <2>4, AllHold
  <2> QED  BY <1>1, <1>2, <2>1, <2>2, <2>3, <2>4, StepKinds
<1> QED  BY <1>1, <1>2, <1>5 DEF ShelfInv

--------------------------------------------------------------------------------
(* The shelves' words are the ledger's *)

LEMMA SameSums ==
  ASSUME NEW f, NEW S
  PROVE  Shelf!SumOver(f, S) = SumOver(f, S)
BY DEF Shelf!SumOver, Shelf!FoldFunctionOnSet, Shelf!MapThenFoldSet,
       SumOver, FoldFunctionOnSet, MapThenFoldSet

LEMMA SameLots == Shelf!Lots = Lots /\ Shelf!Bins = Bins
BY DEF Shelf!Lots, Shelf!Bins, Shelf!Days, Shelf!Undated, Lots, Bins, Days, Undated

LEMMA SameSizes ==
  ASSUME NEW S
  PROVE  Shelf!Cardinality(S) = Cardinality(S)
BY DEF Shelf!Cardinality, Cardinality

LEMMA SameDraws ==
  ASSUME NEW bin, NEW q, NEW day
  PROVE  /\ Shelf!FefoDraws(bin, q, day) = FefoDraws(bin, q, day)
         /\ Shelf!WholeDraws(bin, q, day) =
              {take \in [Lots -> 0 .. q] : /\ \A lot \in Lots : take[lot] <= Takeable(bin, lot, day)
                                           /\ Total(take) = q}
<1>1. \A take : Shelf!Total(take) = Total(take)
  BY SameSums, SameLots DEF Shelf!Total, Total
<1>2. \A lot : Shelf!Dispatchable(bin, lot, day) <=> Dispatchable(bin, lot, day)
  BY DEF Shelf!Dispatchable, Dispatchable
<1>3. \A lot : Shelf!Takeable(bin, lot, day) = Takeable(bin, lot, day)
  BY <1>2 DEF Shelf!Takeable, Takeable
<1>4. ASSUME NEW take
      PROVE  take \in Shelf!FefoDraws(bin, q, day) <=> take \in FefoDraws(bin, q, day)
  <2>1. PICK part : part = {lot \in Lots : 0 < take[lot] /\ take[lot] < bin[lot]}
    OBVIOUS
  <2>2. /\ part = {lot \in Shelf!Lots : 0 < take[lot] /\ take[lot] < bin[lot]}
        /\ Shelf!Cardinality(part) = Cardinality(part)
    BY <2>1, SameLots, SameSizes
  <2> QED  BY <1>1, <1>2, <1>3, <2>1, <2>2, SameLots DEF Shelf!FefoDraws, FefoDraws
<1>5. ASSUME NEW take
      PROVE  take \in Shelf!WholeDraws(bin, q, day) <=>
               /\ take \in [Lots -> 0 .. q]
               /\ \A lot \in Lots : take[lot] <= Takeable(bin, lot, day)
               /\ Total(take) = q
  BY <1>1, <1>3, SameLots DEF Shelf!WholeDraws
<1> QED  BY <1>4, <1>5

--------------------------------------------------------------------------------
(* Every step of the ledger is a step of the shelves, or none *)

LEMMA WhoWaits ==
  /\ Shelf!Waiting = {t \in Threads : Drawing(t)}
  /\ \A t \in Threads : Asked[t] # Shelf!Nothing <=> Drawing(t)
  /\ Asked \in [Threads -> {Asked[t] : t \in Threads}]
<1>1. \A t \in Threads : Asked[t] # Shelf!Nothing <=> Drawing(t)
  <2> TAKE t \in Threads
  <2>1. CASE Drawing(t)
    <3>1. Asked[t].kind \in Kinds
      BY <2>1 DEF Asked, Drawing
    <3> QED  BY <2>1, <3>1 DEF Shelf!Nothing, Kinds
  <2>2. CASE ~Drawing(t)
    BY <2>2 DEF Asked, Shelf!Nothing
  <2> QED  BY <2>1, <2>2
<1> QED  BY <1>1 DEF Shelf!Waiting, Asked

LEMMA WhoIsStirred ==
  ASSUME ShelfInv, WatchedNext
  PROVE  /\ LotGrows => stirred' = {t \in Threads : Drawing(t)'}
         /\ ~LotGrows => stirred' = {t \in stirred : Drawing(t)'}
BY DEF ShelfInv, WatchedNext

\* One transaction's answer, and everybody else's wait.
LEMMA OneAsks ==
  ASSUME ShelfInv, NEW t \in Threads, NEW h, job' = [job EXCEPT ![t] = h]
  PROVE  /\ \A u \in Threads : u # t => Asked'[u] = Asked[u] /\ (Drawing(u)' <=> Drawing(u))
         /\ job'[t] = h
         /\ Asked' = [Asked EXCEPT ![t] = Asked'[t]]
<1>1. job'[t] = h /\ \A u \in Threads : u # t => job'[u] = job[u]
  BY DEF ShelfInv, LedgerInv, TypeOK
<1>2. \A u \in Threads : u # t => Asked'[u] = Asked[u] /\ (Drawing(u)' <=> Drawing(u))
  BY <1>1 DEF Asked, Drawing
<1>3. DOMAIN Asked = Threads /\ DOMAIN Asked' = Threads
  BY DEF Asked
<1>4. Asked' = [u \in Threads |-> Asked'[u]] /\ Asked = [u \in Threads |-> Asked[u]]
  BY DEF Asked
<1>5. PICK old : old = Asked
  OBVIOUS
<1>6. PICK new : new = Asked'
  OBVIOUS
<1>7. /\ new = [u \in Threads |-> new[u]] /\ old = [u \in Threads |-> old[u]]
      /\ \A u \in Threads : u # t => new[u] = old[u]
  BY <1>2, <1>4, <1>5, <1>6
<1>8. new = [old EXCEPT ![t] = new[t]]
  BY <1>7
<1> QED  BY <1>1, <1>2, <1>5, <1>6, <1>8

LEMMA BeginAsks ==
  ASSUME ShelfInv, WatchedNext, NEW t \in Threads, NEW kind \in Kinds, NEW doc \in Docs,
         Begin(t, kind, doc)
  PROVE  Shelf!Ask(t)
<1> DEFINE h == [kind |-> kind, doc |-> doc, todo |-> DOMAIN doc, cur |-> 0,
                 plan |-> {}, usable |-> {}, rank |-> [row \in Rows |-> 0],
                 draw |-> [row \in Rows |-> 0]]
<1>1. /\ job' = [job EXCEPT ![t] = h] /\ h.kind = kind /\ h.doc = doc
  BY DEF Begin
<1> HIDE DEF h
<1>2. Still /\ HandsFit /\ job[t] = Idle /\ Drawing(t)'
  BY LedgerFitsHands, BeginStep DEF ShelfInv, Begin, Still
<1>3. OnHand' = OnHand /\ ~LotGrows
  BY <1>2, StillHands
<1>4. /\ job'[t] = h /\ Asked' = [Asked EXCEPT ![t] = Asked'[t]]
      /\ \A u \in Threads : u # t => (Drawing(u)' <=> Drawing(u))
  BY <1>1, OneAsks
<1>5. ~Drawing(t) /\ Asked[t] = Shelf!Nothing
  BY <1>2, WhoWaits DEF Drawing
<1>6. Asked'[t] = [kind |-> kind, doc |-> doc]
  BY <1>1, <1>2, <1>4 DEF Asked
<1>7. stirred' = stirred
  BY <1>3, <1>4, <1>5, WhoIsStirred DEF ShelfInv
<1> QED  BY <1>3, <1>4, <1>5, <1>6, <1>7 DEF Shelf!Ask, Kinds

\* Opening a line, locking a row and taking a line's quantity cannot be seen.
LEMMA DrawingIsUnseen ==
  ASSUME ShelfInv, WatchedNext, NEW t \in Threads, OpenLine(t) \/ LockRow(t) \/ DrawLine(t)
  PROVE  UNCHANGED <<OnHand, Asked, stirred>>
<1>1. Still /\ HandsFit /\ Drawing(t) /\ Drawing(t)' /\ job[t] \in DrawJobs
  BY LedgerFitsHands, OpenLineStep, LockRowStep, DrawLineStep, KindOfJob
     DEF ShelfInv, LedgerInv, OpenLine, LockRow, DrawLine, Still
<1>2. OnHand' = OnHand /\ ~LotGrows
  BY <1>1, StillHands
<1>3. /\ job'[t].kind = job[t].kind /\ job'[t].doc = job[t].doc
      /\ \A u \in Threads : u # t => job'[u] = job[u]
  <2>1. CASE OpenLine(t)
    <3>1. PICK i, found, rank :
            job' = [job EXCEPT ![t].cur = i, ![t].plan = found, ![t].rank = rank]
      BY <2>1 DEF OpenLine
    <3>2. job' = [job EXCEPT ![t] = [job[t] EXCEPT !.cur = i, !.plan = found, !.rank = rank]]
      BY <3>1
    <3> QED  BY <1>1, <3>2 DEF DrawJobs, ShelfInv, LedgerInv, TypeOK
  <2>2. CASE LockRow(t)
    <3>1. PICK plan, usable : job' = [job EXCEPT ![t].plan = plan, ![t].usable = usable]
      BY <2>2 DEF LockRow
    <3>2. job' = [job EXCEPT ![t] = [job[t] EXCEPT !.plan = plan, !.usable = usable]]
      BY <3>1
    <3> QED  BY <1>1, <3>2 DEF DrawJobs, ShelfInv, LedgerInv, TypeOK
  <2>3. CASE DrawLine(t)
    <3>1. PICK take \in Takes(job[t]) :
            job' = [job EXCEPT
                     ![t].draw = [row \in Rows |-> @[row] + take[row]],
                     ![t].todo = @ \ {job[t].cur},
                     ![t].cur = 0,
                     ![t].usable = {},
                     ![t].rank = [row \in Rows |-> 0]]
      BY <2>3 DEF DrawLine
    <3>2. job' = [job EXCEPT ![t] =
                    [job[t] EXCEPT !.draw = [row \in Rows |-> job[t].draw[row] + take[row]],
                                   !.todo = @ \ {job[t].cur}, !.cur = 0, !.usable = {},
                                   !.rank = [row \in Rows |-> 0]]]
      BY <1>1, <3>1 DEF DrawJobs
    <3> QED  BY <1>1, <3>2 DEF DrawJobs, ShelfInv, LedgerInv, TypeOK
  <2> QED  BY <1>1, <2>1, <2>2, <2>3
<1>4. \A u \in Threads : (Drawing(u)' <=> Drawing(u)) /\ Asked'[u] = Asked[u]
  BY <1>1, <1>3 DEF Drawing, Asked
<1>5. Asked' = Asked
  BY <1>4 DEF Asked
<1>6. stirred' = stirred
  BY <1>2, <1>4, WhoIsStirred DEF ShelfInv
<1> QED  BY <1>2, <1>5, <1>6

LEMMA LeavingAnswers ==
  ASSUME ShelfInv, WatchedNext, NEW t \in Threads, Drawing(t), ~LotGrows,
         job' = [job EXCEPT ![t] = Idle]
  PROVE  Shelf!Answer(t)
<1>1. /\ job'[t] = Idle /\ Asked' = [Asked EXCEPT ![t] = Asked'[t]]
      /\ \A u \in Threads : u # t => (Drawing(u)' <=> Drawing(u))
  BY OneAsks
<1>2. ~Drawing(t)'
  BY <1>1 DEF Drawing
<1>3. Asked'[t] = Shelf!Nothing
  BY <1>2 DEF Asked, Shelf!Nothing
<1>4. stirred' = stirred \ {t}
  BY <1>1, <1>2, WhoIsStirred DEF ShelfInv
<1> QED  BY <1>1, <1>3, <1>4, WhoWaits DEF Shelf!Answer

LEMMA RollbackRefuses ==
  ASSUME ShelfInv, WatchedNext, NEW t \in Threads, Drawing(t), Rollback(t)
  PROVE  Shelf!Refuse(t)
<1>1. OnHand' = OnHand /\ ~LotGrows
  BY LedgerFitsHands, StillHands DEF ShelfInv, Rollback, Still
<1> QED  BY <1>1, LeavingAnswers DEF Rollback, Shelf!Refuse

\* A write to one row.
LEMMA OneLotIsSeen ==
  ASSUME ShelfInv, WatchedNext, Still \/ OneLot, NoDrawMoves
  PROVE  \/ \E p \in Products, lot \in Lots :
              Shelf!Restock(p, lot) \/ \E day \in Days \cup {Undated} : Shelf!Redate(p, lot, day)
         \/ UNCHANGED <<OnHand, Asked, stirred>>
<1>1. LedgerInv /\ HandsFit /\ HandsFit'
  BY HandsFitOn DEF ShelfInv, WatchedNext
<1>2. \A t \in Threads : (Drawing(t)' <=> Drawing(t)) /\ Asked'[t] = Asked[t]
  BY DEF NoDrawMoves, Asked
<1>3. Asked' = Asked
  BY <1>2 DEF Asked
<1>4. /\ LotGrows => stirred' = Shelf!Waiting
      /\ ~LotGrows => stirred' = stirred
  BY <1>2, WhoIsStirred, WhoWaits DEF ShelfInv
<1>5. ASSUME NEW p \in Products, NEW lot \in Lots, NEW n \in Nat,
             OnHand' = [OnHand EXCEPT ![p][lot] = n], LotGrows <=> n > OnHand[p][lot]
      PROVE  Shelf!Restock(p, lot)
  <2>1. PICK old : old = OnHand
    OBVIOUS
  <2>2. PICK new : new = OnHand'
    OBVIOUS
  <2>3. old \in [Products -> [Lots -> Nat]]
    BY <1>1, <2>1 DEF HandsFit
  <2>4. new = [old EXCEPT ![p][lot] = n] /\ new[p][lot] = n
    BY <1>5, <2>1, <2>2, <2>3
  <2> QED  BY <1>3, <1>4, <1>5, <2>1, <2>2, <2>4 DEF Shelf!Restock
<1>6. CASE Still
  BY <1>1, <1>3, <1>4, <1>6, StillHands
<1>7. ASSUME NEW row \in Rows, NEW n \in Nat, OneQuantity(row, n)
      PROVE  \E p \in Products, lot \in Lots : Shelf!Restock(p, lot)
  BY <1>1, <1>5, <1>7, QuantityHands
<1>8. ASSUME NEW row \in Rows, NEW k \in Keys, NEW n \in Nat, OneRow(row, k, n)
      PROVE  \E p \in Products, lot \in Lots : Shelf!Restock(p, lot)
  BY <1>1, <1>5, <1>8, RowHands
<1>9. ASSUME NEW row \in Rows, NEW day \in Days \cup {Undated}, OneExpiry(row, day)
      PROVE  \/ \E p \in Products, lot \in Lots : Shelf!Redate(p, lot, day)
             \/ UNCHANGED <<OnHand, Asked, stirred>>
  <2>1. PICK p \in Products, lot \in Lots, other \in Lots :
          /\ other = [lot EXCEPT !.expiry = day] /\ OnHand[p][other] = 0
          /\ OnHand' = [OnHand EXCEPT ![p] = [@ EXCEPT ![lot] = 0, ![other] = OnHand[p][lot]]]
          /\ LotGrows <=> OnHand[p][lot] > 0
    BY <1>1, <1>9, ExpiryHands
  <2>2. CASE OnHand[p][lot] > 0
    <3>1. Shelf!Redate(p, lot, day)
      BY <1>3, <1>4, <2>1, <2>2 DEF Shelf!Redate
    <3> QED  BY <3>1
  <2>3. CASE ~(OnHand[p][lot] > 0)
    <3>1. PICK old : old = OnHand
      OBVIOUS
    <3>2. old \in [Products -> [Lots -> Nat]] /\ old[p][lot] = 0 /\ old[p][other] = 0
      BY <1>1, <2>1, <2>3, <3>1 DEF HandsFit
    <3>3. [old EXCEPT ![p] = [@ EXCEPT ![lot] = 0, ![other] = 0]] = old
      <4>1. [old[p] EXCEPT ![lot] = 0, ![other] = 0] = old[p]
        BY <3>2
      <4> QED  BY <3>2, <4>1
    <3>4. OnHand' = OnHand
      BY <2>1, <3>1, <3>2, <3>3
    <3> QED  BY <1>3, <1>4, <2>1, <2>3, <3>4
  <2> QED  BY <2>2, <2>3
<1> QED  BY <1>6, <1>7, <1>8, <1>9 DEF OneLot

--------------------------------------------------------------------------------
(* The commit is the draw *)

\* What a commit takes from a lot is what was drawn from its row.
LEMMA CommitTakes ==
  ASSUME ShelfInv, [Next]_vars, NEW t \in Threads, CommitDraw(t), NEW p \in Products
  PROVE  /\ \A lot \in Lots : OnHand[p][lot] \in Nat /\ OnHand'[p][lot] \in Nat
         /\ \A lot \in Lots : \A row \in Rows : key[row] = KeyOf(p, lot) =>
              /\ OnHand[p][lot] = qty[row]
              /\ OnHand[p][lot] - OnHand'[p][lot] = job[t].draw[row]
         /\ \A lot \in Lots : (\A row \in Rows : key[row] # KeyOf(p, lot)) =>
              OnHand[p][lot] = 0 /\ OnHand[p][lot] - OnHand'[p][lot] = 0
<1>1. /\ HandsFit /\ HandsFit' /\ job[t] \in DrawJobs /\ UNCHANGED key
      /\ qty' = [row \in Rows |-> qty[row] - job[t].draw[row]]
  BY HandsFitOn, KindOfJob DEF ShelfInv, LedgerInv, CommitDraw
<1>2. \A row \in Rows : qty[row] \in Nat /\ job[t].draw[row] \in Nat
  BY <1>1 DEF ShelfInv, LedgerInv, TypeOK, DrawJobs
<1>3. \A lot \in Lots : /\ OnHand[p][lot] \in Nat /\ OnHand'[p][lot] \in Nat
  BY <1>1 DEF HandsFit
<1>4. ASSUME NEW lot \in Lots, NEW row \in Rows, key[row] = KeyOf(p, lot)
      PROVE  /\ OnHand[p][lot] = qty[row]
             /\ OnHand[p][lot] - OnHand'[p][lot] = job[t].draw[row]
  <2>1. OnHand[p][lot] = qty[row] /\ OnHand'[p][lot] = qty[row] - job[t].draw[row]
    BY <1>1, <1>4 DEF HandsFit
  <2> QED  BY <1>2, <2>1
<1>5. ASSUME NEW lot \in Lots, \A row \in Rows : key[row] # KeyOf(p, lot)
      PROVE  OnHand[p][lot] = 0 /\ OnHand[p][lot] - OnHand'[p][lot] = 0
  BY <1>1, <1>5 DEF HandsFit
<1> QED  BY <1>3, <1>4, <1>5

\* The lots give together what the rows gave.
LEMMA LotsGiveWhatRowsGave ==
  ASSUME TypeOK, LotsAreUnique, NEW h, h.draw \in [Rows -> Nat], NEW p \in Products, NEW take,
         \A lot \in Lots : /\ \A row \in Rows : key[row] = KeyOf(p, lot) => take[lot] = h.draw[row]
                           /\ (\A row \in Rows : key[row] # KeyOf(p, lot)) => take[lot] = 0
  PROVE  Total(take) = DrawnOf(h, p)
<1>1. PICK drawn : drawn = [row \in Rows |-> IF Of(p, row) THEN h.draw[row] ELSE 0]
  OBVIOUS
<1>2. PICK mine : mine = {row \in Rows : Of(p, row)}
  OBVIOUS
<1>3. PICK lotOf : lotOf = [row \in mine |-> LotOf(row)]
  OBVIOUS
<1>4. mine \in SUBSET Rows /\ IsFiniteSet(mine)
  BY <1>2, RowsAreFinite, FS_Subset
<1>5. \A row \in Rows : drawn[row] \in Int /\ (row \notin mine => drawn[row] = 0)
  BY <1>1, <1>2
<1>6. SumOver(drawn, Rows) = SumOver(drawn, mine)
  BY <1>4, <1>5, RowsAreFinite, SumWithoutZeros
<1>7. \A row \in mine : lotOf[row] \in Lots /\ key[row] = KeyOf(p, lotOf[row])
  BY <1>2, <1>3, RowsHaveLots DEF Of
<1>8. ASSUME NEW lot \in Lots PROVE take[lot] = SumOver(drawn, Group(mine, lotOf, lot))
  <2>1. PICK group : group = Group(mine, lotOf, lot)
    OBVIOUS
  <2>2. \A row \in Rows : row \in group <=> key[row] = KeyOf(p, lot)
    <3>1. ASSUME NEW row \in Rows, key[row] = KeyOf(p, lot) PROVE row \in mine
      BY <1>2, <3>1, LotKeys DEF Of, KeyOf
    <3>2. \A row \in mine : lotOf[row] = lot <=> key[row] = KeyOf(p, lot)
      BY <1>7, OneKeyPerLot
    <3>3. group = {row \in mine : lotOf[row] = lot}
      BY <2>1 DEF Group
    <3> QED  BY <1>4, <3>1, <3>2, <3>3
  <2>3. group \in SUBSET mine /\ group \in SUBSET Rows
    BY <1>4, <2>1 DEF Group
  <2>4. CASE \E row \in Rows : key[row] = KeyOf(p, lot)
    <3>1. PICK row \in Rows : key[row] = KeyOf(p, lot)
      BY <2>4
    <3>2. group = {row}
      BY <2>2, <2>3, <3>1, LotKeys DEF LotsAreUnique
    <3>3. SumOver(drawn, group) = drawn[row] + SumOver(drawn, group \ {row})
      BY <1>5, <2>3, <3>2, RowsAreFinite, SumRemove
    <3>4. group \ {row} = {}
      BY <3>2
    <3>5. drawn[row] = h.draw[row] /\ take[lot] = h.draw[row] /\ h.draw[row] \in Nat
      BY <1>1, <3>1, LotKeys DEF Of, KeyOf
    <3> QED  BY <2>1, <3>3, <3>4, <3>5, SumEmpty
  <2>5. CASE \A row \in Rows : key[row] # KeyOf(p, lot)
    <3>1. group = {}
      BY <2>2, <2>3, <2>5
    <3> QED  BY <2>1, <2>5, <3>1, SumEmpty
  <2> QED  BY <2>4, <2>5
<1>9. \A row \in mine : drawn[row] \in Int
  BY <1>4, <1>5
<1>10. SumOver(drawn, mine) = SumOver(take, Lots)
  <2>1. \A row \in mine : lotOf[row] \in Lots
    BY <1>7
  <2> QED  BY <1>4, <1>8, <1>9, <2>1, LotsAreFinite, SumByKey
<1> QED  BY <1>1, <1>6, <1>10 DEF DrawnOf, Total

\* No lot of a bin holds more than all of them.
LEMMA OneOfTotal ==
  ASSUME NEW bin, \A lot \in Lots : bin[lot] \in Nat, NEW lot \in Lots
  PROVE  bin[lot] \in 0 .. Total(bin) /\ Total(bin) \in Nat
<1>1. Total(bin) = bin[lot] + SumOver(bin, Lots \ {lot})
  BY LotsAreFinite, SumRemove DEF Total
<1>2. IsFiniteSet(Lots \ {lot})
  BY LotsAreFinite, FS_Subset
<1>3. SumOver(bin, Lots \ {lot}) \in Nat
  BY <1>2, SumNotNegative
<1> QED  BY <1>1, <1>3

LEMMA DemandIsDone ==
  ASSUME NEW h, h.todo = {}, NEW p
  PROVE  Shelf!Demand(h.doc, p) = DoneOf(h, p)
<1>1. PICK f : f = [i \in DOMAIN h.doc |-> IF h.doc[i].product = p THEN h.doc[i].q ELSE 0]
  OBVIOUS
<1>2. f = [i \in DOMAIN h.doc |-> IF h.doc[i].product = p /\ i \notin h.todo
                                  THEN h.doc[i].q ELSE 0]
  BY <1>1
<1>3. Shelf!Demand(h.doc, p) = Shelf!SumOver(f, DOMAIN h.doc)
  BY <1>1 DEF Shelf!Demand
<1>4. DoneOf(h, p) = SumOver(f, DOMAIN h.doc)
  BY <1>2 DEF DoneOf
<1> QED  BY <1>3, <1>4, SameSums

\* Sets of at most one.
LEMMA AtMostOne ==
  ASSUME NEW S, \A x, y \in S : x = y
  PROVE  Cardinality(S) <= 1
<1>1. CASE S = {}
  BY <1>1, FS_EmptySet
<1>2. ASSUME NEW x \in S PROVE Cardinality(S) <= 1
  <2>1. S = {x}
    BY <1>2
  <2> QED  BY <2>1, FS_Singleton
<1> QED  BY <1>1, <1>2

\* The goods of a commit are a draw: whole, still good, and in order unless stirred.
LEMMA CommitIsWhole ==
  ASSUME ShelfInv, [Next]_vars, NEW t \in Threads, CommitDraw(t), NEW p \in Products,
         NEW take, take = [lot \in Lots |-> OnHand[p][lot] - OnHand'[p][lot]],
         NEW q, q = Shelf!Demand(job[t].doc, p),
         NEW day, day = Shelf!OldestDay(job[t].kind)
  PROVE  /\ take \in [Lots -> 0 .. q] /\ Total(take) = q
         /\ \A lot \in Lots : take[lot] <= Takeable(OnHand[p], lot, day)
<1>1. /\ LedgerInv /\ TypeOK /\ LotsAreUnique /\ DrawOK(t) /\ DrawnInFull(t)
      /\ Drawing(t) /\ job[t] \in DrawJobs /\ job[t].todo = {}
  BY KindOfJob DEF ShelfInv, LedgerInv, CommitDraw
<1>2. PICK h \in DrawJobs : h = job[t]
  BY <1>1
<1>3. h.draw \in [Rows -> Nat] /\ \A row \in Rows : h.draw[row] \in Nat /\ qty[row] \in Nat
  BY <1>1, <1>2 DEF DrawJobs, TypeOK
<1>4. PICK bin : bin = OnHand[p]
  OBVIOUS
<1>5. \A lot \in Lots :
        /\ bin[lot] \in Nat
        /\ \A row \in Rows : key[row] = KeyOf(p, lot) =>
             bin[lot] = qty[row] /\ take[lot] = h.draw[row]
        /\ (\A row \in Rows : key[row] # KeyOf(p, lot)) => bin[lot] = 0 /\ take[lot] = 0
  BY <1>2, <1>4, CommitTakes
<1>6. Total(take) = q
  <2>1. \A lot \in Lots :
          /\ \A row \in Rows : key[row] = KeyOf(p, lot) => take[lot] = h.draw[row]
          /\ (\A row \in Rows : key[row] # KeyOf(p, lot)) => take[lot] = 0
    BY <1>5
  <2>2. Total(take) = DrawnOf(h, p)
    BY <1>1, <1>3, <2>1, LotsGiveWhatRowsGave
  <2>3. DrawnOf(h, p) = DoneOf(h, p) /\ h.todo = {}
    BY <1>1, <1>2 DEF DrawnInFull
  <2> QED  BY <1>2, <2>2, <2>3, DemandIsDone
<1>7. \A lot \in Lots : take[lot] \in Nat
  <2> TAKE lot \in Lots
  <2>1. CASE \E row \in Rows : key[row] = KeyOf(p, lot)
    BY <1>3, <1>5, <2>1
  <2>2. CASE \A row \in Rows : key[row] # KeyOf(p, lot)
    BY <1>5, <2>2
  <2> QED  BY <2>1, <2>2
<1>8. take \in [Lots -> 0 .. q]
  <2>1. \A lot \in Lots : take[lot] \in 0 .. q
    BY <1>6, <1>7, OneOfTotal
  <2>2. take = [lot \in Lots |-> take[lot]]
    OBVIOUS
  <2> QED  BY <2>1, <2>2
<1>9. ASSUME NEW lot \in Lots PROVE take[lot] <= Takeable(bin, lot, day)
  <2>1. CASE take[lot] = 0
    BY <1>5, <2>1 DEF Takeable
  <2>2. CASE take[lot] > 0
    <3>1. PICK row \in Rows : key[row] = KeyOf(p, lot)
      BY <1>5, <2>2
    <3>2. bin[lot] = qty[row] /\ take[lot] = h.draw[row]
      BY <1>5, <3>1
    <3>3. h.draw[row] <= qty[row] /\ Fresh(h, row)
      BY <1>1, <1>2, <2>2, <3>2 DEF DrawOK
    <3>4. lot.expiry >= day
      <4>1. key[row].expiry = lot.expiry
        BY <3>1 DEF KeyOf
      <4>2. lot.expiry \in Nat /\ lot.expiry >= 1
        BY DayAssumption DEF Lots, Days, Undated
      <4> QED  BY <1>2, <3>3, <4>1, <4>2 DEF Fresh, Shelf!OldestDay
    <3>5. Dispatchable(bin, lot, day)
      BY <1>3, <2>2, <3>2, <3>3, <3>4 DEF Dispatchable
    <3> QED  BY <3>2, <3>3, <3>5 DEF Takeable
  <2> QED  BY <1>7, <2>1, <2>2
<1> QED  BY <1>4, <1>6, <1>8, <1>9

LEMMA CommitIsInOrder ==
  ASSUME ShelfInv, [Next]_vars, NEW t \in Threads, CommitDraw(t), t \notin stirred,
         NEW p \in Products, NEW bin, bin = OnHand[p],
         NEW take, take = [lot \in Lots |-> OnHand[p][lot] - OnHand'[p][lot]],
         NEW day, day = Shelf!OldestDay(job[t].kind)
  PROVE  /\ \A early, late \in Lots :
              Dispatchable(bin, early, day) /\ early.expiry < late.expiry /\ take[late] > 0
              => take[early] = bin[early]
         /\ Cardinality({lot \in Lots : 0 < take[lot] /\ take[lot] < bin[lot]}) <= 1
<1>1. /\ LedgerInv /\ TypeOK /\ DrawOK(t) /\ DrawnInOrder(t)
      /\ Drawing(t) /\ job[t] \in DrawJobs
  BY KindOfJob DEF ShelfInv, LedgerInv, CommitDraw
<1>2. PICK h \in DrawJobs : h = job[t]
  BY <1>1
<1>3. \A row \in Rows : h.draw[row] \in Nat /\ qty[row] \in Nat
  BY <1>1, <1>2 DEF DrawJobs, TypeOK
<1>4. \A lot \in Lots :
        /\ bin[lot] \in Nat
        /\ \A row \in Rows : key[row] = KeyOf(p, lot) =>
             bin[lot] = qty[row] /\ take[lot] = h.draw[row]
        /\ (\A row \in Rows : key[row] # KeyOf(p, lot)) => bin[lot] = 0 /\ take[lot] = 0
  BY <1>2, CommitTakes
<1>5. \A lot \in Lots : lot.expiry \in Nat
  BY DayAssumption DEF Lots, Days, Undated
\* The order of rows is the order of their lots.
<1>6. ASSUME NEW early \in Lots, NEW late \in Lots, NEW row \in Rows, NEW later \in Rows,
             key[row] = KeyOf(p, early), key[later] = KeyOf(p, late),
             \/ early.expiry < late.expiry
             \/ early.expiry = late.expiry /\ row < later,
             Fresh(h, row), take[late] > 0
      PROVE  take[early] = bin[early]
  <2>1. /\ key[row].product = key[later].product
        /\ Precedes(row, later)
    BY <1>6 DEF KeyOf, Precedes
  <2>2. h.draw[later] > 0
    BY <1>4, <1>6
  <2>3. Left(h, row) = 0
    BY <1>1, <1>2, <1>6, <2>1, <2>2 DEF DrawnInOrder
  <2> QED  BY <1>3, <1>4, <1>6, <2>3 DEF Left
<1>7. ASSUME NEW early \in Lots, NEW late \in Lots,
             Dispatchable(bin, early, day), early.expiry < late.expiry, take[late] > 0
      PROVE  take[early] = bin[early]
  <2>1. bin[early] > 0 /\ early.expiry >= day
    BY <1>7 DEF Dispatchable
  <2>2. PICK row \in Rows : key[row] = KeyOf(p, early)
    BY <1>4, <2>1
  <2>3. PICK later \in Rows : key[later] = KeyOf(p, late)
    BY <1>4, <1>7
  <2>4. Fresh(h, row)
    <3>1. key[row].expiry = early.expiry /\ key[row] # Unused
      BY <2>2, LotKeys DEF KeyOf
    <3> QED  BY <1>2, <2>1, <3>1 DEF Fresh, Shelf!OldestDay
  <2> QED  BY <1>6, <1>7, <2>2, <2>3, <2>4
<1>8. PICK part : part = {lot \in Lots : 0 < take[lot] /\ take[lot] < bin[lot]}
  OBVIOUS
<1>9. ASSUME NEW a \in part, NEW b \in part, a # b PROVE FALSE
  <2>1. /\ a \in Lots /\ b \in Lots /\ take[a] > 0 /\ take[b] > 0
        /\ take[a] # bin[a] /\ take[b] # bin[b]
    BY <1>4, <1>8
  <2>2. PICK row \in Rows : key[row] = KeyOf(p, a)
    BY <1>4, <2>1
  <2>3. PICK other \in Rows : key[other] = KeyOf(p, b)
    BY <1>4, <2>1
  <2>4. row # other /\ row \in Nat /\ other \in Nat
    BY <1>9, <2>1, <2>2, <2>3, OneKeyPerLot, RowFacts
  <2>5. Fresh(h, row) /\ Fresh(h, other)
    BY <1>1, <1>2, <1>4, <2>1, <2>2, <2>3 DEF DrawOK
  <2>6. \/ a.expiry < b.expiry \/ b.expiry < a.expiry
        \/ a.expiry = b.expiry /\ (row < other \/ other < row)
    BY <1>5, <2>1, <2>4
  <2> QED  BY <1>6, <2>1, <2>2, <2>3, <2>5, <2>6
<1>10. Cardinality(part) <= 1
  BY <1>9, AtMostOne
<1> QED  BY <1>7, <1>8, <1>10

LEMMA CommitDraws ==
  ASSUME ShelfInv, WatchedNext, NEW t \in Threads, CommitDraw(t)
  PROVE  Shelf!Draw(t)
<1>1. Drawing(t) /\ job' = [job EXCEPT ![t] = Idle] /\ [Next]_vars
  BY DEF CommitDraw, WatchedNext
<1>2. HandsFit' /\ Asked[t] = [kind |-> job[t].kind, doc |-> job[t].doc]
  BY <1>1, HandsFitOn DEF ShelfInv, Asked
<1>3. ASSUME NEW p \in Products
      PROVE  Shelf!Taken(p) \in
               Shelf!DrawsFor(t, OnHand[p], Shelf!Demand(Asked[t].doc, p),
                              Shelf!OldestDay(Asked[t].kind))
  <2>1. PICK take : take = [lot \in Lots |-> OnHand[p][lot] - OnHand'[p][lot]]
    OBVIOUS
  <2>2. PICK q : q = Shelf!Demand(job[t].doc, p)
    OBVIOUS
  <2>3. PICK day : day = Shelf!OldestDay(job[t].kind)
    OBVIOUS
  <2>4. PICK bin : bin = OnHand[p]
    OBVIOUS
  <2>5. /\ take \in [Lots -> 0 .. q] /\ Total(take) = q
        /\ \A lot \in Lots : take[lot] <= Takeable(bin, lot, day)
    BY <1>1, <2>1, <2>2, <2>3, <2>4, CommitIsWhole
  <2>6. take \in Shelf!DrawsFor(t, bin, q, day)
    <3>1. CASE t \in stirred
      BY <2>5, <3>1, SameDraws DEF Shelf!DrawsFor
    <3>2. CASE t \notin stirred
      <4>1. take \in FefoDraws(bin, q, day)
        BY <1>1, <2>1, <2>3, <2>4, <2>5, <3>2, CommitIsInOrder DEF FefoDraws
      <4> QED  BY <3>2, <4>1, SameDraws DEF Shelf!DrawsFor
    <3> QED  BY <3>1, <3>2
  <2>7. Shelf!Taken(p) = take
    BY <2>1, SameLots DEF Shelf!Taken
  <2> QED  BY <1>2, <2>2, <2>3, <2>4, <2>6, <2>7
<1>4. ~LotGrows
  <2>1. ASSUME NEW p \in Products, NEW lot \in Lots PROVE ~(OnHand'[p][lot] > OnHand[p][lot])
    <3>1. job[t] \in DrawJobs /\ \A row \in Rows : job[t].draw[row] \in Nat
      BY <1>1, KindOfJob DEF ShelfInv, LedgerInv, DrawJobs
    <3>2. /\ OnHand[p][lot] \in Nat /\ OnHand'[p][lot] \in Nat
          /\ OnHand[p][lot] - OnHand'[p][lot] \in Nat
      <4>1. CASE \E row \in Rows : key[row] = KeyOf(p, lot)
        BY <1>1, <3>1, <4>1, CommitTakes
      <4>2. CASE \A row \in Rows : key[row] # KeyOf(p, lot)
        BY <1>1, <4>2, CommitTakes
      <4> QED  BY <4>1, <4>2
    <3> QED  BY <3>2
  <2> QED  BY <2>1 DEF LotGrows
<1>5. Shelf!Answer(t)
  BY <1>1, <1>4, LeavingAnswers
<1>6. OnHand' \in [Products -> Shelf!Bins]
  BY <1>2, SameLots DEF HandsFit, Bins
<1> QED  BY <1>3, <1>5, <1>6 DEF Shelf!Draw

--------------------------------------------------------------------------------
(* The refinement *)

LEMMA InitOnShelves == WatchedInit => Shelf!ShelfInit
<1> SUFFICES ASSUME WatchedInit PROVE Shelf!ShelfInit
  OBVIOUS
<1>1. OnHand \in [Products -> Shelf!Bins]
  BY InitLedger, LedgerFitsHands, SameLots DEF WatchedInit, HandsFit, Bins
<1>2. Asked = [t \in Threads |-> Shelf!Nothing]
  BY DEF WatchedInit, Init, Asked, Drawing, Shelf!Nothing
<1> QED  BY <1>1, <1>2 DEF Shelf!ShelfInit, WatchedInit

LEMMA StepOnShelves ==
  ShelfInv /\ [WatchedNext]_<<vars, stirred>> => [Shelf!ShelfNext]_<<OnHand, Asked, stirred>>
<1> SUFFICES ASSUME ShelfInv, [WatchedNext]_<<vars, stirred>>
             PROVE  [Shelf!ShelfNext]_<<OnHand, Asked, stirred>>
  OBVIOUS
<1>1. CASE UNCHANGED <<vars, stirred>>
  <2>1. OnHand' = OnHand
    BY <1>1 DEF vars, OnHand
  <2>2. Asked' = Asked
    BY <1>1 DEF vars, Asked, Drawing
  <2> QED  BY <1>1, <2>1, <2>2
<1>2. CASE WatchedNext
  <2>1. LedgerInv /\ [Next]_vars
    BY <1>2 DEF ShelfInv, WatchedNext
  <2>2. ASSUME NEW t \in Threads, NEW kind \in Kinds, NEW doc \in Docs, Begin(t, kind, doc)
        PROVE  Shelf!ShelfNext
    BY <1>2, <2>2, BeginAsks DEF Shelf!ShelfNext
  <2>3. ASSUME NEW t \in Threads, OpenLine(t) \/ LockRow(t) \/ DrawLine(t)
        PROVE  UNCHANGED <<OnHand, Asked, stirred>>
    BY <1>2, <2>3, DrawingIsUnseen
  <2>4. ASSUME NEW t \in Threads, CommitDraw(t) PROVE Shelf!ShelfNext
    BY <1>2, <2>4, CommitDraws DEF Shelf!ShelfNext
  <2>5. ASSUME NEW t \in Threads, Drawing(t), Rollback(t) PROVE Shelf!ShelfNext
    BY <1>2, <2>5, RollbackRefuses DEF Shelf!ShelfNext
  <2>6. CASE (Still \/ OneLot) /\ NoDrawMoves
    <3>1. \/ \E p \in Products, lot \in Lots :
              Shelf!Restock(p, lot) \/ \E day \in Days \cup {Undated} : Shelf!Redate(p, lot, day)
          \/ UNCHANGED <<OnHand, Asked, stirred>>
      BY <1>2, <2>6, OneLotIsSeen
    <3>2. Shelf!Days = Days /\ Shelf!Undated = Undated
      BY DEF Shelf!Days, Days, Shelf!Undated, Undated
    <3> QED  BY <3>1, <3>2, SameLots DEF Shelf!ShelfNext
  <2> QED  BY <2>1, <2>2, <2>3, <2>4, <2>5, <2>6, StepKinds
<1> QED  BY <1>1, <1>2

\* A document's goods leave as if in one step, whatever the other transactions, the
\* receipts, the adjustments, the counts and the expiry edits do between its lines
\* and its locks: exactly what was asked leaves, from lots still good, first expired
\* first out unless a lot grew meanwhile; or nothing does (apply_dispatch_fefo,
\* apply_sale_deduction and mark_waste_or_expiry_fefo in one transaction).
THEOREM DrawsLeaveAtOnce == WatchedSpec => DrawsAreAtomic
<1>1. WatchedSpec => []ShelfInv
  BY InitShelf, NextShelf, PTL DEF WatchedSpec
<1> QED  BY <1>1, InitOnShelves, StepOnShelves, PTL
            DEF WatchedSpec, DrawsAreAtomic, Shelf!ShelfSpec
================================================================================
