------------------------- MODULE DeliveryFanout_proofs -------------------------
(***************************************************************************)
(* The fan-out of a kitchen batch for any number of requests, lines,        *)
(* branches, allocations and concurrent handlers.  The first invariant is   *)
(* about the documents (FanoutInv): a shipment and a receipt change no      *)
(* quantity, so the sums over a split stay.  The second follows the goods   *)
(* (GoodsInv): what a shipment debits is the sum of what it hands out.      *)
(***************************************************************************)
EXTENDS DeliveryFanout, StockLots_proofs

--------------------------------------------------------------------------------
(* The inductive invariant *)

Shape ==
  /\ status \in [Requests -> Statuses \cup {Absent}]
  /\ approved = [r \in Requests |-> approved[r]]
  /\ \A r \in Requests : approved[r] = [l \in Lines |-> approved[r][l]]
  /\ allocation \in [Requests -> Seq(AllocationRows)]
  /\ call \in [Threads -> Moves \cup Receipts \cup {Idle}]

\* The total of a list of allocations, or of the slices of a body, for a line.
HasLine(rows, l) == \E i \in DOMAIN rows : rows[i].line = l
LineTotal(rows, l) == IF HasLine(rows, l) THEN SplitTotal(rows, l) ELSE Null

\* Before the split there is nothing; afterwards the totals agree line by line.
SplitOK(r) ==
  /\ status[r] \in {Absent, "PENDING", "REJECTED"} => allocation[r] = <<>>
  /\ \A l \in Lines : /\ SplitTotal(allocation[r], l) <= Doc[r].requested[l]
                       /\ approved[r][l] = LineTotal(allocation[r], l)

\* A handler splits within the ready quantities; a receipt belongs to a shipment
\* that left, and one that counted itself last leaves nothing outstanding.
CallOK(t) ==
  /\ call[t] # Idle /\ call[t].kind = "allocate" =>
       call[t].split \in Splits /\ Fits(call[t].req, call[t].split)
  /\ Receiving(t) =>
       /\ call[t].i \in DOMAIN allocation[call[t].req]
       /\ status[call[t].req] \in {"DISPATCHED", "RECEIVED"}
       /\ call[t].last => Outstanding(call[t]) = {}

FanoutInv ==
  /\ Shape
  /\ \A r \in Requests : SplitOK(r)
  /\ \A t \in Threads : CallOK(t)
  /\ LeavesAsOne
  /\ RolledUpMeansAllReceived

--------------------------------------------------------------------------------
(* Lemmas *)

\* Two lists of allocations with the same lines and quantities.
SameGoods(rows, others) ==
  /\ DOMAIN rows = DOMAIN others
  /\ \A i \in DOMAIN rows : /\ rows[i].line = others[i].line
                            /\ rows[i].quantity = others[i].quantity

LEMMA SameGoodsSameTotal ==
  ASSUME NEW rows, NEW others, SameGoods(rows, others), NEW l
  PROVE  /\ SplitTotal(rows, l) = SplitTotal(others, l)
         /\ LineTotal(rows, l) = LineTotal(others, l)
<1>1. [i \in DOMAIN rows |-> rows[i].quantity]
      = [i \in DOMAIN others |-> others[i].quantity]
  BY DEF SameGoods
<1>2. {i \in DOMAIN rows : rows[i].line = l}
      = {i \in DOMAIN others : others[i].line = l}
  BY DEF SameGoods
<1>3. HasLine(rows, l) = HasLine(others, l)
  BY DEF SameGoods, HasLine
<1> QED  BY <1>1, <1>2, <1>3 DEF SplitTotal, LineTotal

LEMMA AllocatedIsSplitTotal ==
  \A r, l : AllocatedOf(r, l) = SplitTotal(allocation[r], l)
BY DEF AllocatedOf, SplitTotal

\* No allocation: nothing handed out, and nothing approved.
LEMMA NothingSplit ==
  ASSUME NEW l
  PROVE  SplitTotal(<<>>, l) = 0 /\ LineTotal(<<>>, l) = Null
<1>1. /\ {i \in DOMAIN <<>> : <<>>[i].line = l} = {}
      /\ ~HasLine(<<>>, l)
  BY DEF HasLine
<1> QED  BY <1>1, SumEmpty DEF SplitTotal, LineTotal

LEMMA SplitIsRows ==
  ASSUME NEW split \in Splits
  PROVE  Rows(split) \in Seq(AllocationRows) /\ SameGoods(Rows(split), split)
<1>1. PICK n \in 1 .. MaxSlices : split \in [1 .. n -> Slices]
  BY DEF Splits
<1>2. n \in Nat
  BY BoundAssumption
<1>3. \A i \in 1 .. n : Rows(split)[i] \in AllocationRows
  BY <1>1 DEF Rows, Slices, AllocationRows, AllocationStatuses
<1>4. Rows(split) \in [1 .. n -> AllocationRows]
  BY <1>1, <1>3 DEF Rows
<1>5. SameGoods(Rows(split), split)
  BY <1>1 DEF Rows, SameGoods
<1> QED  BY <1>2, <1>4, <1>5

LEMMA CallFacts ==
  ASSUME FanoutInv, NEW t \in Threads, call[t] # Idle
  PROVE  /\ call[t] \in Moves \cup Receipts
         /\ call[t].req \in Requests
         /\ Receiving(t) => call[t] \in Receipts
         /\ ~Receiving(t) => call[t] \in Moves
BY DEF FanoutInv, Shape, Receiving, Moves, Receipts

\* The other threads keep their facts when only requests move forward.
Steady(r) ==
  /\ DOMAIN allocation[r] \subseteq DOMAIN allocation'[r]
  /\ status[r] \in {"DISPATCHED", "RECEIVED"} =>
       /\ status'[r] \in {"DISPATCHED", "RECEIVED"}
       /\ DOMAIN allocation'[r] = DOMAIN allocation[r]
       /\ \A i \in DOMAIN allocation[r] :
            allocation[r][i].status = "RECEIVED" => allocation'[r][i].status = "RECEIVED"

LEMMA SteadyCall ==
  ASSUME FanoutInv, NEW t \in Threads, call'[t] = call[t],
         \A r \in Requests : Steady(r)
  PROVE  CallOK(t)'
<1>1. CASE call[t] = Idle
  BY <1>1 DEF CallOK, Receiving
<1>2. CASE call[t] # Idle
  <2>1. call[t].req \in Requests /\ CallOK(t)
    BY <1>2, CallFacts DEF FanoutInv
  <2> QED  BY <1>2, <2>1 DEF CallOK, Receiving, Steady, Outstanding
<1> QED  BY <1>1, <1>2

--------------------------------------------------------------------------------
(* The steps *)

LEMMA InitFanout == Init => FanoutInv
<1> SUFFICES ASSUME Init  PROVE FanoutInv
  OBVIOUS
<1>1. Shape
  BY DEF Init, Shape
<1>2. ASSUME NEW r \in Requests  PROVE SplitOK(r)
  <2>1. \A l \in Lines : 0 <= Doc[r].requested[l]
    BY DocAssumption, BoundAssumption DEF Amounts
  <2>2. allocation[r] = <<>> /\ \A l \in Lines : approved[r][l] = Null
    BY DEF Init
  <2> QED  BY <2>1, <2>2, NothingSplit DEF SplitOK
<1>3. \A t \in Threads : CallOK(t)
  BY DEF Init, CallOK, Receiving
<1>4. LeavesAsOne /\ RolledUpMeansAllReceived
  BY MarkerAssumption DEF Init, LeavesAsOne, RolledUpMeansAllReceived
<1> QED  BY <1>1, <1>2, <1>3, <1>4 DEF FanoutInv

\* A step of one call that leaves the requests alone.
LEMMA CallStep ==
  ASSUME FanoutInv, NEW t \in Threads, UNCHANGED requestVars,
         NEW h \in Moves \cup Receipts \cup {Idle}, call' = [call EXCEPT ![t] = h],
         CallOK(t)'
  PROVE  FanoutInv'
<1> USE DEF FanoutInv
<1>1. Shape'
  BY DEF Shape, requestVars
<1>2. \A r \in Requests : SplitOK(r)'
  BY DEF SplitOK, requestVars, AllocatedOf
<1>3. ASSUME NEW u \in Threads  PROVE CallOK(u)'
  <2>1. CASE u = t
    BY <2>1
  <2>2. CASE u # t
    <3>1. call'[u] = call[u]
      BY <2>2 DEF Shape
    <3>2. \A r \in Requests : Steady(r)
      BY DEF Steady, requestVars
    <3> QED  BY <3>1, <3>2, SteadyCall
  <2> QED  BY <2>1, <2>2
<1>4. LeavesAsOne' /\ RolledUpMeansAllReceived'
  BY DEF LeavesAsOne, RolledUpMeansAllReceived, requestVars
<1> QED  BY <1>1, <1>2, <1>3, <1>4

\* Ending a call.
LEMMA IdleCall ==
  ASSUME FanoutInv, NEW t \in Threads, call' = [call EXCEPT ![t] = Idle]
  PROVE  /\ CallOK(t)'
         /\ call' \in [Threads -> Moves \cup Receipts \cup {Idle}]
         /\ \A u \in Threads : u # t => call'[u] = call[u]
BY DEF FanoutInv, Shape, CallOK, Receiving

LEMMA CreateStep ==
  ASSUME FanoutInv, NEW r \in Requests, CreateRequest(r)
  PROVE  FanoutInv'
<1> USE DEF FanoutInv
<1>1. /\ status[r] = Absent /\ status' = [status EXCEPT ![r] = "PENDING"]
      /\ UNCHANGED <<approved, allocation, call>>
  BY DEF CreateRequest, stockVars
<1>2. Shape'
  BY <1>1 DEF Shape, Statuses
<1>3. allocation[r] = <<>>
  BY <1>1 DEF SplitOK
<1>4. \A q \in Requests : SplitOK(q)'
  BY <1>1 DEF SplitOK, Shape
<1>5. \A q \in Requests : Steady(q)
  BY <1>1, MarkerAssumption DEF Steady, Shape, Statuses
<1>6. \A t \in Threads : CallOK(t)'
  BY <1>1, <1>5, SteadyCall
<1>7. LeavesAsOne' /\ RolledUpMeansAllReceived'
  BY <1>1, <1>3 DEF LeavesAsOne, RolledUpMeansAllReceived, Shape
<1> QED  BY <1>2, <1>4, <1>6, <1>7

LEMMA LoadStep ==
  ASSUME FanoutInv, NEW t \in Threads, NEW r \in Requests,
         LoadAllocate(t, r) \/ LoadDispatch(t, r) \/ LoadReject(t, r)
  PROVE  FanoutInv'
<1> USE DEF FanoutInv
<1>1. ASSUME NEW split \in Splits \cup {<<>>}, NEW kind \in {"allocate", "dispatch", "reject"},
             kind = "allocate" => split \in Splits /\ Fits(r, split),
             UNCHANGED requestVars,
             call' = [call EXCEPT ![t] = [kind |-> kind, req |-> r, split |-> split]]
      PROVE  FanoutInv'
  <2> DEFINE h == [kind |-> kind, req |-> r, split |-> split]
  <2>1. h \in Moves
    BY DEF Moves
  <2>2. call'[t] = h
    BY <1>1 DEF Shape
  <2>3. CallOK(t)'
    BY <1>1, <2>2 DEF CallOK, Receiving, Fits
  <2> QED  BY <1>1, <2>1, <2>3, CallStep
<1>2. CASE LoadAllocate(t, r)
  BY <1>1, <1>2 DEF LoadAllocate
<1>3. CASE LoadDispatch(t, r)
  BY <1>1, <1>3 DEF LoadDispatch
<1>4. CASE LoadReject(t, r)
  BY <1>1, <1>4 DEF LoadReject
<1> QED  BY <1>2, <1>3, <1>4

LEMMA CommitAllocateStep ==
  ASSUME FanoutInv, NEW t \in Threads, CommitAllocate(t)
  PROVE  FanoutInv'
<1> USE DEF FanoutInv
<1> DEFINE h == call[t]
           r == h.req
           named == {h.split[i].line : i \in DOMAIN h.split}
           totals == [l \in Lines |-> IF l \in named THEN SplitTotal(h.split, l)
                                      ELSE approved[r][l]]
<1>1. /\ h # Idle /\ h.kind = "allocate" /\ status[r] = "PENDING"
      /\ status' = [status EXCEPT ![r] = "ALLOCATED"]
      /\ allocation' = [allocation EXCEPT ![r] = allocation[r] \o Rows(h.split)]
      /\ approved' = [approved EXCEPT ![r] = totals]
      /\ call' = [call EXCEPT ![t] = Idle]
  BY DEF CommitAllocate, CompareAndSet
<1>2. h \in Moves /\ r \in Requests /\ Fits(r, h.split)
  BY <1>1, CallFacts DEF CallOK, Receipts
<1>3. h.split \in Splits /\ allocation[r] = <<>>
  BY <1>1, <1>2 DEF SplitOK, CallOK
<1>4. allocation[r] \o Rows(h.split) = Rows(h.split)
  BY <1>3, SplitIsRows
<1>5. allocation' = [allocation EXCEPT ![r] = Rows(h.split)]
  BY <1>1, <1>4
<1>6. Shape'
  <2>1. status' \in [Requests -> Statuses \cup {Absent}]
    BY <1>1, <1>2 DEF Shape, Statuses
  <2>2. allocation' \in [Requests -> Seq(AllocationRows)]
    BY <1>2, <1>3, <1>5, SplitIsRows DEF Shape
  <2>3. approved' = [q \in Requests |-> approved'[q]]
        /\ \A q \in Requests : approved'[q] = [l \in Lines |-> approved'[q][l]]
    <3>1. totals = [l \in Lines |-> totals[l]]
      OBVIOUS
    <3> HIDE DEF totals
    <3> QED  BY <1>1, <1>2, <3>1 DEF Shape
  <2> QED  BY <1>1, <2>1, <2>2, <2>3, IdleCall DEF Shape
<1>7. ASSUME NEW q \in Requests  PROVE SplitOK(q)'
  <2>1. CASE q # r
    BY <1>1, <1>5, <2>1 DEF SplitOK, Shape
  <2>2. CASE q = r
    <3>1. allocation'[r] = Rows(h.split) /\ status'[r] = "ALLOCATED"
          /\ approved'[r] = totals
      BY <1>1, <1>2, <1>5 DEF Shape
    <3>2. ASSUME NEW l \in Lines
          PROVE  /\ SplitTotal(Rows(h.split), l) <= Doc[r].requested[l]
                 /\ totals[l] = LineTotal(Rows(h.split), l)
      <4>1. /\ SplitTotal(Rows(h.split), l) = SplitTotal(h.split, l)
            /\ LineTotal(Rows(h.split), l) = LineTotal(h.split, l)
        BY <1>3, SplitIsRows, SameGoodsSameTotal
      <4>2. LineTotal(h.split, l) = totals[l]
        BY <1>2, <1>3, NothingSplit DEF SplitOK, LineTotal, HasLine
      <4> QED  BY <1>2, <4>1, <4>2 DEF Fits
    <3> HIDE DEF totals
    <3> QED  BY <2>2, <3>1, <3>2, MarkerAssumption DEF SplitOK, Statuses
  <2> QED  BY <2>1, <2>2
<1>8. \A q \in Requests : Steady(q)
  BY <1>1, <1>2, <1>3, <1>5 DEF Steady, Shape
<1>9. \A u \in Threads : CallOK(u)'
  BY <1>1, <1>8, IdleCall, SteadyCall
<1>10. LeavesAsOne' /\ RolledUpMeansAllReceived'
  <2>1. \A i \in DOMAIN allocation'[r] : allocation'[r][i].status = "ALLOCATED"
    BY <1>2, <1>5 DEF Shape, Rows
  <2>2. /\ status'[r] = "ALLOCATED"
        /\ \A q \in Requests : q # r =>
             status'[q] = status[q] /\ allocation'[q] = allocation[q]
    BY <1>1, <1>2, <1>5 DEF Shape
  <2>3. LeavesAsOne'
    BY <2>1, <2>2 DEF LeavesAsOne
  <2>4. RolledUpMeansAllReceived'
    BY <2>2 DEF RolledUpMeansAllReceived
  <2> QED  BY <2>3, <2>4
<1> QED  BY <1>6, <1>7, <1>9, <1>10

\* The same list with other statuses.
LEMMA RestatusedRows ==
  ASSUME NEW rows \in Seq(AllocationRows), NEW others,
         DOMAIN others = DOMAIN rows,
         \A i \in DOMAIN rows :
           \E s \in AllocationStatuses : others[i] = [rows[i] EXCEPT !.status = s],
         others = [i \in DOMAIN rows |-> others[i]]
  PROVE  /\ others \in Seq(AllocationRows)
         /\ \A l : /\ SplitTotal(others, l) = SplitTotal(rows, l)
                   /\ LineTotal(others, l) = LineTotal(rows, l)
<1>1. ASSUME NEW i \in DOMAIN rows
      PROVE  rows[i] \in AllocationRows /\ others[i] \in AllocationRows
  <2>1. rows[i] \in AllocationRows
    OBVIOUS
  <2>2. PICK s \in AllocationStatuses : others[i] = [rows[i] EXCEPT !.status = s]
    OBVIOUS
  <2> QED  BY <2>1, <2>2 DEF AllocationRows
<1>2. others \in Seq(AllocationRows)
  BY <1>1
<1>3. SameGoods(others, rows)
  <2>1. ASSUME NEW i \in DOMAIN rows
        PROVE  rows[i].line = others[i].line /\ rows[i].quantity = others[i].quantity
    <3>1. PICK s \in AllocationStatuses : others[i] = [rows[i] EXCEPT !.status = s]
      OBVIOUS
    <3> QED  BY <1>1, <3>1 DEF AllocationRows
  <2> QED  BY <2>1 DEF SameGoods
<1> QED  BY <1>2, <1>3, SameGoodsSameTotal

LEMMA CommitDispatchStep ==
  ASSUME FanoutInv, NEW t \in Threads, CommitDispatch(t)
  PROVE  FanoutInv'
<1> USE DEF FanoutInv
<1> DEFINE r == call[t].req
<1>1. /\ call[t] # Idle /\ call[t].kind = "dispatch" /\ status[r] = "ALLOCATED"
      /\ status' = [status EXCEPT ![r] = "DISPATCHED"]
      /\ allocation' = [allocation EXCEPT ![r] = Flipped(allocation[r])]
      /\ approved' = approved
      /\ call' = [call EXCEPT ![t] = Idle]
  BY DEF CommitDispatch, CompareAndSet
<1>2. r \in Requests /\ allocation[r] \in Seq(AllocationRows)
  BY <1>1, CallFacts DEF Shape
<1> HIDE DEF r
<1>3. /\ Flipped(allocation[r]) \in Seq(AllocationRows)
      /\ \A l : /\ SplitTotal(Flipped(allocation[r]), l) = SplitTotal(allocation[r], l)
                /\ LineTotal(Flipped(allocation[r]), l) = LineTotal(allocation[r], l)
  <2>1. DOMAIN Flipped(allocation[r]) = DOMAIN allocation[r]
    BY DEF Flipped
  <2>2. \A i \in DOMAIN allocation[r] :
          \E s \in AllocationStatuses :
            Flipped(allocation[r])[i] = [allocation[r][i] EXCEPT !.status = s]
    BY DEF Flipped, AllocationStatuses
  <2>3. Flipped(allocation[r])
        = [i \in DOMAIN allocation[r] |-> Flipped(allocation[r])[i]]
    BY DEF Flipped
  <2> QED  BY <1>2, <2>1, <2>2, <2>3, RestatusedRows
<1>4. Shape'
  BY <1>1, <1>2, <1>3, IdleCall DEF Shape, Statuses
<1>5. \A q \in Requests : SplitOK(q)'
  BY <1>1, <1>2, <1>3, MarkerAssumption DEF SplitOK, Shape, Statuses
<1>6. \A q \in Requests : Steady(q)
  BY <1>1, <1>2 DEF Steady, Shape, Flipped
<1>7. \A u \in Threads : CallOK(u)'
  BY <1>1, <1>6, IdleCall, SteadyCall
<1>8. LeavesAsOne' /\ RolledUpMeansAllReceived'
  <2>1. \A i \in DOMAIN allocation'[r] : allocation'[r][i].status = "DISPATCHED"
    <3>1. \A i \in DOMAIN allocation[r] : allocation[r][i] \in AllocationRows
      BY <1>2
    <3> QED  BY <1>1, <1>2, <3>1 DEF Flipped, Shape, AllocationRows
  <2> QED  BY <1>1, <1>2, <2>1 DEF LeavesAsOne, RolledUpMeansAllReceived, Shape
<1> QED  BY <1>4, <1>5, <1>7, <1>8

LEMMA CommitRejectStep ==
  ASSUME FanoutInv, NEW t \in Threads, CommitReject(t)
  PROVE  FanoutInv'
<1> USE DEF FanoutInv
<1> DEFINE r == call[t].req
<1>1. /\ call[t] # Idle /\ status[r] = "PENDING"
      /\ status' = [status EXCEPT ![r] = "REJECTED"]
      /\ UNCHANGED <<approved, allocation>>
      /\ call' = [call EXCEPT ![t] = Idle]
  BY DEF CommitReject, CompareAndSet
<1>2. r \in Requests
  BY <1>1, CallFacts
<1>3. Shape'
  BY <1>1, <1>2, IdleCall DEF Shape, Statuses
<1>4. \A q \in Requests : SplitOK(q)'
  BY <1>1, <1>2 DEF SplitOK, Shape
<1>5. \A q \in Requests : Steady(q)
  BY <1>1, <1>2 DEF Steady, Shape
<1>6. \A u \in Threads : CallOK(u)'
  BY <1>1, <1>5, IdleCall, SteadyCall
<1>7. LeavesAsOne' /\ RolledUpMeansAllReceived'
  BY <1>1, <1>2 DEF LeavesAsOne, RolledUpMeansAllReceived, Shape
<1> QED  BY <1>3, <1>4, <1>6, <1>7

LEMMA LoadReceiveStep ==
  ASSUME FanoutInv, NEW t \in Threads, NEW r \in Requests,
         NEW i \in DOMAIN allocation[r], LoadReceive(t, r, i)
  PROVE  FanoutInv'
<1> USE DEF FanoutInv
<1> DEFINE h == [kind |-> "receive", req |-> r, i |-> i, phase |-> "loaded",
                 last |-> FALSE]
<1>1. call' = [call EXCEPT ![t] = h] /\ UNCHANGED requestVars
      /\ allocation[r][i].status = "DISPATCHED"
  BY DEF LoadReceive
<1>2. h \in Receipts
  <2>1. i \in Nat
    BY DEF Shape
  <2> QED  BY <2>1 DEF Receipts
<1>3. status[r] \in {"DISPATCHED", "RECEIVED"}
  <2>1. allocation[r] # <<>>
    OBVIOUS
  <2> QED  BY <1>1, <2>1 DEF Shape, Statuses, SplitOK, LeavesAsOne
<1>4. CallOK(t)'
  <2>1. call'[t] = h
    BY <1>1 DEF Shape
  <2> QED  BY <1>1, <1>3, <2>1 DEF CallOK, Receiving, requestVars
<1> QED  BY <1>1, <1>2, <1>4, CallStep

LEMMA ReceiptStep ==
  ASSUME FanoutInv, NEW t \in Threads, WriteReceive(t) \/ CountOutstanding(t)
  PROVE  FanoutInv'
<1> USE DEF FanoutInv
<1>1. Receiving(t) /\ call[t] \in Receipts /\ CallOK(t) /\ UNCHANGED requestVars
  BY CallFacts DEF WriteReceive, CountOutstanding, Receiving
<1>2. CASE WriteReceive(t)
  <2> DEFINE h == [call[t] EXCEPT !.phase = "written"]
  <2>1. h \in Receipts /\ call' = [call EXCEPT ![t] = h]
    BY <1>1, <1>2 DEF WriteReceive, Receipts, Shape
  <2>2. call'[t] = h
    BY <2>1 DEF Shape
  <2>3. CallOK(t)'
    BY <1>1, <2>2 DEF CallOK, Receiving, requestVars, Receipts, Outstanding
  <2> QED  BY <1>1, <2>1, <2>3, CallStep
<1>3. CASE CountOutstanding(t)
  <2> DEFINE none == Outstanding(call[t]) = {}
             h == [call[t] EXCEPT !.phase = "counted", !.last = none]
  <2>1. call' = [call EXCEPT ![t] = h]
    BY <1>1, <1>3 DEF CountOutstanding, Receipts, Shape
  <2>2. h \in Receipts
    <3>1. none \in BOOLEAN
      BY Zenon
    <3> HIDE DEF none
    <3> QED  BY <1>1, <3>1 DEF Receipts
  <2>3. /\ call'[t] = h /\ h.req = call[t].req /\ h.i = call[t].i
        /\ h.kind = "receive" /\ (h.last <=> none)
    <3> HIDE DEF none
    <3> QED  BY <1>1, <2>1 DEF Shape, Receipts
  <2>4. CallOK(t)'
    <3> HIDE DEF h
    <3> QED  BY <1>1, <2>3 DEF CallOK, Receiving, requestVars, Outstanding
  <2> HIDE DEF h
  <2> QED  BY <1>1, <2>1, <2>2, <2>4, CallStep
<1> QED  BY <1>2, <1>3

\* The receipt that lands: its row alone becomes RECEIVED, and the request with it
\* when nothing else was outstanding.
LEMMA CommitReceiveStep ==
  ASSUME FanoutInv, NEW t \in Threads, CommitReceive(t)
  PROVE  FanoutInv'
<1> USE DEF FanoutInv
<1> DEFINE h == call[t]
           r == h.req
           rows == [allocation[r] EXCEPT ![h.i].status = "RECEIVED"]
<1>1. /\ Receiving(t) /\ h \in Receipts /\ CallOK(t) /\ r \in Requests
      /\ approved' = approved /\ call' = [call EXCEPT ![t] = Idle]
      /\ status' = IF h.last /\ status[r] = "DISPATCHED"
                   THEN [status EXCEPT ![r] = "RECEIVED"]
                   ELSE status
  BY CallFacts DEF CommitReceive, Receiving
<1>2. allocation' = [allocation EXCEPT ![r] = rows]
  BY <1>1 DEF CommitReceive, Shape
<1>3. /\ h.i \in DOMAIN allocation[r] /\ status[r] \in {"DISPATCHED", "RECEIVED"}
      /\ h.last => Outstanding(h) = {}
      /\ allocation[r] \in Seq(AllocationRows)
  BY <1>1 DEF CallOK, Shape
<1>4. /\ DOMAIN rows = DOMAIN allocation[r] /\ rows[h.i].status = "RECEIVED"
      /\ \A i \in DOMAIN allocation[r] : i # h.i => rows[i] = allocation[r][i]
  <2>1. allocation[r][h.i] \in AllocationRows
    BY <1>3
  <2> QED  BY <1>3, <2>1 DEF AllocationRows
<1>5. /\ rows \in Seq(AllocationRows)
      /\ \A l : /\ SplitTotal(rows, l) = SplitTotal(allocation[r], l)
                /\ LineTotal(rows, l) = LineTotal(allocation[r], l)
  <2>1. ASSUME NEW i \in DOMAIN allocation[r]
        PROVE  \E s \in AllocationStatuses :
                 rows[i] = [allocation[r][i] EXCEPT !.status = s]
    <3>1. allocation[r][i] \in AllocationRows
      BY <1>3
    <3>2. CASE i = h.i
      BY <3>1, <3>2 DEF AllocationStatuses
    <3>3. CASE i # h.i
      <4>1. allocation[r][i].status \in AllocationStatuses
            /\ rows[i] = [allocation[r][i] EXCEPT !.status = allocation[r][i].status]
        BY <3>1, <3>3 DEF AllocationRows
      <4> QED  BY <4>1
    <3> QED  BY <3>2, <3>3
  <2>2. rows = [i \in DOMAIN allocation[r] |-> rows[i]]
    OBVIOUS
  <2> DEFINE old == allocation[r]
  <2>3. /\ old \in Seq(AllocationRows) /\ DOMAIN rows = DOMAIN old
        /\ rows = [i \in DOMAIN old |-> rows[i]]
        /\ \A i \in DOMAIN old :
             \E s \in AllocationStatuses : rows[i] = [old[i] EXCEPT !.status = s]
    <3> HIDE DEF rows
    <3> QED  BY <1>3, <1>4, <2>1, <2>2
  <2> HIDE DEF rows, old
  <2>4. /\ rows \in Seq(AllocationRows)
        /\ \A l : /\ SplitTotal(rows, l) = SplitTotal(old, l)
                  /\ LineTotal(rows, l) = LineTotal(old, l)
    BY <2>3, RestatusedRows
  <2> QED  BY <2>4 DEF old
<1> HIDE DEF rows
<1>6. /\ status' \in [Requests -> Statuses \cup {Absent}]
      /\ status'[r] \in {"DISPATCHED", "RECEIVED"}
      /\ \A q \in Requests : q # r => status'[q] = status[q]
  BY <1>1, <1>3 DEF Shape, Statuses
<1>7. Shape'
  BY <1>1, <1>2, <1>5, <1>6, IdleCall DEF Shape
<1>8. ASSUME NEW q \in Requests  PROVE SplitOK(q)'
  BY <1>1, <1>2, <1>3, <1>5, <1>6, MarkerAssumption DEF SplitOK, Shape, Statuses
<1>9. \A q \in Requests : Steady(q)
  BY <1>1, <1>2, <1>3, <1>4, <1>6 DEF Steady, Shape
<1>10. \A u \in Threads : CallOK(u)'
  BY <1>1, <1>9, IdleCall, SteadyCall
<1>11. LeavesAsOne'
  <2>1. \A i \in DOMAIN rows : rows[i].status \in {"DISPATCHED", "RECEIVED"}
    <3>1. CASE status[r] = "DISPATCHED"
      BY <1>1, <1>4, <3>1 DEF LeavesAsOne
    <3>2. CASE status[r] = "RECEIVED"
      BY <1>1, <1>4, <3>2 DEF RolledUpMeansAllReceived
    <3> QED  BY <1>3, <3>1, <3>2
  <2> QED  BY <1>1, <1>2, <1>6, <2>1 DEF LeavesAsOne, Shape
<1>12. RolledUpMeansAllReceived'
  <2>1. status'[r] = "RECEIVED" =>
          \A i \in DOMAIN rows : rows[i].status = "RECEIVED"
    <3>1. CASE status[r] = "RECEIVED"
      BY <1>1, <1>4, <3>1 DEF RolledUpMeansAllReceived
    <3>2. CASE h.last
      BY <1>1, <1>3, <1>4, <3>2 DEF Outstanding
    <3> QED  BY <1>1, <3>1, <3>2
  <2> QED  BY <1>1, <1>2, <1>6, <2>1 DEF RolledUpMeansAllReceived, Shape
<1> QED  BY <1>7, <1>8, <1>10, <1>11, <1>12

LEMMA GiveUpStep ==
  ASSUME FanoutInv, NEW t \in Threads, GiveUp(t)
  PROVE  FanoutInv'
BY IdleCall, CallStep DEF GiveUp

--------------------------------------------------------------------------------
(* The specification *)

LEMMA NextFanout == FanoutInv /\ [Next]_vars => FanoutInv'
<1> SUFFICES ASSUME FanoutInv, [Next]_vars  PROVE FanoutInv'
  OBVIOUS
<1>1. ASSUME NEW r \in Requests, CreateRequest(r)  PROVE FanoutInv'
  BY <1>1, CreateStep
<1>2. ASSUME NEW t \in Threads, NEW r \in Requests,
             LoadAllocate(t, r) \/ LoadDispatch(t, r) \/ LoadReject(t, r)
      PROVE  FanoutInv'
  BY <1>2, LoadStep
<1>3. ASSUME NEW t \in Threads, NEW r \in Requests,
             NEW i \in DOMAIN allocation[r], LoadReceive(t, r, i)
      PROVE  FanoutInv'
  BY <1>3, LoadReceiveStep
<1>4. ASSUME NEW t \in Threads,
             \/ CommitAllocate(t) \/ CommitDispatch(t) \/ CommitReject(t)
             \/ WriteReceive(t) \/ CountOutstanding(t) \/ CommitReceive(t)
             \/ GiveUp(t)
      PROVE  FanoutInv'
  BY <1>4, CommitAllocateStep, CommitDispatchStep, CommitRejectStep, ReceiptStep,
     CommitReceiveStep, GiveUpStep
<1>5. CASE UNCHANGED <<requestVars, call>>
  BY <1>5 DEF FanoutInv, Shape, SplitOK, CallOK, Receiving, Outstanding,
     LeavesAsOne, RolledUpMeansAllReceived, requestVars
<1> QED  BY <1>1, <1>2, <1>3, <1>4, <1>5 DEF Next, NextDay, vars

LEMMA FanoutInvariant == Spec => []FanoutInv
BY InitFanout, NextFanout, PTL DEF Spec

\* However many admins split one batch at once, its allocations never hand out
\* more of a line than was announced, and a refused batch has none (allocate).
THEOREM SplitsFit == Spec => []SplitWithinReady
<1>1. FanoutInv => SplitWithinReady
  BY AllocatedIsSplitTotal DEF FanoutInv, SplitOK, SplitWithinReady
<1> QED  BY <1>1, FanoutInvariant, PTL

\* The quantity a dispatch debits for a line is the total of the line's
\* allocations, whatever the interleaving of splits, shipments and receipts.
THEOREM ShipmentMatchesSplit == Spec => []ApprovedIsAllocated
<1>1. FanoutInv => ApprovedIsAllocated
  BY AllocatedIsSplitTotal
     DEF FanoutInv, SplitOK, LineTotal, HasLine, ApprovedIsAllocated
<1> QED  BY <1>1, FanoutInvariant, PTL

\* A shipment leaves as one: no delivery of a batch is on its way or confirmed
\* while another still waits to leave (dispatch).
THEOREM ShipmentsLeaveAsOne == Spec => []LeavesAsOne
BY FanoutInvariant, PTL DEF FanoutInv

\* The roll-up is never early: a request is RECEIVED only after every branch
\* confirmed its delivery (receive_allocation).
THEOREM RollUpIsNeverEarly == Spec => []RolledUpMeansAllReceived
BY FanoutInvariant, PTL DEF FanoutInv

--------------------------------------------------------------------------------
(* The goods *)

\* An open receipt holds a delivery nobody else has confirmed, and the branch's
\* row of its product to itself.
ReceiptsHold ==
  /\ \A t \in Threads : Uncommitted(t) => Row(call[t]).status = "DISPATCHED"
  /\ \A t, u \in Threads : t # u /\ Uncommitted(t) /\ Uncommitted(u) =>
       <<Row(call[t]).branch, ProductOf(call[t])>>
         # <<Row(call[u]).branch, ProductOf(call[u])>>

Places ==
  /\ today \in Days
  /\ kitchen \in [Products -> Bins]
  /\ branch \in [Branches -> [Products -> Nat]]

GoodsInv == Places /\ ReceiptsHold /\ Conservation

\* What a list of allocations has on the road, and all it hands out.
Quantities(rows) == [i \in DOMAIN rows |-> rows[i].quantity]
About(r, rows, p) == {i \in DOMAIN rows : Doc[r].product[rows[i].line] = p}
Away(r, rows, p) ==
  SumOver(Quantities(rows),
          {i \in DOMAIN rows : /\ rows[i].status = "DISPATCHED"
                               /\ Doc[r].product[rows[i].line] = p})

LEMMA RowsAreFinite ==
  ASSUME NEW rows \in Seq(AllocationRows)
  PROVE  /\ IsFiniteSet(DOMAIN rows)
         /\ \A i \in DOMAIN rows : /\ rows[i] \in AllocationRows
                                   /\ Quantities(rows)[i] \in Nat
                                   /\ Quantities(rows)[i] \in Int
<1>1. DOMAIN rows = 1 .. Len(rows) /\ Len(rows) \in Nat
  OBVIOUS
<1>2. IsFiniteSet(1 .. Len(rows))
  BY <1>1, FS_Interval
<1>3. \A i \in DOMAIN rows : rows[i] \in AllocationRows
  OBVIOUS
<1>4. Amounts \subseteq Nat
  BY BoundAssumption DEF Amounts
<1>5. \A i \in DOMAIN rows : Quantities(rows)[i] = rows[i].quantity
  BY DEF Quantities
<1>6. \A row \in AllocationRows : row.quantity \in Nat
  BY <1>4 DEF AllocationRows
<1> QED  BY <1>1, <1>2, <1>3, <1>5, <1>6

LEMMA AwayIsNat ==
  ASSUME NEW rows \in Seq(AllocationRows), NEW r, NEW p
  PROVE  Away(r, rows, p) \in Nat
<1> DEFINE S == {i \in DOMAIN rows : /\ rows[i].status = "DISPATCHED"
                                     /\ Doc[r].product[rows[i].line] = p}
<1>1. S \subseteq DOMAIN rows
  OBVIOUS
<1>2. IsFiniteSet(S) /\ \A i \in S : Quantities(rows)[i] \in Nat
  BY <1>1, RowsAreFinite, FS_Subset
<1> HIDE DEF S
<1>3. SumOver(Quantities(rows), S) \in Nat
  BY <1>2, SumNotNegative
<1> QED  BY <1>3 DEF Away, S

LEMMA NothingAway ==
  ASSUME NEW rows, NEW r, NEW p,
         \A i \in DOMAIN rows : rows[i].status # "DISPATCHED"
  PROVE  Away(r, rows, p) = 0
<1>1. {i \in DOMAIN rows : /\ rows[i].status = "DISPATCHED"
                           /\ Doc[r].product[rows[i].line] = p} = {}
  OBVIOUS
<1> QED  BY <1>1, SumEmpty DEF Away

LEMMA SplitTotalIsNat ==
  ASSUME NEW rows \in Seq(AllocationRows), NEW l
  PROVE  SplitTotal(rows, l) \in Nat
<1> DEFINE S == {i \in DOMAIN rows : rows[i].line = l}
<1>1. S \subseteq DOMAIN rows
  OBVIOUS
<1>2. IsFiniteSet(S) /\ \A i \in S : Quantities(rows)[i] \in Nat
  BY <1>1, RowsAreFinite, FS_Subset
<1> HIDE DEF S
<1>3. SumOver(Quantities(rows), S) \in Nat
  BY <1>2, SumNotNegative
<1> QED  BY <1>3 DEF SplitTotal, Quantities, S

\* The approved quantities of a product's lines add up to its allocations.
LEMMA WantedIsHandedOut ==
  ASSUME FanoutInv, NEW r \in Requests, NEW p \in Products
  PROVE  WantedOf(r, p) = SumOver(Quantities(allocation[r]), About(r, allocation[r], p))
<1> DEFINE rows == allocation[r]
           mine == About(r, rows, p)
           wanted == LinesOf(r, p)
           key == [i \in DOMAIN rows |-> rows[i].line]
           f == Quantities(rows)
           g == [l \in Lines |-> IF approved[r][l] = Null THEN 0 ELSE approved[r][l]]
<1>1. rows \in Seq(AllocationRows)
  BY DEF FanoutInv, Shape
<1> HIDE DEF rows
<1>2. /\ mine \subseteq DOMAIN rows /\ wanted \subseteq Lines
      /\ \A i \in DOMAIN rows : rows[i].line \in Lines
  BY <1>1, RowsAreFinite DEF About, LinesOf, AllocationRows
<1>3. IsFiniteSet(mine) /\ IsFiniteSet(wanted) /\ \A i \in mine : f[i] \in Int
  BY <1>1, <1>2, RowsAreFinite, FiniteAssumption, FS_Subset
<1>4. \A i \in mine : key[i] \in wanted
  BY <1>2 DEF About, LinesOf
<1>5. ASSUME NEW l \in wanted  PROVE g[l] = SumOver(f, Group(mine, key, l))
  <2>1. Group(mine, key, l) = {i \in DOMAIN rows : rows[i].line = l}
    BY <1>2 DEF Group, About, LinesOf
  <2>2. SumOver(f, Group(mine, key, l)) = SplitTotal(rows, l)
    BY <2>1 DEF SplitTotal, Quantities
  <2>3. approved[r][l] = LineTotal(rows, l) /\ l \in Lines
    BY <1>2 DEF FanoutInv, SplitOK, rows
  <2>4. CASE HasLine(rows, l)
    <3>1. SplitTotal(rows, l) \in Nat
      BY <1>1, SplitTotalIsNat
    <3> QED  BY <2>2, <2>3, <2>4, <3>1, MarkerAssumption DEF LineTotal
  <2>5. CASE ~HasLine(rows, l)
    <3>1. Group(mine, key, l) = {}
      BY <2>1, <2>5 DEF HasLine
    <3> QED  BY <2>3, <2>5, <3>1, SumEmpty DEF LineTotal
  <2> QED  BY <2>4, <2>5
<1>6. WantedOf(r, p) = SumOver(g, wanted)
  BY DEF WantedOf
<1> HIDE DEF mine, wanted, key, f, g
<1>7. SumOver(f, mine) = SumOver(g, wanted)
  BY <1>3, <1>4, <1>5, SumByKey
<1> QED  BY <1>6, <1>7 DEF f, mine, rows

\* A shipment puts all its allocations on the road.
LEMMA ShippedIsAway ==
  ASSUME NEW rows \in Seq(AllocationRows), NEW r, NEW p
  PROVE  Away(r, Flipped(rows), p) = SumOver(Quantities(rows), About(r, rows, p))
<1>1. \A i \in DOMAIN rows : /\ Flipped(rows)[i].status = "DISPATCHED"
                             /\ Flipped(rows)[i].line = rows[i].line
                             /\ Flipped(rows)[i].quantity = rows[i].quantity
  BY RowsAreFinite DEF Flipped, AllocationRows
<1>2. DOMAIN Flipped(rows) = DOMAIN rows
  BY DEF Flipped
<1>3. Quantities(Flipped(rows)) = Quantities(rows)
  BY <1>1, <1>2 DEF Quantities
<1>4. {i \in DOMAIN Flipped(rows) :
         /\ Flipped(rows)[i].status = "DISPATCHED"
         /\ Doc[r].product[Flipped(rows)[i].line] = p} = About(r, rows, p)
  BY <1>1, <1>2 DEF About
<1> QED  BY <1>3, <1>4 DEF Away

\* A confirmed delivery is no longer on the road.
LEMMA LandedLeavesTheRoad ==
  ASSUME NEW rows \in Seq(AllocationRows), NEW i \in DOMAIN rows,
         rows[i].status = "DISPATCHED", NEW r, NEW p
  PROVE  LET landed == [rows EXCEPT ![i].status = "RECEIVED"]
             its == IF Doc[r].product[rows[i].line] = p THEN rows[i].quantity ELSE 0
         IN its \in Nat /\ Away(r, rows, p) = its + Away(r, landed, p)
<1> DEFINE landed == [rows EXCEPT ![i].status = "RECEIVED"]
           its == IF Doc[r].product[rows[i].line] = p THEN rows[i].quantity ELSE 0
           OnRoad(list) == {j \in DOMAIN list : /\ list[j].status = "DISPATCHED"
                                                /\ Doc[r].product[list[j].line] = p}
           before == OnRoad(rows)
           after == OnRoad(landed)
<1>1. \A j \in DOMAIN rows : rows[j] \in AllocationRows /\ Quantities(rows)[j] \in Int
  BY RowsAreFinite
<1>2. /\ DOMAIN landed = DOMAIN rows
      /\ landed[i].status = "RECEIVED" /\ landed[i].line = rows[i].line
      /\ landed[i].quantity = rows[i].quantity
      /\ \A j \in DOMAIN rows \ {i} : landed[j] = rows[j]
  BY <1>1 DEF AllocationRows
<1>3. Quantities(landed) = Quantities(rows)
  <2>1. \A j \in DOMAIN rows : landed[j].quantity = rows[j].quantity
    BY <1>2
  <2> HIDE DEF landed
  <2> QED  BY <1>2, <2>1 DEF Quantities
<1>4. its \in Nat /\ Quantities(rows)[i] = rows[i].quantity
  <2>1. Quantities(rows)[i] = rows[i].quantity /\ Quantities(rows)[i] \in Nat
    BY RowsAreFinite DEF Quantities
  <2> QED  BY <2>1
<1>5. Away(r, rows, p) = SumOver(Quantities(rows), before)
  BY DEF Away
<1>6. Away(r, landed, p) = SumOver(Quantities(rows), after)
  BY <1>3 DEF Away
<1>7. CASE Doc[r].product[rows[i].line] = p
  <2>1. i \in before /\ after = before \ {i} /\ before \in SUBSET DOMAIN rows
    <3> HIDE DEF landed
    <3> QED  BY <1>2, <1>7
  <2>2. IsFiniteSet(DOMAIN rows)
    BY RowsAreFinite
  <2> HIDE DEF before, after
  <2>3. SumOver(Quantities(rows), before)
          = Quantities(rows)[i] + SumOver(Quantities(rows), before \ {i})
    BY <1>1, <2>1, <2>2, SumRemove
  <2> QED  BY <1>4, <1>5, <1>6, <1>7, <2>1, <2>3
<1>8. CASE Doc[r].product[rows[i].line] # p
  <2>1. after = before
    <3> HIDE DEF landed
    <3> QED  BY <1>2, <1>8
  <2>2. Away(r, rows, p) = Away(r, landed, p) /\ its = 0
    BY <1>5, <1>6, <1>8, <2>1
  <2>3. Away(r, rows, p) \in Nat
    BY AwayIsNat
  <2>4. its \in Nat /\ Away(r, rows, p) = its + Away(r, landed, p)
    <3> HIDE DEF its, landed
    <3> QED  BY <2>2, <2>3
  <2> QED  BY <2>4
<1> QED  BY <1>4, <1>7, <1>8

\* One request moves: the road changes by what it had and has on it.
LEMMA RoadChange ==
  ASSUME Shape, Shape', NEW r \in Requests, NEW p \in Products,
         \A q \in Requests \ {r} : allocation'[q] = allocation[q]
  PROVE  /\ OnTheWay(p) \in Int
         /\ OnTheWay(p)' = OnTheWay(p) - Away(r, allocation[r], p)
                                        + Away(r, allocation'[r], p)
<1> DEFINE own == [q \in Requests |-> Away(q, allocation[q], p)]
           own2 == [q \in Requests |-> Away(q, allocation'[q], p)]
<1>1. \A q \in Requests : own[q] \in Int /\ own2[q] \in Int
  BY AwayIsNat DEF Shape
<1>2. \A q \in Requests \ {r} : own2[q] = own[q]
  OBVIOUS
<1>3. OnTheWay(p) = SumOver(own, Requests) /\ OnTheWay(p)' = SumOver(own2, Requests)
  BY DEF OnTheWay, Away, Quantities
<1>4. own[r] = Away(r, allocation[r], p) /\ own2[r] = Away(r, allocation'[r], p)
  OBVIOUS
<1> HIDE DEF own, own2
<1>5. SumOver(own2, Requests) = SumOver(own, Requests) - own[r] + own2[r]
  BY <1>1, <1>2, FiniteAssumption, SumChange
<1>6. SumOver(own, Requests) \in Int
  BY <1>1, FiniteAssumption, SumIsInt
<1> QED  BY <1>1, <1>3, <1>4, <1>5, <1>6

LEMMA BranchChange ==
  ASSUME Places, Places', NEW b \in Branches, NEW p \in Products,
         \A c \in Branches \ {b} : branch'[c] = branch[c]
  PROVE  /\ AtBranches(p) \in Int
         /\ AtBranches(p)' = AtBranches(p) - branch[b][p] + branch'[b][p]
<1> DEFINE own == [c \in Branches |-> branch[c][p]]
           own2 == [c \in Branches |-> branch'[c][p]]
<1>1. \A c \in Branches : own[c] \in Int /\ own2[c] \in Int
  BY DEF Places
<1>2. \A c \in Branches \ {b} : own2[c] = own[c]
  OBVIOUS
<1>3. AtBranches(p) = SumOver(own, Branches) /\ AtBranches(p)' = SumOver(own2, Branches)
  BY DEF AtBranches
<1>4. own[b] = branch[b][p] /\ own2[b] = branch'[b][p]
  OBVIOUS
<1> HIDE DEF own, own2
<1>5. SumOver(own2, Branches) = SumOver(own, Branches) - own[b] + own2[b]
  <2>1. IsFiniteSet(Branches)
    BY FiniteAssumption
  <2> QED  BY <1>1, <1>2, <2>1, SumChange
<1>6. SumOver(own, Branches) \in Int
  BY <1>1, FiniteAssumption, SumIsInt
<1> QED  BY <1>1, <1>3, <1>4, <1>5, <1>6

\* A step in which no receipt is opened and open ones keep their delivery.
Held(u) ==
  Uncommitted(u)' =>
    /\ Uncommitted(u)
    /\ call'[u].req = call[u].req /\ call'[u].i = call[u].i
    /\ allocation'[call[u].req][call[u].i] = Row(call[u])

LEMMA HeldReceipts ==
  ASSUME ReceiptsHold, \A u \in Threads : Held(u)
  PROVE  ReceiptsHold'
<1>1. ASSUME NEW u \in Threads, Uncommitted(u)'
      PROVE  /\ Uncommitted(u) /\ Row(call[u])' = Row(call[u])
             /\ ProductOf(call[u])' = ProductOf(call[u])
  BY <1>1 DEF Held, Row, ProductOf
<1> QED  BY <1>1 DEF ReceiptsHold

\* A receipt under way belongs to a shipment that left.
LEMMA ReceiptFacts ==
  ASSUME FanoutInv, NEW u \in Threads, Receiving(u)
  PROVE  /\ call[u] \in Receipts /\ call[u].req \in Requests
         /\ call[u].i \in DOMAIN allocation[call[u].req]
         /\ status[call[u].req] \in {"DISPATCHED", "RECEIVED"}
<1>1. call[u] # Idle
  BY DEF Receiving
<1>2. CallOK(u)
  BY DEF FanoutInv
<1> QED  BY <1>1, <1>2, CallFacts DEF CallOK

\* A step on a request that has not left disturbs no receipt.
LEMMA UnshippedHolds ==
  ASSUME FanoutInv, NEW r \in Requests, status[r] \notin {"DISPATCHED", "RECEIVED"},
         \A q \in Requests \ {r} : allocation'[q] = allocation[q],
         NEW t \in Threads, call' = [call EXCEPT ![t] = Idle]
  PROVE  \A u \in Threads : Held(u)
<1> SUFFICES ASSUME NEW u \in Threads, Uncommitted(u)'  PROVE Held(u)
  BY DEF Held
<1>1. call'[u] = call[u]
  BY DEF FanoutInv, Shape, Uncommitted, Receiving
<1>2. Uncommitted(u) /\ Receiving(u)
  BY <1>1 DEF Uncommitted, Receiving
<1>3. call[u].req \in Requests \ {r}
  BY <1>2, ReceiptFacts
<1> QED  BY <1>1, <1>2, <1>3 DEF Held, Row

\* Steps that move no goods.
LEMMA QuietGoods ==
  ASSUME FanoutInv, GoodsInv, UNCHANGED <<allocation, stockVars>>, today' \in Days,
         \A u \in Threads : Uncommitted(u)' =>
           /\ Uncommitted(u)
           /\ call'[u].req = call[u].req /\ call'[u].i = call[u].i
  PROVE  GoodsInv'
<1>1. Places'
  BY DEF GoodsInv, Places, stockVars
<1>2. \A u \in Threads : Held(u)
  BY DEF Held, Row
<1>3. ReceiptsHold'
  BY <1>2, HeldReceipts DEF GoodsInv
<1>4. Conservation'
  BY DEF GoodsInv, Conservation, OnTheWay, AtBranches, stockVars
<1> QED  BY <1>1, <1>3, <1>4 DEF GoodsInv

LEMMA QuietSteps ==
  ASSUME FanoutInv, GoodsInv, NEW t \in Threads, NEW h,
         call' = [call EXCEPT ![t] = h],
         h = Idle \/ h.kind # "receive" \/ h.phase = "loaded",
         UNCHANGED <<allocation, today, stockVars>>
  PROVE  GoodsInv'
<1>1. \A u \in Threads : Uncommitted(u)' => call'[u] = call[u]
  BY DEF FanoutInv, Shape, Uncommitted, Receiving
<1>2. \A u \in Threads : Uncommitted(u)' => Uncommitted(u)
  BY <1>1 DEF Uncommitted, Receiving
<1>3. today' \in Days
  BY DEF GoodsInv, Places
<1> QED  BY <1>1, <1>2, <1>3, QuietGoods

LEMMA AllocateGoods ==
  ASSUME FanoutInv, FanoutInv', GoodsInv, NEW t \in Threads, CommitAllocate(t)
  PROVE  GoodsInv'
<1> DEFINE h == call[t]
           r == h.req
<1>1. /\ h # Idle /\ h.kind = "allocate" /\ status[r] = "PENDING"
      /\ allocation' = [allocation EXCEPT ![r] = allocation[r] \o Rows(h.split)]
      /\ call' = [call EXCEPT ![t] = Idle]
      /\ UNCHANGED <<today, stockVars>>
  BY DEF CommitAllocate, CompareAndSet
<1>2. r \in Requests /\ h.split \in Splits
  <2>1. CallOK(t)
    BY DEF FanoutInv
  <2> QED  BY <1>1, <2>1, CallFacts DEF CallOK
<1>3. allocation[r] = <<>>
  BY <1>1, <1>2 DEF FanoutInv, SplitOK
<1>4. allocation'[r] = Rows(h.split)
  BY <1>1, <1>2, <1>3, SplitIsRows DEF FanoutInv, Shape
<1>5. \A q \in Requests \ {r} : allocation'[q] = allocation[q]
  BY <1>1 DEF FanoutInv, Shape
<1>6. Places'
  BY <1>1 DEF GoodsInv, Places, stockVars
<1>7. ReceiptsHold'
  BY <1>1, <1>2, <1>5, UnshippedHolds, HeldReceipts DEF GoodsInv
<1>8. ASSUME NEW p \in Products  PROVE OnTheWay(p)' = OnTheWay(p)
  <2>1. Away(r, allocation[r], p) = 0
    BY <1>3, NothingAway
  <2>2. \A i \in DOMAIN allocation'[r] : allocation'[r][i].status # "DISPATCHED"
    BY <1>4 DEF Rows
  <2>3. Away(r, allocation'[r], p) = 0
    BY <2>2, NothingAway
  <2> QED  BY <1>2, <1>5, <2>1, <2>3, RoadChange DEF FanoutInv
<1>9. \A p \in Products : AtBranches(p)' = AtBranches(p)
  BY <1>1 DEF AtBranches, stockVars
<1>10. Conservation'
  BY <1>1, <1>8, <1>9 DEF GoodsInv, Conservation, stockVars
<1> QED  BY <1>6, <1>7, <1>10 DEF GoodsInv

\* What leaves the kitchen is what is then on the road.
LEMMA DispatchGoods ==
  ASSUME FanoutInv, FanoutInv', GoodsInv, NEW t \in Threads, CommitDispatch(t)
  PROVE  GoodsInv'
<1> DEFINE r == call[t].req
           sent == [p \in Products |->
                      Minus(kitchen[p], FefoTake(kitchen[p], WantedOf(r, p), today))]
<1>1. /\ call[t] # Idle /\ call[t].kind = "dispatch" /\ status[r] = "ALLOCATED"
      /\ \A p \in Products : FefoDraws(kitchen[p], WantedOf(r, p), today) # {}
      /\ kitchen' = sent
      /\ allocation' = [allocation EXCEPT ![r] = Flipped(allocation[r])]
      /\ call' = [call EXCEPT ![t] = Idle]
      /\ UNCHANGED <<today, branch>>
  BY DEF CommitDispatch, CompareAndSet
<1>2. r \in Requests /\ allocation[r] \in Seq(AllocationRows)
  BY <1>1, CallFacts DEF FanoutInv, Shape
<1> HIDE DEF r
<1>3. /\ allocation'[r] = Flipped(allocation[r])
      /\ \A q \in Requests \ {r} : allocation'[q] = allocation[q]
  BY <1>1, <1>2 DEF FanoutInv, Shape
<1>4. ASSUME NEW p \in Products
      PROVE  /\ sent[p] \in Bins
             /\ Total(sent[p]) = Total(kitchen[p]) - WantedOf(r, p)
             /\ Total(kitchen[p]) \in Nat
  <2>1. kitchen[p] \in Bins /\ FefoDraws(kitchen[p], WantedOf(r, p), today) # {}
    BY <1>1 DEF GoodsInv, Places
  <2>2. sent[p] = Minus(kitchen[p], FefoTake(kitchen[p], WantedOf(r, p), today))
    OBVIOUS
  <2> HIDE DEF sent
  <2> QED  BY <2>1, <2>2, DrawLeavesABin, TotalIsNat
<1>5. Places'
  <2>1. sent \in [Products -> Bins]
    BY <1>4
  <2> HIDE DEF sent
  <2> QED  BY <1>1, <2>1 DEF GoodsInv, Places
<1>6. ReceiptsHold'
  BY <1>1, <1>2, <1>3, UnshippedHolds, HeldReceipts DEF GoodsInv
<1>7. ASSUME NEW p \in Products
      PROVE  /\ OnTheWay(p) \in Int /\ WantedOf(r, p) \in Int
             /\ OnTheWay(p)' = OnTheWay(p) + WantedOf(r, p)
  <2>1. \A i \in DOMAIN allocation[r] : allocation[r][i].status = "ALLOCATED"
    BY <1>1, <1>2 DEF FanoutInv, LeavesAsOne
  <2>2. Away(r, allocation[r], p) = 0
    BY <2>1, NothingAway
  <2>3. Away(r, allocation'[r], p) = WantedOf(r, p)
    BY <1>2, <1>3, ShippedIsAway, WantedIsHandedOut
  <2>4. allocation'[r] \in Seq(AllocationRows)
    BY <1>2 DEF FanoutInv, Shape
  <2>5. Away(r, allocation'[r], p) \in Nat
    BY <2>4, AwayIsNat
  <2>6. /\ OnTheWay(p) \in Int
        /\ OnTheWay(p)' = OnTheWay(p) - Away(r, allocation[r], p)
                                       + Away(r, allocation'[r], p)
    BY <1>2, <1>3, RoadChange DEF FanoutInv
  <2> QED  BY <2>2, <2>3, <2>5, <2>6
<1>8. \A p \in Products : AtBranches(p)' = AtBranches(p)
  BY <1>1 DEF AtBranches
<1>9. ASSUME NEW p \in Products
      PROVE  Total(kitchen'[p]) + OnTheWay(p)' + AtBranches(p)' = Total(InitStock[p])
  <2>1. AtBranches(p) \in Int /\ Total(kitchen[p]) + OnTheWay(p) + AtBranches(p)
                                  = Total(InitStock[p])
    <3>1. \A b \in Branches : [c \in Branches |-> branch[c][p]][b] \in Int
      BY DEF GoodsInv, Places
    <3> DEFINE own == [c \in Branches |-> branch[c][p]]
    <3> HIDE DEF own
    <3>2. SumOver(own, Branches) \in Int
      BY <3>1, FiniteAssumption, SumIsInt DEF own
    <3> QED  BY <3>2 DEF AtBranches, GoodsInv, Conservation, own
  <2>2. Total(kitchen'[p]) = Total(kitchen[p]) - WantedOf(r, p)
    BY <1>1, <1>4
  <2>3. \A a, b, c, d \in Int : a - d + (b + d) + c = a + b + c
    OBVIOUS
  <2> QED  BY <1>4, <1>7, <1>8, <2>1, <2>2, <2>3
<1>10. Conservation'
  BY <1>9 DEF Conservation
<1> QED  BY <1>5, <1>6, <1>10 DEF GoodsInv

\* A receipt opens only on a delivery still on its way, in a row nobody holds.
LEMMA WriteGoods ==
  ASSUME FanoutInv, GoodsInv, NEW t \in Threads, WriteReceive(t)
  PROVE  GoodsInv'
<1>1. /\ Receiving(t) /\ call[t] \in Receipts /\ Unlocked(call[t])
      /\ Row(call[t]).status = "DISPATCHED"
      /\ call' = [call EXCEPT ![t].phase = "written"]
      /\ UNCHANGED <<allocation, today, stockVars>>
  BY ReceiptFacts DEF WriteReceive, NotReceivedYet, requestVars
<1>2. /\ call'[t].req = call[t].req /\ call'[t].i = call[t].i
      /\ \A u \in Threads : u # t => call'[u] = call[u]
  BY <1>1 DEF FanoutInv, Shape, Receipts
<1>3. \A u \in Threads : /\ Row(call[u])' = Row(call[u])
                         /\ ProductOf(call[u])' = ProductOf(call[u])
  BY <1>1, <1>2 DEF Row, ProductOf
<1>4. \A u \in Threads : u # t /\ Uncommitted(u)' => Uncommitted(u)
  BY <1>2 DEF Uncommitted, Receiving
<1>5. ReceiptsHold'
  BY <1>1, <1>3, <1>4 DEF GoodsInv, ReceiptsHold, Unlocked
<1>6. Places' /\ Conservation'
  BY <1>1 DEF GoodsInv, Places, Conservation, OnTheWay, AtBranches, stockVars
<1> QED  BY <1>5, <1>6 DEF GoodsInv

\* What leaves the road is what the branch is credited.
LEMMA ReceiveGoods ==
  ASSUME FanoutInv, FanoutInv', GoodsInv, NEW t \in Threads, CommitReceive(t)
  PROVE  GoodsInv'
<1> DEFINE h == call[t]
           r == h.req
           i == h.i
           rows == allocation[r]
           landed == [rows EXCEPT ![i].status = "RECEIVED"]
           b == rows[i].branch
           product == Doc[r].product[rows[i].line]
           q == rows[i].quantity
<1>1. /\ Receiving(t) /\ Uncommitted(t) /\ h \in Receipts /\ r \in Requests
      /\ i \in DOMAIN rows /\ rows \in Seq(AllocationRows)
      /\ call' = [call EXCEPT ![t] = Idle]
      /\ UNCHANGED <<today, kitchen>>
  <2>1. Receiving(t) /\ Uncommitted(t)
    BY DEF CommitReceive, Uncommitted
  <2> QED  BY <2>1, ReceiptFacts DEF CommitReceive, FanoutInv, Shape
<1>2. rows[i].status = "DISPATCHED"
  BY <1>1 DEF GoodsInv, ReceiptsHold, Row
<1>3. /\ allocation' = [allocation EXCEPT ![r] = landed]
      /\ branch' = [branch EXCEPT ![b][product] = @ + q]
  BY <1>1 DEF CommitReceive, FanoutInv, Shape, Row, ProductOf
<1>4. b \in Branches /\ product \in Products /\ q \in Nat
  <2>1. rows[i] \in AllocationRows /\ Quantities(rows)[i] \in Nat
    BY <1>1, RowsAreFinite
  <2>2. rows[i].line \in Lines
    BY <2>1 DEF AllocationRows
  <2> QED  BY <1>1, <2>1, <2>2, DocAssumption DEF AllocationRows, Quantities
<1>5. /\ allocation'[r] = landed
      /\ \A o \in Requests \ {r} : allocation'[o] = allocation[o]
  BY <1>1, <1>3 DEF FanoutInv, Shape
<1>6. \A j \in DOMAIN rows \ {i} : landed[j] = rows[j]
  OBVIOUS
<1> HIDE DEF r, i, rows, landed, b, product, q
<1>7. Places'
  BY <1>1, <1>3, <1>4 DEF GoodsInv, Places
<1>8. ASSUME NEW u \in Threads, Uncommitted(u)'  PROVE Held(u)
  <2>1. u # t /\ call'[u] = call[u]
    BY <1>1, <1>8 DEF FanoutInv, Shape, Uncommitted, Receiving
  <2>2. Uncommitted(u) /\ Receiving(u)
    BY <1>8, <2>1 DEF Uncommitted, Receiving
  <2>3. call[u].req \in Requests /\ call[u].i \in DOMAIN allocation[call[u].req]
    BY <2>2, ReceiptFacts
  <2>4. ~(call[u].req = r /\ call[u].i = i)
    BY <1>1, <2>1, <2>2 DEF GoodsInv, ReceiptsHold, Row, ProductOf, r, i
  <2>5. allocation'[call[u].req][call[u].i] = Row(call[u])
    BY <1>5, <1>6, <2>3, <2>4 DEF Row, rows
  <2> QED  BY <2>1, <2>2, <2>5 DEF Held
<1>9. ReceiptsHold'
  BY <1>8, HeldReceipts DEF GoodsInv, Held
<1>10. ASSUME NEW p \in Products
       PROVE  Total(kitchen'[p]) + OnTheWay(p)' + AtBranches(p)' = Total(InitStock[p])
  <2> DEFINE its == IF product = p THEN q ELSE 0
  <2>1. its \in Nat /\ Away(r, rows, p) = its + Away(r, landed, p)
    BY <1>1, <1>2, LandedLeavesTheRoad DEF landed, product, q
  <2>2. Away(r, rows, p) \in Nat /\ Away(r, landed, p) \in Nat
    <3>1. landed \in Seq(AllocationRows)
      BY <1>1, <1>5 DEF FanoutInv, Shape
    <3> QED  BY <1>1, <3>1, AwayIsNat
  <2>3. /\ OnTheWay(p) \in Int
        /\ OnTheWay(p)' = OnTheWay(p) - Away(r, rows, p) + Away(r, landed, p)
    BY <1>1, <1>5, RoadChange DEF FanoutInv, rows
  <2>4. branch'[b][p] = branch[b][p] + its /\ branch[b][p] \in Nat
    BY <1>3, <1>4 DEF GoodsInv, Places
  <2>5. /\ AtBranches(p) \in Int
        /\ AtBranches(p)' = AtBranches(p) - branch[b][p] + branch'[b][p]
    <3>1. \A c \in Branches \ {b} : branch'[c] = branch[c]
      BY <1>3 DEF GoodsInv, Places
    <3> QED  BY <1>4, <1>7, <3>1, BranchChange DEF GoodsInv
  <2>6. /\ Total(kitchen[p]) \in Nat /\ kitchen' = kitchen
        /\ Total(kitchen[p]) + OnTheWay(p) + AtBranches(p) = Total(InitStock[p])
    BY <1>1, TotalIsNat DEF GoodsInv, Places, Conservation
  <2> HIDE DEF its
  <2>7. OnTheWay(p)' = OnTheWay(p) - its
    BY <2>1, <2>2, <2>3
  <2>8. AtBranches(p)' = AtBranches(p) + its
    BY <2>1, <2>4, <2>5
  <2>9. \A k, o, a, d \in Int : k + (o - d) + (a + d) = k + o + a
    OBVIOUS
  <2> QED  BY <2>1, <2>3, <2>5, <2>6, <2>7, <2>8, <2>9
<1>11. Conservation'
  BY <1>10 DEF Conservation
<1> QED  BY <1>7, <1>9, <1>11 DEF GoodsInv

LEMMA InitGoods == Init => GoodsInv
<1> SUFFICES ASSUME Init  PROVE GoodsInv
  OBVIOUS
<1>1. Places
  BY StockAssumption, DayAssumption DEF Init, Places, Days
<1>2. ReceiptsHold
  BY DEF Init, ReceiptsHold, Uncommitted, Receiving
<1>3. ASSUME NEW p \in Products
      PROVE  Total(kitchen[p]) + OnTheWay(p) + AtBranches(p) = Total(InitStock[p])
  <2>1. OnTheWay(p) = 0
    <3> DEFINE own == [r \in Requests |-> Away(r, allocation[r], p)]
    <3>1. \A r \in Requests : own[r] = 0
      BY NothingAway DEF Init
    <3>2. OnTheWay(p) = SumOver(own, Requests)
      BY DEF OnTheWay, Away, Quantities
    <3> HIDE DEF own
    <3> QED  BY <3>1, <3>2, FiniteAssumption, SumZero
  <2>2. AtBranches(p) = 0
    <3> DEFINE own == [b \in Branches |-> branch[b][p]]
    <3>1. \A b \in Branches : own[b] = 0
      BY DEF Init
    <3> HIDE DEF own
    <3>2. SumOver(own, Branches) = 0
      BY <3>1, FiniteAssumption, SumZero
    <3> QED  BY <3>2 DEF AtBranches, own
  <2>3. kitchen[p] = InitStock[p] /\ Total(kitchen[p]) \in Nat
    BY <1>1, TotalIsNat DEF Init, Places
  <2> QED  BY <2>1, <2>2, <2>3
<1> QED  BY <1>1, <1>2, <1>3 DEF GoodsInv, Conservation

LEMMA NextGoods == FanoutInv /\ FanoutInv' /\ GoodsInv /\ [Next]_vars => GoodsInv'
<1> SUFFICES ASSUME FanoutInv, FanoutInv', GoodsInv, [Next]_vars  PROVE GoodsInv'
  OBVIOUS
<1>1. ASSUME NEW r \in Requests, CreateRequest(r)  PROVE GoodsInv'
  BY <1>1, QuietGoods DEF CreateRequest, Uncommitted, Receiving, GoodsInv, Places
<1>2. ASSUME NEW t \in Threads, NEW r \in Requests, LoadAllocate(t, r)  PROVE GoodsInv'
  <2>1. PICK split \in Splits :
          call' = [call EXCEPT ![t] = [kind |-> "allocate", req |-> r, split |-> split]]
    BY <1>2 DEF LoadAllocate
  <2> DEFINE h == [kind |-> "allocate", req |-> r, split |-> split]
  <2>2. h.kind # "receive"
    OBVIOUS
  <2> HIDE DEF h
  <2> QED  BY <1>2, <2>1, <2>2, QuietSteps DEF LoadAllocate, requestVars, h
<1>3. ASSUME NEW t \in Threads, NEW r \in Requests,
             LoadDispatch(t, r) \/ LoadReject(t, r)
      PROVE  GoodsInv'
  BY <1>3, QuietSteps DEF LoadDispatch, LoadReject, requestVars
<1>4. ASSUME NEW t \in Threads, NEW r \in Requests,
             NEW i \in DOMAIN allocation[r], LoadReceive(t, r, i)
      PROVE  GoodsInv'
  BY <1>4, QuietSteps DEF LoadReceive, requestVars
<1>5. ASSUME NEW t \in Threads, CommitReject(t) \/ GiveUp(t)  PROVE GoodsInv'
  BY <1>5, QuietSteps DEF CommitReject, GiveUp, requestVars
<1>6. ASSUME NEW t \in Threads, CountOutstanding(t)  PROVE GoodsInv'
  <2>1. /\ Receiving(t) /\ call[t] \in Receipts /\ call[t].phase = "written"
        /\ UNCHANGED <<allocation, today, stockVars>>
    BY <1>6, ReceiptFacts DEF CountOutstanding, requestVars
  <2>2. \A u \in Threads : u # t => call'[u] = call[u]
    BY <1>6 DEF CountOutstanding, FanoutInv, Shape
  <2>3. call'[t].req = call[t].req /\ call'[t].i = call[t].i
    BY <1>6, <2>1 DEF CountOutstanding, FanoutInv, Shape, Receipts
  <2>4. \A u \in Threads : Uncommitted(u)' =>
          /\ Uncommitted(u)
          /\ call'[u].req = call[u].req /\ call'[u].i = call[u].i
    BY <2>1, <2>2, <2>3 DEF Uncommitted, Receiving
  <2> QED  BY <2>1, <2>4, QuietGoods DEF GoodsInv, Places
<1>7. ASSUME NEW t \in Threads,
             \/ CommitAllocate(t) \/ CommitDispatch(t)
             \/ WriteReceive(t) \/ CommitReceive(t)
      PROVE  GoodsInv'
  BY <1>7, AllocateGoods, DispatchGoods, WriteGoods, ReceiveGoods
<1>8. CASE NextDay
  <2>1. today' \in Days
    BY <1>8, DayAssumption DEF NextDay, GoodsInv, Places, Days
  <2> QED  BY <1>8, <2>1, QuietGoods DEF NextDay, requestVars, Uncommitted, Receiving
<1>9. CASE UNCHANGED vars
  BY <1>9, QuietGoods DEF vars, requestVars, Uncommitted, Receiving, GoodsInv, Places
<1> QED  BY <1>1, <1>2, <1>3, <1>4, <1>5, <1>6, <1>7, <1>8, <1>9 DEF Next

LEMMA GoodsInvariant == Spec => []GoodsInv
<1>1. FanoutInv /\ GoodsInv /\ [Next]_vars => FanoutInv' /\ GoodsInv'
  BY NextFanout, NextGoods
<1> QED  BY InitFanout, InitGoods, <1>1, PTL DEF Spec

\* The state of the fan-out is well typed: nothing approved is negative, and no
\* shipment drives the kitchen's bins below zero.
THEOREM FanoutTypeCorrect == Spec => []TypeOK
<1>1. FanoutInv /\ GoodsInv => TypeOK
  <2> SUFFICES ASSUME FanoutInv, GoodsInv  PROVE TypeOK
    OBVIOUS
  <2>1. ASSUME NEW r \in Requests  PROVE approved[r] \in [Lines -> Nat \cup {Null}]
    <3>1. \A l \in Lines : approved[r][l] \in Nat \cup {Null}
      BY SplitTotalIsNat DEF FanoutInv, Shape, SplitOK, LineTotal
    <3>2. approved[r] = [l \in Lines |-> approved[r][l]]
      BY DEF FanoutInv, Shape
    <3> QED  BY <3>1, <3>2
  <2>2. approved \in [Requests -> [Lines -> Nat \cup {Null}]]
    <3>1. approved = [r \in Requests |-> approved[r]]
      BY DEF FanoutInv, Shape
    <3> QED  BY <2>1, <3>1
  <2> QED  BY <2>2 DEF TypeOK, FanoutInv, Shape, GoodsInv, Places
<1> QED  BY <1>1, FanoutInvariant, GoodsInvariant, PTL

\* Between the kitchen and the branches nothing is delivered twice or lost,
\* whoever confirms a delivery and however often (dispatch, receive_allocation).
THEOREM DeliveriesAreConserved == Spec => []Conservation
BY GoodsInvariant, PTL DEF GoodsInv

================================================================================
