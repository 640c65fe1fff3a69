---------------------------- MODULE DeliveryFanout ----------------------------
(***************************************************************************)
(* A kitchen batch split across branches: the KITCHEN_TO_ADMIN requests of  *)
(* app/services/requests.py (allocate, dispatch, receive_allocation).       *)
(*                                                                         *)
(* The kitchen announces goods it holds, Admin splits them, the shipment    *)
(* leaves as one, and every branch confirms its own deliveries.  The        *)
(* allocation is what a branch receives; the request follows when the last  *)
(* one has landed.                                                          *)
(*                                                                         *)
(* Handlers are transactions at READ COMMITTED.  allocate, dispatch and the *)
(* refusal are a load and a commit behind the compare-and-set.  A receipt   *)
(* has three steps, for its count of outstanding deliveries sees its own    *)
(* uncommitted write and nobody else's.                                     *)
(*                                                                         *)
(* There is one kitchen: kitchens share no stock.                           *)
(***************************************************************************)
EXTENDS StockLots, SequencesExt

CONSTANTS
  Requests,     \* requests by their local_id
  Lines,
  Products,
  Branches,
  Doc,          \* the lines each request announces: product, requested
  InitStock,    \* lots of each product at the kitchen
  Threads,
  Idle,         \* a thread without a call
  Absent,       \* a request not yet created
  Null,         \* a quantity nobody has entered
  MaxQuantity,  \* bound on a line and on a slice of it
  MaxSlices     \* bound on the allocations of one allocate call

Amounts == 0 .. MaxQuantity
Statuses == {"PENDING", "ALLOCATED", "DISPATCHED", "RECEIVED", "REJECTED"}
AllocationStatuses == {"ALLOCATED", "DISPATCHED", "RECEIVED"}

ASSUME DocAssumption ==
  Doc \in [Requests -> [product : [Lines -> Products],
                        requested : [Lines -> Amounts \ {0}]]]
ASSUME FiniteAssumption ==
  IsFiniteSet(Requests) /\ IsFiniteSet(Lines) /\ IsFiniteSet(Branches)
ASSUME StockAssumption == InitStock \in [Products -> Bins]
ASSUME MarkerAssumption == Absent \notin Statuses /\ Null \notin Nat
ASSUME BoundAssumption == MaxQuantity \in Nat /\ MaxSlices \in Nat

\* AllocationCreate: quantity > 0, any line to any branch, repeats allowed.
Slices == [line : Lines, branch : Branches, quantity : Amounts \ {0}]
Splits == UNION {[1 .. n -> Slices] : n \in 1 .. MaxSlices}

AllocationRows ==
  [line : Lines, branch : Branches, quantity : Amounts, status : AllocationStatuses]

VARIABLES
  status,       \* requests.status, or Absent
  approved,     \* request_line_items.quantity_approved
  allocation,   \* the request's request_allocations, by id
  today,
  kitchen,      \* lots at the kitchen
  branch,       \* units at each branch, in its undated unbatched row
  call          \* the call each thread is serving

requestVars == <<status, approved, allocation>>
stockVars == <<kitchen, branch>>
vars == <<requestVars, today, stockVars, call>>

Moves ==
  [kind : {"allocate", "dispatch", "reject"}, req : Requests,
   split : Splits \cup {<<>>}]
\* A receipt in progress: "written" when its rows are locked and changed, and
\* then "last" when it counted nothing outstanding but its own delivery.
Receipts ==
  [kind : {"receive"}, req : Requests, i : Nat,
   phase : {"loaded", "written", "counted"}, last : BOOLEAN]

TypeOK ==
  /\ status \in [Requests -> Statuses \cup {Absent}]
  /\ approved \in [Requests -> [Lines -> Nat \cup {Null}]]
  /\ allocation \in [Requests -> Seq(AllocationRows)]
  /\ today \in Days
  /\ kitchen \in [Products -> Bins]
  /\ branch \in [Branches -> [Products -> Nat]]
  /\ call \in [Threads -> Moves \cup Receipts \cup {Idle}]

Init ==
  /\ status = [r \in Requests |-> Absent]
  /\ approved = [r \in Requests |-> [l \in Lines |-> Null]]
  /\ allocation = [r \in Requests |-> <<>>]
  /\ today = 1
  /\ kitchen = InitStock
  /\ branch = [b \in Branches |-> [p \in Products |-> 0]]
  /\ call = [t \in Threads |-> Idle]

--------------------------------------------------------------------------------
(* Sums over a document *)

LinesOf(r, p) == {l \in Lines : Doc[r].product[l] = p}

\* The total of the slices of a line.
LastSlice(split, l) ==
  LET own == {i \in DOMAIN split : split[i].line = l}
  IN IF own = {} THEN 0
     ELSE split[CHOOSE i \in own : \A j \in own : j <= i].quantity
SplitTotal(split, l) ==
  SumOver([i \in DOMAIN split |-> split[i].quantity],
          {i \in DOMAIN split : split[i].line = l})

\* What a dispatch debits: never the requested quantity of a line without a slice.
WantedOf(r, p) ==
  SumOver([l \in Lines |-> IF approved[r][l] = Null THEN 0 ELSE approved[r][l]],
          LinesOf(r, p))

--------------------------------------------------------------------------------
(* The kitchen announces a batch *)

\* create_request with _validate_dispatch_notification_stock: each product's
\* total is on hand, expired lots included, and nothing is reserved.
CreateRequest(r) ==
  /\ status[r] = Absent
  /\ \A p \in Products :
       SumOver(Doc[r].requested, LinesOf(r, p)) <= Total(kitchen[p])
  /\ status' = [status EXCEPT ![r] = "PENDING"]
  /\ UNCHANGED <<approved, allocation, today, stockVars, call>>

--------------------------------------------------------------------------------
(* allocate, dispatch, and the refusal through transition() *)

Fits(r, split) ==
  \A l \in Lines : SplitTotal(split, l) <= Doc[r].requested[l]

LoadAllocate(t, r) ==
  /\ call[t] = Idle
  /\ status[r] = "PENDING"
  /\ \E split \in Splits :
       /\ Fits(r, split)
       /\ call' = [call EXCEPT ![t] = [kind |-> "allocate", req |-> r,
                                       split |-> split]]
  /\ UNCHANGED <<requestVars, today, stockVars>>

LoadDispatch(t, r) ==
  /\ call[t] = Idle
  /\ status[r] = "ALLOCATED"
  /\ call' = [call EXCEPT ![t] = [kind |-> "dispatch", req |-> r, split |-> <<>>]]
  /\ UNCHANGED <<requestVars, today, stockVars>>

LoadReject(t, r) ==
  /\ call[t] = Idle
  /\ status[r] = "PENDING"
  /\ call' = [call EXCEPT ![t] = [kind |-> "reject", req |-> r, split |-> <<>>]]
  /\ UNCHANGED <<requestVars, today, stockVars>>

\* _compare_and_set
NoCompareAndSet(r, from) == status[r] # "RECEIVED"
CompareAndSet(r, from) == status[r] = from

Rows(split) ==
  [i \in DOMAIN split |-> [line |-> split[i].line, branch |-> split[i].branch,
                           quantity |-> split[i].quantity, status |-> "ALLOCATED"]]

\* The allocations, each named line's total, and the status.
CommitAllocate(t) ==
  LET h == call[t]
      r == h.req
      named == {h.split[i].line : i \in DOMAIN h.split}
  IN /\ h # Idle
     /\ h.kind = "allocate"
     /\ CompareAndSet(r, "PENDING")
     /\ status' = [status EXCEPT ![r] = "ALLOCATED"]
     /\ allocation' = [allocation EXCEPT ![r] = @ \o Rows(h.split)]
     /\ approved' = [approved EXCEPT ![r] =
          [l \in Lines |-> IF l \in named THEN SplitTotal(h.split, l) ELSE @[l]]]
     /\ call' = [call EXCEPT ![t] = Idle]
     /\ UNCHANGED <<today, stockVars>>

NotFlipped(rows) == rows
Flipped(rows) ==
  [i \in DOMAIN rows |-> [rows[i] EXCEPT !.status = "DISPATCHED"]]

\* The approved totals leave first-expired-first-out, all of them or none, and
\* every allocation goes out together.
CommitDispatch(t) ==
  LET h == call[t]
      r == h.req
  IN /\ h # Idle
     /\ h.kind = "dispatch"
     /\ CompareAndSet(r, "ALLOCATED")
     /\ \A p \in Products : FefoDraws(kitchen[p], WantedOf(r, p), today) # {}
     /\ kitchen' = [p \in Products |->
          Minus(kitchen[p], FefoTake(kitchen[p], WantedOf(r, p), today))]
     /\ allocation' = [allocation EXCEPT ![r] = Flipped(@)]
     /\ status' = [status EXCEPT ![r] = "DISPATCHED"]
     /\ call' = [call EXCEPT ![t] = Idle]
     /\ UNCHANGED <<approved, today, branch>>

CommitReject(t) ==
  LET h == call[t]
  IN /\ h # Idle
     /\ h.kind = "reject"
     /\ CompareAndSet(h.req, "PENDING")
     /\ status' = [status EXCEPT ![h.req] = "REJECTED"]
     /\ call' = [call EXCEPT ![t] = Idle]
     /\ UNCHANGED <<approved, allocation, today, stockVars>>

--------------------------------------------------------------------------------
(* receive_allocation *)

Row(h) == allocation[h.req][h.i]
ProductOf(h) == Doc[h.req].product[Row(h).line]
Receiving(t) == call[t] # Idle /\ call[t].kind = "receive"
Uncommitted(t) == Receiving(t) /\ call[t].phase # "loaded"

LoadReceive(t, r, i) ==
  /\ call[t] = Idle
  /\ allocation[r][i].status = "DISPATCHED"
  /\ call' = [call EXCEPT ![t] = [kind |-> "receive", req |-> r, i |-> i,
                                  phase |-> "loaded", last |-> FALSE]]
  /\ UNCHANGED <<requestVars, today, stockVars>>

\* receive_stock locks the branch's row of the product to the end, then the
\* allocation is flipped behind a compare-and-set of its own.
ReceivedAnyhow(h) == TRUE
NotReceivedYet(h) == Row(h).status = "DISPATCHED"
Unlocked(h) ==
  \A u \in Threads : Uncommitted(u) =>
    <<Row(call[u]).branch, ProductOf(call[u])>> # <<Row(h).branch, ProductOf(h)>>

WriteReceive(t) ==
  /\ Receiving(t)
  /\ call[t].phase = "loaded"
  /\ Unlocked(call[t])
  /\ NotReceivedYet(call[t])
  /\ call' = [call EXCEPT ![t].phase = "written"]
  /\ UNCHANGED <<requestVars, today, stockVars>>

\* The count sees what is committed and its own row, not another's open write.
OnlyUnshipped(h) ==
  {i \in DOMAIN allocation[h.req] : allocation[h.req][i].status = "ALLOCATED"}
Outstanding(h) ==
  {i \in DOMAIN allocation[h.req] :
     i # h.i /\ allocation[h.req][i].status # "RECEIVED"}

CountOutstanding(t) ==
  /\ Receiving(t)
  /\ call[t].phase = "written"
  /\ call' = [call EXCEPT ![t].phase = "counted",
                          ![t].last = Outstanding(call[t]) = {}]
  /\ UNCHANGED <<requestVars, today, stockVars>>

\* The branch is credited without batch or expiry; the last one in rolls the
\* request up.
CommitReceive(t) ==
  LET h == call[t]
  IN /\ Receiving(t)
     /\ h.phase = "counted"
     /\ allocation' = [allocation EXCEPT ![h.req][h.i].status = "RECEIVED"]
     /\ branch' = [branch EXCEPT ![Row(h).branch][ProductOf(h)] = @ + Row(h).quantity]
     /\ status' = IF h.last /\ status[h.req] = "DISPATCHED"
                  THEN [status EXCEPT ![h.req] = "RECEIVED"]
                  ELSE status
     /\ call' = [call EXCEPT ![t] = Idle]
     /\ UNCHANGED <<approved, today, kitchen>>

\* Refused at a compare-and-set or for short stock, or lost with its process.
GiveUp(t) ==
  /\ call[t] # Idle
  /\ call' = [call EXCEPT ![t] = Idle]
  /\ UNCHANGED <<requestVars, today, stockVars>>

NextDay ==
  /\ today < LastDay
  /\ today' = today + 1
  /\ UNCHANGED <<requestVars, stockVars, call>>

Next ==
  \/ \E r \in Requests : CreateRequest(r)
  \/ \E t \in Threads, r \in Requests :
       LoadAllocate(t, r) \/ LoadDispatch(t, r) \/ LoadReject(t, r)
  \/ \E t \in Threads, r \in Requests : \E i \in DOMAIN allocation[r] :
       LoadReceive(t, r, i)
  \/ \E t \in Threads :
       \/ CommitAllocate(t) \/ CommitDispatch(t) \/ CommitReject(t)
       \/ WriteReceive(t) \/ CountOutstanding(t) \/ CommitReceive(t)
       \/ GiveUp(t)
  \/ NextDay

Spec == Init /\ [][Next]_vars

--------------------------------------------------------------------------------
(* Properties *)

AllocatedOf(r, l) ==
  SumOver([i \in DOMAIN allocation[r] |-> allocation[r][i].quantity],
          {i \in DOMAIN allocation[r] : allocation[r][i].line = l})

\* Two admins who split the same batch at once cannot hand out more of a line
\* than the kitchen has ready, nor split a batch that was refused.
SplitWithinReady ==
  \A r \in Requests :
    /\ \A l \in Lines : AllocatedOf(r, l) <= Doc[r].requested[l]
    /\ status[r] \in {"PENDING", "REJECTED"} => allocation[r] = <<>>

\* What the dispatch takes from the kitchen for a line is what its allocations
\* hand out, and nothing when it has none: no branch waits for goods that never
\* left, and nothing leaves that no branch will get.
ApprovedIsAllocated ==
  \A r \in Requests, l \in Lines :
    approved[r][l] = IF \E i \in DOMAIN allocation[r] : allocation[r][i].line = l
                     THEN AllocatedOf(r, l) ELSE Null

\* The deliveries of a batch leave together, and none is confirmed before.
LeavesAsOne ==
  \A r \in Requests : \A i \in DOMAIN allocation[r] :
    CASE status[r] = "ALLOCATED" -> allocation[r][i].status = "ALLOCATED"
      [] status[r] = "DISPATCHED" ->
           allocation[r][i].status \in {"DISPATCHED", "RECEIVED"}
      [] OTHER -> TRUE

\* A request says RECEIVED only when every branch has its goods.
RolledUpMeansAllReceived ==
  \A r \in Requests : status[r] = "RECEIVED" =>
    \A i \in DOMAIN allocation[r] : allocation[r][i].status = "RECEIVED"

OnTheWay(p) ==
  SumOver([r \in Requests |->
             SumOver([i \in DOMAIN allocation[r] |-> allocation[r][i].quantity],
                     {i \in DOMAIN allocation[r] :
                        /\ allocation[r][i].status = "DISPATCHED"
                        /\ Doc[r].product[allocation[r][i].line] = p})],
          Requests)
AtBranches(p) == SumOver([b \in Branches |-> branch[b][p]], Branches)

\* Nothing is delivered twice or lost between the kitchen and the branches,
\* however often a delivery is confirmed.
Conservation ==
  \A p \in Products :
    Total(kitchen[p]) + OnTheWay(p) + AtBranches(p) = Total(InitStock[p])

\* The docstring of receive_allocation: when the last outstanding allocation
\* lands, the request rolls up to RECEIVED.
LastDeliveryRollsUp ==
  \A r \in Requests : status[r] = "DISPATCHED" =>
    \E i \in DOMAIN allocation[r] : allocation[r][i].status # "RECEIVED"

================================================================================
