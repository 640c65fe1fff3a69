--------------------------- MODULE RequestWorkflow ---------------------------
(***************************************************************************)
(* The requisition engine: RequestService of app/services/requests.py over  *)
(* the tables of app/services/transitions.py, with the stock each status    *)
(* change moves.                                                            *)
(*                                                                         *)
(* Every handler runs on a database session of its own at READ COMMITTED.   *)
(* It loads the request and its lines once, decides on that view, and then  *)
(* writes in one transaction whose first statement is the compare-and-set   *)
(* of the status; from there on its row locks keep others out.  So a        *)
(* handler is two steps, Load... and Commit..., and other handlers run in   *)
(* between.  A refused handler changes nothing and is not a step.           *)
(***************************************************************************)
EXTENDS Transitions, StockLots

CONSTANTS
  Requests,     \* requests by their offline-minted local_id
  Lines,        \* line items of a request
  Products,
  Kitchens, Warehouses, Branches,
  Doc,          \* what each request asks for: type, source, resaleOnly, lines
  InitStock,    \* stock on hand at the start
  Threads,      \* server threads handling a call
  Idle,         \* a thread without a call
  NoTarget,     \* a request routed nowhere yet
  Absent,       \* a request not yet created
  Null,         \* a quantity nobody has entered
  MaxQuantity,  \* bound on the quantity of a line
  Reroutes      \* locations a call may name as the new target

Locations == Kitchens \cup Warehouses \cup Branches
Amounts == 0 .. MaxQuantity
Quantities == Amounts \cup {Null}

LineRows == [approved : Quantities, received : Quantities, produced : BOOLEAN]
NewLine == [approved |-> Null, received |-> Null, produced |-> FALSE]

ASSUME DocAssumption ==
  Doc \in [Requests -> [type : RequestTypes, source : Locations,
                        resaleOnly : BOOLEAN,
                        product : [Lines -> Products],
                        requested : [Lines -> Amounts \ {0}]]]
ASSUME StockAssumption == InitStock \in [Locations -> [Products -> Bins]]
ASSUME MarkerAssumption ==
  /\ Absent \notin Statuses
  /\ NoTarget \notin Locations
  /\ Null \notin Amounts
ASSUME BoundAssumption == MaxQuantity \in Nat /\ Reroutes \subseteq Locations
ASSUME FiniteAssumption ==
  IsFiniteSet(Requests) /\ IsFiniteSet(Lines) /\ IsFiniteSet(Locations)

VARIABLES
  status,       \* requests.status, or Absent
  target,       \* requests.target_location_*
  line,         \* request_line_items
  hasKitchen,   \* restaurants.has_central_kitchen
  today,
  stock,        \* inventory rows
  debit,        \* DISPATCH movements carrying the request's id, by lot
  credit,       \* RECEIPT movements carrying the request's id, by lot
  call          \* what each thread read and intends to write

requestVars == <<status, target, line>>
stockVars == <<stock, debit, credit>>
vars == <<requestVars, hasKitchen, today, stockVars, call>>

Type(r) == Doc[r].type
Targets == Locations \cup {NoTarget}
NoGoods == [p \in Products |-> EmptyBin]

\* The view a handler works on.  "lot" is where received goods are booked.
Calls ==
  [kind : {"transition", "mark"}, req : Requests, from : Statuses,
   to : Statuses, seen : [Lines -> LineRows], lines : [Lines -> LineRows],
   seenTarget : Targets, target : Targets, lot : Lots]

RequestsTypeOK ==
  /\ status \in [Requests -> Statuses \cup {Absent}]
  /\ target \in [Requests -> Targets]
  /\ line \in [Requests -> [Lines -> LineRows]]
  /\ hasKitchen \in BOOLEAN
  /\ today \in Days
  /\ call \in [Threads -> Calls \cup {Idle}]
StockTypeOK ==
  /\ stock \in [Locations -> [Products -> Bins]]
  /\ debit \in [Requests -> [Products -> Bins]]
  /\ credit \in [Requests -> [Products -> Bins]]
TypeOK == RequestsTypeOK /\ StockTypeOK

Init ==
  /\ status = [r \in Requests |-> Absent]
  /\ target = [r \in Requests |-> NoTarget]
  /\ line = [r \in Requests |-> [l \in Lines |-> NewLine]]
  /\ hasKitchen \in BOOLEAN
  /\ today = 1
  /\ stock = InitStock
  /\ debit = [r \in Requests |-> NoGoods]
  /\ credit = [r \in Requests |-> NoGoods]
  /\ call = [t \in Threads |-> Idle]

--------------------------------------------------------------------------------
(* Quantities of a line *)

\* _approved_quantity
Approved(r, rows, l) ==
  IF rows[l].approved = Null THEN Doc[r].requested[l] ELSE rows[l].approved

\* What a purchase order books for a line: the count, or what was approved.
Counted(r, rows, l) ==
  IF rows[l].received = Null THEN Approved(r, rows, l) ELSE rows[l].received

LinesOf(r, p) == {l \in Lines : Doc[r].product[l] = p}
ApprovedOf(r, rows, p) ==
  SumOver([l \in Lines |-> Approved(r, rows, l)], LinesOf(r, p))
RequestedOf(r, rows, p) == SumOver(Doc[r].requested, LinesOf(r, p))
CountedOf(r, rows, p) ==
  SumOver([l \in Lines |-> Counted(r, rows, l)], LinesOf(r, p))

--------------------------------------------------------------------------------
(* Creating a request *)

\* Where the creating portal may route a new request.
InitialTargets(r) ==
  CASE Type(r) = "KITCHEN_TO_WAREHOUSE" -> Warehouses
    [] Type(r) = "BRANCH_TO_ADMIN" /\ hasKitchen ->
         Kitchens \cup Warehouses \cup {NoTarget}
    [] Type(r) = "BRANCH_TO_ADMIN" /\ ~hasKitchen -> Warehouses
    [] OTHER -> {NoTarget}

\* create_request.  The unique local_id makes every replay return the row that
\* is already there.
CreateRequest(r) ==
  /\ status[r] = Absent
  /\ \E place \in InitialTargets(r) : target' = [target EXCEPT ![r] = place]
  /\ status' = [status EXCEPT ![r] = "PENDING"]
  /\ UNCHANGED <<line, hasKitchen, today, stockVars, call>>

--------------------------------------------------------------------------------
(* Loading: everything a handler checks before it writes *)

\* user_can_view_request, by role.
CanView(role, r) ==
  CASE role = "SUPER_ADMIN" -> Type(r) = "ADMIN_TO_SUPERADMIN_PLAN"
    [] role = "ADMIN" -> TRUE
    [] role = "WAREHOUSE_MANAGER" ->
         \/ Type(r) \in {"WAREHOUSE_TO_ADMIN_PO", "KITCHEN_TO_WAREHOUSE"}
         \/ Type(r) = "BRANCH_TO_ADMIN" /\ target[r] \in Warehouses
    [] role = "KITCHEN_MANAGER" ->
         \/ Type(r) = "KITCHEN_TO_WAREHOUSE"
         \/ /\ Type(r) = "BRANCH_TO_ADMIN"
            /\ status[r] \in {"FORWARDED_TO_KITCHEN", "IN_PRODUCTION",
                              "PRODUCED", "DISPATCHED", "RECEIVED"}
            /\ target[r] \in Kitchens
         \/ Type(r) = "KITCHEN_TO_ADMIN"
    [] role = "BRANCH_MANAGER" -> Type(r) = "BRANCH_TO_ADMIN"

\* _apply_line_approvals: no line above what was asked for, and a partial
\* approval cuts at least one line.
ApprovedRowsUnbounded(r, to) ==
  {[l \in Lines |-> [line[r][l] EXCEPT !.approved = give[l]]] :
     give \in [Lines -> Amounts]}
ApprovedRows(r, to) ==
  {[l \in Lines |-> [line[r][l] EXCEPT !.approved = give[l]]] :
     give \in {q \in [Lines -> Amounts] :
                 /\ \A l \in Lines : q[l] <= Doc[r].requested[l]
                 /\ to = "PARTIALLY_APPROVED"
                      => \E l \in Lines : q[l] < Doc[r].requested[l]}}

\* _apply_line_receipts: a count for at least one line, none above what was
\* approved.  A report also needs a difference or an issue note; the note is
\* free text, so any count may be reported.
ReceivedRowsUnbounded(r) ==
  {[l \in Lines |-> [line[r][l] EXCEPT !.received = count[l]]] :
     count \in [Lines -> Amounts]}
ReceivedRows(r) ==
  UNION {{[l \in Lines |-> IF l \in listed
                           THEN [line[r][l] EXCEPT !.received = count[l]]
                           ELSE line[r][l]] :
            count \in {q \in [listed -> Amounts] :
                         \A l \in listed : q[l] <= Approved(r, line[r], l)}} :
         listed \in (SUBSET Lines) \ {{}}}

RowsAfter(r, to) ==
  IF Type(r) # "KITCHEN_TO_ADMIN" /\ to \in ApprovalStatuses
  THEN ApprovedRows(r, to)
  ELSE IF Type(r) = "WAREHOUSE_TO_ADMIN_PO" /\ to \in {"REPORTED", "RECEIVED"}
       THEN ReceivedRows(r)
       ELSE {line[r]}

\* _apply_routing_target: forwarding needs a kitchen, named now or before.
TargetsAfter(r, to) ==
  IF Type(r) = "BRANCH_TO_ADMIN" /\ to = "FORWARDED_TO_KITCHEN"
  THEN ({target[r]} \cup Reroutes) \cap Kitchens
  ELSE {target[r]} \cup Reroutes

\* The read-only gates before PRODUCED: every line ticked, and enough
\* dispatchable stock at the kitchen for each product's total.
CoverGateOnly(r, rows, kitchen) ==
  /\ kitchen \in Kitchens
  /\ \A p \in Products :
       ApprovedOf(r, rows, p) <= Available(stock[kitchen][p], today)
ProducedGate(r, rows, kitchen) ==
  /\ \A l \in Lines : Approved(r, rows, l) > 0 => rows[l].produced
  /\ kitchen \in Kitchens
  /\ \A p \in Products :
       ApprovedOf(r, rows, p) <= Available(stock[kitchen][p], today)

\* The first half of transition().
LoadTransition(t, r, to, role) ==
  /\ call[t] = Idle
  /\ status[r] # Absent
  /\ CanView(role, r)
  /\ ValidTransition(Type(r), status[r], to, hasKitchen, Doc[r].resaleOnly)
  /\ MayTransition(role, Type(r), to, hasKitchen)
  /\ \E rows \in RowsAfter(r, to), place \in TargetsAfter(r, to), lot \in Lots :
       /\ Type(r) = "BRANCH_TO_ADMIN" /\ to = "PRODUCED"
            => ProducedGate(r, rows, place)
       \* Batch and expiry are read only when a purchase order is received.
       /\ ~(Type(r) = "WAREHOUSE_TO_ADMIN_PO" /\ to = "RECEIVED")
            => lot = UnbatchedLot
       /\ call' = [call EXCEPT ![t] =
            [kind |-> "transition", req |-> r, from |-> status[r], to |-> to,
             seen |-> line[r], lines |-> rows,
             seenTarget |-> target[r], target |-> place, lot |-> lot]]
  /\ UNCHANGED <<requestVars, hasKitchen, today, stockVars>>

\* The first half of mark_line_produced(); a ticked line is a no-op.
LoadMarkLine(t, r, l) ==
  /\ call[t] = Idle
  /\ Type(r) = "BRANCH_TO_ADMIN"
  /\ status[r] = "IN_PRODUCTION"
  /\ CanView("KITCHEN_MANAGER", r)
  /\ ~line[r][l].produced
  /\ call' = [call EXCEPT ![t] =
       [kind |-> "mark", req |-> r, from |-> status[r], to |-> status[r],
        seen |-> line[r], lines |-> [line[r] EXCEPT ![l].produced = TRUE],
        seenTarget |-> target[r], target |-> target[r], lot |-> UnbatchedLot]]
  /\ UNCHANGED <<requestVars, hasKitchen, today, stockVars>>

--------------------------------------------------------------------------------
(* Committing: compare-and-set, the changed columns, the stock *)

\* _compare_and_set: nobody moved the request since this handler read it.
NoCompareAndSet(h) == TRUE
StatusUnchanged(h) == status[h.req] = h.from

\* The session writes only the columns it changed since it loaded them.
Merge(now, seen, mine) == IF mine = seen THEN now ELSE mine

MergedRows(h) ==
  [l \in Lines |->
    [approved |-> Merge(line[h.req][l].approved,
                        h.seen[l].approved, h.lines[l].approved),
     received |-> Merge(line[h.req][l].received,
                        h.seen[l].received, h.lines[l].received),
     produced |-> Merge(line[h.req][l].produced,
                        h.seen[l].produced, h.lines[l].produced)]]

Ships(h) ==
  /\ Type(h.req) \in {"KITCHEN_TO_WAREHOUSE", "BRANCH_TO_ADMIN"}
  /\ h.to = "DISPATCHED"
Delivers(h) ==
  /\ Type(h.req) \in {"KITCHEN_TO_WAREHOUSE", "BRANCH_TO_ADMIN"}
  /\ h.to = "RECEIVED"
BooksPurchase(h) ==
  Type(h.req) = "WAREHOUSE_TO_ADMIN_PO" /\ h.to = "RECEIVED"

DispatchSources(r) ==
  IF Type(r) = "KITCHEN_TO_WAREHOUSE" THEN Warehouses ELSE Kitchens \cup Warehouses

\* _dispatch_from: the lines draw one after another on live stock, which is
\* one draw of each product's total, all or nothing.
Ship(h) ==
  LET from == h.target
      wanted == [p \in Products |-> ApprovedOf(h.req, h.lines, p)]
      take == [p \in Products |-> FefoTake(stock[from][p], wanted[p], today)]
  IN /\ from \in DispatchSources(h.req)
     /\ \A p \in Products : FefoDraws(stock[from][p], wanted[p], today) # {}
     /\ stock' = [stock EXCEPT ![from] =
                    [p \in Products |-> Minus(stock[from][p], take[p])]]
     /\ debit' = [debit EXCEPT ![h.req] =
                    [p \in Products |-> Plus(debit[h.req][p], take[p])]]
     /\ UNCHANGED credit

\* _receive_into: replay the DISPATCH movements of the request into its source.
Replayed(r) ==
  [p \in Products |->
     IF Doc[r].source \in Branches THEN WithoutBatch(debit[r][p]) ELSE debit[r][p]]

Book(r, goods) ==
  LET place == Doc[r].source
  IN /\ stock' = [stock EXCEPT ![place] =
                    [p \in Products |-> Plus(stock[place][p], goods[p])]]
     /\ credit' = [credit EXCEPT ![r] =
                    [p \in Products |-> Plus(credit[r][p], goods[p])]]
     /\ UNCHANGED debit

DeliverRequested(h) ==
  Book(h.req, [p \in Products |->
                 PutIn(EmptyBin, UnbatchedLot, RequestedOf(h.req, h.lines, p))])
Deliver(h) == Book(h.req, Replayed(h.req))

\* _warehouse_receives_po: what was counted, or approved where no count exists.
BookPurchase(h) ==
  Book(h.req, [p \in Products |->
                 PutIn(EmptyBin, h.lot, CountedOf(h.req, h.lines, p))])

\* _INVENTORY_SIDE_EFFECTS
MoveStock(h) ==
  \/ Ships(h) /\ Ship(h)
  \/ Delivers(h) /\ Deliver(h)
  \/ BooksPurchase(h) /\ BookPurchase(h)
  \/ /\ ~Ships(h) /\ ~Delivers(h) /\ ~BooksPurchase(h)
     /\ UNCHANGED stockVars

\* The second half of transition(): one transaction behind the compare-and-set.
CommitTransition(t) ==
  LET h == call[t]
  IN /\ h # Idle
     /\ h.kind = "transition"
     /\ StatusUnchanged(h)
     /\ status' = [status EXCEPT ![h.req] = h.to]
     /\ line' = [line EXCEPT ![h.req] = MergedRows(h)]
     /\ target' = [target EXCEPT ![h.req] = Merge(@, h.seenTarget, h.target)]
     /\ MoveStock(h)
     /\ call' = [call EXCEPT ![t] = Idle]
     /\ UNCHANGED <<hasKitchen, today>>

\* The second half of mark_line_produced(): the flag, whatever the status now.
CommitMarkLine(t) ==
  LET h == call[t]
  IN /\ h # Idle
     /\ h.kind = "mark"
     /\ line' = [line EXCEPT ![h.req] = MergedRows(h)]
     /\ call' = [call EXCEPT ![t] = Idle]
     /\ UNCHANGED <<status, target, hasKitchen, today, stockVars>>

\* Refused (stale status, short stock) or lost with its process: rolled back.
GiveUp(t) ==
  /\ call[t] # Idle
  /\ call' = [call EXCEPT ![t] = Idle]
  /\ UNCHANGED <<requestVars, hasKitchen, today, stockVars>>

--------------------------------------------------------------------------------
(* The surroundings *)

\* update_restaurant: enabling a kitchen is unconditional, mid-flow or not.
EnableKitchen ==
  /\ ~hasKitchen
  /\ hasKitchen' = TRUE
  /\ UNCHANGED <<requestVars, today, stockVars, call>>

NextDay ==
  /\ today < LastDay
  /\ today' = today + 1
  /\ UNCHANGED <<requestVars, hasKitchen, stockVars, call>>

Next ==
  \/ \E r \in Requests : CreateRequest(r)
  \/ \E t \in Threads, r \in Requests, to \in Statuses, role \in Roles :
       LoadTransition(t, r, to, role)
  \/ \E t \in Threads, r \in Requests, l \in Lines : LoadMarkLine(t, r, l)
  \/ \E t \in Threads : CommitTransition(t) \/ CommitMarkLine(t) \/ GiveUp(t)
  \/ EnableKitchen
  \/ NextDay

Spec == Init /\ [][Next]_vars

--------------------------------------------------------------------------------
(* Properties *)

MovesStock(r) == Type(r) \in {"KITCHEN_TO_WAREHOUSE", "BRANCH_TO_ADMIN"}
Shipped(r) == MovesStock(r) /\ status[r] \in {"DISPATCHED", "RECEIVED"}

\* Stock leaves with DISPATCHED and arrives with RECEIVED, never apart from the
\* status and never twice: a request whose status has not reached the movement
\* has none in the ledger, however many handlers raced for it.
MovementsFollowStatus ==
  \A r \in Requests :
    /\ ~Shipped(r) => debit[r] = NoGoods
    /\ status[r] # "RECEIVED" => credit[r] = NoGoods

\* What left is what the committed lines say was approved, product by product:
\* no handler working on an old view shipped another quantity.
ShippedWhatWasApproved ==
  \A r \in Requests : Shipped(r) =>
    \A p \in Products : Total(debit[r][p]) = ApprovedOf(r, line[r], p)

\* A kitchen is credited from the lots that left the warehouse, batch by batch
\* and expiry by expiry, not from the document (_receive_into).
DeliveryKeepsLots ==
  \A r \in Requests :
    MovesStock(r) /\ status[r] = "RECEIVED" /\ Doc[r].source \notin Branches =>
      credit[r] = debit[r]

\* A branch keeps no batch codes, but it is credited the units that left under
\* each expiry day, so its first-expired-first-out order survives the delivery.
DeliveryKeepsExpiries ==
  \A r \in Requests, p \in Products, e \in Days \cup {Undated} :
    MovesStock(r) /\ status[r] = "RECEIVED" /\ Doc[r].source \in Branches =>
      LET dated == {lot \in Lots : lot.expiry = e}
      IN /\ SumOver(credit[r][p], dated) = SumOver(debit[r][p], dated)
         /\ \A lot \in dated : lot.batch # NoBatch => credit[r][p][lot] = 0

InTransit(p) ==
  SumOver([r \in Requests |-> Total(debit[r][p])],
          {r \in Requests : MovesStock(r) /\ status[r] = "DISPATCHED"})
Purchased(p) ==
  SumOver([r \in Requests |-> Total(credit[r][p])],
          {r \in Requests : Type(r) = "WAREHOUSE_TO_ADMIN_PO"})
OnHand(p, bins) ==
  SumOver([place \in Locations |-> Total(bins[place][p])], Locations)

\* Requests move goods and never make or lose them: on hand everywhere plus in
\* transit is what there was plus what purchase orders brought in.
Conservation ==
  \A p \in Products :
    OnHand(p, stock) + InTransit(p) = OnHand(p, InitStock) + Purchased(p)

\* A branch request says PRODUCED only when every line worth producing is
\* ticked, also when ticks and approvals race with the transition.
ProducedMeansTicked ==
  \A r \in Requests :
    Type(r) = "BRANCH_TO_ADMIN" /\ status[r] = "PRODUCED" =>
      \A l \in Lines : Approved(r, line[r], l) > 0 => line[r][l].produced

\* Nothing is approved above the request or counted above the approval.
QuantitiesShrink ==
  \A r \in Requests, l \in Lines :
    /\ line[r][l].approved # Null
         => line[r][l].approved <= Doc[r].requested[l]
    /\ line[r][l].received # Null
         => line[r][l].received <= Approved(r, line[r], l)

\* A purchase order never books more than was approved (and, by
\* MovementsFollowStatus, nothing across a report and resolve round trip).
PurchaseWithinApproval ==
  \A r \in Requests : Type(r) = "WAREHOUSE_TO_ADMIN_PO" =>
    \A p \in Products : Total(credit[r][p]) <= ApprovedOf(r, line[r], p)

\* Approved quantities are settled once: after the approval no later handler,
\* however stale its view, writes them again.
ApprovalIsFinal ==
  [][\A r \in Requests : status[r] \notin {Absent, "PENDING"} =>
       \A l \in Lines : line'[r][l].approved = line[r][l].approved]_vars

\* The docstring of _warehouse_receives_po: a received purchase order credits
\* quantity_received, what the warehouse confirmed actually arrived.
PurchaseCreditsTheCount ==
  \A r \in Requests :
    Type(r) = "WAREHOUSE_TO_ADMIN_PO" /\ status[r] = "RECEIVED" =>
      \A p \in Products : Total(credit[r][p]) = CountedOf(r, line[r], p)

================================================================================
