------------------------- MODULE RequestWorkflow_proofs -------------------------
(***************************************************************************)
(* What RequestWorkflow guarantees for any number of requests, lines,       *)
(* products, locations and threads.  The statuses are a finite table, so    *)
(* every fact about it is one case analysis (EdgeFacts); the rest is what   *)
(* a handler in flight still knows about the request it read (CallsOK),     *)
(* and what one booking does to the sums over places and requests.          *)
(***************************************************************************)
EXTENDS RequestWorkflow, StockLots_proofs

--------------------------------------------------------------------------------
(* The inductive invariant *)

\* An edge of some table of the type, whatever the tenant and the goods.
Edge(type, from, to) ==
  \E on, resale \in BOOLEAN : ValidTransition(type, from, to, on, resale)

\* What a handler that read a request can rely on when it commits.
SeesCreated(h) == status[h.req] # Absent
SeesApproval(h) ==
  IF h.from = "PENDING"
  THEN \A l \in Lines : h.seen[l] = NewLine
  ELSE /\ status[h.req] # "PENDING"
       /\ \A l \in Lines : h.seen[l].approved = line[h.req][l].approved
SeesTicks(h) ==
  \A l \in Lines : /\ h.seen[l].produced => line[h.req][l].produced
                   /\ h.seen[l].produced => h.lines[l].produced

\* What its own changes satisfy.
FollowsTable(h) ==
  IF h.kind = "mark"
  THEN h.from = "IN_PRODUCTION" /\ h.to = "IN_PRODUCTION"
  ELSE Edge(Type(h.req), h.from, h.to)
ApprovesOnce(h) ==
  \A l \in Lines :
    /\ h.from # "PENDING" => h.lines[l].approved = h.seen[l].approved
    /\ h.from = "PENDING" => h.lines[l].received = Null
WithinBounds(h) ==
  \A l \in Lines :
    /\ h.lines[l].approved # Null
         => h.lines[l].approved <= Doc[h.req].requested[l]
    /\ h.lines[l].received # Null
         => h.lines[l].received <= Approved(h.req, h.lines, l)
TickedBeforeProduced(h) ==
  Type(h.req) = "BRANCH_TO_ADMIN" /\ h.to = "PRODUCED" =>
    \A l \in Lines : Approved(h.req, h.lines, l) > 0 => h.lines[l].produced

CallOK(h) ==
  /\ SeesCreated(h) /\ SeesApproval(h) /\ SeesTicks(h)
  /\ FollowsTable(h) /\ ApprovesOnce(h) /\ WithinBounds(h)
  /\ TickedBeforeProduced(h)
CallsOK == \A t \in Threads : call[t] # Idle => CallOK(call[t])

\* Nothing is approved, counted or ticked on a request still pending.
PendingIsUntouched ==
  \A r \in Requests : status[r] \in {Absent, "PENDING"} =>
    \A l \in Lines : line[r][l] = NewLine

RequestsInv ==
  /\ RequestsTypeOK
  /\ PendingIsUntouched
  /\ CallsOK
  /\ QuantitiesShrink
  /\ ProducedMeansTicked

StockInv ==
  /\ debit \in [Requests -> [Products -> Bins]]
  /\ credit = [r \in Requests |-> credit[r]]
  /\ MovementsFollowStatus
  /\ ShippedWhatWasApproved
  /\ DeliveryKeepsLots

--------------------------------------------------------------------------------
(* Facts about the tables *)

\* No edge leads back to PENDING or out of RECEIVED, approvals happen only on
\* pending requests, and shipped goods have one way to go.
LEMMA EdgeFacts ==
  ASSUME NEW type \in RequestTypes, NEW from, NEW to, Edge(type, from, to)
  PROVE  /\ to \in Statuses /\ from \in Statuses
         /\ to # "PENDING"
         /\ from # "RECEIVED"
         /\ to \in ApprovalStatuses => from = "PENDING"
         /\ from = "PENDING" => to \in ApprovalStatuses \cup {"REJECTED"}
         /\ type \in {"KITCHEN_TO_WAREHOUSE", "BRANCH_TO_ADMIN"} =>
              (from = "DISPATCHED" <=> to = "RECEIVED")
<1>1. CASE type = "KITCHEN_TO_WAREHOUSE"
  BY <1>1 DEF Edge, ValidTransition, TransitionsFor, ALLOWED_TRANSITIONS, Edges,
              ApprovalStatuses, Statuses
<1>2. CASE type = "WAREHOUSE_TO_ADMIN_PO"
  BY <1>2 DEF Edge, ValidTransition, TransitionsFor, ALLOWED_TRANSITIONS, Edges,
              ApprovalStatuses, Statuses
<1>3. CASE type = "BRANCH_TO_ADMIN"
  BY <1>3 DEF Edge, ValidTransition, TransitionsFor, ALLOWED_TRANSITIONS, Edges,
              NO_KITCHEN_TRANSITIONS, RESALE_ONLY_TRANSITIONS,
              ApprovalStatuses, Statuses
<1>4. CASE type = "ADMIN_TO_SUPERADMIN_PLAN"
  BY <1>4 DEF Edge, ValidTransition, TransitionsFor, ALLOWED_TRANSITIONS, Edges,
              ApprovalStatuses, Statuses
<1>5. CASE type = "KITCHEN_TO_ADMIN"
  BY <1>5 DEF Edge, ValidTransition, TransitionsFor, ALLOWED_TRANSITIONS, Edges,
              ApprovalStatuses, Statuses
<1> QED  BY <1>1, <1>2, <1>3, <1>4, <1>5 DEF RequestTypes

--------------------------------------------------------------------------------
(* Types *)

LEMMA RowUpdates ==
  ASSUME NEW row \in LineRows, NEW q \in Amounts
  PROVE  /\ [row EXCEPT !.approved = q] \in LineRows
         /\ [row EXCEPT !.received = q] \in LineRows
BY DEF LineRows, Quantities

LEMMA RowsAreRows ==
  ASSUME RequestsTypeOK, NEW r \in Requests, NEW to, NEW rows \in RowsAfter(r, to)
  PROVE  rows \in [Lines -> LineRows]
<1>1. line[r] \in [Lines -> LineRows]
  BY DEF RequestsTypeOK
<1>2. ASSUME rows \in ApprovedRows(r, to)  PROVE rows \in [Lines -> LineRows]
  <2>1. PICK give \in [Lines -> Amounts] :
          rows = [l \in Lines |-> [line[r][l] EXCEPT !.approved = give[l]]]
    BY <1>2 DEF ApprovedRows
  <2>2. \A l \in Lines : [line[r][l] EXCEPT !.approved = give[l]] \in LineRows
    BY <1>1, RowUpdates
  <2> QED  BY <2>1, <2>2
<1>3. ASSUME rows \in ReceivedRows(r)  PROVE rows \in [Lines -> LineRows]
  <2>1. PICK listed \in (SUBSET Lines) \ {{}} :
          \E count \in [listed -> Amounts] :
            rows = [l \in Lines |-> IF l \in listed
                                    THEN [line[r][l] EXCEPT !.received = count[l]]
                                    ELSE line[r][l]]
    BY <1>3 DEF ReceivedRows
  <2>2. PICK count \in [listed -> Amounts] :
          rows = [l \in Lines |-> IF l \in listed
                                  THEN [line[r][l] EXCEPT !.received = count[l]]
                                  ELSE line[r][l]]
    BY <2>1
  <2>3. \A l \in listed : [line[r][l] EXCEPT !.received = count[l]] \in LineRows
    BY <1>1, RowUpdates
  <2> QED  BY <1>1, <2>2, <2>3
<1> QED  BY <1>1, <1>2, <1>3 DEF RowsAfter

LEMMA MergedRowsAreRows ==
  ASSUME RequestsTypeOK, NEW h \in Calls
  PROVE  MergedRows(h) \in [Lines -> LineRows]
BY DEF RequestsTypeOK, MergedRows, Merge, Calls, LineRows

LEMMA TargetsAreTargets ==
  ASSUME RequestsTypeOK, NEW r \in Requests, NEW to,
         NEW place \in TargetsAfter(r, to)
  PROVE  place \in Targets
BY BoundAssumption DEF RequestsTypeOK, TargetsAfter, Targets, Locations

LEMMA InitRequestsType == Init => RequestsTypeOK
BY DayAssumption DEF Init, RequestsTypeOK, Targets, NewLine, LineRows, Quantities, Days

LEMMA NextRequestsType == RequestsTypeOK /\ [Next]_vars => RequestsTypeOK'
<1> SUFFICES ASSUME RequestsTypeOK, [Next]_vars  PROVE RequestsTypeOK'
  OBVIOUS
<1> USE DEF RequestsTypeOK
<1>1. ASSUME NEW r \in Requests, CreateRequest(r)  PROVE RequestsTypeOK'
  <2>1. InitialTargets(r) \subseteq Targets
    BY DEF InitialTargets, Targets, Locations
  <2> QED  BY <1>1, <2>1 DEF CreateRequest, stockVars, Statuses
<1>2. ASSUME NEW t \in Threads, NEW r \in Requests, NEW to \in Statuses,
             NEW role \in Roles, LoadTransition(t, r, to, role)
      PROVE  RequestsTypeOK'
  <2>1. PICK rows \in RowsAfter(r, to), place \in TargetsAfter(r, to), lot \in Lots :
          call' = [call EXCEPT ![t] =
            [kind |-> "transition", req |-> r, from |-> status[r], to |-> to,
             seen |-> line[r], lines |-> rows,
             seenTarget |-> target[r], target |-> place, lot |-> lot]]
    BY <1>2 DEF LoadTransition
  <2>2. rows \in [Lines -> LineRows] /\ place \in Targets
    BY RowsAreRows, TargetsAreTargets
  <2>3. status[r] \in Statuses
    BY <1>2 DEF LoadTransition
  <2> QED  BY <1>2, <2>1, <2>2, <2>3 DEF LoadTransition, requestVars, Calls
<1>3. ASSUME NEW t \in Threads, NEW r \in Requests, NEW l \in Lines,
             LoadMarkLine(t, r, l)
      PROVE  RequestsTypeOK'
  <2>1. [line[r] EXCEPT ![l].produced = TRUE] \in [Lines -> LineRows]
    <3>1. line[r] \in [Lines -> LineRows] /\ line[r][l] \in LineRows
      OBVIOUS
    <3>2. [line[r] EXCEPT ![l].produced = TRUE] =
            [k \in Lines |-> IF k = l THEN [line[r][l] EXCEPT !.produced = TRUE]
                                      ELSE line[r][k]]
      BY <3>1
    <3>3. [line[r][l] EXCEPT !.produced = TRUE] \in LineRows
      BY <3>1 DEF LineRows
    <3> QED  BY <3>1, <3>2, <3>3
  <2>2. status[r] \in Statuses /\ UnbatchedLot \in Lots
    BY <1>3, BatchAssumption DEF LoadMarkLine, Statuses, UnbatchedLot, Lots
  <2> QED  BY <1>3, <2>1, <2>2 DEF LoadMarkLine, requestVars, Calls
<1>4. ASSUME NEW t \in Threads, CommitTransition(t)  PROVE RequestsTypeOK'
  <2>1. call[t] \in Calls
    BY <1>4 DEF CommitTransition
  <2>2. MergedRows(call[t]) \in [Lines -> LineRows]
    BY <2>1, MergedRowsAreRows
  <2> QED  BY <1>4, <2>1, <2>2 DEF CommitTransition, Merge, Calls
<1>5. ASSUME NEW t \in Threads, CommitMarkLine(t)  PROVE RequestsTypeOK'
  <2>1. call[t] \in Calls
    BY <1>5 DEF CommitMarkLine
  <2>2. MergedRows(call[t]) \in [Lines -> LineRows]
    BY <2>1, MergedRowsAreRows
  <2> QED  BY <1>5, <2>1, <2>2 DEF CommitMarkLine, Calls
<1>6. ASSUME NEW t \in Threads, GiveUp(t)  PROVE RequestsTypeOK'
  BY <1>6 DEF GiveUp, requestVars
<1>7. CASE EnableKitchen
  BY <1>7 DEF EnableKitchen, requestVars
<1>8. CASE NextDay
  BY <1>8, DayAssumption DEF NextDay, requestVars, Days
<1>9. CASE UNCHANGED vars
  BY <1>9 DEF vars, requestVars
<1> QED
  BY <1>1, <1>2, <1>3, <1>4, <1>5, <1>6, <1>7, <1>8, <1>9 DEF Next

--------------------------------------------------------------------------------
(* What a handler reads and what it leaves behind *)

\* The rows a transition intends to write: approvals only on a pending request,
\* counts only later, every bound respected, no tick touched.
LEMMA LoadedRows ==
  ASSUME RequestsInv, NEW r \in Requests, status[r] # Absent, NEW to,
         ValidTransition(Type(r), status[r], to, hasKitchen, Doc[r].resaleOnly),
         NEW rows \in RowsAfter(r, to), NEW l \in Lines
  PROVE  /\ status[r] # "PENDING" => rows[l].approved = line[r][l].approved
         /\ status[r] = "PENDING" => rows[l].received = Null
         /\ rows[l].approved # Null => rows[l].approved <= Doc[r].requested[l]
         /\ rows[l].received # Null => rows[l].received <= Approved(r, rows, l)
         /\ rows[l].produced = line[r][l].produced
<1> USE DEF RequestsInv, RequestsTypeOK
<1>1. /\ line[r] \in [Lines -> LineRows] /\ line[r][l] \in LineRows
      /\ Doc[r].resaleOnly \in BOOLEAN /\ Type(r) \in RequestTypes
      /\ hasKitchen \in BOOLEAN
  BY DocAssumption DEF Type
<1>2. status[r] = "PENDING" => line[r][l] = NewLine
  BY DEF PendingIsUntouched
<1>3. /\ to \in ApprovalStatuses => status[r] = "PENDING"
      /\ status[r] = "PENDING" => to \in ApprovalStatuses \cup {"REJECTED"}
  <2>1. Edge(Type(r), status[r], to)
    BY <1>1, Zenon DEF Edge
  <2> QED  BY <1>1, <2>1, EdgeFacts
<1>4. /\ line[r][l].approved # Null => line[r][l].approved <= Doc[r].requested[l]
      /\ line[r][l].received # Null
           => line[r][l].received <= Approved(r, line[r], l)
  BY DEF QuantitiesShrink
<1>5. CASE to \in ApprovalStatuses /\ rows \in ApprovedRows(r, to)
  <2>1. PICK give \in [Lines -> Amounts] :
          /\ \A k \in Lines : give[k] <= Doc[r].requested[k]
          /\ rows = [k \in Lines |-> [line[r][k] EXCEPT !.approved = give[k]]]
    BY <1>5 DEF ApprovedRows
  <2>2. rows[l] = [NewLine EXCEPT !.approved = give[l]]
    BY <1>2, <1>3, <1>5, <2>1
  <2> QED  BY <1>2, <1>3, <1>5, <2>1, <2>2 DEF NewLine
<1>6. CASE to \in {"REPORTED", "RECEIVED"} /\ rows \in ReceivedRows(r)
  <2>1. PICK listed \in (SUBSET Lines) \ {{}} :
          \E count \in {q \in [listed -> Amounts] :
                          \A k \in listed : q[k] <= Approved(r, line[r], k)} :
            rows = [k \in Lines |-> IF k \in listed
                                    THEN [line[r][k] EXCEPT !.received = count[k]]
                                    ELSE line[r][k]]
    BY <1>6 DEF ReceivedRows
  <2>2. PICK count \in [listed -> Amounts] :
          /\ \A k \in listed : count[k] <= Approved(r, line[r], k)
          /\ rows = [k \in Lines |-> IF k \in listed
                                    THEN [line[r][k] EXCEPT !.received = count[k]]
                                    ELSE line[r][k]]
    BY <2>1
  <2>3. status[r] # "PENDING"
    BY <1>3, <1>6 DEF ApprovalStatuses
  <2>4. rows[l] = IF l \in listed THEN [line[r][l] EXCEPT !.received = count[l]]
                                  ELSE line[r][l]
    BY <2>2
  <2>5. /\ rows[l].approved = line[r][l].approved
        /\ rows[l].produced = line[r][l].produced
        /\ rows[l].received = IF l \in listed THEN count[l] ELSE line[r][l].received
    BY <1>1, <2>4 DEF LineRows
  <2>6. Approved(r, rows, l) = Approved(r, line[r], l)
    BY <2>5 DEF Approved
  <2> QED  BY <1>4, <2>2, <2>3, <2>5, <2>6
<1>7. CASE rows = line[r]
  BY <1>1, <1>2, <1>4, <1>7 DEF NewLine
<1> QED  BY <1>5, <1>6, <1>7 DEF RowsAfter

\* A commit leaves settled approvals alone, keeps every bound and loses no tick.
LEMMA CommittedRows ==
  ASSUME RequestsInv, NEW h \in Calls, CallOK(h), NEW l \in Lines,
         h.from = "PENDING" => status[h.req] = "PENDING"
  PROVE  LET now == line[h.req][l]
             new == MergedRows(h)[l]
         IN /\ h.from # "PENDING" => /\ new.approved = now.approved
                                     /\ new.approved = h.lines[l].approved
            /\ new.approved # Null => new.approved <= Doc[h.req].requested[l]
            /\ new.received # Null
                 => new.received <= Approved(h.req, MergedRows(h), l)
            /\ now.produced => new.produced
            /\ h.lines[l].produced => new.produced
<1> DEFINE now == line[h.req][l]
           new == MergedRows(h)[l]
<1> USE DEF RequestsInv
<1>1. new = [approved |-> Merge(now.approved, h.seen[l].approved, h.lines[l].approved),
             received |-> Merge(now.received, h.seen[l].received, h.lines[l].received),
             produced |-> Merge(now.produced, h.seen[l].produced, h.lines[l].produced)]
  BY DEF MergedRows
<1>2. /\ h.req \in Requests /\ now \in LineRows
      /\ h.seen[l] \in LineRows /\ h.lines[l] \in LineRows
  BY DEF Calls, RequestsTypeOK
<1>3. /\ now.approved # Null => now.approved <= Doc[h.req].requested[l]
      /\ now.received # Null
           => now.received <= Approved(h.req, line[h.req], l)
  BY <1>2 DEF QuantitiesShrink
<1>4. /\ h.lines[l].approved # Null
           => h.lines[l].approved <= Doc[h.req].requested[l]
      /\ h.lines[l].received # Null
           => h.lines[l].received <= Approved(h.req, h.lines, l)
  BY DEF CallOK, WithinBounds
<1>5. h.from # "PENDING" => /\ h.lines[l].approved = h.seen[l].approved
                            /\ h.seen[l].approved = now.approved
  BY DEF CallOK, ApprovesOnce, SeesApproval
<1>6. h.from # "PENDING" => /\ new.approved = now.approved
                            /\ new.approved = h.lines[l].approved
  BY <1>1, <1>5 DEF Merge
<1>7. h.from = "PENDING" => new.received = Null
  <2> SUFFICES ASSUME h.from = "PENDING"  PROVE new.received = Null
    OBVIOUS
  <2>1. now = NewLine
    BY <1>2 DEF PendingIsUntouched
  <2>2. h.lines[l].received = Null
    BY DEF CallOK, ApprovesOnce
  <2> QED  BY <1>1, <2>1, <2>2 DEF Merge, NewLine
<1>8. new.approved # Null => new.approved <= Doc[h.req].requested[l]
  BY <1>1, <1>3, <1>4 DEF Merge
<1>9. new.received # Null => new.received <= Approved(h.req, MergedRows(h), l)
  <2> SUFFICES ASSUME new.received # Null
               PROVE  new.received <= Approved(h.req, MergedRows(h), l)
    OBVIOUS
  <2>1. /\ Approved(h.req, MergedRows(h), l) = Approved(h.req, line[h.req], l)
        /\ Approved(h.req, MergedRows(h), l) = Approved(h.req, h.lines, l)
    BY <1>6, <1>7 DEF Approved
  <2>2. new.received \in {now.received, h.lines[l].received}
    BY <1>1 DEF Merge
  <2> QED  BY <1>3, <1>4, <2>1, <2>2
<1>10. /\ now.produced => new.produced
       /\ h.lines[l].produced => new.produced
  <2>1. /\ h.seen[l].produced => now.produced
        /\ h.seen[l].produced => h.lines[l].produced
    BY DEF CallOK, SeesTicks
  <2>2. new.produced = IF h.lines[l].produced = h.seen[l].produced
                       THEN now.produced ELSE h.lines[l].produced
    BY <1>1 DEF Merge
  <2>3. /\ now.produced \in BOOLEAN /\ h.seen[l].produced \in BOOLEAN
        /\ h.lines[l].produced \in BOOLEAN
    BY <1>2 DEF LineRows
  <2> QED  BY <2>1, <2>2, <2>3
<1> QED  BY <1>6, <1>8, <1>9, <1>10

--------------------------------------------------------------------------------
(* The requests *)

\* What every step of every handler keeps about every request.
Steady ==
  \A r \in Requests :
    /\ status[r] # Absent => status'[r] # Absent
    /\ status[r] \notin {Absent, "PENDING"} =>
         /\ status'[r] # "PENDING"
         /\ \A l \in Lines : line'[r][l].approved = line[r][l].approved
    /\ \A l \in Lines : line[r][l].produced => line'[r][l].produced

\* A handler in flight keeps what it knows across a steady step.
LEMMA SteadyCalls ==
  ASSUME NEW h \in Calls, CallOK(h), Steady
  PROVE  CallOK(h)'
<1>1. h.req \in Requests
  BY DEF Calls
<1>2. SeesCreated(h)'
  BY <1>1 DEF CallOK, SeesCreated, Steady
<1>3. SeesApproval(h)'
  BY <1>1 DEF CallOK, SeesCreated, SeesApproval, Steady
<1>4. SeesTicks(h)'
  BY <1>1 DEF CallOK, SeesTicks, Steady
<1>5. (FollowsTable(h) /\ ApprovesOnce(h) /\ WithinBounds(h)
        /\ TickedBeforeProduced(h))'
  BY DEF CallOK, FollowsTable, ApprovesOnce, WithinBounds, TickedBeforeProduced,
         Edge, Approved, Type
<1> QED  BY <1>2, <1>3, <1>4, <1>5 DEF CallOK

LEMMA LoadedTransition ==
  ASSUME RequestsInv, NEW t \in Threads, NEW r \in Requests, NEW to \in Statuses,
         NEW role \in Roles, LoadTransition(t, r, to, role)
  PROVE  CallOK(call'[t])
<1> USE DEF RequestsInv, RequestsTypeOK
<1>1. PICK rows \in RowsAfter(r, to), place \in TargetsAfter(r, to), lot \in Lots :
        /\ Type(r) = "BRANCH_TO_ADMIN" /\ to = "PRODUCED"
             => ProducedGate(r, rows, place)
        /\ call' = [call EXCEPT ![t] =
            [kind |-> "transition", req |-> r, from |-> status[r], to |-> to,
             seen |-> line[r], lines |-> rows,
             seenTarget |-> target[r], target |-> place, lot |-> lot]]
  BY DEF LoadTransition
<1> DEFINE h == call'[t]
<1>2. /\ h.kind = "transition" /\ h.req = r /\ h.from = status[r] /\ h.to = to
      /\ h.seen = line[r] /\ h.lines = rows
  BY <1>1
<1>3. \A l \in Lines :
        /\ status[r] # "PENDING" => rows[l].approved = line[r][l].approved
        /\ status[r] = "PENDING" => rows[l].received = Null
        /\ rows[l].approved # Null => rows[l].approved <= Doc[r].requested[l]
        /\ rows[l].received # Null => rows[l].received <= Approved(r, rows, l)
        /\ rows[l].produced = line[r][l].produced
  BY LoadedRows DEF LoadTransition
<1>4. SeesCreated(h) /\ SeesApproval(h)
  BY <1>2 DEF LoadTransition, SeesCreated, SeesApproval, PendingIsUntouched
<1>5. SeesTicks(h)
  BY <1>2, <1>3 DEF SeesTicks
<1>6. FollowsTable(h)
  <2>1. hasKitchen \in BOOLEAN /\ Doc[r].resaleOnly \in BOOLEAN
    BY DocAssumption
  <2>2. Edge(Type(r), status[r], to)
    BY <2>1, Zenon DEF Edge, LoadTransition
  <2> QED  BY <1>2, <2>2 DEF FollowsTable
<1>7. ApprovesOnce(h) /\ WithinBounds(h)
  BY <1>2, <1>3 DEF ApprovesOnce, WithinBounds
<1>8. TickedBeforeProduced(h)
  BY <1>1, <1>2 DEF TickedBeforeProduced, ProducedGate
<1> QED  BY <1>4, <1>5, <1>6, <1>7, <1>8 DEF CallOK

LEMMA LoadedMark ==
  ASSUME RequestsInv, NEW t \in Threads, NEW r \in Requests, NEW l \in Lines,
         LoadMarkLine(t, r, l)
  PROVE  CallOK(call'[t])
<1> USE DEF RequestsInv, RequestsTypeOK
<1> DEFINE h == call'[t]
           ticked == [line[r] EXCEPT ![l].produced = TRUE]
<1>1. /\ h.kind = "mark" /\ h.req = r /\ h.from = "IN_PRODUCTION"
      /\ h.to = "IN_PRODUCTION" /\ h.seen = line[r] /\ h.lines = ticked
      /\ status[r] = "IN_PRODUCTION"
  BY DEF LoadMarkLine
<1>2. \A k \in Lines :
        /\ ticked[k].approved = line[r][k].approved
        /\ ticked[k].received = line[r][k].received
        /\ line[r][k].produced => ticked[k].produced
  <2>1. \A k \in Lines : line[r][k] \in LineRows
    OBVIOUS
  <2>2. \A k \in Lines :
          ticked[k] = IF k = l THEN [line[r][l] EXCEPT !.produced = TRUE]
                               ELSE line[r][k]
    OBVIOUS
  <2> QED  BY <2>1, <2>2 DEF LineRows
<1>3. SeesCreated(h) /\ SeesApproval(h)
  BY <1>1, MarkerAssumption DEF SeesCreated, SeesApproval, Statuses
<1>4. SeesTicks(h)
  BY <1>1, <1>2 DEF SeesTicks
<1>5. FollowsTable(h)
  BY <1>1 DEF FollowsTable
<1>6. ApprovesOnce(h)
  BY <1>1, <1>2 DEF ApprovesOnce
<1>7. WithinBounds(h)
  BY <1>1, <1>2 DEF WithinBounds, Approved, QuantitiesShrink
<1>8. TickedBeforeProduced(h)
  BY <1>1 DEF TickedBeforeProduced
<1> QED  BY <1>3, <1>4, <1>5, <1>6, <1>7, <1>8 DEF CallOK

\* A committing transition moves its request along an edge and is steady.
LEMMA CommitIsSteady ==
  ASSUME RequestsInv, NEW t \in Threads, CommitTransition(t)
  PROVE  /\ Steady
         /\ PendingIsUntouched'
         /\ QuantitiesShrink'
         /\ ProducedMeansTicked'
<1> USE DEF RequestsInv, RequestsTypeOK
<1> DEFINE h == call[t]
           r == h.req
<1>1. /\ h \in Calls /\ CallOK(h) /\ r \in Requests
      /\ h.kind = "transition" /\ status[r] = h.from
      /\ h.from \in Statuses
      /\ status' = [status EXCEPT ![r] = h.to]
      /\ line' = [line EXCEPT ![r] = MergedRows(h)]
  BY DEF CommitTransition, StatusUnchanged, CallsOK, Calls
<1>2. /\ h.to \in Statuses /\ h.to # "PENDING"
  <2>1. Edge(Type(r), h.from, h.to) /\ Type(r) \in RequestTypes
    BY <1>1, DocAssumption DEF CallOK, FollowsTable, Type
  <2> QED  BY <2>1, EdgeFacts
<1>3. \A l \in Lines :
        /\ h.from # "PENDING" =>
             /\ MergedRows(h)[l].approved = line[r][l].approved
             /\ MergedRows(h)[l].approved = h.lines[l].approved
        /\ MergedRows(h)[l].approved # Null
             => MergedRows(h)[l].approved <= Doc[r].requested[l]
        /\ MergedRows(h)[l].received # Null
             => MergedRows(h)[l].received <= Approved(r, MergedRows(h), l)
        /\ line[r][l].produced => MergedRows(h)[l].produced
        /\ h.lines[l].produced => MergedRows(h)[l].produced
  BY <1>1, CommittedRows
<1>4. /\ line'[r] = MergedRows(h) /\ status'[r] = h.to
      /\ \A q \in Requests : q # r => line'[q] = line[q] /\ status'[q] = status[q]
  BY <1>1
<1>5. Steady
  BY <1>1, <1>2, <1>3, <1>4, MarkerAssumption DEF Steady
<1>6. PendingIsUntouched'
  BY <1>2, <1>4, MarkerAssumption DEF PendingIsUntouched
<1>7. QuantitiesShrink'
  <2> SUFFICES ASSUME NEW q \in Requests, NEW l \in Lines
               PROVE  /\ line'[q][l].approved # Null
                           => line'[q][l].approved <= Doc[q].requested[l]
                      /\ line'[q][l].received # Null
                           => line'[q][l].received <= Approved(q, line'[q], l)
    BY DEF QuantitiesShrink
  <2> QED  BY <1>3, <1>4 DEF QuantitiesShrink
<1>8. ProducedMeansTicked'
  <2> SUFFICES ASSUME NEW q \in Requests, NEW l \in Lines,
                      Type(q) = "BRANCH_TO_ADMIN", status'[q] = "PRODUCED",
                      Approved(q, line'[q], l) > 0
               PROVE  line'[q][l].produced
    BY DEF ProducedMeansTicked, Type, Approved
  <2>1. CASE q # r
    BY <1>4, <2>1 DEF ProducedMeansTicked
  <2>2. CASE q = r
    <3>1. h.to = "PRODUCED"
      BY <1>4, <2>2
    <3>2. h.from # "PENDING"
      <4>1. Edge(Type(r), h.from, h.to) /\ Type(r) \in RequestTypes
        BY <1>1, DocAssumption DEF CallOK, FollowsTable, Type
      <4> QED  BY <3>1, <4>1, EdgeFacts DEF ApprovalStatuses
    <3>3. Approved(r, h.lines, l) > 0
      BY <1>3, <1>4, <2>2, <3>2 DEF Approved
    <3>4. h.lines[l].produced
      BY <1>1, <2>2, <3>1, <3>3 DEF CallOK, TickedBeforeProduced
    <3> QED  BY <1>3, <1>4, <2>2, <3>4
  <2> QED  BY <2>1, <2>2
<1> QED  BY <1>5, <1>6, <1>7, <1>8

\* So does a committing tick, which never touches the status.
LEMMA MarkIsSteady ==
  ASSUME RequestsInv, NEW t \in Threads, CommitMarkLine(t)
  PROVE  /\ Steady
         /\ PendingIsUntouched'
         /\ QuantitiesShrink'
         /\ ProducedMeansTicked'
<1> USE DEF RequestsInv, RequestsTypeOK
<1> DEFINE h == call[t]
           r == h.req
<1>1. /\ h \in Calls /\ CallOK(h) /\ r \in Requests /\ h.kind = "mark"
      /\ status' = status
      /\ line' = [line EXCEPT ![r] = MergedRows(h)]
  BY DEF CommitMarkLine, CallsOK, Calls
<1>2. h.from # "PENDING" /\ status[r] \notin {Absent, "PENDING"}
  BY <1>1 DEF CallOK, FollowsTable, SeesCreated, SeesApproval
<1>3. \A l \in Lines :
        /\ MergedRows(h)[l].approved = line[r][l].approved
        /\ MergedRows(h)[l].approved # Null
             => MergedRows(h)[l].approved <= Doc[r].requested[l]
        /\ MergedRows(h)[l].received # Null
             => MergedRows(h)[l].received <= Approved(r, MergedRows(h), l)
        /\ line[r][l].produced => MergedRows(h)[l].produced
  BY <1>1, <1>2, CommittedRows
<1>4. /\ line'[r] = MergedRows(h)
      /\ \A q \in Requests : q # r => line'[q] = line[q]
  BY <1>1
<1>5. Steady
  BY <1>1, <1>2, <1>3, <1>4 DEF Steady
<1>6. PendingIsUntouched'
  BY <1>1, <1>2, <1>4 DEF PendingIsUntouched
<1>7. QuantitiesShrink'
  <2> SUFFICES ASSUME NEW q \in Requests, NEW l \in Lines
               PROVE  /\ line'[q][l].approved # Null
                           => line'[q][l].approved <= Doc[q].requested[l]
                      /\ line'[q][l].received # Null
                           => line'[q][l].received <= Approved(q, line'[q], l)
    BY DEF QuantitiesShrink
  <2> QED  BY <1>3, <1>4 DEF QuantitiesShrink
<1>8. ProducedMeansTicked'
  <2> SUFFICES ASSUME NEW q \in Requests, NEW l \in Lines,
                      Type(q) = "BRANCH_TO_ADMIN", status[q] = "PRODUCED",
                      Approved(q, line'[q], l) > 0
               PROVE  line'[q][l].produced
    BY <1>1 DEF ProducedMeansTicked, Type, Approved
  <2>1. Approved(q, line[q], l) > 0
    BY <1>3, <1>4 DEF Approved
  <2> QED  BY <1>3, <1>4, <2>1 DEF ProducedMeansTicked
<1> QED  BY <1>5, <1>6, <1>7, <1>8

LEMMA InitRequests == Init => RequestsInv
<1> SUFFICES ASSUME Init  PROVE RequestsInv
  OBVIOUS
<1>1. RequestsTypeOK
  BY InitRequestsType
<1>2. PendingIsUntouched /\ QuantitiesShrink
  BY DEF Init, PendingIsUntouched, QuantitiesShrink, NewLine
<1>3. CallsOK
  BY DEF Init, CallsOK
<1>4. ProducedMeansTicked
  BY MarkerAssumption DEF Init, ProducedMeansTicked, Statuses
<1> QED  BY <1>1, <1>2, <1>3, <1>4 DEF RequestsInv

LEMMA NextRequests == RequestsInv /\ [Next]_vars => RequestsInv' /\ Steady
<1> SUFFICES ASSUME RequestsInv, [Next]_vars  PROVE RequestsInv' /\ Steady
  OBVIOUS
<1>1. RequestsTypeOK /\ RequestsTypeOK'
  BY NextRequestsType DEF RequestsInv
<1> DEFINE Kept == /\ PendingIsUntouched' /\ QuantitiesShrink'
                   /\ ProducedMeansTicked' /\ Steady
           NewCallsOK ==
             \A t \in Threads, h \in Calls :
               call'[t] = h /\ h # Idle /\ h # call[t] => CallOK(h)'
<1>2. ASSUME UNCHANGED <<status, line>>  PROVE Kept
  BY <1>2 DEF RequestsInv, Steady, PendingIsUntouched, QuantitiesShrink,
              ProducedMeansTicked, Approved, Type
<1>3. ASSUME UNCHANGED call  PROVE NewCallsOK
  BY <1>3
<1>4. ASSUME NEW r \in Requests, CreateRequest(r)  PROVE Kept /\ NewCallsOK
  <2>1. /\ status' = [status EXCEPT ![r] = "PENDING"] /\ status[r] = Absent
        /\ UNCHANGED <<line, call>>
    BY <1>4 DEF CreateRequest
  <2>2. Steady /\ PendingIsUntouched'
    BY <1>1, <2>1, MarkerAssumption
       DEF RequestsInv, RequestsTypeOK, Steady, PendingIsUntouched, Statuses
  <2>3. QuantitiesShrink'
    BY <2>1 DEF RequestsInv, QuantitiesShrink, Approved
  <2>4. ProducedMeansTicked'
    <3>1. \A q \in Requests : status'[q] = "PRODUCED" => status[q] = "PRODUCED"
      BY <1>1, <2>1 DEF RequestsTypeOK
    <3> QED  BY <2>1, <3>1 DEF RequestsInv, ProducedMeansTicked, Approved, Type
  <2> QED  BY <1>3, <2>1, <2>2, <2>3, <2>4
<1>5. ASSUME NEW t \in Threads, NEW r \in Requests, NEW to \in Statuses,
             NEW role \in Roles, LoadTransition(t, r, to, role)
      PROVE  Kept /\ NewCallsOK
  <2>1. UNCHANGED <<status, line>> /\ \A u \in Threads : u # t => call'[u] = call[u]
    BY <1>1, <1>5 DEF LoadTransition, requestVars, RequestsTypeOK
  <2>2. CallOK(call'[t])
    BY <1>5, LoadedTransition
  <2>3. ASSUME NEW h \in Calls, call'[t] = h  PROVE CallOK(h)'
    BY <2>1, <2>2, <2>3 DEF CallOK, SeesCreated, SeesApproval, SeesTicks,
         FollowsTable, ApprovesOnce, WithinBounds, TickedBeforeProduced, Edge,
         Approved, Type
  <2> QED  BY <1>2, <2>1, <2>3
<1>6. ASSUME NEW t \in Threads, NEW r \in Requests, NEW l \in Lines,
             LoadMarkLine(t, r, l)
      PROVE  Kept /\ NewCallsOK
  <2>1. UNCHANGED <<status, line>> /\ \A u \in Threads : u # t => call'[u] = call[u]
    BY <1>1, <1>6 DEF LoadMarkLine, requestVars, RequestsTypeOK
  <2>2. CallOK(call'[t])
    BY <1>6, LoadedMark
  <2>3. ASSUME NEW h \in Calls, call'[t] = h  PROVE CallOK(h)'
    BY <2>1, <2>2, <2>3 DEF CallOK, SeesCreated, SeesApproval, SeesTicks,
         FollowsTable, ApprovesOnce, WithinBounds, TickedBeforeProduced, Edge,
         Approved, Type
  <2> QED  BY <1>2, <2>1, <2>3
<1>7. ASSUME NEW t \in Threads, CommitTransition(t)  PROVE Kept /\ NewCallsOK
  <2>1. call' = [call EXCEPT ![t] = Idle]
    BY <1>7 DEF CommitTransition
  <2> QED  BY <1>1, <1>7, <2>1, CommitIsSteady DEF RequestsTypeOK
<1>8. ASSUME NEW t \in Threads, CommitMarkLine(t)  PROVE Kept /\ NewCallsOK
  <2>1. call' = [call EXCEPT ![t] = Idle]
    BY <1>8 DEF CommitMarkLine
  <2> QED  BY <1>1, <1>8, <2>1, MarkIsSteady DEF RequestsTypeOK
<1>9. ASSUME NEW t \in Threads, GiveUp(t)  PROVE Kept /\ NewCallsOK
  BY <1>1, <1>2, <1>9 DEF GiveUp, requestVars, RequestsTypeOK
<1>10. ASSUME EnableKitchen  PROVE Kept /\ NewCallsOK
  BY <1>2, <1>3, <1>10 DEF EnableKitchen, requestVars
<1>11. ASSUME NextDay  PROVE Kept /\ NewCallsOK
  BY <1>2, <1>3, <1>11 DEF NextDay, requestVars
<1>12. ASSUME UNCHANGED vars  PROVE Kept /\ NewCallsOK
  BY <1>2, <1>3, <1>12 DEF vars, requestVars
<1>13. Kept /\ NewCallsOK
  BY <1>4, <1>5, <1>6, <1>7, <1>8, <1>9, <1>10, <1>11, <1>12 DEF Next
<1>14. CallsOK'
  <2> SUFFICES ASSUME NEW t \in Threads, NEW h \in Calls, call'[t] = h, h # Idle
               PROVE  CallOK(h)'
    BY <1>1 DEF CallsOK, RequestsTypeOK
  <2>1. CASE h = call[t]
    <3>1. CallOK(h)
      BY <2>1 DEF RequestsInv, CallsOK
    <3> QED  BY <1>13, <3>1, SteadyCalls
  <2>2. CASE h # call[t]
    BY <1>13, <2>2
  <2> QED  BY <2>1, <2>2
<1> QED  BY <1>1, <1>13, <1>14 DEF RequestsInv

\* Requests keep their types through every interleaving of handlers.
THEOREM RequestsTypeCorrect == Spec => []RequestsTypeOK
<1>1. Init => RequestsTypeOK
  BY InitRequestsType
<1>2. RequestsTypeOK /\ [Next]_vars => RequestsTypeOK'
  BY NextRequestsType
<1> QED  BY <1>1, <1>2, PTL DEF Spec

LEMMA RequestsInvariant == Spec => []RequestsInv
<1>1. Init => RequestsInv
  BY InitRequests
<1>2. RequestsInv /\ [Next]_vars => RequestsInv'
  BY NextRequests
<1> QED  BY <1>1, <1>2, PTL DEF Spec

\* No approval exceeds the request and no count exceeds the approval, however
\* many handlers work on stale copies of the lines.
THEOREM QuantitiesOnlyShrink == Spec => []QuantitiesShrink
<1>1. RequestsInv => QuantitiesShrink
  BY DEF RequestsInv
<1> QED  BY <1>1, RequestsInvariant, PTL

\* A branch request that reads PRODUCED has every approved line ticked.
THEOREM ProducedIsTicked == Spec => []ProducedMeansTicked
<1>1. RequestsInv => ProducedMeansTicked
  BY DEF RequestsInv
<1> QED  BY <1>1, RequestsInvariant, PTL

\* Once a request has left PENDING its approved quantities never change.
THEOREM ApprovalsAreFinal == Spec => ApprovalIsFinal
<1>1. RequestsInv /\ [Next]_vars =>
        [\A r \in Requests : status[r] \notin {Absent, "PENDING"} =>
           \A l \in Lines : line'[r][l].approved = line[r][l].approved]_vars
  BY NextRequests DEF Steady
<1> QED  BY <1>1, RequestsInvariant, PTL DEF Spec, ApprovalIsFinal

--------------------------------------------------------------------------------
(* The goods *)

\* The total approved for a product depends on nothing but the approvals.
LEMMA SameApprovals ==
  ASSUME NEW r \in Requests, NEW rows, NEW others, NEW p,
         \A l \in Lines : rows[l].approved = others[l].approved
  PROVE  ApprovedOf(r, rows, p) = ApprovedOf(r, others, p)
<1>1. [l \in Lines |-> Approved(r, rows, l)] = [l \in Lines |-> Approved(r, others, l)]
  BY DEF Approved
<1> QED  BY <1>1 DEF ApprovedOf

\* The stock invariant of one request.
StockOK(r) ==
  /\ debit[r] \in [Products -> Bins]
  /\ ~Shipped(r) => debit[r] = NoGoods
  /\ status[r] # "RECEIVED" => credit[r] = NoGoods
  /\ Shipped(r) =>
       \A p \in Products : Total(debit[r][p]) = ApprovedOf(r, line[r], p)
  /\ MovesStock(r) /\ status[r] = "RECEIVED" /\ Doc[r].source \notin Branches
       => credit[r] = debit[r]

LEMMA StockInvIsPointwise ==
  StockInv <=> /\ debit = [r \in Requests |-> debit[r]]
               /\ credit = [r \in Requests |-> credit[r]]
               /\ \A r \in Requests : StockOK(r)
BY DEF StockInv, StockOK, MovementsFollowStatus, ShippedWhatWasApproved,
       DeliveryKeepsLots

\* A request whose status and movements a step leaves alone keeps it.
LEMMA UntouchedStock ==
  ASSUME NEW r \in Requests, StockOK(r), Steady,
         status'[r] = status[r], debit'[r] = debit[r], credit'[r] = credit[r]
  PROVE  StockOK(r)'
<1>1. Shipped(r)' = Shipped(r)
  BY DEF Shipped, MovesStock, Type
<1>2. ASSUME Shipped(r), NEW p \in Products
      PROVE  ApprovedOf(r, line'[r], p) = ApprovedOf(r, line[r], p)
  <2>1. \A l \in Lines : line'[r][l].approved = line[r][l].approved
    BY <1>2, MarkerAssumption DEF Steady, Shipped, Statuses
  <2> QED  BY <2>1, SameApprovals
<1>3. ASSUME NEW p \in Products
      PROVE  ApprovedOf(r, line[r], p)' = ApprovedOf(r, line'[r], p)
  BY DEF ApprovedOf, Approved, LinesOf
<1> QED  BY <1>1, <1>2, <1>3 DEF StockOK, MovesStock, Type

\* The committing request itself: a shipment starts from nothing and books the
\* approved totals, a delivery starts from a shipment and credits it.
LEMMA CommittedStock ==
  ASSUME RequestsInv, StockInv, NEW t \in Threads, CommitTransition(t),
         NEW h \in Calls, call[t] = h
  PROVE  StockOK(h.req)'
<1> DEFINE r == h.req
<1>1. /\ h \in Calls /\ CallOK(h) /\ r \in Requests /\ Type(r) \in RequestTypes
      /\ h.kind = "transition" /\ status[r] = h.from /\ status'[r] = h.to
      /\ line'[r] = MergedRows(h)
      /\ MoveStock(h)
  BY DocAssumption DEF CommitTransition, StatusUnchanged, CallsOK, Calls,
     RequestsInv, RequestsTypeOK, Type
<1>2. Steady
  BY CommitIsSteady
<1>3. /\ h.to # "PENDING" /\ h.from # "RECEIVED"
      /\ MovesStock(r) => (h.from = "DISPATCHED" <=> h.to = "RECEIVED")
      /\ h.to \in {"DISPATCHED", "RECEIVED"} => h.from # "PENDING" /\ h.from # Absent
  <2>1. Edge(Type(r), h.from, h.to)
    BY <1>1 DEF CallOK, FollowsTable
  <2>2. h.from \in Statuses
    BY <1>1 DEF Calls
  <2> QED  BY <1>1, <2>1, <2>2, EdgeFacts, MarkerAssumption
           DEF MovesStock, ApprovalStatuses
<1>4. /\ debit[r] \in [Products -> Bins] /\ debit = [q \in Requests |-> debit[q]]
      /\ credit = [q \in Requests |-> credit[q]]
      /\ StockOK(r) /\ credit[r] = NoGoods
      /\ h.from # "DISPATCHED" \/ ~MovesStock(r) => debit[r] = NoGoods
  BY <1>1, <1>3, StockInvIsPointwise DEF StockOK, Shipped
<1>5. h.from # "PENDING" =>
        \A p \in Products : ApprovedOf(r, line[r], p)' = ApprovedOf(r, h.lines, p)
  <2> SUFFICES ASSUME h.from # "PENDING", NEW p \in Products
               PROVE  ApprovedOf(r, line'[r], p) = ApprovedOf(r, h.lines, p)
    BY DEF ApprovedOf, Approved, LinesOf
  <2>1. \A l \in Lines : line'[r][l].approved = h.lines[l].approved
    BY <1>1, CommittedRows
  <2> QED  BY <1>1, <2>1, SameApprovals
<1>6. Shipped(r)' = (MovesStock(r) /\ h.to \in {"DISPATCHED", "RECEIVED"})
  BY <1>1 DEF Shipped, MovesStock, Type
<1>7. CASE Ships(h)
  <2> DEFINE from == h.target
             take == [p \in Products |->
                        FefoTake(stock[from][p], ApprovedOf(r, h.lines, p), today)]
  <2>1. \A p \in Products :
          FefoDraws(stock[from][p], ApprovedOf(r, h.lines, p), today) # {}
    BY <1>1, <1>7 DEF MoveStock, Ship, Ships, Delivers, BooksPurchase
  <2>2. debit'[r] = [p \in Products |-> Plus(debit[r][p], take[p])] /\ credit' = credit
    BY <1>1, <1>4, <1>7 DEF MoveStock, Ship, Ships, Delivers, BooksPurchase
  <2>3. debit[r] = NoGoods /\ h.to = "DISPATCHED" /\ MovesStock(r)
    BY <1>3, <1>4, <1>7 DEF Ships, MovesStock
  <2>4. \A p \in Products : /\ take[p] \in Bins
                            /\ Total(take[p]) = ApprovedOf(r, h.lines, p)
    BY <2>1, DrawIsExact
  <2>5. \A p \in Products : debit'[r][p] = take[p]
    BY <2>2, <2>3, <2>4, PlusNothing DEF NoGoods
  <2>6. debit'[r] \in [Products -> Bins]
    BY <2>2, <2>4, <2>5
  <2> QED
    BY <1>1, <1>3, <1>4, <1>5, <1>6, <2>2, <2>3, <2>4, <2>5, <2>6
    DEF StockOK, MovesStock, Type
<1>8. CASE Delivers(h)
  <2>1. MovesStock(r) /\ h.to = "RECEIVED" /\ h.from = "DISPATCHED"
    BY <1>3, <1>8 DEF Delivers, MovesStock
  <2>2. /\ debit' = debit
        /\ credit'[r] = [p \in Products |-> Plus(credit[r][p], Replayed(r)[p])]
    BY <1>1, <1>4, <1>8
    DEF MoveStock, Deliver, Book, Ships, Delivers, BooksPurchase
  <2>3. ASSUME Doc[r].source \notin Branches  PROVE credit'[r] = debit[r]
    <3>1. \A p \in Products : Replayed(r)[p] = debit[r][p]
      BY <2>3 DEF Replayed
    <3>2. \A p \in Products : credit'[r][p] = debit[r][p]
      BY <1>4, <2>2, <3>1, PlusNothing DEF NoGoods
    <3> QED  BY <1>4, <2>2, <3>2
  <2>4. Shipped(r) /\ \A p \in Products : Total(debit[r][p]) = ApprovedOf(r, line[r], p)
    BY <1>1, <1>4, <2>1 DEF Shipped, StockOK
  <2>5. \A p \in Products : ApprovedOf(r, h.lines, p) = ApprovedOf(r, line[r], p)
    <3>1. \A l \in Lines : h.lines[l].approved = line[r][l].approved
      BY <1>1, <2>1, CommittedRows
    <3> QED  BY <1>1, <3>1, SameApprovals
  <2> QED
    BY <1>1, <1>4, <1>5, <1>6, <2>1, <2>2, <2>3, <2>4, <2>5
    DEF StockOK, MovesStock, Type
<1>9. CASE BooksPurchase(h)
  <2>1. ~MovesStock(r) /\ h.to = "RECEIVED" /\ debit' = debit
    BY <1>1, <1>9
    DEF MoveStock, BookPurchase, Book, Ships, Delivers, BooksPurchase, MovesStock
  <2> QED  BY <1>1, <1>4, <1>6, <2>1 DEF StockOK, MovesStock, Type
<1>10. CASE ~Ships(h) /\ ~Delivers(h) /\ ~BooksPurchase(h)
  <2>1. debit' = debit /\ credit' = credit
    BY <1>1, <1>10 DEF MoveStock, stockVars
  <2>2. MovesStock(r) => h.to \notin {"DISPATCHED", "RECEIVED"}
    BY <1>10 DEF Ships, Delivers, MovesStock
  <2> QED  BY <1>1, <1>3, <1>4, <1>6, <2>1, <2>2 DEF StockOK, MovesStock, Type
<1> QED  BY <1>7, <1>8, <1>9, <1>10

LEMMA NextStock == RequestsInv /\ StockInv /\ [Next]_vars => StockInv'
<1> SUFFICES ASSUME RequestsInv, StockInv, [Next]_vars  PROVE StockInv'
  OBVIOUS
<1>1. Steady
  BY NextRequests
<1>2. /\ debit = [r \in Requests |-> debit[r]]
      /\ credit = [r \in Requests |-> credit[r]]
      /\ \A r \in Requests : StockOK(r)
  BY StockInvIsPointwise
<1> DEFINE ByComponents == /\ debit' = [r \in Requests |-> debit'[r]]
                        /\ credit' = [r \in Requests |-> credit'[r]]
                        /\ \A r \in Requests : StockOK(r)'
<1>3. ASSUME UNCHANGED <<status, debit, credit>>  PROVE ByComponents
  BY <1>1, <1>2, <1>3, UntouchedStock
<1>4. ASSUME NEW r \in Requests, CreateRequest(r)  PROVE ByComponents
  <2>1. /\ status[r] = Absent /\ status'[r] = "PENDING"
        /\ \A q \in Requests : q # r => status'[q] = status[q]
        /\ UNCHANGED <<line, debit, credit>>
    BY <1>4 DEF CreateRequest, stockVars, RequestsInv, RequestsTypeOK
  <2>2. StockOK(r)'
    BY <1>2, <2>1, MarkerAssumption DEF StockOK, Shipped, Statuses
  <2> QED  BY <1>1, <1>2, <2>1, <2>2, UntouchedStock
<1>5. ASSUME NEW t \in Threads, CommitTransition(t)  PROVE ByComponents
  <2>1. PICK h \in Calls : call[t] = h
    BY <1>5 DEF CommitTransition, RequestsInv, RequestsTypeOK
  <2>2. h.req \in Requests /\ StockOK(h.req)'
    BY <1>5, <2>1, CommittedStock DEF Calls
  <2>3. \A q \in Requests : q # h.req =>
          status'[q] = status[q] /\ debit'[q] = debit[q] /\ credit'[q] = credit[q]
    BY <1>2, <1>5, <2>1 DEF CommitTransition, RequestsInv, RequestsTypeOK, MoveStock,
       Ship, Deliver, BookPurchase, Book, stockVars
  <2>4. /\ debit' = [r \in Requests |-> debit'[r]]
        /\ credit' = [r \in Requests |-> credit'[r]]
    BY <1>2, <1>5 DEF CommitTransition, MoveStock, Ship, Deliver, BookPurchase, Book,
       stockVars
  <2> QED  BY <1>1, <1>2, <2>2, <2>3, <2>4, UntouchedStock
<1>6. ASSUME NEW t \in Threads, CommitMarkLine(t)  PROVE ByComponents
  BY <1>3, <1>6 DEF CommitMarkLine, stockVars
<1>7. ASSUME NEW t \in Threads, NEW r \in Requests, NEW to \in Statuses,
             NEW role \in Roles, LoadTransition(t, r, to, role)
      PROVE  ByComponents
  BY <1>3, <1>7 DEF LoadTransition, requestVars, stockVars
<1>8. ASSUME NEW t \in Threads, NEW r \in Requests, NEW l \in Lines,
             LoadMarkLine(t, r, l)
      PROVE  ByComponents
  BY <1>3, <1>8 DEF LoadMarkLine, requestVars, stockVars
<1>9. ASSUME NEW t \in Threads, GiveUp(t)  PROVE ByComponents
  BY <1>3, <1>9 DEF GiveUp, requestVars, stockVars
<1>10. ASSUME EnableKitchen  PROVE ByComponents
  BY <1>3, <1>10 DEF EnableKitchen, requestVars, stockVars
<1>11. ASSUME NextDay  PROVE ByComponents
  BY <1>3, <1>11 DEF NextDay, requestVars, stockVars
<1>12. ASSUME UNCHANGED vars  PROVE ByComponents
  BY <1>3, <1>12 DEF vars, requestVars, stockVars
<1>13. ByComponents
  BY <1>4, <1>5, <1>6, <1>7, <1>8, <1>9, <1>10, <1>11, <1>12 DEF Next
<1> QED  BY <1>13 DEF StockInv, StockOK, MovementsFollowStatus, ShippedWhatWasApproved,
             DeliveryKeepsLots

LEMMA StockInvariant == Spec => []StockInv
<1>1. Init => StockInv
  BY MarkerAssumption
  DEF Init, StockInv, NoGoods, EmptyBin, Bins, MovementsFollowStatus,
      ShippedWhatWasApproved, DeliveryKeepsLots, Shipped, Statuses
<1>2. RequestsInv /\ StockInv /\ [Next]_vars => StockInv'
  BY NextStock
<1> QED  BY <1>1, <1>2, RequestsInvariant, PTL DEF Spec

\* Goods leave with DISPATCHED and arrive with RECEIVED, once each.
THEOREM MovementsAreOnce == Spec => []MovementsFollowStatus
<1>1. StockInv => MovementsFollowStatus
  BY DEF StockInv
<1> QED  BY <1>1, StockInvariant, PTL

\* What left is exactly what the committed lines say was approved.
THEOREM ShipmentsAreApproved == Spec => []ShippedWhatWasApproved
<1>1. StockInv => ShippedWhatWasApproved
  BY DEF StockInv
<1> QED  BY <1>1, StockInvariant, PTL

\* A kitchen or warehouse is credited with exactly the lots that left.
THEOREM DeliveriesKeepLots == Spec => []DeliveryKeepsLots
<1>1. StockInv => DeliveryKeepsLots
  BY DEF StockInv
<1> QED  BY <1>1, StockInvariant, PTL

--------------------------------------------------------------------------------
(* The goods are conserved *)

\* What a request adds to the goods on the road, and to what was bought.
Transit(r, p) ==
  IF MovesStock(r) /\ status[r] = "DISPATCHED" THEN Total(debit[r][p]) ELSE 0
Bought(r, p) ==
  IF Type(r) = "WAREHOUSE_TO_ADMIN_PO" THEN Total(credit[r][p]) ELSE 0

DeliveryDropsBatches ==
  \A r \in Requests :
    MovesStock(r) /\ status[r] = "RECEIVED" /\ Doc[r].source \in Branches =>
      \A p \in Products : credit[r][p] = WithoutBatch(debit[r][p])

GoodsInv ==
  /\ StockTypeOK
  /\ DeliveryDropsBatches
  /\ PurchaseWithinApproval
  /\ Conservation

\* One request moves: the totals change by what it held and holds.
LEMMA TransitChange ==
  ASSUME StockTypeOK, StockTypeOK', NEW r \in Requests, NEW p \in Products,
         \A q \in Requests \ {r} : status'[q] = status[q] /\ debit'[q] = debit[q]
  PROVE  /\ InTransit(p) \in Int /\ Transit(r, p) \in Nat /\ Transit(r, p)' \in Nat
         /\ InTransit(p)' = InTransit(p) - Transit(r, p) + Transit(r, p)'
<1> DEFINE all == [q \in Requests |-> Total(debit[q][p])]
           all2 == [q \in Requests |-> Total(debit'[q][p])]
           road == {q \in Requests : MovesStock(q) /\ status[q] = "DISPATCHED"}
           road2 == {q \in Requests : MovesStock(q) /\ status'[q] = "DISPATCHED"}
           own == [q \in Requests |-> Transit(q, p)]
           own2 == [q \in Requests |-> Transit(q, p)']
<1>1. \A q \in Requests : Total(debit[q][p]) \in Nat /\ Total(debit'[q][p]) \in Nat
  BY TotalIsNat DEF StockTypeOK
<1>2. \A q \in Requests : /\ own[q] \in Nat /\ own2[q] \in Nat
                          /\ own[q] \in Int /\ own2[q] \in Int
  BY <1>1 DEF Transit, MovesStock, Type
<1>3. \A q \in Requests \ {r} : own2[q] = own[q]
  BY DEF Transit, MovesStock, Type
<1>4. /\ road \in SUBSET Requests /\ road2 \in SUBSET Requests
      /\ \A q \in road : all[q] \in Int /\ own[q] = all[q]
      /\ \A q \in Requests \ road : own[q] = 0
      /\ \A q \in road2 : all2[q] \in Int /\ own2[q] = all2[q]
      /\ \A q \in Requests \ road2 : own2[q] = 0
  BY <1>1 DEF Transit, MovesStock, Type
<1>5. InTransit(p) = SumOver(all, road) /\ InTransit(p)' = SumOver(all2, road2)
  BY DEF InTransit, MovesStock, Type
<1>6. Transit(r, p) = own[r] /\ Transit(r, p)' = own2[r]
  OBVIOUS
<1> HIDE DEF all, all2, road, road2, own, own2
<1>7. SumOver(all, road) = SumOver(own, Requests)
  BY <1>4, FiniteAssumption, SumOfPart
<1>8. SumOver(all2, road2) = SumOver(own2, Requests)
  BY <1>4, FiniteAssumption, SumOfPart
<1>9. SumOver(own2, Requests) = SumOver(own, Requests) - own[r] + own2[r]
  BY <1>2, <1>3, FiniteAssumption, SumChange
<1>10. SumOver(own, Requests) \in Int
  BY <1>2, FiniteAssumption, SumIsInt
<1> QED  BY <1>2, <1>5, <1>6, <1>7, <1>8, <1>9, <1>10

LEMMA PurchasedChange ==
  ASSUME StockTypeOK, StockTypeOK', NEW r \in Requests, NEW p \in Products,
         \A q \in Requests \ {r} : credit'[q] = credit[q]
  PROVE  /\ Purchased(p) \in Int /\ Bought(r, p) \in Nat /\ Bought(r, p)' \in Nat
         /\ Purchased(p)' = Purchased(p) - Bought(r, p) + Bought(r, p)'
<1> DEFINE all == [q \in Requests |-> Total(credit[q][p])]
           all2 == [q \in Requests |-> Total(credit'[q][p])]
           orders == {q \in Requests : Type(q) = "WAREHOUSE_TO_ADMIN_PO"}
           own == [q \in Requests |-> Bought(q, p)]
           own2 == [q \in Requests |-> Bought(q, p)']
<1>1. \A q \in Requests : Total(credit[q][p]) \in Nat /\ Total(credit'[q][p]) \in Nat
  BY TotalIsNat DEF StockTypeOK
<1>2. \A q \in Requests : /\ own[q] \in Nat /\ own2[q] \in Nat
                          /\ own[q] \in Int /\ own2[q] \in Int
  BY <1>1 DEF Bought, Type
<1>3. \A q \in Requests \ {r} : own2[q] = own[q]
  BY DEF Bought, Type
<1>4. /\ orders \in SUBSET Requests
      /\ \A q \in orders : all[q] \in Int /\ own[q] = all[q]
      /\ \A q \in orders : all2[q] \in Int /\ own2[q] = all2[q]
      /\ \A q \in Requests \ orders : own[q] = 0 /\ own2[q] = 0
  BY <1>1 DEF Bought, Type
<1>5. Purchased(p) = SumOver(all, orders) /\ Purchased(p)' = SumOver(all2, orders)
  BY DEF Purchased, Type
<1>6. Bought(r, p) = own[r] /\ Bought(r, p)' = own2[r]
  OBVIOUS
<1> HIDE DEF all, all2, orders, own, own2
<1>7. SumOver(all, orders) = SumOver(own, Requests)
  BY <1>4, FiniteAssumption, SumOfPart
<1>8. SumOver(all2, orders) = SumOver(own2, Requests)
  BY <1>4, FiniteAssumption, SumOfPart
<1>9. SumOver(own2, Requests) = SumOver(own, Requests) - own[r] + own2[r]
  BY <1>2, <1>3, FiniteAssumption, SumChange
<1>10. SumOver(own, Requests) \in Int
  BY <1>2, FiniteAssumption, SumIsInt
<1> QED  BY <1>2, <1>5, <1>6, <1>7, <1>8, <1>9, <1>10

LEMMA OnHandChange ==
  ASSUME StockTypeOK, StockTypeOK', NEW place \in Locations, NEW p \in Products,
         \A other \in Locations \ {place} : stock'[other] = stock[other]
  PROVE  /\ OnHand(p, stock) \in Int
         /\ Total(stock[place][p]) \in Nat /\ Total(stock'[place][p]) \in Nat
         /\ OnHand(p, stock)' = OnHand(p, stock) - Total(stock[place][p])
                                  + Total(stock'[place][p])
<1> DEFINE own == [q \in Locations |-> Total(stock[q][p])]
           own2 == [q \in Locations |-> Total(stock'[q][p])]
<1>1. \A q \in Locations : /\ own[q] \in Nat /\ own2[q] \in Nat
                           /\ own[q] \in Int /\ own2[q] \in Int
  BY TotalIsNat DEF StockTypeOK
<1>2. \A q \in Locations \ {place} : own2[q] = own[q]
  OBVIOUS
<1>3. OnHand(p, stock) = SumOver(own, Locations) /\ OnHand(p, stock)' = SumOver(own2, Locations)
  BY DEF OnHand
<1>4. own[place] = Total(stock[place][p]) /\ own2[place] = Total(stock'[place][p])
  OBVIOUS
<1> HIDE DEF own, own2
<1>5. SumOver(own2, Locations) = SumOver(own, Locations) - own[place] + own2[place]
  BY <1>1, <1>2, FiniteAssumption, SumChange
<1>6. SumOver(own, Locations) \in Int
  BY <1>1, FiniteAssumption, SumIsInt
<1> QED  BY <1>1, <1>3, <1>4, <1>5, <1>6

\* Goods booked for a request arrive at its source and in its movements.
LEMMA BookStep ==
  ASSUME StockTypeOK, NEW r \in Requests, NEW goods \in [Products -> Bins], Book(r, goods)
  PROVE  /\ StockTypeOK'
         /\ debit' = debit
         /\ \A q \in Requests \ {r} : credit'[q] = credit[q]
         /\ \A p \in Products :
              /\ credit'[r][p] = Plus(credit[r][p], goods[p])
              /\ Total(credit'[r][p]) = Total(credit[r][p]) + Total(goods[p])
              /\ Total(goods[p]) \in Nat
              /\ OnHand(p, stock)' = OnHand(p, stock) + Total(goods[p])
<1> DEFINE place == Doc[r].source
           booked == [p \in Products |-> Plus(credit[r][p], goods[p])]
           stored == [p \in Products |-> Plus(stock[place][p], goods[p])]
<1> USE DEF StockTypeOK
<1>1. place \in Locations
  BY DocAssumption
<1>2. /\ stock' = [stock EXCEPT ![place] = stored]
      /\ credit' = [credit EXCEPT ![r] = booked]
      /\ debit' = debit
  BY DEF Book
<1>3. stored \in [Products -> Bins] /\ booked \in [Products -> Bins]
  BY <1>1, PlusIsBin
<1> HIDE DEF stored, booked, place
<1>4. StockTypeOK'
  BY <1>1, <1>2, <1>3
<1>5. \A q \in Requests \ {r} : credit'[q] = credit[q]
  BY <1>2
<1>6. ASSUME NEW p \in Products
      PROVE  /\ credit'[r][p] = Plus(credit[r][p], goods[p])
             /\ Total(credit'[r][p]) = Total(credit[r][p]) + Total(goods[p])
             /\ Total(goods[p]) \in Nat
             /\ OnHand(p, stock)' = OnHand(p, stock) + Total(goods[p])
  <2>1. credit'[r][p] = Plus(credit[r][p], goods[p])
    BY <1>2 DEF booked
  <2>2. stock'[place][p] = Plus(stock[place][p], goods[p])
    BY <1>1, <1>2 DEF stored
  <2>3. \A q \in Locations \ {place} : stock'[q] = stock[q]
    BY <1>2
  <2>4. Total(stock'[place][p]) = Total(stock[place][p]) + Total(goods[p])
    BY <1>1, <2>2, TotalOfPlus
  <2>5. Total(credit'[r][p]) = Total(credit[r][p]) + Total(goods[p])
    BY <2>1, TotalOfPlus
  <2>6. Total(goods[p]) \in Nat
    BY TotalIsNat
  <2>7. /\ OnHand(p, stock) \in Int /\ Total(stock[place][p]) \in Nat
        /\ OnHand(p, stock)' = OnHand(p, stock) - Total(stock[place][p])
                                 + Total(stock'[place][p])
    BY <1>1, <1>4, <2>3, OnHandChange
  <2>8. \A a, b, c \in Int : a - b + (b + c) = a + c
    OBVIOUS
  <2> QED  BY <2>1, <2>4, <2>5, <2>6, <2>7, <2>8
<1> QED  BY <1>2, <1>4, <1>5, <1>6

\* A shipment leaves one place and is the request's movement.
LEMMA ShipStep ==
  ASSUME StockTypeOK, NEW h \in Calls, debit[h.req] = NoGoods, Ship(h)
  PROVE  /\ StockTypeOK'
         /\ credit' = credit
         /\ \A q \in Requests \ {h.req} : debit'[q] = debit[q]
         /\ \A p \in Products :
              /\ Total(debit'[h.req][p]) \in Nat
              /\ OnHand(p, stock)' = OnHand(p, stock) - Total(debit'[h.req][p])
<1> DEFINE r == h.req
           from == h.target
           q(p) == ApprovedOf(r, h.lines, p)
           take == [p \in Products |-> FefoTake(stock[from][p], q(p), today)]
           left == [p \in Products |-> Minus(stock[from][p], take[p])]
           gone == [p \in Products |-> Plus(debit[r][p], take[p])]
<1> USE DEF StockTypeOK
<1>1. r \in Requests /\ from \in Locations
  BY DEF Ship, DispatchSources, Locations, Calls
<1>2. /\ \A p \in Products : FefoDraws(stock[from][p], q(p), today) # {}
      /\ stock' = [stock EXCEPT ![from] = left]
      /\ debit' = [debit EXCEPT ![r] = gone]
      /\ credit' = credit
  BY DEF Ship
<1>3. \A p \in Products : /\ take[p] \in Bins /\ Total(take[p]) = q(p)
                          /\ Minus(stock[from][p], take[p]) \in Bins
                          /\ Total(Minus(stock[from][p], take[p]))
                               = Total(stock[from][p]) - q(p)
  BY <1>1, <1>2, DrawIsExact, DrawLeavesABin
<1>4. \A p \in Products : gone[p] = take[p]
  BY <1>3, PlusNothing DEF NoGoods
<1>5. left \in [Products -> Bins] /\ gone \in [Products -> Bins]
  <2>1. \A p \in Products : gone[p] \in Bins
    BY <1>3, <1>4
  <2> QED  BY <1>3, <2>1
<1>6. \A p \in Products : Total(left[p]) = Total(stock[from][p]) - Total(gone[p])
  BY <1>3, <1>4
<1> HIDE DEF q, take, left, gone, from
<1>7. StockTypeOK'
  BY <1>1, <1>2, <1>5
<1>8. ASSUME NEW p \in Products
      PROVE  /\ Total(debit'[r][p]) \in Nat
             /\ OnHand(p, stock)' = OnHand(p, stock) - Total(debit'[r][p])
  <2>1. debit'[r][p] = gone[p] /\ stock'[from][p] = left[p]
    BY <1>1, <1>2
  <2>2. \A place \in Locations \ {from} : stock'[place] = stock[place]
    BY <1>2
  <2>3. Total(gone[p]) \in Nat
    BY <1>5, TotalIsNat
  <2>4. /\ OnHand(p, stock) \in Int /\ Total(stock[from][p]) \in Nat
        /\ OnHand(p, stock)' = OnHand(p, stock) - Total(stock[from][p])
                                 + Total(stock'[from][p])
    BY <1>1, <1>7, <2>2, OnHandChange
  <2>5. \A a, b, c \in Int : a - b + (b - c) = a - c
    OBVIOUS
  <2> QED  BY <1>6, <2>1, <2>3, <2>4, <2>5
<1> QED  BY <1>1, <1>2, <1>7, <1>8

\* What a purchase order books: no more than was approved.
LEMMA CountsAreNumbers ==
  ASSUME NEW r \in Requests, NEW rows \in [Lines -> LineRows], NEW p
  PROVE  /\ \A l \in Lines : Approved(r, rows, l) \in Nat /\ Counted(r, rows, l) \in Nat
         /\ ApprovedOf(r, rows, p) \in Nat /\ CountedOf(r, rows, p) \in Nat
<1>1. \A l \in Lines : Approved(r, rows, l) \in Nat /\ Counted(r, rows, l) \in Nat
  BY DocAssumption, BoundAssumption
  DEF Approved, Counted, LineRows, Quantities, Amounts
<1>2. LinesOf(r, p) \in SUBSET Lines /\ IsFiniteSet(LinesOf(r, p))
  <2>1. LinesOf(r, p) \in SUBSET Lines
    BY DEF LinesOf
  <2> QED  BY <2>1, FiniteAssumption, FS_Subset
<1> DEFINE approved == [l \in Lines |-> Approved(r, rows, l)]
           counted == [l \in Lines |-> Counted(r, rows, l)]
<1>3. \A l \in LinesOf(r, p) : approved[l] \in Nat /\ counted[l] \in Nat
  BY <1>1, <1>2
<1> HIDE DEF approved, counted
<1>4. SumOver(approved, LinesOf(r, p)) \in Nat /\ SumOver(counted, LinesOf(r, p)) \in Nat
  BY <1>2, <1>3, SumNotNegative
<1> QED  BY <1>1, <1>4 DEF ApprovedOf, CountedOf, approved, counted

LEMMA CountWithinApproval ==
  ASSUME NEW h \in Calls, WithinBounds(h), NEW p
  PROVE  CountedOf(h.req, h.lines, p) <= ApprovedOf(h.req, h.lines, p)
<1> DEFINE r == h.req
           approved == [l \in Lines |-> Approved(r, h.lines, l)]
           counted == [l \in Lines |-> Counted(r, h.lines, l)]
<1>1. r \in Requests /\ h.lines \in [Lines -> LineRows]
  BY DEF Calls
<1>2. LinesOf(r, p) \in SUBSET Lines /\ IsFiniteSet(LinesOf(r, p))
  <2>1. LinesOf(r, p) \in SUBSET Lines
    BY DEF LinesOf
  <2> QED  BY <2>1, FiniteAssumption, FS_Subset
<1>3. \A l \in Lines : Approved(r, h.lines, l) \in Nat /\ Counted(r, h.lines, l) \in Nat
  BY <1>1, CountsAreNumbers
<1>4. \A l \in Lines : Counted(r, h.lines, l) <= Approved(r, h.lines, l)
  BY <1>3 DEF WithinBounds, Counted
<1>5. \A l \in LinesOf(r, p) : approved[l] \in Int /\ counted[l] \in Int
                               /\ counted[l] <= approved[l]
  BY <1>2, <1>3, <1>4
<1> HIDE DEF approved, counted
<1>6. SumOver(counted, LinesOf(r, p)) <= SumOver(approved, LinesOf(r, p))
  BY <1>2, <1>5, SumLess
<1> QED  BY <1>6 DEF ApprovedOf, CountedOf, approved, counted

\* One lot put in an empty bin.
LEMMA PutInNothing ==
  ASSUME NEW lot \in Lots, NEW q \in Nat
  PROVE  PutIn(EmptyBin, lot, q) \in Bins /\ Total(PutIn(EmptyBin, lot, q)) = q
<1> DEFINE bin == PutIn(EmptyBin, lot, q)
<1>1. bin \in Bins /\ bin[lot] = q /\ \A other \in Lots \ {lot} : bin[other] = EmptyBin[other]
  BY DEF PutIn, EmptyBin, Bins
<1>2. /\ \A other \in Lots : EmptyBin[other] \in Int /\ bin[other] \in Int
      /\ EmptyBin[lot] = 0
  BY <1>1 DEF EmptyBin, Bins
<1> HIDE DEF bin
<1>3. SumOver(bin, Lots) = SumOver(EmptyBin, Lots) - EmptyBin[lot] + bin[lot]
  BY <1>1, <1>2, LotsAreFinite, SumChange
<1>4. SumOver(EmptyBin, Lots) = 0
  BY TotalOfNothing DEF Total
<1> QED  BY <1>1, <1>2, <1>3, <1>4 DEF bin, Total

\* The committing request: what it ships, delivers or buys balances the books.
LEMMA CommittedGoods ==
  ASSUME RequestsInv, StockInv, GoodsInv, NEW t \in Threads, CommitTransition(t),
         NEW h \in Calls, call[t] = h
  PROVE  /\ StockTypeOK'
         /\ \A p \in Products : OnHand(p, stock)' + InTransit(p)' - Purchased(p)'
                                  = OnHand(p, stock) + InTransit(p) - Purchased(p)
         /\ (MovesStock(h.req) /\ status[h.req] = "RECEIVED" /\ Doc[h.req].source \in Branches
               => \A p \in Products : credit[h.req][p] = WithoutBatch(debit[h.req][p]))'
         /\ (Type(h.req) = "WAREHOUSE_TO_ADMIN_PO" =>
               \A p \in Products : Total(credit[h.req][p]) <= ApprovedOf(h.req, line[h.req], p))'
<1> DEFINE r == h.req
<1>1. /\ r \in Requests /\ CallOK(h) /\ Type(r) \in RequestTypes
      /\ status[r] = h.from /\ status'[r] = h.to /\ MoveStock(h)
      /\ \A q \in Requests \ {r} : status'[q] = status[q]
      /\ \A l \in Lines : h.lines[l] \in LineRows
      /\ h.lines \in [Lines -> LineRows] /\ h.lot \in Lots
      /\ line'[r] = MergedRows(h)
  BY DocAssumption DEF CommitTransition, StatusUnchanged, CallsOK, Calls,
     RequestsInv, RequestsTypeOK, Type
<1>2. /\ h.from # "RECEIVED"
      /\ MovesStock(r) => (h.from = "DISPATCHED" <=> h.to = "RECEIVED")
      /\ h.to \in {"DISPATCHED", "RECEIVED"} => h.from # "PENDING" /\ h.from # Absent
  <2>1. Edge(Type(r), h.from, h.to)
    BY <1>1 DEF CallOK, FollowsTable, CommitTransition
  <2>2. h.from \in Statuses
    BY DEF Calls
  <2> QED  BY <1>1, <2>1, <2>2, EdgeFacts, MarkerAssumption
           DEF MovesStock, ApprovalStatuses
<1>3. /\ StockOK(r) /\ credit[r] = NoGoods
      /\ h.from # "DISPATCHED" => (MovesStock(r) => debit[r] = NoGoods)
      /\ StockTypeOK /\ debit[r] \in [Products -> Bins]
      /\ RequestsTypeOK' /\ line[r] \in [Lines -> LineRows] /\ line'[r] \in [Lines -> LineRows]
  <2>1. RequestsTypeOK'
    BY NextRequests DEF Next, RequestsInv
  <2> QED  BY <1>1, <1>2, <2>1, StockInvIsPointwise
           DEF StockOK, Shipped, GoodsInv, RequestsInv, RequestsTypeOK
<1>4. h.from # "PENDING" =>
        \A p \in Products : ApprovedOf(r, line[r], p)' = ApprovedOf(r, h.lines, p)
  <2> SUFFICES ASSUME h.from # "PENDING", NEW p \in Products
               PROVE  ApprovedOf(r, line'[r], p) = ApprovedOf(r, h.lines, p)
    BY DEF ApprovedOf, Approved, LinesOf
  <2>1. \A l \in Lines : line'[r][l].approved = h.lines[l].approved
    BY <1>1, CommittedRows
  <2> QED  BY <1>1, <2>1, SameApprovals
<1>5. \A p \in Products :
        /\ Total(EmptyBin) = 0
        /\ ApprovedOf(r, line[r], p)' \in Nat
        /\ Transit(r, p) = IF MovesStock(r) /\ h.from = "DISPATCHED"
                           THEN Total(debit[r][p]) ELSE 0
        /\ Transit(r, p)' = IF MovesStock(r) /\ h.to = "DISPATCHED"
                            THEN Total(debit'[r][p]) ELSE 0
        /\ Bought(r, p) = IF Type(r) = "WAREHOUSE_TO_ADMIN_PO"
                          THEN Total(credit[r][p]) ELSE 0
        /\ Bought(r, p)' = IF Type(r) = "WAREHOUSE_TO_ADMIN_PO"
                           THEN Total(credit'[r][p]) ELSE 0
  <2> SUFFICES ASSUME NEW p \in Products PROVE ApprovedOf(r, line[r], p)' \in Nat
    BY <1>1, TotalOfNothing DEF Transit, Bought, MovesStock, Type
  <2>1. ApprovedOf(r, line'[r], p) \in Nat
    BY <1>1, <1>3, CountsAreNumbers
  <2> QED  BY <2>1 DEF ApprovedOf, Approved, LinesOf
\* The books balance when the goods, the road and the purchases move together.
<1>6. ASSUME NEW p \in Products, StockTypeOK',
             \A q \in Requests \ {r} : debit'[q] = debit[q] /\ credit'[q] = credit[q],
             OnHand(p, stock) \in Int, OnHand(p, stock)' \in Int,
             OnHand(p, stock)' + Transit(r, p)' - Bought(r, p)'
               = OnHand(p, stock) + Transit(r, p) - Bought(r, p)
      PROVE  OnHand(p, stock)' + InTransit(p)' - Purchased(p)'
               = OnHand(p, stock) + InTransit(p) - Purchased(p)
  <2>1. /\ InTransit(p) \in Int /\ Transit(r, p) \in Nat /\ Transit(r, p)' \in Nat
        /\ InTransit(p)' = InTransit(p) - Transit(r, p) + Transit(r, p)'
    BY <1>1, <1>3, <1>6, TransitChange
  <2>2. /\ Purchased(p) \in Int /\ Bought(r, p) \in Nat /\ Bought(r, p)' \in Nat
        /\ Purchased(p)' = Purchased(p) - Bought(r, p) + Bought(r, p)'
    BY <1>1, <1>3, <1>6, PurchasedChange
  <2>3. \A a, b, c, d, e, f, g, k \in Int :
          a + c - e = b + d - f =>
            a + (g - d + c) - (k - f + e) = b + g - k
    OBVIOUS
  <2> QED  BY <1>6, <2>1, <2>2, <2>3
<1>7. \A p \in Products : OnHand(p, stock) \in Int
  <2>1. \A place \in Locations : \A p \in Products : Total(stock[place][p]) \in Nat
    BY <1>3, TotalIsNat DEF StockTypeOK
  <2> SUFFICES ASSUME NEW p \in Products PROVE OnHand(p, stock) \in Int
    OBVIOUS
  <2> DEFINE own == [place \in Locations |-> Total(stock[place][p])]
  <2>2. \A place \in Locations : own[place] \in Int
    BY <2>1
  <2> HIDE DEF own
  <2>3. SumOver(own, Locations) \in Int
    BY <2>2, FiniteAssumption, SumIsInt
  <2> QED  BY <2>3 DEF OnHand, own
<1>8. CASE Ships(h)
  <2>1. Ship(h) /\ h.to = "DISPATCHED" /\ MovesStock(r)
    BY <1>1, <1>8 DEF MoveStock, Ships, Delivers, BooksPurchase, MovesStock
  <2>2. debit[r] = NoGoods /\ h.from # "DISPATCHED" /\ Type(r) # "WAREHOUSE_TO_ADMIN_PO"
    BY <1>2, <1>3, <2>1 DEF MovesStock
  <2>3. /\ StockTypeOK' /\ credit' = credit
        /\ \A q \in Requests \ {r} : debit'[q] = debit[q]
        /\ \A p \in Products : /\ Total(debit'[r][p]) \in Nat
                               /\ OnHand(p, stock)' = OnHand(p, stock) - Total(debit'[r][p])
    BY <1>3, <2>1, <2>2, ShipStep
  <2>4. ASSUME NEW p \in Products
        PROVE  /\ OnHand(p, stock)' \in Int
               /\ OnHand(p, stock)' + Transit(r, p)' - Bought(r, p)'
                    = OnHand(p, stock) + Transit(r, p) - Bought(r, p)
    <3>1. Transit(r, p) = 0 /\ Bought(r, p) = 0 /\ Bought(r, p)' = 0
          /\ Transit(r, p)' = Total(debit'[r][p])
      BY <1>5, <2>1, <2>2
    <3>2. \A a, b \in Int : (a - b) + b - 0 = a + 0 - 0 /\ a - b \in Int
      OBVIOUS
    <3> QED  BY <1>7, <2>3, <3>1, <3>2
  <2>5. \A p \in Products : OnHand(p, stock)' + InTransit(p)' - Purchased(p)'
                              = OnHand(p, stock) + InTransit(p) - Purchased(p)
    BY <1>6, <1>7, <2>3, <2>4
  <2> QED  BY <1>1, <2>1, <2>2, <2>3, <2>5 DEF MovesStock, Type
<1>9. CASE Delivers(h)
  <2>1. /\ Book(r, Replayed(r)) /\ h.to = "RECEIVED" /\ MovesStock(r) /\ h.from = "DISPATCHED"
        /\ Type(r) # "WAREHOUSE_TO_ADMIN_PO"
    BY <1>1, <1>2, <1>9
    DEF MoveStock, Deliver, Ships, Delivers, BooksPurchase, MovesStock
  <2>2. /\ Replayed(r) \in [Products -> Bins]
        /\ \A p \in Products : Total(Replayed(r)[p]) = Total(debit[r][p])
    BY <1>3, TotalWithoutBatch DEF Replayed
  <2>3. /\ StockTypeOK' /\ debit' = debit
        /\ \A q \in Requests \ {r} : credit'[q] = credit[q]
        /\ \A p \in Products :
             /\ credit'[r][p] = Plus(credit[r][p], Replayed(r)[p])
             /\ Total(Replayed(r)[p]) \in Nat
             /\ OnHand(p, stock)' = OnHand(p, stock) + Total(Replayed(r)[p])
    BY <1>1, <1>3, <2>1, <2>2, BookStep
  <2>4. ASSUME NEW p \in Products
        PROVE  /\ OnHand(p, stock)' \in Int
               /\ OnHand(p, stock)' + Transit(r, p)' - Bought(r, p)'
                    = OnHand(p, stock) + Transit(r, p) - Bought(r, p)
    <3>1. Transit(r, p)' = 0 /\ Bought(r, p) = 0 /\ Bought(r, p)' = 0
          /\ Transit(r, p) = Total(debit[r][p])
      BY <1>5, <2>1
    <3>2. \A a, b \in Int : (a + b) + 0 - 0 = a + b - 0 /\ a + b \in Int
      OBVIOUS
    <3> QED  BY <1>7, <2>2, <2>3, <3>1, <3>2
  <2>5. \A p \in Products : OnHand(p, stock)' + InTransit(p)' - Purchased(p)'
                              = OnHand(p, stock) + InTransit(p) - Purchased(p)
    BY <1>6, <1>7, <2>3, <2>4
  <2>6. ASSUME Doc[r].source \in Branches, NEW p \in Products
        PROVE  credit'[r][p] = WithoutBatch(debit'[r][p])
    <3>1. Replayed(r)[p] = WithoutBatch(debit[r][p]) /\ credit[r][p] = EmptyBin
      BY <1>3, <2>6 DEF Replayed, NoGoods
    <3>2. WithoutBatch(debit[r][p]) \in Bins
      BY <1>3, TotalWithoutBatch
    <3> QED  BY <2>3, <3>1, <3>2, PlusNothing
  <2> QED  BY <1>1, <2>1, <2>3, <2>5, <2>6 DEF MovesStock, Type
<1>10. CASE BooksPurchase(h)
  <2> DEFINE goods == [p \in Products |-> PutIn(EmptyBin, h.lot, CountedOf(r, h.lines, p))]
  <2>1. /\ Book(r, goods) /\ h.to = "RECEIVED" /\ ~MovesStock(r)
        /\ Type(r) = "WAREHOUSE_TO_ADMIN_PO"
    BY <1>1, <1>10
    DEF MoveStock, BookPurchase, Ships, Delivers, BooksPurchase, MovesStock
  <2>2. \A p \in Products : CountedOf(r, h.lines, p) \in Nat
    BY <1>1, CountsAreNumbers
  <2>3. /\ goods \in [Products -> Bins]
        /\ \A p \in Products : Total(goods[p]) = CountedOf(r, h.lines, p)
    BY <1>1, <2>2, PutInNothing
  <2> HIDE DEF goods
  <2>4. /\ StockTypeOK' /\ debit' = debit
        /\ \A q \in Requests \ {r} : credit'[q] = credit[q]
        /\ \A p \in Products :
             /\ Total(credit'[r][p]) = Total(credit[r][p]) + Total(goods[p])
             /\ OnHand(p, stock)' = OnHand(p, stock) + Total(goods[p])
    BY <1>1, <1>3, <2>1, <2>3, BookStep
  <2>5. \A p \in Products : Total(credit[r][p]) = 0
    BY <1>3, TotalOfNothing DEF NoGoods
  <2>6. ASSUME NEW p \in Products
        PROVE  /\ OnHand(p, stock)' \in Int
               /\ OnHand(p, stock)' + Transit(r, p)' - Bought(r, p)'
                    = OnHand(p, stock) + Transit(r, p) - Bought(r, p)
    <3>1. Transit(r, p)' = 0 /\ Transit(r, p) = 0 /\ Bought(r, p) = 0
          /\ Bought(r, p)' = Total(goods[p]) /\ Total(goods[p]) \in Int
      BY <1>5, <2>1, <2>2, <2>3, <2>4, <2>5
    <3>2. \A a, b \in Int : (a + b) + 0 - b = a + 0 - 0 /\ a + b \in Int
      OBVIOUS
    <3> QED  BY <1>7, <2>4, <3>1, <3>2
  <2>7. \A p \in Products : OnHand(p, stock)' + InTransit(p)' - Purchased(p)'
                              = OnHand(p, stock) + InTransit(p) - Purchased(p)
    BY <1>6, <1>7, <2>4, <2>6
  <2>8. ASSUME NEW p \in Products
        PROVE  Total(credit'[r][p]) <= ApprovedOf(r, line[r], p)'
    <3>1. CountedOf(r, h.lines, p) <= ApprovedOf(r, h.lines, p)
      BY <1>1, CountWithinApproval DEF CallOK
    <3>2. ApprovedOf(r, line[r], p)' = ApprovedOf(r, h.lines, p)
      BY <1>2, <1>4, <2>1
    <3>3. Total(credit'[r][p]) = CountedOf(r, h.lines, p)
      BY <2>2, <2>3, <2>4, <2>5
    <3> QED  BY <3>1, <3>2, <3>3
  <2> QED  BY <1>1, <2>1, <2>4, <2>7, <2>8 DEF MovesStock, Type
<1>11. CASE ~Ships(h) /\ ~Delivers(h) /\ ~BooksPurchase(h)
  <2>1. stock' = stock /\ debit' = debit /\ credit' = credit
    BY <1>1, <1>11 DEF MoveStock, stockVars
  <2>2. MovesStock(r) => h.to \notin {"DISPATCHED", "RECEIVED"} /\ h.from # "DISPATCHED"
    BY <1>2, <1>11 DEF Ships, Delivers, MovesStock
  <2>3. StockTypeOK' /\ \A p \in Products : OnHand(p, stock)' = OnHand(p, stock)
    BY <1>3, <2>1 DEF StockTypeOK, OnHand
  <2>4. \A p \in Products : /\ Transit(r, p)' = 0 /\ Transit(r, p) = 0
                            /\ Bought(r, p)' = Bought(r, p)
                            /\ Total(credit'[r][p]) = 0
    BY <1>3, <1>5, <2>1, <2>2 DEF NoGoods
  <2>5. \A p \in Products : OnHand(p, stock)' + InTransit(p)' - Purchased(p)'
                              = OnHand(p, stock) + InTransit(p) - Purchased(p)
    BY <1>6, <1>7, <2>1, <2>3, <2>4
  <2>6. \A p \in Products : Total(credit'[r][p]) <= ApprovedOf(r, line[r], p)'
    BY <1>5, <2>4
  <2> QED  BY <1>1, <2>2, <2>3, <2>5, <2>6 DEF MovesStock, Type
<1> QED  BY <1>8, <1>9, <1>10, <1>11

\* A request a step leaves alone stays within its approval.
LEMMA UntouchedGoods ==
  ASSUME RequestsInv, StockInv, GoodsInv, Steady, RequestsTypeOK', NEW r \in Requests,
         credit'[r] = credit[r], Type(r) = "WAREHOUSE_TO_ADMIN_PO", NEW p \in Products
  PROVE  (Total(credit[r][p]) <= ApprovedOf(r, line[r], p))'
<1>1. ApprovedOf(r, line[r], p)' = ApprovedOf(r, line'[r], p)
  BY DEF ApprovedOf, Approved, LinesOf
<1>2. CASE status[r] \in {Absent, "PENDING"}
  <2>1. credit'[r] = NoGoods
    BY <1>2, StockInvIsPointwise, MarkerAssumption DEF StockOK, Statuses
  <2>2. ApprovedOf(r, line'[r], p) \in Nat
    <3>1. line'[r] \in [Lines -> LineRows]
      BY DEF RequestsTypeOK
    <3> QED  BY <3>1, CountsAreNumbers
  <2> QED  BY <1>1, <2>1, <2>2, TotalOfNothing DEF NoGoods
<1>3. CASE status[r] \notin {Absent, "PENDING"}
  <2>1. \A l \in Lines : line'[r][l].approved = line[r][l].approved
    BY <1>3 DEF Steady
  <2>2. ApprovedOf(r, line'[r], p) = ApprovedOf(r, line[r], p)
    BY <2>1, SameApprovals
  <2> QED  BY <1>1, <2>2 DEF GoodsInv, PurchaseWithinApproval
<1> QED  BY <1>2, <1>3

\* A step that moves no goods and ships nothing.
LEMMA QuietGoods ==
  ASSUME RequestsInv, StockInv, GoodsInv, Steady, RequestsTypeOK', UNCHANGED stockVars,
         \A r \in Requests : status'[r] = status[r] \/ status'[r] = "PENDING",
         \A r \in Requests : status'[r] # status[r] => status[r] = Absent
  PROVE  GoodsInv'
<1>1. stock' = stock /\ debit' = debit /\ credit' = credit
  BY DEF stockVars
<1>2. StockTypeOK'
  BY <1>1 DEF GoodsInv, StockTypeOK
<1>3. \A r \in Requests : /\ status'[r] = "RECEIVED" => status[r] = "RECEIVED"
                          /\ status'[r] = "DISPATCHED" <=> status[r] = "DISPATCHED"
  BY MarkerAssumption DEF Statuses
<1>4. DeliveryDropsBatches'
  BY <1>1, <1>3 DEF GoodsInv, DeliveryDropsBatches, MovesStock, Type
<1>5. PurchaseWithinApproval'
  BY <1>1, UntouchedGoods DEF PurchaseWithinApproval, Type
<1>6. ASSUME NEW p \in Products
      PROVE  /\ InTransit(p)' = InTransit(p) /\ Purchased(p)' = Purchased(p)
             /\ OnHand(p, stock)' = OnHand(p, stock)
  <2>1. {r \in Requests : MovesStock(r) /\ status'[r] = "DISPATCHED"}
        = {r \in Requests : MovesStock(r) /\ status[r] = "DISPATCHED"}
    BY <1>3
  <2> QED  BY <1>1, <2>1 DEF InTransit, Purchased, OnHand, MovesStock, Type
<1>7. Conservation'
  BY <1>6 DEF GoodsInv, Conservation, OnHand
<1> QED  BY <1>2, <1>4, <1>5, <1>7 DEF GoodsInv

LEMMA NextGoods == RequestsInv /\ StockInv /\ GoodsInv /\ [Next]_vars => GoodsInv'
<1> SUFFICES ASSUME RequestsInv, StockInv, GoodsInv, [Next]_vars  PROVE GoodsInv'
  OBVIOUS
<1>1. Steady /\ RequestsTypeOK'
  BY NextRequests DEF RequestsInv
<1>2. ASSUME NEW r \in Requests, CreateRequest(r)  PROVE GoodsInv'
  BY <1>1, <1>2, QuietGoods DEF CreateRequest, RequestsInv, RequestsTypeOK
<1>3. ASSUME UNCHANGED <<status, stockVars>>  PROVE GoodsInv'
  BY <1>1, <1>3, QuietGoods
<1>4. ASSUME NEW t \in Threads, CommitTransition(t)  PROVE GoodsInv'
  <2>1. PICK h \in Calls : call[t] = h
    BY <1>4 DEF CommitTransition, RequestsInv, RequestsTypeOK
  <2> DEFINE r == h.req
  <2>2. /\ StockTypeOK'
        /\ \A p \in Products : OnHand(p, stock)' + InTransit(p)' - Purchased(p)'
                                 = OnHand(p, stock) + InTransit(p) - Purchased(p)
        /\ (MovesStock(r) /\ status[r] = "RECEIVED" /\ Doc[r].source \in Branches
              => \A p \in Products : credit[r][p] = WithoutBatch(debit[r][p]))'
        /\ (Type(r) = "WAREHOUSE_TO_ADMIN_PO" =>
              \A p \in Products : Total(credit[r][p]) <= ApprovedOf(r, line[r], p))'
    BY <1>4, <2>1, CommittedGoods
  <2>3. \A q \in Requests \ {r} :
          status'[q] = status[q] /\ debit'[q] = debit[q] /\ credit'[q] = credit[q]
    BY <1>4, <2>1 DEF CommitTransition, RequestsInv, RequestsTypeOK, MoveStock,
       Ship, Deliver, BookPurchase, Book, stockVars, GoodsInv, StockTypeOK, Calls
  <2>4. DeliveryDropsBatches'
    BY <2>2, <2>3 DEF DeliveryDropsBatches, GoodsInv, MovesStock, Type
  <2>5. PurchaseWithinApproval'
    <3> SUFFICES ASSUME NEW q \in Requests, Type(q) = "WAREHOUSE_TO_ADMIN_PO",
                        NEW p \in Products
                 PROVE  (Total(credit[q][p]) <= ApprovedOf(q, line[q], p))'
      BY DEF PurchaseWithinApproval, Type
    <3>1. CASE q = r
      BY <2>2, <3>1 DEF Type
    <3>2. CASE q # r
      BY <1>1, <2>3, <3>2, UntouchedGoods
    <3> QED  BY <3>1, <3>2
  <2>6. ASSUME NEW p \in Products
        PROVE  (OnHand(p, stock) + InTransit(p))' = OnHand(p, InitStock) + Purchased(p)'
    <3>1. PICK r1 \in Requests : r1 = r
      BY DEF Calls
    <3>2. StockTypeOK /\ StockTypeOK'
      BY <2>2 DEF GoodsInv
    <3>3. /\ InTransit(p) \in Int /\ Transit(r, p) \in Nat /\ Transit(r, p)' \in Nat
          /\ InTransit(p)' = InTransit(p) - Transit(r, p) + Transit(r, p)'
      BY <2>3, <3>1, <3>2, TransitChange
    <3>4. /\ Purchased(p) \in Int /\ Bought(r, p) \in Nat /\ Bought(r, p)' \in Nat
          /\ Purchased(p)' = Purchased(p) - Bought(r, p) + Bought(r, p)'
      BY <2>3, <3>1, <3>2, PurchasedChange
    <3>5. OnHand(p, stock) \in Int /\ OnHand(p, stock)' \in Int
      <4> DEFINE own == [place \in Locations |-> Total(stock[place][p])]
                 own2 == [place \in Locations |-> Total(stock'[place][p])]
      <4>1. \A place \in Locations : own[place] \in Int /\ own2[place] \in Int
        BY <3>2, TotalIsNat DEF StockTypeOK
      <4> HIDE DEF own, own2
      <4>2. SumOver(own, Locations) \in Int /\ SumOver(own2, Locations) \in Int
        BY <4>1, FiniteAssumption, SumIsInt
      <4> QED  BY <4>2 DEF OnHand, own, own2
    <3>6. OnHand(p, stock) + InTransit(p) = OnHand(p, InitStock) + Purchased(p)
      BY DEF GoodsInv, Conservation
    <3>7. OnHand(p, stock)' + InTransit(p)' - Purchased(p)'
            = OnHand(p, stock) + InTransit(p) - Purchased(p)
      BY <2>2
    <3>8. OnHand(p, InitStock) \in Int
      <4> DEFINE own == [place \in Locations |-> Total(InitStock[place][p])]
      <4>1. \A place \in Locations : own[place] \in Int
        BY StockAssumption, TotalIsNat
      <4> HIDE DEF own
      <4>2. SumOver(own, Locations) \in Int
        BY <4>1, FiniteAssumption, SumIsInt
      <4> QED  BY <4>2 DEF OnHand, own
    <3>9. InTransit(p)' \in Int /\ Purchased(p)' \in Int
      BY <3>3, <3>4
    <3>10. OnHand(p, stock)' + InTransit(p)' = OnHand(p, InitStock) + Purchased(p)'
      <4>1. PICK a, b, c, d, e, f, i \in Int :
              /\ a = OnHand(p, stock) /\ b = InTransit(p) /\ c = Purchased(p)
              /\ d = OnHand(p, stock)' /\ e = InTransit(p)' /\ f = Purchased(p)'
              /\ i = OnHand(p, InitStock)
        BY <3>3, <3>4, <3>5, <3>8, <3>9
      <4>2. a + b = i + c
        BY <3>6, <4>1
      <4>3. d + e - f = a + b - c
        BY <3>7, <4>1
      <4>4. d + e = i + f
        BY <4>2, <4>3
      <4> QED  BY <4>1, <4>4
    <3> QED  BY <3>10
  <2>7. Conservation'
    BY <2>6 DEF Conservation, OnHand
  <2> QED  BY <2>2, <2>4, <2>5, <2>7 DEF GoodsInv
<1>5. ASSUME NEW t \in Threads, NEW r \in Requests, NEW to \in Statuses,
             NEW role \in Roles, LoadTransition(t, r, to, role)
      PROVE  GoodsInv'
  BY <1>3, <1>5 DEF LoadTransition, requestVars
<1>6. ASSUME NEW t \in Threads, NEW r \in Requests, NEW l \in Lines, LoadMarkLine(t, r, l)
      PROVE  GoodsInv'
  BY <1>3, <1>6 DEF LoadMarkLine, requestVars
<1>7. ASSUME NEW t \in Threads, CommitMarkLine(t)  PROVE GoodsInv'
  BY <1>3, <1>7 DEF CommitMarkLine
<1>8. ASSUME NEW t \in Threads, GiveUp(t)  PROVE GoodsInv'
  BY <1>3, <1>8 DEF GiveUp, requestVars
<1>9. ASSUME EnableKitchen  PROVE GoodsInv'
  BY <1>3, <1>9 DEF EnableKitchen, requestVars
<1>10. ASSUME NextDay  PROVE GoodsInv'
  BY <1>3, <1>10 DEF NextDay, requestVars
<1>11. ASSUME UNCHANGED vars  PROVE GoodsInv'
  BY <1>3, <1>11 DEF vars, requestVars
<1> QED  BY <1>2, <1>4, <1>5, <1>6, <1>7, <1>8, <1>9, <1>10, <1>11 DEF Next

LEMMA InitGoods == Init => GoodsInv
<1> SUFFICES ASSUME Init PROVE GoodsInv
  OBVIOUS
<1>1. EmptyBin \in Bins
  BY DEF EmptyBin, Bins
<1>2. StockTypeOK
  BY <1>1, StockAssumption DEF Init, StockTypeOK, NoGoods
<1>3. \A r \in Requests : status[r] = Absent /\ credit[r] = NoGoods
                           /\ line[r] = [l \in Lines |-> NewLine]
  BY DEF Init
<1>4. DeliveryDropsBatches
  BY <1>3, MarkerAssumption DEF DeliveryDropsBatches, Statuses
<1>5. PurchaseWithinApproval
  <2> SUFFICES ASSUME NEW r \in Requests, NEW p \in Products
               PROVE  Total(credit[r][p]) <= ApprovedOf(r, line[r], p)
    BY DEF PurchaseWithinApproval
  <2>1. line[r] \in [Lines -> LineRows]
    BY InitRequestsType DEF RequestsTypeOK
  <2>2. ApprovedOf(r, line[r], p) \in Nat
    BY <2>1, CountsAreNumbers
  <2>3. Total(credit[r][p]) = 0
    BY <1>3, TotalOfNothing DEF NoGoods
  <2> QED  BY <2>2, <2>3
<1>6. ASSUME NEW p \in Products
      PROVE  /\ InTransit(p) = 0 /\ Purchased(p) = 0
             /\ OnHand(p, stock) = OnHand(p, InitStock)
  <2>1. {r \in Requests : MovesStock(r) /\ status[r] = "DISPATCHED"} = {}
    BY <1>3, MarkerAssumption DEF Statuses
  <2>2. InTransit(p) = 0
    BY <2>1, SumEmpty DEF InTransit
  <2> DEFINE bought == [r \in Requests |-> Total(credit[r][p])]
             orders == {r \in Requests : Type(r) = "WAREHOUSE_TO_ADMIN_PO"}
  <2>3. IsFiniteSet(orders)
    <3>1. orders \in SUBSET Requests
      OBVIOUS
    <3> QED  BY <3>1, FiniteAssumption, FS_Subset
  <2>4. \A r \in orders : bought[r] = 0
    BY <1>3, TotalOfNothing DEF NoGoods
  <2> HIDE DEF bought, orders
  <2>5. SumOver(bought, orders) = 0
    BY <2>3, <2>4, SumZero
  <2> QED  BY <2>2, <2>5 DEF Purchased, bought, orders, Init, OnHand
<1>7. ASSUME NEW p \in Products
      PROVE  OnHand(p, stock) + InTransit(p) = OnHand(p, InitStock) + Purchased(p)
  BY <1>6
<1> QED  BY <1>2, <1>4, <1>5, <1>7 DEF GoodsInv, Conservation

LEMMA GoodsInvariant == Spec => []GoodsInv
<1>1. Init => GoodsInv
  BY InitGoods
<1>2. RequestsInv /\ StockInv /\ GoodsInv /\ [Next]_vars => GoodsInv'
  BY NextGoods
<1> QED  BY <1>1, <1>2, RequestsInvariant, StockInvariant, PTL DEF Spec

\* Every variable of the engine keeps its type: no draw takes a lot below zero
\* and every movement is a whole bin.
THEOREM WorkflowTypeCorrect == Spec => []TypeOK
<1>1. RequestsInv /\ GoodsInv => TypeOK
  BY DEF RequestsInv, GoodsInv, TypeOK
<1> QED  BY <1>1, RequestsInvariant, GoodsInvariant, PTL

\* Requests move goods and never make or lose them: what is on hand everywhere
\* and on the road is what there was and what purchase orders brought in.
THEOREM GoodsAreConserved == Spec => []Conservation
<1>1. GoodsInv => Conservation
  BY DEF GoodsInv
<1> QED  BY <1>1, GoodsInvariant, PTL

\* A purchase order never books more than was approved.
THEOREM PurchasesStayWithinApproval == Spec => []PurchaseWithinApproval
<1>1. GoodsInv => PurchaseWithinApproval
  BY DEF GoodsInv
<1> QED  BY <1>1, GoodsInvariant, PTL

\* A branch is credited, without batch codes, the units of every expiry that
\* left for it.
THEOREM DeliveriesKeepExpiries == Spec => []DeliveryKeepsExpiries
<1>1. StockInv /\ GoodsInv => DeliveryKeepsExpiries
  <2> SUFFICES ASSUME StockInv, GoodsInv, NEW r \in Requests, NEW p \in Products,
                      NEW e \in Days \cup {Undated}, MovesStock(r),
                      status[r] = "RECEIVED", Doc[r].source \in Branches
               PROVE  LET dated == {lot \in Lots : lot.expiry = e}
                      IN /\ SumOver(credit[r][p], dated) = SumOver(debit[r][p], dated)
                         /\ \A lot \in dated :
                              lot.batch # NoBatch => credit[r][p][lot] = 0
    BY DEF DeliveryKeepsExpiries
  <2>1. credit[r][p] = WithoutBatch(debit[r][p]) /\ debit[r][p] \in Bins
    BY DEF GoodsInv, DeliveryDropsBatches, StockTypeOK
  <2> QED  BY <2>1, ExpiriesSurvive DEF WithoutBatch
<1> QED  BY <1>1, StockInvariant, GoodsInvariant, PTL
================================================================================
