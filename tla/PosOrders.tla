------------------------------- MODULE PosOrders -------------------------------
(***************************************************************************)
(* A branch's point-of-sale orders: create, park and recall, send, void and *)
(* the replay of a device's offline queue (app/services/pos_orders.py,      *)
(* orders.py, sync.py), with the preparation and print tickets they open.   *)
(*                                                                         *)
(* A handler is a load and a commit, and anybody may act between the two.   *)
(* None of these handlers locks the order or compares its status when it    *)
(* commits.  What stands against two of them is the unique key of           *)
(* sales_records on the order, and that of orders on the device's local id: *)
(* an order here is its local id.                                           *)
(*                                                                         *)
(* Stock is by product: StockLedger has the lots and the locks.             *)
(***************************************************************************)
EXTENDS Integers, FiniteSets

CONSTANTS
  Orders,     \* local ids minted by the devices of the branch
  Products,
  Threads,
  Idle,       \* a thread without a call
  Shelf,      \* per order and product: quantity on lines served from the shelf
  Fresh,      \* the same for lines made to order (needs_prep)
  InitStock

ASSUME OrdersAssumption ==
  /\ Shelf \in [Orders -> [Products -> Nat]]
  /\ Fresh \in [Orders -> [Products -> Nat]]
  /\ InitStock \in [Products -> Nat]
Editable == {"DRAFT", "PARKED"}
Statuses == {"ABSENT", "SENT", "VOID"} \cup Editable
Flags == {"none", "PRICE_DRIFT", "STOCK_OVERSELL"}
Sales == {"none", "booked", "zeroed"}
OpenPrep == {"QUEUED", "IN_PROGRESS", "READY"}
PrepStates == {"none", "COMPLETED", "CANCELLED"} \cup OpenPrep
PrintStates == {"none", "QUEUED", "PRINTED", "FAILED", "VOID"}

VARIABLES
  kitchen,    \* has_central_kitchen
  status,     \* orders.status, ABSENT before the order exists
  flag,       \* orders.flagged_reason
  sale,       \* the order's sales record; a void zeroes its amount
  stock,      \* branch stock
  taken,      \* what the order's SALE movements took
  returned,   \* what the order's void put back
  prep,       \* the order's preparation tickets
  print,      \* the order's print jobs
  paid,       \* orders with a captured payment
  drained,    \* fired orders a device was told it need not send again
  job

vars == <<kitchen, status, flag, sale, stock, taken, returned, prep, print,
          paid, drained, job>>
goods == <<stock, taken, returned>>
tickets == <<prep, print>>

SendCalls == [op : {"send"}, order : Orders, kitchen : BOOLEAN]
ReplayCalls ==
  [op : {"replay"}, order : Orders, kitchen : BOOLEAN, seen : Statuses,
   flag : Flags, wasSent : BOOLEAN, drift : BOOLEAN]
VoidCalls == [op : {"void"}, order : Orders, flag : Flags]
TakeCalls == [op : {"take"}, order : Orders]
StatusCalls == [op : {"status"}, order : Orders, seen : Editable, to : Editable]
PrepCalls == [op : {"prep"}, order : Orders, to : PrepStates \ {"none", "QUEUED"}]
PrintCalls == [op : {"print"}, order : Orders, to : {"QUEUED", "PRINTED", "FAILED"}]

Calls ==
  UNION {SendCalls, ReplayCalls, VoidCalls, TakeCalls, StatusCalls, PrepCalls,
         PrintCalls}

Quantities == [Orders -> [Products -> Nat]]

TypeOK ==
  /\ kitchen \in BOOLEAN
  /\ status \in [Orders -> Statuses]
  /\ flag \in [Orders -> Flags]
  /\ sale \in [Orders -> Sales]
  /\ stock \in [Products -> Nat]
  /\ taken \in Quantities /\ returned \in Quantities
  /\ prep \in [Orders -> PrepStates]
  /\ print \in [Orders -> PrintStates]
  /\ paid \subseteq Orders /\ drained \subseteq Orders
  /\ job \in [Threads -> Calls \cup {Idle}]

Nothing == [p \in Products |-> 0]

Init ==
  /\ kitchen \in BOOLEAN
  /\ status = [o \in Orders |-> "ABSENT"]
  /\ flag = [o \in Orders |-> "none"]
  /\ sale = [o \in Orders |-> "none"]
  /\ stock = InitStock
  /\ taken = [o \in Orders |-> Nothing]
  /\ returned = [o \in Orders |-> Nothing]
  /\ prep = [o \in Orders |-> "none"]
  /\ print = [o \in Orders |-> "none"]
  /\ paid = {} /\ drained = {}
  /\ job = [t \in Threads |-> Idle]

Doing(t, op) == job[t] # Idle /\ job[t].op = op
Start(t, call) == job[t] = Idle /\ job' = [job EXCEPT ![t] = call]
Finish(t) == job' = [job EXCEPT ![t] = Idle]

--------------------------------------------------------------------------------
(* Settlement: settle_and_fire, settle_stock_and_sales, settle_or_flag *)

\* Without a central kitchen a made-to-order line takes no finished good.
Owed(o, withKitchen) ==
  [p \in Products |-> Shelf[o][p] + IF withKitchen THEN Fresh[o][p] ELSE 0]
Short(owed) == {p \in Products : owed[p] > stock[p]}

\* A line that outruns the stock takes nothing; the others take all they need.
AllServed(owed) == owed
Served(owed) == [p \in Products |-> IF p \in Short(owed) THEN 0 ELSE owed[p]]

\* The unique key of sales_records: the insert of a second record fails.
NotSentYet(o) == status[o] # "SENT"
Unsold(o) == sale[o] = "none"

MadeToOrder(o) == \E p \in Products : Fresh[o][p] > 0

\* One transaction.  "printed" is what a replaying device says of the ticket.
Settle(o, owed, printed) ==
  /\ Unsold(o)
  /\ sale' = [sale EXCEPT ![o] = "booked"]
  /\ stock' = [p \in Products |-> stock[p] - Served(owed)[p]]
  /\ taken' = [taken EXCEPT ![o] = [p \in Products |-> @[p] + Served(owed)[p]]]
  /\ prep' = IF MadeToOrder(o) THEN [prep EXCEPT ![o] = "QUEUED"] ELSE prep
  /\ print' = [print EXCEPT ![o] = printed]
  /\ status' = [status EXCEPT ![o] = "SENT"]
  /\ UNCHANGED returned

--------------------------------------------------------------------------------
(* The till: create, set_status, send *)

\* A local id that exists is answered with the order there is.
Create(o) ==
  /\ status[o] = "ABSENT"
  /\ status' = [status EXCEPT ![o] = "DRAFT"]
  /\ UNCHANGED <<kitchen, flag, sale, goods, tickets, paid, drained, job>>

LoadStatus(t, o, to) ==
  /\ status[o] \in Editable
  /\ Start(t, [op |-> "status", order |-> o, seen |-> status[o], to |-> to])
  /\ UNCHANGED <<kitchen, status, flag, sale, goods, tickets, paid, drained>>

\* The session writes the column only if it changed it.
CommitStatus(t) ==
  /\ Doing(t, "status")
  /\ status' = IF job[t].to = job[t].seen THEN status
               ELSE [status EXCEPT ![job[t].order] = job[t].to]
  /\ Finish(t)
  /\ UNCHANGED <<kitchen, flag, sale, goods, tickets, paid, drained>>

\* Sending a SENT order is answered with the order there is.
LoadSend(t, o) ==
  /\ status[o] \in Editable
  /\ Start(t, [op |-> "send", order |-> o, kitchen |-> kitchen])
  /\ UNCHANGED <<kitchen, status, flag, sale, goods, tickets, paid, drained>>

CommitSend(t) ==
  /\ Doing(t, "send")
  /\ LET o == job[t].order
         owed == Owed(o, job[t].kitchen)
     IN /\ Short(owed) = {}
        /\ Settle(o, owed, "QUEUED")
  /\ Finish(t)
  /\ UNCHANGED <<kitchen, flag, paid, drained>>

--------------------------------------------------------------------------------
(* The offline queue: SyncService.replay, one element at a time *)

\* An order of the server's other than a draft the device has fired.
AnswerDuplicate(o, wasSent) ==
  /\ status[o] # "ABSENT"
  /\ ~(wasSent /\ status[o] = "DRAFT")
  /\ drained' = IF wasSent THEN drained \cup {o} ELSE drained
  /\ UNCHANGED <<kitchen, status, flag, sale, goods, tickets, paid, job>>

\* Everything else is worked on: an order that does not exist, a fired draft
\* ("heal", which looks at no price), and one that appeared between the lookup
\* and the one create() makes, whatever its status.
LoadReplay(t, o, wasSent, drift) ==
  /\ Start(t, [op |-> "replay", order |-> o, kitchen |-> kitchen,
               seen |-> status[o], flag |-> flag[o],
               wasSent |-> wasSent, drift |-> drift])
  /\ UNCHANGED <<kitchen, status, flag, sale, goods, tickets, paid, drained>>

\* What the session makes of the flag it read; a shortfall wins.
ReasonIgnoringShortfall(call, short) ==
  IF call.drift THEN "PRICE_DRIFT" ELSE call.flag
Reason(call, short) ==
  IF short THEN "STOCK_OVERSELL"
  ELSE IF call.drift THEN "PRICE_DRIFT" ELSE call.flag
Flagged(call, short) ==
  IF Reason(call, short) = call.flag THEN flag
  ELSE [flag EXCEPT ![call.order] = Reason(call, short)]

\* What the device printed offline; it may also say nothing of a job.
Reported(was, result) == IF result = "QUEUED" THEN was ELSE result

CommitReplay(t, result) ==
  /\ Doing(t, "replay")
  /\ LET call == job[t]
         o == call.order
         owed == Owed(o, call.kitchen)
         settles == call.wasSent /\ call.seen # "SENT"
     IN /\ call.seen = "ABSENT" => status[o] = "ABSENT"
        /\ \/ settles /\ Settle(o, owed, Reported("QUEUED", result))
           \/ /\ ~settles
              /\ status' = IF call.seen = "ABSENT"
                           THEN [status EXCEPT ![o] = "DRAFT"] ELSE status
              /\ print' = IF call.wasSent
                          THEN [print EXCEPT ![o] = Reported(@, result)]
                          ELSE print
              /\ UNCHANGED <<sale, goods, prep>>
        /\ flag' = Flagged(call, settles /\ Short(owed) # {})
        /\ drained' = IF call.wasSent THEN drained \cup {o} ELSE drained
  /\ Finish(t)
  /\ UNCHANGED <<kitchen, paid>>

--------------------------------------------------------------------------------
(* void *)

NotVoidYet(o) == status[o] # "VOID"
Voidable(o) == status[o] = "SENT" /\ o \notin paid

LoadVoid(t, o) ==
  /\ Voidable(o)
  /\ Start(t, [op |-> "void", order |-> o, flag |-> flag[o]])
  /\ UNCHANGED <<kitchen, status, flag, sale, goods, tickets, paid, drained>>

\* All lines with a product are put back, the made-to-order ones included.
PutBack(call) ==
  IF call.flag = "STOCK_OVERSELL" THEN Nothing ELSE Owed(call.order, TRUE)

LeftBooked(o) == sale
Zeroed(o) == IF sale[o] = "none" THEN sale ELSE [sale EXCEPT ![o] = "zeroed"]

CommitVoid(t) ==
  /\ Doing(t, "void")
  /\ LET o == job[t].order
         back == PutBack(job[t])
     IN /\ stock' = [p \in Products |-> stock[p] + back[p]]
        /\ returned' = [returned EXCEPT ![o] = [p \in Products |-> @[p] + back[p]]]
        /\ sale' = Zeroed(o)
        /\ print' = [print EXCEPT ![o] = IF @ = "none" THEN @ ELSE "VOID"]
        /\ prep' = [prep EXCEPT ![o] = IF @ \in OpenPrep THEN "CANCELLED" ELSE @]
        /\ status' = [status EXCEPT ![o] = "VOID"]
  /\ Finish(t)
  /\ UNCHANGED <<kitchen, flag, taken, paid, drained>>

--------------------------------------------------------------------------------
(* What others do to the order's tickets and payments *)

\* PaymentService.take, to the extent a void asks about it: a refund leaves the
\* payment captured, so nothing ever leaves "paid".
LoadTake(t, o) ==
  /\ status[o] \notin {"ABSENT", "VOID"}
  /\ Start(t, [op |-> "take", order |-> o])
  /\ UNCHANGED <<kitchen, status, flag, sale, goods, tickets, paid, drained>>
CommitTake(t) ==
  /\ Doing(t, "take")
  /\ paid' = paid \cup {job[t].order}
  /\ Finish(t)
  /\ UNCHANGED <<kitchen, status, flag, sale, goods, tickets, drained>>

\* The board (STATUS_TRANSITIONS) and /complete.  The components a completion
\* uses up are other products than those sold.
PrepMoves(from) ==
  CASE from = "QUEUED" -> {"IN_PROGRESS", "CANCELLED", "COMPLETED"}
    [] from = "IN_PROGRESS" -> {"READY", "CANCELLED", "COMPLETED"}
    [] from = "READY" -> {"IN_PROGRESS", "CANCELLED", "COMPLETED"}
    [] OTHER -> {}
LoadPrep(t, o, to) ==
  /\ to \in PrepMoves(prep[o])
  /\ Start(t, [op |-> "prep", order |-> o, to |-> to])
  /\ UNCHANGED <<kitchen, status, flag, sale, goods, tickets, paid, drained>>
CommitPrep(t) ==
  /\ Doing(t, "prep")
  /\ prep' = [prep EXCEPT ![job[t].order] = job[t].to]
  /\ Finish(t)
  /\ UNCHANGED <<kitchen, status, flag, sale, goods, print, paid, drained>>

\* report: anything but a printed job takes the device's word, a void one too.
\* requeue: a printed or failed job, on the manager's request.
PrintMoves(from) ==
  CASE from \in {"QUEUED", "VOID"} -> {"PRINTED", "FAILED"}
    [] from = "FAILED" -> {"PRINTED", "FAILED", "QUEUED"}
    [] from = "PRINTED" -> {"QUEUED"}
    [] OTHER -> {}
LoadPrint(t, o, to) ==
  /\ to \in PrintMoves(print[o])
  /\ Start(t, [op |-> "print", order |-> o, to |-> to])
  /\ UNCHANGED <<kitchen, status, flag, sale, goods, tickets, paid, drained>>
CommitPrint(t) ==
  /\ Doing(t, "print")
  /\ print' = [print EXCEPT ![job[t].order] = job[t].to]
  /\ Finish(t)
  /\ UNCHANGED <<kitchen, status, flag, sale, goods, prep, paid, drained>>

\* The tenant opens a kitchen.
EnableKitchen ==
  /\ ~kitchen
  /\ kitchen' = TRUE
  /\ UNCHANGED <<status, flag, sale, goods, tickets, paid, drained, job>>

\* A refusal, a unique key that is taken, a lost process: the session rolls back.
GiveUp(t) ==
  /\ job[t] # Idle
  /\ Finish(t)
  /\ UNCHANGED <<kitchen, status, flag, sale, goods, tickets, paid, drained>>

Next ==
  \/ EnableKitchen
  \/ \E o \in Orders : Create(o)
  \/ \E o \in Orders, wasSent \in BOOLEAN : AnswerDuplicate(o, wasSent)
  \/ \E t \in Threads, o \in Orders :
       \/ \E to \in Editable : LoadStatus(t, o, to)
       \/ LoadSend(t, o)
       \/ \E wasSent, drift \in BOOLEAN : LoadReplay(t, o, wasSent, drift)
       \/ LoadVoid(t, o)
       \/ LoadTake(t, o)
       \/ \E to \in PrepStates : LoadPrep(t, o, to)
       \/ \E to \in PrintStates : LoadPrint(t, o, to)
  \/ \E t \in Threads :
       \/ CommitStatus(t) \/ CommitSend(t) \/ CommitVoid(t) \/ CommitTake(t)
       \/ CommitPrep(t) \/ CommitPrint(t) \/ GiveUp(t)
       \/ \E result \in {"QUEUED", "PRINTED", "FAILED"} : CommitReplay(t, result)

Spec == Init /\ [][Next]_vars

--------------------------------------------------------------------------------
(* Properties *)

\* However an order's send, its replays and its retries overlap, and whoever
\* recalls it in between, its stock is taken once: by one of its settlements.
SoldAtMostOnce ==
  \A o \in Orders, p \in Products :
    taken[o][p] \in {0, Shelf[o][p], Shelf[o][p] + Fresh[o][p]}

\* Revenue follows the status: a sent order is booked, a void one is not, also
\* after a recall that comes too late, a second void or a second send.
SaleFollowsStatus ==
  \A o \in Orders : /\ status[o] = "SENT" => sale[o] = "booked"
                    /\ status[o] = "VOID" => sale[o] = "zeroed"

\* An order without a sale has moved no stock and asked nobody to cook or print:
\* settlement is one transaction, and nothing else reaches these.
UnsoldMovesNothing ==
  \A o \in Orders : sale[o] = "none" =>
    /\ taken[o] = Nothing /\ returned[o] = Nothing
    /\ prep[o] = "none" /\ print[o] = "none"

\* A sale of goods that were not there is in the manager's review queue and
\* stays there, whatever is replayed after it (settle_or_flag).
ShortfallsAreReviewed ==
  \A o \in Orders : sale[o] # "none" =>
    \A p \in Products : taken[o][p] < Shelf[o][p] => flag[o] # "none"

\* The conflict policy of sync.py: the device wins for facts.  A fired order the
\* device need not send again is a sale on the server.
FiredOrdersAreSales == \A o \in drained : sale[o] # "none"

================================================================================
