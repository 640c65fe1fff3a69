---------------------------- MODULE Preparation ----------------------------
(***************************************************************************)
(* The branch's prep board (services/prep.py, api/v1/sub_kitchen.py, the   *)
(* send of services/pos_orders.py and the kitchen switch of super_admin).  *)
(* Sending an order with a made-to-order line takes the finished good off  *)
(* the shelf when the tenant has a central kitchen and leaves it otherwise, *)
(* and queues a ticket either way; completing the ticket asks again whether *)
(* there is a central kitchen and, when there is none, draws the recipe's  *)
(* raw materials.  The board's handlers load the ticket and write the new  *)
(* status with no comparison: a write over a status other than the one read *)
(* is recorded in overwritten.                                             *)
(***************************************************************************)
EXTENDS Sums

CONSTANTS
    Tickets,        \* prep tickets: one made-to-order line each
    Bills,          \* orders
    BillOf,         \* ticket -> its order
    Chefs,          \* requests in progress
    Raw,            \* bound: portions of raw material on the branch's shelf
    Ready,          \* bound: finished goods on the branch's shelf
    MaxSwitches     \* bound: times the central kitchen is switched

ASSUME PreparationAssumption ==
    /\ Raw \in Nat /\ Ready \in Nat /\ MaxSwitches \in Nat
    /\ IsFiniteSet(Tickets)
    /\ BillOf \in [Tickets -> Bills]

VARIABLES
    board,          \* ticket -> its status, "NONE" before it is queued
    bills,          \* order -> "OPEN", "SENT" or "VOIDED"
    raw,            \* portions of raw material on hand
    readyGoods,     \* finished goods on hand
    centralKitchen, \* the tenant has a central kitchen
    switches,       \* how often that was switched
    taken,          \* ticket -> finished goods its send took
    drawn,          \* ticket -> portions its completions drew
    byHand,         \* tickets completed with the chef's own list, or none
    chefCalls,      \* request -> the handler it is in the middle of
    switchedIn,     \* tickets in whose life the kitchen was switched
    overwritten     \* tickets whose status was written over a moved one

prepVars == <<board, bills, raw, readyGoods, centralKitchen, switches, taken, drawn,
              byHand, chefCalls, switchedIn, overwritten>>

OpenStatuses == {"QUEUED", "IN_PROGRESS", "READY"}
StatusMoves == [QUEUED |-> {"IN_PROGRESS", "CANCELLED"},
                IN_PROGRESS |-> {"READY", "CANCELLED"},
                READY |-> {"IN_PROGRESS", "CANCELLED"}]

\* MUTANT of MovesFrom: any ticket may be cancelled.
MovesFromAnywhere(s) == (IF s \in OpenStatuses THEN StatusMoves[s] ELSE {}) \cup {"CANCELLED"}
MovesFrom(s) == IF s \in OpenStatuses THEN StatusMoves[s] ELSE {}

Away == [op |-> "none"]
Begins(c, call) == chefCalls[c] = Away /\ chefCalls' = [chefCalls EXCEPT ![c] = call]
Done(c) == chefCalls' = [chefCalls EXCEPT ![c] = Away]
TicketsOf(b) == {t \in Tickets : BillOf[t] = b}

-----------------------------------------------------------------------------
\* MUTANT of Made: a sale always takes the finished good.
MadeAhead(b) == TicketsOf(b)
\* The lines that take a finished good at sale: none of the made-to-order ones
\* of a tenant without a central kitchen.
Made(b) == IF centralKitchen THEN TicketsOf(b) ELSE {}

\* The order, its stock and its tickets land in one transaction.
SendBill(b) ==
    /\ bills[b] = "OPEN"
    /\ Cardinality(Made(b)) <= readyGoods
    /\ bills' = [bills EXCEPT ![b] = "SENT"]
    /\ readyGoods' = readyGoods - Cardinality(Made(b))
    /\ taken' = [t \in Tickets |-> IF t \in Made(b) THEN 1 ELSE taken[t]]
    /\ board' = [t \in Tickets |-> IF t \in TicketsOf(b) THEN "QUEUED" ELSE board[t]]
    /\ UNCHANGED <<raw, centralKitchen, switches, drawn, byHand, chefCalls, switchedIn, overwritten>>

\* MUTANT of ToCancel: only the tickets nobody has started.
QueuedOf(b) == {t \in TicketsOf(b) : board[t] = "QUEUED"}
ToCancel(b) == {t \in TicketsOf(b) : board[t] \in OpenStatuses}

\* Voiding an order takes its open tickets off the board in the transaction.
LoadVoid(c, b) ==
    /\ bills[b] = "SENT"
    /\ Begins(c, [op |-> "void", bill |-> b, tickets |-> ToCancel(b), seen |-> board])
    /\ UNCHANGED <<board, bills, raw, readyGoods, centralKitchen, switches, taken, drawn,
                   byHand, switchedIn, overwritten>>

CommitVoid(c) ==
    LET call == chefCalls[c] IN
    /\ call.op = "void"
    /\ bills' = [bills EXCEPT ![call.bill] = "VOIDED"]
    /\ board' = [t \in Tickets |-> IF t \in call.tickets THEN "CANCELLED" ELSE board[t]]
    /\ overwritten' = overwritten \cup {t \in call.tickets : board[t] # call.seen[t]}
    /\ Done(c)
    /\ UNCHANGED <<raw, readyGoods, centralKitchen, switches, taken, drawn, byHand, switchedIn>>

LoadStatus(c, t, to) ==
    /\ to \in MovesFrom(board[t])
    /\ Begins(c, [op |-> "status", ticket |-> t, to |-> to, seen |-> board[t]])
    /\ UNCHANGED <<board, bills, raw, readyGoods, centralKitchen, switches, taken, drawn,
                   byHand, switchedIn, overwritten>>

CommitStatus(c) ==
    LET call == chefCalls[c] IN
    /\ call.op = "status"
    /\ board' = [board EXCEPT ![call.ticket] = call.to]
    /\ overwritten' = IF board[call.ticket] # call.seen THEN overwritten \cup {call.ticket}
                      ELSE overwritten
    /\ Done(c)
    /\ UNCHANGED <<bills, raw, readyGoods, centralKitchen, switches, taken, drawn, byHand, switchedIn>>

\* MUTANT of AutoRecipe: the recipe is exploded wherever one exists.
AlwaysRecipe(inputs) == inputs = 0
\* Without components stated and without a central kitchen, the recipe is drawn.
AutoRecipe(inputs) == inputs = 0 /\ ~centralKitchen

LoadComplete(c, t, inputs) ==
    /\ board[t] \in OpenStatuses
    /\ Begins(c, [op |-> "complete", ticket |-> t, seen |-> board[t],
                  auto |-> AutoRecipe(inputs),
                  draw |-> IF AutoRecipe(inputs) THEN 1 ELSE inputs, stated |-> inputs > 0])
    /\ UNCHANGED <<board, bills, raw, readyGoods, centralKitchen, switches, taken, drawn,
                   byHand, switchedIn, overwritten>>

\* The run and the ticket commit together; a shortfall rolls both back.  A
\* ticket written over COMPLETED, which the handler read open, draws again.
CommitComplete(c) ==
    LET call == chefCalls[c] IN
    /\ call.op = "complete"
    /\ call.draw <= raw
    /\ raw' = raw - call.draw
    /\ drawn' = [drawn EXCEPT ![call.ticket] = @ + call.draw]
    /\ byHand' = IF call.stated THEN byHand \cup {call.ticket} ELSE byHand
    /\ board' = [board EXCEPT ![call.ticket] = "COMPLETED"]
    /\ overwritten' = IF board[call.ticket] # call.seen THEN overwritten \cup {call.ticket}
                      ELSE overwritten
    /\ Done(c)
    /\ UNCHANGED <<bills, readyGoods, centralKitchen, switches, taken, switchedIn>>

WalkAway(c) ==
    /\ chefCalls[c] # Away
    /\ Done(c)
    /\ UNCHANGED <<board, bills, raw, readyGoods, centralKitchen, switches, taken, drawn,
                   byHand, switchedIn, overwritten>>

\* Switching it off asks that no kitchen is in use, which says nothing of the
\* branches' boards; switching it on is unconditional.
SwitchKitchen ==
    /\ switches < MaxSwitches
    /\ switches' = switches + 1
    /\ centralKitchen' = ~centralKitchen
    /\ switchedIn' = switchedIn \cup {t \in Tickets : board[t] \in OpenStatuses}
    /\ UNCHANGED <<board, bills, raw, readyGoods, taken, drawn, byHand, chefCalls, overwritten>>

-----------------------------------------------------------------------------
PrepInit ==
    /\ board = [t \in Tickets |-> "NONE"]
    /\ bills = [b \in Bills |-> "OPEN"]
    /\ raw = Raw
    /\ readyGoods = Ready
    /\ centralKitchen \in BOOLEAN
    /\ switches = 0
    /\ taken = [t \in Tickets |-> 0]
    /\ drawn = [t \in Tickets |-> 0]
    /\ byHand = {}
    /\ chefCalls = [c \in Chefs |-> Away]
    /\ switchedIn = {}
    /\ overwritten = {}

PrepNext ==
    \/ SwitchKitchen
    \/ \E b \in Bills : SendBill(b)
    \/ \E c \in Chefs :
         \/ \E b \in Bills : LoadVoid(c, b)
         \/ \E t \in Tickets, to \in OpenStatuses \cup {"CANCELLED"} : LoadStatus(c, t, to)
         \/ \E t \in Tickets, inputs \in 0..2 : LoadComplete(c, t, inputs)
         \/ CommitVoid(c)
         \/ CommitStatus(c)
         \/ CommitComplete(c)
         \/ WalkAway(c)

PrepSpec == PrepInit /\ [][PrepNext]_prepVars

-----------------------------------------------------------------------------
(***************************************************************************)
(* A made-to-order dish is paid for with stock exactly once: with the      *)
(* finished good at sale or with its raw materials at completion, when the *)
(* chef states no components.  It breaks only when the central kitchen was *)
(* switched while the ticket was open (neither, or both) or when two       *)
(* handlers wrote over each other's status (two completions draw twice).   *)
(***************************************************************************)
DishPaidOnce ==
    \A t \in Tickets \ (switchedIn \cup overwritten \cup byHand) :
        board[t] = "COMPLETED" => taken[t] + drawn[t] = 1

(***************************************************************************)
(* Only a completion draws components: a ticket that is open, or was       *)
(* cancelled, has drawn nothing, and the shelf is short of exactly what the *)
(* tickets drew, unless a status was written over a moved one.             *)
(***************************************************************************)
OpenTicketsDrewNothing ==
    /\ \A t \in Tickets \ overwritten : board[t] # "COMPLETED" => drawn[t] = 0
    /\ raw + SumOver(drawn, Tickets) = Raw

(***************************************************************************)
(* Nobody is left finishing a dish of a voided order: the void cancels     *)
(* every open ticket with it, unless a handler that read the ticket before *)
(* wrote its status after.                                                 *)
(***************************************************************************)
VoidedLeavesTheBoard ==
    \A t \in Tickets \ overwritten : bills[BillOf[t]] = "VOIDED" => board[t] \notin OpenStatuses

(***************************************************************************)
(* The board agrees with the order and the shelf.                          *)
(***************************************************************************)
TicketsAreAccounted == DishPaidOnce /\ OpenTicketsDrewNothing /\ VoidedLeavesTheBoard
=============================================================================
