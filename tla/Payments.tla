------------------------------ MODULE Payments ------------------------------
(***************************************************************************)
(* Money against one order: tenders, refunds, discounts and the void that  *)
(* asks whether anything was paid (services/payments.py).  Every handler   *)
(* reads the order and the sums at one moment and writes at another, and   *)
(* several tills work on the same order.  The ORM writes only the columns  *)
(* that differ from what the handler read; the unique key on the device's  *)
(* payment id is the only thing the database itself enforces.              *)
(***************************************************************************)
EXTENDS Sums, Sequences

CONSTANTS
    Tills,          \* terminals working on the order
    Tenders,        \* device-minted payment ids, each sent once or replayed
    Goods,          \* what the lines cost without modifiers
    Extras,         \* modifier surcharges the order may have been priced with
    TaxBp,          \* the pack's rate in basis points
    Discounts,      \* amounts the discount rules can come to
    MaxTender       \* bound: the largest amount one tender offers

ASSUME PaymentsAssumption ==
    /\ Goods \in Nat /\ TaxBp \in Nat /\ MaxTender \in Nat
    /\ Extras \subseteq Nat /\ Discounts \subseteq Nat

VARIABLES
    bill,       \* the order's money columns
    payments,   \* captured payment rows, in commit order
    refunded,   \* sum of the refund rows
    payCalls,   \* till -> the handler it is in the middle of
    payClash    \* pairs of handlers that have been in progress at once

payVars == <<bill, payments, refunded, payCalls, payClash>>

TaxOn(net) == (net * TaxBp) \div 10000

\* What the till charges: the order priced when it was taken, extras included.
OpeningBill(extras) ==
    [status |-> "SENT", extras |-> extras, subtotal |-> Goods + extras, discount |-> 0,
     tax |-> TaxOn(Goods + extras), grand |-> Goods + extras + TaxOn(Goods + extras),
     closed |-> FALSE]

\* MUTANT of Quote: the order's discount is left out.
QuoteUndiscounted(b) == [tax |-> TaxOn(Goods), grand |-> Goods + TaxOn(Goods)]
\* The order priced again for a tender.  The cart is rebuilt from the lines,
\* which carry no surcharge column, so the extras are not in it.
Quote(b) == [tax |-> TaxOn(Goods), grand |-> Goods - b.discount + TaxOn(Goods)]

Paid(rows) == SumOver([i \in DOMAIN rows |-> rows[i].amount], DOMAIN rows)

PayRest == [op |-> "none"]
PayResting(t) == payCalls[t] = PayRest

\* A take that changes the totals holds the order's row from its flush on.
Rewrites(c) == Quote(c.seen) # [tax |-> c.seen.tax, grand |-> c.seen.grand]
RowHeld(t) == \E u \in Tills \ {t} :
                /\ payCalls[u].op = "take" /\ payCalls[u].flushed
                /\ Rewrites(payCalls[u])

Watched == {{"take"}, {"refund"}, {"take", "discount"}, {"take", "void"}}
PayBegin(t, c) ==
    /\ PayResting(t)
    /\ payCalls' = [payCalls EXCEPT ![t] = c]
    /\ payClash' = payClash \cup
          {p \in Watched : \E u \in Tills \ {t} : ~PayResting(u) /\ p = {c.op, payCalls[u].op}}
PayEnd(t) == payCalls' = [payCalls EXCEPT ![t] = PayRest] /\ UNCHANGED payClash

-----------------------------------------------------------------------------
\* MUTANT of Known: a replayed payment id is not looked up, nor is it unique.
NeverKnown(x) == FALSE
Known(x) == \E i \in DOMAIN payments : payments[i].tender = x

\* MUTANT of Due: what was already paid is not taken off.
DueInFull(b) == Quote(b).grand
Due(b) == Quote(b).grand - Paid(payments)

LoadTender(t, x, a) ==
    /\ bill.status # "VOID"
    /\ ~Known(x)
    /\ a <= Due(bill)
    /\ PayBegin(t, [op |-> "take", tender |-> x, amount |-> a, seen |-> bill,
                 flushed |-> FALSE, closes |-> FALSE])
    /\ UNCHANGED <<bill, payments, refunded>>

\* The insert waits on the unique key while another till holds it, and the
\* second sum decides whether this tender settles the order.
FlushTake(t) ==
    LET c == payCalls[t] IN
    /\ c.op = "take" /\ ~c.flushed
    /\ ~Known(c.tender)
    /\ \A u \in Tills \ {t} : payCalls[u].op = "take" /\ payCalls[u].flushed =>
                                  payCalls[u].tender # c.tender
    /\ Rewrites(c) => ~RowHeld(t)
    /\ payCalls' = [payCalls EXCEPT ![t].flushed = TRUE,
                        ![t].closes = Paid(payments) + c.amount >= Quote(c.seen).grand]
    /\ UNCHANGED <<bill, payments, refunded, payClash>>

\* MUTANT of Settled: the order is closed whatever was paid.
SettledAnyhow(b, c) == [b EXCEPT !.closed = TRUE]
\* The columns a take writes: totals that differ from those read, and closed_at.
Settled(b, c) ==
    LET q == Quote(c.seen) IN
    [b EXCEPT !.tax = IF q.tax # c.seen.tax THEN q.tax ELSE @,
              !.grand = IF q.grand # c.seen.grand THEN q.grand ELSE @,
              !.closed = @ \/ c.closes]

CommitTender(t) ==
    LET c == payCalls[t] IN
    /\ c.op = "take" /\ c.flushed
    /\ c.closes => ~RowHeld(t)
    /\ bill' = Settled(bill, c)
    /\ payments' = Append(payments, [tender |-> c.tender, amount |-> c.amount])
    /\ PayEnd(t)
    /\ UNCHANGED refunded

-----------------------------------------------------------------------------
\* MUTANT of Refundable: earlier refunds are not taken off.
RefundableInFull == Paid(payments)
Refundable == Paid(payments) - refunded

LoadRefund(t, a) ==
    /\ a <= Refundable
    /\ PayBegin(t, [op |-> "refund", amount |-> a])
    /\ UNCHANGED <<bill, payments, refunded>>

CommitRefund(t) ==
    /\ payCalls[t].op = "refund"
    /\ refunded' = refunded + payCalls[t].amount
    /\ PayEnd(t)
    /\ UNCHANGED <<bill, payments>>

-----------------------------------------------------------------------------
LoadDiscount(t, d) ==
    /\ ~bill.closed
    /\ d <= bill.subtotal
    /\ PayBegin(t, [op |-> "discount", amount |-> d, seen |-> bill])
    /\ UNCHANGED <<bill, payments, refunded>>

\* MUTANT of Discounted: the total forgets the tax.
DiscountedUntaxed(b, c) ==
    [b EXCEPT !.discount = c.amount, !.grand = c.seen.subtotal - c.amount]
\* Both columns are computed from what the handler read.
Discounted(b, c) ==
    LET grand == c.seen.subtotal - c.amount + c.seen.tax IN
    [b EXCEPT !.discount = IF c.amount # c.seen.discount THEN c.amount ELSE @,
              !.grand = IF grand # c.seen.grand THEN grand ELSE @]

CommitDiscount(t) ==
    /\ payCalls[t].op = "discount"
    /\ ~RowHeld(t)
    /\ bill' = Discounted(bill, payCalls[t])
    /\ PayEnd(t)
    /\ UNCHANGED <<payments, refunded>>

\* MUTANT of NothingPaid: a void no longer asks for a refund first.
WhateverPaid == TRUE
NothingPaid == payments = << >>

LoadBillVoid(t) ==
    /\ bill.status = "SENT"
    /\ NothingPaid
    /\ PayBegin(t, [op |-> "void"])
    /\ UNCHANGED <<bill, payments, refunded>>

CommitBillVoid(t) ==
    /\ payCalls[t].op = "void"
    /\ ~RowHeld(t)
    /\ bill' = [bill EXCEPT !.status = "VOID"]
    /\ PayEnd(t)
    /\ UNCHANGED <<payments, refunded>>

\* A refusal, an IntegrityError on the key or a lost connection rolls back.
PayRollback(t) ==
    /\ ~PayResting(t)
    /\ PayEnd(t)
    /\ UNCHANGED <<bill, payments, refunded>>

-----------------------------------------------------------------------------
PayInit ==
    /\ bill \in {OpeningBill(e) : e \in Extras}
    /\ payments = << >>
    /\ refunded = 0
    /\ payCalls = [t \in Tills |-> PayRest]
    /\ payClash = {}

PayNext == \E t \in Tills :
    \/ \E x \in Tenders, a \in 1..MaxTender : LoadTender(t, x, a)
    \/ FlushTake(t)
    \/ CommitTender(t)
    \/ \E a \in 1..MaxTender : LoadRefund(t, a)
    \/ CommitRefund(t)
    \/ \E d \in Discounts : LoadDiscount(t, d)
    \/ CommitDiscount(t)
    \/ LoadBillVoid(t)
    \/ CommitBillVoid(t)
    \/ PayRollback(t)

PaySpec == PayInit /\ [][PayNext]_payVars

-----------------------------------------------------------------------------
\* One captured row per device-minted payment id, however a queue replays it
\* and whichever tills race (client_payment_id, uq_payment_idempotency).
TendersTakenOnce ==
    \A i, j \in DOMAIN payments : payments[i].tender = payments[j].tender => i = j

\* More than the order's dearest total is only ever captured when two tenders
\* were in progress at once: due is read before either commits.
OverpaidOnlyByRaces ==
    {"take"} \notin payClash =>
        Paid(payments) <= Goods + bill.extras + TaxOn(Goods + bill.extras)

\* Refunds exceed the takings only when two refunds overlapped: no order of
\* tenders, discounts and voids around them can do it.
RefundsWithinTakings ==
    {"refund"} \notin payClash => refunded <= Paid(payments)

\* A settled order is covered by its payments, unless a discount and a tender
\* were decided on each other's old values.
ClosedIsPaid ==
    bill.closed /\ {"take", "discount"} \notin payClash => Paid(payments) >= bill.grand

\* A void order holds no money unless a tender was in progress as it was voided.
VoidHoldsNoMoney ==
    bill.status = "VOID" /\ {"take", "void"} \notin payClash => payments = << >>

\* The printed totals add up after any mix of tenders and discounts computed
\* from stale reads, for an order without modifier surcharges.
PlainTotalsAddUp ==
    bill.extras = 0 => bill.grand = bill.subtotal - bill.discount + bill.tax

\* The money of an order stays within its bill: no payment counts twice, and
\* more is captured or refunded only when two requests overlapped.
MoneyStaysWithinTheBill ==
    TendersTakenOnce /\ OverpaidOnlyByRaces /\ RefundsWithinTakings

\* The order's row agrees with its payments: settled means paid, void means
\* nothing paid, and the totals are the sum of their parts.
BillAgreesWithPayments ==
    ClosedIsPaid /\ VoidHoldsNoMoney /\ PlainTotalsAddUp

\* "no arrangement of discounts, taxes and rounding may produce a total that
\* isn't the sum of its parts" (pricing/types.py): asked of the order's row.
TotalsAddUp == bill.grand = bill.subtotal - bill.discount + bill.tax
=============================================================================
