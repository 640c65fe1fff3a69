------------------------- MODULE ProductionTargets -------------------------
(***************************************************************************)
(* One day's production target of a kitchen (services/production_targets,  *)
(* api/v1/{admin,kitchen}/production_targets): the admin sets it, the      *)
(* kitchen acknowledges, starts and completes it, the admin splits the     *)
(* batch over the branches, the kitchen ships the splits and each branch   *)
(* receives its own.  Every handler but the receipt loads the rows, checks *)
(* the status it read and writes the new one with no comparison; only the  *)
(* receipt is a compare-and-set.  A commit that writes over a status other *)
(* than the one it read is recorded in targetRaced.                        *)
(***************************************************************************)
EXTENDS Sums, SequencesExt

CONSTANTS
    TargetLines,    \* lines of the target
    Outlets,        \* branches it is split over
    BatchOf,        \* line -> quantity to produce
    SplitSizes,     \* quantities the admin may give a branch
    Hands,          \* requests in progress
    Larder,         \* bound: finished goods the kitchen may hold
    MaxTargetEdits, \* bound: edits of the lines
    MaxSplits       \* bound: allocation rows

ASSUME TargetsAssumption ==
    /\ IsFiniteSet(TargetLines) /\ IsFiniteSet(Outlets)
    /\ BatchOf \in [TargetLines -> Nat]
    /\ SplitSizes \subseteq Nat \ {0}
    /\ Larder \in Nat /\ MaxTargetEdits \in Nat /\ MaxSplits \in Nat

VARIABLES
    target,         \* [status, produced: lines marked, edition: line rows]
    splits,         \* allocation rows, in id order
    larder,         \* finished goods on hand in the kitchen
    shipped,        \* goods debited from the kitchen for this target
    landed,         \* branch -> goods credited for this target
    handCalls,      \* request -> the handler it is in the middle of
    targetRaced,    \* a status was written over one that had moved
    receiptsMet     \* two receipts were open at once

targetVars == <<target, splits, larder, shipped, landed, handCalls, targetRaced, receiptsMet>>

InHand == [op |-> "none"]
Take(h, c) == handCalls[h] = InHand /\ handCalls' = [handCalls EXCEPT ![h] = c]
Drop(h) == handCalls' = [handCalls EXCEPT ![h] = InHand]

RowsWhere(P(_)) == {i \in DOMAIN splits : P(splits[i])}
Amount(rows) == SumOver([i \in rows |-> splits[i].quantity], rows)

-----------------------------------------------------------------------------
\* One target per kitchen and date.
CreateTarget ==
    /\ target.status = "ABSENT"
    /\ target' = [target EXCEPT !.status = "PENDING"]
    /\ UNCHANGED <<splits, larder, shipped, landed, handCalls, targetRaced, receiptsMet>>

\* The status each handler asks for, and the one it writes.
From == [edit |-> "PENDING", delete |-> "PENDING", acknowledge |-> "PENDING",
         start |-> "ACKNOWLEDGED", mark |-> "IN_PRODUCTION", complete |-> "IN_PRODUCTION",
         allocate |-> "COMPLETED", dispatch |-> "ALLOCATED"]
To == [acknowledge |-> "ACKNOWLEDGED", start |-> "IN_PRODUCTION", complete |-> "COMPLETED",
       allocate |-> "ALLOCATED", dispatch |-> "DISPATCHED", delete |-> "DELETED"]

AllProduced(t) == t.produced = TargetLines

LoadStep(h, op) ==
    /\ target.status = From[op]
    /\ op = "complete" => AllProduced(target)
    /\ Take(h, [op |-> op, edition |-> target.edition])
    /\ UNCHANGED <<target, splits, larder, shipped, landed, targetRaced, receiptsMet>>

LoadMark(h, l) ==
    /\ target.status = From.mark
    /\ Take(h, [op |-> "mark", line |-> l, edition |-> target.edition])
    /\ UNCHANGED <<target, splits, larder, shipped, landed, targetRaced, receiptsMet>>

\* MUTANT of SplitFits: each row is compared with the line by itself.
FitsRowByRow(split) == \A l \in TargetLines, o \in Outlets : split[<<l, o>>] <= BatchOf[l]
\* The rows of a line together stay within what was produced.
SplitFits(split) == \A l \in TargetLines :
    SumOver([o \in Outlets |-> split[<<l, o>>]], Outlets) <= BatchOf[l]

LoadSplit(h, split) ==
    /\ target.status = From.allocate
    /\ SplitFits(split)
    /\ Take(h, [op |-> "allocate", split |-> split, edition |-> target.edition])
    /\ UNCHANGED <<target, splits, larder, shipped, landed, targetRaced, receiptsMet>>

\* Pre-flight: the whole shipment against what can be dispatched.
LoadShipment(h) ==
    /\ target.status = From.dispatch
    /\ Amount(DOMAIN splits) <= larder
    /\ Take(h, [op |-> "dispatch", rows |-> DOMAIN splits, edition |-> target.edition])
    /\ UNCHANGED <<target, splits, larder, shipped, landed, targetRaced, receiptsMet>>

\* The status column is written because it differs from the one that was read.
Stamp(op) ==
    /\ target' = [target EXCEPT !.status = To[op]]
    /\ targetRaced' = (targetRaced \/ target.status # From[op])

\* An UPDATE of a row that is gone raises and rolls back.
RowIsThere == target.status # "DELETED"

\* Rows a receipt has written and not committed are waited for.
ShareReceipts == {h \in Hands : handCalls[h].op \in {"receive", "received"}}
RowsUnlocked == \A h \in ShareReceipts : handCalls[h].op = "receive"

CommitStep(h) ==
    LET c == handCalls[h] IN
    /\ c.op \in {"acknowledge", "start", "complete"}
    /\ RowIsThere
    /\ Stamp(c.op)
    /\ Drop(h)
    /\ UNCHANGED <<splits, larder, shipped, landed, receiptsMet>>

CommitMark(h) ==
    LET c == handCalls[h] IN
    /\ c.op = "mark"
    /\ RowIsThere /\ c.edition = target.edition
    /\ target' = [target EXCEPT !.produced = @ \cup {c.line}]
    /\ targetRaced' = (targetRaced \/ target.status # From.mark)
    /\ Drop(h)
    /\ UNCHANGED <<splits, larder, shipped, landed, receiptsMet>>

\* The old line rows are deleted, their allocations with them; new ones start
\* unproduced.  The status is not looked at again.
CommitEdit(h) ==
    LET c == handCalls[h] IN
    /\ c.op = "edit"
    /\ RowIsThere /\ RowsUnlocked /\ c.edition = target.edition /\ target.edition < MaxTargetEdits
    /\ target' = [target EXCEPT !.produced = {}, !.edition = @ + 1]
    /\ targetRaced' = (targetRaced \/ target.status # From.edit)
    /\ splits' = << >>
    /\ Drop(h)
    /\ UNCHANGED <<larder, shipped, landed, receiptsMet>>

CommitDelete(h) ==
    /\ handCalls[h].op = "delete"
    /\ RowIsThere /\ RowsUnlocked
    /\ Stamp("delete")
    /\ splits' = << >>
    /\ Drop(h)
    /\ UNCHANGED <<larder, shipped, landed, receiptsMet>>

SplitRows(split) ==
    SetToSeq({[line |-> p[1], outlet |-> p[2], quantity |-> split[p], status |-> "ALLOCATED"] :
              p \in {q \in TargetLines \X Outlets : split[q] > 0}})

CommitSplit(h) ==
    LET c == handCalls[h] IN
    /\ c.op = "allocate"
    /\ RowIsThere /\ c.edition = target.edition
    /\ Len(splits) + Len(SplitRows(c.split)) <= MaxSplits
    /\ splits' = splits \o SplitRows(c.split)
    /\ Stamp("allocate")
    /\ Drop(h)
    /\ UNCHANGED <<larder, shipped, landed, receiptsMet>>

\* MUTANT of Debit: a short shipment takes what there is.
DebitWhatThereIs(n) == IF n <= larder THEN n ELSE larder
Debit(n) == n

\* FEFO debits every allocation it loaded under the stock rows' locks; a
\* shortfall rolls the whole shipment back.
CommitShipment(h) ==
    LET c == handCalls[h]
        n == Debit(Amount(c.rows)) IN
    /\ c.op = "dispatch"
    /\ RowIsThere /\ RowsUnlocked /\ c.edition = target.edition
    /\ n <= larder
    /\ larder' = larder - n
    /\ shipped' = shipped + n
    /\ splits' = [i \in DOMAIN splits |->
                    IF i \in c.rows THEN [splits[i] EXCEPT !.status = "DISPATCHED"] ELSE splits[i]]
    /\ Stamp("dispatch")
    /\ Drop(h)
    /\ UNCHANGED <<landed, receiptsMet>>

-----------------------------------------------------------------------------
LoadShareReceipt(h, i) ==
    /\ i \in DOMAIN splits /\ splits[i].status = "DISPATCHED"
    /\ Take(h, [op |-> "receive", row |-> i, edition |-> target.edition])
    /\ receiptsMet' = (receiptsMet \/ ShareReceipts # {})
    /\ UNCHANGED <<target, splits, larder, shipped, landed, targetRaced>>

\* MUTANT of RowStands: the receipt is written without the comparison.
RowAsRead(c) == TRUE
\* The compare-and-set on the allocation; a writer of the same row is waited
\* for, and a row that is gone matches nothing.
RowStands(c) == splits[c.row].status = "DISPATCHED"

\* Credit, compare-and-set, and the count of what is outstanding: the count
\* sees committed rows and its own.
WriteShareReceipt(h) ==
    LET c == handCalls[h] IN
    /\ c.op = "receive"
    /\ c.edition = target.edition /\ c.row \in DOMAIN splits
    /\ RowStands(c)
    /\ \A o \in Hands : handCalls[o].op = "received" => handCalls[o].row # c.row
    /\ handCalls' = [handCalls EXCEPT ![h] =
         [op |-> "received", row |-> c.row, edition |-> c.edition,
          outstanding |-> Cardinality(RowsWhere(LAMBDA r : r.status # "RECEIVED") \ {c.row})]]
    /\ UNCHANGED <<target, splits, larder, shipped, landed, targetRaced, receiptsMet>>

\* MUTANT of LastOne: the count still includes the row just received.
LastOneButOne(c) == c.outstanding = 1
LastOne(c) == c.outstanding = 0

CommitShareReceipt(h) ==
    LET c == handCalls[h] IN
    /\ c.op = "received"
    /\ landed' = [landed EXCEPT ![splits[c.row].outlet] = @ + splits[c.row].quantity]
    /\ splits' = [splits EXCEPT ![c.row].status = "RECEIVED"]
    /\ target' = [target EXCEPT !.status =
                    IF LastOne(c) /\ @ = "DISPATCHED" THEN "RECEIVED" ELSE @]
    /\ Drop(h)
    /\ UNCHANGED <<larder, shipped, targetRaced, receiptsMet>>

\* Any request may be refused, lose its row or be rolled back.
Turn(h) ==
    /\ handCalls[h] # InHand
    /\ Drop(h)
    /\ UNCHANGED <<target, splits, larder, shipped, landed, targetRaced, receiptsMet>>

\* The kitchen makes goods (POST /kitchen/production) or ships others.
OtherStock ==
    /\ larder' \in 0..Larder
    /\ larder' # larder
    /\ UNCHANGED <<target, splits, shipped, landed, handCalls, targetRaced, receiptsMet>>

-----------------------------------------------------------------------------
AllSplits == [TargetLines \X Outlets -> SplitSizes \cup {0}]

TargetInit ==
    /\ target = [status |-> "ABSENT", produced |-> {}, edition |-> 0]
    /\ splits = << >>
    /\ larder = Larder
    /\ shipped = 0
    /\ landed = [o \in Outlets |-> 0]
    /\ handCalls = [h \in Hands |-> InHand]
    /\ targetRaced = FALSE
    /\ receiptsMet = FALSE

TargetNext ==
    \/ CreateTarget
    \/ OtherStock
    \/ \E h \in Hands :
         \/ \E op \in {"edit", "delete", "acknowledge", "start", "complete"} : LoadStep(h, op)
         \/ \E l \in TargetLines : LoadMark(h, l)
         \/ \E split \in AllSplits : LoadSplit(h, split)
         \/ LoadShipment(h)
         \/ \E i \in 1..MaxSplits : LoadShareReceipt(h, i)
         \/ CommitStep(h)
         \/ CommitMark(h)
         \/ CommitEdit(h)
         \/ CommitDelete(h)
         \/ CommitSplit(h)
         \/ CommitShipment(h)
         \/ WriteShareReceipt(h)
         \/ CommitShareReceipt(h)
         \/ Turn(h)

TargetSpec == TargetInit /\ [][TargetNext]_targetVars

-----------------------------------------------------------------------------
(***************************************************************************)
(* Unless a status was written over one that had moved, what is split over *)
(* the branches was produced, and a line's splits together stay within it. *)
(* (allocate validates the whole body before any write.)                   *)
(***************************************************************************)
SplitWithinMade ==
    ~targetRaced => \A l \in TargetLines :
        LET rows == RowsWhere(LAMBDA r : r.line = l) IN
        rows # {} => l \in target.produced /\ Amount(rows) <= BatchOf[l]

(***************************************************************************)
(* Unless a status was written over one that had moved, the kitchen is     *)
(* debited exactly the shipped allocations: a shipment is all or nothing.  *)
(* Two dispatches that both read ALLOCATED debit the batch twice.          *)
(***************************************************************************)
ShipmentsDebitedOnce ==
    ~targetRaced => shipped = Amount(RowsWhere(LAMBDA r : r.status # "ALLOCATED"))

(***************************************************************************)
(* Unless a status was written over one that had moved, each branch is     *)
(* credited exactly the allocations it received, however many receipts of  *)
(* one delivery race.  A second dispatch of the batch puts a received row  *)
(* back to DISPATCHED, and the branch may receive it again.                *)
(***************************************************************************)
ReceiptsCreditedOnce ==
    ~targetRaced => \A o \in Outlets :
        landed[o] = Amount(RowsWhere(LAMBDA r : r.status = "RECEIVED" /\ r.outlet = o))

(***************************************************************************)
(* The target is RECEIVED only when every delivery is; and when every      *)
(* delivery is, only two receipts that each counted the other's as         *)
(* outstanding leave it DISPATCHED.                                        *)
(***************************************************************************)
TargetRollsUp ==
    LET all == splits # << >> /\ \A i \in DOMAIN splits : splits[i].status = "RECEIVED" IN
    ~targetRaced => /\ target.status = "RECEIVED" => all
                    /\ all /\ ~receiptsMet => target.status = "RECEIVED"

(***************************************************************************)
(* From the batch to the branches nothing is invented or lost: the split   *)
(* fits the batch, what left is what was split, what arrived is what left, *)
(* and the target's status says so.                                        *)
(***************************************************************************)
TargetsBalance ==
    SplitWithinMade /\ ShipmentsDebitedOnce /\ ReceiptsCreditedOnce /\ TargetRollsUp
=============================================================================
