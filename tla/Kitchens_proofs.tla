-------------------------- MODULE Kitchens_proofs --------------------------
(***************************************************************************)
(* The kitchens, for any number of branches, plans, lines, tickets, items, *)
(* stations and requests in progress: the day's target and its split over  *)
(* the branches, production runs against versioned recipes, the            *)
(* preparation board, print jobs, planning from demand, and the calendar   *)
(* of events and the rollup of sales that planning reads. What each        *)
(* component promises is strengthened to what its handlers in progress     *)
(* still know of the rows they read.                                       *)
(***************************************************************************)
EXTENDS ProductionTargets, Recipes, Preparation, Printing, Planning, Demand,
        EventCalendar, Sums_proofs

(***************************************************************************)
(*                       Production targets                                *)
(***************************************************************************)
SplitRow == [line : TargetLines, outlet : Outlets, quantity : Nat,
             status : {"ALLOCATED", "DISPATCHED", "RECEIVED"}]
ListOfSplits(s) == IsFiniteSet(DOMAIN s) /\ \A i \in DOMAIN s : s[i] \in SplitRow

AmountOf(s, rows) == SumOver([i \in rows |-> s[i].quantity], rows)
LineRows(s, l) == {i \in DOMAIN s : s[i].line = l}
LandedRows(s, o) == {i \in DOMAIN s : s[i].status = "RECEIVED" /\ s[i].outlet = o}

LEMMA NoAmount ==
  ASSUME NEW s PROVE AmountOf(s, {}) = 0
BY SumEmpty DEF AmountOf

LEMMA SameAmount ==
  ASSUME NEW s, NEW r, NEW S, IsFiniteSet(S),
         \A i \in S : s[i].quantity \in Int /\ r[i].quantity = s[i].quantity
  PROVE  AmountOf(r, S) = AmountOf(s, S) /\ AmountOf(s, S) \in Int
<1> DEFINE f == [i \in S |-> s[i].quantity]
           g == [i \in S |-> r[i].quantity]
<1>1. \A i \in S : f[i] \in Int /\ f[i] = g[i]
  OBVIOUS
<1>2. AmountOf(r, S) = SumOver(g, S) /\ AmountOf(s, S) = SumOver(f, S)
  BY DEF AmountOf
<1> HIDE DEF f, g
<1>3. SumOver(f, S) = SumOver(g, S)
  BY <1>1, SumSame
<1>4. SumOver(f, S) \in Int
  BY <1>1, SumIsInt
<1> QED  BY <1>2, <1>3, <1>4

LEMMA OneMoreAmount ==
  ASSUME NEW s, NEW S, IsFiniteSet(S), NEW y, y \notin S,
         \A i \in S \cup {y} : s[i].quantity \in Int
  PROVE  AmountOf(s, S \cup {y}) = AmountOf(s, S) + s[y].quantity
<1> DEFINE U == S \cup {y}
           f == [i \in S |-> s[i].quantity]
           g == [i \in U |-> s[i].quantity]
<1>1. IsFiniteSet(U)
  BY FS_AddElement
<1>2. y \in U /\ U \ {y} = S /\ U \in SUBSET U /\ g[y] = s[y].quantity
  OBVIOUS
<1>3. (\A i \in U : g[i] \in Int) /\ (\A i \in S : f[i] \in Int /\ f[i] = g[i])
  OBVIOUS
<1>4. AmountOf(s, U) = SumOver(g, U) /\ AmountOf(s, S) = SumOver(f, S)
  BY DEF AmountOf
<1> HIDE DEF U, f, g
<1>5. SumOver(g, U) = g[y] + SumOver(g, U \ {y})
  BY <1>1, <1>2, <1>3, SumRemove
<1>6. SumOver(f, S) = SumOver(g, S)
  BY <1>3, SumSame
<1>7. SumOver(f, S) \in Int
  BY <1>3, SumIsInt
<1>8. g[y] \in Int
  BY <1>2, <1>3
<1>9. SumOver(g, U) = g[y] + SumOver(g, S)
  BY <1>2, <1>5, Zenon
<1>10. SumOver(g, U) = SumOver(f, S) + g[y]
  BY <1>6, <1>7, <1>8, <1>9
<1>11. AmountOf(s, U) = AmountOf(s, S) + s[y].quantity
  BY <1>2, <1>4, <1>10, Zenon
<1> QED  BY <1>11 DEF U

\* The list made of a finite set names each of its members once.
LEMMA ListOfSet ==
  ASSUME NEW S, IsFiniteSet(S)
  PROVE  /\ IsFiniteSet(DOMAIN SetToSeq(S)) /\ SetToSeq(S) \in Seq(S)
         /\ \A i \in DOMAIN SetToSeq(S) : SetToSeq(S)[i] \in S
         /\ IsInjective(SetToSeq(S))
<1> DEFINE n == Cardinality(S)
           s == SetToSeq(S)
<1>1. n \in Nat /\ ExistsBijection(1..n, S)
  BY FS_CardinalityType
<1>2. \E f \in [1..n -> S] : IsInjective(f)
  BY <1>1 DEF ExistsBijection, Bijection, Injection
<1>3. s \in [1..n -> S] /\ IsInjective(s)
  BY <1>2 DEF SetToSeq
<1>4. DOMAIN s = 1..n
  BY <1>3
<1>5. IsFiniteSet(1..n)
  BY <1>1, FS_Interval
<1> HIDE DEF n, s
<1>6. s \in Seq(S)
  BY <1>1, <1>3
<1>7. IsFiniteSet(DOMAIN s) /\ \A i \in DOMAIN s : s[i] \in S
  BY <1>3, <1>4, <1>5
<1> QED  BY <1>3, <1>6, <1>7 DEF s

\* What the admin splits becomes rows that keep every line within its batch.
LEMMA SplitRowsFit ==
  ASSUME NEW split \in AllSplits, SplitFits(split)
  PROVE  LET rows == SplitRows(split) IN
         /\ ListOfSplits(rows) /\ << >> \o rows = rows /\ (DOMAIN rows = {} => rows = << >>)
         /\ \A i \in DOMAIN rows : rows[i].status = "ALLOCATED"
         /\ \A l \in TargetLines : AmountOf(rows, LineRows(rows, l)) <= BatchOf[l]
<1> DEFINE cells == {q \in TargetLines \X Outlets : split[q] > 0}
           rowOf == [p \in cells |-> [line |-> p[1], outlet |-> p[2], quantity |-> split[p],
                                      status |-> "ALLOCATED"]]
           R == {[line |-> p[1], outlet |-> p[2], quantity |-> split[p], status |-> "ALLOCATED"] :
                   p \in cells}
           rows == SplitRows(split)
<1>1. \A p \in TargetLines \X Outlets : split[p] \in Nat
  <2>1. SplitSizes \cup {0} \subseteq Nat
    BY TargetsAssumption
  <2> QED  BY <2>1 DEF AllSplits
<1>2. IsFiniteSet(R)
  <2>1. IsFiniteSet(TargetLines \X Outlets)
    BY FS_Product, TargetsAssumption
  <2>2. IsFiniteSet(cells)
    BY <2>1, FS_Subset
  <2>3. rowOf \in Surjection(cells, R)
    BY DEF Surjection
  <2> QED  BY <2>2, <2>3, FS_Surjection
<1>3. rows = SetToSeq(R)
  BY DEF SplitRows
<1>4. \A r \in R : /\ r \in SplitRow /\ r.status = "ALLOCATED"
                   /\ r.quantity = split[<<r.line, r.outlet>>]
  <2> SUFFICES ASSUME NEW p \in cells
               PROVE  LET r == [line |-> p[1], outlet |-> p[2], quantity |-> split[p],
                                status |-> "ALLOCATED"] IN
                      /\ r \in SplitRow /\ r.status = "ALLOCATED"
                      /\ r.quantity = split[<<r.line, r.outlet>>]
    OBVIOUS
  <2>1. p[1] \in TargetLines /\ p[2] \in Outlets /\ p = <<p[1], p[2]>> /\ split[p] \in Nat
    BY <1>1
  <2> QED  BY <2>1 DEF SplitRow
<1>5. \A r, t \in R : r.line = t.line /\ r.outlet = t.outlet => r = t
  BY <1>4 DEF SplitRow
<1> HIDE DEF rows, R, cells, rowOf
<1>6. /\ IsFiniteSet(DOMAIN rows) /\ rows \in Seq(R)
      /\ \A i \in DOMAIN rows : rows[i] \in R
      /\ IsInjective(rows)
  BY <1>2, <1>3, ListOfSet
<1>7. ListOfSplits(rows) /\ \A i \in DOMAIN rows : rows[i].status = "ALLOCATED"
  BY <1>4, <1>6 DEF ListOfSplits
<1>8. << >> \o rows = rows /\ (DOMAIN rows = {} => rows = << >>)
  BY <1>6
<1>9. ASSUME NEW l \in TargetLines
      PROVE  AmountOf(rows, LineRows(rows, l)) <= BatchOf[l]
  <2> DEFINE U == LineRows(rows, l)
             f == [i \in U |-> rows[i].quantity]
             key == [i \in U |-> rows[i].outlet]
             g == [o \in Outlets |-> SumOver(f, Group(U, key, o))]
             h == [o \in Outlets |-> split[<<l, o>>]]
  <2>1. U \subseteq DOMAIN rows /\ \A i \in U : rows[i] \in R /\ rows[i].line = l
    BY <1>6 DEF LineRows
  <2>2. IsFiniteSet(U)
    BY <2>1, <1>6, FS_Subset
  <2>3. /\ \A i \in U : f[i] \in Int /\ key[i] \in Outlets
        /\ \A o \in Outlets : h[o] \in Nat
        /\ \A i \in U : f[i] = h[key[i]]
    <3>1. ASSUME NEW i \in U PROVE f[i] \in Int /\ key[i] \in Outlets /\ f[i] = h[key[i]]
      <4>1. rows[i] \in R /\ rows[i].line = l
        BY <2>1
      <4>2. rows[i] \in SplitRow /\ rows[i].quantity = split[<<l, rows[i].outlet>>]
        BY <4>1, <1>4
      <4>3. rows[i].outlet \in Outlets /\ rows[i].quantity \in Nat
        BY <4>2 DEF SplitRow
      <4> QED  BY <4>2, <4>3
    <3>2. \A o \in Outlets : h[o] \in Nat
      BY <1>1
    <3> HIDE DEF f, key, h, U
    <3> QED  BY <3>1, <3>2
  <2>5. \A i, j \in U : key[i] = key[j] => i = j
    BY <2>1, <1>5, <1>6 DEF IsInjective
  <2>6. IsFiniteSet(Outlets)
    BY TargetsAssumption
  <2>7. AmountOf(rows, U) = SumOver(f, U)
    BY DEF AmountOf
  <2>8. \A o \in Outlets : g[o] = SumOver(f, Group(U, key, o))
    OBVIOUS
  <2>9. SumOver(h, Outlets) <= BatchOf[l]
    BY DEF SplitFits
  <2> HIDE DEF U, f, key, g, h
  <2>10. ASSUME NEW o \in Outlets PROVE g[o] \in Int /\ g[o] <= h[o]
    <3>1. CASE Group(U, key, o) = {}
      BY <3>1, <2>3, <2>8, SumEmpty
    <3>2. CASE Group(U, key, o) # {}
      <4>1. PICK i \in U : key[i] = o
        BY <3>2 DEF Group
      <4>2. Group(U, key, o) = {i} /\ {i} \ {i} = {} /\ i \in {i} /\ {i} \in SUBSET {i}
        BY <4>1, <2>5 DEF Group
      <4>3. IsFiniteSet({i})
        BY FS_Singleton
      <4>4. \A x \in {i} : f[x] \in Int
        BY <2>3
      <4>5. SumOver(f, {i}) = f[i] + SumOver(f, {i} \ {i})
        BY <4>2, <4>3, <4>4, SumRemove
      <4>6. SumOver(f, {i} \ {i}) = 0
        BY <4>2, SumEmpty
      <4>7. f[i] \in Int /\ f[i] = h[o]
        BY <2>3, <4>1
      <4>8. SumOver(f, {i}) = f[i]
        BY <4>5, <4>6, <4>7
      <4>9. g[o] = f[i]
        BY <2>8, <4>2, <4>8, Zenon
      <4> QED  BY <4>7, <4>9
    <3> QED  BY <3>1, <3>2
  <2>11. SumOver(f, U) = SumOver(g, Outlets)
    BY <2>2, <2>3, <2>6, <2>8, SumByKey
  <2>12. SumOver(g, Outlets) <= SumOver(h, Outlets)
    <3>1. \A o \in Outlets : g[o] \in Int /\ h[o] \in Int /\ g[o] <= h[o]
      BY <2>3, <2>10
    <3> QED  BY <3>1, <2>6, SumLess
  <2>13. SumOver(g, Outlets) \in Int /\ SumOver(h, Outlets) \in Int /\ BatchOf[l] \in Int
    <3>1. (\A o \in Outlets : g[o] \in Int) /\ (\A o \in Outlets : h[o] \in Int)
      BY <2>3, <2>10
    <3>2. SumOver(g, Outlets) \in Int
      BY <3>1, <2>6, SumIsInt
    <3>3. SumOver(h, Outlets) \in Int
      BY <3>1, <2>6, SumIsInt
    <3>4. BatchOf[l] \in Nat
      BY TargetsAssumption
    <3> QED  BY <3>2, <3>3, <3>4
  <2>14. SumOver(f, U) <= BatchOf[l]
    BY <2>9, <2>11, <2>12, <2>13
  <2> QED  BY <2>7, <2>14 DEF U
<1> QED  BY <1>7, <1>8, <1>9 DEF rows

-----------------------------------------------------------------------------
\* How far the day has come, and what is on record by then.
Early == {"ABSENT", "PENDING", "ACKNOWLEDGED", "IN_PRODUCTION", "COMPLETED", "DELETED"}
Split == {"ALLOCATED", "DISPATCHED", "RECEIVED"}
Sent == {"DISPATCHED", "RECEIVED"}
Worked == {"IN_PRODUCTION", "COMPLETED"} \cup Split

TargetTypes ==
    /\ target \in [status : Early \cup Split, produced : SUBSET TargetLines, edition : Nat]
    /\ ListOfSplits(splits)
    /\ shipped \in Int /\ landed \in [Outlets -> Int]
    /\ DOMAIN handCalls = Hands

RowsFollowStatus ==
    /\ target.status \in Early => splits = << >>
    /\ target.status \notin Sent => shipped = 0
    /\ target.status \in {"COMPLETED"} \cup Split => target.produced = TargetLines
    /\ target.status = "ALLOCATED" => \A i \in DOMAIN splits : splits[i].status = "ALLOCATED"
    /\ target.status \in Sent => \A i \in DOMAIN splits : splits[i].status # "ALLOCATED"
    /\ target.status \in Sent => shipped = AmountOf(splits, DOMAIN splits)

AmountsFit ==
    /\ \A l \in TargetLines : AmountOf(splits, LineRows(splits, l)) <= BatchOf[l]
    /\ \A o \in Outlets : landed[o] = AmountOf(splits, LandedRows(splits, o))

AllLanded == splits # << >> /\ \A i \in DOMAIN splits : splits[i].status = "RECEIVED"
StatusTells ==
    /\ target.status = "RECEIVED" => AllLanded
    /\ AllLanded /\ ~receiptsMet => target.status = "RECEIVED"

\* What a handler in progress read, seen from where the day is now.
OthersLanded(row) == \A i \in DOMAIN splits \ {row} : splits[i].status = "RECEIVED"
ReceiptStands(c) ==
    /\ c.row \in DOMAIN splits /\ splits[c.row].status = "DISPATCHED"
    /\ LastOne(c) => OthersLanded(c.row)
    /\ OthersLanded(c.row) /\ ~receiptsMet => LastOne(c)
HandStands(h) ==
    LET c == handCalls[h] IN
    /\ c.op = "complete" => target.status \in Worked /\ target.produced = TargetLines
    /\ c.op = "mark" => c.line \in TargetLines
    /\ c.op = "allocate" => c.split \in AllSplits /\ SplitFits(c.split)
    /\ c.op = "dispatch" => target.status \in Split /\ c.rows = DOMAIN splits
    /\ c.op = "received" => ReceiptStands(c)
HandsApart ==
    \A h, k \in Hands : h # k =>
      /\ handCalls[h].op = "received" /\ handCalls[k].op = "received" =>
           handCalls[h].row # handCalls[k].row
      /\ h \in ShareReceipts /\ k \in ShareReceipts => receiptsMet

DayInv ==
    /\ TargetTypes /\ RowsFollowStatus /\ AmountsFit /\ StatusTells
    /\ (\A h \in Hands : HandStands(h)) /\ HandsApart

\* What TLC calls TargetsBalance, read off the rows.
LEMMA DayBalances ==
  ASSUME DayInv PROVE TargetsBalance
<1> USE DEF DayInv
<1>1. \A l \in TargetLines :
        LineRows(splits, l) # {} => target.status \in Split
  <2>1. target.status \in Early => \A l : LineRows(splits, l) = {}
    BY DEF RowsFollowStatus, LineRows
  <2> QED  BY <2>1 DEF TargetTypes
<1>2. SplitWithinMade
  BY <1>1 DEF SplitWithinMade, RowsWhere, Amount, AmountOf, LineRows, RowsFollowStatus, AmountsFit
<1>3. ReceiptsCreditedOnce
  BY DEF ReceiptsCreditedOnce, RowsWhere, Amount, AmountOf, LandedRows, AmountsFit
<1>4. shipped = Amount({i \in DOMAIN splits : splits[i].status # "ALLOCATED"})
  <2>1. CASE target.status \in Sent
    <3>1. {i \in DOMAIN splits : splits[i].status # "ALLOCATED"} = DOMAIN splits
      BY <2>1 DEF RowsFollowStatus
    <3> QED  BY <2>1, <3>1 DEF RowsFollowStatus, Amount, AmountOf
  <2>2. CASE target.status \notin Sent
    <3>1. {i \in DOMAIN splits : splits[i].status # "ALLOCATED"} = {}
      BY <2>2 DEF RowsFollowStatus, TargetTypes, Split, Sent
    <3>2. Amount({}) = 0
      BY NoAmount DEF Amount, AmountOf
    <3> QED  BY <2>2, <3>1, <3>2 DEF RowsFollowStatus
  <2> QED  BY <2>1, <2>2
<1>5. ShipmentsDebitedOnce
  BY <1>4 DEF ShipmentsDebitedOnce, RowsWhere
<1>6. TargetRollsUp
  BY DEF TargetRollsUp, StatusTells, AllLanded
<1> QED  BY <1>2, <1>3, <1>5, <1>6 DEF TargetsBalance

LEMMA NothingSplit ==
  ASSUME splits' = << >>
  PROVE  /\ ListOfSplits(splits)'
         /\ \A l \in TargetLines : AmountOf(splits, LineRows(splits, l))' = 0
         /\ \A o \in Outlets : AmountOf(splits, LandedRows(splits, o))' = 0
<1>1. DOMAIN splits' = {}
  OBVIOUS
<1>2. \A l : LineRows(splits', l) = {}
  BY <1>1 DEF LineRows
<1>3. \A o : LandedRows(splits', o) = {}
  BY <1>1 DEF LandedRows
<1>4. AmountOf(splits', {}) = 0
  BY NoAmount
<1>5. IsFiniteSet(DOMAIN splits')
  BY <1>1, FS_EmptySet
<1> QED  BY <1>1, <1>2, <1>3, <1>4, <1>5 DEF ListOfSplits

\* Handlers other than a receipt that has written keep what they read.
LEMMA HandsOutlive ==
  ASSUME NEW h \in Hands, HandStands(h), handCalls'[h] = handCalls[h],
         handCalls[h].op # "received",
         target.status \in Worked /\ target.produced = TargetLines =>
           target'.status \in Worked /\ target'.produced = TargetLines,
         target.status \in Split => target'.status \in Split /\ DOMAIN splits' = DOMAIN splits
  PROVE  HandStands(h)'
BY DEF HandStands

LEMMA ApartAfter ==
  ASSUME HandsApart, NEW h \in Hands, receiptsMet => receiptsMet',
         \A k \in Hands \ {h} : handCalls'[k] = handCalls[k],
         handCalls'[h].op \notin {"receive", "received"}
  PROVE  HandsApart'
BY DEF HandsApart, ShareReceipts

LEMMA NobodyReceives ==
  ASSUME DayInv, target.status \notin Sent, NEW h \in Hands
  PROVE  handCalls[h].op # "received"
<1>1. \A i \in DOMAIN splits : splits[i].status = "ALLOCATED"
  BY DEF DayInv, TargetTypes, RowsFollowStatus, Split, Sent
<1> QED  BY <1>1 DEF DayInv, HandStands, ReceiptStands

\* A step of the kitchen's day before anything is split.
LEMMA EarlyStep ==
  ASSUME DayInv, target.status \in Early, target'.status \in Early,
         target' \in [status : Early \cup Split, produced : SUBSET TargetLines, edition : Nat],
         target'.status = "COMPLETED" => target'.produced = TargetLines,
         target.status \in Worked /\ target.produced = TargetLines =>
           target'.status \in Worked /\ target'.produced = TargetLines,
         splits' = << >>, UNCHANGED <<shipped, landed, receiptsMet>>,
         DOMAIN handCalls' = Hands,
         \A k \in Hands : handCalls'[k] = InHand \/ handCalls'[k] = handCalls[k]
  PROVE  DayInv'
<1> USE DEF DayInv
<1>1. splits = << >> /\ "RECEIVED" \notin Early /\ "ALLOCATED" \notin Early
      /\ Early \cap Split = {} /\ Early \cap Sent = {}
  BY DEF RowsFollowStatus, Early, Split, Sent
<1>2. \A k \in Hands : handCalls[k].op # "received"
  BY <1>1, NobodyReceives
<1>3. \A k \in Hands : handCalls'[k] = handCalls[k] => HandStands(k)'
  BY <1>1, <1>2, HandsOutlive
<1>4. \A k \in Hands : HandStands(k)'
  <2>1. \A k \in Hands : handCalls'[k] = InHand => HandStands(k)'
    BY DEF HandStands, InHand
  <2> QED  BY <2>1, <1>3
<1>5. HandsApart'
  BY <1>2 DEF HandsApart, ShareReceipts, InHand
<1>6. TargetTypes'
  BY <1>1, NothingSplit DEF TargetTypes
<1>7. RowsFollowStatus'
  BY <1>1 DEF RowsFollowStatus
<1>8. AmountsFit'
  BY <1>1 DEF AmountsFit
<1>9. StatusTells'
  BY <1>1 DEF StatusTells, AllLanded
<1> QED  BY <1>4, <1>5, <1>6, <1>7, <1>8, <1>9

\* A handler begins, or goes away with nothing written.
LEMMA HandMoves ==
  ASSUME DayInv, NEW h \in Hands, NEW call, handCalls' = [handCalls EXCEPT ![h] = call],
         UNCHANGED <<target, splits, shipped, landed, receiptsMet>>,
         call.op \notin {"receive", "received"}, HandStands(h)'
  PROVE  DayInv'
<1> USE DEF DayInv
<1>1. handCalls'[h] = call /\ DOMAIN handCalls' = Hands
      /\ \A k \in Hands \ {h} : handCalls'[k] = handCalls[k]
  BY DEF TargetTypes
<1>2. ASSUME NEW k \in Hands \ {h} PROVE HandStands(k)'
  <2>1. HandStands(k) /\ handCalls'[k] = handCalls[k]
    BY <1>1
  <2> QED  BY <2>1 DEF HandStands, ReceiptStands, LastOne, OthersLanded
<1>3. HandsApart'
  BY <1>1, ApartAfter
<1>4. TargetTypes' /\ RowsFollowStatus' /\ AmountsFit' /\ StatusTells'
  BY <1>1 DEF TargetTypes, ListOfSplits, RowsFollowStatus, AmountsFit, AmountOf, LineRows,
              LandedRows, StatusTells, AllLanded
<1> QED  BY <1>2, <1>3, <1>4

LEMMA LoadsStand ==
  ASSUME DayInv, NEW h \in Hands,
         \/ \E op \in {"edit", "delete", "acknowledge", "start", "complete"} : LoadStep(h, op)
         \/ \E l \in TargetLines : LoadMark(h, l)
         \/ \E split \in AllSplits : LoadSplit(h, split)
         \/ LoadShipment(h)
         \/ Turn(h)
  PROVE  DayInv'
<1>1. ASSUME NEW op \in {"edit", "delete", "acknowledge", "start", "complete"}, LoadStep(h, op)
      PROVE  DayInv'
  <2> DEFINE call == [op |-> op, edition |-> target.edition]
  <2>1. UNCHANGED <<target, splits, shipped, landed, receiptsMet>>
        /\ handCalls' = [handCalls EXCEPT ![h] = call]
        /\ (op = "complete" => target.status = "IN_PRODUCTION" /\ target.produced = TargetLines)
    BY <1>1 DEF LoadStep, Take, AllProduced, From
  <2>2. handCalls'[h] = call
    BY <2>1 DEF DayInv, TargetTypes
  <2>3. HandStands(h)'
    BY <2>1, <2>2 DEF HandStands, Worked
  <2> QED  BY <2>1, <2>3, HandMoves
<1>2. ASSUME NEW l \in TargetLines, LoadMark(h, l) PROVE DayInv'
  <2> DEFINE call == [op |-> "mark", line |-> l, edition |-> target.edition]
  <2>1. UNCHANGED <<target, splits, shipped, landed, receiptsMet>>
        /\ handCalls' = [handCalls EXCEPT ![h] = call]
    BY <1>2 DEF LoadMark, Take
  <2>2. handCalls'[h] = call
    BY <2>1 DEF DayInv, TargetTypes
  <2>3. HandStands(h)'
    BY <2>1, <2>2 DEF HandStands
  <2> QED  BY <2>1, <2>3, HandMoves
<1>3. ASSUME NEW split \in AllSplits, LoadSplit(h, split) PROVE DayInv'
  <2> DEFINE call == [op |-> "allocate", split |-> split, edition |-> target.edition]
  <2>1. UNCHANGED <<target, splits, shipped, landed, receiptsMet>> /\ SplitFits(split)
        /\ handCalls' = [handCalls EXCEPT ![h] = call]
    BY <1>3 DEF LoadSplit, Take
  <2>2. handCalls'[h] = call
    BY <2>1 DEF DayInv, TargetTypes
  <2>3. HandStands(h)'
    BY <2>1, <2>2 DEF HandStands
  <2> QED  BY <2>1, <2>3, HandMoves
<1>4. ASSUME LoadShipment(h) PROVE DayInv'
  <2> DEFINE call == [op |-> "dispatch", rows |-> DOMAIN splits, edition |-> target.edition]
  <2>1. UNCHANGED <<target, splits, shipped, landed, receiptsMet>> /\ target.status = "ALLOCATED"
        /\ handCalls' = [handCalls EXCEPT ![h] = call]
    BY <1>4 DEF LoadShipment, Take, From
  <2>2. handCalls'[h] = call
    BY <2>1 DEF DayInv, TargetTypes
  <2>3. HandStands(h)'
    BY <2>1, <2>2 DEF HandStands, Split
  <2> QED  BY <2>1, <2>3, HandMoves
<1>5. ASSUME Turn(h) PROVE DayInv'
  <2>1. UNCHANGED <<target, splits, shipped, landed, receiptsMet>>
        /\ handCalls' = [handCalls EXCEPT ![h] = InHand]
    BY <1>5 DEF Turn, Drop
  <2>2. handCalls'[h] = InHand
    BY <2>1 DEF DayInv, TargetTypes
  <2>3. HandStands(h)' /\ InHand.op \notin {"receive", "received"}
    BY <2>2 DEF HandStands, InHand
  <2> QED  BY <2>1, <2>3, HandMoves
<1> QED  BY <1>1, <1>2, <1>3, <1>4, <1>5

LEMMA EarlyCommits ==
  ASSUME DayInv, ~targetRaced', NEW h \in Hands,
         CommitStep(h) \/ CommitMark(h) \/ CommitEdit(h) \/ CommitDelete(h)
  PROVE  DayInv'
<1> DEFINE c == handCalls[h]
           Targets == [status : Early \cup Split, produced : SUBSET TargetLines, edition : Nat]
<1>1. target \in Targets /\ HandStands(h)
  BY DEF DayInv, TargetTypes
<1>2. ASSUME handCalls' = [handCalls EXCEPT ![h] = InHand]
      PROVE  handCalls'[h] = InHand /\ DOMAIN handCalls' = Hands
             /\ \A k \in Hands \ {h} : handCalls'[k] = handCalls[k]
  BY <1>2 DEF DayInv, TargetTypes
<1>3. target.status \in Early => splits = << >>
  BY DEF DayInv, RowsFollowStatus
<1>4. CASE CommitStep(h)
  <2>1. UNCHANGED <<splits, shipped, landed, receiptsMet>>
        /\ handCalls' = [handCalls EXCEPT ![h] = InHand]
        /\ c.op \in {"acknowledge", "start", "complete"} /\ target.status = From[c.op]
        /\ target' = [target EXCEPT !.status = To[c.op]]
    BY <1>4 DEF CommitStep, Stamp, Drop
  <2>2. \/ c.op = "acknowledge" /\ target.status = "PENDING" /\ To[c.op] = "ACKNOWLEDGED"
        \/ c.op = "start" /\ target.status = "ACKNOWLEDGED" /\ To[c.op] = "IN_PRODUCTION"
        \/ c.op = "complete" /\ target.status = "IN_PRODUCTION" /\ To[c.op] = "COMPLETED"
    BY <2>1 DEF From, To
  <2>3. target' \in Targets /\ target'.status = To[c.op] /\ target'.produced = target.produced
    BY <1>1, <2>1, <2>2 DEF Early
  <2>4. target.status \in Early /\ target'.status \in Early
    BY <2>2, <2>3 DEF Early
  <2>5. target'.status = "COMPLETED" => target'.produced = TargetLines
    BY <1>1, <2>2, <2>3 DEF HandStands
  <2>6. target.status \in Worked => target'.status \in Worked
    BY <2>2, <2>3 DEF Worked, Split
  <2> QED  BY <1>2, <1>3, <2>1, <2>3, <2>4, <2>5, <2>6, EarlyStep
<1>5. CASE CommitMark(h)
  <2>1. UNCHANGED <<splits, shipped, landed, receiptsMet>>
        /\ handCalls' = [handCalls EXCEPT ![h] = InHand]
        /\ c.op = "mark" /\ target.status = "IN_PRODUCTION"
        /\ target' = [target EXCEPT !.produced = @ \cup {c.line}]
    BY <1>5 DEF CommitMark, From, Drop
  <2>2. c.line \in TargetLines
    BY <1>1, <2>1 DEF HandStands
  <2>3. target' \in Targets /\ target'.status = "IN_PRODUCTION"
        /\ (target.produced = TargetLines => target'.produced = TargetLines)
    BY <1>1, <2>1, <2>2
  <2>4. target.status \in Early /\ target'.status \in Early /\ target'.status \in Worked
    BY <2>1, <2>3 DEF Early, Worked
  <2> QED  BY <1>2, <1>3, <2>1, <2>3, <2>4, EarlyStep
<1>6. CASE CommitEdit(h)
  <2>1. UNCHANGED <<shipped, landed, receiptsMet>> /\ splits' = << >>
        /\ handCalls' = [handCalls EXCEPT ![h] = InHand]
        /\ target.status = "PENDING"
        /\ target' = [target EXCEPT !.produced = {}, !.edition = @ + 1]
    BY <1>6 DEF CommitEdit, From, Drop
  <2>2. target' \in Targets /\ target'.status = "PENDING"
    <3>1. target.edition \in Nat /\ target.edition + 1 \in Nat /\ {} \in SUBSET TargetLines
      BY <1>1
    <3>2. [target EXCEPT !.produced = {}] \in Targets
      BY <1>1, <3>1
    <3>3. \A t \in Targets, n \in Nat :
            [t EXCEPT !.edition = n] \in Targets /\ [t EXCEPT !.edition = n].status = t.status
      OBVIOUS
    <3>4. target' = [[target EXCEPT !.produced = {}] EXCEPT !.edition = target.edition + 1]
      BY <2>1
    <3>5. [target EXCEPT !.produced = {}].status = "PENDING"
      BY <1>1, <2>1
    <3> HIDE DEF Targets
    <3> QED  BY <3>1, <3>2, <3>3, <3>4, <3>5
  <2>3. target.status \in Early /\ target'.status \in Early /\ target.status \notin Worked
    BY <2>1, <2>2 DEF Early, Worked, Split
  <2> QED  BY <1>2, <2>1, <2>2, <2>3, EarlyStep
<1>7. CASE CommitDelete(h)
  <2>1. UNCHANGED <<shipped, landed, receiptsMet>> /\ splits' = << >>
        /\ handCalls' = [handCalls EXCEPT ![h] = InHand]
        /\ target.status = "PENDING"
        /\ target' = [target EXCEPT !.status = "DELETED"]
    BY <1>7 DEF CommitDelete, Stamp, From, To, Drop
  <2>2. target' \in Targets /\ target'.status = "DELETED"
    BY <1>1, <2>1 DEF Early
  <2>3. target.status \in Early /\ target'.status \in Early /\ target.status \notin Worked
    BY <2>1, <2>2 DEF Early, Worked, Split
  <2> QED  BY <1>2, <2>1, <2>2, <2>3, EarlyStep
<1> QED  BY <1>4, <1>5, <1>6, <1>7

LEMMA SplitCommit ==
  ASSUME DayInv, ~targetRaced', NEW h \in Hands, CommitSplit(h)
  PROVE  DayInv'
<1> DEFINE split == handCalls[h].split
           rows == SplitRows(split)
<1>1. UNCHANGED <<shipped, landed, receiptsMet>> /\ splits' = splits \o rows
      /\ handCalls' = [handCalls EXCEPT ![h] = InHand] /\ handCalls[h].op = "allocate"
      /\ target.status = "COMPLETED" /\ target' = [target EXCEPT !.status = "ALLOCATED"]
  BY DEF CommitSplit, Stamp, From, To, Drop
<1>2. split \in AllSplits /\ SplitFits(split)
  BY <1>1 DEF DayInv, HandStands
<1>3. splits = << >> /\ target.produced = TargetLines /\ shipped = 0
  BY <1>1 DEF DayInv, RowsFollowStatus, Early, Sent
<1> HIDE DEF split
<1>4. /\ ListOfSplits(rows) /\ << >> \o rows = rows /\ (DOMAIN rows = {} => rows = << >>)
      /\ \A i \in DOMAIN rows : rows[i].status = "ALLOCATED"
      /\ \A l \in TargetLines : AmountOf(rows, LineRows(rows, l)) <= BatchOf[l]
  BY <1>2, SplitRowsFit
<1>5. splits' = rows
  BY <1>1, <1>3, <1>4
<1> HIDE DEF rows
<1>6. target'.status = "ALLOCATED" /\ target'.produced = TargetLines
      /\ target' \in [status : Early \cup Split, produced : SUBSET TargetLines, edition : Nat]
  BY <1>1, <1>3 DEF DayInv, TargetTypes, Split
<1>7. handCalls'[h] = InHand /\ DOMAIN handCalls' = Hands
      /\ \A k \in Hands \ {h} : handCalls'[k] = handCalls[k]
  BY <1>1 DEF DayInv, TargetTypes
<1>8. TargetTypes'
  BY <1>1, <1>4, <1>5, <1>6, <1>7 DEF DayInv, TargetTypes
<1>9. RowsFollowStatus'
  BY <1>1, <1>3, <1>4, <1>5, <1>6 DEF RowsFollowStatus, Early, Sent
<1>10. AmountsFit'
  <2>1. \A o : LandedRows(rows, o) = {} /\ LandedRows(splits, o) = {}
    BY <1>3, <1>4 DEF LandedRows
  <2>2. \A s : AmountOf(s, {}) = 0
    BY NoAmount
  <2> QED  BY <1>1, <1>4, <1>5, <2>1, <2>2 DEF DayInv, AmountsFit
<1>11. StatusTells'
  <2>1. AllLanded' => FALSE
    <3>1. rows # << >> => \E i \in DOMAIN rows : TRUE
      BY <1>4
    <3> QED  BY <1>4, <1>5, <3>1 DEF AllLanded
  <2> QED  BY <1>6, <2>1 DEF StatusTells
<1>12. \A k \in Hands : handCalls[k].op # "received"
  BY <1>1, NobodyReceives DEF Sent
<1>13. ASSUME NEW k \in Hands \ {h} PROVE HandStands(k)'
  <2>1. HandStands(k) /\ handCalls'[k] = handCalls[k] /\ handCalls[k].op # "received"
    BY <1>7, <1>12 DEF DayInv
  <2> QED  BY <1>1, <1>6, <2>1, HandsOutlive DEF Worked, Split
<1>14. HandStands(h)'
  BY <1>7 DEF HandStands, InHand
<1>15. HandsApart'
  BY <1>1, <1>7, ApartAfter DEF DayInv, InHand
<1> QED  BY <1>8, <1>9, <1>10, <1>11, <1>13, <1>14, <1>15 DEF DayInv

LEMMA ShipmentCommit ==
  ASSUME DayInv, ~targetRaced', NEW h \in Hands, CommitShipment(h)
  PROVE  DayInv'
<1> DEFINE D == DOMAIN splits
<1>1. UNCHANGED <<landed, receiptsMet>> /\ shipped' = shipped + Amount(handCalls[h].rows)
      /\ handCalls' = [handCalls EXCEPT ![h] = InHand] /\ handCalls[h].op = "dispatch"
      /\ target.status = "ALLOCATED" /\ target' = [target EXCEPT !.status = "DISPATCHED"]
      /\ splits' = [i \in D |-> IF i \in handCalls[h].rows
                                THEN [splits[i] EXCEPT !.status = "DISPATCHED"] ELSE splits[i]]
  BY DEF CommitShipment, Stamp, From, To, Drop, Debit
<1>2. handCalls[h].rows = D
  BY <1>1 DEF DayInv, HandStands
<1>3. shipped = 0 /\ target.produced = TargetLines
      /\ \A i \in D : splits[i] \in SplitRow /\ splits[i].status = "ALLOCATED"
  BY <1>1 DEF DayInv, RowsFollowStatus, TargetTypes, ListOfSplits, Split, Sent
<1>4. DOMAIN splits' = D /\ \A i \in D : splits'[i] = [splits[i] EXCEPT !.status = "DISPATCHED"]
  BY <1>1, <1>2
<1>5. \A i \in D : /\ splits'[i] \in SplitRow /\ splits'[i].status = "DISPATCHED"
                    /\ splits'[i].quantity = splits[i].quantity /\ splits[i].quantity \in Int
                    /\ splits'[i].line = splits[i].line
  BY <1>3, <1>4 DEF SplitRow
<1>6. IsFiniteSet(D)
  BY DEF DayInv, TargetTypes, ListOfSplits
<1>7. shipped' = AmountOf(splits, D)
  <2>1. AmountOf(splits, D) \in Int
    BY <1>5, <1>6, SameAmount
  <2>2. Amount(D) = AmountOf(splits, D)
    BY DEF Amount, AmountOf
  <2> QED  BY <1>1, <1>2, <1>3, <2>1, <2>2
<1> HIDE DEF D
<1>8. \A S \in SUBSET D : AmountOf(splits', S) = AmountOf(splits, S) /\ AmountOf(splits, S) \in Int
  <2> SUFFICES ASSUME NEW S \in SUBSET D
               PROVE  AmountOf(splits', S) = AmountOf(splits, S) /\ AmountOf(splits, S) \in Int
    OBVIOUS
  <2>1. IsFiniteSet(S)
    BY <1>6, FS_Subset
  <2>2. \A i \in S : splits[i].quantity \in Int /\ splits'[i].quantity = splits[i].quantity
    BY <1>5
  <2> QED  BY <2>1, <2>2, SameAmount
<1>9. target'.status = "DISPATCHED" /\ target'.produced = TargetLines
      /\ target' \in [status : Early \cup Split, produced : SUBSET TargetLines, edition : Nat]
  BY <1>1, <1>3 DEF DayInv, TargetTypes, Split
<1>10. handCalls'[h] = InHand /\ DOMAIN handCalls' = Hands
      /\ \A k \in Hands \ {h} : handCalls'[k] = handCalls[k]
  BY <1>1 DEF DayInv, TargetTypes
<1>11. TargetTypes'
  <2>1. ListOfSplits(splits')
    BY <1>4, <1>5, <1>6 DEF ListOfSplits
  <2>2. shipped' \in Int
    BY <1>7, <1>8
  <2> QED  BY <1>1, <1>9, <1>10, <2>1, <2>2 DEF DayInv, TargetTypes
<1>12. RowsFollowStatus'
  <2>1. shipped' = AmountOf(splits', DOMAIN splits')
    BY <1>4, <1>7, <1>8
  <2>2. \A i \in DOMAIN splits' : splits'[i].status = "DISPATCHED"
    BY <1>4, <1>5
  <2> QED  BY <1>9, <2>1, <2>2 DEF RowsFollowStatus, Early, Sent
<1>13. AmountsFit'
  <2>1. \A l \in TargetLines : LineRows(splits', l) = LineRows(splits, l)
    BY <1>4, <1>5 DEF LineRows, D
  <2>2. \A l \in TargetLines : LineRows(splits, l) \in SUBSET D
    BY DEF LineRows, D
  <2>3. \A o : LandedRows(splits', o) = {} /\ LandedRows(splits, o) = {}
    BY <1>3, <1>4, <1>5 DEF LandedRows, D
  <2>4. \A s : AmountOf(s, {}) = 0
    BY NoAmount
  <2> QED  BY <1>1, <1>8, <2>1, <2>2, <2>3, <2>4 DEF DayInv, AmountsFit
<1>14. StatusTells'
  <2>1. AllLanded' => FALSE
    <3>1. CASE D = {}
      <4>1. splits' = << >>
        BY <1>1, <3>1 DEF D
      <4> QED  BY <4>1 DEF AllLanded
    <3>2. CASE D # {}
      BY <3>2, <1>4, <1>5 DEF AllLanded
    <3> QED  BY <3>1, <3>2
  <2> QED  BY <1>9, <2>1 DEF StatusTells
<1>15. \A k \in Hands : handCalls[k].op # "received"
  BY <1>1, NobodyReceives DEF Sent
<1>16. ASSUME NEW k \in Hands \ {h} PROVE HandStands(k)'
  <2>1. HandStands(k) /\ handCalls'[k] = handCalls[k] /\ handCalls[k].op # "received"
    BY <1>10, <1>15 DEF DayInv
  <2>2. DOMAIN splits' = DOMAIN splits /\ target'.status \in Split /\ target'.status \in Worked
    BY <1>4, <1>9 DEF Worked, Split, D
  <2> QED  BY <1>9, <2>1, <2>2, HandsOutlive
<1>17. HandStands(h)'
  BY <1>10 DEF HandStands, InHand
<1>18. HandsApart'
  BY <1>1, <1>10, ApartAfter DEF DayInv, InHand
<1> QED  BY <1>11, <1>12, <1>13, <1>14, <1>16, <1>17, <1>18 DEF DayInv

-----------------------------------------------------------------------------
\* The records stand while no handler writes them.
LEMMA RecordsStand ==
  ASSUME DayInv, UNCHANGED <<target, splits, shipped, landed>>, receiptsMet => receiptsMet',
         DOMAIN handCalls' = Hands
  PROVE  TargetTypes' /\ RowsFollowStatus' /\ AmountsFit' /\ StatusTells'
<1>1. TargetTypes'
  BY DEF DayInv, TargetTypes, ListOfSplits
<1>2. RowsFollowStatus'
  BY DEF DayInv, RowsFollowStatus
<1>3. AmountsFit'
  BY DEF DayInv, AmountsFit
<1>4. StatusTells'
  BY DEF DayInv, StatusTells, AllLanded
<1> QED  BY <1>1, <1>2, <1>3, <1>4

\* A branch opens a delivery it may receive.
LEMMA ReceiptLoads ==
  ASSUME DayInv, NEW h \in Hands, NEW i \in 1..MaxSplits, LoadShareReceipt(h, i)
  PROVE  DayInv'
<1> DEFINE call == [op |-> "receive", row |-> i, edition |-> target.edition]
<1>1. UNCHANGED <<target, splits, shipped, landed>>
      /\ handCalls' = [handCalls EXCEPT ![h] = call]
      /\ receiptsMet' = (receiptsMet \/ ShareReceipts # {})
  BY DEF LoadShareReceipt, Take
<1>2. handCalls'[h] = call /\ DOMAIN handCalls' = Hands
      /\ \A k \in Hands \ {h} : handCalls'[k] = handCalls[k]
  BY <1>1 DEF DayInv, TargetTypes
<1>3. ASSUME NEW k \in Hands \ {h} PROVE HandStands(k)'
  <2>1. HandStands(k) /\ handCalls'[k] = handCalls[k] /\ (~receiptsMet' => ~receiptsMet)
    BY <1>1, <1>2 DEF DayInv
  <2> QED  BY <1>1, <2>1 DEF HandStands, ReceiptStands, LastOne, OthersLanded
<1>4. HandStands(h)'
  BY <1>2 DEF HandStands
<1>5. HandsApart'
  <2>1. \A k \in Hands \ {h} : k \in ShareReceipts' <=> k \in ShareReceipts
    BY <1>2 DEF ShareReceipts
  <2>2. \A k \in Hands : k \in ShareReceipts => receiptsMet'
    BY <1>1
  <2>3. \A j, k \in Hands : j # k /\ j \in ShareReceipts' /\ k \in ShareReceipts' => receiptsMet'
    BY <2>1, <2>2
  <2>4. \A j, k \in Hands : j # k /\ handCalls'[j].op = "received"
                                  /\ handCalls'[k].op = "received" =>
                              handCalls'[j].row # handCalls'[k].row
    <3>1. \A k \in Hands : handCalls'[k].op = "received" => k # h /\ handCalls'[k] = handCalls[k]
      BY <1>2
    <3> QED  BY <3>1 DEF DayInv, HandsApart
  <2> QED  BY <2>3, <2>4 DEF HandsApart
<1>6. TargetTypes' /\ RowsFollowStatus' /\ AmountsFit' /\ StatusTells'
  BY <1>1, <1>2, RecordsStand
<1> QED  BY <1>3, <1>4, <1>5, <1>6 DEF DayInv

\* What is counted as outstanding is nothing exactly when every other row has landed.
LEMMA NoneOutstanding ==
  ASSUME ListOfSplits(splits), NEW row
  PROVE  Cardinality(RowsWhere(LAMBDA r : r.status # "RECEIVED") \ {row}) = 0
           <=> OthersLanded(row)
<1> DEFINE O == {i \in DOMAIN splits : splits[i].status # "RECEIVED"} \ {row}
<1>1. IsFiniteSet(O)
  <2>1. O \in SUBSET DOMAIN splits
    OBVIOUS
  <2> QED  BY <2>1, FS_Subset DEF ListOfSplits
<1>2. O = {} <=> OthersLanded(row)
  BY DEF OthersLanded
<1>3. Cardinality(O) = 0 <=> O = {}
  BY <1>1, FS_EmptySet
<1> QED  BY <1>2, <1>3 DEF RowsWhere

\* The receipt is written and not yet committed.
LEMMA ReceiptIsWritten ==
  ASSUME DayInv, NEW h \in Hands, WriteShareReceipt(h)
  PROVE  DayInv'
<1>1. PICK row : row = handCalls[h].row
  OBVIOUS
<1>2. PICK left : left = Cardinality(RowsWhere(LAMBDA r : r.status # "RECEIVED") \ {row})
  OBVIOUS
<1>3. PICK call : call = [op |-> "received", row |-> row, edition |-> handCalls[h].edition,
                          outstanding |-> left]
  OBVIOUS
<1>4. /\ UNCHANGED <<target, splits, shipped, landed, receiptsMet>>
      /\ handCalls[h].op = "receive" /\ handCalls' = [handCalls EXCEPT ![h] = call]
      /\ row \in DOMAIN splits /\ splits[row].status = "DISPATCHED"
      /\ \A k \in Hands : handCalls[k].op = "received" => handCalls[k].row # row
  BY <1>1, <1>2, <1>3 DEF WriteShareReceipt, RowStands
<1>5. left = 0 <=> OthersLanded(row)
  BY <1>2, NoneOutstanding DEF DayInv, TargetTypes
<1>6. call.op = "received" /\ call.row = row /\ call.outstanding = left
  BY <1>3
<1>7. handCalls'[h] = call /\ DOMAIN handCalls' = Hands
      /\ \A k \in Hands \ {h} : handCalls'[k] = handCalls[k]
  BY <1>4 DEF DayInv, TargetTypes
<1>8. ASSUME NEW k \in Hands \ {h} PROVE HandStands(k)'
  <2>1. HandStands(k) /\ handCalls'[k] = handCalls[k]
    BY <1>7 DEF DayInv
  <2> QED  BY <1>4, <2>1 DEF HandStands, ReceiptStands, LastOne, OthersLanded
<1>9. HandStands(h)'
  <2>1. OthersLanded(row)' <=> OthersLanded(row)
    BY <1>4 DEF OthersLanded
  <2>2. ReceiptStands(call)'
    BY <1>4, <1>5, <1>6, <2>1 DEF ReceiptStands, LastOne
  <2> QED  BY <1>6, <1>7, <2>2 DEF HandStands
<1>10. HandsApart'
  BY <1>1, <1>4, <1>6, <1>7 DEF DayInv, HandsApart, ShareReceipts
<1>11. TargetTypes' /\ RowsFollowStatus' /\ AmountsFit' /\ StatusTells'
  BY <1>4, <1>7, RecordsStand
<1> QED  BY <1>8, <1>9, <1>10, <1>11 DEF DayInv

\* The receipt lands: the branch is credited and the day may be over.
LEMMA ReceiptCommit ==
  ASSUME DayInv, NEW h \in Hands, CommitShareReceipt(h)
  PROVE  DayInv'
<1> PICK c : c = handCalls[h]
  OBVIOUS
<1> PICK row : row = c.row
  OBVIOUS
<1> PICK D : D = DOMAIN splits
  OBVIOUS
<1>1. /\ UNCHANGED <<shipped, receiptsMet>> /\ c.op = "received"
      /\ handCalls' = [handCalls EXCEPT ![h] = InHand]
      /\ landed' = [landed EXCEPT ![splits[row].outlet] = @ + splits[row].quantity]
      /\ splits' = [splits EXCEPT ![row].status = "RECEIVED"]
      /\ target' = [target EXCEPT !.status =
                      IF LastOne(c) /\ @ = "DISPATCHED" THEN "RECEIVED" ELSE @]
  BY DEF CommitShareReceipt, Drop
<1>2. /\ row \in D /\ splits[row].status = "DISPATCHED"
      /\ LastOne(c) => OthersLanded(row)
      /\ OthersLanded(row) /\ ~receiptsMet => LastOne(c)
  BY <1>1 DEF DayInv, HandStands, ReceiptStands
<1>3. target.status = "DISPATCHED"
  <2>1. splits # << >>
    BY <1>2
  <2>2. target.status \in Early \cup Split
    BY DEF DayInv, TargetTypes
  <2>3. target.status # "RECEIVED"
    BY <1>2 DEF DayInv, StatusTells, AllLanded
  <2>4. target.status # "ALLOCATED" /\ target.status \notin Early
    BY <1>2, <2>1 DEF DayInv, RowsFollowStatus
  <2> QED  BY <2>2, <2>3, <2>4 DEF Split
<1>4. IsFiniteSet(D) /\ \A i \in D : splits[i] \in SplitRow
  BY DEF DayInv, TargetTypes, ListOfSplits
<1>5. DOMAIN splits' = D /\ splits'[row] = [splits[row] EXCEPT !.status = "RECEIVED"]
      /\ \A i \in D \ {row} : splits'[i] = splits[i]
  BY <1>1, <1>2
<1>6. /\ splits'[row].status = "RECEIVED"
      /\ \A i \in D : /\ splits'[i] \in SplitRow /\ splits'[i].outlet = splits[i].outlet
                      /\ splits'[i].quantity = splits[i].quantity /\ splits[i].quantity \in Int
                      /\ splits'[i].line = splits[i].line
  BY <1>2, <1>4, <1>5 DEF SplitRow
<1>7. target'.status = (IF LastOne(c) THEN "RECEIVED" ELSE "DISPATCHED")
      /\ target'.produced = target.produced /\ target'.status \in Sent
      /\ target' \in [status : Early \cup Split, produced : SUBSET TargetLines, edition : Nat]
  BY <1>1, <1>3 DEF DayInv, TargetTypes, Split, Sent
<1>8. handCalls'[h] = InHand /\ DOMAIN handCalls' = Hands
      /\ \A k \in Hands \ {h} : handCalls'[k] = handCalls[k]
  BY <1>1 DEF DayInv, TargetTypes
<1>9. AllLanded' <=> OthersLanded(row)
  <2>1. splits' # << >>
    BY <1>2, <1>5
  <2>2. splits'[row].status = "RECEIVED" /\ DOMAIN splits' = DOMAIN splits
    BY <1>5, <1>6
  <2>3. \A i \in DOMAIN splits \ {row} : splits'[i].status = splits[i].status
    BY <1>5
  <2>4. AllLanded' <=> \A i \in DOMAIN splits : splits'[i].status = "RECEIVED"
    BY <2>1, <2>2 DEF AllLanded
  <2> QED  BY <1>2, <2>2, <2>3, <2>4 DEF OthersLanded
<1>10. \A S \in SUBSET D : AmountOf(splits', S) = AmountOf(splits, S) /\ AmountOf(splits, S) \in Int
  <2> SUFFICES ASSUME NEW S \in SUBSET D
               PROVE  AmountOf(splits', S) = AmountOf(splits, S) /\ AmountOf(splits, S) \in Int
    OBVIOUS
  <2>1. IsFiniteSet(S)
    BY <1>4, FS_Subset
  <2>2. \A i \in S : splits[i].quantity \in Int /\ splits'[i].quantity = splits[i].quantity
    BY <1>6
  <2> QED  BY <2>1, <2>2, SameAmount
<1>11. TargetTypes'
  <2>1. ListOfSplits(splits')
    BY <1>4, <1>5, <1>6 DEF ListOfSplits
  <2>2. landed \in [Outlets -> Int] /\ splits[row].quantity \in Int
        /\ splits[row].outlet \in Outlets
    BY <1>2, <1>4, <1>6 DEF DayInv, TargetTypes, SplitRow
  <2>3. landed' \in [Outlets -> Int]
    BY <1>1, <2>2
  <2> QED  BY <1>1, <1>7, <1>8, <2>1, <2>3 DEF DayInv, TargetTypes
<1>12. RowsFollowStatus'
  <2>1. shipped' = AmountOf(splits', DOMAIN splits') /\ target'.produced = TargetLines
    BY <1>1, <1>3, <1>5, <1>7, <1>10 DEF DayInv, RowsFollowStatus, Sent, Split
  <2>2. \A i \in DOMAIN splits' : splits'[i].status # "ALLOCATED"
    BY <1>3, <1>5, <1>6 DEF DayInv, RowsFollowStatus, Sent
  <2> QED  BY <1>7, <2>1, <2>2 DEF RowsFollowStatus, Early, Sent
<1>13. AmountsFit'
  <2>1. ASSUME NEW l \in TargetLines
        PROVE  AmountOf(splits', LineRows(splits', l)) <= BatchOf[l]
    <3>1. LineRows(splits', l) = LineRows(splits, l) /\ LineRows(splits, l) \in SUBSET D
      BY <1>5, <1>6 DEF LineRows
    <3>2. AmountOf(splits, LineRows(splits, l)) <= BatchOf[l]
      BY DEF DayInv, AmountsFit
    <3> QED  BY <1>10, <3>1, <3>2
  <2>2. ASSUME NEW o \in Outlets
        PROVE  landed'[o] = AmountOf(splits', LandedRows(splits', o))
    <3> DEFINE S == LandedRows(splits, o)
    <3>1. landed[o] = AmountOf(splits, S) /\ landed \in [Outlets -> Int]
      BY DEF DayInv, AmountsFit, TargetTypes
    <3>2. S \in SUBSET D /\ row \notin S
      BY <1>2 DEF LandedRows
    <3>3. CASE splits[row].outlet = o
      <4>1. LandedRows(splits', o) = S \cup {row} /\ S \cup {row} \in SUBSET D
        <5>1. DOMAIN splits' = D /\ DOMAIN splits = D /\ row \in D /\ splits'[row].outlet = o
          BY <1>2, <1>5, <1>6, <3>3
        <5>2. splits'[row].status = "RECEIVED" /\ \A i \in D \ {row} : splits'[i] = splits[i]
          BY <1>5, <1>6
        <5> QED  BY <5>1, <5>2 DEF LandedRows
      <4>2. landed'[o] = landed[o] + splits[row].quantity
        BY <1>1, <3>1, <3>3
      <4>3. IsFiniteSet(S)
        BY <1>4, <3>2, FS_Subset
      <4> HIDE DEF S
      <4>4. \A i \in S \cup {row} : splits[i].quantity \in Int
        BY <1>6, <4>1
      <4>5. AmountOf(splits, S \cup {row}) = AmountOf(splits, S) + splits[row].quantity
        BY <3>2, <4>3, <4>4, OneMoreAmount
      <4>6. AmountOf(splits', S \cup {row}) = AmountOf(splits, S \cup {row})
        BY <1>10, <4>1
      <4> QED  BY <3>1, <4>1, <4>2, <4>5, <4>6, Zenon
    <3>4. CASE splits[row].outlet # o
      <4>1. LandedRows(splits', o) = S
        BY <1>2, <1>5, <1>6, <3>4 DEF LandedRows
      <4>2. landed'[o] = landed[o]
        BY <1>1, <3>1, <3>4
      <4> QED  BY <1>10, <3>1, <3>2, <4>1, <4>2
    <3> QED  BY <3>3, <3>4
  <2> QED  BY <2>1, <2>2 DEF AmountsFit
<1>14. StatusTells'
  BY <1>1, <1>2, <1>7, <1>9 DEF StatusTells
<1>15. ASSUME NEW k \in Hands \ {h} PROVE HandStands(k)'
  <2>1. HandStands(k) /\ handCalls'[k] = handCalls[k]
    BY <1>8 DEF DayInv
  <2>2. CASE handCalls[k].op = "received"
    <3> DEFINE other == handCalls[k].row
    <3>1. other # row /\ receiptsMet
      BY <1>1, <2>2 DEF DayInv, HandsApart, ShareReceipts
    <3>2. other \in D /\ splits[other].status = "DISPATCHED"
          /\ (LastOne(handCalls[k]) => OthersLanded(other))
      BY <2>1, <2>2 DEF HandStands, ReceiptStands
    <3>3. ~OthersLanded(other)
      BY <1>2, <3>1 DEF OthersLanded
    <3>4. ReceiptStands(handCalls[k])'
      BY <1>1, <1>5, <2>1, <3>1, <3>2, <3>3 DEF ReceiptStands, LastOne
    <3> QED  BY <2>1, <2>2, <3>4 DEF HandStands
  <2>3. CASE handCalls[k].op # "received"
    BY <1>3, <1>5, <1>7, <2>1, <2>3, HandsOutlive DEF Worked, Split, Sent
  <2> QED  BY <2>2, <2>3
<1>16. HandStands(h)'
  BY <1>8 DEF HandStands, InHand
<1>17. HandsApart'
  BY <1>1, <1>8, ApartAfter DEF DayInv, InHand
<1> QED  BY <1>11, <1>12, <1>13, <1>14, <1>15, <1>16, <1>17 DEF DayInv

\* The day is set, or the kitchen works on other goods.
LEMMA DayElsewhere ==
  ASSUME DayInv, CreateTarget \/ OtherStock \/ UNCHANGED targetVars
  PROVE  DayInv'
<1>1. CASE CreateTarget
  <2>1. target.status = "ABSENT" /\ target' = [target EXCEPT !.status = "PENDING"]
        /\ UNCHANGED <<splits, shipped, landed, handCalls, receiptsMet>>
    BY <1>1 DEF CreateTarget
  <2>2. target.status \in Early /\ "PENDING" \in Early /\ target.status \notin Worked
    BY <2>1 DEF Early, Worked, Split
  <2>3. splits = << >> /\ DOMAIN handCalls = Hands
    BY <2>2 DEF DayInv, RowsFollowStatus, TargetTypes
  <2>4. target' \in [status : Early \cup Split, produced : SUBSET TargetLines, edition : Nat]
        /\ target'.status = "PENDING"
    BY <2>1, <2>2 DEF DayInv, TargetTypes
  <2> QED  BY <2>1, <2>2, <2>3, <2>4, EarlyStep
<1>2. CASE OtherStock \/ UNCHANGED targetVars
  <2>1. UNCHANGED <<target, splits, shipped, landed, handCalls, receiptsMet>>
    BY <1>2 DEF OtherStock, targetVars
  <2>2. TargetTypes' /\ RowsFollowStatus' /\ AmountsFit' /\ StatusTells'
    BY <2>1, RecordsStand DEF DayInv, TargetTypes
  <2>3. \A h \in Hands : HandStands(h)'
    BY <2>1 DEF DayInv, HandStands, ReceiptStands, LastOne, OthersLanded
  <2>4. HandsApart'
    BY <2>1 DEF DayInv, HandsApart, ShareReceipts
  <2> QED  BY <2>2, <2>3, <2>4 DEF DayInv
<1> QED  BY <1>1, <1>2

LEMMA DayBegins == TargetInit => DayInv
<1> SUFFICES ASSUME TargetInit PROVE DayInv
  OBVIOUS
<1>1. splits = << >> /\ DOMAIN splits = {} /\ target.status = "ABSENT" /\ shipped = 0
  BY DEF TargetInit
<1>2. (\A l : LineRows(splits, l) = {}) /\ (\A o : LandedRows(splits, o) = {})
  BY <1>1 DEF LineRows, LandedRows
<1>3. \A s : AmountOf(s, {}) = 0
  BY NoAmount
<1>4. TargetTypes
  <2>1. ListOfSplits(splits)
    BY <1>1, FS_EmptySet DEF ListOfSplits
  <2> QED  BY <2>1, <1>1 DEF TargetInit, TargetTypes, Early
<1>5. RowsFollowStatus
  BY <1>1 DEF RowsFollowStatus, Sent, Split
<1>6. AmountsFit
  <2>1. \A l \in TargetLines : BatchOf[l] \in Nat
    BY TargetsAssumption
  <2>2. \A l \in TargetLines : AmountOf(splits, LineRows(splits, l)) <= BatchOf[l]
    BY <1>2, <1>3, <2>1
  <2>3. \A o \in Outlets : landed[o] = AmountOf(splits, LandedRows(splits, o))
    BY <1>2, <1>3 DEF TargetInit
  <2> QED  BY <2>2, <2>3 DEF AmountsFit
<1>7. StatusTells
  BY <1>1 DEF StatusTells, AllLanded
<1>8. (\A h \in Hands : HandStands(h)) /\ HandsApart
  BY DEF TargetInit, InHand, HandStands, HandsApart, ShareReceipts
<1> QED  BY <1>4, <1>5, <1>6, <1>7, <1>8 DEF DayInv

(***************************************************************************)
(* However its handlers interleave, and however many branches receive at   *)
(* once, a kitchen's day balances: the split fits the batch, what left is  *)
(* what was split, what arrived is what left, and the target's status says *)
(* so, unless a status was written over one that had moved.                *)
(***************************************************************************)
THEOREM TargetsAlwaysBalance == TargetSpec => []TargetsBalance
<1> DEFINE Inv == ~targetRaced => DayInv
<1>1. TargetInit => Inv
  BY DayBegins
<1>2. Inv /\ [TargetNext]_targetVars => Inv'
  <2> SUFFICES ASSUME Inv, [TargetNext]_targetVars, ~targetRaced' PROVE DayInv'
    OBVIOUS
  <2>1. ~targetRaced
    BY DEF TargetNext, targetVars, CreateTarget, OtherStock, LoadStep, LoadMark, LoadSplit,
           LoadShipment, LoadShareReceipt, CommitStep, CommitMark, CommitEdit, CommitDelete,
           CommitSplit, CommitShipment, WriteShareReceipt, CommitShareReceipt, Turn, Stamp
  <2>2. DayInv
    BY <2>1
  <2>3. CASE CreateTarget \/ OtherStock \/ UNCHANGED targetVars
    BY <2>2, <2>3, DayElsewhere
  <2>4. ASSUME NEW h \in Hands,
               \/ \E op \in {"edit", "delete", "acknowledge", "start", "complete"} : LoadStep(h, op)
               \/ \E l \in TargetLines : LoadMark(h, l)
               \/ \E split \in AllSplits : LoadSplit(h, split)
               \/ LoadShipment(h) \/ Turn(h)
        PROVE  DayInv'
    BY <2>2, <2>4, LoadsStand
  <2>5. ASSUME NEW h \in Hands,
               CommitStep(h) \/ CommitMark(h) \/ CommitEdit(h) \/ CommitDelete(h)
        PROVE  DayInv'
    BY <2>2, <2>5, EarlyCommits
  <2>6. ASSUME NEW h \in Hands, CommitSplit(h) PROVE DayInv'
    BY <2>2, <2>6, SplitCommit
  <2>7. ASSUME NEW h \in Hands, CommitShipment(h) PROVE DayInv'
    BY <2>2, <2>7, ShipmentCommit
  <2>8. ASSUME NEW h \in Hands, NEW i \in 1..MaxSplits, LoadShareReceipt(h, i) PROVE DayInv'
    BY <2>2, <2>8, ReceiptLoads
  <2>9. ASSUME NEW h \in Hands, WriteShareReceipt(h) PROVE DayInv'
    BY <2>2, <2>9, ReceiptIsWritten
  <2>10. ASSUME NEW h \in Hands, CommitShareReceipt(h) PROVE DayInv'
    BY <2>2, <2>10, ReceiptCommit
  <2> QED  BY <2>3, <2>4, <2>5, <2>6, <2>7, <2>8, <2>9, <2>10 DEF TargetNext
<1>3. Inv => TargetsBalance
  <2>1. targetRaced => TargetsBalance
    BY DEF TargetsBalance, SplitWithinMade, ShipmentsDebitedOnce, ReceiptsCreditedOnce,
           TargetRollsUp
  <2> QED  BY <2>1, DayBalances
<1> HIDE DEF Inv
<1> QED  BY <1>1, <1>2, <1>3, PTL DEF TargetSpec

(***************************************************************************)
(*                            Recipes                                      *)
(***************************************************************************)
\* Versions count the rows, and the newest row alone is active.
VersionsCount ==
    \A i \in DOMAIN recipes :
      /\ recipes[i].version = i
      /\ recipes[i].active <=> i = Len(recipes)

RunStands(r) ==
    /\ r.formula \in Formulas /\ r.asked \in Nat \ {0}
    /\ r.drawn = Draws(r.formula, r.asked) /\ r.output = Output(r.formula, r.asked)

\* A publish in progress read the newest row of its time as the only active one.
PublishStands(k) ==
    LET call == cookCalls[k] IN
    /\ call.op = "publish" /\ call.formula \in Formulas
    /\ \E m \in 0..Len(recipes) : call.previous = IF m = 0 THEN {} ELSE {m}
CookStands(k) ==
    \/ cookCalls[k] = Resting
    \/ PublishStands(k)
    \/ /\ cookCalls[k].op = "run"
       /\ cookCalls[k].formula \in Formulas /\ cookCalls[k].asked \in Nat \ {0}

RecipeTypes ==
    /\ recipes \in Seq([version : Nat, active : BOOLEAN, formula : Formulas])
    /\ pantry \in [Parts -> Int] /\ baked \in Int
    /\ \E S : runRows \in Seq(S)
    /\ \A i \in DOMAIN runRows : RunStands(runRows[i])
    /\ DOMAIN cookCalls = Cooks

RecipeInv ==
    RecipeTypes /\ VersionsCount /\ RunsAddUp /\ \A k \in Cooks : CookStands(k)

LEMMA Scale ==
  ASSUME NEW a \in Nat, NEW b \in Int, NEW c \in Int, b <= c
  PROVE  a * b <= a * c
<1>1. a * (c - b) = a * c - a * b /\ a * b \in Int /\ a * c \in Int
  OBVIOUS
<1>2. c - b \in Nat
  OBVIOUS
<1>3. \A m, n \in Nat : m * n \in Nat
  OBVIOUS
<1> QED  BY <1>1, <1>2, <1>3

\* Rounding half up moves a quotient by at most half of the unit.
LEMMA HalfUpIsNear ==
  ASSUME NEW n \in Nat, NEW d \in Nat \ {0}
  PROVE  /\ HalfUp(n, d) \in Nat
         /\ 2 * (d * HalfUp(n, d) - n) <= d
         /\ 2 * (n - d * HalfUp(n, d)) <= d
<1> DEFINE m == 2 * n + d
           e == 2 * d
           q == m \div e
<1>1. m \in Nat /\ e \in Nat /\ e > 0 /\ e = 2 * d /\ m = 2 * n + d
  OBVIOUS
<1>2. HalfUp(n, d) = q
  BY DEF HalfUp
<1> HIDE DEF m, e
<1>3. q \in Nat /\ e * q <= m /\ m < e * q + e
  BY <1>1
<1> HIDE DEF q
<1>4. e * q = 2 * (d * q) /\ d * q \in Int
  BY <1>1, <1>3
<1> QED  BY <1>1, <1>2, <1>3, <1>4

\* Whole batches: at least what was asked, and less than a batch more.
LEMMA BatchesCover ==
  ASSUME NEW asked \in Nat, NEW yield \in Nat \ {0}
  PROVE  /\ BatchCount(asked, yield) \in Nat
         /\ BatchCount(asked, yield) * yield - asked \in 0..(yield - 1)
<1> DEFINE m == asked + yield - 1
           q == m \div yield
<1>1. m \in Nat /\ m = asked + yield - 1
  OBVIOUS
<1>2. BatchCount(asked, yield) = q
  BY DEF BatchCount
<1> HIDE DEF m
<1>3. q \in Nat /\ yield * q <= m /\ m < yield * q + yield
  BY <1>1
<1> HIDE DEF q
<1>4. q * yield = yield * q /\ q * yield \in Int
  BY <1>3
<1> QED  BY <1>1, <1>2, <1>3, <1>4

\* A draw is exact but for its two roundings: one of the conversion in every
\* batch, and one of the uplift.
LEMMA DrawIsNear ==
  ASSUME NEW q \in Nat, NEW from \in Nat \ {0}, NEW to \in Nat \ {0}, NEW w \in Nat,
         NEW c \in Nat, 2 * (to * c - q * from) <= to, 2 * (q * from - to * c) <= to,
         NEW B \in Nat, NEW y \in Nat \ {0},
         NEW u \in Nat, 2 * (10000 * u - (c * B) * w) <= 10000,
                        2 * ((c * B) * w - 10000 * u) <= 10000
  PROVE  LET exact == q * from * w * (B * y)
             made == u * to * 10000 * y
             slack == to * (10000 * y + w * (B * y)) IN
         2 * (made - exact) <= slack /\ 2 * (exact - made) <= slack
<1> DEFINE exact == q * from * w * (B * y)
           made == u * to * 10000 * y
           slack == to * (10000 * y + w * (B * y))
           k == to * y
           j == w * (B * y)
           x == 10000 * u - (c * B) * w
           z == to * c - q * from
<1>1. \A m, n \in Nat : m * n \in Nat
  OBVIOUS
<1>2. \A m, n \in Int : m * n \in Int
  OBVIOUS
<1>3. k \in Nat /\ j \in Nat
  BY <1>1
<1>4. x \in Int /\ z \in Int
  BY <1>2
<1>5. made - exact = k * x + j * z
  OBVIOUS
<1>6. slack = k * 10000 + j * to
  OBVIOUS
<1>7. 2 * x <= 10000 /\ -(2 * x) <= 10000 /\ 2 * z <= to /\ -(2 * z) <= to
  BY <1>4
<1>8. exact \in Int /\ made \in Int /\ slack \in Int
  BY <1>2
<1> HIDE DEF exact, made, slack, k, j, x, z
<1>9. k * (2 * x) <= k * 10000 /\ k * (-(2 * x)) <= k * 10000
  BY <1>3, <1>4, <1>7, Scale
<1>10. j * (2 * z) <= j * to /\ j * (-(2 * z)) <= j * to
  BY <1>3, <1>4, <1>7, Scale
<1>11. k * (2 * x) = 2 * (k * x) /\ k * (-(2 * x)) = -(2 * (k * x))
       /\ j * (2 * z) = 2 * (j * z) /\ j * (-(2 * z)) = -(2 * (j * z))
       /\ k * x \in Int /\ j * z \in Int /\ k * 10000 \in Int /\ j * to \in Int
  BY <1>3, <1>4
<1>12. 2 * (made - exact) <= slack /\ 2 * (exact - made) <= slack
  BY <1>5, <1>6, <1>8, <1>9, <1>10, <1>11
<1> QED  BY <1>12 DEF exact, made, slack

\* What a recipe draws of each part, and that the draw is near what it states.
LEMMA DrawsAreNear ==
  ASSUME NEW f \in Formulas, NEW asked \in Nat, NEW p \in DOMAIN FormulaOf[f].needs
  PROVE  LET need == FormulaOf[f].needs[p]
             output == Output(f, asked)
             used == Draws(f, asked)[p]
             exact == need.quantity * need.from * (10000 + need.wastage) * output
             made == used * need.to * 10000 * FormulaOf[f].yield
             slack == need.to * (10000 * FormulaOf[f].yield + (10000 + need.wastage) * output) IN
         /\ used \in Nat
         /\ 2 * (made - exact) <= slack /\ 2 * (exact - made) <= slack
<1> DEFINE need == FormulaOf[f].needs[p]
           yield == FormulaOf[f].yield
           B == BatchCount(asked, yield)
           c == Convert(need)
           w == 10000 + need.wastage
           u == Uplift(c * B, need.wastage)
<1>1. yield \in Nat \ {0}
  BY RecipesAssumption
<1>2. need \in [quantity : Nat, from : Nat \ {0}, to : Nat \ {0}, wastage : Nat]
  <2>1. PICK S \in SUBSET Parts : FormulaOf[f].needs \in
           [S -> [quantity : Nat, from : Nat \ {0}, to : Nat \ {0}, wastage : Nat]]
    BY RecipesAssumption
  <2> QED  BY <2>1
<1>3. Output(f, asked) = B * yield /\ Draws(f, asked)[p] = u
  BY DEF Output, Draws
<1> HIDE DEF need, yield
<1>4. need.quantity \in Nat /\ need.from \in Nat \ {0} /\ need.to \in Nat \ {0} /\ w \in Nat
      /\ need.wastage \in Nat
  BY <1>2
<1>5. B \in Nat
  BY <1>1, BatchesCover
<1>6. \A m, n \in Nat : m * n \in Nat
  OBVIOUS
<1>7. c \in Nat /\ 2 * (need.to * c - need.quantity * need.from) <= need.to
      /\ 2 * (need.quantity * need.from - need.to * c) <= need.to
  <2>1. CASE need.from = need.to
    <3>1. c = need.quantity
      BY <2>1 DEF Convert
    <3>2. need.to * c = need.quantity * need.from
      BY <2>1, <3>1, <1>4
    <3>3. need.to * c \in Nat
      BY <1>4, <1>6, <3>1
    <3> QED  BY <1>4, <3>1, <3>2, <3>3
  <2>2. CASE need.from # need.to
    <3>1. c = HalfUp(need.quantity * need.from, need.to)
      BY <2>2 DEF Convert
    <3>2. need.quantity * need.from \in Nat
      BY <1>4, <1>6
    <3> DEFINE n == need.quantity * need.from
               d == need.to
    <3>3. c = HalfUp(n, d) /\ n \in Nat /\ d \in Nat \ {0}
      BY <1>4, <3>1, <3>2
    <3> HIDE DEF c, n, d, B, w, u
    <3>4. HalfUp(n, d) \in Nat /\ 2 * (d * HalfUp(n, d) - n) <= d /\ 2 * (n - d * HalfUp(n, d)) <= d
      BY <3>3, HalfUpIsNear, Zenon
    <3>5. c \in Nat /\ 2 * (d * c - n) <= d /\ 2 * (n - d * c) <= d
      BY <3>3, <3>4, Zenon
    <3> QED  BY <3>5 DEF n, d
  <2> QED  BY <2>1, <2>2
<1>8. u \in Nat /\ 2 * (10000 * u - (c * B) * w) <= 10000
      /\ 2 * ((c * B) * w - 10000 * u) <= 10000
  <2>1. u = HalfUp((c * B) * w, 10000)
    BY DEF Uplift
  <2>2. (c * B) * w \in Nat
    BY <1>4, <1>5, <1>6, <1>7
  <2>3. 10000 \in Nat \ {0}
    OBVIOUS
  <2> HIDE DEF c, B, w, u
  <2> QED  BY <2>1, <2>2, <2>3, HalfUpIsNear
<1> HIDE DEF B, c, w, u
<1>9. LET exact == need.quantity * need.from * w * (B * yield)
          made == u * need.to * 10000 * yield
          slack == need.to * (10000 * yield + w * (B * yield)) IN
      2 * (made - exact) <= slack /\ 2 * (exact - made) <= slack
  BY <1>1, <1>4, <1>5, <1>7, <1>8, DrawIsNear
<1> QED  BY <1>3, <1>8, <1>9 DEF need, yield, w

LEMMA DrawsAreWhole ==
  ASSUME NEW f \in Formulas, NEW asked \in Nat
  PROVE  (\A p \in DOMAIN Draws(f, asked) : Draws(f, asked)[p] \in Nat) /\ Output(f, asked) \in Int
<1>1. DOMAIN Draws(f, asked) = DOMAIN FormulaOf[f].needs
  BY DEF Draws
<1>2. \A p \in DOMAIN FormulaOf[f].needs : Draws(f, asked)[p] \in Nat
  BY DrawsAreNear
<1>3. FormulaOf[f].yield \in Nat \ {0}
  BY RecipesAssumption
<1>4. BatchCount(asked, FormulaOf[f].yield) \in Nat
  BY <1>3, BatchesCover
<1>5. \A x, y \in Nat : x * y \in Int
  OBVIOUS
<1> QED  BY <1>1, <1>2, <1>3, <1>4, <1>5 DEF Output

LEMMA RunsCover ==
  ASSUME \A i \in DOMAIN runRows : RunStands(runRows[i])
  PROVE  RunsCoverTheBatch
<1> SUFFICES ASSUME NEW i \in DOMAIN runRows
             PROVE  LET r == runRows[i]
                        f == FormulaOf[r.formula] IN
                    /\ r.output - r.asked \in 0..(f.yield - 1)
                    /\ \A p \in DOMAIN f.needs :
                        LET need == f.needs[p]
                            exact == need.quantity * need.from * (10000 + need.wastage) * r.output
                            made == r.drawn[p] * need.to * 10000 * f.yield
                            slack == need.to * (10000 * f.yield
                                             + (10000 + need.wastage) * r.output) IN
                        2 * (made - exact) <= slack /\ 2 * (exact - made) <= slack
  BY DEF RunsCoverTheBatch
<1> DEFINE r == runRows[i]
<1>1. r.formula \in Formulas /\ r.asked \in Nat /\ r.drawn = Draws(r.formula, r.asked)
      /\ r.output = Output(r.formula, r.asked)
  BY DEF RunStands
<1> HIDE DEF r
<1>2. r.output - r.asked \in 0..(FormulaOf[r.formula].yield - 1)
  <2>1. FormulaOf[r.formula].yield \in Nat \ {0}
    BY <1>1, RecipesAssumption
  <2> QED  BY <1>1, <2>1, BatchesCover DEF Output
<1>3. ASSUME NEW p \in DOMAIN FormulaOf[r.formula].needs
      PROVE  LET need == FormulaOf[r.formula].needs[p]
                 exact == need.quantity * need.from * (10000 + need.wastage) * r.output
                 made == r.drawn[p] * need.to * 10000 * FormulaOf[r.formula].yield
                 slack == need.to * (10000 * FormulaOf[r.formula].yield
                                      + (10000 + need.wastage) * r.output) IN
             2 * (made - exact) <= slack /\ 2 * (exact - made) <= slack
  BY <1>1, DrawsAreNear
<1> QED  BY <1>2, <1>3 DEF r

\* The sum of a column over a list of rows, with one more row.
LEMMA SumAppend ==
  ASSUME NEW n \in Nat, NEW f, \A i \in 1..n : f[i] \in Int,
         NEW g, \A i \in 1..n : g[i] = f[i], g[n + 1] \in Int
  PROVE  SumOver(g, 1..(n + 1)) = SumOver(f, 1..n) + g[n + 1] /\ SumOver(f, 1..n) \in Int
<1> DEFINE U == 1..(n + 1)
           V == 1..n
           y == n + 1
<1>1. IsFiniteSet(U)
  BY FS_Interval
<1>2. IsFiniteSet(V)
  BY FS_Interval
<1>3. y \in U /\ U \ {y} = V /\ V \in SUBSET V /\ U \in SUBSET U
  OBVIOUS
<1>4. (\A i \in U : g[i] \in Int) /\ (\A i \in V : f[i] \in Int /\ f[i] = g[i])
  OBVIOUS
<1> HIDE DEF U, V, y
<1>5. SumOver(g, U) = g[y] + SumOver(g, U \ {y})
  BY <1>1, <1>3, <1>4, SumRemove
<1>6. SumOver(f, V) = SumOver(g, V)
  BY <1>2, <1>4, SumSame
<1>7. SumOver(f, V) \in Int
  BY <1>2, <1>3, <1>4, SumIsInt
<1>8. g[y] \in Int
  BY <1>3, <1>4
<1>9. SumOver(g, U) = SumOver(f, V) + g[y] /\ SumOver(f, V) \in Int
  BY <1>3, <1>5, <1>6, <1>7, <1>8
<1> QED  BY <1>9 DEF U, V, y

LEMMA RowsAreList ==
  ASSUME NEW n \in Nat, NEW S, NEW s \in [1..n -> S]
  PROVE  s \in Seq(S) /\ Len(s) = n
OBVIOUS

LEMMA RowsAreTyped ==
  ASSUME RecipeTypes
  PROVE  \A i \in DOMAIN recipes :
           recipes[i] \in [version : Nat, active : BOOLEAN, formula : Formulas]
<1>1. ASSUME NEW S, NEW s \in Seq(S), NEW i \in DOMAIN s PROVE s[i] \in S
  OBVIOUS
<1> QED  BY <1>1 DEF RecipeTypes

LEMMA RecipeStep ==
  ASSUME RecipeInv, [RecipeNext]_recipeVars
  PROVE  RecipeInv'
<1> USE DEF RecipeInv
<1>0. /\ Len(recipes) \in Nat /\ DOMAIN recipes = 1..Len(recipes)
      /\ \A i \in DOMAIN recipes :
           recipes[i] \in [version : Nat, active : BOOLEAN, formula : Formulas]
  <2>1. Len(recipes) \in Nat /\ DOMAIN recipes = 1..Len(recipes)
    BY DEF RecipeTypes
  <2> QED  BY <2>1, RowsAreTyped
<1>1. ASSUME NEW k \in Cooks, UNCHANGED <<recipes, pantry, baked, runRows>>,
             \A o \in Cooks \ {k} : cookCalls'[o] = cookCalls[o],
             DOMAIN cookCalls' = Cooks, CookStands(k)'
      PROVE  RecipeInv'
  <2>1. ASSUME NEW o \in Cooks \ {k} PROVE CookStands(o)'
    <3>1. CookStands(o) /\ cookCalls'[o] = cookCalls[o] /\ recipes' = recipes
      BY <1>1
    <3> QED  BY <3>1 DEF CookStands, PublishStands
  <2>2. RecipeTypes' /\ VersionsCount'
    BY <1>1 DEF RecipeTypes, VersionsCount, RunStands
  <2>3. RunsAddUp'
    BY <1>1 DEF RunsAddUp, TotalDrawn
  <2> QED  BY <1>1, <2>1, <2>2, <2>3
<1>2. ASSUME NEW k \in Cooks, NEW f \in Formulas, LoadPublish(k, f) PROVE RecipeInv'
  <2>1. UNCHANGED <<recipes, pantry, baked, runRows>>
        /\ cookCalls' = [cookCalls EXCEPT ![k] =
                           [op |-> "publish", formula |-> f, previous |-> ActiveRows]]
    BY <1>2 DEF LoadPublish, Start
  <2>2. cookCalls'[k] = [op |-> "publish", formula |-> f, previous |-> ActiveRows]
        /\ DOMAIN cookCalls' = Cooks /\ \A o \in Cooks \ {k} : cookCalls'[o] = cookCalls[o]
    BY <2>1 DEF RecipeTypes
  <2>3. Len(recipes) \in Nat /\ DOMAIN recipes = 1..Len(recipes)
    BY DEF RecipeTypes
  <2>4. ActiveRows = IF Len(recipes) = 0 THEN {} ELSE {Len(recipes)}
    BY <2>3 DEF ActiveRows, VersionsCount
  <2>5. \E m \in 0..Len(recipes) : ActiveRows = IF m = 0 THEN {} ELSE {m}
    <3>1. Len(recipes) \in 0..Len(recipes)
      BY <2>3
    <3> QED  BY <2>4, <3>1
  <2>6. cookCalls'[k].op = "publish" /\ cookCalls'[k].formula = f
        /\ cookCalls'[k].previous = ActiveRows
    BY <2>2
  <2>7. PublishStands(k)'
    BY <2>1, <2>5, <2>6 DEF PublishStands
  <2> QED  BY <1>1, <2>1, <2>2, <2>7 DEF CookStands
<1>3. ASSUME NEW k \in Cooks, NEW asked \in BatchSizes, LoadRun(k, asked) PROVE RecipeInv'
  <2> DEFINE newest == CHOOSE i \in ActiveRows :
                         \A j \in ActiveRows : recipes[j].version <= recipes[i].version
  <2>1. UNCHANGED <<recipes, pantry, baked, runRows>> /\ ActiveRows # {}
        /\ cookCalls' = [cookCalls EXCEPT ![k] =
              [op |-> "run", formula |-> recipes[newest].formula, asked |-> asked]]
    BY <1>3 DEF LoadRun, Start
  <2>2. Len(recipes) \in Nat /\ DOMAIN recipes = 1..Len(recipes)
    BY DEF RecipeTypes
  <2>3. ActiveRows \subseteq {Len(recipes)} /\ ActiveRows \subseteq DOMAIN recipes
    BY <2>2 DEF ActiveRows, VersionsCount
  <2>4. \E i \in ActiveRows : \A j \in ActiveRows : recipes[j].version <= recipes[i].version
    <3>1. PICK i \in ActiveRows : TRUE
      BY <2>1
    <3>2. \A j \in ActiveRows : j = i
      BY <2>3, <3>1
    <3>3. recipes[i].version \in Nat
      BY <1>0, <2>3
    <3> QED  BY <3>2, <3>3
  <2>5. newest \in DOMAIN recipes
    BY <2>3, <2>4
  <2> HIDE DEF newest
  <2>6. recipes[newest].formula \in Formulas
    BY <1>0, <2>5
  <2>7. cookCalls'[k] = [op |-> "run", formula |-> recipes[newest].formula, asked |-> asked]
        /\ DOMAIN cookCalls' = Cooks /\ \A o \in Cooks \ {k} : cookCalls'[o] = cookCalls[o]
    BY <2>1 DEF RecipeTypes
  <2>8. CookStands(k)'
    BY <2>6, <2>7, RecipesAssumption DEF CookStands
  <2> QED  BY <1>1, <2>1, <2>7, <2>8
<1>4. ASSUME NEW k \in Cooks, StopCooking(k) PROVE RecipeInv'
  <2>1. UNCHANGED <<recipes, pantry, baked, runRows>>
        /\ cookCalls' = [cookCalls EXCEPT ![k] = Resting]
    BY <1>4 DEF StopCooking, Finish
  <2>2. cookCalls'[k] = Resting
        /\ DOMAIN cookCalls' = Cooks /\ \A o \in Cooks \ {k} : cookCalls'[o] = cookCalls[o]
    BY <2>1 DEF RecipeTypes
  <2> QED  BY <1>1, <2>1, <2>2 DEF CookStands
<1>5. ASSUME NEW k \in Cooks, CommitPublish(k) PROVE RecipeInv'
  <2> DEFINE previous == cookCalls[k].previous
             v == NextVersion(previous)
             formula == cookCalls[k].formula
             n == Len(recipes)
             retired == [i \in DOMAIN recipes |->
                           [recipes[i] EXCEPT !.active = @ /\ i \notin previous]]
             row == [version |-> v, active |-> TRUE, formula |-> formula]
  <2>1. UNCHANGED <<pantry, baked, runRows>> /\ cookCalls[k].op = "publish"
        /\ (\A i \in DOMAIN recipes : recipes[i].version # v)
        /\ recipes' = Append(retired, row)
        /\ cookCalls' = [cookCalls EXCEPT ![k] = Resting]
    BY <1>5 DEF CommitPublish, Finish
  <2>2. n \in Nat /\ DOMAIN recipes = 1..n
    BY DEF RecipeTypes
  <2>3. PublishStands(k)
    BY <2>1 DEF CookStands, Resting
  <2>4. PICK m \in 0..n : previous = IF m = 0 THEN {} ELSE {m}
    BY <2>3 DEF PublishStands
  <2>5. v = m + 1
    <3>1. \A i \in 1..n : recipes[i].version = i
      BY <2>2 DEF VersionsCount
    <3>2. {0} \cup {recipes[i].version : i \in previous} = IF m = 0 THEN {0} ELSE {0, m}
      BY <2>2, <2>4, <3>1
    <3>3. Max(IF m = 0 THEN {0} ELSE {0, m}) = m
      BY <2>2 DEF Max
    <3> HIDE DEF previous
    <3>4. NextVersion(previous) = 1 + Max(IF m = 0 THEN {0} ELSE {0, m})
      BY <3>2 DEF NextVersion
    <3> QED  BY <2>2, <3>3, <3>4
  <2>6. m = n
    <3>1. m + 1 \notin 1..n
      BY <2>1, <2>2, <2>5 DEF VersionsCount
    <3>2. m \in 0..n
      OBVIOUS
    <3> HIDE DEF n
    <3> QED  BY <3>1, <3>2, <2>2
  <2>7. formula \in Formulas
    BY <2>3 DEF PublishStands
  <2> HIDE DEF v, formula, n
  <2>8. /\ retired \in Seq([version : Nat, active : BOOLEAN, formula : Formulas])
        /\ Len(retired) = n
        /\ \A i \in 1..n : retired[i].version = i /\ ~retired[i].active
    <3>1. \A i \in 1..n : /\ recipes[i] \in [version : Nat, active : BOOLEAN, formula : Formulas]
                           /\ recipes[i].version = i /\ (recipes[i].active => i \in previous)
      BY <1>0, <2>2, <2>4, <2>6 DEF VersionsCount, n
    <3>2. \A i \in 1..n :
            /\ retired[i] \in [version : Nat, active : BOOLEAN, formula : Formulas]
            /\ retired[i].version = i /\ ~retired[i].active
      BY <2>2, <3>1
    <3>3. retired = [i \in 1..n |-> retired[i]]
      BY <2>2
    <3> HIDE DEF retired
    <3>4. retired \in [1..n -> [version : Nat, active : BOOLEAN, formula : Formulas]]
      BY <3>2, <3>3
    <3>5. retired \in Seq([version : Nat, active : BOOLEAN, formula : Formulas]) /\ Len(retired) = n
      BY <2>2, <3>4, RowsAreList
    <3> QED  BY <3>2, <3>5
  <2>9. row \in [version : Nat, active : BOOLEAN, formula : Formulas]
        /\ row.version = n + 1 /\ row.active
    BY <2>2, <2>5, <2>6, <2>7
  <2> HIDE DEF retired, row
  <2>10. /\ recipes' \in Seq([version : Nat, active : BOOLEAN, formula : Formulas])
         /\ Len(recipes') = n + 1 /\ DOMAIN recipes' = 1..(n + 1)
         /\ recipes'[n + 1] = row /\ \A i \in 1..n : recipes'[i] = retired[i]
    BY <2>1, <2>2, <2>8, <2>9
  <2>11. VersionsCount'
    BY <2>2, <2>8, <2>9, <2>10 DEF VersionsCount
  <2>12. cookCalls'[k] = Resting
        /\ DOMAIN cookCalls' = Cooks /\ \A o \in Cooks \ {k} : cookCalls'[o] = cookCalls[o]
    BY <2>1 DEF RecipeTypes
  <2>13. \A o \in Cooks : CookStands(o)'
    <3>1. \A j \in 0..n : j \in 0..(n + 1)
      BY <2>2
    <3>2. \A o \in Cooks \ {k} : CookStands(o)'
      BY <2>10, <2>12, <3>1 DEF CookStands, PublishStands, n
    <3> QED  BY <2>12, <3>2 DEF CookStands
  <2>14. RecipeTypes'
    BY <2>1, <2>10, <2>12 DEF RecipeTypes, RunStands
  <2>15. RunsAddUp'
    BY <2>1 DEF RunsAddUp, TotalDrawn
  <2> QED  BY <2>11, <2>13, <2>14, <2>15
<1>6. ASSUME NEW k \in Cooks, CommitRun(k) PROVE RecipeInv'
  <2> DEFINE formula == cookCalls[k].formula
             asked == cookCalls[k].asked
             used == Draws(formula, asked)
             output == Output(formula, asked)
             n == Len(runRows)
             row == [formula |-> formula, asked |-> asked, drawn |-> used, output |-> output]
  <2>1. UNCHANGED recipes /\ cookCalls[k].op = "run"
        /\ Enough(used)
        /\ pantry' = [p \in Parts |->
                        IF p \in DOMAIN used THEN pantry[p] - used[p] ELSE pantry[p]]
        /\ baked' = baked + output /\ runRows' = Append(runRows, row)
        /\ cookCalls' = [cookCalls EXCEPT ![k] = Resting]
    BY <1>6 DEF CommitRun, Finish
  <2>2. formula \in Formulas /\ asked \in Nat \ {0}
    BY <2>1 DEF CookStands, PublishStands, Resting
  <2>3. (\A p \in DOMAIN used : used[p] \in Nat) /\ output \in Int
    <3>1. asked \in Nat
      BY <2>2
    <3> HIDE DEF asked, formula
    <3> QED  BY <2>2, <3>1, DrawsAreWhole
  <2>5. RunStands(row)
    BY <2>2 DEF RunStands
  <2>6. \A p : DrawnOf(row, p) = IF p \in DOMAIN used THEN used[p] ELSE 0
    BY DEF DrawnOf
  <2>7. row.output = output
    OBVIOUS
  <2>8. n \in Nat /\ DOMAIN runRows = 1..n
    BY DEF RecipeTypes
  <2> HIDE DEF formula, asked, used, output, n, row
  <2>9. /\ DOMAIN runRows' = 1..(n + 1) /\ \E S : runRows' \in Seq(S)
        /\ runRows'[n + 1] = row /\ \A i \in 1..n : runRows'[i] = runRows[i]
    <3>1. PICK S : runRows \in Seq(S)
      BY DEF RecipeTypes
    <3>2. runRows \in Seq(S \cup {row})
      BY <3>1
    <3>3. Append(runRows, row) \in Seq(S \cup {row})
      BY <3>2
    <3> QED  BY <2>1, <2>8, <3>2, <3>3 DEF n
  <2>10. \A i \in DOMAIN runRows' : RunStands(runRows'[i])
    <3>1. \A i \in 1..n : RunStands(runRows[i])
      BY <2>8 DEF RecipeTypes
    <3>2. \A i \in 1..(n + 1) : i \in 1..n \/ i = n + 1
      BY <2>8
    <3> QED  BY <2>5, <2>9, <3>1, <3>2
  <2>11. cookCalls'[k] = Resting
        /\ DOMAIN cookCalls' = Cooks /\ \A o \in Cooks \ {k} : cookCalls'[o] = cookCalls[o]
    BY <2>1 DEF RecipeTypes
  <2>12. \A o \in Cooks : CookStands(o)'
    BY <2>1, <2>11 DEF CookStands, PublishStands
  <2>13. pantry' \in [Parts -> Int] /\ baked' \in Int
    BY <2>1, <2>3 DEF RecipeTypes
  <2>14. RecipeTypes' /\ VersionsCount'
    BY <2>1, <2>9, <2>10, <2>11, <2>13 DEF RecipeTypes, VersionsCount
  <2>15. RunsAddUp'
    <3>1. \A r, p : RunStands(r) => DrawnOf(r, p) \in Int /\ r.output \in Int
      <4> SUFFICES ASSUME NEW r, RunStands(r), NEW p PROVE DrawnOf(r, p) \in Int /\ r.output \in Int
        OBVIOUS
      <4>1. r.formula \in Formulas /\ r.asked \in Nat /\ r.drawn = Draws(r.formula, r.asked)
            /\ r.output = Output(r.formula, r.asked)
        BY DEF RunStands
      <4>2. (\A x \in DOMAIN r.drawn : r.drawn[x] \in Nat) /\ r.output \in Int
        BY <4>1, DrawsAreWhole
      <4> QED  BY <4>2 DEF DrawnOf
    <3>2. \A i \in 1..n : RunStands(runRows[i])
      BY <2>8 DEF RecipeTypes
    <3>3. ASSUME NEW p \in Parts
          PROVE  pantry'[p] >= 0 /\ Pantry - pantry'[p] = TotalDrawn(p)'
      <4> DEFINE f == [i \in DOMAIN runRows |-> DrawnOf(runRows[i], p)]
                 g == [i \in DOMAIN runRows' |-> DrawnOf(runRows'[i], p)]
      <4>1. (\A i \in 1..n : f[i] \in Int) /\ (\A i \in 1..n : g[i] = f[i])
            /\ g[n + 1] = DrawnOf(row, p)
        BY <2>8, <2>9, <3>1, <3>2
      <4>2. DrawnOf(row, p) \in Int
        BY <2>5, <3>1
      <4>3. TotalDrawn(p) = SumOver(f, 1..n) /\ TotalDrawn(p)' = SumOver(g, 1..(n + 1))
        BY <2>8, <2>9 DEF TotalDrawn
      <4> HIDE DEF f, g
      <4>4. SumOver(g, 1..(n + 1)) = SumOver(f, 1..n) + g[n + 1] /\ SumOver(f, 1..n) \in Int
        BY <2>8, <4>1, <4>2, SumAppend
      <4>5. pantry'[p] = pantry[p] - DrawnOf(row, p) /\ pantry'[p] >= 0
        BY <2>1, <2>3, <2>6 DEF RecipeTypes, Enough, RunsAddUp
      <4>6. pantry[p] \in Int /\ Pantry - pantry[p] = TotalDrawn(p)
        BY DEF RunsAddUp, RecipeTypes
      <4>7. Pantry \in Nat
        BY RecipesAssumption
      <4> QED  BY <4>1, <4>2, <4>3, <4>4, <4>5, <4>6, <4>7
    <3>4. baked' = SumOver([i \in DOMAIN runRows' |-> runRows'[i].output], DOMAIN runRows')
      <4> DEFINE f == [i \in DOMAIN runRows |-> runRows[i].output]
                 g == [i \in DOMAIN runRows' |-> runRows'[i].output]
      <4>1. (\A i \in 1..n : f[i] \in Int) /\ (\A i \in 1..n : g[i] = f[i])
            /\ g[n + 1] = output
        BY <2>7, <2>8, <2>9, <3>1, <3>2
      <4>2. baked = SumOver(f, 1..n)
        BY <2>8 DEF RunsAddUp
      <4> HIDE DEF f, g
      <4>3. SumOver(g, 1..(n + 1)) = SumOver(f, 1..n) + g[n + 1] /\ SumOver(f, 1..n) \in Int
        BY <2>3, <2>8, <4>1, SumAppend
      <4>4. baked' = SumOver(g, 1..(n + 1))
        BY <2>1, <4>1, <4>2, <4>3
      <4> QED  BY <2>9, <4>4 DEF g
    <3> QED  BY <3>3, <3>4 DEF RunsAddUp
  <2> QED  BY <2>12, <2>14, <2>15
<1>7. CASE UNCHANGED recipeVars
  BY <1>7 DEF recipeVars, RecipeTypes, VersionsCount, RunsAddUp, TotalDrawn, CookStands,
              PublishStands, RunStands
<1> QED  BY <1>2, <1>3, <1>4, <1>5, <1>6, <1>7 DEF RecipeNext

(***************************************************************************)
(* At most one recipe is in force whoever publishes at once; a run makes   *)
(* whole batches and draws what the recipe states to within its two        *)
(* roundings, for recipes of any quantities, units and losses; and what    *)
(* left the pantry is what the runs on record drew.                        *)
(***************************************************************************)
THEOREM RunsStayAccounted == RecipeSpec => []ProductionIsAccounted
<1>1. RecipeInit => RecipeInv
  <2> SUFFICES ASSUME RecipeInit PROVE RecipeInv
    OBVIOUS
  <2> USE RecipesAssumption DEF RecipeInit
  <2>1. DOMAIN runRows = {} /\ DOMAIN recipes = {} /\ runRows \in Seq({})
    OBVIOUS
  <2>2. \A f : SumOver(f, {}) = 0
    BY SumEmpty
  <2>3. \A p \in Parts : pantry[p] = Pantry
    OBVIOUS
  <2>4. RunsAddUp
    BY <2>1, <2>2, <2>3 DEF RunsAddUp, TotalDrawn
  <2>5. RecipeTypes
    BY <2>1 DEF RecipeTypes
  <2>6. VersionsCount /\ \A k \in Cooks : CookStands(k)
    BY <2>1 DEF VersionsCount, CookStands
  <2> QED  BY <2>4, <2>5, <2>6 DEF RecipeInv
<1>2. RecipeInv => ProductionIsAccounted
  <2> SUFFICES ASSUME RecipeInv PROVE ProductionIsAccounted
    OBVIOUS
  <2>1. Cardinality(ActiveRows) <= 1
    <3>1. ActiveRows = {} \/ ActiveRows = {Len(recipes)}
      BY DEF ActiveRows, RecipeInv, VersionsCount
    <3>2. Cardinality({}) = 0
      BY FS_EmptySet
    <3>3. Cardinality({Len(recipes)}) = 1
      BY FS_Singleton, Zenon
    <3>4. Cardinality(ActiveRows) = 0 \/ Cardinality(ActiveRows) = 1
      BY <3>1, <3>2, <3>3, Zenon
    <3> QED  BY <3>4
  <2>2. RunsCoverTheBatch
    BY RunsCover DEF RecipeInv, RecipeTypes
  <2> QED
    BY <2>1, <2>2 DEF RecipeInv, ProductionIsAccounted, OneActiveRecipe
<1> QED  BY <1>1, <1>2, RecipeStep, PTL DEF RecipeSpec

(***************************************************************************)
(*                          Preparation                                    *)
(***************************************************************************)
Cancellable == OpenStatuses \cup {"CANCELLED"}

\* A ticket is on the board from the send of its order on.  Until then it has
\* neither taken nor drawn stock, and an open one that no switch and no lost
\* update touched took what the kitchen's setting says.
TicketsFollowBills ==
    \A t \in Tickets :
      /\ bills[BillOf[t]] = "OPEN" <=> board[t] = "NONE"
      /\ board[t] = "NONE" => taken[t] = 0 /\ drawn[t] = 0
      /\ board[t] \in OpenStatuses /\ t \notin switchedIn \cup overwritten =>
           taken[t] = IF centralKitchen THEN 1 ELSE 0

\* What a request in progress read still holds of a ticket that is open, unless a
\* switch or a lost update is on record for it.
VoidStands(c) ==
    LET call == chefCalls[c] IN
    /\ call.op = "void"
    /\ call.bill \in Bills /\ bills[call.bill] # "OPEN"
    /\ call.tickets \subseteq TicketsOf(call.bill)
    /\ \A t \in call.tickets : call.seen[t] \in OpenStatuses
    /\ \A t \in TicketsOf(call.bill) \ call.tickets :
         t \in overwritten \/ board[t] \notin OpenStatuses
StatusStands(c) ==
    LET call == chefCalls[c] IN
    /\ call.op = "status"
    /\ call.ticket \in Tickets /\ board[call.ticket] # "NONE"
    /\ call.seen \in OpenStatuses /\ call.to \in Cancellable
CompleteStands(c) ==
    LET call == chefCalls[c] IN
    /\ call.op = "complete"
    /\ call.ticket \in Tickets /\ board[call.ticket] # "NONE"
    /\ call.seen \in OpenStatuses /\ call.draw \in Nat
    /\ /\ board[call.ticket] \in OpenStatuses /\ ~call.stated
       /\ call.ticket \notin switchedIn \cup overwritten
       => call.draw = IF centralKitchen THEN 0 ELSE 1
CallStands(c) ==
    chefCalls[c] = Away \/ VoidStands(c) \/ StatusStands(c) \/ CompleteStands(c)

PrepTypes ==
    /\ board \in [Tickets -> OpenStatuses \cup {"NONE", "COMPLETED", "CANCELLED"}]
    /\ bills \in [Bills -> {"OPEN", "SENT", "VOIDED"}]
    /\ raw \in Int
    /\ centralKitchen \in BOOLEAN
    /\ taken \in [Tickets -> Nat] /\ drawn \in [Tickets -> Nat]
    /\ DOMAIN chefCalls = Chefs

PrepInv ==
    /\ PrepTypes /\ TicketsFollowBills /\ (\A c \in Chefs : CallStands(c))
    /\ DishPaidOnce /\ OpenTicketsDrewNothing /\ VoidedLeavesTheBoard

\* How a step may move the tickets: no record is withdrawn, a ticket comes back
\* on the board only with a lost update on record, and a switch is recorded for
\* every open ticket.
TicketsMove ==
    /\ overwritten \subseteq overwritten' /\ switchedIn \subseteq switchedIn'
    /\ \A b \in Bills : bills[b] # "OPEN" => bills'[b] # "OPEN"
    /\ \A t \in Tickets :
         /\ board[t] # "NONE" => board'[t] # "NONE"
         /\ board[t] # "NONE" /\ board'[t] \in OpenStatuses /\ t \notin overwritten' =>
              board[t] \in OpenStatuses
         /\ board'[t] \in OpenStatuses /\ board[t] # "NONE"
            /\ t \notin switchedIn' \cup overwritten' =>
              centralKitchen' = centralKitchen

LEMMA CallsOutlive ==
  ASSUME TicketsFollowBills, TicketsMove,
         NEW c \in Chefs, chefCalls'[c] = chefCalls[c], CallStands(c)
  PROVE  CallStands(c)'
<1> USE PreparationAssumption
<1>1. CASE chefCalls[c] = Away
  BY <1>1 DEF CallStands
<1>2. CASE VoidStands(c)
  <2>1. \A t \in TicketsOf(chefCalls[c].bill) : t \in Tickets /\ board[t] # "NONE"
    BY <1>2 DEF VoidStands, TicketsOf, TicketsFollowBills
  <2>2. \A t \in TicketsOf(chefCalls[c].bill) \ chefCalls[c].tickets :
          t \in overwritten' \/ board'[t] \notin OpenStatuses
    BY <1>2, <2>1 DEF VoidStands, TicketsMove
  <2>3. VoidStands(c)'
    BY <1>2, <2>2 DEF VoidStands, TicketsMove, TicketsOf
  <2> QED  BY <2>3 DEF CallStands
<1>3. CASE StatusStands(c)
  <2>1. StatusStands(c)'
    BY <1>3 DEF StatusStands, TicketsMove
  <2> QED  BY <2>1 DEF CallStands
<1>4. CASE CompleteStands(c)
  <2>1. CompleteStands(c)'
    BY <1>4 DEF CompleteStands, TicketsMove
  <2> QED  BY <2>1 DEF CallStands
<1> QED  BY <1>1, <1>2, <1>3, <1>4 DEF CallStands

LEMMA PrepStep ==
  ASSUME PrepInv, [PrepNext]_prepVars
  PROVE  PrepInv'
<1> USE PreparationAssumption DEF PrepInv
<1>1. ASSUME SwitchKitchen PROVE PrepInv'
  <2>1. UNCHANGED <<board, bills, raw, taken, drawn, byHand, chefCalls, overwritten>>
        /\ switchedIn' = switchedIn \cup {t \in Tickets : board[t] \in OpenStatuses}
        /\ centralKitchen' \in BOOLEAN
    BY <1>1 DEF SwitchKitchen
  <2>2. TicketsMove
    BY <2>1 DEF TicketsMove
  <2>3. \A c \in Chefs : CallStands(c)'
    BY <2>1, <2>2, CallsOutlive
  <2>4. PrepTypes' /\ TicketsFollowBills'
    BY <2>1 DEF PrepTypes, TicketsFollowBills
  <2>5. DishPaidOnce' /\ OpenTicketsDrewNothing' /\ VoidedLeavesTheBoard'
    BY <2>1 DEF DishPaidOnce, OpenTicketsDrewNothing, VoidedLeavesTheBoard
  <2> QED  BY <2>3, <2>4, <2>5
<1>2. ASSUME NEW b \in Bills, SendBill(b) PROVE PrepInv'
  <2>1. UNCHANGED <<raw, centralKitchen, drawn, byHand, chefCalls, switchedIn, overwritten>>
        /\ bills[b] = "OPEN" /\ bills' = [bills EXCEPT ![b] = "SENT"]
    BY <1>2 DEF SendBill
  <2>2. /\ taken' = [t \in Tickets |-> IF t \in Made(b) THEN 1 ELSE taken[t]]
        /\ board' = [t \in Tickets |-> IF t \in TicketsOf(b) THEN "QUEUED" ELSE board[t]]
    BY <1>2 DEF SendBill
  <2>3. \A t \in TicketsOf(b) : t \in Tickets /\ BillOf[t] = b /\ board[t] = "NONE"
                                /\ taken[t] = 0 /\ drawn[t] = 0
    BY <2>1 DEF TicketsOf, TicketsFollowBills
  <2>4. \A t \in Tickets : t \notin TicketsOf(b) => BillOf[t] # b /\ BillOf[t] \in Bills
    BY DEF TicketsOf
  <2>5. \A t \in TicketsOf(b) : /\ board'[t] = "QUEUED" /\ bills'[BillOf[t]] = "SENT"
                                /\ taken'[t] = IF centralKitchen THEN 1 ELSE 0
    BY <2>1, <2>2, <2>3 DEF Made, PrepTypes
  <2>6. \A t \in Tickets : t \notin TicketsOf(b) =>
          board'[t] = board[t] /\ taken'[t] = taken[t] /\ bills'[BillOf[t]] = bills[BillOf[t]]
    BY <2>1, <2>2, <2>4 DEF Made, PrepTypes
  <2>7. PrepTypes'
    BY <2>1, <2>2 DEF PrepTypes, OpenStatuses
  <2>8. TicketsMove
    BY <2>1, <2>3, <2>5, <2>6 DEF TicketsMove, PrepTypes
  <2>9. \A c \in Chefs : CallStands(c)'
    BY <2>1, <2>8, CallsOutlive
  <2>10. TicketsFollowBills'
    BY <2>1, <2>3, <2>5, <2>6 DEF TicketsFollowBills
  <2>11. DishPaidOnce' /\ OpenTicketsDrewNothing' /\ VoidedLeavesTheBoard'
    BY <2>1, <2>3, <2>5, <2>6 DEF DishPaidOnce, OpenTicketsDrewNothing, VoidedLeavesTheBoard
  <2> QED  BY <2>7, <2>9, <2>10, <2>11
<1>3. ASSUME NEW c \in Chefs,
             UNCHANGED <<board, bills, raw, centralKitchen, taken, drawn, byHand, switchedIn,
                         overwritten>>,
             \A d \in Chefs \ {c} : chefCalls'[d] = chefCalls[d],
             DOMAIN chefCalls' = Chefs, CallStands(c)'
      PROVE  PrepInv'
  <2>1. TicketsMove
    BY <1>3 DEF TicketsMove
  <2>2. \A d \in Chefs \ {c} : CallStands(d)'
    BY <1>3, <2>1, CallsOutlive
  <2>3. PrepTypes' /\ TicketsFollowBills' /\ DishPaidOnce' /\ OpenTicketsDrewNothing'
        /\ VoidedLeavesTheBoard'
    BY <1>3 DEF PrepTypes, TicketsFollowBills, DishPaidOnce, OpenTicketsDrewNothing,
                VoidedLeavesTheBoard
  <2> QED  BY <1>3, <2>2, <2>3
<1>4. ASSUME NEW c \in Chefs, NEW b \in Bills, LoadVoid(c, b) PROVE PrepInv'
  <2>1. UNCHANGED <<board, bills, raw, centralKitchen, taken, drawn, byHand,
                     switchedIn, overwritten>>
        /\ bills[b] = "SENT"
        /\ chefCalls' = [chefCalls EXCEPT ![c] =
                 [op |-> "void", bill |-> b, tickets |-> ToCancel(b), seen |-> board]]
    BY <1>4 DEF LoadVoid, Begins
  <2>2. chefCalls'[c] = [op |-> "void", bill |-> b, tickets |-> ToCancel(b), seen |-> board]
        /\ DOMAIN chefCalls' = Chefs /\ \A d \in Chefs \ {c} : chefCalls'[d] = chefCalls[d]
    BY <2>1 DEF PrepTypes
  <2>3. VoidStands(c)'
    BY <2>1, <2>2 DEF VoidStands, ToCancel, TicketsOf
  <2> QED  BY <1>3, <2>1, <2>2, <2>3 DEF CallStands
<1>5. ASSUME NEW c \in Chefs, NEW t \in Tickets, NEW to \in Cancellable, LoadStatus(c, t, to)
      PROVE  PrepInv'
  <2>1. UNCHANGED <<board, bills, raw, centralKitchen, taken, drawn, byHand,
                     switchedIn, overwritten>>
        /\ to \in MovesFrom(board[t])
        /\ chefCalls' = [chefCalls EXCEPT ![c] =
                 [op |-> "status", ticket |-> t, to |-> to, seen |-> board[t]]]
    BY <1>5 DEF LoadStatus, Begins
  <2>2. chefCalls'[c] = [op |-> "status", ticket |-> t, to |-> to, seen |-> board[t]]
        /\ DOMAIN chefCalls' = Chefs /\ \A d \in Chefs \ {c} : chefCalls'[d] = chefCalls[d]
    BY <2>1 DEF PrepTypes
  <2>3. board[t] \in OpenStatuses
    BY <2>1 DEF MovesFrom
  <2>4. StatusStands(c)'
    BY <2>1, <2>2, <2>3 DEF StatusStands, OpenStatuses
  <2> QED  BY <1>3, <2>1, <2>2, <2>4 DEF CallStands
<1>6. ASSUME NEW c \in Chefs, NEW t \in Tickets, NEW inputs \in 0..2, LoadComplete(c, t, inputs)
      PROVE  PrepInv'
  <2> DEFINE call == [op |-> "complete", ticket |-> t, seen |-> board[t],
                      auto |-> AutoRecipe(inputs),
                      draw |-> IF AutoRecipe(inputs) THEN 1 ELSE inputs, stated |-> inputs > 0]
  <2>1. UNCHANGED <<board, bills, raw, centralKitchen, taken, drawn, byHand,
                     switchedIn, overwritten>>
        /\ board[t] \in OpenStatuses /\ chefCalls' = [chefCalls EXCEPT ![c] = call]
    BY <1>6 DEF LoadComplete, Begins
  <2>2. chefCalls'[c] = call
        /\ DOMAIN chefCalls' = Chefs /\ \A d \in Chefs \ {c} : chefCalls'[d] = chefCalls[d]
    BY <2>1 DEF PrepTypes
  <2>3. call.draw \in Nat /\ (~call.stated => call.draw = IF centralKitchen THEN 0 ELSE 1)
    <3>1. CASE inputs = 0 /\ ~centralKitchen
      BY <3>1 DEF AutoRecipe
    <3>2. CASE inputs = 0 /\ centralKitchen
      BY <3>2 DEF AutoRecipe
    <3>3. CASE inputs # 0
      <4>1. inputs \in Nat /\ inputs > 0 /\ ~AutoRecipe(inputs)
        BY <3>3 DEF AutoRecipe
      <4>2. call.draw = inputs /\ call.stated
        BY <4>1
      <4> QED  BY <4>1, <4>2
    <3> QED  BY <3>1, <3>2, <3>3 DEF PrepTypes
  <2>4. call.op = "complete" /\ call.ticket = t /\ call.seen = board[t]
    OBVIOUS
  <2> HIDE DEF call
  <2>5. CompleteStands(c)'
    BY <2>1, <2>2, <2>3, <2>4 DEF CompleteStands, OpenStatuses
  <2> QED  BY <1>3, <2>1, <2>2, <2>5 DEF CallStands
<1>7. ASSUME NEW c \in Chefs, WalkAway(c) PROVE PrepInv'
  <2>1. UNCHANGED <<board, bills, raw, centralKitchen, taken, drawn, byHand,
                     switchedIn, overwritten>>
        /\ chefCalls' = [chefCalls EXCEPT ![c] = Away]
    BY <1>7 DEF WalkAway, Done
  <2>2. chefCalls'[c] = Away
        /\ DOMAIN chefCalls' = Chefs /\ \A d \in Chefs \ {c} : chefCalls'[d] = chefCalls[d]
    BY <2>1 DEF PrepTypes
  <2> QED  BY <1>3, <2>1, <2>2 DEF CallStands
<1>8. ASSUME NEW c \in Chefs, CommitVoid(c) PROVE PrepInv'
  <2> DEFINE call == chefCalls[c]
  <2>1. UNCHANGED <<raw, centralKitchen, taken, drawn, byHand, switchedIn>>
        /\ call.op = "void" /\ bills' = [bills EXCEPT ![call.bill] = "VOIDED"]
        /\ board' = [t \in Tickets |-> IF t \in call.tickets THEN "CANCELLED" ELSE board[t]]
        /\ overwritten' = overwritten \cup {t \in call.tickets : board[t] # call.seen[t]}
        /\ chefCalls' = [chefCalls EXCEPT ![c] = Away]
    BY <1>8 DEF CommitVoid, Done
  <2>2. VoidStands(c)
    BY <2>1 DEF CallStands, VoidStands, StatusStands, CompleteStands, Away
  <2>3. chefCalls'[c] = Away
        /\ DOMAIN chefCalls' = Chefs /\ \A d \in Chefs \ {c} : chefCalls'[d] = chefCalls[d]
    BY <2>1 DEF PrepTypes
  <2> DEFINE b == call.bill
             gone == call.tickets
  <2>4. b \in Bills /\ bills[b] # "OPEN" /\ bills' = [bills EXCEPT ![b] = "VOIDED"]
        /\ gone \subseteq TicketsOf(b) /\ TicketsOf(b) \subseteq Tickets
        /\ (\A t \in TicketsOf(b) : BillOf[t] = b /\ board[t] # "NONE")
        /\ (\A t \in TicketsOf(b) \ gone : t \in overwritten \/ board[t] \notin OpenStatuses)
    BY <2>1, <2>2 DEF VoidStands, TicketsOf, TicketsFollowBills
  <2>5. \A t \in gone : t \notin overwritten' => board[t] \in OpenStatuses
    BY <2>1, <2>2 DEF VoidStands
  <2>6. board' = [t \in Tickets |-> IF t \in gone THEN "CANCELLED" ELSE board[t]]
        /\ overwritten \subseteq overwritten'
    BY <2>1
  <2> HIDE DEF b, gone
  <2>7. /\ \A t \in gone : board'[t] = "CANCELLED"
        /\ \A t \in Tickets \ gone : board'[t] = board[t]
    BY <2>4, <2>6
  <2>8. \A t \in Tickets : bills[BillOf[t]] = "OPEN" <=> bills'[BillOf[t]] = "OPEN"
    BY <2>4 DEF PrepTypes
  <2>9. PrepTypes'
    <3>1. bills' \in [Bills -> {"OPEN", "SENT", "VOIDED"}]
      BY <2>4 DEF PrepTypes
    <3>2. \A t \in Tickets : board'[t] \in OpenStatuses \cup {"NONE", "COMPLETED", "CANCELLED"}
      BY <2>7 DEF PrepTypes
    <3>3. board' = [t \in Tickets |-> board'[t]]
      BY <2>6
    <3> QED  BY <2>1, <2>3, <3>1, <3>2, <3>3 DEF PrepTypes
  <2>10. "CANCELLED" \notin OpenStatuses
    BY DEF OpenStatuses
  <2>11. TicketsMove
    BY <2>1, <2>4, <2>6, <2>7, <2>10 DEF TicketsMove, PrepTypes
  <2>12. \A d \in Chefs \ {c} : CallStands(d)'
    BY <2>3, <2>11, CallsOutlive
  <2>13. TicketsFollowBills'
    BY <2>1, <2>4, <2>6, <2>7, <2>8, <2>10 DEF TicketsFollowBills
  <2>14. DishPaidOnce'
    BY <2>1, <2>6, <2>7, <2>4 DEF DishPaidOnce
  <2>15. OpenTicketsDrewNothing'
    <3>1. \A t \in Tickets : t \notin overwritten' /\ board'[t] # "COMPLETED" =>
             t \notin overwritten /\ board[t] # "COMPLETED"
      BY <2>4, <2>5, <2>6, <2>7 DEF OpenStatuses
    <3> QED  BY <2>1, <3>1 DEF OpenTicketsDrewNothing
  <2>16. VoidedLeavesTheBoard'
    <3>1. ASSUME NEW t \in Tickets, t \notin overwritten', bills'[BillOf[t]] = "VOIDED"
          PROVE  board'[t] \notin OpenStatuses
      <4>1. CASE t \in gone
        BY <4>1, <2>7, <2>10
      <4>2. CASE t \notin gone /\ BillOf[t] = b
        BY <4>2, <3>1, <2>4, <2>6, <2>7 DEF TicketsOf
      <4>3. CASE t \notin gone /\ BillOf[t] # b
        <5>1. bills'[BillOf[t]] = bills[BillOf[t]]
          BY <4>3, <2>4 DEF PrepTypes
        <5> QED  BY <4>3, <5>1, <3>1, <2>6, <2>7 DEF VoidedLeavesTheBoard
      <4> QED  BY <4>1, <4>2, <4>3
    <3> QED  BY <3>1 DEF VoidedLeavesTheBoard
  <2> QED  BY <2>3, <2>9, <2>12, <2>13, <2>14, <2>15, <2>16 DEF CallStands
<1>9. ASSUME NEW c \in Chefs, CommitStatus(c) PROVE PrepInv'
  <2> DEFINE t == chefCalls[c].ticket
             to == chefCalls[c].to
             seen == chefCalls[c].seen
  <2>1. UNCHANGED <<bills, raw, centralKitchen, taken, drawn, byHand, switchedIn>>
        /\ chefCalls[c].op = "status" /\ board' = [board EXCEPT ![t] = to]
        /\ overwritten' = (IF board[t] # seen THEN overwritten \cup {t} ELSE overwritten)
        /\ chefCalls' = [chefCalls EXCEPT ![c] = Away]
    BY <1>9 DEF CommitStatus, Done
  <2>2. StatusStands(c)
    BY <2>1 DEF CallStands, VoidStands, StatusStands, CompleteStands, Away
  <2>3. chefCalls'[c] = Away
        /\ DOMAIN chefCalls' = Chefs /\ \A d \in Chefs \ {c} : chefCalls'[d] = chefCalls[d]
    BY <2>1 DEF PrepTypes
  <2>4. t \in Tickets /\ board[t] # "NONE" /\ seen \in OpenStatuses /\ to \in Cancellable
    BY <2>2 DEF StatusStands
  <2> HIDE DEF t, to, seen
  <2>5. board'[t] = to /\ (\A v \in Tickets \ {t} : board'[v] = board[v])
        /\ overwritten \subseteq overwritten'
        /\ (t \notin overwritten' => board[t] \in OpenStatuses)
        /\ to \notin {"NONE", "COMPLETED"}
    BY <2>1, <2>4 DEF PrepTypes, Cancellable, OpenStatuses
  <2>6. PrepTypes'
    BY <2>1, <2>3, <2>4 DEF PrepTypes, Cancellable
  <2>7. TicketsMove
    BY <2>1, <2>5 DEF TicketsMove
  <2>8. \A d \in Chefs \ {c} : CallStands(d)'
    BY <2>3, <2>7, CallsOutlive
  <2>9. TicketsFollowBills'
    BY <2>1, <2>4, <2>5 DEF TicketsFollowBills
  <2>10. DishPaidOnce'
    BY <2>1, <2>5 DEF DishPaidOnce
  <2>11. OpenTicketsDrewNothing'
    <3>1. \A v \in Tickets : v \notin overwritten' /\ board'[v] # "COMPLETED" =>
             v \notin overwritten /\ board[v] # "COMPLETED"
      BY <2>5 DEF OpenStatuses
    <3> QED  BY <2>1, <3>1 DEF OpenTicketsDrewNothing
  <2>12. VoidedLeavesTheBoard'
    <3>1. \A v \in Tickets : v \notin overwritten' /\ board'[v] \in OpenStatuses =>
             v \notin overwritten /\ board[v] \in OpenStatuses
      BY <2>5
    <3> QED  BY <2>1, <3>1 DEF VoidedLeavesTheBoard
  <2> QED  BY <2>3, <2>6, <2>8, <2>9, <2>10, <2>11, <2>12 DEF CallStands
<1>10. ASSUME NEW c \in Chefs, CommitComplete(c) PROVE PrepInv'
  <2> DEFINE t == chefCalls[c].ticket
             draw == chefCalls[c].draw
             seen == chefCalls[c].seen
  <2>1. UNCHANGED <<bills, centralKitchen, taken, switchedIn>>
        /\ chefCalls[c].op = "complete" /\ board' = [board EXCEPT ![t] = "COMPLETED"]
        /\ raw' = raw - draw /\ drawn' = [drawn EXCEPT ![t] = @ + draw]
        /\ byHand' = (IF chefCalls[c].stated THEN byHand \cup {t} ELSE byHand)
        /\ overwritten' = (IF board[t] # seen THEN overwritten \cup {t} ELSE overwritten)
        /\ chefCalls' = [chefCalls EXCEPT ![c] = Away]
    BY <1>10 DEF CommitComplete, Done
  <2>2. CompleteStands(c)
    BY <2>1 DEF CallStands, VoidStands, StatusStands, CompleteStands, Away
  <2>3. chefCalls'[c] = Away
        /\ DOMAIN chefCalls' = Chefs /\ \A d \in Chefs \ {c} : chefCalls'[d] = chefCalls[d]
    BY <2>1 DEF PrepTypes
  <2>4. t \in Tickets /\ board[t] # "NONE" /\ seen \in OpenStatuses /\ draw \in Nat
        /\ (board[t] \in OpenStatuses /\ t \notin switchedIn \cup overwritten /\ t \notin byHand' =>
              draw = IF centralKitchen THEN 0 ELSE 1)
    BY <2>1, <2>2 DEF CompleteStands
  <2> HIDE DEF t, draw, seen
  <2>5. board'[t] = "COMPLETED" /\ (\A v \in Tickets \ {t} : board'[v] = board[v])
        /\ overwritten \subseteq overwritten' /\ byHand \subseteq byHand'
        /\ (t \notin overwritten' => board[t] \in OpenStatuses)
        /\ "COMPLETED" \notin OpenStatuses
    BY <2>1, <2>4 DEF PrepTypes, OpenStatuses
  <2>6. drawn'[t] = drawn[t] + draw /\ (\A v \in Tickets \ {t} : drawn'[v] = drawn[v])
    BY <2>1, <2>4 DEF PrepTypes
  <2>7. PrepTypes'
    BY <2>1, <2>3, <2>4 DEF PrepTypes
  <2>8. TicketsMove
    BY <2>1, <2>5 DEF TicketsMove
  <2>9. \A d \in Chefs \ {c} : CallStands(d)'
    BY <2>3, <2>8, CallsOutlive
  <2>10. TicketsFollowBills'
    BY <2>1, <2>4, <2>5, <2>6 DEF TicketsFollowBills
  <2>11. DishPaidOnce'
    <3>1. ASSUME t \notin switchedIn' \cup overwritten' \cup byHand'
          PROVE  taken'[t] + drawn'[t] = 1
      <4>1. board[t] \in OpenStatuses /\ t \notin switchedIn \cup overwritten
        BY <2>1, <2>5, <3>1
      <4>2. draw = (IF centralKitchen THEN 0 ELSE 1) /\ taken[t] = (IF centralKitchen THEN 1 ELSE 0)
        BY <4>1, <2>4, <3>1 DEF TicketsFollowBills
      <4>3. drawn[t] = 0
        BY <4>1, <2>4, <2>5 DEF OpenTicketsDrewNothing
      <4> QED  BY <4>2, <4>3, <2>1, <2>6
    <3>2. ASSUME NEW v \in Tickets \ {t}, v \notin switchedIn' \cup overwritten' \cup byHand',
                 board'[v] = "COMPLETED"
          PROVE  taken'[v] + drawn'[v] = 1
      BY <2>1, <2>5, <2>6, <3>2 DEF DishPaidOnce
    <3> QED  BY <3>1, <3>2 DEF DishPaidOnce
  <2>12. OpenTicketsDrewNothing'
    <3>1. \A v \in Tickets \ overwritten' : board'[v] # "COMPLETED" => drawn'[v] = 0
      BY <2>5, <2>6 DEF OpenTicketsDrewNothing
    <3>2. SumOver(drawn', Tickets) = SumOver(drawn, Tickets) - drawn[t] + drawn'[t]
      <4>1. \A v \in Tickets : drawn[v] \in Int /\ drawn'[v] \in Int
        BY <2>7 DEF PrepTypes
      <4>2. IsFiniteSet(Tickets)
        OBVIOUS
      <4>3. t \in Tickets /\ \A v \in Tickets \ {t} : drawn'[v] = drawn[v]
        BY <2>4, <2>6
      <4> HIDE PreparationAssumption
      <4> HIDE DEF PrepInv
      <4> QED  BY <4>1, <4>2, <4>3, SumChange
    <3>3. SumOver(drawn, Tickets) \in Int /\ drawn[t] \in Int
      <4>1. \A v \in Tickets : drawn[v] \in Int
        BY DEF PrepTypes
      <4>2. IsFiniteSet(Tickets)
        OBVIOUS
      <4> QED  BY <4>1, <4>2, <2>4, SumIsInt
    <3>4. raw' + SumOver(drawn', Tickets) = Raw
      BY <2>1, <2>4, <2>6, <3>2, <3>3 DEF OpenTicketsDrewNothing, PrepTypes
    <3> QED  BY <3>1, <3>4 DEF OpenTicketsDrewNothing
  <2>13. VoidedLeavesTheBoard'
    BY <2>1, <2>5 DEF VoidedLeavesTheBoard
  <2> QED  BY <2>3, <2>7, <2>9, <2>10, <2>11, <2>12, <2>13 DEF CallStands
<1>11. CASE UNCHANGED prepVars
  <2>1. UNCHANGED <<board, bills, raw, centralKitchen, taken, drawn, byHand, switchedIn,
                    overwritten, chefCalls>>
    BY <1>11 DEF prepVars
  <2>2. TicketsMove
    BY <2>1 DEF TicketsMove
  <2>3. \A d \in Chefs : CallStands(d)'
    BY <2>1, <2>2, CallsOutlive
  <2> QED
    BY <2>1, <2>3 DEF PrepTypes, TicketsFollowBills, DishPaidOnce, OpenTicketsDrewNothing,
                VoidedLeavesTheBoard
<1> QED
  BY <1>1, <1>2, <1>4, <1>5, <1>6, <1>7, <1>8, <1>9, <1>10, <1>11 DEF PrepNext, Cancellable

(***************************************************************************)
(* The board agrees with the order and the shelf: a made-to-order dish is  *)
(* paid for with stock once, only completions draw components and nobody   *)
(* is left with a dish of a voided order, however many handlers work on    *)
(* however many tickets, but for the lost updates and the switches on      *)
(* record.                                                                 *)
(***************************************************************************)
THEOREM TicketsStayAccounted == PrepSpec => []TicketsAreAccounted
<1>1. PrepInit => PrepInv
  <2> SUFFICES ASSUME PrepInit PROVE PrepInv
    OBVIOUS
  <2> USE PreparationAssumption
  <2>1. \A t \in Tickets : board[t] = "NONE" /\ taken[t] = 0 /\ drawn[t] = 0
    BY DEF PrepInit
  <2>2. SumOver(drawn, Tickets) = 0
    <3>1. IsFiniteSet(Tickets)
      OBVIOUS
    <3> QED  BY <2>1, <3>1, SumZero
  <2>3. PrepTypes /\ (\A c \in Chefs : chefCalls[c] = Away) /\ raw = Raw
        /\ (\A b \in Bills : bills[b] = "OPEN")
    BY DEF PrepInit, PrepTypes
  <2>4. TicketsFollowBills /\ DishPaidOnce /\ VoidedLeavesTheBoard
    BY <2>1, <2>3 DEF TicketsFollowBills, DishPaidOnce, VoidedLeavesTheBoard, OpenStatuses
  <2>5. OpenTicketsDrewNothing
    BY <2>1, <2>2, <2>3 DEF OpenTicketsDrewNothing
  <2> QED  BY <2>3, <2>4, <2>5 DEF PrepInv, CallStands
<1>2. PrepInv => TicketsAreAccounted
  BY DEF PrepInv, TicketsAreAccounted
<1> QED  BY <1>1, <1>2, PrepStep, PTL DEF PrepSpec

(***************************************************************************)
(*                            Printing                                     *)
(***************************************************************************)
RoutingsStayConsistent == routing \in Routings /\ Consistent(routing)

\* Nothing is printed, queued or reported before the order is fired, and no job
\* reaches the server before the replay of an order fired offline.
QuietBeforeFiring ==
    /\ fired = "no" => \A i \in Items : onPaper[i] = 0
    /\ fired \in {"no", "offline"} => \A s \in Stations : slips[s] = NoTicket

\* While lines stay where they were decided to print: what came out is at most
\* one slip, what is queued has not come out, and what came out offline is what
\* the terminal will report.
SlipsTellThePaper ==
    fired # "no" /\ ~rerouted /\ reprints = {} =>
      /\ \A i \in Items : onPaper[i] \in {0, 1}
      /\ \A s \in Stations : slips[s].state = "QUEUED" =>
           \A i \in LinesAt(routing, s) : onPaper[i] = 0
      /\ fired = "offline" =>
           \A s \in Stations, i \in Items :
             ResolveStation(routing, i) = s /\ onPaper[i] = 1 =>
               offline[s] \notin {"NONE", "QUEUED"}

PrintTypes ==
    /\ onPaper \in [Items -> Nat]
    /\ offline \in [Stations -> {"NONE", "PRINTED", "FAILED"}]
    /\ slips \in [Stations -> [state : {"NONE", "QUEUED", "PRINTED", "FAILED", "VOID"},
                               attempts : Nat]]

PrintInv == PrintTypes /\ RoutingsStayConsistent /\ QuietBeforeFiring /\ SlipsTellThePaper

LEMMA RoutesWhereItSays ==
  ASSUME NEW r \in Routings, Consistent(r), r.expo # Nowhere, NEW i \in Items
  PROVE  ResolveStation(r, i) \in r.up
<1>1. CategoryOf[i] # "" => CategoryOf[i] \in Categories
  BY DEF Categories
<1> QED  BY <1>1 DEF ResolveStation, Consistent

\* Each request of the manager leaves every reference on a station that is there.
LEMMA ConfigureKeepsConsistent ==
  ASSUME RoutingsStayConsistent, Configure
  PROVE  RoutingsStayConsistent'
<1> DEFINE good(q) == q \in Routings /\ Consistent(q)
<1>1. ASSUME routing' \in CreateStation(routing) PROVE good(routing')
  <2>1. PICK s \in Stations : \/ routing' = [routing EXCEPT !.up = @ \cup {s}]
                             \/ routing' = [routing EXCEPT !.up = @ \cup {s}, !.expo = s]
    <3>1. \A s \in IF routing.expo = Nowhere THEN Stations \ routing.up ELSE {} : s \in Stations
      OBVIOUS
    <3> QED  BY <1>1, <3>1 DEF CreateStation
  <2>2. CASE routing' = [routing EXCEPT !.up = @ \cup {s}]
    BY <2>2 DEF RoutingsStayConsistent, Routings, Consistent
  <2>3. CASE routing' = [routing EXCEPT !.up = @ \cup {s}, !.expo = s]
    BY <2>3 DEF RoutingsStayConsistent, Routings, Consistent
  <2> QED  BY <2>1, <2>2, <2>3
<1>2. ASSUME routing' \in UpdateStation(routing) PROVE good(routing')
  BY <1>2 DEF RoutingsStayConsistent, Routings, Consistent, UpdateStation
<1>3. ASSUME routing' \in DeleteStation(routing) PROVE good(routing')
  BY <1>3 DEF RoutingsStayConsistent, Routings, Consistent, DeleteStation, Without
<1>4. ASSUME routing' \in UpsertMap(routing) PROVE good(routing')
  BY <1>4 DEF RoutingsStayConsistent, Routings, Consistent, UpsertMap
<1>5. ASSUME routing' \in UpsertOverride(routing) PROVE good(routing')
  BY <1>5 DEF RoutingsStayConsistent, Routings, Consistent, UpsertOverride
<1> QED
  BY <1>1, <1>2, <1>3, <1>4, <1>5 DEF Configure, RoutingsStayConsistent

LEMMA PrintingStep ==
  ASSUME PrintInv, [PrintNext]_printVars
  PROVE  PrintInv'
<1> USE DEF PrintInv
<1>1. CASE Configure
  <2>1. UNCHANGED <<onPaper, offline, slips, fired, reprints>>
    BY <1>1 DEF Configure
  <2>2. RoutingsStayConsistent'
    BY <1>1, ConfigureKeepsConsistent
  <2>3. fired # "no" /\ ~rerouted' =>
          ~rerouted /\ \A i \in Items : ResolveStation(routing, i) = ResolveStation(routing', i)
    BY <1>1 DEF Configure, Reroutes
  <2>4. SlipsTellThePaper'
    BY <2>1, <2>3 DEF SlipsTellThePaper, LinesAt
  <2> QED  BY <2>1, <2>2, <2>4 DEF PrintTypes, QuietBeforeFiring
<1>2. CASE FetchConfig
  BY <1>2 DEF FetchConfig, PrintTypes, RoutingsStayConsistent, QuietBeforeFiring,
              SlipsTellThePaper, LinesAt, ResolveStation
<1>3. CASE FireOnline
  <2>1. PrintTypes'
    BY <1>3 DEF FireOnline, PrintTypes, Emitted
  <2>2. SlipsTellThePaper'
    BY <1>3 DEF FireOnline, QuietBeforeFiring, SlipsTellThePaper, LinesAt
  <2> QED  BY <1>3, <2>1, <2>2 DEF FireOnline, RoutingsStayConsistent, QuietBeforeFiring
<1>4. CASE FireOffline
  <2>1. PICK out \in SUBSET StationsOf(copy) :
          /\ offline' = [s \in Stations |->
                            IF s \in out THEN "PRINTED"
                            ELSE IF s \in StationsOf(copy) THEN "FAILED" ELSE "NONE"]
          /\ onPaper' = [i \in Items |-> IF ResolveStation(copy, i) \in out THEN 1 ELSE 0]
    BY <1>4 DEF FireOffline
  <2>2. UNCHANGED <<routing, slips>> /\ fired' = "offline"
        /\ \A s \in Stations : slips[s] = NoTicket
    BY <1>4 DEF FireOffline, QuietBeforeFiring
  <2>3. PrintTypes'
    BY <2>1, <2>2 DEF PrintTypes
  <2>4. ~rerouted' => \A i \in Items : ResolveStation(copy, i) = ResolveStation(routing, i)
    BY <1>4 DEF FireOffline, Reroutes
  <2>5. SlipsTellThePaper'
    <3>1. \A s \in Stations, i \in Items :
             ResolveStation(copy, i) = s /\ onPaper'[i] = 1 => s \in out
      BY <2>1
    <3>2. \A s \in Stations : slips'[s].state # "QUEUED"
      BY <2>2 DEF NoTicket
    <3>3. \A i \in Items : onPaper'[i] \in {0, 1}
      BY <2>1
    <3>4. \A s \in out : s \in Stations => offline'[s] = "PRINTED"
      BY <2>1
    <3>5. \A i \in Items : ResolveStation(routing', i) = ResolveStation(routing, i)
      BY <2>2
    <3> QED  BY <2>2, <2>4, <3>1, <3>2, <3>3, <3>4, <3>5 DEF SlipsTellThePaper
  <2> QED  BY <2>2, <2>3, <2>5 DEF RoutingsStayConsistent, QuietBeforeFiring
<1>5. CASE Replay
  <2>1. UNCHANGED <<routing, onPaper, offline, rerouted, reprints>>
        /\ fired = "offline" /\ fired' = "replayed"
    BY <1>5 DEF Replay
  <2> DEFINE jobs == Emitted(routing, slips)
  <2>2. jobs \in [Stations -> [state : {"NONE", "QUEUED", "PRINTED", "FAILED", "VOID"},
                               attempts : Nat]]
    BY DEF PrintTypes, Emitted
  <2>3. \A s \in Stations : s \in StationsOf(routing) => jobs[s] # NoTicket
    BY DEF Emitted, NoTicket, PrintTypes
  <2>4. \A s \in Stations : s \notin StationsOf(routing) => jobs[s] = slips[s]
    BY DEF Emitted
  <2> HIDE DEF jobs
  <2>5. slips' = SlipReported(jobs)
    BY <1>5 DEF Replay, jobs
  <2>6. PrintTypes'
    <3>1. ASSUME NEW s \in Stations
          PROVE  slips'[s] \in [state : {"NONE", "QUEUED", "PRINTED", "FAILED", "VOID"},
                                attempts : Nat]
      <4>1. jobs[s] \in [state : {"NONE", "QUEUED", "PRINTED", "FAILED", "VOID"},
                         attempts : Nat]
            /\ offline[s] \in {"NONE", "PRINTED", "FAILED"}
        BY <2>2 DEF PrintTypes
      <4> QED  BY <2>5, <4>1 DEF SlipReported
    <3>2. slips' = [s \in Stations |-> slips'[s]]
      BY <2>5 DEF SlipReported
    <3> QED  BY <2>1, <3>1, <3>2 DEF PrintTypes
  <2>7. SlipsTellThePaper'
    <3> SUFFICES ASSUME ~rerouted, reprints = {}
                 PROVE  /\ \A i \in Items : onPaper[i] \in {0, 1}
                        /\ \A s \in Stations : slips'[s].state = "QUEUED" =>
                             \A i \in LinesAt(routing, s) : onPaper[i] = 0
      BY <2>1 DEF SlipsTellThePaper, LinesAt, ResolveStation
    <3>1. \A i \in Items : onPaper[i] \in {0, 1}
      BY <2>1 DEF SlipsTellThePaper
    <3>2. ASSUME NEW s \in Stations, slips'[s].state = "QUEUED", NEW i \in LinesAt(routing, s)
          PROVE  onPaper[i] = 0
      <4>1. i \in Items /\ ResolveStation(routing, i) = s /\ s \in StationsOf(routing)
        BY <3>2 DEF LinesAt, StationsOf
      <4>2. jobs[s] # NoTicket
        BY <2>3, <4>1
      <4>3. ASSUME onPaper[i] = 1 PROVE FALSE
        <5>1. offline[s] \notin {"NONE", "QUEUED"}
          BY <2>1, <4>1, <4>3 DEF SlipsTellThePaper
        <5>2. slips'[s] = [jobs[s] EXCEPT !.state = offline[s]]
          BY <2>5, <4>2, <5>1 DEF SlipReported
        <5>3. slips'[s].state = offline[s]
          BY <2>2, <5>2
        <5> QED  BY <3>2, <5>1, <5>3
      <4> QED  BY <3>1, <4>1, <4>3
    <3> QED  BY <3>1, <3>2
  <2> QED  BY <2>1, <2>6, <2>7 DEF RoutingsStayConsistent, QuietBeforeFiring
<1>6. CASE VoidTickets
  <2>1. UNCHANGED <<routing, onPaper, offline, rerouted, reprints>>
        /\ fired \notin {"no", "offline"} /\ fired' = "void"
    BY <1>6 DEF VoidTickets
  <2>2. PrintTypes' /\ \A s \in Stations : slips'[s].state # "QUEUED"
    BY <1>6 DEF VoidTickets, PrintTypes, NoTicket
  <2> QED
    BY <2>1, <2>2 DEF RoutingsStayConsistent, QuietBeforeFiring, SlipsTellThePaper
<1>7. ASSUME NEW s \in Stations, PrintQueued(s) PROVE PrintInv'
  <2>1. UNCHANGED <<routing, fired, offline, rerouted, reprints>>
        /\ slips[s].state = "QUEUED" /\ slips' = [slips EXCEPT ![s].state = "PRINTED"]
    BY <1>7 DEF PrintQueued
  <2>2. fired \notin {"no", "offline"}
    BY <2>1 DEF QuietBeforeFiring, NoTicket
  <2>3. slips'[s].state = "PRINTED" /\ \A v \in Stations \ {s} : slips'[v] = slips[v]
    BY <2>1 DEF PrintTypes
  <2>4. \A i \in Items :
          onPaper'[i] = IF ResolveStation(routing, i) = s /\ onPaper[i] < 3
                        THEN onPaper[i] + 1 ELSE onPaper[i]
    BY <1>7 DEF PrintQueued
  <2>5. onPaper' \in [Items -> Nat]
    <3>1. onPaper' = [i \in Items |-> onPaper'[i]]
      BY <1>7 DEF PrintQueued
    <3>2. \A i \in Items : onPaper'[i] \in Nat
      BY <2>4 DEF PrintTypes
    <3> QED  BY <3>1, <3>2
  <2>6. PrintTypes'
    BY <2>1, <2>5 DEF PrintTypes
  <2>7. SlipsTellThePaper'
    <3> SUFFICES ASSUME ~rerouted, reprints = {}
                 PROVE  /\ \A i \in Items : onPaper'[i] \in {0, 1}
                        /\ \A v \in Stations : slips'[v].state = "QUEUED" =>
                             \A i \in LinesAt(routing, v) : onPaper'[i] = 0
      BY <2>1, <2>2 DEF SlipsTellThePaper, LinesAt, ResolveStation
    <3>1. /\ \A i \in Items : onPaper[i] \in {0, 1}
          /\ \A v \in Stations : slips[v].state = "QUEUED" =>
               \A i \in LinesAt(routing, v) : onPaper[i] = 0
      BY <2>2 DEF SlipsTellThePaper
    <3>2. \A i \in Items : ResolveStation(routing, i) = s => onPaper[i] = 0
      BY <2>1, <3>1 DEF LinesAt
    <3>3. \A i \in Items : onPaper'[i] \in {0, 1}
      BY <2>4, <3>1, <3>2
    <3>4. \A v \in Stations \ {s} : \A i \in LinesAt(routing, v) : onPaper'[i] = onPaper[i]
      BY <2>4 DEF LinesAt
    <3> QED  BY <2>3, <3>1, <3>3, <3>4
  <2> QED  BY <2>1, <2>2, <2>6, <2>7 DEF RoutingsStayConsistent, QuietBeforeFiring
<1>8. ASSUME NEW s \in Stations, ReportFailed(s) PROVE PrintInv'
  <2>1. UNCHANGED <<routing, fired, onPaper, offline, rerouted, reprints>>
        /\ slips[s].state \in {"QUEUED", "FAILED", "VOID"}
        /\ slips' = [slips EXCEPT ![s].state = "FAILED", ![s].attempts = @ + 1]
    BY <1>8 DEF ReportFailed
  <2>2. fired \notin {"no", "offline"}
    BY <2>1 DEF QuietBeforeFiring, NoTicket
  <2>3. slips'[s].state = "FAILED" /\ \A v \in Stations \ {s} : slips'[v] = slips[v]
    BY <2>1 DEF PrintTypes
  <2>4. PrintTypes'
    BY <2>1 DEF PrintTypes
  <2>5. SlipsTellThePaper'
    BY <2>1, <2>2, <2>3 DEF SlipsTellThePaper, LinesAt, ResolveStation
  <2> QED  BY <2>1, <2>2, <2>4, <2>5 DEF RoutingsStayConsistent, QuietBeforeFiring
<1>9. ASSUME NEW s \in Stations, Requeue(s) PROVE PrintInv'
  <2>1. UNCHANGED <<routing, fired, onPaper, offline, rerouted>> /\ reprints' # {}
        /\ slips[s].state \in {"PRINTED", "FAILED"}
        /\ slips' = [slips EXCEPT ![s] = [state |-> "QUEUED", attempts |-> 0]]
    BY <1>9 DEF Requeue
  <2>2. fired \notin {"no", "offline"}
    BY <2>1 DEF QuietBeforeFiring, NoTicket
  <2>3. PrintTypes'
    BY <2>1 DEF PrintTypes
  <2> QED  BY <2>1, <2>2, <2>3 DEF RoutingsStayConsistent, QuietBeforeFiring, SlipsTellThePaper
<1>10. CASE UNCHANGED printVars
  BY <1>10 DEF printVars, PrintTypes, RoutingsStayConsistent, QuietBeforeFiring,
              SlipsTellThePaper, LinesAt, ResolveStation
<1> QED
  BY <1>1, <1>2, <1>3, <1>4, <1>5, <1>6, <1>7, <1>8, <1>9, <1>10 DEF PrintNext

(***************************************************************************)
(* The kitchen hears of every line, and once: no configuration request     *)
(* leaves a reference to a station that is gone, a branch with an expo     *)
(* station routes every line, and whichever of server and terminal fires   *)
(* an order a line comes out once, for any number of stations and items.   *)
(***************************************************************************)
THEOREM KitchensHearOnce == PrintSpec => []KitchenHearsOnce
<1>1. PrintInit => PrintInv
  BY DEF PrintInit, PrintInv, PrintTypes, RoutingsStayConsistent, QuietBeforeFiring,
         SlipsTellThePaper, NoTicket
<1>2. PrintInv => KitchenHearsOnce
  <2>1. PrintInv => RoutesEverything
    BY RoutesWhereItSays DEF PrintInv, RoutingsStayConsistent, RoutesEverything
  <2>2. PrintInv => LinesPrintedOnce
    BY DEF PrintInv, SlipsTellThePaper, LinesPrintedOnce
  <2> QED  BY <2>1, <2>2 DEF KitchenHearsOnce
<1> QED  BY <1>1, <1>2, PrintingStep, PTL DEF PrintSpec

(***************************************************************************)
(*                            Planning                                     *)
(***************************************************************************)
PlanTypes ==
    /\ DOMAIN plans = Plans
    /\ \A p \in Plans :
         \/ plans[p] = NoPlan
         \/ plans[p] \in [status : {"DRAFT", "CONFIRMED", "CANCELLED"},
                          suggested : [PlanDays -> Suggestions],
                          planned : [PlanDays -> Suggestions]]
    /\ DOMAIN announced = Plans /\ DOMAIN planCalls = Planners

\* What a handler in progress read of a plan that exists.
PlanCallStands(r) ==
    LET c == planCalls[r] IN
    \/ c = Aside
    \/ /\ c.op \in {"override", "confirm", "cancel"}
       /\ c.plan \in Plans /\ plans[c.plan] # NoPlan
       /\ c.op = "override" => c.seen = "DRAFT" /\ c.date \in PlanDays /\ c.units \in Suggestions
       /\ c.op = "confirm" => c.seen = "DRAFT"
       /\ c.op = "cancel" => c.seen # "CANCELLED"

ConfirmedAsAnnounced ==
    replanned = {} => \A p \in ConfirmedPlans : announced[p] = plans[p].planned

PlanInv == PlanTypes /\ (\A r \in Planners : PlanCallStands(r)) /\ ConfirmedAsAnnounced

\* Plan by plan and branch by branch, the sums are over the same plans.
LEMMA TargetsAddUp ==
  ASSUME PlanInv PROVE TargetsAreAsAnnounced
<1> SUFFICES ASSUME replanned = {}, NEW d \in PlanDays
             PROVE  /\ KitchenTargets(d) =
                       SumOver([p \in ConfirmedPlans |-> announced[p][d]], ConfirmedPlans)
                    /\ KitchenTargets(d) = SumOver([b \in PlannedBranches |-> BranchExpected(b, d)],
                                                  PlannedBranches)
  BY DEF TargetsAreAsAnnounced
<1> DEFINE f == [p \in ConfirmedPlans |-> plans[p].planned[d]]
           a == [p \in ConfirmedPlans |-> announced[p][d]]
           g == [b \in PlannedBranches |-> BranchExpected(b, d)]
<1>1. Visible = ConfirmedPlans /\ ConfirmedPlans \subseteq Plans
  BY DEF Visible, ConfirmedPlans
<1>2. IsFiniteSet(ConfirmedPlans)
  BY <1>1, FS_Subset, PlanningAssumption
<1>3. IsFiniteSet(PlannedBranches)
  <2> DEFINE h == [p \in Plans |-> PlanBranch[p]]
  <2>1. h \in Surjection(Plans, PlannedBranches)
    BY DEF Surjection, PlannedBranches
  <2> QED  BY <2>1, FS_Surjection, PlanningAssumption
<1>4. \A p \in ConfirmedPlans : plans[p].planned[d] \in Int
  <2> SUFFICES ASSUME NEW p \in ConfirmedPlans PROVE plans[p].planned[d] \in Int
    OBVIOUS
  <2>1. p \in Plans /\ plans[p].status = "CONFIRMED"
    BY DEF ConfirmedPlans
  <2>2. plans[p].planned \in [PlanDays -> Suggestions]
    <3>1. plans[p] # NoPlan
      BY <2>1 DEF NoPlan
    <3> QED  BY <2>1, <3>1 DEF PlanInv, PlanTypes
  <2>3. plans[p].planned[d] \in Suggestions
    BY <2>2
  <2>4. Suggestions \subseteq Nat
    BY PlanningAssumption
  <2>5. plans[p].planned[d] \in Nat
    BY <2>3, <2>4, Zenon
  <2> QED  BY <2>5
<1>5. \A p \in ConfirmedPlans : f[p] \in Int /\ f[p] = a[p]
  BY <1>4 DEF PlanInv, ConfirmedAsAnnounced
<1>6. KitchenTargets(d) = SumOver(f, ConfirmedPlans)
  BY <1>1 DEF KitchenTargets, Units
<1>7. ASSUME NEW b \in PlannedBranches
      PROVE  g[b] = SumOver(f, Group(ConfirmedPlans, PlanBranch, b))
  <2> DEFINE S == {p \in Visible : PlanBranch[p] = b}
             h == [p \in S |-> plans[p].planned[d]]
  <2>1. S = Group(ConfirmedPlans, PlanBranch, b) /\ S \subseteq ConfirmedPlans
    BY <1>1 DEF Group
  <2>2. IsFiniteSet(S)
    BY <2>1, <1>2, FS_Subset
  <2>3. \A p \in S : h[p] \in Int /\ h[p] = f[p]
    BY <2>1, <1>4
  <2>4. g[b] = SumOver(h, S)
    BY DEF BranchExpected, Units
  <2> HIDE DEF S, h, f, g
  <2>5. SumOver(h, S) = SumOver(f, S)
    BY <2>2, <2>3, SumSame
  <2> QED  BY <2>1, <2>4, <2>5
<1>8. \A p \in ConfirmedPlans : PlanBranch[p] \in PlannedBranches
  BY <1>1 DEF PlannedBranches
<1> HIDE DEF f, a, g
<1>9. SumOver(f, ConfirmedPlans) = SumOver(a, ConfirmedPlans)
  BY <1>2, <1>5, SumSame
<1>10. SumOver(f, ConfirmedPlans) = SumOver(g, PlannedBranches)
  BY <1>2, <1>3, <1>5, <1>7, <1>8, SumByKey
<1> QED  BY <1>6, <1>9, <1>10 DEF a, g

LEMMA PlanStep ==
  ASSUME PlanInv, [PlanNext]_planVars
  PROVE  /\ PlanInv'
         /\ \A p \in Plans : plans[p].status = "CANCELLED" /\ plans'[p].status # "CANCELLED"
              => p \in replanned'
<1> DEFINE StayCancelled ==
             \A p \in Plans : plans[p].status = "CANCELLED" /\ plans'[p].status # "CANCELLED"
                               => p \in replanned'
           Rows == [status : {"DRAFT", "CONFIRMED", "CANCELLED"},
                    suggested : [PlanDays -> Suggestions],
                          planned : [PlanDays -> Suggestions]]
<1> USE DEF PlanInv
<1>1. ASSUME NEW r \in Planners, UNCHANGED <<plans, announced, replanned>>,
             \A o \in Planners \ {r} : planCalls'[o] = planCalls[o],
             DOMAIN planCalls' = Planners, PlanCallStands(r)'
      PROVE  PlanInv' /\ StayCancelled
  <2>1. ASSUME NEW o \in Planners \ {r} PROVE PlanCallStands(o)'
    <3>1. PlanCallStands(o) /\ planCalls'[o] = planCalls[o] /\ plans' = plans
      BY <1>1
    <3> QED  BY <3>1 DEF PlanCallStands
  <2>2. PlanTypes' /\ ConfirmedAsAnnounced' /\ StayCancelled
    BY <1>1 DEF PlanTypes, ConfirmedAsAnnounced, ConfirmedPlans
  <2> QED  BY <1>1, <2>1, <2>2
<1>2. ASSUME NEW r \in Planners, NEW call, planCalls' = [planCalls EXCEPT ![r] = call]
      PROVE  /\ planCalls'[r] = call /\ DOMAIN planCalls' = Planners
             /\ \A o \in Planners \ {r} : planCalls'[o] = planCalls[o]
  BY <1>2 DEF PlanTypes
<1>3. ASSUME NEW r \in Planners, NEW p \in Plans, NEW row \in Rows,
             plans[p] # NoPlan, plans' = [plans EXCEPT ![p] = row],
             planCalls' = [planCalls EXCEPT ![r] = Aside], DOMAIN announced' = Plans,
             plans[p].status = "CANCELLED" /\ row.status # "CANCELLED" => p \in replanned',
             replanned' = {} => /\ replanned = {}
                                /\ row.status = "CONFIRMED" => announced'[p] = row.planned
                                /\ \A q \in Plans \ {p} : announced'[q] = announced[q]
      PROVE  PlanInv' /\ StayCancelled
  <2>1. plans'[p] = row /\ (\A q \in Plans \ {p} : plans'[q] = plans[q]) /\ DOMAIN plans' = Plans
    BY <1>3 DEF PlanTypes
  <2>2. row # NoPlan
    BY DEF NoPlan
  <2>3. planCalls'[r] = Aside /\ DOMAIN planCalls' = Planners
        /\ \A o \in Planners \ {r} : planCalls'[o] = planCalls[o]
    BY <1>3 DEF PlanTypes
  <2>4. PlanTypes'
    BY <1>3, <2>1, <2>3 DEF PlanTypes
  <2>5. \A q \in Plans : plans[q] # NoPlan => plans'[q] # NoPlan
    BY <2>1, <2>2
  <2>6. ASSUME NEW o \in Planners \ {r} PROVE PlanCallStands(o)'
    <3>1. PlanCallStands(o) /\ planCalls'[o] = planCalls[o]
      BY <2>3
    <3> QED  BY <3>1, <2>5 DEF PlanCallStands
  <2>7. PlanCallStands(r)'
    BY <2>3 DEF PlanCallStands
  <2>8. ConfirmedAsAnnounced'
    BY <1>3, <2>1 DEF ConfirmedAsAnnounced, ConfirmedPlans
  <2>9. StayCancelled
    BY <1>3, <2>1
  <2> QED  BY <2>4, <2>6, <2>7, <2>8, <2>9
<1>4. ASSUME NEW p \in Plans, NEW forecast \in [PlanDays -> Suggestions], CreateDraft(p, forecast)
      PROVE  PlanInv' /\ StayCancelled
  <2> DEFINE row == [status |-> "DRAFT", suggested |-> forecast, planned |-> forecast]
  <2>1. UNCHANGED <<announced, planCalls, replanned>> /\ plans[p] = NoPlan
        /\ plans' = [plans EXCEPT ![p] = row] /\ row \in Rows /\ row.status = "DRAFT"
    BY <1>4 DEF CreateDraft
  <2> HIDE DEF row
  <2>2. plans'[p] = row /\ (\A q \in Plans \ {p} : plans'[q] = plans[q]) /\ DOMAIN plans' = Plans
    BY <2>1 DEF PlanTypes
  <2>3. row # NoPlan /\ NoPlan.status = "NONE"
    BY <2>1 DEF NoPlan
  <2>4. PlanTypes' /\ ConfirmedAsAnnounced'
    BY <2>1, <2>2 DEF PlanTypes, ConfirmedAsAnnounced, ConfirmedPlans
  <2>5. ASSUME NEW o \in Planners PROVE PlanCallStands(o)'
    <3>1. PlanCallStands(o) /\ planCalls'[o] = planCalls[o]
          /\ \A q \in Plans : plans[q] # NoPlan => plans'[q] # NoPlan
      BY <2>1, <2>2, <2>3
    <3> QED  BY <3>1 DEF PlanCallStands
  <2>6. StayCancelled
    BY <2>1, <2>2, <2>3
  <2> QED  BY <2>4, <2>5, <2>6
<1>5. ASSUME NEW r \in Planners, NEW p \in Plans, NEW d \in PlanDays, NEW units \in Suggestions,
             LoadOverride(r, p, d, units)
      PROVE  PlanInv' /\ StayCancelled
  <2> DEFINE call == [op |-> "override", plan |-> p, date |-> d, units |-> units,
                      seen |-> plans[p].status]
  <2>1. UNCHANGED <<plans, announced, replanned>> /\ plans[p].status = "DRAFT"
        /\ planCalls' = [planCalls EXCEPT ![r] = call]
    BY <1>5 DEF LoadOverride, Opens, EditablePlan
  <2>2. planCalls'[r] = call /\ DOMAIN planCalls' = Planners
        /\ \A o \in Planners \ {r} : planCalls'[o] = planCalls[o]
    BY <2>1 DEF PlanTypes
  <2>3. plans[p] # NoPlan
    BY <2>1 DEF NoPlan
  <2>4. PlanCallStands(r)'
    BY <2>1, <2>2, <2>3 DEF PlanCallStands
  <2> QED  BY <1>1, <2>1, <2>2, <2>4
<1>6. ASSUME NEW r \in Planners, NEW p \in Plans, LoadConfirm(r, p) PROVE PlanInv' /\ StayCancelled
  <2> DEFINE call == [op |-> "confirm", plan |-> p, lines |-> plans[p].planned,
                      seen |-> plans[p].status]
  <2>1. UNCHANGED <<plans, announced, replanned>> /\ plans[p].status = "DRAFT"
        /\ planCalls' = [planCalls EXCEPT ![r] = call]
    BY <1>6 DEF LoadConfirm, Opens, Confirmable
  <2>2. planCalls'[r] = call /\ DOMAIN planCalls' = Planners
        /\ \A o \in Planners \ {r} : planCalls'[o] = planCalls[o]
    BY <2>1 DEF PlanTypes
  <2>3. plans[p] # NoPlan
    BY <2>1 DEF NoPlan
  <2>4. PlanCallStands(r)'
    BY <2>1, <2>2, <2>3 DEF PlanCallStands
  <2> QED  BY <1>1, <2>1, <2>2, <2>4
<1>7. ASSUME NEW r \in Planners, NEW p \in Plans, LoadCancel(r, p) PROVE PlanInv' /\ StayCancelled
  <2> DEFINE call == [op |-> "cancel", plan |-> p, seen |-> plans[p].status]
  <2>1. UNCHANGED <<plans, announced, replanned>> /\ plans[p].status \in {"DRAFT", "CONFIRMED"}
        /\ planCalls' = [planCalls EXCEPT ![r] = call]
    BY <1>7 DEF LoadCancel, Opens
  <2>2. planCalls'[r] = call /\ DOMAIN planCalls' = Planners
        /\ \A o \in Planners \ {r} : planCalls'[o] = planCalls[o]
    BY <2>1 DEF PlanTypes
  <2>3. plans[p] # NoPlan
    BY <2>1 DEF NoPlan
  <2>4. PlanCallStands(r)'
    BY <2>1, <2>2, <2>3 DEF PlanCallStands
  <2> QED  BY <1>1, <2>1, <2>2, <2>4
<1>8. ASSUME NEW r \in Planners, LeavePlan(r) PROVE PlanInv' /\ StayCancelled
  <2>1. UNCHANGED <<plans, announced, replanned>> /\ planCalls' = [planCalls EXCEPT ![r] = Aside]
    BY <1>8 DEF LeavePlan, Closes
  <2>2. planCalls'[r] = Aside /\ DOMAIN planCalls' = Planners
        /\ \A o \in Planners \ {r} : planCalls'[o] = planCalls[o]
    BY <2>1 DEF PlanTypes
  <2> QED  BY <1>1, <2>1, <2>2 DEF PlanCallStands
<1>9. ASSUME NEW r \in Planners, CommitOverride(r) PROVE PlanInv' /\ StayCancelled
  <2> DEFINE c == planCalls[r]
             row == [plans[c.plan] EXCEPT !.planned[c.date] = c.units]
  <2>1. UNCHANGED announced /\ c.op = "override"
        /\ plans' = [plans EXCEPT ![c.plan].planned[c.date] = c.units]
        /\ planCalls' = [planCalls EXCEPT ![r] = Aside]
        /\ replanned' = IF plans[c.plan].status # c.seen THEN replanned \cup {c.plan} ELSE replanned
    BY <1>9 DEF CommitOverride, NoteRace, Closes
  <2>2. c.plan \in Plans /\ plans[c.plan] # NoPlan /\ c.seen = "DRAFT" /\ c.date \in PlanDays
        /\ c.units \in Suggestions
    BY <2>1 DEF PlanCallStands, Aside
  <2>3. plans[c.plan] \in Rows
    BY <2>2 DEF PlanTypes
  <2>4. row \in Rows /\ row.status = plans[c.plan].status
    BY <2>2, <2>3
  <2>5. plans' = [plans EXCEPT ![c.plan] = row]
    BY <2>1, <2>2 DEF PlanTypes
  <2>6. replanned' = {} => replanned = {} /\ row.status = "DRAFT"
    BY <2>1, <2>2, <2>4
  <2>7. /\ DOMAIN announced' = Plans
        /\ row.status = "CANCELLED" => plans[c.plan].status = "CANCELLED"
        /\ (plans[c.plan].status = "CANCELLED" => row.status = "CANCELLED")
    BY <2>1, <2>4 DEF PlanTypes
  <2> HIDE DEF row, c
  <2> QED  BY <1>3, <2>1, <2>2, <2>4, <2>5, <2>6, <2>7
<1>10. ASSUME NEW r \in Planners, CommitConfirm(r) PROVE PlanInv' /\ StayCancelled
  <2> DEFINE c == planCalls[r]
             row == [plans[c.plan] EXCEPT !.status = "CONFIRMED"]
  <2>1. c.op = "confirm" /\ plans' = [plans EXCEPT ![c.plan].status = "CONFIRMED"]
        /\ announced' = [announced EXCEPT ![c.plan] = c.lines]
        /\ planCalls' = [planCalls EXCEPT ![r] = Aside]
        /\ replanned' = IF plans[c.plan].status # c.seen \/ plans[c.plan].planned # c.lines
                        THEN replanned \cup {c.plan} ELSE replanned
    BY <1>10 DEF CommitConfirm, Closes
  <2>2. c.plan \in Plans /\ plans[c.plan] # NoPlan /\ c.seen = "DRAFT"
    BY <2>1 DEF PlanCallStands, Aside
  <2>3. plans[c.plan] \in Rows
    BY <2>2 DEF PlanTypes
  <2>4. row \in Rows /\ row.status = "CONFIRMED" /\ row.planned = plans[c.plan].planned
    BY <2>2, <2>3
  <2>5. plans' = [plans EXCEPT ![c.plan] = row]
    BY <2>1, <2>2 DEF PlanTypes
  <2>6. DOMAIN announced' = Plans /\ announced'[c.plan] = c.lines
        /\ \A q \in Plans \ {c.plan} : announced'[q] = announced[q]
    BY <2>1, <2>2 DEF PlanTypes
  <2>7. /\ replanned' = {} => replanned = {} /\ c.lines = row.planned
        /\ plans[c.plan].status = "CANCELLED" => c.plan \in replanned'
    BY <2>1, <2>2, <2>4
  <2>8. planCalls' = [planCalls EXCEPT ![r] = Aside]
    BY <2>1
  <2> HIDE DEF row, c
  <2>9. replanned' = {} => /\ replanned = {}
                           /\ announced'[c.plan] = row.planned
                           /\ \A q \in Plans \ {c.plan} : announced'[q] = announced[q]
    BY <2>6, <2>7
  <2> QED  BY <1>3, <2>2, <2>4, <2>5, <2>6, <2>7, <2>8, <2>9
<1>11. ASSUME NEW r \in Planners, CommitCancel(r) PROVE PlanInv' /\ StayCancelled
  <2> DEFINE c == planCalls[r]
             row == [plans[c.plan] EXCEPT !.status = "CANCELLED"]
  <2>1. UNCHANGED announced /\ c.op = "cancel"
        /\ plans' = [plans EXCEPT ![c.plan].status = "CANCELLED"]
        /\ planCalls' = [planCalls EXCEPT ![r] = Aside]
        /\ replanned' = IF plans[c.plan].status # c.seen THEN replanned \cup {c.plan} ELSE replanned
    BY <1>11 DEF CommitCancel, NoteRace, Closes
  <2>2. c.plan \in Plans /\ plans[c.plan] # NoPlan
    BY <2>1 DEF PlanCallStands, Aside
  <2>3. plans[c.plan] \in Rows
    BY <2>2 DEF PlanTypes
  <2>4. row \in Rows /\ row.status = "CANCELLED"
    BY <2>2, <2>3
  <2>5. plans' = [plans EXCEPT ![c.plan] = row]
    BY <2>1, <2>2 DEF PlanTypes
  <2>6. (replanned' = {} => replanned = {}) /\ DOMAIN announced' = Plans
    BY <2>1 DEF PlanTypes
  <2> HIDE DEF row, c
  <2> QED  BY <1>3, <2>1, <2>2, <2>4, <2>5, <2>6
<1>12. CASE UNCHANGED planVars
  BY <1>12 DEF planVars, PlanTypes, PlanCallStands, ConfirmedAsAnnounced, ConfirmedPlans
<1> QED
  BY <1>4, <1>5, <1>6, <1>7, <1>8, <1>9, <1>10, <1>11, <1>12 DEF PlanNext

(***************************************************************************)
(* A plan stands as it was announced until it is withdrawn, and then stays *)
(* withdrawn: for any plans, branches and days, what kitchens and branches *)
(* read is what they were told, and the chain's target is the sum of what  *)
(* the branches expect.                                                    *)
(***************************************************************************)
THEOREM PlansAlwaysStand == PlanSpec => PlansStand
<1>1. PlanInit => PlanInv
  BY DEF PlanInit, PlanInv, PlanTypes, PlanCallStands, ConfirmedAsAnnounced, ConfirmedPlans, NoPlan
<1>2. PlanInv /\ [PlanNext]_planVars => PlanInv'
  BY PlanStep
<1>3. PlanInv /\ [PlanNext]_planVars =>
        [\A p \in Plans : plans[p].status = "CANCELLED" /\ plans'[p].status # "CANCELLED"
           => p \in replanned']_planVars
  BY PlanStep
<1>4. PlanInv => TargetsAreAsAnnounced
  BY TargetsAddUp
<1> QED
  BY <1>1, <1>2, <1>3, <1>4, PTL DEF PlanSpec, PlansStand, WithdrawnStaysWithdrawn

(***************************************************************************)
(*                            Demand                                       *)
(***************************************************************************)
\* The rows of a day of a branch.
RowsOf(R, shop, d) == {row \in R : row.shop = shop /\ row.day = d}

\* What DayIsRight says, of any rows.
RightIn(R, shop, d) ==
  \A p \in Products \ {"none"} :
    LET rows == {row \in R : Key(row) = <<shop, d, p>>}
        units == SumOver(SaleUnits, SoldOn(shop, d, p))
        unmet == SumOver(RefusalUnits, TurnedAwayOn(shop, d, p)) IN
    IF units + unmet = 0 THEN rows = {}
    ELSE rows = {[shop |-> shop, day |-> d, product |-> p, units |-> units, unmet |-> unmet]}

Rebuilders == {"night", "button"}
Covers(w, shop, d) ==
  rebuilds[w] # Idle /\ rebuilds[w].shop = shop /\ d \in rebuilds[w].days

CallTyped(w) ==
  rebuilds[w] # Idle =>
    /\ rebuilds[w].op \in {"read", "deleted"}
    /\ \A row \in rebuilds[w].rows : row.shop = rebuilds[w].shop /\ row.day \in rebuilds[w].days
    /\ rebuilds[w].op = "deleted" =>
         \A row \in rebuilds[w].gone :
           row.shop = rebuilds[w].shop /\ row.day \in rebuilds[w].days

\* A day nothing changed is right, or is about to be: the one rebuild that is at
\* it has the right rows, and once it deleted there are no others.
DayStands(shop, d) ==
  /\ \A w, v \in Rebuilders : Covers(w, shop, d) /\ Covers(v, shop, d) => w = v
  /\ (\A w \in Rebuilders : ~Covers(w, shop, d)) => RightIn(dailySales, shop, d)
  /\ \A w \in Rebuilders : Covers(w, shop, d) =>
       /\ RightIn(rebuilds[w].rows, shop, d)
       /\ rebuilds[w].op = "deleted" => RowsOf(dailySales, shop, d) \subseteq rebuilds[w].gone

DemandInv ==
  /\ hour \in Nat /\ DOMAIN sales = Sales /\ refused \in SUBSET Refusals
  /\ DOMAIN rebuilds = Rebuilders /\ \A w \in Rebuilders : CallTyped(w)
  /\ \A pair \in upToDate : pair = <<pair[1], pair[2]>> /\ pair[2] \in Int
  /\ \A shop : \A d \in Int : <<shop, d>> \in upToDate \ rebuildsMet => DayStands(shop, d)

\* An hour's business day is the one whose 24 hours it lies in.
LEMMA HoursOfADay ==
  ASSUME NEW h \in Nat, NEW d \in Int
  PROVE  BusinessDay(h) = d <=> h + Offset \in (24 * d + Cutoff)..(24 * d + Cutoff + 23)
<1>1. PICK n : n = h + Offset - Cutoff
  OBVIOUS
<1>2. n \in Int /\ Offset \in Int /\ Cutoff \in Int
  BY <1>1, DemandAssumption
<1>3. n \div 24 = d <=> 24 * d <= n /\ n <= 24 * d + 23
  BY <1>2
<1> QED  BY <1>1, <1>2, <1>3 DEF BusinessDay

\* The rows a rebuild reads are right for the days it reads.
LEMMA ReadsWhatIsRight ==
  ASSUME refused \in SUBSET Refusals, NEW shop, NEW days, NEW d \in days, d \in Int
  PROVE  RightIn(RowsToWrite(shop, days), shop, d)
<1> SUFFICES ASSUME NEW p \in Products \ {"none"}
             PROVE  LET rows == {row \in RowsToWrite(shop, days) : Key(row) = <<shop, d, p>>}
                        units == SumOver(SaleUnits, SoldOn(shop, d, p))
                        unmet == SumOver(RefusalUnits, TurnedAwayOn(shop, d, p)) IN
                    IF units + unmet = 0 THEN rows = {}
                    ELSE rows = {[shop |-> shop, day |-> d, product |-> p, units |-> units,
                                  unmet |-> unmet]}
  BY DEF RightIn
<1>1. PICK sold, turned : sold = SoldOn(shop, d, p) /\ turned = TurnedAwayOn(shop, d, p)
  OBVIOUS
<1>2. \A s \in Sales : BusinessDay(SaleOf[s].hour) = d <=>
         SaleOf[s].hour + Offset \in (24 * d + Cutoff)..(24 * d + Cutoff + 23)
  BY HoursOfADay, DemandAssumption
<1>3. \A r \in Refusals : BusinessDay(RefusalOf[r].hour) = d <=>
         RefusalOf[r].hour + Offset \in (24 * d + Cutoff)..(24 * d + Cutoff + 23)
  BY HoursOfADay, DemandAssumption
<1>4. sold = {s \in Sales : RealSale(s) /\ SaleOf[s].shop = shop
                            /\ SaleOf[s].product = p /\ BusinessDay(SaleOf[s].hour) = d}
  BY <1>1, <1>2 DEF SoldOn, RealSale
<1>5. turned = {r \in refused : RefusalOf[r].reason \in DemandReasons /\ RefusalOf[r].shop = shop
                                /\ RefusalOf[r].product = p /\ BusinessDay(RefusalOf[r].hour) = d}
  <2>1. \A r \in Refusals : RefusalOf[r].reason \in DemandReasons
                            <=> RefusalOf[r].reason # "STAFF_PULLED"
    BY DemandAssumption DEF DemandReasons
  <2> QED  BY <1>1, <1>3, <2>1 DEF TurnedAwayOn
<1>6. PICK units, unmet : units = SumOver(SaleUnits, sold) /\ unmet = SumOver(RefusalUnits, turned)
  OBVIOUS
<1>7. units = UnitsOf(shop, d, p) /\ unmet = UnmetOf(shop, d, p)
  BY <1>4, <1>5, <1>6 DEF UnitsOf, UnmetOf
<1>8. units \in Nat
  <2>1. sold \in SUBSET Sales /\ IsFiniteSet(Sales)
    BY <1>4, DemandAssumption
  <2>2. IsFiniteSet(sold)
    BY <2>1, FS_Subset
  <2>3. \A s \in sold : SaleUnits[s] \in Nat
    BY <2>1, DemandAssumption DEF SaleUnits
  <2> QED  BY <1>6, <2>2, <2>3, SumNotNegative
<1>9. unmet \in Nat
  <2>1. turned \in SUBSET Refusals /\ IsFiniteSet(Refusals)
    BY <1>5, DemandAssumption
  <2>2. IsFiniteSet(turned)
    BY <2>1, FS_Subset
  <2>3. \A r \in turned : RefusalUnits[r] \in Nat
    BY <2>1, DemandAssumption DEF RefusalUnits
  <2> QED  BY <1>6, <2>2, <2>3, SumNotNegative
<1>10. PICK the : the = [shop |-> shop, day |-> d, product |-> p, units |-> units, unmet |-> unmet]
  OBVIOUS
<1>11. the.units = units /\ the.unmet = unmet /\ Key(the) = <<shop, d, p>>
  BY <1>10 DEF Key
<1>12. \A row \in RowsToWrite(shop, days) : Key(row) = <<shop, d, p>> => row = the
  BY <1>7, <1>10 DEF RowsToWrite, Key
<1>13. the \in RowsToWrite(shop, days) <=> units + unmet > 0
  <2>1. the \in {[shop |-> shop, day |-> e, product |-> q,
                  units |-> UnitsOf(shop, e, q), unmet |-> UnmetOf(shop, e, q)] :
                   e \in days, q \in Products \ {"none"}}
    BY <1>7, <1>10
  <2> QED  BY <1>11, <2>1 DEF RowsToWrite
<1> QED  BY <1>1, <1>6, <1>8, <1>9, <1>10, <1>11, <1>12, <1>13

\* Whether rows are right depends on those of the day only.
LEMMA RightByItsRows ==
  ASSUME NEW R, NEW Q, NEW shop, NEW d, RowsOf(R, shop, d) = RowsOf(Q, shop, d)
  PROVE  RightIn(R, shop, d) <=> RightIn(Q, shop, d)
<1>1. \A p : {row \in R : Key(row) = <<shop, d, p>>} = {row \in Q : Key(row) = <<shop, d, p>>}
  BY DEF RowsOf, Key
<1> QED  BY <1>1 DEF RightIn

\* ... and on what was sold and turned away on it.
LEMMA DayOutlives ==
  ASSUME NEW shop, NEW d, DayStands(shop, d), UNCHANGED <<dailySales, rebuilds>>,
         \A p : /\ SoldOn(shop, d, p)' = SoldOn(shop, d, p)
                /\ TurnedAwayOn(shop, d, p)' = TurnedAwayOn(shop, d, p)
  PROVE  DayStands(shop, d)'
<1>1. RightIn(dailySales, shop, d) => RightIn(dailySales, shop, d)'
  BY DEF RightIn
<1>2. \A w \in Rebuilders :
        RightIn(rebuilds[w].rows, shop, d) => RightIn(rebuilds[w].rows, shop, d)'
  BY DEF RightIn
<1>3. \A w \in Rebuilders : Covers(w, shop, d)' <=> Covers(w, shop, d)
  BY DEF Covers
<1>4. RowsOf(dailySales, shop, d)' = RowsOf(dailySales, shop, d)
  BY DEF RowsOf
<1> QED  BY <1>1, <1>2, <1>3, <1>4 DEF DayStands

LEMMA DemandBegins == DemandInit => DemandInv
<1> SUFFICES ASSUME DemandInit PROVE DemandInv
  OBVIOUS
<1>1. hour \in Nat /\ DOMAIN sales = Sales /\ refused \in SUBSET Refusals
  BY DemandAssumption DEF DemandInit
<1>2. DOMAIN rebuilds = Rebuilders /\ upToDate = {} /\ \A w \in Rebuilders : rebuilds[w] = Idle
  BY DEF DemandInit, Rebuilders
<1> QED  BY <1>1, <1>2 DEF DemandInv, CallTyped

\* The tills: a sale, its void or refund, a refusal; and the clock.
LEMMA TillsSync ==
  ASSUME DemandInv,
         \/ \E s \in Sales : SyncSale(s) \/ \E how \in {"VOIDED", "REFUNDED"} : TakeBack(s, how)
         \/ \E r \in Refusals : SyncRefusal(r)
         \/ Tick \/ StartNight \/ NightFails
         \/ UNCHANGED demandVars
  PROVE  DemandInv'
<1>1. /\ UNCHANGED <<dailySales, rebuilds, rebuildsMet>> /\ upToDate' \subseteq upToDate
      /\ refused' \in SUBSET Refusals /\ hour' \in Nat /\ DOMAIN sales' = Sales
  BY DemandAssumption DEF DemandInv, SyncSale, TakeBack, SyncRefusal, Tick, StartNight, NightFails,
     Changes, demandVars
<1>2. \A w \in Rebuilders : CallTyped(w)'
  BY <1>1 DEF DemandInv, CallTyped
<1>3. ASSUME NEW shop, NEW d \in Int, <<shop, d>> \in upToDate' \ rebuildsMet'
      PROVE  DayStands(shop, d)'
  <2>1. DayStands(shop, d)
    BY <1>1, <1>3 DEF DemandInv
  <2>2. \A s \in Sales : SaleOf[s].shop = shop
           /\ SaleOf[s].hour + Offset \in (24 * d + Cutoff)..(24 * d + Cutoff + 23)
           => Pair(SaleOf[s]) = <<shop, d>>
    BY HoursOfADay, DemandAssumption DEF Pair
  <2>3. \A r \in Refusals : RefusalOf[r].shop = shop
           /\ RefusalOf[r].hour + Offset \in (24 * d + Cutoff)..(24 * d + Cutoff + 23)
           => Pair(RefusalOf[r]) = <<shop, d>>
    BY HoursOfADay, DemandAssumption DEF Pair
  <2>4. \/ sales' = sales
        \/ \E s \in Sales : /\ <<shop, d>> # Pair(SaleOf[s])
                            /\ \A t \in Sales \ {s} : sales'[t] = sales[t]
    BY <1>3 DEF SyncSale, TakeBack, SyncRefusal, Tick, StartNight, NightFails, Changes, demandVars,
       DemandInv
  <2>5. ASSUME NEW p PROVE SoldOn(shop, d, p)' = SoldOn(shop, d, p)
    <3>1. CASE sales' = sales
      BY <3>1 DEF SoldOn
    <3>2. ASSUME NEW s \in Sales, <<shop, d>> # Pair(SaleOf[s]),
                 \A t \in Sales \ {s} : sales'[t] = sales[t]
          PROVE  SoldOn(shop, d, p)' = SoldOn(shop, d, p)
      BY <2>2, <3>2 DEF SoldOn
    <3> QED  BY <2>4, <3>1, <3>2
  <2>6. \/ refused' = refused
        \/ \E r \in Refusals : refused' = refused \cup {r} /\ <<shop, d>> # Pair(RefusalOf[r])
    BY <1>3 DEF SyncSale, TakeBack, SyncRefusal, Tick, StartNight, NightFails, Changes, demandVars
  <2>7. \A p : TurnedAwayOn(shop, d, p)' = TurnedAwayOn(shop, d, p)
    BY <2>3, <2>6 DEF TurnedAwayOn
  <2> QED  BY <1>1, <2>1, <2>5, <2>7, DayOutlives
<1> QED  BY <1>1, <1>2, <1>3 DEF DemandInv

\* A rebuild begins: its days are on record as it read them, unless another
\* rebuild is at them.
LEMMA RebuildBegins ==
  ASSUME DemandInv, NEW w \in Rebuilders, NEW shop, Read(w, shop),
         UNCHANGED <<hour, sales, refused, dailySales>>
  PROVE  DemandInv'
<1>1. PICK days : days = Window(hour)
  OBVIOUS
<1>2. PICK call : call = [op |-> "read", shop |-> shop, days |-> days,
                          rows |-> RowsToWrite(shop, days)]
  OBVIOUS
<1>3. /\ rebuilds[w] = Idle /\ rebuilds' = [rebuilds EXCEPT ![w] = call]
      /\ upToDate' = upToDate \cup {<<shop, d>> : d \in days}
      /\ rebuildsMet' = rebuildsMet \cup
           {<<shop, d>> : d \in {e \in days : \E v \in DOMAIN rebuilds : Covers(v, shop, e)}}
  BY <1>1, <1>2 DEF Read, Covers
<1>4. /\ call.op = "read" /\ call.shop = shop /\ call.days = days
      /\ call.rows = RowsToWrite(shop, days) /\ call # Idle
  BY <1>2 DEF Idle
<1>5. /\ DOMAIN rebuilds = Rebuilders /\ DOMAIN rebuilds' = Rebuilders /\ rebuilds'[w] = call
      /\ \A v \in Rebuilders \ {w} : rebuilds'[v] = rebuilds[v]
  BY <1>3 DEF DemandInv
<1>6. \A d \in days : d \in Int
  BY <1>1, DemandAssumption DEF Window, BusinessDay, DemandInv
<1>7. \A row \in call.rows : row.shop = shop /\ row.day \in days
  BY <1>4 DEF RowsToWrite
<1>8. \A v \in Rebuilders : CallTyped(v)'
  BY <1>4, <1>5, <1>7 DEF DemandInv, CallTyped
<1>9. \A pair \in upToDate' : pair = <<pair[1], pair[2]>> /\ pair[2] \in Int
  BY <1>3, <1>6 DEF DemandInv
<1>10. ASSUME NEW at, NEW d \in Int, <<at, d>> \in upToDate' \ rebuildsMet'
       PROVE  DayStands(at, d)'
  <2>1. \A v \in Rebuilders \ {w} : Covers(v, at, d)' <=> Covers(v, at, d)
    BY <1>5 DEF Covers
  <2>2. /\ Covers(w, at, d)' <=> at = shop /\ d \in days
        /\ ~Covers(w, at, d)
    BY <1>3, <1>4, <1>5 DEF Covers
  <2>3. \A p : /\ SoldOn(at, d, p)' = SoldOn(at, d, p)
               /\ TurnedAwayOn(at, d, p)' = TurnedAwayOn(at, d, p)
    BY DEF SoldOn, TurnedAwayOn
  <2>4. CASE at = shop /\ d \in days
    <3>1. \A v \in Rebuilders : ~Covers(v, at, d)
      BY <1>3, <1>5, <1>10, <2>4
    <3>2. RightIn(call.rows, at, d)
      BY <1>4, <2>4, ReadsWhatIsRight DEF DemandInv
    <3>3. RightIn(rebuilds[w].rows, at, d)'
      BY <1>5, <2>3, <3>2 DEF RightIn
    <3>4. \A v \in Rebuilders : Covers(v, at, d)' => v = w
      BY <2>1, <3>1
    <3>5. rebuilds'[w].op # "deleted"
      BY <1>4, <1>5
    <3> QED  BY <2>2, <2>4, <3>3, <3>4, <3>5 DEF DayStands
  <2>5. CASE ~(at = shop /\ d \in days)
    <3>1. <<at, d>> \in upToDate \ rebuildsMet
      BY <1>3, <1>10, <2>5
    <3>2. DayStands(at, d)
      BY <3>1 DEF DemandInv
    <3>3. \A v \in Rebuilders : Covers(v, at, d)' <=> Covers(v, at, d)
      BY <2>1, <2>2, <2>5
    <3>4. RightIn(dailySales, at, d) => RightIn(dailySales, at, d)'
      BY <2>3 DEF RightIn
    <3>5. \A v \in Rebuilders \ {w} :
            RightIn(rebuilds[v].rows, at, d) => RightIn(rebuilds[v].rows, at, d)'
      BY <1>5, <2>3 DEF RightIn
    <3>6. RowsOf(dailySales, at, d)' = RowsOf(dailySales, at, d)
      BY DEF RowsOf
    <3>7. \A v \in Rebuilders : Covers(v, at, d) => v # w
      BY <2>2
    <3> QED  BY <1>5, <3>2, <3>3, <3>4, <3>5, <3>6, <3>7 DEF DayStands
  <2> QED  BY <2>4, <2>5
<1> QED  BY <1>5, <1>8, <1>9, <1>10 DEF DemandInv

LEMMA RebuildDeletes ==
  ASSUME DemandInv, NEW w \in Rebuilders, Delete(w)
  PROVE  DemandInv'
<1>1. PICK c, gone : /\ c = rebuilds[w]
                     /\ gone = {row \in dailySales : row.shop = c.shop /\ row.day \in c.days}
  OBVIOUS
<1>2. PICK call : call = [op |-> "deleted", shop |-> c.shop, days |-> c.days, rows |-> c.rows,
                          gone |-> gone]
  OBVIOUS
<1>3. /\ c.op = "read" /\ rebuilds' = [rebuilds EXCEPT ![w] = call]
      /\ UNCHANGED <<hour, sales, refused, dailySales, upToDate, rebuildsMet>>
  BY <1>1, <1>2 DEF Delete
<1>4. /\ call.op = "deleted" /\ call.shop = c.shop /\ call.days = c.days /\ call.rows = c.rows
      /\ call.gone = gone /\ call # Idle /\ c # Idle
  BY <1>2, <1>3 DEF Idle
<1>5. /\ DOMAIN rebuilds = Rebuilders /\ DOMAIN rebuilds' = Rebuilders /\ rebuilds'[w] = call
      /\ \A v \in Rebuilders \ {w} : rebuilds'[v] = rebuilds[v]
  BY <1>3 DEF DemandInv
<1>6. \A v \in Rebuilders : CallTyped(v)'
  BY <1>1, <1>4, <1>5 DEF DemandInv, CallTyped
<1>7. ASSUME NEW at, NEW d \in Int, <<at, d>> \in upToDate' \ rebuildsMet'
      PROVE  DayStands(at, d)'
  <2>1. DayStands(at, d)
    BY <1>3, <1>7 DEF DemandInv
  <2>2. \A v \in Rebuilders : Covers(v, at, d)' <=> Covers(v, at, d)
    BY <1>1, <1>4, <1>5 DEF Covers
  <2>3. \A p : /\ SoldOn(at, d, p)' = SoldOn(at, d, p)
               /\ TurnedAwayOn(at, d, p)' = TurnedAwayOn(at, d, p)
    BY <1>3 DEF SoldOn, TurnedAwayOn
  <2>4. RightIn(dailySales, at, d) => RightIn(dailySales, at, d)'
    BY <1>3, <2>3 DEF RightIn
  <2>5. \A v \in Rebuilders :
          /\ rebuilds'[v].rows = rebuilds[v].rows
          /\ RightIn(rebuilds[v].rows, at, d) => RightIn(rebuilds[v].rows, at, d)'
    <3>1. \A v \in Rebuilders : rebuilds'[v].rows = rebuilds[v].rows
      BY <1>1, <1>4, <1>5
    <3> QED  BY <2>3, <3>1 DEF RightIn
  <2>6. Covers(w, at, d) => RowsOf(dailySales, at, d) \subseteq gone
    BY <1>1 DEF Covers, RowsOf
  <2>7. RowsOf(dailySales, at, d)' = RowsOf(dailySales, at, d)
    BY <1>3 DEF RowsOf
  <2>8. \A v \in Rebuilders : Covers(v, at, d) /\ rebuilds'[v].op = "deleted" =>
          RowsOf(dailySales, at, d)' \subseteq rebuilds'[v].gone
    BY <1>4, <1>5, <2>1, <2>6, <2>7 DEF DayStands
  <2> QED  BY <2>1, <2>2, <2>4, <2>5, <2>8 DEF DayStands
<1> QED  BY <1>3, <1>5, <1>6, <1>7 DEF DemandInv

\* A rebuild writes its rows in the place of those it deleted, or none.
LEMMA RebuildInserts ==
  ASSUME DemandInv, NEW w \in Rebuilders, Insert(w)
  PROVE  DemandInv'
<1>1. PICK c, kept : c = rebuilds[w] /\ kept = dailySales \ c.gone
  OBVIOUS
<1>2. /\ c.op = "deleted" /\ rebuilds' = [rebuilds EXCEPT ![w] = Idle]
      /\ \/ dailySales' = dailySales /\ upToDate' = upToDate \ ({c.shop} \X c.days)
         \/ dailySales' = kept \cup c.rows /\ upToDate' = upToDate
      /\ UNCHANGED <<hour, sales, refused, rebuildsMet>>
  BY <1>1 DEF Insert
<1>3. /\ c # Idle
      /\ \A row \in c.rows : row.shop = c.shop /\ row.day \in c.days
      /\ \A row \in c.gone : row.shop = c.shop /\ row.day \in c.days
  BY <1>1, <1>2 DEF DemandInv, CallTyped, Idle
<1>4. /\ DOMAIN rebuilds = Rebuilders /\ DOMAIN rebuilds' = Rebuilders /\ rebuilds'[w] = Idle
      /\ \A v \in Rebuilders \ {w} : rebuilds'[v] = rebuilds[v]
  BY <1>2 DEF DemandInv
<1>5. \A v \in Rebuilders : CallTyped(v)'
  BY <1>4 DEF DemandInv, CallTyped
<1>6. ASSUME NEW at, NEW d \in Int, <<at, d>> \in upToDate' \ rebuildsMet'
      PROVE  DayStands(at, d)'
  <2>1. DayStands(at, d)
    BY <1>2, <1>6 DEF DemandInv
  <2>2. /\ \A v \in Rebuilders \ {w} : Covers(v, at, d)' <=> Covers(v, at, d)
        /\ ~Covers(w, at, d)'
    BY <1>4 DEF Covers
  <2>3. \A p : /\ SoldOn(at, d, p)' = SoldOn(at, d, p)
               /\ TurnedAwayOn(at, d, p)' = TurnedAwayOn(at, d, p)
    BY <1>2 DEF SoldOn, TurnedAwayOn
  <2>4. PICK before, after : before = dailySales /\ after = dailySales'
    OBVIOUS
  <2>5. \A R : RightIn(R, at, d) /\ after = R => RightIn(dailySales, at, d)'
    BY <2>3, <2>4 DEF RightIn
  <2>6. \A v \in Rebuilders \ {w} :
          RightIn(rebuilds[v].rows, at, d) => RightIn(rebuilds[v].rows, at, d)'
    BY <1>4, <2>3 DEF RightIn
  <2>7. CASE Covers(w, at, d)
    <3>1. after = kept \cup c.rows
      <4>1. <<at, d>> \in {c.shop} \X c.days
        BY <1>1, <2>7 DEF Covers
      <4> QED  BY <1>2, <1>6, <2>4, <4>1
    <3>2. RightIn(c.rows, at, d) /\ RowsOf(dailySales, at, d) \subseteq c.gone
      BY <1>1, <1>2, <2>1, <2>7 DEF DayStands
    <3>3. RowsOf(after, at, d) = RowsOf(c.rows, at, d)
      BY <1>1, <3>1, <3>2 DEF RowsOf
    <3>4. RightIn(after, at, d)
      BY <3>2, <3>3, RightByItsRows
    <3>5. RightIn(dailySales, at, d)'
      BY <2>5, <3>4
    <3>6. \A v \in Rebuilders : ~Covers(v, at, d)'
      BY <2>1, <2>2, <2>7 DEF DayStands
    <3> QED  BY <3>5, <3>6 DEF DayStands
  <2>8. CASE ~Covers(w, at, d)
    <3>1. \A row : row.shop = at /\ row.day = d => row \notin c.rows /\ row \notin c.gone
      BY <1>1, <1>3, <2>8 DEF Covers
    <3>2. RowsOf(after, at, d) = RowsOf(before, at, d)
      BY <1>1, <1>2, <2>4, <3>1 DEF RowsOf
    <3>3. RightIn(before, at, d) => RightIn(dailySales, at, d)'
      BY <2>5, <3>2, RightByItsRows
    <3>4. RowsOf(dailySales, at, d)' = RowsOf(dailySales, at, d)
      BY <2>4, <3>2 DEF RowsOf
    <3>5. \A v \in Rebuilders : Covers(v, at, d)' <=> Covers(v, at, d)
      BY <2>2, <2>8
    <3>6. \A v \in Rebuilders : Covers(v, at, d) => v # w
      BY <2>8
    <3> QED  BY <1>4, <2>1, <2>4, <2>6, <3>3, <3>4, <3>5, <3>6 DEF DayStands
  <2> QED  BY <2>7, <2>8
<1> QED  BY <1>2, <1>4, <1>5, <1>6 DEF DemandInv

(***************************************************************************)
(* For any branches, sales, refusals and clock (services/demand.py,        *)
(* services/business_day.py): the rows of a day that did not change since  *)
(* the rebuild on record read it are its real sales and its unmet demand,  *)
(* unless a rebuild is under way or two of them met on that day.           *)
(***************************************************************************)
THEOREM UnchangedDaysStayRight == DemandSpec => []UnchangedDaysAreRight
<1>1. DemandInv /\ [DemandNext]_demandVars => DemandInv'
  <2> SUFFICES ASSUME DemandInv, [DemandNext]_demandVars PROVE DemandInv'
    OBVIOUS
  <2>1. CASE NightRead
    BY <2>1, RebuildBegins DEF NightRead, Rebuilders
  <2>2. ASSUME NEW shop \in Shops, PressButton(shop) PROVE DemandInv'
    BY <2>2, RebuildBegins DEF PressButton, Rebuilders
  <2>3. ASSUME NEW w \in Rebuilders, Rebuilding(w) PROVE DemandInv'
    BY <2>3, RebuildDeletes, RebuildInserts DEF Rebuilding
  <2> QED  BY <2>1, <2>2, <2>3, TillsSync DEF DemandNext, Rebuilders
<1>2. DemandInv => UnchangedDaysAreRight
  <2> SUFFICES ASSUME DemandInv, NEW pair \in upToDate \ rebuildsMet,
                      \A w \in DOMAIN rebuilds : rebuilds[w] = Idle \/ rebuilds[w].shop # pair[1]
               PROVE  DayIsRight(pair[1], pair[2])
    BY DEF UnchangedDaysAreRight
  <2>1. PICK shop, d : shop = pair[1] /\ d = pair[2]
    OBVIOUS
  <2>2. pair = <<shop, d>> /\ d \in Int
    BY <2>1 DEF DemandInv
  <2>3. DayStands(shop, d)
    BY <2>2 DEF DemandInv
  <2>4. \A w \in Rebuilders : ~Covers(w, shop, d)
    BY <2>1 DEF Covers, DemandInv
  <2>5. RightIn(dailySales, shop, d)
    BY <2>3, <2>4 DEF DayStands
  <2> QED  BY <2>1, <2>5 DEF RightIn, DayIsRight
<1> QED  BY <1>1, <1>2, DemandBegins, PTL DEF DemandSpec

(***************************************************************************)
(*                            The calendar of events                       *)
(***************************************************************************)
\* A row of the calendar has these columns.
EventRow(row) ==
  /\ row = [there |-> TRUE, source |-> row.source, from |-> row.from, until |-> row.until,
            estimated |-> row.estimated, mult |-> row.mult]
  /\ row.source \in {"LUNAR", "FIXED", "MANUAL"} /\ row.estimated \in BOOLEAN
EventRows(rows) ==
  /\ rows = [e \in Ids |-> rows[e]]
  /\ \A e \in Ids : rows[e] = Unwritten \/ EventRow(rows[e])

\* Where an almanac mentions an event, of the windows in S, and what the last of
\* these makes of the row that was read.
Mentions(almanac, S, e) == {i \in S : almanac[i].key = e}
RowAfter(read, almanac, S, e) ==
  IF Mentions(almanac, S, e) = {} \/ Confirmed(read[e]) THEN read[e]
  ELSE IF read[e].there THEN Refreshed(read[e], almanac[Max(Mentions(almanac, S, e))])
  ELSE NewRow(almanac[Max(Mentions(almanac, S, e))])
RowsAfter(read, almanac, S) == [e \in Ids |-> RowAfter(read, almanac, S, e)]

LEMMA AlmanacsAreFinite ==
  ASSUME NEW almanac \in Almanacs
  PROVE  /\ Len(almanac) \in Nat /\ DOMAIN almanac = 1..Len(almanac)
         /\ IsFiniteSet(1..Len(almanac))
         /\ \A i, j \in 1..Len(almanac) :
              /\ almanac[i].source \in {"LUNAR", "FIXED"} /\ almanac[i].key \in Ids \ OwnEvents
              /\ almanac[i].key = almanac[j].key =>
                   almanac[i].source = almanac[j].source /\ almanac[i].mult = almanac[j].mult
<1>1. almanac \in Seq(Range(almanac))
  BY CalendarAssumption
<1>2. Len(almanac) \in Nat /\ DOMAIN almanac = 1..Len(almanac)
  BY <1>1
<1>3. IsFiniteSet(1..Len(almanac))
  <2>1. 1 \in Int /\ Len(almanac) \in Int
    BY <1>2
  <2> QED  BY <2>1, FS_Interval
<1>4. ASSUME NEW i \in 1..Len(almanac) PROVE almanac[i].key \in Ids
  <2>1. PICK keys : keys = {almanac[j].key : j \in 1..Len(almanac)}
    OBVIOUS
  <2>2. almanac[i].key \in keys
    BY <2>1
  <2>3. keys \in {{a[j].key : j \in 1..Len(a)} : a \in Almanacs}
    BY <2>1, Zenon
  <2> QED  BY <2>2, <2>3, Zenon DEF Ids
<1> QED  BY <1>2, <1>3, <1>4, CalendarAssumption

\* The greatest of a set of windows.
LEMMA LastMention ==
  ASSUME NEW n \in Nat, NEW S \in SUBSET (1..n), S # {}
  PROVE  Max(S) \in S /\ \A i \in S : i <= Max(S)
<1>1. S \in SUBSET Int
  OBVIOUS
<1>2. IsFiniteSet(S)
  <2>1. IsFiniteSet(1..n)
    BY FS_Interval
  <2> QED  BY <2>1, FS_Subset
<1>3. Max(S) \in S /\ \A i \in S : Max(S) >= i
  BY <1>1, <1>2, FiniteSetsHaveEnds
<1>4. PICK top : top = Max(S)
  OBVIOUS
<1>5. top \in Int /\ \A i \in S : i \in Int /\ top >= i
  BY <1>1, <1>3, <1>4
<1> QED  BY <1>3, <1>4, <1>5

\* A refresh, column by column.
LEMMA RefreshedColumns ==
  ASSUME NEW source, NEW from, NEW until, NEW estimated, NEW mult, NEW w
  PROVE  Refreshed([there |-> TRUE, source |-> source, from |-> from, until |-> until,
                    estimated |-> estimated, mult |-> mult], w)
           = [there |-> TRUE, source |-> source, from |-> w.from, until |-> w.until,
              estimated |-> estimated, mult |-> mult]
<1>0. PICK row : row = [there |-> TRUE, source |-> source, from |-> from, until |-> until,
                        estimated |-> estimated, mult |-> mult]
  OBVIOUS
<1>1. PICK new : new = [row EXCEPT !.from = w.from, !.until = w.until]
  OBVIOUS
<1>2. DOMAIN new = {"there", "source", "from", "until", "estimated", "mult"}
      /\ new = [c \in DOMAIN new |-> new[c]]
  BY <1>0, <1>1
<1>3. new = [there |-> new.there, source |-> new.source, from |-> new.from, until |-> new.until,
             estimated |-> new.estimated, mult |-> new.mult]
  BY <1>2
<1>4. /\ new.there = TRUE /\ new.source = source /\ new.from = w.from /\ new.until = w.until
      /\ new.estimated = estimated /\ new.mult = mult
  BY <1>0, <1>1
<1> QED  BY <1>0, <1>1, <1>3, <1>4 DEF Refreshed

\* A generated row is what RowAfter says, one window later too.
LEMMA OneMoreWindow ==
  ASSUME NEW read, EventRows(read), NEW almanac \in Almanacs,
         NEW S \in SUBSET (1..Len(almanac)), S # {}, NEW x, x = Max(S),
         NEW w, w = almanac[x], NEW T, T = S \ {x}
  PROVE  RowsAfter(read, almanac, S) = Entered(RowsAfter(read, almanac, T), w)
<1> DEFINE rows == RowsAfter(read, almanac, T)
           k == w.key
<1>1. /\ x \in S /\ \A i \in S : i <= x
      /\ x \in 1..Len(almanac) /\ k \in Ids /\ w.source \in {"LUNAR", "FIXED"}
  BY LastMention, AlmanacsAreFinite
<1>2. ASSUME NEW e \in Ids, e # k PROVE RowAfter(read, almanac, S, e) = rows[e]
  <2>1. Mentions(almanac, S, e) = Mentions(almanac, T, e)
    BY <1>2 DEF Mentions
  <2> QED  BY <2>1 DEF RowAfter, RowsAfter
<1>3. Max(Mentions(almanac, S, k)) = x /\ Mentions(almanac, S, k) # {}
  <2>1. PICK M : M = Mentions(almanac, S, k)
    OBVIOUS
  <2>2. x \in M /\ M \in SUBSET S /\ M \in SUBSET (1..Len(almanac))
    BY <1>1, <2>1 DEF Mentions
  <2>3. M # {} /\ Len(almanac) \in Nat
    BY <2>2, AlmanacsAreFinite
  <2>4. Max(M) \in M /\ x <= Max(M)
    BY <2>2, <2>3, LastMention
  <2>5. PICK top : top = Max(M)
    OBVIOUS
  <2>6. top \in S /\ x <= top /\ top <= x /\ top \in Int /\ x \in Int
    BY <1>1, <2>2, <2>4, <2>5
  <2>7. top = x
    BY <2>6
  <2> QED  BY <2>1, <2>3, <2>5, <2>7
<1>4. RowAfter(read, almanac, S, k) = IF Confirmed(read[k]) THEN read[k]
                                     ELSE IF read[k].there THEN Refreshed(read[k], w)
                                     ELSE NewRow(w)
  BY <1>3 DEF RowAfter
<1>5. DOMAIN rows = Ids /\ rows = [e \in Ids |-> rows[e]] /\ rows[k] = RowAfter(read, almanac, T, k)
  BY <1>1 DEF RowsAfter
<1>6. \/ rows[k] = read[k] /\ (Mentions(almanac, T, k) = {} \/ Confirmed(read[k]))
      \/ \E v : /\ v.source = w.source /\ v.mult = w.mult /\ ~Confirmed(read[k])
                /\ rows[k] = IF read[k].there THEN Refreshed(read[k], v) ELSE NewRow(v)
  <2>1. CASE Mentions(almanac, T, k) = {} \/ Confirmed(read[k])
    BY <1>5, <2>1 DEF RowAfter
  <2>2. CASE ~(Mentions(almanac, T, k) = {} \/ Confirmed(read[k]))
    <3>1. PICK M : M = Mentions(almanac, T, k)
      OBVIOUS
    <3>2. M # {} /\ M \in SUBSET (1..Len(almanac)) /\ Len(almanac) \in Nat
      BY <2>2, <3>1, AlmanacsAreFinite DEF Mentions
    <3>3. Max(M) \in M
      BY <3>2, LastMention
    <3>4. PICK v : v = almanac[Max(M)]
      OBVIOUS
    <3>5. v.key = k /\ Max(M) \in 1..Len(almanac)
      BY <3>1, <3>2, <3>3, <3>4 DEF Mentions
    <3>6. v.source = w.source /\ v.mult = w.mult
      BY <1>1, <3>4, <3>5, AlmanacsAreFinite
    <3>7. rows[k] = IF read[k].there THEN Refreshed(read[k], v) ELSE NewRow(v)
      BY <1>5, <2>2, <3>1, <3>4 DEF RowAfter
    <3> QED  BY <2>2, <3>6, <3>7
  <2> QED  BY <2>1, <2>2
<1>7. read[k] = Unwritten \/ EventRow(read[k])
  BY <1>1 DEF EventRows
<1> HIDE DEF rows, k
<1>8. PICK row, old : row = RowAfter(read, almanac, S, k) /\ old = read[k]
  OBVIOUS
<1>9. row = IF ~rows[k].there THEN NewRow(w)
            ELSE IF Kept(rows[k]) THEN rows[k] ELSE Refreshed(rows[k], w)
  <2>1. CASE Confirmed(old)
    <3>1. rows[k] = old /\ row = old
      BY <1>4, <1>6, <1>8, <2>1
    <3> QED  BY <2>1, <3>1 DEF Confirmed, Kept
  <2>2. CASE ~Confirmed(old) /\ old = Unwritten
    <3>1. ~old.there /\ row = NewRow(w)
      BY <1>4, <1>8, <2>2 DEF Unwritten
    <3>2. CASE rows[k] = old
      BY <3>1, <3>2
    <3>3. CASE rows[k] # old
      <4>1. PICK v : v.source = w.source /\ v.mult = w.mult /\ rows[k] = NewRow(v)
        BY <1>6, <1>8, <3>1, <3>3
      <4>2. PICK est : est = (w.source = "LUNAR")
        OBVIOUS
      <4>3. NewRow(w) = [there |-> TRUE, source |-> w.source, from |-> w.from, until |-> w.until,
                         estimated |-> est, mult |-> w.mult]
        BY <4>2, Zenon DEF NewRow
      <4>4. NewRow(v) = [there |-> TRUE, source |-> v.source, from |-> v.from, until |-> v.until,
                         estimated |-> est, mult |-> v.mult]
        <5>1. est = (v.source = "LUNAR")
          BY <4>1, <4>2, Zenon
        <5> QED  BY <5>1, Zenon DEF NewRow
      <4>5. /\ rows[k].there = TRUE /\ rows[k].source = w.source /\ rows[k].estimated = est
            /\ rows[k] = [there |-> TRUE, source |-> w.source, from |-> v.from, until |-> v.until,
                          estimated |-> est, mult |-> w.mult]
        BY <4>1, <4>4
      <4>6. rows[k].there /\ ~Kept(rows[k])
        <5>1. CASE w.source = "LUNAR"
          <6>1. est = TRUE
            BY <4>2, <5>1, Zenon
          <6>2. rows[k].estimated = TRUE
            BY <4>5, <6>1
          <6> QED  BY <4>5, <6>2 DEF Kept, Confirmed
        <5>2. CASE w.source # "LUNAR"
          BY <4>5, <5>2 DEF Kept, Confirmed
        <5> QED  BY <5>1, <5>2
      <4>7. Refreshed(rows[k], w) = NewRow(w)
        <5>1. PICK born, new : born = rows[k] /\ new = NewRow(w)
          OBVIOUS
        <5>2. /\ born = [there |-> TRUE, source |-> w.source, from |-> v.from, until |-> v.until,
                         estimated |-> est, mult |-> w.mult]
              /\ new = [there |-> TRUE, source |-> w.source, from |-> w.from, until |-> w.until,
                        estimated |-> est, mult |-> w.mult]
          BY <4>3, <4>5, <5>1
        <5>3. Refreshed(born, w)
                = [there |-> TRUE, source |-> w.source, from |-> w.from, until |-> w.until,
                   estimated |-> est, mult |-> w.mult]
          <6>1. PICK source, mult, from, until :
                  source = w.source /\ mult = w.mult /\ from = v.from /\ until = v.until
            OBVIOUS
          <6>2. born = [there |-> TRUE, source |-> source, from |-> from, until |-> until,
                        estimated |-> est, mult |-> mult]
            BY <5>2, <6>1
          <6>3. Refreshed([there |-> TRUE, source |-> source, from |-> from, until |-> until,
                           estimated |-> est, mult |-> mult], w)
                  = [there |-> TRUE, source |-> source, from |-> w.from, until |-> w.until,
                     estimated |-> est, mult |-> mult]
            BY RefreshedColumns
          <6> QED  BY <6>1, <6>2, <6>3
        <5> QED  BY <5>1, <5>2, <5>3, Zenon
      <4> QED  BY <3>1, <4>6, <4>7, Zenon
    <3> QED  BY <3>2, <3>3
  <2>3. CASE ~Confirmed(old) /\ EventRow(old)
    <3>1. old.there /\ row = Refreshed(old, w)
      <4>1. old.there = TRUE
        BY <2>3 DEF EventRow
      <4> QED  BY <1>4, <1>8, <2>3, <4>1
    <3>2. CASE rows[k] = old
      BY <2>3, <3>1, <3>2 DEF Kept
    <3>3. CASE rows[k] # old
      <4>1. PICK v : rows[k] = Refreshed(old, v)
        BY <1>6, <1>8, <3>1, <3>3
      <4>2. /\ rows[k].there = TRUE /\ rows[k].source = old.source
            /\ rows[k].estimated = old.estimated
        BY <2>3, <4>1 DEF EventRow, Refreshed
      <4>3. ~Kept(rows[k])
        BY <2>3, <3>1, <4>2 DEF Kept, Confirmed
      <4>4. Refreshed(Refreshed(old, v), w) = Refreshed(old, w)
        BY <2>3 DEF EventRow, Refreshed
      <4> QED  BY <3>1, <4>1, <4>2, <4>3, <4>4
    <3> QED  BY <3>2, <3>3
  <2> QED  BY <1>7, <1>8, <2>1, <2>2, <2>3
<1>10. PICK next : next = Entered(rows, w)
  OBVIOUS
<1>11. next = [e \in Ids |-> IF e = k THEN row ELSE rows[e]]
  <2>1. CASE ~rows[k].there
    <3>1. next = [rows EXCEPT ![k] = NewRow(w)]
      <4>1. ~Kept(rows[k])
        BY <2>1 DEF Kept, Confirmed
      <4> QED  BY <1>10, <2>1, <4>1 DEF Entered, k
    <3> QED  BY <1>5, <1>9, <2>1, <3>1
  <2>2. CASE rows[k].there /\ Kept(rows[k])
    <3>1. next = rows
      BY <1>10, <2>2 DEF Entered, k
    <3> QED  BY <1>5, <1>9, <2>2, <3>1
  <2>3. CASE rows[k].there /\ ~Kept(rows[k])
    <3>1. next = [rows EXCEPT ![k] = Refreshed(rows[k], w)]
      BY <1>10, <2>3 DEF Entered, k
    <3> QED  BY <1>5, <1>9, <2>3, <3>1
  <2> QED  BY <2>1, <2>2, <2>3
<1>12. RowsAfter(read, almanac, S) = [e \in Ids |-> IF e = k THEN row ELSE rows[e]]
  BY <1>2, <1>8 DEF RowsAfter
<1> QED  BY <1>10, <1>11, <1>12 DEF rows

\* Window by window, a generation gives each event the dates of its last mention,
\* unless a human confirmed it, and a new one its multiplier.
LEMMA GeneratedRows ==
  ASSUME NEW read, EventRows(read), NEW almanac \in Almanacs
  PROVE  Generated(read, almanac) = RowsAfter(read, almanac, 1..Len(almanac))
<1> DEFINE D == 1..Len(almanac)
           Step(s, S) == IF S = {} THEN read
                         ELSE Entered(s[S \ {Max(S)}], almanac[Max(S)])
           Solves(s) == s = [S \in SUBSET D |-> Step(s, S)]
           closed == [S \in SUBSET D |-> RowsAfter(read, almanac, S)]
<1>1. Len(almanac) \in Nat /\ DOMAIN almanac = D /\ IsFiniteSet(D)
  BY AlmanacsAreFinite
<1>2. Generated(read, almanac) = (CHOOSE s : Solves(s))[D]
  BY <1>1 DEF Generated, FoldLeft, MapThenFoldSet
<1>3. Solves(closed)
  <2>1. ASSUME NEW S \in SUBSET D PROVE RowsAfter(read, almanac, S) = Step(closed, S)
    <3>1. CASE S = {}
      <4>1. \A e \in Ids : RowAfter(read, almanac, S, e) = read[e]
        BY <3>1 DEF RowAfter, Mentions
      <4>2. read = [e \in Ids |-> read[e]]
        BY DEF EventRows
      <4> QED  BY <3>1, <4>1, <4>2 DEF RowsAfter
    <3>2. CASE S # {}
      <4>1. PICK x, w, T : x = Max(S) /\ w = almanac[x] /\ T = S \ {x}
        OBVIOUS
      <4>2. RowsAfter(read, almanac, S) = Entered(RowsAfter(read, almanac, T), w)
        BY <3>2, <4>1, OneMoreWindow
      <4>3. T \in SUBSET D /\ closed[T] = RowsAfter(read, almanac, T)
        BY <4>1
      <4> QED  BY <3>2, <4>1, <4>2, <4>3
    <3> QED  BY <3>1, <3>2
  <2> QED  BY <2>1
<1>4. PICK s : Solves(s) /\ s = (CHOOSE f : Solves(f))
  <2> HIDE DEF Solves
  <2> QED  BY <1>3
<1>5. \A S \in SUBSET D : s[S] = closed[S]
  <2> DEFINE Good == {S \in SUBSET D : s[S] = closed[S]}
  <2>1. ASSUME NEW S \in SUBSET D, \A T \in SUBSET S : T # S => T \in Good
        PROVE  S \in Good
    <3>1. s[S] = Step(s, S) /\ closed[S] = Step(closed, S)
      BY <1>3, <1>4
    <3>2. CASE S = {}
      BY <3>1, <3>2
    <3>3. CASE S # {}
      <4>1. PICK x : x = Max(S)
        OBVIOUS
      <4>2. x \in S
        BY <1>1, <3>3, <4>1, LastMention
      <4>3. S \ {x} \in SUBSET S /\ S \ {x} # S
        BY <4>2
      <4>4. s[S \ {x}] = closed[S \ {x}]
        BY <2>1, <4>3
      <4> QED  BY <3>1, <3>3, <4>1, <4>4
    <3> QED  BY <3>2, <3>3
  <2>2. \A S \in SUBSET D : (\A T \in SUBSET S : T # S => T \in Good) => S \in Good
    BY <2>1
  <2> HIDE DEF Good, D
  <2>3. SUBSET D \subseteq Good
    BY <1>1, <2>2, SubsetInduction
  <2> QED  BY <2>3 DEF Good
<1>6. D \in SUBSET D
  OBVIOUS
<1> QED  BY <1>2, <1>4, <1>5, <1>6

\* What a flush leaves of a row: the columns it wrote and those of now.
Flushed(new, now, read, want) ==
  /\ EventRow(new) /\ new.there = TRUE /\ new.source = now.source
  /\ new.from = IF want.from # read.from THEN want.from ELSE now.from
  /\ new.until = IF want.until # read.until THEN want.until ELSE now.until
  /\ new.mult = IF want.mult # read.mult THEN want.mult ELSE now.mult
  /\ want = read => new = now

LEMMA WrittenRow ==
  ASSUME NEW now, EventRow(now), NEW read, EventRow(read), NEW want, EventRow(want)
  PROVE  Flushed(Written(now, read, want), now, read, want)
<1>0. PICK new : new = Written(now, read, want)
  OBVIOUS
<1>1. read.there = TRUE /\ now.there = TRUE
  BY DEF EventRow
<1>2. PICK from, until, estimated, mult :
        /\ from = IF want.from # read.from THEN want.from ELSE now.from
        /\ until = IF want.until # read.until THEN want.until ELSE now.until
        /\ estimated = IF want.estimated # read.estimated THEN want.estimated ELSE now.estimated
        /\ mult = IF want.mult # read.mult THEN want.mult ELSE now.mult
  OBVIOUS
<1>3. new = [now EXCEPT !.from = from, !.until = until, !.estimated = estimated, !.mult = mult]
  BY <1>0, <1>1, <1>2 DEF Written
<1>4. PICK source, ofrom, ountil, oest, omult :
        now = [there |-> TRUE, source |-> source, from |-> ofrom, until |-> ountil,
               estimated |-> oest, mult |-> omult]
  BY DEF EventRow
<1>5. DOMAIN new = {"there", "source", "from", "until", "estimated", "mult"}
      /\ new = [c \in DOMAIN new |-> new[c]]
  BY <1>3, <1>4
<1>6. new = [there |-> new.there, source |-> new.source, from |-> new.from, until |-> new.until,
             estimated |-> new.estimated, mult |-> new.mult]
  BY <1>5
<1>7. /\ new.there = TRUE /\ new.source = now.source /\ new.from = from /\ new.until = until
      /\ new.estimated = estimated /\ new.mult = mult
  BY <1>3, <1>4
<1>8. estimated \in BOOLEAN
  BY <1>2 DEF EventRow
<1>9. EventRow(new)
  BY <1>6, <1>7, <1>8 DEF EventRow
<1>10. ASSUME want = read PROVE new = now
  <2>1. from = now.from /\ until = now.until /\ estimated = now.estimated /\ mult = now.mult
    BY <1>2, <1>10
  <2>2. now = [there |-> TRUE, source |-> now.source, from |-> now.from, until |-> now.until,
               estimated |-> now.estimated, mult |-> now.mult]
    BY DEF EventRow
  <2> QED  BY <1>6, <1>7, <2>1, <2>2
<1> QED  BY <1>0, <1>2, <1>7, <1>9, <1>10 DEF Flushed

\* A row whose columns an admin edits.
LEMMA EditedRow ==
  ASSUME NEW row, EventRow(row), NEW from, NEW until, NEW mult, NEW confirm \in BOOLEAN,
         NEW new, new = Edited(row, from, until, mult, confirm)
  PROVE  /\ EventRow(new)
         /\ from = Same /\ until = Same => Dates(new) = Dates(row)
         /\ mult = Same => new.mult = row.mult
<1>1. PICK nfrom, nuntil, est, nmult :
        /\ nfrom = IF from # Same THEN from ELSE row.from
        /\ nuntil = IF until # Same THEN until ELSE row.until
        /\ est = (row.estimated
                    /\ ~(confirm \/ ((from # Same \/ until # Same) /\ row.source = "LUNAR")))
        /\ nmult = IF mult # Same THEN mult ELSE row.mult
  OBVIOUS
<1>2. new = [row EXCEPT !.from = nfrom, !.until = nuntil, !.estimated = est, !.mult = nmult]
  BY <1>1, Zenon DEF Edited
<1>3. PICK source, ofrom, ountil, oest, omult :
        row = [there |-> TRUE, source |-> source, from |-> ofrom, until |-> ountil,
               estimated |-> oest, mult |-> omult]
  BY DEF EventRow
<1>4. DOMAIN new = {"there", "source", "from", "until", "estimated", "mult"}
      /\ new = [c \in DOMAIN new |-> new[c]]
  BY <1>2, <1>3
<1>5. new = [there |-> new.there, source |-> new.source, from |-> new.from, until |-> new.until,
             estimated |-> new.estimated, mult |-> new.mult]
  BY <1>4
<1>6. /\ new.there = TRUE /\ new.source = row.source /\ new.from = nfrom /\ new.until = nuntil
      /\ new.estimated = est /\ new.mult = nmult
  BY <1>2, <1>3
<1>7. est \in BOOLEAN
  BY <1>1, Zenon
<1>8. EventRow(new)
  BY <1>5, <1>6, <1>7 DEF EventRow
<1> QED  BY <1>1, <1>6, <1>8 DEF Dates

\* What holds of one event: the almanac's are never the admin's own, which alone
\* are deleted; the dates and the multiplier are those last given.
EventStands(e, row, told, blurred) ==
  /\ row = Unwritten \/ EventRow(row)
  /\ told = [dates |-> told.dates, mult |-> told.mult]
  /\ row.there => /\ row.mult = told.mult
                  /\ e \notin OwnEvents => row.source # "MANUAL"
                  /\ e \notin blurred => Dates(row) = told.dates

\* What a request in progress has read and wants, over these rows.
GenerateStands(c, rows) ==
  /\ c.op = "generate" /\ EventRows(c.read) /\ c.almanac \in Almanacs
  /\ \A e \in Ids \ OwnEvents : c.read[e].there => rows[e].there
UpdateStands(c) ==
  /\ c.op = "update" /\ c.event \in Ids /\ EventRow(c.read) /\ EventRow(c.want)
  /\ c.remult \in BOOLEAN /\ c.dated \in BOOLEAN
  /\ ~c.dated => Dates(c.want) = Dates(c.read)
  /\ ~c.remult => c.want.mult = c.read.mult
NumbersStand(c) ==
  /\ c.op = "numbers" /\ c.event \in Ids /\ c.replace \in BOOLEAN
  /\ \A p \in DOMAIN c.want : c.want[p].mult \in Nat
EditStands(c, rows) ==
  c = AtDesk \/ GenerateStands(c, rows) \/ UpdateStands(c) \/ NumbersStand(c)

CalendarInv ==
  /\ calendar = [e \in Ids |-> calendar[e]] /\ given = [e \in Ids |-> given[e]]
  /\ numbers = [e \in Ids |-> numbers[e]]
  /\ calendarCalls = [r \in Editors |-> calendarCalls[r]]
  /\ \A e \in Ids : EventStands(e, calendar[e], given[e], mixed)
  /\ \A r \in Editors : EditStands(calendarCalls[r], calendar)

\* No request is disturbed by rows that keep the almanac's events.
LEMMA EditsGoOn ==
  ASSUME NEW rows, NEW c, EditStands(c, rows), NEW later,
         \A e \in Ids \ OwnEvents : rows[e].there => later[e].there
  PROVE  EditStands(c, later)
<1>1. CASE GenerateStands(c, rows)
  <2>1. GenerateStands(c, later)
    BY <1>1 DEF GenerateStands
  <2> QED  BY <2>1 DEF EditStands
<1> QED  BY <1>1 DEF EditStands

\* Opening or closing a call leaves the others alone.
LEMMA EditsStand ==
  ASSUME NEW calls, calls = [r \in Editors |-> calls[r]], NEW rows,
         \A r \in Editors : EditStands(calls[r], rows), NEW later,
         \A e \in Ids \ OwnEvents : rows[e].there => later[e].there,
         NEW q \in Editors, NEW c, EditStands(c, later), NEW next,
         next = [calls EXCEPT ![q] = c]
  PROVE  /\ next = [r \in Editors |-> next[r]]
         /\ \A r \in Editors : EditStands(next[r], later)
<1>1. \A r \in Editors : EditStands(calls[r], later)
  BY EditsGoOn
<1> QED  BY <1>1

LEMMA CalendarStarts ==
  ASSUME CalendarInit
  PROVE  CalendarInv
<1>1. ASSUME NEW e \in Ids PROVE EventStands(e, calendar[e], given[e], mixed)
  BY DEF CalendarInit, EventStands, Unwritten
<1>2. ASSUME NEW r \in Editors PROVE EditStands(calendarCalls[r], calendar)
  BY DEF CalendarInit, EditStands
<1> QED  BY <1>1, <1>2 DEF CalendarInit, CalendarInv

\* Every other read of the calendar is of rows that stand.
LEMMA CalendarRows ==
  ASSUME CalendarInv
  PROVE  EventRows(calendar)
BY DEF CalendarInv, EventRows, EventStands

\* The admin's own event is created with what they typed.
LEMMA ManualStands ==
  ASSUME CalendarInv, NEW e \in OwnEvents, NEW from, NEW until, NEW mult,
         CreateManual(e, from, until, mult)
  PROVE  CalendarInv'
<1>1. PICK row, told : /\ row = [there |-> TRUE, source |-> "MANUAL", from |-> from, until |-> until,
                                 estimated |-> FALSE, mult |-> mult]
                       /\ told = [dates |-> <<from, until>>, mult |-> mult]
  OBVIOUS
<1>2. /\ calendar' = [calendar EXCEPT ![e] = row] /\ given' = [given EXCEPT ![e] = told]
      /\ UNCHANGED <<numbers, calendarCalls, mixed>>
  BY <1>1, Zenon DEF CreateManual
<1>3. e \in Ids
  BY DEF Ids
<1>4. EventStands(e, row, told, mixed)
  BY <1>1 DEF EventStands, EventRow, Dates
<1>5. /\ calendar' = [d \in Ids |-> calendar'[d]] /\ given' = [d \in Ids |-> given'[d]]
      /\ \A d \in Ids : EventStands(d, calendar'[d], given'[d], mixed')
  BY <1>2, <1>3, <1>4 DEF CalendarInv
<1>6. \A d \in Ids \ OwnEvents : calendar[d].there => calendar'[d].there
  BY <1>2, <1>3 DEF CalendarInv
<1>7. \A r \in Editors : EditStands(calendarCalls'[r], calendar')
  BY <1>2, <1>6, EditsGoOn DEF CalendarInv
<1> QED  BY <1>2, <1>5, <1>7 DEF CalendarInv

\* Only the admin's own events are deleted.
LEMMA DeletionStands ==
  ASSUME CalendarInv, NEW e \in Ids, DeleteEvent(e)
  PROVE  CalendarInv'
<1>1. /\ calendar' = [calendar EXCEPT ![e] = Unwritten]
      /\ numbers' = [numbers EXCEPT ![e] = [p \in EventDishes |-> NoNumber]]
      /\ UNCHANGED <<calendarCalls, given, mixed>> /\ calendar[e].there
      /\ calendar[e].source = "MANUAL"
  BY DEF DeleteEvent, There
<1>2. e \in OwnEvents
  BY <1>1 DEF CalendarInv, EventStands
<1>3. EventStands(e, Unwritten, given[e], mixed)
  BY DEF CalendarInv, EventStands, Unwritten
<1>4. /\ calendar' = [d \in Ids |-> calendar'[d]] /\ numbers' = [d \in Ids |-> numbers'[d]]
      /\ \A d \in Ids : EventStands(d, calendar'[d], given'[d], mixed')
  BY <1>1, <1>3 DEF CalendarInv
<1>5. \A d \in Ids \ OwnEvents : calendar[d].there => calendar'[d].there
  BY <1>1, <1>2 DEF CalendarInv
<1>6. \A r \in Editors : EditStands(calendarCalls'[r], calendar')
  BY <1>1, <1>5, EditsGoOn DEF CalendarInv
<1> QED  BY <1>1, <1>4, <1>6 DEF CalendarInv

\* A request that only reads.
LEMMA ReadsStand ==
  ASSUME CalendarInv, NEW r \in Editors, NEW c, EditStands(c, calendar),
         calendarCalls' = [calendarCalls EXCEPT ![r] = c],
         UNCHANGED <<calendar, numbers, given, mixed>>
  PROVE  CalendarInv'
<1>1. /\ calendarCalls' = [q \in Editors |-> calendarCalls'[q]]
      /\ \A q \in Editors : EditStands(calendarCalls'[q], calendar)
  BY EditsStand DEF CalendarInv
<1> QED  BY <1>1 DEF CalendarInv

LEMMA LoadGenerateStands ==
  ASSUME CalendarInv, NEW r \in Editors, NEW almanac \in Almanacs, LoadGenerate(r, almanac)
  PROVE  CalendarInv'
<1>1. PICK c : c = [op |-> "generate", read |-> calendar, almanac |-> almanac]
  OBVIOUS
<1>2. calendarCalls' = [calendarCalls EXCEPT ![r] = c] /\ UNCHANGED <<calendar, numbers, given, mixed>>
  BY <1>1 DEF LoadGenerate, CallOpens
<1>3. GenerateStands(c, calendar)
  BY <1>1, CalendarRows DEF GenerateStands
<1> QED  BY <1>2, <1>3, ReadsStand DEF EditStands

LEMMA LoadUpdateStands ==
  ASSUME CalendarInv, NEW r \in Editors, NEW e \in Ids, NEW from, NEW until, NEW mult,
         NEW confirm \in BOOLEAN, LoadUpdate(r, e, from, until, mult, confirm)
  PROVE  CalendarInv'
<1>1. PICK read, want, dated, remult :
        /\ read = calendar[e] /\ want = Edited(read, from, until, mult, confirm)
        /\ dated = (from # Same \/ until # Same) /\ remult = (mult # Same)
  OBVIOUS
<1>2. PICK c : c = [op |-> "update", event |-> e, read |-> read, want |-> want,
                    remult |-> remult, dated |-> dated]
  OBVIOUS
<1>3. /\ calendarCalls' = [calendarCalls EXCEPT ![r] = c]
      /\ UNCHANGED <<calendar, numbers, given, mixed>> /\ read.there
  BY <1>1, <1>2, Zenon DEF LoadUpdate, CallOpens, There
<1>4. EventRow(read)
  BY <1>1, <1>3 DEF CalendarInv, EventStands, Unwritten
<1>5. /\ EventRow(want)
      /\ mult = Same => want.mult = read.mult
      /\ from = Same /\ until = Same => Dates(want) = Dates(read)
  BY <1>1, <1>4, EditedRow
<1>6. remult \in BOOLEAN /\ dated \in BOOLEAN
  BY <1>1, Zenon
<1>7. ~dated => Dates(want) = Dates(read)
  BY <1>1, <1>5
<1>8. ~remult => want.mult = read.mult
  <2>1. ~remult => mult = Same
    BY <1>1, Zenon
  <2> QED  BY <1>5, <2>1
<1>9. UpdateStands(c)
  <2>1. /\ c.op = "update" /\ c.event = e /\ c.read = read /\ c.want = want
        /\ c.remult = remult /\ c.dated = dated
    BY <1>2, Zenon
  <2>2. c.remult \in BOOLEAN /\ c.dated \in BOOLEAN
    BY <1>6, <2>1, Zenon
  <2>3. ~c.dated => Dates(c.want) = Dates(c.read)
    BY <1>7, <2>1, Zenon
  <2>4. ~c.remult => c.want.mult = c.read.mult
    BY <1>8, <2>1, Zenon
  <2> QED  BY <1>4, <1>5, <2>1, <2>2, <2>3, <2>4, Zenon DEF UpdateStands
<1> QED  BY <1>3, <1>9, ReadsStand DEF EditStands

LEMMA LoadNumbersStands ==
  ASSUME CalendarInv, NEW r \in Editors, NEW e \in Ids, NEW dishes, NEW m \in Factors,
         NEW proposed, NEW replace \in BOOLEAN,
         LoadNumbers(r, e, [p \in dishes |-> m], proposed, replace)
  PROVE  CalendarInv'
<1>1. PICK want : want = [p \in DOMAIN [p \in dishes |-> m] |->
                            [mult |-> [q \in dishes |-> m][p], proposed |-> proposed]]
  OBVIOUS
<1>2. PICK c : c = [op |-> "numbers", event |-> e, read |-> numbers[e], replace |-> replace,
                    want |-> want]
  OBVIOUS
<1>3. calendarCalls' = [calendarCalls EXCEPT ![r] = c] /\ UNCHANGED <<calendar, numbers, given, mixed>>
  BY <1>1, <1>2 DEF LoadNumbers, CallOpens
<1>4. \A p \in DOMAIN want : want[p].mult \in Nat
  BY <1>1, CalendarAssumption
<1>5. NumbersStand(c)
  BY <1>2, <1>4 DEF NumbersStand
<1> QED  BY <1>3, <1>5, ReadsStand DEF EditStands

LEMMA AbandonStands ==
  ASSUME CalendarInv, NEW r \in Editors, AbandonEdit(r)
  PROVE  CalendarInv'
<1>1. PICK c : c = AtDesk
  OBVIOUS
<1>2. calendarCalls' = [calendarCalls EXCEPT ![r] = c] /\ UNCHANGED <<calendar, numbers, given, mixed>>
  BY <1>1 DEF AbandonEdit, CallCloses
<1> QED  BY <1>1, <1>2, ReadsStand DEF EditStands

LEMMA DropStands ==
  ASSUME CalendarInv, NEW e \in Ids, NEW p, DropNumber(e, p)
  PROVE  CalendarInv'
<1>1. /\ numbers' = [numbers EXCEPT ![e][p] = NoNumber]
      /\ UNCHANGED <<calendar, calendarCalls, given, mixed>>
  BY DEF DropNumber
<1>2. numbers' = [d \in Ids |-> numbers'[d]]
  BY <1>1 DEF CalendarInv
<1> QED  BY <1>1, <1>2 DEF CalendarInv

LEMMA NumbersAreWritten ==
  ASSUME CalendarInv, NEW r \in Editors, CommitNumbers(r)
  PROVE  CalendarInv'
<1>1. PICK c, e : c = calendarCalls[r] /\ e = c.event
  OBVIOUS
<1>2. NumbersStand(c)
  BY <1>1 DEF CalendarInv, EditStands, CommitNumbers, GenerateStands, UpdateStands, AtDesk
<1>3. e \in Ids
  BY <1>1, <1>2 DEF NumbersStand
<1>4. PICK dishes, desk : numbers' = [numbers EXCEPT ![e] = dishes] /\ desk = AtDesk
  BY <1>1 DEF CommitNumbers
<1>5. /\ calendarCalls' = [calendarCalls EXCEPT ![r] = desk] /\ UNCHANGED <<calendar, given>>
      /\ mixed' = mixed \/ mixed' = mixed \cup {e}
  BY <1>1, <1>4 DEF CommitNumbers, CallCloses
<1>6. numbers' = [d \in Ids |-> numbers'[d]]
  BY <1>3, <1>4 DEF CalendarInv
<1>7. /\ calendarCalls' = [q \in Editors |-> calendarCalls'[q]]
      /\ \A q \in Editors : EditStands(calendarCalls'[q], calendar)
  BY <1>4, <1>5, EditsStand DEF CalendarInv, EditStands
<1>8. \A d \in Ids : EventStands(d, calendar[d], given[d], mixed')
  BY <1>5 DEF CalendarInv, EventStands
<1> QED  BY <1>5, <1>6, <1>7, <1>8 DEF CalendarInv

\* An update stands on what was read, or the event is mixed.
LEMMA UpdateIsWritten ==
  ASSUME CalendarInv, NEW r \in Editors, CommitUpdate(r)
  PROVE  CalendarInv'
<1>1. PICK c, e, read, want, now, desk :
        /\ c = calendarCalls[r] /\ e = c.event /\ read = c.read /\ want = c.want
        /\ now = calendar[e] /\ desk = AtDesk
  OBVIOUS
<1>2. UpdateStands(c)
  BY <1>1 DEF CalendarInv, EditStands, CommitUpdate, GenerateStands, NumbersStand, AtDesk
<1>3. e \in Ids /\ EventRow(read) /\ EventRow(want) /\ c.remult \in BOOLEAN /\ c.dated \in BOOLEAN
  BY <1>1, <1>2 DEF UpdateStands
<1>4. PICK mid, row, told :
        /\ mid = Written(now, read, want)
        /\ row = [mid EXCEPT !.mult = IF c.remult THEN want.mult ELSE @]
        /\ told = [dates |-> IF c.dated THEN Dates(want) ELSE given[e].dates,
                   mult |-> IF c.remult THEN want.mult ELSE given[e].mult]
  OBVIOUS
<1>5. /\ calendar' = [calendar EXCEPT ![e] = row]
      /\ mixed' = IF now # read THEN mixed \cup {e} ELSE mixed
      /\ calendarCalls' = [calendarCalls EXCEPT ![r] = desk] /\ numbers' = numbers
      /\ now.there
  BY <1>1, <1>4 DEF CommitUpdate, CallCloses, There
<1>6. given' = [given EXCEPT ![e] = told]
  <2>1. given' = [given EXCEPT ![e] = [dates |-> IF c.dated THEN Dates(c.want) ELSE @.dates,
                                       mult |-> IF c.remult THEN c.want.mult ELSE @.mult]]
    BY <1>1 DEF CommitUpdate
  <2> QED  BY <1>1, <1>4, <2>1
<1>7. EventStands(e, now, given[e], mixed) /\ EventRow(now)
  BY <1>1, <1>3, <1>5 DEF CalendarInv, EventStands, Unwritten
<1>8. /\ EventRow(mid) /\ mid.source = now.source
      /\ mid.from = IF want.from # read.from THEN want.from ELSE now.from
      /\ mid.until = IF want.until # read.until THEN want.until ELSE now.until
      /\ mid.mult = IF want.mult # read.mult THEN want.mult ELSE now.mult
  <2>1. mid = Written(now, read, want)
    BY <1>4
  <2>2. Flushed(mid, now, read, want)
    BY <1>3, <1>7, <2>1, WrittenRow
  <2> QED  BY <2>2 DEF Flushed
<1>9. /\ EventRow(row) /\ row.source = now.source /\ row.from = mid.from /\ row.until = mid.until
      /\ row.mult = IF c.remult THEN want.mult ELSE mid.mult
  <2>1. PICK source, from, until, est, mult, m :
          /\ mid = [there |-> TRUE, source |-> source, from |-> from, until |-> until,
                    estimated |-> est, mult |-> mult]
          /\ m = IF c.remult THEN want.mult ELSE mid.mult
    BY <1>8 DEF EventRow
  <2>2. row = [mid EXCEPT !.mult = m]
    BY <1>4, <2>1
  <2>3. DOMAIN row = {"there", "source", "from", "until", "estimated", "mult"}
        /\ row = [f \in DOMAIN row |-> row[f]]
    BY <2>1, <2>2
  <2>4. row = [there |-> row.there, source |-> row.source, from |-> row.from,
               until |-> row.until, estimated |-> row.estimated, mult |-> row.mult]
    BY <2>3
  <2>5. /\ row.there = TRUE /\ row.source = mid.source /\ row.from = mid.from
        /\ row.until = mid.until /\ row.estimated = mid.estimated /\ row.mult = m
    BY <2>1, <2>2
  <2> QED  BY <1>8, <2>1, <2>4, <2>5 DEF EventRow
<1>10. told = [dates |-> told.dates, mult |-> told.mult]
       /\ told.dates = (IF c.dated THEN Dates(want) ELSE given[e].dates)
       /\ told.mult = (IF c.remult THEN want.mult ELSE given[e].mult)
  <2>1. PICK dates, mult : /\ dates = IF c.dated THEN Dates(want) ELSE given[e].dates
                           /\ mult = IF c.remult THEN want.mult ELSE given[e].mult
    OBVIOUS
  <2>2. told = [dates |-> dates, mult |-> mult]
    BY <1>4, <2>1
  <2> QED  BY <2>1, <2>2
<1>11. row.mult = told.mult
  BY <1>1, <1>2, <1>3, <1>5, <1>7, <1>8, <1>9, <1>10 DEF UpdateStands, EventStands
<1>12. ASSUME e \notin mixed' PROVE Dates(row) = told.dates
  <2>1. now = read /\ e \notin mixed
    BY <1>5, <1>12
  <2>2. Dates(row) = Dates(want) /\ Dates(now) = given[e].dates
    BY <1>5, <1>7, <1>8, <1>9, <2>1 DEF Dates, EventStands
  <2>3. ~c.dated => Dates(want) = Dates(read)
    BY <1>1, <1>2 DEF UpdateStands
  <2> QED  BY <1>3, <1>10, <2>1, <2>2, <2>3
<1>13. EventStands(e, row, told, mixed')
  BY <1>5, <1>7, <1>9, <1>10, <1>11, <1>12 DEF EventStands
<1>14. /\ calendar' = [d \in Ids |-> calendar'[d]] /\ given' = [d \in Ids |-> given'[d]]
       /\ \A d \in Ids : EventStands(d, calendar'[d], given'[d], mixed')
  <2>1. ASSUME NEW d \in Ids, d # e PROVE EventStands(d, calendar'[d], given'[d], mixed')
    BY <1>5, <1>6, <2>1 DEF CalendarInv, EventStands
  <2> QED  BY <1>3, <1>5, <1>6, <1>13, <2>1 DEF CalendarInv
<1>15. \A d \in Ids \ OwnEvents : calendar[d].there => calendar'[d].there
  BY <1>3, <1>5, <1>9 DEF CalendarInv, EventRow
<1>16. /\ calendarCalls' = [q \in Editors |-> calendarCalls'[q]]
       /\ \A q \in Editors : EditStands(calendarCalls'[q], calendar')
  BY <1>1, <1>5, <1>15, EditsStand DEF CalendarInv, EditStands
<1> QED  BY <1>5, <1>14, <1>16 DEF CalendarInv

\* One event of a generation: kept where a human confirmed it, moved to the dates
\* of its last mention where the year already had it, else new.
LEMMA GeneratedEvent ==
  ASSUME NEW e \in Ids, NEW now, NEW told, NEW blurred, EventStands(e, now, told, blurred),
         NEW read, read = Unwritten \/ EventRow(read), read.there => now.there,
         NEW w, w.source \in {"LUNAR", "FIXED"}, ~read.there => ~now.there,
         NEW want, want = IF Confirmed(read) THEN read
                          ELSE IF read.there THEN Refreshed(read, w) ELSE NewRow(w),
         NEW saying, saying = IF Confirmed(read) THEN told
                              ELSE [dates |-> Dates(w),
                                    mult |-> IF read.there THEN told.mult ELSE w.mult],
         NEW later, blurred \subseteq later, ~Confirmed(read) /\ now # read => e \in later
  PROVE  /\ EventStands(e, Written(now, read, want), saying, later)
         /\ now.there => Written(now, read, want).there
<1>1. PICK new : new = Written(now, read, want)
  OBVIOUS
<1>2. CASE read = Unwritten
  <2>1. ~read.there /\ ~now.there /\ ~Confirmed(read)
    BY <1>2 DEF Unwritten, Confirmed
  <2>2. want = NewRow(w) /\ saying = [dates |-> Dates(w), mult |-> w.mult] /\ new = want
    BY <1>1, <2>1 DEF Written
  <2>3. PICK est : est = (w.source = "LUNAR")
    OBVIOUS
  <2>4. NewRow(w) = [there |-> TRUE, source |-> w.source, from |-> w.from, until |-> w.until,
                     estimated |-> est, mult |-> w.mult]
    BY <2>3, Zenon DEF NewRow
  <2>5. est \in BOOLEAN
    BY <2>3, Zenon
  <2>6. /\ EventRow(new) /\ new.there = TRUE /\ new.mult = w.mult /\ new.source # "MANUAL"
        /\ Dates(new) = Dates(w)
    BY <2>2, <2>4, <2>5 DEF EventRow, Dates
  <2> QED  BY <1>1, <2>2, <2>6 DEF EventStands
<1>3. CASE EventRow(read)
  <2>1. read.there = TRUE
    BY <1>3 DEF EventRow
  <2>2. EventRow(now)
    BY <2>1 DEF EventStands, Unwritten
  <2>3. CASE Confirmed(read)
    <3>1. want = read /\ saying = told
      BY <2>3
    <3>2. Flushed(new, now, read, want)
      BY <1>1, <1>3, <2>2, <3>1, WrittenRow
    <3>3. new = now
      BY <3>1, <3>2 DEF Flushed
    <3>4. EventStands(e, now, told, later)
      BY DEF EventStands
    <3> QED  BY <1>1, <3>1, <3>3, <3>4
  <2>4. CASE ~Confirmed(read)
    <3>1. want = Refreshed(read, w) /\ saying = [dates |-> Dates(w), mult |-> told.mult]
      BY <2>1, <2>4
    <3>2. PICK source, from, until, est, mult :
            /\ read = [there |-> TRUE, source |-> source, from |-> from, until |-> until,
                       estimated |-> est, mult |-> mult]
            /\ source \in {"LUNAR", "FIXED", "MANUAL"} /\ est \in BOOLEAN
      BY <1>3 DEF EventRow
    <3>3. want = [there |-> TRUE, source |-> source, from |-> w.from, until |-> w.until,
                  estimated |-> est, mult |-> mult]
      BY <3>1, <3>2, RefreshedColumns
    <3>4. /\ EventRow(want) /\ want.from = w.from /\ want.until = w.until
          /\ want.mult = read.mult
      <4>1. /\ want.from = w.from /\ want.until = w.until /\ want.mult = mult
            /\ want.source = source /\ want.estimated = est /\ read.mult = mult
        BY <3>2, <3>3
      <4>2. EventRow(want)
        BY <3>2, <3>3, <4>1 DEF EventRow
      <4> QED  BY <4>1, <4>2
    <3>5. Flushed(new, now, read, want)
      BY <1>1, <1>3, <2>2, <3>4, WrittenRow
    <3>6. EventRow(new) /\ new.there = TRUE /\ new.source = now.source /\ new.mult = now.mult
      BY <3>4, <3>5 DEF Flushed
    <3>7. ASSUME e \notin later PROVE Dates(new) = Dates(w)
      <4>1. now = read
        BY <2>4, <3>7
      <4>2. new.from = w.from /\ new.until = w.until
        BY <3>4, <3>5, <4>1 DEF Flushed
      <4> QED  BY <4>2 DEF Dates
    <3>8. EventStands(e, new, saying, later)
      BY <2>1, <3>1, <3>6, <3>7 DEF EventStands
    <3> QED  BY <1>1, <3>6, <3>8
  <2> QED  BY <2>3, <2>4
<1> QED  BY <1>2, <1>3

\* The windows that mention an event, and the last one.
LEMMA LastWindow ==
  ASSUME NEW almanac \in Almanacs, NEW e,
         e \in {almanac[i].key : i \in 1..Len(almanac)}
  PROVE  /\ Mentions(almanac, 1..Len(almanac), e) # {}
         /\ Max(Mentions(almanac, 1..Len(almanac), e)) \in 1..Len(almanac)
         /\ almanac[Max(Mentions(almanac, 1..Len(almanac), e))].key = e
         /\ SelectLastInSeq(almanac, LAMBDA w : w.key = e)
              = Max(Mentions(almanac, 1..Len(almanac), e))
<1>1. PICK M : M = {i \in 1..Len(almanac) : almanac[i].key = e}
  OBVIOUS
<1>2. M # {} /\ M \in SUBSET (1..Len(almanac)) /\ Len(almanac) \in Nat
  BY <1>1, AlmanacsAreFinite
<1>3. Max(M) \in M
  BY <1>2, LastMention
<1>4. SelectLastInSeq(almanac, LAMBDA w : w.key = e) = Max(M)
  BY <1>1, <1>2 DEF SelectLastInSeq
<1>5. M = Mentions(almanac, 1..Len(almanac), e)
  BY <1>1 DEF Mentions
<1> QED  BY <1>1, <1>2, <1>3, <1>4, <1>5

\* A whole year is generated over the rows as they are by then.
LEMMA GenerationIsWritten ==
  ASSUME CalendarInv, NEW r \in Editors, CommitGenerate(r)
  PROVE  CalendarInv'
<1>1. PICK c, read, almanac, desk :
        c = calendarCalls[r] /\ read = c.read /\ almanac = c.almanac /\ desk = AtDesk
  OBVIOUS
<1>2. GenerateStands(c, calendar)
  BY <1>1 DEF CalendarInv, EditStands, CommitGenerate, UpdateStands, NumbersStand, AtDesk
<1>3. /\ EventRows(read) /\ almanac \in Almanacs
      /\ \A e \in Ids \ OwnEvents : read[e].there => calendar[e].there
  BY <1>1, <1>2 DEF GenerateStands
<1> DEFINE touched == {almanac[i].key : i \in 1..Len(almanac)}
           asked == {e \in touched : ~Confirmed(read[e])}
           want == Generated(read, almanac)
           last(e) == almanac[SelectLastInSeq(almanac, LAMBDA w : w.key = e)]
<1>4. /\ \A e \in touched : ~read[e].there => ~There(e)
      /\ calendar' = [e \in Ids |-> IF e \in touched THEN Written(calendar[e], read[e], want[e])
                                  ELSE calendar[e]]
      /\ given' = [e \in Ids |->
                     IF e \notin asked THEN given[e]
                     ELSE [dates |-> Dates(last(e)),
                           mult |-> IF read[e].there THEN given[e].mult ELSE last(e).mult]]
      /\ mixed' = mixed \cup {e \in asked : calendar[e] # read[e]}
      /\ calendarCalls' = [calendarCalls EXCEPT ![r] = desk] /\ numbers' = numbers
  BY <1>1 DEF CommitGenerate, CallCloses
<1>5. touched \in SUBSET (Ids \ OwnEvents)
  BY <1>3, AlmanacsAreFinite
<1>6. ASSUME NEW e \in Ids
      PROVE  /\ EventStands(e, calendar'[e], given'[e], mixed')
             /\ calendar[e].there => calendar'[e].there
  <2>1. EventStands(e, calendar[e], given[e], mixed)
    BY DEF CalendarInv
  <2>2. CASE e \notin touched
    <3>1. calendar'[e] = calendar[e] /\ given'[e] = given[e] /\ mixed \subseteq mixed'
      BY <1>4, <2>2
    <3> QED  BY <2>1, <3>1 DEF EventStands
  <2>3. CASE e \in touched
    <3>1. PICK top : top = Max(Mentions(almanac, 1..Len(almanac), e))
      OBVIOUS
    <3>2. PICK w : w = almanac[top]
      OBVIOUS
    <3>3. /\ Mentions(almanac, 1..Len(almanac), e) # {} /\ top \in 1..Len(almanac)
          /\ last(e) = w
      BY <1>3, <2>3, <3>1, <3>2, LastWindow
    <3>4. w.source \in {"LUNAR", "FIXED"}
      BY <1>3, <3>2, <3>3, AlmanacsAreFinite
    <3>5. want[e] = RowAfter(read, almanac, 1..Len(almanac), e)
      BY <1>3, GeneratedRows DEF RowsAfter
    <3>6. PICK wanted : wanted = want[e]
      OBVIOUS
    <3>7. wanted = IF Confirmed(read[e]) THEN read[e]
                   ELSE IF read[e].there THEN Refreshed(read[e], w) ELSE NewRow(w)
      BY <3>1, <3>2, <3>3, <3>5, <3>6 DEF RowAfter
    <3> HIDE DEF touched, want, last
    <3>8. calendar'[e] = Written(calendar[e], read[e], wanted)
      BY <1>4, <2>3, <3>6
    <3>9. given'[e] = IF Confirmed(read[e]) THEN given[e]
                      ELSE [dates |-> Dates(w),
                            mult |-> IF read[e].there THEN given[e].mult ELSE w.mult]
      BY <1>4, <2>3, <3>3
    <3>10. mixed \subseteq mixed'
           /\ (~Confirmed(read[e]) /\ calendar[e] # read[e] => e \in mixed')
      BY <1>4, <2>3
    <3>11. /\ read[e] = Unwritten \/ EventRow(read[e])
           /\ read[e].there => calendar[e].there
           /\ ~read[e].there => ~calendar[e].there
      BY <1>3, <1>4, <1>5, <2>3 DEF EventRows, There
    <3>12. PICK now, told, was, saying, later :
             /\ now = calendar[e] /\ told = given[e] /\ was = read[e] /\ saying = given'[e]
             /\ later = mixed'
      OBVIOUS
    <3>13. /\ EventStands(e, Written(now, was, wanted), saying, later)
           /\ now.there => Written(now, was, wanted).there
      <4>1. EventStands(e, now, told, mixed)
        BY <2>1, <3>12
      <4>2. wanted = IF Confirmed(was) THEN was
                     ELSE IF was.there THEN Refreshed(was, w) ELSE NewRow(w)
        BY <3>7, <3>12
      <4>3. saying = IF Confirmed(was) THEN told
                     ELSE [dates |-> Dates(w),
                           mult |-> IF was.there THEN told.mult ELSE w.mult]
        BY <3>9, <3>12
      <4>4. mixed \subseteq later /\ (~Confirmed(was) /\ now # was => e \in later)
        BY <3>10, <3>12
      <4>5. /\ was = Unwritten \/ EventRow(was)
            /\ was.there => now.there
            /\ ~was.there => ~now.there
        BY <3>11, <3>12
      <4> QED  BY <3>4, <4>1, <4>2, <4>3, <4>4, <4>5, GeneratedEvent
    <3> QED  BY <3>8, <3>12, <3>13
  <2> QED  BY <2>2, <2>3
<1>7. calendar' = [e \in Ids |-> calendar'[e]] /\ given' = [e \in Ids |-> given'[e]]
  BY <1>4
<1>8. /\ calendarCalls' = [q \in Editors |-> calendarCalls'[q]]
      /\ \A q \in Editors : EditStands(calendarCalls'[q], calendar')
  BY <1>1, <1>4, <1>6, EditsStand DEF CalendarInv, EditStands
<1> QED  BY <1>4, <1>6, <1>7, <1>8 DEF CalendarInv

\* Every step of a request or an admin.
LEMMA CalendarStep ==
  ASSUME CalendarInv, [CalendarNext]_calendarVars
  PROVE  CalendarInv'
<1>1. CASE CalendarNext
  <2>1. ASSUME NEW e \in OwnEvents, NEW from \in EventDays, NEW until \in EventDays,
               NEW m \in Factors, CreateManual(e, from, until, m)
        PROVE  CalendarInv'
    BY <2>1, ManualStands
  <2>2. ASSUME NEW e \in Ids, DeleteEvent(e) PROVE CalendarInv'
    BY <2>2, DeletionStands
  <2>3. ASSUME NEW e \in Ids, NEW p \in EventDishes, DropNumber(e, p) PROVE CalendarInv'
    BY <2>3, DropStands
  <2>4. ASSUME NEW r \in Editors, NEW almanac \in Almanacs, LoadGenerate(r, almanac)
        PROVE  CalendarInv'
    BY <2>4, LoadGenerateStands
  <2>5. ASSUME NEW r \in Editors, NEW e \in Ids, NEW from \in EventDays \cup {Same},
               NEW until \in EventDays \cup {Same}, NEW m \in Factors \cup {Same},
               NEW confirm \in BOOLEAN, LoadUpdate(r, e, from, until, m, confirm)
        PROVE  CalendarInv'
    BY <2>5, LoadUpdateStands
  <2>6. ASSUME NEW r \in Editors, NEW e \in Ids, NEW dishes \in SUBSET EventDishes,
               NEW m \in Factors, NEW replace \in BOOLEAN,
               LoadNumbers(r, e, [p \in dishes |-> m], ~replace, replace)
        PROVE  CalendarInv'
    BY <2>6, LoadNumbersStands
  <2>7. ASSUME NEW r \in Editors, CommitGenerate(r) PROVE CalendarInv'
    BY <2>7, GenerationIsWritten
  <2>8. ASSUME NEW r \in Editors, CommitUpdate(r) PROVE CalendarInv'
    BY <2>8, UpdateIsWritten
  <2>9. ASSUME NEW r \in Editors, CommitNumbers(r) PROVE CalendarInv'
    BY <2>9, NumbersAreWritten
  <2>10. ASSUME NEW r \in Editors, AbandonEdit(r) PROVE CalendarInv'
    BY <2>10, AbandonStands
  <2> QED  BY <1>1, <2>1, <2>2, <2>3, <2>4, <2>5, <2>6, <2>7, <2>8, <2>9, <2>10 DEF CalendarNext
<1>2. CASE UNCHANGED calendarVars
  BY <1>2 DEF calendarVars, CalendarInv
<1> QED  BY <1>1, <1>2

\* A merge writes the numbers it names and no other.
LEMMA MergeAddsOnly ==
  ASSUME CalendarInv, [CalendarNext]_calendarVars, NEW e \in Ids, NEW r \in Editors,
         calendarCalls[r].op = "numbers", calendarCalls[r].event = e,
         ~calendarCalls[r].replace, calendarCalls'[r] = AtDesk,
         NEW p \in EventDishes, numbers[e][p] # NoNumber
  PROVE  numbers'[e][p] # NoNumber
<1>1. calendarCalls[r] # AtDesk /\ calendarCalls'[r] # calendarCalls[r]
  BY DEF AtDesk
<1>2. NumbersStand(calendarCalls[r])
  BY <1>1 DEF CalendarInv, EditStands, GenerateStands, UpdateStands
<1>3. ASSUME CommitNumbers(r) PROVE numbers'[e][p] # NoNumber
  <2>1. PICK c : c = calendarCalls[r]
    OBVIOUS
  <2> DEFINE changed == {q \in DOMAIN c.want : c.want[q] # c.read[q]}
  <2>2. /\ Drops(c) = {} /\ c.event = e
        /\ \A q \in DOMAIN c.want : c.want[q].mult \in Nat
    BY <1>2, <2>1 DEF Drops, NumbersStand
  <2>3. numbers' = [numbers EXCEPT ![e] =
                      [q \in EventDishes |-> IF q \in changed THEN c.want[q]
                                             ELSE IF q \in Drops(c) THEN NoNumber
                                             ELSE numbers[e][q]]]
    BY <1>3, <2>1, <2>2 DEF CommitNumbers
  <2>4. numbers'[e][p] = IF p \in changed THEN c.want[p] ELSE numbers[e][p]
    BY <2>2, <2>3 DEF CalendarInv
  <2>5. ASSUME p \in changed PROVE c.want[p] # NoNumber
    BY <2>2, <2>5 DEF NoNumber
  <2> QED  BY <2>4, <2>5
<1>4. ASSUME NEW q \in Editors, NEW c, CallOpens(q, c) PROVE FALSE
  <2>1. calendarCalls[q] = AtDesk /\ calendarCalls' = [calendarCalls EXCEPT ![q] = c]
    BY <1>4 DEF CallOpens
  <2>2. q # r
    BY <1>1, <2>1
  <2> QED  BY <1>1, <2>1, <2>2
<1>5. ASSUME NEW q \in Editors, q # r, CallCloses(q) PROVE FALSE
  BY <1>1, <1>5 DEF CallCloses
<1>6. ASSUME UNCHANGED calendarCalls PROVE FALSE
  BY <1>1, <1>6
<1>7. CASE CalendarNext
  <2>1. ASSUME NEW d \in OwnEvents, NEW from \in EventDays, NEW until \in EventDays,
               NEW m \in Factors, CreateManual(d, from, until, m)
        PROVE  FALSE
    BY <1>6, <2>1 DEF CreateManual
  <2>2. ASSUME NEW d \in Ids, DeleteEvent(d) PROVE FALSE
    BY <1>6, <2>2 DEF DeleteEvent
  <2>3. ASSUME NEW d \in Ids, NEW q \in EventDishes, DropNumber(d, q) PROVE FALSE
    BY <1>6, <2>3 DEF DropNumber
  <2>4. ASSUME NEW q \in Editors, NEW almanac \in Almanacs, LoadGenerate(q, almanac)
        PROVE  FALSE
    BY <1>4, <2>4 DEF LoadGenerate
  <2>5. ASSUME NEW q \in Editors, NEW d \in Ids, NEW from \in EventDays \cup {Same},
               NEW until \in EventDays \cup {Same}, NEW m \in Factors \cup {Same},
               NEW confirm \in BOOLEAN, LoadUpdate(q, d, from, until, m, confirm)
        PROVE  FALSE
    <3>1. \E c : CallOpens(q, c)
      BY <2>5, Zenon DEF LoadUpdate
    <3> QED  BY <1>4, <3>1
  <2>6. ASSUME NEW q \in Editors, NEW d \in Ids, NEW dishes \in SUBSET EventDishes,
               NEW m \in Factors, NEW replace \in BOOLEAN,
               LoadNumbers(q, d, [o \in dishes |-> m], ~replace, replace)
        PROVE  FALSE
    <3>1. \E c : CallOpens(q, c)
      BY <2>6, Zenon DEF LoadNumbers
    <3> QED  BY <1>4, <3>1
  <2>7. ASSUME NEW q \in Editors, CommitGenerate(q) PROVE FALSE
    BY <1>5, <2>7 DEF CommitGenerate
  <2>8. ASSUME NEW q \in Editors, CommitUpdate(q) PROVE FALSE
    BY <1>5, <2>8 DEF CommitUpdate
  <2>9. ASSUME NEW q \in Editors, CommitNumbers(q) PROVE numbers'[e][p] # NoNumber
    <3>1. q = r
      BY <1>5, <2>9 DEF CommitNumbers
    <3> QED  BY <1>3, <2>9, <3>1
  <2>10. ASSUME NEW q \in Editors, AbandonEdit(q) PROVE numbers'[e][p] # NoNumber
    BY <2>10 DEF AbandonEdit
  <2> QED  BY <1>7, <2>1, <2>2, <2>3, <2>4, <2>5, <2>6, <2>7, <2>8, <2>9, <2>10 DEF CalendarNext
<1> QED  BY <1>6, <1>7 DEF calendarVars

\* What people entered into the calendar is kept.  The dates of an event are the
\* last anybody stated, a tuned multiplier survives every regeneration, and a
\* merge of numbers takes none away (services/event_calendar.py).
THEOREM CalendarIsAlwaysKept == CalendarSpec => CalendarIsKept
<1>1. ASSUME CalendarInv PROVE DatesAreTheLastStated /\ TuningSurvives
  BY <1>1 DEF CalendarInv, EventStands, DatesAreTheLastStated, TuningSurvives, There
<1>2. ASSUME CalendarInv, [CalendarNext]_calendarVars
      PROVE  \A e \in Ids, r \in Editors :
               (calendarCalls[r].op = "numbers" /\ calendarCalls[r].event = e
                  /\ ~calendarCalls[r].replace /\ calendarCalls'[r] = AtDesk)
               => \A p \in EventDishes : numbers[e][p] # NoNumber => numbers'[e][p] # NoNumber
  BY <1>2, MergeAddsOnly
<1> QED
  BY CalendarStarts, CalendarStep, <1>1, <1>2, PTL
     DEF CalendarSpec, CalendarIsKept, MergesTakeNothing
=============================================================================
