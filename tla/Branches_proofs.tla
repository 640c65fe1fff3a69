---------------------------- MODULE Branches_proofs ----------------------------
(***************************************************************************)
(* A branch for any number of terminals, tills, drawers, payments, menus,  *)
(* proposals, people, tokens and requests in progress: the pairing of      *)
(* terminals, the money of an order, the cash drawers, the menu, and who   *)
(* may work where; and for any number of restaurants and days the income   *)
(* pages and the billing of subscriptions. Each invariant says what a      *)
(* handler in progress still knows of the row it read, as long as nothing  *)
(* it is exposed to has overlapped with it.                                *)
(***************************************************************************)
EXTENDS Terminals, Payments, Shifts, Menu, Access, Income, Billing, Sums_proofs

--------------------------------------------------------------------------------
(* Pairing of terminals *)

TerminalRows ==
  [status : {"ABSENT", "PENDING", "ACTIVE", "REVOKED"}, uid : Uids \cup {NoUid},
   code : Nat, live : BOOLEAN]
ReissueCalls == [op : {"reissue"}, terminal : TerminalIds, seen : TerminalRows, code : Nat]
RevokeCalls == [op : {"revoke"}, terminal : TerminalIds, seen : TerminalRows]
ClaimCalls == [op : {"claim"}, terminal : TerminalIds, uid : Uids, code : Nat]

TerminalsTyped ==
  /\ terminals \in [TerminalIds -> TerminalRows]
  /\ codes \in Nat
  /\ deskCalls \in [Desks -> {DeskRest} \cup ReissueCalls \cup RevokeCalls \cup ClaimCalls]

Reissuing(d) == deskCalls[d].op = "reissue"
Managing(d) == deskCalls[d].op \in {"reissue", "revoke"}

\* Every code is issued once: it is with a terminal, with a reissue in progress
\* or spent on a claim, and only one of these.
CodesIssued ==
  /\ \A t \in TerminalIds : terminals[t].code <= codes
  /\ \A d \in Desks : Reissuing(d) => /\ deskCalls[d].code # NoCode
                                      /\ deskCalls[d].code <= codes
  /\ \A d \in Desks : deskCalls[d].op = "claim" => deskCalls[d].code # NoCode
  /\ \A p \in claims : p[1] \in Nat /\ p[1] # NoCode /\ p[1] <= codes
CodesApart ==
  /\ \A t, o \in TerminalIds :
       terminals[t].code # NoCode /\ terminals[t].code = terminals[o].code => t = o
  /\ \A d \in Desks : Reissuing(d) =>
       /\ \A t \in TerminalIds : deskCalls[d].code # terminals[t].code
       /\ \A e \in Desks : Reissuing(e) /\ deskCalls[e].code = deskCalls[d].code => e = d
CodesSpent ==
  \A p \in claims :
    /\ \A t \in TerminalIds : terminals[t].code # p[1]
    /\ \A d \in Desks : Reissuing(d) => deskCalls[d].code # p[1]

\* What a manager's handler read of a terminal nobody claimed since.
SeenStands ==
  \A d \in Desks : Managing(d) /\ deskCalls[d].terminal \notin claimRaced =>
    LET seen == deskCalls[d].seen
    IN /\ seen.uid = NoUid => terminals[deskCalls[d].terminal].uid = NoUid
       /\ seen.uid # NoUid <=> seen.status = "ACTIVE"

TerminalsInv ==
  /\ TerminalsTyped /\ CodesIssued /\ CodesApart /\ CodesSpent /\ SeenStands
  /\ PairingIsExclusive

LEMMA DeskFacts ==
  ASSUME TerminalsTyped, NEW d \in Desks
  PROVE  /\ Reissuing(d) => deskCalls[d] \in ReissueCalls
         /\ deskCalls[d].op = "revoke" => deskCalls[d] \in RevokeCalls
         /\ deskCalls[d].op = "claim" => deskCalls[d] \in ClaimCalls
         /\ Managing(d) => /\ deskCalls[d].terminal \in TerminalIds
                           /\ deskCalls[d].seen \in TerminalRows
BY DEF TerminalsTyped, Reissuing, Managing, DeskRest, ReissueCalls, RevokeCalls, ClaimCalls

\* A request begins or ends: the others are where they were.
LEMMA DeskStep ==
  ASSUME TerminalsTyped, NEW d \in Desks,
         NEW c \in {DeskRest} \cup ReissueCalls \cup RevokeCalls \cup ClaimCalls,
         deskCalls' = [deskCalls EXCEPT ![d] = c]
  PROVE  /\ deskCalls'[d] = c
         /\ \A e \in Desks : e # d => /\ deskCalls'[e] = deskCalls[e]
                                      /\ Reissuing(e)' = Reissuing(e)
                                      /\ Managing(e)' = Managing(e)
         /\ deskCalls' \in [Desks -> {DeskRest} \cup ReissueCalls \cup RevokeCalls
                                       \cup ClaimCalls]
BY DEF TerminalsTyped, Reissuing, Managing

LEMMA InitTerminals == TerminalInit => TerminalsInv
<1> SUFFICES ASSUME TerminalInit  PROVE TerminalsInv
  OBVIOUS
<1> USE DEF TerminalInit, NoTerminal, NoCode, DeskRest, Reissuing, Managing
<1>1. TerminalsTyped
  BY DEF TerminalsTyped, TerminalRows
<1>2. CodesIssued /\ CodesApart /\ CodesSpent /\ SeenStands
  BY DEF CodesIssued, CodesApart, CodesSpent, SeenStands
<1>3. PairingIsExclusive
  BY DEF PairingIsExclusive, CodesBindOneDevice, DevicesSitOnOneTerminal, OnlyActiveIsBound
<1> QED  BY <1>1, <1>2, <1>3 DEF TerminalsInv

LEMMA CreateKeepsPairing ==
  ASSUME TerminalsInv, NEW t \in TerminalIds, CreateTerminal(t)
  PROVE  TerminalsInv'
<1> DEFINE row == [status |-> "PENDING", uid |-> NoUid, code |-> codes + 1, live |-> TRUE]
<1>1. /\ terminals[t].status = "ABSENT" /\ codes' = codes + 1
      /\ terminals' = [terminals EXCEPT ![t] = row]
      /\ UNCHANGED <<deskCalls, claims, claimRaced>>
  BY DEF CreateTerminal, Issue
<1>2. row \in TerminalRows /\ row.code = codes + 1 /\ row.uid = NoUid
      /\ row.status = "PENDING"
  BY DEF TerminalsInv, TerminalsTyped, TerminalRows
<1>3. /\ terminals'[t] = row
      /\ \A o \in TerminalIds : o # t => terminals'[o] = terminals[o]
      /\ \A o \in TerminalIds : terminals[o] \in TerminalRows
      /\ codes \in Nat
  BY <1>1 DEF TerminalsInv, TerminalsTyped
<1>4. \A d \in Desks : Reissuing(d) => deskCalls[d].code \in Nat
  BY DeskFacts DEF TerminalsInv, ReissueCalls
<1> HIDE DEF row
<1>5. TerminalsTyped'
  BY <1>1, <1>2 DEF TerminalsInv, TerminalsTyped
<1>6. CodesIssued'
  BY <1>1, <1>2, <1>3, <1>4 DEF TerminalsInv, CodesIssued, Reissuing, TerminalRows
<1>7. CodesApart'
  BY <1>1, <1>2, <1>3, <1>4 DEF TerminalsInv, CodesIssued, CodesApart, Reissuing, TerminalRows
<1>8. CodesSpent'
  BY <1>1, <1>2, <1>3, <1>4 DEF TerminalsInv, CodesIssued, CodesSpent, Reissuing, TerminalRows
<1>9. SeenStands'
  BY <1>1, <1>2, <1>3, DeskFacts DEF TerminalsInv, SeenStands, Managing
<1>10. PairingIsExclusive'
  BY <1>1, <1>2, <1>3 DEF TerminalsInv, PairingIsExclusive, CodesBindOneDevice,
     DevicesSitOnOneTerminal, OnlyActiveIsBound
<1> QED  BY <1>5, <1>6, <1>7, <1>8, <1>9, <1>10 DEF TerminalsInv

\* A handler that only reads.
LEMMA LoadKeepsPairing ==
  ASSUME TerminalsInv, NEW d \in Desks, NEW t \in TerminalIds,
         \/ LoadReissue(d, t) \/ LoadRevoke(d, t) \/ \E u \in Uids : LoadClaim(d, u, t)
  PROVE  TerminalsInv'
<1>1. PICK c \in {DeskRest} \cup ReissueCalls \cup RevokeCalls \cup ClaimCalls :
        /\ deskCalls' = [deskCalls EXCEPT ![d] = c]
        /\ c.op \in {"reissue", "revoke"} => c.terminal = t /\ c.seen = terminals[t]
        /\ c.op = "reissue" => c.code = codes + 1 /\ codes' = codes + 1
        /\ c.op = "claim" => c.code # NoCode
        /\ codes' \in {codes, codes + 1}
        /\ UNCHANGED <<terminals, claims, claimRaced>>
  <2>1. terminals[t] \in TerminalRows /\ codes \in Nat
    BY DEF TerminalsInv, TerminalsTyped
  <2>2. CASE LoadReissue(d, t)
    <3> DEFINE c == [op |-> "reissue", terminal |-> t, seen |-> terminals[t],
                     code |-> codes + 1]
    <3>1. c \in ReissueCalls
      BY <2>1 DEF ReissueCalls
    <3> QED  BY <2>2, <3>1 DEF LoadReissue, Issue, AtDesk
  <2>3. CASE LoadRevoke(d, t)
    <3> DEFINE c == [op |-> "revoke", terminal |-> t, seen |-> terminals[t]]
    <3>1. c \in RevokeCalls
      BY <2>1 DEF RevokeCalls
    <3> QED  BY <2>3, <3>1 DEF LoadRevoke, AtDesk
  <2>4. ASSUME NEW u \in Uids, LoadClaim(d, u, t)
        PROVE  \E c \in ClaimCalls : /\ deskCalls' = [deskCalls EXCEPT ![d] = c]
                                     /\ c.op = "claim" /\ c.code # NoCode
                                     /\ codes' = codes
                                     /\ UNCHANGED <<terminals, claims, claimRaced>>
    <3> DEFINE c == [op |-> "claim", terminal |-> t, uid |-> u, code |-> terminals[t].code]
    <3>1. c \in ClaimCalls
      BY <2>1 DEF ClaimCalls, TerminalRows
    <3> QED  BY <2>4, <3>1 DEF LoadClaim, AtDesk
  <2> QED  BY <2>2, <2>3, <2>4
<1>2. /\ deskCalls'[d] = c
      /\ \A e \in Desks : e # d => /\ deskCalls'[e] = deskCalls[e]
                                   /\ Reissuing(e)' = Reissuing(e)
                                   /\ Managing(e)' = Managing(e)
      /\ deskCalls' \in [Desks -> {DeskRest} \cup ReissueCalls \cup RevokeCalls
                                    \cup ClaimCalls]
  BY <1>1, DeskStep DEF TerminalsInv
<1>3. /\ codes \in Nat /\ \A o \in TerminalIds : terminals[o].code \in Nat
      /\ \A e \in Desks : Reissuing(e) => deskCalls[e].code \in Nat
  BY DeskFacts DEF TerminalsInv, TerminalsTyped, TerminalRows, ReissueCalls
<1>4. TerminalsTyped'
  BY <1>1, <1>2, <1>3 DEF TerminalsInv, TerminalsTyped
<1>5. CodesIssued'
  BY <1>1, <1>2, <1>3 DEF TerminalsInv, CodesIssued, Reissuing, NoCode
<1>6. CodesApart'
  BY <1>1, <1>2, <1>3 DEF TerminalsInv, CodesIssued, CodesApart, Reissuing
<1>7. CodesSpent'
  BY <1>1, <1>2, <1>3 DEF TerminalsInv, CodesIssued, CodesSpent, Reissuing
<1>8. PairingIsExclusive'
  BY <1>1 DEF TerminalsInv, PairingIsExclusive, CodesBindOneDevice,
     DevicesSitOnOneTerminal, OnlyActiveIsBound
<1>9. SeenStands'
  BY <1>1, <1>2 DEF TerminalsInv, SeenStands, PairingIsExclusive, OnlyActiveIsBound, Managing
<1> QED  BY <1>4, <1>5, <1>6, <1>7, <1>8, <1>9 DEF TerminalsInv

\* A request that ends, and the one row it may have written.
LEMMA RowStep ==
  ASSUME TerminalsInv, NEW d \in Desks, LeaveDesk(d),
         NEW t \in TerminalIds, NEW row \in TerminalRows,
         terminals' = [terminals EXCEPT ![t] = row], codes' = codes
  PROVE  /\ TerminalsTyped'
         /\ terminals'[t] = row
         /\ \A o \in TerminalIds : o # t => terminals'[o] = terminals[o]
         /\ ~Reissuing(d)' /\ ~Managing(d)' /\ deskCalls'[d].op = "none"
         /\ \A e \in Desks : e # d => /\ deskCalls'[e] = deskCalls[e]
                                      /\ Reissuing(e)' = Reissuing(e)
                                      /\ Managing(e)' = Managing(e)
<1>1. /\ deskCalls'[d] = DeskRest
      /\ \A e \in Desks : e # d => /\ deskCalls'[e] = deskCalls[e]
                                   /\ Reissuing(e)' = Reissuing(e)
                                   /\ Managing(e)' = Managing(e)
      /\ deskCalls' \in [Desks -> {DeskRest} \cup ReissueCalls \cup RevokeCalls
                                    \cup ClaimCalls]
  BY DeskStep DEF TerminalsInv, LeaveDesk
<1> QED  BY <1>1 DEF TerminalsInv, TerminalsTyped, Reissuing, Managing, DeskRest

\* A row that keeps its code or loses it.
LEMMA CodeDropped ==
  ASSUME TerminalsInv, NEW d \in Desks, LeaveDesk(d),
         NEW t \in TerminalIds, NEW row \in TerminalRows,
         row.code \in {NoCode, terminals[t].code},
         terminals' = [terminals EXCEPT ![t] = row], UNCHANGED <<codes, claims>>
  PROVE  CodesIssued' /\ CodesApart' /\ CodesSpent'
<1>1. /\ terminals'[t] = row
      /\ \A o \in TerminalIds : o # t => terminals'[o] = terminals[o]
      /\ ~Reissuing(d)' /\ deskCalls'[d].op = "none"
      /\ \A e \in Desks : e # d => /\ deskCalls'[e] = deskCalls[e]
                                   /\ Reissuing(e)' = Reissuing(e)
  BY RowStep
<1>2. codes \in Nat /\ \A o \in TerminalIds : terminals[o].code \in Nat
  BY DEF TerminalsInv, TerminalsTyped, TerminalRows
<1>3. CodesIssued'
  BY <1>1, <1>2 DEF TerminalsInv, CodesIssued, NoCode
<1>4. CodesApart'
  BY <1>1, <1>2 DEF TerminalsInv, CodesIssued, CodesApart, NoCode
<1>5. CodesSpent'
  BY <1>1, <1>2 DEF TerminalsInv, CodesIssued, CodesSpent, NoCode
<1> QED  BY <1>3, <1>4, <1>5

LEMMA ReissueKeepsPairing ==
  ASSUME TerminalsInv, NEW d \in Desks, CommitReissue(d)
  PROVE  TerminalsInv'
<1> DEFINE c == deskCalls[d]
           t == c.terminal
           row == [terminals[t] EXCEPT
                     !.code = c.code, !.live = TRUE,
                     !.status = IF c.seen.status = "REVOKED" THEN "PENDING" ELSE @]
<1>1. Reissuing(d) /\ Managing(d) /\ LeaveDesk(d) /\ UNCHANGED <<codes, claims, claimRaced>>
  BY DEF CommitReissue, Reissuing, Managing
<1>2. /\ c \in ReissueCalls /\ t \in TerminalIds /\ terminals[t] \in TerminalRows
      /\ c.code \in Nat
  BY <1>1, DeskFacts DEF TerminalsInv, TerminalsTyped, ReissueCalls
<1>3. /\ row \in TerminalRows /\ row.code = c.code /\ row.uid = terminals[t].uid
      /\ row.status = IF c.seen.status = "REVOKED" THEN "PENDING" ELSE terminals[t].status
  BY <1>2 DEF TerminalRows
<1>4. terminals' = [terminals EXCEPT ![t] = row]
  BY <1>1, <1>2 DEF CommitReissue, TerminalRows, TerminalsInv, TerminalsTyped
<1> HIDE DEF row
<1>5. /\ TerminalsTyped' /\ terminals'[t] = row
      /\ \A o \in TerminalIds : o # t => terminals'[o] = terminals[o]
      /\ ~Reissuing(d)' /\ ~Managing(d)' /\ deskCalls'[d].op = "none"
      /\ \A e \in Desks : e # d => /\ deskCalls'[e] = deskCalls[e]
                                   /\ Reissuing(e)' = Reissuing(e)
                                   /\ Managing(e)' = Managing(e)
  BY <1>1, <1>2, <1>3, <1>4, RowStep
<1>6. CodesIssued'
  BY <1>1, <1>2, <1>3, <1>5 DEF TerminalsInv, CodesIssued
<1>7. CodesApart'
  BY <1>1, <1>2, <1>3, <1>5 DEF TerminalsInv, CodesApart
<1>8. CodesSpent'
  BY <1>1, <1>2, <1>3, <1>5 DEF TerminalsInv, CodesSpent
<1>9. SeenStands'
  <2>1. \A e \in Desks : Managing(e)' =>
          /\ Managing(e) /\ deskCalls'[e] = deskCalls[e]
          /\ deskCalls[e].terminal \in TerminalIds
    BY <1>5, DeskFacts DEF TerminalsInv
  <2>2. \A o \in TerminalIds : terminals'[o].uid = terminals[o].uid
    BY <1>3, <1>5
  <2> QED  BY <1>1, <2>1, <2>2 DEF TerminalsInv, SeenStands
<1>10. t \notin claimRaced => (row.uid # NoUid <=> row.status = "ACTIVE")
  BY <1>1, <1>2, <1>3 DEF TerminalsInv, SeenStands, PairingIsExclusive, OnlyActiveIsBound
<1>11. PairingIsExclusive'
  BY <1>1, <1>2, <1>3, <1>5, <1>10 DEF TerminalsInv, PairingIsExclusive, CodesBindOneDevice,
     DevicesSitOnOneTerminal, OnlyActiveIsBound
<1> QED  BY <1>5, <1>6, <1>7, <1>8, <1>9, <1>11 DEF TerminalsInv

LEMMA RevokeKeepsPairing ==
  ASSUME TerminalsInv, NEW d \in Desks, CommitRevoke(d)
  PROVE  TerminalsInv'
<1> DEFINE c == deskCalls[d]
           t == c.terminal
           row == Revoked(terminals[t], c.seen)
<1>1. /\ c.op = "revoke" /\ Managing(d) /\ LeaveDesk(d)
      /\ UNCHANGED <<codes, claims, claimRaced>>
      /\ terminals' = [terminals EXCEPT ![t] = row]
  BY DEF CommitRevoke, Managing
<1>2. t \in TerminalIds /\ terminals[t] \in TerminalRows /\ c.seen \in TerminalRows
  BY <1>1, DeskFacts DEF TerminalsInv, TerminalsTyped
<1>3. /\ row \in TerminalRows /\ row.code \in {NoCode, terminals[t].code}
      /\ row.uid = IF c.seen.uid # NoUid THEN NoUid ELSE terminals[t].uid
      /\ row.status = IF c.seen.status # "REVOKED" THEN "REVOKED" ELSE terminals[t].status
  BY <1>2 DEF TerminalRows, Revoked, NoCode
<1> HIDE DEF row
<1>5. /\ TerminalsTyped' /\ terminals'[t] = row
      /\ \A o \in TerminalIds : o # t => terminals'[o] = terminals[o]
      /\ ~Reissuing(d)' /\ ~Managing(d)' /\ deskCalls'[d].op = "none"
      /\ \A e \in Desks : e # d => /\ deskCalls'[e] = deskCalls[e]
                                   /\ Reissuing(e)' = Reissuing(e)
                                   /\ Managing(e)' = Managing(e)
  BY <1>1, <1>2, <1>3, RowStep
<1>6. CodesIssued' /\ CodesApart' /\ CodesSpent'
  BY <1>1, <1>2, <1>3, CodeDropped
<1>7. t \notin claimRaced => row.uid = NoUid /\ row.status # "ACTIVE"
  BY <1>1, <1>2, <1>3 DEF TerminalsInv, SeenStands, PairingIsExclusive, OnlyActiveIsBound
<1>8. SeenStands'
  BY <1>1, <1>2, <1>5, <1>7 DEF TerminalsInv, SeenStands
<1>9. PairingIsExclusive'
  BY <1>1, <1>2, <1>3, <1>5, <1>7 DEF TerminalsInv, PairingIsExclusive, CodesBindOneDevice,
     DevicesSitOnOneTerminal, OnlyActiveIsBound
<1> QED  BY <1>5, <1>6, <1>8, <1>9 DEF TerminalsInv

\* The claim that wins: its code was with the terminal, so it was not spent.
LEMMA ClaimKeepsPairing ==
  ASSUME TerminalsInv, NEW d \in Desks, CommitClaim(d)
  PROVE  TerminalsInv'
<1> DEFINE c == deskCalls[d]
           t == c.terminal
           row == [status |-> "ACTIVE", uid |-> c.uid, code |-> NoCode, live |-> FALSE]
<1>1. /\ c.op = "claim" /\ LeaveDesk(d) /\ codes' = codes
      /\ terminals[t].code = c.code /\ UidIsFree(c)
      /\ terminals' = [terminals EXCEPT ![t] = row]
      /\ claims' = claims \cup {<<c.code, c.uid>>}
      /\ claimRaced \subseteq claimRaced'
      /\ \A e \in Desks : Managing(e) /\ deskCalls[e].terminal = t => t \in claimRaced'
  BY DEF CommitClaim, CodeStands, Managing
<1>2. /\ c \in ClaimCalls /\ t \in TerminalIds /\ c.uid \in Uids /\ c.code \in Nat
      /\ c.code # NoCode /\ ~Reissuing(d) /\ ~Managing(d)
  BY <1>1, DeskFacts DEF TerminalsInv, ClaimCalls, CodesIssued, Reissuing, Managing
<1>3. /\ row \in TerminalRows /\ row.code = NoCode /\ row.uid = c.uid /\ row.uid # NoUid
      /\ row.status = "ACTIVE"
  BY <1>2, TerminalsAssumption DEF TerminalRows, NoCode
<1> HIDE DEF row
<1>4. /\ TerminalsTyped' /\ terminals'[t] = row
      /\ \A o \in TerminalIds : o # t => terminals'[o] = terminals[o]
      /\ ~Reissuing(d)' /\ ~Managing(d)' /\ deskCalls'[d].op = "none"
      /\ \A e \in Desks : e # d => /\ deskCalls'[e] = deskCalls[e]
                                   /\ Reissuing(e)' = Reissuing(e)
                                   /\ Managing(e)' = Managing(e)
  BY <1>1, <1>2, <1>3, RowStep
<1>5. codes \in Nat /\ \A o \in TerminalIds : terminals[o].code \in Nat
  BY DEF TerminalsInv, TerminalsTyped, TerminalRows
<1>6. \A p \in claims : p[1] # c.code
  BY <1>1, <1>2 DEF TerminalsInv, CodesSpent
<1>7. CodesIssued'
  BY <1>1, <1>2, <1>3, <1>4, <1>5 DEF TerminalsInv, CodesIssued, NoCode
<1>8. CodesApart'
  BY <1>1, <1>2, <1>3, <1>4, <1>5 DEF TerminalsInv, CodesIssued, CodesApart, NoCode
<1>9. CodesSpent'
  <2>1. \A o \in TerminalIds : terminals'[o].code # c.code
    BY <1>1, <1>2, <1>3, <1>4 DEF TerminalsInv, CodesApart
  <2>2. \A e \in Desks : Reissuing(e)' => deskCalls'[e].code # c.code
    BY <1>1, <1>2, <1>4 DEF TerminalsInv, CodesApart
  <2>3. \A p \in claims : /\ \A o \in TerminalIds : terminals'[o].code # p[1]
                          /\ \A e \in Desks : Reissuing(e)' => deskCalls'[e].code # p[1]
    BY <1>2, <1>3, <1>4 DEF TerminalsInv, CodesSpent, CodesIssued
  <2> QED  BY <1>1, <2>1, <2>2, <2>3 DEF CodesSpent
<1>10. SeenStands'
  BY <1>1, <1>2, <1>4 DEF TerminalsInv, SeenStands
<1>11. CodesBindOneDevice'
  BY <1>1, <1>6 DEF TerminalsInv, PairingIsExclusive, CodesBindOneDevice
<1>12. DevicesSitOnOneTerminal'
  BY <1>1, <1>3, <1>4 DEF TerminalsInv, PairingIsExclusive, DevicesSitOnOneTerminal, UidIsFree
<1>13. OnlyActiveIsBound'
  BY <1>1, <1>3, <1>4 DEF TerminalsInv, PairingIsExclusive, OnlyActiveIsBound
<1> QED  BY <1>4, <1>7, <1>8, <1>9, <1>10, <1>11, <1>12, <1>13
         DEF TerminalsInv, PairingIsExclusive

LEMMA NextTerminals == TerminalsInv /\ [TerminalNext]_terminalVars => TerminalsInv'
<1> SUFFICES ASSUME TerminalsInv, [TerminalNext]_terminalVars  PROVE TerminalsInv'
  OBVIOUS
<1>1. ASSUME NEW t \in TerminalIds, CreateTerminal(t)  PROVE TerminalsInv'
  BY <1>1, CreateKeepsPairing
<1>2. ASSUME NEW t \in TerminalIds, CodeExpires(t)  PROVE TerminalsInv'
  <2> DEFINE row == [terminals[t] EXCEPT !.live = FALSE]
  <2>1. /\ row \in TerminalRows /\ row.code = terminals[t].code
        /\ row.uid = terminals[t].uid /\ row.status = terminals[t].status
    BY DEF TerminalsInv, TerminalsTyped, TerminalRows
  <2>2. terminals' = [terminals EXCEPT ![t] = row]
        /\ UNCHANGED <<codes, deskCalls, claims, claimRaced>>
    BY <1>2 DEF CodeExpires
  <2> HIDE DEF row
  <2>3. /\ terminals' \in [TerminalIds -> TerminalRows]
        /\ \A o \in TerminalIds : /\ terminals'[o].code = terminals[o].code
                                  /\ terminals'[o].uid = terminals[o].uid
                                  /\ terminals'[o].status = terminals[o].status
    BY <2>1, <2>2 DEF TerminalsInv, TerminalsTyped
  <2>4. TerminalsTyped' /\ CodesIssued' /\ CodesApart' /\ CodesSpent'
    BY <2>2, <2>3 DEF TerminalsInv, TerminalsTyped, CodesIssued, CodesApart, CodesSpent,
       Reissuing
  <2>5. SeenStands'
    BY <2>2, <2>3, DeskFacts DEF TerminalsInv, SeenStands, Managing
  <2>6. PairingIsExclusive'
    BY <2>2, <2>3 DEF TerminalsInv, PairingIsExclusive, CodesBindOneDevice,
       DevicesSitOnOneTerminal, OnlyActiveIsBound
  <2> QED  BY <2>4, <2>5, <2>6 DEF TerminalsInv
<1>3. ASSUME NEW d \in Desks, NEW t \in TerminalIds,
             \/ LoadReissue(d, t) \/ LoadRevoke(d, t)
             \/ \E u \in Uids : LoadClaim(d, u, t)
      PROVE  TerminalsInv'
  BY <1>3, LoadKeepsPairing
<1>4. ASSUME NEW d \in Desks, CommitReissue(d) \/ CommitRevoke(d) \/ CommitClaim(d)
      PROVE  TerminalsInv'
  BY <1>4, ReissueKeepsPairing, RevokeKeepsPairing, ClaimKeepsPairing
<1>5. ASSUME NEW d \in Desks, DeskRollback(d)  PROVE TerminalsInv'
  <2>1. /\ deskCalls'[d] = DeskRest
        /\ \A e \in Desks : e # d => /\ deskCalls'[e] = deskCalls[e]
                                     /\ Reissuing(e)' = Reissuing(e)
                                     /\ Managing(e)' = Managing(e)
        /\ deskCalls' \in [Desks -> {DeskRest} \cup ReissueCalls \cup RevokeCalls
                                      \cup ClaimCalls]
        /\ UNCHANGED <<terminals, codes, claims, claimRaced>>
    BY <1>5, DeskStep DEF TerminalsInv, LeaveDesk, DeskRollback
  <2>2. ~Reissuing(d)' /\ ~Managing(d)' /\ deskCalls'[d].op = "none"
    BY <2>1 DEF Reissuing, Managing, DeskRest
  <2>3. TerminalsTyped' /\ CodesIssued' /\ CodesApart' /\ CodesSpent'
    BY <2>1, <2>2 DEF TerminalsInv, TerminalsTyped, CodesIssued, CodesApart, CodesSpent
  <2>4. SeenStands' /\ PairingIsExclusive'
    BY <2>1, <2>2 DEF TerminalsInv, SeenStands, PairingIsExclusive, CodesBindOneDevice,
       DevicesSitOnOneTerminal, OnlyActiveIsBound
  <2> QED  BY <2>3, <2>4 DEF TerminalsInv
<1>6. CASE UNCHANGED terminalVars
  BY <1>6 DEF terminalVars, TerminalsInv, TerminalsTyped, CodesIssued, CodesApart,
     CodesSpent, SeenStands, Reissuing, Managing, PairingIsExclusive, CodesBindOneDevice,
     DevicesSitOnOneTerminal, OnlyActiveIsBound
<1> QED  BY <1>1, <1>2, <1>3, <1>4, <1>5, <1>6 DEF TerminalNext

\* A code binds one device, a device sits on one terminal and a terminal is active
\* exactly while it is bound, for any number of devices, managers and requests in
\* progress (DeviceService.activate, reissue, revoke).
THEOREM PairingStaysExclusive == TerminalSpec => []PairingIsExclusive
<1>1. TerminalSpec => []TerminalsInv
  BY InitTerminals, NextTerminals, PTL DEF TerminalSpec
<1> QED  BY <1>1, PTL DEF TerminalsInv

--------------------------------------------------------------------------------
(* Cash drawers *)

ShiftRows ==
  [status : {"OPEN", "CLOSED"}, user : Cashiers, float : Nat, declared : Nat,
   expected : Int, variance : Int, approved : BOOLEAN]
CashRows == [shift : ShiftIds, kind : CashKinds, amount : Nat]
OpenCalls == [op : {"open"}, float : Nat]
CashCalls == [op : {"cash"}, shift : ShiftIds, kind : CashKinds, amount : Nat]
CloseCalls == [op : {"close"}, shift : ShiftIds, declared : Nat, expected : Int]
DrawerCalls == {DrawerRest} \cup OpenCalls \cup CashCalls \cup CloseCalls

ShiftsTyped ==
  /\ signedOn \in [Drawers -> Cashiers]
  /\ shifts \in [ShiftIds -> {NoShift} \cup ShiftRows]
  /\ cashRows \in Seq(CashRows)
  /\ drawerCalls \in [Drawers -> DrawerCalls]

Opening(s) == drawerCalls[s].op = "open"
Stamping(s) == drawerCalls[s].op = "cash"
Closing(s) == drawerCalls[s].op = "close"

\* A closing whose shift saw no cash meanwhile holds what the rows add up to, and
\* a variance beyond the limit is in a manager's hands.
ClosingStands ==
  \A s \in Drawers : Closing(s) =>
    LET c == drawerCalls[s]
    IN /\ shifts[c.shift].status # "ABSENT"
       /\ NeedsApproval(c.declared - c.expected) => signedOn[s] \in Managers
       /\ c.shift \notin lateCash => c.expected = ExpectedCash(c.shift)

\* No row is being stamped with a shift that is closed or closing, unless the
\* overlap was seen.
NothingLate ==
  \A s \in Drawers : Stamping(s) /\ drawerCalls[s].shift \notin lateCash =>
    /\ shifts[drawerCalls[s].shift].status # "CLOSED"
    /\ \A v \in Drawers : Closing(v) => drawerCalls[v].shift # drawerCalls[s].shift

ClosedStands ==
  \A i \in ShiftIds : shifts[i].status = "CLOSED" =>
    /\ shifts[i].variance = shifts[i].declared - shifts[i].expected
    /\ NeedsApproval(shifts[i].variance) => shifts[i].approved
    /\ i \notin lateCash => shifts[i].expected = ExpectedCash(i)

\* A cashier who is opening a drawer has none, and opens no other.
OpeningAlone ==
  \A s \in Drawers : Opening(s) /\ signedOn[s] \notin openRace =>
    /\ OpenShiftsOf(signedOn[s]) = {}
    /\ \A v \in Drawers : Opening(v) /\ signedOn[v] = signedOn[s] => v = s

ShiftsInv ==
  /\ ShiftsTyped /\ ClosingStands /\ NothingLate /\ ClosedStands /\ OpeningAlone
  /\ OneDrawerPerCashier

LEMMA DrawerFacts ==
  ASSUME ShiftsTyped, NEW s \in Drawers
  PROVE  /\ Opening(s) => drawerCalls[s] \in OpenCalls
         /\ Stamping(s) => drawerCalls[s] \in CashCalls
         /\ Closing(s) => drawerCalls[s] \in CloseCalls
BY DEF ShiftsTyped, DrawerCalls, Opening, Stamping, Closing, DrawerRest, OpenCalls,
       CashCalls, CloseCalls

LEMMA DrawerStep ==
  ASSUME ShiftsTyped, NEW s \in Drawers, NEW c \in DrawerCalls,
         drawerCalls' = [drawerCalls EXCEPT ![s] = c]
  PROVE  /\ drawerCalls'[s] = c
         /\ \A v \in Drawers : v # s => /\ drawerCalls'[v] = drawerCalls[v]
                                        /\ Opening(v)' = Opening(v)
                                        /\ Stamping(v)' = Stamping(v)
                                        /\ Closing(v)' = Closing(v)
         /\ drawerCalls' \in [Drawers -> DrawerCalls]
BY DEF ShiftsTyped, Opening, Stamping, Closing

LEMMA SignedIsInt ==
  ASSUME NEW row, row.amount \in Nat
  PROVE  Signed(row) \in Int
BY DEF Signed

\* The rows of one shift.
RowsOf(rows, i) == {n \in DOMAIN rows : rows[n].shift = i}

LEMMA CashRowFacts ==
  ASSUME NEW rows \in Seq(CashRows)
  PROVE  /\ IsFiniteSet(DOMAIN rows)
         /\ \A n \in DOMAIN rows : /\ rows[n] \in CashRows /\ rows[n].amount \in Nat
                                   /\ Signed(rows[n]) \in Int
<1>1. DOMAIN rows = 1 .. Len(rows) /\ Len(rows) \in Nat
  OBVIOUS
<1>2. IsFiniteSet(1 .. Len(rows))
  BY <1>1, FS_Interval
<1>3. \A n \in DOMAIN rows : rows[n] \in CashRows
  OBVIOUS
<1>4. \A n \in DOMAIN rows : rows[n].amount \in Nat
  BY <1>3 DEF CashRows
<1> QED  BY <1>1, <1>2, <1>3, <1>4, SignedIsInt

\* What the drawer should hold is its float, what came in and what went out.
LEMMA ExpectedByKind ==
  ASSUME ShiftsTyped, NEW i \in ShiftIds, shifts[i].float \in Nat
  PROVE  ExpectedCash(i) = shifts[i].float + CashOf(i, {"SALE", "PAID_IN", "PICKUP"})
                                           - CashOf(i, {"REFUND", "PAID_OUT", "DROP"})
<1> DEFINE all == DOMAIN cashRows
           Part(kinds) == {n \in all : cashRows[n].shift = i /\ cashRows[n].kind \in kinds}
           in == Part({"SALE", "PAID_IN", "PICKUP"})
           out == Part({"REFUND", "PAID_OUT", "DROP"})
           its == {n \in all : cashRows[n].shift = i}
           signed == [n \in all |-> Signed(cashRows[n])]
           amounts == [n \in all |-> cashRows[n].amount]
           inCol == [n \in all |-> IF n \in in THEN cashRows[n].amount ELSE 0]
           outCol == [n \in all |-> IF n \in out THEN cashRows[n].amount ELSE 0]
           sumCol == [n \in all |-> IF n \in its THEN Signed(cashRows[n]) ELSE 0]
<1>1. /\ IsFiniteSet(all)
      /\ \A n \in all : cashRows[n].amount \in Nat /\ Signed(cashRows[n]) \in Int
  BY CashRowFacts DEF ShiftsTyped
<1>2. ASSUME NEW n \in all
      PROVE  /\ inCol[n] \in Int /\ outCol[n] \in Int /\ sumCol[n] \in Int
             /\ inCol[n] = outCol[n] + sumCol[n]
  BY <1>1 DEF Signed
<1>3. in \in SUBSET all /\ out \in SUBSET all /\ its \in SUBSET all
  OBVIOUS
<1>4. /\ \A n \in in : amounts[n] \in Int /\ inCol[n] = amounts[n]
      /\ \A n \in all \ in : inCol[n] = 0
  BY <1>1
<1>5. /\ \A n \in out : amounts[n] \in Int /\ outCol[n] = amounts[n]
      /\ \A n \in all \ out : outCol[n] = 0
  BY <1>1
<1>6. /\ \A n \in its : signed[n] \in Int /\ sumCol[n] = signed[n]
      /\ \A n \in all \ its : sumCol[n] = 0
  BY <1>1
<1>7. /\ ExpectedCash(i) = shifts[i].float + SumOver(signed, its)
      /\ CashOf(i, {"SALE", "PAID_IN", "PICKUP"}) = SumOver(amounts, in)
      /\ CashOf(i, {"REFUND", "PAID_OUT", "DROP"}) = SumOver(amounts, out)
  BY DEF ExpectedCash, CashOf
<1> HIDE DEF in, out, its, signed, amounts, inCol, outCol, sumCol, all
<1>8. SumOver(amounts, in) = SumOver(inCol, all)
  BY <1>1, <1>3, <1>4, SumOfPart
<1>9. SumOver(amounts, out) = SumOver(outCol, all)
  BY <1>1, <1>3, <1>5, SumOfPart
<1>10. SumOver(signed, its) = SumOver(sumCol, all)
  BY <1>1, <1>3, <1>6, SumOfPart
<1>11. SumOver(inCol, all) = SumOver(outCol, all) + SumOver(sumCol, all)
  BY <1>1, <1>2, SumPlus
<1>12. SumOver(outCol, all) \in Int /\ SumOver(sumCol, all) \in Int
  BY <1>1, <1>2, SumIsInt
<1>13. \A a, b, c \in Int : a + c = a + (b + c) - b
  OBVIOUS
<1> QED  BY <1>7, <1>8, <1>9, <1>10, <1>11, <1>12, <1>13

\* A new row is nothing to the other shifts.
LEMMA OtherShiftsKeep ==
  ASSUME ShiftsTyped, ShiftsTyped', NEW row \in CashRows, cashRows' = Append(cashRows, row),
         NEW i \in ShiftIds, i # row.shift, shifts'[i] = shifts[i]
  PROVE  ExpectedCash(i)' = ExpectedCash(i)
<1> DEFINE S == {n \in DOMAIN cashRows : cashRows[n].shift = i}
           S2 == {n \in DOMAIN cashRows' : cashRows'[n].shift = i}
           f == [n \in DOMAIN cashRows |-> Signed(cashRows[n])]
           g == [n \in DOMAIN cashRows' |-> Signed(cashRows'[n])]
<1>1. /\ DOMAIN cashRows = 1 .. Len(cashRows) /\ Len(cashRows) \in Nat
      /\ DOMAIN cashRows' = 1 .. Len(cashRows) + 1
      /\ cashRows'[Len(cashRows) + 1] = row
      /\ \A n \in DOMAIN cashRows : cashRows'[n] = cashRows[n]
  BY DEF ShiftsTyped
<1>2. S2 = S
  BY <1>1
<1>3. \A n \in S : f[n] \in Int /\ f[n] = g[n]
  BY <1>1, CashRowFacts DEF ShiftsTyped
<1>4. IsFiniteSet(S)
  BY CashRowFacts, FS_Subset DEF ShiftsTyped
<1>5. /\ ExpectedCash(i) = shifts[i].float + SumOver(f, S)
      /\ ExpectedCash(i)' = shifts'[i].float + SumOver(g, S2)
  BY DEF ExpectedCash
<1> HIDE DEF f, g, S, S2
<1>6. SumOver(f, S) = SumOver(g, S)
  BY <1>3, <1>4, SumSame
<1> QED  BY <1>2, <1>5, <1>6

LEMMA InitShifts == ShiftInit => ShiftsInv
<1> SUFFICES ASSUME ShiftInit  PROVE ShiftsInv
  OBVIOUS
<1> USE DEF ShiftInit, NoShift, DrawerRest
<1>1. ShiftsTyped
  BY DEF ShiftsTyped, DrawerCalls
<1>2. ClosingStands /\ NothingLate /\ ClosedStands /\ OpeningAlone /\ OneDrawerPerCashier
  BY DEF ClosingStands, NothingLate, ClosedStands, OpeningAlone, OneDrawerPerCashier,
     Opening, Stamping, Closing
<1> QED  BY <1>1, <1>2 DEF ShiftsInv

LEMMA LoadOpenKeeps ==
  ASSUME ShiftsInv, NEW s \in Drawers, NEW float \in Floats, LoadOpen(s, float)
  PROVE  ShiftsInv'
<1> DEFINE c == [op |-> "open", float |-> float]
<1>1. /\ OpenShiftsOf(signedOn[s]) = {} /\ drawerCalls' = [drawerCalls EXCEPT ![s] = c]
      /\ UNCHANGED <<signedOn, shifts, cashRows, lateCash>>
      /\ openRace \subseteq openRace'
      /\ \A v \in Drawers \ {s} : Opening(v) /\ signedOn[v] = signedOn[s] =>
           signedOn[s] \in openRace'
  BY DEF LoadOpen, Enter, Opening
<1>2. c \in DrawerCalls /\ c.op = "open"
  BY ShiftsAssumption DEF DrawerCalls, OpenCalls
<1> HIDE DEF c
<1>3. /\ drawerCalls'[s] = c /\ drawerCalls' \in [Drawers -> DrawerCalls]
      /\ \A v \in Drawers : v # s => /\ drawerCalls'[v] = drawerCalls[v]
                                     /\ Opening(v)' = Opening(v)
                                     /\ Stamping(v)' = Stamping(v)
                                     /\ Closing(v)' = Closing(v)
      /\ ~Stamping(s)' /\ ~Closing(s)'
  BY <1>1, <1>2, DrawerStep DEF ShiftsInv, Stamping, Closing
<1>4. ShiftsTyped'
  BY <1>1, <1>3 DEF ShiftsInv, ShiftsTyped
<1>5. \A i : ExpectedCash(i)' = ExpectedCash(i)
  BY <1>1 DEF ExpectedCash
<1>6. ClosingStands'
  BY <1>1, <1>3, <1>5 DEF ShiftsInv, ClosingStands
<1>7. NothingLate'
  BY <1>1, <1>3 DEF ShiftsInv, NothingLate
<1>8. ClosedStands'
  BY <1>1, <1>5 DEF ShiftsInv, ClosedStands
<1>9. OpeningAlone'
  <2>1. \A u : OpenShiftsOf(u)' = OpenShiftsOf(u)
    BY <1>1 DEF OpenShiftsOf
  <2> QED  BY <1>1, <1>3, <2>1 DEF ShiftsInv, OpeningAlone
<1>10. OneDrawerPerCashier'
  BY <1>1 DEF ShiftsInv, OneDrawerPerCashier
<1> QED  BY <1>4, <1>6, <1>7, <1>8, <1>9, <1>10 DEF ShiftsInv

LEMMA CommitOpenKeeps ==
  ASSUME ShiftsInv, NEW s \in Drawers, CommitOpen(s)
  PROVE  ShiftsInv'
<1> DEFINE row == NewShift(signedOn[s], drawerCalls[s].float)
<1>1. PICK i \in ShiftIds :
        /\ shifts[i].status = "ABSENT" /\ shifts' = [shifts EXCEPT ![i] = row]
  BY DEF CommitOpen
<1>2. /\ Opening(s) /\ drawerCalls' = [drawerCalls EXCEPT ![s] = DrawerRest]
      /\ UNCHANGED <<signedOn, cashRows, lateCash, openRace>>
  BY DEF CommitOpen, Leave, Opening
<1>3. row \in ShiftRows /\ row.status = "OPEN" /\ row.user = signedOn[s]
  BY <1>2, DrawerFacts DEF ShiftsInv, ShiftsTyped, NewShift, ShiftRows, OpenCalls
<1> HIDE DEF row
<1>4. /\ drawerCalls' \in [Drawers -> DrawerCalls]
      /\ ~Opening(s)' /\ ~Stamping(s)' /\ ~Closing(s)'
      /\ \A v \in Drawers : v # s => /\ drawerCalls'[v] = drawerCalls[v]
                                     /\ Opening(v)' = Opening(v)
                                     /\ Stamping(v)' = Stamping(v)
                                     /\ Closing(v)' = Closing(v)
  BY <1>2, DrawerStep DEF ShiftsInv, Opening, Stamping, Closing, DrawerRest, DrawerCalls
<1>5. /\ shifts'[i] = row
      /\ \A j \in ShiftIds : j # i => shifts'[j] = shifts[j] /\ ExpectedCash(j)' = ExpectedCash(j)
  BY <1>1, <1>2 DEF ShiftsInv, ShiftsTyped, ExpectedCash
<1>6. ShiftsTyped'
  BY <1>1, <1>2, <1>3, <1>4 DEF ShiftsInv, ShiftsTyped
<1>7. \A v \in Drawers : /\ Closing(v) => drawerCalls[v].shift \in ShiftIds
                         /\ Stamping(v) => drawerCalls[v].shift \in ShiftIds
  BY DrawerFacts DEF ShiftsInv, CloseCalls, CashCalls
<1>8. ClosingStands'
  <2>1. \A v \in Drawers : Closing(v) => drawerCalls[v].shift # i
    BY <1>1 DEF ShiftsInv, ClosingStands
  <2> QED  BY <1>2, <1>4, <1>5, <1>7, <2>1 DEF ShiftsInv, ClosingStands
<1>9. NothingLate'
  BY <1>2, <1>3, <1>4, <1>5, <1>7 DEF ShiftsInv, NothingLate
<1>10. ClosedStands'
  BY <1>2, <1>3, <1>5 DEF ShiftsInv, ClosedStands
<1>11. \A u : u # signedOn[s] => OpenShiftsOf(u)' = OpenShiftsOf(u)
  BY <1>1, <1>3, <1>5 DEF OpenShiftsOf
<1>12. OpeningAlone'
  BY <1>2, <1>4, <1>11 DEF ShiftsInv, OpeningAlone
<1>13. OneDrawerPerCashier'
  <2>1. signedOn[s] \notin openRace =>
          \A j \in ShiftIds : ~(shifts[j].status = "OPEN" /\ shifts[j].user = signedOn[s])
    BY <1>2 DEF ShiftsInv, OpeningAlone, OpenShiftsOf
  <2> QED  BY <1>2, <1>3, <1>5, <2>1 DEF ShiftsInv, OneDrawerPerCashier
<1> QED  BY <1>6, <1>8, <1>9, <1>10, <1>12, <1>13 DEF ShiftsInv

LEMMA LoadCashKeeps ==
  ASSUME ShiftsInv, NEW s \in Drawers, NEW kind \in CashKinds, NEW amount \in CashAmounts,
         LoadCash(s, kind, amount)
  PROVE  ShiftsInv'
<1>1. PICK i \in ShiftIds :
        /\ shifts[i].status = "OPEN"
        /\ drawerCalls' = [drawerCalls EXCEPT ![s] =
             [op |-> "cash", shift |-> i, kind |-> kind, amount |-> amount]]
        /\ lateCash \subseteq lateCash'
        /\ \A v \in Drawers : Closing(v) /\ drawerCalls[v].shift = i => i \in lateCash'
        /\ UNCHANGED <<signedOn, shifts, cashRows, openRace>>
  BY DEF LoadCash, OpenShiftsOf, Enter, Closing
<1> DEFINE c == [op |-> "cash", shift |-> i, kind |-> kind, amount |-> amount]
<1>2. c \in DrawerCalls /\ c.op = "cash" /\ c.shift = i
  BY ShiftsAssumption DEF DrawerCalls, CashCalls
<1>3. drawerCalls' = [drawerCalls EXCEPT ![s] = c]
  BY <1>1
<1> HIDE DEF c
<1>4. /\ drawerCalls'[s] = c /\ drawerCalls' \in [Drawers -> DrawerCalls]
      /\ \A v \in Drawers : v # s => /\ drawerCalls'[v] = drawerCalls[v]
                                     /\ Opening(v)' = Opening(v)
                                     /\ Stamping(v)' = Stamping(v)
                                     /\ Closing(v)' = Closing(v)
      /\ ~Opening(s)' /\ ~Closing(s)'
  BY <1>2, <1>3, DrawerStep DEF ShiftsInv, Opening, Closing
<1>5. \A j : ExpectedCash(j)' = ExpectedCash(j) /\ OpenShiftsOf(j)' = OpenShiftsOf(j)
  BY <1>1 DEF ExpectedCash, OpenShiftsOf
<1>6. ShiftsTyped'
  BY <1>1, <1>4 DEF ShiftsInv, ShiftsTyped
<1>7. ClosingStands'
  BY <1>1, <1>4, <1>5 DEF ShiftsInv, ClosingStands
<1>8. NothingLate'
  BY <1>1, <1>2, <1>4 DEF ShiftsInv, NothingLate
<1>9. ClosedStands'
  BY <1>1, <1>5 DEF ShiftsInv, ClosedStands
<1>10. OpeningAlone'
  BY <1>1, <1>4, <1>5 DEF ShiftsInv, OpeningAlone
<1>11. OneDrawerPerCashier'
  BY <1>1 DEF ShiftsInv, OneDrawerPerCashier
<1> QED  BY <1>6, <1>7, <1>8, <1>9, <1>10, <1>11 DEF ShiftsInv

LEMMA CommitCashKeeps ==
  ASSUME ShiftsInv, NEW s \in Drawers, CommitCash(s)
  PROVE  ShiftsInv'
<1> DEFINE c == drawerCalls[s]
           row == [shift |-> c.shift, kind |-> c.kind, amount |-> c.amount]
<1>1. /\ Stamping(s) /\ cashRows' = Append(cashRows, row)
      /\ drawerCalls' = [drawerCalls EXCEPT ![s] = DrawerRest]
      /\ UNCHANGED <<signedOn, shifts, lateCash, openRace>>
  BY DEF CommitCash, Stamping, Leave
<1>2. row \in CashRows /\ row.shift = c.shift
  BY <1>1, DrawerFacts DEF ShiftsInv, CashRows, CashCalls
<1> HIDE DEF row
<1>3. /\ drawerCalls' \in [Drawers -> DrawerCalls]
      /\ ~Opening(s)' /\ ~Stamping(s)' /\ ~Closing(s)'
      /\ \A v \in Drawers : v # s => /\ drawerCalls'[v] = drawerCalls[v]
                                     /\ Opening(v)' = Opening(v)
                                     /\ Stamping(v)' = Stamping(v)
                                     /\ Closing(v)' = Closing(v)
  BY <1>1, DrawerStep DEF ShiftsInv, Opening, Stamping, Closing, DrawerRest, DrawerCalls
<1>4. ShiftsTyped'
  BY <1>1, <1>2, <1>3 DEF ShiftsInv, ShiftsTyped
<1>5. \A i \in ShiftIds : i # c.shift => ExpectedCash(i)' = ExpectedCash(i)
  BY <1>1, <1>2, <1>4, OtherShiftsKeep DEF ShiftsInv
<1>6. c.shift \notin lateCash =>
        /\ shifts[c.shift].status # "CLOSED"
        /\ \A v \in Drawers : Closing(v) => drawerCalls[v].shift # c.shift
  BY <1>1 DEF ShiftsInv, NothingLate
<1>7. \A v \in Drawers : Closing(v) => drawerCalls[v].shift \in ShiftIds
  BY DrawerFacts DEF ShiftsInv, CloseCalls
<1>8. ClosingStands'
  <2>1. ASSUME NEW v \in Drawers, Closing(v)'
        PROVE  LET d == drawerCalls[v]
               IN /\ drawerCalls'[v] = d /\ shifts[d.shift].status # "ABSENT"
                  /\ NeedsApproval(d.declared - d.expected) => signedOn[v] \in Managers
                  /\ d.shift \notin lateCash => d.expected = ExpectedCash(d.shift)'
    <3>1. v # s /\ Closing(v) /\ drawerCalls'[v] = drawerCalls[v]
      BY <1>3, <2>1
    <3>2. drawerCalls[v].shift \notin lateCash =>
            drawerCalls[v].shift # c.shift /\ drawerCalls[v].expected
                                             = ExpectedCash(drawerCalls[v].shift)
      BY <1>6, <3>1 DEF ShiftsInv, ClosingStands
    <3>3. drawerCalls[v].shift \notin lateCash =>
            drawerCalls[v].expected = ExpectedCash(drawerCalls[v].shift)'
      BY <1>5, <1>7, <3>1, <3>2
    <3> QED  BY <3>1, <3>3 DEF ShiftsInv, ClosingStands
  <2> QED  BY <1>1, <2>1 DEF ClosingStands
<1>9. NothingLate'
  BY <1>1, <1>3 DEF ShiftsInv, NothingLate
<1>10. ClosedStands'
  BY <1>1, <1>5, <1>6 DEF ShiftsInv, ClosedStands
<1>11. OpeningAlone'
  <2>1. \A u : OpenShiftsOf(u)' = OpenShiftsOf(u)
    BY <1>1 DEF OpenShiftsOf
  <2> QED  BY <1>1, <1>3, <2>1 DEF ShiftsInv, OpeningAlone
<1>12. OneDrawerPerCashier'
  BY <1>1 DEF ShiftsInv, OneDrawerPerCashier
<1> QED  BY <1>4, <1>8, <1>9, <1>10, <1>11, <1>12 DEF ShiftsInv

LEMMA LoadCloseKeeps ==
  ASSUME ShiftsInv, NEW s \in Drawers, NEW i \in ShiftIds, NEW declared \in Counts,
         LoadClose(s, i, declared)
  PROVE  ShiftsInv'
<1> DEFINE c == [op |-> "close", shift |-> i, declared |-> declared,
                 expected |-> ExpectedCash(i)]
<1>1. /\ shifts[i].status = "OPEN" /\ drawerCalls' = [drawerCalls EXCEPT ![s] = c]
      /\ NeedsApproval(declared - ExpectedCash(i)) => signedOn[s] \in Managers
      /\ lateCash \subseteq lateCash'
      /\ \A v \in Drawers : Stamping(v) /\ drawerCalls[v].shift = i => i \in lateCash'
      /\ UNCHANGED <<signedOn, shifts, cashRows, openRace>>
  BY DEF LoadClose, Enter, Stamping
<1>2. ExpectedCash(i) \in Int
  <2>1. shifts[i].float \in Nat
    BY <1>1 DEF ShiftsInv, ShiftsTyped, ShiftRows, NoShift
  <2> DEFINE S == {n \in DOMAIN cashRows : cashRows[n].shift = i}
             f == [n \in DOMAIN cashRows |-> Signed(cashRows[n])]
  <2>2. S \in SUBSET DOMAIN cashRows /\ IsFiniteSet(DOMAIN cashRows)
        /\ \A n \in DOMAIN cashRows : f[n] \in Int
    BY CashRowFacts DEF ShiftsInv, ShiftsTyped
  <2>3. ExpectedCash(i) = shifts[i].float + SumOver(f, S)
    BY DEF ExpectedCash
  <2> HIDE DEF S, f
  <2>4. SumOver(f, S) \in Int
    BY <2>2, SumIsInt
  <2> QED  BY <2>1, <2>3, <2>4
<1>3. /\ c \in DrawerCalls /\ c.op = "close" /\ c.shift = i /\ c.declared = declared
      /\ c.expected = ExpectedCash(i)
  BY <1>2, ShiftsAssumption DEF DrawerCalls, CloseCalls
<1> HIDE DEF c
<1>4. /\ drawerCalls'[s] = c /\ drawerCalls' \in [Drawers -> DrawerCalls]
      /\ \A v \in Drawers : v # s => /\ drawerCalls'[v] = drawerCalls[v]
                                     /\ Opening(v)' = Opening(v)
                                     /\ Stamping(v)' = Stamping(v)
                                     /\ Closing(v)' = Closing(v)
      /\ ~Opening(s)' /\ ~Stamping(s)'
  BY <1>1, <1>3, DrawerStep DEF ShiftsInv, Opening, Stamping
<1>5. \A j : ExpectedCash(j)' = ExpectedCash(j) /\ OpenShiftsOf(j)' = OpenShiftsOf(j)
  BY <1>1 DEF ExpectedCash, OpenShiftsOf
<1>6. ShiftsTyped'
  BY <1>1, <1>4 DEF ShiftsInv, ShiftsTyped
<1>7. ClosingStands'
  BY <1>1, <1>3, <1>4, <1>5 DEF ShiftsInv, ClosingStands
<1>8. NothingLate'
  BY <1>1, <1>3, <1>4 DEF ShiftsInv, NothingLate
<1>9. ClosedStands'
  BY <1>1, <1>5 DEF ShiftsInv, ClosedStands
<1>10. OpeningAlone'
  BY <1>1, <1>4, <1>5 DEF ShiftsInv, OpeningAlone
<1>11. OneDrawerPerCashier'
  BY <1>1 DEF ShiftsInv, OneDrawerPerCashier
<1> QED  BY <1>6, <1>7, <1>8, <1>9, <1>10, <1>11 DEF ShiftsInv

LEMMA CommitCloseKeeps ==
  ASSUME ShiftsInv, NEW s \in Drawers, CommitClose(s)
  PROVE  ShiftsInv'
<1> DEFINE c == drawerCalls[s]
           i == c.shift
           old == shifts[i]
           approved == old.approved \/ signedOn[s] \in Managers
           row == [old EXCEPT !.status = "CLOSED", !.declared = c.declared,
                              !.expected = c.expected,
                              !.variance = c.declared - c.expected,
                              !.approved = approved]
<1>1. /\ Closing(s) /\ drawerCalls' = [drawerCalls EXCEPT ![s] = DrawerRest]
      /\ UNCHANGED <<signedOn, cashRows, lateCash, openRace>>
  BY DEF CommitClose, Closing, Leave
<1>2. /\ c \in CloseCalls /\ i \in ShiftIds /\ old.status # "ABSENT"
      /\ NeedsApproval(c.declared - c.expected) => signedOn[s] \in Managers
      /\ i \notin lateCash => c.expected = ExpectedCash(i)
  BY <1>1, DrawerFacts DEF ShiftsInv, ClosingStands, CloseCalls
<1>3. old \in ShiftRows
  BY <1>2 DEF ShiftsInv, ShiftsTyped, NoShift
<1>4. shifts' = [shifts EXCEPT ![i] = row]
  BY <1>1, <1>2, <1>3 DEF CommitClose, ShiftsInv, ShiftsTyped, ShiftRows
<1>5. /\ row \in ShiftRows /\ row.status = "CLOSED" /\ row.declared = c.declared
      /\ row.expected = c.expected /\ row.variance = c.declared - c.expected
      /\ row.float = old.float /\ row.user = old.user
      /\ signedOn[s] \in Managers => row.approved
  <2>1. approved \in BOOLEAN /\ (signedOn[s] \in Managers => approved)
    BY Zenon
  <2> HIDE DEF approved
  <2>2. /\ c.declared \in Nat /\ c.expected \in Int /\ c.declared - c.expected \in Int
    BY <1>2 DEF CloseCalls
  <2>3. row \in ShiftRows
    BY <1>3, <2>1, <2>2 DEF ShiftRows
  <2>4. /\ row.status = "CLOSED" /\ row.declared = c.declared
        /\ row.expected = c.expected /\ row.variance = c.declared - c.expected
        /\ row.float = old.float /\ row.user = old.user
    BY <1>3 DEF ShiftRows
  <2>5. row.approved = approved
    BY <1>3 DEF ShiftRows
  <2> QED  BY <2>1, <2>3, <2>4, <2>5
<1> HIDE DEF row
<1>6. /\ drawerCalls' \in [Drawers -> DrawerCalls]
      /\ ~Opening(s)' /\ ~Stamping(s)' /\ ~Closing(s)'
      /\ \A v \in Drawers : v # s => /\ drawerCalls'[v] = drawerCalls[v]
                                     /\ Opening(v)' = Opening(v)
                                     /\ Stamping(v)' = Stamping(v)
                                     /\ Closing(v)' = Closing(v)
  BY <1>1, DrawerStep DEF ShiftsInv, Opening, Stamping, Closing, DrawerRest, DrawerCalls
<1>7. /\ shifts'[i] = row
      /\ \A j \in ShiftIds : j # i => shifts'[j] = shifts[j]
  BY <1>2, <1>4 DEF ShiftsInv, ShiftsTyped
<1>8. \A j \in ShiftIds : ExpectedCash(j)' = ExpectedCash(j)
  BY <1>1, <1>5, <1>7 DEF ExpectedCash
<1>9. ShiftsTyped'
  BY <1>1, <1>4, <1>5, <1>6 DEF ShiftsInv, ShiftsTyped
<1>10. \A v \in Drawers : Closing(v) => drawerCalls[v].shift \in ShiftIds
  BY DrawerFacts DEF ShiftsInv, CloseCalls
<1>11. ClosingStands'
  BY <1>1, <1>5, <1>6, <1>7, <1>8, <1>10 DEF ShiftsInv, ClosingStands
<1>12. NothingLate'
  <2>1. \A v \in Drawers : Stamping(v) => drawerCalls[v].shift \in ShiftIds
    BY DrawerFacts DEF ShiftsInv, CashCalls
  <2> QED  BY <1>1, <1>6, <1>7, <2>1 DEF ShiftsInv, NothingLate
<1>13. ClosedStands'
  BY <1>1, <1>2, <1>5, <1>7, <1>8 DEF ShiftsInv, ClosedStands
<1>14. \A u : OpenShiftsOf(u)' \subseteq OpenShiftsOf(u)
  BY <1>5, <1>7 DEF OpenShiftsOf
<1>15. OpeningAlone'
  BY <1>1, <1>6, <1>14 DEF ShiftsInv, OpeningAlone
<1>16. OneDrawerPerCashier'
  BY <1>1, <1>5, <1>7 DEF ShiftsInv, OneDrawerPerCashier
<1> QED  BY <1>9, <1>11, <1>12, <1>13, <1>15, <1>16 DEF ShiftsInv

LEMMA DrawerRollbackKeeps ==
  ASSUME ShiftsInv, NEW s \in Drawers, DrawerRollback(s)
  PROVE  ShiftsInv'
<1>1. /\ drawerCalls' = [drawerCalls EXCEPT ![s] = DrawerRest]
      /\ UNCHANGED <<signedOn, shifts, cashRows, lateCash, openRace>>
  BY DEF DrawerRollback, Leave
<1>2. /\ drawerCalls' \in [Drawers -> DrawerCalls]
      /\ ~Opening(s)' /\ ~Stamping(s)' /\ ~Closing(s)'
      /\ \A v \in Drawers : v # s => /\ drawerCalls'[v] = drawerCalls[v]
                                     /\ Opening(v)' = Opening(v)
                                     /\ Stamping(v)' = Stamping(v)
                                     /\ Closing(v)' = Closing(v)
  BY <1>1, DrawerStep DEF ShiftsInv, Opening, Stamping, Closing, DrawerRest, DrawerCalls
<1>3. \A j : ExpectedCash(j)' = ExpectedCash(j) /\ OpenShiftsOf(j)' = OpenShiftsOf(j)
  BY <1>1 DEF ExpectedCash, OpenShiftsOf
<1>4. ShiftsTyped' /\ ClosedStands' /\ OneDrawerPerCashier'
  BY <1>1, <1>2, <1>3 DEF ShiftsInv, ShiftsTyped, ClosedStands, OneDrawerPerCashier
<1>5. ClosingStands' /\ NothingLate'
  BY <1>1, <1>2, <1>3 DEF ShiftsInv, ClosingStands, NothingLate
<1>6. OpeningAlone'
  BY <1>1, <1>2, <1>3 DEF ShiftsInv, OpeningAlone
<1> QED  BY <1>4, <1>5, <1>6 DEF ShiftsInv

LEMMA NextShifts == ShiftsInv /\ [ShiftNext]_shiftVars => ShiftsInv'
<1> SUFFICES ASSUME ShiftsInv, [ShiftNext]_shiftVars  PROVE ShiftsInv'
  OBVIOUS
<1>1. CASE UNCHANGED shiftVars
  <2>1. \A j : ExpectedCash(j)' = ExpectedCash(j) /\ OpenShiftsOf(j)' = OpenShiftsOf(j)
    BY <1>1 DEF shiftVars, ExpectedCash, OpenShiftsOf
  <2> QED  BY <1>1, <2>1 DEF shiftVars, ShiftsInv, ShiftsTyped, ClosingStands, NothingLate,
           ClosedStands, OpeningAlone, OneDrawerPerCashier, Opening, Stamping, Closing
<1>2. CASE ShiftNext
  <2>1. PICK s \in Drawers :
          \/ \E f \in Floats : LoadOpen(s, f)
          \/ CommitOpen(s)
          \/ \E k \in CashKinds, a \in CashAmounts : LoadCash(s, k, a)
          \/ CommitCash(s)
          \/ \E i \in ShiftIds, d \in Counts : LoadClose(s, i, d)
          \/ CommitClose(s)
          \/ DrawerRollback(s)
    BY <1>2 DEF ShiftNext
  <2> QED  BY <2>1, LoadOpenKeeps, CommitOpenKeeps, LoadCashKeeps, CommitCashKeeps,
           LoadCloseKeeps, CommitCloseKeeps, DrawerRollbackKeeps
<1> QED  BY <1>1, <1>2

\* A closed drawer can be trusted for any number of sessions, shifts and rows: its
\* expectation is the float and all its rows unless cash and the closing were seen
\* to overlap, a large gap had a manager, and a cashier has one open drawer unless
\* two openings overlapped (ShiftService.open, close, expected_cash_minor).
THEOREM DrawersAlwaysReconcile == ShiftSpec => []DrawersReconcile
<1>1. ShiftSpec => []ShiftsInv
  BY InitShifts, NextShifts, PTL DEF ShiftSpec
<1>2. ASSUME ShiftsInv, NEW i \in ShiftIds, shifts[i].status = "CLOSED"
      PROVE  shifts[i] \in ShiftRows
  BY <1>2 DEF ShiftsInv, ShiftsTyped, NoShift
<1>3. ShiftsInv => ClosedDrawerAddsUp
  <2>1. ASSUME ShiftsInv, NEW i \in ShiftIds \ lateCash, shifts[i].status = "CLOSED"
        PROVE  /\ shifts[i].variance = shifts[i].declared - shifts[i].expected
               /\ shifts[i].expected = shifts[i].float
                    + CashOf(i, {"SALE", "PAID_IN", "PICKUP"})
                    - CashOf(i, {"REFUND", "PAID_OUT", "DROP"})
    <3>1. shifts[i].float \in Nat
      BY <1>2, <2>1 DEF ShiftRows
    <3> QED  BY <2>1, <3>1, ExpectedByKind DEF ShiftsInv, ClosedStands
  <2> QED  BY <2>1 DEF ClosedDrawerAddsUp
<1>4. ShiftsInv => BigVarianceIsApproved
  <2>1. ASSUME ShiftsInv, NEW i \in ShiftIds, shifts[i].status = "CLOSED"
        PROVE  LET gap == shifts[i].variance
               IN gap > Threshold \/ gap + Threshold < 0 => shifts[i].approved
    <3>1. shifts[i].variance \in Int
      BY <1>2, <2>1 DEF ShiftRows
    <3> QED  BY <2>1, <3>1, ShiftsAssumption DEF ShiftsInv, ClosedStands, NeedsApproval
  <2> QED  BY <2>1 DEF BigVarianceIsApproved
<1>5. ShiftsInv => DrawersReconcile
  BY <1>3, <1>4 DEF DrawersReconcile, ShiftsInv
<1> QED  BY <1>1, <1>5, PTL

--------------------------------------------------------------------------------
(* Money against an order *)

TwoTakes == {"take"}
TwoRefunds == {"refund"}
TakeAndDiscount == {"take", "discount"}
TakeAndVoid == {"take", "void"}

Bills ==
  [status : {"SENT", "VOID"}, extras : Nat, subtotal : Nat, discount : Nat, tax : Nat,
   grand : Int, closed : BOOLEAN]
PaymentRows == [tender : Tenders, amount : Nat]
TakeCalls ==
  [op : {"take"}, tender : Tenders, amount : Nat, seen : Bills, flushed : BOOLEAN,
   closes : BOOLEAN]
RefundCalls == [op : {"refund"}, amount : Nat]
DiscountCalls == [op : {"discount"}, amount : Nat, seen : Bills]
VoidCalls == [op : {"void"}]
PayCalls == {PayRest} \cup TakeCalls \cup RefundCalls \cup DiscountCalls \cup VoidCalls

PayTyped ==
  /\ bill \in Bills
  /\ payments \in Seq(PaymentRows)
  /\ refunded \in Nat
  /\ payCalls \in [Tills -> PayCalls]

Taking(t) == payCalls[t].op = "take"
Refunding(t) == payCalls[t].op = "refund"
Discounting(t) == payCalls[t].op = "discount"
Voiding(t) == payCalls[t].op = "void"
Flushed(t) == Taking(t) /\ payCalls[t].flushed

\* An order without surcharges: its tax never moves and its total follows.
SumsUp(b) ==
  b.extras = 0 => /\ b.subtotal = Goods /\ b.tax = TaxOn(Goods)
                  /\ b.grand = Goods - b.discount + TaxOn(Goods)
SeenOK(b) == b.extras = bill.extras /\ SumsUp(b)

\* Handlers that would disturb each other do not overlap unseen.
Apart ==
  /\ TwoTakes \notin payClash => \A t, u \in Tills : Taking(t) /\ Taking(u) => t = u
  /\ TwoRefunds \notin payClash => \A t, u \in Tills : Refunding(t) /\ Refunding(u) => t = u
  /\ TakeAndDiscount \notin payClash => \A t, u \in Tills : ~(Taking(t) /\ Discounting(u))
  /\ TakeAndVoid \notin payClash => \A t, u \in Tills : ~(Taking(t) /\ Voiding(u))
FlushedApart ==
  \A t \in Tills : Flushed(t) =>
    /\ ~Known(payCalls[t].tender)
    /\ \A u \in Tills : Flushed(u) /\ payCalls[u].tender = payCalls[t].tender => u = t

Dearest == Goods + bill.extras + TaxOn(Goods + bill.extras)

TakeOK(t) ==
  Taking(t) =>
    LET c == payCalls[t]
    IN /\ SeenOK(c.seen)
       /\ TwoTakes \notin payClash => Paid(payments) + c.amount <= Dearest
       /\ TakeAndDiscount \notin payClash =>
            /\ c.seen.discount = bill.discount
            /\ bill.grand = c.seen.grand \/ bill.grand = Quote(bill).grand
            /\ c.flushed /\ c.closes => Paid(payments) + c.amount >= Quote(bill).grand
       /\ TakeAndVoid \notin payClash => bill.status # "VOID"
RefundOK(t) ==
  Refunding(t) /\ TwoRefunds \notin payClash =>
    refunded + payCalls[t].amount <= Paid(payments)
DiscountOK(t) ==
  Discounting(t) => /\ SeenOK(payCalls[t].seen)
                    /\ TakeAndDiscount \notin payClash => ~bill.closed
VoidOK(t) == Voiding(t) /\ TakeAndVoid \notin payClash => payments = <<>>

BillOK ==
  /\ bill.subtotal = Goods + bill.extras /\ SumsUp(bill)
  /\ TwoTakes \notin payClash => Paid(payments) <= Dearest
  /\ TwoRefunds \notin payClash => refunded <= Paid(payments)
  /\ bill.closed /\ TakeAndDiscount \notin payClash =>
       bill.grand = Quote(bill).grand /\ Paid(payments) >= bill.grand
  /\ bill.status = "VOID" /\ TakeAndVoid \notin payClash => payments = <<>>

PayInv ==
  /\ PayTyped /\ Apart /\ FlushedApart /\ BillOK /\ TendersTakenOnce
  /\ \A t \in Tills : TakeOK(t) /\ RefundOK(t) /\ DiscountOK(t) /\ VoidOK(t)

--------------------------------------------------------------------------------
(* Sums and quotes *)

LEMMA PaidFacts ==
  ASSUME NEW rows \in Seq(PaymentRows)
  PROVE  /\ Paid(rows) \in Nat
         /\ \A row \in PaymentRows : Paid(Append(rows, row)) = Paid(rows) + row.amount
<1>1. DOMAIN rows = 1 .. Len(rows) /\ Len(rows) \in Nat
  OBVIOUS
<1> DEFINE n == Len(rows) + 1
           f == [i \in DOMAIN rows |-> rows[i].amount]
<1>2. \A i \in 1 .. n : n \in Nat /\ (i # n => i \in DOMAIN rows)
  BY <1>1
<1>3. IsFiniteSet(DOMAIN rows) /\ IsFiniteSet(1 .. n)
  BY <1>1, FS_Interval
<1>4. \A i \in DOMAIN rows : f[i] \in Nat
  <2>1. \A i \in DOMAIN rows : rows[i] \in PaymentRows
    BY <1>1
  <2>2. \A r \in PaymentRows : r.amount \in Nat
    BY DEF PaymentRows
  <2>3. \A i \in DOMAIN rows : f[i] = rows[i].amount
    OBVIOUS
  <2> HIDE DEF f
  <2> QED  BY <2>1, <2>2, <2>3
<1>5. Paid(rows) = SumOver(f, DOMAIN rows)
  BY DEF Paid
<1>6. Paid(rows) \in Nat
  <2> HIDE DEF f
  <2> QED  BY <1>3, <1>4, <1>5, SumNotNegative
<1>7. ASSUME NEW row \in PaymentRows
      PROVE  Paid(Append(rows, row)) = Paid(rows) + row.amount
  <2> DEFINE more == Append(rows, row)
             g == [i \in DOMAIN more |-> more[i].amount]
  <2>1. /\ DOMAIN more = 1 .. n /\ more[n] = row
        /\ \A i \in DOMAIN rows : more[i] = rows[i]
        /\ (1 .. n) \ {n} = DOMAIN rows /\ n \in 1 .. n
    BY <1>1
  <2>2. row.amount \in Nat
    BY DEF PaymentRows
  <2>3. g[n] = row.amount /\ \A i \in DOMAIN rows : g[i] = f[i]
    BY <2>1
  <2>4. \A i \in 1 .. n : g[i] \in Int
    BY <1>2, <1>4, <2>2, <2>3
  <2>5. Paid(more) = SumOver(g, 1 .. n)
    BY <2>1 DEF Paid
  <2> HIDE DEF f, g, n, more
  <2>6. SumOver(g, 1 .. n) = g[n] + SumOver(g, (1 .. n) \ {n})
    <3> DEFINE all == 1 .. n
    <3>1. IsFiniteSet(all) /\ all \in SUBSET all /\ n \in all /\ \A i \in all : g[i] \in Int
      BY <1>3, <2>1, <2>4
    <3> HIDE DEF all
    <3>2. SumOver(g, all) = g[n] + SumOver(g, all \ {n})
      BY <3>1, SumRemove
    <3> QED  BY <3>2 DEF all
  <2>7. \A i \in DOMAIN rows : f[i] \in Int /\ f[i] = g[i]
    BY <1>4, <2>3
  <2>8. SumOver(f, DOMAIN rows) = SumOver(g, DOMAIN rows)
    BY <1>3, <2>7, SumSame
  <2>9. Paid(more) = row.amount + Paid(rows)
    BY <1>5, <2>1, <2>3, <2>5, <2>6, <2>8
  <2> QED  BY <1>6, <2>2, <2>9 DEF more
<1> QED  BY <1>6, <1>7

LEMMA PaidNothing == Paid(<<>>) = 0
BY SumEmpty DEF Paid

LEMMA TaxGrows ==
  ASSUME NEW extras \in Nat
  PROVE  /\ TaxOn(Goods) \in Nat /\ TaxOn(Goods + extras) \in Nat
         /\ TaxOn(Goods) <= TaxOn(Goods + extras)
<1>1. Goods \in Nat /\ TaxBp \in Nat
  BY PaymentsAssumption
<1> DEFINE base == Goods * TaxBp
           more == extras * TaxBp
<1>2. base \in Nat /\ more \in Nat
  BY <1>1
<1>3. (Goods + extras) * TaxBp = base + more
  BY <1>1
<1> HIDE DEF base, more
<1>4. \A a, b \in Nat : /\ a \div 10000 \in Nat /\ (a + b) \div 10000 \in Nat
                        /\ a \div 10000 <= (a + b) \div 10000
  OBVIOUS
<1>5. TaxOn(Goods) = base \div 10000
  BY DEF TaxOn, base
<1>6. TaxOn(Goods + extras) = (base + more) \div 10000
  BY <1>3 DEF TaxOn
<1> QED  BY <1>2, <1>4, <1>5, <1>6

\* What a tender is quoted never exceeds the dearest the order can be.
LEMMA QuoteFacts ==
  ASSUME NEW b \in Bills
  PROVE  /\ Quote(b).tax = TaxOn(Goods)
         /\ Quote(b).grand = Goods - b.discount + TaxOn(Goods)
         /\ Quote(b).grand \in Int
         /\ Quote(b).grand <= Goods + b.extras + TaxOn(Goods + b.extras)
<1>1. b.extras \in Nat /\ b.discount \in Nat /\ Goods \in Nat
  BY PaymentsAssumption DEF Bills
<1>2. /\ TaxOn(Goods) \in Nat /\ TaxOn(Goods + b.extras) \in Nat
      /\ TaxOn(Goods) <= TaxOn(Goods + b.extras)
  BY <1>1, TaxGrows
<1>3. Quote(b).tax = TaxOn(Goods) /\ Quote(b).grand = Goods - b.discount + TaxOn(Goods)
  BY DEF Quote
<1> QED  BY <1>1, <1>2, <1>3

--------------------------------------------------------------------------------
(* The calls in progress *)

\* Which request a till is in the middle of says what the call holds.
LEMMA CallFacts ==
  ASSUME PayTyped, NEW t \in Tills
  PROVE  /\ payCalls[t] \in PayCalls
         /\ Taking(t) => payCalls[t] \in TakeCalls
         /\ Refunding(t) => payCalls[t] \in RefundCalls
         /\ Discounting(t) => payCalls[t] \in DiscountCalls
         /\ payCalls[t].op # "none" => ~PayResting(t)
<1>1. payCalls[t] \in PayCalls
  BY DEF PayTyped
<1>2. /\ PayRest.op = "none"
      /\ \A c \in TakeCalls : c.op = "take"
      /\ \A c \in RefundCalls : c.op = "refund"
      /\ \A c \in DiscountCalls : c.op = "discount"
      /\ \A c \in VoidCalls : c.op = "void"
  BY DEF PayRest, TakeCalls, RefundCalls, DiscountCalls, VoidCalls
<1>3. payCalls[t].op # "none" => ~PayResting(t)
  BY <1>2 DEF PayResting
<1> HIDE DEF PayRest, TakeCalls, RefundCalls, DiscountCalls, VoidCalls
<1> QED  BY <1>1, <1>2, <1>3 DEF PayCalls, Taking, Refunding, Discounting

\* A call that begins while another one is in progress is noted as overlapping it.
LEMMA OverlapIsNoted ==
  ASSUME PayTyped, NEW t \in Tills, NEW c, PayBegin(t, c), NEW u \in Tills, u # t
  PROVE  /\ c.op = "take" /\ Taking(u) => TwoTakes \in payClash'
         /\ c.op = "refund" /\ Refunding(u) => TwoRefunds \in payClash'
         /\ c.op = "take" /\ Discounting(u) => TakeAndDiscount \in payClash'
         /\ c.op = "discount" /\ Taking(u) => TakeAndDiscount \in payClash'
         /\ c.op = "take" /\ Voiding(u) => TakeAndVoid \in payClash'
         /\ c.op = "void" /\ Taking(u) => TakeAndVoid \in payClash'
<1> DEFINE d == payCalls[u]
           both == {c.op, d.op}
<1>1. ASSUME both \in Watched, d.op # "none" PROVE both \in payClash'
  <2>1. ~PayResting(u)
    BY <1>1, CallFacts
  <2> QED  BY <1>1, <2>1 DEF PayBegin
<1>2. Watched = {TwoTakes, TwoRefunds, TakeAndDiscount, TakeAndVoid}
  BY DEF Watched, TwoTakes, TwoRefunds, TakeAndDiscount, TakeAndVoid
<1>3. /\ c.op = "take" /\ Taking(u) => both = TwoTakes /\ d.op = "take"
      /\ c.op = "refund" /\ Refunding(u) => both = TwoRefunds /\ d.op = "refund"
      /\ c.op = "take" /\ Discounting(u) => both = TakeAndDiscount /\ d.op = "discount"
      /\ c.op = "discount" /\ Taking(u) => both = TakeAndDiscount /\ d.op = "take"
      /\ c.op = "take" /\ Voiding(u) => both = TakeAndVoid /\ d.op = "void"
      /\ c.op = "void" /\ Taking(u) => both = TakeAndVoid /\ d.op = "take"
  BY DEF Taking, Refunding, Discounting, Voiding, TwoTakes, TwoRefunds,
         TakeAndDiscount, TakeAndVoid
<1> HIDE DEF both, d
<1>4. "take" # "none" /\ "refund" # "none" /\ "discount" # "none" /\ "void" # "none"
  OBVIOUS
<1> QED  BY <1>1, <1>2, <1>3, <1>4

\* Tills whose call did not change are where they were.
LEMMA OtherTillsKeep ==
  ASSUME PayTyped, NEW t \in Tills, NEW c, payCalls' = [payCalls EXCEPT ![t] = c]
  PROVE  /\ payCalls'[t] = c
         /\ \A u \in Tills \ {t} :
              /\ payCalls'[u] = payCalls[u]
              /\ Taking(u)' = Taking(u) /\ Refunding(u)' = Refunding(u)
              /\ Discounting(u)' = Discounting(u) /\ Voiding(u)' = Voiding(u)
              /\ Flushed(u)' = Flushed(u)
<1>1. payCalls'[t] = c /\ \A u \in Tills \ {t} : payCalls'[u] = payCalls[u]
  BY DEF PayTyped
<1> QED  BY <1>1 DEF Taking, Refunding, Discounting, Voiding, Flushed

\* Only reading: a call that begins leaves the money where it was.
LEMMA BeginKeeps ==
  ASSUME PayInv, NEW t \in Tills, NEW c \in PayCalls, PayBegin(t, c),
         UNCHANGED <<bill, payments, refunded>>,
         c.op = "take" => ~c.flushed,
         TakeOK(t)', RefundOK(t)', DiscountOK(t)', VoidOK(t)'
  PROVE  PayInv'
<1>0. PayTyped /\ payClash \subseteq payClash' /\ payCalls' = [payCalls EXCEPT ![t] = c]
  BY DEF PayInv, PayBegin
<1>1. /\ payCalls'[t] = c
      /\ \A u \in Tills \ {t} :
              /\ payCalls'[u] = payCalls[u]
              /\ Taking(u)' = Taking(u) /\ Refunding(u)' = Refunding(u)
              /\ Discounting(u)' = Discounting(u) /\ Voiding(u)' = Voiding(u)
              /\ Flushed(u)' = Flushed(u)
  BY <1>0, OtherTillsKeep
<1>2. PayTyped'
  BY <1>0 DEF PayTyped
<1>3. Paid(payments)' = Paid(payments) /\ Quote(bill)' = Quote(bill) /\ Dearest' = Dearest
  BY DEF Dearest
<1>4. /\ Taking(t)' = (c.op = "take") /\ Refunding(t)' = (c.op = "refund")
      /\ Discounting(t)' = (c.op = "discount") /\ Voiding(t)' = (c.op = "void")
      /\ ~Flushed(t)'
  BY <1>1 DEF Taking, Refunding, Discounting, Voiding, Flushed
<1>5. Apart'
  <2> DEFINE Met(u) ==
        /\ c.op = "take" /\ Taking(u) => TwoTakes \in payClash'
        /\ c.op = "refund" /\ Refunding(u) => TwoRefunds \in payClash'
        /\ c.op = "take" /\ Discounting(u) => TakeAndDiscount \in payClash'
        /\ c.op = "discount" /\ Taking(u) => TakeAndDiscount \in payClash'
        /\ c.op = "take" /\ Voiding(u) => TakeAndVoid \in payClash'
        /\ c.op = "void" /\ Taking(u) => TakeAndVoid \in payClash'
  <2>1. \A u \in Tills \ {t} : Met(u)
    BY <1>0, OverlapIsNoted
  <2>2. Apart
    BY DEF PayInv
  <2>3. ~(c.op = "take" /\ c.op = "discount") /\ ~(c.op = "take" /\ c.op = "void")
    OBVIOUS
  <2>4. TwoTakes \notin payClash' => \A r, u \in Tills : Taking(r)' /\ Taking(u)' => r = u
    BY <1>0, <1>1, <1>4, <2>1, <2>2 DEF Apart
  <2>5. TwoRefunds \notin payClash' =>
          \A r, u \in Tills : Refunding(r)' /\ Refunding(u)' => r = u
    BY <1>0, <1>1, <1>4, <2>1, <2>2 DEF Apart
  <2>6. TakeAndDiscount \notin payClash' =>
          \A r, u \in Tills : ~(Taking(r)' /\ Discounting(u)')
    BY <1>0, <1>1, <1>4, <2>1, <2>2, <2>3 DEF Apart
  <2>7. TakeAndVoid \notin payClash' => \A r, u \in Tills : ~(Taking(r)' /\ Voiding(u)')
    BY <1>0, <1>1, <1>4, <2>1, <2>2, <2>3 DEF Apart
  <2> QED  BY <2>4, <2>5, <2>6, <2>7 DEF Apart, TwoTakes, TwoRefunds, TakeAndDiscount, TakeAndVoid
<1>6. FlushedApart'
  BY <1>1, <1>4 DEF PayInv, FlushedApart, Known
<1>7. BillOK' /\ TendersTakenOnce'
  <2>1. BillOK /\ TendersTakenOnce
    BY DEF PayInv
  <2> QED  BY <1>0, <1>3, <2>1 DEF BillOK, TendersTakenOnce, SumsUp, TwoTakes, TwoRefunds,
                 TakeAndDiscount, TakeAndVoid
<1>8. ASSUME NEW u \in Tills PROVE (TakeOK(u) /\ RefundOK(u) /\ DiscountOK(u) /\ VoidOK(u))'
  <2>1. CASE u = t
    BY <2>1
  <2>2. CASE u # t
    <3>1. TakeOK(u) /\ RefundOK(u) /\ DiscountOK(u) /\ VoidOK(u)
      BY DEF PayInv
    <3>2. TakeOK(u)'
      BY <1>0, <1>1, <1>3, <2>2, <3>1 DEF TakeOK, SeenOK, SumsUp, TwoTakes, TakeAndDiscount,
           TakeAndVoid
    <3>3. RefundOK(u)'
      BY <1>0, <1>1, <1>3, <2>2, <3>1 DEF RefundOK, TwoRefunds
    <3>4. DiscountOK(u)'
      BY <1>0, <1>1, <2>2, <3>1 DEF DiscountOK, SeenOK, SumsUp, TakeAndDiscount
    <3>5. VoidOK(u)'
      BY <1>0, <1>1, <2>2, <3>1 DEF VoidOK, TakeAndVoid
    <3> QED  BY <3>2, <3>3, <3>4, <3>5
  <2> QED  BY <2>1, <2>2
<1> QED  BY <1>2, <1>5, <1>6, <1>7, <1>8 DEF PayInv

LEMMA LoadTenderKeeps ==
  ASSUME PayInv, NEW t \in Tills, NEW x \in Tenders, NEW a \in 1 .. MaxTender,
         LoadTender(t, x, a)
  PROVE  PayInv'
<1> DEFINE c == [op |-> "take", tender |-> x, amount |-> a, seen |-> bill,
                 flushed |-> FALSE, closes |-> FALSE]
<1>1. /\ bill.status # "VOID" /\ a <= Due(bill) /\ PayBegin(t, c)
      /\ UNCHANGED <<bill, payments, refunded>>
  BY DEF LoadTender
<1>2. PayTyped /\ BillOK /\ bill \in Bills /\ payCalls' = [payCalls EXCEPT ![t] = c]
  BY <1>1 DEF PayInv, PayTyped, PayBegin
<1>3. a \in Nat
  BY PaymentsAssumption
<1>4. c \in TakeCalls /\ c \in PayCalls
  BY <1>2, <1>3 DEF TakeCalls, PayCalls
<1>5. payCalls'[t] = c
  BY <1>2, OtherTillsKeep
<1>6. /\ Quote(bill).grand \in Int /\ Quote(bill).grand <= Dearest
      /\ Paid(payments) \in Nat /\ Dearest \in Int
  <2>1. Paid(payments) \in Nat
    BY <1>2, PaidFacts DEF PayTyped
  <2>2. Goods \in Nat /\ bill.extras \in Nat
    BY <1>2, PaymentsAssumption DEF Bills
  <2>3. TaxOn(Goods + bill.extras) \in Nat
    BY <2>2, TaxGrows
  <2> QED  BY <1>2, <2>1, <2>2, <2>3, QuoteFacts DEF Dearest
<1>7. Paid(payments) + a <= Dearest
  BY <1>1, <1>3, <1>6 DEF Due
<1>8. TakeOK(t)'
  <2>1. /\ c.seen = bill /\ c.amount = a /\ ~c.flushed
    OBVIOUS
  <2>2. SeenOK(bill)
    BY <1>2 DEF SeenOK, BillOK
  <2>3. /\ bill' = bill /\ Paid(payments)' = Paid(payments) /\ Dearest' = Dearest
        /\ Quote(bill)' = Quote(bill)
    BY <1>1 DEF Dearest
  <2>4. SeenOK(bill)'
    BY <2>2, <2>3 DEF SeenOK, SumsUp
  <2> HIDE DEF c
  <2>5. payCalls'[t].seen = bill' /\ payCalls'[t].amount = a /\ ~payCalls'[t].flushed
    BY <1>5, <2>1, <2>3
  <2> QED  BY <1>1, <1>7, <2>3, <2>4, <2>5 DEF TakeOK, SeenOK, SumsUp
<1>9. (RefundOK(t) /\ DiscountOK(t) /\ VoidOK(t))'
  <2>1. c.op = "take"
    OBVIOUS
  <2> HIDE DEF c
  <2> QED  BY <1>5, <2>1 DEF RefundOK, DiscountOK, VoidOK, Refunding, Discounting, Voiding
<1>10. ~c.flushed
  OBVIOUS
<1> HIDE DEF c
<1> QED  BY <1>1, <1>4, <1>8, <1>9, <1>10, BeginKeeps

LEMMA LoadRefundKeeps ==
  ASSUME PayInv, NEW t \in Tills, NEW a \in 1 .. MaxTender, LoadRefund(t, a)
  PROVE  PayInv'
<1> DEFINE c == [op |-> "refund", amount |-> a]
<1>1. /\ a <= Refundable /\ PayBegin(t, c) /\ UNCHANGED <<bill, payments, refunded>>
  BY DEF LoadRefund
<1>2. PayTyped /\ payCalls' = [payCalls EXCEPT ![t] = c]
  BY <1>1 DEF PayInv, PayBegin
<1>3. a \in Nat
  BY PaymentsAssumption
<1>4. c \in PayCalls /\ c.op = "refund" /\ c.amount = a
  BY <1>3 DEF RefundCalls, PayCalls
<1> HIDE DEF c
<1>5. payCalls'[t] = c
  BY <1>2, OtherTillsKeep
<1>6. Paid(payments) \in Nat /\ refunded \in Nat
  BY <1>2, PaidFacts DEF PayTyped
<1>7. refunded + a <= Paid(payments)
  BY <1>1, <1>3, <1>6 DEF Refundable
<1>8. RefundOK(t)'
  BY <1>1, <1>4, <1>5, <1>7 DEF RefundOK
<1>9. (TakeOK(t) /\ DiscountOK(t) /\ VoidOK(t))'
  BY <1>4, <1>5 DEF TakeOK, DiscountOK, VoidOK, Taking, Discounting, Voiding
<1> QED  BY <1>1, <1>4, <1>8, <1>9, BeginKeeps

LEMMA LoadDiscountKeeps ==
  ASSUME PayInv, NEW t \in Tills, NEW d \in Discounts, LoadDiscount(t, d)
  PROVE  PayInv'
<1> DEFINE c == [op |-> "discount", amount |-> d, seen |-> bill]
<1>1. /\ ~bill.closed /\ PayBegin(t, c) /\ UNCHANGED <<bill, payments, refunded>>
  BY DEF LoadDiscount
<1>2. PayTyped /\ BillOK /\ bill \in Bills /\ payCalls' = [payCalls EXCEPT ![t] = c]
  BY <1>1 DEF PayInv, PayTyped, PayBegin
<1>3. c \in PayCalls /\ c.op = "discount" /\ c.seen = bill
  BY <1>2, PaymentsAssumption DEF DiscountCalls, PayCalls
<1> HIDE DEF c
<1>4. payCalls'[t] = c
  BY <1>2, OtherTillsKeep
<1>5. DiscountOK(t)'
  <2>1. SeenOK(bill)'
    BY <1>1, <1>2 DEF SeenOK, BillOK, SumsUp
  <2>2. payCalls'[t].seen = bill'
    BY <1>1, <1>3, <1>4
  <2> QED  BY <1>1, <2>1, <2>2 DEF DiscountOK, SeenOK, SumsUp
<1>6. (TakeOK(t) /\ RefundOK(t) /\ VoidOK(t))'
  BY <1>3, <1>4 DEF TakeOK, RefundOK, VoidOK, Taking, Refunding, Voiding
<1> QED  BY <1>1, <1>3, <1>5, <1>6, BeginKeeps

LEMMA LoadBillVoidKeeps ==
  ASSUME PayInv, NEW t \in Tills, LoadBillVoid(t)
  PROVE  PayInv'
<1> DEFINE c == [op |-> "void"]
<1>1. /\ NothingPaid /\ PayBegin(t, c) /\ UNCHANGED <<bill, payments, refunded>>
  BY DEF LoadBillVoid
<1>2. PayTyped /\ payCalls' = [payCalls EXCEPT ![t] = c]
  BY <1>1 DEF PayInv, PayBegin
<1>3. c \in PayCalls /\ c.op = "void"
  BY DEF VoidCalls, PayCalls
<1> HIDE DEF c
<1>4. payCalls'[t] = c
  BY <1>2, OtherTillsKeep
<1>5. VoidOK(t)'
  BY <1>1 DEF VoidOK, NothingPaid
<1>6. (TakeOK(t) /\ RefundOK(t) /\ DiscountOK(t))'
  BY <1>3, <1>4 DEF TakeOK, RefundOK, DiscountOK, Taking, Refunding, Discounting
<1> QED  BY <1>1, <1>3, <1>5, <1>6, BeginKeeps

\* A call that ends, whatever it wrote, leaves the other calls in progress.
LEMMA EndFacts ==
  ASSUME PayInv, NEW t \in Tills, PayEnd(t)
  PROVE  /\ payCalls' \in [Tills -> PayCalls] /\ payClash' = payClash /\ Apart'
         /\ ~Taking(t)' /\ ~Refunding(t)' /\ ~Discounting(t)' /\ ~Voiding(t)'
         /\ ~Flushed(t)'
         /\ TakeOK(t)' /\ RefundOK(t)' /\ DiscountOK(t)' /\ VoidOK(t)'
         /\ \A u \in Tills \ {t} :
              /\ payCalls'[u] = payCalls[u]
              /\ Taking(u)' = Taking(u) /\ Refunding(u)' = Refunding(u)
              /\ Discounting(u)' = Discounting(u) /\ Voiding(u)' = Voiding(u)
              /\ Flushed(u)' = Flushed(u)
<1>1. PayTyped /\ Apart /\ payCalls' = [payCalls EXCEPT ![t] = PayRest] /\ payClash' = payClash
  BY DEF PayInv, PayEnd
<1>2. /\ payCalls'[t] = PayRest
      /\ \A u \in Tills \ {t} :
              /\ payCalls'[u] = payCalls[u]
              /\ Taking(u)' = Taking(u) /\ Refunding(u)' = Refunding(u)
              /\ Discounting(u)' = Discounting(u) /\ Voiding(u)' = Voiding(u)
              /\ Flushed(u)' = Flushed(u)
  BY <1>1, OtherTillsKeep
<1>3. PayRest.op = "none"
  BY DEF PayRest
<1>4. /\ ~Taking(t)' /\ ~Refunding(t)' /\ ~Discounting(t)' /\ ~Voiding(t)' /\ ~Flushed(t)'
      /\ TakeOK(t)' /\ RefundOK(t)' /\ DiscountOK(t)' /\ VoidOK(t)'
  <2> HIDE DEF PayRest
  <2> QED  BY <1>2, <1>3 DEF Taking, Refunding, Discounting, Voiding, Flushed, TakeOK,
              RefundOK, DiscountOK, VoidOK
<1>5. Apart'
  BY <1>1, <1>2, <1>4 DEF Apart, TwoTakes, TwoRefunds, TakeAndDiscount, TakeAndVoid
<1>6. payCalls' \in [Tills -> PayCalls]
  BY <1>1 DEF PayTyped, PayCalls
<1> QED  BY <1>1, <1>2, <1>4, <1>5, <1>6

\* Nothing was inserted, so the ids still waiting on the key are as they were.
LEMMA KeyKept ==
  ASSUME PayInv, NEW t \in Tills, PayEnd(t), UNCHANGED payments
  PROVE  FlushedApart' /\ TendersTakenOnce'
<1>1. FlushedApart /\ TendersTakenOnce
  BY DEF PayInv
<1>2. /\ ~Flushed(t)'
      /\ \A u \in Tills \ {t} : payCalls'[u] = payCalls[u] /\ Flushed(u)' = Flushed(u)
  BY EndFacts
<1> QED  BY <1>1, <1>2 DEF FlushedApart, TendersTakenOnce, Known

LEMMA CommitRefundKeeps ==
  ASSUME PayInv, NEW t \in Tills, CommitRefund(t)
  PROVE  PayInv'
<1> DEFINE a == payCalls[t].amount
<1>1. /\ Refunding(t) /\ refunded' = refunded + a /\ PayEnd(t) /\ UNCHANGED <<bill, payments>>
  BY DEF CommitRefund, Refunding
<1>2. PayTyped /\ Apart /\ BillOK /\ RefundOK(t)
  BY DEF PayInv
<1>3. a \in Nat
  BY <1>1, <1>2, CallFacts DEF RefundCalls
<1> HIDE DEF a
<1>4. /\ payCalls' \in [Tills -> PayCalls] /\ payClash' = payClash /\ Apart'
      /\ TakeOK(t)' /\ RefundOK(t)' /\ DiscountOK(t)' /\ VoidOK(t)'
      /\ \A u \in Tills \ {t} :
              /\ payCalls'[u] = payCalls[u]
              /\ Taking(u)' = Taking(u) /\ Refunding(u)' = Refunding(u)
              /\ Discounting(u)' = Discounting(u) /\ Voiding(u)' = Voiding(u)
  BY <1>1, EndFacts
<1>5. FlushedApart' /\ TendersTakenOnce'
  BY <1>1, KeyKept
<1>6. PayTyped'
  BY <1>1, <1>2, <1>3, <1>4 DEF PayTyped
<1>7. Paid(payments)' = Paid(payments) /\ Quote(bill)' = Quote(bill) /\ Dearest' = Dearest
  BY <1>1 DEF Dearest
<1>8. BillOK'
  <2>1. TwoRefunds \notin payClash' => refunded' <= Paid(payments)'
    BY <1>1, <1>2, <1>4, <1>7 DEF RefundOK, TwoRefunds, a
  <2> QED  BY <1>1, <1>2, <1>4, <1>7, <2>1 DEF BillOK, SumsUp, TwoTakes, TwoRefunds,
              TakeAndDiscount, TakeAndVoid
<1>9. ASSUME NEW u \in Tills, u # t
      PROVE  (TakeOK(u) /\ RefundOK(u) /\ DiscountOK(u) /\ VoidOK(u))'
  <2>1. TakeOK(u) /\ RefundOK(u) /\ DiscountOK(u) /\ VoidOK(u)
    BY DEF PayInv
  <2>2. TakeOK(u)'
    BY <1>1, <1>4, <1>7, <1>9, <2>1 DEF TakeOK, SeenOK, SumsUp, TwoTakes, TakeAndDiscount,
         TakeAndVoid
  <2>3. RefundOK(u)'
    BY <1>1, <1>2, <1>4, <1>9 DEF RefundOK, Apart, TwoRefunds
  <2>4. DiscountOK(u)' /\ VoidOK(u)'
    BY <1>1, <1>4, <1>9, <2>1 DEF DiscountOK, SeenOK, SumsUp, TakeAndDiscount, VoidOK,
         TakeAndVoid
  <2> QED  BY <2>2, <2>3, <2>4
<1> QED  BY <1>4, <1>5, <1>6, <1>8, <1>9 DEF PayInv

LEMMA PayRollbackKeeps ==
  ASSUME PayInv, NEW t \in Tills, PayRollback(t)
  PROVE  PayInv'
<1>1. PayEnd(t) /\ UNCHANGED <<bill, payments, refunded>>
  BY DEF PayRollback
<1>2. PayTyped /\ Apart /\ BillOK
  BY DEF PayInv
<1>4. /\ payCalls' \in [Tills -> PayCalls] /\ payClash' = payClash /\ Apart'
      /\ TakeOK(t)' /\ RefundOK(t)' /\ DiscountOK(t)' /\ VoidOK(t)'
      /\ \A u \in Tills \ {t} :
              /\ payCalls'[u] = payCalls[u]
              /\ Taking(u)' = Taking(u) /\ Refunding(u)' = Refunding(u)
              /\ Discounting(u)' = Discounting(u) /\ Voiding(u)' = Voiding(u)
  BY <1>1, EndFacts
<1>5. FlushedApart' /\ TendersTakenOnce'
  BY <1>1, KeyKept
<1>6. PayTyped'
  BY <1>1, <1>2, <1>4 DEF PayTyped
<1>7. Paid(payments)' = Paid(payments) /\ Quote(bill)' = Quote(bill) /\ Dearest' = Dearest
  BY <1>1 DEF Dearest
<1>8. BillOK'
  BY <1>1, <1>2, <1>4, <1>7 DEF BillOK, SumsUp, TwoTakes, TwoRefunds, TakeAndDiscount,
       TakeAndVoid
<1>9. ASSUME NEW u \in Tills, u # t
      PROVE  (TakeOK(u) /\ RefundOK(u) /\ DiscountOK(u) /\ VoidOK(u))'
  <2>1. TakeOK(u) /\ RefundOK(u) /\ DiscountOK(u) /\ VoidOK(u)
    BY DEF PayInv
  <2>2. TakeOK(u)'
    BY <1>1, <1>4, <1>7, <1>9, <2>1 DEF TakeOK, SeenOK, SumsUp, TwoTakes, TakeAndDiscount,
         TakeAndVoid
  <2>3. RefundOK(u)' /\ DiscountOK(u)' /\ VoidOK(u)'
    BY <1>1, <1>4, <1>7, <1>9, <2>1 DEF RefundOK, TwoRefunds, DiscountOK, SeenOK, SumsUp,
         TakeAndDiscount, VoidOK, TakeAndVoid
  <2> QED  BY <2>2, <2>3
<1> QED  BY <1>4, <1>5, <1>6, <1>8, <1>9 DEF PayInv

LEMMA CommitDiscountKeeps ==
  ASSUME PayInv, NEW t \in Tills, CommitDiscount(t)
  PROVE  PayInv'
<1> DEFINE c == payCalls[t]
           grand == c.seen.subtotal - c.amount + c.seen.tax
<1>1. /\ Discounting(t) /\ bill' = Discounted(bill, c) /\ PayEnd(t)
      /\ UNCHANGED <<payments, refunded>>
  BY DEF CommitDiscount, Discounting
<1>2. PayTyped /\ Apart /\ BillOK /\ DiscountOK(t)
  BY DEF PayInv
<1>3. c \in DiscountCalls
  BY <1>1, <1>2, CallFacts
<1>4. /\ c.amount \in Nat /\ c.seen \in Bills /\ c.seen.subtotal \in Nat /\ c.seen.tax \in Nat
      /\ c.seen.discount \in Nat /\ c.seen.grand \in Int /\ grand \in Int
  BY <1>3 DEF DiscountCalls, Bills
<1>5. /\ bill'.status = bill.status /\ bill'.extras = bill.extras
      /\ bill'.subtotal = bill.subtotal /\ bill'.closed = bill.closed /\ bill'.tax = bill.tax
      /\ bill'.discount = IF c.amount # c.seen.discount THEN c.amount ELSE bill.discount
      /\ bill'.grand = IF grand # c.seen.grand THEN grand ELSE bill.grand
      /\ bill' \in Bills
  <2>1. bill \in Bills
    BY <1>2 DEF PayTyped
  <2> HIDE DEF c
  <2> QED  BY <1>1, <1>4, <2>1 DEF Discounted, Bills
<1> HIDE DEF c, grand
<1>6. /\ payCalls' \in [Tills -> PayCalls] /\ payClash' = payClash /\ Apart'
      /\ TakeOK(t)' /\ RefundOK(t)' /\ DiscountOK(t)' /\ VoidOK(t)'
      /\ \A u \in Tills \ {t} :
              /\ payCalls'[u] = payCalls[u]
              /\ Taking(u)' = Taking(u) /\ Refunding(u)' = Refunding(u)
              /\ Discounting(u)' = Discounting(u) /\ Voiding(u)' = Voiding(u)
  BY <1>1, EndFacts
<1>7. FlushedApart' /\ TendersTakenOnce'
  BY <1>1, KeyKept
<1>8. PayTyped'
  BY <1>1, <1>2, <1>5, <1>6 DEF PayTyped
<1>9. Paid(payments)' = Paid(payments) /\ Dearest' = Dearest
  BY <1>1, <1>5 DEF Dearest
<1>10. SumsUp(bill)'
  <2>1. SeenOK(c.seen) /\ SumsUp(bill)
    BY <1>1, <1>2 DEF DiscountOK, BillOK, c
  <2>2. ASSUME bill.extras = 0
        PROVE  /\ c.seen.subtotal = Goods /\ c.seen.tax = TaxOn(Goods)
               /\ c.seen.grand = Goods - c.seen.discount + TaxOn(Goods)
               /\ bill.subtotal = Goods /\ bill.tax = TaxOn(Goods)
               /\ bill.grand = Goods - bill.discount + TaxOn(Goods)
    BY <2>1, <2>2 DEF SeenOK, SumsUp
  <2>3. Goods \in Nat /\ TaxOn(Goods) \in Nat
    BY <1>2, PaymentsAssumption, TaxGrows
  <2>4. ASSUME bill.extras = 0
        PROVE  bill'.grand = Goods - bill'.discount + TaxOn(Goods)
    <3>1. grand = Goods - c.amount + TaxOn(Goods)
      BY <2>2, <2>4 DEF grand
    <3>2. grand # c.seen.grand <=> c.amount # c.seen.discount
      BY <1>4, <2>2, <2>3, <2>4, <3>1
    <3> QED  BY <1>5, <2>2, <2>4, <3>1, <3>2
  <2> QED  BY <1>5, <2>2, <2>4 DEF SumsUp
<1>11. BillOK'
  <2>1. TakeAndDiscount \notin payClash => ~bill'.closed
    BY <1>1, <1>2, <1>5 DEF DiscountOK
  <2> QED  BY <1>1, <1>2, <1>5, <1>6, <1>9, <1>10, <2>1 DEF BillOK, TwoTakes, TwoRefunds,
              TakeAndDiscount, TakeAndVoid
<1>12. ASSUME NEW u \in Tills, u # t
       PROVE  (TakeOK(u) /\ RefundOK(u) /\ DiscountOK(u) /\ VoidOK(u))'
  <2>1. TakeOK(u) /\ RefundOK(u) /\ DiscountOK(u) /\ VoidOK(u)
    BY DEF PayInv
  <2>2. TakeAndDiscount \notin payClash => ~Taking(u)
    BY <1>1, <1>2 DEF Apart
  <2>3. TakeOK(u)'
    BY <1>1, <1>5, <1>6, <1>9, <1>12, <2>1, <2>2 DEF TakeOK, SeenOK, SumsUp, TwoTakes,
         TakeAndDiscount, TakeAndVoid
  <2>4. RefundOK(u)' /\ DiscountOK(u)' /\ VoidOK(u)'
    BY <1>1, <1>5, <1>6, <1>9, <1>12, <2>1 DEF RefundOK, TwoRefunds, DiscountOK, SeenOK,
         SumsUp, TakeAndDiscount, VoidOK, TakeAndVoid
  <2> QED  BY <2>3, <2>4
<1> QED  BY <1>6, <1>7, <1>8, <1>11, <1>12 DEF PayInv

LEMMA CommitBillVoidKeeps ==
  ASSUME PayInv, NEW t \in Tills, CommitBillVoid(t)
  PROVE  PayInv'
<1>1. /\ Voiding(t) /\ bill' = [bill EXCEPT !.status = "VOID"] /\ PayEnd(t)
      /\ UNCHANGED <<payments, refunded>>
  BY DEF CommitBillVoid, Voiding
<1>2. PayTyped /\ Apart /\ BillOK /\ VoidOK(t)
  BY DEF PayInv
<1>3. /\ bill'.status = "VOID" /\ bill'.extras = bill.extras /\ bill'.grand = bill.grand
      /\ bill'.subtotal = bill.subtotal /\ bill'.closed = bill.closed /\ bill'.tax = bill.tax
      /\ bill'.discount = bill.discount /\ bill' \in Bills
  <2>1. bill \in Bills
    BY <1>2 DEF PayTyped
  <2> QED  BY <1>1, <2>1 DEF Bills
<1>4. /\ payCalls' \in [Tills -> PayCalls] /\ payClash' = payClash /\ Apart'
      /\ TakeOK(t)' /\ RefundOK(t)' /\ DiscountOK(t)' /\ VoidOK(t)'
      /\ \A u \in Tills \ {t} :
              /\ payCalls'[u] = payCalls[u]
              /\ Taking(u)' = Taking(u) /\ Refunding(u)' = Refunding(u)
              /\ Discounting(u)' = Discounting(u) /\ Voiding(u)' = Voiding(u)
  BY <1>1, EndFacts
<1>5. FlushedApart' /\ TendersTakenOnce'
  BY <1>1, KeyKept
<1>6. PayTyped'
  BY <1>1, <1>2, <1>3, <1>4 DEF PayTyped
<1>7. Paid(payments)' = Paid(payments) /\ Dearest' = Dearest /\ Quote(bill)' = Quote(bill)
  BY <1>1, <1>3 DEF Dearest, Quote
<1>8. BillOK'
  <2>1. TakeAndVoid \notin payClash => payments' = <<>>
    BY <1>1, <1>2 DEF VoidOK
  <2>2. SumsUp(bill)'
    BY <1>2, <1>3 DEF BillOK, SumsUp
  <2> QED  BY <1>1, <1>2, <1>3, <1>4, <1>7, <2>1, <2>2 DEF BillOK, TwoTakes, TwoRefunds,
              TakeAndDiscount, TakeAndVoid
<1>9. ASSUME NEW u \in Tills, u # t
      PROVE  (TakeOK(u) /\ RefundOK(u) /\ DiscountOK(u) /\ VoidOK(u))'
  <2>1. TakeOK(u) /\ RefundOK(u) /\ DiscountOK(u) /\ VoidOK(u)
    BY DEF PayInv
  <2>2. TakeAndVoid \notin payClash => ~Taking(u)
    BY <1>1, <1>2 DEF Apart
  <2>3. TakeOK(u)'
    BY <1>1, <1>3, <1>4, <1>7, <1>9, <2>1, <2>2 DEF TakeOK, SeenOK, SumsUp, TwoTakes,
         TakeAndDiscount, TakeAndVoid
  <2>4. RefundOK(u)' /\ DiscountOK(u)' /\ VoidOK(u)'
    BY <1>1, <1>3, <1>4, <1>7, <1>9, <2>1 DEF RefundOK, TwoRefunds, DiscountOK, SeenOK,
         SumsUp, TakeAndDiscount, VoidOK, TakeAndVoid
  <2> QED  BY <2>3, <2>4
<1> QED  BY <1>4, <1>5, <1>6, <1>8, <1>9 DEF PayInv

LEMMA FlushTakeKeeps ==
  ASSUME PayInv, NEW t \in Tills, FlushTake(t)
  PROVE  PayInv'
<1> DEFINE c == payCalls[t]
           closes == Paid(payments) + c.amount >= Quote(c.seen).grand
           d == [c EXCEPT !.flushed = TRUE, !.closes = closes]
<1>1. /\ Taking(t) /\ ~c.flushed /\ ~Known(c.tender)
      /\ \A u \in Tills \ {t} : Flushed(u) => payCalls[u].tender # c.tender
      /\ UNCHANGED <<bill, payments, refunded, payClash>>
  BY DEF FlushTake, Taking, Flushed
<1>2. PayTyped /\ Apart /\ FlushedApart /\ BillOK /\ TendersTakenOnce /\ TakeOK(t)
  BY DEF PayInv
<1>3. c \in TakeCalls
  BY <1>1, <1>2, CallFacts
<1>4. payCalls' = [payCalls EXCEPT ![t] = d]
  BY <1>2 DEF FlushTake, PayTyped
<1>5. c.seen \in Bills /\ c.amount \in Nat
  BY <1>3 DEF TakeCalls
<1>6. closes \in BOOLEAN
  <2>1. Paid(payments) \in Nat /\ Quote(c.seen).grand \in Int
    BY <1>2, <1>5, PaidFacts, QuoteFacts DEF PayTyped
  <2>2. \A a, b \in Int : (a >= b) \in BOOLEAN
    OBVIOUS
  <2>3. Paid(payments) + c.amount \in Int
    BY <1>5, <2>1
  <2> QED  BY <2>1, <2>2, <2>3
<1>7. /\ d.op = "take" /\ d.tender = c.tender /\ d.amount = c.amount /\ d.seen = c.seen
      /\ d.flushed /\ d.closes = closes /\ d \in TakeCalls
  <2> HIDE DEF closes, c
  <2> QED  BY <1>3, <1>6 DEF TakeCalls
<1>8. d \in PayCalls
  <2> HIDE DEF d
  <2> QED  BY <1>7 DEF PayCalls
<1> HIDE DEF d
<1>9. /\ payCalls'[t] = d
      /\ \A u \in Tills \ {t} :
              /\ payCalls'[u] = payCalls[u]
              /\ Taking(u)' = Taking(u) /\ Refunding(u)' = Refunding(u)
              /\ Discounting(u)' = Discounting(u) /\ Voiding(u)' = Voiding(u)
              /\ Flushed(u)' = Flushed(u)
  BY <1>2, <1>4, OtherTillsKeep
<1>10. /\ Taking(t)' /\ ~Refunding(t)' /\ ~Discounting(t)' /\ ~Voiding(t)' /\ Flushed(t)'
  BY <1>7, <1>9 DEF Taking, Refunding, Discounting, Voiding, Flushed
<1>11. Paid(payments)' = Paid(payments) /\ Quote(bill)' = Quote(bill) /\ Dearest' = Dearest
  BY <1>1 DEF Dearest
<1>12. PayTyped'
  BY <1>1, <1>2, <1>4, <1>8 DEF PayTyped
<1>13. Apart'
  BY <1>1, <1>2, <1>9, <1>10 DEF Apart, TwoTakes, TwoRefunds, TakeAndDiscount, TakeAndVoid
<1>14. FlushedApart'
  <2>1. \A u \in Tills : Flushed(u)' => ~Known(payCalls'[u].tender)
    BY <1>1, <1>2, <1>7, <1>9 DEF FlushedApart
  <2>2. ASSUME NEW r \in Tills, NEW u \in Tills, Flushed(r)', Flushed(u)',
               payCalls'[u].tender = payCalls'[r].tender
        PROVE  u = r
    <3>1. CASE u = t /\ r # t
      BY <1>1, <1>7, <1>9, <2>2, <3>1
    <3>2. CASE r = t /\ u # t
      BY <1>1, <1>7, <1>9, <2>2, <3>2
    <3>3. CASE r # t /\ u # t
      BY <1>2, <1>9, <2>2, <3>3 DEF FlushedApart
    <3> QED  BY <3>1, <3>2, <3>3
  <2> QED  BY <1>1, <2>1, <2>2 DEF FlushedApart, Known
<1>15. BillOK' /\ TendersTakenOnce'
  BY <1>1, <1>2, <1>11 DEF BillOK, TendersTakenOnce, SumsUp, TwoTakes, TwoRefunds,
       TakeAndDiscount, TakeAndVoid
<1>16. TakeOK(t)'
  <2>1. /\ SeenOK(c.seen)
        /\ TwoTakes \notin payClash => Paid(payments) + c.amount <= Dearest
        /\ TakeAndDiscount \notin payClash =>
             /\ c.seen.discount = bill.discount
             /\ bill.grand = c.seen.grand \/ bill.grand = Quote(bill).grand
        /\ TakeAndVoid \notin payClash => bill.status # "VOID"
    BY <1>1, <1>2 DEF TakeOK
  <2>2. TakeAndDiscount \notin payClash /\ closes =>
          Paid(payments) + c.amount >= Quote(bill).grand
    BY <2>1 DEF Quote
  <2> HIDE DEF c, closes
  <2> QED  BY <1>1, <1>7, <1>9, <1>11, <2>1, <2>2 DEF TakeOK, SeenOK, SumsUp, TwoTakes,
              TakeAndDiscount, TakeAndVoid
<1>17. (RefundOK(t) /\ DiscountOK(t) /\ VoidOK(t))'
  BY <1>10 DEF RefundOK, DiscountOK, VoidOK
<1>18. ASSUME NEW u \in Tills, u # t
       PROVE  (TakeOK(u) /\ RefundOK(u) /\ DiscountOK(u) /\ VoidOK(u))'
  <2>1. TakeOK(u) /\ RefundOK(u) /\ DiscountOK(u) /\ VoidOK(u)
    BY DEF PayInv
  <2>2. TakeOK(u)'
    BY <1>1, <1>9, <1>11, <1>18, <2>1 DEF TakeOK, SeenOK, SumsUp, TwoTakes, TakeAndDiscount,
         TakeAndVoid
  <2>3. RefundOK(u)' /\ DiscountOK(u)' /\ VoidOK(u)'
    BY <1>1, <1>9, <1>11, <1>18, <2>1 DEF RefundOK, TwoRefunds, DiscountOK, SeenOK, SumsUp,
         TakeAndDiscount, VoidOK, TakeAndVoid
  <2> QED  BY <2>2, <2>3
<1> QED  BY <1>12, <1>13, <1>14, <1>15, <1>16, <1>17, <1>18 DEF PayInv

\* The row is inserted: its id was nobody's, and the order is written only
\* where the totals or the settlement move.
LEMMA CommitTenderKeeps ==
  ASSUME PayInv, NEW t \in Tills, CommitTender(t)
  PROVE  PayInv'
<1> DEFINE c == payCalls[t]
           row == [tender |-> c.tender, amount |-> c.amount]
           q == Quote(c.seen)
<1>1. /\ Taking(t) /\ Flushed(t) /\ bill' = Settled(bill, c)
      /\ payments' = Append(payments, row) /\ PayEnd(t) /\ UNCHANGED refunded
  BY DEF CommitTender, Taking, Flushed
<1>2. PayTyped /\ Apart /\ FlushedApart /\ BillOK /\ TendersTakenOnce /\ TakeOK(t)
  BY DEF PayInv
<1>3. c \in TakeCalls /\ bill \in Bills /\ payments \in Seq(PaymentRows) /\ refunded \in Nat
  BY <1>1, <1>2, CallFacts DEF PayTyped
<1>4. c.tender \in Tenders /\ c.amount \in Nat /\ c.seen \in Bills /\ c.closes \in BOOLEAN
  BY <1>3 DEF TakeCalls
<1>5. row \in PaymentRows /\ row.amount = c.amount /\ row.tender = c.tender
  BY <1>4 DEF PaymentRows
<1>6. /\ q.tax = TaxOn(Goods) /\ q.grand = Goods - c.seen.discount + TaxOn(Goods)
      /\ q.grand \in Int /\ q.tax \in Nat
  BY <1>4, QuoteFacts, TaxGrows
<1>7. /\ bill'.status = bill.status /\ bill'.extras = bill.extras
      /\ bill'.subtotal = bill.subtotal /\ bill'.discount = bill.discount
      /\ bill'.tax = IF q.tax # c.seen.tax THEN q.tax ELSE bill.tax
      /\ bill'.grand = IF q.grand # c.seen.grand THEN q.grand ELSE bill.grand
      /\ bill'.closed = (bill.closed \/ c.closes)
  <2> HIDE DEF c, q
  <2> QED  BY <1>1, <1>3 DEF Settled, Bills, q
<1>8. bill' \in Bills
  <2>1. bill.closed \in BOOLEAN
    BY <1>3 DEF Bills
  <2>2. (bill.closed \/ c.closes) \in BOOLEAN
    BY Zenon
  <2> DEFINE shut == bill.closed \/ c.closes
             tax == IF q.tax # c.seen.tax THEN q.tax ELSE bill.tax
             grand == IF q.grand # c.seen.grand THEN q.grand ELSE bill.grand
  <2>3. bill' = [bill EXCEPT !.tax = tax, !.grand = grand, !.closed = shut]
    BY <1>1 DEF Settled
  <2>4. shut \in BOOLEAN
    BY <2>2
  <2>5. bill.tax \in Nat /\ bill.grand \in Int
    BY <1>3 DEF Bills
  <2> HIDE DEF c, q, shut
  <2>6. tax \in Nat /\ grand \in Int
    BY <1>6, <2>5
  <2> HIDE DEF tax, grand
  <2> QED  BY <1>3, <2>3, <2>4, <2>6 DEF Bills
<1> HIDE DEF c, q, row
<1>9. /\ Paid(payments) \in Nat /\ Paid(payments)' = Paid(payments) + c.amount
      /\ payments' \in Seq(PaymentRows)
  BY <1>1, <1>3, <1>5, PaidFacts
<1>10. /\ payCalls' \in [Tills -> PayCalls] /\ payClash' = payClash /\ Apart' /\ ~Flushed(t)'
       /\ TakeOK(t)' /\ RefundOK(t)' /\ DiscountOK(t)' /\ VoidOK(t)'
       /\ \A u \in Tills \ {t} :
              /\ payCalls'[u] = payCalls[u]
              /\ Taking(u)' = Taking(u) /\ Refunding(u)' = Refunding(u)
              /\ Discounting(u)' = Discounting(u) /\ Voiding(u)' = Voiding(u)
              /\ Flushed(u)' = Flushed(u)
  BY <1>1, EndFacts
<1>11. PayTyped'
  BY <1>1, <1>2, <1>8, <1>9, <1>10 DEF PayTyped
<1>12. Dearest' = Dearest /\ Dearest \in Int
  <2>1. Goods \in Nat /\ bill.extras \in Nat
    BY <1>3, PaymentsAssumption DEF Bills
  <2> QED  BY <1>7, <2>1, TaxGrows DEF Dearest
<1>13. FlushedApart' /\ TendersTakenOnce'
  <2> DEFINE n == Len(payments) + 1
  <2>1. ~Known(c.tender)
    BY <1>1, <1>2 DEF FlushedApart, c
  <2>2. /\ DOMAIN payments' = 1 .. n /\ payments'[n] = row
        /\ \A i \in 1 .. n : i # n => i \in DOMAIN payments /\ payments'[i] = payments[i]
    BY <1>1, <1>3
  <2> HIDE DEF n
  <2>3. \A i, j \in 1 .. n : payments'[i].tender = payments'[j].tender => i = j
    BY <1>2, <1>5, <2>1, <2>2 DEF TendersTakenOnce, Known
  <2>4. \A u \in Tills \ {t} : Flushed(u) =>
          ~Known(payCalls[u].tender) /\ payCalls[u].tender # c.tender
    BY <1>1, <1>2 DEF FlushedApart, c
  <2>5. \A u \in Tills \ {t} : Flushed(u) =>
          \A i \in 1 .. n : payments'[i].tender # payCalls[u].tender
    BY <1>5, <2>2, <2>4 DEF Known
  <2>6. FlushedApart'
    BY <1>2, <1>10, <2>2, <2>5 DEF FlushedApart, Known
  <2> QED  BY <2>2, <2>3, <2>6 DEF TendersTakenOnce
<1>14. /\ SeenOK(c.seen)
       /\ TwoTakes \notin payClash => Paid(payments) + c.amount <= Dearest
       /\ TakeAndDiscount \notin payClash =>
            /\ c.seen.discount = bill.discount
            /\ bill.grand = c.seen.grand \/ bill.grand = Quote(bill).grand
            /\ c.closes => Paid(payments) + c.amount >= Quote(bill).grand
       /\ TakeAndVoid \notin payClash => bill.status # "VOID"
  BY <1>1, <1>2 DEF TakeOK, c, Flushed
<1>15. /\ Quote(bill)' = Quote(bill)
       /\ TakeAndDiscount \notin payClash => q.grand = Quote(bill).grand
       /\ Quote(bill).grand \in Int
  BY <1>3, <1>7, <1>14, QuoteFacts DEF Quote, q
<1>16. SumsUp(bill)'
  <2>1. SumsUp(bill)
    BY <1>2 DEF BillOK
  <2>2. ASSUME bill.extras = 0
        PROVE  q.tax = c.seen.tax /\ q.grand = c.seen.grand
    BY <1>6, <1>14, <2>2 DEF SeenOK, SumsUp
  <2> QED  BY <1>7, <2>1, <2>2 DEF SumsUp
<1>17. TakeAndDiscount \notin payClash => bill'.grand = Quote(bill).grand
  BY <1>7, <1>14, <1>15
<1>18. BillOK'
  <2>1. bill'.subtotal = Goods + bill'.extras
    BY <1>2, <1>7 DEF BillOK
  <2>2. TwoTakes \notin payClash' => Paid(payments)' <= Dearest'
    BY <1>9, <1>10, <1>12, <1>14
  <2>3. TwoRefunds \notin payClash' => refunded' <= Paid(payments)'
    BY <1>1, <1>2, <1>3, <1>4, <1>9, <1>10 DEF BillOK
  <2>4. bill'.closed /\ TakeAndDiscount \notin payClash' =>
          bill'.grand = Quote(bill)'.grand /\ Paid(payments)' >= bill'.grand
    <3>1. bill.closed /\ TakeAndDiscount \notin payClash =>
            bill.grand = Quote(bill).grand /\ Paid(payments) >= bill.grand
      BY <1>2 DEF BillOK
    <3> QED  BY <1>4, <1>7, <1>9, <1>10, <1>14, <1>15, <1>17, <3>1
  <2>5. bill'.status = "VOID" => TakeAndVoid \in payClash'
    BY <1>7, <1>10, <1>14
  <2> QED  BY <1>16, <2>1, <2>2, <2>3, <2>4, <2>5 DEF BillOK, TwoTakes, TwoRefunds,
              TakeAndDiscount, TakeAndVoid
<1>19. ASSUME NEW u \in Tills, u # t
       PROVE  (TakeOK(u) /\ RefundOK(u) /\ DiscountOK(u) /\ VoidOK(u))'
  <2>1. TakeOK(u) /\ RefundOK(u) /\ DiscountOK(u) /\ VoidOK(u)
    BY DEF PayInv
  <2>2. /\ TwoTakes \notin payClash => ~Taking(u)
        /\ TakeAndDiscount \notin payClash => ~Discounting(u)
        /\ TakeAndVoid \notin payClash => ~Voiding(u)
    BY <1>1, <1>2, <1>19 DEF Apart
  <2> DEFINE e == payCalls[u]
  <2>3. /\ e' = e /\ Taking(u)' = Taking(u) /\ Refunding(u)' = Refunding(u)
        /\ Discounting(u)' = Discounting(u) /\ Voiding(u)' = Voiding(u)
    BY <1>10, <1>19
  <2>4. TakeOK(u)'
    <3> SUFFICES ASSUME Taking(u) PROVE TakeOK(u)'
      BY <2>3 DEF TakeOK
    <3>1. e.amount \in Nat
      BY <1>2, CallFacts DEF TakeCalls
    <3>2. /\ SeenOK(e.seen)
          /\ TakeAndDiscount \notin payClash =>
               /\ e.seen.discount = bill.discount
               /\ e.flushed /\ e.closes => Paid(payments) + e.amount >= Quote(bill).grand
          /\ TakeAndVoid \notin payClash => bill.status # "VOID"
      BY <2>1 DEF TakeOK
    <3>3. SeenOK(e.seen)'
      BY <1>7, <2>3, <3>2 DEF SeenOK, SumsUp
    <3>4. TakeAndDiscount \notin payClash =>
               /\ e.seen.discount = bill'.discount
               /\ bill'.grand = Quote(bill)'.grand
               /\ e.flushed /\ e.closes => Paid(payments)' + e.amount >= Quote(bill)'.grand
      BY <1>4, <1>7, <1>9, <1>15, <1>17, <3>1, <3>2
    <3> QED  BY <1>7, <1>10, <2>2, <2>3, <3>2, <3>3, <3>4 DEF TakeOK, TwoTakes,
                TakeAndDiscount, TakeAndVoid
  <2>5. RefundOK(u)'
    <3> SUFFICES ASSUME Refunding(u) PROVE RefundOK(u)'
      BY <2>3 DEF RefundOK
    <3>1. e.amount \in Nat
      BY <1>2, CallFacts DEF RefundCalls
    <3> QED  BY <1>1, <1>3, <1>4, <1>9, <1>10, <2>1, <2>3, <3>1 DEF RefundOK, TwoRefunds
  <2>6. DiscountOK(u)'
    BY <1>7, <1>10, <2>1, <2>2, <2>3 DEF DiscountOK, SeenOK, SumsUp, TakeAndDiscount
  <2>7. VoidOK(u)'
    BY <1>10, <2>2, <2>3 DEF VoidOK, TakeAndVoid
  <2> QED  BY <2>4, <2>5, <2>6, <2>7
<1> QED  BY <1>10, <1>11, <1>13, <1>18, <1>19 DEF PayInv

LEMMA InitPay == PayInit => PayInv
<1> SUFFICES ASSUME PayInit PROVE PayInv
  OBVIOUS
<1>1. PICK extras \in Extras : bill = OpeningBill(extras)
  BY DEF PayInit
<1>2. /\ payments = <<>> /\ refunded = 0 /\ payClash = {}
      /\ payCalls = [t \in Tills |-> PayRest]
  BY DEF PayInit
<1>3. extras \in Nat /\ Goods \in Nat
  BY PaymentsAssumption
<1>4. TaxOn(Goods + extras) \in Nat
  BY <1>3, TaxGrows
<1>5. /\ bill.status = "SENT" /\ bill.extras = extras /\ bill.subtotal = Goods + extras
      /\ bill.discount = 0 /\ bill.tax = TaxOn(Goods + extras) /\ ~bill.closed
      /\ bill.grand = Goods + extras + TaxOn(Goods + extras)
  BY <1>1 DEF OpeningBill
<1>6. bill \in Bills
  BY <1>1, <1>3, <1>4 DEF OpeningBill, Bills
<1>7. PayTyped
  BY <1>2, <1>6 DEF PayTyped, PayCalls
<1>8. \A t \in Tills : /\ ~Taking(t) /\ ~Refunding(t) /\ ~Discounting(t) /\ ~Voiding(t)
                       /\ ~Flushed(t)
  BY <1>2 DEF Taking, Refunding, Discounting, Voiding, Flushed, PayRest
<1>9. Apart /\ FlushedApart
      /\ \A t \in Tills : TakeOK(t) /\ RefundOK(t) /\ DiscountOK(t) /\ VoidOK(t)
  BY <1>8 DEF Apart, FlushedApart, TakeOK, RefundOK, DiscountOK, VoidOK
<1>10. TendersTakenOnce
  BY <1>2 DEF TendersTakenOnce
<1>11. BillOK
  <2>1. Paid(payments) = 0
    BY <1>2, PaidNothing
  <2>2. SumsUp(bill)
    <3>1. ASSUME extras = 0 PROVE Goods + extras = Goods
      BY <1>3, <3>1
    <3> QED  BY <1>3, <1>4, <1>5, <3>1 DEF SumsUp
  <2>3. Dearest \in Nat
    BY <1>3, <1>4, <1>5 DEF Dearest
  <2> QED  BY <1>2, <1>5, <2>1, <2>2, <2>3 DEF BillOK
<1> QED  BY <1>7, <1>9, <1>10, <1>11 DEF PayInv

LEMMA NextPay == PayInv /\ [PayNext]_payVars => PayInv'
<1> SUFFICES ASSUME PayInv, [PayNext]_payVars PROVE PayInv'
  OBVIOUS
<1>1. CASE PayNext
  <2>1. PICK t \in Tills :
          \/ \E x \in Tenders, a \in 1 .. MaxTender : LoadTender(t, x, a)
          \/ FlushTake(t)
          \/ CommitTender(t)
          \/ \E a \in 1 .. MaxTender : LoadRefund(t, a)
          \/ CommitRefund(t)
          \/ \E d \in Discounts : LoadDiscount(t, d)
          \/ CommitDiscount(t)
          \/ LoadBillVoid(t)
          \/ CommitBillVoid(t)
          \/ PayRollback(t)
    BY <1>1 DEF PayNext
  <2> QED  BY <2>1, LoadTenderKeeps, FlushTakeKeeps, CommitTenderKeeps, LoadRefundKeeps,
              CommitRefundKeeps, LoadDiscountKeeps, CommitDiscountKeeps,
              LoadBillVoidKeeps, CommitBillVoidKeeps, PayRollbackKeeps
<1>2. CASE UNCHANGED payVars
  BY <1>2 DEF payVars, PayInv, PayTyped, Apart, FlushedApart, BillOK, TendersTakenOnce, TakeOK,
       RefundOK, DiscountOK, VoidOK, Taking, Refunding, Discounting, Voiding, Flushed,
       SeenOK, SumsUp, Dearest, Known, TwoTakes, TwoRefunds, TakeAndDiscount, TakeAndVoid
<1> QED  BY <1>1, <1>2

\* However many tills work on an order, a device's payment id is captured once;
\* more than the order's dearest total is captured, or more than was captured is
\* refunded, only when two requests were in progress at once (payments.py reads
\* the sums before it writes).  For every number of tills and every pack.
THEOREM MoneyStaysWithinBill == PaySpec => []MoneyStaysWithinTheBill
<1>1. PaySpec => []PayInv
  BY InitPay, NextPay, PTL DEF PaySpec
<1>2. PayInv => MoneyStaysWithinTheBill
  BY DEF PayInv, BillOK, Dearest, MoneyStaysWithinTheBill, OverpaidOnlyByRaces,
     RefundsWithinTakings, TwoTakes, TwoRefunds
<1> QED  BY <1>1, <1>2, PTL

\* A settled order is covered by its payments and a void one holds none, unless
\* the two requests that decided it overlapped; and the totals of an order
\* without surcharges add up whatever was written from stale reads.
THEOREM BillsAgreeWithPayments == PaySpec => []BillAgreesWithPayments
<1>1. PaySpec => []PayInv
  BY InitPay, NextPay, PTL DEF PaySpec
<1>2. PayInv => BillAgreesWithPayments
  <2> SUFFICES ASSUME PayInv PROVE BillAgreesWithPayments
    OBVIOUS
  <2>1. BillOK /\ bill \in Bills
    BY DEF PayInv, PayTyped
  <2>2. PlainTotalsAddUp
    BY <2>1 DEF PlainTotalsAddUp, BillOK, SumsUp
  <2>3. ClosedIsPaid /\ VoidHoldsNoMoney
    BY <2>1 DEF ClosedIsPaid, VoidHoldsNoMoney, BillOK, TakeAndDiscount, TakeAndVoid
  <2> QED  BY <2>2, <2>3 DEF BillAgreesWithPayments
<1> QED  BY <1>1, <1>2, PTL

--------------------------------------------------------------------------------
(* The menu and proposals *)

Deciding(a, i) ==
    officeCalls[a].op \in {"approve", "reject", "withdraw", "stamp"} /\ officeCalls[a].idea = i

MenuRows == [status : {"DRAFT", "PUBLISHED", "ARCHIVED"}, dishes : SUBSET Dishes]
IdeaRows ==
  [status : {"NONE", "PENDING", "APPROVED", "REJECTED"}, product : BOOLEAN, live : BOOLEAN]
MenuTypes ==
    /\ menus \in Seq(MenuRows)
    /\ frozen \in Seq(SUBSET Dishes) /\ Len(frozen) = Len(menus)
    /\ ideas \in [Ideas -> IdeaRows] /\ productsMade \in [Ideas -> Nat]
    /\ DOMAIN officeCalls = Admins
    /\ \A a \in Admins : \A i : Deciding(a, i) => i \in Ideas

\* A version lists a deal's components with the deal, and what is being added
\* has its components listed already.
DealsAreWhole ==
    /\ \A v \in DOMAIN menus : \A d \in menus[v].dishes : PartsOf[d] \subseteq menus[v].dishes
    /\ \A a \in Admins : officeCalls[a].op = "add" =>
         /\ officeCalls[a].version \in DOMAIN menus /\ officeCalls[a].dish \in Dishes
         /\ PartsOf[officeCalls[a].dish] \subseteq menus[officeCalls[a].version].dishes
    /\ \A a \in Admins : officeCalls[a].op = "publish" => officeCalls[a].version \in DOMAIN menus

\* Without an overlap a request still finds the version as a draft, and a
\* publication knows every version that is live.
PublishersAgree ==
    /\ \A v, w \in PublishedOnes : v = w
    /\ \A v \in DOMAIN menus : menus[v].status # "DRAFT" => menus[v].dishes = frozen[v]
    /\ \A a \in Admins : officeCalls[a].op \in {"add", "publish"} =>
         menus[officeCalls[a].version].status = "DRAFT"
    /\ \A a \in Admins : officeCalls[a].op = "publish" => officeCalls[a].previous = PublishedOnes

\* Of a proposal that is not contested one decision is under way, which finds
\* it pending, and only a product about to be stamped is ahead of the status.
IdeaStands(i) ==
    /\ ideas[i].status \in {"NONE", "PENDING"} => ~ideas[i].product
    /\ ideas[i].status = "APPROVED" => ideas[i].product /\ productsMade[i] = 1
    /\ ideas[i].live => ideas[i].status = "APPROVED"
    /\ ideas[i].status = "REJECTED" => ~ideas[i].product
    /\ \A a, b \in Admins : Deciding(a, i) /\ Deciding(b, i) => a = b
    /\ \A a \in Admins : Deciding(a, i) =>
         /\ ideas[i].status = "PENDING"
         /\ officeCalls[a].op = "stamp" => productsMade[i] = 1
    /\ ideas[i].status \in {"NONE", "PENDING"} /\ productsMade[i] # 0 =>
         \E a \in Admins : officeCalls[a].op = "stamp" /\ officeCalls[a].idea = i
    /\ productsMade[i] # 0 => \A a \in Admins : Deciding(a, i) => officeCalls[a].op = "stamp"

MenuInv ==
    /\ MenuTypes /\ DealsAreWhole
    /\ ~overlapping => PublishersAgree
    /\ \A i \in Ideas \ contested : IdeaStands(i)

LEMMA MenuInvSays == MenuInv => MenuStands
<1> SUFFICES ASSUME MenuInv PROVE MenuStands
  OBVIOUS
<1>1. DecidedOnce
  BY DEF MenuInv, IdeaStands, DecidedOnce
<1>2. DealsFollowTheirParts
  <2> SUFFICES ASSUME NEW v \in DOMAIN menus, NEW d \in menus[v].dishes, NEW e \in PartsOf[d]
               PROVE  e \in menus[v].dishes /\ (OnSale(v, d) => OnSale(v, e))
    BY DEF DealsFollowTheirParts
  <2>1. e \in menus[v].dishes
    BY DEF MenuInv, DealsAreWhole
  <2>2. d \in Dishes
    <3>1. menus[v] \in MenuRows
      BY DEF MenuInv, MenuTypes
    <3> QED  BY <3>1 DEF MenuRows
  <2>3. PartsOf[e] = {} /\ PartsOf[d] # {}
    BY <2>2, DealsAssumption
  <2> QED  BY <2>1, <2>3 DEF OnSale
<1>3. PublishingIsFinal
  <2> SUFFICES ASSUME ~overlapping, PublishersAgree PROVE PublishingIsFinal
    BY DEF MenuInv, PublishingIsFinal
  <2>1. CASE PublishedOnes = {}
    <3>1. Cardinality(PublishedOnes) = 0
      BY <2>1, FS_EmptySet
    <3> QED  BY <3>1 DEF PublishingIsFinal, PublishersAgree
  <2>2. CASE PublishedOnes # {}
    <3>1. PICK v : v \in PublishedOnes
      BY <2>2
    <3>2. PublishedOnes = {v}
      BY <3>1 DEF PublishersAgree
    <3>3. Cardinality(PublishedOnes) = 1
      BY <3>2, FS_Singleton
    <3> QED  BY <3>3 DEF PublishingIsFinal, PublishersAgree
  <2> QED  BY <2>1, <2>2
<1> QED  BY <1>1, <1>2, <1>3 DEF MenuStands

LEMMA MenuBegins == MenuInit => MenuInv
<1> SUFFICES ASSUME MenuInit PROVE MenuInv
  OBVIOUS
<1>1. menus = << >> /\ frozen = << >> /\ DOMAIN menus = {} /\ PublishedOnes = {}
  BY DEF MenuInit, PublishedOnes
<1>2. \A a \in Admins : officeCalls[a].op = "none"
  BY DEF MenuInit, MenuResting
<1>3. \A i \in Ideas : /\ ideas[i].status = "NONE" /\ ~ideas[i].product /\ ~ideas[i].live
                       /\ productsMade[i] = 0
  BY DEF MenuInit
<1>4. \A a \in Admins : \A i : ~Deciding(a, i)
  BY <1>2 DEF Deciding
<1>5. MenuTypes
  BY <1>1, <1>4 DEF MenuInit, MenuTypes, IdeaRows
<1>6. DealsAreWhole /\ PublishersAgree
  BY <1>1, <1>2 DEF DealsAreWhole, PublishersAgree
<1>7. \A i \in Ideas : IdeaStands(i)
  BY <1>3, <1>4 DEF IdeaStands
<1> QED  BY <1>5, <1>6, <1>7 DEF MenuInv

\* A proposal nobody touches and nobody newly decides on stands as it did.
LEMMA IdeasOutlive ==
  ASSUME MenuInv, contested \subseteq contested', NEW i \in Ideas \ contested',
         ideas'[i] = ideas[i], productsMade'[i] = productsMade[i],
         \A a \in Admins : /\ Deciding(a, i) => officeCalls'[a] = officeCalls[a]
                           /\ Deciding(a, i)' => Deciding(a, i)
  PROVE  IdeaStands(i)'
<1>1. IdeaStands(i)
  BY DEF MenuInv
<1>2. \A a \in Admins : /\ Deciding(a, i)' <=> Deciding(a, i)
                        /\ Deciding(a, i) => officeCalls'[a] = officeCalls[a]
  BY DEF Deciding
<1>3. \A a \in Admins : officeCalls[a].op = "stamp" /\ officeCalls[a].idea = i => Deciding(a, i)
  BY DEF Deciding
<1>4. ideas'[i].status \in {"NONE", "PENDING"} /\ productsMade'[i] # 0 =>
         \E a \in Admins : officeCalls'[a].op = "stamp" /\ officeCalls'[a].idea = i
  BY <1>1, <1>2, <1>3 DEF IdeaStands
<1>5. productsMade'[i] # 0 => \A a \in Admins : Deciding(a, i)' => officeCalls'[a].op = "stamp"
  BY <1>1, <1>2 DEF IdeaStands
<1>6. \A a, b \in Admins : Deciding(a, i)' /\ Deciding(b, i)' => a = b
  BY <1>1, <1>2 DEF IdeaStands
<1>7. \A a \in Admins : Deciding(a, i)' =>
         /\ ideas'[i].status = "PENDING"
         /\ officeCalls'[a].op = "stamp" => productsMade'[i] = 1
  BY <1>1, <1>2 DEF IdeaStands
<1> QED  BY <1>1, <1>4, <1>5, <1>6, <1>7 DEF IdeaStands

\* The menus, while no request writes them.
LEMMA MenusStandStill ==
  ASSUME MenuInv, UNCHANGED <<menus, frozen, overlapping>>,
         \A a \in Admins : \/ officeCalls'[a].op \notin {"add", "publish"}
                           \/ officeCalls'[a] = officeCalls[a]
  PROVE  DealsAreWhole' /\ (~overlapping' => PublishersAgree')
<1>1. PublishedOnes' = PublishedOnes
  BY DEF PublishedOnes
<1>2. DealsAreWhole'
  BY DEF MenuInv, DealsAreWhole
<1>3. ~overlapping' => PublishersAgree'
  BY <1>1 DEF MenuInv, PublishersAgree
<1> QED  BY <1>2, <1>3

\* The office works on the menus: drafts, additions, publications.
LEMMA MenuStep ==
  ASSUME MenuInv,
         \/ CreateDraft
         \/ \E v \in DOMAIN menus, d \in Dishes : \E a \in Admins : LoadAdd(a, v, d)
         \/ \E a \in Admins :
              (\E v \in DOMAIN menus : LoadPublish(a, v)) \/ CommitAdd(a) \/ CommitPublish(a)
  PROVE  MenuInv'
<1>1. UNCHANGED <<ideas, productsMade, contested>>
  BY DEF CreateDraft, LoadAdd, LoadPublish, CommitAdd, CommitPublish
<1> DEFINE Others ==
      /\ DOMAIN officeCalls' = Admins
      /\ \A a \in Admins : \/ officeCalls'[a] = officeCalls[a]
                           \/ /\ officeCalls[a].op \in {"none", "add", "publish"}
                              /\ officeCalls'[a].op \in {"none", "add", "publish"}
<1>2. Others
  <2>1. \A a \in Admins : \A call : Turn(a, call) =>
          /\ DOMAIN officeCalls' = Admins /\ officeCalls'[a] = call
          /\ \A b \in Admins \ {a} : officeCalls'[b] = officeCalls[b]
    BY DEF MenuInv, MenuTypes, Turn
  <2>2. CASE CreateDraft
    BY <2>2 DEF MenuInv, MenuTypes, CreateDraft
  <2>3. ASSUME NEW a \in Admins, NEW call, Turn(a, call),
               officeCalls[a].op \in {"none", "add", "publish"},
               call.op \in {"none", "add", "publish"}
        PROVE  Others
    BY <2>1, <2>3
  <2>4. MenuResting.op = "none"
    BY DEF MenuResting
  <2>5. ASSUME NEW v \in DOMAIN menus, NEW d \in Dishes, NEW a \in Admins, LoadAdd(a, v, d)
        PROVE  Others
    <3> DEFINE call == [op |-> "add", version |-> v, dish |-> d]
    <3>1. Turn(a, call) /\ officeCalls[a] = MenuResting /\ call.op = "add"
      BY <2>5 DEF LoadAdd
    <3> QED  BY <2>3, <2>4, <3>1
  <2>6. ASSUME NEW v \in DOMAIN menus, NEW a \in Admins, LoadPublish(a, v)
        PROVE  Others
    <3> DEFINE call == [op |-> "publish", version |-> v, previous |-> Previous(v)]
    <3>1. Turn(a, call) /\ officeCalls[a] = MenuResting /\ call.op = "publish"
      BY <2>6 DEF LoadPublish
    <3> QED  BY <2>3, <2>4, <3>1
  <2>7. ASSUME NEW a \in Admins, CommitAdd(a) \/ CommitPublish(a)
        PROVE  Others
    BY <2>3, <2>4, <2>7 DEF CommitAdd, CommitPublish
  <2> QED  BY <2>2, <2>5, <2>6, <2>7
<1>3. \A a \in Admins : \A i : Deciding(a, i)' <=> Deciding(a, i)
  BY <1>2 DEF Deciding
<1>4. \A a \in Admins : \A i : Deciding(a, i) => officeCalls'[a] = officeCalls[a]
  BY <1>2 DEF Deciding
<1>5. \A i \in Ideas \ contested' : IdeaStands(i)'
  BY <1>1, <1>3, <1>4, IdeasOutlive
<1>6. /\ ideas' \in [Ideas -> IdeaRows] /\ productsMade' \in [Ideas -> Nat]
      /\ \A a \in Admins : \A i : Deciding(a, i)' => i \in Ideas
  BY <1>1, <1>3 DEF MenuInv, MenuTypes
<1>7. CASE CreateDraft
  <2> DEFINE row == [status |-> "DRAFT", dishes |-> {}]
  <2>1. /\ menus' = Append(menus, row) /\ frozen' = Append(frozen, {})
        /\ UNCHANGED <<officeCalls, overlapping>>
    BY <1>7 DEF CreateDraft
  <2>2. row \in MenuRows /\ menus \in Seq(MenuRows) /\ frozen \in Seq(SUBSET Dishes)
        /\ Len(frozen) = Len(menus)
    BY DEF MenuRows, MenuInv, MenuTypes
  <2>3. row.status = "DRAFT" /\ row.dishes = {}
    OBVIOUS
  <2> HIDE DEF row
  <2>4. /\ menus' \in Seq(MenuRows) /\ frozen' \in Seq(SUBSET Dishes) /\ Len(frozen') = Len(menus')
        /\ DOMAIN menus \subseteq DOMAIN menus'
        /\ \A v \in DOMAIN menus : menus'[v] = menus[v] /\ frozen'[v] = frozen[v]
        /\ \A v \in DOMAIN menus' \ DOMAIN menus : menus'[v] = row
    BY <2>1, <2>2
  <2>5. \A v \in DOMAIN menus' \ DOMAIN menus : menus'[v].status = "DRAFT" /\ menus'[v].dishes = {}
    BY <2>3, <2>4
  <2>6. PublishedOnes' = PublishedOnes
    BY <2>4, <2>5 DEF PublishedOnes
  <2>7. DealsAreWhole'
    BY <2>1, <2>4, <2>5 DEF MenuInv, DealsAreWhole
  <2>8. ~overlapping' => PublishersAgree'
    <3> SUFFICES ASSUME ~overlapping' PROVE PublishersAgree'
      OBVIOUS
    <3>1. PublishersAgree /\ DealsAreWhole
      BY <2>1 DEF MenuInv
    <3>2. \A v \in DOMAIN menus' : menus'[v].status # "DRAFT" => menus'[v].dishes = frozen'[v]
      BY <2>4, <2>5, <3>1 DEF PublishersAgree
    <3>3. \A a \in Admins : officeCalls'[a].op \in {"add", "publish"} =>
            menus'[officeCalls'[a].version].status = "DRAFT"
      BY <2>1, <2>4, <3>1 DEF PublishersAgree, DealsAreWhole
    <3> QED  BY <2>1, <2>6, <3>1, <3>2, <3>3 DEF PublishersAgree
  <2> QED  BY <1>2, <1>5, <1>6, <2>4, <2>7, <2>8 DEF MenuInv, MenuTypes
<1>8. ASSUME NEW a \in Admins, NEW v \in DOMAIN menus, NEW d \in Dishes, LoadAdd(a, v, d)
      PROVE  MenuInv'
  <2> DEFINE call == [op |-> "add", version |-> v, dish |-> d]
  <2>1. /\ UNCHANGED <<menus, frozen, overlapping>> /\ menus[v].status = "DRAFT"
        /\ PartsOf[d] \subseteq menus[v].dishes
        /\ officeCalls' = [officeCalls EXCEPT ![a] = call]
    BY <1>8 DEF LoadAdd, EditableMenu, PartsListed, Turn
  <2>2. officeCalls'[a] = call /\ \A b \in Admins \ {a} : officeCalls'[b] = officeCalls[b]
    BY <2>1 DEF MenuInv, MenuTypes
  <2>3. call.op = "add" /\ call.version = v /\ call.dish = d
    OBVIOUS
  <2> HIDE DEF call
  <2>4. DealsAreWhole'
    BY <2>1, <2>2, <2>3 DEF MenuInv, DealsAreWhole
  <2>5. ~overlapping' => PublishersAgree'
    <3>1. PublishedOnes' = PublishedOnes
      BY <2>1 DEF PublishedOnes
    <3> QED  BY <2>1, <2>2, <2>3, <3>1 DEF MenuInv, PublishersAgree
  <2> QED  BY <1>2, <1>5, <1>6, <2>1, <2>4, <2>5 DEF MenuInv, MenuTypes
<1>9. ASSUME NEW a \in Admins, NEW v \in DOMAIN menus, LoadPublish(a, v)
      PROVE  MenuInv'
  <2> DEFINE call == [op |-> "publish", version |-> v, previous |-> PublishedOnes]
  <2>1. /\ UNCHANGED <<menus, frozen, overlapping>> /\ menus[v].status = "DRAFT"
        /\ officeCalls' = [officeCalls EXCEPT ![a] = call]
    BY <1>9 DEF LoadPublish, EditableMenu, Previous, Turn
  <2>2. officeCalls'[a] = call /\ \A b \in Admins \ {a} : officeCalls'[b] = officeCalls[b]
    BY <2>1 DEF MenuInv, MenuTypes
  <2>3. call.op = "publish" /\ call.version = v /\ call.previous = PublishedOnes
    OBVIOUS
  <2>4. PublishedOnes' = PublishedOnes
    BY <2>1 DEF PublishedOnes
  <2> HIDE DEF call
  <2>5. DealsAreWhole'
    BY <2>1, <2>2, <2>3 DEF MenuInv, DealsAreWhole
  <2>6. ~overlapping' => PublishersAgree'
    BY <2>1, <2>2, <2>3, <2>4 DEF MenuInv, PublishersAgree
  <2> QED  BY <1>2, <1>5, <1>6, <2>1, <2>5, <2>6 DEF MenuInv, MenuTypes
<1>10. ASSUME NEW a \in Admins, CommitAdd(a)
       PROVE  MenuInv'
  <2>1. PICK v, d : v = officeCalls[a].version /\ d = officeCalls[a].dish
    OBVIOUS
  <2>2. /\ menus' = [menus EXCEPT ![v].dishes = @ \cup {d}] /\ frozen' = frozen
        /\ officeCalls[a].op = "add" /\ officeCalls' = [officeCalls EXCEPT ![a] = MenuResting]
        /\ overlapping' = (overlapping \/ \E b \in Admins : officeCalls[b].op = "publish")
    BY <1>10, <2>1 DEF CommitAdd, Turn
  <2>3. v \in DOMAIN menus /\ d \in Dishes /\ PartsOf[d] \subseteq menus[v].dishes
        /\ menus \in Seq(MenuRows)
    BY <2>1, <2>2 DEF MenuInv, DealsAreWhole, MenuTypes
  <2>4. /\ DOMAIN menus' = DOMAIN menus
        /\ menus'[v] = [menus[v] EXCEPT !.dishes = @ \cup {d}]
        /\ \A w \in DOMAIN menus \ {v} : menus'[w] = menus[w]
    BY <2>2, <2>3
  <2>5. menus[v] \in MenuRows
    BY <2>3
  <2>6. /\ menus'[v] \in MenuRows /\ menus'[v].status = menus[v].status
        /\ menus'[v].dishes = menus[v].dishes \cup {d}
    BY <2>3, <2>4, <2>5 DEF MenuRows
  <2>7. menus' \in Seq(MenuRows) /\ Len(menus') = Len(menus)
    BY <2>2, <2>3, <2>4, <2>6
  <2>8. officeCalls'[a].op = "none" /\ \A b \in Admins \ {a} : officeCalls'[b] = officeCalls[b]
    BY <2>2 DEF MenuInv, MenuTypes, MenuResting
  <2>9. \A w \in DOMAIN menus : menus'[w].status = menus[w].status
                                /\ menus[w].dishes \subseteq menus'[w].dishes
    BY <2>4, <2>6
  <2>10. DealsAreWhole'
    <3>1. \A w \in DOMAIN menus' : \A e \in menus'[w].dishes : PartsOf[e] \subseteq menus'[w].dishes
      BY <2>3, <2>4, <2>6 DEF MenuInv, DealsAreWhole
    <3> QED  BY <2>4, <2>8, <2>9, <3>1 DEF MenuInv, DealsAreWhole
  <2>11. PublishedOnes' = PublishedOnes
    BY <2>4, <2>9 DEF PublishedOnes
  <2>12. ~overlapping' => PublishersAgree'
    <3> SUFFICES ASSUME ~overlapping' PROVE PublishersAgree'
      OBVIOUS
    <3>1. PublishersAgree /\ DealsAreWhole
      BY <2>2 DEF MenuInv
    <3>2. menus[v].status = "DRAFT"
      BY <2>1, <2>2, <3>1 DEF PublishersAgree
    <3>3. \A w \in DOMAIN menus' : menus'[w].status # "DRAFT" => menus'[w].dishes = frozen'[w]
      BY <2>2, <2>4, <2>6, <3>1, <3>2 DEF PublishersAgree
    <3>4. \A b \in Admins : officeCalls'[b].op \in {"add", "publish"} =>
            menus'[officeCalls'[b].version].status = "DRAFT"
      BY <2>8, <2>9, <3>1 DEF PublishersAgree, DealsAreWhole
    <3> QED  BY <2>8, <2>11, <3>1, <3>3, <3>4 DEF PublishersAgree
  <2> QED  BY <1>2, <1>5, <1>6, <2>2, <2>7, <2>10, <2>12 DEF MenuInv, MenuTypes
<1>11. ASSUME NEW a \in Admins, CommitPublish(a)
       PROVE  MenuInv'
  <2>1. PICK v, previous : v = officeCalls[a].version /\ previous = officeCalls[a].previous
    OBVIOUS
  <2>2. /\ menus' = [w \in DOMAIN menus |->
                       [menus[w] EXCEPT !.status = IF w = v THEN "PUBLISHED"
                                                   ELSE IF w \in previous THEN "ARCHIVED" ELSE @]]
        /\ frozen' = [frozen EXCEPT ![v] = menus[v].dishes]
        /\ officeCalls[a].op = "publish" /\ officeCalls' = [officeCalls EXCEPT ![a] = MenuResting]
        /\ overlapping' = (overlapping \/ \E b \in Admins \ {a} :
                                            officeCalls[b].op \in {"publish", "add"})
    BY <1>11, <2>1 DEF CommitPublish, Turn
  <2>3. v \in DOMAIN menus /\ menus \in Seq(MenuRows) /\ frozen \in Seq(SUBSET Dishes)
        /\ Len(frozen) = Len(menus)
    BY <2>1, <2>2 DEF MenuInv, DealsAreWhole, MenuTypes
  <2>4. DOMAIN menus' = DOMAIN menus /\ \A w \in DOMAIN menus : menus[w] \in MenuRows
    BY <2>2, <2>3
  <2>5. \A w \in DOMAIN menus :
          /\ menus'[w] \in MenuRows /\ menus'[w].dishes = menus[w].dishes
          /\ menus'[w].status = IF w = v THEN "PUBLISHED"
                                ELSE IF w \in previous THEN "ARCHIVED" ELSE menus[w].status
    BY <2>2, <2>4 DEF MenuRows
  <2>6. menus' \in Seq(MenuRows) /\ Len(menus') = Len(menus)
    <3>1. \A n \in Nat : [1..n -> MenuRows] \subseteq Seq(MenuRows)
      OBVIOUS
    <3>2. DOMAIN menus = 1..Len(menus) /\ Len(menus) \in Nat
      BY <2>3
    <3>3. menus' \in [1..Len(menus) -> MenuRows]
      BY <2>2, <2>5, <3>2
    <3> QED  BY <2>4, <3>1, <3>2, <3>3
  <2>7. /\ frozen' \in Seq(SUBSET Dishes) /\ Len(frozen') = Len(frozen)
        /\ frozen'[v] = menus[v].dishes
        /\ \A w \in DOMAIN menus \ {v} : frozen'[w] = frozen[w]
    <3>1. menus[v].dishes \in SUBSET Dishes
      BY <2>3, <2>4 DEF MenuRows
    <3> QED  BY <2>2, <2>3, <3>1
  <2>8. officeCalls'[a].op = "none" /\ \A b \in Admins \ {a} : officeCalls'[b] = officeCalls[b]
    BY <2>2 DEF MenuInv, MenuTypes, MenuResting
  <2>9. DealsAreWhole'
    BY <2>4, <2>5, <2>8 DEF MenuInv, DealsAreWhole
  <2>10. ~overlapping' => PublishersAgree'
    <3> SUFFICES ASSUME ~overlapping' PROVE PublishersAgree'
      OBVIOUS
    <3>1. PublishersAgree
      BY <2>2 DEF MenuInv
    <3>2. previous = PublishedOnes
      BY <2>1, <2>2, <3>1 DEF PublishersAgree
    <3>3. PublishedOnes' = {v}
      BY <2>3, <2>4, <2>5, <3>2 DEF PublishedOnes
    <3>4. \A b \in Admins : officeCalls'[b].op \notin {"add", "publish"}
      BY <2>2, <2>8
    <3>5. \A w \in DOMAIN menus' : menus'[w].status # "DRAFT" => menus'[w].dishes = frozen'[w]
      <4>1. \A w \in previous : menus[w].status # "DRAFT" /\ w \in DOMAIN menus
        BY <3>2 DEF PublishedOnes
      <4> QED  BY <2>4, <2>5, <2>7, <3>1, <4>1 DEF PublishersAgree
    <3> QED  BY <3>3, <3>4, <3>5 DEF PublishersAgree
  <2> QED  BY <1>2, <1>5, <1>6, <2>3, <2>6, <2>7, <2>9, <2>10 DEF MenuInv, MenuTypes
<1> QED  BY <1>7, <1>8, <1>9, <1>10, <1>11

\* Proposals, one after the other: what is not about i leaves i alone.
LEMMA IdeaStep ==
  ASSUME MenuInv, NEW i \in Ideas, UNCHANGED <<menus, frozen, overlapping>>,
         contested \subseteq contested', DOMAIN officeCalls' = Admins,
         \A a \in Admins : \/ officeCalls'[a] = officeCalls[a]
                           \/ /\ officeCalls'[a].op \notin {"add", "publish"}
                              /\ \A j : j # i => ~Deciding(a, j) /\ ~Deciding(a, j)',
         ideas' \in [Ideas -> IdeaRows], productsMade' \in [Ideas -> Nat],
         \A j \in Ideas \ {i} : ideas'[j] = ideas[j] /\ productsMade'[j] = productsMade[j],
         i \notin contested' => IdeaStands(i)'
  PROVE  MenuInv'
<1>1. \A j \in Ideas \ {i} : \A a \in Admins :
        /\ Deciding(a, j) => officeCalls'[a] = officeCalls[a]
        /\ Deciding(a, j)' => Deciding(a, j)
  BY DEF Deciding
<1>2. \A j \in Ideas \ contested' : IdeaStands(j)'
  <2> SUFFICES ASSUME NEW j \in Ideas \ contested', j # i PROVE IdeaStands(j)'
    OBVIOUS
  <2> QED  BY <1>1, IdeasOutlive
<1>3. DealsAreWhole' /\ (~overlapping' => PublishersAgree')
  BY MenusStandStill
<1>4. \A a \in Admins : \A j : Deciding(a, j)' => j \in Ideas
  BY DEF MenuInv, MenuTypes, Deciding
<1>5. MenuTypes'
  BY <1>4 DEF MenuInv, MenuTypes
<1> QED  BY <1>2, <1>3, <1>5 DEF MenuInv

\* One proposal at a time: it is made, decided on, and put on sale.
LEMMA IdeaMade ==
  ASSUME MenuInv, NEW i \in Ideas, Propose(i) \/ MarkPublished(i)
  PROVE  MenuInv'
<1>1. /\ UNCHANGED <<menus, frozen, overlapping, contested, officeCalls, productsMade>>
      /\ \A j \in Ideas \ {i} : ideas'[j] = ideas[j]
      /\ ideas[i] \in IdeaRows /\ ideas \in [Ideas -> IdeaRows]
      /\ productsMade \in [Ideas -> Nat] /\ DOMAIN officeCalls = Admins
  BY DEF Propose, MarkPublished, MenuInv, MenuTypes
<1>2. /\ \/ ideas[i].status = "NONE" /\ ideas'[i] = [ideas[i] EXCEPT !.status = "PENDING"]
         \/ ideas[i].status = "APPROVED" /\ ideas'[i] = [ideas[i] EXCEPT !.live = TRUE]
      /\ ideas' = [ideas EXCEPT ![i] = ideas'[i]]
  BY <1>1 DEF Propose, MarkPublished
<1>3. /\ ideas'[i] \in IdeaRows /\ ideas'[i].product = ideas[i].product
      /\ \/ /\ ideas[i].status = "NONE" /\ ideas'[i].status = "PENDING"
            /\ ideas'[i].live = ideas[i].live
         \/ ideas[i].status = "APPROVED" /\ ideas'[i].status = "APPROVED"
  BY <1>1, <1>2 DEF IdeaRows
<1>4. ideas' \in [Ideas -> IdeaRows]
  BY <1>1, <1>2, <1>3
<1>5. i \notin contested' => IdeaStands(i)'
  <2> SUFFICES ASSUME i \notin contested' PROVE IdeaStands(i)'
    OBVIOUS
  <2>1. IdeaStands(i)
    BY <1>1 DEF MenuInv
  <2>2. \A a \in Admins : ~Deciding(a, i)
    BY <2>1, <1>3 DEF IdeaStands
  <2>3. \A a \in Admins : ~Deciding(a, i)'
    BY <2>2, <1>1 DEF Deciding
  <2> QED  BY <1>1, <1>3, <2>1, <2>3 DEF IdeaStands
<1> QED  BY <1>1, <1>4, <1>5, IdeaStep

LEMMA DecisionLoaded ==
  ASSUME MenuInv, NEW a \in Admins, NEW i \in Ideas,
         NEW op \in {"approve", "reject", "withdraw"}, LoadDecision(a, i, op)
  PROVE  MenuInv'
<1> DEFINE call == [op |-> op, idea |-> i]
<1>1. /\ UNCHANGED <<menus, frozen, overlapping, ideas, productsMade>>
      /\ officeCalls[a].op = "none" /\ ideas[i].status = "PENDING"
      /\ officeCalls' = [officeCalls EXCEPT ![a] = call]
      /\ contested' = IF Contends(a, i) THEN contested \cup {i} ELSE contested
  BY DEF LoadDecision, MenuResting, Pending, Turn
<1>2. call.op = op /\ call.idea = i
  OBVIOUS
<1> HIDE DEF call
<1>3. /\ ideas \in [Ideas -> IdeaRows] /\ productsMade \in [Ideas -> Nat]
      /\ DOMAIN officeCalls' = Admins /\ officeCalls'[a] = call
      /\ \A b \in Admins \ {a} : officeCalls'[b] = officeCalls[b]
  BY <1>1 DEF MenuInv, MenuTypes
<1>4. \A b \in Admins : \/ officeCalls'[b] = officeCalls[b]
                        \/ /\ officeCalls'[b].op \notin {"add", "publish"}
                           /\ \A j : j # i => ~Deciding(b, j) /\ ~Deciding(b, j)'
  BY <1>1, <1>2, <1>3 DEF Deciding
<1>5. i \notin contested' => IdeaStands(i)'
  <2> SUFFICES ASSUME i \notin contested' PROVE IdeaStands(i)'
    OBVIOUS
  <2>1. IdeaStands(i)
    BY <1>1 DEF MenuInv
  <2>2. \A b \in Admins : ~Deciding(b, i)
    BY <1>1 DEF Contends, Deciding
  <2>3. \A b \in Admins : Deciding(b, i)' => b = a
    BY <2>2, <1>3 DEF Deciding
  <2>4. productsMade[i] = 0
    BY <2>1, <2>2, <1>1 DEF IdeaStands, Deciding
  <2> QED  BY <1>1, <1>2, <1>3, <2>1, <2>3, <2>4 DEF IdeaStands
<1>6. contested \subseteq contested'
  BY <1>1
<1> QED  BY <1>1, <1>3, <1>4, <1>5, <1>6, IdeaStep

LEMMA ProductMade ==
  ASSUME MenuInv, NEW a \in Admins, MakeProduct(a)
  PROVE  MenuInv'
<1>1. PICK i : i = officeCalls[a].idea
  OBVIOUS
<1> DEFINE call == [op |-> "stamp", idea |-> i]
<1>2. /\ UNCHANGED <<menus, frozen, overlapping, ideas, contested>>
      /\ officeCalls[a].op = "approve"
      /\ officeCalls' = [officeCalls EXCEPT ![a] = call]
      /\ productsMade' = [productsMade EXCEPT ![i] = @ + 1]
  BY <1>1 DEF MakeProduct, Turn
<1>3. call.op = "stamp" /\ call.idea = i
  OBVIOUS
<1> HIDE DEF call
<1>4. Deciding(a, i) /\ i \in Ideas
  BY <1>1, <1>2 DEF Deciding, MenuInv, MenuTypes
<1>5. /\ ideas \in [Ideas -> IdeaRows] /\ productsMade' \in [Ideas -> Nat]
      /\ productsMade'[i] = productsMade[i] + 1
      /\ \A j \in Ideas \ {i} : productsMade'[j] = productsMade[j]
      /\ DOMAIN officeCalls' = Admins /\ officeCalls'[a] = call
      /\ \A b \in Admins \ {a} : officeCalls'[b] = officeCalls[b]
  BY <1>2, <1>4 DEF MenuInv, MenuTypes
<1>6. \A b \in Admins : \/ officeCalls'[b] = officeCalls[b]
                        \/ /\ officeCalls'[b].op \notin {"add", "publish"}
                           /\ \A j : j # i => ~Deciding(b, j) /\ ~Deciding(b, j)'
  BY <1>1, <1>3, <1>5 DEF Deciding
<1>7. i \notin contested' => IdeaStands(i)'
  <2> SUFFICES ASSUME i \notin contested' PROVE IdeaStands(i)'
    OBVIOUS
  <2>1. IdeaStands(i)
    BY <1>2, <1>4 DEF MenuInv
  <2>2. ideas[i].status = "PENDING" /\ productsMade[i] = 0
    BY <2>1, <1>2, <1>4, <1>5 DEF IdeaStands
  <2>3. \A b \in Admins : Deciding(b, i)' => b = a
    BY <2>1, <1>4, <1>5 DEF Deciding, IdeaStands
  <2>4. productsMade'[i] = 1
    BY <2>2, <1>5
  <2> QED  BY <1>2, <1>3, <1>5, <2>1, <2>2, <2>3, <2>4 DEF IdeaStands
<1> QED  BY <1>2, <1>4, <1>5, <1>6, <1>7, IdeaStep

\* A request ends: it stamps, rejects, withdraws or dies.
LEMMA DecisionMade ==
  ASSUME MenuInv, NEW a \in Admins, StampApproved(a) \/ CommitReject(a) \/ CommitWithdraw(a)
  PROVE  MenuInv'
<1>1. PICK i : i = officeCalls[a].idea
  OBVIOUS
<1>2. /\ UNCHANGED <<menus, frozen, overlapping, productsMade, contested>>
      /\ officeCalls' = [officeCalls EXCEPT ![a] = MenuResting]
  BY DEF StampApproved, CommitReject, CommitWithdraw, Turn
<1>3. Deciding(a, i) /\ i \in Ideas
  BY <1>1 DEF StampApproved, CommitReject, CommitWithdraw, Deciding, MenuInv, MenuTypes
<1>4. /\ ideas \in [Ideas -> IdeaRows] /\ productsMade \in [Ideas -> Nat]
      /\ DOMAIN officeCalls' = Admins /\ officeCalls'[a].op = "none"
      /\ \A b \in Admins \ {a} : officeCalls'[b] = officeCalls[b]
      /\ ideas[i] \in IdeaRows
  BY <1>2, <1>3 DEF MenuInv, MenuTypes, MenuResting
<1>5. \A b \in Admins : \/ officeCalls'[b] = officeCalls[b]
                        \/ /\ officeCalls'[b].op \notin {"add", "publish"}
                           /\ \A j : j # i => ~Deciding(b, j) /\ ~Deciding(b, j)'
  BY <1>1, <1>3, <1>4 DEF Deciding
<1> DEFINE Made ==
      /\ ideas' \in [Ideas -> IdeaRows] /\ \A j \in Ideas \ {i} : ideas'[j] = ideas[j]
      /\ \/ /\ officeCalls[a].op = "stamp"
            /\ ideas'[i].status = "APPROVED" /\ ideas'[i].product
         \/ /\ officeCalls[a].op = "reject"
            /\ ideas'[i].status = "REJECTED" /\ ideas'[i].product = ideas[i].product
            /\ ideas'[i].live = ideas[i].live
         \/ /\ officeCalls[a].op = "withdraw" /\ ideas'[i].status = "NONE"
            /\ ~ideas'[i].product /\ ~ideas'[i].live
         \/ ideas[i].status = "NONE"
<1>6. Made
  <2>0. CASE ideas[i].status = "NONE" /\ ideas' = ideas
    BY <1>4, <2>0
  <2>1. ASSUME NEW row \in IdeaRows, ideas' = [ideas EXCEPT ![i] = row]
        PROVE  /\ ideas' \in [Ideas -> IdeaRows] /\ ideas'[i] = row
               /\ \A j \in Ideas \ {i} : ideas'[j] = ideas[j]
    BY <1>3, <1>4, <2>1
  <2>2. CASE StampApproved(a) /\ ideas[i].status # "NONE"
    <3>1. PICK row : row = Stamped(i)
      OBVIOUS
    <3>2. row \in IdeaRows /\ row.status = "APPROVED" /\ row.product
      BY <1>4, <3>1 DEF Stamped, IdeaRows
    <3>3. ideas' = [ideas EXCEPT ![i] = row] /\ officeCalls[a].op = "stamp"
      BY <1>1, <2>2, <3>1 DEF StampApproved
    <3> QED  BY <2>1, <3>2, <3>3
  <2>3. CASE CommitReject(a) /\ ideas[i].status # "NONE"
    <3>1. PICK row : row = [ideas[i] EXCEPT !.status = "REJECTED"]
      OBVIOUS
    <3>2. /\ row \in IdeaRows /\ row.status = "REJECTED" /\ row.product = ideas[i].product
          /\ row.live = ideas[i].live
      BY <1>4, <3>1 DEF IdeaRows
    <3>3. ideas' = [ideas EXCEPT ![i] = row] /\ officeCalls[a].op = "reject"
      BY <1>1, <2>3, <3>1 DEF CommitReject
    <3> QED  BY <2>1, <3>2, <3>3
  <2>4. CASE CommitWithdraw(a)
    <3>1. PICK row : row = [status |-> "NONE", product |-> FALSE, live |-> FALSE]
      OBVIOUS
    <3>2. row \in IdeaRows /\ row.status = "NONE" /\ ~row.product /\ ~row.live
      BY <3>1 DEF IdeaRows
    <3>3. ideas' = [ideas EXCEPT ![i] = row] /\ officeCalls[a].op = "withdraw"
      BY <1>1, <2>4, <3>1 DEF CommitWithdraw
    <3> QED  BY <2>1, <3>2, <3>3
  <2>5. CASE ideas[i].status = "NONE" /\ ~CommitWithdraw(a)
    BY <1>1, <2>0, <2>5 DEF StampApproved, CommitReject
  <2> QED  BY <2>2, <2>3, <2>4, <2>5
<1>7. i \notin contested' => IdeaStands(i)'
  <2> SUFFICES ASSUME i \notin contested' PROVE IdeaStands(i)'
    OBVIOUS
  <2>1. IdeaStands(i)
    BY <1>2, <1>3 DEF MenuInv
  <2>2. ideas[i].status = "PENDING" /\ ~ideas[i].live /\ ~ideas[i].product
    BY <2>1, <1>3 DEF IdeaStands
  <2>3. \A b \in Admins : ~Deciding(b, i)'
    BY <2>1, <1>3, <1>4 DEF Deciding, IdeaStands
  <2>4. IF officeCalls[a].op = "stamp" THEN productsMade[i] = 1 ELSE productsMade[i] = 0
    BY <2>1, <1>3, <1>4 DEF IdeaStands
  <2> QED  BY <1>2, <1>6, <2>2, <2>3, <2>4 DEF IdeaStands
<1>8. /\ ideas' \in [Ideas -> IdeaRows] /\ productsMade' \in [Ideas -> Nat]
      /\ contested \subseteq contested' /\ DOMAIN officeCalls' = Admins
      /\ \A j \in Ideas \ {i} : ideas'[j] = ideas[j] /\ productsMade'[j] = productsMade[j]
  BY <1>2, <1>4, <1>6
<1> HIDE DEF Made
<1> QED  BY <1>2, <1>3, <1>5, <1>7, <1>8, IdeaStep

LEMMA CallAbandoned ==
  ASSUME MenuInv, NEW a \in Admins, CallDies(a)
  PROVE  MenuInv'
<1>1. PICK i : i = officeCalls[a].idea
  OBVIOUS
<1>2. /\ UNCHANGED <<menus, frozen, overlapping, productsMade, ideas>>
      /\ officeCalls' = [officeCalls EXCEPT ![a] = MenuResting]
      /\ contested' = IF officeCalls[a].op = "stamp" THEN contested \cup {i} ELSE contested
  BY <1>1 DEF CallDies, Turn
<1>3. /\ DOMAIN officeCalls' = Admins /\ officeCalls'[a].op = "none"
      /\ \A b \in Admins \ {a} : officeCalls'[b] = officeCalls[b]
  BY <1>2 DEF MenuInv, MenuTypes, MenuResting
<1>4. \A b \in Admins : \A j : Deciding(b, j)' => Deciding(b, j) /\ officeCalls'[b] = officeCalls[b]
  BY <1>3 DEF Deciding
<1>5. MenuTypes'
  BY <1>2, <1>3, <1>4 DEF MenuInv, MenuTypes
<1>6. DealsAreWhole' /\ (~overlapping' => PublishersAgree')
  BY <1>2, <1>3, MenusStandStill
<1>7. ASSUME NEW j \in Ideas \ contested' PROVE IdeaStands(j)'
  <2>1. IdeaStands(j)
    BY <1>2 DEF MenuInv
  <2>2. \A b \in Admins : officeCalls[b].op = "stamp" /\ officeCalls[b].idea = j =>
          officeCalls'[b].op = "stamp" /\ officeCalls'[b].idea = j
    BY <1>1, <1>2, <1>3, <1>7
  <2>3. ideas'[j].status \in {"NONE", "PENDING"} /\ productsMade'[j] # 0 =>
          \E b \in Admins : officeCalls'[b].op = "stamp" /\ officeCalls'[b].idea = j
    BY <1>2, <2>1, <2>2 DEF IdeaStands
  <2>4. \A b, d \in Admins : Deciding(b, j)' /\ Deciding(d, j)' => b = d
    BY <1>4, <2>1 DEF IdeaStands
  <2>5. \A b \in Admins : Deciding(b, j)' =>
          /\ ideas'[j].status = "PENDING"
          /\ officeCalls'[b].op = "stamp" => productsMade'[j] = 1
          /\ productsMade'[j] # 0 => officeCalls'[b].op = "stamp"
    BY <1>2, <1>4, <2>1 DEF IdeaStands
  <2> QED  BY <1>2, <2>1, <2>3, <2>4, <2>5 DEF IdeaStands
<1> QED  BY <1>5, <1>6, <1>7 DEF MenuInv

\* What neither the menus nor the proposals are about.
LEMMA MenuUntouched ==
  ASSUME MenuInv,
         UNCHANGED <<menus, ideas, productsMade, officeCalls, frozen, overlapping, contested>>
  PROVE  MenuInv'
<1>1. /\ PublishedOnes' = PublishedOnes
      /\ \A a, i : Deciding(a, i)' <=> Deciding(a, i)
  BY DEF PublishedOnes, Deciding
<1>2. MenuTypes'
  BY <1>1 DEF MenuInv, MenuTypes
<1>3. DealsAreWhole' /\ (~overlapping' => PublishersAgree')
  BY MenusStandStill
<1>4. \A i \in Ideas \ contested' : IdeaStands(i)'
  BY <1>1, IdeasOutlive
<1> QED  BY <1>2, <1>3, <1>4 DEF MenuInv

(***************************************************************************)
(* Whatever the office does at once (services/menu.py,                     *)
(* services/menu_proposals.py): publication, while it runs alone, leaves   *)
(* one live version which nobody edits; a deal is on sale only with its    *)
(* components; a proposal decided by one request stays decided and has its *)
(* one product.                                                            *)
(***************************************************************************)
THEOREM MenusAlwaysStand == MenuSpec => []MenuStands
<1>1. MenuInv /\ [MenuNext]_menuVars => MenuInv'
  <2> SUFFICES ASSUME MenuInv, [MenuNext]_menuVars PROVE MenuInv'
    OBVIOUS
  <2>1. CASE UNCHANGED menuVars
    BY <2>1, MenuUntouched DEF menuVars
  <2>2. CASE CreateDraft
    BY <2>2, MenuStep
  <2>3. ASSUME NEW v \in DOMAIN menus, NEW d \in Dishes, SetManual(v, d)
        PROVE  MenuInv'
    BY <2>3, MenuUntouched DEF SetManual
  <2>4. ASSUME NEW d \in Dishes, StockMoves(d) PROVE MenuInv'
    BY <2>4, MenuUntouched DEF StockMoves
  <2>5. ASSUME NEW v \in DOMAIN menus, NEW d \in Dishes, NEW a \in Admins, LoadAdd(a, v, d)
        PROVE  MenuInv'
    BY <2>5, MenuStep
  <2>6. ASSUME NEW a \in Admins, NEW v \in DOMAIN menus, LoadPublish(a, v)
        PROVE  MenuInv'
    BY <2>6, MenuStep
  <2>7. ASSUME NEW a \in Admins, CommitAdd(a) \/ CommitPublish(a) PROVE MenuInv'
    BY <2>7, MenuStep
  <2>8. ASSUME NEW i \in Ideas, Propose(i) \/ MarkPublished(i) PROVE MenuInv'
    BY <2>8, IdeaMade
  <2>9. ASSUME NEW a \in Admins, NEW i \in Ideas,
               NEW op \in {"approve", "reject", "withdraw"}, LoadDecision(a, i, op)
        PROVE  MenuInv'
    BY <2>9, DecisionLoaded
  <2>10. ASSUME NEW a \in Admins, MakeProduct(a) PROVE MenuInv'
    BY <2>10, ProductMade
  <2>11. ASSUME NEW a \in Admins, StampApproved(a) \/ CommitReject(a) \/ CommitWithdraw(a)
         PROVE  MenuInv'
    BY <2>11, DecisionMade
  <2>12. ASSUME NEW a \in Admins, CallDies(a) PROVE MenuInv'
    BY <2>12, CallAbandoned
  <2> QED  BY <2>1, <2>2, <2>3, <2>4, <2>5, <2>6, <2>7, <2>8, <2>9, <2>10, <2>11, <2>12
              DEF MenuNext
<1> QED  BY <1>1, MenuBegins, MenuInvSays, PTL DEF MenuSpec

--------------------------------------------------------------------------------
(* Accounts, sessions and branches *)

TokenRows == [owner : People \cup {"none"}, session : Tokens \cup {"none"}, live : BOOLEAN]
SessionOf(t) == refreshTokens[t].session

\* A request in progress has read a good token, or counted too few branches.
CallKnows(r) ==
    /\ authCalls[r].op = "refresh" =>
         /\ authCalls[r].token \in Tokens
         /\ authCalls[r].read \in TokenRows /\ authCalls[r].read.live
    /\ authCalls[r].op = "branch" =>
         authCalls[r].counted \in Nat /\ authCalls[r].counted < BranchLimit

\* What is good is the only one of its session, and what was signed out of
\* keeps a token, so that no other session takes its name.
SessionsApart ==
    /\ \A t, u \in Tokens : Live(t) /\ Live(u) /\ SessionOf(t) = SessionOf(u)
                            /\ SessionOf(t) \notin forked \cup {"none"} => t = u
    /\ \A s \in ended \ (forked \cup {"none"}) :
         /\ \E t \in Tokens : SessionOf(t) = s
         /\ \A t \in Tokens : SessionOf(t) = s => ~Live(t)

AccessInv ==
    /\ DOMAIN authCalls = Attempts
    /\ refreshTokens \in [Tokens -> TokenRows]
    /\ IsFiniteSet(branches)
    /\ \A r \in Attempts : CallKnows(r)
    /\ SessionsApart
    /\ WorkLandsAtTheTill
    /\ BranchesWithinPlan

LEMMA AccessBegins == AccessInit => AccessInv
<1> SUFFICES ASSUME AccessInit PROVE AccessInv
  OBVIOUS
<1>1. \A t \in Tokens : refreshTokens[t] = NoToken /\ ~Live(t)
  BY DEF AccessInit, Live, NoToken
<1>2. refreshTokens \in [Tokens -> TokenRows]
  BY DEF AccessInit, TokenRows, NoToken
<1>3. \A r \in Attempts : CallKnows(r)
  BY DEF AccessInit, CallKnows, AtDoor
<1>4. SessionsApart
  BY <1>1 DEF AccessInit, SessionsApart
<1>5. IsFiniteSet(branches) /\ Cardinality(branches) = 0
  BY FS_EmptySet DEF AccessInit
<1> QED  BY <1>2, <1>3, <1>4, <1>5, AccessAssumption
            DEF AccessInit, AccessInv, WorkLandsAtTheTill, BranchesWithinPlan

LEMMA GoodTokens == AccessInv => OneGoodTokenPerSession
<1> SUFFICES ASSUME AccessInv,
                    NEW s \in {refreshTokens[t].session : t \in Tokens} \ (forked \cup {"none"})
             PROVE  LET good == {t \in Tokens : refreshTokens[t].session = s /\ Live(t)} IN
                    Cardinality(good) <= 1 /\ (s \in ended => good = {})
  BY DEF OneGoodTokenPerSession
<1>1. PICK good : good = {t \in Tokens : refreshTokens[t].session = s /\ Live(t)}
  OBVIOUS
<1>2. \A t, u \in good : t = u
  BY <1>1 DEF AccessInv, SessionsApart, SessionOf
<1>3. s \in ended => good = {}
  BY <1>1 DEF AccessInv, SessionsApart, SessionOf
<1>4. Cardinality(good) <= 1
  <2>1. CASE good = {}
    BY <2>1, FS_EmptySet
  <2>2. CASE good # {}
    <3>1. PICK t : t \in good
      BY <2>2
    <3>2. good = {t}
      BY <1>2, <3>1
    <3> QED  BY <3>2, FS_Singleton
  <2> QED  BY <2>1, <2>2
<1> QED  BY <1>1, <1>3, <1>4

\* The sessions, while their tokens stand as they are.
LEMMA SessionsOutlive ==
  ASSUME AccessInv, UNCHANGED <<refreshTokens, ended>>, forked \subseteq forked'
  PROVE  SessionsApart' /\ refreshTokens' \in [Tokens -> TokenRows]
  BY DEF AccessInv, SessionsApart, SessionOf, Live

\* Of the requests in progress one begins or ends.
LEMMA CallsOutlive ==
  ASSUME AccessInv,
         \/ authCalls' = authCalls
         \/ \E r \in Attempts : Finishes(r)
         \/ \E r \in Attempts : \E call : Enters(r, call) /\ authCalls'[r] = call /\ CallKnows(r)'
  PROVE  DOMAIN authCalls' = Attempts /\ \A r \in Attempts : CallKnows(r)'
  BY DEF AccessInv, CallKnows, Enters, Finishes, AtDoor

LEMMA SessionOpens ==
  ASSUME AccessInv, NEW p \in People, NEW t \in Tokens, Login(p, t)
  PROVE  AccessInv'
<1>1. PICK row : row = [owner |-> p, session |-> t, live |-> TRUE]
  OBVIOUS
<1>2. row \in TokenRows /\ row.session = t
  BY <1>1 DEF TokenRows
<1>3. /\ refreshTokens' = [refreshTokens EXCEPT ![t] = row]
      /\ \A u \in Tokens : SessionOf(u) # t
      /\ UNCHANGED <<authCalls, branches, forked, ended, tillWork>>
  BY <1>1 DEF Login, SessionOf
<1>4. /\ refreshTokens' \in [Tokens -> TokenRows] /\ refreshTokens'[t] = row
      /\ \A u \in Tokens \ {t} : refreshTokens'[u] = refreshTokens[u]
  BY <1>2, <1>3 DEF AccessInv
<1>5. /\ SessionOf(t)' = t
      /\ \A u \in Tokens \ {t} :
            SessionOf(u)' = SessionOf(u) /\ Live(u)' = Live(u) /\ SessionOf(u) # t
  BY <1>2, <1>3, <1>4 DEF SessionOf, Live
<1>6. SessionOf(t) = "none"
  BY DEF Login, Unissued, SessionOf, NoToken
<1>7. SessionsApart'
  <2>1. SessionsApart
    BY DEF AccessInv
  <2>2. ASSUME NEW s \in ended' \ (forked' \cup {"none"})
        PROVE  /\ \E u \in Tokens : SessionOf(u)' = s
               /\ \A u \in Tokens : SessionOf(u)' = s => ~Live(u)'
    <3>1. PICK u \in Tokens : SessionOf(u) = s
      BY <1>3, <2>1 DEF SessionsApart
    <3>2. u # t /\ s # t
      BY <1>3, <1>6, <3>1
    <3> QED  BY <1>3, <1>5, <2>1, <3>1, <3>2 DEF SessionsApart
  <2>3. \A u, w \in Tokens : Live(u)' /\ Live(w)' /\ SessionOf(u)' = SessionOf(w)'
                             /\ SessionOf(u)' \notin forked' \cup {"none"} => u = w
    BY <1>3, <1>5, <2>1 DEF SessionsApart
  <2> QED  BY <2>2, <2>3 DEF SessionsApart
<1>8. \A r \in Attempts : CallKnows(r)'
  BY <1>3 DEF AccessInv, CallKnows
<1> QED  BY <1>3, <1>4, <1>7, <1>8 DEF AccessInv, WorkLandsAtTheTill, BranchesWithinPlan

LEMMA SessionCloses ==
  ASSUME AccessInv, NEW t \in Tokens, Logout(t)
  PROVE  AccessInv'
<1>1. /\ refreshTokens' = [refreshTokens EXCEPT ![t].live = FALSE]
      /\ ended' = IF Live(t) THEN ended \cup {SessionOf(t)} ELSE ended
      /\ UNCHANGED <<authCalls, branches, forked, tillWork>>
      /\ refreshTokens[t] \in TokenRows
  BY DEF Logout, SessionOf, AccessInv
<1>2. /\ refreshTokens' \in [Tokens -> TokenRows]
      /\ refreshTokens'[t] = [refreshTokens[t] EXCEPT !.live = FALSE]
      /\ \A u \in Tokens \ {t} : refreshTokens'[u] = refreshTokens[u]
  BY <1>1 DEF AccessInv, TokenRows
<1>3. /\ SessionOf(t)' = SessionOf(t) /\ ~Live(t)'
      /\ \A u \in Tokens \ {t} : SessionOf(u)' = SessionOf(u) /\ Live(u)' = Live(u)
  BY <1>1, <1>2 DEF SessionOf, Live, TokenRows
<1>4. SessionsApart'
  <2>1. SessionsApart
    BY DEF AccessInv
  <2>2. \A u, w \in Tokens : Live(u)' /\ Live(w)' /\ SessionOf(u)' = SessionOf(w)'
                             /\ SessionOf(u)' \notin forked' \cup {"none"} => u = w
    BY <1>1, <1>3, <2>1 DEF SessionsApart
  <2>3. ASSUME NEW s \in ended' \ (forked' \cup {"none"})
        PROVE  /\ \E u \in Tokens : SessionOf(u)' = s
               /\ \A u \in Tokens : SessionOf(u)' = s => ~Live(u)'
    <3>1. CASE s \in ended
      BY <1>1, <1>3, <2>1, <2>3, <3>1 DEF SessionsApart
    <3>2. CASE s \notin ended
      <4>1. Live(t) /\ s = SessionOf(t)
        BY <1>1, <2>3, <3>2
      <4> QED  BY <1>1, <1>3, <2>1, <2>3, <4>1 DEF SessionsApart
    <3> QED  BY <3>1, <3>2
  <2> QED  BY <2>2, <2>3 DEF SessionsApart
<1>5. \A r \in Attempts : CallKnows(r)'
  BY <1>1 DEF AccessInv, CallKnows
<1> QED  BY <1>1, <1>2, <1>4, <1>5 DEF AccessInv, WorkLandsAtTheTill, BranchesWithinPlan

\* A renewal that finds the token it read passes its session on; one that does
\* not is on record.
LEMMA Renewed ==
  ASSUME AccessInv, NEW r \in Attempts, NEW n \in Tokens, CommitRefresh(r, n)
  PROVE  AccessInv'
<1>1. PICK t, read : t = authCalls[r].token /\ read = authCalls[r].read
  OBVIOUS
<1>2. PICK s : s = read.session
  OBVIOUS
<1>3. /\ authCalls[r].op = "refresh" /\ Unissued(n) /\ ~Unissued(t)
      /\ refreshTokens' = [refreshTokens EXCEPT ![t].live = FALSE,
                                               ![n] = [read EXCEPT !.live = TRUE]]
      /\ forked' = IF refreshTokens[t] # read THEN forked \cup {s} ELSE forked
      /\ Finishes(r) /\ UNCHANGED <<branches, ended, tillWork>>
  BY <1>1, <1>2 DEF CommitRefresh, Rotated
<1>4. t \in Tokens /\ read \in TokenRows /\ read.live /\ t # n /\ refreshTokens[t] \in TokenRows
  BY <1>1, <1>3 DEF AccessInv, CallKnows
<1>5. PICK old, new : /\ old = [refreshTokens[t] EXCEPT !.live = FALSE]
                      /\ new = [read EXCEPT !.live = TRUE]
  OBVIOUS
<1>6. /\ old \in TokenRows /\ old.session = SessionOf(t) /\ ~old.live
      /\ new \in TokenRows /\ new.session = s
  BY <1>2, <1>4, <1>5 DEF TokenRows, SessionOf
<1>7. /\ refreshTokens' = [u \in Tokens |-> IF u = t THEN old ELSE IF u = n THEN new
                                            ELSE refreshTokens[u]]
  BY <1>3, <1>4, <1>5 DEF AccessInv
<1>8. refreshTokens' \in [Tokens -> TokenRows]
  BY <1>6, <1>7 DEF AccessInv
<1>9. /\ SessionOf(t)' = SessionOf(t) /\ ~Live(t)' /\ SessionOf(n)' = s
      /\ \A u \in Tokens \ {t, n} : SessionOf(u)' = SessionOf(u) /\ Live(u)' = Live(u)
  BY <1>4, <1>6, <1>7 DEF SessionOf, Live
<1>10. SessionOf(n) = "none"
  BY <1>3 DEF Unissued, SessionOf, NoToken
<1>11. s \notin forked' => Live(t) /\ SessionOf(t) = s
  BY <1>2, <1>3, <1>4 DEF Live, SessionOf
<1>12. SessionsApart'
  <2>1. SessionsApart /\ forked \subseteq forked'
    BY <1>3 DEF AccessInv
  <2>2. ASSUME NEW u \in Tokens, Live(u), SessionOf(u) = s, s \notin forked' \cup {"none"}
        PROVE  u = t
    BY <1>4, <1>11, <2>1, <2>2 DEF SessionsApart
  <2>3. \A u, w \in Tokens : Live(u)' /\ Live(w)' /\ SessionOf(u)' = SessionOf(w)'
                             /\ SessionOf(u)' \notin forked' \cup {"none"} => u = w
    BY <1>9, <2>1, <2>2 DEF SessionsApart
  <2>4. ASSUME NEW e \in ended' \ (forked' \cup {"none"})
        PROVE  /\ \E u \in Tokens : SessionOf(u)' = e
               /\ \A u \in Tokens : SessionOf(u)' = e => ~Live(u)'
    <3>1. e \in ended \ (forked \cup {"none"})
      BY <1>3, <2>1, <2>4
    <3>2. e # s
      BY <1>4, <1>11, <2>1, <2>4, <3>1 DEF SessionsApart
    <3>3. PICK u \in Tokens : SessionOf(u) = e
      BY <2>1, <3>1 DEF SessionsApart
    <3>4. u # n
      BY <1>10, <3>1, <3>3
    <3>5. SessionOf(u)' = e
      BY <1>9, <3>3, <3>4
    <3> QED  BY <1>9, <2>1, <3>1, <3>2, <3>5 DEF SessionsApart
  <2> QED  BY <2>3, <2>4 DEF SessionsApart
<1>13. DOMAIN authCalls' = Attempts /\ \A q \in Attempts : CallKnows(q)'
  BY <1>3, CallsOutlive
<1>14. BranchesWithinPlan'
  BY <1>3 DEF AccessInv, BranchesWithinPlan
<1> QED  BY <1>3, <1>8, <1>12, <1>13, <1>14 DEF AccessInv, WorkLandsAtTheTill

LEMMA AccountDeleted ==
  ASSUME AccessInv, NEW p \in People, DeleteUser(p)
  PROVE  AccessInv'
<1>1. /\ refreshTokens' = [t \in Tokens |-> IF refreshTokens[t].owner = p THEN NoToken
                                            ELSE refreshTokens[t]]
      /\ ended' = ended \ {SessionOf(t) : t \in {u \in Tokens : refreshTokens[u].owner = p}}
      /\ UNCHANGED <<authCalls, branches, forked, tillWork>>
  BY DEF DeleteUser, Elsewhere, SessionOf
<1>2. NoToken \in TokenRows /\ NoToken.session = "none" /\ ~NoToken.live
  BY DEF NoToken, TokenRows
<1>3. refreshTokens' \in [Tokens -> TokenRows]
  BY <1>1, <1>2 DEF AccessInv
<1>4. \A t \in Tokens : IF refreshTokens[t].owner = p THEN SessionOf(t)' = "none" /\ ~Live(t)'
                        ELSE SessionOf(t)' = SessionOf(t) /\ Live(t)' = Live(t)
  BY <1>1, <1>2 DEF SessionOf, Live
<1>5. SessionsApart'
  <2>1. SessionsApart
    BY DEF AccessInv
  <2>2. \A u, w \in Tokens : Live(u)' /\ Live(w)' /\ SessionOf(u)' = SessionOf(w)'
                             /\ SessionOf(u)' \notin forked' \cup {"none"} => u = w
    BY <1>1, <1>4, <2>1 DEF SessionsApart
  <2>3. ASSUME NEW s \in ended' \ (forked' \cup {"none"})
        PROVE  /\ \E u \in Tokens : SessionOf(u)' = s
               /\ \A u \in Tokens : SessionOf(u)' = s => ~Live(u)'
    <3>1. PICK u \in Tokens : SessionOf(u) = s
      BY <1>1, <2>1, <2>3 DEF SessionsApart
    <3>2. refreshTokens[u].owner # p
      BY <1>1, <2>3, <3>1
    <3> QED  BY <1>1, <1>4, <2>1, <2>3, <3>1, <3>2 DEF SessionsApart
  <2> QED  BY <2>2, <2>3 DEF SessionsApart
<1>6. \A r \in Attempts : CallKnows(r)'
  BY <1>1 DEF AccessInv, CallKnows
<1> QED  BY <1>1, <1>3, <1>5, <1>6 DEF AccessInv, WorkLandsAtTheTill, BranchesWithinPlan

\* Branches are counted, opened and deleted.
LEMMA BranchesCounted ==
  ASSUME AccessInv,
         \/ \E r \in Attempts : CommitCreateBranch(r) \/ \E h \in Homes : LoadCreateBranch(r, h)
         \/ \E h \in Homes : DeleteBranch(h)
  PROVE  AccessInv'
<1>1. /\ UNCHANGED <<refreshTokens, ended, tillWork>> /\ forked \subseteq forked'
      /\ IsFiniteSet(branches) /\ Cardinality(branches) \in Nat /\ BranchesWithinPlan
  BY FS_CardinalityType DEF CommitCreateBranch, LoadCreateBranch, DeleteBranch, AccessInv
<1>2. SessionsApart' /\ refreshTokens' \in [Tokens -> TokenRows] /\ WorkLandsAtTheTill'
  BY <1>1, SessionsOutlive DEF AccessInv, WorkLandsAtTheTill
<1>3. ASSUME NEW r \in Attempts, CommitCreateBranch(r)
      PROVE  AccessInv'
  <2>1. PICK h, counted : h = authCalls[r].home /\ counted = authCalls[r].counted
    OBVIOUS
  <2>2. /\ Finishes(r) /\ branches' = branches \cup {h} /\ h \notin branches
        /\ forked' = IF Cardinality(branches) # counted THEN forked \cup {"plan"} ELSE forked
        /\ counted \in Nat /\ counted < BranchLimit
    BY <1>3, <2>1 DEF CommitCreateBranch, AccessInv, CallKnows
  <2>3. IsFiniteSet(branches') /\ Cardinality(branches') = Cardinality(branches) + 1
    BY <1>1, <2>2, FS_AddElement
  <2>4. BranchesWithinPlan'
    BY <1>1, <2>2, <2>3, AccessAssumption DEF BranchesWithinPlan
  <2> QED  BY <1>2, <2>2, <2>3, <2>4, CallsOutlive DEF AccessInv
<1>4. ASSUME NEW r \in Attempts, NEW h \in Homes, LoadCreateBranch(r, h)
      PROVE  AccessInv'
  <2>1. PICK call : call = [op |-> "branch", home |-> h, counted |-> Cardinality(branches)]
    OBVIOUS
  <2>2. /\ Enters(r, call) /\ UNCHANGED <<branches, forked>>
        /\ call.op = "branch" /\ call.counted \in Nat /\ call.counted < BranchLimit
    BY <1>1, <1>4, <2>1 DEF LoadCreateBranch, UnderLimit
  <2>3. authCalls'[r] = call
    BY <2>2 DEF Enters, AccessInv
  <2>4. CallKnows(r)'
    BY <2>2, <2>3 DEF CallKnows
  <2>5. DOMAIN authCalls' = Attempts /\ \A q \in Attempts : CallKnows(q)'
    BY <2>2, <2>3, <2>4, CallsOutlive
  <2> QED  BY <1>1, <1>2, <2>2, <2>5 DEF AccessInv, BranchesWithinPlan
<1>5. ASSUME NEW h \in Homes, DeleteBranch(h)
      PROVE  AccessInv'
  <2>1. branches' = branches \ {h} /\ h \in branches /\ UNCHANGED <<authCalls, forked>>
    BY <1>5 DEF DeleteBranch
  <2>2. IsFiniteSet(branches') /\ Cardinality(branches') = Cardinality(branches) - 1
    BY <1>1, <2>1, FS_RemoveElement
  <2>3. BranchesWithinPlan'
    BY <1>1, <2>1, <2>2, AccessAssumption DEF BranchesWithinPlan
  <2>4. \A r \in Attempts : CallKnows(r)'
    BY <2>1 DEF AccessInv, CallKnows
  <2> QED  BY <1>2, <2>1, <2>2, <2>3, <2>4 DEF AccessInv
<1> QED  BY <1>3, <1>4, <1>5

\* What touches neither tokens nor branches: reading a token, dying, the till
\* and the accounts.
LEMMA TokensUntouched ==
  ASSUME AccessInv, UNCHANGED <<refreshTokens, ended, forked, branches>>,
         WorkLandsAtTheTill', DOMAIN authCalls' = Attempts, \A r \in Attempts : CallKnows(r)'
  PROVE  AccessInv'
  BY SessionsOutlive DEF AccessInv, BranchesWithinPlan

LEMMA RenewalBegins ==
  ASSUME AccessInv, NEW r \in Attempts, NEW t \in Tokens, LoadRefresh(r, t)
  PROVE  AccessInv'
<1>1. PICK call : call = [op |-> "refresh", token |-> t, read |-> refreshTokens[t]]
  OBVIOUS
<1>2. /\ Enters(r, call) /\ call.op = "refresh" /\ call.token = t
      /\ call.read = refreshTokens[t] /\ call.read.live /\ call.read \in TokenRows
      /\ UNCHANGED <<refreshTokens, ended, forked, branches, tillWork>>
  BY <1>1 DEF LoadRefresh, Presentable, Live, AccessInv
<1>3. authCalls'[r] = call
  BY <1>2 DEF Enters, AccessInv
<1>4. CallKnows(r)'
  BY <1>2, <1>3 DEF CallKnows
<1>5. DOMAIN authCalls' = Attempts /\ \A q \in Attempts : CallKnows(q)'
  BY <1>2, <1>3, <1>4, CallsOutlive
<1> QED  BY <1>2, <1>5, TokensUntouched DEF AccessInv, WorkLandsAtTheTill

LEMMA AccountsStep ==
  ASSUME AccessInv,
         \/ UNCHANGED accessVars
         \/ \E r \in Attempts : CallRefused(r)
         \/ \E p \in People :
              \/ \E d \in DOMAIN TillAt : PosLogin(p, d) \/ UseTill(p, d) \/ ExpireAccess(p, d)
              \/ \E h \in Homes \cup {NOWHERE} : CreateManager(p, h) \/ MoveManager(p, h)
              \/ \E m \in People, pos \in Positions : CreateStaff(m, p, pos)
              \/ \E pos \in Positions : SetPosition(p, pos)
              \/ \E on \in BOOLEAN : SetActive(p, on)
         \/ \E on \in BOOLEAN : Halt(on) \/ SwitchKitchen(on)
  PROVE  AccessInv'
<1>1. UNCHANGED <<refreshTokens, ended, forked, branches>>
  BY DEF accessVars, CallRefused, PosLogin, UseTill, ExpireAccess, CreateManager, MoveManager,
         CreateStaff, SetPosition, SetActive, Halt, SwitchKitchen, Elsewhere
<1>2. authCalls' = authCalls \/ \E r \in Attempts : Finishes(r)
  BY DEF accessVars, CallRefused, PosLogin, UseTill, ExpireAccess, CreateManager, MoveManager,
         CreateStaff, SetPosition, SetActive, Halt, SwitchKitchen, Elsewhere
<1>3. DOMAIN authCalls' = Attempts /\ \A r \in Attempts : CallKnows(r)'
  BY <1>2, CallsOutlive
<1>4. \/ tillWork' = tillWork
      \/ \E d \in DOMAIN TillAt : tillWork' = tillWork \cup {<<d, TillAt[d]>>}
  BY DEF accessVars, CallRefused, PosLogin, UseTill, ExpireAccess, CreateManager, MoveManager,
         CreateStaff, SetPosition, SetActive, Halt, SwitchKitchen, Elsewhere, AtItsBranch
<1>5. WorkLandsAtTheTill'
  BY <1>4 DEF AccessInv, WorkLandsAtTheTill
<1> QED  BY <1>1, <1>3, <1>5, TokensUntouched

LEMMA AccessStep == AccessInv /\ [AccessNext]_accessVars => AccessInv'
<1> SUFFICES ASSUME AccessInv, [AccessNext]_accessVars PROVE AccessInv'
  OBVIOUS
<1>1. ASSUME NEW p \in People, NEW t \in Tokens, Login(p, t) PROVE AccessInv'
  BY <1>1, SessionOpens
<1>2. ASSUME NEW t \in Tokens, Logout(t) PROVE AccessInv'
  BY <1>2, SessionCloses
<1>3. ASSUME NEW r \in Attempts, NEW t \in Tokens, LoadRefresh(r, t) PROVE AccessInv'
  BY <1>3, RenewalBegins
<1>4. ASSUME NEW r \in Attempts, NEW t \in Tokens, CommitRefresh(r, t) PROVE AccessInv'
  BY <1>4, Renewed
<1>5. ASSUME NEW p \in People, DeleteUser(p) PROVE AccessInv'
  BY <1>5, AccountDeleted
<1> QED  BY <1>1, <1>2, <1>3, <1>4, <1>5, BranchesCounted, AccountsStep DEF AccessNext

\* While the plan is halted nobody is admitted.
LEMMA HaltedAdmitsNobody ==
  ASSUME AccessInv, [AccessNext]_accessVars, halted
  PROVE  /\ tillWork' = tillWork /\ tillTokens' \subseteq tillTokens
         /\ \A r \in Attempts : authCalls'[r].op = "refresh" => authCalls[r].op = "refresh"
<1>1. DOMAIN authCalls = Attempts /\ \A p \in People : ~Admitted(p)
  BY DEF AccessInv, Admitted
<1>2. \A r \in Attempts, t \in Tokens : ~LoadRefresh(r, t)
  BY DEF LoadRefresh, Admitted
<1>3. \A p \in People : \A d \in DOMAIN TillAt : ~PosLogin(p, d) /\ ~UseTill(p, d)
  BY <1>1 DEF PosLogin, UseTill
<1>4. \A r \in Attempts, h \in Homes : ~LoadCreateBranch(r, h)
  BY DEF LoadCreateBranch
<1>5. tillWork' = tillWork
  BY <1>2, <1>3, <1>4 DEF AccessNext, accessVars, Login, Logout, CommitRefresh, CallRefused,
     ExpireAccess, CreateManager, MoveManager, CreateStaff, SetPosition, SetActive, DeleteUser,
     CommitCreateBranch, DeleteBranch, Halt, SwitchKitchen, Elsewhere
<1>6. tillTokens' \subseteq tillTokens
  BY <1>2, <1>3, <1>4 DEF AccessNext, accessVars, Login, Logout, CommitRefresh, CallRefused,
     ExpireAccess, CreateManager, MoveManager, CreateStaff, SetPosition, SetActive, DeleteUser,
     CommitCreateBranch, DeleteBranch, Halt, SwitchKitchen, Elsewhere
<1>7. authCalls' = authCalls \/ \E r \in Attempts : Finishes(r)
  BY <1>2, <1>3, <1>4 DEF AccessNext, accessVars, Login, Logout, CommitRefresh, CallRefused,
     ExpireAccess, CreateManager, MoveManager, CreateStaff, SetPosition, SetActive, DeleteUser,
     CommitCreateBranch, DeleteBranch, Halt, SwitchKitchen, Elsewhere
<1>8. \A r \in Attempts : authCalls'[r].op = "refresh" => authCalls[r].op = "refresh"
  BY <1>1, <1>7 DEF Finishes, AtDoor
<1> QED  BY <1>5, <1>6, <1>8

(***************************************************************************)
(* Whatever people, terminals and requests there are (api/v1/auth.py,      *)
(* services/pos.py, services/locations.py): a session has one good token   *)
(* and none once signed out of, a halted restaurant stands still, work is  *)
(* recorded where its terminal stands, and there are no more branches than *)
(* the plan has.                                                           *)
(***************************************************************************)
THEOREM AccessAlwaysHolds == AccessSpec => AccessHolds
<1>1. AccessInv => WorkLandsAtTheTill /\ BranchesWithinPlan
  BY DEF AccessInv
<1>2. AccessInv /\ [AccessNext]_accessVars =>
        [halted => /\ tillWork' = tillWork /\ tillTokens' \subseteq tillTokens
                   /\ \A r \in Attempts :
                         authCalls'[r].op = "refresh" => authCalls[r].op = "refresh"
        ]_accessVars
  BY HaltedAdmitsNobody
<1> QED  BY <1>1, <1>2, AccessBegins, AccessStep, GoodTokens, PTL
            DEF AccessSpec, AccessHolds, HaltedStandsStill

--------------------------------------------------------------------------------
(* The income pages *)

Invoices == Firms \X Days
Stages == {"unpaid", "onboarded", "details", "aging", "done"}
AfterUnpaid == {"onboarded", "details", "aging", "done"}
AfterOnboarded == {"details", "aging", "done"}
AfterDetails == {"aging", "done"}

\* What has been asked so far is what the tables say, while nobody writes.
AskedRight ==
  LET from == report.from
      to == report.to
      prev == PreviousPeriod(from, to) IN
  /\ report.collected = Amounts(Issued(from, to, "paid"))
  /\ report.stage \in AfterUnpaid => report.outstanding = Amounts(Issued(from, to, "unpaid"))
  /\ report.stage \in AfterOnboarded =>
       /\ report.joined = Cardinality(Onboarded(from, to))
       /\ report.before = Amounts(Issued(prev[1], prev[2], "paid"))
  /\ report.stage \in AfterDetails =>
       /\ report.charts = {Amounts(Issued(from, to, "paid"))}
       /\ report.debts = {Amounts(Issued(from, to, "unpaid"))}
       /\ report.newcomers = Onboarded(from, to)
  /\ report.stage = "done" => report.aging = Amounts({i \in DOMAIN owed : owed[i] = "unpaid"})

\* What a report holds by then.
ReportHolds ==
  /\ {"stage", "from", "to", "collected"} \subseteq DOMAIN report
  /\ report.from \in Int /\ report.to \in Int /\ report.from <= report.to
  /\ report.stage \in AfterUnpaid => "outstanding" \in DOMAIN report
  /\ report.stage \in AfterOnboarded => {"joined", "before"} \subseteq DOMAIN report
  /\ report.stage \in AfterDetails => {"charts", "debts", "newcomers"} \subseteq DOMAIN report

IncomeInv ==
  /\ owed \in [Invoices -> {"none", "unpaid", "paid"}]
  /\ joined \in [Firms -> Days \cup {-1}]
  /\ report = NoReport \/ (report.stage \in Stages /\ ReportHolds)
  /\ report.stage \in Stages /\ ~drifted => AskedRight

\* The invoices of a period are finitely many, and their amounts numbers.
LEMMA BillsAreFinite ==
  /\ IsFiniteSet(Invoices) /\ \A S \in SUBSET Invoices : IsFiniteSet(S)
  /\ \A i \in Invoices : Fees[i] \in Nat
<1>1. IsFiniteSet(Invoices)
  BY FS_Product, IncomeAssumption DEF Invoices
<1>2. \A S \in SUBSET Invoices : IsFiniteSet(S)
  BY <1>1, FS_Subset
<1>3. \A i \in Invoices : Fees[i] \in Nat
  BY IncomeAssumption DEF Invoices, Fees, Firm
<1> QED  BY <1>1, <1>2, <1>3

\* A chart that spreads rows over keys comes to the rows' total.
LEMMA ChartsComeToTheRows ==
  ASSUME NEW rows \in SUBSET Invoices, NEW keys, IsFiniteSet(keys), NEW key,
         \A i \in rows : key[i] \in keys,
         NEW chart, DOMAIN chart = keys,
         \A k \in keys : chart[k] = Amounts({i \in rows : key[i] = k})
  PROVE  Total(chart) = Amounts(rows)
<1>1. IsFiniteSet(rows) /\ \A i \in rows : Fees[i] \in Int
  BY BillsAreFinite
<1>2. \A k \in keys : chart[k] = SumOver(Fees, Group(rows, key, k))
  BY DEF Amounts, Group
<1>3. SumOver(Fees, rows) = SumOver(chart, keys)
  BY <1>1, <1>2, SumByKey
<1> QED  BY <1>3 DEF Amounts, Total

LEMMA ChartsAgree ==
  ASSUME IncomeInv, NEW how \in {"paid", "unpaid"}, report.from \in Int, report.to \in Int
  PROVE  Charted(how) = {Amounts(Issued(report.from, report.to, how))}
<1>1. PICK rows : rows = Rows(how)
  OBVIOUS
<1>2. /\ rows \in SUBSET Invoices /\ rows = Issued(report.from, report.to, how)
      /\ \A i \in rows : /\ Firm(i) \in Firms /\ Day(i) \in Days
                         /\ report.from <= Day(i) /\ Day(i) <= report.to
  BY <1>1 DEF Rows, Issued, IncomeInv, Invoices, Firm, Day
<1>3. IsFiniteSet(Days) /\ IsFiniteSet(Firms)
  BY IncomeAssumption
<1>4. PICK days : days = ShownDays(report.from, report.to)
  OBVIOUS
<1>5. days \in SUBSET Days /\ IsFiniteSet(days) /\ \A i \in rows : Day(i) \in days
  BY <1>2, <1>3, <1>4, FS_Subset DEF ShownDays
<1>6. Total(ByDay(how)) = Amounts(rows)
  <2>1. PICK key : key = [i \in rows |-> Day(i)]
    OBVIOUS
  <2>2. \A i \in rows : key[i] = Day(i)
    BY <2>1
  <2>3. DOMAIN ByDay(how) = days
        /\ \A k \in days : ByDay(how)[k] = Amounts({i \in rows : Day(i) = k})
    BY <1>1, <1>4 DEF ByDay
  <2>4. \A k \in days : {i \in rows : Day(i) = k} = {i \in rows : key[i] = k}
    BY <2>2
  <2>5. \A k \in days : ByDay(how)[k] = Amounts({i \in rows : key[i] = k})
    BY <2>3, <2>4
  <2>6. \A i \in rows : key[i] \in days
    BY <1>5, <2>2
  <2> QED  BY <1>2, <1>5, <2>3, <2>5, <2>6, ChartsComeToTheRows
<1>7. Total(ByMonth(how)) = Amounts(rows)
  <2>1. PICK key : key = [i \in rows |-> MonthOf[Day(i)]]
    OBVIOUS
  <2>2. \A i \in rows : key[i] = MonthOf[Day(i)]
    BY <2>1
  <2>3. PICK months : months = ShownMonths(report.from, report.to)
    OBVIOUS
  <2>4. months = {MonthOf[d] : d \in days}
    BY <1>4, <2>3 DEF ShownMonths
  <2>5. IsFiniteSet(months)
    <3>1. months = {MonthOf[d] : d \in days} /\ IsFiniteSet(days)
      BY <1>5, <2>4
    <3> QED  BY <3>1, ValuesAreFinite
  <2>6. DOMAIN ByMonth(how) = months
        /\ \A k \in months : ByMonth(how)[k] = Amounts({i \in rows : MonthOf[Day(i)] = k})
    BY <1>1, <2>3 DEF ByMonth
  <2>7. \A k \in months : {i \in rows : MonthOf[Day(i)] = k} = {i \in rows : key[i] = k}
    BY <2>2
  <2>8. \A k \in months : ByMonth(how)[k] = Amounts({i \in rows : key[i] = k})
    BY <2>6, <2>7
  <2>9. \A i \in rows : key[i] \in months
    BY <1>5, <2>2, <2>4
  <2> QED  BY <1>2, <2>5, <2>6, <2>8, <2>9, ChartsComeToTheRows
<1>8. Total(ByFirm(how)) = Amounts(rows)
  <2>1. PICK key : key = [i \in rows |-> Firm(i)]
    OBVIOUS
  <2>2. \A i \in rows : key[i] = Firm(i)
    BY <2>1
  <2>3. DOMAIN ByFirm(how) = Firms
        /\ \A k \in Firms : ByFirm(how)[k] = Amounts({i \in rows : Firm(i) = k})
    BY <1>1 DEF ByFirm
  <2>4. \A k \in Firms : {i \in rows : Firm(i) = k} = {i \in rows : key[i] = k}
    BY <2>2
  <2>5. \A k \in Firms : ByFirm(how)[k] = Amounts({i \in rows : key[i] = k})
    BY <2>3, <2>4
  <2>6. \A i \in rows : key[i] \in Firms
    BY <1>2, <2>2
  <2> QED  BY <1>2, <1>3, <2>3, <2>5, <2>6, ChartsComeToTheRows
<1>9. Total(ByTier(how)) = Amounts(rows)
  <2>1. PICK key : key = [i \in rows |-> TierOf[Firm(i)]]
    OBVIOUS
  <2>2. \A i \in rows : key[i] = TierOf[Firm(i)]
    BY <2>1
  <2>3. PICK tiers : tiers = {TierOf[x] : x \in Firms}
    OBVIOUS
  <2>4. IsFiniteSet(tiers)
    BY <1>3, <2>3, ValuesAreFinite
  <2>5. DOMAIN ByTier(how) = tiers
        /\ \A k \in tiers : ByTier(how)[k] = Amounts({i \in rows : TierOf[Firm(i)] = k})
    BY <1>1, <2>3 DEF ByTier
  <2>6. \A k \in tiers : {i \in rows : TierOf[Firm(i)] = k} = {i \in rows : key[i] = k}
    BY <2>2
  <2>7. \A k \in tiers : ByTier(how)[k] = Amounts({i \in rows : key[i] = k})
    BY <2>5, <2>6
  <2>8. \A i \in rows : key[i] \in tiers
    BY <1>2, <2>2, <2>3
  <2> QED  BY <1>2, <2>4, <2>5, <2>7, <2>8, ChartsComeToTheRows
<1> QED  BY <1>2, <1>6, <1>7, <1>8, <1>9 DEF Charted

LEMMA IncomeBegins == IncomeInit => IncomeInv
BY DEF IncomeInit, IncomeInv, Invoices, NoReport, Stages

\* Something is paid, issued or created: from then on the report has drifted.
LEMMA BooksWritten ==
  ASSUME IncomeInv,
         \/ \E f \in Firms, d \in Days : Join(f, d)
         \/ \E i \in Firms \X Days, how \in {"paid", "unpaid"} : SetInvoice(i, how)
  PROVE  IncomeInv'
<1>1. report' = report /\ (report.stage \in Stages => drifted')
  BY DEF Join, SetInvoice, Write, Stages
<1>2. owed' \in [Invoices -> {"none", "unpaid", "paid"}] /\ joined' \in [Firms -> Days \cup {-1}]
  BY DEF IncomeInv, Join, SetInvoice, Invoices
<1>3. ReportHolds => ReportHolds'
  BY <1>1 DEF ReportHolds
<1> QED  BY <1>1, <1>2, <1>3 DEF IncomeInv

LEMMA ReportBegins ==
  ASSUME IncomeInv, NEW p \in Periods, BeginReport(p)
  PROVE  IncomeInv'
<1>1. p[1] \in Int /\ p[2] \in Int /\ p[1] <= p[2]
  BY IncomeAssumption
<1>2. /\ UNCHANGED <<owed, joined>>
      /\ report'.stage = "unpaid" /\ report'.from = p[1] /\ report'.to = p[2]
      /\ report'.collected = Amounts(Issued(p[1], p[2], "paid"))
      /\ DOMAIN report' = {"stage", "from", "to", "collected"}
  BY DEF BeginReport
<1>3. ReportHolds'
  BY <1>1, <1>2 DEF ReportHolds, AfterUnpaid, AfterOnboarded, AfterDetails
<1>4. \A from, to : Issued(from, to, "paid")' = Issued(from, to, "paid")
  BY <1>2 DEF Issued
<1>5. AskedRight'
  BY <1>2, <1>4 DEF AskedRight, AfterUnpaid, AfterOnboarded, AfterDetails
<1> QED  BY <1>2, <1>3, <1>5 DEF IncomeInv, Stages

\* A query adds figures and leaves those asked before.
Keeps(names) == \A x \in names : x \in DOMAIN report' /\ report'[x] = report[x]

\* Of the figures asked before nothing changes when the tables do not.
LEMMA TablesStandStill ==
  ASSUME UNCHANGED <<owed, joined>>
  PROVE  /\ \A from, to, how : Issued(from, to, how)' = Issued(from, to, how)
         /\ \A from, to : Onboarded(from, to)' = Onboarded(from, to)
         /\ {i \in DOMAIN owed : owed[i] = "unpaid"}' = {i \in DOMAIN owed : owed[i] = "unpaid"}
BY DEF Issued, Onboarded

LEMMA ReportGrows ==
  ASSUME IncomeInv, AskUnpaid \/ AskOnboarded \/ AskDetails \/ AskAging
  PROVE  IncomeInv'
<1>1. /\ UNCHANGED <<owed, joined, drifted>> /\ ReportHolds /\ (~drifted => AskedRight)
  BY DEF AskUnpaid, AskOnboarded, AskDetails, AskAging, IncomeInv, Stages, NoReport
<1>2. CASE AskUnpaid
  <2>1. report.stage = "unpaid" /\ Keeps({"from", "to", "collected"})
    BY <1>1, <1>2 DEF AskUnpaid, Keeps, ReportHolds
  <2>2. /\ report'.stage = "onboarded" /\ {"stage", "outstanding"} \subseteq DOMAIN report'
        /\ report'.outstanding = Amounts(Issued(report.from, report.to, "unpaid"))
    BY <1>1, <1>2 DEF AskUnpaid, ReportHolds
  <2>3. ReportHolds'
    BY <1>1, <2>1, <2>2 DEF ReportHolds, Keeps, AfterUnpaid, AfterOnboarded, AfterDetails
  <2>4. ~drifted' => AskedRight'
    BY <1>1, <2>1, <2>2, TablesStandStill
       DEF AskedRight, Keeps, AfterUnpaid, AfterOnboarded, AfterDetails
  <2> QED  BY <1>1, <2>2, <2>3, <2>4 DEF IncomeInv, Stages
<1>3. CASE AskOnboarded
  <2>1. report.stage = "onboarded" /\ Keeps({"from", "to", "collected", "outstanding"})
    BY <1>1, <1>3 DEF AskOnboarded, Keeps, ReportHolds, AfterUnpaid
  <2>2. PICK prev : prev = PreviousPeriod(report.from, report.to)
    OBVIOUS
  <2>3. /\ report'.stage = "details" /\ {"stage", "joined", "before"} \subseteq DOMAIN report'
        /\ report'.joined = Cardinality(Onboarded(report.from, report.to))
        /\ report'.before = Amounts(Issued(prev[1], prev[2], "paid"))
    BY <1>1, <1>3, <2>2 DEF AskOnboarded, ReportHolds
  <2>4. ReportHolds'
    BY <1>1, <2>1, <2>3 DEF ReportHolds, Keeps, AfterUnpaid, AfterOnboarded, AfterDetails
  <2>5. report'.from = report.from /\ report'.to = report.to
        /\ PreviousPeriod(report'.from, report'.to) = prev
    BY <2>1, <2>2 DEF Keeps
  <2>6. ~drifted' => AskedRight'
    BY <1>1, <2>1, <2>3, <2>5, TablesStandStill
       DEF AskedRight, Keeps, AfterUnpaid, AfterOnboarded, AfterDetails
  <2> QED  BY <1>1, <2>3, <2>4, <2>6 DEF IncomeInv, Stages
<1>4. CASE AskDetails
  <2>1. /\ report.stage = "details"
        /\ Keeps({"from", "to", "collected", "outstanding", "joined", "before"})
    BY <1>1, <1>4 DEF AskDetails, Keeps, ReportHolds, AfterUnpaid, AfterOnboarded
  <2>2. /\ report'.stage = "aging" /\ {"stage", "charts", "debts", "newcomers"} \subseteq DOMAIN report'
        /\ report'.charts = Charted("paid") /\ report'.debts = Charted("unpaid")
        /\ report'.newcomers = {x \in Onboarded(report.from, report.to) :
                                  joined[x] \in ShownDays(report.from, report.to)}
    BY <1>1, <1>4 DEF AskDetails, ReportHolds
  <2>3. /\ report'.charts = {Amounts(Issued(report.from, report.to, "paid"))}
        /\ report'.debts = {Amounts(Issued(report.from, report.to, "unpaid"))}
    BY <1>1, <2>2, ChartsAgree DEF ReportHolds
  <2>4. report'.newcomers = Onboarded(report.from, report.to)
    BY <1>1, <2>2 DEF Onboarded, ShownDays, IncomeInv
  <2>5. ReportHolds'
    BY <1>1, <2>1, <2>2 DEF ReportHolds, Keeps, AfterUnpaid, AfterOnboarded, AfterDetails
  <2>6. report'.from = report.from /\ report'.to = report.to
        /\ PreviousPeriod(report'.from, report'.to) = PreviousPeriod(report.from, report.to)
    BY <2>1 DEF Keeps
  <2>7. ~drifted' => AskedRight'
    BY <1>1, <2>1, <2>2, <2>3, <2>4, <2>6, TablesStandStill
       DEF AskedRight, Keeps, AfterUnpaid, AfterOnboarded, AfterDetails
  <2> QED  BY <1>1, <2>2, <2>5, <2>7 DEF IncomeInv, Stages
<1>5. CASE AskAging
  <2>1. /\ report.stage = "aging"
        /\ Keeps({"from", "to", "collected", "outstanding", "joined", "before", "charts", "debts",
                  "newcomers"})
    BY <1>1, <1>5 DEF AskAging, Keeps, ReportHolds, AfterUnpaid, AfterOnboarded, AfterDetails
  <2>2. /\ report'.stage = "done" /\ "stage" \in DOMAIN report'
        /\ report'.aging = Amounts({i \in DOMAIN owed : owed[i] = "unpaid"})
    BY <1>1, <1>5 DEF AskAging, ReportHolds
  <2>3. ReportHolds'
    BY <1>1, <2>1, <2>2 DEF ReportHolds, Keeps, AfterUnpaid, AfterOnboarded, AfterDetails
  <2>4. report'.from = report.from /\ report'.to = report.to
        /\ PreviousPeriod(report'.from, report'.to) = PreviousPeriod(report.from, report.to)
    BY <2>1 DEF Keeps
  <2>5. ~drifted' => AskedRight'
    BY <1>1, <2>1, <2>2, <2>4, TablesStandStill
       DEF AskedRight, Keeps, AfterUnpaid, AfterOnboarded, AfterDetails
  <2> QED  BY <1>1, <2>2, <2>3, <2>5 DEF IncomeInv, Stages
<1> QED  BY <1>2, <1>3, <1>4, <1>5

LEMMA IncomeStep == IncomeInv /\ [IncomeNext]_incomeVars => IncomeInv'
<1> SUFFICES ASSUME IncomeInv, [IncomeNext]_incomeVars PROVE IncomeInv'
  OBVIOUS
<1>1. CASE UNCHANGED incomeVars
  <2>1. UNCHANGED <<owed, joined, report, drifted>>
    BY <1>1 DEF incomeVars
  <2>2. ReportHolds' = ReportHolds
    BY <2>1 DEF ReportHolds
  <2>3. AskedRight' = AskedRight
    BY <2>1, TablesStandStill DEF AskedRight
  <2> QED  BY <2>1, <2>2, <2>3 DEF IncomeInv
<1>2. CASE CloseReport
  BY <1>2 DEF CloseReport, IncomeInv, NoReport, Stages
<1>3. ASSUME NEW p \in Periods, BeginReport(p) PROVE IncomeInv'
  BY <1>3, ReportBegins
<1> QED  BY <1>1, <1>2, <1>3, BooksWritten, ReportGrows DEF IncomeNext

LEMMA ReportIsRight == IncomeInv => ReportAddsUp /\ ComparesWithTheDaysBefore
<1> SUFFICES ASSUME IncomeInv, report.stage = "done", ~drifted
             PROVE  /\ report.charts = {report.collected}
                    /\ report.debts = {report.outstanding}
                    /\ Cardinality(report.newcomers) = report.joined
                    /\ report.outstanding <= report.aging
                    /\ report.collected + report.before =
                         Amounts(Issued(report.from - (report.to - report.from + 1), report.to, "paid"))
  BY DEF ReportAddsUp, ComparesWithTheDaysBefore
<1>1. AskedRight /\ report.from \in Int /\ report.to \in Int /\ report.from <= report.to
  BY DEF IncomeInv, ReportHolds, Stages, NoReport
<1>2. PICK from, to : from = report.from /\ to = report.to
  OBVIOUS
<1>3. /\ IsFiniteSet(Invoices) /\ DOMAIN owed = Invoices
      /\ \A i \in Invoices : Fees[i] \in Int /\ Fees[i] \in Nat
  BY BillsAreFinite DEF IncomeInv
<1>4. \A i \in Invoices : Day(i) \in Int
  <2>1. Days \subseteq Int
    BY IncomeAssumption
  <2>2. \A i \in Invoices : Day(i) \in Days
    BY DEF Invoices, Day
  <2> QED  BY <2>1, <2>2
<1>5. report.outstanding <= report.aging
  <2>1. PICK due, later : /\ due = Issued(from, to, "unpaid")
                          /\ later = {i \in DOMAIN owed : owed[i] = "unpaid"} \ due
    OBVIOUS
  <2>2. /\ due \in SUBSET Invoices /\ later \in SUBSET Invoices /\ due \cap later = {}
        /\ {i \in DOMAIN owed : owed[i] = "unpaid"} = due \cup later
    BY <1>3, <2>1 DEF Issued
  <2>3. SumOver(Fees, due \cup later) = SumOver(Fees, due) + SumOver(Fees, later)
    BY <1>3, <2>2, SumParts
  <2>4. SumOver(Fees, due) \in Int
    BY <1>3, <2>2, SumIsInt
  <2>5. IsFiniteSet(later)
    BY <2>2, BillsAreFinite
  <2>6. SumOver(Fees, later) \in Nat
    BY <1>3, <2>2, <2>5, SumNotNegative
  <2>7. report.outstanding = SumOver(Fees, due) /\ report.aging = SumOver(Fees, due \cup later)
    BY <1>1, <1>2, <2>1, <2>2 DEF AskedRight, AfterUnpaid, Amounts
  <2> QED  BY <2>3, <2>4, <2>6, <2>7
<1>6. report.collected + report.before =
        Amounts(Issued(report.from - (report.to - report.from + 1), report.to, "paid"))
  <2>1. PICK start : start = from - (to - from + 1)
    OBVIOUS
  <2>2. PICK now, before : /\ now = Issued(from, to, "paid")
                           /\ before = Issued(start, from - 1, "paid")
    OBVIOUS
  <2>3. start \in Int /\ start <= from
    BY <1>1, <1>2, <2>1
  <2>4. /\ now \in SUBSET Invoices /\ before \in SUBSET Invoices /\ now \cap before = {}
        /\ Issued(start, to, "paid") = now \cup before
    BY <1>1, <1>2, <1>3, <1>4, <2>2, <2>3 DEF Issued
  <2>5. SumOver(Fees, now \cup before) = SumOver(Fees, now) + SumOver(Fees, before)
    BY <1>3, <2>4, SumParts
  <2>6. report.collected = Amounts(now) /\ report.before = Amounts(before)
    BY <1>1, <1>2, <2>1, <2>2 DEF AskedRight, AfterOnboarded, PreviousPeriod
  <2> QED  BY <1>2, <2>1, <2>4, <2>5, <2>6 DEF Amounts
<1> QED  BY <1>1, <1>5, <1>6 DEF AskedRight, AfterUnpaid, AfterOnboarded, AfterDetails

LEMMA NewcomersAreCounted == IncomeInv => NewcomersCountedOnce
<1> SUFFICES ASSUME IncomeInv, NEW day \in Days
             PROVE  /\ Newcomers(day) =
                         Cardinality({f \in Firms : /\ joined[f] # -1 /\ joined[f] <= day
                                        /\ MonthOf[joined[f]] > MonthOf[day] - Lookback})
                    /\ Cardinality(BusyMonths(day)) <= Newcomers(day)
  BY DEF NewcomersCountedOnce
<1>1. PICK this : this = MonthOf[day]
  OBVIOUS
<1>2. PICK months, counts : /\ months = (this - (Lookback - 1))..this
                            /\ counts = MonthCounts(day)
  OBVIOUS
<1>3. /\ this \in Nat /\ Lookback \in Nat \ {0} /\ IsFiniteSet(Firms) /\ Days \subseteq Nat
      /\ \A d \in Days : MonthOf[d] \in Nat /\ (d <= day => MonthOf[d] <= this)
  BY <1>1, IncomeAssumption
<1>4. \A f \in Firms : joined[f] # -1 => joined[f] \in Days /\ joined[f] \in Nat
  BY <1>3 DEF IncomeInv
<1>5. IsFiniteSet(months)
  BY <1>2, <1>3, FS_Interval
<1>6. PICK new : new = {f \in Firms : /\ joined[f] # -1 /\ joined[f] <= day
                                     /\ MonthOf[joined[f]] > this - Lookback}
  OBVIOUS
<1>7. PICK key, ones : key = [f \in new |-> MonthOf[joined[f]]] /\ ones = [f \in new |-> 1]
  OBVIOUS
<1>8. new \in SUBSET Firms /\ IsFiniteSet(new) /\ \A f \in new : ones[f] = 1 /\ ones[f] \in Int
  BY <1>3, <1>6, <1>7, FS_Subset
<1>9. \A f \in new : key[f] = MonthOf[joined[f]] /\ key[f] \in months
  BY <1>2, <1>3, <1>4, <1>6, <1>7
<1>10. DOMAIN counts = months
       /\ \A m \in months : counts[m] = Cardinality({f \in Firms : joined[f] \in MonthSpan(m, day)})
  BY <1>1, <1>2 DEF MonthCounts
<1>11. \A m \in months : /\ {f \in Firms : joined[f] \in MonthSpan(m, day)} = Group(new, key, m)
                         /\ counts[m] = SumOver(ones, Group(new, key, m))
                         /\ counts[m] \in Nat
  <2> SUFFICES ASSUME NEW m \in months
               PROVE  /\ {f \in Firms : joined[f] \in MonthSpan(m, day)} = Group(new, key, m)
                      /\ counts[m] = SumOver(ones, Group(new, key, m))
                      /\ counts[m] \in Nat
    OBVIOUS
  <2>1. m \in Int /\ m > this - Lookback
    BY <1>2, <1>3
  <2>2. -1 \notin Days
    BY <1>3
  <2>3. \A f \in Firms : joined[f] \in MonthSpan(m, day) <=> f \in new /\ MonthOf[joined[f]] = m
    BY <1>4, <1>6, <2>1, <2>2 DEF MonthSpan
  <2>4. {f \in Firms : joined[f] \in MonthSpan(m, day)} = Group(new, key, m)
    BY <1>8, <1>9, <2>3 DEF Group
  <2>5. Group(new, key, m) \in SUBSET new
    BY DEF Group
  <2>6. IsFiniteSet(Group(new, key, m))
    BY <1>8, <2>5, FS_Subset
  <2>7. SumOver(ones, Group(new, key, m)) = Cardinality(Group(new, key, m))
    BY <1>8, <2>5, <2>6, SumOfOnes
  <2>8. Cardinality(Group(new, key, m)) \in Nat
    BY <2>6, FS_CardinalityType
  <2> QED  BY <1>10, <2>4, <2>7, <2>8
<1>12. SumOver(ones, new) = SumOver(counts, months)
  BY <1>5, <1>8, <1>9, <1>11, SumByKey
<1>13. Newcomers(day) = SumOver(counts, months)
  BY <1>2, <1>10 DEF Newcomers
<1>14. Newcomers(day) = Cardinality(new)
  BY <1>8, <1>12, <1>13, SumOfOnes
<1>15. Cardinality(BusyMonths(day)) <= Newcomers(day)
  <2>1. PICK busy, each : /\ busy = {m \in months : counts[m] > 0}
                          /\ each = [m \in months |-> 1]
    OBVIOUS
  <2>2. BusyMonths(day) = busy /\ busy \in SUBSET months
    BY <1>2, <1>10, <2>1 DEF BusyMonths
  <2>3. IsFiniteSet(busy)
    BY <1>5, <2>2, FS_Subset
  <2>4. /\ \A m \in busy : each[m] = 1 /\ each[m] \in Int /\ counts[m] \in Int /\ each[m] <= counts[m]
        /\ \A m \in months \ busy : counts[m] = 0
        /\ \A m \in months : counts[m] \in Int
    BY <1>11, <2>1
  <2>5. SumOver(counts, months) = SumOver(counts, busy)
    BY <1>5, <2>2, <2>4, SumWithoutZeros
  <2>6. SumOver(each, busy) <= SumOver(counts, busy)
    BY <2>3, <2>4, SumLess
  <2>7. SumOver(each, busy) = Cardinality(busy)
    BY <2>3, <2>4, SumOfOnes
  <2> QED  BY <1>13, <2>2, <2>5, <2>6, <2>7
<1> QED  BY <1>1, <1>6, <1>14, <1>15

(***************************************************************************)
(* For any invoices, restaurants, days and periods (services/income.py): a *)
(* report beside which nothing is written comes to one total however it is *)
(* charted, the period before ends where this one begins, and the forecast *)
(* counts every newcomer once.                                             *)
(***************************************************************************)
THEOREM IncomeAlwaysAddsUp == IncomeSpec => []IncomeAddsUp
<1>1. IncomeInv => IncomeAddsUp
  BY ReportIsRight, NewcomersAreCounted DEF IncomeAddsUp
<1> QED  BY <1>1, IncomeBegins, IncomeStep, PTL DEF IncomeSpec

--------------------------------------------------------------------------------
(* Subscriptions *)

\* Every date is the cycle of any earlier one, and no month is left out.
InCycle(S) ==
  /\ S \subseteq Dates
  /\ \A d, e \in S : d[1] <= e[1] => e = Cycle(d, e[1])
  /\ \A d, e \in S : \A m \in d[1]..e[1] : \E f \in S : f[1] = m

\* A date that is a month after an invoice's.
Follows(S, n) == \E d \in S : d[1] + 1 \in Months /\ n = AddMonth(d)

OnRecord(t) == DOMAIN invoices[t]
Marked(t) == \A d \in OnRecord(t) : invoices[t][d] \in BOOLEAN
SubscriptionStands(t) ==
  /\ InCycle(OnRecord(t))
  /\ \A d \in OnRecord(t) : invoices[t][d] => InvoiceOn(t, AddMonth(d))
  /\ tenants[t].status # "NONE" => Follows(OnRecord(t), tenants[t].next)

\* What the job and the requests in progress hold of subscriptions.
JobStands ==
  /\ {"queue", "asOf", "cache", "dirty"} \subseteq DOMAIN job /\ job.queue \in Seq(Tenants)
  /\ \A t \in Range(job.queue) :
       /\ t \in Tenants /\ tenants[t].status # "NONE"
       /\ job.cache # << >> /\ t \notin extra => Follows(OnRecord(t), job.cache[t])
  /\ \A t \in DOMAIN job.dirty :
       /\ t \in Tenants /\ tenants[t].status # "NONE"
       /\ t \notin extra => Follows(OnRecord(t), job.dirty[t])
  /\ job.queue # << >> => job.asOf \in Dates /\ job.asOf[1] + 1 \in Months
ClerkStands(k) ==
  clerkCalls[k].op = "mark" =>
    /\ clerkCalls[k].tenant \in Tenants
    /\ clerkCalls[k].date \in OnRecord(clerkCalls[k].tenant)
    /\ clerkCalls[k].date[1] + 1 \in Months
    /\ clerkCalls[k].from \in BOOLEAN /\ clerkCalls[k].to \in BOOLEAN

BillingInv ==
  /\ today \in BillingDays
  /\ DOMAIN tenants = Tenants /\ DOMAIN invoices = Tenants /\ DOMAIN clerkCalls = Clerks
  /\ \A t \in Tenants : "next" \in DOMAIN tenants[t]
  /\ \A t \in Tenants : Marked(t) /\ (tenants[t].status = "NONE" => OnRecord(t) = {})
  /\ \A t \in Tenants \ extra : SubscriptionStands(t)
  /\ JobStands
  /\ \A k \in Clerks : ClerkStands(k)

\* The cycle that falls in a month: the first one's day, or the last day of the
\* shortest month so far.
LEMMA WhatACycleIs ==
  ASSUME NEW d \in Dates, NEW m \in Months, d[1] <= m
  PROVE  /\ Cycle(d, m) \in Dates /\ Cycle(d, m)[1] = m
         /\ Cycle(d, m)[2] <= d[2] /\ \A k \in d[1]..m : Cycle(d, m)[2] <= MonthDays[k]
         /\ Cycle(d, m)[2] = d[2] \/ \E k \in d[1]..m : Cycle(d, m)[2] = MonthDays[k]
<1>1. PICK days : days = {d[2]} \cup {MonthDays[k] : k \in d[1]..m}
  OBVIOUS
<1>2. Months = 1..Len(MonthDays) /\ Len(MonthDays) \in Nat /\ \A k \in Months : MonthDays[k] \in 28..31
  BY BillingAssumption DEF Months
<1>3. /\ d[1] \in Months /\ d[2] \in 1..31 /\ d[1] \in Int /\ m \in Int
      /\ \A k \in d[1]..m : k \in Months
  BY <1>2 DEF Dates
<1>4. days \in SUBSET (1..31) /\ d[2] \in days
  <2>1. ASSUME NEW k \in d[1]..m PROVE MonthDays[k] \in 1..31
    <3>1. MonthDays[k] \in 28..31
      BY <1>2, <1>3
    <3> QED  BY <3>1
  <2> QED  BY <1>1, <1>3, <2>1
<1>5. IsFiniteSet(1..31)
  <2>1. \A a, b \in Int : IsFiniteSet(a..b)
    BY FS_Interval
  <2>2. 1 \in Int /\ 31 \in Int
    OBVIOUS
  <2> QED  BY <2>1, <2>2, Zenon
<1>6. IsFiniteSet(days)
  BY <1>4, <1>5, FS_Subset
<1>7. days \in SUBSET Int /\ days # {}
  BY <1>4
<1>8. Min(days) \in days /\ \A y \in days : Min(days) <= y
  BY <1>6, <1>7, FiniteSetsHaveEnds
<1>9. PICK day : day = Min(days)
  OBVIOUS
<1>10. Cycle(d, m) = <<m, day>>
  BY <1>1, <1>9 DEF Cycle
<1>11. MonthDays[m] \in days
  BY <1>1, <1>3
<1>12. day \in 1..31 /\ day <= MonthDays[m]
  BY <1>4, <1>8, <1>9, <1>11
<1> QED  BY <1>1, <1>8, <1>9, <1>10, <1>12 DEF Dates

\* The cycle of a cycle's date is the cycle of the first date.
LEMMA CycleOfACycle ==
  ASSUME NEW d \in Dates, NEW k \in Months, NEW m \in Months, d[1] <= k, k <= m
  PROVE  Cycle(Cycle(d, k), m) = Cycle(d, m)
<1>1. PICK c, e, f : c = Cycle(d, k) /\ e = Cycle(c, m) /\ f = Cycle(d, m)
  OBVIOUS
<1>2. Months = 1..Len(MonthDays) /\ Len(MonthDays) \in Nat /\ \A j \in Months : MonthDays[j] \in 28..31
  BY BillingAssumption DEF Months
<1>3. d[1] \in Int /\ d[1] <= m /\ k \in Int /\ m \in Int /\ \A j \in d[1]..m : j \in Months
  BY <1>2 DEF Dates
<1>4. /\ c \in Dates /\ c[1] = k /\ c[2] <= d[2] /\ \A j \in d[1]..k : c[2] <= MonthDays[j]
      /\ c[2] = d[2] \/ \E j \in d[1]..k : c[2] = MonthDays[j]
  BY <1>1, WhatACycleIs
<1>5. /\ e \in Dates /\ e[1] = m /\ e[2] <= c[2] /\ \A j \in k..m : e[2] <= MonthDays[j]
      /\ e[2] = c[2] \/ \E j \in k..m : e[2] = MonthDays[j]
  BY <1>1, <1>4, WhatACycleIs
<1>6. /\ f \in Dates /\ f[1] = m /\ f[2] <= d[2] /\ \A j \in d[1]..m : f[2] <= MonthDays[j]
      /\ f[2] = d[2] \/ \E j \in d[1]..m : f[2] = MonthDays[j]
  BY <1>1, <1>3, WhatACycleIs
<1>7. /\ c[2] \in Int /\ d[2] \in Int /\ e[2] \in Int /\ f[2] \in Int
      /\ e = <<e[1], e[2]>> /\ f = <<f[1], f[2]>>
  BY <1>4, <1>5, <1>6 DEF Dates
<1>8. f[2] <= c[2]
  BY <1>3, <1>4, <1>6, <1>7
<1>9. f[2] <= e[2]
  BY <1>3, <1>5, <1>6, <1>7, <1>8
<1>10. \A j \in d[1]..m : e[2] <= MonthDays[j]
  <2> SUFFICES ASSUME NEW j \in d[1]..m PROVE e[2] <= MonthDays[j]
    OBVIOUS
  <2>1. MonthDays[j] \in Int /\ j \in Int
    BY <1>2, <1>3
  <2>2. CASE j <= k
    BY <1>3, <1>4, <1>5, <1>7, <2>1, <2>2
  <2>3. CASE j >= k
    BY <1>3, <1>5, <2>1, <2>3
  <2> QED  BY <1>3, <2>1, <2>2, <2>3
<1>11. e[2] <= d[2]
  BY <1>4, <1>5, <1>7
<1>12. e[2] <= f[2]
  BY <1>6, <1>10, <1>11
<1>13. e[2] = f[2]
  BY <1>7, <1>9, <1>12
<1> QED  BY <1>1, <1>5, <1>6, <1>7, <1>13

\* The next month's date is the next cycle; this month's is the date itself.
LEMMA MonthByMonth ==
  ASSUME NEW d \in Dates
  PROVE  /\ Cycle(d, d[1]) = d
         /\ d[1] + 1 \in Months => AddMonth(d) = Cycle(d, d[1] + 1)
<1>1. Months = 1..Len(MonthDays) /\ Len(MonthDays) \in Nat /\ \A k \in Months : MonthDays[k] \in 28..31
  BY BillingAssumption DEF Months
<1>2. /\ d[1] \in Months /\ d[1] \in Int /\ d[2] \in Int /\ d = <<d[1], d[2]>>
      /\ d[2] <= MonthDays[d[1]]
  <2>1. d \in Months \X (1..31) /\ d[2] <= MonthDays[d[1]]
    BY DEF Dates
  <2>2. d[1] \in Months /\ d[2] \in 1..31 /\ d = <<d[1], d[2]>>
    BY <2>1
  <2>3. d[2] \in Int
    BY <2>2
  <2>4. d[1] \in Int
    BY <1>1, <2>2
  <2> QED  BY <2>1, <2>2, <2>3, <2>4, Zenon
<1>3. Cycle(d, d[1]) = d
  <2>1. PICK c : c = Cycle(d, d[1])
    OBVIOUS
  <2>2. /\ c \in Dates /\ c[1] = d[1] /\ c[2] <= d[2]
        /\ c[2] = d[2] \/ \E k \in d[1]..d[1] : c[2] = MonthDays[k]
    BY <1>2, <2>1, WhatACycleIs
  <2>3. c = <<c[1], c[2]>> /\ c[2] \in Int
    BY <2>2 DEF Dates
  <2>4. c[2] = d[2]
    BY <1>1, <1>2, <2>2, <2>3
  <2> QED  BY <1>2, <2>1, <2>2, <2>3, <2>4
<1>4. ASSUME d[1] + 1 \in Months PROVE AddMonth(d) = Cycle(d, d[1] + 1)
  <2>1. PICK c, n : c = Cycle(d, n) /\ n = d[1] + 1
    OBVIOUS
  <2>2. /\ c \in Dates /\ c[1] = n /\ c[2] <= d[2] /\ \A k \in d[1]..n : c[2] <= MonthDays[k]
        /\ c[2] = d[2] \/ \E k \in d[1]..n : c[2] = MonthDays[k]
    BY <1>2, <1>4, <2>1, WhatACycleIs
  <2>3. c = <<n, c[2]>> /\ c[2] \in Int
    BY <2>2 DEF Dates
  <2>4. c[2] <= MonthDays[n] /\ MonthDays[n] \in Int /\ MonthDays[d[1]] \in Int
    BY <1>1, <1>2, <1>4, <2>1, <2>2
  <2>5. c[2] = d[2] \/ c[2] = MonthDays[n] \/ c[2] = MonthDays[d[1]]
    BY <1>2, <2>1, <2>2
  <2>6. CASE d[2] <= MonthDays[n]
    <3>1. c[2] = d[2]
      BY <1>2, <2>2, <2>3, <2>4, <2>5, <2>6
    <3> QED  BY <2>1, <2>3, <2>6, <3>1 DEF AddMonth
  <2>7. CASE ~(d[2] <= MonthDays[n])
    <3>1. c[2] = MonthDays[n]
      BY <1>2, <2>2, <2>3, <2>4, <2>5, <2>7
    <3> QED  BY <2>1, <2>3, <2>7, <3>1 DEF AddMonth
  <2> QED  BY <2>6, <2>7
<1> QED  BY <1>3, <1>4

\* Invoicing on from a date of the subscription keeps the cycle.
LEMMA CycleGoesOn ==
  ASSUME NEW S, InCycle(S), NEW from \in S, NEW top \in Months,
         NEW N, N = {Cycle(from, m) : m \in (from[1] + 1)..top}
  PROVE  InCycle(S \cup N)
<1>1. Months = 1..Len(MonthDays) /\ Len(MonthDays) \in Nat
  BY BillingAssumption DEF Months
<1>2. /\ from \in Dates /\ from[1] \in Months /\ from[1] \in Int /\ top \in Int
      /\ \A d \in Dates : d[1] \in Months /\ d[1] \in Int
  BY <1>1 DEF InCycle, Dates
<1>3. \A m \in (from[1] + 1)..top : /\ m \in Months /\ m \in Int /\ from[1] <= m
                                    /\ Cycle(from, m) \in Dates /\ Cycle(from, m)[1] = m
  <2> TAKE m \in (from[1] + 1)..top
  <2>1. m \in Months /\ m \in Int /\ from[1] <= m
    BY <1>1, <1>2
  <2> QED  BY <1>2, <2>1, WhatACycleIs
<1>4. \A x \in N : x \in Dates /\ x[1] \in (from[1] + 1)..top /\ x = Cycle(from, x[1])
  BY <1>3
<1>5. S \subseteq Dates /\ N \subseteq Dates
  BY <1>4 DEF InCycle
<1>6. ASSUME NEW d \in S \cup N, NEW e \in S \cup N, d[1] <= e[1]
      PROVE  e = Cycle(d, e[1])
  <2>1. d \in Dates /\ e \in Dates /\ d[1] \in Months /\ e[1] \in Months
        /\ d[1] \in Int /\ e[1] \in Int
    BY <1>2, <1>5
  <2>2. CASE d[1] >= from[1]
    <3>1. d = Cycle(from, d[1])
      BY <1>4, <2>2 DEF InCycle
    <3>2. from[1] <= e[1]
      BY <1>2, <1>6, <2>1, <2>2
    <3>3. e = Cycle(from, e[1])
      BY <1>4, <3>2 DEF InCycle
    <3>4. Cycle(Cycle(from, d[1]), e[1]) = Cycle(from, e[1])
      BY <1>2, <1>6, <2>1, <2>2, CycleOfACycle
    <3> QED  BY <3>1, <3>3, <3>4
  <2>3. CASE d[1] < from[1]
    <3>1. d \in S
      BY <1>2, <1>4, <2>1, <2>3
    <3>2. CASE e \in S
      BY <1>6, <3>1, <3>2 DEF InCycle
    <3>3. CASE e \in N
      <4>1. from = Cycle(d, from[1])
        BY <1>2, <2>1, <2>3, <3>1 DEF InCycle
      <4>2. e = Cycle(from, e[1]) /\ from[1] <= e[1]
        BY <1>2, <1>4, <2>1, <3>3
      <4>3. Cycle(Cycle(d, from[1]), e[1]) = Cycle(d, e[1])
        BY <1>2, <2>1, <2>3, <4>2, CycleOfACycle
      <4> QED  BY <4>1, <4>2, <4>3
    <3> QED  BY <3>2, <3>3
  <2> QED  BY <1>2, <2>1, <2>2, <2>3
<1>7. ASSUME NEW d \in S \cup N, NEW e \in S \cup N, NEW m \in d[1]..e[1]
      PROVE  \E f \in S \cup N : f[1] = m
  <2>1. d[1] \in Int /\ e[1] \in Int /\ m \in Int /\ d[1] <= m /\ m <= e[1]
    BY <1>2, <1>5
  <2>2. CASE m <= from[1]
    <3>1. d \in S
      BY <1>2, <1>4, <2>1, <2>2
    <3> QED  BY <1>2, <2>1, <2>2, <3>1 DEF InCycle
  <2>3. CASE m > from[1]
    <3>1. CASE e \in S
      <4>1. m \in from[1]..e[1]
        BY <1>2, <2>1, <2>3
      <4> QED  BY <3>1, <4>1 DEF InCycle
    <3>2. CASE e \in N
      <4>1. m \in (from[1] + 1)..top
        BY <1>2, <1>4, <2>1, <2>3, <3>2
      <4> QED  BY <1>3, <4>1
    <3> QED  BY <3>1, <3>2
  <2> QED  BY <1>2, <2>1, <2>2, <2>3
<1> QED  BY <1>5, <1>6, <1>7 DEF InCycle

\* The dates of a sign-up are in the cycle.
LEMMA SignUpIsACycle ==
  ASSUME NEW d \in Dates, d[1] + 1 \in Months
  PROVE  /\ InCycle({d, AddMonth(d)}) /\ InCycle({d})
         /\ AddMonth(d) \in Dates /\ AddMonth(d)[1] = d[1] + 1
<1>1. d[1] \in Int /\ d[1] \in Months
  <2>1. Months = 1..Len(MonthDays) /\ Len(MonthDays) \in Nat
    BY BillingAssumption DEF Months
  <2> QED  BY <2>1 DEF Dates
<1>2. InCycle({d})
  <2>1. d = Cycle(d, d[1])
    BY MonthByMonth
  <2>2. \A m \in d[1]..d[1] : m = d[1]
    BY <1>1
  <2> QED  BY <2>1, <2>2 DEF InCycle
<1>3. PICK N : N = {Cycle(d, m) : m \in (d[1] + 1)..(d[1] + 1)}
  OBVIOUS
<1>4. AddMonth(d) = Cycle(d, d[1] + 1)
  BY MonthByMonth
<1>5. N = {AddMonth(d)}
  <2>1. \A m \in (d[1] + 1)..(d[1] + 1) : m = d[1] + 1
    BY <1>1
  <2>2. d[1] + 1 \in (d[1] + 1)..(d[1] + 1)
    BY <1>1
  <2> QED  BY <1>3, <1>4, <2>1, <2>2
<1>6. InCycle({d} \cup N)
  BY <1>2, <1>3, CycleGoesOn
<1>7. AddMonth(d) \in Dates /\ AddMonth(d)[1] = d[1] + 1
  BY <1>1, <1>4, WhatACycleIs
<1> QED  BY <1>2, <1>5, <1>6, <1>7

\* Opening the month after an invoice's keeps the cycle.
LEMMA CycleOpens ==
  ASSUME NEW S, InCycle(S), NEW d \in S, d[1] + 1 \in Months
  PROVE  InCycle(S \cup {AddMonth(d)})
<1>1. d \in Dates /\ d[1] \in Int
  <2>1. Months = 1..Len(MonthDays) /\ Len(MonthDays) \in Nat
    BY BillingAssumption DEF Months
  <2>2. d \in Dates
    BY DEF InCycle
  <2> QED  BY <2>1, <2>2 DEF Dates
<1>2. PICK N : N = {Cycle(d, m) : m \in (d[1] + 1)..(d[1] + 1)}
  OBVIOUS
<1>3. AddMonth(d) = Cycle(d, d[1] + 1)
  BY <1>1, MonthByMonth
<1>4. N = {AddMonth(d)}
  <2>1. \A m \in (d[1] + 1)..(d[1] + 1) : m = d[1] + 1
    BY <1>1
  <2>2. d[1] + 1 \in (d[1] + 1)..(d[1] + 1)
    BY <1>1
  <2> QED  BY <1>2, <1>3, <2>1, <2>2
<1> QED  BY <1>2, <1>4, CycleGoesOn

\* What is held of a subscription survives while its invoices stay.
LEMMA JobOutlives ==
  ASSUME JobStands, job' = job, extra \subseteq extra',
         \A t \in Tenants : /\ OnRecord(t) \subseteq OnRecord(t)'
                            /\ tenants[t].status # "NONE" => tenants'[t].status # "NONE"
  PROVE  JobStands'
<1>1. \A t \in Tenants : \A n : Follows(OnRecord(t), n) => Follows(OnRecord(t), n)'
  BY DEF Follows
<1> QED  BY <1>1 DEF JobStands

\* So does what a request in progress holds.
LEMMA ClerkOutlives ==
  ASSUME NEW k, ClerkStands(k), clerkCalls'[k] = clerkCalls[k],
         \A t \in Tenants : OnRecord(t) \subseteq OnRecord(t)'
  PROVE  ClerkStands(k)'
BY DEF ClerkStands

\* And the subscription itself.
LEMMA SubscriptionOutlives ==
  ASSUME NEW t, SubscriptionStands(t), tenants'[t] = tenants[t], invoices'[t] = invoices[t]
  PROVE  SubscriptionStands(t)'
BY DEF SubscriptionStands, OnRecord, InvoiceOn

\* At first nobody has a subscription.
LEMMA BillingBegins == BillingInit => BillingInv
<1> SUFFICES ASSUME BillingInit PROVE BillingInv
  OBVIOUS
<1>1. \A t \in Tenants : OnRecord(t) = {} /\ tenants[t].status = "NONE"
  BY DEF BillingInit, OnRecord
<1>2. \A t \in Tenants : SubscriptionStands(t)
  BY <1>1 DEF SubscriptionStands, InCycle
<1>3. JobStands
  <2>1. job.queue = << >> /\ job.dirty = << >>
    BY DEF BillingInit, NoJob
  <2>2. Range(job.queue) = {} /\ DOMAIN job.dirty = {}
    BY <2>1 DEF Range
  <2>3. {"queue", "asOf", "cache", "dirty"} \subseteq DOMAIN job /\ job.queue \in Seq(Tenants)
    BY <2>1 DEF BillingInit, NoJob
  <2> QED  BY <2>1, <2>2, <2>3 DEF JobStands
<1>4. \A k \in Clerks : ClerkStands(k)
  BY DEF BillingInit, ClerkStands, AtHome
<1> QED  BY <1>1, <1>2, <1>3, <1>4 DEF BillingInit, BillingInv, Marked

\* A sign-up: today's invoice and the next month's.
LEMMA SigningUp ==
  ASSUME BillingInv, NEW t \in Tenants, NEW paid \in BOOLEAN, Signup(t, paid)
  PROVE  BillingInv'
<1>1. PICK next, bills : next = AddMonth(today) /\ bills = [d \in {today, next} |-> d = today /\ paid]
  OBVIOUS
<1>2. PICK row : row = [status |-> "ACTIVE", next |-> next]
  OBVIOUS
<1>3. /\ tenants[t].status = "NONE" /\ tenants' = [tenants EXCEPT ![t] = row]
      /\ invoices' = [invoices EXCEPT ![t] = bills]
      /\ UNCHANGED <<today, job, clerkCalls, billedAt, extra>>
  BY <1>1, <1>2 DEF Signup
<1>4. today \in Dates /\ today[1] + 1 \in Months
  BY CalendarAssumption DEF BillingInv
<1>5. next \in Dates /\ InCycle({today, next}) /\ next[1] = today[1] + 1
  BY <1>1, <1>4, SignUpIsACycle
<1>6. next # today
  <2>1. Months = 1..Len(MonthDays) /\ Len(MonthDays) \in Nat
    BY BillingAssumption DEF Months
  <2>2. today[1] \in Int
    BY <1>4, <2>1 DEF Dates
  <2> QED  BY <1>5, <2>2
<1>7. /\ DOMAIN bills = {today, next} /\ bills[today] = paid /\ bills[next] = FALSE
  BY <1>1, <1>6
<1>8. /\ DOMAIN tenants' = Tenants /\ DOMAIN invoices' = Tenants
      /\ tenants'[t] = row /\ invoices'[t] = bills
      /\ \A u \in Tenants \ {t} : tenants'[u] = tenants[u] /\ invoices'[u] = invoices[u]
  BY <1>3 DEF BillingInv
<1>9. row.status = "ACTIVE" /\ row.next = next /\ "next" \in DOMAIN row
  BY <1>2
<1>10. /\ OnRecord(t) = {} /\ OnRecord(t)' = {today, next}
       /\ \A u \in Tenants \ {t} : OnRecord(u)' = OnRecord(u)
  BY <1>3, <1>7, <1>8 DEF OnRecord, BillingInv
<1>11. SubscriptionStands(t)'
  <2>1. Follows({today, next}, row.next)
    BY <1>1, <1>4, <1>9 DEF Follows
  <2>2. \A d \in {today, next} : invoices'[t][d] => AddMonth(d) \in {today, next}
    BY <1>1, <1>7, <1>8
  <2> QED  BY <1>5, <1>8, <1>10, <2>1, <2>2 DEF SubscriptionStands, OnRecord, InvoiceOn, Follows
<1>12. \A u \in Tenants \ extra' : SubscriptionStands(u)'
  BY <1>3, <1>8, <1>11, SubscriptionOutlives DEF BillingInv
<1>13. JobStands'
  BY <1>3, <1>8, <1>9, <1>10, JobOutlives DEF BillingInv
<1>14. \A k \in Clerks : ClerkStands(k)'
  BY <1>3, <1>10, ClerkOutlives DEF BillingInv
<1>15. \A u \in Tenants : tenants'[u].status = "NONE" => OnRecord(u)' = {}
  BY <1>8, <1>9, <1>10 DEF BillingInv
<1>16. \A u \in Tenants : Marked(u)'
  <2>1. Marked(t)'
    BY <1>7, <1>8, <1>10 DEF Marked
  <2>2. \A u \in Tenants \ {t} : Marked(u)'
    BY <1>8, <1>10 DEF Marked, BillingInv
  <2> QED  BY <2>1, <2>2
<1>17. \A u \in Tenants : "next" \in DOMAIN tenants'[u]
  BY <1>8, <1>9 DEF BillingInv
<1> QED  BY <1>3, <1>8, <1>12, <1>13, <1>14, <1>15, <1>16, <1>17 DEF BillingInv

\* The clock, a halt, a request that reads or is abandoned, a job that dies.
LEMMA BillsUntouched ==
  ASSUME BillingInv,
         \/ NextDay \/ CycleFails \/ UNCHANGED billingVars
         \/ \E t \in Tenants : \E status \in {"ACTIVE", "HALTED"} : SetStatus(t, status)
         \/ \E k \in Clerks : \/ GoHome(k)
                              \/ \E t \in Tenants, paid \in BOOLEAN : \E d \in DOMAIN invoices[t] :
                                   d[1] \in PayableMonths /\ LoadMark(k, t, d, paid)
  PROVE  BillingInv'
<1>1. invoices' = invoices /\ extra' = extra /\ today' \in BillingDays
  BY DEF NextDay, CycleFails, SetStatus, GoHome, LoadMark, billingVars, BillingInv
<1>2. /\ DOMAIN tenants' = Tenants
      /\ \A t \in Tenants : /\ tenants'[t].next = tenants[t].next /\ "next" \in DOMAIN tenants'[t]
                            /\ tenants'[t].status = "NONE" <=> tenants[t].status = "NONE"
  <2>1. CASE tenants' = tenants
    BY <2>1 DEF BillingInv
  <2>2. ASSUME NEW t \in Tenants, NEW status \in {"ACTIVE", "HALTED"}, SetStatus(t, status)
        PROVE  /\ DOMAIN tenants' = Tenants
               /\ \A u \in Tenants : /\ tenants'[u].next = tenants[u].next
                                     /\ "next" \in DOMAIN tenants'[u]
                                     /\ tenants'[u].status = "NONE" <=> tenants[u].status = "NONE"
    <3>1. PICK row : row = [tenants[t] EXCEPT !.status = status]
      OBVIOUS
    <3>2. tenants' = [tenants EXCEPT ![t] = row] /\ tenants[t].status # "NONE"
      BY <2>2, <3>1 DEF SetStatus
    <3>3. row.next = tenants[t].next /\ row.status # "NONE" /\ "next" \in DOMAIN row
      <4>1. "next" \in DOMAIN tenants[t] /\ status # "NONE"
        BY <2>2 DEF BillingInv
      <4> QED  BY <3>1, <3>2, <4>1
    <3> QED  BY <3>2, <3>3 DEF BillingInv
  <2> QED  BY <2>1, <2>2 DEF NextDay, CycleFails, GoHome, LoadMark, billingVars
<1>3. \A t \in Tenants : OnRecord(t)' = OnRecord(t)
  BY <1>1 DEF OnRecord
<1>4. \A t \in Tenants \ extra' : SubscriptionStands(t)'
  BY <1>1, <1>2 DEF BillingInv, SubscriptionStands, OnRecord, InvoiceOn
<1>5. JobStands'
  <2>1. CASE job' = job
    BY <1>1, <1>2, <1>3, <2>1, JobOutlives DEF BillingInv
  <2>2. CASE CycleFails
    <3>1. /\ job'.queue = << >> /\ job'.dirty = << >>
          /\ {"queue", "asOf", "cache", "dirty"} \subseteq DOMAIN job'
      BY <2>2 DEF CycleFails, NoJob
    <3>2. Range(job'.queue) = {} /\ DOMAIN job'.dirty = {}
      BY <3>1 DEF Range
    <3>3. job'.queue \in Seq(Tenants)
      BY <3>1
    <3> QED  BY <3>1, <3>2, <3>3 DEF JobStands
  <2> QED  BY <2>1, <2>2 DEF NextDay, SetStatus, GoHome, LoadMark, billingVars
<1>6. DOMAIN clerkCalls' = Clerks
  BY DEF NextDay, CycleFails, SetStatus, GoHome, LoadMark, billingVars, BillingInv
<1>7. \A k \in Clerks : ClerkStands(k)'
  <2>1. CASE clerkCalls' = clerkCalls
    BY <1>3, <2>1, ClerkOutlives DEF BillingInv
  <2>2. ASSUME NEW k \in Clerks, GoHome(k) PROVE \A j \in Clerks : ClerkStands(j)'
    <3>1. \A j \in Clerks \ {k} : clerkCalls'[j] = clerkCalls[j]
      BY <2>2 DEF GoHome, BillingInv
    <3>2. clerkCalls'[k].op = "none"
      BY <2>2 DEF GoHome, BillingInv, AtHome
    <3> QED  BY <1>3, <3>1, <3>2, ClerkOutlives DEF BillingInv, ClerkStands
  <2>3. ASSUME NEW k \in Clerks, NEW t \in Tenants, NEW paid \in BOOLEAN, NEW d \in DOMAIN invoices[t],
               d[1] \in PayableMonths, LoadMark(k, t, d, paid)
        PROVE  \A j \in Clerks : ClerkStands(j)'
    <3>1. PICK c : c = [op |-> "mark", tenant |-> t, date |-> d, from |-> invoices[t][d], to |-> paid,
                        next |-> tenants[t].next]
      OBVIOUS
    <3>2. clerkCalls' = [clerkCalls EXCEPT ![k] = c]
      BY <2>3, <3>1 DEF LoadMark
    <3>3. clerkCalls'[k] = c /\ \A j \in Clerks \ {k} : clerkCalls'[j] = clerkCalls[j]
      BY <3>2 DEF BillingInv
    <3>4. c.tenant = t /\ c.date = d /\ c.to = paid /\ c.from = invoices[t][d]
      BY <3>1
    <3>5. ClerkStands(k)'
      BY <1>1, <1>3, <2>3, <3>3, <3>4, CalendarAssumption DEF ClerkStands, OnRecord, Marked, BillingInv
    <3> QED  BY <1>3, <3>3, <3>5, ClerkOutlives DEF BillingInv
  <2> QED  BY <2>1, <2>2, <2>3 DEF NextDay, CycleFails, SetStatus, billingVars
<1>8. \A t \in Tenants : Marked(t)' /\ (tenants'[t].status = "NONE" => OnRecord(t)' = {})
  BY <1>1, <1>2, <1>3 DEF BillingInv, Marked
<1> QED  BY <1>1, <1>2, <1>4, <1>5, <1>6, <1>7, <1>8 DEF BillingInv

\* What more invoices do to a subscription that is in its cycle: those there
\* keep their marks, and a paid one has its next month's.
LEMMA SubscriptionGrows ==
  ASSUME NEW t, SubscriptionStands(t), InCycle(OnRecord(t))', OnRecord(t) \subseteq OnRecord(t)',
         \A d \in OnRecord(t)' : invoices'[t][d] =>
            \/ AddMonth(d) \in OnRecord(t)'
            \/ d \in OnRecord(t) /\ invoices[t][d],
         tenants'[t].status # "NONE" => Follows(OnRecord(t)', tenants'[t].next)
  PROVE  SubscriptionStands(t)'
<1>1. \A d \in OnRecord(t) : invoices[t][d] => AddMonth(d) \in OnRecord(t)'
  BY DEF SubscriptionStands, InvoiceOn, OnRecord
<1>2. \A d \in OnRecord(t)' : invoices'[t][d] => AddMonth(d) \in OnRecord(t)'
  BY <1>1
<1>3. Follows(OnRecord(t)', tenants'[t].next) => Follows(OnRecord(t), tenants[t].next)'
  BY DEF Follows
<1> QED  BY <1>2, <1>3 DEF SubscriptionStands, InvoiceOn, OnRecord

\* One subscription's invoices and dates change, and no other's.
LEMMA OneSubscriptionMoves ==
  ASSUME BillingInv, NEW t \in Tenants,
         DOMAIN tenants' = Tenants, DOMAIN invoices' = Tenants,
         \A u \in Tenants \ {t} : tenants'[u] = tenants[u] /\ invoices'[u] = invoices[u],
         OnRecord(t) \subseteq OnRecord(t)', tenants[t].status # "NONE",
         tenants'[t].status = tenants[t].status, "next" \in DOMAIN tenants'[t], Marked(t)',
         t \notin extra' => SubscriptionStands(t)',
         extra \subseteq extra', UNCHANGED <<today, job>>,
         DOMAIN clerkCalls' = Clerks,
         \A k \in Clerks : clerkCalls'[k] = clerkCalls[k] \/ clerkCalls'[k] = AtHome
  PROVE  BillingInv'
<1>1. \A u \in Tenants : OnRecord(u) \subseteq OnRecord(u)'
  BY DEF OnRecord
<1>2. \A u \in Tenants \ extra' : SubscriptionStands(u)'
  BY SubscriptionOutlives DEF BillingInv
<1>3. JobStands'
  <2>1. \A u \in Tenants : tenants[u].status # "NONE" => tenants'[u].status # "NONE"
    OBVIOUS
  <2> QED  BY <1>1, <2>1, JobOutlives DEF BillingInv
<1>4. \A k \in Clerks : ClerkStands(k)'
  <2> SUFFICES ASSUME NEW k \in Clerks PROVE ClerkStands(k)'
    OBVIOUS
  <2>1. CASE clerkCalls'[k] = clerkCalls[k]
    BY <1>1, <2>1, ClerkOutlives DEF BillingInv
  <2>2. CASE clerkCalls'[k] = AtHome
    BY <2>2 DEF ClerkStands, AtHome
  <2> QED  BY <2>1, <2>2
<1>5. \A u \in Tenants \ {t} : Marked(u)' /\ (tenants'[u].status = "NONE" => OnRecord(u)' = {})
  BY DEF BillingInv, Marked, OnRecord
<1>6. \A u \in Tenants : "next" \in DOMAIN tenants'[u]
  BY DEF BillingInv
<1> QED  BY <1>2, <1>3, <1>4, <1>5, <1>6 DEF BillingInv

\* An invoice is marked; a payment opens the month after it.
LEMMA Marking ==
  ASSUME BillingInv, NEW k \in Clerks, CommitMark(k)
  PROVE  BillingInv'
<1>1. PICK c : c = clerkCalls[k]
  OBVIOUS
<1>2. PICK t, d : t = c.tenant /\ d = c.date
  OBVIOUS
<1>3. PICK opens : opens = Opened(c)
  OBVIOUS
<1>4. PICK bills : bills = IF c.to = c.from THEN invoices[t] ELSE [invoices[t] EXCEPT ![d] = c.to]
  OBVIOUS
<1>5. PICK all : all = Issuing(bills, opens)
  OBVIOUS
<1>6. PICK next : next = IF c.to /\ ~c.from /\ ~OnOrBefore(AddMonth(d), c.next)
                         THEN AddMonth(d) ELSE tenants[t].next
  OBVIOUS
<1>7. PICK row : row = [tenants[t] EXCEPT !.next = next]
  OBVIOUS
<1>8. /\ t \in Tenants /\ d \in OnRecord(t) /\ d[1] + 1 \in Months
      /\ c.from \in BOOLEAN /\ c.to \in BOOLEAN
  BY <1>1, <1>2 DEF BillingInv, ClerkStands, CommitMark
<1>9. /\ DOMAIN invoices' = Tenants /\ invoices'[t] = all
      /\ \A u \in Tenants \ {t} : invoices'[u] = invoices[u]
      /\ tenants' = [tenants EXCEPT ![t] = row]
      /\ clerkCalls' = [clerkCalls EXCEPT ![k] = AtHome]
      /\ UNCHANGED <<today, job, billedAt, extra>>
  <2>1. /\ DOMAIN invoices' = Tenants /\ invoices'[t] = all
        /\ \A u \in Tenants \ {t} : invoices'[u] = invoices[u]
    <3>1. PICK marked : /\ marked = IF c.to = c.from THEN invoices
                                    ELSE [invoices EXCEPT ![c.tenant][c.date] = c.to]
                        /\ invoices' = [marked EXCEPT ![c.tenant] = Issuing(marked[c.tenant], Opened(c))]
      BY <1>1 DEF CommitMark
    <3>2. /\ DOMAIN marked = Tenants /\ marked[t] = bills
          /\ \A u \in Tenants \ {t} : marked[u] = invoices[u]
      <4>1. CASE c.to = c.from
        BY <1>4, <3>1, <4>1 DEF BillingInv
      <4>2. CASE c.to # c.from
        <5>1. marked = [invoices EXCEPT ![t] = bills]
          BY <1>2, <1>4, <3>1, <4>2
        <5> QED  BY <1>8, <5>1 DEF BillingInv
      <4> QED  BY <4>1, <4>2
    <3> QED  BY <1>2, <1>3, <1>5, <1>8, <3>1, <3>2
  <2>2. tenants' = [tenants EXCEPT ![t] = row]
    BY <1>1, <1>2, <1>6, <1>7 DEF CommitMark
  <2> QED  BY <1>1, <2>1, <2>2 DEF CommitMark
<1>10. opens = IF c.to /\ ~c.from THEN {AddMonth(d)} ELSE {}
  BY <1>2, <1>3 DEF Opened
<1>11. /\ DOMAIN bills = OnRecord(t) /\ \A e \in OnRecord(t) \ {d} : bills[e] = invoices[t][e]
       /\ bills[d] = IF c.to = c.from THEN invoices[t][d] ELSE c.to
  BY <1>4, <1>8 DEF OnRecord
<1>12. /\ DOMAIN all = OnRecord(t) \cup opens /\ \A e \in OnRecord(t) : all[e] = bills[e]
       /\ \A e \in opens \ OnRecord(t) : all[e] = FALSE
  BY <1>5, <1>11 DEF Issuing
<1>13. /\ row.next = next /\ "next" \in DOMAIN row /\ row.status = tenants[t].status
       /\ tenants[t].status # "NONE"
  <2>1. "next" \in DOMAIN tenants[t] /\ tenants[t].status # "NONE"
    BY <1>8 DEF BillingInv
  <2> QED  BY <1>7, <2>1
<1>14. /\ invoices'[t] = all /\ tenants'[t] = row
       /\ DOMAIN tenants' = Tenants /\ DOMAIN invoices' = Tenants /\ DOMAIN clerkCalls' = Clerks
       /\ \A u \in Tenants \ {t} : tenants'[u] = tenants[u] /\ invoices'[u] = invoices[u]
       /\ \A j \in Clerks : clerkCalls'[j] = clerkCalls[j] \/ clerkCalls'[j] = AtHome
  BY <1>8, <1>9 DEF BillingInv
<1>15. OnRecord(t)' = OnRecord(t) \cup opens /\ \A e \in OnRecord(t)' : invoices'[t][e] = all[e]
  BY <1>12, <1>14 DEF OnRecord
<1>16. Marked(t)'
  BY <1>8, <1>11, <1>12, <1>15 DEF Marked, BillingInv
<1>17. ASSUME t \notin extra PROVE SubscriptionStands(t)'
  <2>1. SubscriptionStands(t)
    BY <1>8, <1>17 DEF BillingInv
  <2>2. InCycle(OnRecord(t) \cup opens)
    <3>1. InCycle(OnRecord(t) \cup {AddMonth(d)})
      BY <1>8, <2>1, CycleOpens DEF SubscriptionStands
    <3> QED  BY <1>10, <2>1, <3>1 DEF SubscriptionStands
  <2>3. InCycle(OnRecord(t))'
    BY <1>15, <2>2 DEF InCycle
  <2>4. \A e \in OnRecord(t)' : invoices'[t][e] =>
            \/ AddMonth(e) \in OnRecord(t)'
            \/ e \in OnRecord(t) /\ invoices[t][e]
    BY <1>8, <1>10, <1>11, <1>12, <1>15
  <2>5. Follows(OnRecord(t)', tenants'[t].next)
    <3>1. Follows(OnRecord(t), next)
      BY <1>6, <1>8, <1>13, <2>1 DEF Follows, SubscriptionStands
    <3> QED  BY <1>13, <1>14, <1>15, <3>1 DEF Follows
  <2> QED  BY <1>15, <2>1, <2>3, <2>4, <2>5, SubscriptionGrows
<1> QED  BY <1>8, <1>9, <1>13, <1>14, <1>15, <1>16, <1>17, OneSubscriptionMoves

\* A sign-up payment: today's invoice paid and the next month's opened, or one
\* more, after which nothing is said of the subscription.
LEMMA RecordingAPayment ==
  ASSUME BillingInv, NEW t \in Tenants, RecordPayment(t)
  PROVE  BillingInv'
<1>1. /\ tenants[t].status # "NONE" /\ UNCHANGED <<today, job, clerkCalls, billedAt>>
      /\ "next" \in DOMAIN tenants[t] /\ DOMAIN clerkCalls' = Clerks
      /\ DOMAIN tenants = Tenants /\ DOMAIN invoices = Tenants
  BY DEF RecordPayment, BillingInv
<1>2. CASE UNCHANGED <<tenants, invoices, extra>>
  <2>1. UNCHANGED billingVars
    BY <1>1, <1>2 DEF billingVars
  <2> QED  BY <2>1, BillsUntouched
<1>3. ASSUME InvoiceOn(t, today), ~invoices[t][today] PROVE BillingInv'
  <2>1. PICK all, next : /\ all = [Issuing(invoices[t], {AddMonth(today)}) EXCEPT ![today] = TRUE]
                         /\ next = IF OnOrBefore(AddMonth(today), tenants[t].next)
                                   THEN tenants[t].next ELSE AddMonth(today)
    OBVIOUS
  <2>2. PICK row : row = [tenants[t] EXCEPT !.next = next]
    OBVIOUS
  <2>3. /\ invoices' = [invoices EXCEPT ![t] = all] /\ tenants' = [tenants EXCEPT ![t] = row]
        /\ extra' = extra
    BY <1>3, <2>1, <2>2 DEF RecordPayment
  <2>4. row.next = next /\ row.status = tenants[t].status /\ "next" \in DOMAIN row
    BY <1>1, <2>2
  <2>5. /\ invoices'[t] = all /\ tenants'[t] = row
        /\ DOMAIN tenants' = Tenants /\ DOMAIN invoices' = Tenants
        /\ \A u \in Tenants \ {t} : tenants'[u] = tenants[u] /\ invoices'[u] = invoices[u]
    BY <1>1, <2>3
  <2>6. /\ today \in OnRecord(t) /\ today[1] + 1 \in Months
    BY <1>3, CalendarAssumption DEF InvoiceOn, OnRecord, BillingInv
  <2>7. /\ DOMAIN all = OnRecord(t) \cup {AddMonth(today)} /\ all[today] = TRUE
        /\ \A e \in OnRecord(t) \ {today} : all[e] = invoices[t][e]
        /\ \A e \in DOMAIN all \ (OnRecord(t) \cup {today}) : all[e] = FALSE
    BY <2>1, <2>6 DEF Issuing, OnRecord
  <2>8. /\ OnRecord(t)' = OnRecord(t) \cup {AddMonth(today)}
        /\ \A e \in OnRecord(t)' : invoices'[t][e] = all[e]
    BY <2>5, <2>7 DEF OnRecord
  <2>9. Marked(t)'
    BY <2>7, <2>8 DEF Marked, BillingInv
  <2>10. ASSUME t \notin extra PROVE SubscriptionStands(t)'
    <3>1. SubscriptionStands(t)
      BY <2>10 DEF BillingInv
    <3>2. InCycle(OnRecord(t) \cup {AddMonth(today)})
      BY <2>6, <3>1, CycleOpens DEF SubscriptionStands
    <3>3. InCycle(OnRecord(t))'
      BY <2>8, <3>2 DEF InCycle
    <3>4. \A e \in OnRecord(t)' : invoices'[t][e] =>
              \/ AddMonth(e) \in OnRecord(t)'
              \/ e \in OnRecord(t) /\ invoices[t][e]
      BY <2>7, <2>8
    <3>5. Follows(OnRecord(t)', tenants'[t].next)
      <4>1. Follows(OnRecord(t), next)
        BY <1>1, <2>1, <2>6, <3>1 DEF Follows, SubscriptionStands
      <4> QED  BY <2>4, <2>5, <2>8, <4>1 DEF Follows
    <3> QED  BY <2>8, <3>1, <3>3, <3>4, <3>5, SubscriptionGrows
  <2> QED  BY <1>1, <2>3, <2>4, <2>5, <2>8, <2>9, <2>10, OneSubscriptionMoves
<1>4. ASSUME ~InvoiceOn(t, today) PROVE BillingInv'
  <2>1. PICK all : all = [Issuing(invoices[t], {today, tenants[t].next}) EXCEPT ![today] = TRUE]
    OBVIOUS
  <2>2. /\ invoices' = [invoices EXCEPT ![t] = all] /\ tenants' = tenants
        /\ extra' = extra \cup {t}
    BY <1>4, <2>1 DEF RecordPayment
  <2>3. /\ OnRecord(t) \subseteq DOMAIN all /\ \A e \in OnRecord(t) \ {today} : all[e] = invoices[t][e]
        /\ \A e \in DOMAIN all \ OnRecord(t) : all[e] \in BOOLEAN
        /\ today \in DOMAIN all => all[today] = TRUE
    BY <2>1 DEF Issuing, OnRecord
  <2>4. invoices'[t] = all /\ DOMAIN invoices' = Tenants
        /\ \A u \in Tenants \ {t} : tenants'[u] = tenants[u] /\ invoices'[u] = invoices[u]
    BY <1>1, <2>2
  <2>5. Marked(t)' /\ OnRecord(t) \subseteq OnRecord(t)'
    BY <2>3, <2>4 DEF Marked, BillingInv, OnRecord
  <2> QED  BY <1>1, <2>2, <2>4, <2>5, OneSubscriptionMoves
<1> QED  BY <1>2, <1>3, <1>4 DEF RecordPayment

\* The queue holds the restaurants that are due.
LEMMA QueueOfASet ==
  ASSUME NEW S, IsFiniteSet(S)
  PROVE  SetToSeq(S) \in Seq(S) /\ Range(SetToSeq(S)) \subseteq S
<1>1. PICK n : n = Cardinality(S)
  OBVIOUS
<1>2. n \in Nat /\ ExistsBijection(1..n, S)
  BY <1>1, FS_CardinalityType
<1>3. \E f \in [1..n -> S] : IsInjective(f)
  BY <1>2 DEF ExistsBijection, Bijection, Injection, IsInjective
<1>4. SetToSeq(S) \in [1..n -> S]
  BY <1>1, <1>3 DEF SetToSeq
<1> QED  BY <1>2, <1>4 DEF Range

\* The job selects the restaurants that are due.
LEMMA CycleStarts ==
  ASSUME BillingInv, StartCycle
  PROVE  BillingInv'
<1>1. PICK queue, cache : queue = SetToSeq(DueTenants) /\ cache = [t \in Tenants |-> tenants[t].next]
  OBVIOUS
<1>2. /\ job' = [queue |-> queue, asOf |-> today, cache |-> cache, dirty |-> << >>]
      /\ UNCHANGED <<today, tenants, invoices, clerkCalls, billedAt, extra>>
  BY <1>1 DEF StartCycle
<1>3. /\ {"queue", "asOf", "cache", "dirty"} \subseteq DOMAIN job'
      /\ job'.queue = queue /\ job'.asOf = today /\ job'.cache = cache /\ job'.dirty = << >>
  BY <1>2
<1>4. queue \in Seq(Tenants) /\ Range(queue) \subseteq DueTenants
  <2>1. DueTenants \in SUBSET Tenants /\ IsFiniteSet(Tenants)
    BY BillingAssumption DEF DueTenants
  <2>2. IsFiniteSet(DueTenants)
    BY <2>1, FS_Subset
  <2>3. queue \in Seq(DueTenants) /\ Range(queue) \subseteq DueTenants
    BY <1>1, <2>2, QueueOfASet
  <2> QED  BY <2>1, <2>3
<1>5. \A t \in Tenants : OnRecord(t)' = OnRecord(t)
  BY <1>2 DEF OnRecord
<1>6. \A t \in Range(queue) : /\ t \in Tenants /\ tenants[t].status # "NONE"
                              /\ t \notin extra => Follows(OnRecord(t), cache[t])
  BY <1>1, <1>4 DEF DueTenants, BillingInv, SubscriptionStands
<1>7. JobStands'
  <2>1. today \in Dates /\ today[1] + 1 \in Months
    BY CalendarAssumption DEF BillingInv
  <2>2. DOMAIN job'.dirty = {}
    BY <1>3
  <2>3. ASSUME NEW t \in Range(job'.queue)
        PROVE  /\ t \in Tenants /\ tenants'[t].status # "NONE"
               /\ t \notin extra' => Follows(OnRecord(t)', job'.cache[t])
    <3>1. /\ t \in Tenants /\ tenants[t].status # "NONE"
          /\ t \notin extra => Follows(OnRecord(t), cache[t])
      <4>1. Range(job'.queue) = Range(queue)
        BY <1>3
      <4>2. t \in Range(queue)
        BY <2>3, <4>1
      <4> QED  BY <1>6, <4>2
    <3>2. OnRecord(t)' = OnRecord(t) /\ tenants' = tenants /\ extra' = extra /\ job'.cache = cache
      BY <1>2, <1>3, <1>5, <3>1
    <3> QED  BY <3>1, <3>2
  <2>4. \A t \in Range(job'.queue) : t \notin extra' => Follows(OnRecord(t), job.cache[t])'
    BY <2>3 DEF Follows
  <2> QED  BY <1>3, <1>4, <2>1, <2>2, <2>3, <2>4 DEF JobStands
<1>8. \A t \in Tenants \ extra' : SubscriptionStands(t)'
  BY <1>2 DEF BillingInv, SubscriptionStands, OnRecord, InvoiceOn
<1>9. \A k \in Clerks : ClerkStands(k)'
  BY <1>2, <1>5, ClerkOutlives DEF BillingInv
<1> QED  BY <1>2, <1>5, <1>7, <1>8, <1>9 DEF BillingInv, Marked

\* What is due: the months one by one, none of them invoiced twice.
LEMMA DueAdvances ==
  ASSUME NEW S, InCycle(S), NEW from, Follows(S, from),
         NEW asOf \in Dates, asOf[1] + 1 \in Months,
         NEW due, due = DueFrom(from, asOf),
         NEW N, N = {Cycle(from, m) : m \in due}
  PROVE  /\ InCycle(S \cup N)
         /\ due # {} => Follows(S \cup N, Cycle(from, Max(due) + 1))
<1>1. Months = 1..Len(MonthDays) /\ Len(MonthDays) \in Nat
  BY BillingAssumption DEF Months
<1>2. PICK d \in S : d[1] + 1 \in Months /\ from = AddMonth(d)
  BY DEF Follows
<1>3. d \in Dates /\ d[1] \in Int /\ d[1] \in Months /\ asOf[1] \in Int /\ asOf[1] \in Months
  <2>1. d \in Dates
    BY DEF InCycle
  <2> QED  BY <1>1, <2>1 DEF Dates
<1>4. /\ from = Cycle(d, d[1] + 1) /\ from \in Dates /\ from[1] = d[1] + 1
      /\ from[1] \in Int /\ from[1] \in Months
  <2>1. AddMonth(d) = Cycle(d, d[1] + 1) /\ AddMonth(d) \in Dates /\ AddMonth(d)[1] = d[1] + 1
    BY <1>2, <1>3, MonthByMonth, SignUpIsACycle
  <2>2. d[1] + 1 \in Int
    BY <1>3
  <2> QED  BY <1>2, <2>1, <2>2
<1>5. \A m \in from[1]..asOf[1] : /\ m \in Months /\ m \in Int /\ m + 1 \in Months
                                /\ from[1] <= m /\ Cycle(from, m) = Cycle(d, m)
                                /\ Cycle(from, m) \in Dates /\ Cycle(from, m)[1] = m
  <2> TAKE m \in from[1]..asOf[1]
  <2>1. /\ m \in Months /\ m \in Int /\ m + 1 \in Months /\ from[1] <= m
        /\ d[1] <= d[1] + 1 /\ d[1] + 1 <= m
    BY <1>1, <1>3, <1>4
  <2>2. Cycle(Cycle(d, d[1] + 1), m) = Cycle(d, m)
    BY <1>2, <1>3, <2>1, CycleOfACycle
  <2>3. Cycle(from, m) \in Dates /\ Cycle(from, m)[1] = m
    BY <1>4, <2>1, WhatACycleIs
  <2> QED  BY <1>4, <2>1, <2>2, <2>3
<1>6. due = {m \in from[1]..asOf[1] : OnOrBefore(Cycle(from, m), asOf)}
  BY DEF DueFrom
<1>7. CASE due = {}
  <2>1. N = {}
    BY <1>7
  <2> QED  BY <1>7, <2>1
<1>8. CASE due # {}
  <2>1. PICK top : top = Max(due)
    OBVIOUS
  <2>2. top \in due /\ \A m \in due : top >= m
    <3>1. IsFiniteSet(from[1]..asOf[1])
      BY <1>3, <1>4, FS_Interval
    <3>2. due \in SUBSET (from[1]..asOf[1])
      BY <1>6
    <3>3. IsFiniteSet(due)
      BY <3>1, <3>2, FS_Subset
    <3>4. due \in SUBSET Int
      BY <1>5, <3>2
    <3> QED  BY <1>8, <2>1, <3>3, <3>4, FiniteSetsHaveEnds
  <2>3. top \in from[1]..asOf[1] /\ OnOrBefore(Cycle(from, top), asOf)
    BY <1>6, <2>2
  <2>4. top \in Months /\ top \in Int /\ top + 1 \in Months /\ from[1] <= top
    BY <1>5, <2>3
  <2>5. due = (d[1] + 1)..top
    <3>1. ASSUME NEW m \in (d[1] + 1)..top PROVE m \in due
      <4>1. m \in from[1]..asOf[1] /\ m <= top
        BY <1>3, <1>4, <2>3, <2>4
      <4>2. CASE m = top
        BY <2>2, <4>2
      <4>3. CASE m # top
        <5>1. m < asOf[1]
          BY <1>3, <1>4, <2>3, <4>1, <4>3
        <5>2. Cycle(from, m)[1] < asOf[1]
          BY <1>5, <4>1, <5>1
        <5> QED  BY <1>6, <4>1, <5>2 DEF OnOrBefore
      <4> QED  BY <4>2, <4>3
    <3>2. ASSUME NEW m \in due PROVE m \in (d[1] + 1)..top
      <4>1. m \in from[1]..asOf[1] /\ m <= top
        BY <1>6, <2>2, <2>4
      <4> QED  BY <1>3, <1>4, <2>4, <4>1
    <3> QED  BY <3>1, <3>2
  <2>6. N = {Cycle(d, m) : m \in (d[1] + 1)..top}
    <3>1. \A m \in due : Cycle(from, m) = Cycle(d, m)
      BY <1>5, <1>6
    <3> QED  BY <2>5, <3>1
  <2>7. InCycle(S \cup N)
    BY <2>4, <2>6, CycleGoesOn
  <2>8. PICK c : c = Cycle(from, top)
    OBVIOUS
  <2>9. c \in N /\ c \in Dates /\ c[1] = top
    BY <1>5, <2>2, <2>3, <2>8
  <2>10. AddMonth(c) = Cycle(from, top + 1)
    <3>1. AddMonth(c) = Cycle(c, top + 1)
      BY <2>4, <2>9, MonthByMonth
    <3>2. Cycle(Cycle(from, top), top + 1) = Cycle(from, top + 1)
      <4>1. top <= top + 1
        BY <2>4
      <4> QED  BY <1>4, <2>4, <4>1, CycleOfACycle
    <3> QED  BY <2>8, <3>1, <3>2
  <2>11. Follows(S \cup N, Cycle(from, top + 1))
    BY <2>4, <2>9, <2>10 DEF Follows
  <2> QED  BY <2>1, <2>7, <2>11
<1> QED  BY <1>7, <1>8

\* The job bills a restaurant.
LEMMA CycleSteps ==
  ASSUME BillingInv, CycleStep
  PROVE  BillingInv'
<1> DEFINE From(t) == IF job.cache = << >> THEN tenants[t].next ELSE job.cache[t]
           Absent(t, from, due) == {Cycle(from, m) : m \in due} \ DOMAIN invoices[t]
           Dating(t, from, due) ==
             IF due = {} THEN job.dirty
             ELSE [u \in DOMAIN job.dirty \cup {t} |->
                     IF u = t THEN Cycle(from, Max(due) + 1) ELSE job.dirty[u]]
<1>a. \E t \in Range(job.queue) :
      \E from \in {From(t)} :
      \E due \in {DueFrom(from, job.asOf)} :
      \E missing \in {Absent(t, from, due)} :
      \E dated \in {Dating(t, from, due)} :
        t = Head(job.queue) /\ Bill(t, missing, dated)
  BY DEF CycleStep
<1> HIDE DEF From, Absent, Dating
<1>b. PICK t, from, due, missing, dated :
        /\ t \in Range(job.queue) /\ from = From(t) /\ due = DueFrom(from, job.asOf)
        /\ missing = Absent(t, from, due) /\ dated = Dating(t, from, due)
        /\ t = Head(job.queue) /\ Bill(t, missing, dated)
  BY <1>a
<1>0. /\ t \in Range(job.queue) /\ due = DueFrom(from, job.asOf) /\ Bill(t, missing, dated)
      /\ from = IF job.cache = << >> THEN tenants[t].next ELSE job.cache[t]
      /\ missing = {Cycle(from, m) : m \in due} \ DOMAIN invoices[t]
      /\ dated = IF due = {} THEN job.dirty
                 ELSE [u \in DOMAIN job.dirty \cup {t} |->
                         IF u = t THEN Cycle(from, Max(due) + 1) ELSE job.dirty[u]]
  BY <1>b DEF From, Absent, Dating
<1>1. /\ \/ missing = {} /\ job' = Going([job EXCEPT !.queue = Tail(@), !.dirty = dated])
         \/ /\ missing # {}
            /\ job' = Going([job EXCEPT !.queue = Tail(@), !.cache = << >>, !.dirty = << >>])
      /\ IF missing = {}
         THEN UNCHANGED <<tenants, invoices>>
         ELSE /\ invoices' = [invoices EXCEPT ![t] = Issuing(@, missing)]
              /\ tenants' = [u \in Tenants |-> IF u \in DOMAIN dated
                                               THEN [tenants[u] EXCEPT !.next = dated[u]]
                                               ELSE tenants[u]]
      /\ UNCHANGED <<today, clerkCalls, extra>>
  BY <1>0 DEF Bill
<1>2. PICK asOf, N, q : asOf = job.asOf /\ N = {Cycle(from, m) : m \in due} /\ q = job.queue
  OBVIOUS
<1>3. /\ t \in Range(job.queue) /\ t \in Tenants /\ tenants[t].status # "NONE"
      /\ q \in Seq(Tenants) /\ q # << >> /\ asOf \in Dates /\ asOf[1] + 1 \in Months
  <2>1. JobStands /\ q \in Seq(Tenants) /\ t \in Range(q)
    BY <1>0, <1>2 DEF BillingInv, JobStands
  <2>2. q # << >>
    <3>1. PICK i \in DOMAIN q : t = q[i]
      BY <2>1 DEF Range
    <3> QED  BY <3>1
  <2> QED  BY <1>2, <2>1, <2>2 DEF JobStands
<1>4. /\ due = DueFrom(from, asOf) /\ missing = N \ OnRecord(t)
      /\ N = {Cycle(from, m) : m \in due}
      /\ OnRecord(t) \cup missing = OnRecord(t) \cup N
  <2>1. due = DueFrom(from, asOf)
    BY <1>0, <1>2
  <2>2. missing = N \ OnRecord(t)
    BY <1>0, <1>2 DEF OnRecord
  <2>3. N = {Cycle(from, m) : m \in due}
    BY <1>2
  <2> QED  BY <2>1, <2>2, <2>3
<1>5. t \notin extra => Follows(OnRecord(t), from)
  BY <1>0, <1>3 DEF BillingInv, JobStands, SubscriptionStands
<1>6. ASSUME t \notin extra
      PROVE  /\ InCycle(OnRecord(t) \cup N)
             /\ due # {} => Follows(OnRecord(t) \cup N, Cycle(from, Max(due) + 1))
  <2>1. InCycle(OnRecord(t)) /\ Follows(OnRecord(t), from)
    BY <1>3, <1>5, <1>6 DEF BillingInv, SubscriptionStands
  <2>2. /\ asOf \in Dates /\ asOf[1] + 1 \in Months /\ due = DueFrom(from, asOf)
        /\ N = {Cycle(from, m) : m \in due}
    BY <1>3, <1>4
  <2>3. PICK S : S = OnRecord(t)
    OBVIOUS
  <2>4. InCycle(S) /\ Follows(S, from)
    BY <2>1, <2>3
  <2>5. /\ InCycle(S \cup N)
        /\ due # {} => Follows(S \cup N, Cycle(from, Max(due) + 1))
    BY <2>2, <2>4, DueAdvances
  <2> QED  BY <2>3, <2>5
<1>7. /\ Tail(job.queue) \in Seq(Tenants)
      /\ \A u \in Range(Tail(job.queue)) : u \in Range(job.queue)
  <2>1. q \in Seq(Tenants) /\ q # << >>
    BY <1>3
  <2>2. Tail(q) \in Seq(Tenants)
    BY <2>1
  <2>3. \A i \in DOMAIN Tail(q) : i + 1 \in DOMAIN q /\ Tail(q)[i] = q[i + 1]
    BY <2>1
  <2>4. \A u \in Range(Tail(q)) : u \in Range(q)
    BY <2>3 DEF Range
  <2> QED  BY <1>2, <2>2, <2>4
\* What the dates to be written are.
<1>8. \A u \in DOMAIN dated :
        /\ u \in Tenants /\ tenants[u].status # "NONE"
        /\ u \notin extra /\ u # t => Follows(OnRecord(u), dated[u])
        /\ t \notin extra /\ u = t => Follows(OnRecord(t) \cup N, dated[u])
  <2>1. \A u \in DOMAIN job.dirty :
          /\ u \in Tenants /\ tenants[u].status # "NONE"
          /\ u \notin extra => Follows(OnRecord(u), job.dirty[u])
    BY DEF BillingInv, JobStands
  <2>2. CASE due = {}
    <3>1. dated = job.dirty
      BY <1>0, <2>2
    <3> QED  BY <2>1, <3>1 DEF Follows
  <2>3. CASE due # {}
    <3>1. /\ DOMAIN dated = DOMAIN job.dirty \cup {t} /\ dated[t] = Cycle(from, Max(due) + 1)
          /\ \A u \in DOMAIN job.dirty \ {t} : dated[u] = job.dirty[u]
      BY <1>0, <2>3
    <3> QED  BY <1>3, <1>6, <2>1, <2>3, <3>1
  <2> QED  BY <2>2, <2>3
<1>9. /\ OnRecord(t)' = OnRecord(t) \cup N
      /\ \A u \in Tenants \ {t} : invoices'[u] = invoices[u] /\ OnRecord(u)' = OnRecord(u)
      /\ DOMAIN invoices' = Tenants
      /\ \A d \in OnRecord(t) : invoices'[t][d] = invoices[t][d]
      /\ \A d \in OnRecord(t)' \ OnRecord(t) : invoices'[t][d] = FALSE
  <2>1. CASE missing = {}
    <3>1. invoices' = invoices
      BY <1>1, <2>1
    <3> QED  BY <1>4, <2>1, <3>1 DEF OnRecord, BillingInv
  <2>2. CASE missing # {}
    <3>1. PICK all : all = Issuing(invoices[t], missing)
      OBVIOUS
    <3>2. invoices' = [invoices EXCEPT ![t] = all]
      BY <1>1, <2>2, <3>1
    <3>3. /\ invoices'[t] = all /\ DOMAIN invoices' = Tenants
          /\ \A u \in Tenants \ {t} : invoices'[u] = invoices[u]
      BY <1>3, <3>2 DEF BillingInv
    <3>4. /\ DOMAIN all = OnRecord(t) \cup N
          /\ \A d \in OnRecord(t) : all[d] = invoices[t][d]
          /\ \A d \in DOMAIN all \ OnRecord(t) : all[d] = FALSE
      BY <1>4, <3>1 DEF Issuing, OnRecord
    <3> QED  BY <3>3, <3>4 DEF OnRecord
  <2> QED  BY <2>1, <2>2
<1>10. \A u \in Tenants : \A n : u # t /\ Follows(OnRecord(u), n) => Follows(OnRecord(u)', n)
  BY <1>9 DEF Follows
<1>11. \A n : Follows(OnRecord(t), n) \/ Follows(OnRecord(t) \cup N, n) => Follows(OnRecord(t)', n)
  BY <1>9 DEF Follows
<1>12. /\ DOMAIN tenants' = Tenants
       /\ \A u \in Tenants :
            /\ tenants'[u].status = tenants[u].status /\ "next" \in DOMAIN tenants'[u]
            /\ \/ tenants'[u].next = tenants[u].next
               \/ u \in DOMAIN dated /\ tenants'[u].next = dated[u]
  <2>1. CASE tenants' = tenants
    BY <2>1 DEF BillingInv
  <2>2. CASE tenants' = [u \in Tenants |-> IF u \in DOMAIN dated
                                          THEN [tenants[u] EXCEPT !.next = dated[u]] ELSE tenants[u]]
    BY <2>2 DEF BillingInv
  <2> QED  BY <1>1, <2>1, <2>2
<1>13. ASSUME NEW u \in Tenants \ extra' PROVE SubscriptionStands(u)'
  <2>1. SubscriptionStands(u) /\ u \notin extra
    BY <1>1, <1>13 DEF BillingInv
  <2>2. tenants'[u].status # "NONE" => Follows(OnRecord(u)', tenants'[u].next)
    BY <1>8, <1>10, <1>11, <1>12, <2>1 DEF SubscriptionStands
  <2>3. InCycle(OnRecord(u))'
    <3>1. InCycle(OnRecord(u)) /\ (u = t => InCycle(OnRecord(t) \cup N))
      BY <1>6, <2>1 DEF SubscriptionStands
    <3>2. OnRecord(u)' = IF u = t THEN OnRecord(t) \cup N ELSE OnRecord(u)
      BY <1>9
    <3> QED  BY <3>1, <3>2 DEF InCycle
  <2>4. OnRecord(u) \subseteq OnRecord(u)'
    BY <1>9
  <2>5. \A d \in OnRecord(u)' : invoices'[u][d] =>
            \/ AddMonth(d) \in OnRecord(u)'
            \/ d \in OnRecord(u) /\ invoices[u][d]
    BY <1>9
  <2> QED  BY <2>1, <2>2, <2>3, <2>4, <2>5, SubscriptionGrows
<1>14. JobStands'
  <2>1. CASE job' = NoJob
    <3>1. /\ job'.queue = << >> /\ job'.dirty = << >>
          /\ {"queue", "asOf", "cache", "dirty"} \subseteq DOMAIN job'
      BY <2>1 DEF NoJob
    <3>2. Range(job'.queue) = {} /\ DOMAIN job'.dirty = {} /\ job'.queue \in Seq(Tenants)
      BY <3>1 DEF Range
    <3> QED  BY <3>1, <3>2 DEF JobStands
  <2>2. CASE missing = {} /\ job' = [job EXCEPT !.queue = Tail(@), !.dirty = dated]
    <3>1. /\ {"queue", "asOf", "cache", "dirty"} \subseteq DOMAIN job
          /\ job.queue # << >> => job.asOf \in Dates /\ job.asOf[1] + 1 \in Months
      BY DEF BillingInv, JobStands
    <3>2. /\ {"queue", "asOf", "cache", "dirty"} \subseteq DOMAIN job'
          /\ job'.queue = Tail(job.queue) /\ job'.dirty = dated
          /\ job'.cache = job.cache /\ job'.asOf = job.asOf
      BY <2>2, <3>1
    <3>3. ASSUME NEW u \in Range(job'.queue)
          PROVE  /\ u \in Tenants /\ tenants'[u].status # "NONE"
                 /\ job'.cache # << >> /\ u \notin extra' => Follows(OnRecord(u)', job'.cache[u])
      <4>1. /\ u \in Tenants /\ tenants[u].status # "NONE"
            /\ job.cache # << >> /\ u \notin extra => Follows(OnRecord(u), job.cache[u])
        BY <1>7, <3>2 DEF BillingInv, JobStands
      <4> QED  BY <1>1, <1>10, <1>11, <1>12, <3>2, <4>1
    <3>4. ASSUME NEW u \in DOMAIN job'.dirty
          PROVE  /\ u \in Tenants /\ tenants'[u].status # "NONE"
                 /\ u \notin extra' => Follows(OnRecord(u)', job'.dirty[u])
      BY <1>1, <1>8, <1>10, <1>11, <1>12, <3>2
    <3>5. /\ \A u \in Range(job'.queue) :
               job'.cache # << >> /\ u \notin extra' => Follows(OnRecord(u), job.cache[u])'
          /\ \A u \in DOMAIN job'.dirty : u \notin extra' => Follows(OnRecord(u), job.dirty[u])'
      BY <3>3, <3>4 DEF Follows
    <3>6. job'.asOf \in Dates /\ job'.asOf[1] + 1 \in Months
      BY <1>2, <1>3, <3>2
    <3> QED  BY <1>7, <3>2, <3>3, <3>4, <3>5, <3>6 DEF JobStands
  <2>3. CASE missing # {} /\ job' = [job EXCEPT !.queue = Tail(@), !.cache = << >>, !.dirty = << >>]
    <3>1. /\ {"queue", "asOf", "cache", "dirty"} \subseteq DOMAIN job
          /\ job.queue # << >> => job.asOf \in Dates /\ job.asOf[1] + 1 \in Months
      BY DEF BillingInv, JobStands
    <3>2. /\ {"queue", "asOf", "cache", "dirty"} \subseteq DOMAIN job'
          /\ job'.queue = Tail(job.queue) /\ DOMAIN job'.dirty = {}
          /\ job'.cache = << >> /\ job'.asOf = job.asOf
      BY <2>3, <3>1
    <3>3. \A u \in Range(job'.queue) : u \in Tenants /\ tenants'[u].status # "NONE"
      <4>1. \A u \in Range(job.queue) : u \in Tenants /\ tenants[u].status # "NONE"
        BY DEF BillingInv, JobStands
      <4> QED  BY <1>7, <1>12, <3>2, <4>1
    <3>4. job'.asOf \in Dates /\ job'.asOf[1] + 1 \in Months
      BY <1>2, <1>3, <3>2
    <3> QED  BY <1>7, <3>2, <3>3, <3>4 DEF JobStands
  <2> QED  BY <1>1, <2>1, <2>2, <2>3 DEF Going
<1>15. \A u \in Tenants : Marked(u)' /\ (tenants'[u].status = "NONE" => OnRecord(u)' = {})
  <2>1. \A u \in Tenants : Marked(u)'
    BY <1>9 DEF BillingInv, Marked
  <2> QED  BY <1>3, <1>9, <1>12, <2>1 DEF BillingInv
<1>16. \A k \in Clerks : ClerkStands(k)'
  <2>1. \A u \in Tenants : OnRecord(u) \subseteq OnRecord(u)'
    BY <1>9
  <2> QED  BY <1>1, <2>1, ClerkOutlives DEF BillingInv
<1> QED  BY <1>1, <1>9, <1>12, <1>13, <1>14, <1>15, <1>16 DEF BillingInv

\* Dates in one cycle are one a month, and leave none out.
LEMMA MonthsAreBilled == BillingInv => BilledMonthByMonth
<1> SUFFICES ASSUME BillingInv PROVE BilledMonthByMonth
  OBVIOUS
<1>1. ASSUME NEW t \in Tenants \ extra, NEW d \in DOMAIN invoices[t], NEW e \in DOMAIN invoices[t]
      PROVE  /\ d[1] = e[1] => d = e
             /\ \A m \in d[1]..e[1] : \E f \in DOMAIN invoices[t] : f[1] = m
  <2>1. InCycle(OnRecord(t)) /\ d \in OnRecord(t) /\ e \in OnRecord(t)
    BY DEF BillingInv, SubscriptionStands, OnRecord
  <2>2. d[1] = e[1] => d = e
    <3> SUFFICES ASSUME d[1] = e[1] PROVE d = e
      OBVIOUS
    <3>1. d \in Dates /\ d[1] \in Int
      <4>1. Months = 1..Len(MonthDays) /\ Len(MonthDays) \in Nat
        BY BillingAssumption DEF Months
      <4>2. d \in Dates
        BY <2>1 DEF InCycle
      <4> QED  BY <4>1, <4>2 DEF Dates
    <3>2. d[1] <= e[1]
      BY <3>1
    <3>3. e = Cycle(d, e[1])
      BY <2>1, <3>2 DEF InCycle
    <3>4. Cycle(d, d[1]) = d
      BY <3>1, MonthByMonth
    <3> QED  BY <3>3, <3>4
  <2> QED  BY <2>1, <2>2 DEF InCycle, OnRecord
<1>2. PaidOpensTheNext
  BY DEF PaidOpensTheNext, BillingInv, SubscriptionStands, OnRecord
<1>3. OneInvoiceAMonth
  BY <1>1 DEF OneInvoiceAMonth
<1> QED  BY <1>2, <1>3 DEF BilledMonthByMonth

(***************************************************************************)
(* For any restaurants, calendar and requests in progress                  *)
(* (services/billing.py, jobs/billing_cycle.py): a subscription has one    *)
(* invoice in every month from its first to its last, whoever issues them  *)
(* and however late, and a paid one has the next month's beside it.        *)
(***************************************************************************)
THEOREM MonthsStayBilled == BillingSpec => []BilledMonthByMonth
<1>1. BillingInv /\ [BillingNext]_billingVars => BillingInv'
  <2> SUFFICES ASSUME BillingInv, [BillingNext]_billingVars PROVE BillingInv'
    OBVIOUS
  <2>1. ASSUME NEW t \in Tenants, \E paid \in BOOLEAN : Signup(t, paid) PROVE BillingInv'
    BY <2>1, SigningUp
  <2>2. ASSUME NEW t \in Tenants, RecordPayment(t) PROVE BillingInv'
    BY <2>2, RecordingAPayment
  <2>3. ASSUME NEW k \in Clerks, CommitMark(k) PROVE BillingInv'
    BY <2>3, Marking
  <2> QED  BY <2>1, <2>2, <2>3, BillsUntouched, CycleStarts, CycleSteps DEF BillingNext
<1> QED  BY <1>1, MonthsAreBilled, BillingBegins, PTL DEF BillingSpec

================================================================================
