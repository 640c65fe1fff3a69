------------------------------ MODULE Terminals -----------------------------
(***************************************************************************)
(* Pairing of point-of-sale terminals (services/pos.py, DeviceService): a  *)
(* manager creates a terminal and gets a one-time activation code, a device *)
(* claims the code and is bound by its uid, the manager may hand out a new *)
(* code or revoke.  A claim is a compare-and-set in SQL; the manager's     *)
(* handlers load the row and write the columns they changed, so each may   *)
(* act on a row a claim has since rewritten.                               *)
(***************************************************************************)
EXTENDS Integers, FiniteSets

CONSTANTS
    TerminalIds,    \* terminals of the branch
    Uids,           \* physical devices
    Desks,          \* requests in progress: managers' and devices'
    MaxCodes        \* bound: activation codes issued

NoUid == "none"
ASSUME TerminalsAssumption == MaxCodes \in Nat /\ NoUid \notin Uids

VARIABLES
    terminals,      \* terminal -> its row
    codes,          \* activation codes issued so far, numbered
    deskCalls,      \* request -> the handler it is in the middle of
    claims,         \* pairs <<code, uid>> that have been bound
    claimRaced      \* terminals claimed while a manager's handler held them

terminalVars == <<terminals, codes, deskCalls, claims, claimRaced>>

NoCode == 0
NoTerminal == [status |-> "ABSENT", uid |-> NoUid, code |-> NoCode, live |-> FALSE]

DeskRest == [op |-> "none"]
AtDesk(d, c) == deskCalls[d] = DeskRest /\ deskCalls' = [deskCalls EXCEPT ![d] = c]
LeaveDesk(d) == deskCalls' = [deskCalls EXCEPT ![d] = DeskRest]

Issue == codes < MaxCodes /\ codes' = codes + 1

-----------------------------------------------------------------------------
CreateTerminal(t) ==
    /\ terminals[t].status = "ABSENT"
    /\ Issue
    /\ terminals' = [terminals EXCEPT ![t] =
                       [status |-> "PENDING", uid |-> NoUid, code |-> codes + 1, live |-> TRUE]]
    /\ UNCHANGED <<deskCalls, claims, claimRaced>>

LoadReissue(d, t) ==
    /\ terminals[t].status # "ABSENT"
    /\ Issue
    /\ AtDesk(d, [op |-> "reissue", terminal |-> t, seen |-> terminals[t], code |-> codes + 1])
    /\ UNCHANGED <<terminals, claims, claimRaced>>

\* The new code, and PENDING only for a terminal that was read as revoked.
CommitReissue(d) ==
    LET c == deskCalls[d] IN
    /\ c.op = "reissue"
    /\ terminals' = [terminals EXCEPT ![c.terminal].code = c.code,
                       ![c.terminal].live = TRUE,
                       ![c.terminal].status = IF c.seen.status = "REVOKED" THEN "PENDING" ELSE @]
    /\ LeaveDesk(d)
    /\ UNCHANGED <<codes, claims, claimRaced>>

LoadRevoke(d, t) ==
    /\ terminals[t].status # "ABSENT"
    /\ AtDesk(d, [op |-> "revoke", terminal |-> t, seen |-> terminals[t]])
    /\ UNCHANGED <<terminals, codes, claims, claimRaced>>

\* MUTANT of Revoked: the uid stays on the terminal.
RevokedStillBound(row, seen) ==
    [row EXCEPT !.status = "REVOKED", !.code = NoCode, !.live = FALSE]
\* Columns that differ from the row read; what was already NULL is not written.
Revoked(row, seen) ==
    [row EXCEPT !.status = IF seen.status # "REVOKED" THEN "REVOKED" ELSE @,
                !.uid = IF seen.uid # NoUid THEN NoUid ELSE @,
                !.code = IF seen.code # NoCode THEN NoCode ELSE @,
                !.live = IF seen.code # NoCode THEN FALSE ELSE @]

CommitRevoke(d) ==
    LET c == deskCalls[d] IN
    /\ c.op = "revoke"
    /\ terminals' = [terminals EXCEPT ![c.terminal] = Revoked(@, c.seen)]
    /\ LeaveDesk(d)
    /\ UNCHANGED <<codes, claims, claimRaced>>

-----------------------------------------------------------------------------
\* A device presents a code.  A uid bound elsewhere is refused; one whose code
\* is gone gets its own terminal back, which changes nothing.
LoadClaim(d, u, t) ==
    /\ terminals[t].code # NoCode /\ terminals[t].live
    /\ \A o \in TerminalIds \ {t} : terminals[o].uid # u
    /\ AtDesk(d, [op |-> "claim", terminal |-> t, uid |-> u, code |-> terminals[t].code])
    /\ UNCHANGED <<terminals, codes, claims, claimRaced>>

\* MUTANT of CodeStands: the row is claimed by its id alone.
ClaimById(c) == TRUE
\* The UPDATE finds the row only if the code is still the one presented (its
\* expiry is compared with the time read at the start).
CodeStands(c) == terminals[c.terminal].code = c.code

\* MUTANT of UidIsFree: no unique key on the uid.
UidUnchecked(c) == TRUE
UidIsFree(c) == \A o \in TerminalIds \ {c.terminal} : terminals[o].uid # c.uid

CommitClaim(d) ==
    LET c == deskCalls[d] IN
    /\ c.op = "claim"
    /\ CodeStands(c)
    /\ UidIsFree(c)
    /\ terminals' = [terminals EXCEPT ![c.terminal] =
                       [status |-> "ACTIVE", uid |-> c.uid, code |-> NoCode, live |-> FALSE]]
    /\ claims' = claims \cup {<<c.code, c.uid>>}
    /\ claimRaced' = claimRaced \cup
         {t \in {c.terminal} : \E e \in Desks : deskCalls[e].op \in {"reissue", "revoke"}
                                                /\ deskCalls[e].terminal = t}
    /\ LeaveDesk(d)
    /\ UNCHANGED codes

\* The compare-and-set finds no row, the unique key refuses, or the server dies.
DeskRollback(d) ==
    /\ deskCalls[d] # DeskRest
    /\ LeaveDesk(d)
    /\ UNCHANGED <<terminals, codes, claims, claimRaced>>

CodeExpires(t) ==
    /\ terminals[t].live
    /\ terminals' = [terminals EXCEPT ![t].live = FALSE]
    /\ UNCHANGED <<codes, deskCalls, claims, claimRaced>>

-----------------------------------------------------------------------------
TerminalInit ==
    /\ terminals = [t \in TerminalIds |-> NoTerminal]
    /\ codes = 0
    /\ deskCalls = [d \in Desks |-> DeskRest]
    /\ claims = {}
    /\ claimRaced = {}

TerminalNext ==
    \/ \E t \in TerminalIds : CreateTerminal(t) \/ CodeExpires(t)
    \/ \E d \in Desks, t \in TerminalIds :
          \/ LoadReissue(d, t)
          \/ LoadRevoke(d, t)
          \/ \E u \in Uids : LoadClaim(d, u, t)
    \/ \E d \in Desks :
          \/ CommitReissue(d)
          \/ CommitRevoke(d)
          \/ CommitClaim(d)
          \/ DeskRollback(d)

TerminalSpec == TerminalInit /\ [][TerminalNext]_terminalVars

-----------------------------------------------------------------------------
\* An activation code binds at most one device, whoever races for it and
\* whatever the manager does meanwhile ("only one claimant wins a given code").
CodesBindOneDevice ==
    \A p, q \in claims : p[1] = q[1] => p[2] = q[2]

\* A device is on one terminal at a time, also when it claims two codes at once.
DevicesSitOnOneTerminal ==
    \A t, o \in TerminalIds :
        terminals[t].uid = terminals[o].uid /\ terminals[t].uid # NoUid => t = o

\* "A non-null device_uid only ever sits on an ACTIVE terminal": true as long
\* as no manager's handler held the row while a device claimed it.
OnlyActiveIsBound ==
    \A t \in TerminalIds \ claimRaced :
        terminals[t].uid # NoUid <=> terminals[t].status = "ACTIVE"

\* Pairing is exclusive: a code, a device and a terminal belong together in one
\* way only, whatever claims, reissues and revocations overlap.
PairingIsExclusive ==
    CodesBindOneDevice /\ DevicesSitOnOneTerminal /\ OnlyActiveIsBound
=============================================================================
