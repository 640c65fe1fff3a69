--------------------------------- MODULE Menu -------------------------------
(***************************************************************************)
(* The menu (services/menu.py), the availability of what is on it          *)
(* (services/availability.py) and the proposals of new dishes              *)
(* (services/menu_proposals.py).  A menu version is drafted, filled,       *)
(* published and archived; a dish is proposed by a branch and approved,    *)
(* which creates its product, rejected or withdrawn.  Every handler reads  *)
(* its rows, then commits what it decided on them.                         *)
(***************************************************************************)
EXTENDS Naturals, Sequences, FiniteSets

CONSTANTS
    Dishes,         \* what can be put on a menu
    PartsOf,        \* dish -> its components, none unless it is a deal
    Admins,         \* requests of the office in progress
    Ideas,          \* proposals of new dishes
    MaxMenus        \* bound: versions drafted

ASSUME DealsAssumption ==
    \A d \in Dishes : PartsOf[d] \subseteq {e \in Dishes : PartsOf[e] = {}}

VARIABLES
    menus,          \* version -> [status, dishes]
    pulled,         \* <<version, dish>> taken off sale at the branch
    shelf,          \* dish -> it is in stock, or made to order
    ideas,          \* proposal -> [status, product, live]
    productsMade,   \* proposal -> products created for it
    officeCalls,    \* request -> the handler it is in the middle of
    frozen,         \* version -> its dishes when it was published
    overlapping,    \* a publication committed beside another write of menus
    contested       \* proposals two decisions of which overlapped, or died

menuVars == <<menus, pulled, shelf, ideas, productsMade, officeCalls, frozen, overlapping, contested>>

MenuResting == [op |-> "none"]
PublishedOnes == {v \in DOMAIN menus : menus[v].status = "PUBLISHED"}

Turn(a, call) == officeCalls' = [officeCalls EXCEPT ![a] = call]

-----------------------------------------------------------------------------
CreateDraft ==
    /\ Len(menus) < MaxMenus
    /\ menus' = Append(menus, [status |-> "DRAFT", dishes |-> {}])
    /\ frozen' = Append(frozen, {})
    /\ UNCHANGED <<pulled, shelf, ideas, productsMade, officeCalls, overlapping, contested>>

\* MUTANT of EditableMenu: a published version can still be edited.
AnyVersion(v) == TRUE
EditableMenu(v) == menus[v].status = "DRAFT"
\* MUTANT of PartsListed: components are taken on trust.
PartsUnchecked(v, d) == TRUE
\* A deal's components are items of the same version.
PartsListed(v, d) == PartsOf[d] \subseteq menus[v].dishes

LoadAdd(a, v, d) ==
    /\ officeCalls[a] = MenuResting
    /\ EditableMenu(v) /\ PartsListed(v, d)
    /\ Turn(a, [op |-> "add", version |-> v, dish |-> d])
    /\ UNCHANGED <<menus, pulled, shelf, ideas, productsMade, frozen, overlapping, contested>>

CommitAdd(a) ==
    LET c == officeCalls[a] IN
    /\ c.op = "add"
    /\ menus' = [menus EXCEPT ![c.version].dishes = @ \cup {c.dish}]
    /\ overlapping' = (overlapping \/ \E b \in Admins : officeCalls[b].op = "publish")
    /\ Turn(a, MenuResting)
    /\ UNCHANGED <<pulled, shelf, ideas, productsMade, frozen, contested>>

\* MUTANT of Previous: only the version before is looked at.
VersionBefore(v) == PublishedOnes \cap {v - 1}
\* Whatever is live when the publication reads the versions.
Previous(v) == PublishedOnes

LoadPublish(a, v) ==
    /\ officeCalls[a] = MenuResting
    /\ EditableMenu(v) /\ menus[v].dishes # {}
    /\ Turn(a, [op |-> "publish", version |-> v, previous |-> Previous(v)])
    /\ UNCHANGED <<menus, pulled, shelf, ideas, productsMade, frozen, overlapping, contested>>

CommitPublish(a) ==
    LET c == officeCalls[a] IN
    /\ c.op = "publish"
    /\ menus' = [v \in DOMAIN menus |->
         [menus[v] EXCEPT !.status = IF v = c.version THEN "PUBLISHED"
                                     ELSE IF v \in c.previous THEN "ARCHIVED" ELSE @]]
    /\ frozen' = [frozen EXCEPT ![c.version] = menus[c.version].dishes]
    /\ overlapping' = (overlapping \/ \E b \in Admins \ {a} : officeCalls[b].op \in {"publish", "add"})
    /\ Turn(a, MenuResting)
    /\ UNCHANGED <<pulled, shelf, ideas, productsMade, contested>>

-----------------------------------------------------------------------------
\* A dish is on sale unless it was pulled or ran out, a deal unless one of its
\* components is not; what is made to order without a kitchen never runs out.
OnSale(v, d) ==
    /\ <<v, d>> \notin pulled
    /\ \A e \in (IF PartsOf[d] = {} THEN {d} ELSE PartsOf[d]) : <<v, e>> \notin pulled /\ e \in shelf

SetManual(v, d) ==
    /\ d \in menus[v].dishes
    /\ pulled' = IF <<v, d>> \in pulled THEN pulled \ {<<v, d>>} ELSE pulled \cup {<<v, d>>}
    /\ UNCHANGED <<menus, shelf, ideas, productsMade, officeCalls, frozen, overlapping, contested>>

\* Stock comes and goes elsewhere.
StockMoves(d) ==
    /\ PartsOf[d] = {}
    /\ shelf' = IF d \in shelf THEN shelf \ {d} ELSE shelf \cup {d}
    /\ UNCHANGED <<menus, pulled, ideas, productsMade, officeCalls, frozen, overlapping, contested>>

-----------------------------------------------------------------------------
Propose(i) ==
    /\ ideas[i].status = "NONE"
    /\ ideas' = [ideas EXCEPT ![i].status = "PENDING"]
    /\ UNCHANGED <<menus, pulled, shelf, productsMade, officeCalls, frozen, overlapping, contested>>

\* MUTANT of Pending: any proposal can be decided.
Present(i) == ideas[i].status # "NONE"
Pending(i) == ideas[i].status = "PENDING"
\* Another decision on the proposal is under way.
Contends(a, i) == \E b \in Admins \ {a} :
    officeCalls[b].op \in {"approve", "reject", "withdraw", "stamp"} /\ officeCalls[b].idea = i

LoadDecision(a, i, op) ==
    /\ officeCalls[a] = MenuResting
    /\ Pending(i)
    /\ Turn(a, [op |-> op, idea |-> i])
    /\ contested' = IF Contends(a, i) THEN contested \cup {i} ELSE contested
    /\ UNCHANGED <<menus, pulled, shelf, ideas, productsMade, frozen, overlapping>>

\* Approving creates the product in a transaction of its own ...
MakeProduct(a) ==
    LET c == officeCalls[a] IN
    /\ c.op = "approve"
    /\ productsMade' = [productsMade EXCEPT ![c.idea] = @ + 1]
    /\ Turn(a, [op |-> "stamp", idea |-> c.idea])
    /\ UNCHANGED <<menus, pulled, shelf, ideas, frozen, overlapping, contested>>

\* MUTANT of Stamped: the product is not linked.
StampedBare(i) == [ideas[i] EXCEPT !.status = "APPROVED"]
Stamped(i) == [ideas[i] EXCEPT !.status = "APPROVED", !.product = TRUE]
\* ... and stamps the proposal in the next, if it is still there.
StampApproved(a) ==
    LET c == officeCalls[a] IN
    /\ c.op = "stamp"
    /\ ideas' = IF ideas[c.idea].status = "NONE" THEN ideas ELSE [ideas EXCEPT ![c.idea] = Stamped(c.idea)]
    /\ Turn(a, MenuResting)
    /\ UNCHANGED <<menus, pulled, shelf, productsMade, frozen, overlapping, contested>>

CommitReject(a) ==
    LET c == officeCalls[a] IN
    /\ c.op = "reject"
    /\ ideas' = IF ideas[c.idea].status = "NONE" THEN ideas
                ELSE [ideas EXCEPT ![c.idea].status = "REJECTED"]
    /\ Turn(a, MenuResting)
    /\ UNCHANGED <<menus, pulled, shelf, productsMade, frozen, overlapping, contested>>

CommitWithdraw(a) ==
    LET c == officeCalls[a] IN
    /\ c.op = "withdraw"
    /\ ideas' = [ideas EXCEPT ![c.idea] = [status |-> "NONE", product |-> FALSE, live |-> FALSE]]
    /\ Turn(a, MenuResting)
    /\ UNCHANGED <<menus, pulled, shelf, productsMade, frozen, overlapping, contested>>

\* The request dies between its two commits, or is abandoned.
CallDies(a) ==
    /\ officeCalls[a] # MenuResting
    /\ contested' = IF officeCalls[a].op = "stamp" THEN contested \cup {officeCalls[a].idea} ELSE contested
    /\ Turn(a, MenuResting)
    /\ UNCHANGED <<menus, pulled, shelf, ideas, productsMade, frozen, overlapping>>

\* Only approved dishes are marked live, once.
MarkPublished(i) ==
    /\ ideas[i].status = "APPROVED" /\ ~ideas[i].live
    /\ ideas' = [ideas EXCEPT ![i].live = TRUE]
    /\ UNCHANGED <<menus, pulled, shelf, productsMade, officeCalls, frozen, overlapping, contested>>

-----------------------------------------------------------------------------
MenuInit ==
    /\ menus = << >> /\ frozen = << >>
    /\ pulled = {}
    /\ shelf = Dishes
    /\ ideas = [i \in Ideas |-> [status |-> "NONE", product |-> FALSE, live |-> FALSE]]
    /\ productsMade = [i \in Ideas |-> 0]
    /\ officeCalls = [a \in Admins |-> MenuResting]
    /\ overlapping = FALSE
    /\ contested = {}

MenuNext ==
    \/ CreateDraft
    \/ \E v \in DOMAIN menus, d \in Dishes :
         \/ SetManual(v, d)
         \/ \E a \in Admins : LoadAdd(a, v, d)
    \/ \E d \in Dishes : StockMoves(d)
    \/ \E i \in Ideas : Propose(i) \/ MarkPublished(i)
    \/ \E a \in Admins :
         \/ \E v \in DOMAIN menus : LoadPublish(a, v)
         \/ \E i \in Ideas, op \in {"approve", "reject", "withdraw"} : LoadDecision(a, i, op)
         \/ CommitAdd(a)
         \/ CommitPublish(a)
         \/ MakeProduct(a)
         \/ StampApproved(a)
         \/ CommitReject(a)
         \/ CommitWithdraw(a)
         \/ CallDies(a)

MenuSpec == MenuInit /\ [][MenuNext]_menuVars

-----------------------------------------------------------------------------
(***************************************************************************)
(* What services/menu.py promises of publication: at most one version is   *)
(* live, and a version that was published has the dishes it had then.  Both *)
(* hold as long as no publication ran beside another write of the menus:   *)
(* nothing in the database keeps two of them apart.                        *)
(***************************************************************************)
PublishingIsFinal ==
    ~overlapping =>
        /\ Cardinality(PublishedOnes) <= 1
        /\ \A v \in DOMAIN menus : menus[v].status # "DRAFT" => menus[v].dishes = frozen[v]

(***************************************************************************)
(* A deal is only ever on sale when each of its components is, on the same *)
(* version: components are named when the deal is added, pulled and sold   *)
(* out one by one later.                                                   *)
(***************************************************************************)
DealsFollowTheirParts ==
    \A v \in DOMAIN menus : \A d \in menus[v].dishes : \A e \in PartsOf[d] :
        /\ e \in menus[v].dishes
        /\ OnSale(v, d) => OnSale(v, e)

(***************************************************************************)
(* A proposal is decided once: what was approved or rejected stays so and  *)
(* one that is approved has the one product made for it, whoever else reads *)
(* it, unless two decisions overlapped or an approval died half way.       *)
(***************************************************************************)
DecidedOnce ==
    \A i \in Ideas \ contested :
        /\ ideas[i].status = "APPROVED" => ideas[i].product /\ productsMade[i] = 1
        /\ ideas[i].live => ideas[i].status = "APPROVED"
        /\ ideas[i].status = "REJECTED" => ~ideas[i].product

(***************************************************************************)
(* What is on the menu was decided once and stays as it was published.     *)
(***************************************************************************)
MenuStands == PublishingIsFinal /\ DealsFollowTheirParts /\ DecidedOnce
=============================================================================
