------------------------------- MODULE Access ------------------------------
(***************************************************************************)
(* Accounts, branches and sessions of one restaurant: the admin opens      *)
(* branches and appoints managers, managers keep their branch's staff      *)
(* (services/admin_users.py, branch_users.py, kitchen_users.py,            *)
(* locations.py), people sign in, renew and sign out (api/v1/auth.py), and *)
(* sign in to a terminal with a token bound to it (services/pos.py,        *)
(* deps/pos.py).  Every request admits its user again from the current     *)
(* rows (deps/auth.py).  Renewing, signing out and opening a branch read   *)
(* first and commit later, comparing nothing.                              *)
(***************************************************************************)
EXTENDS Naturals, FiniteSets

CONSTANTS
    People,         \* e-mail addresses
    RoleOf,         \* person -> the role they are appointed to
    Homes,          \* branches that may be opened
    BranchLimit,    \* what the plan allows (restaurants.branch_limit)
    TillAt,         \* registered terminal -> its branch
    Tokens,         \* identities of refresh tokens
    Attempts        \* requests in progress

ASSUME AccessAssumption ==
    /\ BranchLimit \in Nat
    /\ RoleOf \in [People -> {"BRANCH_MANAGER", "BRANCH_STAFF", "KITCHEN_MANAGER", "KITCHEN_STAFF"}]
    /\ \A d \in DOMAIN TillAt : TillAt[d] \in Homes

VARIABLES
    accounts,       \* person -> [there, active, position, home]
    branches,       \* branches open
    halted,         \* the restaurant's plan is halted
    kitchenOn,      \* the restaurant has a central kitchen
    refreshTokens,  \* token -> [owner, session, live] or NoToken
    tillTokens,     \* <<person, terminal>> access tokens in circulation
    authCalls,      \* request -> the handler it is in the middle of
    ended,          \* sessions signed out of
    forked,         \* sessions whose token another request changed meanwhile
    tillWork        \* <<terminal, branch>> a till request was recorded at

accessVars == <<accounts, branches, halted, kitchenOn, refreshTokens, tillTokens,
                authCalls, ended, forked, tillWork>>

NOWHERE == "NOWHERE"
NoAccount == [there |-> FALSE]
NoToken == [owner |-> "none", session |-> "none", live |-> FALSE]
AtDoor == [op |-> "none"]
Positions == {"CASHIER", "CHEF"}

There(p) == accounts[p].there
TillsOpen == {d \in DOMAIN TillAt : TillAt[d] \in branches}
Enters(r, c) == authCalls[r] = AtDoor /\ authCalls' = [authCalls EXCEPT ![r] = c]
Finishes(r) == authCalls' = [authCalls EXCEPT ![r] = AtDoor]

-----------------------------------------------------------------------------
\* Roster records: names their manager keeps, not people who sign in.
NO_LOGIN_ROLES == {"KITCHEN_STAFF", "WAREHOUSE_STAFF"}
KITCHEN_ROLES == {"KITCHEN_MANAGER", "KITCHEN_STAFF"}

\* MUTANT of Admitted: the plan is only looked at when signing in.
AdmittedWhileHalted(p) == There(p) /\ accounts[p].active
                          /\ (RoleOf[p] \in KITCHEN_ROLES => kitchenOn)
\* What every authenticated request checks: get_current_user.
Admitted(p) ==
    /\ There(p) /\ accounts[p].active
    /\ ~halted
    /\ RoleOf[p] \in KITCHEN_ROLES => kitchenOn

\* The capability a terminal is for: chefs, who sell nothing, lack it.
MayOrder(p) == \/ RoleOf[p] = "BRANCH_MANAGER"
               \/ RoleOf[p] = "BRANCH_STAFF" /\ accounts[p].position \in Positions \ {"CHEF"}

\* MUTANT of AtItsBranch: where the terminal stands is not compared.
AtAnyBranch(p, d) == d \in TillsOpen
AtItsBranch(p, d) == d \in TillsOpen /\ accounts[p].home = TillAt[d]

Live(t) == refreshTokens[t].live
Unissued(t) == refreshTokens[t] = NoToken

-----------------------------------------------------------------------------
\* The new token stands for a session of its own, named after it.
Login(p, t) ==
    /\ RoleOf[p] \notin NO_LOGIN_ROLES /\ Admitted(p) /\ Unissued(t)
    /\ \A u \in Tokens : refreshTokens[u].session # t
    /\ refreshTokens' = [refreshTokens EXCEPT ![t] = [owner |-> p, session |-> t, live |-> TRUE]]
    /\ UNCHANGED <<accounts, branches, halted, kitchenOn, tillTokens, authCalls, ended, forked, tillWork>>

\* MUTANT of Presentable: a revoked token renews as well.
PresentableRevoked(t) == ~Unissued(t)
Presentable(t) == ~Unissued(t) /\ Live(t)

LoadRefresh(r, t) ==
    /\ Presentable(t) /\ Admitted(refreshTokens[t].owner)
    /\ Enters(r, [op |-> "refresh", token |-> t, read |-> refreshTokens[t]])
    /\ UNCHANGED <<accounts, branches, halted, kitchenOn, refreshTokens, tillTokens, ended, forked, tillWork>>

\* MUTANT of Rotated: the token presented stays good.
RotatedKept(t, n, read) == [refreshTokens EXCEPT ![n] = [read EXCEPT !.live = TRUE]]
\* The presented token is revoked and a new one of the session issued.
Rotated(t, n, read) == [refreshTokens EXCEPT ![t].live = FALSE, ![n] = [read EXCEPT !.live = TRUE]]

\* The account must still exist when the new token's row is inserted.
CommitRefresh(r, n) ==
    LET c == authCalls[r] IN
    /\ c.op = "refresh" /\ Unissued(n) /\ ~Unissued(c.token)
    /\ refreshTokens' = Rotated(c.token, n, c.read)
    /\ forked' = IF refreshTokens[c.token] # c.read THEN forked \cup {c.read.session} ELSE forked
    /\ Finishes(r)
    /\ UNCHANGED <<accounts, branches, halted, kitchenOn, tillTokens, ended, tillWork>>

\* Signing out says "logged out" whatever the token was.
Logout(t) ==
    /\ ~Unissued(t)
    /\ refreshTokens' = [refreshTokens EXCEPT ![t].live = FALSE]
    /\ ended' = IF Live(t) THEN ended \cup {refreshTokens[t].session} ELSE ended
    /\ UNCHANGED <<accounts, branches, halted, kitchenOn, tillTokens, authCalls, forked, tillWork>>

\* A refusal, an error or a lost connection: the session rolls back.
CallRefused(r) ==
    /\ authCalls[r] # AtDoor
    /\ Finishes(r)
    /\ UNCHANGED <<accounts, branches, halted, kitchenOn, refreshTokens, tillTokens, ended, forked, tillWork>>

-----------------------------------------------------------------------------
\* By password or by PIN: the token is bound to the terminal.
PosLogin(p, d) ==
    /\ Admitted(p) /\ MayOrder(p) /\ AtItsBranch(p, d)
    /\ tillTokens' = tillTokens \cup {<<p, d>>}
    /\ UNCHANGED <<accounts, branches, halted, kitchenOn, refreshTokens, authCalls, ended, forked, tillWork>>

\* Any till request: the terminal, the account and the branch are checked
\* again, and the work is recorded at the account's branch.
UseTill(p, d) ==
    /\ <<p, d>> \in tillTokens /\ Admitted(p) /\ d \in TillsOpen
    /\ RoleOf[p] \in {"BRANCH_MANAGER", "BRANCH_STAFF"} /\ accounts[p].home # NOWHERE
    /\ AtItsBranch(p, d)
    /\ tillWork' = tillWork \cup {<<d, accounts[p].home>>}
    /\ UNCHANGED <<accounts, branches, halted, kitchenOn, refreshTokens, tillTokens, authCalls, ended, forked>>

ExpireAccess(p, d) ==
    /\ <<p, d>> \in tillTokens
    /\ tillTokens' = tillTokens \ {<<p, d>>}
    /\ UNCHANGED <<accounts, branches, halted, kitchenOn, refreshTokens, authCalls, ended, forked, tillWork>>

-----------------------------------------------------------------------------
\* A manager of the branch, and nobody else's.
ManagerOf(m, h) == Admitted(m) /\ RoleOf[m] = "BRANCH_MANAGER" /\ accounts[m].home = h
Changed(p, row) == accounts' = [accounts EXCEPT ![p] = row]
Elsewhere == <<branches, halted, kitchenOn, authCalls, forked, tillWork>>

\* The admin appoints managers to a location that exists.
CreateManager(p, h) ==
    /\ ~halted /\ ~There(p) /\ RoleOf[p] \in {"BRANCH_MANAGER", "KITCHEN_MANAGER"}
    /\ h \in IF RoleOf[p] = "BRANCH_MANAGER" THEN branches ELSE {NOWHERE}
    /\ Changed(p, [there |-> TRUE, active |-> TRUE, position |-> "none", home |-> h])
    /\ UNCHANGED <<Elsewhere, refreshTokens, tillTokens, ended>>

\* Managers hire for their own branch, kitchen managers for the roster.
CreateStaff(m, p, pos) ==
    /\ ~There(p)
    /\ \/ RoleOf[p] = "BRANCH_STAFF" /\ RoleOf[m] = "BRANCH_MANAGER" /\ ManagerOf(m, accounts[m].home)
          /\ accounts[m].home # NOWHERE
       \/ RoleOf[p] = "KITCHEN_STAFF" /\ RoleOf[m] = "KITCHEN_MANAGER" /\ Admitted(m)
    /\ Changed(p, [there |-> TRUE, active |-> TRUE, home |-> accounts[m].home,
                   position |-> IF RoleOf[p] = "BRANCH_STAFF" THEN pos ELSE "none"])
    /\ UNCHANGED <<Elsewhere, refreshTokens, tillTokens, ended>>

\* The admin moves a manager to another branch.
MoveManager(p, h) ==
    /\ ~halted /\ There(p) /\ RoleOf[p] = "BRANCH_MANAGER" /\ h \in branches
    /\ Changed(p, [accounts[p] EXCEPT !.home = h])
    /\ UNCHANGED <<Elsewhere, refreshTokens, tillTokens, ended>>

\* Who may be managed: managers by the admin, staff by a manager of their branch.
Manageable(p) ==
    /\ There(p) /\ ~halted
    /\ \/ RoleOf[p] \in {"BRANCH_MANAGER", "KITCHEN_MANAGER"}
       \/ \E m \in People : ManagerOf(m, accounts[p].home)

SetPosition(p, pos) ==
    /\ Manageable(p) /\ RoleOf[p] = "BRANCH_STAFF"
    /\ Changed(p, [accounts[p] EXCEPT !.position = pos])
    /\ UNCHANGED <<Elsewhere, refreshTokens, tillTokens, ended>>

SetActive(p, on) ==
    /\ Manageable(p) /\ RoleOf[p] # "KITCHEN_STAFF"
    /\ Changed(p, [accounts[p] EXCEPT !.active = on])
    /\ UNCHANGED <<Elsewhere, refreshTokens, tillTokens, ended>>

\* Deleting the account deletes its refresh tokens with it.
DeleteUser(p) ==
    /\ Manageable(p)
    /\ Changed(p, NoAccount)
    /\ refreshTokens' = [t \in Tokens |-> IF refreshTokens[t].owner = p THEN NoToken
                                          ELSE refreshTokens[t]]
    /\ tillTokens' = {x \in tillTokens : x[1] # p}
    /\ ended' = ended \ {refreshTokens[t].session : t \in {u \in Tokens : refreshTokens[u].owner = p}}
    /\ UNCHANGED Elsewhere

-----------------------------------------------------------------------------
\* MUTANT of UnderLimit: one branch more than the plan allows.
UnderLimitOrAt(n) == n <= BranchLimit
UnderLimit(n) == n < BranchLimit

LoadCreateBranch(r, h) ==
    /\ ~halted /\ h \notin branches /\ UnderLimit(Cardinality(branches))
    /\ Enters(r, [op |-> "branch", home |-> h, counted |-> Cardinality(branches)])
    /\ UNCHANGED <<accounts, branches, halted, kitchenOn, refreshTokens, tillTokens, ended, forked, tillWork>>

\* Two branches counted at once both open: "plan" is forked.
CommitCreateBranch(r) ==
    LET c == authCalls[r] IN
    /\ c.op = "branch" /\ c.home \notin branches
    /\ branches' = branches \cup {c.home}
    /\ forked' = IF Cardinality(branches) # c.counted THEN forked \cup {"plan"} ELSE forked
    /\ Finishes(r)
    /\ UNCHANGED <<accounts, halted, kitchenOn, refreshTokens, tillTokens, ended, tillWork>>

\* Its terminals go with a branch; its people stay, with no branch.
DeleteBranch(h) ==
    /\ ~halted /\ h \in branches
    /\ branches' = branches \ {h}
    /\ accounts' = [p \in People |-> IF There(p) /\ accounts[p].home = h
                                     THEN [accounts[p] EXCEPT !.home = NOWHERE] ELSE accounts[p]]
    /\ UNCHANGED <<halted, kitchenOn, refreshTokens, tillTokens, authCalls, ended, forked, tillWork>>

Halt(on) ==
    /\ halted' = on
    /\ UNCHANGED <<accounts, branches, kitchenOn, refreshTokens, tillTokens, authCalls, ended, forked, tillWork>>

\* The kitchen is switched off only when nobody works there.
SwitchKitchen(on) ==
    /\ ~on => \A p \in People : RoleOf[p] \in KITCHEN_ROLES => ~There(p)
    /\ kitchenOn' = on
    /\ UNCHANGED <<accounts, branches, halted, refreshTokens, tillTokens, authCalls, ended, forked, tillWork>>

-----------------------------------------------------------------------------
AccessInit ==
    /\ accounts = [p \in People |-> NoAccount]
    /\ branches = {} /\ halted = FALSE /\ kitchenOn = TRUE
    /\ refreshTokens = [t \in Tokens |-> NoToken]
    /\ tillTokens = {}
    /\ authCalls = [r \in Attempts |-> AtDoor]
    /\ ended = {} /\ forked = {} /\ tillWork = {}

AccessNext ==
    \/ \E p \in People, t \in Tokens : Login(p, t)
    \/ \E t \in Tokens : Logout(t)
    \/ \E r \in Attempts :
         \/ \E t \in Tokens : LoadRefresh(r, t) \/ CommitRefresh(r, t)
         \/ \E h \in Homes : LoadCreateBranch(r, h)
         \/ CommitCreateBranch(r)
         \/ CallRefused(r)
    \/ \E p \in People :
         \/ \E d \in DOMAIN TillAt : PosLogin(p, d) \/ UseTill(p, d) \/ ExpireAccess(p, d)
         \/ \E h \in Homes \cup {NOWHERE} : CreateManager(p, h) \/ MoveManager(p, h)
         \/ \E m \in People, pos \in Positions : CreateStaff(m, p, pos)
         \/ \E pos \in Positions : SetPosition(p, pos)
         \/ \E on \in BOOLEAN : SetActive(p, on)
         \/ DeleteUser(p)
    \/ \E h \in Homes : DeleteBranch(h)
    \/ \E on \in BOOLEAN : Halt(on) \/ SwitchKitchen(on)

AccessSpec == AccessInit /\ [][AccessNext]_accessVars

-----------------------------------------------------------------------------
(***************************************************************************)
(* Renewing rotates: of the tokens of one session at most one is good, and *)
(* none once it was signed out of.  Only a renewal that read the token     *)
(* before another request revoked it gets around this.                     *)
(***************************************************************************)
OneGoodTokenPerSession ==
    \A s \in {refreshTokens[t].session : t \in Tokens} \ (forked \cup {"none"}) :
        LET good == {t \in Tokens : refreshTokens[t].session = s /\ Live(t)} IN
        Cardinality(good) <= 1 /\ (s \in ended => good = {})

(***************************************************************************)
(* Once the plan is halted nobody works at a till or starts to renew a     *)
(* session, whatever tokens they hold: only what had been admitted before  *)
(* finishes.                                                               *)
(***************************************************************************)
HaltedStandsStill ==
    [][halted => /\ tillWork' = tillWork /\ tillTokens' \subseteq tillTokens
                 /\ \A r \in Attempts : authCalls'[r].op = "refresh" => authCalls[r].op = "refresh"
      ]_accessVars

(***************************************************************************)
(* Work done at a terminal is recorded at the branch the terminal stands   *)
(* in, although it is the account's branch that is written and managers are *)
(* moved while their tokens live ("a token minted for terminal A at branch *)
(* X is invalid at branch Y").                                             *)
(***************************************************************************)
WorkLandsAtTheTill == \A x \in tillWork : x[2] = TillAt[x[1]]

(***************************************************************************)
(* A restaurant never has more branches than its plan, unless two were     *)
(* counted at once.                                                        *)
(***************************************************************************)
BranchesWithinPlan == "plan" \notin forked => Cardinality(branches) <= BranchLimit

(***************************************************************************)
(* Who may work, where, and for how long: sessions, halts, tills, limits.  *)
(***************************************************************************)
AccessHolds ==
    /\ []OneGoodTokenPerSession
    /\ HaltedStandsStill
    /\ []WorkLandsAtTheTill
    /\ []BranchesWithinPlan
=============================================================================
