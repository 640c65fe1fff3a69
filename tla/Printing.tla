------------------------------- MODULE Printing -----------------------------
(***************************************************************************)
(* Where the lines of an order are printed, and how often (services/       *)
(* printing.py, services/print_jobs.py).  A branch routes a line by an item *)
(* override, by its category, or to the expo station.  A terminal keeps a  *)
(* copy of the routing: offline it prints by that copy and reports what it *)
(* printed when the order is replayed, and the server then routes by what  *)
(* the manager has made of the configuration since.                        *)
(***************************************************************************)
EXTENDS Integers, FiniteSets

CONSTANTS
    Stations,       \* station rows there can be
    Items,          \* the order's menu items
    CategoryOf,     \* item -> its category, or "" for none
    MaxEdits,       \* bound: configuration changes and reprints
    MaxAttempts     \* bound: failed attempts counted per ticket

ASSUME PrintingAssumption == MaxEdits \in Nat /\ MaxAttempts \in Nat

VARIABLES
    routing,        \* the branch's configuration on the server
    copy,           \* the terminal's copy of it
    edits,          \* configuration changes and reprints so far
    fired,          \* "no", "online", "offline", "replayed" or "void"
    onPaper,        \* item -> slips that came out with it
    offline,        \* station -> what the terminal reports of its offline ticket
    slips,          \* station -> kitchen job of the order
    reprints,       \* stations whose ticket a manager queued again
    rerouted        \* a line's station was changed after the order was fired

printVars == <<routing, copy, edits, fired, onPaper, offline, slips, reprints, rerouted>>

Nowhere == "none"
Categories == {CategoryOf[i] : i \in Items} \ {""}
NoTicket == [state |-> "NONE", attempts |-> 0]

\* Rows that reference a station go with it (ON DELETE CASCADE).
Routings == [up : SUBSET Stations, expo : Stations \cup {Nowhere},
             item : [Items -> Stations \cup {Nowhere}],
             category : [Categories -> Stations \cup {Nowhere}]]
Consistent(r) ==
    /\ r.expo \in r.up \cup {Nowhere}
    /\ \A i \in Items : r.item[i] \in r.up \cup {Nowhere}
    /\ \A c \in Categories : r.category[c] \in r.up \cup {Nowhere}

\* MUTANT of ResolveStation: no fallback to the expo station.
ResolveMapped(r, i) ==
    IF r.item[i] # Nowhere THEN r.item[i]
    ELSE IF CategoryOf[i] # "" THEN r.category[CategoryOf[i]] ELSE Nowhere
\* Item override, then category, then the expo station.
ResolveStation(r, i) ==
    IF r.item[i] # Nowhere THEN r.item[i]
    ELSE IF CategoryOf[i] # "" /\ r.category[CategoryOf[i]] # Nowhere
         THEN r.category[CategoryOf[i]]
    ELSE r.expo

LinesAt(r, s) == {i \in Items : ResolveStation(r, i) = s}
StationsOf(r) == {s \in Stations : LinesAt(r, s) # {}}

-----------------------------------------------------------------------------
\* MUTANT of Without: rows that point at the station survive it.
WithoutRowOnly(r, s) == [r EXCEPT !.up = @ \ {s}, !.expo = IF @ = s THEN Nowhere ELSE @]
Without(r, s) ==
    [up |-> r.up \ {s},
     expo |-> IF r.expo = s THEN Nowhere ELSE r.expo,
     item |-> [i \in Items |-> IF r.item[i] = s THEN Nowhere ELSE r.item[i]],
     category |-> [c \in Categories |-> IF r.category[c] = s THEN Nowhere ELSE r.category[c]]]

\* What one manager request can make of a configuration.
CreateStation(r) ==
    {[r EXCEPT !.up = @ \cup {s}] : s \in Stations \ r.up}
      \cup {[r EXCEPT !.up = @ \cup {s}, !.expo = s] :
                s \in IF r.expo = Nowhere THEN Stations \ r.up ELSE {}}
UpdateStation(r) ==
    {[r EXCEPT !.expo = s] : s \in IF r.expo = Nowhere THEN r.up ELSE {Nowhere}}
DeleteStation(r) == {Without(r, s) : s \in r.up}
UpsertMap(r) ==
    {[r EXCEPT !.category[c] = s] : c \in Categories, s \in r.up \cup {Nowhere}}
UpsertOverride(r) ==
    {[r EXCEPT !.item[i] = s] : i \in Items, s \in r.up \cup {Nowhere}}

Reroutes(r, q) == \E i \in Items : ResolveStation(r, i) # ResolveStation(q, i)

Configure ==
    /\ edits < MaxEdits
    /\ routing' \in CreateStation(routing) \cup UpdateStation(routing)
                    \cup DeleteStation(routing) \cup UpsertMap(routing)
                    \cup UpsertOverride(routing)
    /\ routing' # routing
    /\ \A s \in routing'.up \ routing.up :      \* a station row that is new
          s \notin copy.up /\ slips[s] = NoTicket /\ offline[s] = "NONE"
    /\ edits' = edits + 1
    /\ rerouted' = (rerouted \/ (fired # "no" /\ Reroutes(routing, routing')))
    /\ UNCHANGED <<copy, fired, onPaper, offline, slips, reprints>>

\* The terminal asks with the version it holds and takes what is new.
FetchConfig ==
    /\ copy # routing
    /\ copy' = routing
    /\ UNCHANGED <<routing, edits, fired, onPaper, offline, slips, reprints, rerouted>>

-----------------------------------------------------------------------------
\* MUTANT of Emitted: a ticket that is there is queued again.
EmittedAgain(r, jobs) ==
    [s \in Stations |-> IF s \in StationsOf(r) THEN [state |-> "QUEUED", attempts |-> 0]
                        ELSE jobs[s]]
\* One queued ticket per resolved station, and none that is already there.
Emitted(r, jobs) ==
    [s \in Stations |->
        IF s \in StationsOf(r) /\ jobs[s] = NoTicket
        THEN [state |-> "QUEUED", attempts |-> 0] ELSE jobs[s]]

FireOnline ==
    /\ fired = "no"
    /\ fired' = "online"
    /\ slips' = Emitted(routing, slips)
    /\ UNCHANGED <<routing, copy, edits, onPaper, offline, reprints, rerouted>>

\* The terminal prints by its copy; each ticket comes out or fails.
FireOffline ==
    /\ fired = "no"
    /\ fired' = "offline"
    /\ \E out \in SUBSET StationsOf(copy) :
          /\ offline' = [s \in Stations |->
                            IF s \in out THEN "PRINTED"
                            ELSE IF s \in StationsOf(copy) THEN "FAILED" ELSE "NONE"]
          /\ onPaper' = [i \in Items |-> IF ResolveStation(copy, i) \in out THEN 1 ELSE 0]
    /\ rerouted' = Reroutes(copy, routing)
    /\ UNCHANGED <<routing, copy, edits, slips, reprints>>

\* MUTANT of SlipReported: the offline results are not applied.
NotReported(jobs) == jobs
\* apply_results: what was printed or failed offline is marked so.
SlipReported(jobs) ==
    [s \in Stations |-> IF offline[s] # "NONE" /\ jobs[s] # NoTicket
                        THEN [jobs[s] EXCEPT !.state = offline[s]] ELSE jobs[s]]

Replay ==
    /\ fired = "offline"
    /\ fired' = "replayed"
    /\ slips' = SlipReported(Emitted(routing, slips))
    /\ UNCHANGED <<routing, copy, edits, onPaper, offline, reprints, rerouted>>

\* The terminal prints a queued ticket and acknowledges it by id.
PrintQueued(s) ==
    /\ slips[s].state = "QUEUED"
    /\ slips' = [slips EXCEPT ![s].state = "PRINTED"]
    /\ onPaper' = [i \in Items |-> IF ResolveStation(routing, i) = s /\ onPaper[i] < 3
                                   THEN onPaper[i] + 1 ELSE onPaper[i]]
    /\ UNCHANGED <<routing, copy, edits, fired, offline, reprints, rerouted>>

\* A failed attempt is counted.  PRINTED is terminal, VOID is not: a late report
\* makes a void ticket a failed one, which can be queued again.
ReportFailed(s) ==
    /\ slips[s].state \in {"QUEUED", "FAILED", "VOID"}
    /\ slips[s].attempts < MaxAttempts
    /\ slips' = [slips EXCEPT ![s].state = "FAILED", ![s].attempts = @ + 1]
    /\ UNCHANGED <<routing, copy, edits, fired, onPaper, offline, reprints, rerouted>>

\* A manager queues a printed or failed ticket again.
Requeue(s) ==
    /\ edits < MaxEdits
    /\ slips[s].state \in {"PRINTED", "FAILED"}
    /\ slips' = [slips EXCEPT ![s] = [state |-> "QUEUED", attempts |-> 0]]
    /\ reprints' = reprints \cup {s}
    /\ edits' = edits + 1
    /\ UNCHANGED <<routing, copy, fired, onPaper, offline, rerouted>>

VoidTickets ==
    /\ fired \in {"online", "replayed"}
    /\ fired' = "void"
    /\ slips' = [s \in Stations |-> IF slips[s] = NoTicket THEN NoTicket
                                      ELSE [slips[s] EXCEPT !.state = "VOID"]]
    /\ UNCHANGED <<routing, copy, edits, onPaper, offline, reprints, rerouted>>

-----------------------------------------------------------------------------
PrintInit ==
    /\ routing \in {r \in Routings : Consistent(r)}
    /\ copy = routing
    /\ edits = 0
    /\ fired = "no"
    /\ onPaper = [i \in Items |-> 0]
    /\ offline = [s \in Stations |-> "NONE"]
    /\ slips = [s \in Stations |-> NoTicket]
    /\ reprints = {}
    /\ rerouted = FALSE

PrintNext ==
    \/ Configure \/ FetchConfig
    \/ FireOnline \/ FireOffline \/ Replay \/ VoidTickets
    \/ \E s \in Stations : PrintQueued(s) \/ ReportFailed(s) \/ Requeue(s)

PrintSpec == PrintInit /\ [][PrintNext]_printVars

-----------------------------------------------------------------------------
\* A line comes out once, online or offline, unless a manager asked for it
\* again or moved it to another station after the terminal decided where to
\* print it: slips are kept per station, not per line.
LinesPrintedOnce ==
    /\ fired # "no" /\ ~rerouted /\ reprints = {}
    => \A i \in Items : onPaper[i] <= 1

\* No configuration points at a station that is gone, and a branch with an
\* expo station routes every line ("never silently drops").
RoutesEverything ==
    /\ Consistent(routing)
    /\ routing.expo # Nowhere => \A i \in Items : ResolveStation(routing, i) \in routing.up

\* The kitchen hears of every line, and once.
KitchenHearsOnce == LinesPrintedOnce /\ RoutesEverything
=============================================================================
