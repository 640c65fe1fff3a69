---------------------------- MODULE EventCalendar ---------------------------
(***************************************************************************)
(* The calendar of events of one restaurant and one year                   *)
(* (services/event_calendar.py, services/hijri.py): the year is generated  *)
(* from an almanac, as often as the admin likes and with whatever dates the *)
(* installed library computes; the admin confirms lunar dates, changes     *)
(* events, adds and deletes events of their own, and gives products numbers *)
(* of their own.  Handlers read first and flush at the end, writing only   *)
(* the columns that differ from what they read; no status is compared.  An *)
(* event written over something other than what was read is in mixed.      *)
(***************************************************************************)
EXTENDS Integers, Sequences, FiniteSets, SequencesExt

CONSTANTS
    Almanacs,       \* what windows_for_year may return: sequences of
                    \* [key, source, from, until, mult], keys may repeat
    OwnEvents,      \* identities of the admin's own events
    EventDays,      \* dates an admin may type
    Factors,        \* multipliers an admin may type
    EventDishes,    \* products
    Editors         \* requests in progress

\* What comes twice in a year has its kind and its multiplier both times.
ASSUME CalendarAssumption ==
    /\ EventDays \subseteq Int /\ Factors \subseteq Nat
    /\ \A a \in Almanacs : a \in Seq(Range(a)) /\ \A i, j \in 1..Len(a) :
          /\ a[i].source \in {"LUNAR", "FIXED"} /\ a[i].from <= a[i].until
          /\ a[i].key \notin OwnEvents
          /\ a[i].key = a[j].key => a[i].source = a[j].source /\ a[i].mult = a[j].mult

VARIABLES
    calendar,       \* key or own event -> its row, or Unwritten
    numbers,        \* event -> product -> multiplier and whether only proposed
    calendarCalls,  \* request -> the handler it is in the middle of
    given,          \* event -> what a human or the almanac last gave it
    mixed           \* events written over something other than what was read

calendarVars == <<calendar, numbers, calendarCalls, given, mixed>>

Ids == (UNION {{a[i].key : i \in 1..Len(a)} : a \in Almanacs}) \cup OwnEvents

Unwritten == [there |-> FALSE]
NoNumber == [mult |-> -1, proposed |-> FALSE]
AtDesk == [op |-> "none"]
There(e) == calendar[e].there
Dates(row) == <<row.from, row.until>>
CallOpens(r, c) == calendarCalls[r] = AtDesk /\ calendarCalls' = [calendarCalls EXCEPT ![r] = c]
CallCloses(r) == calendarCalls' = [calendarCalls EXCEPT ![r] = AtDesk]

-----------------------------------------------------------------------------
Confirmed(row) == row.there /\ row.source = "LUNAR" /\ ~row.estimated

\* MUTANT of Kept: every event takes the computed dates.
KeptNever(row) == FALSE
\* A lunar date a human confirmed is not argued with.
Kept(row) == Confirmed(row)

NewRow(w) == [there |-> TRUE, source |-> w.source, from |-> w.from, until |-> w.until,
              estimated |-> w.source = "LUNAR", mult |-> w.mult]

\* MUTANT of Refreshed: the opening multipliers are written again.
RefreshedWhole(row, w) == NewRow(w)
\* Dates are refreshed; multipliers are seeded on creation only.
Refreshed(row, w) == [row EXCEPT !.from = w.from, !.until = w.until]

\* A key met twice finds the row just written.
Entered(rows, w) ==
    CASE ~rows[w.key].there -> [rows EXCEPT ![w.key] = NewRow(w)]
      [] Kept(rows[w.key]) -> rows
      [] OTHER -> [rows EXCEPT ![w.key] = Refreshed(@, w)]

\* One window after the other.
Generated(read, almanac) == FoldLeft(Entered, read, almanac)

LoadGenerate(r, almanac) ==
    /\ CallOpens(r, [op |-> "generate", read |-> calendar, almanac |-> almanac])
    /\ UNCHANGED <<calendar, numbers, given, mixed>>

\* What the session writes of a row: the fields that differ from those read.
Written(now, read, want) ==
    IF ~read.there THEN want
    ELSE [now EXCEPT !.from = IF want.from # read.from THEN want.from ELSE @,
                     !.until = IF want.until # read.until THEN want.until ELSE @,
                     !.estimated = IF want.estimated # read.estimated THEN want.estimated ELSE @,
                     !.mult = IF want.mult # read.mult THEN want.mult ELSE @]

\* Two requests creating the same (key, year): the unique constraint lets the
\* first in, and the second loses its whole year.
CommitGenerate(r) ==
    LET c == calendarCalls[r]
        want == Generated(c.read, c.almanac)
        touched == {c.almanac[i].key : i \in 1..Len(c.almanac)}
        asked == {e \in touched : ~Confirmed(c.read[e])}
        last(e) == c.almanac[SelectLastInSeq(c.almanac, LAMBDA w : w.key = e)]
    IN
    /\ c.op = "generate"
    /\ \A e \in touched : ~c.read[e].there => ~There(e)
    /\ calendar' = [e \in Ids |-> IF e \in touched THEN Written(calendar[e], c.read[e], want[e])
                                ELSE calendar[e]]
    /\ given' = [e \in Ids |->
                   IF e \notin asked THEN given[e]
                   ELSE [dates |-> Dates(last(e)),
                         mult |-> IF c.read[e].there THEN given[e].mult ELSE last(e).mult]]
    /\ mixed' = mixed \cup {e \in asked : calendar[e] # c.read[e]}
    /\ CallCloses(r)
    /\ UNCHANGED numbers

-----------------------------------------------------------------------------
\* An event cannot end before it starts.
InOrder(from, until) == from <= until

CreateManual(e, from, until, mult) ==
    /\ ~There(e) /\ InOrder(from, until)
    /\ calendar' = [calendar EXCEPT ![e] =
                    [there |-> TRUE, source |-> "MANUAL", from |-> from, until |-> until,
                     estimated |-> FALSE, mult |-> mult]]
    /\ given' = [given EXCEPT ![e] = [dates |-> <<from, until>>, mult |-> mult]]
    /\ UNCHANGED <<numbers, calendarCalls, mixed>>

\* A body with starts_on, with ends_on, or with neither and confirm, with or
\* without multipliers: Same stands for a field left out.
Same == -1
Edited(row, from, until, mult, confirm) ==
    LET dated == from # Same \/ until # Same IN
    [row EXCEPT !.from = IF from # Same THEN from ELSE @,
                !.until = IF until # Same THEN until ELSE @,
                !.estimated = @ /\ ~(confirm \/ (dated /\ row.source = "LUNAR")),
                !.mult = IF mult # Same THEN mult ELSE @]

LoadUpdate(r, e, from, until, mult, confirm) ==
    LET want == Edited(calendar[e], from, until, mult, confirm) IN
    /\ There(e) /\ InOrder(want.from, want.until)
    /\ CallOpens(r, [op |-> "update", event |-> e, read |-> calendar[e], want |-> want,
                 remult |-> mult # Same, dated |-> from # Same \/ until # Same])
    /\ UNCHANGED <<calendar, numbers, given, mixed>>

\* The multiplier rows read are deleted and new ones inserted: over rows that
\* another request replaced, that insert collides and the request dies.
CommitUpdate(r) ==
    LET c == calendarCalls[r]
        e == c.event
        row == Written(calendar[e], c.read, c.want)
    IN
    /\ c.op = "update" /\ There(e)
    /\ c.remult => calendar[e].mult = c.read.mult
    /\ calendar' = [calendar EXCEPT ![e] = [row EXCEPT !.mult = IF c.remult THEN c.want.mult ELSE @]]
    /\ given' = [given EXCEPT ![e] = [dates |-> IF c.dated THEN Dates(c.want) ELSE @.dates,
                                      mult |-> IF c.remult THEN c.want.mult ELSE @.mult]]
    /\ mixed' = IF calendar[e] # c.read THEN mixed \cup {e} ELSE mixed
    /\ CallCloses(r)
    /\ UNCHANGED numbers

\* Only the admin's own events: a generated one would come back.
DeleteEvent(e) ==
    /\ There(e) /\ calendar[e].source = "MANUAL"
    /\ calendar' = [calendar EXCEPT ![e] = Unwritten]
    /\ numbers' = [numbers EXCEPT ![e] = [p \in EventDishes |-> NoNumber]]
    /\ UNCHANGED <<calendarCalls, given, mixed>>

-----------------------------------------------------------------------------
Numbered(e) == {p \in EventDishes : numbers[e][p] # NoNumber}

LoadNumbers(r, e, entries, proposed, replace) ==
    /\ There(e)
    /\ CallOpens(r, [op |-> "numbers", event |-> e, read |-> numbers[e], replace |-> replace,
                 want |-> [p \in DOMAIN entries |->
                             [mult |-> entries[p], proposed |-> proposed]]])
    /\ UNCHANGED <<calendar, numbers, given, mixed>>

\* MUTANT of Drops: a merge clears the products it does not name as well.
DropsOthers(c) == EventDishes \ DOMAIN c.want
Drops(c) == IF c.replace THEN {p \in EventDishes \ DOMAIN c.want : c.read[p] # NoNumber}
            ELSE {}

\* A product given a number meanwhile collides; one dropped meanwhile is gone
\* from under the update; a number equal to the one read is not written.
CommitNumbers(r) ==
    LET c == calendarCalls[r]
        e == c.event
        changed == {p \in DOMAIN c.want : c.want[p] # c.read[p]}
    IN
    /\ c.op = "numbers" /\ There(e)
    /\ \A p \in changed : (c.read[p] = NoNumber) <=> (numbers[e][p] = NoNumber)
    /\ numbers' = [numbers EXCEPT ![e] =
                     [p \in EventDishes |-> IF p \in changed THEN c.want[p]
                                            ELSE IF p \in Drops(c) THEN NoNumber
                                            ELSE numbers[e][p]]]
    /\ mixed' = IF numbers[e] # c.read THEN mixed \cup {e} ELSE mixed
    /\ CallCloses(r)
    /\ UNCHANGED <<calendar, given>>

DropNumber(e, p) ==
    /\ There(e) /\ numbers[e][p] # NoNumber
    /\ numbers' = [numbers EXCEPT ![e][p] = NoNumber]
    /\ UNCHANGED <<calendar, calendarCalls, given, mixed>>

\* A refusal, an error or a lost connection: the session rolls back.
AbandonEdit(r) ==
    /\ calendarCalls[r] # AtDesk
    /\ CallCloses(r)
    /\ UNCHANGED <<calendar, numbers, given, mixed>>

CalendarInit ==
    /\ calendar = [e \in Ids |-> Unwritten]
    /\ numbers = [e \in Ids |-> [p \in EventDishes |-> NoNumber]]
    /\ calendarCalls = [r \in Editors |-> AtDesk]
    /\ given = [e \in Ids |-> [dates |-> <<0, 0>>, mult |-> 0]]
    /\ mixed = {}

CalendarNext ==
    \/ \E e \in OwnEvents, from, until \in EventDays, m \in Factors : CreateManual(e, from, until, m)
    \/ \E e \in Ids : DeleteEvent(e) \/ \E p \in EventDishes : DropNumber(e, p)
    \/ \E r \in Editors :
         \/ \E almanac \in Almanacs : LoadGenerate(r, almanac)
         \/ \E e \in Ids, from, until \in EventDays \cup {Same}, m \in Factors \cup {Same},
            confirm \in BOOLEAN : LoadUpdate(r, e, from, until, m, confirm)
         \/ \E e \in Ids, dishes \in SUBSET EventDishes, m \in Factors, replace \in BOOLEAN :
              LoadNumbers(r, e, [p \in dishes |-> m], ~replace, replace)
         \/ CommitGenerate(r)
         \/ CommitUpdate(r)
         \/ CommitNumbers(r)
         \/ AbandonEdit(r)

CalendarSpec == CalendarInit /\ [][CalendarNext]_calendarVars

-----------------------------------------------------------------------------
(***************************************************************************)
(* The dates of an event are the last ones anybody stated: the admin's once *)
(* they confirmed a lunar event, however often the year is generated       *)
(* afterwards, and the newest computation for one still estimated ("a      *)
(* recomputation must never silently move Ramadan back to the calculated   *)
(* guess").  Only a request that read the event before may break this.     *)
(***************************************************************************)
DatesAreTheLastStated ==
    \A e \in Ids \ mixed : There(e) => Dates(calendar[e]) = given[e].dates

(***************************************************************************)
(* A multiplier the team tuned survives every regeneration of the year.    *)
(***************************************************************************)
TuningSurvives ==
    \A e \in Ids : There(e) => calendar[e].mult = given[e].mult

(***************************************************************************)
(* Setting numbers by merging never takes away another product's number: a *)
(* number disappears only by dropping it, by a replacement or with its     *)
(* event.                                                                  *)
(***************************************************************************)
MergesTakeNothing ==
    [][\A e \in Ids, r \in Editors :
         (calendarCalls[r].op = "numbers" /\ calendarCalls[r].event = e
            /\ ~calendarCalls[r].replace /\ calendarCalls'[r] = AtDesk)
         => \A p \in EventDishes : numbers[e][p] # NoNumber => numbers'[e][p] # NoNumber
      ]_calendarVars

(***************************************************************************)
(* What people entered into the calendar is kept.                          *)
(***************************************************************************)
CalendarIsKept == []DatesAreTheLastStated /\ []TuningSurvives /\ MergesTakeNothing
=============================================================================
