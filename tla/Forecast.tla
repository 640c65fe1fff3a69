------------------------------- MODULE Forecast -----------------------------
(***************************************************************************)
(* The forecast of one product at one branch on one day: what sells on a   *)
(* normal day (services/normal_demand.py), learned from the days no event  *)
(* covers, times what the events of the day do to it                       *)
(* (services/event_calendar.py), clipped (services/forecast.py).           *)
(* Quantities and factors are decimals: an integer counts Grains of a unit *)
(* (thousandths in the code), and quantize rounds half to even.            *)
(***************************************************************************)
EXTENDS FiniteSetsExt, Sums

CONSTANTS
    Window,         \* days of history (56)
    Week,           \* days in a week (7)
    TrustDays,      \* days after which the assumption is gone (28)
    HalfTrust,      \* weeks at which a weekday is half trusted (4)
    LowVolume,      \* daily units below which a weekday is noise (5)
    Grain,          \* fractions of a unit that are kept (1000)
    SoldChoices,    \* histories: day -> units, NoRow when nothing was rolled up
    RefusedChoices, \* day -> units turned away
    BlockedChoices, \* days of the window some event covers
    Assumptions,    \* the Admin's first guess, in Grains, or NoGuess
    EventChoices    \* the events of the day: {[tags: tag -> factor, own, weight]}

NoRow == -1
NoGuess == -1
NoFactor == -1
WindowDays == 1..Window

ASSUME ForecastAssumption ==
    /\ {Window, Week, TrustDays, HalfTrust, LowVolume, Grain} \subseteq Nat \ {0}
    /\ Grain % 10 = 0
    /\ SoldChoices \subseteq [WindowDays -> Nat \cup {NoRow}]
    /\ RefusedChoices \subseteq [WindowDays -> Nat]
    /\ Assumptions \subseteq Nat \cup {NoGuess}
    /\ \A es \in EventChoices : IsFiniteSet(es) /\ \A e \in es :
         /\ {e.own, e.weight} \subseteq Int
         /\ IsFiniteSet(DOMAIN e.tags) /\ \A x \in DOMAIN e.tags : e.tags[x] \in Int

VARIABLES
    sold,           \* daily_product_sales.units
    refused,        \* daily_product_sales.unmet_units
    blocked,        \* days covered by an event
    assumption,     \* products.assumed_daily_units
    dayEvents,      \* the events of the day asked for
    tags,           \* the product's event tags
    suggestion      \* the line answered, or Unasked

forecastVars == <<sold, refused, blocked, assumption, dayEvents, tags, suggestion>>

Unasked == [units |-> -1]

\* num / den to the nearest integer, a half to the even one.
RoundEven(num, den) ==
    LET q == num \div den  twice == 2 * (num % den)
    IN  IF twice > den \/ (twice = den /\ q % 2 = 1) THEN q + 1 ELSE q
RoundUp(num, den) == (2 * num + den) \div (2 * den)
Clamp(low, high, x) == IF x < low THEN low ELSE IF x > high THEN high ELSE x
Least(x, y) == IF x < y THEN x ELSE y

-----------------------------------------------------------------------------
\* What is learned, as a function of the history h and the refusals r.
TotalOver(h, days) == SumOver([d \in days |-> IF h[d] = NoRow THEN 0 ELSE h[d]], days)

\* MUTANT of NormalDays: event days are learned from.
AllDays(b) == WindowDays
NormalDays(b) == WindowDays \ b

\* The normal days from the product's first row on.
CountedDays(h, b) == LET rows == {d \in WindowDays : h[d] # NoRow}
                 IN  {d \in NormalDays(b) : rows # {} /\ d >= Min(rows)}

\* MUTANT of Blend: the guess shrinks without ever going away.
BlendForEver(total, n, guess) == RoundEven(Grain * total + TrustDays * guess, n + TrustDays)
\* The average gains on the guess day by day, and replaces it.
Blend(total, n, guess) ==
    IF n >= TrustDays THEN RoundEven(Grain * total, n)
    ELSE RoundEven(Grain * total + (TrustDays - n) * guess, TrustDays)

Baseline(h, b, guess) ==
    LET days == CountedDays(h, b)  n == Cardinality(days) IN
    IF n = 0 THEN IF guess = NoGuess THEN 0 ELSE guess
    ELSE IF guess = NoGuess THEN RoundEven(Grain * TotalOver(h, days), n)
    ELSE Blend(TotalOver(h, days), n, guess)

\* MUTANT of SameWeekday: the weekday's occurrences before the product existed
\* count too.
SameWeekdayEver(days, on) == {d \in WindowDays : d % Week = on % Week}
SameWeekday(days, on) == {d \in days : d % Week = on % Week}
\* 1 + trust * (raw - 1), with trust = k/(k + HalfTrust) * min(1, avg/LowVolume)
\* and raw the weekday's average over the average.
WeekdayFactor(h, b, on) ==
    LET days == CountedDays(h, b)
        same == SameWeekday(days, on)
        n == Cardinality(days)  k == Cardinality(same)
        total == TotalOver(h, days)
        den == (k + HalfTrust) * LowVolume * n * total
        lift == Least(LowVolume * n, total) * (TotalOver(h, same) * n - k * total) IN
    IF total = 0 \/ k = 0 THEN Grain
    ELSE Clamp(Grain \div 2, 2 * Grain, RoundEven(Grain * (den + lift), den))

\* The baseline if what was turned away had sold, at most twice as much.
WithUnmet(base, h, b, r) ==
    LET days == CountedDays(h, b)  n == Cardinality(days)
        unmet == SumOver(r, days) IN
    IF n = 0 \/ unmet = 0 THEN base
    ELSE IF base = 0 THEN RoundEven(Grain * unmet, n)
    ELSE Least(RoundEven(Grain * unmet + base * n, n), 2 * base)

\* MUTANT of Effective: the adjustment is live.
EffectiveWhenLive(base, adjusted) == adjusted
\* The adjusted baseline is computed beside the live one only.
Effective(base, adjusted) == base

-----------------------------------------------------------------------------
\* What the calendar says: per event the product's own factor, else the largest
\* of its tags' (GENERAL is every product's); factors compound over events, and
\* the event that keeps least of the weekday pattern decides.
Matching(e, t) == {e.tags[x] : x \in DOMAIN e.tags \cap (t \cup {"GENERAL"})}
EventFactor(e, t) == IF e.own # NoFactor THEN e.own
                     ELSE IF Matching(e, t) = {} THEN Grain ELSE Max(Matching(e, t))
Multiplier(es, t) == ProductOver([e \in es |-> EventFactor(e, t)], es)
Weight(es) == Min({Grain} \cup {e.weight : e \in es})

Applied(es, factor) == RoundEven(Grain * Grain + Weight(es) * (factor - Grain), Grain)

\* Of the weekday factor and of each event's: what one is, in their product.
OneOf(es) == Grain * ProductOver([e \in es |-> Grain], es)

\* MUTANT of MergeFactors: clipped before the events are applied.
MergeUnclippedFactors(base, factor, es, t) ==
    [num |-> base * Applied(es, factor) * Multiplier(es, t), den |-> OneOf(es)]
\* baseline x weekday x events, kept between 0.3 and 5 baselines, as a fraction.
MergeFactors(base, factor, es, t) ==
    LET den == OneOf(es) IN
    [num |-> Clamp(3 * base * (den \div 10), 5 * base * den, base * Applied(es, factor) * Multiplier(es, t)),
     den |-> den]

Line(h, r, b, guess, es, t, on) ==
    LET base == Baseline(h, b, guess)
        factor == WeekdayFactor(h, b, on)
        adjusted == WithUnmet(base, h, b, r)
        live == MergeFactors(Effective(base, adjusted), factor, es, t)
        shadow == MergeFactors(adjusted, factor, es, t) IN
    [baseline |-> Effective(base, adjusted), weekday |-> factor,
     units |-> RoundUp(live.num, live.den * Grain),
     unitsIfCounted |-> RoundUp(shadow.num, shadow.den * Grain)]

-----------------------------------------------------------------------------
ForecastInit ==
    /\ sold \in SoldChoices
    /\ refused \in RefusedChoices
    /\ blocked \in BlockedChoices
    /\ assumption \in Assumptions
    /\ dayEvents \in EventChoices
    /\ tags \in SUBSET UNION {DOMAIN e.tags : e \in dayEvents}
    /\ suggestion = Unasked

AskedDay == Window + 1

Predict ==
    /\ suggestion = Unasked
    /\ suggestion' = Line(sold, refused, blocked, assumption, dayEvents, tags, AskedDay)
    /\ UNCHANGED <<sold, refused, blocked, assumption, dayEvents, tags>>

ForecastNext == Predict

ForecastSpec == ForecastInit /\ [][ForecastNext]_forecastVars

-----------------------------------------------------------------------------
Asked == suggestion # Unasked
Differently(h, r, guess) == Line(h, r, blocked, guess, dayEvents, tags, AskedDay)

(***************************************************************************)
(* How much sold on event days changes nothing in what is learned, so a    *)
(* festival never lifts the normal days after it (normal_demand.py: "this  *)
(* layer deliberately never looks at event days").                         *)
(***************************************************************************)
EventDaysTeachNothing ==
    Asked => suggestion = Differently([d \in WindowDays |-> IF d \in blocked /\ sold[d] # NoRow THEN 0 ELSE sold[d]],
                                      refused, assumption)

(***************************************************************************)
(* The Admin's guess fades: it is the forecast of a product never sold,    *)
(* pulls the baseline its way while history builds up, and after TrustDays *)
(* of sales another guess would have given the same line.                  *)
(***************************************************************************)
AssumptionFades ==
    Asked /\ assumption # NoGuess =>
        LET n == Cardinality(CountedDays(sold, blocked))
            unguided == Differently(sold, refused, NoGuess) IN
        /\ n = 0 => suggestion.baseline = assumption
        /\ n >= TrustDays => suggestion = unguided
        /\ n > 0 => suggestion.baseline \in Least(unguided.baseline, assumption)
                                            ..Max({unguided.baseline, assumption})

(***************************************************************************)
(* A product that sells the same every day it is counted has no weekday    *)
(* effect, whatever days events or its introduction took out of the window. *)
(***************************************************************************)
EvenSalesHaveNoRhythm ==
    Asked /\ Cardinality({TotalOver(sold, {d}) : d \in CountedDays(sold, blocked)}) <= 1
        => suggestion.weekday = Grain

(***************************************************************************)
(* Turned-away demand is only ever shown beside the forecast: without any  *)
(* the line is the same but for the comparison, which never falls below it *)
(* and at most doubles it but for rounding, unless nothing was sold at all. *)
(***************************************************************************)
RefusalsStayInTheShadow ==
    Asked => LET without == Differently(sold, [d \in WindowDays |-> 0], assumption) IN
             /\ suggestion.units = without.units
             /\ suggestion.unitsIfCounted >= suggestion.units
             /\ suggestion.baseline > 0 => suggestion.unitsIfCounted <= 2 * suggestion.units + 1

(***************************************************************************)
(* However events compound and weekdays swing, the suggestion stays within *)
(* 0.3 and 5 baselines, but for the rounding to whole units.               *)
(***************************************************************************)
SuggestionIsPlausible ==
    Asked => /\ 10 * Grain * suggestion.units + 5 * Grain >= 3 * suggestion.baseline
             /\ 2 * Grain * suggestion.units <= 10 * suggestion.baseline + Grain

(***************************************************************************)
(* The suggestion means what the page says of it.                          *)
(***************************************************************************)
ForecastIsSound ==
    /\ EventDaysTeachNothing
    /\ AssumptionFades
    /\ EvenSalesHaveNoRhythm
    /\ RefusalsStayInTheShadow
    /\ SuggestionIsPlausible
=============================================================================
