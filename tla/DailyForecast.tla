---------------------------- MODULE DailyForecast ----------------------------
(***************************************************************************)
(* DailyForecastService.calculate of budget/forecast.py: the use observed  *)
(* today, carried on day by day to the reset of the binding pool.  History *)
(* is the sequence of the stored snapshots, oldest first (the code sorts   *)
(* it).  Uses are in parts of Unit, and in the projection in parts of      *)
(* Unit * Scale(span), which makes every share of a day a whole number.    *)
(***************************************************************************)
EXTENDS BudgetEngine, SequencesExt

CONSTANTS MinObservation,  \* MIN_OBSERVATION_SECONDS
          MaxPoints,       \* MAX_POINTS
          DayScale         \* a multiple of every day's length

DayLength(d) == Midnights[d + 1] - Midnights[d]

ASSUME ForecastAssumption ==
    /\ MinObservation \in Nat \ {0} /\ MaxPoints \in Nat \ {0} /\ DayScale \in Nat \ {0}
    /\ \A d \in 1 .. Len(Midnights) - 1 : DayScale % DayLength(d) = 0

Unavailable(reason) == [reason |-> reason, points |-> <<>>]

\* _window_key
WindowKey(pool) == <<pool.starts, pool.resets, pool.window>>

\* The pool the forecast is about: the binding one, else the first.
ForecastAssessment(report) ==
    LET bound == { i \in DOMAIN report.pools : report.pools[i].id = report.binding }
    IN  IF bound # {} THEN report.pools[Min(bound)]
        ELSE IF report.pools # <<>> THEN report.pools[1] ELSE None

PoolOf(snapshot, id) ==
    LET found == { i \in DOMAIN snapshot.pools : snapshot.pools[i].id = id }
    IN  IF found = {} THEN None ELSE snapshot.pools[Min(found)]

\* What keeps the latest snapshot from being projected, in the order tested.
Obstacle(latest, report, now) ==
    LET a == ForecastAssessment(report)
    IN  IF a = None \/ a.actual = None THEN "quota_unknown"
        ELSE LET pool   == PoolOf(latest, a.id)
                 timing == ResolveTiming(pool)
             IN  IF pool.resets = None THEN "reset_unknown"
                 ELSE IF pool.resets <= now THEN "reset_passed"
                 ELSE IF timing = None
                      THEN IF a.invalid THEN "malformed_timing" ELSE "timing_unknown"
                 ELSE IF a.expected = None \/ a.state = None THEN "timing_unknown"
                 ELSE IF now < timing.start \/ latest.captured > now THEN "malformed_timing"
                 ELSE IF LocalDay(latest.captured) # LocalDay(now) THEN "insufficient_evidence"
                 ELSE "none"

\* Today's snapshots that tell something of the pool, by their place in history.
Observing(history, pool, now) ==
    { i \in DOMAIN history :
        /\ LocalDay(history[i].captured) = LocalDay(now) /\ history[i].captured <= now
        /\ PoolOf(history[i], pool.id) # None /\ PoolOf(history[i], pool.id).used # None }

SameWindow(s, pool) ==
    /\ s.captured >= ResolveTiming(pool).start
    /\ WindowKey(PoolOf(s, pool.id)) = WindowKey(pool)

\* Those of them that belong to the pool's present window: the rate is taken from them.
Comparable(history, pool, now) ==
    { i \in Observing(history, pool, now) : SameWindow(history[i], pool) }

Sample(s, pool) == [at |-> s.captured, used |-> PoolOf(s, pool.id).used]

-----------------------------------------------------------------------------
(***************************************************************************)
(* The projection.  The rate is (last.used - first.used) / span per tick,  *)
(* times the length of today; a day adds the rate times the part of it     *)
(* that lies between its start (for today, the last sample) and its end or *)
(* the reset.                                                              *)
(***************************************************************************)
Scale(span) == span * DayScale

Endpoint(day, reset) == IF Midnights[day + 1] < reset THEN Midnights[day + 1] ELSE reset

\* Mutant: the use up to the last sample is projected again.
IntervalStartOfDay(day, today, last) == Midnights[day]

IntervalStart(day, today, last) == IF day = today THEN last.at ELSE Midnights[day]

\* The part of a day that its point adds, in parts of DayScale.
DayShare(day, today, last, reset) ==
    (Endpoint(day, reset) - IntervalStart(day, today, last)) * (DayScale \div DayLength(day))

\* The days with a point: at most MaxPoints, ending with the one of the reset.
ForecastDays(today, last, reset) ==
    { d \in today .. today + MaxPoints - 1 :
        \A e \in today .. d : /\ Endpoint(e, reset) > IntervalStart(e, today, last)
                              /\ e < d => Endpoint(e, reset) # reset }

Point(c, pool, used, day, today, span) ==
    LET endpoint == Endpoint(day, pool.resets)
        expected == ExpectedAt(c, ResolveTiming(pool), endpoint)
        delta    == [num |-> used * expected.den - expected.num * Scale(span),
                     den |-> expected.den * Scale(span)]
    IN  [day |-> day, used |-> used, endpoint |-> endpoint,
         state |-> ClassifyPaceDelta(c, delta),
         exceeds |-> used > Unit * Scale(span),
         endsAtReset |-> endpoint = pool.resets]

\* The use at the end of each of these days, from the last sample's on.
Projected(first, last, today, reset, days) ==
    LET span == last.at - first.at
        rate == (last.used - first.used) * DayLength(today)
        used[k \in 0 .. Cardinality(days)] ==
            IF k = 0 THEN last.used * Scale(span)
            ELSE used[k - 1] + rate * DayShare(today + k - 1, today, last, reset)
    IN  used

Project(c, pool, first, last, now) ==
    LET span  == last.at - first.at
        today == LocalDay(now)
        days  == ForecastDays(today, last, pool.resets)
        used  == Projected(first, last, today, pool.resets, days)
    IN  [reason |-> IF days = {} THEN "reset_passed" ELSE "none",
         span |-> span, first |-> first, last |-> last,
         points |-> [k \in 1 .. Cardinality(days) |->
                        Point(c, pool, used[k], today + k - 1, today, span)]]

\* The verdict on the samples.  (One use is below the one before it where any
\* is below an earlier one.)
Observed(c, history, pool, now) ==
    LET comparable == Comparable(history, pool, now)
        sample(i)  == Sample(history[i], pool)
        first      == sample(Min(comparable))
        last       == sample(Max(comparable))
    IN  IF Cardinality(comparable) < 2
        THEN Unavailable(IF comparable # Observing(history, pool, now)
                         THEN "incompatible_window" ELSE "insufficient_evidence")
        ELSE IF last.at - first.at < MinObservation
        THEN Unavailable("insufficient_evidence")
        ELSE IF \E i, j \in comparable : i < j /\ sample(j).used < sample(i).used
        THEN Unavailable("incompatible_window")
        ELSE Project(c, pool, first, last, now)

\* The order of the tests, once the report is made.
CalculateFrom(c, history, report, now) ==
    LET obstacle == Obstacle(Last(history), report, now)
        pool     == PoolOf(Last(history), ForecastAssessment(report).id)
    IN  IF ~ PoolIdsAreUnique(Last(history)) THEN Unavailable("budget_error")
        ELSE IF obstacle # "none" THEN Unavailable(obstacle)
        ELSE Observed(c, history, pool, now)

Calculate(c, history, now) ==
    IF history = <<>> THEN Unavailable("no_snapshots")
    ELSE CalculateFrom(c, history, Evaluate(c, Last(history), now), now)
=============================================================================
