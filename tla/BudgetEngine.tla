---------------------------- MODULE BudgetEngine ----------------------------
(***************************************************************************)
(* The quota arithmetic of budget/engine.py and the validators of          *)
(* budget/models.py, as operators on one snapshot, one configuration and   *)
(* one instant.  A fraction is a number of Units; an instant is a tick of  *)
(* UTC; Midnights lists the first tick of each local day, so that days may *)
(* have different lengths, as they do where the clock changes.  A quotient *)
(* is kept as a pair [num, den] with den > 0 and compared by multiplying.  *)
(* Floats are exact here: a comparison within one rounding error of its    *)
(* threshold may come out the other way in the code.                       *)
(***************************************************************************)
EXTENDS OptionalValue, Sequences, FiniteSets, FiniteSetsExt

CONSTANTS Unit,          \* the whole quota
          Midnights,     \* strictly increasing instants, one per local day
          FirstWeekday   \* weekday (0 = Monday) of the first of these days

ASSUME UnitAssumption == Unit \in Nat \ {0}
ASSUME MidnightsAssumption ==
    /\ Midnights \in Seq(Int) /\ Len(Midnights) > 1
    /\ \A d \in 1 .. Len(Midnights) - 1 : Midnights[d] < Midnights[d + 1]
ASSUME WeekdayAssumption == FirstWeekday \in 0 .. 6
ASSUME NoneIsNoQuotient == None \notin [num : Int, den : Int]

Clip(x, low, high) == IF x < low THEN low ELSE IF x > high THEN high ELSE x

-----------------------------------------------------------------------------
(***************************************************************************)
(* Configuration.  A state is its place in very_under, under, on_track,    *)
(* over, critical; unknown is None.                                        *)
(***************************************************************************)
StateNumbers == 1 .. 5

\* WeekdayWeights: none negative, at_least_one_positive_weight
WeightsAreValid(weights) ==
    /\ weights \in [0 .. 6 -> Nat]
    /\ \E d \in 0 .. 6 : weights[d] > 0

\* BudgetConfig: the ranges of the fields and policy_ordering_is_valid
ConfigIsValid(c) ==
    /\ c.reserve \in 0 .. Unit - 1
    /\ c.thresholds \in [1 .. 4 -> Int]
    /\ \A i \in 1 .. 3 : c.thresholds[i] < c.thresholds[i + 1]
    /\ c.pressures \in [StateNumbers -> Nat]
    /\ \A i \in 1 .. 4 : c.pressures[i] <= c.pressures[i + 1]
    /\ c.staleAfter \in Nat \ {0}
    /\ WeightsAreValid(c.weights)

-----------------------------------------------------------------------------
(***************************************************************************)
(* The remaining quota and the window of one pool.                         *)
(***************************************************************************)
\* QuotaPool: the ranges of its fractions and of the length of its window
PoolIsValid(pool) ==
    /\ pool.id \in Int
    /\ pool.used \in OrNone(0 .. Unit) /\ pool.remaining \in OrNone(0 .. Unit)
    /\ pool.starts \in OrNone(Int) /\ pool.resets \in OrNone(Int)
    /\ pool.window \in OrNone(Nat)

Remaining(pool) == IF pool.remaining # None THEN pool.remaining
                   ELSE IF pool.used # None THEN Unit - pool.used ELSE None

Available(c, pool) ==
    IF Remaining(pool) = None THEN None
    ELSE Clip(Remaining(pool) - c.reserve, 0, Remaining(pool))

\* Mutant: a window of no length counts as one.
InvalidWindowTimingStrictly(pool) ==
    /\ pool.resets # None
    /\ \/ pool.starts # None /\ pool.resets < pool.starts
       \/ pool.starts = None /\ pool.window # None /\ pool.window < 0

\* The timing fields are there and make no window: the reset is not after
\* the start, or the length is zero.
InvalidWindowTiming(pool) ==
    /\ pool.resets # None
    /\ \/ pool.starts # None /\ pool.resets <= pool.starts
       \/ pool.starts = None /\ pool.window # None /\ pool.window <= 0

\* A reported start wins over the length of the window.
ResolveTiming(pool) ==
    IF \/ pool.resets = None
       \/ pool.starts = None /\ pool.window = None
       \/ InvalidWindowTiming(pool)
    THEN None
    ELSE [start |-> IF pool.starts # None THEN pool.starts ELSE pool.resets - pool.window,
          reset |-> pool.resets]

LengthOf(timing) == timing.reset - timing.start

\* Mutant: the part of the window that is left.
ExpectedAtByRest(c, timing, at) ==
    [num |-> Clip(timing.reset - at, 0, LengthOf(timing)) * (Unit - c.reserve),
     den |-> LengthOf(timing)]

\* Expected use at an instant: the clipped progress of the window, times
\* what is not reserved.
ExpectedAt(c, timing, at) ==
    [num |-> Clip(at - timing.start, 0, LengthOf(timing)) * (Unit - c.reserve),
     den |-> LengthOf(timing)]

\* Actual minus expected use.
PaceDelta(actual, expected) ==
    [num |-> actual * expected.den - expected.num, den |-> expected.den]

\* One state up for each threshold passed: the first two are passed when
\* reached, the last two when exceeded.
ClassifyPaceDelta(c, delta) ==
    1 + Cardinality({ i \in 1 .. 2 : delta.num >= c.thresholds[i] * delta.den }
                    \cup { i \in 3 .. 4 : delta.num > c.thresholds[i] * delta.den })

-----------------------------------------------------------------------------
(***************************************************************************)
(* The share of today: local days from today to the reset, the day of a    *)
(* reset at midnight excluded, each with the weight of its weekday.        *)
(***************************************************************************)
LocalDay(t) == CHOOSE d \in 1 .. Len(Midnights) - 1 :
                  Midnights[d] <= t /\ t < Midnights[d + 1]

WeekdayOf(day) == (FirstWeekday + day - 1) % 7

\* Mutant: the day of a reset at midnight is counted.
LastDayOfReset(reset) == LocalDay(reset)

LastDay(reset) == IF Midnights[LocalDay(reset)] = reset
                  THEN LocalDay(reset) - 1 ELSE LocalDay(reset)

WeekSum(w) == w[0] + w[1] + w[2] + w[3] + w[4] + w[5] + w[6]

\* The weight of count days: whole weeks by their number, the rest day by day.
NormalizedWeightTotal(c, first, count) ==
    (count \div 7) * WeekSum(c.weights)
    + WeekSum([i \in 0 .. 6 |-> IF i < count % 7 THEN c.weights[(first + i) % 7] ELSE 0])

\* A quotient, or None where the quota, the reset or any weight is missing or
\* the window has not begun.
TodayBudget(c, available, reset, timing, now) ==
    IF available = None \/ reset = None THEN None
    ELSE IF reset <= now THEN [num |-> 0, den |-> 1]
    ELSE IF timing # None /\ now < timing.start THEN None
    ELSE LET today == LocalDay(now)
             total == NormalizedWeightTotal(c, WeekdayOf(today),
                                            LastDay(reset) - today + 1)
         IN  IF total = 0 THEN None
             ELSE [num |-> available * c.weights[WeekdayOf(today)], den |-> total]

-----------------------------------------------------------------------------
(***************************************************************************)
(* The report.                                                             *)
(***************************************************************************)
AssessPool(c, pool, now) ==
    LET timing   == ResolveTiming(pool)
        expected == IF timing = None THEN None ELSE ExpectedAt(c, timing, now)
        delta    == IF timing = None \/ pool.used = None THEN None
                    ELSE PaceDelta(pool.used, expected)
        state    == IF delta = None THEN None ELSE ClassifyPaceDelta(c, delta)
    IN  [id        |-> pool.id,
         actual    |-> pool.used,
         expected  |-> expected,
         delta     |-> delta,
         remaining |-> Remaining(pool),
         available |-> Available(c, pool),
         today     |-> TodayBudget(c, Available(c, pool), pool.resets, timing, now),
         state     |-> state,
         pressure  |-> IF state = None THEN None ELSE c.pressures[state],
         invalid   |-> InvalidWindowTiming(pool)]

\* Most pressure first, then least remaining (an unknown one last), then id.
BindsBefore(a, b) ==
    \/ a.pressure > b.pressure
    \/ /\ a.pressure = b.pressure
       /\ \/ b.remaining = None /\ a.remaining # None
          \/ /\ a.remaining # None /\ b.remaining # None
             /\ a.remaining < b.remaining
          \/ a.remaining = b.remaining /\ a.id <= b.id

\* One of the assessments that have a pressure.
SelectBindingPool(evaluable) ==
    CHOOSE a \in evaluable : \A b \in evaluable : BindsBefore(a, b)

\* evaluate raises BudgetEvaluationError on two pools of one id.
PoolIdsAreUnique(snapshot) ==
    \A i, j \in DOMAIN snapshot.pools : snapshot.pools[i].id = snapshot.pools[j].id => i = j

Evaluate(c, snapshot, now) ==
    LET pools     == [i \in DOMAIN snapshot.pools |-> AssessPool(c, snapshot.pools[i], now)]
        evaluable == { a \in Range(pools) : a.pressure # None }
        binding   == SelectBindingPool(evaluable)
    IN  [pools    |-> pools,
         binding  |-> IF evaluable = {} THEN None ELSE binding.id,
         pressure |-> IF evaluable = {} THEN None ELSE binding.pressure,
         stale    |-> now - snapshot.captured > c.staleAfter]

\* The ranges PoolBudgetAssessment requires, and no quotient by zero: outside of
\* them, evaluate raises.
AssessmentValidates(a) ==
    LET fraction(q) == q # None => 0 < q.den /\ 0 <= q.num /\ q.num <= Unit * q.den
        part(x)     == x # None => x \in 0 .. Unit
    IN  /\ part(a.actual) /\ part(a.remaining) /\ part(a.available)
        /\ fraction(a.expected) /\ fraction(a.today)
        /\ a.delta # None => /\ - Unit * a.delta.den <= a.delta.num
                             /\ a.delta.num <= Unit * a.delta.den
=============================================================================
