---- MODULE RoutingServiceProofs ----
(***************************************************************************)
(* Proofs about RoutingService for any snapshots, tasks, registry, policy, *)
(* configuration and calendar that validate.                               *)
(***************************************************************************)
EXTENDS RoutingService, TLAPS, FiniteSetTheorems, WellFoundedInduction

-----------------------------------------------------------------------------
(***************************************************************************)
(* What induction over the naturals is needed for.                         *)
(***************************************************************************)
\* A set of naturals that has a member has a least one.
LEMMA LeastOf ==
  ASSUME NEW T, T \subseteq Nat, T # {}
  PROVE  \E x \in T : \A y \in T : x <= y
<1> DEFINE Less == { ss \in Nat \X Nat : ss[1] < ss[2] }
<1>1. IsWellFoundedOn(Less, Nat)
  BY NatLessThanWellFounded, Zenon DEF OpToRel
<1>2. \A x, y \in Nat : y < x => <<y, x>> \in Less
  OBVIOUS
<1> HIDE DEF Less
<1>3. \E x \in T : \A y \in T : <<y, x>> \notin Less
  BY <1>1, WFMin, Zenon
<1>4. PICK x \in T : \A y \in T : <<y, x>> \notin Less
  BY <1>3
<1>5. ASSUME NEW y \in T PROVE x <= y
  <2>1. x \in Nat /\ y \in Nat /\ <<y, x>> \notin Less
    BY <1>4
  <2>2. ~ (y < x)
    BY <1>2, <2>1
  <2> QED
    BY <2>1, <2>2
<1> QED
  BY <1>5

-----------------------------------------------------------------------------
(***************************************************************************)
(* The calendar.                                                           *)
(***************************************************************************)
Days == 1 .. Len(Midnights) - 1

\* The instants the calendar covers.
Covered(t) == t \in Int /\ Midnights[1] <= t /\ t < Midnights[Len(Midnights)]

LEMMA MidnightIsInstant ==
  ASSUME NEW d \in 1 .. Len(Midnights)
  PROVE  Midnights[d] \in Int
BY MidnightsAssumption

\* A later day begins later.
LEMMA MidnightsRise ==
  ASSUME NEW d \in 1 .. Len(Midnights), NEW e \in 1 .. Len(Midnights), d < e
  PROVE  Midnights[d] < Midnights[e]
<1> DEFINE Wrong == { n \in Nat : n \in 1 .. Len(Midnights) /\ d < n
                                  /\ ~ (Midnights[d] < Midnights[n]) }
<1>1. Len(Midnights) \in Nat
  BY MidnightsAssumption
<1>2. ASSUME Wrong # {} PROVE FALSE
  <2>1. Wrong \subseteq Nat
    OBVIOUS
  <2> HIDE DEF Wrong
  <2>2. PICK n \in Wrong : \A m \in Wrong : n <= m
    BY <1>2, <2>1, LeastOf
  <2> USE DEF Wrong
  <2>3. n \in 1 .. Len(Midnights) /\ d < n /\ ~ (Midnights[d] < Midnights[n])
    OBVIOUS
  <2>4. n - 1 \in 1 .. Len(Midnights) - 1 /\ n - 1 \in Nat /\ n - 1 \in 1 .. Len(Midnights)
    BY <1>1, <2>3
  <2>5. Midnights[n - 1] < Midnights[n - 1 + 1]
    BY <2>4, MidnightsAssumption
  <2>6. n - 1 + 1 = n
    BY <2>3
  <2>7. /\ Midnights[n - 1] \in Int /\ Midnights[n] \in Int /\ Midnights[d] \in Int
    BY <2>4, <2>3, MidnightIsInstant
  <2>8. n - 1 = d \/ (d < n - 1 /\ n - 1 \notin Wrong)
    <3>1. ~ (n <= n - 1)
      BY <2>3
    <3>2. n - 1 \notin Wrong
      BY <3>1, <2>2
    <3> QED
      BY <3>2, <2>3, <1>1
  <2>9. n - 1 = d \/ Midnights[d] < Midnights[n - 1]
    BY <2>8, <2>4
  <2> QED
    BY <2>9, <2>5, <2>6, <2>7, <2>3
<1>3. e \in Nat
  BY <1>1
<1>4. e \notin Wrong
  <2> HIDE DEF Wrong
  <2> QED
    BY <1>2
<1> QED
  BY <1>3, <1>4

\* An instant the calendar covers lies in one of its days.
LEMMA DayExists ==
  ASSUME NEW t, Covered(t)
  PROVE  \E d \in Days : Midnights[d] <= t /\ t < Midnights[d + 1]
<1> DEFINE Later == { n \in Nat : n \in 1 .. Len(Midnights) /\ t < Midnights[n] }
<1>1. Len(Midnights) \in Nat /\ Len(Midnights) > 1
  BY MidnightsAssumption
<1>2. t \in Int /\ Midnights[1] <= t /\ t < Midnights[Len(Midnights)]
  BY DEF Covered
<1>3. Len(Midnights) \in Later /\ Later \subseteq Nat
  BY <1>1, <1>2
<1>4. PICK n \in Later : \A m \in Later : n <= m
  <2> HIDE DEF Later
  <2> QED
    BY <1>3, LeastOf
<1>5. n \in 1 .. Len(Midnights) /\ t < Midnights[n] /\ n \in Nat
  OBVIOUS
<1>6. n # 1
  BY <1>5, <1>2, MidnightIsInstant, <1>1
<1>7. n - 1 \in Days /\ n - 1 \in 1 .. Len(Midnights) /\ n - 1 \in Nat /\ n - 1 + 1 = n
  BY <1>5, <1>6, <1>1 DEF Days
<1>8. ~ (t < Midnights[n - 1])
  <2>1. ~ (n <= n - 1)
    BY <1>5
  <2>2. n - 1 \notin Later
    <3> HIDE DEF Later
    <3> QED
      BY <2>1, <1>4
  <2> QED
    BY <2>2, <1>7
<1>9. Midnights[n - 1] \in Int
  BY <1>7, MidnightIsInstant
<1> QED
  BY <1>7, <1>8, <1>9, <1>5, <1>2

LEMMA LocalDayOf ==
  ASSUME NEW t, Covered(t)
  PROVE  /\ LocalDay(t) \in Days
         /\ Midnights[LocalDay(t)] <= t /\ t < Midnights[LocalDay(t) + 1]
BY DayExists, Zenon DEF LocalDay, Days

\* Only one day holds an instant.
LEMMA LocalDayIs ==
  ASSUME NEW t, Covered(t), NEW d \in Days, Midnights[d] <= t, t < Midnights[d + 1]
  PROVE  LocalDay(t) = d
<1> DEFINE e == LocalDay(t)
<1>1. e \in Days /\ Midnights[e] <= t /\ t < Midnights[e + 1]
  BY LocalDayOf
<1> HIDE DEF e
<1>2. Len(Midnights) \in Nat /\ t \in Int
  BY MidnightsAssumption DEF Covered
<1>3. /\ d \in 1 .. Len(Midnights) /\ d + 1 \in 1 .. Len(Midnights)
      /\ e \in 1 .. Len(Midnights) /\ e + 1 \in 1 .. Len(Midnights)
  BY <1>1, <1>2 DEF Days
<1>4. /\ Midnights[d] \in Int /\ Midnights[d + 1] \in Int
      /\ Midnights[e] \in Int /\ Midnights[e + 1] \in Int
  BY <1>3, MidnightIsInstant
<1>5. ~ (e < d)
  <2> SUFFICES ASSUME e < d PROVE FALSE
    OBVIOUS
  <2>1. e + 1 = d \/ e + 1 < d
    BY <1>3
  <2>2. Midnights[e + 1] <= Midnights[d]
    BY <2>1, <1>3, <1>4, MidnightsRise
  <2> QED
    BY <2>2, <1>1, <1>4, <1>2
<1>6. ~ (d < e)
  <2> SUFFICES ASSUME d < e PROVE FALSE
    OBVIOUS
  <2>1. d + 1 = e \/ d + 1 < e
    BY <1>3
  <2>2. Midnights[d + 1] <= Midnights[e]
    BY <2>1, <1>3, <1>4, MidnightsRise
  <2> QED
    BY <2>2, <1>1, <1>4, <1>2
<1>7. e = d
  BY <1>5, <1>6, <1>3
<1> QED
  BY <1>7 DEF e

-----------------------------------------------------------------------------
(***************************************************************************)
(* The days of a share and their weights.                                  *)
(***************************************************************************)
\* The last day before a reset to come is today or a later day.
LEMMA LastDayIsToCome ==
  ASSUME NEW t, Covered(t), NEW reset, Covered(reset), t < reset
  PROVE  LastDay(reset) \in Days /\ LocalDay(t) <= LastDay(reset)
<1> DEFINE d == LocalDay(t)
           e == LocalDay(reset)
<1>1. /\ d \in Days /\ Midnights[d] <= t /\ t < Midnights[d + 1]
      /\ e \in Days /\ Midnights[e] <= reset /\ reset < Midnights[e + 1]
  BY LocalDayOf
<1>2. LastDay(reset) = IF Midnights[e] = reset THEN e - 1 ELSE e
  BY DEF LastDay
<1> HIDE DEF d, e
<1>3. Len(Midnights) \in Nat /\ t \in Int /\ reset \in Int
  BY MidnightsAssumption DEF Covered
<1>4. /\ d \in 1 .. Len(Midnights) /\ d + 1 \in 1 .. Len(Midnights)
      /\ e \in 1 .. Len(Midnights) /\ e + 1 \in 1 .. Len(Midnights)
  BY <1>1, <1>3 DEF Days
<1>5. /\ Midnights[d] \in Int /\ Midnights[d + 1] \in Int
      /\ Midnights[e] \in Int /\ Midnights[e + 1] \in Int
  BY <1>4, MidnightIsInstant
<1>6. d <= e
  <2> SUFFICES ASSUME e < d PROVE FALSE
    BY <1>4
  <2>1. e + 1 = d \/ e + 1 < d
    BY <1>4
  <2>2. Midnights[e + 1] <= Midnights[d]
    BY <2>1, <1>4, <1>5, MidnightsRise
  <2> QED
    BY <2>2, <1>1, <1>5, <1>3
<1>7. Midnights[e] = reset => d # e
  BY <1>1, <1>3, <1>5
<1>8. LastDay(reset) \in Int /\ LastDay(reset) \in 1 .. Len(Midnights) - 1
                             /\ d <= LastDay(reset)
  BY <1>2, <1>4, <1>6, <1>7, <1>1, <1>3 DEF Days
<1> QED
  BY <1>8 DEF d, Days

LEMMA WeekdayIsOne ==
  ASSUME NEW d \in Int
  PROVE  WeekdayOf(d) \in 0 .. 6 /\ WeekdayOf(d + 1) = (WeekdayOf(d) + 1) % 7
BY WeekdayAssumption DEF WeekdayOf

\* The weight of the days left over after the whole weeks.
Rest(w, first, r) == WeekSum([i \in 0 .. 6 |-> IF i < r THEN w[(first + i) % 7] ELSE 0])

LEMMA RestIs ==
  ASSUME NEW w, NEW first \in 0 .. 6, NEW r \in 0 .. 6
  PROVE  Rest(w, first, r) =
              (IF 0 < r THEN w[first % 7] ELSE 0)
            + (IF 1 < r THEN w[(first + 1) % 7] ELSE 0)
            + (IF 2 < r THEN w[(first + 2) % 7] ELSE 0)
            + (IF 3 < r THEN w[(first + 3) % 7] ELSE 0)
            + (IF 4 < r THEN w[(first + 4) % 7] ELSE 0)
            + (IF 5 < r THEN w[(first + 5) % 7] ELSE 0)
            + (IF 6 < r THEN w[(first + 6) % 7] ELSE 0)
BY DEF Rest, WeekSum

LEMMA WeekIsNat ==
  ASSUME NEW w, w \in [0 .. 6 -> Nat]
  PROVE  /\ WeekSum(w) \in Nat
         /\ \A d \in 0 .. 6 : w[d] \in Nat /\ w[d] <= WeekSum(w)
<1>1. /\ w[0] \in Nat /\ w[1] \in Nat /\ w[2] \in Nat /\ w[3] \in Nat
      /\ w[4] \in Nat /\ w[5] \in Nat /\ w[6] \in Nat
  OBVIOUS
<1>2. \A d \in 0 .. 6 : \/ d = 0 \/ d = 1 \/ d = 2 \/ d = 3
                        \/ d = 4 \/ d = 5 \/ d = 6
  OBVIOUS
<1> QED
  BY <1>1, <1>2 DEF WeekSum

LEMMA RestIsNat ==
  ASSUME NEW w, w \in [0 .. 6 -> Nat], NEW first \in 0 .. 6, NEW r \in 0 .. 6
  PROVE  /\ Rest(w, first, r) \in Nat
         /\ r > 0 => w[first] <= Rest(w, first, r)
<1> DEFINE W == [i \in 0 .. 6 |-> IF i < r THEN w[(first + i) % 7] ELSE 0]
<1>1. \A i \in 0 .. 6 : (first + i) % 7 \in 0 .. 6
  OBVIOUS
<1>2. W \in [0 .. 6 -> Nat]
  BY <1>1
<1>3. Rest(w, first, r) = WeekSum(W)
  BY DEF Rest
<1>4. r > 0 => W[0] = w[first]
  <2>1. (first + 0) % 7 = first
    OBVIOUS
  <2> QED
    BY <2>1
<1> HIDE DEF W
<1> QED
  BY <1>2, <1>3, <1>4, WeekIsNat

\* A day first and then the others: the rest of a week turns by one weekday.
LEMMA RestTurns ==
  ASSUME NEW w, w \in [0 .. 6 -> Nat], NEW first \in 0 .. 6, NEW r \in 1 .. 6
  PROVE  Rest(w, first, r) = w[first] + Rest(w, (first + 1) % 7, r - 1)
<1>1. /\ w[0] \in Nat /\ w[1] \in Nat /\ w[2] \in Nat /\ w[3] \in Nat
      /\ w[4] \in Nat /\ w[5] \in Nat /\ w[6] \in Nat
  OBVIOUS
<1>2. (first + 1) % 7 \in 0 .. 6 /\ r \in 0 .. 6 /\ r - 1 \in 0 .. 6
  OBVIOUS
<1>3. first = 0 \/ first = 1 \/ first = 2 \/ first = 3 \/ first = 4 \/ first = 5 \/ first = 6
  OBVIOUS
<1>4. r = 1 \/ r = 2 \/ r = 3 \/ r = 4 \/ r = 5 \/ r = 6
  OBVIOUS
<1> QED
  BY <1>1, <1>2, <1>3, <1>4, RestIs

\* A whole week from any weekday on.
LEMMA WeekTurns ==
  ASSUME NEW w, w \in [0 .. 6 -> Nat], NEW first \in 0 .. 6
  PROVE  WeekSum(w) = w[first] + Rest(w, (first + 1) % 7, 6)
<1>1. /\ w[0] \in Nat /\ w[1] \in Nat /\ w[2] \in Nat /\ w[3] \in Nat
      /\ w[4] \in Nat /\ w[5] \in Nat /\ w[6] \in Nat
  OBVIOUS
<1>2. (first + 1) % 7 \in 0 .. 6 /\ 6 \in 0 .. 6
  OBVIOUS
<1>3. first = 0 \/ first = 1 \/ first = 2 \/ first = 3 \/ first = 4 \/ first = 5 \/ first = 6
  OBVIOUS
<1> QED
  BY <1>1, <1>2, <1>3, RestIs DEF WeekSum

LEMMA TotalIs ==
  ASSUME NEW c, NEW first, NEW count
  PROVE  NormalizedWeightTotal(c, first, count)
         = (count \div 7) * WeekSum(c.weights) + Rest(c.weights, first, count % 7)
BY DEF NormalizedWeightTotal, Rest

\* The total counts the first of its days.
LEMMA TotalCountsFirst ==
  ASSUME NEW c, c.weights \in [0 .. 6 -> Nat], NEW first \in 0 .. 6, NEW count \in Nat
  PROVE  /\ NormalizedWeightTotal(c, first, count) \in Nat
         /\ count > 0 => c.weights[first] <= NormalizedWeightTotal(c, first, count)
<1> DEFINE q == count \div 7
           r == count % 7
           S == WeekSum(c.weights)
           R == Rest(c.weights, first, r)
<1>1. q \in Nat /\ r \in 0 .. 6 /\ count = 7 * q + r
  OBVIOUS
<1>2. S \in Nat /\ c.weights[first] \in Nat /\ c.weights[first] <= S
  BY WeekIsNat
<1>3. R \in Nat /\ (r > 0 => c.weights[first] <= R)
  BY <1>1, RestIsNat
<1>4. NormalizedWeightTotal(c, first, count) = q * S + R
  BY TotalIs
<1> HIDE DEF q, r, S, R
<1>5. q * S \in Nat /\ (q >= 1 => S <= q * S)
  BY <1>1, <1>2
<1>6. count > 0 => r > 0 \/ q >= 1
  BY <1>1
<1> DEFINE Q == q * S
<1>7. /\ Q \in Nat /\ (q >= 1 => S <= Q)
      /\ NormalizedWeightTotal(c, first, count) = Q + R
  BY <1>4, <1>5
<1> HIDE DEF Q
<1> QED
  BY <1>2, <1>3, <1>6, <1>7

\* The total is the weight of the first day and the total of the others.
LEMMA TotalUnfolds ==
  ASSUME NEW c, c.weights \in [0 .. 6 -> Nat], NEW first \in 0 .. 6, NEW count \in Nat,
         count > 0
  PROVE  NormalizedWeightTotal(c, first, count)
         = c.weights[first] + NormalizedWeightTotal(c, (first + 1) % 7, count - 1)
<1> DEFINE q == count \div 7
           r == count % 7
           S == WeekSum(c.weights)
           next == (first + 1) % 7
<1>1. q \in Nat /\ r \in 0 .. 6 /\ count = 7 * q + r /\ next \in 0 .. 6
  OBVIOUS
<1>2. S \in Nat /\ c.weights[first] \in Nat
  BY WeekIsNat
<1>3. CASE r > 0
  <2>1. (count - 1) \div 7 = q /\ (count - 1) % 7 = r - 1
    BY <1>1, <1>3
  <2>2. Rest(c.weights, first, r) = c.weights[first] + Rest(c.weights, next, r - 1)
    BY <1>1, <1>3, RestTurns
  <2>3. Rest(c.weights, next, r - 1) \in Nat
    <3>1. r - 1 \in 0 .. 6
      BY <1>1, <1>3
    <3> QED
      BY <3>1, <1>1, RestIsNat
  <2>4. /\ NormalizedWeightTotal(c, first, count) = q * S + Rest(c.weights, first, r)
        /\ NormalizedWeightTotal(c, next, count - 1) = q * S + Rest(c.weights, next, r - 1)
    BY <2>1, TotalIs
  <2> HIDE DEF q, r, S, next
  <2>5. q * S \in Nat
    BY <1>1, <1>2
  <2>6. NormalizedWeightTotal(c, first, count)
        = c.weights[first] + NormalizedWeightTotal(c, next, count - 1)
    BY <2>2, <2>3, <2>4, <2>5, <1>2
  <2> QED
    BY <2>6 DEF next
<1>4. CASE r = 0
  <2>1. q > 0 /\ (count - 1) \div 7 = q - 1 /\ (count - 1) % 7 = 6
    BY <1>1, <1>4
  <2>2. S = c.weights[first] + Rest(c.weights, next, 6)
    BY WeekTurns
  <2>3. Rest(c.weights, next, 6) \in Nat /\ Rest(c.weights, first, 0) = 0
    <3>1. 6 \in 0 .. 6 /\ 0 \in 0 .. 6
      OBVIOUS
    <3> QED
      BY <3>1, <1>1, RestIsNat, RestIs
  <2>4. /\ NormalizedWeightTotal(c, first, count) = q * S + Rest(c.weights, first, 0)
        /\ NormalizedWeightTotal(c, next, count - 1)
           = (q - 1) * S + Rest(c.weights, next, 6)
    BY <2>1, <1>4, TotalIs
  <2> HIDE DEF q, r, S, next
  <2>5. q * S = (q - 1) * S + S /\ (q - 1) * S \in Int
    BY <1>1, <1>2
  <2>6. NormalizedWeightTotal(c, first, count)
        = c.weights[first] + NormalizedWeightTotal(c, next, count - 1)
    BY <2>2, <2>3, <2>4, <2>5, <1>2
  <2> QED
    BY <2>6 DEF next
<1> QED
  BY <1>1, <1>3, <1>4

-----------------------------------------------------------------------------
(***************************************************************************)
(* The assessment of one pool.                                             *)
(***************************************************************************)
LEMMA ProductsRise ==
  ASSUME NEW a \in Nat, NEW b \in Nat, NEW x \in Nat, NEW y \in Nat, a <= b, x <= y
  PROVE  a * x \in Nat /\ b * y \in Nat /\ a * x <= b * y
<1>1. a * x \in Nat /\ b * x \in Nat /\ b * y \in Nat
  OBVIOUS
<1>2. a * x <= b * x
  OBVIOUS
<1>3. b * x <= b * y
  OBVIOUS
<1> QED
  BY <1>1, <1>2, <1>3

LEMMA RemainingIsPart ==
  ASSUME NEW pool, PoolIsValid(pool), Remaining(pool) # None
  PROVE  Remaining(pool) \in 0 .. Unit
BY UnitAssumption DEF Remaining, PoolIsValid, OrNone

LEMMA AvailableIsPart ==
  ASSUME NEW c, ConfigIsValid(c), NEW pool, PoolIsValid(pool), Available(c, pool) # None
  PROVE  Available(c, pool) \in 0 .. Unit
<1>1. Remaining(pool) # None
  BY DEF Available
<1>2. Remaining(pool) \in 0 .. Unit /\ c.reserve \in 0 .. Unit - 1 /\ Unit \in Nat
  BY <1>1, RemainingIsPart, UnitAssumption DEF ConfigIsValid
<1> QED
  BY <1>1, <1>2 DEF Available, Clip

\* A window that is resolved has a length.
LEMMA TimingHasLength ==
  ASSUME NEW pool, PoolIsValid(pool), ResolveTiming(pool) # None
  PROVE  /\ ResolveTiming(pool).start \in Int /\ ResolveTiming(pool).reset \in Int
         /\ LengthOf(ResolveTiming(pool)) \in Nat /\ LengthOf(ResolveTiming(pool)) > 0
<1> DEFINE start == IF pool.starts # None THEN pool.starts ELSE pool.resets - pool.window
<1>1. /\ pool.resets # None /\ (pool.starts # None \/ pool.window # None)
      /\ ~ InvalidWindowTiming(pool)
      /\ ResolveTiming(pool) = [start |-> start, reset |-> pool.resets]
  BY DEF ResolveTiming
<1>2. /\ pool.resets \in Int
      /\ pool.starts # None => pool.starts \in Int
      /\ pool.window # None => pool.window \in Nat
  BY <1>1 DEF PoolIsValid, OrNone
<1>3. /\ pool.starts # None => pool.starts < pool.resets
      /\ pool.starts = None => pool.window > 0
  BY <1>1, <1>2 DEF InvalidWindowTiming
<1>4. start \in Int /\ pool.resets - start > 0
  BY <1>1, <1>2, <1>3
<1> HIDE DEF start
<1>5. ResolveTiming(pool).start = start /\ ResolveTiming(pool).reset = pool.resets
  BY <1>1
<1> QED
  BY <1>2, <1>4, <1>5 DEF LengthOf

LEMMA ExpectedIsFraction ==
  ASSUME NEW c, ConfigIsValid(c), NEW timing, NEW at \in Int,
         timing.start \in Int, timing.reset \in Int,
         LengthOf(timing) \in Nat, LengthOf(timing) > 0
  PROVE  LET q == ExpectedAt(c, timing, at)
         IN  /\ q.den = LengthOf(timing) /\ q.num \in Nat
             /\ Unit * q.den \in Nat /\ q.num <= Unit * q.den
<1> DEFINE L == LengthOf(timing)
           progress == Clip(at - timing.start, 0, L)
           rest == Unit - c.reserve
           q == ExpectedAt(c, timing, at)
<1>1. progress \in Nat /\ progress <= L /\ L \in Nat
  BY DEF Clip
<1>2. rest \in Nat /\ rest <= Unit /\ Unit \in Nat
  BY UnitAssumption DEF ConfigIsValid
<1>3. q.num = progress * rest /\ q.den = L
  BY DEF ExpectedAt
<1> HIDE DEF L, progress, rest, q
<1>4. progress * rest \in Nat /\ L * Unit \in Nat /\ progress * rest <= L * Unit
  BY <1>1, <1>2, ProductsRise
<1>5. L * Unit = Unit * L
  BY <1>1, <1>2
<1>6. q.den = L /\ q.num \in Nat /\ Unit * q.den \in Nat /\ q.num <= Unit * q.den
  BY <1>3, <1>4, <1>5
<1> QED
  BY <1>6 DEF q, L

\* The instants of a pool, as far as the calendar is asked for them.
ResetIsCovered(pool) ==
    pool.resets # None => pool.resets < Midnights[Len(Midnights)]

LEMMA TodayIsShare ==
  ASSUME NEW c, ConfigIsValid(c), NEW available \in Nat, NEW reset, reset # None,
         reset \in Int, reset < Midnights[Len(Midnights)], NEW timing,
         NEW t, Covered(t), TodayBudget(c, available, reset, timing, t) # None
  PROVE  LET q == TodayBudget(c, available, reset, timing, t)
         IN  /\ q.den \in Nat /\ 0 < q.den /\ q.num \in Nat
             /\ available * q.den \in Nat /\ q.num <= available * q.den
<1> DEFINE q == TodayBudget(c, available, reset, timing, t)
           today == LocalDay(t)
           first == WeekdayOf(today)
           total == NormalizedWeightTotal(c, first, LastDay(reset) - today + 1)
<1>1. /\ t \in Int /\ Midnights[1] <= t /\ t < Midnights[Len(Midnights)]
      /\ Midnights[1] \in Int /\ c.weights \in [0 .. 6 -> Nat]
  BY MidnightsAssumption DEF Covered, ConfigIsValid, WeightsAreValid
<1>2. CASE reset <= t
  <2>1. q = [num |-> 0, den |-> 1]
    BY <1>2 DEF TodayBudget
  <2>2. q.num = 0 /\ q.den = 1
    BY <2>1
  <2> HIDE DEF q
  <2>3. available * q.den = available
    BY <2>2
  <2>4. /\ q.den \in Nat /\ 0 < q.den /\ q.num \in Nat
        /\ available * q.den \in Nat /\ q.num <= available * q.den
    BY <2>2, <2>3
  <2> QED
    BY <2>4 DEF q
<1>3. CASE t < reset
  <2>1. Covered(reset)
    BY <1>1, <1>3 DEF Covered
  <2>2. /\ LastDay(reset) \in Days /\ today \in Days /\ today <= LastDay(reset)
    BY <2>1, <1>3, LastDayIsToCome, LocalDayOf
  <2>3. LastDay(reset) - today + 1 \in Nat /\ LastDay(reset) - today + 1 > 0 /\ today \in Int
    BY <2>2, MidnightsAssumption DEF Days
  <2>4. first \in 0 .. 6
    BY <2>3, WeekdayIsOne
  <2>5. total \in Nat /\ c.weights[first] \in Nat /\ c.weights[first] <= total
    BY <2>3, <2>4, <1>1, TotalCountsFirst
  <2>6. ~ (reset <= t)
    BY <1>1, <1>3
  <2>7. total # 0 /\ q = [num |-> available * c.weights[first], den |-> total]
    BY <2>6 DEF TodayBudget
  <2>8. q.num = available * c.weights[first] /\ q.den = total
    BY <2>7
  <2> HIDE DEF q, total, first
  <2>9. /\ available * c.weights[first] \in Nat /\ available * total \in Nat
        /\ available * c.weights[first] <= available * total
    BY <2>5, ProductsRise
  <2>10. /\ q.den \in Nat /\ 0 < q.den /\ q.num \in Nat
         /\ available * q.den \in Nat /\ q.num <= available * q.den
    BY <2>5, <2>7, <2>8, <2>9
  <2> QED
    BY <2>10 DEF q
<1> QED
  BY <1>1, <1>2, <1>3

\* What is used less what was expected lies between minus and plus everything.
LEMMA DeltaIsBounded ==
  ASSUME NEW used \in 0 .. Unit, NEW q, q.den \in Nat, q.num \in Nat,
         Unit * q.den \in Nat, q.num <= Unit * q.den
  PROVE  LET delta == PaceDelta(used, q)
         IN  /\ - Unit * delta.den <= delta.num
             /\ delta.num <= Unit * delta.den
<1> DEFINE delta == PaceDelta(used, q)
<1>1. delta.num = used * q.den - q.num /\ delta.den = q.den
  BY DEF PaceDelta
<1>2. Unit \in Nat /\ used \in Nat /\ used <= Unit
  BY UnitAssumption
<1>3. used * q.den \in Nat /\ used * q.den <= Unit * q.den
  BY <1>2, ProductsRise
<1>4. - Unit * q.den = - (Unit * q.den)
  BY <1>2
<1> HIDE DEF delta
<1>5. - Unit * delta.den <= delta.num /\ delta.num <= Unit * delta.den
  BY <1>1, <1>3, <1>4
<1> QED
  BY <1>5 DEF delta

LEMMA AssessmentIsValid ==
  ASSUME NEW c, ConfigIsValid(c), NEW pool, PoolIsValid(pool), ResetIsCovered(pool),
         NEW t, Covered(t)
  PROVE  LET a == AssessPool(c, pool, t)
         IN  /\ AssessmentValidates(a)
             /\ a.today # None => a.today.num <= a.available * a.today.den
<1> DEFINE a == AssessPool(c, pool, t)
           timing == ResolveTiming(pool)
           part(x) == x # None => x \in 0 .. Unit
           fraction(q) == q # None => 0 < q.den /\ 0 <= q.num /\ q.num <= Unit * q.den
<1>0. t \in Int /\ Unit \in Nat
  BY UnitAssumption DEF Covered
<1>1. /\ a.actual = pool.used /\ a.remaining = Remaining(pool)
      /\ a.available = Available(c, pool)
      /\ a.expected = IF timing = None THEN None ELSE ExpectedAt(c, timing, t)
      /\ a.delta = IF timing = None \/ pool.used = None THEN None
                   ELSE PaceDelta(pool.used, a.expected)
      /\ a.today = TodayBudget(c, Available(c, pool), pool.resets, timing, t)
  BY DEF AssessPool
<1> HIDE DEF a
<1>2. part(a.actual) /\ part(a.remaining) /\ part(a.available)
  BY <1>1, RemainingIsPart, AvailableIsPart DEF PoolIsValid, OrNone
<1>3. timing # None => /\ a.expected.den \in Nat /\ 0 < a.expected.den
                       /\ a.expected.num \in Nat /\ Unit * a.expected.den \in Nat
                       /\ a.expected.num <= Unit * a.expected.den
  <2> SUFFICES ASSUME timing # None
               PROVE  /\ a.expected.den \in Nat /\ 0 < a.expected.den
                      /\ a.expected.num \in Nat /\ Unit * a.expected.den \in Nat
                      /\ a.expected.num <= Unit * a.expected.den
    OBVIOUS
  <2>1. a.expected = ExpectedAt(c, timing, t)
    BY <1>1
  <2>2. /\ timing.start \in Int /\ timing.reset \in Int
        /\ LengthOf(timing) \in Nat /\ LengthOf(timing) > 0
    BY TimingHasLength
  <2> HIDE DEF timing
  <2>3. /\ a.expected.den = LengthOf(timing) /\ a.expected.num \in Nat
        /\ Unit * a.expected.den \in Nat /\ a.expected.num <= Unit * a.expected.den
    BY <2>1, <2>2, <1>0, ExpectedIsFraction
  <2> QED
    BY <2>2, <2>3
<1>4. fraction(a.expected)
  <2> SUFFICES ASSUME a.expected # None PROVE fraction(a.expected)
    OBVIOUS
  <2>1. timing # None
    BY <1>1
  <2>2. 0 < a.expected.den /\ 0 <= a.expected.num /\ a.expected.num <= Unit * a.expected.den
    BY <2>1, <1>3
  <2> QED
    BY <2>2
<1>5. a.delta # None => /\ - Unit * a.delta.den <= a.delta.num
                        /\ a.delta.num <= Unit * a.delta.den
  <2> SUFFICES ASSUME a.delta # None
               PROVE  /\ - Unit * a.delta.den <= a.delta.num
                      /\ a.delta.num <= Unit * a.delta.den
    OBVIOUS
  <2>1. timing # None /\ pool.used # None
    BY <1>1
  <2>2. pool.used \in 0 .. Unit
    BY <2>1 DEF PoolIsValid, OrNone
  <2>3. a.delta = PaceDelta(pool.used, a.expected)
    BY <1>1, <2>1
  <2> QED
    BY <2>1, <2>2, <2>3, <1>3, DeltaIsBounded
<1>6. a.today # None => /\ 0 < a.today.den /\ 0 <= a.today.num
                        /\ a.today.num <= Unit * a.today.den
                        /\ a.today.num <= a.available * a.today.den
  <2> SUFFICES ASSUME a.today # None
               PROVE  /\ 0 < a.today.den /\ 0 <= a.today.num
                      /\ a.today.num <= Unit * a.today.den
                      /\ a.today.num <= a.available * a.today.den
    OBVIOUS
  <2> HIDE DEF timing
  <2>1. a.available # None /\ pool.resets # None
    BY <1>1 DEF TodayBudget
  <2>2. a.available \in 0 .. Unit
    BY <1>2, <2>1
  <2>3. pool.resets \in Int /\ pool.resets < Midnights[Len(Midnights)]
    BY <2>1 DEF PoolIsValid, OrNone, ResetIsCovered
  <2>4. a.available \in Nat /\ a.available <= Unit
    BY <2>2, <1>0
  <2>5. a.today = TodayBudget(c, a.available, pool.resets, timing, t)
    BY <1>1
  <2>6. /\ a.today.den \in Nat /\ 0 < a.today.den /\ a.today.num \in Nat
        /\ a.today.num <= a.available * a.today.den
    BY <2>1, <2>3, <2>4, <2>5, TodayIsShare
  <2>7. a.available * a.today.den \in Nat /\ Unit * a.today.den \in Nat
        /\ a.available * a.today.den <= Unit * a.today.den
    BY <2>4, <2>6, <1>0, ProductsRise
  <2> QED
    BY <2>6, <2>7
<1>7. AssessmentValidates(a) /\ (a.today # None => a.today.num <= a.available * a.today.den)
  BY <1>2, <1>4, <1>5, <1>6 DEF AssessmentValidates
<1> QED
  BY <1>7 DEF a

-----------------------------------------------------------------------------
(***************************************************************************)
(* The invariant: the service keeps its setup, the clock stays in the      *)
(* calendar, and every snapshot that is stored or being routed has the     *)
(* pools and the models of a shape.                                        *)
(***************************************************************************)
Snapshots == [captured : Int, pools  : { shape.pools : shape \in Shapes },
                              models : { shape.models : shape \in Shapes }]

SetupKept == \E s \in Setups : config = s.config /\ registry = s.registry

RequestTyped ==
    /\ request.phase \in {"idle", "reading", "routing"}
    /\ request.phase # "idle" => request.task \in Tasks /\ request.now \in Int
    /\ request.phase = "routing" => request.snapshot \in Snapshots

ServiceInv == SetupKept /\ Covered(now) /\ history \in Seq(Snapshots) /\ RequestTyped

LEMMA InitService == Init => ServiceInv
<1> SUFFICES ASSUME Init PROVE ServiceInv
  OBVIOUS
<1> USE DEF Init
<1>1. SetupKept
  BY DEF SetupKept
<1>2. Covered(now)
  BY CalendarAssumption DEF Covered
<1>3. history \in Seq(Snapshots)
  OBVIOUS
<1>4. RequestTyped
  BY DEF RequestTyped, NoRequest
<1> QED
  BY <1>1, <1>2, <1>3, <1>4 DEF ServiceInv

LEMMA LastIsStored ==
  ASSUME NEW h, h \in Seq(Snapshots), h # <<>>
  PROVE  Last(h) \in Snapshots /\ Last(h) = h[Len(h)] /\ Len(h) \in DOMAIN h
BY DEF Last

LEMMA NextKeepsService == ServiceInv /\ [Next]_vars => ServiceInv'
<1> SUFFICES ASSUME ServiceInv, [Next]_vars PROVE ServiceInv'
  OBVIOUS
<1> USE DEF ServiceInv
<1>1. CASE Tick
  <2> USE <1>1 DEF Tick
  <2>1. SetupKept' /\ RequestTyped'
    BY DEF SetupKept, RequestTyped
  <2>2. Covered(now)'
    BY CalendarAssumption, MidnightsAssumption DEF Covered
  <2> QED
    BY <2>1, <2>2
<1>2. ASSUME NEW shape \in Shapes, StoreSnapshot(shape) PROVE ServiceInv'
  <2> USE <1>2 DEF StoreSnapshot
  <2>1. SetupKept' /\ RequestTyped' /\ Covered(now)'
    BY DEF SetupKept, RequestTyped, Covered
  <2>2. [captured |-> now, pools |-> shape.pools, models |-> shape.models] \in Snapshots
    BY DEF Covered, Snapshots
  <2>3. history' \in Seq(Snapshots)
    BY <2>2
  <2> QED
    BY <2>1, <2>3 DEF Snapshots
<1>3. ASSUME NEW task \in Tasks, Ask(task) PROVE ServiceInv'
  <2> USE <1>3 DEF Ask
  <2>1. SetupKept' /\ Covered(now)' /\ (history \in Seq(Snapshots))'
    BY DEF SetupKept, Covered, Snapshots
  <2>2. request'.phase = "reading" /\ request'.task = task /\ request'.now = now
    BY DEF NoRequest
  <2>3. RequestTyped'
    BY <2>2 DEF RequestTyped, Covered
  <2> QED
    BY <2>1, <2>3
<1>4. CASE ReadLatest
  <2> USE <1>4 DEF ReadLatest
  <2>1. SetupKept' /\ Covered(now)' /\ (history \in Seq(Snapshots))'
    BY DEF SetupKept, Covered, Snapshots
  <2>2. CASE history = <<>>
    BY <2>1, <2>2 DEF RequestTyped, NoRequest
  <2>3. CASE history # <<>>
    <3>1. request' = [request EXCEPT !.phase = "routing", !.snapshot = Last(history)]
      BY <2>3
    <3>2. Last(history) \in Snapshots
      BY <2>3, LastIsStored
    <3>3. RequestTyped'
      BY <3>1, <3>2 DEF RequestTyped
    <3> QED
      BY <2>1, <3>3
  <2> QED
    BY <2>2, <2>3
<1>5. CASE Route
  <2> USE <1>5 DEF Route
  <2>1. SetupKept' /\ Covered(now)' /\ (history \in Seq(Snapshots))'
    BY DEF SetupKept, Covered, Snapshots
  <2>2. RequestTyped'
    BY DEF RequestTyped, NoRequest
  <2> QED
    BY <2>1, <2>2
<1>6. CASE UNCHANGED vars
  BY <1>6 DEF vars, SetupKept, RequestTyped, Covered, Snapshots
<1> QED
  BY <1>1, <1>2, <1>3, <1>4, <1>5, <1>6 DEF Next

\* The state the service reads is what was stored: the configuration it was built with,
\* valid snapshots in their order, a clock the calendar covers.
THEOREM ServiceIsConsistent == Spec => []ServiceInv
BY InitService, NextKeepsService, PTL DEF Spec

LEMMA StoredPools ==
  ASSUME NEW snapshot \in Snapshots, NEW i \in DOMAIN snapshot.pools
  PROVE  PoolIsValid(snapshot.pools[i]) /\ ResetIsCovered(snapshot.pools[i])
<1>1. PICK shape \in Shapes : snapshot.pools = shape.pools
  BY DEF Snapshots
<1> QED
  BY <1>1, PoolsAreValid, CalendarAssumption DEF ResetIsCovered

LEMMA SetupIsValid ==
  ASSUME SetupKept
  PROVE  ConfigIsValid(config) /\ (registry # None => RegistryIsValid(registry))
BY SetupsAreValid DEF SetupKept

LEMMA InvValidates == ServiceInv => ReportsAlwaysValidate
<1> SUFFICES ASSUME ServiceInv, history # <<>>, NEW i \in DOMAIN Report.pools
             PROVE  LET a == Report.pools[i]
                    IN  /\ AssessmentValidates(a)
                        /\ a.today # None => a.today.num <= a.available * a.today.den
  BY DEF ReportsAlwaysValidate
<1> DEFINE latest == Last(history)
<1>1. latest \in Snapshots
  BY LastIsStored DEF ServiceInv
<1>2. Report.pools = [j \in DOMAIN latest.pools |-> AssessPool(config, latest.pools[j], now)]
  BY DEF Report, Evaluate
<1> HIDE DEF latest
<1>3. i \in DOMAIN latest.pools /\ Report.pools[i] = AssessPool(config, latest.pools[i], now)
  BY <1>2
<1>4. PoolIsValid(latest.pools[i]) /\ ResetIsCovered(latest.pools[i])
  BY <1>1, <1>3, StoredPools
<1>5. ConfigIsValid(config) /\ Covered(now)
  BY SetupIsValid DEF ServiceInv
<1> QED
  BY <1>3, <1>4, <1>5, AssessmentIsValid

\* No report evaluate makes is refused by its validators, whatever the quota, the window and
\* the weights: no quotient by zero, no share above the whole.
THEOREM ReportsValidate == Spec => []ReportsAlwaysValidate
BY ServiceIsConsistent, InvValidates, PTL

-----------------------------------------------------------------------------
(***************************************************************************)
(* The plan of the days.                                                   *)
(***************************************************************************)
\* The weight of the days from today to the last one, and that of the days after today.
LEMMA TotalOfDays ==
  ASSUME NEW c, c.weights \in [0 .. 6 -> Nat], NEW today \in Int, NEW last \in Int, today <= last
  PROVE  LET weight == c.weights[WeekdayOf(today)]
             others == NormalizedWeightTotal(c, WeekdayOf(today + 1), last - today)
         IN  /\ weight \in Nat /\ c.weights[WeekdayOf(today + 1)] \in Nat /\ others \in Nat
             /\ NormalizedWeightTotal(c, WeekdayOf(today), last - today + 1) = weight + others
             /\ last = today => others = 0
<1> DEFINE first == WeekdayOf(today)
           second == WeekdayOf(today + 1)
           count == last - today + 1
<1>1. first \in 0 .. 6 /\ second \in 0 .. 6 /\ second = (first + 1) % 7
  <2>1. today + 1 \in Int
    OBVIOUS
  <2> QED
    BY <2>1, WeekdayIsOne
<1>2. count \in Nat /\ count > 0 /\ last - today = count - 1 /\ count - 1 \in Nat
  OBVIOUS
<1> HIDE DEF first, second, count
<1>3. /\ NormalizedWeightTotal(c, second, count - 1) \in Nat
      /\ NormalizedWeightTotal(c, first, count)
         = c.weights[first] + NormalizedWeightTotal(c, second, count - 1)
  BY <1>1, <1>2, TotalCountsFirst, TotalUnfolds
<1>4. c.weights[first] \in Nat /\ c.weights[second] \in Nat
  BY <1>1
<1>5. count - 1 = 0 => NormalizedWeightTotal(c, second, count - 1) = 0
  <2> SUFFICES ASSUME count - 1 = 0 PROVE NormalizedWeightTotal(c, second, 0) = 0
    BY <1>2
  <2>1. 0 \div 7 = 0 /\ 0 % 7 = 0 /\ 0 \in 0 .. 6
    OBVIOUS
  <2>2. Rest(c.weights, second, 0) = 0 /\ WeekSum(c.weights) \in Nat
    BY <1>1, <2>1, RestIs, WeekIsNat
  <2>3. NormalizedWeightTotal(c, second, 0) = 0 * WeekSum(c.weights) + 0
    BY <2>1, <2>2, TotalIs
  <2> QED
    BY <2>2, <2>3
<1>6. last = today => count - 1 = 0
  BY <1>2
<1>7. /\ c.weights[first] \in Nat /\ c.weights[second] \in Nat
      /\ NormalizedWeightTotal(c, second, last - today) \in Nat
      /\ NormalizedWeightTotal(c, first, count)
         = c.weights[first] + NormalizedWeightTotal(c, second, last - today)
      /\ last = today => NormalizedWeightTotal(c, second, last - today) = 0
  BY <1>2, <1>3, <1>4, <1>5, <1>6
<1> QED
  BY <1>7 DEF first, second, count

\* The share of a day on which the reset is to come.
LEMMA ShareOfDay ==
  ASSUME NEW c, ConfigIsValid(c), NEW timing, NEW t, Covered(t), NEW reset, Covered(reset),
         t < reset, ~ (timing # None /\ t < timing.start)
  PROVE  LET share  == TodayBudget(c, 1, reset, timing, t)
             weight == c.weights[WeekdayOf(LocalDay(t))]
             others == NormalizedWeightTotal(c, WeekdayOf(LocalDay(t) + 1),
                                             LastDay(reset) - LocalDay(t))
         IN  /\ weight \in Nat /\ others \in Nat
             /\ weight + others = 0 => share = None
             /\ weight + others # 0 => share # None /\ share.num = weight
                                       /\ share.den = weight + others
<1> DEFINE today == LocalDay(t)
           last == LastDay(reset)
           share  == TodayBudget(c, 1, reset, timing, t)
           weight == c.weights[WeekdayOf(today)]
           others == NormalizedWeightTotal(c, WeekdayOf(today + 1), last - today)
<1>1. /\ t \in Int /\ reset \in Int /\ c.weights \in [0 .. 6 -> Nat] /\ reset # None /\ 1 # None
      /\ Len(Midnights) \in Nat
  BY MidnightsAssumption, NoneIsNoNumber DEF Covered, ConfigIsValid, WeightsAreValid
<1>2. today \in Days /\ last \in Days /\ today <= last
  BY LocalDayOf, LastDayIsToCome
<1>3. today \in Int /\ last \in Int
  <2> HIDE DEF today, last
  <2> QED
    BY <1>1, <1>2 DEF Days
<1>4. weight \in Nat /\ others \in Nat
      /\ NormalizedWeightTotal(c, WeekdayOf(today), last - today + 1) = weight + others
  <2> HIDE DEF today, last
  <2> QED
    BY <1>1, <1>2, <1>3, TotalOfDays
<1>5. ~ (reset <= t)
  BY <1>1
<1>6. share = IF weight + others = 0 THEN None
              ELSE [num |-> 1 * weight, den |-> weight + others]
  BY <1>1, <1>4, <1>5 DEF TodayBudget
<1> HIDE DEF share, weight, others
<1>7. 1 * weight = weight
  BY <1>4
<1>8. /\ weight \in Nat /\ others \in Nat
      /\ weight + others = 0 => share = None
      /\ weight + others # 0 => share # None /\ share.num = weight
                                /\ share.den = weight + others
  BY <1>4, <1>6, <1>7, NoneIsNoQuotient
<1> QED
  BY <1>8 DEF share, weight, others

\* The reset falls on the last day, which is today.
LEMMA LastDayIsToday ==
  ASSUME NEW t, Covered(t), NEW reset, Covered(reset), t < reset,
         reset <= Midnights[LocalDay(t) + 1]
  PROVE  LastDay(reset) = LocalDay(t)
<1> DEFINE today == LocalDay(t)
<1>1. /\ t \in Int /\ reset \in Int /\ Len(Midnights) \in Nat
      /\ reset < Midnights[Len(Midnights)]
  BY MidnightsAssumption DEF Covered
<1>2. today \in Days /\ Midnights[today] <= t /\ reset <= Midnights[today + 1]
  BY LocalDayOf
<1> HIDE DEF today
<1>3. today \in Int /\ today + 1 \in 1 .. Len(Midnights) /\ today \in 1 .. Len(Midnights)
  BY <1>1, <1>2 DEF Days
<1>4. Midnights[today] \in Int /\ Midnights[today + 1] \in Int
  BY <1>3, MidnightIsInstant
<1>5. Midnights[today] < reset
  BY <1>1, <1>2, <1>4
<1>6. CASE reset = Midnights[today + 1]
  <2>1. today + 1 # Len(Midnights)
    BY <1>1, <1>6
  <2>2. today + 1 \in Days
    BY <2>1, <1>1, <1>3 DEF Days
  <2>3. Midnights[today + 1] < Midnights[today + 1 + 1]
    BY <2>2, MidnightsAssumption DEF Days
  <2>4. LocalDay(reset) = today + 1
    BY <2>2, <2>3, <1>6, <1>4, LocalDayIs
  <2>5. Midnights[LocalDay(reset)] = reset
    BY <2>4, <1>6
  <2>6. LastDay(reset) = LocalDay(reset) - 1
    BY <2>5 DEF LastDay
  <2>7. LastDay(reset) = today
    BY <2>4, <2>6, <1>3
  <2> QED
    BY <2>7 DEF today
<1>7. CASE reset < Midnights[today + 1]
  <2>1. LocalDay(reset) = today
    BY <1>5, <1>7, <1>2, <1>1, <1>4, LocalDayIs
  <2>2. LastDay(reset) = today
    BY <2>1, <1>5, <1>1, <1>4 DEF LastDay
  <2> QED
    BY <2>2 DEF today
<1> QED
  BY <1>1, <1>2, <1>4, <1>6, <1>7

\* The next midnight begins the next day.
LEMMA MidnightBeginsDay ==
  ASSUME NEW t, Covered(t), NEW reset, Covered(reset), Midnights[LocalDay(t) + 1] < reset
  PROVE  /\ Covered(Midnights[LocalDay(t) + 1])
         /\ LocalDay(Midnights[LocalDay(t) + 1]) = LocalDay(t) + 1
<1> DEFINE today == LocalDay(t)
<1>1. /\ t \in Int /\ reset \in Int /\ Len(Midnights) \in Nat /\ Len(Midnights) > 1
      /\ reset < Midnights[Len(Midnights)] /\ Midnights[1] <= t
  BY MidnightsAssumption DEF Covered
<1>2. today \in Days /\ t < Midnights[today + 1] /\ Midnights[today + 1] < reset
  BY LocalDayOf
<1> HIDE DEF today
<1>3. /\ today \in Int /\ today + 1 \in 1 .. Len(Midnights)
      /\ 1 \in 1 .. Len(Midnights) /\ Len(Midnights) \in 1 .. Len(Midnights)
  BY <1>1, <1>2 DEF Days
<1>4. /\ Midnights[today + 1] \in Int /\ Midnights[1] \in Int
      /\ Midnights[Len(Midnights)] \in Int
  BY <1>3, MidnightIsInstant
<1>5. Covered(Midnights[today + 1])
  BY <1>1, <1>2, <1>4 DEF Covered
<1>6. today + 1 # Len(Midnights)
  BY <1>1, <1>2, <1>4
<1>7. today + 1 \in Days
  BY <1>6, <1>1, <1>3 DEF Days
<1>8. Midnights[today + 1] < Midnights[today + 1 + 1]
  BY <1>7, MidnightsAssumption DEF Days
<1>9. LocalDay(Midnights[today + 1]) = today + 1
  BY <1>4, <1>5, <1>7, <1>8, LocalDayIs
<1> QED
  BY <1>5, <1>9 DEF today

LEMMA PlanIsKept ==
  ASSUME NEW c, ConfigIsValid(c), NEW reset, Covered(reset),
         NEW timing, timing # None => timing.start \in Int,
         NEW t, Covered(t), t < reset,
         TodayBudget(c, 1, reset, timing, t) # None
  PROVE  LET today == LocalDay(t)
             s == TodayBudget(c, 1, reset, timing, t)
             next == TodayBudget(c, 1, reset, timing, Midnights[today + 1])
             weight(d) == c.weights[WeekdayOf(d)]
         IN  IF reset <= Midnights[today + 1] THEN s.num = s.den
             ELSE IF next = None THEN s.num = s.den
             ELSE next.num * (s.den - s.num) * weight(today)
                  = weight(today + 1) * s.num * next.den
<1> DEFINE today == LocalDay(t)
           last == LastDay(reset)
           s == TodayBudget(c, 1, reset, timing, t)
           midnight == Midnights[today + 1]
           next == TodayBudget(c, 1, reset, timing, midnight)
           weight == c.weights[WeekdayOf(today)]
           tomorrow == c.weights[WeekdayOf(today + 1)]
           others == NormalizedWeightTotal(c, WeekdayOf(today + 1), last - today)
<1>1. /\ t \in Int /\ reset \in Int /\ c.weights \in [0 .. 6 -> Nat] /\ reset # None
      /\ Len(Midnights) \in Nat
  BY MidnightsAssumption, NoneIsNoNumber DEF Covered, ConfigIsValid, WeightsAreValid
<1>2. today \in Days /\ t < midnight /\ last \in Days /\ today <= last
  BY LocalDayOf, LastDayIsToCome
<1>3. today \in Int /\ last \in Int /\ today + 1 \in 1 .. Len(Midnights)
  <2> HIDE DEF today, last
  <2> QED
    BY <1>1, <1>2 DEF Days
<1>4. midnight \in Int
  <2> HIDE DEF today
  <2> QED
    BY <1>3, MidnightIsInstant
<1>5. ~ (timing # None /\ t < timing.start)
  <2>1. ~ (reset <= t)
    BY <1>1
  <2> QED
    BY <2>1, <1>1, NoneIsNoNumber DEF TodayBudget
<1>6. weight \in Nat /\ others \in Nat /\ s.num = weight /\ s.den = weight + others
  <2>1. /\ weight \in Nat /\ others \in Nat
        /\ weight + others = 0 => s = None
        /\ weight + others # 0 => s # None /\ s.num = weight /\ s.den = weight + others
    BY <1>5, ShareOfDay
  <2>2. s # None
    OBVIOUS
  <2> HIDE DEF s, weight, others
  <2> QED
    BY <2>1, <2>2
<1>7. CASE reset <= midnight
  <2>1. others = 0
    <3>1. last = today
      BY <1>7, LastDayIsToday
    <3> HIDE DEF last, today
    <3> QED
      BY <3>1, <1>1, <1>2, <1>3, TotalOfDays
  <2> HIDE DEF s, weight, others
  <2>2. s.num = s.den
    BY <2>1, <1>6
  <2> QED
    BY <2>2, <1>7 DEF s
<1>8. CASE midnight < reset
  <2> DEFINE day == LocalDay(midnight)
             rest == NormalizedWeightTotal(c, WeekdayOf(day + 1), last - day)
  <2>1. ~ (reset <= midnight)
    BY <1>8, <1>1, <1>4
  <2>2. Covered(midnight) /\ day = today + 1
    BY <1>8, MidnightBeginsDay
  <2>3. tomorrow = c.weights[WeekdayOf(day)]
    BY <2>2
  <2>4. ~ (timing # None /\ midnight < timing.start)
    <3> HIDE DEF midnight
    <3> QED
      BY <1>1, <1>2, <1>4, <1>5
  <2>5. /\ tomorrow \in Nat /\ rest \in Nat
        /\ tomorrow + rest = 0 => next = None
        /\ tomorrow + rest # 0 => next # None /\ next.num = tomorrow
                                  /\ next.den = tomorrow + rest
    <3> HIDE DEF midnight
    <3> QED
      BY <2>2, <2>3, <2>4, <1>8, ShareOfDay
  <2>6. others = tomorrow + rest
    <3>1. day <= last
      BY <2>2, <1>8, LastDayIsToCome
    <3>2. others = NormalizedWeightTotal(c, WeekdayOf(day), last - today)
      BY <2>2
    <3> HIDE DEF day, last, today, others, tomorrow
    <3>3. day \in Int /\ last - day + 1 = last - today
      BY <2>2, <1>3
    <3>4. NormalizedWeightTotal(c, WeekdayOf(day), last - day + 1)
          = c.weights[WeekdayOf(day)] + rest
      BY <3>1, <3>3, <1>1, <1>3, TotalOfDays
    <3> QED
      BY <2>3, <3>2, <3>3, <3>4
  <2> HIDE DEF s, next, weight, tomorrow, others, rest
  <2>7. CASE others = 0
    <3>1. next = None /\ s.num = s.den
      BY <2>5, <2>6, <2>7, <1>6
    <3> QED
      BY <3>1, <2>1 DEF s, next
  <2>8. CASE others # 0
    <3>1. next # None /\ next.num = tomorrow /\ next.den = others
      BY <2>5, <2>6, <2>8
    <3>2. s.den - s.num = others
      BY <1>6
    <3>3. \A x, y, z \in Nat : x * y * z = x * z * y
      OBVIOUS
    <3>4. next.num * (s.den - s.num) * weight = tomorrow * s.num * next.den
      BY <3>1, <3>2, <3>3, <2>5, <1>6
    <3> QED
      BY <3>1, <3>4, <2>1 DEF s, next, weight, tomorrow
  <2> QED
    BY <2>7, <2>8
<1> QED
  BY <1>7, <1>8, <1>1, <1>4

LEMMA InvKeepsPlan == ServiceInv => AllocationKeepsItsPlan
<1> SUFFICES ASSUME ServiceInv, history # <<>>, NEW i \in DOMAIN Last(history).pools
             PROVE
        LET pool     == Last(history).pools[i]
            timing   == ResolveTiming(pool)
            today    == LocalDay(now)
            share(t) == TodayBudget(config, 1, pool.resets, timing, t)
            weight(d) == config.weights[WeekdayOf(d)]
        IN  (pool.resets # None /\ pool.resets > now /\ share(now) # None) =>
            LET s == share(now)
            IN  IF pool.resets <= Midnights[today + 1]
                THEN s.num = s.den
                ELSE LET t == share(Midnights[today + 1])
                     IN  IF t = None THEN s.num = s.den
                         ELSE t.num * (s.den - s.num) * weight(today)
                              = weight(today + 1) * s.num * t.den
  BY DEF AllocationKeepsItsPlan
<1> DEFINE pool   == Last(history).pools[i]
           timing == ResolveTiming(pool)
<1>1. Last(history) \in Snapshots /\ Covered(now) /\ ConfigIsValid(config)
  BY LastIsStored, SetupIsValid DEF ServiceInv
<1>2. PoolIsValid(pool) /\ ResetIsCovered(pool)
  BY <1>1, StoredPools
<1>3. timing # None => timing.start \in Int
  <2> HIDE DEF pool
  <2> QED
    BY <1>2, TimingHasLength
<1> HIDE DEF pool, timing
<1>4. pool.resets # None /\ pool.resets > now => Covered(pool.resets) /\ now < pool.resets
  BY <1>1, <1>2, MidnightsAssumption DEF Covered, PoolIsValid, OrNone, ResetIsCovered
<1> QED
  BY <1>1, <1>3, <1>4, PlanIsKept DEF pool, timing

\* Spending exactly the share of a day leaves tomorrow the share its weight promised,
\* whatever the weights, the calendar and the reset.
THEOREM PlanOfDays == Spec => []AllocationKeepsItsPlan
BY ServiceIsConsistent, InvKeepsPlan, PTL

-----------------------------------------------------------------------------
(***************************************************************************)
(* The forecast.                                                           *)
(***************************************************************************)
\* What holds at zero and passes to the next number holds up to any number.
LEMMA UpTo ==
  ASSUME NEW N \in Nat, NEW S, 0 \in S, \A n \in 0 .. N : n \in S /\ n < N => n + 1 \in S
  PROVE  \A n \in 0 .. N : n \in S
<1> DEFINE Wrong == { n \in Nat : n <= N /\ n \notin S }
<1>1. ASSUME Wrong # {} PROVE FALSE
  <2>1. Wrong \subseteq Nat
    OBVIOUS
  <2>2. PICK n \in Wrong : \A m \in Wrong : n <= m
    <3> HIDE DEF Wrong
    <3> QED
      BY <1>1, <2>1, LeastOf
  <2>3. n \in Nat /\ n <= N /\ n \notin S /\ n # 0
    OBVIOUS
  <2>4. n - 1 \in 0 .. N /\ n - 1 < N /\ n - 1 + 1 = n /\ n - 1 \in Nat /\ ~ (n <= n - 1)
    BY <2>3
  <2>5. n - 1 \notin Wrong
    <3> HIDE DEF Wrong
    <3> QED
      BY <2>2, <2>4
  <2>6. n - 1 \in S
    BY <2>4, <2>5
  <2>7. n - 1 + 1 \in S
    BY <2>4, <2>6
  <2> QED
    BY <2>3, <2>4, <2>7
<1>2. Wrong = {}
  <2> HIDE DEF Wrong
  <2> QED
    BY <1>1
<1> QED
  BY <1>2

\* A set of days that leaves out none before one of its own has no gaps.
LEMMA NoGaps ==
  ASSUME NEW a \in Int, NEW M \in Nat, NEW D, D \subseteq a .. a + M - 1,
         \A d \in D : \A e \in a .. d : e \in D
  PROVE  /\ Cardinality(D) \in Nat /\ IsFiniteSet(D)
         /\ \A d \in Int : d \in D <=> a <= d /\ d <= a + Cardinality(D) - 1
<1> DEFINE Missing == { k \in Nat : a + k \notin D }
<1>1. M \in Missing /\ Missing \subseteq Nat
  <2>1. ~ (a + M <= a + M - 1)
    OBVIOUS
  <2> QED
    BY <2>1
<1>2. PICK n \in Missing : \A k \in Missing : n <= k
  <2> HIDE DEF Missing
  <2> QED
    BY <1>1, LeastOf
<1>3. n \in Nat /\ a + n \notin D
  OBVIOUS
<1>4. \A d \in Int : d \in D <=> a <= d /\ d <= a + n - 1
  <2> TAKE d \in Int
  <2>1. ASSUME d \in D PROVE a <= d /\ d <= a + n - 1
    <3>1. a <= d
      BY <2>1
    <3>2. ~ (a + n <= d)
      BY <1>3, <2>1
    <3> QED
      BY <3>1, <3>2, <1>3
  <2>2. ASSUME a <= d, d <= a + n - 1 PROVE d \in D
    <3>1. d - a \in Nat /\ ~ (n <= d - a) /\ a + (d - a) = d
      BY <2>2, <1>3
    <3>2. d - a \notin Missing
      <4> HIDE DEF Missing
      <4> QED
        BY <3>1, <1>2
    <3> QED
      BY <3>1, <3>2
  <2> QED
    BY <2>1, <2>2
<1> HIDE DEF Missing
<1>5. D = a .. a + n - 1
  <2>1. ASSUME NEW d PROVE d \in D <=> d \in a .. a + n - 1
    <3>1. d \in D => d \in Int
      OBVIOUS
    <3>2. d \in a .. a + n - 1 <=> d \in Int /\ a <= d /\ d <= a + n - 1
      BY <1>3
    <3> QED
      BY <3>1, <3>2, <1>4
  <2> QED
    BY <2>1
<1>6. IsFiniteSet(D) /\ Cardinality(D) = n
  <2>1. a + n - 1 \in Int /\ (a + n - 1) - a + 1 = n /\ (a > a + n - 1 => n = 0)
    BY <1>3
  <2> QED
    BY <2>1, <1>5, FS_Interval
<1> QED
  BY <1>3, <1>4, <1>6

LEMMA EndpointIs ==
  ASSUME NEW d \in Days, NEW reset, Covered(reset)
  PROVE  /\ Endpoint(d, reset) \in Int /\ Midnights[d] \in Int /\ Midnights[d + 1] \in Int
         /\ Endpoint(d, reset) # reset => Endpoint(d, reset) = Midnights[d + 1]
<1>1. d \in 1 .. Len(Midnights) /\ d + 1 \in 1 .. Len(Midnights)
  BY MidnightsAssumption DEF Days
<1> QED
  BY <1>1, MidnightIsInstant DEF Endpoint, Covered

\* The days with a point follow one another from today on, and the calendar has them.
LEMMA DaysOfForecast ==
  ASSUME NEW now0, Covered(now0), NEW reset, Covered(reset), now0 < reset, NEW last
  PROVE  LET today == LocalDay(now0)
             days  == ForecastDays(today, last, reset)
             n     == Cardinality(days)
         IN  /\ n \in Nat /\ today \in Int
             /\ \A k \in 1 .. n : /\ today + k - 1 \in Days
                                  /\ Endpoint(today + k - 1, reset)
                                     > IntervalStart(today + k - 1, today, last)
                                  /\ k < n => Endpoint(today + k - 1, reset) # reset
<1> DEFINE today == LocalDay(now0)
           days  == ForecastDays(today, last, reset)
           n     == Cardinality(days)
           r     == LocalDay(reset)
<1>1. /\ today \in Days /\ r \in Days /\ reset < Midnights[r + 1] /\ today <= r
  <2>1. today \in Days /\ r \in Days /\ reset < Midnights[r + 1]
    BY LocalDayOf
  <2>2. LastDay(reset) \in Days /\ today <= LastDay(reset)
    BY LastDayIsToCome
  <2>3. LastDay(reset) = r \/ LastDay(reset) = r - 1
    BY DEF LastDay
  <2> HIDE DEF today, r
  <2> QED
    BY <2>1, <2>2, <2>3, MidnightsAssumption DEF Days
<1> HIDE DEF today, r
<1>2. today \in Int /\ r \in Int /\ Len(Midnights) \in Nat /\ MaxPoints \in Nat
  BY <1>1, MidnightsAssumption, ForecastAssumption DEF Days
<1>3. \A d \in days : \A e \in today .. d : e \in days
  BY <1>2 DEF ForecastDays
<1>4. days \subseteq today .. today + MaxPoints - 1
  BY DEF ForecastDays
<1>5. /\ n \in Nat
      /\ \A d \in Int : d \in days <=> today <= d /\ d <= today + n - 1
  <2> HIDE DEF days
  <2> QED
    BY <1>2, <1>3, <1>4, NoGaps
<1>6. \A d \in days : d <= r
  <2> SUFFICES ASSUME NEW d \in days, r < d PROVE FALSE
    BY <1>2, <1>4
  <2>1. r \in today .. d
    BY <1>1, <1>2, <1>4
  <2>2. Endpoint(r, reset) # reset
    BY <2>1 DEF ForecastDays
  <2>3. Midnights[r + 1] \in Int /\ reset \in Int
    BY <1>1, EndpointIs DEF Covered
  <2> QED
    BY <2>2, <2>3, <1>1 DEF Endpoint
<1>7. ASSUME NEW k \in 1 .. n
      PROVE  /\ today + k - 1 \in Days
             /\ Endpoint(today + k - 1, reset) > IntervalStart(today + k - 1, today, last)
             /\ k < n => Endpoint(today + k - 1, reset) # reset
  <2> DEFINE d == today + k - 1
  <2>1. d \in Int /\ today <= d /\ d <= today + n - 1 /\ (k < n => d + 1 <= today + n - 1)
    <3> HIDE DEF n
    <3> QED
      BY <1>2, <1>5
  <2>2. d \in days /\ (k < n => d + 1 \in days)
    <3> HIDE DEF days, d
    <3> QED
      BY <2>1, <1>2, <1>5
  <2>3. d <= r
    BY <1>6, <2>2
  <2> HIDE DEF d
  <2>4. d \in Days
    BY <2>1, <2>3, <1>1, <1>2 DEF Days
  <2>5. d \in today .. d /\ d \in today .. d + 1 /\ d < d + 1
    BY <2>1, <1>2
  <2>6. Endpoint(d, reset) > IntervalStart(d, today, last)
    BY <2>2, <2>5 DEF ForecastDays
  <2>7. k < n => Endpoint(d, reset) # reset
    BY <2>2, <2>5 DEF ForecastDays
  <2> QED
    BY <2>4, <2>6, <2>7 DEF d
<1> QED
  BY <1>2, <1>5, <1>7 DEF today

\* The recursion of the projection has its solution.
LEMMA ProjectedIs ==
  ASSUME NEW first, NEW last, NEW today, NEW reset, NEW days, Cardinality(days) \in Nat
  PROVE  LET used == Projected(first, last, today, reset, days)
             span == last.at - first.at
             rate == (last.used - first.used) * DayLength(today)
         IN  /\ used[0] = last.used * Scale(span)
             /\ \A k \in 1 .. Cardinality(days) :
                   used[k] = used[k - 1] + rate * DayShare(today + k - 1, today, last, reset)
<1> DEFINE span == last.at - first.at
           rate == (last.used - first.used) * DayLength(today)
           base == last.used * Scale(span)
           share(k) == rate * DayShare(today + k - 1, today, last, reset)
           Solves(f, m) == f = [k \in 0 .. m |-> IF k = 0 THEN base ELSE f[k - 1] + share(k)]
           N == Cardinality(days)
           S == { m \in Nat : \E f : Solves(f, m) }
<1>1. 0 \in S
  <2> DEFINE f == [k \in 0 .. 0 |-> base]
  <2>1. Solves(f, 0)
    OBVIOUS
  <2> QED
    BY <2>1
<1>2. ASSUME NEW m \in Nat, m \in S PROVE m + 1 \in S
  <2> PICK f : Solves(f, m)
    BY <1>2
  <2> HIDE DEF base, share
  <2> DEFINE g == [k \in 0 .. m + 1 |-> IF k <= m THEN f[k] ELSE f[m] + share(m + 1)]
             h == [k \in 0 .. m + 1 |-> IF k = 0 THEN base ELSE g[k - 1] + share(k)]
  <2>1. ASSUME NEW k \in 0 .. m + 1 PROVE g[k] = h[k]
    <3>1. CASE k = 0
      BY <3>1
    <3>2. CASE k \in 1 .. m
      <4>1. f[k] = f[k - 1] + share(k)
        BY <3>2
      <4>2. k - 1 \in 0 .. m + 1 /\ k - 1 <= m /\ k # 0 /\ k <= m
        BY <3>2
      <4>3. g[k] = f[k] /\ g[k - 1] = f[k - 1]
        BY <4>2
      <4> QED
        BY <4>1, <4>2, <4>3
    <3>3. CASE k = m + 1
      <4>1. m \in 0 .. m + 1 /\ m <= m /\ k - 1 = m /\ k # 0 /\ ~ (k <= m)
        BY <3>3
      <4>2. g[m] = f[m] /\ g[k] = f[m] + share(m + 1)
        BY <4>1
      <4> QED
        BY <4>1, <4>2, <3>3
    <3> QED
      BY <3>1, <3>2, <3>3
  <2>2. g = h
    <3>1. DOMAIN g = 0 .. m + 1 /\ DOMAIN h = 0 .. m + 1
      OBVIOUS
    <3>2. g = [k \in 0 .. m + 1 |-> g[k]] /\ h = [k \in 0 .. m + 1 |-> h[k]]
      OBVIOUS
    <3> HIDE DEF g, h
    <3> QED
      BY <2>1, <3>2
  <2>3. Solves(g, m + 1)
    BY <2>2
  <2>4. m + 1 \in Nat
    OBVIOUS
  <2> HIDE DEF Solves, g
  <2> QED
    BY <2>3, <2>4
<1>3. N \in S
  <2> HIDE DEF S
  <2> QED
    BY <1>1, <1>2, UpTo
<1>4. \E f : Solves(f, N)
  BY <1>3
<1> DEFINE used == Projected(first, last, today, reset, days)
<1>5. used = CHOOSE f : Solves(f, N)
  BY DEF Projected
<1> HIDE DEF base, share, N
<1>6. Solves(used, N)
  <2> HIDE DEF Solves, used
  <2> QED
    BY <1>4, <1>5
<1> HIDE DEF used
<1>7. used[0] = base /\ \A k \in 1 .. N : used[k] = used[k - 1] + share(k)
  <2>0. N \in Nat
    BY DEF N
  <2>1. used = [k \in 0 .. N |-> IF k = 0 THEN base ELSE used[k - 1] + share(k)]
    BY <1>6
  <2>2. \A k \in 0 .. N : used[k] = IF k = 0 THEN base ELSE used[k - 1] + share(k)
    BY <2>1
  <2> QED
    BY <2>0, <2>2
<1> QED
  BY <1>7 DEF used, base, share, N

LEMMA DivisionIsExact ==
  ASSUME NEW a \in Nat, NEW L \in Nat, L > 0, a % L = 0
  PROVE  (a \div L) \in Int /\ L * (a \div L) = a
OBVIOUS

LEMMA DayLengthIs ==
  ASSUME NEW d \in Days
  PROVE  /\ DayLength(d) \in Int /\ DayScale \div DayLength(d) \in Int /\ DayScale \in Int
         /\ DayLength(d) * (DayScale \div DayLength(d)) = DayScale
<1>1. d \in 1 .. Len(Midnights) /\ d + 1 \in 1 .. Len(Midnights)
  BY MidnightsAssumption DEF Days
<1>2. Midnights[d] \in Int /\ Midnights[d + 1] \in Int /\ Midnights[d] < Midnights[d + 1]
  BY <1>1, MidnightIsInstant, MidnightsAssumption DEF Days
<1>3. DayLength(d) \in Nat /\ DayLength(d) > 0
  BY <1>2 DEF DayLength
<1>4. DayScale \in Nat /\ DayScale % DayLength(d) = 0
  BY ForecastAssumption DEF Days
<1> QED
  BY <1>3, <1>4, DivisionIsExact

\* The line through the two samples, at some instant.
Line(first, last, at) ==
    DayScale * (last.used * (last.at - first.at) + (last.used - first.used) * (at - last.at))

\* On days of one length, the use at the end of a day lies on the line.
LEMMA UseIsOnLine ==
  ASSUME NEW now0, Covered(now0), NEW reset, Covered(reset), now0 < reset,
         NEW first, NEW last, first.at \in Int, last.at \in Int,
         first.used \in Int, last.used \in Int,
         NEW today, today = LocalDay(now0), NEW days, days = ForecastDays(today, last, reset),
         NEW k \in 1 .. Cardinality(days),
         \A d \in today .. today + k - 1 : DayLength(d) = DayLength(today)
  PROVE  Projected(first, last, today, reset, days)[k]
         = Line(first, last, Endpoint(today + k - 1, reset))
<1> DEFINE used == Projected(first, last, today, reset, days)
           n == Cardinality(days)
           du == last.used - first.used
           L == DayLength(today)
           span == last.at - first.at
           end(j) == IF j = 0 THEN last.at ELSE Endpoint(today + j - 1, reset)
           Regular(j) == \A d \in today .. today + j - 1 : DayLength(d) = L
           S == { j \in 0 .. n : Regular(j) => used[j] = Line(first, last, end(j)) }
<1>1. /\ n \in Nat /\ today \in Int
      /\ \A j \in 1 .. n : /\ today + j - 1 \in Days
                           /\ j < n => Endpoint(today + j - 1, reset) # reset
  BY DaysOfForecast
<1>2. /\ used[0] = last.used * (span * DayScale)
      /\ \A j \in 1 .. n :
           used[j] = used[j - 1] + (du * L) * DayShare(today + j - 1, today, last, reset)
  BY <1>1, ProjectedIs DEF Scale
<1>3. du \in Int /\ span \in Int /\ last.used \in Int /\ last.at \in Int
  OBVIOUS
<1>4. today \in Days
  BY LocalDayOf
<1>5. L \in Int /\ DayScale \in Int
  BY <1>4, DayLengthIs
<1> HIDE DEF used, n, L, du, span
<1>6. 0 \in S
  <2>1. used[0] = DayScale * (last.used * span + du * (last.at - last.at))
    <3>1. last.used * (span * DayScale) = DayScale * (last.used * span + du * (last.at - last.at))
      <4>1. \A u, s, z, x, y \in Int : u * (s * z) = z * (u * s + x * (y - y))
        OBVIOUS
      <4> QED
        BY <4>1, <1>3, <1>5
    <3> QED
      BY <3>1, <1>2
  <2>2. used[0] = Line(first, last, end(0))
    BY <2>1 DEF Line, span, du
  <2> QED
    BY <2>2, <1>1
<1>7. ASSUME NEW j \in 0 .. n, j \in S, j < n PROVE j + 1 \in S
  <2> SUFFICES ASSUME Regular(j + 1) PROVE used[j + 1] = Line(first, last, end(j + 1))
    BY <1>7, <1>1
  <2> DEFINE d == today + j
             q == DayScale \div L
  <2>1. j + 1 \in 1 .. n /\ today + (j + 1) - 1 = d /\ j + 1 - 1 = j /\ j + 1 # 0 /\ d \in Int
    BY <1>1, <1>7
  <2>2. d \in Days
    BY <1>1, <2>1
  <2>3. /\ Regular(j) /\ DayLength(d) = L
    <3>1. d \in today .. today + (j + 1) - 1
      BY <1>1, <1>7
    <3>2. \A e \in today .. today + j - 1 : e \in today .. today + (j + 1) - 1
      BY <1>1, <1>7
    <3> QED
      BY <3>1, <3>2
  <2>4. used[j] = Line(first, last, end(j))
    BY <2>3, <1>7
  <2>5. IntervalStart(d, today, last) = end(j) /\ end(j) \in Int
    <3>1. CASE j = 0
      <4>1. d = today
        BY <3>1, <1>1
      <4> QED
        BY <4>1, <3>1, <1>3 DEF IntervalStart
    <3>2. CASE j \in 1 .. n
      <4>1. today + j - 1 \in Days /\ Endpoint(today + j - 1, reset) # reset
        BY <3>2, <1>1, <1>7
      <4>2. /\ Endpoint(today + j - 1, reset) \in Int
            /\ Endpoint(today + j - 1, reset) = Midnights[today + j - 1 + 1]
        BY <4>1, EndpointIs
      <4>3. today + j - 1 + 1 = d /\ d # today /\ j # 0
        BY <3>2, <1>1
      <4> QED
        BY <4>2, <4>3 DEF IntervalStart
    <3> QED
      BY <3>1, <3>2, <1>1, <1>7
  <2>6. end(j + 1) = Endpoint(d, reset) /\ end(j + 1) \in Int
    <3>1. end(j + 1) = Endpoint(d, reset)
      BY <2>1
    <3> QED
      BY <3>1, <2>2, EndpointIs
  <2>7. q \in Int /\ L * q = DayScale
    BY <2>2, <2>3, DayLengthIs
  <2> HIDE DEF end, d, q
  <2>8. DayShare(d, today, last, reset) = (end(j + 1) - end(j)) * q
    BY <2>3, <2>5, <2>6 DEF DayShare, q
  <2>9. used[j + 1] = used[j] + (du * L) * ((end(j + 1) - end(j)) * q)
    BY <2>1, <2>8, <1>2
  <2>10. (du * L) * ((end(j + 1) - end(j)) * q) = DayScale * (du * (end(j + 1) - end(j)))
    <3>1. \A w, x, y, z \in Int : (w * x) * (y * z) = (x * z) * (w * y)
      OBVIOUS
    <3>2. end(j + 1) - end(j) \in Int
      BY <2>5, <2>6
    <3>3. (du * L) * ((end(j + 1) - end(j)) * q) = (L * q) * (du * (end(j + 1) - end(j)))
      BY <3>1, <3>2, <2>7, <1>3, <1>5
    <3> QED
      BY <3>3, <2>7
  <2>11. used[j] = DayScale * (last.used * span + du * (end(j) - last.at))
    BY <2>4 DEF Line, span, du
  <2>12. used[j + 1] = DayScale * (last.used * span + du * (end(j + 1) - last.at))
    <3>1. \A s, u, w, x, y, z \in Int :
             s * (u + w * (x - z)) + s * (w * (y - x)) = s * (u + w * (y - z))
      OBVIOUS
    <3>2. last.used * span \in Int
      BY <1>3
    <3> DEFINE u == last.used * span
               x == end(j)
               y == end(j + 1)
    <3>3. u \in Int /\ x \in Int /\ y \in Int
      BY <3>2, <2>5, <2>6
    <3>4. used[j + 1] = DayScale * (u + du * (x - last.at)) + DayScale * (du * (y - x))
      BY <2>9, <2>10, <2>11
    <3> HIDE DEF u, x, y
    <3>5. used[j + 1] = DayScale * (u + du * (y - last.at))
      BY <3>1, <3>3, <3>4, <1>3, <1>5
    <3> QED
      BY <3>5 DEF u, y
  <2> QED
    BY <2>12 DEF Line, span, du
<1>8. k \in S
  <2>1. k \in 0 .. n
    BY <1>1 DEF n
  <2> HIDE DEF S
  <2> QED
    BY <2>1, <1>1, <1>6, <1>7, UpTo
<1>9. Regular(k) /\ k # 0
  BY <1>1 DEF L, n
<1> QED
  BY <1>8, <1>9 DEF used

\* What ForecastIsContinuous says of a forecast.
Continuous(f, at) ==
    \A k \in DOMAIN f.points :
        LET point == f.points[k]
            regular == \A d \in LocalDay(at) .. point.day :
                          DayLength(d) = DayLength(LocalDay(at))
        IN  /\ point.day = LocalDay(at) + k - 1
            /\ point.endsAtReset => k = Len(f.points)
            /\ k < Len(f.points) => point.endpoint < f.points[k + 1].endpoint
            /\ regular => point.used = DayScale
                   * (f.last.used * f.span
                      + (f.last.used - f.first.used) * (point.endpoint - f.last.at))

LEMMA ProjectIsContinuous ==
  ASSUME NEW c, NEW pool, Covered(pool.resets), NEW at, Covered(at), at < pool.resets,
         NEW first, NEW last, first.at \in Int, last.at \in Int,
         first.used \in Int, last.used \in Int
  PROVE  Continuous(Project(c, pool, first, last, at), at)
<1> DEFINE f == Project(c, pool, first, last, at)
           today == LocalDay(at)
           reset == pool.resets
           days == ForecastDays(today, last, reset)
           n == Cardinality(days)
           used == Projected(first, last, today, reset, days)
           span == last.at - first.at
<1>1. /\ f.points = [k \in 1 .. n |-> Point(c, pool, used[k], today + k - 1, today, span)]
      /\ f.first = first /\ f.last = last /\ f.span = span
  BY DEF Project
<1>2. /\ n \in Nat /\ today \in Int
      /\ \A k \in 1 .. n : /\ today + k - 1 \in Days
                           /\ Endpoint(today + k - 1, reset)
                              > IntervalStart(today + k - 1, today, last)
                           /\ k < n => Endpoint(today + k - 1, reset) # reset
  BY DaysOfForecast
<1> HIDE DEF f
<1>3. \A k \in 1 .. n :
         /\ f.points[k].day = today + k - 1
         /\ f.points[k].used = used[k]
         /\ f.points[k].endpoint = Endpoint(today + k - 1, reset)
         /\ f.points[k].endsAtReset = (Endpoint(today + k - 1, reset) = reset)
  <2> HIDE DEF today, days, n, used, span
  <2> QED
    BY <1>1 DEF Point
<1>4. DOMAIN f.points = 1 .. n /\ Len(f.points) = n
  <2> HIDE DEF n
  <2>1. DOMAIN f.points = 1 .. n
    BY <1>1
  <2>2. f.points \in [1 .. n -> { f.points[k] : k \in 1 .. n }]
    BY <1>1
  <2> DEFINE V == { f.points[k] : k \in 1 .. n }
             s == f.points
  <2>3. s \in [1 .. n -> V]
    BY <2>2
  <2> HIDE DEF V, s
  <2>4. Len(s) = n
    BY <2>3, <1>2
  <2> QED
    BY <2>1, <2>4 DEF s
<1> SUFFICES ASSUME NEW k \in DOMAIN f.points
             PROVE  /\ f.points[k].day = today + k - 1
                    /\ f.points[k].endsAtReset => k = Len(f.points)
                    /\ k < Len(f.points) => f.points[k].endpoint < f.points[k + 1].endpoint
                    /\ (\A d \in today .. f.points[k].day : DayLength(d) = DayLength(today))
                       => f.points[k].used = Line(f.first, f.last, f.points[k].endpoint)
  <2>1. \A e : Line(f.first, f.last, e)
                = DayScale * (f.last.used * f.span
                              + (f.last.used - f.first.used) * (e - f.last.at))
    <3> HIDE DEF n, used, days, today
    <3> QED
      BY <1>1 DEF Line, span
  <2>2. f = Project(c, pool, first, last, at)
    BY DEF f
  <2> HIDE DEF n, used, days, span
  <2> QED
    BY <2>1, <2>2, Zenon DEF Continuous
<1>5. k \in 1 .. n
  BY <1>4
<1>6. f.points[k].day = today + k - 1
  BY <1>3, <1>5
<1>7. f.points[k].endsAtReset => k = Len(f.points)
  <2> HIDE DEF n, today, reset
  <2>1. ~ (k < n) => k = n
    BY <1>2, <1>5
  <2> QED
    BY <2>1, <1>2, <1>3, <1>4, <1>5
<1>8. k < Len(f.points) => f.points[k].endpoint < f.points[k + 1].endpoint
  <2> SUFFICES ASSUME k < n PROVE f.points[k].endpoint < f.points[k + 1].endpoint
    BY <1>4
  <2> DEFINE d == today + k - 1
  <2> HIDE DEF n, today, reset
  <2>1. k + 1 \in 1 .. n /\ today + (k + 1) - 1 = d + 1 /\ d \in Int /\ d + 1 # today
    BY <1>2, <1>5
  <2>2. d \in Days /\ d + 1 \in Days /\ Endpoint(d, reset) # reset
    BY <2>1, <1>2, <1>5
  <2>3. Endpoint(d + 1, reset) > IntervalStart(d + 1, today, last)
    BY <2>1, <1>2
  <2>4. f.points[k].endpoint = Endpoint(d, reset)
        /\ f.points[k + 1].endpoint = Endpoint(d + 1, reset)
    BY <2>1, <1>3, <1>5
  <2> HIDE DEF d
  <2>5. Endpoint(d, reset) = Midnights[d + 1] /\ Endpoint(d + 1, reset) \in Int
        /\ Midnights[d + 1] \in Int
    BY <2>2, EndpointIs DEF reset
  <2>6. IntervalStart(d + 1, today, last) = Midnights[d + 1]
    BY <2>1 DEF IntervalStart
  <2> QED
    BY <2>3, <2>4, <2>5, <2>6
<1>9. ASSUME \A d \in today .. f.points[k].day : DayLength(d) = DayLength(today)
      PROVE  f.points[k].used = Line(f.first, f.last, f.points[k].endpoint)
  <2>1. \A d \in today .. today + k - 1 : DayLength(d) = DayLength(today)
    BY <1>6, <1>9
  <2>2. used[k] = Line(first, last, Endpoint(today + k - 1, reset))
    BY <2>1, <1>5, UseIsOnLine
  <2> HIDE DEF used, n, today, reset
  <2> QED
    BY <2>2, <1>1, <1>3, <1>5
<1> QED
  BY <1>6, <1>7, <1>8, <1>9

-----------------------------------------------------------------------------
\* The least and the greatest of a finite set of instants of the history.
LEMMA LeastAndGreatest ==
  ASSUME NEW N \in Nat, NEW S, S \subseteq 1 .. N, S # {}
  PROVE  Min(S) \in S /\ Max(S) \in S
<1>1. S \subseteq Nat
  OBVIOUS
<1>2. \E x \in S : \A y \in S : x <= y
  BY <1>1, LeastOf
<1> DEFINE T == { N - x : x \in S }
<1>3. T \subseteq Nat /\ T # {}
  <2>1. \A x \in S : N - x \in Nat
    OBVIOUS
  <2> QED
    BY <2>1
<1>4. PICK t \in T : \A u \in T : t <= u
  <2> HIDE DEF T
  <2> QED
    BY <1>3, LeastOf
<1>5. PICK x \in S : t = N - x
  OBVIOUS
<1>6. ASSUME NEW y \in S PROVE x >= y
  <2>1. N - y \in T
    OBVIOUS
  <2>2. N - x <= N - y
    <3> HIDE DEF T
    <3> QED
      BY <2>1, <1>4, <1>5
  <2> QED
    BY <2>2, <1>5
<1>7. \E z \in S : \A y \in S : z >= y
  BY <1>6
<1>8. Min(S) \in S
  BY <1>2, Zenon DEF Min
<1>9. Max(S) \in S
  BY <1>7, Zenon DEF Max
<1> QED
  BY <1>8, <1>9

LEMMA PoolsAreSequence ==
  ASSUME NEW snapshot \in Snapshots
  PROVE  \E N \in Nat : DOMAIN snapshot.pools = 1 .. N
<1>1. PICK shape \in Shapes : snapshot.pools = shape.pools
  BY DEF Snapshots
<1> DEFINE s == shape.pools
<1>2. s \in Seq(Range(s))
  BY PoolsAreValid
<1> HIDE DEF s
<1>3. DOMAIN s = 1 .. Len(s) /\ Len(s) \in Nat
  BY <1>2
<1> QED
  BY <1>1, <1>3 DEF s

\* A pool that a snapshot has is valid.
LEMMA PoolOfId ==
  ASSUME NEW snapshot \in Snapshots, NEW id,
         \E i \in DOMAIN snapshot.pools : snapshot.pools[i].id = id
  PROVE  PoolIsValid(PoolOf(snapshot, id)) /\ ResetIsCovered(PoolOf(snapshot, id))
<1> DEFINE found == { i \in DOMAIN snapshot.pools : snapshot.pools[i].id = id }
<1>1. found # {} /\ PoolOf(snapshot, id) = snapshot.pools[Min(found)]
  BY DEF PoolOf
<1>2. Min(found) \in found
  <2>1. PICK N \in Nat : DOMAIN snapshot.pools = 1 .. N
    BY PoolsAreSequence
  <2>2. found \subseteq 1 .. N
    BY <2>1
  <2> HIDE DEF found
  <2> QED
    BY <2>2, <1>1, LeastAndGreatest
<1>3. Min(found) \in DOMAIN snapshot.pools
  BY <1>2
<1> QED
  BY <1>1, <1>3, StoredPools

LEMMA PoolOfSnapshot ==
  ASSUME NEW snapshot \in Snapshots, NEW id, PoolOf(snapshot, id) # None
  PROVE  PoolIsValid(PoolOf(snapshot, id)) /\ ResetIsCovered(PoolOf(snapshot, id))
<1>1. \E i \in DOMAIN snapshot.pools : snapshot.pools[i].id = id
  BY DEF PoolOf
<1> QED
  BY <1>1, PoolOfId

\* The forecast is about a pool of the snapshot.
LEMMA AssessmentOfPool ==
  ASSUME NEW c, NEW snapshot \in Snapshots, NEW at,
         ForecastAssessment(Evaluate(c, snapshot, at)) # None
  PROVE  \E i \in DOMAIN snapshot.pools :
            snapshot.pools[i].id = ForecastAssessment(Evaluate(c, snapshot, at)).id
<1> DEFINE report == Evaluate(c, snapshot, at)
           a == ForecastAssessment(report)
           bound == { i \in DOMAIN report.pools : report.pools[i].id = report.binding }
<1>1. /\ DOMAIN report.pools = DOMAIN snapshot.pools
      /\ \A i \in DOMAIN snapshot.pools : report.pools[i].id = snapshot.pools[i].id
  BY DEF Evaluate, AssessPool
<1>2. PICK N \in Nat : DOMAIN snapshot.pools = 1 .. N
  BY PoolsAreSequence
<1> HIDE DEF report
<1>3. CASE bound # {}
  <2>1. bound \subseteq 1 .. N
    BY <1>1, <1>2
  <2>2. Min(bound) \in bound
    <3> HIDE DEF bound
    <3> QED
      BY <2>1, <1>3, LeastAndGreatest
  <2>3. Min(bound) \in DOMAIN report.pools
    BY <2>2
  <2>4. a = report.pools[Min(bound)]
    BY <1>3 DEF ForecastAssessment
  <2> QED
    BY <2>3, <2>4, <1>1 DEF report
<1>4. CASE bound = {}
  <2>1. report.pools # <<>> /\ a = report.pools[1]
    BY <1>4 DEF ForecastAssessment, report
  <2>2. N # 0
    <3> SUFFICES ASSUME N = 0 PROVE FALSE
      OBVIOUS
    <3>1. report.pools = [i \in 1 .. 0 |-> report.pools[i]]
      <4>1. report.pools = [i \in DOMAIN snapshot.pools |-> AssessPool(c, snapshot.pools[i], at)]
        BY DEF report, Evaluate
      <4> QED
        BY <4>1, <1>2
    <3>2. report.pools = <<>>
      BY <3>1
    <3> QED
      BY <3>2, <2>1
  <2>3. 1 \in DOMAIN report.pools
    BY <2>2, <1>1, <1>2
  <2> QED
    BY <2>1, <2>3, <1>1 DEF report
<1> QED
  BY <1>3, <1>4

LEMMA UnavailableIsContinuous ==
  ASSUME NEW reason, NEW at
  PROVE  Continuous(Unavailable(reason), at)
<1>1. Unavailable(reason).points = <<>>
  BY DEF Unavailable
<1>2. DOMAIN Unavailable(reason).points = {}
  BY <1>1
<1> QED
  BY <1>2 DEF Continuous

\* A sample tells an instant and a use.
LEMMA SampleIs ==
  ASSUME history \in Seq(Snapshots), NEW pool, NEW at, NEW i \in Observing(history, pool, at)
  PROVE  /\ Sample(history[i], pool).at \in Int
         /\ Sample(history[i], pool).used \in Int
<1>1. i \in DOMAIN history /\ PoolOf(history[i], pool.id) # None
      /\ PoolOf(history[i], pool.id).used # None
  BY DEF Observing
<1>2. history[i] \in Snapshots
  BY <1>1
<1>3. PoolIsValid(PoolOf(history[i], pool.id))
  BY <1>1, <1>2, PoolOfSnapshot
<1>4. PoolOf(history[i], pool.id).used \in Int /\ history[i].captured \in Int
  BY <1>1, <1>2, <1>3, UnitAssumption DEF PoolIsValid, OrNone, Snapshots
<1> QED
  BY <1>4 DEF Sample

LEMMA ObservedIsContinuous ==
  ASSUME history \in Seq(Snapshots), NEW c, NEW pool, Covered(pool.resets),
         NEW at, Covered(at), at < pool.resets
  PROVE  Continuous(Observed(c, history, pool, at), at)
<1> DEFINE comparable == Comparable(history, pool, at)
           sample(i)  == Sample(history[i], pool)
           first      == sample(Min(comparable))
           last       == sample(Max(comparable))
           o == Observed(c, history, pool, at)
<1>1. (\E reason : o = Unavailable(reason))
      \/ (~ (Cardinality(comparable) < 2) /\ o = Project(c, pool, first, last, at))
  BY DEF Observed
<1>2. ASSUME NEW reason, o = Unavailable(reason) PROVE Continuous(o, at)
  BY <1>2, UnavailableIsContinuous
<1>3. ASSUME ~ (Cardinality(comparable) < 2), o = Project(c, pool, first, last, at)
      PROVE  Continuous(o, at)
  <2>1. comparable # {}
    <3>1. Cardinality({}) = 0 /\ ~ (Cardinality(comparable) < 2)
      BY <1>3, FS_EmptySet
    <3> HIDE DEF comparable
    <3> SUFFICES ASSUME comparable = {} PROVE FALSE
      OBVIOUS
    <3>2. Cardinality(comparable) = 0
      BY <3>1
    <3>3. 0 < 2
      OBVIOUS
    <3> QED
      BY <3>1, <3>2, <3>3
  <2>2. comparable \subseteq 1 .. Len(history) /\ Len(history) \in Nat
    BY DEF Comparable, Observing
  <2>3. Min(comparable) \in comparable /\ Max(comparable) \in comparable
    <3> HIDE DEF comparable
    <3> QED
      BY <2>1, <2>2, LeastAndGreatest
  <2>4. comparable \subseteq Observing(history, pool, at)
    BY DEF Comparable
  <2>5. /\ first.at \in Int /\ first.used \in Int
        /\ last.at \in Int /\ last.used \in Int
    <3> HIDE DEF comparable
    <3> QED
      BY <2>3, <2>4, SampleIs
  <2> HIDE DEF first, last, o
  <2> QED
    BY <2>5, <1>3, ProjectIsContinuous
<1> QED
  BY <1>1, <1>2, <1>3

LEMMA InvForecasts == ServiceInv => ForecastIsContinuous
<1> SUFFICES ASSUME ServiceInv PROVE ForecastIsContinuous
  OBVIOUS
<1> DEFINE f == Calculate(config, history, now)
           latest == Last(history)
           report == Evaluate(config, latest, now)
           pool == PoolOf(latest, ForecastAssessment(report).id)
<1>1. Continuous(f, now)
  <2>1. CASE history = <<>>
    <3>1. f = Unavailable("no_snapshots")
      BY <2>1 DEF Calculate
    <3> QED
      BY <3>1, UnavailableIsContinuous
  <2>2. CASE history # <<>>
    <3>1. f = CalculateFrom(config, history, report, now)
      BY <2>2 DEF Calculate
    <3>2. latest \in Snapshots /\ history \in Seq(Snapshots) /\ Covered(now)
      BY <2>2, LastIsStored DEF ServiceInv
    <3> HIDE DEF f, latest, report
    <3>3. \/ \E reason : f = Unavailable(reason)
          \/ Obstacle(latest, report, now) = "none" /\ f = Observed(config, history, pool, now)
      BY <3>1 DEF CalculateFrom, latest
    <3>4. ASSUME NEW reason, f = Unavailable(reason) PROVE Continuous(f, now)
      BY <3>4, UnavailableIsContinuous
    <3>5. ASSUME Obstacle(latest, report, now) = "none",
                 f = Observed(config, history, pool, now)
          PROVE  Continuous(f, now)
      <4>1. pool.resets # None /\ ~ (pool.resets <= now) /\ ResolveTiming(pool) # None
        BY <3>5 DEF Obstacle
      <4>2. ForecastAssessment(report) # None
        BY <3>5 DEF Obstacle
      <4>3. PoolIsValid(pool) /\ ResetIsCovered(pool)
        BY <4>2, <3>2, AssessmentOfPool, PoolOfId DEF report
      <4> HIDE DEF pool
      <4>4. Covered(pool.resets) /\ now < pool.resets
        BY <4>1, <4>3, <3>2, MidnightsAssumption DEF Covered, PoolIsValid, OrNone, ResetIsCovered
      <4> QED
        BY <4>4, <3>2, <3>5, ObservedIsContinuous
    <3> QED
      BY <3>3, <3>4, <3>5
  <2> QED
    BY <2>1, <2>2
<1> QED
  BY <1>1, Zenon DEF ForecastIsContinuous, Continuous

\* The forecast of the use joins the last sample and the reset without a gap or a jump.
THEOREM ForecastJoins == Spec => []ForecastIsContinuous
BY ServiceIsConsistent, InvForecasts, PTL

-----------------------------------------------------------------------------
(***************************************************************************)
(* Enrichment.                                                             *)
(***************************************************************************)
\* A finite set is listed by falling rank, if no two of its members have one rank.
LEMMA ListedByRank ==
  ASSUME NEW T, IsFiniteSet(T), NEW rank \in [T -> Nat],
         \A x, y \in T : rank[x] = rank[y] => x = y
  PROVE  \E s \in [1 .. Cardinality(T) -> T] :
            \A i, j \in 1 .. Cardinality(T) : i < j => rank[s[i]] > rank[s[j]]
<1> DEFINE Falls(s, n) == \A i, j \in 1 .. n : i < j => rank[s[i]] > rank[s[j]]
           Listed(U, n) == \E s \in [1 .. n -> U] : Falls(s, n)
           N == Cardinality(T)
           Good == { n \in Nat : \A U \in SUBSET T : Cardinality(U) = n => Listed(U, n) }
<1>0. N \in Nat
  BY FS_CardinalityType
<1>1. 0 \in Good
  <2>1. ASSUME NEW U \in SUBSET T, Cardinality(U) = 0 PROVE Listed(U, 0)
    <3> DEFINE s == [i \in 1 .. 0 |-> i]
    <3>1. s \in [1 .. 0 -> U] /\ Falls(s, 0)
      OBVIOUS
    <3> QED
      BY <3>1
  <2> QED
    BY <2>1
<1>2. ASSUME NEW n \in Nat, n \in Good PROVE n + 1 \in Good
  <2>1. ASSUME NEW U \in SUBSET T, Cardinality(U) = n + 1 PROVE Listed(U, n + 1)
    <3>1. IsFiniteSet(U)
      BY FS_Subset
    <3>2. U # {}
      BY <2>1, FS_EmptySet
    <3> DEFINE Ranks == { rank[x] : x \in U }
    <3>3. Ranks \subseteq Nat /\ Ranks # {}
      BY <3>2
    <3>4. PICK r \in Ranks : \A q \in Ranks : r <= q
      <4> HIDE DEF Ranks
      <4> QED
        BY <3>3, LeastOf
    <3>5. PICK d \in U : r = rank[d]
      BY <3>4
    <3>6. \A x \in U : x # d => rank[x] > rank[d]
      <4> TAKE x \in U
      <4>1. rank[x] \in Ranks /\ rank[x] \in Nat /\ rank[d] \in Nat
        OBVIOUS
      <4> QED
        BY <4>1, <3>4, <3>5
    <3> DEFINE V == U \ {d}
    <3>7. V \in SUBSET T /\ Cardinality(V) = n
      <4>1. Cardinality(V) = Cardinality(U) - 1
        BY <3>1, FS_RemoveElement
      <4> QED
        BY <4>1, <2>1
    <3> HIDE DEF V
    <3>8. Listed(V, n)
      <4> HIDE DEF Listed
      <4> QED
        BY <3>7, <1>2
    <3>9. PICK s \in [1 .. n -> V] : Falls(s, n)
      BY <3>8
    <3> DEFINE t == [i \in 1 .. n + 1 |-> IF i = n + 1 THEN d ELSE s[i]]
    <3>10. V \subseteq U /\ \A x \in V : x # d
      BY DEF V
    <3>11. \A i \in 1 .. n + 1 : i = n + 1 \/ i \in 1 .. n
      OBVIOUS
    <3>12. t \in [1 .. n + 1 -> U]
      BY <3>10, <3>11
    <3>13. Falls(t, n + 1)
      <4> SUFFICES ASSUME NEW i \in 1 .. n + 1, NEW j \in 1 .. n + 1, i < j
                   PROVE  rank[t[i]] > rank[t[j]]
        OBVIOUS
      <4>1. i \in 1 .. n /\ t[i] = s[i] /\ s[i] \in V
        BY <3>11
      <4>2. CASE j = n + 1
        <5>1. t[j] = d
          BY <4>2
        <5>2. s[i] \in U /\ s[i] # d
          BY <4>1, <3>10
        <5> QED
          BY <4>1, <5>1, <5>2, <3>6
      <4>3. CASE j \in 1 .. n
        <5>1. t[j] = s[j]
          BY <4>3
        <5> QED
          BY <4>1, <4>3, <5>1, <3>9
      <4> QED
        BY <4>2, <4>3, <3>11
    <3> HIDE DEF t, Falls
    <3> QED
      BY <3>12, <3>13
  <2> HIDE DEF Listed
  <2> QED
    BY <2>1
<1>3. N \in Good
  <2> HIDE DEF Good, N
  <2> QED
    BY <1>0, <1>1, <1>2, UpTo
<1>4. Listed(T, N)
  <2> HIDE DEF Listed
  <2> QED
    BY <1>3
<1> QED
  BY <1>4

\* A set is listed in full by as many of its members as it has, if no one is listed twice.
LEMMA ListedInFull ==
  ASSUME NEW T, IsFiniteSet(T), NEW s \in [1 .. Cardinality(T) -> T],
         \A i, j \in 1 .. Cardinality(T) : s[i] = s[j] => i = j
  PROVE  \A x \in T : \E i \in 1 .. Cardinality(T) : s[i] = x
<1> DEFINE N == Cardinality(T)
<1>1. N \in Nat
  BY FS_CardinalityType
<1>2. s \in Injection(1 .. N, T)
  BY DEF Injection, IsInjective
<1>3. Cardinality(1 .. N) = N
  BY <1>1, FS_Interval
<1>4. s \in Surjection(1 .. N, T)
  BY <1>2, <1>3, FS_Injection
<1> QED
  BY <1>4 DEF Surjection

LEMMA RankIsNat ==
  ASSUME NEW registry_, RegistryIsValid(registry_), NEW m, NEW d \in Speaking(registry_, m)
  PROVE  Rank(d, m.id) \in Nat
<1>1. d \in registry_ /\ m.id \in DOMAIN d.models
  BY DEF Speaking, Speaks
<1>2. d.models[m.id].source \in DOMAIN Precedence
  BY <1>1 DEF RegistryIsValid, DocumentIsValid, ProfileIsValid
<1> QED
  BY <1>2 DEF Rank, Precedence

LEMMA RanksDiffer ==
  ASSUME NEW registry_, RegistryIsValid(registry_), NEW m,
         NEW d \in Speaking(registry_, m), NEW e \in Speaking(registry_, m),
         Rank(d, m.id) = Rank(e, m.id)
  PROVE  d = e
<1>1. d \in registry_ /\ e \in registry_ /\ m.id \in DOMAIN d.models
  BY DEF Speaking, Speaks
<1>2. Speaks(e, d.provider, m.id)
  BY DEF Speaking, Speaks
<1> QED
  BY <1>1, <1>2 DEF RegistryIsValid, RegistryIsUnambiguous

\* The matches are the documents that speak of the model, each once, by falling rank.
LEMMA MatchesAre ==
  ASSUME NEW registry_, RegistryIsValid(registry_), NEW m
  PROVE  LET T       == Speaking(registry_, m)
             N       == Cardinality(T)
             matches == Matches(registry_, m)
         IN  /\ N \in Nat /\ matches \in [1 .. N -> T] /\ Len(matches) = N
             /\ \A i, j \in 1 .. N : i < j => Rank(matches[i], m.id) > Rank(matches[j], m.id)
             /\ \A x \in T : \E i \in 1 .. N : matches[i] = x
<1> DEFINE T == Speaking(registry_, m)
           N == Cardinality(T)
           matches == Matches(registry_, m)
           rank == [x \in T |-> Rank(x, m.id)]
           Falling(s) == \A i, j \in 1 .. N : i < j => Rank(s[i], m.id) > Rank(s[j], m.id)
<1>1. IsFiniteSet(T)
  <2>1. IsFiniteSet(registry_) /\ T \in SUBSET registry_
    BY DEF RegistryIsValid, Speaking
  <2> HIDE DEF T
  <2> QED
    BY <2>1, FS_Subset
<1>2. \A x \in T : Rank(x, m.id) \in Nat
  BY RankIsNat
<1>3. \A x, y \in T : Rank(x, m.id) = Rank(y, m.id) => x = y
  BY RanksDiffer
<1>4. N \in Nat
  <2> HIDE DEF T
  <2> QED
    BY <1>1, FS_CardinalityType
<1> HIDE DEF T
<1>5. rank \in [T -> Nat] /\ \A x, y \in T : rank[x] = rank[y] => x = y
  BY <1>2, <1>3
<1>6. PICK s \in [1 .. N -> T] : \A i, j \in 1 .. N : i < j => rank[s[i]] > rank[s[j]]
  <2> HIDE DEF rank
  <2> QED
    BY <1>1, <1>5, ListedByRank
<1>7. Falling(s)
  <2>1. \A i \in 1 .. N : s[i] \in T
    OBVIOUS
  <2>2. \A i \in 1 .. N : rank[s[i]] = Rank(s[i], m.id)
    BY <2>1
  <2> HIDE DEF rank
  <2> QED
    BY <1>6, <2>2
<1>8. matches = CHOOSE q \in [1 .. N -> T] :
                  \A i, j \in DOMAIN q : i < j => Rank(q[i], m.id) > Rank(q[j], m.id)
  BY DEF Matches, T
<1>9. matches \in [1 .. N -> T] /\ Falling(matches)
  <2>1. \E q \in [1 .. N -> T] :
           \A i, j \in DOMAIN q : i < j => Rank(q[i], m.id) > Rank(q[j], m.id)
    <3>1. DOMAIN s = 1 .. N
      OBVIOUS
    <3> QED
      BY <1>7, <3>1
  <2> HIDE DEF matches, N
  <2>2. matches \in [1 .. N -> T] /\ \A i, j \in DOMAIN matches :
           i < j => Rank(matches[i], m.id) > Rank(matches[j], m.id)
    BY <1>8, <2>1
  <2>3. DOMAIN matches = 1 .. N
    BY <2>2
  <2> QED
    BY <2>2, <2>3
<1> HIDE DEF matches
<1>10. \A i, j \in 1 .. N : matches[i] = matches[j] => i = j
  <2> SUFFICES ASSUME NEW i \in 1 .. N, NEW j \in 1 .. N, matches[i] = matches[j], i # j
               PROVE  FALSE
    OBVIOUS
  <2>1. i < j \/ j < i
    BY <1>4
  <2>2. matches[i] \in T
    BY <1>9
  <2>3. Rank(matches[i], m.id) \in Nat
    BY <1>2, <2>2
  <2>4. ~ (Rank(matches[i], m.id) > Rank(matches[i], m.id))
    BY <2>3
  <2> QED
    BY <1>9, <2>1, <2>4
<1>11. \A x \in T : \E i \in 1 .. N : matches[i] = x
  BY <1>1, <1>9, <1>10, ListedInFull
<1>12. Len(matches) = N
  <2> HIDE DEF N
  <2> QED
    BY <1>4, <1>9
<1> QED
  BY <1>4, <1>9, <1>11, <1>12 DEF matches, T

\* Enrichment is the model with its own sources, then one match applied after the other.
LEMMA EnrichedUnfolds ==
  ASSUME NEW registry_, NEW m, NEW day, Len(Matches(registry_, m)) \in Nat
  PROVE  LET matches == Matches(registry_, m)
             N       == Len(matches)
         IN  \E after : /\ after[0] = [m EXCEPT !.sources = ProviderSources(m)]
                        /\ \A n \in 1 .. N : after[n] = Apply(after[n - 1], matches[n], day)
                        /\ Enriched(m, registry_, day) = after[N]
<1> DEFINE matches == Matches(registry_, m)
           N == Len(matches)
           base == [m EXCEPT !.sources = ProviderSources(m)]
           next(x, k) == Apply(x, matches[k], day)
           Solves(f, n) == f = [k \in 0 .. n |-> IF k = 0 THEN base ELSE next(f[k - 1], k)]
           S == { n \in Nat : \E f : Solves(f, n) }
<1>1. 0 \in S
  <2> DEFINE f == [k \in 0 .. 0 |-> base]
  <2>1. Solves(f, 0)
    OBVIOUS
  <2> QED
    BY <2>1
<1>2. ASSUME NEW n \in Nat, n \in S PROVE n + 1 \in S
  <2> PICK f : Solves(f, n)
    BY <1>2
  <2> HIDE DEF base, next
  <2> DEFINE g == [k \in 0 .. n + 1 |-> IF k <= n THEN f[k] ELSE next(f[n], n + 1)]
             h == [k \in 0 .. n + 1 |-> IF k = 0 THEN base ELSE next(g[k - 1], k)]
  <2>1. ASSUME NEW k \in 0 .. n + 1 PROVE g[k] = h[k]
    <3>1. CASE k = 0
      BY <3>1
    <3>2. CASE k \in 1 .. n
      <4>1. f[k] = next(f[k - 1], k)
        BY <3>2
      <4>2. k - 1 \in 0 .. n + 1 /\ k - 1 <= n /\ k # 0 /\ k <= n
        BY <3>2
      <4>3. g[k] = f[k] /\ g[k - 1] = f[k - 1]
        BY <4>2
      <4> QED
        BY <4>1, <4>2, <4>3
    <3>3. CASE k = n + 1
      <4>1. n \in 0 .. n + 1 /\ n <= n /\ k - 1 = n /\ k # 0 /\ ~ (k <= n)
        BY <3>3
      <4>2. g[n] = f[n] /\ g[k] = next(f[n], n + 1)
        BY <4>1
      <4> QED
        BY <4>1, <4>2, <3>3
    <3> QED
      BY <3>1, <3>2, <3>3
  <2>2. g = h
    <3>1. g = [k \in 0 .. n + 1 |-> g[k]] /\ h = [k \in 0 .. n + 1 |-> h[k]]
      OBVIOUS
    <3> HIDE DEF g, h
    <3> QED
      BY <2>1, <3>1
  <2>3. Solves(g, n + 1)
    BY <2>2
  <2>4. n + 1 \in Nat
    OBVIOUS
  <2> HIDE DEF Solves, g
  <2> QED
    BY <2>3, <2>4
<1>0. N \in Nat
  OBVIOUS
<1>3. N \in S
  <2> HIDE DEF S, N
  <2>1. \A n \in 0 .. N : n \in S /\ n < N => n + 1 \in S
    BY <1>0, <1>2
  <2>2. \A n \in 0 .. N : n \in S
    BY <1>0, <1>1, <2>1, UpTo
  <2> QED
    BY <1>0, <2>2
<1>4. \E f : Solves(f, N)
  BY <1>3
<1> DEFINE after == CHOOSE f : Solves(f, N)
<1>5. Enriched(m, registry_, day) = after[N]
  BY DEF Enriched
<1> HIDE DEF base, next, N
<1>6. Solves(after, N)
  <2> HIDE DEF Solves
  <2> QED
    BY <1>4
<1> HIDE DEF after
<1>7. after[0] = base /\ \A k \in 1 .. N : after[k] = next(after[k - 1], k)
  <2>1. after = [k \in 0 .. N |-> IF k = 0 THEN base ELSE next(after[k - 1], k)]
    BY <1>6
  <2>2. \A k \in 0 .. N : after[k] = IF k = 0 THEN base ELSE next(after[k - 1], k)
    BY <2>1
  <2> QED
    BY <1>0, <2>2
<1> QED
  BY <1>5, <1>7 DEF base, next, N

\* A fresh document that gives a field of a model: its value is there, and an order
\* names the efforts of the catalogue.
Gives(d, m, f, day) ==
  /\ Freshness(d, day) = "fresh"
  /\ d.models[m.id][f] # None
  /\ f = "order" => Range(d.models[m.id].order) = m.efforts

LEMMA FieldsAre == Range(Fields) = {"power", "cost", "latency", "order"}
<1>1. DOMAIN Fields = 1 .. 4
  BY DEF Fields
<1>2. Fields[1] = "power" /\ Fields[2] = "cost" /\ Fields[3] = "latency" /\ Fields[4] = "order"
  BY DEF Fields
<1>3. \A i \in 1 .. 4 : i = 1 \/ i = 2 \/ i = 3 \/ i = 4
  OBVIOUS
<1>4. 1 \in 1 .. 4 /\ 2 \in 1 .. 4 /\ 3 \in 1 .. 4 /\ 4 \in 1 .. 4
  OBVIOUS
<1> HIDE DEF Fields
<1> QED
  BY <1>1, <1>2, <1>3, <1>4 DEF Range

\* A model that differs from the one of the catalogue in its fields and sources only.
SameModel(x, m) == DOMAIN x = DOMAIN m /\ x.id = m.id /\ x.efforts = m.efforts
                   /\ x.provider = m.provider /\ x.selectable = m.selectable

\* One match fills the fields it gives and the model lacks, and changes nothing else.
LEMMA ApplyFills ==
  ASSUME NEW m, ModelIsValid(m), NEW x, SameModel(x, m), NEW d, NEW day
  PROVE  /\ SameModel(Apply(x, d, day), m)
         /\ \A f \in Range(Fields) :
               Apply(x, d, day)[f] = IF x[f] = None /\ Gives(d, m, f, day)
                                     THEN d.models[m.id][f] ELSE x[f]
<1> DEFINE y == Apply(x, d, day)
<1>0. /\ DOMAIN x = {"id", "provider", "selectable", "efforts", "order", "power", "cost",
                     "latency", "sources"}
      /\ x.id = m.id /\ x.efforts = m.efforts /\ DOMAIN m = DOMAIN x
      /\ x.provider = m.provider /\ x.selectable = m.selectable
  BY DEF SameModel, ModelIsValid
<1>1. CASE Freshness(d, day) # "fresh"
  <2>1. y = x
    BY <1>1 DEF Apply
  <2>2. \A f : ~ Gives(d, m, f, day)
    BY <1>1 DEF Gives
  <2> HIDE DEF y
  <2> QED
    BY <2>1, <2>2 DEF y
<1>2. CASE Freshness(d, day) = "fresh"
  <2> DEFINE profile == d.models[m.id]
             fills(f) == f \in Range(Fields) /\ MayFill(x, profile, f)
  <2>1. /\ DOMAIN y = DOMAIN x
        /\ \A f \in DOMAIN x \ {"sources"} : y[f] = IF fills(f) THEN profile[f] ELSE x[f]
    <3> HIDE DEF fills, profile
    <3>1. d.models[x.id] = profile
      BY <1>0 DEF profile
    <3> DEFINE filled == FilledBy(x, profile)
               source(f) == [field |-> f, origin |-> "profile", confidence |-> profile.confidence]
               sources == x.sources \o [i \in DOMAIN filled |-> source(filled[i])]
    <3>2. y = [f \in DOMAIN x |-> IF f = "sources" THEN sources
                                  ELSE IF fills(f) THEN profile[f] ELSE x[f]]
      BY <1>2, <3>1 DEF Apply, fills
    <3> HIDE DEF sources, y
    <3> QED
      BY <3>2
  <2>2. \A f \in Range(Fields) : MayFill(x, profile, f) <=> x[f] = None /\ Gives(d, m, f, day)
    BY <1>0, <1>2 DEF MayFill, Gives
  <2> HIDE DEF y, profile
  <2>3. \A f \in Range(Fields) : f \in DOMAIN x \ {"sources"}
    BY <1>0, FieldsAre
  <2>4. \A f \in Range(Fields) : y[f] = IF x[f] = None /\ Gives(d, m, f, day)
                                        THEN profile[f] ELSE x[f]
    BY <2>1, <2>2, <2>3
  <2>5. \A f \in {"id", "efforts", "provider", "selectable"} : y[f] = x[f]
    <3>1. \A f \in {"id", "efforts", "provider", "selectable"} :
             f \in DOMAIN x \ {"sources"} /\ f \notin Range(Fields)
      BY <1>0, FieldsAre
    <3> QED
      BY <2>1, <3>1
  <2>6. SameModel(y, m)
    BY <1>0, <2>1, <2>5 DEF SameModel
  <2> QED
    BY <2>4, <2>6 DEF y, profile
<1> QED
  BY <1>1, <1>2

\* After n matches a field is the provider's, or the value of the first of them that gives
\* it, or still missing.
FilledUpTo(x, n, m, matches, day) ==
  /\ SameModel(x, m)
  /\ \A f \in Range(Fields) :
       /\ m[f] # None => x[f] = m[f]
       /\ (m[f] = None /\ \A k \in 1 .. n : ~ Gives(matches[k], m, f, day)) => x[f] = None
       /\ \A k \in 1 .. n :
            (/\ m[f] = None /\ Gives(matches[k], m, f, day)
             /\ \A j \in 1 .. k - 1 : ~ Gives(matches[j], m, f, day))
            => x[f] = matches[k].models[m.id][f]

LEMMA EnrichedFillsUp ==
  ASSUME NEW registry_, RegistryIsValid(registry_), NEW m, ModelIsValid(m), NEW day
  PROVE  LET matches == Matches(registry_, m)
         IN  FilledUpTo(Enriched(m, registry_, day), Len(matches), m, matches, day)
<1> DEFINE matches == Matches(registry_, m)
           N == Len(matches)
<1>0. N \in Nat
  BY MatchesAre
<1>1. PICK after : /\ after[0] = [m EXCEPT !.sources = ProviderSources(m)]
                   /\ \A n \in 1 .. N : after[n] = Apply(after[n - 1], matches[n], day)
                   /\ Enriched(m, registry_, day) = after[N]
  BY <1>0, EnrichedUnfolds
<1> HIDE DEF matches, N
<1> DEFINE P(n) == FilledUpTo(after[n], n, m, matches, day)
           S == { n \in Nat : P(n) }
<1>2. 0 \in S
  <2>1. /\ DOMAIN after[0] = DOMAIN m
        /\ \A f \in DOMAIN m \ {"sources"} : after[0][f] = m[f]
    BY <1>1
  <2>2. SameModel(after[0], m)
    BY <2>1 DEF SameModel, ModelIsValid
  <2>3. \A f \in Range(Fields) : after[0][f] = m[f]
    BY <2>1, FieldsAre DEF ModelIsValid
  <2> QED
    BY <2>2, <2>3 DEF FilledUpTo
<1>3. ASSUME NEW n \in 0 .. N, n \in S, n < N PROVE n + 1 \in S
  <2> DEFINE x == after[n]
             y == after[n + 1]
             d == matches[n + 1]
  <2>1. y = Apply(x, d, day)
    <3>1. n + 1 \in 1 .. N /\ n + 1 - 1 = n
      BY <1>0, <1>3
    <3> QED
      BY <1>1, <3>1
  <2>2. FilledUpTo(x, n, m, matches, day)
    BY <1>3
  <2> HIDE DEF x, y, d
  <2>3. /\ SameModel(y, m)
        /\ \A f \in Range(Fields) :
              y[f] = IF x[f] = None /\ Gives(d, m, f, day) THEN d.models[m.id][f] ELSE x[f]
    <3>1. SameModel(x, m)
      BY <2>2 DEF FilledUpTo
    <3> QED
      BY <2>1, <3>1, ApplyFills
  <2>4. \A k \in 1 .. n + 1 : k \in 1 .. n \/ k = n + 1
    BY <1>0
  <2>5. ASSUME NEW f \in Range(Fields)
        PROVE  /\ m[f] # None => y[f] = m[f]
               /\ (m[f] = None /\ \A k \in 1 .. n + 1 : ~ Gives(matches[k], m, f, day))
                  => y[f] = None
               /\ \A k \in 1 .. n + 1 :
                    (/\ m[f] = None /\ Gives(matches[k], m, f, day)
                     /\ \A j \in 1 .. k - 1 : ~ Gives(matches[j], m, f, day))
                    => y[f] = matches[k].models[m.id][f]
    <3> DEFINE gives(k) == Gives(matches[k], m, f, day)
               value(k) == matches[k].models[m.id][f]
    <3>1. y[f] = IF x[f] = None /\ gives(n + 1) THEN value(n + 1) ELSE x[f]
      BY <2>3 DEF d
    <3>2. /\ m[f] # None => x[f] = m[f]
          /\ (m[f] = None /\ \A k \in 1 .. n : ~ gives(k)) => x[f] = None
          /\ \A k \in 1 .. n : (m[f] = None /\ gives(k) /\ \A j \in 1 .. k - 1 : ~ gives(j))
                               => x[f] = value(k)
      BY <2>2 DEF FilledUpTo
    <3>3. \A k \in 1 .. n + 1 : gives(k) => value(k) # None
      BY DEF Gives
    <3> HIDE DEF gives, value
    <3>4. m[f] # None => y[f] = m[f]
      BY <3>1, <3>2
    <3>5. ASSUME m[f] = None, \A k \in 1 .. n + 1 : ~ gives(k) PROVE y[f] = None
      <4>1. n + 1 \in 1 .. n + 1 /\ \A k \in 1 .. n : k \in 1 .. n + 1
        OBVIOUS
      <4> QED
        BY <3>1, <3>2, <3>5, <4>1
    <3>6. ASSUME NEW k \in 1 .. n + 1, m[f] = None, gives(k), \A j \in 1 .. k - 1 : ~ gives(j)
          PROVE  y[f] = value(k)
      <4>1. CASE k \in 1 .. n
        <5>1. x[f] = value(k) /\ value(k) # None
          BY <3>2, <3>3, <3>6, <4>1
        <5> QED
          BY <3>1, <5>1
      <4>2. CASE k = n + 1
        <5>1. \A j \in 1 .. n : ~ gives(j)
          <6>1. k - 1 = n
            BY <4>2
          <6> QED
            BY <3>6, <6>1
        <5>2. x[f] = None
          BY <3>2, <3>6, <5>1
        <5> QED
          BY <3>1, <3>6, <4>2, <5>2
      <4> QED
        BY <2>4, <4>1, <4>2
    <3> QED
      BY <3>4, <3>5, <3>6 DEF gives, value
  <2>6. FilledUpTo(y, n + 1, m, matches, day)
    BY <2>3, <2>5 DEF FilledUpTo
  <2>7. P(n + 1) /\ n + 1 \in Nat
    BY <2>6 DEF y
  <2> HIDE DEF P
  <2> QED
    BY <2>7
<1>4. N \in S
  <2> HIDE DEF S
  <2>1. \A n \in 0 .. N : n \in S /\ n < N => n + 1 \in S
    BY <1>3
  <2>2. \A n \in 0 .. N : n \in S
    BY <1>0, <1>2, <2>1, UpTo
  <2> QED
    BY <1>0, <2>2
<1>5. P(N)
  <2> HIDE DEF P
  <2> QED
    BY <1>4
<1> QED
  BY <1>1, <1>5 DEF matches, N

Givers(registry_, m, f, day) == { d \in Speaking(registry_, m) : Gives(d, m, f, day) }

Best(documents, m) ==
  CHOOSE d \in documents : \A g \in documents : Rank(d, m.id) >= Rank(g, m.id)

\* The field of an enriched model, in terms of the documents and not of the loop.
LEMMA EnrichedIs ==
  ASSUME NEW registry_, RegistryIsValid(registry_), NEW m, ModelIsValid(m), NEW day
  PROVE  LET e == Enriched(m, registry_, day)
         IN  /\ SameModel(e, m)
             /\ \A f \in Range(Fields) :
                  LET gives == Givers(registry_, m, f, day)
                  IN  /\ e[f] = IF m[f] # None THEN m[f]
                                ELSE IF gives = {} THEN None
                                ELSE Best(gives, m).models[m.id][f]
                      /\ m[f] = None /\ gives # {} => Best(gives, m) \in gives
<1> DEFINE e == Enriched(m, registry_, day)
           matches == Matches(registry_, m)
           N == Len(matches)
           T == Speaking(registry_, m)
<1>1. FilledUpTo(e, N, m, matches, day)
  BY EnrichedFillsUp
<1>2. /\ N \in Nat /\ \A k \in 1 .. N : matches[k] \in T
      /\ \A i, j \in 1 .. N : i < j => Rank(matches[i], m.id) > Rank(matches[j], m.id)
      /\ \A x \in T : \E i \in 1 .. N : matches[i] = x
  BY MatchesAre
<1>3. \A x \in T : Rank(x, m.id) \in Nat
  BY RankIsNat
<1>4. \A x, y \in T : Rank(x, m.id) = Rank(y, m.id) => x = y
  BY RanksDiffer
<1> HIDE DEF e, matches, N, T
<1>5. SameModel(e, m)
  BY <1>1 DEF FilledUpTo
<1>6. ASSUME NEW f \in Range(Fields)
      PROVE  LET gives == Givers(registry_, m, f, day)
             IN  /\ e[f] = IF m[f] # None THEN m[f]
                           ELSE IF gives = {} THEN None
                           ELSE Best(gives, m).models[m.id][f]
                 /\ m[f] = None /\ gives # {} => Best(gives, m) \in gives
  <2> DEFINE gives == Givers(registry_, m, f, day)
             best == Best(gives, m)
             Giving == { k \in 1 .. N : Gives(matches[k], m, f, day) }
  <2>0. \A d : d \in gives <=> d \in T /\ Gives(d, m, f, day)
    BY DEF Givers, T
  <2> HIDE DEF gives
  <2>1. CASE m[f] # None
    BY <1>1, <2>1 DEF FilledUpTo
  <2>2. CASE m[f] = None /\ gives = {}
    <3>1. \A k \in 1 .. N : ~ Gives(matches[k], m, f, day)
      BY <1>2, <2>0, <2>2
    <3>2. e[f] = None
      BY <1>1, <2>2, <3>1 DEF FilledUpTo
    <3> QED
      BY <2>2, <3>2 DEF gives
  <2>3. CASE m[f] = None /\ gives # {}
    <3>1. Giving \subseteq Nat /\ Giving # {}
      BY <1>2, <2>0, <2>3
    <3>2. PICK k \in Giving : \A j \in Giving : k <= j
      <4> HIDE DEF Giving
      <4> QED
        BY <3>1, LeastOf
    <3>3. k \in 1 .. N /\ Gives(matches[k], m, f, day) /\ k \in Nat
      BY <1>2
    <3>4. \A j \in 1 .. k - 1 : ~ Gives(matches[j], m, f, day)
      <4> SUFFICES ASSUME NEW j \in 1 .. k - 1, Gives(matches[j], m, f, day) PROVE FALSE
        OBVIOUS
      <4>1. j \in 1 .. N /\ ~ (k <= j)
        BY <1>2, <3>3
      <4>2. j \in Giving
        BY <4>1
      <4> QED
        BY <3>2, <4>1, <4>2
    <3>5. e[f] = matches[k].models[m.id][f]
      BY <1>1, <2>3, <3>3, <3>4 DEF FilledUpTo
    <3>6. matches[k] \in gives
      BY <1>2, <2>0, <3>3
    <3>7. \A g \in gives : Rank(matches[k], m.id) >= Rank(g, m.id)
      <4> SUFFICES ASSUME NEW g \in gives PROVE Rank(matches[k], m.id) >= Rank(g, m.id)
        OBVIOUS
      <4>1. g \in T /\ Gives(g, m, f, day)
        BY <2>0
      <4>2. PICK j \in 1 .. N : matches[j] = g
        BY <1>2, <4>1
      <4>3. j \in Giving
        BY <4>1, <4>2
      <4>4. k = j \/ k < j
        BY <1>2, <3>2, <3>3, <4>3
      <4>5. Rank(matches[k], m.id) \in Nat /\ Rank(g, m.id) \in Nat
        BY <1>2, <1>3, <3>3, <4>1
      <4> QED
        BY <1>2, <3>3, <4>2, <4>4, <4>5
    <3>8. gives \subseteq T
      BY <2>0
    <3>9. best \in gives /\ \A g \in gives : Rank(best, m.id) >= Rank(g, m.id)
      BY <3>6, <3>7 DEF Best
    <3>10. best = matches[k]
      <4> HIDE DEF best
      <4>1. /\ Rank(best, m.id) \in Nat /\ Rank(matches[k], m.id) \in Nat
            /\ Rank(best, m.id) >= Rank(matches[k], m.id)
            /\ Rank(matches[k], m.id) >= Rank(best, m.id)
        BY <1>3, <3>6, <3>7, <3>8, <3>9
      <4>2. Rank(best, m.id) = Rank(matches[k], m.id)
        BY <4>1
      <4> QED
        BY <1>4, <3>6, <3>8, <3>9, <4>2
    <3>11. e[f] = best.models[m.id][f]
      BY <3>5, <3>10
    <3> QED
      BY <2>3, <3>9, <3>11 DEF gives
  <2> QED
    BY <2>1, <2>2, <2>3 DEF gives
<1> QED
  BY <1>5, <1>6 DEF e, T

LEMMA StoredModels ==
  ASSUME NEW snapshot \in Snapshots, NEW m \in snapshot.models
  PROVE  ModelIsValid(m) /\ IsFiniteSet(snapshot.models)
BY ModelsAreValid DEF Snapshots

LEMMA InvHonours == ServiceInv => EnrichmentHonoursPrecedence
<1> DEFINE day == now \div TicksPerDay
<1> SUFFICES ASSUME ServiceInv, history # <<>>, registry # None,
                    NEW m \in Last(history).models, NEW i \in DOMAIN Fields
             PROVE  LET f     == Fields[i]
                        e     == Enriched(m, registry, day)
                        gives == { d \in registry : /\ Speaks(d, m.provider, m.id)
                                                    /\ Freshness(d, day) = "fresh"
                                                    /\ d.models[m.id][f] # None
                                                    /\ f = "order" =>
                                                         Range(d.models[m.id].order) = m.efforts }
                    IN  e[f] = IF m[f] # None THEN m[f]
                               ELSE IF gives = {} THEN None
                               ELSE (CHOOSE d \in gives : \A g \in gives :
                                        Rank(d, m.id) >= Rank(g, m.id)).models[m.id][f]
  BY DEF EnrichmentHonoursPrecedence
<1> DEFINE f     == Fields[i]
           gives == { d \in registry : /\ Speaks(d, m.provider, m.id)
                                       /\ Freshness(d, day) = "fresh"
                                       /\ d.models[m.id][f] # None
                                       /\ f = "order" =>
                                            Range(d.models[m.id].order) = m.efforts }
<1>1. Last(history) \in Snapshots
  BY LastIsStored DEF ServiceInv
<1>2. ModelIsValid(m)
  <2> DEFINE latest == Last(history)
  <2>1. latest \in Snapshots /\ m \in latest.models
    BY <1>1
  <2> HIDE DEF latest
  <2> QED
    BY <2>1, StoredModels
<1>3. RegistryIsValid(registry)
  BY SetupIsValid DEF ServiceInv
<1>4. f \in Range(Fields)
  BY DEF Range
<1> HIDE DEF day, f
<1>5. gives = Givers(registry, m, f, day)
  BY DEF Speaking, Gives, Givers
<1> HIDE DEF gives
<1>6. Enriched(m, registry, day)[f] =
        IF m[f] # None THEN m[f]
        ELSE IF gives = {} THEN None ELSE Best(gives, m).models[m.id][f]
  BY <1>2, <1>3, <1>4, <1>5, EnrichedIs
<1> QED
  BY <1>6, Zenon DEF Best, gives, f, day

\* Every field routing sees is the provider's, or that of the fresh profile of highest
\* precedence that gives it, for every registry, catalogue and day.
THEOREM PrecedenceIsHonoured == Spec => []EnrichmentHonoursPrecedence
BY ServiceIsConsistent, InvHonours, PTL

-----------------------------------------------------------------------------
(***************************************************************************)
(* The recommendation.                                                     *)
(***************************************************************************)
\* A finite set has a first member in a total order, given by its pairs.
LEMMA FirstExists ==
  ASSUME NEW T, IsFiniteSet(T), T # {}, NEW R,
         \A x, y \in T : x = y \/ <<x, y>> \in R \/ <<y, x>> \in R,
         \A x, y, z \in T : <<x, y>> \in R /\ <<y, z>> \in R => <<x, z>> \in R
  PROVE  \E a \in T : \A b \in T \ {a} : <<a, b>> \in R
<1> DEFINE HasFirst(U) == \E a \in U : \A b \in U \ {a} : <<a, b>> \in R
           N == Cardinality(T)
           Good == { n \in Nat : \A U \in SUBSET T : Cardinality(U) = n + 1 => HasFirst(U) }
<1>0. N \in Nat /\ N # 0
  BY FS_CardinalityType, FS_EmptySet
<1>1. 0 \in Good
  <2>1. ASSUME NEW U \in SUBSET T, Cardinality(U) = 0 + 1 PROVE HasFirst(U)
    <3>1. IsFiniteSet(U) /\ Cardinality(U) = 1
      BY <2>1, FS_Subset
    <3>2. PICK x : U = {x}
      BY <3>1, FS_Singleton
    <3> QED
      BY <3>2
  <2> QED
    BY <2>1
<1>2. ASSUME NEW n \in Nat, n \in Good PROVE n + 1 \in Good
  <2>1. ASSUME NEW U \in SUBSET T, Cardinality(U) = n + 1 + 1 PROVE HasFirst(U)
    <3>1. IsFiniteSet(U)
      BY FS_Subset
    <3>2. Cardinality(U) # 0
      BY <2>1
    <3>3. PICK d : d \in U
      BY <3>1, <3>2, FS_EmptySet
    <3> DEFINE V == U \ {d}
    <3>4. V \in SUBSET T /\ Cardinality(V) = n + 1
      <4>1. Cardinality(V) = Cardinality(U) - 1
        BY <3>1, <3>3, FS_RemoveElement
      <4> QED
        BY <4>1, <2>1
    <3>5. \A x : x \in V <=> x \in U /\ x # d
      OBVIOUS
    <3> HIDE DEF V
    <3>6. HasFirst(V)
      <4> HIDE DEF HasFirst
      <4> QED
        BY <3>4, <1>2
    <3>7. PICK a \in V : \A b \in V \ {a} : <<a, b>> \in R
      BY <3>6
    <3>8. a \in T /\ d \in T /\ a # d /\ a \in U
      BY <3>3, <3>5
    <3>9. CASE <<a, d>> \in R
      <4>1. \A b \in U \ {a} : <<a, b>> \in R
        BY <3>5, <3>7, <3>9
      <4> QED
        BY <4>1, <3>8
    <3>10. CASE <<d, a>> \in R
      <4>1. \A b \in U \ {d} : <<d, b>> \in R
        <5> TAKE b \in U \ {d}
        <5>1. b \in T /\ (b = a \/ b \in V \ {a})
          BY <3>5
        <5> QED
          BY <3>7, <3>8, <3>10, <5>1
      <4> QED
        BY <4>1, <3>3
    <3> QED
      BY <3>8, <3>9, <3>10
  <2> HIDE DEF HasFirst
  <2> QED
    BY <2>1
<1>3. N - 1 \in Good
  <2> DEFINE M == N - 1
  <2>1. M \in Nat
    BY <1>0
  <2> HIDE DEF Good, M
  <2>2. \A n \in 0 .. M : n \in Good /\ n < M => n + 1 \in Good
    BY <1>2
  <2>3. \A n \in 0 .. M : n \in Good
    BY <2>1, <1>1, <2>2, UpTo
  <2>4. M \in Good
    BY <2>1, <2>3
  <2> QED
    BY <2>4 DEF M
<1>4. HasFirst(T)
  <2> HIDE DEF HasFirst
  <2>1. Cardinality(T) = N - 1 + 1
    BY <1>0
  <2> QED
    BY <1>3, <2>1
<1> QED
  BY <1>4

\* The numbers of a task are metrics.
TaskIsValid(task) ==
  /\ task.complexity \in 0 .. Part /\ task.ambiguity \in 0 .. Part
  /\ task.failureCost \in 0 .. Part /\ task.verifiability \in 0 .. Part
  /\ task.contextDemand \in 0 .. Part /\ task.latencySensitivity \in 0 .. Part

LEMMA HeuristicIs ==
  \A class \in DOMAIN Heuristic : \A i \in 1 .. 6 : Heuristic[class][i] \in 0 .. Part
<1> DEFINE fits(t) == \A i \in 1 .. 6 : t[i] \in 0 .. 20
<1>1. fits(<< 3,  2,  3, 19,  2, 16>>) /\ fits(<< 9,  6,  7, 15,  8, 10>>)
  OBVIOUS
<1>2. fits(<<15, 11, 13,  9, 15,  7>>) /\ fits(<<14, 10, 13, 10, 17,  7>>)
  OBVIOUS
<1>3. fits(<<18, 15, 18,  5, 18,  4>>) /\ fits(<<14, 14, 11,  7, 13,  5>>)
  OBVIOUS
<1>4. fits(<<11,  8, 13, 14, 13,  7>>) /\ fits(<<10, 10, 10, 10, 10, 10>>)
  OBVIOUS
<1> HIDE DEF fits
<1>5. \A class \in DOMAIN Heuristic : fits(Heuristic[class])
  BY <1>1, <1>2, <1>3, <1>4 DEF Heuristic
<1> QED
  BY <1>5 DEF fits, Part

LEMMA ProfileIsMetric ==
  ASSUME NEW task \in Tasks
  PROVE  TaskIsValid(Profile(task.class, task.overrides))
<1> DEFINE named == DOMAIN task.overrides
           value(i) == IF Numbers[i] \in named THEN task.overrides[Numbers[i]]
                       ELSE Heuristic[task.class][i]
<1>1. \A i \in 1 .. 6 : Numbers[i] \in Range(Numbers)
  <2>1. DOMAIN Numbers = 1 .. 6
    BY DEF Numbers
  <2> HIDE DEF Numbers
  <2> QED
    BY <2>1 DEF Range
<1>2. \A i \in 1 .. 6 : value(i) \in 0 .. Part
  BY <1>1, HeuristicIs, TasksAreValid
<1>3. value(1) \in 0 .. Part /\ value(2) \in 0 .. Part /\ value(3) \in 0 .. Part
      /\ value(4) \in 0 .. Part /\ value(5) \in 0 .. Part /\ value(6) \in 0 .. Part
  BY <1>2
<1> HIDE DEF value, named
<1> DEFINE profile == Profile(task.class, task.overrides)
<1>4. /\ profile.complexity = value(1) /\ profile.ambiguity = value(2)
      /\ profile.failureCost = value(3) /\ profile.verifiability = value(4)
      /\ profile.contextDemand = value(5) /\ profile.latencySensitivity = value(6)
  BY DEF Profile, value, named
<1> HIDE DEF profile
<1> QED
  BY <1>3, <1>4 DEF TaskIsValid, profile

LEMMA Products == \A a, b \in Int : a * b \in Int
OBVIOUS

LEMMA PolicyNumbers ==
  ASSUME NEW p, PolicyIsValid(p)
  PROVE  /\ p.quotaWeight \in Int /\ p.latencyWeight \in Int /\ p.overcapability \in Int
         /\ p.failureWeight \in Int /\ p.lowVerifiability \in Int /\ p.tolerance \in Int
         /\ p.riskReduction \in Int /\ p.unknownPressure \in Int /\ p.missingCost \in Int
         /\ p.missingLatency \in Int /\ p.effortReduction \in Int
         /\ p.maxSteps \in Nat /\ p.maxAlternatives \in Nat
BY DEF PolicyIsValid, Part

LEMMA CandidateNumbers ==
  ASSUME NEW p, PolicyIsValid(p), NEW task, TaskIsValid(task), NEW pressure \in Int,
         NEW m, ValidMetric(m.power) # None
  PROVE  /\ m.power \in Int
         /\ EffectiveCost(p, m) \in Int /\ EffectiveLatency(p, m) \in Int
         /\ Quality(p, task, m) \in Int /\ QuotaPenalty(p, pressure, m) \in Int
         /\ LatencyPenalty(p, task, m) \in Int /\ OvercapabilityPenalty(p, task, m) \in Int
         /\ Utility(p, task, pressure, m) \in Int
<1>0. /\ p.quotaWeight \in Int /\ p.latencyWeight \in Int /\ p.overcapability \in Int
      /\ p.failureWeight \in Int /\ p.lowVerifiability \in Int
      /\ p.missingCost \in Int /\ p.missingLatency \in Int
  BY PolicyNumbers
<1>1. /\ task.complexity \in Int /\ task.ambiguity \in Int /\ task.failureCost \in Int
      /\ task.verifiability \in Int /\ task.contextDemand \in Int
      /\ task.latencySensitivity \in Int
  BY DEF TaskIsValid, Part
<1>2. m.power \in Int
  BY DEF ValidMetric, Part
<1>3. EffectiveCost(p, m) \in Int
  BY <1>0 DEF EffectiveCost, MetricOr, ValidMetric, Part
<1>4. EffectiveLatency(p, m) \in Int
  BY <1>0 DEF EffectiveLatency, MetricOr, ValidMetric, Part
<1>5. Doubt(task) \in Int
  BY <1>1 DEF Doubt, Part
<1>6. Difficulty(task) \in Int
  BY <1>1, <1>5 DEF Difficulty, Bounded, Whole
<1>7. RequiredPower(p, task) \in Int
  <2>1. p.failureWeight * task.failureCost \in Int /\ p.lowVerifiability * Doubt(task) \in Int
    BY <1>0, <1>1, <1>5, Products
  <2> DEFINE a == p.failureWeight * task.failureCost
             b == p.lowVerifiability * Doubt(task)
  <2>2. RequiredPower(p, task) = Bounded(Difficulty(task) + 60 * (a + b), Whole)
    BY DEF RequiredPower
  <2>3. a \in Int /\ b \in Int
    BY <2>1
  <2> HIDE DEF a, b
  <2> QED
    BY <2>2, <2>3, <1>6 DEF Bounded, Whole
<1>8. Quality(p, task, m) \in Int
  BY <1>2, <1>7 DEF Quality, Score, Positive, Whole
<1>9. QuotaPenalty(p, pressure, m) \in Int
  <2>1. 3 * pressure \in Int
    OBVIOUS
  <2>2. 3 * pressure * EffectiveCost(p, m) \in Int
    BY <2>1, <1>3, Products
  <2>3. 3 * pressure * EffectiveCost(p, m) * p.quotaWeight \in Int
    BY <2>2, <1>0, Products
  <2> QED
    BY <2>3 DEF QuotaPenalty
<1>10. LatencyPenalty(p, task, m) \in Int
  <2>1. 3 * task.latencySensitivity \in Int
    BY <1>1
  <2>2. 3 * task.latencySensitivity * EffectiveLatency(p, m) \in Int
    BY <2>1, <1>4, Products
  <2>3. 3 * task.latencySensitivity * EffectiveLatency(p, m) * p.latencyWeight \in Int
    BY <2>2, <1>0, Products
  <2> QED
    BY <2>3 DEF LatencyPenalty
<1>11. OvercapabilityPenalty(p, task, m) \in Int
  <2> DEFINE over == Positive(Score(m.power) - RequiredPower(p, task))
  <2>1. over \in Int
    BY <1>2, <1>7 DEF Positive, Score
  <2> HIDE DEF over
  <2>2. over * p.overcapability \in Int
    BY <2>1, <1>0, Products
  <2> DEFINE weighed == over * p.overcapability
  <2> HIDE DEF weighed
  <2>3. weighed \in Int
    BY <2>2 DEF weighed
  <2>4. weighed \div 20 \in Int
    BY <2>3
  <2> QED
    BY <2>4 DEF OvercapabilityPenalty, over, weighed
<1>12. Utility(p, task, pressure, m) \in Int
  BY <1>8, <1>9, <1>10, <1>11 DEF Utility
<1> QED
  BY <1>2, <1>3, <1>4, <1>8, <1>9, <1>10, <1>11, <1>12

-----------------------------------------------------------------------------
(***************************************************************************)
(* Ranking and effort.                                                     *)
(***************************************************************************)
\* What routing may assume of a catalogue: enriched, no id twice.
CatalogueIsValid(models) ==
  /\ IsFiniteSet(models) /\ ModelIdsAreUnique(models)
  /\ \A m \in models : /\ m.id \in Int /\ m.efforts \in SUBSET STRING
                       /\ m.order # None => /\ m.order \in Seq(STRING) /\ IsInjective(m.order)
                                            /\ Range(m.order) = m.efforts

LEMMA FirstRankedIsOne ==
  ASSUME NEW p, PolicyIsValid(p), NEW task, TaskIsValid(task), NEW pressure \in Int,
         NEW models, CatalogueIsValid(models),
         NEW U, U \subseteq Routable(p, task, models), U # {}
  PROVE  /\ FirstRanked(p, task, pressure, U) \in U
         /\ \A m \in U \ {FirstRanked(p, task, pressure, U)} :
               RanksBefore(p, task, pressure, FirstRanked(p, task, pressure, U), m)
<1> DEFINE before(x, y) == RanksBefore(p, task, pressure, x, y)
           R == { xy \in U \X U : before(xy[1], xy[2]) }
<1>1. IsFiniteSet(U)
  <2>1. U \in SUBSET models
    BY DEF Routable
  <2> QED
    BY <2>1, FS_Subset DEF CatalogueIsValid
<1> DEFINE u(x) == Utility(p, task, pressure, x)
           c(x) == EffectiveCost(p, x)
           l(x) == EffectiveLatency(p, x)
<1>2. \A x \in U : u(x) \in Int /\ c(x) \in Int /\ l(x) \in Int /\ x.id \in Int
  <2> SUFFICES ASSUME NEW x \in U PROVE u(x) \in Int /\ c(x) \in Int /\ l(x) \in Int /\ x.id \in Int
    OBVIOUS
  <2>1. x \in models /\ ValidMetric(x.power) # None
    BY DEF Routable
  <2> QED
    BY <2>1, CandidateNumbers DEF CatalogueIsValid
<1>3. \A x, y \in U : x.id = y.id => x = y
  BY DEF CatalogueIsValid, ModelIdsAreUnique, Routable
<1>4. \A x, y : before(x, y) <=>
         \/ u(x) - u(y) > 0
         \/ u(x) - u(y) = 0 /\ c(x) - c(y) < 0
         \/ u(x) - u(y) = 0 /\ c(x) - c(y) = 0 /\ l(x) - l(y) < 0
         \/ u(x) - u(y) = 0 /\ c(x) - c(y) = 0 /\ l(x) - l(y) = 0 /\ x.id < y.id
  BY DEF RanksBefore
<1> HIDE DEF before, u, c, l
<1>5. \A x, y \in U : x = y \/ before(x, y) \/ before(y, x)
  <2> TAKE x \in U, y \in U
  <2>1. /\ u(x) \in Int /\ c(x) \in Int /\ l(x) \in Int /\ x.id \in Int
        /\ u(y) \in Int /\ c(y) \in Int /\ l(y) \in Int /\ y.id \in Int
    BY <1>2
  <2>2. x.id = y.id => x = y
    BY <1>3
  <2> QED
    BY <2>1, <2>2, <1>4
<1>6. \A x, y, z \in U : before(x, y) /\ before(y, z) => before(x, z)
  <2> SUFFICES ASSUME NEW x \in U, NEW y \in U, NEW z \in U, before(x, y), before(y, z)
               PROVE  before(x, z)
    OBVIOUS
  <2>1. /\ u(x) \in Int /\ c(x) \in Int /\ l(x) \in Int /\ x.id \in Int
        /\ u(y) \in Int /\ c(y) \in Int /\ l(y) \in Int /\ y.id \in Int
        /\ u(z) \in Int /\ c(z) \in Int /\ l(z) \in Int /\ z.id \in Int
    BY <1>2
  <2> QED
    BY <2>1, <1>4
<1>7. \A x, y \in U : <<x, y>> \in R <=> before(x, y)
  OBVIOUS
<1> HIDE DEF R
<1>8. \A x, y \in U : x = y \/ <<x, y>> \in R \/ <<y, x>> \in R
  BY <1>5, <1>7
<1>9. \A x, y, z \in U : <<x, y>> \in R /\ <<y, z>> \in R => <<x, z>> \in R
  BY <1>6, <1>7
<1>10. \E a \in U : \A b \in U \ {a} : <<a, b>> \in R
  BY <1>1, <1>8, <1>9, FirstExists
<1>11. \E a \in U : \A b \in U \ {a} : before(a, b)
  BY <1>7, <1>10
<1> QED
  BY <1>11 DEF FirstRanked, before

LEMMA WeakestIsOne ==
  ASSUME NEW p, NEW task, NEW models, CatalogueIsValid(models),
         NEW U, U \subseteq Routable(p, task, models), U # {}
  PROVE  Weakest(U) \in U
<1> DEFINE before(x, y) == x.power < y.power \/ (x.power = y.power /\ x.id < y.id)
           R == { xy \in U \X U : before(xy[1], xy[2]) }
<1>1. IsFiniteSet(U)
  <2>1. U \in SUBSET models
    BY DEF Routable
  <2> QED
    BY <2>1, FS_Subset DEF CatalogueIsValid
<1>2. \A x \in U : x.power \in Int /\ x.id \in Int
  <2> TAKE x \in U
  <2>1. x \in models /\ ValidMetric(x.power) # None
    BY DEF Routable
  <2> QED
    BY <2>1 DEF CatalogueIsValid, ValidMetric, Part
<1>3. \A x, y \in U : x.id = y.id => x = y
  BY DEF CatalogueIsValid, ModelIdsAreUnique, Routable
<1>5. \A x, y \in U : x = y \/ before(x, y) \/ before(y, x)
  BY <1>2, <1>3
<1>6. \A x, y, z \in U : before(x, y) /\ before(y, z) => before(x, z)
  BY <1>2
<1>7. \A x, y \in U : <<x, y>> \in R <=> before(x, y)
  OBVIOUS
<1> HIDE DEF R, before
<1>8. \A x, y \in U : x = y \/ <<x, y>> \in R \/ <<y, x>> \in R
  BY <1>5, <1>7
<1>9. \A x, y, z \in U : <<x, y>> \in R /\ <<y, z>> \in R => <<x, z>> \in R
  BY <1>6, <1>7
<1>10. \E a \in U : \A b \in U \ {a} : <<a, b>> \in R
  BY <1>1, <1>8, <1>9, FirstExists
<1>11. \E a \in U : \A b \in U \ {a} : before(a, b)
  BY <1>7, <1>10
<1> QED
  BY <1>11 DEF Weakest, before

\* The order of a model, as far as efforts are taken from it.
OrderIsValid(m) ==
  m.order # None => /\ m.order \in Seq(STRING) /\ IsInjective(m.order)
                    /\ Range(m.order) = m.efforts

Place(m, e) == CHOOSE i \in DOMAIN m.order : m.order[i] = e

LEMMA EffortIsOwn ==
  ASSUME NEW p, PolicyIsValid(p), NEW task, TaskIsValid(task), NEW pressure \in Int,
         NEW m, OrderIsValid(m), RecommendEffort(p, task, pressure, m) # None
  PROVE  m.order # None /\ RecommendEffort(p, task, pressure, m) \in m.efforts
<1>1. m.efforts # {} /\ m.order # None
  BY DEF RecommendEffort
<1> DEFINE demand == EffortDemand(p, task, pressure)
           n == Len(m.order)
           step == (demand * n) \div DemandUnit
<1>2. m.order \in Seq(STRING) /\ Range(m.order) = m.efforts
  BY <1>1 DEF OrderIsValid
<1>3. n \in Nat /\ DOMAIN m.order = 1 .. n
  BY <1>2
<1>4. n # 0
  BY <1>1, <1>2, <1>3 DEF Range
<1>5. demand \in Int
  <2>0. /\ task.complexity \in Int /\ task.ambiguity \in Int /\ task.failureCost \in Int
        /\ task.verifiability \in Int /\ Doubt(task) \in Int /\ p.effortReduction \in Int
    BY PolicyNumbers DEF TaskIsValid, Part, Doubt
  <2> DEFINE full == 8000 * (7 * task.complexity + 5 * task.ambiguity
                             + 4 * task.failureCost + 4 * Doubt(task))
             reduction == p.effortReduction * pressure * task.verifiability
                          * (Part - task.failureCost) * (Part - task.ambiguity)
  <2>1. full \in Int
    BY <2>0
  <2>2. reduction \in Int
    <3>1. p.effortReduction * pressure \in Int
      BY <2>0, Products
    <3>2. p.effortReduction * pressure * task.verifiability \in Int
      BY <2>0, <3>1, Products
    <3>3. Part - task.failureCost \in Int /\ Part - task.ambiguity \in Int
      BY <2>0 DEF Part
    <3>4. p.effortReduction * pressure * task.verifiability * (Part - task.failureCost) \in Int
      BY <3>2, <3>3, Products
    <3> QED
      BY <3>3, <3>4, Products
  <2>3. demand = IF SafeToReduce(task, pressure) THEN Positive(full - reduction)
                 ELSE Bounded(full, DemandUnit)
    BY DEF EffortDemand
  <2> HIDE DEF full, reduction, demand
  <2> QED
    BY <2>1, <2>2, <2>3 DEF Positive, Bounded, DemandUnit
<1>6. RecommendEffort(p, task, pressure, m) = m.order[1 + Bounded(step, n - 1)]
  BY <1>1 DEF RecommendEffort
<1>7. step \in Int
  <2> HIDE DEF demand, n
  <2>1. demand * n \in Int
    BY <1>3, <1>5
  <2> DEFINE product == demand * n
  <2>2. product \in Int
    BY <2>1
  <2> HIDE DEF product
  <2>3. product \div DemandUnit \in Int
    BY <2>2 DEF DemandUnit
  <2> QED
    BY <2>3 DEF product
<1> HIDE DEF step, n
<1>8. 1 + Bounded(step, n - 1) \in 1 .. n
  BY <1>3, <1>4, <1>7 DEF Bounded
<1> QED
  BY <1>1, <1>2, <1>3, <1>6, <1>8 DEF Range

\* The next effort is the one after, and one of the model's own.
LEMMA NextEffortIsHigher ==
  ASSUME NEW m, OrderIsValid(m), NEW e, e # None => m.order # None /\ e \in m.efforts,
         NextEffort(m, e) # None
  PROVE  /\ e # None /\ m.order # None /\ NextEffort(m, e) \in m.efforts
         /\ Place(m, NextEffort(m, e)) > Place(m, e)
<1>1. m.order # None /\ e # None
  BY DEF NextEffort
<1> DEFINE n == Len(m.order)
           place == Place(m, e)
           next == NextEffort(m, e)
<1>2. /\ m.order \in Seq(STRING) /\ Range(m.order) = m.efforts
      /\ \A i, j \in DOMAIN m.order : m.order[i] = m.order[j] => i = j
  BY <1>1 DEF OrderIsValid, IsInjective
<1>3. n \in Nat /\ DOMAIN m.order = 1 .. n
  BY <1>2
<1>4. \E i \in DOMAIN m.order : m.order[i] = e
  BY <1>1, <1>2 DEF Range
<1>5. place \in 1 .. n /\ m.order[place] = e
  BY <1>3, <1>4 DEF Place
<1>6. next = IF place < n THEN m.order[place + 1] ELSE None
  BY <1>1 DEF NextEffort, Place
<1> HIDE DEF place, next, n
<1>7. place < n /\ next = m.order[place + 1]
  BY <1>6 DEF next
<1>8. place + 1 \in 1 .. n
  BY <1>3, <1>5, <1>7
<1>9. next \in m.efforts
  BY <1>2, <1>3, <1>7, <1>8 DEF Range
<1>10. Place(m, next) = place + 1
  <2>1. \E i \in DOMAIN m.order : m.order[i] = next
    BY <1>3, <1>7, <1>8
  <2>2. Place(m, next) \in DOMAIN m.order /\ m.order[Place(m, next)] = next
    BY <2>1 DEF Place
  <2> QED
    BY <1>2, <1>3, <1>7, <1>8, <2>2
<1>11. Place(m, next) > place
  BY <1>3, <1>5, <1>10
<1> QED
  BY <1>1, <1>9, <1>11 DEF next, place

ModelOf(models, s) == CHOOSE m \in models : m.id = s.model

\* A step names a routable model, and an effort of that model if any.
IsOwn(p, task, models, s) ==
  /\ ModelOf(models, s) \in Routable(p, task, models)
  /\ s.effort # None => s.effort \in ModelOf(models, s).efforts

\* The next step is a stronger model or a higher effort.
Climbs(models, s, t) ==
  \/ ModelOf(models, t).power > ModelOf(models, s).power
  \/ /\ t.model = s.model
     /\ s.effort # None /\ t.effort # None
     /\ Place(ModelOf(models, t), t.effort) > Place(ModelOf(models, s), s.effort)

LEMMA StepOfModel ==
  ASSUME NEW p, NEW task, NEW models, CatalogueIsValid(models),
         NEW m \in Routable(p, task, models), NEW e, e # None => e \in m.efforts
  PROVE  /\ Step(m, e).model = m.id /\ Step(m, e).effort = e
         /\ ModelOf(models, Step(m, e)) = m
         /\ IsOwn(p, task, models, Step(m, e))
<1>1. Step(m, e).model = m.id /\ Step(m, e).effort = e
  BY DEF Step
<1> DEFINE s == Step(m, e)
<1> HIDE DEF s
<1>2. s.model = m.id /\ s.effort = e
  BY <1>1 DEF s
<1>3. m \in models /\ \A x \in models : x.id = m.id => x = m
  BY DEF CatalogueIsValid, ModelIdsAreUnique, Routable
<1>4. ModelOf(models, s) = m
  BY <1>2, <1>3 DEF ModelOf
<1> QED
  BY <1>1, <1>2, <1>4 DEF IsOwn, s

LEMMA RoutableIsValid ==
  ASSUME NEW p, NEW task, NEW models, CatalogueIsValid(models),
         NEW m \in Routable(p, task, models)
  PROVE  OrderIsValid(m) /\ m \in models /\ m.power \in Int
BY DEF CatalogueIsValid, OrderIsValid, Routable, ValidMetric, Part

LEMMA ConcatIs ==
  ASSUME NEW x, NEW y
  PROVE  <<x>> \o <<>> = <<x>> /\ <<x>> \o <<y>> = <<x, y>>
<1> DEFINE S == {x, y}
<1>1. <<x>> \in Seq(S) /\ <<y>> \in Seq(S) /\ <<>> \in Seq(S) /\ <<x, y>> \in Seq(S)
  OBVIOUS
<1>2. Len(<<x>> \o <<y>>) = 2 /\ (<<x>> \o <<y>>)[1] = x /\ (<<x>> \o <<y>>)[2] = y
      /\ <<x>> \o <<y>> \in Seq(S)
  BY <1>1
<1>3. Len(<<x>> \o <<>>) = 1 /\ (<<x>> \o <<>>)[1] = x /\ <<x>> \o <<>> \in Seq(S)
  BY <1>1
<1>4. <<x>> \o <<y>> = <<x, y>>
  <2> DEFINE s == <<x>> \o <<y>>
             t == <<x, y>>
  <2>1. s = [i \in 1 .. 2 |-> s[i]] /\ t = [i \in 1 .. 2 |-> t[i]]
    BY <1>1, <1>2
  <2>2. \A i \in 1 .. 2 : s[i] = t[i]
    <3>1. \A i \in 1 .. 2 : i = 1 \/ i = 2
      OBVIOUS
    <3>2. t[1] = x /\ t[2] = y
      OBVIOUS
    <3> HIDE DEF t
    <3> QED
      BY <1>2, <3>1, <3>2
  <2> HIDE DEF s, t
  <2>3. s = t
    BY <2>1, <2>2
  <2> QED
    BY <2>3 DEF s, t
<1>5. <<x>> \o <<>> = <<x>>
  BY <1>1, <1>3
<1> QED
  BY <1>4, <1>5

LEMMA SmallSeqs ==
  ASSUME NEW S, NEW x \in S, NEW y \in S
  PROVE  <<>> \in Seq(S) /\ <<x>> \in Seq(S) /\ <<x, y>> \in Seq(S)
OBVIOUS

\* At most one step on the selected model, then at most two on a stronger one.
LEMMA PathClimbs ==
  ASSUME NEW p, PolicyIsValid(p), NEW task, TaskIsValid(task), NEW pressure \in Int,
         NEW models, CatalogueIsValid(models), NEW selected \in Routable(p, task, models)
  PROVE  LET effort == RecommendEffort(p, task, pressure, selected)
             first  == Step(selected, effort)
             rest   == EscalationPath(p, task, pressure, selected, effort,
                                      Routable(p, task, models))
             path   == <<first>> \o rest
         IN  /\ \A i \in DOMAIN path : IsOwn(p, task, models, path[i])
             /\ \A i \in 1 .. Len(path) - 1 : Climbs(models, path[i], path[i + 1])
<1> DEFINE C == Routable(p, task, models)
           effort == RecommendEffort(p, task, pressure, selected)
           first == Step(selected, effort)
           own(s) == IsOwn(p, task, models, s)
           climbs(s, t) == Climbs(models, s, t)
           stronger == StrongerThan(selected, C)
           up == NextEffort(selected, effort)
           a == Step(selected, up)
           w == Weakest(stronger)
           we == RecommendEffort(p, task, pressure, w)
           b == Step(w, we)
           wup == NextEffort(w, we)
           c == Step(w, wup)
           modelFirst == Score(selected.power) < RequiredPower(p, task) /\ stronger # {}
           A == IF modelFirst \/ up = None THEN <<>> ELSE <<a>>
           B == IF stronger = {} THEN <<>> ELSE IF wup = None THEN <<b>> ELSE <<b, c>>
           steps == A \o B
           k == Bounded(p.maxSteps, Len(steps))
           rest == EscalationPath(p, task, pressure, selected, effort, C)
<1>1. OrderIsValid(selected) /\ selected.power \in Int
  BY RoutableIsValid
<1>2. effort # None => selected.order # None /\ effort \in selected.efforts
  BY <1>1, EffortIsOwn
<1>3. own(first) /\ ModelOf(models, first) = selected
      /\ first.model = selected.id /\ first.effort = effort
  <2> HIDE DEF effort
  <2> QED
    BY <1>2, StepOfModel
<1>4. up # None => /\ own(a) /\ ModelOf(models, a) = selected /\ climbs(first, a)
  <2> HIDE DEF effort, first
  <2> SUFFICES ASSUME up # None PROVE own(a) /\ ModelOf(models, a) = selected /\ climbs(first, a)
    OBVIOUS
  <2>1. /\ effort # None /\ up \in selected.efforts
        /\ Place(selected, up) > Place(selected, effort)
    BY <1>1, <1>2, NextEffortIsHigher
  <2> HIDE DEF up
  <2>2. own(a) /\ ModelOf(models, a) = selected /\ a.model = selected.id /\ a.effort = up
    BY <2>1, StepOfModel
  <2> HIDE DEF a
  <2>3. climbs(first, a)
    BY <1>3, <2>1, <2>2 DEF Climbs
  <2> QED
    BY <2>2, <2>3
<1>5. stronger # {} => w \in C /\ w.power > selected.power
  <2> SUFFICES ASSUME stronger # {} PROVE w \in C /\ w.power > selected.power
    OBVIOUS
  <2>1. stronger \subseteq C /\ \A x \in stronger : x.power > selected.power
    BY DEF StrongerThan
  <2> HIDE DEF stronger
  <2>2. w \in stronger
    BY <2>1, WeakestIsOne
  <2> HIDE DEF w
  <2> QED
    BY <2>1, <2>2
<1>6. stronger # {} =>
        /\ own(b) /\ climbs(first, b) /\ (up # None => climbs(a, b))
        /\ wup # None => own(c) /\ climbs(b, c)
  <2> SUFFICES ASSUME stronger # {}
               PROVE  /\ own(b) /\ climbs(first, b) /\ (up # None => climbs(a, b))
                      /\ wup # None => own(c) /\ climbs(b, c)
    OBVIOUS
  <2> HIDE DEF effort, first, up, a, w, stronger
  <2>1. w \in C /\ w.power > selected.power
    BY <1>5
  <2>2. OrderIsValid(w)
    BY <2>1, RoutableIsValid
  <2>3. we # None => w.order # None /\ we \in w.efforts
    BY <2>2, EffortIsOwn
  <2> HIDE DEF we
  <2>4. own(b) /\ ModelOf(models, b) = w /\ b.model = w.id /\ b.effort = we
    BY <2>1, <2>3, StepOfModel
  <2> HIDE DEF b
  <2>5. climbs(first, b) /\ (up # None => climbs(a, b))
    BY <1>3, <1>4, <2>1, <2>4 DEF Climbs
  <2>6. ASSUME wup # None PROVE own(c) /\ climbs(b, c)
    <3>1. /\ we # None /\ wup \in w.efforts /\ Place(w, wup) > Place(w, we)
      BY <2>2, <2>3, <2>6, NextEffortIsHigher
    <3> HIDE DEF wup
    <3>2. own(c) /\ ModelOf(models, c) = w /\ c.model = w.id /\ c.effort = wup
      BY <2>1, <2>6, <3>1, StepOfModel
    <3> HIDE DEF c
    <3>3. climbs(b, c)
      BY <2>4, <2>6, <3>1, <3>2 DEF Climbs
    <3> QED
      BY <3>2, <3>3
  <2> QED
    BY <2>4, <2>5, <2>6
<1>7. rest = IF ~ p.escalation THEN <<>> ELSE SubSeq(steps, 1, k)
  <2>1. (IF modelFirst THEN <<>> ELSE IF up = None THEN <<>> ELSE <<a>>) = A
    <3> HIDE DEF modelFirst, up, a
    <3> QED
      OBVIOUS
  <2>2. stronger # {} => <<b>> \o (IF wup = None THEN <<>> ELSE <<c>>) = B
    <3> HIDE DEF stronger, wup, b, c
    <3>1. <<b>> \o <<>> = <<b>> /\ <<b>> \o <<c>> = <<b, c>>
      BY ConcatIs
    <3> QED
      BY <3>1
  <2> DEFINE A2 == IF modelFirst THEN <<>> ELSE IF up = None THEN <<>> ELSE <<a>>
             B2 == IF stronger = {} THEN <<>>
                   ELSE <<b>> \o (IF wup = None THEN <<>> ELSE <<c>>)
  <2>3. rest = IF ~ p.escalation THEN <<>>
               ELSE SubSeq(A2 \o B2, 1, Bounded(p.maxSteps, Len(A2 \o B2)))
    BY DEF EscalationPath
  <2>4. A2 = A
    BY <2>1
  <2>5. B2 = B
    <3> HIDE DEF stronger, b, c, wup
    <3> QED
      BY <2>2
  <2> HIDE DEF A, B, A2, B2, rest
  <2> QED
    BY <2>3, <2>4, <2>5
<1> HIDE DEF effort, first, up, a, w, we, b, wup, c, modelFirst, stronger, rest, own, climbs
<1> DEFINE S == {first, a, b, c}
<1>8. /\ A \in Seq(S) /\ (A = <<>> \/ (A = <<a>> /\ own(a) /\ climbs(first, a) /\ up # None))
      /\ B \in Seq(S)
      /\ \/ B = <<>>
         \/ B = <<b>> /\ stronger # {}
         \/ B = <<b, c>> /\ stronger # {} /\ wup # None
  <2>0. a \in S /\ b \in S /\ c \in S
    OBVIOUS
  <2> HIDE DEF S
  <2>1. A \in Seq(S)
    BY <2>0, SmallSeqs
  <2>2. A = <<>> \/ (A = <<a>> /\ up # None)
    BY Zenon
  <2>3. B \in Seq(S)
    <3>1. <<>> \in Seq(S) /\ <<b>> \in Seq(S) /\ <<b, c>> \in Seq(S)
      BY <2>0, SmallSeqs
    <3> QED
      BY <3>1
  <2>4. \/ B = <<>>
        \/ B = <<b>> /\ stronger # {}
        \/ B = <<b, c>> /\ stronger # {} /\ wup # None
    BY Zenon
  <2> HIDE DEF A, B
  <2> QED
    BY <1>4, <2>1, <2>2, <2>3, <2>4
<1> HIDE DEF A, B, S
<1>9. /\ steps \in Seq(S)
      /\ \A i \in 1 .. Len(steps) : own(steps[i])
      /\ Len(steps) > 0 => climbs(first, steps[1])
      /\ \A i \in 1 .. Len(steps) - 1 : climbs(steps[i], steps[i + 1])
  <2>1. CASE A = <<>>
    <3>1. CASE B = <<>>
      BY <2>1, <3>1
    <3>2. CASE B = <<b>> /\ stronger # {}
      BY <1>6, <1>8, <2>1, <3>2
    <3>3. CASE B = <<b, c>> /\ stronger # {} /\ wup # None
      BY <1>6, <1>8, <2>1, <3>3
    <3> QED
      BY <1>8, <3>1, <3>2, <3>3
  <2>2. CASE A = <<a>> /\ own(a) /\ climbs(first, a) /\ up # None
    <3>1. CASE B = <<>>
      BY <1>8, <2>2, <3>1
    <3>2. CASE B = <<b>> /\ stronger # {}
      BY <1>6, <1>8, <2>2, <3>2
    <3>3. CASE B = <<b, c>> /\ stronger # {} /\ wup # None
      BY <1>6, <1>8, <2>2, <3>3
    <3> QED
      BY <1>8, <3>1, <3>2, <3>3
  <2> QED
    BY <1>8, <2>1, <2>2
<1> HIDE DEF steps
<1>10. k \in 0 .. Len(steps)
  BY <1>9, PolicyNumbers DEF Bounded
<1> HIDE DEF k
<1>11. /\ rest \in Seq(S)
       /\ Len(rest) \in 0 .. Len(steps)
       /\ \A i \in 1 .. Len(rest) : rest[i] = steps[i]
  BY <1>7, <1>9, <1>10
<1> DEFINE path == <<first>> \o rest
<1>12. /\ path \in Seq(S) /\ Len(path) = Len(rest) + 1 /\ path[1] = first
       /\ \A i \in 1 .. Len(rest) : path[i + 1] = rest[i]
  <2>1. first \in S
    BY DEF S
  <2>2. <<first>> \in Seq(S)
    BY <2>1
  <2> QED
    BY <1>11, <2>2
<1> HIDE DEF path
<1>13. \A i \in DOMAIN path : own(path[i])
  <2> TAKE i \in DOMAIN path
  <2>1. i \in 1 .. Len(rest) + 1 /\ Len(rest) \in Nat
    BY <1>11, <1>12
  <2>2. CASE i = 1
    BY <1>3, <1>12, <2>2
  <2>3. CASE i # 1
    <3>1. i - 1 \in 1 .. Len(rest) /\ i - 1 + 1 = i
      BY <2>1, <2>3
    <3>2. path[i] = rest[i - 1] /\ rest[i - 1] = steps[i - 1] /\ i - 1 \in 1 .. Len(steps)
      BY <1>9, <1>11, <1>12, <3>1
    <3> QED
      BY <1>9, <3>2
  <2> QED
    BY <2>2, <2>3
<1>14. \A i \in 1 .. Len(path) - 1 : climbs(path[i], path[i + 1])
  <2> TAKE i \in 1 .. Len(path) - 1
  <2>1. i \in 1 .. Len(rest) /\ Len(rest) \in Nat /\ Len(steps) \in Nat
    BY <1>9, <1>11, <1>12
  <2>2. path[i + 1] = steps[i]
    BY <1>11, <1>12, <2>1
  <2>3. CASE i = 1
    BY <1>9, <1>11, <1>12, <2>1, <2>2, <2>3
  <2>4. CASE i # 1
    <3>1. i - 1 \in 1 .. Len(rest) /\ i - 1 + 1 = i /\ i - 1 \in 1 .. Len(steps) - 1
      BY <1>11, <2>1, <2>4
    <3>2. path[i] = steps[i - 1]
      BY <1>11, <1>12, <3>1
    <3> QED
      BY <1>9, <2>2, <3>1, <3>2
  <2> QED
    BY <2>3, <2>4
<1> QED
  BY <1>13, <1>14 DEF path, first, effort, rest, own, climbs

\* The alternatives chosen so far, and the next of them.
Following(p, task, pressure, selected, others, chosen) ==
  Append(chosen, NextAlternative(p, task, pressure, selected, others \ Range(chosen)))

LEMMA ChosenIs ==
  ASSUME NEW p, NEW task, NEW pressure, NEW selected, NEW others, Cardinality(others) \in Nat
  PROVE  LET chosen == Chosen(p, task, pressure, selected, others)
         IN  /\ chosen[0] = <<>>
             /\ \A n \in 1 .. Cardinality(others) :
                  chosen[n] = Following(p, task, pressure, selected, others, chosen[n - 1])
<1> DEFINE N == Cardinality(others)
           base == <<>>
           next(x) == Following(p, task, pressure, selected, others, x)
           Solves(f, n) == f = [k \in 0 .. n |-> IF k = 0 THEN base ELSE next(f[k - 1])]
           S == { n \in Nat : \E f : Solves(f, n) }
<1>1. 0 \in S
  <2> DEFINE f == [k \in 0 .. 0 |-> base]
  <2>1. Solves(f, 0)
    OBVIOUS
  <2> QED
    BY <2>1
<1>2. ASSUME NEW n \in Nat, n \in S PROVE n + 1 \in S
  <2> PICK f : Solves(f, n)
    BY <1>2
  <2> HIDE DEF base, next
  <2> DEFINE g == [k \in 0 .. n + 1 |-> IF k <= n THEN f[k] ELSE next(f[n])]
             h == [k \in 0 .. n + 1 |-> IF k = 0 THEN base ELSE next(g[k - 1])]
  <2>1. ASSUME NEW k \in 0 .. n + 1 PROVE g[k] = h[k]
    <3>1. CASE k = 0
      BY <3>1
    <3>2. CASE k \in 1 .. n
      <4>1. f[k] = next(f[k - 1])
        BY <3>2
      <4>2. k - 1 \in 0 .. n + 1 /\ k - 1 <= n /\ k # 0 /\ k <= n
        BY <3>2
      <4>3. g[k] = f[k] /\ g[k - 1] = f[k - 1]
        BY <4>2
      <4> QED
        BY <4>1, <4>2, <4>3
    <3>3. CASE k = n + 1
      <4>1. n \in 0 .. n + 1 /\ n <= n /\ k - 1 = n /\ k # 0 /\ ~ (k <= n)
        BY <3>3
      <4>2. g[n] = f[n] /\ g[k] = next(f[n])
        BY <4>1
      <4> QED
        BY <4>1, <4>2, <3>3
    <3> QED
      BY <3>1, <3>2, <3>3
  <2>2. g = h
    <3>1. g = [k \in 0 .. n + 1 |-> g[k]] /\ h = [k \in 0 .. n + 1 |-> h[k]]
      OBVIOUS
    <3> HIDE DEF g, h
    <3> QED
      BY <2>1, <3>1
  <2>3. Solves(g, n + 1)
    BY <2>2
  <2>4. n + 1 \in Nat
    OBVIOUS
  <2> HIDE DEF Solves, g
  <2> QED
    BY <2>3, <2>4
<1>3. N \in S
  <2> HIDE DEF S, N
  <2>1. N \in Nat
    BY DEF N
  <2>2. \A n \in 0 .. N : n \in S /\ n < N => n + 1 \in S
    BY <1>2
  <2>3. \A n \in 0 .. N : n \in S
    BY <1>1, <2>1, <2>2, UpTo
  <2> QED
    BY <2>1, <2>3
<1>4. \E f : Solves(f, N)
  BY <1>3
<1> DEFINE chosen == Chosen(p, task, pressure, selected, others)
<1>5. chosen = CHOOSE f : Solves(f, N)
  BY DEF Chosen, Following
<1> HIDE DEF base, next, N
<1>6. Solves(chosen, N)
  <2> HIDE DEF Solves, chosen
  <2> QED
    BY <1>4, <1>5
<1> HIDE DEF chosen
<1>7. chosen[0] = base /\ \A k \in 1 .. N : chosen[k] = next(chosen[k - 1])
  <2>0. N \in Nat
    BY DEF N
  <2>1. \A k \in 0 .. N : chosen[k] = IF k = 0 THEN base ELSE next(chosen[k - 1])
    BY <1>6
  <2> QED
    BY <2>0, <2>1
<1> QED
  BY <1>7 DEF chosen, base, next, N

LEMMA NextAlternativeIsNew ==
  ASSUME NEW p, PolicyIsValid(p), NEW task, TaskIsValid(task), NEW pressure \in Int,
         NEW models, CatalogueIsValid(models), NEW selected,
         NEW U, U \subseteq Routable(p, task, models), U # {}
  PROVE  NextAlternative(p, task, pressure, selected, U) \in U
<1> DEFINE group == IF CheaperThan(p, selected, U) # {} THEN CheaperThan(p, selected, U)
                    ELSE IF StrongerThan(selected, U) # {} THEN StrongerThan(selected, U)
                    ELSE U
<1>1. NextAlternative(p, task, pressure, selected, U) = FirstRanked(p, task, pressure, group)
  BY DEF NextAlternative
<1>2. group \subseteq U /\ group # {}
  BY DEF CheaperThan, StrongerThan
<1> HIDE DEF group
<1>3. FirstRanked(p, task, pressure, group) \in group
  BY <1>2, FirstRankedIsOne
<1> QED
  BY <1>1, <1>2, <1>3

\* n alternatives are n different ones of the others.
Distinct(s, n, U) ==
  s \in Seq(U) /\ Len(s) = n /\ \A i, j \in 1 .. n : s[i] = s[j] => i = j

LEMMA ChosenAreDistinct ==
  ASSUME NEW p, PolicyIsValid(p), NEW task, TaskIsValid(task), NEW pressure \in Int,
         NEW models, CatalogueIsValid(models), NEW selected,
         NEW U, U \subseteq Routable(p, task, models)
  PROVE  /\ Cardinality(U) \in Nat
         /\ \A n \in 0 .. Cardinality(U) :
               Distinct(Chosen(p, task, pressure, selected, U)[n], n, U)
<1> DEFINE N == Cardinality(U)
           chosen == Chosen(p, task, pressure, selected, U)
           next(x) == NextAlternative(p, task, pressure, selected, U \ Range(x))
           S == { n \in Nat : Distinct(chosen[n], n, U) }
<1>0. IsFiniteSet(U) /\ N \in Nat
  <2>1. U \in SUBSET models
    BY DEF Routable
  <2>2. IsFiniteSet(U)
    BY <2>1, FS_Subset DEF CatalogueIsValid
  <2> QED
    BY <2>2, FS_CardinalityType
<1>1. /\ chosen[0] = <<>>
      /\ \A n \in 1 .. N :
            chosen[n] = Following(p, task, pressure, selected, U, chosen[n - 1])
  BY <1>0, ChosenIs
<1> HIDE DEF N, chosen
<1>2. 0 \in S
  <2>1. Distinct(<<>>, 0, U)
    BY DEF Distinct
  <2> QED
    BY <1>1, <2>1
<1>3. ASSUME NEW n \in 0 .. N, n \in S, n < N PROVE n + 1 \in S
  <2> DEFINE s == chosen[n]
             x == next(s)
             t == chosen[n + 1]
  <2>1. t = Append(s, x)
    <3>1. n + 1 \in 1 .. N /\ n + 1 - 1 = n
      BY <1>0, <1>3
    <3>2. t = Following(p, task, pressure, selected, U, chosen[n + 1 - 1])
      BY <1>1, <3>1
    <3> QED
      BY <3>1, <3>2 DEF Following
  <2>2. Distinct(s, n, U)
    BY <1>3
  <2> HIDE DEF s, t
  <2>3. U \ Range(s) # {}
    <3> SUFFICES ASSUME U \ Range(s) = {} PROVE FALSE
      OBVIOUS
    <3>1. U \in SUBSET Range(s) /\ s \in [1 .. n -> Range(s)] /\ n \in Nat
      BY <2>2, <1>0 DEF Distinct, Range
    <3>2. s \in Surjection(1 .. n, Range(s))
      BY <3>1 DEF Surjection, Range
    <3>3. Cardinality(Range(s)) <= n /\ IsFiniteSet(Range(s)) /\ Cardinality(Range(s)) \in Nat
      <4>1. IsFiniteSet(1 .. n) /\ Cardinality(1 .. n) = n
        BY <3>1, FS_Interval
      <4>2. IsFiniteSet(Range(s)) /\ Cardinality(Range(s)) <= n
        BY <3>2, <4>1, FS_Surjection
      <4> QED
        BY <4>2, FS_CardinalityType
    <3>4. N <= Cardinality(Range(s))
      BY <3>1, <3>3, FS_Subset DEF N
    <3> QED
      BY <1>0, <1>3, <3>1, <3>3, <3>4
  <2>4. x \in U \ Range(s)
    <3>1. U \ Range(s) \subseteq Routable(p, task, models)
      OBVIOUS
    <3> QED
      BY <2>3, <3>1, NextAlternativeIsNew
  <2> HIDE DEF x
  <2>5. t \in Seq(U) /\ Len(t) = n + 1 /\ t[n + 1] = x /\ \A i \in 1 .. n : t[i] = s[i]
    BY <2>1, <2>2, <2>4 DEF Distinct
  <2>6. \A i \in 1 .. n : s[i] # x
    BY <2>2, <2>4 DEF Distinct, Range
  <2>7. \A i \in 1 .. n + 1 : i \in 1 .. n \/ i = n + 1
    BY <1>0
  <2>8. \A i, j \in 1 .. n + 1 : t[i] = t[j] => i = j
    BY <2>2, <2>5, <2>6, <2>7 DEF Distinct
  <2>9. Distinct(t, n + 1, U) /\ n + 1 \in Nat
    BY <2>5, <2>8, <1>0 DEF Distinct
  <2> QED
    BY <2>9 DEF t
<1>4. \A n \in 0 .. N : n \in S
  <2> HIDE DEF S
  <2>1. \A n \in 0 .. N : n \in S /\ n < N => n + 1 \in S
    BY <1>3
  <2> QED
    BY <1>0, <1>2, <2>1, UpTo
<1> QED
  BY <1>0, <1>4 DEF N, chosen

\* The alternatives are steps of different models, none of them the selected one.
LEMMA AlternativesDiffer ==
  ASSUME NEW p, PolicyIsValid(p), NEW task, TaskIsValid(task), NEW pressure \in Int,
         NEW models, CatalogueIsValid(models), NEW selected \in Routable(p, task, models)
  PROVE  LET r == Alternatives(p, task, pressure, selected, Routable(p, task, models))
         IN  /\ \A i \in DOMAIN r : IsOwn(p, task, models, r[i])
             /\ Cardinality({ s.model : s \in Range(r) } \cup {selected.id}) = Len(r) + 1
<1> DEFINE C == Routable(p, task, models)
           U == C \ {selected}
           N == Cardinality(U)
           n == Bounded(p.maxAlternatives, N)
           s == Chosen(p, task, pressure, selected, U)[n]
           effort(m) == RecommendEffort(p, task, pressure, m)
           r == Alternatives(p, task, pressure, selected, C)
           ids == { x.model : x \in Range(r) }
<1>1. N \in Nat /\ \A k \in 0 .. N : Distinct(Chosen(p, task, pressure, selected, U)[k], k, U)
  <2>1. U \subseteq Routable(p, task, models)
    OBVIOUS
  <2> HIDE DEF U
  <2> QED
    BY <2>1, ChosenAreDistinct
<1>2. n \in 0 .. N
  BY <1>1, PolicyNumbers DEF Bounded
<1>3. Distinct(s, n, U)
  <2> HIDE DEF n, N, U
  <2> QED
    BY <1>1, <1>2
<1>4. r = [i \in DOMAIN s |-> Step(s[i], effort(s[i]))]
  BY DEF Alternatives
<1>5. \A m : m \in U <=> m \in C /\ m # selected
  OBVIOUS
<1> HIDE DEF s, n, r, U
<1>6. n \in Nat /\ DOMAIN s = 1 .. n /\ \A i \in 1 .. n : s[i] \in U
  BY <1>1, <1>2, <1>3 DEF Distinct
<1>7. \A i \in 1 .. n : /\ IsOwn(p, task, models, r[i]) /\ r[i].model = s[i].id
  <2> SUFFICES ASSUME NEW i \in 1 .. n
               PROVE  IsOwn(p, task, models, r[i]) /\ r[i].model = s[i].id
    OBVIOUS
  <2> DEFINE m == s[i]
  <2>1. m \in C
    BY <1>5, <1>6
  <2>2. r[i] = Step(m, effort(m))
    BY <1>4, <1>6
  <2> HIDE DEF m
  <2>3. effort(m) # None => effort(m) \in m.efforts
    BY <2>1, RoutableIsValid, EffortIsOwn
  <2> HIDE DEF effort
  <2>4. Step(m, effort(m)).model = m.id /\ IsOwn(p, task, models, Step(m, effort(m)))
    BY <2>1, <2>3, StepOfModel
  <2> QED
    BY <2>2, <2>4 DEF m
<1>8. DOMAIN r = 1 .. n /\ Len(r) = n
  <2>1. DOMAIN r = 1 .. n /\ r = [i \in 1 .. n |-> Step(s[i], effort(s[i]))]
    BY <1>4, <1>6
  <2> HIDE DEF effort
  <2> QED
    BY <2>1, <1>6
<1>9. \A x, y \in C : x.id = y.id => x = y
  BY DEF CatalogueIsValid, ModelIdsAreUnique, Routable
<1> DEFINE f == [i \in 1 .. n |-> r[i].model]
<1>10. \A x : x \in ids <=> \E i \in 1 .. n : x = r[i].model
  BY <1>8 DEF Range
<1> HIDE DEF ids
<1>11. f \in Bijection(1 .. n, ids)
  <2>1. f \in [1 .. n -> ids] /\ \A x \in ids : \E i \in 1 .. n : f[i] = x
    BY <1>10
  <2>2. \A i, j \in 1 .. n : f[i] = f[j] => i = j
    <3> SUFFICES ASSUME NEW i \in 1 .. n, NEW j \in 1 .. n, f[i] = f[j] PROVE i = j
      OBVIOUS
    <3>1. s[i].id = s[j].id /\ s[i] \in C /\ s[j] \in C
      BY <1>5, <1>6, <1>7
    <3>2. s[i] = s[j]
      BY <1>9, <3>1
    <3> QED
      BY <1>3, <3>2 DEF Distinct
  <2> HIDE DEF f
  <2> QED
    BY <2>1, <2>2 DEF Bijection, Injection, Surjection, IsInjective
<1>12. IsFiniteSet(ids) /\ Cardinality(ids) = n
  <2>1. ExistsBijection(1 .. n, ids)
    <3> HIDE DEF f
    <3> QED
      BY <1>11 DEF ExistsBijection
  <2>2. IsFiniteSet(ids)
    BY <1>6, <2>1, FS_NatBijection
  <2> QED
    BY <1>6, <2>1, <2>2, FS_CountingElements
<1>13. selected.id \notin ids
  <2> SUFFICES ASSUME selected.id \in ids PROVE FALSE
    OBVIOUS
  <2>1. PICK i \in 1 .. n : selected.id = r[i].model
    BY <1>10
  <2>2. s[i] \in C /\ s[i] # selected /\ s[i].id = selected.id
    BY <1>5, <1>6, <1>7, <2>1
  <2> QED
    BY <1>9, <2>2
<1>14. Cardinality(ids \cup {selected.id}) = n + 1
  BY <1>12, <1>13, FS_AddElement
<1> QED
  BY <1>7, <1>8, <1>14 DEF r, ids

\* The members of a finite list.
LEMMA ListedIsFinite ==
  ASSUME NEW S, IsFiniteSet(S), NEW f, DOMAIN f = S
  PROVE  IsFiniteSet({ f[x] : x \in S })
<1> DEFINE T == { f[x] : x \in S }
           g == [x \in S |-> f[x]]
<1>1. g \in Surjection(S, T)
  BY DEF Surjection
<1> HIDE DEF g, T
<1>2. IsFiniteSet(T)
  BY <1>1, FS_Surjection
<1> QED
  BY <1>2 DEF T

LEMMA PressureOfState ==
  ASSUME NEW c, ConfigIsValid(c), NEW pool, PoolIsValid(pool), NEW t
  PROVE  LET a == AssessPool(c, pool, t)
         IN  a.pressure \in OrNone(Int) /\ a.remaining \in OrNone(Int) /\ a.id \in Int
<1> DEFINE a == AssessPool(c, pool, t)
<1>1. a.id = pool.id /\ a.remaining = Remaining(pool)
  BY DEF AssessPool
<1>2. \E state : /\ state = None \/ \E delta : state = ClassifyPaceDelta(c, delta)
                 /\ a.pressure = IF state = None THEN None ELSE c.pressures[state]
  <2> DEFINE timing == ResolveTiming(pool)
             expected == IF timing = None THEN None ELSE ExpectedAt(c, timing, t)
             delta == IF timing = None \/ pool.used = None THEN None
                      ELSE PaceDelta(pool.used, expected)
             state == IF delta = None THEN None ELSE ClassifyPaceDelta(c, delta)
  <2>1. a.pressure = IF state = None THEN None ELSE c.pressures[state]
    BY DEF AssessPool
  <2> HIDE DEF delta, a
  <2>2. state = None \/ \E d : state = ClassifyPaceDelta(c, d)
    OBVIOUS
  <2> HIDE DEF state
  <2> QED
    BY <2>1, <2>2
<1> HIDE DEF a
<1>3. PICK state : /\ state = None \/ \E delta : state = ClassifyPaceDelta(c, delta)
                   /\ a.pressure = IF state = None THEN None ELSE c.pressures[state]
  BY <1>2
<1>4. ASSUME NEW delta PROVE ClassifyPaceDelta(c, delta) \in StateNumbers
  <2> DEFINE passed == { i \in 1 .. 2 : delta.num >= c.thresholds[i] * delta.den }
                       \cup { i \in 3 .. 4 : delta.num > c.thresholds[i] * delta.den }
  <2>1. passed \in SUBSET (1 .. 4)
    OBVIOUS
  <2>2. ClassifyPaceDelta(c, delta) = 1 + Cardinality(passed)
    BY DEF ClassifyPaceDelta
  <2> HIDE DEF passed
  <2>3. IsFiniteSet(1 .. 4) /\ Cardinality(1 .. 4) = 4
    <3> DEFINE n == 4
    <3>1. n \in Nat /\ n > 0
      OBVIOUS
    <3> HIDE DEF n
    <3>2. IsFiniteSet(1 .. n) /\ Cardinality(1 .. n) = n
      BY <3>1, FS_Interval
    <3> QED
      BY <3>2 DEF n
  <2>4. IsFiniteSet(passed) /\ Cardinality(passed) <= 4
    BY <2>1, <2>3, FS_Subset
  <2>5. Cardinality(passed) \in Nat
    BY <2>4, FS_CardinalityType
  <2> QED
    BY <2>2, <2>4, <2>5 DEF StateNumbers
<1>5. a.pressure \in OrNone(Int)
  BY <1>3, <1>4 DEF ConfigIsValid, OrNone
<1>6. a.remaining \in OrNone(Int)
  <2>1. Remaining(pool) # None => Remaining(pool) \in 0 .. Unit
    BY RemainingIsPart
  <2> QED
    BY <1>1, <2>1 DEF OrNone
<1> QED
  BY <1>1, <1>5, <1>6 DEF a, PoolIsValid

\* Of the assessments with a pressure, one binds, and none presses more.
LEMMA BindingIsOne ==
  ASSUME NEW U, IsFiniteSet(U), U # {},
         \A a \in U : a.pressure \in Int /\ a.remaining \in OrNone(Int) /\ a.id \in Int
  PROVE  /\ SelectBindingPool(U) \in U
         /\ \A b \in U : b.pressure <= SelectBindingPool(U).pressure
<1> DEFINE R == { ab \in U \X U : BindsBefore(ab[1], ab[2]) }
<1>1. \A a \in U : a.pressure \in Int /\ (a.remaining \in Int \/ a.remaining = None) /\ a.id \in Int
  BY DEF OrNone
<1>2. \A a, b \in U : <<a, b>> \in R <=> BindsBefore(a, b)
  OBVIOUS
<1> HIDE DEF R
<1>3. \A a, b \in U : BindsBefore(a, b) \/ BindsBefore(b, a)
  BY <1>1, NoneIsNoNumber DEF BindsBefore
<1>4. \A a, b, d \in U : BindsBefore(a, b) /\ BindsBefore(b, d) => BindsBefore(a, d)
  <2> SUFFICES ASSUME NEW a \in U, NEW b \in U, NEW d \in U, BindsBefore(a, b),
                      BindsBefore(b, d)
               PROVE  BindsBefore(a, d)
    OBVIOUS
  <2>1. /\ a.pressure \in Int /\ (a.remaining \in Int \/ a.remaining = None) /\ a.id \in Int
        /\ b.pressure \in Int /\ (b.remaining \in Int \/ b.remaining = None) /\ b.id \in Int
        /\ d.pressure \in Int /\ (d.remaining \in Int \/ d.remaining = None) /\ d.id \in Int
    BY <1>1
  <2> QED
    BY <2>1, NoneIsNoNumber DEF BindsBefore
<1>5. \A a, b \in U : a = b \/ <<a, b>> \in R \/ <<b, a>> \in R
  BY <1>2, <1>3
<1>6. \A a, b, d \in U : <<a, b>> \in R /\ <<b, d>> \in R => <<a, d>> \in R
  BY <1>2, <1>4
<1>7. \E a \in U : \A b \in U \ {a} : <<a, b>> \in R
  <2>1. IsFiniteSet(U) /\ U # {}
    OBVIOUS
  <2> QED
    BY ONLY <1>5, <1>6, <2>1, FirstExists
<1>8. \E a \in U : \A b \in U : BindsBefore(a, b)
  BY <1>2, <1>3, <1>7
<1>9. /\ SelectBindingPool(U) \in U
      /\ \A b \in U : BindsBefore(SelectBindingPool(U), b)
  BY <1>8 DEF SelectBindingPool
<1>10. \A a, b \in U : BindsBefore(a, b) => b.pressure <= a.pressure
  BY <1>1 DEF BindsBefore
<1> DEFINE bound == SelectBindingPool(U)
<1> HIDE DEF bound
<1>11. bound \in U /\ \A b \in U : BindsBefore(bound, b)
  BY <1>9 DEF bound
<1>12. bound \in U /\ \A b \in U : b.pressure <= bound.pressure
  BY <1>10, <1>11
<1> QED
  BY <1>12 DEF bound

\* The pools of a report that have a pressure.
Evaluable(c, snapshot, t) ==
  { a \in { AssessPool(c, snapshot.pools[i], t) : i \in DOMAIN snapshot.pools } :
      a.pressure # None }

LEMMA EvaluableIs ==
  ASSUME NEW c, ConfigIsValid(c), NEW snapshot \in Snapshots, NEW t
  PROVE  LET U == Evaluable(c, snapshot, t)
         IN  /\ IsFiniteSet(U)
             /\ \A a \in U : a.pressure \in Int /\ a.remaining \in OrNone(Int) /\ a.id \in Int
             /\ Evaluate(c, snapshot, t).pressure
                = IF U = {} THEN None ELSE SelectBindingPool(U).pressure
<1> DEFINE pools == [i \in DOMAIN snapshot.pools |-> AssessPool(c, snapshot.pools[i], t)]
           T == { pools[i] : i \in DOMAIN pools }
           U == Evaluable(c, snapshot, t)
<1>1. PICK N \in Nat : DOMAIN snapshot.pools = 1 .. N
  BY PoolsAreSequence
<1>2. IsFiniteSet(T)
  <2>1. DOMAIN pools = 1 .. N
    BY <1>1
  <2> HIDE DEF pools
  <2>2. IsFiniteSet(DOMAIN pools)
    BY <2>1, FS_Interval
  <2> QED
    BY <2>2, ListedIsFinite
<1>3. \A a \in T : a.pressure \in OrNone(Int) /\ a.remaining \in OrNone(Int) /\ a.id \in Int
  <2> SUFFICES ASSUME NEW i \in DOMAIN snapshot.pools
               PROVE  LET a == AssessPool(c, snapshot.pools[i], t)
                      IN  a.pressure \in OrNone(Int) /\ a.remaining \in OrNone(Int) /\ a.id \in Int
    OBVIOUS
  <2>1. PoolIsValid(snapshot.pools[i])
    BY StoredPools
  <2> QED
    BY <2>1, PressureOfState
<1>4. U = { a \in T : a.pressure # None } /\ T = Range(pools)
  BY DEF Evaluable, Range
<1>5. Evaluate(c, snapshot, t).pressure = IF U = {} THEN None ELSE SelectBindingPool(U).pressure
  <2>1. Evaluate(c, snapshot, t).pressure
        = LET E == { a \in Range(pools) : a.pressure # None }
          IN  IF E = {} THEN None ELSE SelectBindingPool(E).pressure
    BY DEF Evaluate
  <2> HIDE DEF pools, U, T
  <2> QED
    BY <2>1, <1>4
<1> HIDE DEF T, U
<1>6. IsFiniteSet(U)
  <2>1. U \in SUBSET T
    BY <1>4
  <2> QED
    BY <2>1, <1>2, FS_Subset
<1> QED
  BY <1>3, <1>4, <1>5, <1>6 DEF U, OrNone

\* The pressure a report states, if any, is a number.
LEMMA ReportHasPressure ==
  ASSUME NEW c, ConfigIsValid(c), NEW snapshot \in Snapshots, NEW t
  PROVE  Evaluate(c, snapshot, t).pressure \in OrNone(Int)
<1> DEFINE U == Evaluable(c, snapshot, t)
<1>1. /\ IsFiniteSet(U)
      /\ \A a \in U : a.pressure \in Int /\ a.remaining \in OrNone(Int) /\ a.id \in Int
      /\ Evaluate(c, snapshot, t).pressure = IF U = {} THEN None ELSE SelectBindingPool(U).pressure
  BY EvaluableIs
<1> HIDE DEF U
<1> QED
  BY <1>1, BindingIsOne DEF OrNone

\* Enrichment keeps the identity of a model and a valid order of its efforts.
LEMMA EnrichedIsValid ==
  ASSUME NEW registry_, RegistryIsValid(registry_), NEW m, ModelIsValid(m), NEW day
  PROVE  LET e == Enriched(m, registry_, day)
         IN  /\ e.id \in Int /\ e.efforts \in SUBSET STRING
             /\ e.order # None => /\ e.order \in Seq(STRING) /\ IsInjective(e.order)
                                  /\ Range(e.order) = e.efforts
<1> DEFINE e == Enriched(m, registry_, day)
           gives == Givers(registry_, m, "order", day)
<1>1. /\ SameModel(e, m)
      /\ m["order"] = None /\ gives # {} => Best(gives, m) \in gives
      /\ e["order"] = IF m["order"] # None THEN m["order"]
                      ELSE IF gives = {} THEN None ELSE Best(gives, m).models[m.id]["order"]
  BY EnrichedIs, FieldsAre
<1> HIDE DEF e
<1>2. e.id \in Int /\ e.efforts = m.efforts /\ m.efforts \in SUBSET STRING
  BY <1>1 DEF SameModel, ModelIsValid
<1>3. CASE m.order # None
  BY <1>1, <1>2, <1>3 DEF ModelIsValid, e
<1>4. CASE m.order = None /\ gives = {}
  BY <1>1, <1>2, <1>4 DEF e
<1>5. CASE m.order = None /\ gives # {}
  <2> DEFINE d == Best(gives, m)
             profile == d.models[m.id]
  <2>1. d \in Speaking(registry_, m) /\ Gives(d, m, "order", day) /\ e.order = profile.order
    BY <1>1, <1>5 DEF Givers
  <2> HIDE DEF d, gives
  <2>2. d \in registry_ /\ m.id \in DOMAIN d.models
    BY <2>1 DEF Speaking, Speaks
  <2>3. ProfileIsValid(profile)
    BY <2>2 DEF RegistryIsValid, DocumentIsValid
  <2>4. profile.order # None /\ Range(profile.order) = m.efforts
    BY <2>1 DEF Gives
  <2> HIDE DEF profile
  <2>5. profile.order \in Seq(STRING) /\ IsInjective(profile.order)
    BY <2>3, <2>4 DEF ProfileIsValid
  <2> QED
    BY <1>2, <2>1, <2>4, <2>5 DEF e
<1> QED
  BY <1>3, <1>4, <1>5

LEMMA CatalogueIs ==
  ASSUME SetupKept, NEW snapshot \in Snapshots, NEW at,
         ModelIdsAreUnique(Catalogue(snapshot.models, at))
  PROVE  CatalogueIsValid(Catalogue(snapshot.models, at))
<1> DEFINE models == snapshot.models
           C == Catalogue(models, at)
           valid(e) == /\ e.id \in Int /\ e.efforts \in SUBSET STRING
                       /\ e.order # None => /\ e.order \in Seq(STRING) /\ IsInjective(e.order)
                                            /\ Range(e.order) = e.efforts
<1>1. /\ \A m \in models : ModelIsValid(m)
      /\ IsFiniteSet(models)
  <2>1. PICK shape \in Shapes : models = shape.models
    BY DEF Snapshots
  <2> QED
    BY <2>1, ModelsAreValid
<1> HIDE DEF models
<1>2. CASE registry = None
  <2> DEFINE f == [m \in models |-> [m EXCEPT !.sources = ProviderSources(m)]]
  <2>1. C = { f[m] : m \in models }
    BY <1>2 DEF Catalogue
  <2>2. ASSUME NEW m \in models PROVE valid(f[m])
    <3>1. ModelIsValid(m) /\ f[m] = [m EXCEPT !.sources = ProviderSources(m)]
      BY <1>1
    <3>2. f[m].id = m.id /\ f[m].efforts = m.efforts /\ f[m].order = m.order
      BY <3>1 DEF ModelIsValid
    <3> HIDE DEF f
    <3> QED
      BY <3>1, <3>2 DEF ModelIsValid
  <2>3. DOMAIN f = models
    OBVIOUS
  <2> HIDE DEF f, valid
  <2>4. IsFiniteSet({ f[m] : m \in models })
    BY <1>1, <2>3, ListedIsFinite
  <2>5. IsFiniteSet(C) /\ \A e \in C : valid(e)
    BY <2>1, <2>2, <2>4
  <2> QED
    BY <2>5 DEF CatalogueIsValid, valid, models
<1>3. CASE registry # None
  <2> DEFINE f == [m \in models |-> Enriched(m, registry, at \div TicksPerDay)]
  <2>1. C = { f[m] : m \in models }
    BY <1>3 DEF Catalogue, Enrich
  <2>2. ASSUME NEW m \in models PROVE valid(f[m])
    <3>1. ModelIsValid(m) /\ RegistryIsValid(registry)
      BY <1>1, <1>3, SetupIsValid
    <3> DEFINE day == at \div TicksPerDay
    <3>2. f[m] = Enriched(m, registry, day)
      OBVIOUS
    <3> HIDE DEF f, day
    <3>3. valid(Enriched(m, registry, day))
      BY <3>1, EnrichedIsValid
    <3> QED
      BY <3>2, <3>3
  <2>3. DOMAIN f = models
    OBVIOUS
  <2> HIDE DEF f, valid
  <2>4. IsFiniteSet({ f[m] : m \in models })
    BY <1>1, <2>3, ListedIsFinite
  <2>5. IsFiniteSet(C) /\ \A e \in C : valid(e)
    BY <2>1, <2>2, <2>4
  <2> QED
    BY <2>5 DEF CatalogueIsValid, valid, models
<1> QED
  BY <1>2, <1>3

\* What the answer of a routed request promises of its steps.
StepsClimb(a, path) ==
  LET r        == a.recommendation
      model(s) == CHOOSE m \in a.models : m.id = s.model
      place(s) == CHOOSE i \in DOMAIN model(s).order : model(s).order[i] = s.effort
      offered  == Range(path) \cup Range(r.alternatives)
  IN  /\ \A s \in offered :
           /\ model(s) \in Routable(Policy, a.task, a.models)
           /\ s.effort # None => s.effort \in model(s).efforts
      /\ \A i \in 1 .. Len(path) - 1 :
           \/ model(path[i + 1]).power > model(path[i]).power
           \/ /\ path[i + 1].model = path[i].model
              /\ path[i].effort # None /\ path[i + 1].effort # None
              /\ place(path[i + 1]) > place(path[i])
      /\ Cardinality({ s.model : s \in Range(r.alternatives) } \cup {r.model})
         = Len(r.alternatives) + 1

AnswerClimbs(a) ==
  StepsClimb(a, <<[model |-> a.recommendation.model,
                   effort |-> a.recommendation.effort]>> \o a.recommendation.escalation)

LEMMA ClimbsIsOfAnswer ==
  EscalationClimbs <=> (answer # None /\ answer.kind = "routed" => AnswerClimbs(answer))
BY Zenon DEF EscalationClimbs, AnswerClimbs, StepsClimb

\* The same, of the steps as the engine makes them.
LEMMA StepsMakeAnswer ==
  ASSUME NEW a, NEW first, NEW path,
         first = [model |-> a.recommendation.model, effort |-> a.recommendation.effort],
         path = <<first>> \o a.recommendation.escalation,
         \A i \in DOMAIN path : IsOwn(Policy, a.task, a.models, path[i]),
         \A i \in DOMAIN a.recommendation.alternatives :
            IsOwn(Policy, a.task, a.models, a.recommendation.alternatives[i]),
         \A i \in 1 .. Len(path) - 1 : Climbs(a.models, path[i], path[i + 1]),
         Cardinality({ s.model : s \in Range(a.recommendation.alternatives) }
                     \cup {a.recommendation.model})
         = Len(a.recommendation.alternatives) + 1
  PROVE  AnswerClimbs(a)
<1> DEFINE offered == Range(path) \cup Range(a.recommendation.alternatives)
<1>1. \A s \in offered : IsOwn(Policy, a.task, a.models, s)
  BY DEF Range
<1>2. \A s \in offered : /\ ModelOf(a.models, s) \in Routable(Policy, a.task, a.models)
                         /\ s.effort # None => s.effort \in ModelOf(a.models, s).efforts
  BY <1>1 DEF IsOwn
<1>3. \A i \in 1 .. Len(path) - 1 :
        \/ ModelOf(a.models, path[i + 1]).power > ModelOf(a.models, path[i]).power
        \/ /\ path[i + 1].model = path[i].model
           /\ path[i].effort # None /\ path[i + 1].effort # None
           /\ Place(ModelOf(a.models, path[i + 1]), path[i + 1].effort)
              > Place(ModelOf(a.models, path[i]), path[i].effort)
  BY DEF Climbs
<1> DEFINE model(s) == ModelOf(a.models, s)
           place(s) == Place(model(s), s.effort)
<1>4. /\ \A s \in offered :
           /\ model(s) \in Routable(Policy, a.task, a.models)
           /\ s.effort # None => s.effort \in model(s).efforts
      /\ \A i \in 1 .. Len(path) - 1 :
           \/ model(path[i + 1]).power > model(path[i]).power
           \/ /\ path[i + 1].model = path[i].model
              /\ path[i].effort # None /\ path[i + 1].effort # None
              /\ place(path[i + 1]) > place(path[i])
  BY <1>2, <1>3
<1> HIDE DEF model, place
<1>5. StepsClimb(a, path)
  BY <1>4, Zenon DEF StepsClimb, ModelOf, Place, model, place, offered
<1>6. StepsClimb(a, <<[model |-> a.recommendation.model,
                       effort |-> a.recommendation.effort]>> \o a.recommendation.escalation)
  BY <1>5
<1> QED
  BY <1>6 DEF AnswerClimbs

LEMMA RoutedClimbs ==
  ASSUME SetupKept, NEW snapshot \in Snapshots, NEW task \in Tasks, NEW at,
         RecommendSnapshot(snapshot, task, at).kind = "routed"
  PROVE  AnswerClimbs(RecommendSnapshot(snapshot, task, at))
<1> DEFINE profile == Profile(task.class, task.overrides)
           models == Catalogue(snapshot.models, at)
           known == Evaluate(config, snapshot, at).pressure
           pressure == QuotaPressure(Policy, known).value
           C == Routable(Policy, profile, models)
           selected == FirstRanked(Policy, profile, pressure, C)
           effort == RecommendEffort(Policy, profile, pressure, selected)
           r == Recommend(Policy, profile, known, models)
           q == AttachProfileProvenance(r, models)
           a == RecommendSnapshot(snapshot, task, at)
<1>1. /\ ModelIdsAreUnique(models) /\ C # {}
      /\ a.task = profile /\ a.models = models /\ a.recommendation = q
  <2> DEFINE pressed == [kind |-> "routed", task |-> profile, at |-> at, models |-> models,
                         captured |-> snapshot.captured,
                         pressure |-> Evaluate(config, snapshot, at).pressure,
                         recommendation |-> q]
  <2>1. a = IF ~ PoolIdsAreUnique(snapshot) THEN [kind |-> "budget_error"]
            ELSE IF ~ ModelIdsAreUnique(models) THEN [kind |-> "invalid_capabilities"]
            ELSE IF C = {} THEN [kind |-> "no_routable_model"] ELSE pressed
    BY DEF RecommendSnapshot
  <2>2. pressed.task = profile /\ pressed.models = models /\ pressed.recommendation = q
    OBVIOUS
  <2> HIDE DEF a, pressed, C, models, q
  <2>3. a.kind = "routed"
    BY DEF a
  <2>4. ModelIdsAreUnique(models) /\ C # {} /\ a = pressed
    BY <2>1, <2>3
  <2> QED
    BY <2>2, <2>4
<1>2. TaskIsValid(profile)
  BY ProfileIsMetric
<1>3. CatalogueIsValid(models)
  BY <1>1, CatalogueIs
<1>4. pressure \in Int
  <2>1. known \in OrNone(Int)
    BY SetupIsValid, ReportHasPressure
  <2> HIDE DEF known
  <2>2. Policy.unknownPressure \in Int
    BY PolicyAssumption, PolicyNumbers
  <2> QED
    BY <2>1, <2>2 DEF QuotaPressure, OrNone
<1>5. /\ r.model = selected.id /\ r.effort = effort
      /\ r.escalation = EscalationPath(Policy, profile, pressure, selected, effort, C)
      /\ r.alternatives = Alternatives(Policy, profile, pressure, selected, C)
      /\ DOMAIN r = {"model", "effort", "pressure", "escalation", "alternatives", "confidence"}
  BY DEF Recommend
<1> HIDE DEF r
<1>6. /\ q.model = r.model /\ q.effort = r.effort
      /\ q.escalation = r.escalation /\ q.alternatives = r.alternatives
  <2>1. \/ q = r \/ q = [r EXCEPT !.confidence = "low"] \/ q = [r EXCEPT !.confidence = "medium"]
    BY DEF AttachProfileProvenance
  <2> HIDE DEF q
  <2> QED
    BY <1>5, <2>1
<1> HIDE DEF q, profile, models, pressure, a, known
<1>7. selected \in C
  <2>1. C \subseteq Routable(Policy, profile, models)
    OBVIOUS
  <2> HIDE DEF C
  <2> QED
    BY <1>1, <1>2, <1>3, <1>4, <2>1, PolicyAssumption, FirstRankedIsOne
<1> HIDE DEF selected
<1> DEFINE first == Step(selected, effort)
           rest == EscalationPath(Policy, profile, pressure, selected, effort, C)
           path == <<first>> \o rest
           others == Alternatives(Policy, profile, pressure, selected, C)
<1>8. /\ \A i \in DOMAIN path : IsOwn(Policy, profile, models, path[i])
      /\ \A i \in 1 .. Len(path) - 1 : Climbs(models, path[i], path[i + 1])
  BY <1>2, <1>3, <1>4, <1>7, PolicyAssumption, PathClimbs
<1>9. /\ \A i \in DOMAIN others : IsOwn(Policy, profile, models, others[i])
      /\ Cardinality({ s.model : s \in Range(others) } \cup {selected.id}) = Len(others) + 1
  BY <1>2, <1>3, <1>4, <1>7, PolicyAssumption, AlternativesDiffer
<1>10. first = [model |-> q.model, effort |-> q.effort]
  BY <1>5, <1>6 DEF Step
<1>11. rest = q.escalation /\ others = q.alternatives /\ selected.id = q.model
  BY <1>5, <1>6
<1> HIDE DEF first, rest, others, effort, C
<1>12. path = <<first>> \o q.escalation
  BY <1>11
<1> HIDE DEF path
<1>13. AnswerClimbs(a)
  <2>1. first = [model |-> a.recommendation.model, effort |-> a.recommendation.effort]
    BY <1>1, <1>10
  <2>2. path = <<first>> \o a.recommendation.escalation
    BY <1>1, <1>12
  <2>3. \A i \in DOMAIN path : IsOwn(Policy, a.task, a.models, path[i])
    BY <1>1, <1>8
  <2>4. \A i \in DOMAIN a.recommendation.alternatives :
           IsOwn(Policy, a.task, a.models, a.recommendation.alternatives[i])
    BY <1>1, <1>9, <1>11
  <2>5. \A i \in 1 .. Len(path) - 1 : Climbs(a.models, path[i], path[i + 1])
    BY <1>1, <1>8
  <2>6. Cardinality({ s.model : s \in Range(a.recommendation.alternatives) }
                    \cup {a.recommendation.model})
        = Len(a.recommendation.alternatives) + 1
    BY <1>1, <1>9, <1>11
  <2> QED
    BY <2>1, <2>2, <2>3, <2>4, <2>5, <2>6, StepsMakeAnswer
<1> QED
  BY <1>13 DEF a

LEMMA InitClimbs == Init => EscalationClimbs
BY DEF Init, EscalationClimbs

LEMMA NextClimbs == ServiceInv /\ EscalationClimbs /\ [Next]_vars => EscalationClimbs'
<1> SUFFICES ASSUME ServiceInv, EscalationClimbs, [Next]_vars PROVE EscalationClimbs'
  OBVIOUS
<1>1. EscalationClimbs' <=> (answer' # None /\ answer'.kind = "routed" => AnswerClimbs(answer'))
  BY Zenon DEF EscalationClimbs, AnswerClimbs, StepsClimb
<1>2. CASE answer' = None
  BY <1>1, <1>2
<1>3. CASE ReadLatest
  <2>1. answer' = None \/ answer' = [kind |-> "no_snapshot"]
    BY <1>3 DEF ReadLatest
  <2> QED
    BY <1>1, <2>1
<1>4. CASE Route
  <2>1. /\ request.snapshot \in Snapshots /\ request.task \in Tasks /\ SetupKept
        /\ answer' = RecommendSnapshot(request.snapshot, request.task, request.now)
    BY <1>4 DEF Route, ServiceInv, RequestTyped
  <2>2. answer'.kind = "routed" => AnswerClimbs(answer')
    BY <2>1, RoutedClimbs
  <2> QED
    BY <1>1, <2>2
<1>5. CASE UNCHANGED vars
  <2>1. answer' = answer
    BY <1>5 DEF vars
  <2> QED
    BY <1>1, <2>1, ClimbsIsOfAnswer
<1> QED
  BY <1>2, <1>3, <1>4, <1>5 DEF Next, Tick, StoreSnapshot, Ask

\* From the selection on every step of an escalation path is stronger or a higher effort,
\* every step offered is routable, and no alternative repeats a model: for every policy,
\* catalogue, registry, task and pressure.
THEOREM PathsClimb == Spec => []EscalationClimbs
BY ServiceIsConsistent, InitClimbs, NextClimbs, PTL DEF Spec

-----------------------------------------------------------------------------
(***************************************************************************)
(* Waiting.                                                                *)
(***************************************************************************)
\* The later it is, the more use is expected and the less pressure a pool has.
LEMMA PressureFalls ==
  ASSUME NEW c, ConfigIsValid(c), NEW pool, PoolIsValid(pool), NEW t \in Int, NEW u \in Int,
         t <= u, ResolveTiming(pool) # None, pool.used # None
  PROVE  /\ AssessPool(c, pool, t).pressure # None /\ AssessPool(c, pool, u).pressure # None
         /\ AssessPool(c, pool, u).pressure <= AssessPool(c, pool, t).pressure
<1> DEFINE timing == ResolveTiming(pool)
           expected(at) == IF timing = None THEN None ELSE ExpectedAt(c, timing, at)
           delta(at) == IF timing = None \/ pool.used = None THEN None
                        ELSE PaceDelta(pool.used, expected(at))
           state(at) == IF delta(at) = None THEN None ELSE ClassifyPaceDelta(c, delta(at))
           L == LengthOf(timing)
           progress(at) == Clip(at - timing.start, 0, L)
           rest == Unit - c.reserve
           passed(at) == { i \in 1 .. 2 : delta(at).num >= c.thresholds[i] * delta(at).den }
                         \cup { i \in 3 .. 4 : delta(at).num > c.thresholds[i] * delta(at).den }
<1>1. \A at : AssessPool(c, pool, at).pressure
              = IF state(at) = None THEN None ELSE c.pressures[state(at)]
  BY DEF AssessPool
<1>3. timing # None /\ pool.used # None
  OBVIOUS
<1>4. /\ timing.start \in Int /\ timing.reset \in Int /\ L \in Nat /\ L > 0
  BY <1>3, TimingHasLength
<1>5. pool.used \in Int
  BY <1>3, UnitAssumption DEF PoolIsValid, OrNone
<1>6. rest \in Nat
  BY UnitAssumption DEF ConfigIsValid
<1>7. \A at \in Int : delta(at) = [num |-> pool.used * L - progress(at) * rest, den |-> L]
  BY <1>3 DEF PaceDelta, ExpectedAt
<1>8. progress(t) \in Nat /\ progress(u) \in Nat /\ progress(t) <= progress(u)
  BY <1>4 DEF Clip
<1> DEFINE num(at) == pool.used * L - progress(at) * rest
<1>9. num(t) \in Int /\ num(u) \in Int /\ num(u) <= num(t)
  <2>1. progress(t) * rest \in Nat /\ progress(u) * rest \in Nat
        /\ progress(t) * rest <= progress(u) * rest
    <3> DEFINE a == progress(t)
               b == progress(u)
    <3> HIDE DEF a, b, rest
    <3>1. a \in Nat /\ b \in Nat /\ a <= b /\ rest \in Nat
      BY <1>6, <1>8 DEF a, b
    <3>2. a * rest <= b * rest /\ a * rest \in Nat /\ b * rest \in Nat
      BY <3>1, ProductsRise
    <3> QED
      BY <3>2 DEF a, b
  <2>2. pool.used * L \in Int
    BY <1>4, <1>5, Products
  <2> DEFINE x == progress(t) * rest
             y == progress(u) * rest
             z == pool.used * L
  <2> HIDE DEF x, y, z
  <2>3. x \in Nat /\ y \in Nat /\ x <= y /\ z \in Int
    BY <2>1, <2>2 DEF x, y, z
  <2>4. num(t) = z - x /\ num(u) = z - y
    BY DEF x, y, z
  <2> QED
    BY <2>3, <2>4
<1>10. \A at \in {t, u} : /\ delta(at) # None
                           /\ delta(at).num = num(at) /\ delta(at).den = L
  <2> HIDE DEF delta, L, progress, rest
  <2>1. \A at \in {t, u} : delta(at) = [num |-> num(at), den |-> L] /\ num(at) \in Int /\ L \in Int
    BY <1>4, <1>7, <1>9
  <2> HIDE DEF num
  <2>2. \A at \in {t, u} : delta(at) \in [num : Int, den : Int]
    BY <2>1
  <2> QED
    BY <2>1, <2>2, NoneIsNoQuotient
<1>11. passed(u) \subseteq passed(t) /\ passed(t) \subseteq 1 .. 4
  <2> HIDE DEF delta, L, num, progress, rest
  <2>1. /\ delta(t).num = num(t) /\ delta(t).den = L /\ delta(u).num = num(u) /\ delta(u).den = L
    BY <1>10
  <2>2. \A i \in 1 .. 4 : c.thresholds[i] \in Int
    BY DEF ConfigIsValid
  <2>3. \A i \in 1 .. 4 : c.thresholds[i] * L \in Int
    BY <2>2, <1>4, Products
  <2>4. \A i \in 1 .. 4 : /\ num(u) >= c.thresholds[i] * L => num(t) >= c.thresholds[i] * L
                          /\ num(u) > c.thresholds[i] * L => num(t) > c.thresholds[i] * L
    <3> SUFFICES ASSUME NEW i \in 1 .. 4
                 PROVE /\ num(u) >= c.thresholds[i] * L => num(t) >= c.thresholds[i] * L
                       /\ num(u) > c.thresholds[i] * L => num(t) > c.thresholds[i] * L
      OBVIOUS
    <3> DEFINE x == c.thresholds[i] * L
    <3>1. x \in Int
      BY <2>3
    <3> HIDE DEF x
    <3>2. /\ num(u) >= x => num(t) >= x
          /\ num(u) > x => num(t) > x
      BY <3>1, <1>9
    <3> QED
      BY <3>2 DEF x
  <2> QED
    BY <2>1, <2>4
<1>12. /\ state(t) = 1 + Cardinality(passed(t)) /\ state(u) = 1 + Cardinality(passed(u))
       /\ delta(t) # None /\ delta(u) # None
  <2> HIDE DEF delta, num, L
  <2>1. delta(t) # None /\ delta(u) # None
    BY <1>10
  <2> QED
    BY <2>1 DEF ClassifyPaceDelta
<1> HIDE DEF passed, state, delta
<1>13. IsFiniteSet(1 .. 4) /\ Cardinality(1 .. 4) = 4
  <2> DEFINE n == 4
  <2>1. n \in Nat /\ n > 0
    OBVIOUS
  <2> HIDE DEF n
  <2>2. IsFiniteSet(1 .. n) /\ Cardinality(1 .. n) = n
    BY <2>1, FS_Interval
  <2> QED
    BY <2>2 DEF n
<1>14. IsFiniteSet(passed(t)) /\ Cardinality(passed(t)) <= 4
  BY <1>11, <1>13, FS_Subset
<1>15. IsFiniteSet(passed(u)) /\ Cardinality(passed(u)) <= Cardinality(passed(t))
  BY <1>11, <1>14, FS_Subset
<1>16. Cardinality(passed(t)) \in Nat /\ Cardinality(passed(u)) \in Nat
  BY <1>14, <1>15, FS_CardinalityType
<1>17. /\ state(t) \in 1 .. 5 /\ state(u) \in 1 .. 5 /\ state(u) <= state(t)
  BY <1>12, <1>14, <1>15, <1>16
<1>18. \A i, j \in 1 .. 5 : i <= j => c.pressures[i] <= c.pressures[j]
  <2>1. /\ c.pressures[1] \in Int /\ c.pressures[2] \in Int /\ c.pressures[3] \in Int
        /\ c.pressures[4] \in Int /\ c.pressures[5] \in Int
    BY DEF ConfigIsValid, StateNumbers
  <2>2. /\ c.pressures[1] <= c.pressures[2] /\ c.pressures[2] <= c.pressures[3]
        /\ c.pressures[3] <= c.pressures[4] /\ c.pressures[4] <= c.pressures[5]
    BY DEF ConfigIsValid
  <2> QED
    BY <2>1, <2>2
<1>19. /\ c.pressures[state(u)] <= c.pressures[state(t)]
       /\ c.pressures[state(t)] \in Int /\ c.pressures[state(u)] \in Int
  BY <1>17, <1>18 DEF ConfigIsValid, StateNumbers
<1>20. state(t) # None /\ state(u) # None
  BY <1>17, NoneIsNoNumber
<1> QED
  BY <1>1, <1>19, <1>20, NoneIsNoNumber

LEMMA PressureIsKnown ==
  ASSUME NEW c, ConfigIsValid(c), NEW pool, PoolIsValid(pool), NEW t \in Int
  PROVE  AssessPool(c, pool, t).pressure # None <=> ResolveTiming(pool) # None /\ pool.used # None
<1>1. CASE ResolveTiming(pool) # None /\ pool.used # None
  <2>1. t <= t
    OBVIOUS
  <2> QED
    BY <1>1, <2>1, PressureFalls
<1>2. CASE ~ (ResolveTiming(pool) # None /\ pool.used # None)
  BY <1>2 DEF AssessPool
<1> QED
  BY <1>1, <1>2

\* So does the pressure of a report, the greatest of its pools.
LEMMA ReportPressureFalls ==
  ASSUME NEW c, ConfigIsValid(c), NEW snapshot \in Snapshots, NEW t \in Int, NEW u \in Int, t <= u
  PROVE  \/ /\ Evaluate(c, snapshot, t).pressure = None
            /\ Evaluate(c, snapshot, u).pressure = None
         \/ /\ Evaluate(c, snapshot, t).pressure \in Int
            /\ Evaluate(c, snapshot, u).pressure \in Int
            /\ Evaluate(c, snapshot, u).pressure <= Evaluate(c, snapshot, t).pressure
<1> DEFINE pools == DOMAIN snapshot.pools
           assess(i, at) == AssessPool(c, snapshot.pools[i], at)
           known(i) == ResolveTiming(snapshot.pools[i]) # None /\ snapshot.pools[i].used # None
           T == Evaluable(c, snapshot, t)
           U == Evaluable(c, snapshot, u)
           pt == Evaluate(c, snapshot, t).pressure
           pu == Evaluate(c, snapshot, u).pressure
<1>1. \A i \in pools : PoolIsValid(snapshot.pools[i])
  BY StoredPools
<1>2. \A i \in pools : /\ assess(i, t).pressure # None <=> known(i)
                       /\ assess(i, u).pressure # None <=> known(i)
  BY <1>1, PressureIsKnown
<1>3. \A i \in pools : known(i) => assess(i, u).pressure <= assess(i, t).pressure
  BY <1>1, PressureFalls
<1>4. /\ \A a : a \in T <=> \E i \in pools : a = assess(i, t) /\ assess(i, t).pressure # None
      /\ \A a : a \in U <=> \E i \in pools : a = assess(i, u) /\ assess(i, u).pressure # None
  BY DEF Evaluable
<1>5. /\ IsFiniteSet(T)
      /\ \A a \in T : a.pressure \in Int /\ a.remaining \in OrNone(Int) /\ a.id \in Int
      /\ pt = IF T = {} THEN None ELSE SelectBindingPool(T).pressure
  BY EvaluableIs
<1>6. /\ IsFiniteSet(U)
      /\ \A a \in U : a.pressure \in Int /\ a.remaining \in OrNone(Int) /\ a.id \in Int
      /\ pu = IF U = {} THEN None ELSE SelectBindingPool(U).pressure
  BY EvaluableIs
<1> HIDE DEF pools, assess, known, T, U, pt, pu
<1>7. T = {} <=> U = {}
  BY <1>2, <1>4
<1>8. CASE T = {}
  BY <1>5, <1>6, <1>7, <1>8 DEF pt, pu
<1>9. CASE T # {}
  <2> DEFINE a == SelectBindingPool(T)
             b == SelectBindingPool(U)
  <2>1. a \in T /\ \A x \in T : x.pressure <= a.pressure
    BY <1>5, <1>9, BindingIsOne
  <2>2. b \in U
    BY <1>6, <1>7, <1>9, BindingIsOne
  <2>3. pt = a.pressure /\ pu = b.pressure
    BY <1>5, <1>6, <1>7, <1>9
  <2> HIDE DEF a, b
  <2>4. PICK i \in pools : b = assess(i, u) /\ known(i)
    BY <1>2, <1>4, <2>2
  <2>5. assess(i, t) \in T /\ b.pressure <= assess(i, t).pressure
    BY <1>2, <1>3, <1>4, <2>4
  <2>6. assess(i, t).pressure \in Int /\ a.pressure \in Int /\ b.pressure \in Int
    BY <1>5, <1>6, <2>1, <2>2, <2>5
  <2>7. pt \in Int /\ pu \in Int /\ pu <= pt
    BY <2>1, <2>3, <2>5, <2>6
  <2> QED
    BY <2>7 DEF pt, pu
<1> QED
  BY <1>8, <1>9

\* What more pressure takes off the dearer of two models, over the cheaper.
LEMMA PressureWeighsOnCost ==
  ASSUME NEW t \in Int, NEW u \in Int, u <= t, NEW x \in Int, NEW y \in Int, y <= x, NEW w \in Nat
  PROVE  3 * u * x * w - 3 * u * y * w <= 3 * t * x * w - 3 * t * y * w
<1> DEFINE d == t - u
           e == x - y
<1>1. d \in Nat /\ e \in Nat
  OBVIOUS
<1>2. d * e \in Nat
  <2> HIDE DEF d, e
  <2> QED
    BY <1>1
<1>3. (d * e) * w \in Nat
  <2> DEFINE f == d * e
  <2> HIDE DEF f, d, e
  <2>1. f \in Nat
    BY <1>2 DEF f
  <2>2. f * w \in Nat
    BY <2>1
  <2> QED
    BY <2>2 DEF f
<1>4. (3 * t * x * w - 3 * t * y * w) - (3 * u * x * w - 3 * u * y * w) = 3 * ((d * e) * w)
  OBVIOUS
<1>5. /\ 3 * t * x * w \in Int /\ 3 * t * y * w \in Int
      /\ 3 * u * x * w \in Int /\ 3 * u * y * w \in Int
  OBVIOUS
<1> QED
  BY <1>3, <1>4, <1>5

\* Under less pressure the first in the ranking is no cheaper one.
LEMMA LessPressureNoCheaper ==
  ASSUME NEW p, PolicyIsValid(p), NEW task, TaskIsValid(task),
         NEW t \in Int, NEW u \in Int, u <= t,
         NEW models, CatalogueIsValid(models), Routable(p, task, models) # {}
  PROVE  EffectiveCost(p, FirstRanked(p, task, t, Routable(p, task, models)))
         <= EffectiveCost(p, FirstRanked(p, task, u, Routable(p, task, models)))
<1> DEFINE C == Routable(p, task, models)
           a == FirstRanked(p, task, t, C)
           b == FirstRanked(p, task, u, C)
           cost(m) == EffectiveCost(p, m)
           rest(m) == Quality(p, task, m) - LatencyPenalty(p, task, m)
                      - OvercapabilityPenalty(p, task, m)
           w == p.quotaWeight
<1>1. /\ a \in C /\ \A m \in C \ {a} : RanksBefore(p, task, t, a, m)
      /\ b \in C /\ \A m \in C \ {b} : RanksBefore(p, task, u, b, m)
  <2>1. C \subseteq Routable(p, task, models) /\ C # {}
    OBVIOUS
  <2> HIDE DEF C
  <2> QED
    BY <2>1, FirstRankedIsOne
<1>2. ValidMetric(a.power) # None /\ ValidMetric(b.power) # None
  <2> HIDE DEF a, b
  <2> QED
    BY <1>1 DEF Routable
<1> HIDE DEF a, b, C
<1>3. cost(a) \in Int /\ cost(b) \in Int /\ rest(a) \in Int /\ rest(b) \in Int /\ w \in Nat
  <2>1. \A m : ValidMetric(m.power) # None =>
           /\ EffectiveCost(p, m) \in Int /\ Quality(p, task, m) \in Int
           /\ LatencyPenalty(p, task, m) \in Int /\ OvercapabilityPenalty(p, task, m) \in Int
    BY CandidateNumbers
  <2>2. w \in Nat
    BY DEF PolicyIsValid
  <2> QED
    BY <1>2, <2>1, <2>2
<1>4. ASSUME cost(b) < cost(a) PROVE FALSE
  <2>1. a # b
    BY <1>3, <1>4
  <2>2. RanksBefore(p, task, t, a, b) /\ RanksBefore(p, task, u, b, a)
    BY <1>1, <2>1
  <2> DEFINE pa(x) == QuotaPenalty(p, x, a)
             pb(x) == QuotaPenalty(p, x, b)
  <2>3. /\ pa(t) \in Int /\ pb(t) \in Int /\ pa(u) \in Int /\ pb(u) \in Int
    BY <1>2, CandidateNumbers
  <2>4. pa(u) - pb(u) <= pa(t) - pb(t)
    <3>1. cost(b) <= cost(a)
      BY <1>3, <1>4
    <3> HIDE DEF cost, w
    <3>2. 3 * u * cost(a) * w - 3 * u * cost(b) * w <= 3 * t * cost(a) * w - 3 * t * cost(b) * w
      BY <1>3, <3>1, PressureWeighsOnCost
    <3> QED
      BY <3>2 DEF cost, w, QuotaPenalty
  <2>5. \A x \in Int : /\ pa(x) \in Int /\ pb(x) \in Int
                      /\ Utility(p, task, x, a) = rest(a) - pa(x)
                      /\ Utility(p, task, x, b) = rest(b) - pb(x)
    <3> SUFFICES ASSUME NEW x \in Int
                 PROVE  /\ pa(x) \in Int /\ pb(x) \in Int
                        /\ Utility(p, task, x, a) = rest(a) - pa(x)
                        /\ Utility(p, task, x, b) = rest(b) - pb(x)
      OBVIOUS
    <3>1. \A m : ValidMetric(m.power) # None =>
             /\ Quality(p, task, m) \in Int /\ QuotaPenalty(p, x, m) \in Int
             /\ LatencyPenalty(p, task, m) \in Int /\ OvercapabilityPenalty(p, task, m) \in Int
      BY CandidateNumbers
    <3> QED
      BY <1>2, <3>1 DEF Utility
  <2>6. Utility(p, task, t, a) - Utility(p, task, t, b) > 0
    <3> DEFINE better == Utility(p, task, t, a) - Utility(p, task, t, b)
               dearer == cost(a) - cost(b)
               slower == EffectiveLatency(p, a) - EffectiveLatency(p, b)
    <3>1. \/ better > 0
          \/ better = 0 /\ dearer < 0
          \/ better = 0 /\ dearer = 0 /\ slower < 0
          \/ better = 0 /\ dearer = 0 /\ slower = 0 /\ a.id < b.id
      BY <2>2 DEF RanksBefore
    <3>2. dearer \in Int /\ dearer > 0
      BY <1>3, <1>4
    <3> HIDE DEF better, dearer, slower
    <3>3. better > 0
      BY <3>1, <3>2
    <3> QED
      BY <3>3 DEF better
  <2>7. Utility(p, task, u, b) - Utility(p, task, u, a) >= 0
    <3> DEFINE better == Utility(p, task, u, b) - Utility(p, task, u, a)
    <3>1. better > 0 \/ better = 0
      BY <2>2 DEF RanksBefore
    <3>2. better \in Int
      BY <1>2, CandidateNumbers
    <3> HIDE DEF better
    <3>3. better >= 0
      BY <3>1, <3>2
    <3> QED
      BY <3>3 DEF better
  <2> HIDE DEF pa, pb, rest
  <2> QED
    BY <1>3, <2>3, <2>4, <2>5, <2>6, <2>7
<1>5. cost(a) <= cost(b)
  BY <1>3, <1>4
<1> QED
  BY <1>5 DEF a, b, C

\* What decides which model a task is given.
LEMMA SelectedIs ==
  ASSUME SetupKept, NEW snapshot \in Snapshots, NEW task \in Tasks, NEW at
  PROVE  LET profile  == Profile(task.class, task.overrides)
             models   == Catalogue(snapshot.models, at)
             pressure == QuotaPressure(Policy, Evaluate(config, snapshot, at).pressure).value
             C        == Routable(Policy, profile, models)
             r        == RecommendSnapshot(snapshot, task, at)
         IN  /\ r.kind = "routed" <=> /\ PoolIdsAreUnique(snapshot) /\ ModelIdsAreUnique(models)
                                     /\ C # {}
             /\ r.kind = "routed" =>
                  r.recommendation.model = FirstRanked(Policy, profile, pressure, C).id
<1> DEFINE profile == Profile(task.class, task.overrides)
           models == Catalogue(snapshot.models, at)
           known == Evaluate(config, snapshot, at).pressure
           pressure == QuotaPressure(Policy, known).value
           C == Routable(Policy, profile, models)
           selected == FirstRanked(Policy, profile, pressure, C)
           r == Recommend(Policy, profile, known, models)
           q == AttachProfileProvenance(r, models)
           a == RecommendSnapshot(snapshot, task, at)
           pressed == [kind |-> "routed", task |-> profile, at |-> at, models |-> models,
                       captured |-> snapshot.captured, pressure |-> known, recommendation |-> q]
<1>1. a = IF ~ PoolIdsAreUnique(snapshot) THEN [kind |-> "budget_error"]
          ELSE IF ~ ModelIdsAreUnique(models) THEN [kind |-> "invalid_capabilities"]
          ELSE IF C = {} THEN [kind |-> "no_routable_model"] ELSE pressed
  BY DEF RecommendSnapshot
<1>2. pressed.kind = "routed" /\ pressed.recommendation = q
  OBVIOUS
<1>3. /\ r.model = selected.id
      /\ DOMAIN r = {"model", "effort", "pressure", "escalation", "alternatives", "confidence"}
  BY DEF Recommend
<1> HIDE DEF r
<1>4. q.model = selected.id
  <2>1. \/ q = r \/ q = [r EXCEPT !.confidence = "low"] \/ q = [r EXCEPT !.confidence = "medium"]
    BY DEF AttachProfileProvenance
  <2> HIDE DEF q
  <2> QED
    BY <1>3, <2>1
<1> HIDE DEF a, pressed, C, models, q, selected
<1>5. /\ a.kind = "routed" <=> PoolIdsAreUnique(snapshot) /\ ModelIdsAreUnique(models) /\ C # {}
      /\ a.kind = "routed" => a.recommendation = q
  BY <1>1, <1>2
<1> QED
  BY <1>4, <1>5 DEF a, C, models, selected

\* What the model a task is given costs.
CostOf(models, task, t) ==
    LET r == RecommendSnapshot(Last(history), task, t)
    IN  IF r.kind # "routed" THEN 0
        ELSE EffectiveCost(Policy, CHOOSE m \in models : m.id = r.recommendation.model)

LEMMA WaitingNoCheaper ==
  ASSUME SetupKept, history \in Seq(Snapshots), history # <<>>, NEW task \in Tasks,
         NEW t \in Int, NEW u \in Int, t <= u, t \div TicksPerDay = u \div TicksPerDay
  PROVE  CostOf(Catalogue(Last(history).models, t), task, t)
         <= CostOf(Catalogue(Last(history).models, t), task, u)
<1> DEFINE snapshot == Last(history)
           models == Catalogue(snapshot.models, t)
           profile == Profile(task.class, task.overrides)
           C == Routable(Policy, profile, models)
           pressure(at) == QuotaPressure(Policy, Evaluate(config, snapshot, at).pressure).value
           r(at) == RecommendSnapshot(snapshot, task, at)
           first(at) == FirstRanked(Policy, profile, pressure(at), C)
<1>1. snapshot \in Snapshots
  BY LastIsStored
<1>2. Catalogue(snapshot.models, u) = models
  BY DEF Catalogue
<1> HIDE DEF snapshot
<1>3. \A at \in {t, u} :
        /\ r(at).kind = "routed" <=> /\ PoolIdsAreUnique(snapshot)
                                    /\ ModelIdsAreUnique(models) /\ C # {}
        /\ r(at).kind = "routed" => r(at).recommendation.model = first(at).id
  BY <1>1, <1>2, SelectedIs
<1>4. pressure(t) \in Int /\ pressure(u) \in Int /\ pressure(u) <= pressure(t)
  <2> DEFINE pt == Evaluate(config, snapshot, t).pressure
             pu == Evaluate(config, snapshot, u).pressure
  <2>1. (pt = None /\ pu = None) \/ (pt \in Int /\ pu \in Int /\ pu <= pt)
    BY <1>1, SetupIsValid, ReportPressureFalls
  <2> HIDE DEF pt, pu
  <2>2. Policy.unknownPressure \in Int
    BY PolicyAssumption, PolicyNumbers
  <2>3. /\ QuotaPressure(Policy, pt).value = IF pt = None THEN Policy.unknownPressure ELSE pt
        /\ QuotaPressure(Policy, pu).value = IF pu = None THEN Policy.unknownPressure ELSE pu
    BY DEF QuotaPressure
  <2> DEFINE x == QuotaPressure(Policy, pt).value
             y == QuotaPressure(Policy, pu).value
  <2>4. x \in Int /\ y \in Int /\ y <= x
    BY <2>1, <2>2, <2>3, NoneIsNoNumber
  <2> QED
    BY <2>4 DEF pt, pu
<1> HIDE DEF pressure
<1>5. TaskIsValid(profile)
  BY ProfileIsMetric
<1>6. ModelIdsAreUnique(models) => CatalogueIsValid(models)
  BY <1>1, CatalogueIs
<1> HIDE DEF profile, models, r
<1>7. CASE r(t).kind # "routed"
  <2>1. r(u).kind # "routed"
    BY <1>3, <1>7
  <2>2. CostOf(models, task, t) = 0 /\ CostOf(models, task, u) = 0
    BY <1>7, <2>1 DEF CostOf, r, snapshot
  <2> QED
    BY <2>2 DEF models, snapshot
<1>8. CASE r(t).kind = "routed"
  <2>1. /\ r(u).kind = "routed" /\ ModelIdsAreUnique(models) /\ C # {}
        /\ r(t).recommendation.model = first(t).id /\ r(u).recommendation.model = first(u).id
    BY <1>3, <1>8
  <2>2. CatalogueIsValid(models)
    BY <2>1, <1>6
  <2>3. first(t) \in C /\ first(u) \in C
    <3>1. C \subseteq Routable(Policy, profile, models)
      OBVIOUS
    <3> HIDE DEF C
    <3> QED
      BY <1>4, <1>5, <2>1, <2>2, <3>1, PolicyAssumption, FirstRankedIsOne
  <2>4. EffectiveCost(Policy, first(t)) <= EffectiveCost(Policy, first(u))
    BY <1>4, <1>5, <2>1, <2>2, PolicyAssumption, LessPressureNoCheaper
  <2>5. C \subseteq models
    BY DEF Routable
  <2> HIDE DEF C, first
  <2>6. \A x \in C : (CHOOSE m \in models : m.id = x.id) = x
    BY <2>1, <2>5 DEF ModelIdsAreUnique
  <2>7. /\ CostOf(models, task, t) = EffectiveCost(Policy, first(t))
        /\ CostOf(models, task, u) = EffectiveCost(Policy, first(u))
    <3>1. \A at : CostOf(models, task, at)
                  = IF r(at).kind # "routed" THEN 0
                    ELSE EffectiveCost(Policy, CHOOSE m \in models :
                                                   m.id = r(at).recommendation.model)
      BY DEF CostOf, r, snapshot
    <3> DEFINE named(at) == CHOOSE m \in models : m.id = r(at).recommendation.model
    <3>2. named(t) = first(t) /\ named(u) = first(u)
      BY <2>1, <2>3, <2>6
    <3> HIDE DEF named
    <3>3. \A at : r(at).kind = "routed"
                  => CostOf(models, task, at) = EffectiveCost(Policy, named(at))
      BY <3>1 DEF named
    <3> QED
      BY <1>8, <2>1, <3>2, <3>3
  <2> QED
    BY <2>4, <2>7 DEF models, snapshot
<1> QED
  BY <1>7, <1>8

\* A step of WaitingNeverCheapens.
WaitingStep ==
    \A task \in Tasks :
      (/\ now' > now /\ history # <<>>
       /\ now \div TicksPerDay = now' \div TicksPerDay) =>
      LET models == Catalogue(Last(history).models, now)
          cost(t) ==
              LET r == RecommendSnapshot(Last(history), task, t)
              IN  IF r.kind # "routed" THEN 0
                  ELSE EffectiveCost(Policy, CHOOSE m \in models :
                                                 m.id = r.recommendation.model)
      IN  cost(now) <= cost(now')

LEMMA NextWaits == ServiceInv /\ ServiceInv' => WaitingStep
<1> SUFFICES ASSUME ServiceInv, ServiceInv', NEW task \in Tasks, now' > now, history # <<>>,
                    now \div TicksPerDay = now' \div TicksPerDay
             PROVE  CostOf(Catalogue(Last(history).models, now), task, now)
                    <= CostOf(Catalogue(Last(history).models, now), task, now')
  BY Zenon DEF WaitingStep, CostOf
<1>1. now \in Int /\ now' \in Int /\ now <= now'
  BY DEF ServiceInv, Covered
<1> QED
  BY <1>1, WaitingNoCheaper DEF ServiceInv

\* While nothing is used, no profile expires and no snapshot arrives, the model recommended
\* never becomes a cheaper one, for every policy, configuration, catalogue and task.
THEOREM WaitingIsRewarded == Spec => WaitingNeverCheapens
<1>1. ServiceInv /\ ServiceInv' => [WaitingStep]_vars
  BY NextWaits
<1>2. WaitingNeverCheapens <=> [][WaitingStep]_vars
  BY DEF WaitingNeverCheapens, WaitingStep
<1> QED
  BY <1>1, <1>2, ServiceIsConsistent, PTL

=============================================================================
