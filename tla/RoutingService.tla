--------------------------- MODULE RoutingService ---------------------------
(***************************************************************************)
(* services/routing.py and services/budget.py over the stored snapshots:   *)
(* a recommendation takes the caller's time, reads the latest snapshot,    *)
(* evaluates its budget, enriches its catalogue and routes the task, while *)
(* the clock runs and other processes store further snapshots.  Budget,    *)
(* enrichment and routing are the pure modules this one composes.          *)
(*                                                                         *)
(* A snapshot is a record [captured, pools, models].  The service keeps    *)
(* nothing between two requests, so one at a time shows all they can do.   *)
(***************************************************************************)
EXTENDS DailyForecast, RoutingEngine

CONSTANTS
    Setups,       \* [config, registry]: a budget configuration and the profiles,
                  \* None for a service without enrichment
    Policy,       \* the routing policy
    Shapes,       \* contents of snapshots: [pools, models]
    Tasks,        \* [class, overrides]: the class of the text, the overrides
    TicksPerDay,  \* length of a UTC day, for the freshness of profiles
    Start, End,   \* bounds of the clock
    MaxSnapshots, \* bound of the history
    MaxWait       \* bound of the ticks a request takes

ASSUME SetupsAreValid ==
    \A s \in Setups : /\ ConfigIsValid(s.config)
                      /\ \A i \in StateNumbers : s.config.pressures[i] <= Part
                      /\ s.registry # None => RegistryIsValid(s.registry)
ASSUME PolicyAssumption == PolicyIsValid(Policy)
ASSUME TasksAreValid ==
    \A task \in Tasks : /\ task.class \in DOMAIN Heuristic
                        /\ \A number \in Range(Numbers) \cap DOMAIN task.overrides :
                              task.overrides[number] \in 0 .. Part
ASSUME ModelsAreValid ==
    \A shape \in Shapes : /\ IsFiniteSet(shape.models)
                          /\ \A m \in shape.models : ModelIsValid(m)
ASSUME PoolsAreValid ==
    \A shape \in Shapes : /\ shape.pools \in Seq(Range(shape.pools))
                          /\ \A i \in DOMAIN shape.pools : PoolIsValid(shape.pools[i])
\* The calendar holds every instant that is looked up in it.
ASSUME CalendarAssumption ==
    /\ Start \in Int /\ End \in Int /\ Midnights[1] <= Start
    /\ Start < Midnights[Len(Midnights)] /\ End < Midnights[Len(Midnights)]
    /\ \A shape \in Shapes : \A i \in DOMAIN shape.pools :
         shape.pools[i].resets # None => shape.pools[i].resets < Midnights[Len(Midnights)]

VARIABLES
    config, registry,  \* what the service was built with
    now,
    history,           \* the stored snapshots, oldest first
    request,           \* [phase, task, now, snapshot] of the request under way
    answer             \* what the last step returned to a caller, None if nothing

vars == <<config, registry, now, history, request, answer>>

NoRequest == [phase |-> "idle", task |-> None, now |-> None, snapshot |-> None]

Init ==
    /\ \E s \in Setups : config = s.config /\ registry = s.registry
    /\ now = Start
    /\ history = <<>>
    /\ request = NoRequest
    /\ answer = None

-----------------------------------------------------------------------------
(***************************************************************************)
(* Routing one snapshot, the part that runs in a thread.                   *)
(***************************************************************************)
\* the catalogue routing sees: enriched on the day of the request
Catalogue(models, at) ==
    IF registry = None THEN { [m EXCEPT !.sources = ProviderSources(m)] : m \in models }
    ELSE Enrich(models, registry, at \div TicksPerDay)

\* Confidence after a look at the first profile the selected model owes a field to.
AttachProfileProvenance(recommendation, models) ==
    LET selected == CHOOSE m \in models : m.id = recommendation.model
        source   == FirstProfileSource(selected)
        trust    == IF source = None THEN "high" ELSE source.confidence
    IN  IF trust \in {"low", "provisional"}
        THEN [recommendation EXCEPT !.confidence = "low"]
        ELSE IF trust = "medium" /\ recommendation.confidence = "high"
        THEN [recommendation EXCEPT !.confidence = "medium"]
        ELSE recommendation

\* BudgetEvaluationError, InvalidCapabilitiesError, NoRoutableModelError, or the
\* context; at is the time the caller gave, which may precede the capture.
RecommendSnapshot(snapshot, task, at) ==
    LET profile == Profile(task.class, task.overrides)
        models  == Catalogue(snapshot.models, at)
        report  == Evaluate(config, snapshot, at)
    IN  IF ~ PoolIdsAreUnique(snapshot) THEN [kind |-> "budget_error"]
        ELSE IF ~ ModelIdsAreUnique(models) THEN [kind |-> "invalid_capabilities"]
        ELSE IF Routable(Policy, profile, models) = {} THEN [kind |-> "no_routable_model"]
        ELSE [kind |-> "routed", task |-> profile, at |-> at, models |-> models,
              captured |-> snapshot.captured, pressure |-> report.pressure,
              recommendation |-> AttachProfileProvenance(
                  Recommend(Policy, profile, report.pressure, models), models)]

-----------------------------------------------------------------------------
Tick ==
    /\ now < End
    /\ request.phase # "idle" => now - request.now < MaxWait
    /\ now' = now + 1
    /\ answer' = None
    /\ UNCHANGED <<config, registry, history, request>>

\* Another process captures and stores.
StoreSnapshot(shape) ==
    /\ Len(history) < MaxSnapshots
    /\ history' = Append(history, [captured |-> now, pools |-> shape.pools,
                                   models |-> shape.models])
    /\ answer' = None
    /\ UNCHANGED <<config, registry, now, request>>

\* recommend_latest_context is called with the time of the call.
Ask(task) ==
    /\ request.phase = "idle"
    /\ request' = [NoRequest EXCEPT !.phase = "reading", !.task = task, !.now = now]
    /\ answer' = None
    /\ UNCHANGED <<config, registry, now, history>>

\* get_latest_snapshot answers.
ReadLatest ==
    /\ request.phase = "reading"
    /\ IF history = <<>>
       THEN /\ request' = NoRequest
            /\ answer' = [kind |-> "no_snapshot"]
       ELSE /\ request' = [request EXCEPT !.phase = "routing", !.snapshot = Last(history)]
            /\ answer' = None
    /\ UNCHANGED <<config, registry, now, history>>

Route ==
    /\ request.phase = "routing"
    /\ answer' = RecommendSnapshot(request.snapshot, request.task, request.now)
    /\ request' = NoRequest
    /\ UNCHANGED <<config, registry, now, history>>

Next ==
    \/ Tick
    \/ \E shape \in Shapes : StoreSnapshot(shape)
    \/ \E task \in Tasks : Ask(task)
    \/ ReadLatest
    \/ Route

Spec == Init /\ [][Next]_vars

-----------------------------------------------------------------------------
(***************************************************************************)
(* Properties.                                                             *)
(***************************************************************************)

\* The assessments of the latest snapshot at the present time.
Report == Evaluate(config, Last(history), now)

\* Whatever the timing of a pool says (no start, a reset that has passed, an
\* empty window, a start to come) and whenever it is asked, an assessment lies
\* in the ranges its model validates, so that evaluate never raises on it; and
\* no share of today takes more than is available.
ReportsAlwaysValidate ==
    history # <<>> => \A i \in DOMAIN Report.pools :
        LET a == Report.pools[i]
        IN  /\ AssessmentValidates(a)
            /\ a.today # None => a.today.num <= a.available * a.today.den

\* A user who spends exactly today's budget is told tomorrow what the weights
\* promised: tomorrow's budget is to today's as their weights are, and the
\* last day before the reset is given all that is left.  (A wrong count of
\* days, at a reset at midnight or after whole weeks, breaks it.)
AllocationKeepsItsPlan ==
    history # <<>> => \A i \in DOMAIN Last(history).pools :
        LET pool     == Last(history).pools[i]
            timing   == ResolveTiming(pool)
            today    == LocalDay(now)
            share(t) == TodayBudget(config, 1, pool.resets, timing, t)
            weight(d) == config.weights[WeekdayOf(d)]
        IN  (pool.resets # None /\ pool.resets > now /\ share(now) # None) =>
            LET s == share(now)
            IN  IF pool.resets <= Midnights[today + 1]
                THEN s.num = s.den
                ELSE LET t == share(Midnights[today + 1])
                     IN  IF t = None THEN s.num = s.den
                         ELSE t.num * (s.den - s.num) * weight(today)
                              = weight(today + 1) * s.num * t.den

\* While days have one length, the points of a forecast lie on the line through
\* the first and the last sample of today: no part of the time between the last
\* sample and the reset is counted twice or left out.  Only the last point ends
\* at the reset, and none lies beyond it.
ForecastIsContinuous ==
    \A f \in {Calculate(config, history, now)} :
        \A k \in DOMAIN f.points :
            LET point == f.points[k]
                regular == \A d \in LocalDay(now) .. point.day :
                              DayLength(d) = DayLength(LocalDay(now))
            IN  /\ point.day = LocalDay(now) + k - 1
                /\ point.endsAtReset => k = Len(f.points)
                /\ k < Len(f.points) => point.endpoint < f.points[k + 1].endpoint
                /\ regular => point.used = DayScale
                       * (f.last.used * f.span
                          + (f.last.used - f.first.used) * (point.endpoint - f.last.at))

\* Every field of the catalogue that routing sees is the provider's, or that of
\* the fresh profile of highest precedence that gives it (an order only if it
\* names the efforts of the catalogue); a stale profile contributes nothing.
EnrichmentHonoursPrecedence ==
    (history # <<>> /\ registry # None) =>
        LET day == now \div TicksPerDay
        IN  \A m \in Last(history).models : \A i \in DOMAIN Fields :
              LET f     == Fields[i]
                  e     == Enriched(m, registry, day)
                  gives == { d \in registry : /\ Speaks(d, m.provider, m.id)
                                              /\ Freshness(d, day) = "fresh"
                                              /\ d.models[m.id][f] # None
                                              /\ f = "order" =>
                                                   Range(d.models[m.id].order) = m.efforts }
              IN  e[f] = IF m[f] # None THEN m[f]
                         ELSE IF gives = {} THEN None
                         ELSE (CHOOSE d \in gives : \A g \in gives :
                                  Rank(d, m.id) >= Rank(g, m.id)).models[m.id][f]

\* From the selected step on, each step of an escalation path is a higher
\* effort of the same model or a stronger model; every model recommended is
\* selectable and reaches the floor; every effort is one of its own; and no
\* alternative repeats the selection or another one.
EscalationClimbs ==
    (answer # None /\ answer.kind = "routed") =>
        LET r       == answer.recommendation
            model(s) == CHOOSE m \in answer.models : m.id = s.model
            first   == [model |-> r.model, effort |-> r.effort]
            path    == <<first>> \o r.escalation
            place(s) == CHOOSE i \in DOMAIN model(s).order : model(s).order[i] = s.effort
            offered == Range(path) \cup Range(r.alternatives)
        IN  /\ \A s \in offered :
                 /\ model(s) \in Routable(Policy, answer.task, answer.models)
                 /\ s.effort # None => s.effort \in model(s).efforts
            /\ \A i \in 1 .. Len(path) - 1 :
                 \/ model(path[i + 1]).power > model(path[i]).power
                 \/ /\ path[i + 1].model = path[i].model
                    /\ path[i].effort # None /\ path[i + 1].effort # None
                    /\ place(path[i + 1]) > place(path[i])
            /\ Cardinality({ s.model : s \in Range(r.alternatives) } \cup {r.model})
               = Len(r.alternatives) + 1

\* While nothing is used and no profile expires, waiting relaxes the quota: the
\* model recommended for the same task never becomes a cheaper one.  (The
\* expected use grows with time, the pressure falls with it, and a lower
\* pressure never makes the ranking prefer the lower cost.)
WaitingNeverCheapens ==
    [][ \A task \in Tasks :
          (/\ now' > now /\ history # <<>>
           /\ now \div TicksPerDay = now' \div TicksPerDay) =>
          LET models == Catalogue(Last(history).models, now)
              cost(t) ==
                  LET r == RecommendSnapshot(Last(history), task, t)
                  IN  IF r.kind # "routed" THEN 0
                      ELSE EffectiveCost(Policy, CHOOSE m \in models :
                                                     m.id = r.recommendation.model)
          IN  cost(now) <= cost(now') ]_vars
=============================================================================
