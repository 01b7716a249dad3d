---------------------------- MODULE RoutingEngine ----------------------------
(***************************************************************************)
(* routing/engine.py, routing/profiler.py and the validators of            *)
(* routing/models.py.  A metric of a task, a model or the policy is a      *)
(* number of twentieths; a score is a number of 1/Whole, chosen such that  *)
(* every product and third the engine forms is a whole number.  Wording is *)
(* left out: an explanation decides nothing.                               *)
(***************************************************************************)
EXTENDS CapabilityEnrichment

Part  == 20
Whole == 24000

Score(metric) == 1200 * metric
Bounded(x, high) == IF x < 0 THEN 0 ELSE IF x > high THEN high ELSE x
Positive(x) == IF x > 0 THEN x ELSE 0

\* RoutingPolicy: non-negative weights, fractions, tolerance_reduction_is_bounded
PolicyIsValid(p) ==
    /\ \A f \in {"quotaWeight", "latencyWeight", "overcapability", "failureWeight",
                 "lowVerifiability"} : p[f] \in Nat
    /\ \A f \in {"tolerance", "riskReduction", "unknownPressure", "missingCost",
                 "missingLatency", "effortReduction"} : p[f] \in 0 .. Part
    /\ p.riskReduction <= p.tolerance
    /\ p.maxSteps \in 0 .. 10 /\ p.maxAlternatives \in 0 .. 10

-----------------------------------------------------------------------------
(***************************************************************************)
(* The task profile.  Classifying a text is a choice of its class; the     *)
(* numbers come from the class of the text, also when the caller names     *)
(* another one.                                                            *)
(***************************************************************************)
Numbers == <<"complexity", "ambiguity", "failureCost", "verifiability",
             "contextDemand", "latencySensitivity">>

\* _PROFILES, in twentieths
Heuristic ==
    [mechanical           |-> << 3,  2,  3, 19,  2, 16>>,
     local_implementation |-> << 9,  6,  7, 15,  8, 10>>,
     debugging            |-> <<15, 11, 13,  9, 15,  7>>,
     repository_change    |-> <<14, 10, 13, 10, 17,  7>>,
     architecture         |-> <<18, 15, 18,  5, 18,  4>>,
     research             |-> <<14, 14, 11,  7, 13,  5>>,
     review               |-> <<11,  8, 13, 14, 13,  7>>,
     unknown              |-> <<10, 10, 10, 10, 10, 10>>]

\* overrides: a partial function from Numbers and "class" to values
Profile(class, overrides) ==
    LET named    == DOMAIN overrides
        value(i) == IF Numbers[i] \in named THEN overrides[Numbers[i]] ELSE Heuristic[class][i]
    IN  [complexity |-> value(1), ambiguity |-> value(2), failureCost |-> value(3),
         verifiability |-> value(4), contextDemand |-> value(5), latencySensitivity |-> value(6),
         class  |-> IF "class" \in named THEN overrides["class"] ELSE class,
         source |-> IF named = {} THEN "heuristic"
                    ELSE IF named = Range(Numbers) \cup {"class"} THEN "explicit" ELSE "mixed"]

-----------------------------------------------------------------------------
(***************************************************************************)
(* What the task asks for.                                                 *)
(***************************************************************************)
Doubt(task) == Part - task.verifiability

\* _DIFFICULTY_WEIGHTS .30 .20 .20 .15 .15
Difficulty(task) ==
    Bounded(60 * (6 * task.complexity + 4 * task.ambiguity + 4 * task.failureCost
                  + 3 * Doubt(task) + 3 * task.contextDemand), Whole)

RequiredPower(p, task) ==
    Bounded(Difficulty(task) + 60 * (p.failureWeight * task.failureCost
                                     + p.lowVerifiability * Doubt(task)), Whole)

\* the tolerance shrinks with the mean of three risks
CapabilityFloor(p, task) ==
    LET risks == task.failureCost + task.ambiguity + Doubt(task)
    IN  Positive(RequiredPower(p, task)
                 - Positive(Score(p.tolerance) - 20 * p.riskReduction * risks))

QuotaPressure(p, known) ==
    IF known = None THEN [value |-> p.unknownPressure, source |-> "fallback_unknown"]
    ELSE [value |-> known, source |-> "budget_report"]

-----------------------------------------------------------------------------
(***************************************************************************)
(* Candidates: the models that are selectable, have a power and reach the  *)
(* floor, with their utility.                                              *)
(***************************************************************************)
ValidMetric(value) == IF value # None /\ value \in 0 .. Part THEN value ELSE None

MetricOr(value, fallback) == IF ValidMetric(value) # None THEN value ELSE fallback

EffectiveCost(p, m)    == MetricOr(m.cost, p.missingCost)
EffectiveLatency(p, m) == MetricOr(m.latency, p.missingLatency)

Routable(p, task, models) ==
    { m \in models : /\ m.selectable
                     /\ ValidMetric(m.power) # None
                     /\ Score(m.power) >= CapabilityFloor(p, task) }

Quality(p, task, m) ==
    LET missing == RequiredPower(p, task) - Score(m.power)
    IN  Positive(Whole - (IF missing > 0 THEN 2 * missing ELSE (7 * (- missing)) \div 20))

QuotaPenalty(p, pressure, m)  == 3 * pressure * EffectiveCost(p, m) * p.quotaWeight
LatencyPenalty(p, task, m)    == 3 * task.latencySensitivity * EffectiveLatency(p, m) * p.latencyWeight
OvercapabilityPenalty(p, task, m) ==
    (Positive(Score(m.power) - RequiredPower(p, task)) * p.overcapability) \div 20

Utility(p, task, pressure, m) ==
    Quality(p, task, m) - QuotaPenalty(p, pressure, m) - LatencyPenalty(p, task, m)
    - OvercapabilityPenalty(p, task, m)

\* _ranking_key: utility, then cheaper, then faster, then id
RanksBefore(p, task, pressure, a, b) ==
    LET better == Utility(p, task, pressure, a) - Utility(p, task, pressure, b)
        dearer == EffectiveCost(p, a) - EffectiveCost(p, b)
        slower == EffectiveLatency(p, a) - EffectiveLatency(p, b)
    IN  \/ better > 0
        \/ better = 0 /\ dearer < 0
        \/ better = 0 /\ dearer = 0 /\ slower < 0
        \/ better = 0 /\ dearer = 0 /\ slower = 0 /\ a.id < b.id

\* The first of some candidates in the ranking.
FirstRanked(p, task, pressure, candidates) ==
    CHOOSE a \in candidates :
        \A b \in candidates \ {a} : RanksBefore(p, task, pressure, a, b)

-----------------------------------------------------------------------------
(***************************************************************************)
(* Effort.  A demand is a number of 1 / Part^5.                            *)
(***************************************************************************)
DemandUnit == 3200000

SafeToReduce(task, pressure) ==
    /\ pressure >= 14 /\ task.failureCost < 10 /\ task.ambiguity < 10
    /\ task.verifiability >= 14

\* .35 .25 .20 .20, less what a tight quota takes off a safe task
EffortDemand(p, task, pressure) ==
    LET demand == 8000 * (7 * task.complexity + 5 * task.ambiguity
                          + 4 * task.failureCost + 4 * Doubt(task))
        reduction == p.effortReduction * pressure * task.verifiability
                     * (Part - task.failureCost) * (Part - task.ambiguity)
    IN  IF SafeToReduce(task, pressure) THEN Positive(demand - reduction)
        ELSE Bounded(demand, DemandUnit)

\* None without a catalogue or without its order
RecommendEffort(p, task, pressure, m) ==
    IF m.efforts = {} \/ m.order = None THEN None
    ELSE LET step == (EffortDemand(p, task, pressure) * Len(m.order)) \div DemandUnit
         IN  m.order[1 + Bounded(step, Len(m.order) - 1)]

NextEffort(m, effort) ==
    IF m.order = None \/ effort = None THEN None
    ELSE LET index == CHOOSE i \in DOMAIN m.order : m.order[i] = effort
         IN  IF index < Len(m.order) THEN m.order[index + 1] ELSE None

-----------------------------------------------------------------------------
(***************************************************************************)
(* Escalation and alternatives: steps [model, effort].                     *)
(***************************************************************************)
Step(m, effort) == [model |-> m.id, effort |-> effort]

\* Mutant: an equal model is a step up.
StrongerThanOrEqual(m, candidates) == { c \in candidates \ {m} : c.power >= m.power }

StrongerThan(m, candidates) == { c \in candidates : c.power > m.power }
CheaperThan(p, m, candidates) ==
    { c \in candidates : EffectiveCost(p, c) < EffectiveCost(p, m) }

\* the next stronger: least power, then id
Weakest(candidates) ==
    CHOOSE a \in candidates : \A b \in candidates \ {a} :
        a.power < b.power \/ (a.power = b.power /\ a.id < b.id)

EscalationPath(p, task, pressure, selected, effort, candidates) ==
    LET stronger   == StrongerThan(selected, candidates)
        modelFirst == Score(selected.power) < RequiredPower(p, task) /\ stronger # {}
        raise(m, e) == IF NextEffort(m, e) = None THEN <<>> ELSE <<Step(m, NextEffort(m, e))>>
        move(m) == <<Step(m, RecommendEffort(p, task, pressure, m))>>
                   \o raise(m, RecommendEffort(p, task, pressure, m))
        steps == (IF modelFirst THEN <<>> ELSE raise(selected, effort))
                 \o (IF stronger = {} THEN <<>> ELSE move(Weakest(stronger)))
    IN  IF ~ p.escalation THEN <<>>
        ELSE SubSeq(steps, 1, Bounded(p.maxSteps, Len(steps)))

\* Cheaper ones in their ranking, then stronger ones, then the others.
NextAlternative(p, task, pressure, selected, rest) ==
    LET group == IF CheaperThan(p, selected, rest) # {} THEN CheaperThan(p, selected, rest)
                 ELSE IF StrongerThan(selected, rest) # {} THEN StrongerThan(selected, rest)
                 ELSE rest
    IN  FirstRanked(p, task, pressure, group)

\* The first n of the others, for every n.
Chosen(p, task, pressure, selected, others) ==
    LET chosen[n \in 0 .. Cardinality(others)] ==
            IF n = 0 THEN <<>>
            ELSE Append(chosen[n - 1], NextAlternative(p, task, pressure, selected,
                                                       others \ Range(chosen[n - 1])))
    IN  chosen

Alternatives(p, task, pressure, selected, candidates) ==
    LET others == candidates \ {selected}
        models == Chosen(p, task, pressure, selected, others)
                      [Bounded(p.maxAlternatives, Cardinality(others))]
    IN  [i \in DOMAIN models |-> Step(models[i], RecommendEffort(p, task, pressure, models[i]))]

-----------------------------------------------------------------------------
(***************************************************************************)
(* Confidence and the recommendation.                                      *)
(***************************************************************************)
IsClose(p, task, pressure, selected, candidates) ==
    /\ candidates # {selected}
    /\ LET second == FirstRanked(p, task, pressure, candidates \ {selected})
       IN  Utility(p, task, pressure, selected) - Utility(p, task, pressure, second) < 720

Confidence(p, task, pressure, selected, candidates) ==
    IF \/ pressure.source = "fallback_unknown"
       \/ ValidMetric(selected.cost) = None \/ ValidMetric(selected.latency) = None
       \/ IsClose(p, task, pressure.value, selected, candidates)
    THEN "low"
    ELSE IF task.source = "explicit" THEN "high" ELSE "medium"

\* recommend raises InvalidCapabilitiesError on two models of one id,
ModelIdsAreUnique(models) == \A m, n \in models : m.id = n.id => m = n

\* and NoRoutableModelError when nothing is routable.
Recommend(p, task, known, models) ==
    LET pressure   == QuotaPressure(p, known)
        candidates == Routable(p, task, models)
        selected   == FirstRanked(p, task, pressure.value, candidates)
        effort     == RecommendEffort(p, task, pressure.value, selected)
    IN  [model        |-> selected.id,
         effort       |-> effort,
         pressure     |-> pressure,
         escalation   |-> EscalationPath(p, task, pressure.value, selected, effort, candidates),
         alternatives |-> Alternatives(p, task, pressure.value, selected, candidates),
         confidence   |-> Confidence(p, task, pressure, selected, candidates)]
=============================================================================
