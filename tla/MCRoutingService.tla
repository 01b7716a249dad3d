-------------------------- MODULE MCRoutingService --------------------------
(***************************************************************************)
(* Three setups, eight contents of a snapshot and four tasks, over a       *)
(* calendar with days of three lengths, two of each in a row but the first.*)
(***************************************************************************)
EXTENDS RoutingService

MCMidnights == <<-1, 3, 6, 9, 14, 19, 23, 27, 31, 35, 39, 43>>

Thresholds == <<-20, -7, 7, 20>>
Pressures  == <<0, 3, 7, 14, 20>>
Default == [reserve |-> 10, thresholds |-> Thresholds, pressures |-> Pressures,
            weights |-> [d \in 0 .. 6 |-> 1], staleAfter |-> 3]
Weekdays == [reserve |-> 0, thresholds |-> <<-40, -10, 0, 10>>, pressures |-> <<0, 0, 10, 15, 15>>,
             weights |-> [d \in 0 .. 6 |-> IF d >= 5 THEN 0 ELSE 1 + (d % 2)], staleAfter |-> 1]

MCPolicy ==
    [quotaWeight |-> 7, latencyWeight |-> 4, overcapability |-> 3, failureWeight |-> 2,
     lowVerifiability |-> 2, tolerance |-> 3, riskReduction |-> 2, unknownPressure |-> 10,
     missingCost |-> 10, missingLatency |-> 10, effortReduction |-> 5, escalation |-> TRUE,
     maxSteps |-> 3, maxAlternatives |-> 2]

-----------------------------------------------------------------------------
Order3 == <<"low", "medium", "high">>
Order2 == <<"low", "high">>

Profiled(power, cost, latency, order, source, confidence) ==
    [power |-> power, cost |-> cost, latency |-> latency, order |-> order,
     source |-> source, confidence |-> confidence]

Manual == [name |-> "manual", provider |-> "codex", verified |-> 0, expires |-> 1,
           models |-> [m \in {1, 2, 3} |->
               CASE m = 1 -> Profiled(11, 4, 3, Order3, "manual", "provisional")
                 [] m = 2 -> Profiled(15, None, None, Order3, "manual", "medium")
                 [] m = 3 -> Profiled(20, 18, 14, None, "manual", "high")]]
Measured == [name |-> "measured", provider |-> "codex", verified |-> 1, expires |-> 60,
             models |-> [m \in {2, 3} |->
               CASE m = 2 -> Profiled(14, 9, None, Order2, "empirical", "high")
                 [] m = 3 -> Profiled(None, None, 12, Order2, "empirical", "medium")]]
Forever == [name |-> "forever", provider |-> "codex", verified |-> 0, expires |-> None,
            models |-> [m \in {1} |-> Profiled(20, 1, 1, Order3, "provider", "high")]]

MCSetups == { [config |-> Default,  registry |-> {Manual, Measured, Forever}],
              [config |-> Weekdays, registry |-> {Manual, Measured}],
              [config |-> Weekdays, registry |-> None] }

-----------------------------------------------------------------------------
Model(id, selectable, efforts, order, power, cost, latency) ==
    [id |-> id, provider |-> "codex", selectable |-> selectable, efforts |-> efforts,
     order |-> order, power |-> power, cost |-> cost, latency |-> latency, sources |-> <<>>]

\* What model/list reports: efforts without an order, no metrics.
Discovered == { Model(1, TRUE, {"low", "medium", "high"}, None, None, None, None),
                Model(2, TRUE, {"low", "medium", "high"}, None, None, None, None),
                Model(3, TRUE, {"low", "high"}, None, None, None, None),
                Model(4, FALSE, {}, None, None, None, None) }
\* A provider that rates its models itself.
Rated == { Model(1, TRUE, {"low", "medium", "high"}, Order3, 9, 2, 2),
           Model(2, TRUE, {}, None, 14, 10, 6),
           Model(3, TRUE, {"low", "high"}, Order2, 19, 16, None),
           Model(4, TRUE, {"low", "medium", "high"}, Order3, 14, 10, 6),
           Model(5, FALSE, {}, None, 20, 1, 1) }

\* A catalogue that lists one model twice.
Twins == { Model(1, TRUE, {"low", "high"}, Order2, 9, 2, 2),
           Model(1, TRUE, {}, None, 14, 10, 6) }

Pool(id, used, remaining, starts, resets, window) ==
    [id |-> id, used |-> used, remaining |-> remaining, starts |-> starts, resets |-> resets,
     window |-> window]

Short(used)   == Pool(1, used, None, None, 10, 8)       \* window by its length
Weekly(used)  == Pool(2, used, 100 - used, 0, 37, 40)   \* start and length disagree
Midnight(used) == Pool(1, used, None, 0, 31, None)      \* resets at a midnight

\* The fifth has one window to come and one that has passed; the sixth an empty
\* window, a use that is not known and a reset without a start; the seventh two
\* pools of one id, the last two models of one id.
MCShapes ==
    { [pools |-> <<Short(10), Weekly(5)>>,  models |-> Rated],
      [pools |-> <<Weekly(12), Short(90)>>, models |-> Discovered],
      [pools |-> <<Midnight(0)>>,           models |-> Discovered],
      [pools |-> <<Midnight(30)>>,          models |-> Rated],
      [pools |-> <<Pool(1, 0, None, 4, 12, None),
                   Pool(2, 100, None, None, 3, 3)>>,   models |-> Rated],
      [pools |-> <<Pool(1, 50, None, 6, 6, None),
                   Pool(2, None, 0, None, 20, 0),
                   Pool(3, 20, 100, None, 30, None)>>, models |-> Discovered],
      [pools |-> <<Short(10), Short(30)>>,  models |-> {}],
      [pools |-> <<Short(90)>>,             models |-> Twins] }

Nothing == [f \in {} |-> 0]
MCTasks ==
    { [class |-> "mechanical", overrides |-> Nothing],
      [class |-> "local_implementation", overrides |->
           [f \in {"ambiguity", "failureCost", "class"} |->
               CASE f = "class" -> "architecture" [] f = "ambiguity" -> 9 [] OTHER -> 12]],
      [class |-> "debugging", overrides |->
           [f \in {"complexity", "ambiguity", "failureCost", "verifiability"} |->
               CASE f = "verifiability" -> 15 [] f = "ambiguity" -> 9 [] OTHER -> 12]],
      [class |-> "unknown", overrides |->
           [f \in Range(Numbers) \cup {"class"} |->
               CASE f = "class" -> "mechanical" [] f = "verifiability" -> 20
                 [] f \in {"failureCost", "ambiguity"} -> 5 [] OTHER -> 12]] }

=============================================================================
