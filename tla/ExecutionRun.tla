----------------------------- MODULE ExecutionRun -----------------------------
(***************************************************************************)
(* One task's way through ExecutionService: create_plan, the pause in      *)
(* which the caller shows the plan, and run_plan with its loop of gate,    *)
(* approval, live revalidation, adapter call and retry/escalate decision.  *)
(*                                                                         *)
(* The environment chooses what every await brings back: the routing       *)
(* context of a provider capture, the person's answer, the adapter's       *)
(* result, an exception, a cancellation. A step of an await is an action   *)
(* of its own, so the world may differ between any two of them.            *)
(***************************************************************************)
EXTENDS ExecutionDecisions, FiniteSets

CONSTANTS
  Steps,            \* RoutingStep: a model with a reasoning effort
  NoStep,           \* the code's None where a RoutingStep may be missing
  Providers,        \* provider identifiers a snapshot may carry
  AdapterProvider,  \* the provider the configured adapter serves
  Pools,            \* budget pool identifiers, the missing one included
  Contexts,         \* the routing contexts a capture may lead to
  Policies          \* the execution policies explored

\* A RoutingContext as the service uses it: fresh is the verdict on
\* snapshot_age_seconds; selectable holds the model/effort pairs a plan may
\* still name; initial and path are the recommendation of the router.
RoutingContext ==
  [ provider : Providers, fresh : BOOLEAN, pressure : Pressure, pool : Pools,
    selectable : SUBSET Steps, initial : Steps, path : Seq(Steps) ]

ASSUME PoliciesAreStrict == Policies \subseteq ExecutionPolicy
ASSUME AdapterServesAProvider == AdapterProvider \in Providers
ASSUME NoStepIsNone == NoStep \notin Steps
\* The router only recommends selectable candidates.
ASSUME ContextsAreRoutable ==
  /\ Contexts \subseteq RoutingContext
  /\ \A c \in Contexts : c.initial \in c.selectable

VARIABLES
  policy,             \* the service's ExecutionPolicy
  call,               \* the arguments of the call and the task's risk verdict
  pc,                 \* where the coroutine is
  context,            \* the last RoutingContext obtained
  plan,               \* current: the plan the next attempt would run
  total_attempts, same_step_retries, retry_count, escalation_count,
  approval_reusable,
  events,             \* the statuses of the audit events, in order
  result,             \* the ExecutionResult run_plan returned
  raised,             \* the exception that left create_plan or run_plan
  approved,           \* history: what the person last said yes to
  captures,           \* history: live captures run_plan has made
  invocations,        \* history: every adapter call, with its circumstances
  answers             \* history: the failure class each call came back with

counters == <<total_attempts, same_step_retries, retry_count, escalation_count>>
inputs   == <<policy, call>>
history  == <<approved, captures, invocations, answers>>
vars == <<inputs, pc, context, plan, counters, approval_reusable, events,
          result, raised, history>>

Status == {"planned", "dry_run", "awaiting_approval", "running", "retrying",
           "escalation_planned", "succeeded", "failed", "cancelled", "denied",
           "quota_changed", "capability_changed"}

Plan ==
  [ provider : Providers, step : Steps, initial : Steps, path : Seq(Steps),
    attempt_number : Nat, escalation_index : Nat, max_attempts : Nat,
    dry_run : BOOLEAN, requires_confirmation : BOOLEAN,
    pressure : Pressure, pool : Pools ]

\* The arguments of create_plan and run_plan, and the gate's low-risk verdict on
\* the task's profile.
Call == [ dry_run : BOOLEAN, low_risk : BOOLEAN,
          approval_handler : BOOLEAN, plan_change_handler : BOOLEAN ]

Exception == {"none", "no_snapshot", "stale_budget", "planning", "adapter",
              "cancelled", "environment"}

\* What the contract calls the material fields of a plan.
Material(p) == [ provider |-> p.provider, step |-> p.step, index |-> p.escalation_index,
                 pressure |-> p.pressure, pool |-> p.pool ]

MaterialType == [ provider : Providers, step : Steps, index : Nat,
                  pressure : Pressure, pool : Pools ]

Nothing == [ none |-> TRUE ]

\* An adapter call in the history: the plan it ran, the approval and the live
\* context it ran under, and the number of live captures up to then.
Invocation ==
  [ plan : Plan, approved : MaterialType \cup {Nothing}, context : Contexts, captures : Nat ]

\* Faulty: the attempts of the loop's head, before the last answer was counted.
OutcomeUncounted(status, failure, attempts, recommended, next_step) ==
  [ status |-> status, failure_class |-> failure, attempt_count |-> total_attempts,
    retry_count |-> retry_count, escalation_count |-> escalation_count,
    escalation_recommended |-> recommended, next_step |-> next_step ]

Outcome(status, failure, attempts, recommended, next_step) ==
  [ status |-> status, failure_class |-> failure, attempt_count |-> attempts,
    retry_count |-> retry_count, escalation_count |-> escalation_count,
    escalation_recommended |-> recommended, next_step |-> next_step ]

ResultType ==
  [ status : Status, failure_class : FailureClass \cup {NoFailure},
    attempt_count : Nat, retry_count : Nat, escalation_count : Nat,
    escalation_recommended : BOOLEAN, next_step : Steps \cup {NoStep} ]

-----------------------------------------------------------------------------
Init ==
  /\ policy \in Policies
  /\ call \in Call
  /\ pc = "latest"
  /\ context = Nothing
  /\ plan = Nothing
  /\ total_attempts = 0
  /\ same_step_retries = 0
  /\ retry_count = 0
  /\ escalation_count = 0
  /\ approval_reusable = FALSE
  /\ events = <<>>
  /\ result = Nothing
  /\ raised = "none"
  /\ approved = Nothing
  /\ captures = 0
  /\ invocations = <<>>
  /\ answers = <<>>

Raise(exception) ==
  /\ raised' = exception
  /\ pc' = "done"

Stale(c) == NeedsRefresh(policy, c.fresh)

-----------------------------------------------------------------------------
(***************************************************************************)
(* create_plan                                                             *)
(***************************************************************************)
PlanningUnchanged ==
  UNCHANGED <<inputs, counters, approval_reusable, events, result, history>>

\* recommend_latest_context found no snapshot of the adapter's provider.
NoLatestContext ==
  /\ pc = "latest"
  /\ IF call.dry_run
       THEN Raise("no_snapshot")
       ELSE pc' = "capture_missing" /\ UNCHANGED raised
  /\ UNCHANGED <<context, plan>>
  /\ PlanningUnchanged

\* Where create_plan goes with a context: straight to the planner, or to a
\* (further) live capture, which a dry run refuses.
WithContext(c) ==
  /\ context' = c
  /\ IF ~Stale(c) THEN pc' = "build" /\ UNCHANGED raised
     ELSE IF call.dry_run THEN Raise("stale_budget")
     ELSE pc' = "capture_stale" /\ UNCHANGED raised

\* The persisted snapshot is read for the adapter's provider only.
LatestContext ==
  /\ pc = "latest"
  /\ \E c \in Contexts : c.provider = AdapterProvider /\ WithContext(c)
  /\ UNCHANGED plan
  /\ PlanningUnchanged

CaptureMissingContext ==
  /\ pc = "capture_missing"
  /\ \E c \in Contexts : WithContext(c)
  /\ UNCHANGED plan
  /\ PlanningUnchanged

\* Faulty: looks at the latest snapshot again, and captures until one is fresh.
CaptureUntilFresh ==
  /\ pc = "capture_stale"
  /\ context' \in Contexts
  /\ pc' = "latest"
  /\ UNCHANGED <<plan, raised>>
  /\ PlanningUnchanged

CaptureStaleContext ==
  /\ pc = "capture_stale"
  /\ context' \in Contexts
  /\ pc' = "build"
  /\ UNCHANGED <<plan, raised>>
  /\ PlanningUnchanged

\* ExecutionPlanner.build refuses a stale budget and otherwise freezes the
\* recommendation and the quota context into the plan.
BuildPlan ==
  /\ pc = "build"
  /\ IF Stale(context)
       THEN Raise("stale_budget") /\ UNCHANGED plan
       ELSE /\ plan' = [ provider |-> context.provider,
                         step |-> context.initial, initial |-> context.initial,
                         path |-> context.path,
                         attempt_number |-> 1, escalation_index |-> 0,
                         max_attempts |-> policy.max_attempts,
                         dry_run |-> call.dry_run,
                         requires_confirmation |->
                           RequiresConfirmation(policy, call.low_risk, call.dry_run, FALSE),
                         pressure |-> context.pressure, pool |-> context.pool ]
            /\ pc' = "planned"
            /\ UNCHANGED raised
  /\ UNCHANGED context
  /\ PlanningUnchanged

-----------------------------------------------------------------------------
(***************************************************************************)
(* run_plan                                                                *)
(***************************************************************************)
\* _not_started and the returned copies of an adapter result: the counters as
\* they stand, and the audit events with the final status.
Return(outcome, trail) ==
  /\ result' = outcome
  /\ events' = trail
  /\ pc' = "done"
  /\ UNCHANGED raised

NotStarted(status, failure, trail) ==
  Return(Outcome(status, failure, total_attempts, FALSE, NoStep), Append(trail, status))

\* validate_initial, the dry-run return and the adapter check.
StartRun ==
  /\ pc = "planned"
  /\ IF \/ plan.attempt_number # 1
        \/ plan.escalation_index # 0
        \/ plan.max_attempts # policy.max_attempts
       THEN Raise("planning") /\ UNCHANGED <<result, events>>
     ELSE IF plan.dry_run
       THEN NotStarted("dry_run", NoFailure, <<>>)
     ELSE IF plan.provider # AdapterProvider
       THEN Raise("adapter") /\ UNCHANGED <<result, events>>
     ELSE /\ events' = <<"planned">>
          /\ pc' = "gate"
          /\ UNCHANGED <<result, raised>>
  /\ UNCHANGED <<inputs, context, plan, counters, approval_reusable, history>>

\* Faulty: the gate is not told that the plan is an escalation.
GateConfirmsInitially == RequiresConfirmation(policy, call.low_risk, FALSE, FALSE)

GateConfirms == RequiresConfirmation(policy, call.low_risk, FALSE, plan.escalation_index > 0)

NeedsApproval ==
  GateConfirms \/ (plan.escalation_index > 0 /\ call.plan_change_handler)

\* The handler the code selects, by whether one was supplied.
HandlerSupplied ==
  IF GateConfirms THEN call.approval_handler ELSE call.plan_change_handler

\* Approval needed or not, fresh or reused: every attempt goes on to _revalidate.
Cleared == "revalidate"

\* The head of the loop: the bound, the gate, and whether a person is asked.
Gate ==
  /\ pc = "gate"
  /\ IF total_attempts >= policy.max_attempts
       THEN NotStarted("failed", "unknown", events)
     ELSE IF ~Allowed(policy, FALSE)
       THEN NotStarted("denied", NoFailure, events)
     ELSE IF ~NeedsApproval \/ approval_reusable
       THEN pc' = Cleared /\ UNCHANGED <<events, result, raised>>
     ELSE LET asked == Append(events, "awaiting_approval")
          IN  IF HandlerSupplied
                THEN pc' = "approval" /\ events' = asked /\ UNCHANGED <<result, raised>>
                ELSE NotStarted("awaiting_approval", NoFailure, asked)
  /\ UNCHANGED <<inputs, context, plan, counters, approval_reusable, history>>

Approve ==
  /\ pc = "approval"
  /\ approval_reusable' = TRUE
  /\ approved' = Material(plan)
  /\ pc' = Cleared
  /\ UNCHANGED <<inputs, context, plan, counters, events, result, raised,
                 captures, invocations, answers>>

Refuse ==
  /\ pc = "approval"
  /\ NotStarted("denied", NoFailure, events)
  /\ UNCHANGED <<inputs, context, plan, counters, approval_reusable, history>>

\* _revalidate's verdict on a live context, in the order of its returns.
CapabilityChanged(c) ==
  \/ plan.step \notin c.selectable
  \/ c.initial # plan.initial
  \/ /\ plan.escalation_index > 0
     /\ \/ plan.escalation_index > Len(c.path)
        \/ c.path[plan.escalation_index] # plan.step

Verdict(c) ==
  IF c.provider # plan.provider THEN "capability_changed"
  ELSE IF Stale(c) \/ QuotaChanged(policy, plan.pressure, plan.pool, c.pressure, c.pool)
    THEN "quota_changed"
  ELSE IF CapabilityChanged(c) THEN "capability_changed"
  ELSE "unchanged"

ChangeFailure(status) == IF status = "quota_changed" THEN "quota" ELSE "validation"

\* A live capture, routed again: the plan still stands.
RevalidateUnchanged ==
  /\ pc = "revalidate"
  /\ \E c \in Contexts : Verdict(c) = "unchanged" /\ context' = c
  /\ pc' = "execute"
  /\ captures' = captures + 1
  /\ UNCHANGED <<inputs, plan, counters, approval_reusable, events, result, raised,
                 approved, invocations, answers>>

\* The plan no longer matches the live context, or nothing is routable at all
\* (CapabilityProfileError, RoutingError): the run ends before the adapter.
RevalidateChanged ==
  /\ pc = "revalidate"
  /\ \E status \in {Verdict(c) : c \in Contexts} \cup {"capability_changed"} :
       /\ status # "unchanged"
       /\ NotStarted(status, ChangeFailure(status), events)
  /\ captures' = captures + 1
  /\ UNCHANGED <<inputs, context, plan, counters, approval_reusable,
                 approved, invocations, answers>>

\* adapter.execute is entered.
InvokeAdapter ==
  /\ pc = "execute"
  /\ invocations' = Append(invocations,
       [ plan |-> plan, approved |-> approved, context |-> context,
         captures |-> captures ])
  /\ pc' = "adapter"
  /\ UNCHANGED <<inputs, context, plan, counters, approval_reusable, events,
                 result, raised, approved, captures, answers>>

\* An answer that is no ExecutionResult, or one that names another plan: the
\* attempt is not counted and its events are dropped.
RejectResult ==
  /\ pc = "adapter"
  /\ NotStarted("failed", "validation", events)
  /\ answers' = Append(answers, "validation")
  /\ UNCHANGED <<inputs, context, plan, counters, approval_reusable,
                 approved, captures, invocations>>

\* The events of an adapter result: running, then its own status.
Recorded(status) == events \o <<"running", status>>

FinalResult ==
  /\ pc = "adapter"
  /\ \E answer \in {<<"succeeded", NoFailure>>, <<"cancelled", "user_cancelled">>} :
       /\ Return(Outcome(answer[1], answer[2], total_attempts + 1, FALSE, NoStep),
                 Recorded(answer[1]))
       /\ answers' = Append(answers, answer[2])
  /\ total_attempts' = total_attempts + 1
  /\ UNCHANGED <<inputs, context, plan, same_step_retries, retry_count,
                 escalation_count, approval_reusable, approved, captures, invocations>>

\* What the adapter may report of a failed attempt.
AdapterFailures == FailureClass \ {"user_cancelled", "unknown"}

PathLeft == plan.escalation_index < Len(plan.path)

Decision(failure) ==
  NextAction(policy, failure, total_attempts + 1, same_step_retries, PathLeft)

\* Faulty: a retry takes over the quota context of the last capture.
RetriedRebased(p) ==
  [p EXCEPT !.attempt_number = @ + 1, !.requires_confirmation = FALSE,
            !.pressure = context.pressure]

\* ExecutionPlanner.retry: the same plan under a new identity and attempt.
Retried(p) == [p EXCEPT !.attempt_number = @ + 1, !.requires_confirmation = FALSE]

RetryAttempt ==
  /\ pc = "adapter"
  /\ \E failure \in AdapterFailures :
       Decision(failure) = "retry" /\ answers' = Append(answers, failure)
  /\ total_attempts' = total_attempts + 1
  /\ retry_count' = retry_count + 1
  /\ same_step_retries' = same_step_retries + 1
  /\ events' = Append(Recorded("failed"), "retrying")
  /\ IF plan.attempt_number >= plan.max_attempts
       THEN Raise("planning") /\ UNCHANGED <<plan, approval_reusable>>
       ELSE /\ plan' = Retried(plan)
            /\ approval_reusable' = TRUE
            /\ pc' = "gate"
            /\ UNCHANGED raised
  /\ UNCHANGED <<inputs, context, escalation_count, result, approved, captures, invocations>>

\* ExecutionPlanner.escalate: the next step of the path, under the quota
\* context captured before the failed attempt.
Escalated(p, c, confirm) ==
  [p EXCEPT !.step = p.path[p.escalation_index + 1],
            !.attempt_number = @ + 1,
            !.escalation_index = @ + 1,
            !.requires_confirmation = confirm,
            !.pressure = c.pressure,
            !.pool = c.pool]

EscalateAttempt ==
  /\ pc = "adapter"
  /\ \E failure \in AdapterFailures :
       Decision(failure) = "escalate" /\ answers' = Append(answers, failure)
  /\ total_attempts' = total_attempts + 1
  /\ escalation_count' = escalation_count + 1
  /\ events' = Append(Recorded("failed"), "escalation_planned")
  /\ IF plan.attempt_number >= plan.max_attempts
       THEN /\ Raise("planning")
            /\ UNCHANGED <<plan, approval_reusable, same_step_retries>>
       ELSE IF Stale(context)
       THEN /\ Raise("stale_budget")
            /\ UNCHANGED <<plan, approval_reusable, same_step_retries>>
       ELSE /\ plan' = Escalated(plan, context,
                           RequiresConfirmation(policy, call.low_risk, FALSE, TRUE))
            /\ same_step_retries' = 0
            /\ approval_reusable' = FALSE
            /\ pc' = "gate"
            /\ UNCHANGED raised
  /\ UNCHANGED <<inputs, context, retry_count, result, approved, captures, invocations>>

NextStep == IF PathLeft THEN plan.path[plan.escalation_index + 1] ELSE NoStep

StopAfterFailure ==
  /\ pc = "adapter"
  /\ \E failure \in AdapterFailures :
       /\ Decision(failure) = "stop"
       /\ Return(Outcome("failed", failure, total_attempts + 1,
                         PathLeft /\ failure \in policy.escalation_failures, NextStep),
                 Recorded("failed"))
       /\ answers' = Append(answers, failure)
  /\ total_attempts' = total_attempts + 1
  /\ UNCHANGED <<inputs, context, plan, same_step_retries, retry_count,
                 escalation_count, approval_reusable, approved, captures, invocations>>

\* The provider, its transport, the working directory, a handler or the process
\* spawn raises; cancellation of the task surfaces at whichever await it interrupts.
Awaiting ==
  {"latest", "capture_missing", "capture_stale", "build", "approval", "revalidate", "adapter"}

AwaitRaises ==
  /\ pc \in Awaiting
  /\ \E exception \in {"cancelled", "environment"} : Raise(exception)
  /\ UNCHANGED <<inputs, context, plan, counters, approval_reusable, events,
                 result, history>>

Finished == pc = "done" /\ UNCHANGED vars

Service ==
  \/ NoLatestContext \/ LatestContext \/ CaptureMissingContext \/ CaptureStaleContext
  \/ BuildPlan \/ Gate \/ RevalidateUnchanged \/ RevalidateChanged \/ InvokeAdapter
  \/ RejectResult \/ FinalResult \/ RetryAttempt \/ EscalateAttempt \/ StopAfterFailure

Caller == StartRun \/ Approve \/ Refuse \/ AwaitRaises

Next == Service \/ Caller \/ Finished

Spec == Init /\ [][Next]_vars

\* The service's own steps are fair where its awaits end: a provider's capture by
\* its timeouts (CodexSession), a call of the store by its busy timeout
\* (SnapshotStore), and the rest is local. Nobody owes the adapter's answer, for its
\* awaits of the prompt's write and of the readers have no limit (codex_cli.py 162
\* and 169), nor the person's, the caller's start or an exception.
FairSpec == Spec /\ WF_vars(pc # "adapter" /\ Service)

-----------------------------------------------------------------------------
Waiting == {"latest", "capture_missing", "capture_stale", "build", "planned"}
InLoop  == {"gate", "approval", "revalidate", "execute", "adapter"}

\* Types of the variables; before a plan is built there is none.
TypeOK ==
  /\ policy \in Policies
  /\ call \in Call
  /\ pc \in Waiting \cup InLoop \cup {"done"}
  /\ context \in Contexts \cup {Nothing}
  /\ plan \in Plan \cup {Nothing}
  /\ total_attempts \in Nat /\ same_step_retries \in Nat
  /\ retry_count \in Nat /\ escalation_count \in Nat
  /\ approval_reusable \in BOOLEAN
  /\ events \in Seq(Status)
  /\ result \in ResultType \cup {Nothing}
  /\ raised \in Exception
  /\ approved \in MaterialType \cup {Nothing}
  /\ captures \in Nat
  /\ invocations \in Seq(Invocation)
  /\ answers \in Seq(FailureClass \cup {NoFailure})

\* Whether the gate wants a person's approval before plan p runs.
Confirms(p) == RequiresConfirmation(policy, call.low_risk, FALSE, p.escalation_index > 0)

\* Approval is for the plan as shown: whatever the adapter is started with and
\* the policy wants confirmed, a person said yes to that model, effort, provider,
\* escalation step and quota context, however many retries and escalations
\* the loop has been through since (services/execution.py 183-343).
ApprovedAsShown ==
  \A i \in DOMAIN invocations :
    Confirms(invocations[i].plan) => invocations[i].approved = Material(invocations[i].plan)

\* Quota drift cannot creep in over retries: every call of the adapter finds the
\* live pressure within the threshold of the pressure the first call at its
\* escalation step was authorised with, in the same binding pool.
NoCreepingDrift ==
  \A i, j \in DOMAIN invocations :
    i <= j /\ invocations[i].plan.escalation_index = invocations[j].plan.escalation_index =>
      ~QuotaChanged(policy, invocations[i].plan.pressure, invocations[i].plan.pool,
                    invocations[j].context.pressure, invocations[j].context.pool)

\* A route that changed under the plan stops it: the adapter runs only while the
\* router, asked again, still starts from the planned recommendation and still has
\* the escalated step at its place of the path.
RouteStillRecommended ==
  \A i \in DOMAIN invocations :
    LET p == invocations[i].plan
        c == invocations[i].context
    IN  /\ c.initial = invocations[1].plan.step
        /\ p.step \in c.selectable
        /\ p.escalation_index > 0 =>
             /\ p.escalation_index <= Len(c.path)
             /\ c.path[p.escalation_index] = p.step

\* Each attempt, retries included, is preceded by a live capture of its own, made
\* after any approval it waited for.
FreshCapturePerAttempt ==
  /\ \A i \in DOMAIN invocations : invocations[i].captures = i
  /\ pc = "approval" => captures = Len(invocations)

\* What an adapter call relies on was looked at again for this very call, between its
\* approval and its start: quota, route and capabilities, whatever retries,
\* escalations and approvals came before (services/execution.py 241-254, 401-492).
RevalidatedAttempts == NoCreepingDrift /\ RouteStillRecommended /\ FreshCapturePerAttempt

\* The loop is bounded and only walks forward along the plan's path: at most
\* max_attempts calls, at most max_same_step_retries + 1 at one step, each next
\* call at the same step or the next one of the path.
BoundedForwardWalk ==
  /\ Len(invocations) <= policy.max_attempts
  /\ \A i \in DOMAIN invocations :
       LET p == invocations[i].plan
       IN  /\ p.step = IF p.escalation_index = 0 THEN p.initial ELSE p.path[p.escalation_index]
           /\ i = 1 => p.escalation_index = 0
           /\ i > 1 => p.escalation_index - invocations[i - 1].plan.escalation_index \in {0, 1}
           /\ i > policy.max_same_step_retries + 1 =>
                invocations[i - policy.max_same_step_retries - 1].plan.escalation_index
                  # p.escalation_index

\* What another call follows is what the policy lists for it: a repeat of the step
\* a retryable failure, a further step an escalation failure; so authentication,
\* quota, environment failures and a cancellation end the run.
ContinuesOnlyAsConfigured ==
  \A i \in DOMAIN answers :
    i < Len(invocations) =>
      /\ answers[i] \notin Forbidden
      /\ IF invocations[i + 1].plan.escalation_index = invocations[i].plan.escalation_index
           THEN answers[i] \in policy.retryable_failures
           ELSE answers[i] \in policy.escalation_failures

\* The counters a result reports are those of what happened: the adapter calls
\* (one less when the last answer was rejected as not belonging to its plan), the
\* repeats and the escalations planned.
CountersTellWhatHappened ==
  (pc = "done" /\ result # Nothing) =>
    /\ result.attempt_count \in {Len(invocations) - 1, Len(invocations)}
    /\ result.attempt_count < Len(invocations) =>
         result.status = "failed" /\ result.failure_class = "validation"
    /\ result.escalation_count = IF plan.dry_run THEN 0 ELSE plan.escalation_index
    /\ result.attempt_count - (result.retry_count + result.escalation_count) \in {0, 1}

Occurrences(status) ==
  Cardinality({ i \in DOMAIN events : events[i] = status })

\* The audit trail of a returned result explains its counters and ends with its
\* status, so a reader can tell from the events alone what was run and why.
AuditTrailMatchesResult ==
  (pc = "done" /\ result # Nothing) =>
    /\ Occurrences("running") = result.attempt_count
    /\ Occurrences("retrying") = result.retry_count
    /\ Occurrences("escalation_planned") = result.escalation_count
    /\ events[Len(events)] = result.status

\* The service's guards never refuse what the service itself built: the planner's
\* attempt bound, validate_initial and the loop's own bound are never what ends a
\* run, and a budget can only be found stale while planning.
NoInternalRefusal ==
  /\ raised # "planning"
  /\ raised = "stale_budget" => invocations = <<>>
  /\ result # Nothing => result.failure_class # "unknown"

\* A result recommends a further escalation only when it names the step, that
\* step is the next one of the plan's path, and the failure is one that escalates.
RecommendationIsActionable ==
  (result # Nothing /\ result.escalation_recommended) =>
    /\ result.next_step = plan.path[plan.escalation_index + 1]
    /\ result.failure_class \in policy.escalation_failures
    /\ \/ ~policy.allow_escalation
       \/ result.attempt_count >= policy.max_attempts

\* A result is a true account of the run: its counters, its events and what it
\* recommends fit what was done (services/execution.py 255-370).
ResultTellsWhatHappened ==
  CountersTellWhatHappened /\ AuditTrailMatchesResult /\ RecommendationIsActionable

\* The service never spins or hangs by itself: it comes to an end, or to rest in a
\* wait for the caller to start the plan, for the person or for the adapter to answer.
ComesToRest == <>(pc = "done") \/ <>[](pc \in {"planned", "approval", "adapter"})

-----------------------------------------------------------------------------
(***************************************************************************)
(* The inductive strengthening of the safety properties.                   *)
(***************************************************************************)
\* Before run_plan starts nothing has happened; a built plan is an initial one.
NothingRunYet ==
  pc \in Waiting =>
    /\ total_attempts = 0 /\ same_step_retries = 0
    /\ retry_count = 0 /\ escalation_count = 0
    /\ approval_reusable = FALSE /\ approved = Nothing
    /\ captures = 0 /\ invocations = <<>>
    /\ pc = "planned" =>
         /\ plan \in Plan
         /\ plan.attempt_number = 1 /\ plan.escalation_index = 0
         /\ plan.max_attempts = policy.max_attempts
         /\ plan.step = plan.initial
         /\ plan.dry_run = call.dry_run
    /\ pc # "planned" => plan = Nothing
    /\ pc \in {"build", "planned"} => context \in Contexts

\* Inside the loop the plan, the counters and the history agree.
LoopBookkeeping ==
  pc \in InLoop =>
    /\ context \in Contexts /\ plan \in Plan
    /\ plan.provider = AdapterProvider /\ ~call.dry_run
    /\ plan.max_attempts = policy.max_attempts
    /\ plan.attempt_number = total_attempts + 1
    /\ total_attempts < policy.max_attempts
    /\ total_attempts = retry_count + escalation_count
    /\ plan.escalation_index = escalation_count
    /\ plan.escalation_index <= Len(plan.path)
    /\ plan.step = IF plan.escalation_index = 0
                     THEN plan.initial ELSE plan.path[plan.escalation_index]
    /\ same_step_retries <= policy.max_same_step_retries
    /\ same_step_retries <= total_attempts
    /\ Len(invocations) = total_attempts + (IF pc = "adapter" THEN 1 ELSE 0)
    /\ captures = total_attempts + (IF pc \in {"execute", "adapter"} THEN 1 ELSE 0)
    /\ pc # "gate" => Allowed(policy, FALSE)

\* The newest entries of the history, those of the current step, are as many as
\* the retries of that step; the older ones ran at earlier steps, the last of them
\* at the previous one.
StepsOfHistory ==
  pc \in InLoop =>
    LET older == total_attempts - same_step_retries
    IN  /\ \A i \in DOMAIN invocations :
             invocations[i].plan.escalation_index =
               plan.escalation_index <=> i > older
        /\ \A i \in DOMAIN invocations :
             invocations[i].plan.escalation_index <= plan.escalation_index
        /\ older > 0 =>
             /\ invocations[older].plan.escalation_index = plan.escalation_index - 1
             /\ policy.allow_escalation
        /\ older = 0 => plan.escalation_index = 0
        /\ \A i \in DOMAIN invocations :
             invocations[i].plan.path = plan.path /\ invocations[i].plan.initial = plan.initial

\* An approval the loop may reuse is one of the very plan it holds, and past the
\* gate a plan that wants confirmation has it.
ApprovalIsCurrent ==
  pc \in InLoop /\ Confirms(plan) =>
    /\ approval_reusable => approved = Material(plan)
    /\ pc \in {"revalidate", "execute", "adapter"} => approval_reusable

\* What holds of every entry of the history stays true when entries are added.
HistoryIsClean == ApprovedAsShown /\ BoundedForwardWalk

\* The adapter has run only under terms that let it run.
RanAsAllowed ==
  invocations # <<>> => policy.mode # "never_execute" /\ ~call.dry_run /\ plan \in Plan

IInv ==
  /\ TypeOK
  /\ NothingRunYet
  /\ LoopBookkeeping
  /\ StepsOfHistory
  /\ ApprovalIsCurrent
  /\ HistoryIsClean
  /\ RanAsAllowed

-----------------------------------------------------------------------------
\* The promise of BoundedExecution, read off the run's history.
PromisedTerms ==
  [ may_run |-> policy.mode # "never_execute" /\ ~call.dry_run,
    ask_first |-> policy.mode = "always_confirm" \/ ~call.low_risk,
    max_attempts |-> policy.max_attempts,
    max_same_step_retries |-> policy.max_same_step_retries,
    allow_escalation |-> policy.allow_escalation ]

PromisedRoute == IF plan = Nothing THEN 0 ELSE Len(plan.path)

PromisedPhase ==
  CASE pc \in Waiting -> "planning"
    [] pc = "adapter" -> "running"
    [] pc = "done" -> "over"
    [] OTHER -> "ready"

PromisedConsent == IF approved = Nothing THEN -1 ELSE approved.index

PromisedLedger == [ i \in DOMAIN invocations |-> invocations[i].plan.escalation_index ]

Promise == INSTANCE BoundedExecution WITH
  terms <- PromisedTerms, route <- PromisedRoute, phase <- PromisedPhase,
  consent <- PromisedConsent, ledger <- PromisedLedger

\* Every behaviour of the service is one the promise allows.
KeepsPromise == Promise!PromiseSpec
=============================================================================
