-------------------------- MODULE ExecutionDecisions --------------------------
(***************************************************************************)
(* The pure decisions of controlled execution: the strict execution policy *)
(* with its validators, the gate that says whether a plan may run and      *)
(* whether a person must confirm it, and the evaluator that turns one      *)
(* structured failure into stop, retry or escalate.                        *)
(*                                                                         *)
(* A budget pressure is a number of units (the code's float in 0..1 in     *)
(* steps as fine as the model needs), or NoPressure for the code's None.   *)
(***************************************************************************)
EXTENDS Integers, Sequences

FailureClass == {"transport", "authentication", "quota", "timeout", "agent_error",
                 "validation", "execution_environment", "user_cancelled", "unknown"}

NoFailure == "none"

ExecutionMode == {"never_execute", "always_confirm", "confirm_on_escalation",
                  "auto_for_low_risk"}

\* The classes the policy's validator refuses to see configured for a retry or
\* for an escalation.
Forbidden == {"authentication", "quota", "user_cancelled", "execution_environment"}

NoPressure == -1

Pressure == Nat \cup {NoPressure}

\* Every policy the strict model accepts. The low-risk limits are represented by
\* their verdict on the task (low_risk of a call), the timeout and output limits
\* belong to the adapter.
ExecutionPolicy ==
  { p \in [ mode                   : ExecutionMode,
            max_attempts           : 1..10,
            max_same_step_retries  : 0..5,
            require_fresh_budget   : BOOLEAN,
            quota_change_threshold : Nat,
            allow_escalation       : BOOLEAN,
            retryable_failures     : SUBSET FailureClass,
            escalation_failures    : SUBSET FailureClass ] :
      /\ p.max_same_step_retries < p.max_attempts
      /\ p.retryable_failures \cap Forbidden = {}
      /\ p.escalation_failures \cap Forbidden = {} }

(***************************************************************************)
(* ExecutionPolicyGate.decide                                              *)
(***************************************************************************)
Allowed(policy, dry_run) == dry_run \/ policy.mode # "never_execute"

RequiresConfirmation(policy, low_risk, dry_run, is_escalation) ==
  /\ ~dry_run
  /\ policy.mode # "never_execute"
  /\ policy.mode = "always_confirm" \/ ~low_risk \/ is_escalation

(***************************************************************************)
(* EscalationEvaluator.decide. path_left says that the plan's escalation   *)
(* path holds a step the run has not consumed yet.                         *)
(***************************************************************************)
\* Faulty: the attempt bound off by one.
MayContinueOnceMore(policy, failure, total_attempts) ==
  failure # NoFailure /\ total_attempts <= policy.max_attempts

MayContinue(policy, failure, total_attempts) ==
  failure # NoFailure /\ total_attempts < policy.max_attempts

\* Faulty: the retries of a step are not counted.
MayRetryUncounted(policy, failure, total_attempts, same_step_retries) ==
  /\ MayContinue(policy, failure, total_attempts)
  /\ failure \in policy.retryable_failures

MayRetry(policy, failure, total_attempts, same_step_retries) ==
  /\ MayContinue(policy, failure, total_attempts)
  /\ failure \in policy.retryable_failures
  /\ same_step_retries < policy.max_same_step_retries

\* Faulty: any failure that may not be retried escalates.
MayEscalateAnything(policy, failure, total_attempts, same_step_retries, path_left) ==
  /\ MayContinue(policy, failure, total_attempts)
  /\ ~MayRetry(policy, failure, total_attempts, same_step_retries)
  /\ policy.allow_escalation
  /\ path_left

\* Faulty: the switch that forbids escalation is not read.
MayEscalateAlways(policy, failure, total_attempts, same_step_retries, path_left) ==
  /\ MayContinue(policy, failure, total_attempts)
  /\ ~MayRetry(policy, failure, total_attempts, same_step_retries)
  /\ failure \in policy.escalation_failures
  /\ path_left

MayEscalate(policy, failure, total_attempts, same_step_retries, path_left) ==
  /\ MayContinue(policy, failure, total_attempts)
  /\ ~MayRetry(policy, failure, total_attempts, same_step_retries)
  /\ policy.allow_escalation
  /\ failure \in policy.escalation_failures
  /\ path_left

NextAction(policy, failure, total_attempts, same_step_retries, path_left) ==
  CASE MayRetry(policy, failure, total_attempts, same_step_retries) -> "retry"
    [] MayEscalate(policy, failure, total_attempts, same_step_retries, path_left) ->
         "escalate"
    [] OTHER -> "stop"

(***************************************************************************)
(* ExecutionService._quota_changed and the freshness test shared by the    *)
(* service and the planner.                                                *)
(***************************************************************************)
Distance(a, b) == IF a >= b THEN a - b ELSE b - a

QuotaChanged(policy, planned_pressure, planned_pool, pressure, pool) ==
  \/ (pressure = NoPressure) # (planned_pressure = NoPressure)
  \/ /\ pressure # NoPressure
     /\ planned_pressure # NoPressure
     /\ Distance(pressure, planned_pressure) > policy.quota_change_threshold
  \/ pool # planned_pool

NeedsRefresh(policy, fresh) == policy.require_fresh_budget /\ ~fresh
=============================================================================
