---------------------------- MODULE MCExecutionRun ----------------------------
(***************************************************************************)
(* ExecutionRun on a catalogue of three steps (a model and two stronger    *)
(* ones). The contexts are those that differ from the first in one         *)
(* respect: pressure within and beyond the threshold, unknown pressure,    *)
(* another binding pool, a stale capture, another provider, a route that   *)
(* starts elsewhere, ends early or swaps a later step.                     *)
(***************************************************************************)
EXTENDS ExecutionRun

CONSTANTS light, medium, strong, codex, other, week, day

Base ==
  [ provider |-> codex, fresh |-> TRUE, pressure |-> 4, pool |-> week,
    selectable |-> {light, medium, strong}, initial |-> light,
    path |-> <<medium, strong>> ]

MCContexts ==
  { Base,
    [Base EXCEPT !.pressure = 5],
    [Base EXCEPT !.pressure = 6],
    [Base EXCEPT !.pressure = NoPressure],
    [Base EXCEPT !.pool = day],
    [Base EXCEPT !.fresh = FALSE],
    [Base EXCEPT !.provider = other],
    [Base EXCEPT !.initial = medium, !.path = <<strong>>],
    [Base EXCEPT !.path = <<strong>>],
    [Base EXCEPT !.selectable = {light}, !.path = <<>>] }

Default ==
  [ mode |-> "always_confirm", max_attempts |-> 3, max_same_step_retries |-> 1,
    require_fresh_budget |-> TRUE, quota_change_threshold |-> 1,
    allow_escalation |-> TRUE, retryable_failures |-> {"transport"},
    escalation_failures |-> {"agent_error", "validation"} ]

\* A failure class that is retried first and escalated when the retries of the
\* step are spent, and one attempt more than the default.
Overlapping ==
  [Default EXCEPT !.max_attempts = 4,
                  !.retryable_failures = {"transport", "agent_error"}]

MCPolicies ==
  { Default, Overlapping,
    [Default EXCEPT !.mode = "never_execute"],
    [Default EXCEPT !.mode = "auto_for_low_risk", !.require_fresh_budget = FALSE],
    [Overlapping EXCEPT !.mode = "confirm_on_escalation"],
    [Default EXCEPT !.mode = "auto_for_low_risk", !.allow_escalation = FALSE],
    [Overlapping EXCEPT !.mode = "auto_for_low_risk", !.max_same_step_retries = 2],
    [Default EXCEPT !.max_attempts = 1, !.max_same_step_retries = 0] }

\* For the run about a client's handlers: a few contexts, the policies with the longest
\* loops.
FewContexts ==
  { Base,
    [Base EXCEPT !.pressure = 5],
    [Base EXCEPT !.fresh = FALSE],
    [Base EXCEPT !.fresh = FALSE, !.pressure = 5],
    [Base EXCEPT !.path = <<strong>>] }

FewPolicies ==
  { Default, [Overlapping EXCEPT !.mode = "auto_for_low_risk"] }
=============================================================================
