-------------------------- MODULE ExecutionRunProofs --------------------------
(***************************************************************************)
(* Proofs about ExecutionRun for every catalogue of steps and contexts and *)
(* every strict policy: its inductive invariant and the consent and bounds *)
(* of every adapter call; the refinement of BoundedExecution; what stands  *)
(* between the live check and the adapter; what a result tells.            *)
(***************************************************************************)
EXTENDS ExecutionRun, TLAPS, FiniteSetTheorems

-----------------------------------------------------------------------------
(***************************************************************************)
(* Facts about the constants and the decisions.                            *)
(***************************************************************************)
\* A context a capture can yield is a routing context.
LEMMA ContextType ==
  ASSUME NEW c \in Contexts
  PROVE  /\ c.provider \in Providers /\ c.fresh \in BOOLEAN
         /\ c.pressure \in Pressure /\ c.pool \in Pools
         /\ c.selectable \in SUBSET Steps /\ c.initial \in Steps
         /\ c.path \in Seq(Steps)
  BY ContextsAreRoutable DEF RoutingContext

\* The fields of a strict policy that the loop's arithmetic uses.
LEMMA PolicyType ==
  ASSUME TypeOK
  PROVE  /\ policy.max_attempts \in Nat /\ policy.max_attempts >= 1
         /\ policy.max_same_step_retries \in Nat
         /\ policy.max_same_step_retries < policy.max_attempts
         /\ policy.allow_escalation \in BOOLEAN
         /\ policy.require_fresh_budget \in BOOLEAN
<1>1. policy \in ExecutionPolicy
  BY PoliciesAreStrict DEF TypeOK
<1>2. /\ policy.max_attempts \in 1..10
      /\ policy.max_same_step_retries \in 0..5
      /\ policy.max_same_step_retries < policy.max_attempts
      /\ policy.allow_escalation \in BOOLEAN
      /\ policy.require_fresh_budget \in BOOLEAN
  BY <1>1 DEF ExecutionPolicy
<1> QED
  BY <1>2

\* The gate's answer is a truth value.
LEMMA ConfirmationType ==
  ASSUME NEW p, NEW low_risk \in BOOLEAN, NEW dry_run \in BOOLEAN, NEW e \in BOOLEAN
  PROVE  RequiresConfirmation(p, low_risk, dry_run, e) \in BOOLEAN
  BY DEF RequiresConfirmation

\* A retry is granted only while attempts and the retries of the step are left.
LEMMA RetryIsBounded ==
  ASSUME NEW failure, Decision(failure) = "retry"
  PROVE  /\ total_attempts + 1 < policy.max_attempts
         /\ same_step_retries < policy.max_same_step_retries
  BY DEF Decision, NextAction, MayRetry, MayContinue, MayEscalate

\* An escalation is granted only where the policy allows it and the path goes on.
LEMMA EscalationIsBounded ==
  ASSUME NEW failure, Decision(failure) = "escalate"
  PROVE  /\ total_attempts + 1 < policy.max_attempts
         /\ policy.allow_escalation
         /\ PathLeft
  BY DEF Decision, NextAction, MayRetry, MayContinue, MayEscalate

\* Replacing a number of a plan by a number leaves a plan.
LEMMA PlanNumbers ==
  ASSUME NEW p \in Plan, NEW n \in Nat
  PROVE  /\ [p EXCEPT !.attempt_number = n] \in Plan
         /\ [p EXCEPT !.escalation_index = n] \in Plan
  BY DEF Plan

\* A retried plan is the same plan to the person who approved it.
LEMMA RetriedPlan ==
  ASSUME NEW p \in Plan
  PROVE  /\ Retried(p) \in Plan
         /\ Retried(p).attempt_number = p.attempt_number + 1
         /\ Retried(p).escalation_index = p.escalation_index
         /\ Retried(p).max_attempts = p.max_attempts
         /\ Retried(p).provider = p.provider /\ Retried(p).step = p.step
         /\ Retried(p).initial = p.initial /\ Retried(p).path = p.path
         /\ Material(Retried(p)) = Material(p)
<1> DEFINE q == [p EXCEPT !.attempt_number = @ + 1]
<1>1. Retried(p) = [q EXCEPT !.requires_confirmation = FALSE]
  BY DEF Retried
<1>2. q \in Plan
  BY DEF Plan
<1>3. [q EXCEPT !.requires_confirmation = FALSE] \in Plan
  <2> HIDE DEF q
  <2> QED
    BY <1>2 DEF Plan
<1>4. /\ Retried(p).attempt_number = p.attempt_number + 1
      /\ Retried(p).escalation_index = p.escalation_index
      /\ Retried(p).max_attempts = p.max_attempts
      /\ Retried(p).provider = p.provider /\ Retried(p).step = p.step
      /\ Retried(p).initial = p.initial /\ Retried(p).path = p.path
      /\ Retried(p).pressure = p.pressure /\ Retried(p).pool = p.pool
  BY DEF Retried, Plan
<1> QED
  BY <1>1, <1>3, <1>4 DEF Material

\* An escalated plan stands one step further on the same path.
LEMMA EscalatedPlan ==
  ASSUME NEW p \in Plan, NEW c \in Contexts, NEW confirm \in BOOLEAN,
         p.escalation_index < Len(p.path)
  PROVE  /\ Escalated(p, c, confirm) \in Plan
         /\ Escalated(p, c, confirm).attempt_number = p.attempt_number + 1
         /\ Escalated(p, c, confirm).escalation_index = p.escalation_index + 1
         /\ Escalated(p, c, confirm).max_attempts = p.max_attempts
         /\ Escalated(p, c, confirm).provider = p.provider
         /\ Escalated(p, c, confirm).step = p.path[p.escalation_index + 1]
         /\ Escalated(p, c, confirm).initial = p.initial
         /\ Escalated(p, c, confirm).path = p.path
<1> DEFINE q1 == [p EXCEPT !.step = p.path[p.escalation_index + 1]]
           q2 == [q1 EXCEPT !.attempt_number = @ + 1]
           q3 == [q2 EXCEPT !.escalation_index = @ + 1]
           q4 == [q3 EXCEPT !.requires_confirmation = confirm]
           q5 == [q4 EXCEPT !.pressure = c.pressure]
           q6 == [q5 EXCEPT !.pool = c.pool]
<1>1. p.path[p.escalation_index + 1] \in Steps
  BY DEF Plan
<1>2. Escalated(p, c, confirm) = q6
  BY DEF Escalated
<1>3. q1 \in Plan
  BY <1>1 DEF Plan
<1>4. q2 \in Plan
  <2>1. q1.attempt_number + 1 \in Nat
    BY <1>3 DEF Plan
  <2> HIDE DEF q1
  <2> QED
    BY <1>3, <2>1, PlanNumbers
<1>5. q3 \in Plan
  <2> HIDE DEF q2
  <2>1. q2.escalation_index + 1 \in Nat
    BY <1>4 DEF Plan
  <2> QED
    BY <1>4, <2>1, PlanNumbers
<1>6. q4 \in Plan
  <2> HIDE DEF q3
  <2> QED
    BY <1>5 DEF Plan
<1>7. q5 \in Plan
  <2> HIDE DEF q4
  <2> QED
    BY <1>6, ContextType DEF Plan
<1>8. q6 \in Plan
  <2> HIDE DEF q5
  <2> QED
    BY <1>7, ContextType DEF Plan
<1>9. /\ Escalated(p, c, confirm).attempt_number = p.attempt_number + 1
      /\ Escalated(p, c, confirm).escalation_index = p.escalation_index + 1
      /\ Escalated(p, c, confirm).max_attempts = p.max_attempts
      /\ Escalated(p, c, confirm).provider = p.provider
      /\ Escalated(p, c, confirm).step = p.path[p.escalation_index + 1]
      /\ Escalated(p, c, confirm).initial = p.initial
      /\ Escalated(p, c, confirm).path = p.path
  BY DEF Escalated, Plan
<1> QED
  BY <1>2, <1>8, <1>9

-----------------------------------------------------------------------------
(***************************************************************************)
(* Type correctness.                                                       *)
(***************************************************************************)
LEMMA InitTypeOK == Init => TypeOK
<1> SUFFICES ASSUME Init PROVE TypeOK
  OBVIOUS
<1>1. /\ policy \in Policies /\ call \in Call
      /\ pc \in Waiting \cup InLoop \cup {"done"}
      /\ raised \in Exception
  BY DEF Init, Waiting, Exception
<1>2. /\ context \in Contexts \cup {Nothing} /\ plan \in Plan \cup {Nothing}
      /\ result \in ResultType \cup {Nothing} /\ approved \in MaterialType \cup {Nothing}
      /\ approval_reusable \in BOOLEAN
  BY DEF Init
<1>3. /\ total_attempts \in Nat /\ same_step_retries \in Nat
      /\ retry_count \in Nat /\ escalation_count \in Nat /\ captures \in Nat
  BY DEF Init
<1>4. /\ events \in Seq(Status) /\ invocations \in Seq(Invocation)
      /\ answers \in Seq(FailureClass \cup {NoFailure})
  BY DEF Init
<1> QED
  BY <1>1, <1>2, <1>3, <1>4 DEF TypeOK

\* The audit events of a returned result are statuses, its fields well typed.
LEMMA NotStartedTypes ==
  ASSUME TypeOK, NEW status \in Status, NEW failure \in FailureClass \cup {NoFailure},
         NEW trail \in Seq(Status), NotStarted(status, failure, trail)
  PROVE  /\ result' \in ResultType
         /\ events' \in Seq(Status)
         /\ pc' = "done" /\ raised' = raised
  BY DEF TypeOK, NotStarted, Return, Outcome, ResultType

LEMMA PlanningTypes ==
  ASSUME TypeOK, NothingRunYet,
         NoLatestContext \/ LatestContext \/ CaptureMissingContext \/ CaptureStaleContext
  PROVE  TypeOK'
<1>1. UNCHANGED <<plan, inputs, counters, approval_reusable, events, result, history>>
  BY DEF NoLatestContext, LatestContext, CaptureMissingContext, CaptureStaleContext,
         PlanningUnchanged
<1>2. context' \in Contexts \cup {Nothing}
  BY DEF TypeOK, NoLatestContext, LatestContext, CaptureMissingContext,
         CaptureStaleContext, WithContext
<1>3. /\ pc' \in Waiting \cup InLoop \cup {"done"}
      /\ raised' \in Exception
  BY DEF TypeOK, NoLatestContext, LatestContext, CaptureMissingContext,
         CaptureStaleContext, WithContext, Raise, Waiting, Exception
<1> QED
  BY <1>1, <1>2, <1>3 DEF TypeOK, inputs, counters, history

LEMMA BuildPlanTypes ==
  ASSUME TypeOK, NothingRunYet, BuildPlan
  PROVE  TypeOK'
<1>1. context \in Contexts
  BY DEF NothingRunYet, BuildPlan, Waiting
<1>2. plan' \in Plan \cup {Nothing}
  <2>1. RequiresConfirmation(policy, call.low_risk, call.dry_run, FALSE) \in BOOLEAN
    BY ConfirmationType DEF TypeOK, Call
  <2>2. CASE Stale(context)
    BY <2>2 DEF BuildPlan, TypeOK
  <2>3. CASE ~Stale(context)
    <3>1. call.dry_run \in BOOLEAN
      BY DEF TypeOK, Call
    <3>2. /\ context.provider \in Providers /\ context.initial \in Steps
          /\ context.path \in Seq(Steps) /\ context.pressure \in Pressure
          /\ context.pool \in Pools /\ policy.max_attempts \in Nat
      BY <1>1, ContextType, PolicyType
    <3>3. \A confirm \in BOOLEAN :
            [ provider |-> context.provider, step |-> context.initial,
              initial |-> context.initial, path |-> context.path,
              attempt_number |-> 1, escalation_index |-> 0,
              max_attempts |-> policy.max_attempts, dry_run |-> call.dry_run,
              requires_confirmation |-> confirm,
              pressure |-> context.pressure, pool |-> context.pool ] \in Plan
      BY <3>1, <3>2 DEF Plan
    <3> QED
      BY <2>1, <2>3, <3>3 DEF BuildPlan
  <2> QED
    BY <2>2, <2>3
<1>3. /\ pc' \in Waiting \cup InLoop \cup {"done"}
      /\ raised' \in Exception
  BY DEF TypeOK, BuildPlan, Raise, Waiting, Exception
<1> QED
  BY <1>2, <1>3 DEF TypeOK, BuildPlan, PlanningUnchanged, inputs, counters, history

\* Starting a plan leaves everything but the outcome alone.
LEMMA StartRunTypes ==
  ASSUME TypeOK, StartRun
  PROVE  TypeOK'
<1>1. /\ result' \in ResultType \cup {Nothing}
      /\ events' \in Seq(Status)
      /\ pc' \in {"gate", "done"}
      /\ raised' \in Exception
  <2>1. CASE NotStarted("dry_run", NoFailure, <<>>)
    <3>1. "dry_run" \in Status /\ <<>> \in Seq(Status)
      BY DEF Status
    <3>2. /\ result' \in ResultType /\ events' \in Seq(Status)
          /\ pc' = "done" /\ raised' = raised
      BY <2>1, <3>1, NotStartedTypes
    <3> QED
      BY <3>2 DEF TypeOK
  <2>2. CASE (Raise("planning") \/ Raise("adapter")) /\ UNCHANGED <<result, events>>
    BY <2>2 DEF Raise, TypeOK, Exception
  <2>3. CASE events' = <<"planned">> /\ pc' = "gate" /\ UNCHANGED <<result, raised>>
    <3>1. <<"planned">> \in Seq(Status)
      BY DEF Status
    <3> QED
      BY <2>3, <3>1 DEF TypeOK
  <2> QED
    BY <2>1, <2>2, <2>3 DEF StartRun
<1>2. UNCHANGED <<inputs, context, plan, counters, approval_reusable, history>>
  BY DEF StartRun
<1> QED
  BY <1>1, <1>2 DEF TypeOK, InLoop, inputs, counters, history

\* What the gate may do, whichever way the next attempt goes on from it.
LEMMA GateOutcome ==
  ASSUME Gate
  PROVE  \/ NotStarted("failed", "unknown", events)
         \/ NotStarted("denied", NoFailure, events)
         \/ NotStarted("awaiting_approval", NoFailure, Append(events, "awaiting_approval"))
         \/ /\ Allowed(policy, FALSE)
            /\ ~NeedsApproval \/ approval_reusable
            /\ pc' = "revalidate" /\ UNCHANGED <<events, result, raised>>
         \/ /\ Allowed(policy, FALSE)
            /\ pc' = "approval" /\ events' = Append(events, "awaiting_approval")
            /\ UNCHANGED <<result, raised>>
<1>1. CASE total_attempts >= policy.max_attempts
  BY <1>1 DEF Gate
<1>2. CASE ~(total_attempts >= policy.max_attempts) /\ ~Allowed(policy, FALSE)
  BY <1>2 DEF Gate
<1>3. CASE /\ ~(total_attempts >= policy.max_attempts) /\ Allowed(policy, FALSE)
           /\ ~NeedsApproval \/ approval_reusable
  BY <1>3 DEF Gate, Cleared
<1>4. CASE /\ ~(total_attempts >= policy.max_attempts) /\ Allowed(policy, FALSE)
           /\ ~(~NeedsApproval \/ approval_reusable)
  BY <1>4 DEF Gate
<1> QED
  BY <1>1, <1>2, <1>3, <1>4

LEMMA GateTypes ==
  ASSUME TypeOK, Gate
  PROVE  TypeOK'
<1>1. /\ events \in Seq(Status) /\ Append(events, "awaiting_approval") \in Seq(Status)
      /\ {"failed", "denied", "awaiting_approval"} \subseteq Status
      /\ {"unknown", NoFailure} \subseteq FailureClass \cup {NoFailure}
  BY DEF TypeOK, Status, FailureClass
<1>2. /\ result' \in ResultType \cup {Nothing}
      /\ events' \in Seq(Status)
      /\ pc' \in {"revalidate", "approval", "done"}
      /\ raised' \in Exception
  <2>1. CASE \/ NotStarted("failed", "unknown", events)
             \/ NotStarted("denied", NoFailure, events)
    BY <1>1, <2>1, NotStartedTypes DEF TypeOK
  <2>2. CASE NotStarted("awaiting_approval", NoFailure, Append(events, "awaiting_approval"))
    BY <1>1, <2>2, NotStartedTypes DEF TypeOK
  <2>3. CASE pc' = "revalidate" /\ UNCHANGED <<events, result, raised>>
    BY <2>3 DEF TypeOK
  <2>4. CASE /\ pc' = "approval" /\ events' = Append(events, "awaiting_approval")
             /\ UNCHANGED <<result, raised>>
    BY <1>1, <2>4 DEF TypeOK
  <2> QED
    BY <2>1, <2>2, <2>3, <2>4, GateOutcome
<1>3. UNCHANGED <<inputs, context, plan, counters, approval_reusable, history>>
  BY DEF Gate
<1> QED
  BY <1>2, <1>3 DEF TypeOK, InLoop, inputs, counters, history

\* The material of a plan is well typed.
LEMMA MaterialTypes ==
  ASSUME NEW p \in Plan
  PROVE  Material(p) \in MaterialType
  BY DEF Plan, Material, MaterialType

LEMMA ApproveTypes ==
  ASSUME TypeOK, LoopBookkeeping, Approve
  PROVE  TypeOK'
<1>1. plan \in Plan
  BY DEF LoopBookkeeping, Approve, InLoop
<1>2. approved' \in MaterialType
  BY <1>1, MaterialTypes DEF Approve
<1>3. pc' = "revalidate" /\ approval_reusable' = TRUE
  BY DEF Approve, Cleared
<1> QED
  BY <1>2, <1>3 DEF TypeOK, Approve, InLoop, inputs, counters

LEMMA RefuseTypes ==
  ASSUME TypeOK, Refuse
  PROVE  TypeOK'
<1>1. "denied" \in Status /\ events \in Seq(Status) /\ NoFailure \in FailureClass \cup {NoFailure}
  BY DEF TypeOK, Status
<1>2. /\ result' \in ResultType /\ events' \in Seq(Status)
      /\ pc' = "done" /\ raised' = raised
  BY <1>1, NotStartedTypes DEF Refuse
<1> QED
  BY <1>2 DEF TypeOK, Refuse, inputs, counters, history

LEMMA RevalidateUnchangedTypes ==
  ASSUME TypeOK, RevalidateUnchanged
  PROVE  TypeOK'
<1>1. context' \in Contexts /\ pc' = "execute" /\ captures' = captures + 1
  BY DEF RevalidateUnchanged
<1>2. captures' \in Nat
  BY <1>1 DEF TypeOK
<1> QED
  BY <1>1, <1>2 DEF TypeOK, RevalidateUnchanged, InLoop, inputs, counters

LEMMA RevalidateChangedTypes ==
  ASSUME TypeOK, RevalidateChanged
  PROVE  TypeOK'
<1>1. PICK status \in {Verdict(c) : c \in Contexts} \cup {"capability_changed"} :
        status # "unchanged" /\ NotStarted(status, ChangeFailure(status), events)
  BY DEF RevalidateChanged
<1>2. status \in {"quota_changed", "capability_changed"}
  BY <1>1 DEF Verdict
<1>3. status \in Status
  BY <1>2 DEF Status
<1>4. ChangeFailure(status) \in FailureClass \cup {NoFailure}
  BY DEF ChangeFailure, FailureClass
<1>5. events \in Seq(Status)
  BY DEF TypeOK
<1>6. /\ result' \in ResultType /\ events' \in Seq(Status)
      /\ pc' = "done" /\ raised' = raised
  BY <1>1, <1>3, <1>4, <1>5, NotStartedTypes
<1>7. captures' \in Nat
  BY DEF TypeOK, RevalidateChanged
<1> QED
  BY <1>6, <1>7 DEF TypeOK, RevalidateChanged, inputs, counters

\* What the later proofs use of an entry of the history.
LEMMA InvocationFields ==
  ASSUME NEW x \in Invocation
  PROVE  x.plan \in Plan /\ x.plan.escalation_index \in Nat
<1>1. x.plan \in Plan
  BY DEF Invocation
<1> QED
  BY <1>1 DEF Plan

\* An adapter call is recorded with the plan, the approval and the context of the loop.
LEMMA InvocationType ==
  ASSUME TypeOK, plan \in Plan, context \in Contexts
  PROVE  [ plan |-> plan, approved |-> approved, context |-> context,
           captures |-> captures ] \in Invocation
  BY DEF TypeOK, Invocation

LEMMA InvokeTypes ==
  ASSUME TypeOK, LoopBookkeeping, InvokeAdapter
  PROVE  TypeOK'
<1> DEFINE i == [ plan |-> plan, approved |-> approved, context |-> context,
                  captures |-> captures ]
<1>1. plan \in Plan /\ context \in Contexts
  BY DEF LoopBookkeeping, InvokeAdapter, InLoop
<1>2. i \in Invocation
  BY <1>1, InvocationType
<1>3. invocations' = Append(invocations, i) /\ pc' = "adapter"
  BY DEF InvokeAdapter
<1>4. invocations' \in Seq(Invocation)
  <2> HIDE DEF i
  <2> QED
    BY <1>2, <1>3 DEF TypeOK
<1> QED
  BY <1>3, <1>4 DEF TypeOK, InvokeAdapter, InLoop, inputs, counters

\* The audit events of an attempt are statuses.
LEMMA RecordedType ==
  ASSUME TypeOK, NEW status \in Status
  PROVE  Recorded(status) \in Seq(Status)
<1>1. <<"running", status>> \in Seq(Status)
  BY DEF Status
<1> QED
  BY <1>1 DEF Recorded, TypeOK

LEMMA RejectTypes ==
  ASSUME TypeOK, RejectResult
  PROVE  TypeOK'
<1>1. "failed" \in Status /\ "validation" \in FailureClass /\ events \in Seq(Status)
  BY DEF TypeOK, Status, FailureClass
<1>2. /\ result' \in ResultType /\ events' \in Seq(Status)
      /\ pc' = "done" /\ raised' = raised
  BY <1>1, NotStartedTypes DEF RejectResult
<1>3. answers' \in Seq(FailureClass \cup {NoFailure})
  BY <1>1 DEF TypeOK, RejectResult
<1> QED
  BY <1>2, <1>3 DEF TypeOK, RejectResult, inputs, counters

\* A returned adapter result is well typed.
LEMMA ReturnTypes ==
  ASSUME TypeOK, NEW status \in Status, NEW failure \in FailureClass \cup {NoFailure},
         NEW recommended \in BOOLEAN, NEW next_step \in Steps \cup {NoStep},
         Return(Outcome(status, failure, total_attempts + 1, recommended, next_step),
                Recorded(status))
  PROVE  /\ result' \in ResultType /\ events' \in Seq(Status)
         /\ pc' = "done" /\ raised' = raised
<1>1. Recorded(status) \in Seq(Status)
  BY RecordedType
<1>2. Outcome(status, failure, total_attempts + 1, recommended, next_step) \in ResultType
  BY DEF Outcome, ResultType, TypeOK
<1> QED
  BY <1>1, <1>2 DEF Return

LEMMA FinalTypes ==
  ASSUME TypeOK, FinalResult
  PROVE  TypeOK'
<1>1. PICK answer \in {<<"succeeded", NoFailure>>, <<"cancelled", "user_cancelled">>} :
        /\ Return(Outcome(answer[1], answer[2], total_attempts + 1, FALSE, NoStep),
                  Recorded(answer[1]))
        /\ answers' = Append(answers, answer[2])
  BY DEF FinalResult
<1> DEFINE status == answer[1]
           failure == answer[2]
<1>2. status \in Status /\ failure \in FailureClass \cup {NoFailure}
  BY <1>1 DEF Status, FailureClass
<1>3. /\ Return(Outcome(status, failure, total_attempts + 1, FALSE, NoStep),
                Recorded(status))
      /\ answers' = Append(answers, failure)
  BY <1>1
<1> HIDE DEF status, failure
<1>4. /\ result' \in ResultType /\ events' \in Seq(Status)
      /\ pc' = "done" /\ raised' = raised
  BY <1>2, <1>3, ReturnTypes
<1>5. answers' \in Seq(FailureClass \cup {NoFailure})
  BY <1>2, <1>3 DEF TypeOK
<1>6. total_attempts' \in Nat
  BY DEF TypeOK, FinalResult
<1> QED
  BY <1>4, <1>5, <1>6 DEF TypeOK, FinalResult, inputs

LEMMA StopTypes ==
  ASSUME TypeOK, LoopBookkeeping, StopAfterFailure
  PROVE  TypeOK'
<1>1. plan \in Plan
  BY DEF LoopBookkeeping, StopAfterFailure, InLoop
<1>2. NextStep \in Steps \cup {NoStep}
  BY <1>1 DEF NextStep, PathLeft, Plan
<1>3. PICK failure \in AdapterFailures :
        /\ Return(Outcome("failed", failure, total_attempts + 1,
                          PathLeft /\ failure \in policy.escalation_failures, NextStep),
                  Recorded("failed"))
        /\ answers' = Append(answers, failure)
  BY DEF StopAfterFailure
<1>4. "failed" \in Status /\ failure \in FailureClass \cup {NoFailure}
  BY <1>3 DEF AdapterFailures, Status
<1>5. (PathLeft /\ failure \in policy.escalation_failures) \in BOOLEAN
  BY DEF PathLeft
<1>6. /\ result' \in ResultType /\ events' \in Seq(Status)
      /\ pc' = "done" /\ raised' = raised
  BY <1>2, <1>3, <1>4, <1>5, ReturnTypes
<1>7. answers' \in Seq(FailureClass \cup {NoFailure})
  BY <1>3, <1>4 DEF TypeOK
<1>8. total_attempts' \in Nat
  BY DEF TypeOK, StopAfterFailure
<1> QED
  BY <1>6, <1>7, <1>8 DEF TypeOK, StopAfterFailure, inputs

\* The attempt that another one follows is recorded whichever way the loop goes on.
LEMMA ContinueTypes ==
  ASSUME TypeOK, RetryAttempt \/ EscalateAttempt
  PROVE  /\ events' \in Seq(Status)
         /\ answers' \in Seq(FailureClass \cup {NoFailure})
         /\ total_attempts' \in Nat /\ retry_count' \in Nat /\ escalation_count' \in Nat
         /\ same_step_retries' \in Nat
<1>1. Recorded("failed") \in Seq(Status) /\ {"retrying", "escalation_planned"} \subseteq Status
  BY RecordedType DEF Status
<1>2. events' \in Seq(Status)
  <2>1. events' \in {Append(Recorded("failed"), "retrying"),
                     Append(Recorded("failed"), "escalation_planned")}
    BY DEF RetryAttempt, EscalateAttempt
  <2> QED
    BY <1>1, <2>1
<1>3. \E failure \in FailureClass : answers' = Append(answers, failure)
  BY DEF RetryAttempt, EscalateAttempt, AdapterFailures
<1>4. answers' \in Seq(FailureClass \cup {NoFailure})
  BY <1>3 DEF TypeOK
<1>5. /\ total_attempts' \in Nat /\ retry_count' \in Nat /\ escalation_count' \in Nat
      /\ same_step_retries' \in Nat
  <2>1. CASE RetryAttempt
    BY <2>1 DEF RetryAttempt, TypeOK
  <2>2. CASE EscalateAttempt
    <3>1. same_step_retries' \in {0, same_step_retries}
      BY <2>2 DEF EscalateAttempt
    <3>2. /\ total_attempts' = total_attempts + 1 /\ retry_count' = retry_count
          /\ escalation_count' = escalation_count + 1
      BY <2>2 DEF EscalateAttempt
    <3> QED
      BY <3>1, <3>2 DEF TypeOK
  <2> QED
    BY <2>1, <2>2
<1> QED
  BY <1>2, <1>4, <1>5

LEMMA RetryTypes ==
  ASSUME TypeOK, LoopBookkeeping, RetryAttempt
  PROVE  TypeOK'
<1>1. /\ events' \in Seq(Status)
      /\ answers' \in Seq(FailureClass \cup {NoFailure})
      /\ total_attempts' \in Nat /\ retry_count' \in Nat /\ escalation_count' \in Nat
      /\ same_step_retries' \in Nat
  BY ContinueTypes
<1>2. plan \in Plan
  BY DEF LoopBookkeeping, RetryAttempt, InLoop
<1>3. plan' \in Plan /\ approval_reusable' \in BOOLEAN
  BY <1>2, RetriedPlan DEF RetryAttempt, TypeOK
<1>4. pc' \in {"gate", "done"} /\ raised' \in Exception
  BY DEF RetryAttempt, Raise, TypeOK, Exception
<1> QED
  BY <1>1, <1>3, <1>4 DEF TypeOK, RetryAttempt, InLoop, inputs

LEMMA EscalateTypes ==
  ASSUME TypeOK, LoopBookkeeping, EscalateAttempt
  PROVE  TypeOK'
<1>1. /\ events' \in Seq(Status)
      /\ answers' \in Seq(FailureClass \cup {NoFailure})
      /\ total_attempts' \in Nat /\ retry_count' \in Nat /\ escalation_count' \in Nat
      /\ same_step_retries' \in Nat
  BY ContinueTypes
<1>2. plan \in Plan /\ context \in Contexts
  BY DEF LoopBookkeeping, EscalateAttempt, InLoop
<1>3. plan.escalation_index < Len(plan.path)
  BY EscalationIsBounded DEF EscalateAttempt, PathLeft
<1>4. RequiresConfirmation(policy, call.low_risk, FALSE, TRUE) \in BOOLEAN
  BY ConfirmationType DEF TypeOK, Call
<1>5. plan' \in Plan /\ approval_reusable' \in BOOLEAN
  BY <1>2, <1>3, <1>4, EscalatedPlan DEF EscalateAttempt, TypeOK
<1>6. pc' \in {"gate", "done"} /\ raised' \in Exception
  BY DEF EscalateAttempt, Raise, TypeOK, Exception
<1> QED
  BY <1>1, <1>5, <1>6 DEF TypeOK, EscalateAttempt, InLoop, inputs

LEMMA AwaitRaisesTypes ==
  ASSUME TypeOK, AwaitRaises
  PROVE  TypeOK'
<1>1. pc' = "done" /\ raised' \in Exception
  BY DEF AwaitRaises, Raise, Exception
<1> QED
  BY <1>1 DEF TypeOK, AwaitRaises, inputs, counters, history

\* Every step of the service or its environment keeps the types, given the two
\* invariants that say when there is a plan and a context.
LEMMA NextTypes ==
  ASSUME TypeOK, NothingRunYet, LoopBookkeeping, [Next]_vars
  PROVE  TypeOK'
<1>1. CASE UNCHANGED vars
  BY <1>1 DEF TypeOK, vars, inputs, counters, history
<1>2. CASE Service
  BY <1>2, PlanningTypes, BuildPlanTypes, GateTypes, RevalidateUnchangedTypes,
     RevalidateChangedTypes, InvokeTypes, RejectTypes, FinalTypes, RetryTypes,
     EscalateTypes, StopTypes DEF Service
<1>3. CASE Caller
  BY <1>3, StartRunTypes, ApproveTypes, RefuseTypes, AwaitRaisesTypes DEF Caller
<1> QED
  BY <1>1, <1>2, <1>3 DEF Next, Finished

-----------------------------------------------------------------------------
(***************************************************************************)
(* The parts of the inductive invariant about the current plan and the     *)
(* loop, action by action. LoopInv' is what each action has to establish.  *)
(***************************************************************************)
LoopInv == NothingRunYet /\ LoopBookkeeping /\ StepsOfHistory /\ ApprovalIsCurrent

\* A run that is over has nothing left to keep.
LEMMA OverIsIdle ==
  ASSUME pc' = "done"
  PROVE  LoopInv'
  BY DEF LoopInv, NothingRunYet, LoopBookkeeping, StepsOfHistory, ApprovalIsCurrent,
         Waiting, InLoop

\* While planning, only the parts about planning are at stake.
LEMMA PlanningIsNoLoop ==
  ASSUME pc' \in Waiting, NothingRunYet'
  PROVE  LoopInv'
  BY DEF LoopInv, LoopBookkeeping, StepsOfHistory, ApprovalIsCurrent, Waiting, InLoop

\* Inside the loop, planning is past.
LEMMA LoopIsNoPlanning ==
  ASSUME pc' \in InLoop, LoopBookkeeping', StepsOfHistory', ApprovalIsCurrent'
  PROVE  LoopInv'
  BY DEF LoopInv, NothingRunYet, Waiting, InLoop

LEMMA PlanningKeepsLoop ==
  ASSUME TypeOK, NothingRunYet,
         NoLatestContext \/ LatestContext \/ CaptureMissingContext \/ CaptureStaleContext
  PROVE  LoopInv'
<1>1. UNCHANGED <<plan, inputs, counters, approval_reusable, events, result, history>>
  BY DEF NoLatestContext, LatestContext, CaptureMissingContext, CaptureStaleContext,
         PlanningUnchanged
<1>2. pc \in Waiting /\ pc # "planned"
  BY DEF NoLatestContext, LatestContext, CaptureMissingContext, CaptureStaleContext, Waiting
<1>3. \/ pc' \in {"capture_missing", "capture_stale", "done"}
      \/ pc' = "build" /\ context' \in Contexts
  BY DEF NoLatestContext, LatestContext, CaptureMissingContext, CaptureStaleContext,
         WithContext, Raise
<1>4. CASE pc' = "done"
  BY <1>4, OverIsIdle
<1>5. CASE pc' # "done"
  <2>1. pc' \in Waiting /\ pc' # "planned"
    BY <1>3, <1>5 DEF Waiting
  <2>2. NothingRunYet'
    BY <1>1, <1>2, <1>3, <1>5, <2>1 DEF NothingRunYet, counters, history, inputs
  <2> QED
    BY <2>1, <2>2, PlanningIsNoLoop
<1> QED
  BY <1>4, <1>5

LEMMA BuildPlanKeepsLoop ==
  ASSUME TypeOK, NothingRunYet, TypeOK', BuildPlan
  PROVE  LoopInv'
<1>1. CASE Stale(context)
  BY <1>1, OverIsIdle DEF BuildPlan, Raise
<1>2. CASE ~Stale(context)
  <2>1. pc' = "planned"
    BY <1>2 DEF BuildPlan
  <2>2. /\ plan'.attempt_number = 1 /\ plan'.escalation_index = 0
        /\ plan'.max_attempts = policy.max_attempts
        /\ plan'.step = plan'.initial
        /\ plan'.dry_run = call.dry_run
        /\ plan' # Nothing
    BY <1>2 DEF BuildPlan, Nothing
  <2>3. plan' \in Plan
    BY <2>2 DEF TypeOK
  <2>4. pc = "build" /\ pc \in Waiting /\ context' = context
    BY DEF BuildPlan, Waiting
  <2>5. UNCHANGED <<inputs, counters, approval_reusable, history>>
    BY DEF BuildPlan, PlanningUnchanged
  <2>6. NothingRunYet'
    BY <2>1, <2>2, <2>3, <2>4, <2>5 DEF NothingRunYet, counters, history, inputs
  <2> QED
    BY <2>1, <2>6, PlanningIsNoLoop DEF Waiting
<1> QED
  BY <1>1, <1>2

LEMMA StartRunKeepsLoop ==
  ASSUME TypeOK, NothingRunYet, StartRun
  PROVE  LoopInv'
<1>1. CASE pc' = "done"
  BY <1>1, OverIsIdle
<1>2. CASE pc' # "done"
  <2>1. /\ pc' = "gate" /\ plan.provider = AdapterProvider /\ ~plan.dry_run
        /\ UNCHANGED <<inputs, context, plan, counters, approval_reusable, history>>
    BY <1>2 DEF StartRun, Raise, NotStarted, Return
  <2>2. pc = "planned" /\ pc \in Waiting
    BY DEF StartRun, Waiting
  <2>3. /\ total_attempts = 0 /\ same_step_retries = 0
        /\ retry_count = 0 /\ escalation_count = 0
        /\ approval_reusable = FALSE
        /\ captures = 0 /\ invocations = <<>>
        /\ plan \in Plan
        /\ plan.attempt_number = 1 /\ plan.escalation_index = 0
        /\ plan.max_attempts = policy.max_attempts
        /\ plan.step = plan.initial
        /\ plan.dry_run = call.dry_run
        /\ context \in Contexts
    BY <2>2 DEF NothingRunYet
  <2>4. Len(plan.path) \in Nat /\ policy.max_attempts >= 1 /\ policy.max_attempts \in Nat
    BY <2>3, PolicyType DEF Plan
  <2>5. policy.max_same_step_retries \in Nat
    BY PolicyType
  <2>6. LoopBookkeeping'
    BY <2>1, <2>3, <2>4, <2>5 DEF LoopBookkeeping, inputs, counters, history
  <2>7. StepsOfHistory'
    BY <2>1, <2>3 DEF StepsOfHistory, inputs, counters, history
  <2>8. ApprovalIsCurrent'
    BY <2>1, <2>3 DEF ApprovalIsCurrent
  <2> QED
    BY <2>1, <2>6, <2>7, <2>8, LoopIsNoPlanning DEF InLoop
<1> QED
  BY <1>1, <1>2

\* A step inside the loop that calls no adapter and makes no new plan keeps the
\* bookkeeping, if the captures it makes are those of its new place.
LEMMA QuietStepKeepsBookkeeping ==
  ASSUME LoopBookkeeping, StepsOfHistory,
         pc \in InLoop \ {"adapter"}, pc' \in InLoop \ {"adapter"},
         UNCHANGED <<inputs, plan, counters, invocations>>,
         context' \in Contexts,
         captures' = total_attempts + (IF pc' = "execute" THEN 1 ELSE 0),
         pc' # "gate" => Allowed(policy, FALSE)
  PROVE  LoopBookkeeping' /\ StepsOfHistory'
<1>1. LoopBookkeeping'
  BY DEF LoopBookkeeping, inputs, counters
<1>2. StepsOfHistory'
  BY DEF StepsOfHistory, inputs, counters
<1> QED
  BY <1>1, <1>2

LEMMA GateKeepsLoop ==
  ASSUME TypeOK, LoopInv, Gate
  PROVE  LoopInv'
<1>1. CASE pc' = "done"
  BY <1>1, OverIsIdle
<1>2. CASE pc' # "done"
  <2>1. /\ pc = "gate" /\ pc' \in {"revalidate", "approval"}
        /\ Allowed(policy, FALSE)
        /\ pc' = "revalidate" => ~NeedsApproval \/ approval_reusable
    BY <1>2, GateOutcome DEF Gate, NotStarted, Return
  <2>2. UNCHANGED <<inputs, context, plan, counters, approval_reusable, history>>
    BY DEF Gate
  <2>3. captures = total_attempts /\ context \in Contexts
    <3>1. captures = total_attempts + 0 /\ context \in Contexts
      BY <2>1 DEF LoopInv, LoopBookkeeping, InLoop
    <3> QED
      BY <3>1 DEF TypeOK
  <2>4. captures' = total_attempts + 0
    BY <2>2, <2>3 DEF history, TypeOK
  <2>5. LoopBookkeeping' /\ StepsOfHistory'
    BY <2>1, <2>2, <2>3, <2>4, QuietStepKeepsBookkeeping DEF LoopInv, InLoop, history
  <2>6. ApprovalIsCurrent'
    BY <2>1, <2>2 DEF LoopInv, ApprovalIsCurrent, Confirms, NeedsApproval, GateConfirms,
                      InLoop, inputs, history
  <2> QED
    BY <2>1, <2>5, <2>6, LoopIsNoPlanning DEF InLoop
<1> QED
  BY <1>1, <1>2

LEMMA ApproveKeepsLoop ==
  ASSUME TypeOK, LoopInv, Approve
  PROVE  LoopInv'
<1>1. /\ pc = "approval" /\ pc' = "revalidate" /\ approved' = Material(plan)
      /\ UNCHANGED <<inputs, context, plan, counters, captures, invocations>>
  BY DEF Approve, Cleared
<1>2. /\ captures = total_attempts + 0 /\ context \in Contexts
      /\ Allowed(policy, FALSE)
  BY <1>1 DEF LoopInv, LoopBookkeeping, InLoop
<1>3. captures' = total_attempts + 0 /\ context' \in Contexts
  BY <1>1, <1>2
<1>4. LoopBookkeeping' /\ StepsOfHistory'
  BY <1>1, <1>2, <1>3, QuietStepKeepsBookkeeping DEF LoopInv, InLoop
<1>5. ApprovalIsCurrent'
  BY <1>1 DEF ApprovalIsCurrent, Approve
<1> QED
  BY <1>1, <1>4, <1>5, LoopIsNoPlanning DEF InLoop

LEMMA RevalidateKeepsLoop ==
  ASSUME TypeOK, LoopInv, RevalidateUnchanged
  PROVE  LoopInv'
<1>1. /\ pc = "revalidate" /\ pc' = "execute" /\ captures' = captures + 1
      /\ context' \in Contexts
      /\ UNCHANGED <<inputs, plan, counters, approval_reusable, approved, invocations>>
  BY DEF RevalidateUnchanged
<1>2. captures = total_attempts + 0 /\ Allowed(policy, FALSE)
  BY <1>1 DEF LoopInv, LoopBookkeeping, InLoop
<1>3. captures' = total_attempts + 1
  BY <1>1, <1>2 DEF TypeOK
<1>4. LoopBookkeeping' /\ StepsOfHistory'
  BY <1>1, <1>2, <1>3, QuietStepKeepsBookkeeping DEF LoopInv, InLoop
<1>5. ApprovalIsCurrent'
  BY <1>1 DEF LoopInv, ApprovalIsCurrent, Confirms, InLoop, inputs
<1> QED
  BY <1>1, <1>4, <1>5, LoopIsNoPlanning DEF InLoop

\* What appending to a sequence does to its elements.
LEMMA AppendedSequence ==
  ASSUME NEW S, NEW q \in Seq(S), NEW x \in S
  PROVE  /\ Append(q, x) \in Seq(S)
         /\ Len(Append(q, x)) = Len(q) + 1
         /\ Append(q, x)[Len(q) + 1] = x
         /\ \A i \in 1..Len(q) : Append(q, x)[i] = q[i]
         /\ DOMAIN q = 1..Len(q)
         /\ DOMAIN Append(q, x) = 1..(Len(q) + 1)
         /\ Len(q) \in Nat
  OBVIOUS

\* The history after an adapter call: the old entries, and one of the loop's plan.
LEMMA InvokedHistory ==
  ASSUME TypeOK, LoopBookkeeping, InvokeAdapter
  PROVE  LET n == Len(invocations)
         IN  /\ n \in Nat /\ n = total_attempts
             /\ DOMAIN invocations = 1..n
             /\ DOMAIN invocations' = 1..(n + 1) /\ Len(invocations') = n + 1
             /\ \A i \in 1..n : invocations'[i] = invocations[i]
             /\ invocations'[n + 1].plan = plan
             /\ invocations'[n + 1].approved = approved
<1> DEFINE x == [ plan |-> plan, approved |-> approved, context |-> context,
                  captures |-> captures ]
<1>1. plan \in Plan /\ context \in Contexts /\ Len(invocations) = total_attempts + 0
  BY DEF LoopBookkeeping, InvokeAdapter, InLoop
<1>2. x \in Invocation
  BY <1>1, InvocationType
<1>3. x.plan = plan /\ x.approved = approved
  OBVIOUS
<1>4. invocations \in Seq(Invocation) /\ total_attempts \in Nat
  BY DEF TypeOK
<1>5. invocations' = Append(invocations, x)
  BY DEF InvokeAdapter
<1> HIDE DEF x
<1> QED
  BY <1>1, <1>2, <1>3, <1>4, <1>5, AppendedSequence

LEMMA InvokeKeepsLoop ==
  ASSUME TypeOK, LoopInv, InvokeAdapter
  PROVE  LoopInv'
<1> DEFINE n == Len(invocations)
<1>1. /\ pc = "execute" /\ pc' = "adapter"
      /\ UNCHANGED <<inputs, context, plan, counters, approval_reusable, approved, captures>>
  BY DEF InvokeAdapter
<1>2. /\ n \in Nat /\ n = total_attempts
      /\ DOMAIN invocations = 1..n
      /\ DOMAIN invocations' = 1..(n + 1) /\ Len(invocations') = n + 1
      /\ \A i \in 1..n : invocations'[i] = invocations[i]
      /\ invocations'[n + 1].plan = plan
  BY InvokedHistory DEF LoopInv
<1>3. LoopBookkeeping'
  BY <1>1, <1>2 DEF LoopInv, LoopBookkeeping, InLoop, inputs, counters
<1>4. StepsOfHistory'
  <2> DEFINE older == total_attempts - same_step_retries
  <2>1. /\ older \in Nat /\ older <= n
        /\ plan \in Plan /\ plan.escalation_index \in Nat
    BY <1>1, <1>2 DEF LoopInv, LoopBookkeeping, InLoop, TypeOK, Plan
  <2>2. /\ \A i \in 1..n : invocations[i].plan.escalation_index =
                            plan.escalation_index <=> i > older
        /\ \A i \in 1..n : invocations[i].plan.escalation_index <= plan.escalation_index
        /\ older > 0 =>
             /\ invocations[older].plan.escalation_index = plan.escalation_index - 1
             /\ policy.allow_escalation
        /\ older = 0 => plan.escalation_index = 0
        /\ \A i \in 1..n : invocations[i].plan.path = plan.path
                             /\ invocations[i].plan.initial = plan.initial
    BY <1>1, <1>2 DEF LoopInv, StepsOfHistory, InLoop
  <2>3. /\ \A i \in 1..(n + 1) : invocations'[i].plan.escalation_index =
                                  plan.escalation_index <=> i > older
        /\ \A i \in 1..(n + 1) :
             invocations'[i].plan.escalation_index <= plan.escalation_index
    <3> HIDE DEF older
    <3> SUFFICES ASSUME NEW i \in 1..(n + 1)
                 PROVE  /\ invocations'[i].plan.escalation_index =
                               plan.escalation_index <=> i > older
                        /\ invocations'[i].plan.escalation_index <= plan.escalation_index
      OBVIOUS
    <3>1. CASE i = n + 1
      BY <3>1, <1>2, <2>1
    <3>2. CASE i \in 1..n
      BY <3>2, <1>2, <2>2
    <3> QED
      BY <3>1, <3>2, <1>2
  <2>4. \A i \in 1..(n + 1) : invocations'[i].plan.path = plan.path
                              /\ invocations'[i].plan.initial = plan.initial
    <3> SUFFICES ASSUME NEW i \in 1..(n + 1)
                 PROVE  /\ invocations'[i].plan.path = plan.path
                        /\ invocations'[i].plan.initial = plan.initial
      OBVIOUS
    <3>1. CASE i = n + 1
      BY <3>1, <1>2
    <3>2. CASE i \in 1..n
      BY <3>2, <1>2, <2>2
    <3> QED
      BY <3>1, <3>2, <1>2
  <2>5. older > 0 => invocations'[older] = invocations[older]
    BY <1>2, <2>1
  <2>6. UNCHANGED <<plan, policy, total_attempts, same_step_retries>>
    BY <1>1 DEF inputs, counters
  <2> QED
    BY <1>2, <2>2, <2>3, <2>4, <2>5, <2>6 DEF StepsOfHistory
<1>5. ApprovalIsCurrent'
  BY <1>1 DEF LoopInv, ApprovalIsCurrent, Confirms, InLoop, inputs
<1> QED
  BY <1>1, <1>3, <1>4, <1>5, LoopIsNoPlanning DEF InLoop

LEMMA RetryKeepsLoop ==
  ASSUME TypeOK, LoopInv, RetryAttempt
  PROVE  LoopInv'
<1>1. CASE pc' = "done"
  BY <1>1, OverIsIdle
<1>2. CASE pc' # "done"
  <2>1. /\ pc = "adapter" /\ pc \in InLoop /\ pc' = "gate"
        /\ total_attempts' = total_attempts + 1
        /\ retry_count' = retry_count + 1
        /\ same_step_retries' = same_step_retries + 1
        /\ plan' = Retried(plan) /\ approval_reusable' = TRUE
        /\ UNCHANGED <<inputs, context, escalation_count, approved, captures, invocations>>
    BY <1>2 DEF RetryAttempt, Raise, InLoop
  <2>2. /\ total_attempts + 1 < policy.max_attempts
        /\ same_step_retries < policy.max_same_step_retries
    BY RetryIsBounded DEF RetryAttempt
  <2>3. /\ total_attempts \in Nat /\ same_step_retries \in Nat
        /\ retry_count \in Nat /\ escalation_count \in Nat /\ captures \in Nat
        /\ policy.max_attempts \in Nat /\ policy.max_same_step_retries \in Nat
    BY PolicyType DEF TypeOK
  <2>4. /\ plan \in Plan /\ plan.escalation_index \in Nat /\ plan.attempt_number \in Nat
    BY <2>1 DEF LoopInv, LoopBookkeeping, Plan
  <2>5. /\ plan' \in Plan
        /\ plan'.attempt_number = plan.attempt_number + 1
        /\ plan'.escalation_index = plan.escalation_index
        /\ plan'.max_attempts = plan.max_attempts
        /\ plan'.provider = plan.provider /\ plan'.step = plan.step
        /\ plan'.initial = plan.initial /\ plan'.path = plan.path
        /\ Material(plan') = Material(plan)
    BY <2>1, <2>4, RetriedPlan
  <2>6. LoopBookkeeping'
    <3>1. LoopBookkeeping /\ pc \in InLoop
      BY <2>1 DEF LoopInv
    <3>2. /\ Len(invocations') = total_attempts' + 0 /\ captures' = total_attempts' + 0
          /\ total_attempts' = retry_count' + escalation_count'
          /\ plan'.attempt_number = total_attempts' + 1
          /\ total_attempts' < policy'.max_attempts
          /\ same_step_retries' <= policy'.max_same_step_retries
          /\ same_step_retries' <= total_attempts'
      BY <2>1, <2>2, <2>3, <2>4, <2>5, <3>1 DEF LoopBookkeeping, inputs
    <3>3. /\ context' \in Contexts
          /\ plan'.provider = AdapterProvider /\ ~call'.dry_run
          /\ plan'.max_attempts = policy'.max_attempts
          /\ plan'.escalation_index = escalation_count'
          /\ plan'.escalation_index <= Len(plan'.path)
          /\ plan'.step = IF plan'.escalation_index = 0
                            THEN plan'.initial ELSE plan'.path[plan'.escalation_index]
      BY <2>1, <2>5, <3>1 DEF LoopBookkeeping, inputs
    <3> QED
      BY <2>1, <2>5, <3>2, <3>3 DEF LoopBookkeeping
  <2>7. StepsOfHistory'
    <3>1. total_attempts' - same_step_retries' = total_attempts - same_step_retries
      BY <2>1, <2>3
    <3> QED
      BY <2>1, <2>5, <3>1 DEF LoopInv, StepsOfHistory, inputs
  <2>8. ApprovalIsCurrent'
    BY <2>1, <2>5 DEF LoopInv, ApprovalIsCurrent, Confirms, inputs
  <2> QED
    BY <2>1, <2>6, <2>7, <2>8, LoopIsNoPlanning DEF InLoop
<1> QED
  BY <1>1, <1>2

LEMMA EscalateKeepsLoop ==
  ASSUME TypeOK, LoopInv, EscalateAttempt
  PROVE  LoopInv'
<1>1. CASE pc' = "done"
  BY <1>1, OverIsIdle
<1>2. CASE pc' # "done"
  <2> DEFINE confirm == RequiresConfirmation(policy, call.low_risk, FALSE, TRUE)
  <2>1. /\ pc = "adapter" /\ pc \in InLoop /\ pc' = "gate"
        /\ total_attempts' = total_attempts + 1
        /\ escalation_count' = escalation_count + 1
        /\ UNCHANGED <<inputs, context, retry_count, approved, captures, invocations>>
    BY <1>2 DEF EscalateAttempt, Raise, InLoop
  <2>2. /\ same_step_retries' = 0
        /\ plan' = Escalated(plan, context, confirm) /\ approval_reusable' = FALSE
    BY <1>2 DEF EscalateAttempt, Raise
  <2>3. /\ total_attempts + 1 < policy.max_attempts
        /\ policy.allow_escalation
        /\ plan.escalation_index < Len(plan.path)
    BY EscalationIsBounded DEF EscalateAttempt, PathLeft
  <2>4. /\ total_attempts \in Nat /\ same_step_retries \in Nat
        /\ retry_count \in Nat /\ escalation_count \in Nat /\ captures \in Nat
        /\ policy.max_attempts \in Nat /\ policy.max_same_step_retries \in Nat
        /\ confirm \in BOOLEAN
    BY PolicyType, ConfirmationType DEF TypeOK, Call
  <2>5. /\ plan \in Plan /\ context \in Contexts /\ Len(plan.path) \in Nat
        /\ plan.escalation_index \in Nat /\ plan.attempt_number \in Nat
    BY <2>1 DEF LoopInv, LoopBookkeeping, Plan
  <2>6. /\ plan' \in Plan
        /\ plan'.attempt_number = plan.attempt_number + 1
        /\ plan'.escalation_index = plan.escalation_index + 1
        /\ plan'.max_attempts = plan.max_attempts
        /\ plan'.provider = plan.provider
        /\ plan'.step = plan.path[plan.escalation_index + 1]
        /\ plan'.initial = plan.initial /\ plan'.path = plan.path
    <3> HIDE DEF confirm
    <3> QED
      BY <2>2, <2>3, <2>4, <2>5, EscalatedPlan
  <2>7. LoopBookkeeping'
    <3>1. LoopBookkeeping /\ pc \in InLoop
      BY <2>1 DEF LoopInv
    <3>2. /\ Len(invocations') = total_attempts' + 0 /\ captures' = total_attempts' + 0
          /\ total_attempts' = retry_count' + escalation_count'
          /\ plan'.attempt_number = total_attempts' + 1
      BY <2>1, <2>4, <2>5, <2>6, <3>1 DEF LoopBookkeeping
    <3>4. /\ total_attempts' < policy'.max_attempts
          /\ same_step_retries' <= policy'.max_same_step_retries
          /\ same_step_retries' <= total_attempts'
      <4>1. same_step_retries' = 0
        BY <2>2
      <4> QED
        BY <2>1, <2>3, <2>4, <4>1 DEF inputs
    <3>3. /\ context' \in Contexts
          /\ plan'.provider = AdapterProvider /\ ~call'.dry_run
          /\ plan'.max_attempts = policy'.max_attempts
          /\ plan'.escalation_index = escalation_count'
          /\ plan'.escalation_index <= Len(plan'.path)
          /\ plan'.step = IF plan'.escalation_index = 0
                            THEN plan'.initial ELSE plan'.path[plan'.escalation_index]
      BY <2>1, <2>3, <2>4, <2>5, <2>6, <3>1 DEF LoopBookkeeping, inputs
    <3> QED
      BY <2>1, <2>6, <3>2, <3>3, <3>4 DEF LoopBookkeeping
  <2>8. StepsOfHistory'
    <3> DEFINE n == total_attempts + 1
    <3>1. /\ Len(invocations) = n /\ DOMAIN invocations = 1..n
      BY <2>1, <2>4 DEF LoopInv, LoopBookkeeping, TypeOK
    <3>2. /\ \A i \in 1..n : invocations[i].plan.escalation_index <= plan.escalation_index
          /\ invocations[n].plan.escalation_index = plan.escalation_index
          /\ \A i \in 1..n : invocations[i].plan.path = plan.path
                              /\ invocations[i].plan.initial = plan.initial
      BY <2>1, <2>4, <3>1 DEF LoopInv, StepsOfHistory
    <3>3. \A i \in 1..n : invocations[i].plan.escalation_index \in Nat
      BY <3>1, InvocationFields DEF TypeOK
    <3>4. \A i \in 1..n :
            /\ invocations'[i].plan.escalation_index # plan'.escalation_index
            /\ invocations'[i].plan.escalation_index <= plan'.escalation_index
            /\ ~(i > n)
      BY <2>1, <2>4, <2>5, <2>6, <3>2, <3>3
    <3>5. total_attempts' - same_step_retries' = n /\ n > 0 /\ n # 0
      BY <2>1, <2>2, <2>4
    <3>6. /\ invocations'[n].plan.escalation_index = plan'.escalation_index - 1
          /\ policy'.allow_escalation
      BY <2>1, <2>3, <2>5, <2>6, <3>2 DEF inputs
    <3>7. DOMAIN invocations' = 1..n /\ invocations' = invocations
      BY <2>1, <3>1
    <3> HIDE DEF n
    <3> QED
      BY <2>6, <3>2, <3>4, <3>5, <3>6, <3>7 DEF StepsOfHistory
  <2>9. ApprovalIsCurrent'
    BY <2>1, <2>2 DEF ApprovalIsCurrent
  <2> QED
    BY <2>1, <2>7, <2>8, <2>9, LoopIsNoPlanning DEF InLoop
<1> QED
  BY <1>1, <1>2

\* Every step keeps the invariants about the current plan and the loop.
LEMMA NextKeepsLoop ==
  ASSUME TypeOK, TypeOK', LoopInv, [Next]_vars
  PROVE  LoopInv'
<1>1. CASE UNCHANGED vars
  BY <1>1 DEF vars, inputs, counters, history, LoopInv, NothingRunYet, LoopBookkeeping,
              StepsOfHistory, ApprovalIsCurrent, Confirms
<1>2. CASE RevalidateChanged \/ RejectResult \/ FinalResult \/ StopAfterFailure \/ Refuse
           \/ AwaitRaises
  <2>1. pc' = "done"
    BY <1>2 DEF RevalidateChanged, RejectResult, FinalResult, StopAfterFailure, Refuse,
                AwaitRaises, NotStarted, Return, Raise
  <2> QED
    BY <2>1, OverIsIdle
<1>3. CASE Service
  BY <1>2, <1>3, PlanningKeepsLoop, BuildPlanKeepsLoop, GateKeepsLoop, RevalidateKeepsLoop,
     InvokeKeepsLoop, RetryKeepsLoop, EscalateKeepsLoop DEF Service, LoopInv
<1>4. CASE Caller
  BY <1>2, <1>4, StartRunKeepsLoop, ApproveKeepsLoop DEF Caller, LoopInv
<1> QED
  BY <1>1, <1>3, <1>4 DEF Next, Finished

-----------------------------------------------------------------------------
(***************************************************************************)
(* The parts of the inductive invariant about the history of adapter       *)
(* calls. Only InvokeAdapter adds to it; the policy and the call are fixed.*)
(***************************************************************************)
\* Which variables a step may change.
LEMMA OnlyInvokeAddsHistory ==
  ASSUME [Next]_vars, ~InvokeAdapter
  PROVE  UNCHANGED <<policy, call, invocations>>
<1>1. CASE UNCHANGED vars
  BY <1>1 DEF vars, inputs, history
<1>2. CASE NoLatestContext \/ LatestContext \/ CaptureMissingContext \/ CaptureStaleContext
           \/ BuildPlan
  BY <1>2 DEF NoLatestContext, LatestContext, CaptureMissingContext, CaptureStaleContext,
              BuildPlan, PlanningUnchanged, inputs, history
<1>3. CASE StartRun \/ Gate \/ Approve \/ Refuse
  BY <1>3 DEF StartRun, Gate, Approve, Refuse, inputs, history
<1>4. CASE RevalidateUnchanged \/ RevalidateChanged \/ RejectResult \/ FinalResult
           \/ StopAfterFailure \/ AwaitRaises
  BY <1>4 DEF RevalidateUnchanged, RevalidateChanged, RejectResult, FinalResult,
              StopAfterFailure, AwaitRaises, inputs, history
<1>5. CASE RetryAttempt \/ EscalateAttempt
  BY <1>5 DEF RetryAttempt, EscalateAttempt, inputs
<1> QED
  BY <1>1, <1>2, <1>3, <1>4, <1>5 DEF Next, Service, Caller, Finished

LEMMA HistoryFrame ==
  ASSUME HistoryIsClean, UNCHANGED <<policy, call, invocations>>
  PROVE  HistoryIsClean'
<1>1. ApprovedAsShown'
  BY DEF HistoryIsClean, ApprovedAsShown, Confirms
<1>2. BoundedForwardWalk'
  BY DEF HistoryIsClean, BoundedForwardWalk
<1> QED
  BY <1>1, <1>2 DEF HistoryIsClean

LEMMA InvokeKeepsHistory ==
  ASSUME TypeOK, LoopInv, HistoryIsClean, InvokeAdapter
  PROVE  HistoryIsClean'
<1> DEFINE n == Len(invocations)
           older == total_attempts - same_step_retries
           R == policy.max_same_step_retries
<1>1. /\ pc = "execute" /\ pc \in InLoop
      /\ UNCHANGED <<inputs, plan, approved>>
  BY DEF InvokeAdapter, InLoop
<1>2. /\ n \in Nat /\ n = total_attempts
      /\ DOMAIN invocations = 1..n
      /\ DOMAIN invocations' = 1..(n + 1) /\ Len(invocations') = n + 1
      /\ \A i \in 1..n : invocations'[i] = invocations[i]
      /\ invocations'[n + 1].plan = plan
      /\ invocations'[n + 1].approved = approved
  BY InvokedHistory DEF LoopInv
<1>3. /\ plan \in Plan /\ plan.escalation_index \in Nat
      /\ n < policy.max_attempts /\ policy.max_attempts \in Nat
      /\ R \in Nat /\ same_step_retries \in Nat
      /\ same_step_retries <= R /\ same_step_retries <= n
      /\ plan.step = IF plan.escalation_index = 0
                       THEN plan.initial ELSE plan.path[plan.escalation_index]
  BY <1>1, <1>2, PolicyType DEF LoopInv, LoopBookkeeping, TypeOK, Plan
<1>4. /\ \A i \in 1..n : invocations[i].plan.escalation_index =
                           plan.escalation_index <=> i > older
      /\ older > 0 =>
           invocations[older].plan.escalation_index = plan.escalation_index - 1
      /\ older = 0 => plan.escalation_index = 0
  BY <1>1, <1>2 DEF LoopInv, StepsOfHistory
<1>5. older \in Nat /\ older <= n /\ n - R <= older
  BY <1>2, <1>3
<1>6. ApprovedAsShown'
  <2> SUFFICES ASSUME NEW i \in 1..(n + 1),
                      RequiresConfirmation(policy, call.low_risk, FALSE,
                        invocations'[i].plan.escalation_index > 0)
               PROVE  invocations'[i].approved = Material(invocations'[i].plan)
    BY <1>1, <1>2 DEF ApprovedAsShown, Confirms, inputs
  <2>1. CASE i = n + 1
    BY <2>1, <1>1, <1>2 DEF LoopInv, ApprovalIsCurrent, Confirms
  <2>2. CASE i \in 1..n
    BY <2>2, <1>2 DEF HistoryIsClean, ApprovedAsShown, Confirms
  <2> QED
    BY <2>1, <2>2, <1>2
<1>7. BoundedForwardWalk'
  <2>1. Len(invocations') <= policy.max_attempts
    BY <1>2, <1>3
  <2> HIDE DEF older, n, R
  <2>2. ASSUME NEW i \in 1..(n + 1)
        PROVE  LET p == invocations'[i].plan
               IN  /\ p.step = IF p.escalation_index = 0
                                 THEN p.initial ELSE p.path[p.escalation_index]
                   /\ i = 1 => p.escalation_index = 0
                   /\ i > 1 => p.escalation_index
                                - invocations'[i - 1].plan.escalation_index \in {0, 1}
                   /\ i > R + 1 => invocations'[i - R - 1].plan.escalation_index
                                     # p.escalation_index
    <3>1. CASE i = n + 1
      <4>1. i = 1 => plan.escalation_index = 0
        BY <3>1, <1>2, <1>4, <1>5
      <4>2. ASSUME i > 1
            PROVE  plan.escalation_index - invocations'[i - 1].plan.escalation_index \in {0, 1}
        <5>1. n \in 1..n /\ i - 1 = n /\ invocations'[n] = invocations[n]
          BY <3>1, <4>2, <1>2
        <5>2. CASE n > older
          BY <5>1, <5>2, <1>3, <1>4
        <5>3. CASE ~(n > older)
          BY <5>1, <5>3, <1>2, <1>3, <1>4, <1>5
        <5> QED
          BY <5>2, <5>3
      <4>3. ASSUME i > R + 1
            PROVE  invocations'[i - R - 1].plan.escalation_index # plan.escalation_index
        <5>1. n - R \in 1..n /\ i - R - 1 = n - R /\ ~(n - R > older)
          BY <3>1, <4>3, <1>2, <1>3, <1>5
        <5> QED
          BY <5>1, <1>2, <1>4
      <4> QED
        BY <3>1, <4>1, <4>2, <4>3, <1>2, <1>3
    <3>2. CASE i \in 1..n
      <4>1. LET p == invocations[i].plan
            IN  /\ p.step = IF p.escalation_index = 0
                              THEN p.initial ELSE p.path[p.escalation_index]
                /\ i = 1 => p.escalation_index = 0
                /\ i > 1 => p.escalation_index
                             - invocations[i - 1].plan.escalation_index \in {0, 1}
                /\ i > R + 1 => invocations[i - R - 1].plan.escalation_index
                                  # p.escalation_index
        BY <3>2, <1>2 DEF HistoryIsClean, BoundedForwardWalk, R
      <4>2. /\ invocations'[i] = invocations[i]
            /\ i > 1 => invocations'[i - 1] = invocations[i - 1]
            /\ i > R + 1 => invocations'[i - R - 1] = invocations[i - R - 1]
        BY <3>2, <1>2, <1>3
      <4> QED
        BY <4>1, <4>2
    <3> QED
      BY <3>1, <3>2, <1>2
  <2>3. policy' = policy
    BY <1>1 DEF inputs
  <2> QED
    BY <1>2, <2>1, <2>2, <2>3 DEF BoundedForwardWalk, R
<1> QED
  BY <1>6, <1>7 DEF HistoryIsClean

LEMMA NextKeepsHistory ==
  ASSUME TypeOK, LoopInv, HistoryIsClean, [Next]_vars
  PROVE  HistoryIsClean'
  BY InvokeKeepsHistory, OnlyInvokeAddsHistory, HistoryFrame

\* A plan the adapter has run stays a plan.
LEMMA PlansStay ==
  ASSUME TypeOK', [Next]_vars, plan \in Plan
  PROVE  plan' \in Plan
<1> USE DEF Nothing
<1>1. CASE plan' = plan
  BY <1>1
<1>2. CASE plan' # plan
  <2>1. BuildPlan \/ RetryAttempt \/ EscalateAttempt
    BY <1>2 DEF Next, Service, Caller, Finished, vars, NoLatestContext, LatestContext,
       CaptureMissingContext, CaptureStaleContext, StartRun, Gate, Approve, Refuse,
       RevalidateUnchanged, RevalidateChanged, InvokeAdapter, RejectResult, FinalResult,
       StopAfterFailure, AwaitRaises
  <2>2. "step" \in DOMAIN plan'
    BY <1>2, <2>1 DEF BuildPlan, RetryAttempt, EscalateAttempt, Retried, Escalated, Plan
  <2> QED
    BY <2>2 DEF TypeOK
<1> QED
  BY <1>1, <1>2

LEMMA NextKeepsTerms ==
  ASSUME TypeOK, TypeOK', LoopInv, RanAsAllowed, [Next]_vars
  PROVE  RanAsAllowed'
<1>1. CASE InvokeAdapter
  <2>1. /\ UNCHANGED <<policy, call, plan>>
        /\ plan \in Plan /\ ~call.dry_run /\ Allowed(policy, FALSE)
    BY <1>1 DEF InvokeAdapter, LoopInv, LoopBookkeeping, InLoop, inputs
  <2> QED
    BY <2>1 DEF RanAsAllowed, Allowed
<1>2. CASE ~InvokeAdapter
  BY <1>2, OnlyInvokeAddsHistory, PlansStay DEF RanAsAllowed
<1> QED
  BY <1>1, <1>2

-----------------------------------------------------------------------------
(***************************************************************************)
(* The theorems.                                                           *)
(***************************************************************************)
LEMMA InitIInv == Init => IInv
<1> SUFFICES ASSUME Init PROVE IInv
  OBVIOUS
<1>1. TypeOK
  BY InitTypeOK
<1>2. NothingRunYet /\ LoopBookkeeping /\ StepsOfHistory /\ ApprovalIsCurrent
  BY DEF Init, NothingRunYet, LoopBookkeeping, StepsOfHistory, ApprovalIsCurrent,
         Waiting, InLoop
<1>3. invocations = <<>> /\ DOMAIN invocations = {} /\ Len(invocations) = 0
  BY DEF Init
<1>4. HistoryIsClean
  BY <1>1, <1>3, PolicyType DEF HistoryIsClean, ApprovedAsShown, BoundedForwardWalk
<1>5. RanAsAllowed
  BY <1>3 DEF RanAsAllowed
<1> QED
  BY <1>1, <1>2, <1>4, <1>5 DEF IInv

LEMMA NextIInv == IInv /\ [Next]_vars => IInv'
<1> SUFFICES ASSUME IInv, [Next]_vars PROVE IInv'
  OBVIOUS
<1>1. TypeOK /\ LoopInv /\ HistoryIsClean /\ RanAsAllowed
  BY DEF IInv, LoopInv
<1>2. TypeOK'
  BY <1>1, NextTypes DEF LoopInv
<1>3. LoopInv' /\ HistoryIsClean' /\ RanAsAllowed'
  BY <1>1, <1>2, NextKeepsLoop, NextKeepsHistory, NextKeepsTerms
<1> QED
  BY <1>2, <1>3 DEF IInv, LoopInv

\* The inductive invariant: the plan, the counters, the approval and the history of
\* adapter calls agree at every point of create_plan and run_plan.
THEOREM Consistent == Spec => []IInv
  BY InitIInv, NextIInv, PTL DEF Spec

\* Every variable keeps its type: in particular the planner only ever produces plans,
\* and every returned result is an ExecutionResult.
THEOREM TypeCorrect == Spec => []TypeOK
<1>1. IInv => TypeOK
  BY DEF IInv
<1> QED
  BY <1>1, Consistent, PTL

\* Whatever the policy wants confirmed has been confirmed as shown: at every call of
\* the adapter the last approval names the very model, effort, provider, escalation
\* step and quota context it is called with.
THEOREM ApprovalIsForThePlan == Spec => []ApprovedAsShown
<1>1. IInv => ApprovedAsShown
  BY DEF IInv, HistoryIsClean
<1> QED
  BY <1>1, Consistent, PTL

\* The retry/escalate loop is finite and goes forward only, for every strict policy
\* and every path the router may recommend.
THEOREM LoopIsBounded == Spec => []BoundedForwardWalk
<1>1. IInv => BoundedForwardWalk
  BY DEF IInv, HistoryIsClean
<1> QED
  BY <1>1, Consistent, PTL

-----------------------------------------------------------------------------
(***************************************************************************)
(* The refinement: every step of create_plan and run_plan is a step of     *)
(* BoundedExecution or invisible to it.                                    *)
(***************************************************************************)
\* What the mapped phase is at each place of the coroutine.
LEMMA PhaseOf ==
  /\ pc \in Waiting => PromisedPhase = "planning"
  /\ pc \in InLoop \ {"adapter"} => PromisedPhase = "ready"
  /\ pc = "adapter" => PromisedPhase = "running"
  /\ pc = "done" => PromisedPhase = "over"
  BY DEF PromisedPhase, Waiting, InLoop

\* The mapped ledger has one entry per adapter call.
LEMMA LedgerOf ==
  ASSUME TypeOK
  PROVE  /\ PromisedLedger \in Seq(Nat)
         /\ Len(PromisedLedger) = Len(invocations)
         /\ \A i \in 1..Len(invocations) :
              PromisedLedger[i] = invocations[i].plan.escalation_index
<1>1. /\ invocations \in Seq(Invocation)
      /\ DOMAIN invocations = 1..Len(invocations) /\ Len(invocations) \in Nat
  BY DEF TypeOK
<1>2. \A i \in 1..Len(invocations) : invocations[i].plan.escalation_index \in Nat
  BY <1>1, InvocationFields
<1> QED
  BY <1>1, <1>2 DEF PromisedLedger

LEMMA InitKeepsPromise == Init => Promise!PromiseInit
<1> SUFFICES ASSUME Init PROVE Promise!PromiseInit
  OBVIOUS
<1>1. pc \in Waiting /\ plan = Nothing /\ approved = Nothing /\ invocations = <<>>
  BY DEF Init, Waiting
<1>2. PromisedLedger = <<>>
  BY <1>1, InitTypeOK, LedgerOf
<1> QED
  BY <1>1, <1>2, PhaseOf
     DEF Promise!PromiseInit, PromisedRoute, PromisedConsent, Promise!Unasked

\* A step that ends the run, whatever the reason, is the promise's giving up.
LEMMA EndingKeepsPromise ==
  ASSUME pc # "done", pc' = "done", TypeOK,
         UNCHANGED <<policy, call, plan, approved, invocations>>
  PROVE  Promise!GiveUpOrFinish
<1>1. PromisedPhase # "over" /\ PromisedPhase' = "over"
  BY DEF PromisedPhase, Waiting
<1>2. UNCHANGED <<PromisedTerms, PromisedRoute, PromisedConsent, PromisedLedger>>
  BY DEF PromisedTerms, PromisedRoute, PromisedConsent, PromisedLedger
<1> QED
  BY <1>1, <1>2 DEF Promise!GiveUpOrFinish

\* A step the promise does not see.
LEMMA QuietStepKeepsPromise ==
  ASSUME UNCHANGED <<policy, call, plan, approved, invocations>>,
         PromisedPhase' = PromisedPhase
  PROVE  UNCHANGED Promise!promiseVars
  BY DEF Promise!promiseVars, PromisedTerms, PromisedRoute, PromisedConsent, PromisedLedger

LEMMA PlanningKeepsPromise ==
  ASSUME TypeOK,
         NoLatestContext \/ LatestContext \/ CaptureMissingContext \/ CaptureStaleContext
  PROVE  [Promise!PromiseNext]_(Promise!promiseVars)
<1>1. UNCHANGED <<policy, call, plan, approved, invocations>>
  BY DEF NoLatestContext, LatestContext, CaptureMissingContext, CaptureStaleContext,
         PlanningUnchanged, inputs, history
<1>2. pc \in Waiting
  BY DEF NoLatestContext, LatestContext, CaptureMissingContext, CaptureStaleContext, Waiting
<1>3. pc' \in Waiting \cup {"done"}
  BY DEF NoLatestContext, LatestContext, CaptureMissingContext, CaptureStaleContext,
         WithContext, Raise, Waiting
<1>4. CASE pc' = "done"
  <2>1. pc # "done"
    BY <1>2 DEF Waiting
  <2> QED
    BY <1>1, <1>4, <2>1, EndingKeepsPromise DEF Promise!PromiseNext
<1>5. CASE pc' \in Waiting
  <2>1. PromisedPhase' = PromisedPhase
    BY <1>2, <1>5 DEF PromisedPhase, Waiting
  <2>2. UNCHANGED Promise!promiseVars
    BY <1>1, <2>1, QuietStepKeepsPromise
  <2> QED
    BY <2>2
<1> QED
  BY <1>3, <1>4, <1>5

LEMMA BuildPlanKeepsPromise ==
  ASSUME TypeOK, TypeOK', BuildPlan
  PROVE  Promise!PromiseNext
<1>1. /\ pc = "build" /\ UNCHANGED <<policy, call, approved, invocations>>
      /\ \/ pc' = "done" /\ UNCHANGED plan
         \/ pc' = "planned"
  BY DEF BuildPlan, Raise, PlanningUnchanged, inputs, history
<1>2. CASE pc' = "done" /\ UNCHANGED plan
  BY <1>1, <1>2, EndingKeepsPromise DEF Promise!PromiseNext
<1>3. CASE pc' = "planned"
  <2>1. PromisedPhase = "planning" /\ PromisedPhase' = "planning"
    BY <1>1, <1>3 DEF PromisedPhase, Waiting
  <2>2. PromisedRoute' \in Nat
    <3>1. plan' = Nothing \/ plan' \in Plan
      BY DEF TypeOK
    <3>2. plan' \in Plan => Len(plan'.path) \in Nat
      BY DEF Plan
    <3> QED
      BY <3>1, <3>2 DEF PromisedRoute
  <2>3. UNCHANGED <<PromisedTerms, PromisedConsent, PromisedLedger>>
    BY <1>1 DEF PromisedTerms, PromisedConsent, PromisedLedger
  <2> QED
    BY <2>1, <2>2, <2>3 DEF Promise!PromiseNext, Promise!FixRoute
<1> QED
  BY <1>1, <1>2, <1>3

LEMMA StartRunKeepsPromise ==
  ASSUME TypeOK, StartRun
  PROVE  Promise!PromiseNext
<1>1. /\ pc = "planned" /\ UNCHANGED <<policy, call, plan, approved, invocations>>
      /\ pc' \in {"done", "gate"}
  BY DEF StartRun, Raise, NotStarted, Return, inputs, history
<1>2. CASE pc' = "done"
  BY <1>1, <1>2, EndingKeepsPromise DEF Promise!PromiseNext
<1>3. CASE pc' = "gate"
  <2>1. PromisedPhase = "planning" /\ PromisedPhase' = "ready"
    BY <1>1, <1>3 DEF PromisedPhase, Waiting
  <2>2. UNCHANGED <<PromisedTerms, PromisedRoute, PromisedConsent, PromisedLedger>>
    BY <1>1 DEF PromisedTerms, PromisedRoute, PromisedConsent, PromisedLedger
  <2> QED
    BY <2>1, <2>2 DEF Promise!PromiseNext, Promise!AcceptPlan
<1> QED
  BY <1>1, <1>2, <1>3

\* The gate and the live revalidation are invisible unless they end the run.
LEMMA ChecksKeepPromise ==
  ASSUME TypeOK, Gate \/ Refuse \/ RevalidateUnchanged \/ RevalidateChanged
  PROVE  [Promise!PromiseNext]_(Promise!promiseVars)
<1>1. /\ UNCHANGED <<policy, call, plan, approved, invocations>>
      /\ pc \in {"gate", "approval", "revalidate"}
  BY DEF Gate, Refuse, RevalidateUnchanged, RevalidateChanged, inputs, history
<1>2. pc' \in {"approval", "revalidate", "execute", "done"}
  <2>1. CASE Gate
    BY <2>1, GateOutcome DEF NotStarted, Return
  <2>2. CASE Refuse \/ RevalidateUnchanged \/ RevalidateChanged
    BY <2>2 DEF Refuse, RevalidateUnchanged, RevalidateChanged, NotStarted, Return
  <2> QED
    BY <2>1, <2>2
<1>3. CASE pc' = "done"
  BY <1>1, <1>3, EndingKeepsPromise DEF Promise!PromiseNext
<1>4. CASE pc' # "done"
  <2>1. PromisedPhase' = PromisedPhase
    BY <1>1, <1>2, <1>4 DEF PromisedPhase, Waiting
  <2> QED
    BY <1>1, <2>1, QuietStepKeepsPromise
<1> QED
  BY <1>3, <1>4

LEMMA ApproveKeepsPromise ==
  ASSUME TypeOK, LoopInv, Approve
  PROVE  Promise!Consent
<1>1. /\ pc = "approval" /\ pc' = "revalidate" /\ approved' = Material(plan)
      /\ UNCHANGED <<policy, call, plan, invocations>>
  BY DEF Approve, Cleared, inputs
<1>2. /\ plan \in Plan /\ plan.escalation_index <= Len(plan.path)
  BY <1>1 DEF LoopInv, LoopBookkeeping, InLoop
<1>3. /\ plan.escalation_index \in Nat /\ Len(plan.path) \in Nat
      /\ plan # Nothing
  BY <1>2 DEF Plan, Nothing
<1>4. PromisedPhase = "ready" /\ PromisedPhase' = "ready"
  BY <1>1 DEF PromisedPhase, Waiting
<1>5. PromisedConsent' = plan.escalation_index
  <2>1. Material(plan).index = plan.escalation_index
    BY DEF Material
  <2>2. Material(plan) # Nothing
    <3>1. "index" \in DOMAIN Material(plan) /\ "index" \notin DOMAIN Nothing
      BY DEF Material, Nothing
    <3> QED
      BY <3>1
  <2> QED
    BY <1>1, <2>1, <2>2 DEF PromisedConsent
<1>6. plan.escalation_index \in 0..PromisedRoute
  BY <1>2, <1>3 DEF PromisedRoute
<1>7. UNCHANGED <<PromisedTerms, PromisedRoute, PromisedPhase, PromisedLedger>>
  BY <1>1, <1>4 DEF PromisedTerms, PromisedRoute, PromisedLedger
<1> QED
  BY <1>4, <1>5, <1>6, <1>7 DEF Promise!Consent

\* Starting the adapter is starting the agent, at the escalation step of the plan:
\* the promised position is reachable, not exhausted, and consented to.
LEMMA InvokeKeepsPromise ==
  ASSUME TypeOK, LoopInv, InvokeAdapter
  PROVE  Promise!StartAgent
<1> DEFINE n == Len(invocations)
           older == total_attempts - same_step_retries
           R == policy.max_same_step_retries
           position == plan.escalation_index
<1>1. /\ pc = "execute" /\ pc' = "adapter" /\ pc \in InLoop
      /\ UNCHANGED <<policy, call, plan, approved>>
  BY DEF InvokeAdapter, InLoop, inputs
<1>2. /\ n \in Nat /\ n = total_attempts
      /\ DOMAIN invocations = 1..n
      /\ DOMAIN invocations' = 1..(n + 1) /\ Len(invocations') = n + 1
      /\ \A i \in 1..n : invocations'[i] = invocations[i]
      /\ invocations'[n + 1].plan = plan
  BY InvokedHistory DEF LoopInv
<1>3. /\ plan \in Plan /\ position \in Nat /\ Len(plan.path) \in Nat
      /\ position <= Len(plan.path) /\ plan # Nothing
      /\ n < policy.max_attempts /\ policy.max_attempts \in Nat
      /\ R \in Nat /\ same_step_retries \in Nat
      /\ same_step_retries <= R /\ same_step_retries <= n
      /\ ~call.dry_run /\ Allowed(policy, FALSE)
  <2>1. /\ plan \in Plan /\ position <= Len(plan.path)
        /\ n < policy.max_attempts /\ same_step_retries <= R /\ same_step_retries <= n
        /\ ~call.dry_run /\ Allowed(policy, FALSE)
    BY <1>1, <1>2 DEF LoopInv, LoopBookkeeping
  <2>2. policy.max_attempts \in Nat /\ R \in Nat /\ same_step_retries \in Nat
    BY PolicyType DEF TypeOK
  <2>3. position \in Nat /\ Len(plan.path) \in Nat /\ plan # Nothing
    BY <2>1 DEF Plan, Nothing
  <2> QED
    BY <2>1, <2>2, <2>3
<1>4. /\ \A i \in 1..n : invocations[i].plan.escalation_index = position <=> i > older
      /\ older > 0 =>
           /\ invocations[older].plan.escalation_index = position - 1
           /\ policy.allow_escalation
      /\ older = 0 => position = 0
  BY <1>1, <1>2 DEF LoopInv, StepsOfHistory
<1>5. older \in Nat /\ older <= n /\ n - R <= older
  BY <1>2, <1>3
<1>6. /\ PromisedLedger \in Seq(Nat) /\ Len(PromisedLedger) = n
      /\ \A i \in 1..n : PromisedLedger[i] = invocations[i].plan.escalation_index
  BY LedgerOf
<1>7. PromisedLedger' = Append(PromisedLedger, position)
  <2>1. PromisedLedger' = [ i \in 1..(n + 1) |-> invocations'[i].plan.escalation_index ]
    BY <1>2 DEF PromisedLedger
  <2>2. \A i \in 1..(n + 1) : invocations'[i].plan.escalation_index =
                              Append(PromisedLedger, position)[i]
    BY <1>2, <1>3, <1>6
  <2>3. /\ Append(PromisedLedger, position) \in Seq(Nat)
        /\ Append(PromisedLedger, position) =
             [ i \in 1..(n + 1) |-> Append(PromisedLedger, position)[i] ]
    BY <1>2, <1>3, <1>6
  <2> QED
    BY <2>1, <2>2, <2>3
<1>8. /\ PromisedTerms.max_attempts = policy.max_attempts
      /\ PromisedTerms.max_same_step_retries = R
      /\ PromisedTerms.allow_escalation = policy.allow_escalation
      /\ PromisedRoute = Len(plan.path)
  BY <1>3 DEF PromisedTerms, PromisedRoute
<1>9. PromisedTerms.may_run
  BY <1>3 DEF PromisedTerms, Allowed
<1>10. Promise!Reachable(position)
  <2>1. CASE n = 0
    BY <2>1, <1>4, <1>5, <1>6 DEF Promise!Reachable
  <2>2. CASE n > older
    BY <2>2, <1>2, <1>4, <1>5, <1>6 DEF Promise!Reachable, Promise!LastPosition
  <2>3. CASE n = older /\ n # 0
    BY <2>3, <1>2, <1>3, <1>4, <1>5, <1>6, <1>8 DEF Promise!Reachable, Promise!LastPosition
  <2> QED
    BY <2>1, <2>2, <2>3, <1>2, <1>5
<1>11. ~Promise!Exhausted(position)
  <2> SUFFICES ASSUME n > R PROVE PromisedLedger[n - R] # position
    BY <1>6, <1>8 DEF Promise!Exhausted
  <2>1. n - R \in 1..n /\ ~(n - R > older)
    BY <1>2, <1>3, <1>5
  <2> QED
    BY <2>1, <1>4, <1>6
<1>12. Promise!NeedsConsent(position) => PromisedConsent = position
  <2> SUFFICES ASSUME Promise!NeedsConsent(position) PROVE PromisedConsent = position
    OBVIOUS
  <2>1. Confirms(plan)
    BY <1>3 DEF Promise!NeedsConsent, PromisedTerms, Confirms, RequiresConfirmation, Allowed
  <2>2. approved = Material(plan)
    BY <1>1, <2>1 DEF LoopInv, ApprovalIsCurrent
  <2> QED
    BY <2>2 DEF PromisedConsent, Material, Nothing
<1>13. PromisedPhase = "ready" /\ PromisedPhase' = "running"
  BY <1>1 DEF PromisedPhase, Waiting
<1>14. UNCHANGED <<PromisedTerms, PromisedRoute, PromisedConsent>>
  BY <1>1 DEF PromisedTerms, PromisedRoute, PromisedConsent
<1>15. position \in 0..PromisedRoute /\ Len(PromisedLedger) < PromisedTerms.max_attempts
  BY <1>3, <1>6, <1>8
<1> HIDE DEF n, older, R, position
<1> QED
  BY <1>7, <1>9, <1>10, <1>11, <1>12, <1>13, <1>14, <1>15 DEF Promise!StartAgent

\* An answer that another attempt follows is the agent answering, whether the plan
\* stays at its step or moves on; the path it moves on is the accepted one.
LEMMA ContinueKeepsPromise ==
  ASSUME TypeOK, LoopInv, RetryAttempt \/ EscalateAttempt
  PROVE  Promise!PromiseNext
<1>1. /\ pc = "adapter" /\ pc \in InLoop
      /\ UNCHANGED <<policy, call, approved, invocations>>
  BY DEF RetryAttempt, EscalateAttempt, InLoop, inputs
<1>2. plan \in Plan /\ context \in Contexts
  BY <1>1 DEF LoopInv, LoopBookkeeping
<1>3. \/ pc' = "done" /\ UNCHANGED plan
      \/ pc' = "gate" /\ plan' \in Plan /\ plan'.path = plan.path
  <2>1. CASE RetryAttempt
    BY <2>1, <1>2, RetriedPlan DEF RetryAttempt, Raise
  <2>2. CASE EscalateAttempt
    <3>1. plan.escalation_index < Len(plan.path)
      BY <2>2, EscalationIsBounded DEF EscalateAttempt, PathLeft
    <3> DEFINE confirm == RequiresConfirmation(policy, call.low_risk, FALSE, TRUE)
    <3>2. confirm \in BOOLEAN
      BY ConfirmationType DEF TypeOK, Call
    <3>3. \/ pc' = "done" /\ UNCHANGED plan
          \/ pc' = "gate" /\ plan' = Escalated(plan, context, confirm)
      BY <2>2 DEF EscalateAttempt, Raise
    <3> HIDE DEF confirm
    <3>4. /\ Escalated(plan, context, confirm) \in Plan
          /\ Escalated(plan, context, confirm).path = plan.path
      BY <3>1, <3>2, <1>2, EscalatedPlan
    <3> QED
      BY <3>3, <3>4
  <2> QED
    BY <2>1, <2>2
<1>4. CASE pc' = "done" /\ UNCHANGED plan
  BY <1>1, <1>4, EndingKeepsPromise DEF Promise!PromiseNext
<1>5. CASE pc' = "gate" /\ plan' \in Plan /\ plan'.path = plan.path
  <2>1. plan # Nothing /\ plan' # Nothing
    <3>1. \A p \in Plan : p # Nothing
      BY DEF Plan, Nothing
    <3> QED
      BY <1>2, <1>5, <3>1
  <2>2. PromisedPhase = "running" /\ PromisedPhase' = "ready"
    BY <1>1, <1>5 DEF PromisedPhase, Waiting
  <2>3. UNCHANGED <<PromisedTerms, PromisedRoute, PromisedConsent, PromisedLedger>>
    BY <1>1, <1>5, <2>1 DEF PromisedTerms, PromisedRoute, PromisedConsent, PromisedLedger
  <2> QED
    BY <2>2, <2>3 DEF Promise!PromiseNext, Promise!AgentAnswers
<1> QED
  BY <1>3, <1>4, <1>5

\* Any other end of a run.
LEMMA EndKeepsPromise ==
  ASSUME TypeOK, RejectResult \/ FinalResult \/ StopAfterFailure \/ AwaitRaises
  PROVE  Promise!PromiseNext
<1>1. /\ UNCHANGED <<policy, call, plan, approved, invocations>>
      /\ pc \in Awaiting
  BY DEF RejectResult, FinalResult, StopAfterFailure, AwaitRaises, Awaiting, inputs, history
<1>2. pc # "done"
  BY <1>1 DEF Awaiting
<1>3. pc' = "done"
  BY DEF RejectResult, FinalResult, StopAfterFailure, AwaitRaises, NotStarted, Return, Raise
<1> QED
  BY <1>1, <1>2, <1>3, EndingKeepsPromise DEF Promise!PromiseNext

LEMMA NextKeepsPromise ==
  ASSUME IInv, TypeOK', [Next]_vars
  PROVE  [Promise!PromiseNext]_(Promise!promiseVars)
<1>1. TypeOK /\ LoopInv
  BY DEF IInv, LoopInv
<1>2. CASE UNCHANGED vars
  <2>1. UNCHANGED <<policy, call, plan, approved, invocations>> /\ pc' = pc
    BY <1>2 DEF vars, inputs, history
  <2>2. PromisedPhase' = PromisedPhase
    BY <2>1 DEF PromisedPhase, Waiting
  <2>3. UNCHANGED Promise!promiseVars
    BY <2>1, <2>2, QuietStepKeepsPromise
  <2> QED
    BY <2>3
<1>3. CASE NoLatestContext \/ LatestContext \/ CaptureMissingContext \/ CaptureStaleContext
  BY <1>1, <1>3, PlanningKeepsPromise
<1>4. CASE Gate \/ Refuse \/ RevalidateUnchanged \/ RevalidateChanged
  BY <1>1, <1>4, ChecksKeepPromise
<1>5. CASE BuildPlan \/ StartRun \/ RetryAttempt \/ EscalateAttempt \/ RejectResult
           \/ FinalResult \/ StopAfterFailure \/ AwaitRaises
  BY <1>1, <1>5, BuildPlanKeepsPromise, StartRunKeepsPromise, ContinueKeepsPromise,
     EndKeepsPromise
<1>6. CASE Approve \/ InvokeAdapter
  BY <1>1, <1>6, ApproveKeepsPromise, InvokeKeepsPromise DEF Promise!PromiseNext
<1> QED
  BY <1>2, <1>3, <1>4, <1>5, <1>6 DEF Next, Service, Caller, Finished

\* create_plan and run_plan implement the promise: an agent is only ever started under
\* terms that allow it, with consent for the very escalation position, at most
\* max_attempts times in all and max_same_step_retries + 1 times per position, one
\* position at a time, whatever captures, answers, results and exceptions do.
THEOREM ServiceKeepsPromise == Spec => KeepsPromise
<1>1. Init => Promise!PromiseInit
  BY InitKeepsPromise
<1>2. IInv /\ IInv' /\ [Next]_vars => [Promise!PromiseNext]_(Promise!promiseVars)
  BY NextKeepsPromise DEF IInv
<1> QED
  BY <1>1, <1>2, Consistent, PTL DEF Spec, KeepsPromise, Promise!PromiseSpec

-----------------------------------------------------------------------------
(***************************************************************************)
(* Revalidation: what stands between the live check and the adapter, why   *)
(* the loop goes on, and the refusals that never happen rest on the        *)
(* invariant above and are no part of it.                                  *)
(***************************************************************************)

-----------------------------------------------------------------------------
(***************************************************************************)
(* The strengthening.                                                      *)
(***************************************************************************)
\* The live context the attempt runs under is the one that was found unchanged.
CheckHolds == pc \in {"execute", "adapter"} => Verdict(context) = "unchanged"

\* Retries keep the quota context of their step.
SameTerms ==
  pc \in InLoop =>
    \A i \in DOMAIN invocations :
      invocations[i].plan.escalation_index = plan.escalation_index =>
        /\ invocations[i].plan.pressure = plan.pressure
        /\ invocations[i].plan.pool = plan.pool

\* Every attempt that is over has been answered, the last one with what the policy
\* lists for the way the loop went on.
LastAnswer ==
  /\ pc \in Waiting => answers = <<>>
  /\ pc \in InLoop =>
       /\ Len(answers) = total_attempts
       /\ total_attempts > 0 =>
            answers[total_attempts] \in IF same_step_retries > 0
                                        THEN policy.retryable_failures
                                        ELSE policy.escalation_failures

\* Nothing is returned or raised before the end.
NotOver == pc # "done" => raised = "none" /\ result = Nothing

RInv ==
  /\ CheckHolds /\ SameTerms /\ LastAnswer /\ NotOver
  /\ RevalidatedAttempts /\ ContinuesOnlyAsConfigured /\ NoInternalRefusal

-----------------------------------------------------------------------------
(***************************************************************************)
(* Facts about single steps.                                               *)
(***************************************************************************)
\* The lists of a strict policy name nothing that is forbidden.
LEMMA ListsAreAllowed ==
  ASSUME TypeOK
  PROVE  /\ policy.retryable_failures \cap Forbidden = {}
         /\ policy.escalation_failures \cap Forbidden = {}
<1>1. policy \in ExecutionPolicy
  BY PoliciesAreStrict DEF TypeOK
<1> QED
  BY <1>1 DEF ExecutionPolicy

\* The whole of the entry an adapter call adds to the history.
LEMMA InvokedEntry ==
  ASSUME TypeOK, LoopBookkeeping, InvokeAdapter
  PROVE  LET n == Len(invocations)
         IN  /\ n \in Nat /\ n = total_attempts /\ captures = n + 1
             /\ DOMAIN invocations = 1..n
             /\ DOMAIN invocations' = 1..(n + 1) /\ Len(invocations') = n + 1
             /\ \A i \in 1..n : invocations'[i] = invocations[i]
             /\ invocations'[n + 1].plan = plan
             /\ invocations'[n + 1].context = context
             /\ invocations'[n + 1].captures = captures
<1> DEFINE x == [ plan |-> plan, approved |-> approved, context |-> context,
                  captures |-> captures ]
<1>1. /\ plan \in Plan /\ context \in Contexts /\ Len(invocations) = total_attempts + 0
      /\ captures = total_attempts + 1
  BY DEF LoopBookkeeping, InvokeAdapter, InLoop
<1>2. x \in Invocation
  BY <1>1, InvocationType
<1>3. x.plan = plan /\ x.context = context /\ x.captures = captures
  OBVIOUS
<1>4. invocations \in Seq(Invocation) /\ total_attempts \in Nat
  BY DEF TypeOK
<1>5. invocations' = Append(invocations, x)
  BY DEF InvokeAdapter
<1> HIDE DEF x
<1> QED
  BY <1>1, <1>2, <1>3, <1>4, <1>5, AppendedSequence

\* Only an adapter call that ends is answered.
LEMMA OnlyAdapterAnswers ==
  ASSUME [Next]_vars
  PROVE  \/ UNCHANGED answers
         \/ /\ pc = "adapter" /\ UNCHANGED invocations
            /\ \E f \in FailureClass \cup {NoFailure} : answers' = Append(answers, f)
<1>1. CASE UNCHANGED vars
  BY <1>1 DEF vars, history
<1>2. CASE NoLatestContext \/ LatestContext \/ CaptureMissingContext \/ CaptureStaleContext
           \/ BuildPlan
  BY <1>2 DEF NoLatestContext, LatestContext, CaptureMissingContext, CaptureStaleContext,
              BuildPlan, PlanningUnchanged, history
<1>3. CASE StartRun \/ Gate \/ Approve \/ Refuse \/ RevalidateUnchanged
           \/ RevalidateChanged \/ InvokeAdapter \/ AwaitRaises
  BY <1>3 DEF StartRun, Gate, Approve, Refuse, RevalidateUnchanged, RevalidateChanged,
              InvokeAdapter, AwaitRaises, history
<1>4. CASE RejectResult
  BY <1>4 DEF RejectResult, FailureClass
<1>5. CASE FinalResult
  BY <1>5 DEF FinalResult, FailureClass
<1>6. CASE RetryAttempt \/ EscalateAttempt \/ StopAfterFailure
  BY <1>6 DEF RetryAttempt, EscalateAttempt, StopAfterFailure, AdapterFailures
<1> QED
  BY <1>1, <1>2, <1>3, <1>4, <1>5, <1>6 DEF Next, Service, Caller, Finished

\* The loop is entered by the start of a plan nothing has been run of yet.
LEMMA LoopIsEnteredByStart ==
  ASSUME [Next]_vars, pc \notin InLoop, pc' \in InLoop
  PROVE  StartRun /\ pc = "planned" /\ UNCHANGED <<counters, history>>
  BY DEF Next, Service, Caller, Finished, vars, NoLatestContext, LatestContext,
         CaptureMissingContext, CaptureStaleContext, WithContext, BuildPlan, StartRun, Gate,
         Approve, Refuse, RevalidateUnchanged, RevalidateChanged, InvokeAdapter,
         RejectResult, FinalResult, RetryAttempt, EscalateAttempt, StopAfterFailure,
         AwaitRaises, InLoop, Raise

\* Only a retry and an escalation change the plan of a run.
LEMMA OnlyContinuingReplans ==
  ASSUME [Next]_vars, pc \in InLoop, ~RetryAttempt, ~EscalateAttempt
  PROVE  UNCHANGED plan
  BY DEF Next, Service, Caller, Finished, vars, NoLatestContext, LatestContext,
         CaptureMissingContext, CaptureStaleContext, BuildPlan, StartRun, Gate, Approve,
         Refuse, RevalidateUnchanged, RevalidateChanged, InvokeAdapter, RejectResult,
         FinalResult, StopAfterFailure, AwaitRaises, InLoop

\* Every other step inside the loop leaves the attempts and their answers alone.
LEMMA QuietInLoop ==
  ASSUME [Next]_vars, pc \in InLoop, pc' \in InLoop, ~RetryAttempt, ~EscalateAttempt
  PROVE  UNCHANGED <<policy, total_attempts, same_step_retries, answers>>
<1>1. CASE UNCHANGED vars
  BY <1>1 DEF vars, inputs, counters, history
<1>2. CASE \/ RejectResult \/ FinalResult \/ StopAfterFailure \/ AwaitRaises \/ Refuse
           \/ RevalidateChanged
  <2>1. pc' = "done"
    BY <1>2 DEF RejectResult, FinalResult, StopAfterFailure, AwaitRaises, Refuse,
                RevalidateChanged, NotStarted, Return, Raise
  <2> QED
    BY <2>1 DEF InLoop
<1>3. CASE Gate \/ Approve \/ RevalidateUnchanged \/ InvokeAdapter
  BY <1>3 DEF Gate, Approve, RevalidateUnchanged, InvokeAdapter, inputs, counters, history
<1>4. ~(\/ NoLatestContext \/ LatestContext \/ CaptureMissingContext
        \/ CaptureStaleContext \/ BuildPlan \/ StartRun \/ Finished)
  BY DEF NoLatestContext, LatestContext, CaptureMissingContext, CaptureStaleContext,
         BuildPlan, StartRun, Finished, InLoop
<1> QED
  BY <1>1, <1>2, <1>3, <1>4 DEF Next, Service, Caller

\* A retry keeps the quota context, too.
LEMMA RetriedTerms ==
  ASSUME NEW p \in Plan
  PROVE  Retried(p).pressure = p.pressure /\ Retried(p).pool = p.pool
  BY DEF Retried, Plan

-----------------------------------------------------------------------------
(***************************************************************************)
(* The parts, one after another.                                           *)
(***************************************************************************)
LEMMA NextKeepsCheck ==
  ASSUME CheckHolds, [Next]_vars
  PROVE  CheckHolds'
<1> USE DEF CheckHolds, Verdict, Stale, CapabilityChanged
<1>1. CASE UNCHANGED vars
  BY <1>1 DEF vars, inputs
<1>2. CASE RevalidateUnchanged
  BY <1>2 DEF RevalidateUnchanged, inputs
<1>3. CASE InvokeAdapter
  BY <1>3 DEF InvokeAdapter, inputs
<1>4. CASE ~(UNCHANGED vars) /\ ~RevalidateUnchanged /\ ~InvokeAdapter
  <2>1. pc' \notin {"execute", "adapter"}
    BY <1>4 DEF Next, Service, Caller, Finished, NoLatestContext, LatestContext,
       CaptureMissingContext, CaptureStaleContext, WithContext, BuildPlan, StartRun, Gate,
       Cleared, Approve, Refuse, RevalidateChanged, RejectResult, FinalResult,
       RetryAttempt, EscalateAttempt, StopAfterFailure, AwaitRaises, NotStarted, Return,
       Raise
  <2> QED
    BY <2>1
<1> QED
  BY <1>1, <1>2, <1>3, <1>4

\* The quota context of a step is the one of its first attempt: a retry takes it over,
\* and an escalation moves to an index the history does not know yet.
LEMMA NextKeepsSameTerms ==
  ASSUME IInv, IInv', SameTerms, [Next]_vars
  PROVE  SameTerms'
<1>1. CASE pc' \notin InLoop
  BY <1>1 DEF SameTerms
<1>2. CASE pc' \in InLoop /\ pc \notin InLoop
  <2>1. invocations' = <<>>
    BY <1>2, LoopIsEnteredByStart DEF IInv, NothingRunYet, Waiting, history
  <2> QED
    BY <2>1 DEF SameTerms
<1>3. CASE InvokeAdapter
  <2> DEFINE n == Len(invocations)
  <2>1. /\ n \in Nat /\ DOMAIN invocations = 1..n /\ DOMAIN invocations' = 1..(n + 1)
        /\ \A i \in 1..n : invocations'[i] = invocations[i]
        /\ invocations'[n + 1].plan = plan
    BY <1>3, InvokedEntry DEF IInv
  <2>2. pc \in InLoop /\ plan' = plan
    BY <1>3 DEF InvokeAdapter, InLoop
  <2>3. \A i \in 1..n : invocations[i].plan.escalation_index = plan.escalation_index =>
          /\ invocations[i].plan.pressure = plan.pressure
          /\ invocations[i].plan.pool = plan.pool
    BY <2>1, <2>2 DEF SameTerms
  <2>4. \A i \in 1..(n + 1) : i \in 1..n \/ i = n + 1
    BY <2>1
  <2> HIDE DEF n
  <2> QED
    BY <2>1, <2>2, <2>3, <2>4 DEF SameTerms
<1>4. CASE RetryAttempt /\ pc' \in InLoop
  <2>1. pc \in InLoop /\ plan \in Plan /\ plan' = Retried(plan) /\ invocations' = invocations
    BY <1>4 DEF RetryAttempt, Raise, InLoop, IInv, LoopBookkeeping
  <2>2. /\ plan'.escalation_index = plan.escalation_index
        /\ plan'.pressure = plan.pressure /\ plan'.pool = plan.pool
    BY <2>1, RetriedPlan, RetriedTerms
  <2> QED
    BY <2>1, <2>2 DEF SameTerms
<1>5. CASE EscalateAttempt /\ pc' \in InLoop
  <2>1. /\ pc' = "gate" /\ same_step_retries' = 0
        /\ Len(invocations') = total_attempts' + 0
    BY <1>5 DEF EscalateAttempt, Raise, InLoop, IInv, LoopBookkeeping
  <2>2. /\ DOMAIN invocations' = 1..Len(invocations') /\ Len(invocations') \in Nat
        /\ total_attempts' \in Nat
    BY DEF IInv, TypeOK
  <2>3. \A i \in DOMAIN invocations' :
          ~(i > total_attempts' - same_step_retries')
    BY <2>1, <2>2
  <2> QED
    BY <1>5, <2>3 DEF SameTerms, IInv, StepsOfHistory
<1>6. CASE /\ pc \in InLoop /\ pc' \in InLoop
           /\ ~InvokeAdapter /\ ~RetryAttempt /\ ~EscalateAttempt
  <2>1. UNCHANGED <<plan, invocations>>
    BY <1>6, OnlyInvokeAddsHistory, OnlyContinuingReplans
  <2> QED
    BY <1>6, <2>1 DEF SameTerms
<1> QED
  BY <1>1, <1>2, <1>3, <1>4, <1>5, <1>6

\* What the last attempt came back with is on the list of the way the loop took.
LEMMA NextKeepsLastAnswer ==
  ASSUME IInv, IInv', LastAnswer, [Next]_vars
  PROVE  LastAnswer'
<1>1. CASE pc' \in Waiting
  <2>1. pc \in Waiting /\ UNCHANGED answers
    BY <1>1 DEF Next, Service, Caller, Finished, vars, NoLatestContext, LatestContext,
       CaptureMissingContext, CaptureStaleContext, WithContext, BuildPlan, StartRun, Gate,
       Cleared, Approve, Refuse, RevalidateUnchanged, RevalidateChanged, InvokeAdapter,
       RejectResult, FinalResult, RetryAttempt, EscalateAttempt, StopAfterFailure,
       AwaitRaises, Waiting, Raise, NotStarted, Return, history, PlanningUnchanged
  <2> QED
    BY <1>1, <2>1 DEF LastAnswer, Waiting, InLoop
<1>2. CASE pc' \in InLoop /\ pc \notin InLoop
  <2>1. answers' = <<>> /\ total_attempts' = 0
    BY <1>2, LoopIsEnteredByStart DEF LastAnswer, IInv, NothingRunYet, Waiting, counters,
       history
  <2> QED
    BY <1>2, <2>1 DEF LastAnswer, Waiting, InLoop
<1>3. CASE RetryAttempt /\ pc' \in InLoop
  <2>1. PICK failure \in AdapterFailures :
          Decision(failure) = "retry" /\ answers' = Append(answers, failure)
    BY <1>3 DEF RetryAttempt
  <2>2. failure \in policy.retryable_failures
    BY <2>1 DEF Decision, NextAction, MayRetry
  <2>3. /\ total_attempts' = total_attempts + 1
        /\ same_step_retries' = same_step_retries + 1
        /\ policy' = policy /\ Len(answers) = total_attempts
    BY <1>3 DEF RetryAttempt, LastAnswer, InLoop, inputs
  <2>4. /\ answers \in Seq(FailureClass \cup {NoFailure}) /\ same_step_retries \in Nat
        /\ failure \in FailureClass \cup {NoFailure}
    BY DEF IInv, TypeOK, AdapterFailures
  <2>5. Len(answers') = total_attempts' /\ answers'[total_attempts'] = failure
    BY <2>1, <2>3, <2>4, AppendedSequence
  <2> QED
    BY <1>3, <2>2, <2>3, <2>4, <2>5 DEF LastAnswer, Waiting, InLoop
<1>4. CASE EscalateAttempt /\ pc' \in InLoop
  <2>1. PICK failure \in AdapterFailures :
          Decision(failure) = "escalate" /\ answers' = Append(answers, failure)
    BY <1>4 DEF EscalateAttempt
  <2>2. failure \in policy.escalation_failures
    BY <2>1 DEF Decision, NextAction, MayEscalate
  <2>3. /\ total_attempts' = total_attempts + 1 /\ same_step_retries' = 0
        /\ policy' = policy /\ Len(answers) = total_attempts
    BY <1>4 DEF EscalateAttempt, Raise, LastAnswer, InLoop, inputs
  <2>4. /\ answers \in Seq(FailureClass \cup {NoFailure})
        /\ failure \in FailureClass \cup {NoFailure}
    BY DEF IInv, TypeOK, AdapterFailures
  <2>5. Len(answers') = total_attempts' /\ answers'[total_attempts'] = failure
    BY <2>1, <2>3, <2>4, AppendedSequence
  <2> QED
    BY <1>4, <2>2, <2>3, <2>5 DEF LastAnswer, Waiting, InLoop
<1>5. CASE pc' \in InLoop /\ pc \in InLoop /\ ~RetryAttempt /\ ~EscalateAttempt
  BY <1>5, QuietInLoop DEF LastAnswer, Waiting, InLoop
<1>6. CASE pc' \notin Waiting /\ pc' \notin InLoop
  BY <1>6 DEF LastAnswer
<1> QED
  BY <1>1, <1>2, <1>3, <1>4, <1>5, <1>6

\* Whatever ends a run sets its outcome with the step that ends it.
LEMMA NextKeepsNotOver ==
  ASSUME NotOver, [Next]_vars
  PROVE  NotOver'
  BY DEF NotOver, Next, Service, Caller, Finished, vars, NoLatestContext, LatestContext,
     CaptureMissingContext, CaptureStaleContext, WithContext, BuildPlan, StartRun, Gate,
     Cleared, Approve, Refuse, RevalidateUnchanged, RevalidateChanged, InvokeAdapter,
     RejectResult, FinalResult, RetryAttempt, EscalateAttempt, StopAfterFailure,
     AwaitRaises, Raise, NotStarted, Return, PlanningUnchanged
-----------------------------------------------------------------------------
(***************************************************************************)
(* The three properties.                                                   *)
(***************************************************************************)
\* What is recorded of an adapter call that starts now.
LEMMA InvokeIsRevalidated ==
  ASSUME IInv, IInv', CheckHolds, SameTerms, RevalidatedAttempts, InvokeAdapter
  PROVE  RevalidatedAttempts'
<1> DEFINE n == Len(invocations)
<1>1. /\ n \in Nat /\ n = total_attempts /\ captures = n + 1
      /\ DOMAIN invocations = 1..n
      /\ DOMAIN invocations' = 1..(n + 1) /\ Len(invocations') = n + 1
      /\ \A i \in 1..n : invocations'[i] = invocations[i]
      /\ invocations'[n + 1].plan = plan
      /\ invocations'[n + 1].context = context
      /\ invocations'[n + 1].captures = captures
  BY InvokedEntry DEF IInv
<1>2. /\ pc = "execute" /\ pc \in InLoop /\ pc' = "adapter" /\ policy' = policy
      /\ plan \in Plan /\ plan.escalation_index \in Nat
  BY DEF InvokeAdapter, InLoop, inputs, IInv, LoopBookkeeping, Plan
<1>3. /\ ~QuotaChanged(policy, plan.pressure, plan.pool, context.pressure, context.pool)
      /\ ~CapabilityChanged(context)
  BY <1>2 DEF CheckHolds, Verdict
<1>4. \A i \in 1..(n + 1) : i \in 1..n \/ i = n + 1
  BY <1>1
<1>5. NoCreepingDrift'
  <2> SUFFICES ASSUME NEW i \in 1..(n + 1), NEW j \in 1..(n + 1), i <= j,
                      invocations'[i].plan.escalation_index =
                        invocations'[j].plan.escalation_index
               PROVE  ~QuotaChanged(policy, invocations'[i].plan.pressure,
                                    invocations'[i].plan.pool,
                                    invocations'[j].context.pressure,
                                    invocations'[j].context.pool)
    BY <1>1, <1>2 DEF NoCreepingDrift
  <2>1. CASE j \in 1..n
    <3>1. i \in 1..n
      BY <2>1, <1>1
    <3> QED
      BY <2>1, <3>1, <1>1 DEF RevalidatedAttempts, NoCreepingDrift
  <2>2. CASE j = n + 1 /\ i \in 1..n
    <3>1. /\ invocations[i].plan.pressure = plan.pressure
          /\ invocations[i].plan.pool = plan.pool
      BY <2>2, <1>1, <1>2 DEF SameTerms
    <3> QED
      BY <2>2, <3>1, <1>1, <1>3
  <2>3. CASE j = n + 1 /\ i = n + 1
    BY <2>3, <1>1, <1>3
  <2> QED
    BY <2>1, <2>2, <2>3, <1>4
<1>6. invocations'[1].plan.step = plan.initial
  <2>1. CASE n = 0
    <3>1. total_attempts - same_step_retries = 0
      BY <2>1, <1>1, <1>2 DEF IInv, LoopBookkeeping, TypeOK
    <3>2. plan.escalation_index = 0
      BY <1>2, <3>1 DEF IInv, StepsOfHistory
    <3> QED
      BY <2>1, <3>2, <1>1, <1>2 DEF IInv, LoopBookkeeping
  <2>2. CASE n # 0
    <3>1. 1 \in 1..n
      BY <2>2, <1>1
    <3>2. invocations[1].plan.step = invocations[1].plan.initial
      BY <3>1, <1>1 DEF IInv, HistoryIsClean, BoundedForwardWalk
    <3>3. invocations[1].plan.initial = plan.initial
      BY <3>1, <1>1, <1>2 DEF IInv, StepsOfHistory
    <3> QED
      BY <3>1, <3>2, <3>3, <1>1
  <2> QED
    BY <2>1, <2>2
<1>7. RouteStillRecommended'
  <2> SUFFICES ASSUME NEW i \in 1..(n + 1)
               PROVE  LET p == invocations'[i].plan
                          c == invocations'[i].context
                      IN  /\ c.initial = invocations'[1].plan.step
                          /\ p.step \in c.selectable
                          /\ p.escalation_index > 0 =>
                               /\ p.escalation_index <= Len(c.path)
                               /\ c.path[p.escalation_index] = p.step
    BY <1>1 DEF RouteStillRecommended
  <2>1. CASE i \in 1..n
    <3>1. 1 \in 1..n
      BY <2>1, <1>1
    <3> QED
      BY <2>1, <3>1, <1>1 DEF RevalidatedAttempts, RouteStillRecommended
  <2>2. CASE i = n + 1
    <3>1. /\ plan.step \in context.selectable /\ context.initial = plan.initial
          /\ plan.escalation_index > 0 =>
               /\ ~(plan.escalation_index > Len(context.path))
               /\ context.path[plan.escalation_index] = plan.step
      BY <1>3 DEF CapabilityChanged
    <3>2. Len(context.path) \in Nat
      BY <1>2, ContextType DEF IInv, LoopBookkeeping
    <3> QED
      BY <2>2, <3>1, <3>2, <1>1, <1>2, <1>6
  <2> QED
    BY <2>1, <2>2, <1>4
<1>8. FreshCapturePerAttempt'
  <2>1. \A i \in 1..(n + 1) : invocations'[i].captures = i
    BY <1>1, <1>4 DEF RevalidatedAttempts, FreshCapturePerAttempt
  <2> QED
    BY <1>1, <1>2, <2>1 DEF FreshCapturePerAttempt
<1> QED
  BY <1>5, <1>7, <1>8 DEF RevalidatedAttempts

LEMMA NextKeepsRevalidated ==
  ASSUME IInv, IInv', CheckHolds, SameTerms, RevalidatedAttempts, [Next]_vars
  PROVE  RevalidatedAttempts'
<1>1. CASE ~InvokeAdapter
  <2>1. UNCHANGED <<policy, invocations>>
    BY <1>1, OnlyInvokeAddsHistory
  <2>2. pc' = "approval" => captures' = Len(invocations')
    <3> SUFFICES ASSUME pc' = "approval" PROVE captures' = Len(invocations')
      OBVIOUS
    <3>1. captures' = total_attempts' + 0 /\ Len(invocations') = total_attempts' + 0
      BY DEF IInv, LoopBookkeeping, InLoop
    <3> QED
      BY <3>1
  <2>3. NoCreepingDrift' /\ RouteStillRecommended'
    BY <2>1 DEF RevalidatedAttempts, NoCreepingDrift, RouteStillRecommended
  <2> QED
    BY <2>1, <2>2, <2>3 DEF RevalidatedAttempts, FreshCapturePerAttempt
<1> QED
  BY <1>1, InvokeIsRevalidated

\* Another call is only ever made after an answer that lets the loop go on that way.
LEMMA NextKeepsContinues ==
  ASSUME IInv, LastAnswer, ContinuesOnlyAsConfigured, [Next]_vars
  PROVE  ContinuesOnlyAsConfigured'
<1> USE DEF ContinuesOnlyAsConfigured
<1>1. CASE InvokeAdapter
  <2> DEFINE n == Len(invocations)
  <2>1. /\ n \in Nat /\ n = total_attempts
        /\ DOMAIN invocations = 1..n /\ Len(invocations') = n + 1
        /\ \A i \in 1..n : invocations'[i] = invocations[i]
        /\ invocations'[n + 1].plan = plan
    BY <1>1, InvokedEntry DEF IInv
  <2>2. /\ pc \in InLoop /\ policy' = policy /\ answers' = answers
        /\ Len(answers) = n /\ DOMAIN answers = 1..n
    BY <1>1, <2>1 DEF InvokeAdapter, InLoop, inputs, LastAnswer, IInv, TypeOK
  <2>3. ASSUME NEW i \in 1..n
        PROVE  /\ answers[i] \notin Forbidden
               /\ IF invocations'[i + 1].plan.escalation_index =
                       invocations'[i].plan.escalation_index
                    THEN answers[i] \in policy.retryable_failures
                    ELSE answers[i] \in policy.escalation_failures
    <3>1. CASE i # n
      <4>1. i < n /\ i + 1 \in 1..n
        BY <2>1, <3>1
      <4> QED
        BY <2>1, <2>2, <4>1
    <3>2. CASE i = n
      <4>1. n \in 1..n /\ n > 0
        BY <3>2, <2>1
      <4>2. invocations[n].plan.escalation_index = plan.escalation_index <=>
              n > total_attempts - same_step_retries
        BY <4>1, <2>1, <2>2 DEF IInv, StepsOfHistory
      <4>3. n > total_attempts - same_step_retries <=> same_step_retries > 0
        BY <2>1 DEF IInv, TypeOK
      <4>4. answers[n] \in IF same_step_retries > 0
                           THEN policy.retryable_failures ELSE policy.escalation_failures
        BY <4>1, <2>1, <2>2 DEF LastAnswer
      <4>5. answers[n] \notin Forbidden
        BY <4>4, ListsAreAllowed DEF IInv
      <4> HIDE DEF n
      <4> QED
        BY <3>2, <4>1, <4>2, <4>3, <4>4, <4>5, <2>1
    <3> QED
      BY <3>1, <3>2
  <2> HIDE DEF n
  <2> QED
    BY <2>2, <2>3
<1>2. CASE ~InvokeAdapter /\ UNCHANGED answers
  BY <1>2, OnlyInvokeAddsHistory
<1>3. CASE ~InvokeAdapter /\ ~(UNCHANGED answers)
  <2>1. PICK f \in FailureClass \cup {NoFailure} :
          pc = "adapter" /\ UNCHANGED invocations /\ answers' = Append(answers, f)
    BY <1>3, OnlyAdapterAnswers
  <2>2. policy' = policy
    BY <1>3, OnlyInvokeAddsHistory
  <2>3. Len(invocations) = total_attempts + 1 /\ Len(answers) = total_attempts
    BY <2>1 DEF IInv, LoopBookkeeping, LastAnswer, InLoop
  <2>4. answers \in Seq(FailureClass \cup {NoFailure}) /\ total_attempts \in Nat
    BY DEF IInv, TypeOK
  <2>5. /\ DOMAIN answers' = 1..(Len(answers) + 1) /\ DOMAIN answers = 1..Len(answers)
        /\ \A i \in 1..Len(answers) : answers'[i] = answers[i]
    BY <2>1, <2>4, AppendedSequence
  <2>6. \A i \in DOMAIN answers' : i < Len(invocations) => i \in DOMAIN answers
    BY <2>3, <2>4, <2>5
  <2> QED
    BY <2>1, <2>2, <2>5, <2>6
<1> QED
  BY <1>1, <1>2, <1>3

\* The failure class of a returned outcome is the one it was built with.
LEMMA ReturnedFailure ==
  ASSUME NotOver, pc # "done", NEW status, NEW failure, NEW attempts, NEW recommended,
         NEW next_step, NEW trail,
         Return(Outcome(status, failure, attempts, recommended, next_step), trail),
         failure # "unknown"
  PROVE  NoInternalRefusal'
<1>1. result'.failure_class = failure /\ raised' = "none"
  BY DEF Return, Outcome, NotOver
<1> QED
  BY <1>1 DEF NoInternalRefusal

\* What the planner and the loop refuse is never something the service has built.
LEMMA NextKeepsRefusals ==
  ASSUME IInv, CheckHolds, NotOver, NotOver', NoInternalRefusal, [Next]_vars
  PROVE  NoInternalRefusal'
<1>1. CASE UNCHANGED vars
  BY <1>1 DEF vars, history, NoInternalRefusal
<1>2. CASE pc' # "done"
  BY <1>2 DEF NotOver, NoInternalRefusal
<1>3. CASE /\ pc' = "done"
           /\ \/ NoLatestContext \/ LatestContext \/ CaptureMissingContext
              \/ CaptureStaleContext \/ BuildPlan
  <2>1. /\ pc \in Waiting /\ pc # "done"
        /\ UNCHANGED <<result, invocations>> /\ raised' # "planning"
    BY <1>3 DEF NoLatestContext, LatestContext, CaptureMissingContext, WithContext,
       CaptureStaleContext, BuildPlan, PlanningUnchanged, history, Raise, Waiting
  <2>2. invocations' = <<>> /\ result' = Nothing
    BY <2>1 DEF IInv, NothingRunYet, NotOver
  <2> QED
    BY <2>1, <2>2 DEF NoInternalRefusal
<1>4. CASE StartRun
  <2>1. /\ pc = "planned" /\ pc \in Waiting /\ invocations' = invocations
        /\ plan.attempt_number = 1 /\ plan.escalation_index = 0
        /\ plan.max_attempts = policy.max_attempts
    BY <1>4 DEF StartRun, history, IInv, NothingRunYet, Waiting
  <2>2. CASE NotStarted("dry_run", NoFailure, <<>>)
    BY <2>1, <2>2, ReturnedFailure DEF NotStarted, NoFailure
  <2>3. CASE Raise("adapter") /\ UNCHANGED result
    BY <2>1, <2>3 DEF Raise, NoInternalRefusal
  <2>4. CASE UNCHANGED <<result, raised>>
    BY <2>1, <2>4 DEF NoInternalRefusal
  <2> QED
    BY <1>4, <2>1, <2>2, <2>3, <2>4 DEF StartRun
<1>5. CASE Gate /\ pc' = "done"
  <2>1. pc = "gate" /\ ~(total_attempts >= policy.max_attempts)
    BY <1>5, PolicyType DEF Gate, IInv, LoopBookkeeping, TypeOK, InLoop
  <2>2. \/ NotStarted("denied", NoFailure, events)
        \/ NotStarted("awaiting_approval", NoFailure, Append(events, "awaiting_approval"))
    BY <1>5, <2>1 DEF Gate, Cleared
  <2> QED
    BY <2>1, <2>2, ReturnedFailure DEF NotStarted, NoFailure
<1>6. CASE Refuse
  BY <1>6, ReturnedFailure DEF Refuse, NotStarted, NoFailure
<1>7. CASE RevalidateChanged
  <2>1. PICK status : NotStarted(status, ChangeFailure(status), events)
    BY <1>7 DEF RevalidateChanged
  <2>2. ChangeFailure(status) # "unknown" /\ pc # "done"
    BY <1>7 DEF ChangeFailure, RevalidateChanged
  <2> QED
    BY <2>1, <2>2, ReturnedFailure DEF NotStarted
<1>8. CASE RejectResult
  BY <1>8, ReturnedFailure DEF RejectResult, NotStarted
<1>9. CASE FinalResult
  <2>1. PICK answer \in {<<"succeeded", NoFailure>>, <<"cancelled", "user_cancelled">>} :
          Return(Outcome(answer[1], answer[2], total_attempts + 1, FALSE, NoStep),
                 Recorded(answer[1]))
    BY <1>9 DEF FinalResult
  <2>2. answer[2] # "unknown" /\ pc # "done"
    BY <1>9, <2>1 DEF FinalResult, NoFailure
  <2> QED
    BY <2>1, <2>2, ReturnedFailure
<1>10. CASE StopAfterFailure
  <2>1. PICK failure \in AdapterFailures :
          Return(Outcome("failed", failure, total_attempts + 1,
                         PathLeft /\ failure \in policy.escalation_failures, NextStep),
                 Recorded("failed"))
    BY <1>10 DEF StopAfterFailure
  <2>2. failure # "unknown" /\ pc # "done"
    BY <1>10 DEF StopAfterFailure, AdapterFailures
  <2> QED
    BY <2>1, <2>2, ReturnedFailure
<1>11. CASE (RetryAttempt \/ EscalateAttempt) /\ pc' = "done"
  <2>1. /\ pc = "adapter" /\ plan.attempt_number = total_attempts + 1
        /\ plan.max_attempts = policy.max_attempts
    BY <1>11 DEF RetryAttempt, EscalateAttempt, IInv, LoopBookkeeping, InLoop
  <2>2. total_attempts + 1 < policy.max_attempts
    BY <1>11, RetryIsBounded, EscalationIsBounded DEF RetryAttempt, EscalateAttempt
  <2>3. ~(plan.attempt_number >= plan.max_attempts)
    BY <2>1, <2>2, PolicyType DEF IInv, TypeOK
  <2>4. ~Stale(context)
    BY <2>1 DEF CheckHolds, Verdict
  <2> QED
    BY <1>11, <2>3, <2>4 DEF RetryAttempt, EscalateAttempt
<1>12. CASE AwaitRaises
  <2>1. /\ pc # "done" /\ raised' \in {"cancelled", "environment"}
        /\ UNCHANGED result
    BY <1>12 DEF AwaitRaises, Awaiting, Raise
  <2> QED
    BY <2>1 DEF NoInternalRefusal, NotOver
<1>13. CASE Approve \/ RevalidateUnchanged \/ InvokeAdapter
  BY <1>2, <1>13 DEF Approve, Cleared, RevalidateUnchanged, InvokeAdapter
<1> QED
  BY <1>1, <1>2, <1>3, <1>4, <1>5, <1>6, <1>7, <1>8, <1>9, <1>10, <1>11, <1>12, <1>13
     DEF Next, Service, Caller, Finished

-----------------------------------------------------------------------------
(***************************************************************************)
(* The theorems.                                                           *)
(***************************************************************************)
LEMMA InitRInv == Init => RInv
<1> SUFFICES ASSUME Init PROVE RInv
  OBVIOUS
<1>1. pc = "latest" /\ invocations = <<>> /\ answers = <<>> /\ raised = "none" /\ result = Nothing
  BY DEF Init
<1>2. CheckHolds /\ SameTerms /\ LastAnswer /\ NotOver
  BY <1>1 DEF CheckHolds, SameTerms, LastAnswer, NotOver, InLoop
<1>3. RevalidatedAttempts
  BY <1>1 DEF RevalidatedAttempts, NoCreepingDrift, RouteStillRecommended,
              FreshCapturePerAttempt
<1>4. ContinuesOnlyAsConfigured /\ NoInternalRefusal
  BY <1>1 DEF ContinuesOnlyAsConfigured, NoInternalRefusal
<1> QED
  BY <1>2, <1>3, <1>4 DEF RInv

LEMMA NextRInv == IInv /\ IInv' /\ RInv /\ [Next]_vars => RInv'
<1> SUFFICES ASSUME IInv, IInv', RInv, [Next]_vars PROVE RInv'
  OBVIOUS
<1>1. CheckHolds' /\ SameTerms' /\ LastAnswer' /\ NotOver'
  BY NextKeepsCheck, NextKeepsSameTerms, NextKeepsLastAnswer, NextKeepsNotOver DEF RInv
<1>2. RevalidatedAttempts' /\ ContinuesOnlyAsConfigured'
  BY NextKeepsRevalidated, NextKeepsContinues DEF RInv
<1>3. NoInternalRefusal'
  BY <1>1, NextKeepsRefusals DEF RInv
<1> QED
  BY <1>1, <1>2, <1>3 DEF RInv

\* The live check, the history of calls and their answers agree all along a run.
THEOREM Revalidated == Spec => []RInv
<1>1. Init => IInv /\ RInv
  BY InitIInv, InitRInv
<1>2. (IInv /\ RInv) /\ [Next]_vars => (IInv /\ RInv)'
  BY NextIInv, NextRInv
<1>3. IInv /\ RInv => RInv
  OBVIOUS
<1> QED
  BY <1>1, <1>2, <1>3, PTL DEF Spec

\* Whatever a call of the adapter relies on was looked at again for this very call: no
\* quota drift adds up over retries, the route is still the recommended one, and every
\* attempt has a live capture of its own, made after the approval it waited for.
THEOREM EveryAttemptIsRevalidated == Spec => []RevalidatedAttempts
<1>1. RInv => RevalidatedAttempts
  BY DEF RInv
<1> QED
  BY <1>1, Revalidated, PTL

\* A step is repeated only after a failure the policy lists as retryable and left only
\* after one it lists as escalating, never after one of the four forbidden classes.
THEOREM GoesOnOnlyAsConfigured == Spec => []ContinuesOnlyAsConfigured
<1>1. RInv => ContinuesOnlyAsConfigured
  BY DEF RInv
<1> QED
  BY <1>1, Revalidated, PTL

\* The planner's attempt bound, validate_initial and the loop's own bound refuse nothing
\* the service has built, and no escalation is refused for a stale budget.
THEOREM ServiceNeverRefusesItself == Spec => []NoInternalRefusal
<1>1. RInv => NoInternalRefusal
  BY DEF RInv
<1> QED
  BY <1>1, Revalidated, PTL

-----------------------------------------------------------------------------
(***************************************************************************)
(* The result: its counters, its audit trail and what it recommends follow *)
(* from what the trail says while the loop goes on.                        *)
(***************************************************************************)
\* Nothing is recorded before the start; in the loop the events tell the counters, and
\* the plan is no preview.
TrailTellsTheLoop ==
  /\ pc \in Waiting => events = <<>>
  /\ pc \in InLoop =>
       /\ plan.dry_run = FALSE
       /\ Occurrences("running") = total_attempts
       /\ Occurrences("retrying") = retry_count
       /\ Occurrences("escalation_planned") = escalation_count

CountIn(trail, status) == Cardinality({ i \in DOMAIN trail : trail[i] = status })

\* The events that a counter counts.
Marks == {"running", "retrying", "escalation_planned"}

LEMMA CountedNowhere == \A status : CountIn(<<>>, status) = 0
<1>1. \A status : { i \in DOMAIN <<>> : <<>>[i] = status } = {}
  OBVIOUS
<1> QED
  BY <1>1, FS_EmptySet DEF CountIn

\* One more event is counted once, if it is the one that is counted.
LEMMA CountAppended ==
  ASSUME NEW trail \in Seq(Status), NEW e \in Status, NEW status
  PROVE  /\ CountIn(trail, status) \in Nat
         /\ CountIn(Append(trail, e), status) =
              CountIn(trail, status) + (IF e = status THEN 1 ELSE 0)
<1> DEFINE n == Len(trail)
           new == Append(trail, e)
           old == { i \in DOMAIN trail : trail[i] = status }
           now == { i \in DOMAIN new : new[i] = status }
<1>1. /\ n \in Nat /\ DOMAIN trail = 1..n /\ DOMAIN new = 1..(n + 1)
      /\ new[n + 1] = e /\ \A i \in 1..n : new[i] = trail[i]
  BY AppendedSequence
<1>2. \A i \in 1..(n + 1) : i \in 1..n \/ i = n + 1
  BY <1>1
<1>3. \A i \in 1..n : i \in 1..(n + 1) /\ i # n + 1
  BY <1>1
<1>4. IsFiniteSet(1..n)
  BY <1>1, FS_Interval
<1>5. old \subseteq 1..n
  BY <1>1
<1>6. IsFiniteSet(old)
  BY <1>4, <1>5, FS_Subset
<1>7. Cardinality(old) \in Nat
  BY <1>6, FS_CardinalityType
<1> HIDE DEF n, new
<1>8. CASE e = status
  <2>1. now = old \cup {n + 1}
    BY <1>1, <1>2, <1>3, <1>8
  <2>2. n + 1 \notin old
    BY <1>1, <1>3
  <2> HIDE DEF now, old
  <2>3. Cardinality(now) = Cardinality(old) + 1
    BY <1>6, <2>1, <2>2, FS_AddElement
  <2> QED
    BY <1>7, <1>8, <2>3 DEF CountIn, now, old, new
<1>9. CASE e # status
  <2>1. now = old
    BY <1>1, <1>2, <1>3, <1>9
  <2> HIDE DEF now, old
  <2>2. Cardinality(now) = Cardinality(old) + 0
    BY <1>7, <2>1
  <2> QED
    BY <1>7, <1>9, <2>2 DEF CountIn, now, old, new
<1> QED
  BY <1>8, <1>9

LEMMA MarksAreStatuses ==
  /\ Marks \subseteq Status
  /\ \A status : Occurrences(status) = CountIn(events, status)
  /\ \A status : Occurrences(status)' = CountIn(events', status)
  BY DEF Marks, Status, Occurrences, CountIn

\* A trail that ends with a status that is no mark says of the marks what it said before.
LEMMA EndingIsNoMark ==
  ASSUME NEW trail \in Seq(Status), NEW status \in Status \ Marks
  PROVE  /\ \A m \in Marks : CountIn(Append(trail, status), m) = CountIn(trail, m)
         /\ Append(trail, status)[Len(Append(trail, status))] = status
<1>1. ASSUME NEW m \in Marks PROVE CountIn(Append(trail, status), m) = CountIn(trail, m)
  <2>1. status # m
    OBVIOUS
  <2>2. /\ CountIn(trail, m) \in Nat
        /\ CountIn(Append(trail, status), m) = CountIn(trail, m) + 0
    BY <2>1, CountAppended
  <2> QED
    BY <2>2
<1>2. Append(trail, status)[Len(Append(trail, status))] = status
  BY AppendedSequence
<1> QED
  BY <1>1, <1>2

\* The events of an attempt add one "running" and its status.
LEMMA RecordedCounts ==
  ASSUME TypeOK, NEW status \in Status \ Marks
  PROVE  /\ Recorded(status) \in Seq(Status)
         /\ CountIn(Recorded(status), "running") = CountIn(events, "running") + 1
         /\ \A m \in Marks \ {"running"} : CountIn(Recorded(status), m) = CountIn(events, m)
         /\ Recorded(status)[Len(Recorded(status))] = status
<1>1. events \in Seq(Status) /\ "running" \in Status /\ "running" \in Marks
  BY DEF TypeOK, Status, Marks
<1> DEFINE trail == Append(events, "running")
<1>2. trail \in Seq(Status)
  BY <1>1, AppendedSequence
<1>3. Recorded(status) = Append(trail, status)
  BY <1>1 DEF Recorded
<1>4. /\ CountIn(trail, "running") = CountIn(events, "running") + 1
      /\ \A m \in Marks \ {"running"} : CountIn(trail, m) = CountIn(events, m)
  <2>1. CountIn(trail, "running") = CountIn(events, "running") + 1
    BY <1>1, CountAppended
  <2>2. ASSUME NEW m \in Marks \ {"running"} PROVE CountIn(trail, m) = CountIn(events, m)
    <3>1. /\ CountIn(events, m) \in Nat
          /\ CountIn(trail, m) = CountIn(events, m) + 0
      BY <1>1, CountAppended
    <3> QED
      BY <3>1
  <2> QED
    BY <2>1, <2>2
<1> HIDE DEF trail
<1>5. Recorded(status) \in Seq(Status)
  BY <1>2, <1>3, AppendedSequence
<1> QED
  BY <1>1, <1>2, <1>3, <1>4, <1>5, EndingIsNoMark

-----------------------------------------------------------------------------
\* The trail goes on telling the counters.
LEMMA NextKeepsTrail ==
  ASSUME IInv, IInv', TrailTellsTheLoop, [Next]_vars
  PROVE  TrailTellsTheLoop'
<1>0. TypeOK /\ events \in Seq(Status) /\ events' \in Seq(Status)
  BY DEF IInv, TypeOK
<1>1. CASE pc' \in Waiting
  <2>1. pc \in Waiting /\ UNCHANGED events
    BY <1>1 DEF Next, Service, Caller, Finished, vars, NoLatestContext, LatestContext,
       CaptureMissingContext, CaptureStaleContext, WithContext, BuildPlan, StartRun, Gate,
       Cleared, Approve, Refuse, RevalidateUnchanged, RevalidateChanged, InvokeAdapter,
       RejectResult, FinalResult, RetryAttempt, EscalateAttempt, StopAfterFailure,
       AwaitRaises, Waiting, Raise, NotStarted, Return, history, PlanningUnchanged
  <2> QED
    BY <1>1, <2>1 DEF TrailTellsTheLoop, Waiting, InLoop
<1>2. CASE pc' \in InLoop /\ pc \notin InLoop
  <2>1. /\ StartRun /\ pc = "planned"
        /\ total_attempts' = 0 /\ retry_count' = 0 /\ escalation_count' = 0
    BY <1>2, LoopIsEnteredByStart DEF IInv, NothingRunYet, Waiting, counters
  <2>2. events' = <<"planned">> /\ plan' = plan /\ plan.dry_run = FALSE
    <3>1. plan \in Plan
      BY <2>1 DEF IInv, NothingRunYet, Waiting
    <3>2. plan.dry_run \in BOOLEAN
      BY <3>1 DEF Plan
    <3>3. events' = <<"planned">> /\ plan' = plan /\ ~plan.dry_run
      BY <1>2, <2>1 DEF StartRun, InLoop, Raise, NotStarted, Return
    <3> QED
      BY <3>2, <3>3
  <2>3. \A m \in Marks : CountIn(<<"planned">>, m) = 0
    <3>1. <<>> \in Seq(Status) /\ "planned" \in Status \ Marks
      BY DEF Status, Marks
    <3>2. <<"planned">> = Append(<<>>, "planned")
      OBVIOUS
    <3> QED
      BY <3>1, <3>2, EndingIsNoMark, CountedNowhere
  <2>4. \A m \in Marks : Occurrences(m)' = 0
    BY <2>2, <2>3, MarksAreStatuses
  <2> QED
    BY <1>2, <2>1, <2>2, <2>4 DEF TrailTellsTheLoop, Marks, Waiting, InLoop
<1>3. CASE RetryAttempt /\ pc' \in InLoop
  <2>1. /\ pc = "adapter" /\ plan' = Retried(plan) /\ plan \in Plan
        /\ total_attempts' = total_attempts + 1 /\ retry_count' = retry_count + 1
        /\ escalation_count' = escalation_count
        /\ events' = Append(Recorded("failed"), "retrying")
    BY <1>3 DEF RetryAttempt, InLoop, Raise, IInv, LoopBookkeeping
  <2>2. /\ Recorded("failed") \in Seq(Status)
        /\ CountIn(Recorded("failed"), "running") = total_attempts + 1
        /\ CountIn(Recorded("failed"), "retrying") = retry_count
        /\ CountIn(Recorded("failed"), "escalation_planned") = escalation_count
    <3>1. "failed" \in Status \ Marks
      BY DEF Status, Marks
    <3> QED
      BY <1>0, <2>1, <3>1, RecordedCounts, MarksAreStatuses
         DEF TrailTellsTheLoop, InLoop, Marks
  <2>3. /\ CountIn(events', "running") = total_attempts + 1 + 0
        /\ CountIn(events', "retrying") = retry_count + 1
        /\ CountIn(events', "escalation_planned") = escalation_count + 0
    <3>1. "retrying" \in Status
      BY DEF Status
    <3> QED
      BY <2>1, <2>2, <3>1, CountAppended
  <2>4. plan'.dry_run = FALSE
    <3>1. plan.dry_run = FALSE
      BY <2>1 DEF TrailTellsTheLoop, InLoop
    <3>2. Retried(plan).dry_run = plan.dry_run
      BY <2>1 DEF Retried, Plan
    <3> QED
      BY <2>1, <3>1, <3>2
  <2>5. total_attempts \in Nat /\ escalation_count \in Nat
    BY DEF IInv, TypeOK
  <2> QED
    BY <1>3, <2>1, <2>3, <2>4, <2>5, MarksAreStatuses DEF TrailTellsTheLoop, Waiting, InLoop
<1>4. CASE EscalateAttempt /\ pc' \in InLoop
  <2>1. /\ pc = "adapter" /\ plan \in Plan
        /\ \E c : plan' = Escalated(plan, context, c)
        /\ total_attempts' = total_attempts + 1 /\ retry_count' = retry_count
        /\ escalation_count' = escalation_count + 1
        /\ events' = Append(Recorded("failed"), "escalation_planned")
    BY <1>4 DEF EscalateAttempt, InLoop, Raise, IInv, LoopBookkeeping
  <2>2. /\ Recorded("failed") \in Seq(Status)
        /\ CountIn(Recorded("failed"), "running") = total_attempts + 1
        /\ CountIn(Recorded("failed"), "retrying") = retry_count
        /\ CountIn(Recorded("failed"), "escalation_planned") = escalation_count
    <3>1. "failed" \in Status \ Marks
      BY DEF Status, Marks
    <3> QED
      BY <1>0, <2>1, <3>1, RecordedCounts, MarksAreStatuses
         DEF TrailTellsTheLoop, InLoop, Marks
  <2>3. /\ CountIn(events', "running") = total_attempts + 1 + 0
        /\ CountIn(events', "retrying") = retry_count + 0
        /\ CountIn(events', "escalation_planned") = escalation_count + 1
    <3>1. "escalation_planned" \in Status
      BY DEF Status
    <3> QED
      BY <2>1, <2>2, <3>1, CountAppended
  <2>4. plan'.dry_run = FALSE
    <3>1. plan.dry_run = FALSE
      BY <2>1 DEF TrailTellsTheLoop, InLoop
    <3>2. \A c : Escalated(plan, context, c).dry_run = plan.dry_run
      BY <2>1 DEF Escalated, Plan
    <3> QED
      BY <2>1, <3>1, <3>2
  <2>5. total_attempts \in Nat /\ retry_count \in Nat
    BY DEF IInv, TypeOK
  <2> QED
    BY <1>4, <2>1, <2>3, <2>4, <2>5, MarksAreStatuses DEF TrailTellsTheLoop, Waiting, InLoop
<1>5. CASE pc \in InLoop /\ pc' \in InLoop /\ ~RetryAttempt /\ ~EscalateAttempt
  <2>1. UNCHANGED plan
    BY <1>5, OnlyContinuingReplans
  <2>2. UNCHANGED <<total_attempts, retry_count, escalation_count>>
    BY <1>5 DEF Next, Service, Caller, Finished, vars, counters, NoLatestContext,
       LatestContext, CaptureMissingContext, CaptureStaleContext, WithContext, BuildPlan,
       StartRun, Gate, Cleared, Approve, Refuse, RevalidateUnchanged, RevalidateChanged,
       InvokeAdapter, RejectResult, FinalResult, RetryAttempt, EscalateAttempt,
       StopAfterFailure, AwaitRaises, InLoop, Raise, NotStarted, Return, PlanningUnchanged
  <2>3. events' = events \/ events' = Append(events, "awaiting_approval")
    BY <1>5 DEF Next, Service, Caller, Finished, vars, NoLatestContext,
       LatestContext, CaptureMissingContext, CaptureStaleContext, WithContext, BuildPlan,
       StartRun, Gate, Cleared, Approve, Refuse, RevalidateUnchanged, RevalidateChanged,
       InvokeAdapter, RejectResult, FinalResult, RetryAttempt, EscalateAttempt,
       StopAfterFailure, AwaitRaises, InLoop, Raise, NotStarted, Return, PlanningUnchanged
  <2>4. \A m \in Marks : CountIn(events', m) = CountIn(events, m)
    <3>1. "awaiting_approval" \in Status \ Marks
      BY DEF Status, Marks
    <3> QED
      BY <1>0, <2>3, <3>1, EndingIsNoMark
  <2> QED
    BY <1>5, <2>1, <2>2, <2>4, MarksAreStatuses DEF TrailTellsTheLoop, Marks, Waiting, InLoop
<1>6. CASE pc' \notin Waiting /\ pc' \notin InLoop
  BY <1>6 DEF TrailTellsTheLoop
<1> QED
  BY <1>1, <1>2, <1>3, <1>4, <1>5, <1>6

-----------------------------------------------------------------------------
\* Whatever leaves the result as it was before the end leaves nothing to tell.
LEMMA NoResultTellsNothing ==
  ASSUME NotOver, pc # "done", UNCHANGED result
  PROVE  ResultTellsWhatHappened'
<1>1. result' = Nothing
  BY DEF NotOver
<1> QED
  BY <1>1 DEF ResultTellsWhatHappened, CountersTellWhatHappened, AuditTrailMatchesResult,
              RecommendationIsActionable

\* What a result must say for its account to be true, by its fields.
LEMMA TrueAccount ==
  ASSUME IInv, IInv', plan' = plan, policy' = policy, invocations' = invocations,
         NEW status, NEW failure, NEW attempts \in Nat, NEW recommended \in BOOLEAN,
         NEW next_step, NEW trail,
         Return(Outcome(status, failure, attempts, recommended, next_step), trail),
         \/ attempts = Len(invocations)
         \/ attempts = Len(invocations) - 1 /\ status = "failed" /\ failure = "validation",
         escalation_count = IF plan.dry_run THEN 0 ELSE plan.escalation_index,
         attempts - (retry_count + escalation_count) \in {0, 1},
         CountIn(trail, "running") = attempts,
         CountIn(trail, "retrying") = retry_count,
         CountIn(trail, "escalation_planned") = escalation_count,
         trail[Len(trail)] = status,
         recommended =>
           /\ next_step = plan.path[plan.escalation_index + 1]
           /\ failure \in policy.escalation_failures
           /\ ~policy.allow_escalation \/ attempts >= policy.max_attempts
  PROVE  ResultTellsWhatHappened'
<1>1. /\ result'.status = status /\ result'.failure_class = failure
      /\ result'.attempt_count = attempts
      /\ result'.retry_count = retry_count /\ result'.escalation_count = escalation_count
      /\ result'.escalation_recommended = recommended /\ result'.next_step = next_step
      /\ events' = trail
  BY DEF Return, Outcome
<1>2. Len(invocations) \in Nat
  BY DEF IInv, TypeOK
<1>3. CountersTellWhatHappened'
  BY <1>1, <1>2 DEF CountersTellWhatHappened
<1>4. AuditTrailMatchesResult'
  BY <1>1, MarksAreStatuses DEF AuditTrailMatchesResult
<1>5. RecommendationIsActionable'
  BY <1>1 DEF RecommendationIsActionable
<1> QED
  BY <1>3, <1>4, <1>5 DEF ResultTellsWhatHappened

\* The account of a run that ends inside the loop before its adapter was called again,
\* or whose last answer belonged to no plan.
LEMMA NotStartedTells ==
  ASSUME IInv, IInv', TrailTellsTheLoop, pc \in InLoop,
         UNCHANGED <<plan, policy, invocations>>,
         NEW status \in Status \ Marks, NEW failure, NEW trail \in Seq(Status),
         NotStarted(status, failure, trail),
         \A m \in Marks : CountIn(trail, m) = CountIn(events, m),
         pc = "adapter" => status = "failed" /\ failure = "validation"
  PROVE  ResultTellsWhatHappened'
<1> DEFINE whole == Append(trail, status)
<1>1. Return(Outcome(status, failure, total_attempts, FALSE, NoStep), whole)
  BY DEF NotStarted
<1>2. /\ plan.dry_run = FALSE
      /\ CountIn(whole, "running") = total_attempts
      /\ CountIn(whole, "retrying") = retry_count
      /\ CountIn(whole, "escalation_planned") = escalation_count
      /\ whole[Len(whole)] = status
  BY EndingIsNoMark, MarksAreStatuses DEF TrailTellsTheLoop, Marks
<1>3. /\ total_attempts \in Nat /\ retry_count \in Nat /\ escalation_count \in Nat
      /\ total_attempts = retry_count + escalation_count
      /\ plan.escalation_index = escalation_count
      /\ Len(invocations) = total_attempts + (IF pc = "adapter" THEN 1 ELSE 0)
  BY DEF IInv, TypeOK, LoopBookkeeping
<1>4. \/ total_attempts = Len(invocations)
      \/ total_attempts = Len(invocations) - 1 /\ status = "failed" /\ failure = "validation"
  BY <1>3
<1>5. /\ escalation_count = IF plan.dry_run THEN 0 ELSE plan.escalation_index
      /\ total_attempts - (retry_count + escalation_count) \in {0, 1}
  BY <1>2, <1>3
<1> HIDE DEF whole
<1> QED
  BY <1>1, <1>2, <1>3, <1>4, <1>5, TrueAccount

\* The account of a run that ends with an answer of its adapter.
LEMMA AnswerTells ==
  ASSUME IInv, IInv', TrailTellsTheLoop, pc = "adapter",
         UNCHANGED <<plan, policy, invocations>>,
         NEW status \in Status \ Marks, NEW failure, NEW recommended \in BOOLEAN,
         NEW next_step,
         Return(Outcome(status, failure, total_attempts + 1, recommended, next_step),
                Recorded(status)),
         recommended =>
           /\ next_step = plan.path[plan.escalation_index + 1]
           /\ failure \in policy.escalation_failures
           /\ ~policy.allow_escalation \/ total_attempts + 1 >= policy.max_attempts
  PROVE  ResultTellsWhatHappened'
<1>1. /\ CountIn(Recorded(status), "running") = total_attempts + 1
      /\ CountIn(Recorded(status), "retrying") = retry_count
      /\ CountIn(Recorded(status), "escalation_planned") = escalation_count
      /\ Recorded(status)[Len(Recorded(status))] = status
      /\ plan.dry_run = FALSE
  BY RecordedCounts, MarksAreStatuses DEF TrailTellsTheLoop, Marks, InLoop, IInv
<1>2. /\ total_attempts \in Nat /\ retry_count \in Nat /\ escalation_count \in Nat
      /\ total_attempts = retry_count + escalation_count
      /\ plan.escalation_index = escalation_count
      /\ Len(invocations) = total_attempts + 1
  BY DEF IInv, TypeOK, LoopBookkeeping, InLoop
<1>3. /\ total_attempts + 1 \in Nat
      /\ total_attempts + 1 - (retry_count + escalation_count) \in {0, 1}
  BY <1>2
<1> QED
  BY <1>1, <1>2, <1>3, TrueAccount

\* The account of a preview: nothing has been run.
LEMMA PreviewTells ==
  ASSUME IInv, IInv', TrailTellsTheLoop, NotOver, StartRun
  PROVE  ResultTellsWhatHappened'
<1>1. /\ pc = "planned" /\ plan' = plan /\ policy' = policy /\ invocations' = invocations
      /\ pc # "done"
  BY DEF StartRun, inputs, history
<1>2. CASE UNCHANGED result
  BY <1>1, <1>2, NoResultTellsNothing
<1>3. CASE plan.dry_run /\ NotStarted("dry_run", NoFailure, <<>>)
  <2>1. /\ total_attempts = 0 /\ retry_count = 0 /\ escalation_count = 0
        /\ invocations = <<>> /\ plan.escalation_index = 0
    BY <1>1 DEF IInv, NothingRunYet, Waiting
  <2>2. <<>> \in Seq(Status) /\ "dry_run" \in Status \ Marks
    BY DEF Status, Marks
  <2> DEFINE whole == Append(<<>>, "dry_run")
  <2>3. /\ \A m \in Marks : CountIn(whole, m) = 0
        /\ whole[Len(whole)] = "dry_run"
    BY <2>2, EndingIsNoMark, CountedNowhere
  <2>4. Return(Outcome("dry_run", NoFailure, 0, FALSE, NoStep), whole)
    BY <1>3, <2>1 DEF NotStarted
  <2>5. /\ "running" \in Marks /\ "retrying" \in Marks /\ "escalation_planned" \in Marks
        /\ 0 = Len(invocations) /\ 0 - (retry_count + escalation_count) \in {0, 1}
        /\ escalation_count = IF plan.dry_run THEN 0 ELSE plan.escalation_index
    BY <1>3, <2>1 DEF Marks
  <2> HIDE DEF whole
  <2>6. /\ CountIn(whole, "running") = 0 /\ CountIn(whole, "retrying") = retry_count
        /\ CountIn(whole, "escalation_planned") = escalation_count
    BY <2>1, <2>3, <2>5
  <2> QED
    BY <1>1, <2>3, <2>4, <2>5, <2>6, TrueAccount
<1> QED
  BY <1>2, <1>3 DEF StartRun

\* Every result returned is a true account.
LEMMA NextKeepsAccount ==
  ASSUME IInv, IInv', TrailTellsTheLoop, NotOver, ResultTellsWhatHappened, [Next]_vars
  PROVE  ResultTellsWhatHappened'
<1>0. events \in Seq(Status) /\ TypeOK
  BY DEF IInv, TypeOK
<1>1. CASE UNCHANGED vars
  BY <1>1 DEF vars, inputs, counters, history, ResultTellsWhatHappened, Occurrences,
              CountersTellWhatHappened, AuditTrailMatchesResult, RecommendationIsActionable
<1>2. CASE pc # "done" /\ UNCHANGED result
  BY <1>2, NoResultTellsNothing
<1>3. CASE StartRun
  BY <1>3, PreviewTells
<1>4. CASE Gate /\ ~(UNCHANGED result)
  <2>1. pc \in InLoop /\ pc # "adapter" /\ UNCHANGED <<plan, policy, invocations>>
    BY <1>4 DEF Gate, InLoop, inputs, history
  <2>2. \/ NotStarted("failed", "unknown", events)
        \/ NotStarted("denied", NoFailure, events)
        \/ NotStarted("awaiting_approval", NoFailure, Append(events, "awaiting_approval"))
    BY <1>4 DEF Gate
  <2>3. {"failed", "denied", "awaiting_approval"} \subseteq Status \ Marks
    BY DEF Status, Marks
  <2>4. /\ Append(events, "awaiting_approval") \in Seq(Status)
        /\ \A m \in Marks : CountIn(Append(events, "awaiting_approval"), m) = CountIn(events, m)
    BY <1>0, <2>3, EndingIsNoMark
  <2>5. CASE NotStarted("failed", "unknown", events)
    BY <1>0, <2>1, <2>3, <2>5, NotStartedTells
  <2>6. CASE NotStarted("denied", NoFailure, events)
    BY <1>0, <2>1, <2>3, <2>6, NotStartedTells
  <2>7. CASE NotStarted("awaiting_approval", NoFailure, Append(events, "awaiting_approval"))
    BY <1>0, <2>1, <2>3, <2>4, <2>7, NotStartedTells
  <2> QED
    BY <2>2, <2>5, <2>6, <2>7
<1>5. CASE Refuse
  <2>1. /\ pc \in InLoop /\ pc # "adapter" /\ UNCHANGED <<plan, policy, invocations>>
        /\ NotStarted("denied", NoFailure, events)
    BY <1>5 DEF Refuse, InLoop, inputs, history
  <2>2. "denied" \in Status \ Marks
    BY DEF Status, Marks
  <2> QED
    BY <1>0, <2>1, <2>2, NotStartedTells
<1>6. CASE RevalidateChanged
  <2>1. /\ pc \in InLoop /\ pc # "adapter" /\ UNCHANGED <<plan, policy, invocations>>
    BY <1>6 DEF RevalidateChanged, InLoop, inputs
  <2>2. PICK status \in {Verdict(c) : c \in Contexts} \cup {"capability_changed"} :
          status # "unchanged" /\ NotStarted(status, ChangeFailure(status), events)
    BY <1>6 DEF RevalidateChanged
  <2>3. \A c \in Contexts : Verdict(c) \in {"capability_changed", "quota_changed", "unchanged"}
    BY DEF Verdict
  <2>4. status \in {"capability_changed", "quota_changed"}
    BY <2>2, <2>3
  <2>5. status \in Status \ Marks
    BY <2>4 DEF Status, Marks
  <2> QED
    BY <1>0, <2>1, <2>2, <2>5, NotStartedTells
<1>7. CASE RejectResult
  <2>1. /\ pc \in InLoop /\ UNCHANGED <<plan, policy, invocations>>
        /\ NotStarted("failed", "validation", events)
    BY <1>7 DEF RejectResult, InLoop, inputs
  <2>2. "failed" \in Status \ Marks
    BY DEF Status, Marks
  <2> QED
    BY <1>0, <2>1, <2>2, NotStartedTells
<1>8. CASE FinalResult
  <2>1. pc = "adapter" /\ UNCHANGED <<plan, policy, invocations>>
    BY <1>8 DEF FinalResult, inputs
  <2>2. PICK answer \in {<<"succeeded", NoFailure>>, <<"cancelled", "user_cancelled">>} :
          Return(Outcome(answer[1], answer[2], total_attempts + 1, FALSE, NoStep),
                 Recorded(answer[1]))
    BY <1>8 DEF FinalResult
  <2>3. answer[1] \in Status \ Marks
    BY <2>2 DEF Status, Marks
  <2> QED
    BY <2>1, <2>2, <2>3, AnswerTells
<1>9. CASE StopAfterFailure
  <2>1. pc = "adapter" /\ UNCHANGED <<plan, policy, invocations>>
    BY <1>9 DEF StopAfterFailure, inputs
  <2>2. PICK failure \in AdapterFailures :
          /\ Decision(failure) = "stop"
          /\ Return(Outcome("failed", failure, total_attempts + 1,
                            PathLeft /\ failure \in policy.escalation_failures, NextStep),
                    Recorded("failed"))
    BY <1>9 DEF StopAfterFailure
  <2> DEFINE recommended == PathLeft /\ failure \in policy.escalation_failures
  <2>3. recommended =>
          /\ NextStep = plan.path[plan.escalation_index + 1]
          /\ failure \in policy.escalation_failures
          /\ ~policy.allow_escalation \/ total_attempts + 1 >= policy.max_attempts
    <3> SUFFICES ASSUME recommended
                 PROVE  /\ NextStep = plan.path[plan.escalation_index + 1]
                        /\ ~policy.allow_escalation
                             \/ total_attempts + 1 >= policy.max_attempts
      OBVIOUS
    <3>2. /\ ~MayRetry(policy, failure, total_attempts + 1, same_step_retries)
          /\ ~MayEscalate(policy, failure, total_attempts + 1, same_step_retries, PathLeft)
      BY <2>2 DEF Decision, NextAction
    <3>3. \/ ~policy.allow_escalation \/ ~MayContinue(policy, failure, total_attempts + 1)
      BY <3>2 DEF MayEscalate
    <3>4. \/ total_attempts + 1 >= policy.max_attempts
          \/ MayContinue(policy, failure, total_attempts + 1)
      <4>1. failure # NoFailure
        BY DEF AdapterFailures, FailureClass, NoFailure
      <4>2. policy.max_attempts \in Nat /\ total_attempts \in Nat
        BY <1>0, PolicyType DEF TypeOK
      <4> QED
        BY <4>1, <4>2 DEF MayContinue
    <3> QED
      BY <3>3, <3>4 DEF NextStep
  <2>4. "failed" \in Status \ Marks /\ recommended \in BOOLEAN
    BY DEF Status, Marks
  <2> QED
    BY <2>1, <2>2, <2>3, <2>4, AnswerTells
<1>10. CASE pc = "done"
  <2>1. UNCHANGED vars
    BY <1>10 DEF Next, Service, Caller, Finished, NoLatestContext, LatestContext,
       CaptureMissingContext, CaptureStaleContext, BuildPlan, StartRun, Gate, Approve,
       Refuse, RevalidateUnchanged, RevalidateChanged, InvokeAdapter, RejectResult,
       FinalResult, RetryAttempt, EscalateAttempt, StopAfterFailure, AwaitRaises, Awaiting
  <2> QED
    BY <2>1, <1>1
<1>11. CASE RetryAttempt \/ EscalateAttempt \/ AwaitRaises \/ Approve
            \/ RevalidateUnchanged \/ InvokeAdapter \/ NoLatestContext \/ LatestContext
            \/ CaptureMissingContext \/ CaptureStaleContext \/ BuildPlan
  <2>1. UNCHANGED result
    BY <1>11 DEF RetryAttempt, EscalateAttempt, AwaitRaises, Approve, RevalidateUnchanged,
       InvokeAdapter, NoLatestContext, LatestContext, CaptureMissingContext,
       CaptureStaleContext, BuildPlan, PlanningUnchanged
  <2> QED
    BY <2>1, <1>2, <1>10
<1> QED
  BY <1>1, <1>2, <1>3, <1>4, <1>5, <1>6, <1>7, <1>8, <1>9, <1>10, <1>11
     DEF Next, Service, Caller, Finished

-----------------------------------------------------------------------------
LEMMA InitTells == Init => TrailTellsTheLoop /\ ResultTellsWhatHappened
<1> SUFFICES ASSUME Init PROVE TrailTellsTheLoop /\ ResultTellsWhatHappened
  OBVIOUS
<1>1. pc = "latest" /\ events = <<>> /\ result = Nothing
  BY DEF Init
<1> QED
  BY <1>1 DEF TrailTellsTheLoop, ResultTellsWhatHappened, CountersTellWhatHappened,
              AuditTrailMatchesResult, RecommendationIsActionable, InLoop

\* A result is a true account of the run: its counters, its events and what it recommends
\* fit what was done, whatever retries, escalations, refusals and rejected answers the run
\* has been through.
THEOREM AccountIsTrue == Spec => []ResultTellsWhatHappened
<1>1. Init => IInv /\ RInv /\ TrailTellsTheLoop /\ ResultTellsWhatHappened
  BY InitIInv, InitRInv, InitTells
<1>2. /\ IInv /\ RInv /\ TrailTellsTheLoop /\ ResultTellsWhatHappened
      /\ [Next]_vars
      => (IInv /\ RInv /\ TrailTellsTheLoop /\ ResultTellsWhatHappened)'
  <2> SUFFICES ASSUME IInv, RInv, TrailTellsTheLoop, ResultTellsWhatHappened, [Next]_vars
               PROVE  (IInv /\ RInv /\ TrailTellsTheLoop /\ ResultTellsWhatHappened)'
    OBVIOUS
  <2>1. IInv' /\ RInv' /\ NotOver
    BY NextIInv, NextRInv DEF RInv
  <2> QED
    BY <2>1, NextKeepsTrail, NextKeepsAccount
<1>3. IInv /\ RInv /\ TrailTellsTheLoop /\ ResultTellsWhatHappened => ResultTellsWhatHappened
  OBVIOUS
<1> QED
  BY <1>1, <1>2, <1>3, PTL DEF Spec
=============================================================================
