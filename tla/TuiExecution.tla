----------------------------- MODULE TuiExecution -----------------------------
(***************************************************************************)
(* Analysing, planning and running a task from the terminal application:   *)
(* the route and execute view models, the approval the application keeps   *)
(* between a key and the service's question, cancellation and quitting.    *)
(*                                                                         *)
(* A plan is a record [id, step, dry]: id stands for all that a plan made  *)
(* by create_plan fixes, step is its position on the escalation path.      *)
(* The execution service is the module ExecutionRun seen from its caller:  *)
(* where it asks, starts an attempt and ends.                              *)
(***************************************************************************)
EXTENDS TuiNavigation

CONSTANTS
    PlanIds,       \* enough to tell a new plan from those still referred to
    MaxAttempts,   \* of a run
    MaxSteps       \* length of an escalation path

ASSUME NoneIsNoPlan == None \notin BOOLEAN \cup [id : PlanIds, step : Nat, dry : BOOLEAN]

VARIABLES
    route,         \* [task, context, analyzing, pending]: context is the task it is for
    execute,       \* ExecuteViewModel: [status, plan, result, active]
    view,          \* what the execute page shows: [plan, approve, cancel]
    approved,      \* _approved_plan
    asked,         \* _pending_plan
    held,          \* _approval_future is not None
    answer,        \* of the question the service waits for: "open", "yes", "no"
    planning,      \* the plan under way: None or [dry], and the flag of its worker
    executing,     \* _execution_pending
    run,           \* the service's run_plan, see NoRun
    cancellers,    \* workers waiting for the run to end: "cancel", "cancelAndQuit"
    quit,          \* the application has been told to exit
    asksFirst,     \* the policy wants an approval of the first attempt, too
    gestures,      \* plans the user approved while the page showed them
    attempts       \* plans the adapter was started for

routeVars == <<route>>
approvalVars == <<approved, asked, held, answer>>
executionVars == <<execute, view, approvalVars, planning, executing, run, cancellers,
                   quit, asksFirst, gestures, attempts>>

NoState == [status |-> "empty", plan |-> None, result |-> FALSE, active |-> FALSE]
NotPlanning == [pending |-> FALSE, dry |-> None]
NoRun == [at |-> "none", origin |-> None, plan |-> None, reusable |-> FALSE,
          count |-> 0, end |-> "none"]

ExecutionInit ==
    /\ route = [task |-> "blank", context |-> None, analyzing |-> None, pending |-> FALSE]
    /\ execute = NoState
    /\ view = [plan |-> None, approve |-> FALSE, cancel |-> FALSE]
    /\ approved = None /\ asked = None /\ held = FALSE /\ answer = "no"
    /\ planning = NotPlanning
    /\ executing = FALSE
    /\ run = NoRun
    /\ cancellers = <<>>
    /\ quit = FALSE
    /\ asksFirst \in BOOLEAN
    /\ gestures = {}
    /\ attempts = {}

-----------------------------------------------------------------------------
(***************************************************************************)
(* Route: the context that is shown is for the task in the editor; a late  *)
(* answer for an earlier text is dropped.                                  *)
(***************************************************************************)
EditTask(t) ==
    /\ t # route.task
    /\ route' = [route EXCEPT !.task = t, !.context = None]
    /\ UNCHANGED ready

AnalyzeTask ==
    /\ ~route.pending
    /\ route' = [route EXCEPT !.pending = TRUE]
    /\ Start(<<"analyze">>)

BeginAnalyze ==
    /\ Turn("analyze", <<>>)
    /\ route' = IF route.task = "blank"
                THEN [route EXCEPT !.context = None, !.pending = FALSE]
                ELSE [route EXCEPT !.context = None, !.analyzing = route.task]

\* Faulty: a late answer for an earlier text is shown.
AnalysisArrivesLate ==
    /\ route.analyzing # None
    /\ \E found \in BOOLEAN :
         route' = [route EXCEPT !.analyzing = None, !.pending = FALSE,
                     !.context = IF found THEN route.analyzing ELSE @]
    /\ UNCHANGED ready

AnalysisArrives ==
    /\ route.analyzing # None
    /\ \E found \in BOOLEAN :
         route' = [route EXCEPT !.analyzing = None, !.pending = FALSE,
                     !.context = IF found /\ route.task = route.analyzing
                                 THEN route.analyzing ELSE @]
    /\ UNCHANGED ready

-----------------------------------------------------------------------------
(***************************************************************************)
(* The execute page renders a state; a state without a plan hides it.      *)
(***************************************************************************)
\* Faulty: the button is shown for a plan that is ready, and for no question.
RenderedWhenReady(state) ==
    IF state.plan = None THEN [view EXCEPT !.plan = None]
    ELSE [plan |-> state.plan, approve |-> ~state.plan.dry /\ state.status = "ready",
          cancel |-> ~state.plan.dry /\ ~state.result]

Rendered(state) ==
    IF state.plan = None THEN [view EXCEPT !.plan = None]
    ELSE [plan |-> state.plan,
          approve |-> ~state.plan.dry /\ state.status # "running" /\ ~state.result,
          cancel |-> ~state.plan.dry /\ ~state.result]

Shows(state) ==
    /\ execute' = state
    /\ view' = Rendered(state)

\* clear: the state is reset, the page is not rendered again.
Clears ==
    /\ execute' = IF execute.active THEN execute ELSE NoState
    /\ UNCHANGED view

-----------------------------------------------------------------------------
(***************************************************************************)
(* Planning.                                                               *)
(***************************************************************************)
PrepareExecution(dry) ==
    /\ route.context # None
    /\ ~execute.active
    /\ ~planning.pending
    /\ Len(back) < MaxBack
    /\ planning' = [planning EXCEPT !.pending = TRUE]
    /\ dest' = "execute"
    /\ back' = Append(back, dest)
    /\ Start(<<IF dry THEN "prepareDry" ELSE "prepare">>)
    /\ UNCHANGED <<execute, view, approvalVars, executing, run, cancellers, quit,
                   asksFirst, gestures, attempts>>

\* Faulty: planning begins without a look at what is active.
BeginPrepareAnyway(dry) ==
    /\ Turn(IF dry THEN "prepareDry" ELSE "prepare", <<>>)
    /\ Shows([NoState EXCEPT !.status = "planning", !.active = TRUE])
    /\ planning' = [pending |-> TRUE, dry |-> dry]
    /\ UNCHANGED <<approvalVars, executing, run, cancellers, quit, asksFirst,
                   gestures, attempts>>

BeginPrepare(dry) ==
    /\ Turn(IF dry THEN "prepareDry" ELSE "prepare", <<>>)
    /\ IF execute.active
       THEN Shows(execute) /\ planning' = NotPlanning
       ELSE /\ Shows([NoState EXCEPT !.status = "planning", !.active = TRUE])
            /\ planning' = [pending |-> TRUE, dry |-> dry]
    /\ UNCHANGED <<approvalVars, executing, run, cancellers, quit, asksFirst,
                   gestures, attempts>>

\* A new plan differs from every plan the page or the application still holds.
PlanArrives ==
    /\ planning.dry # None
    /\ planning' = NotPlanning
    /\ \/ \E id \in PlanIds :
            /\ \A p \in {view.plan, approved} : p # None => p.id # id
            /\ Shows([NoState EXCEPT !.status = "ready",
                        !.plan = [id |-> id, step |-> 0, dry |-> planning.dry]])
       \/ Shows([NoState EXCEPT !.status = "error"])
    /\ gestures' = {} /\ attempts' = {}
    /\ UNCHANGED <<ready, approvalVars, executing, run, cancellers, quit, asksFirst>>

-----------------------------------------------------------------------------
(***************************************************************************)
(* The approval key: it answers the question that waits, or starts the     *)
(* run of the plan that is ready with a one-shot approval of this plan.    *)
(***************************************************************************)
AnswerQuestion ==
    /\ held
    /\ answer' = IF answer = "open" /\ asked # None THEN "yes" ELSE answer
    /\ held' = FALSE
    /\ asked' = None
    /\ Shows([execute EXCEPT !.status = "running", !.result = FALSE])
    /\ UNCHANGED <<ready, approved, executing>>

StartRun ==
    /\ ~held
    /\ execute.status = "ready" /\ execute.plan # None /\ ~execute.plan.dry
    /\ ~executing
    /\ approved' = execute.plan
    /\ executing' = TRUE
    /\ Start(<<"run">>)
    /\ UNCHANGED <<execute, view, asked, held, answer>>

ApproveExecution ==
    /\ view.plan # None /\ view.approve
    /\ AnswerQuestion \/ StartRun
    /\ gestures' = gestures \cup {view.plan}
    /\ UNCHANGED <<planning, run, cancellers, quit, asksFirst, attempts>>

\* The worker's first step; a plan that was cleared meanwhile is not run.
BeginRun ==
    /\ Turn("run", <<>>)
    /\ IF execute.active \/ execute.plan = None \/ execute.plan.dry
       THEN /\ Shows(execute)
            /\ approved' = None
            /\ executing' = FALSE
            /\ UNCHANGED run
       ELSE /\ Shows([NoState EXCEPT !.status = "running", !.plan = execute.plan,
                                     !.active = TRUE])
            /\ run' = [NoRun EXCEPT !.at = "deciding", !.origin = execute.plan,
                                    !.plan = execute.plan]
            /\ UNCHANGED <<approved, executing>>
    /\ UNCHANGED <<asked, held, answer, planning, cancellers, quit, asksFirst,
                   gestures, attempts>>

-----------------------------------------------------------------------------
(***************************************************************************)
(* The service.  What waits for the run goes on in the order it began to   *)
(* wait: the run worker, then the cancellations.                           *)
(***************************************************************************)
Resumed(canceller) == IF canceller = "cancelAndQuit" THEN "exit" ELSE "back"

Waiters(waiting) == [i \in DOMAIN waiting |-> Resumed(waiting[i])]

RunEnds(how) ==
    /\ run' = [run EXCEPT !.at = "over", !.end = how]
    /\ Start(<<"runReturns">> \o Waiters(cancellers))
    /\ cancellers' = <<>>

\* Faulty: a plan is known by its execution id, whatever step it is at.
CandidateById(plan) == approved # None /\ approved.id = plan.id

\* _approve_candidate: equality of the whole plan spends the one-shot approval.
Candidate(plan) == approved # None /\ approved = plan

Asks ==
    /\ run' = [run EXCEPT !.at = "waiting"]
    /\ asked' = run.plan
    /\ held' = TRUE
    /\ answer' = "open"
    /\ Shows([execute EXCEPT !.status = "awaiting_approval", !.plan = run.plan,
                             !.result = FALSE])
    /\ UNCHANGED approved

NeedsApproval == (asksFirst \/ run.plan.step > 0) /\ ~run.reusable

ServiceDecides ==
    /\ run.at = "deciding"
    /\ \/ RunEnds("result") /\ UNCHANGED <<execute, view, approvalVars>>   \* denied
       \/ /\ UNCHANGED <<ready, cancellers>>
          /\ \/ /\ ~NeedsApproval
                /\ run' = [run EXCEPT !.at = "revalidating"]
                /\ UNCHANGED <<execute, view, approvalVars>>
             \/ /\ NeedsApproval /\ Candidate(run.plan)
                /\ approved' = None
                /\ run' = [run EXCEPT !.at = "revalidating", !.reusable = TRUE]
                /\ UNCHANGED <<execute, view, asked, held, answer>>
             \/ NeedsApproval /\ ~Candidate(run.plan) /\ Asks
    /\ UNCHANGED <<planning, executing, quit, asksFirst, gestures, attempts>>

ServiceIsAnswered ==
    /\ run.at = "waiting"
    /\ held' = FALSE
    /\ asked' = None
    /\ \/ /\ answer = "yes"
          /\ run' = [run EXCEPT !.at = "revalidating", !.reusable = TRUE]
          /\ UNCHANGED <<ready, cancellers>>
       \/ answer = "no" /\ RunEnds("result")
    /\ UNCHANGED <<execute, view, approved, answer, planning, executing, quit,
                   asksFirst, gestures, attempts>>

ServiceRevalidates ==
    /\ run.at = "revalidating"
    /\ \/ /\ run' = [run EXCEPT !.at = "attempt", !.count = @ + 1]
          /\ attempts' = attempts \cup {run.plan}
          /\ UNCHANGED <<ready, cancellers>>
       \/ \E how \in {"result", "error"} : RunEnds(how) /\ UNCHANGED attempts
    /\ UNCHANGED <<execute, view, approvalVars, planning, executing, quit,
                   asksFirst, gestures>>

CanEscalate == run.count < MaxAttempts /\ run.plan.step < MaxSteps

AttemptEnds ==
    /\ run.at = "attempt"
    /\ \/ \E how \in {"result", "error"} : RunEnds(how)
       \/ /\ run.count < MaxAttempts
          /\ run' = [run EXCEPT !.at = "deciding", !.reusable = TRUE]      \* retry
          /\ UNCHANGED <<ready, cancellers>>
       \/ /\ CanEscalate
          /\ run' = [run EXCEPT !.at = "deciding", !.reusable = FALSE,
                                !.plan.step = @ + 1]
          /\ UNCHANGED <<ready, cancellers>>
    /\ UNCHANGED <<execute, view, approvalVars, planning, executing, quit,
                   asksFirst, gestures, attempts>>

\* The adapter has ended and reaped its child.
CleanupEnds ==
    /\ run.at = "cleaning"
    /\ RunEnds("cancelled")
    /\ UNCHANGED <<execute, view, approvalVars, planning, executing, quit,
                   asksFirst, gestures, attempts>>

\* Faulty: the flag is reset only where a result is there to be shown.
RunReturnsActive ==
    /\ Turn("runReturns", <<>>)
    /\ Shows([NoState EXCEPT
                !.status = run.end,
                !.plan = IF run.end = "result" THEN execute.plan ELSE run.origin,
                !.result = run.end = "result",
                !.active = run.end # "result"])
    /\ run' = NoRun
    /\ approved' = None
    /\ executing' = FALSE
    /\ UNCHANGED <<asked, held, answer, planning, cancellers, quit, asksFirst,
                   gestures, attempts>>

\* The run worker goes on after run_plan; a cancelled or failed run is shown with
\* the plan it began with.
RunReturns ==
    /\ Turn("runReturns", <<>>)
    /\ Shows([NoState EXCEPT
                !.status = run.end,
                !.plan = IF run.end = "result" THEN execute.plan ELSE run.origin,
                !.result = run.end = "result"])
    /\ run' = NoRun
    /\ approved' = None
    /\ executing' = FALSE
    /\ UNCHANGED <<asked, held, answer, planning, cancellers, quit, asksFirst,
                   gestures, attempts>>

-----------------------------------------------------------------------------
(***************************************************************************)
(* Cancellation: refuse the question that waits, cancel the run and wait   *)
(* for it, then go back or exit.  During planning there is no run yet.     *)
(***************************************************************************)
Live == {"deciding", "waiting", "revalidating", "attempt", "cleaning"}

Rejects ==
    /\ answer' = IF held /\ answer = "open" THEN "no" ELSE answer
    /\ approved' = None

\* Faulty: the cleanup of an attempt is not awaited.
CancelRunUnawaited(canceller) ==
    /\ run' = [run EXCEPT !.at = IF @ = "attempt" THEN "cleaning" ELSE "over",
                          !.end = "cancelled"]
    /\ cancellers' = <<>>
    /\ Turn(canceller, (IF run.at = "attempt" THEN <<>> ELSE <<"runReturns">>)
                         \o Waiters(Append(cancellers, canceller)))

\* Cancelling the task of run_plan: an attempt is cleaned up first, and a second
\* cancellation cuts this short (CodexCliAdapter models it in full).
CancelRun(canceller) ==
    IF run.at = "attempt"
    THEN /\ run' = [run EXCEPT !.at = "cleaning"]
         /\ cancellers' = Append(cancellers, canceller)
         /\ Turn(canceller, <<>>)
    ELSE /\ run' = [run EXCEPT !.at = "over", !.end = "cancelled"]
         /\ cancellers' = <<>>
         /\ Turn(canceller, <<"runReturns">> \o Waiters(Append(cancellers, canceller)))

\* What is left of the worker when the run is over.
AfterCancel(canceller) ==
    /\ Shows(execute)
    /\ IF canceller = "cancelAndQuit"
       THEN quit' = TRUE /\ UNCHANGED <<navigationVars, settingsVars>>
       ELSE NavigateBack /\ UNCHANGED quit

CancelExecution(canceller) ==
    /\ Rejects
    /\ \/ /\ run.at \in Live
          /\ CancelRun(canceller)
          /\ held' = (held /\ run.at # "waiting")
          /\ asked' = IF run.at = "waiting" THEN None ELSE asked
          /\ UNCHANGED <<execute, view, quit, navigationVars, settingsVars>>
       \/ /\ run.at \notin Live
          /\ Turn(canceller, <<>>)
          /\ AfterCancel(canceller)
          /\ UNCHANGED <<asked, held, run, cancellers>>
    /\ UNCHANGED <<planning, executing, asksFirst, gestures, attempts>>

CancelReturns(canceller) ==
    /\ Turn(Resumed(canceller), <<>>)
    /\ AfterCancel(canceller)
    /\ UNCHANGED <<approvalVars, planning, executing, run, cancellers, asksFirst,
                   gestures, attempts>>
=============================================================================
