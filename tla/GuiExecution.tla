----------------------------- MODULE GuiExecution -----------------------------
(***************************************************************************)
(* Planning and running a task from the desktop application.  A plan is    *)
(* [id, dry]: the id counts the plans asked for.  run_plan gives a retry   *)
(* or an escalation an execution id of its own, so the GUI tells the plan  *)
(* it shows, attempt 1, from what follows.  The execution service is the   *)
(* module ExecutionRun seen from its caller.                               *)
(***************************************************************************)
EXTENDS GuiWorkers

CONSTANTS
    MaxPlans,      \* bound of the plans asked for
    MaxAttempts,   \* of a run
    MaxSteps       \* length of an escalation path

VARIABLES
    execute,       \* [plan, result, prepared]: result is the plan it is of
    run,           \* the service's run_plan: [plan, attempt, step, reusable]
    asksFirst,     \* the policy wants an approval of the first attempt, too
    confirmed,     \* plans the user pressed the button for
    attempts       \* [plan, step] the adapter was started for

executeVars == <<execute, run, asksFirst, confirmed, attempts>>

NotShown == [plan |-> None, result |-> None]
NotRunning == [plan |-> None, attempt |-> 0, step |-> 0, reusable |-> FALSE]

ExecuteInit ==
    /\ execute = [plan |-> None, result |-> None, prepared |-> 0]
    /\ run = NotRunning
    /\ confirmed = {} /\ attempts = {}

-----------------------------------------------------------------------------
Prepare(task, dry) ==
    /\ ~busy["execute"]
    /\ IF task = "blank" THEN Refuse("execute") /\ UNCHANGED <<execute, confirmed, attempts>>
       ELSE /\ execute.prepared < MaxPlans
            /\ Begin("execute", "prepare", [id |-> execute.prepared + 1, dry |-> dry])
            /\ execute' = [plan |-> None, result |-> None, prepared |-> execute.prepared + 1]
            /\ confirmed' = {} /\ attempts' = {}
    /\ UNCHANGED <<run, asksFirst>>

\* A press that is dropped, because a plan or a run is under way.
PrepareDropped == busy["execute"] /\ UNCHANGED <<workerVars, executeVars>>

CreatePlan(i) ==
    /\ OnThread(i, "prepare", "begun")
    /\ \E value \in {threads[i].arg, Raised} : Emits(i, value)
    /\ UNCHANGED executeVars

ShowPlan ==
    /\ Delivers("prepare")
    /\ FinishesOrFails
    /\ execute' = [execute EXCEPT !.plan =
                     IF Delivered.value = Raised THEN @ ELSE Delivered.value]
    /\ UNCHANGED <<run, asksFirst, confirmed, attempts>>

\* Approve & Execute, or Complete Dry Run.
ConfirmPlan ==
    /\ ~busy["execute"] /\ execute.plan # None
    /\ Begin("execute", "run", execute.plan)
    /\ confirmed' = confirmed \cup {execute.plan}
    /\ UNCHANGED <<execute, run, asksFirst, attempts>>

\* Faulty: Cancel ends the busy state, too, as if the operation had ended.
CancelPlanFreely ==
    /\ execute' = [execute EXCEPT !.plan = None, !.result = None]
    /\ error' = [error EXCEPT !["execute"] = FALSE]
    /\ busy' = [busy EXCEPT !["execute"] = FALSE]
    /\ UNCHANGED <<queue, threads, events, run, asksFirst, confirmed, attempts>>

\* Cancel empties the page, whatever is under way goes on.
CancelPlan ==
    /\ execute' = [execute EXCEPT !.plan = None, !.result = None]
    /\ error' = [error EXCEPT !["execute"] = FALSE]
    /\ UNCHANGED <<busy, queue, threads, events, run, asksFirst, confirmed, attempts>>

-----------------------------------------------------------------------------
(***************************************************************************)
(* The service, on a thread of its own.                                    *)
(***************************************************************************)
\* A dry run is over at once; a plan the service refuses is an error.
StartRun(i) ==
    /\ OnThread(i, "run", "begun")
    /\ \/ Emits(i, Raised) /\ UNCHANGED run
       \/ threads[i].arg.dry /\ Emits(i, threads[i].arg) /\ UNCHANGED run
       \/ /\ ~threads[i].arg.dry
          /\ MovesTo(i, "deciding")
          /\ run' = [NotRunning EXCEPT !.plan = threads[i].arg, !.attempt = 1]
    /\ UNCHANGED <<execute, asksFirst, confirmed, attempts>>

EndsRun(i, value) == Emits(i, value) /\ run' = NotRunning

NeedsApproval == (asksFirst \/ run.step > 0) /\ ~run.reusable

\* Faulty: whatever follows from the plan is taken for the plan.
ApprovesAnything == TRUE

\* approve: the candidate has the execution id of the plan the button was pressed for.
Approves == run.attempt = 1

Decide(i) ==
    /\ OnThread(i, "run", "deciding")
    /\ \/ EndsRun(i, run.plan)                         \* the policy executes nothing
       \/ /\ NeedsApproval => Approves
          /\ MovesTo(i, "revalidating")
          /\ run' = [run EXCEPT !.reusable = @ \/ NeedsApproval]
       \/ NeedsApproval /\ ~Approves /\ EndsRun(i, run.plan)
    /\ UNCHANGED <<execute, asksFirst, confirmed, attempts>>

Revalidate(i) ==
    /\ OnThread(i, "run", "revalidating")
    /\ \/ /\ MovesTo(i, "attempt")
          /\ attempts' = attempts \cup {[plan |-> run.plan, step |-> run.step]}
          /\ UNCHANGED run
       \/ (\E value \in {run.plan, Raised} : EndsRun(i, value)) /\ UNCHANGED attempts
    /\ UNCHANGED <<execute, asksFirst, confirmed>>

EndAttempt(i) ==
    /\ OnThread(i, "run", "attempt")
    /\ \/ \E value \in {run.plan, Raised} : EndsRun(i, value)
       \/ /\ run.attempt < MaxAttempts
          /\ MovesTo(i, "deciding")
          /\ \/ run' = [run EXCEPT !.attempt = @ + 1, !.reusable = TRUE]      \* retry
             \/ /\ run.step < MaxSteps
                /\ run' = [run EXCEPT !.attempt = @ + 1, !.step = @ + 1,
                                      !.reusable = FALSE]
    /\ UNCHANGED <<execute, asksFirst, confirmed, attempts>>

ServiceStep(i) ==
    CreatePlan(i) \/ StartRun(i) \/ Decide(i) \/ Revalidate(i) \/ EndAttempt(i)

\* A result is shown beside the plan, which may be run again.
ShowResult ==
    /\ Delivers("run")
    /\ FinishesOrFails
    /\ execute' = [execute EXCEPT !.result =
                     IF Delivered.value = Raised THEN @ ELSE Delivered.value]
    /\ UNCHANGED <<run, asksFirst, confirmed, attempts>>
=============================================================================
