---------------------------- MODULE QuotaPilotApp ----------------------------
(***************************************************************************)
(* The terminal application: its keys and buttons over navigation,         *)
(* execution, settings and loads, while workers, the services and other    *)
(* processes take their steps in between.                                  *)
(***************************************************************************)
EXTENDS TuiExecution

CONSTANT Journeys    \* [pages, goals, startup]: bounds a session to some pages and
                     \* texts of the task editor, and says whether it was built
                     \* with enable_startup and refreshes

VARIABLES
    overlay,         \* the question before quitting an active execution is shown
    journey

appVars == <<ready, settingsVars, loadVars, navigationVars, routeVars, executionVars,
             overlay, journey>>

Pages == {"overview", "route", "execute", "models", "usage", "history", "settings", "doctor"}

ASSUME JourneysAssumption ==
    \A j \in Journeys : j.pages \subseteq Pages /\ j.startup \in BOOLEAN

Init ==
    /\ ready = <<>>
    /\ SettingsInit /\ LoadsInit /\ NavigationInit /\ ExecutionInit
    /\ overlay = FALSE
    /\ journey \in Journeys
    /\ ~journey.startup => store.newest = 0
    /\ "execute" \notin journey.pages => ~asksFirst

\* The user acts on a page, not on the overlay.
Acts == Gesture /\ ~overlay /\ ~quit

On(page) == Acts /\ dest = page

\* What the parts leave alone.
ElseSettings == UNCHANGED <<loadVars, navigationVars, routeVars, executionVars, overlay, journey>>
ElseLoads == UNCHANGED <<settingsVars, navigationVars, routeVars, executionVars, overlay, journey>>
ElseNavigation == UNCHANGED <<routeVars, executionVars, overlay, journey>>
ElseRoute == UNCHANGED <<settingsVars, loadVars, navigationVars, executionVars, overlay, journey>>
ElseExecution == UNCHANGED <<settingsVars, loadVars, navigationVars, routeVars, overlay, journey>>

-----------------------------------------------------------------------------
(***************************************************************************)
(* Keys and buttons.                                                       *)
(***************************************************************************)
\* An active execution keeps its page, whatever destination is asked for.
GoTo ==
    /\ Acts
    /\ \E d \in journey.pages :
         /\ d = "execute" \/ ~execute.active
         /\ Navigate(d)
    /\ ElseNavigation

CancelPressed ==
    /\ execute.active
    /\ Start(<<"cancel">>)
    /\ UNCHANGED <<settingsVars, navigationVars, executionVars>>

LeavesExecution ==
    /\ ~execute.active
    /\ Clears
    /\ NavigateBack
    /\ UNCHANGED <<ready, asked, held, planning, executing, run, cancellers, quit,
                   asksFirst, gestures, attempts>>

Escape ==
    /\ Acts
    /\ \/ dest = "execute" /\ CancelPressed
       \/ dest = "execute" /\ LeavesExecution /\ Rejects
       \/ /\ dest = "settings" /\ CloseEditor
          /\ UNCHANGED <<ready, navigationVars, executionVars>>
       \/ /\ dest # "execute"
          /\ dest = "settings" => ~settings.editor
          /\ NavigateBack
          /\ UNCHANGED <<ready, executionVars>>
    /\ UNCHANGED <<loadVars, routeVars, overlay, journey>>

CancelButton ==
    /\ On("execute")
    /\ view.plan # None /\ view.cancel
    /\ CancelPressed \/ (LeavesExecution /\ UNCHANGED <<approved, answer>>)
    /\ UNCHANGED <<loadVars, routeVars, overlay, journey>>

\* Shown for a dry run and for a result.
BackToRoute ==
    /\ On("execute")
    /\ view.plan # None /\ ~view.cancel
    /\ ~execute.active
    /\ Navigate("route")
    /\ ElseNavigation

RequestQuit ==
    /\ Acts
    /\ \/ /\ dest = "settings" /\ Intercepts
          /\ Warn
          /\ UNCHANGED <<execute, quit, overlay>>
       \/ /\ ~(dest = "settings" /\ Intercepts)
          /\ IF dest = "settings" THEN LeavePage ELSE UNCHANGED settingsVars
          /\ overlay' = execute.active
          /\ quit' = ~execute.active
          /\ UNCHANGED execute
    /\ UNCHANGED <<ready, loadVars, navigationVars, routeVars, view, approvalVars, planning,
                   executing, run, cancellers, asksFirst, gestures, attempts, journey>>

\* _quit_execution_chosen: go on, or cancel and quit.
QuitExecutionChosen ==
    /\ overlay
    /\ overlay' = FALSE
    /\ \/ UNCHANGED ready
       \/ Start(<<"cancelAndQuit">>)
    /\ UNCHANGED <<settingsVars, loadVars, navigationVars, routeVars, executionVars, journey>>

Refresh ==
    /\ journey.startup
    /\ \/ On("overview") /\ RefreshOverview
       \/ On("usage") /\ RefreshUsage
       \/ \E k \in LoadKinds \ {"usage"} :
            /\ On(k)
            /\ loads' = Asked(k)
            /\ Start(Workers(k))
            /\ UNCHANGED <<store, overview, usageRefresh>>
    /\ ElseLoads

OnSettings ==
    /\ On("settings")
    /\ \/ (SelectField \/ CloseEditor \/ Stage \/ FilterSettings \/ DiscardDraft)
          /\ UNCHANGED ready
       \/ SaveSettings
    /\ ElseSettings

OnRoute ==
    /\ On("route")
    /\ \/ (AnalyzeTask \/ \E t \in journey.goals : EditTask(t)) /\ ElseRoute
       \/ /\ "execute" \in journey.pages
          /\ \E dry \in BOOLEAN : PrepareExecution(dry)
          /\ UNCHANGED <<settingsVars, loadVars, routeVars, overlay, journey>>

Approve == On("execute") /\ ApproveExecution /\ ElseExecution

-----------------------------------------------------------------------------
(***************************************************************************)
(* Workers and services.                                                   *)
(***************************************************************************)
WorkerTurns ==
    \/ BeginSave /\ ElseSettings
    \/ /\ \/ BeginStartup \/ BeginRefresh \/ BeginUsageRefresh
          \/ \E k \in LoadKinds : BeginLoad(k)
       /\ ElseLoads
    \/ BeginAnalyze /\ ElseRoute
    \/ (BeginRun \/ RunReturns \/ \E dry \in BOOLEAN : BeginPrepare(dry)) /\ ElseExecution
    \/ /\ \E c \in {"cancel", "cancelAndQuit"} : CancelExecution(c) \/ CancelReturns(c)
       /\ UNCHANGED <<loadVars, routeVars, overlay, journey>>

ExecutionArrivals ==
    /\ Arrival
    /\ \/ PlanArrives \/ ServiceDecides \/ ServiceIsAnswered
       \/ ServiceRevalidates \/ AttemptEnds \/ CleanupEnds
    /\ ElseExecution

OtherArrivals ==
    /\ Arrival
    /\ \/ SaveEnds /\ ElseSettings
       \/ /\ \/ OverviewStep
             \/ \E k \in LoadKinds : ReadStore(k) \/ FinishLoad(k) \/ LoadFails(k)
          /\ ElseLoads
       \/ AnalysisArrives /\ ElseRoute

Turns == ~quit /\ WorkerTurns
Services == ~quit /\ ExecutionArrivals

Startup == ~quit /\ journey.startup /\ StartOverview /\ ElseLoads

Others == ~quit /\ journey.startup /\ OthersCapture /\ ElseLoads

Next ==
    \/ GoTo \/ Escape \/ CancelButton \/ BackToRoute \/ RequestQuit \/ QuitExecutionChosen
    \/ Refresh \/ OnSettings \/ OnRoute \/ Approve
    \/ Turns \/ Services \/ (~quit /\ OtherArrivals) \/ Startup \/ Others

\* The run is in the adapter's hands, whose awaits outside its timeout have no limit
\* (codex_cli.py 162 and 169).
WithAdapter == run.at \in {"attempt", "cleaning"}

\* The loop gives every worker its turn, and the services' answers are handled if the
\* loop reaches them again and again; nobody owes the adapter's.
Spec ==
    /\ Init /\ [][Next]_appVars
    /\ WF_appVars(Turns) /\ SF_appVars(~WithAdapter /\ Services)

-----------------------------------------------------------------------------
\* No attempt starts for a plan, or an escalation of it, that the user did not approve
\* by a gesture of their own while the page showed exactly this plan, also when the
\* policy asks for nothing: docs/PHASE9_TUI_CONTRACT.md 7.3.
AttemptsWereApproved == attempts \subseteq gestures

\* While the service waits for an answer, the page shows the plan it asks about with a
\* live approve button, whatever else finished, was cleared or was prepared meanwhile.
QuestionIsShown ==
    (run.at = "waiting" /\ answer = "open") =>
        /\ held /\ asked = run.plan
        /\ view.plan = run.plan /\ view.approve /\ view.cancel

\* At most one plan is made or run, and the flag that shuts the other gestures out is
\* up exactly then.
OneExecutionAtATime ==
    /\ planning.dry = None \/ run.at = "none"
    /\ execute.active <=> (planning.dry # None \/ run.at # "none")

\* Whatever keys are pressed before the workers they start have their turns, the
\* application plans, runs and refreshes one thing at a time, and its flags say so.
OneOperationAtATime == OneExecutionAtATime /\ OneRefreshAtATime

\* The application exits behind a run, never with one under way.
QuitLeavesNoRun == quit => run.at \notin Live

\* A recommendation on the route page is for the text in its editor, however often
\* the text changed while the answer was under way.
RouteMatchesTask == route.context \in {None, route.task}

\* Planning and running end, or wait for the user, whatever keys are pressed, if only
\* the keys let the loop catch up time and again and no call of the adapter hangs.
ExecutionEnds ==
    []<>Arrival /\ []<>~WithAdapter
      => (execute.active ~> (~execute.active \/ run.at = "waiting" \/ quit))

\* Leaving the settings page throws unsaved changes away only where the page has just
\* said that leaving again would: docs/CUI_DESIGN.md 20.
DiscardIsConfirmed ==
    [][(dest = "settings" /\ (dest' # dest \/ quit' # quit) /\ Dirty)
         => settings.message = "discard_confirm"]_appVars
=============================================================================
