---------------------------- MODULE QuotaPilotGui ----------------------------
(***************************************************************************)
(* The desktop application: its pages over the view models, the worker     *)
(* threads, and the terminal application as another process that shares    *)
(* the store and the configuration file.                                   *)
(***************************************************************************)
EXTENDS GuiPages, GuiExecution

CONSTANT Journeys   \* sets of pages: a session opens the pages of one of them

VARIABLES
    page,
    field,          \* the text in the task field of Route
    journey

guiVars == <<workerVars, fileVars, pageVars, executeVars, page, field, journey>>

Pages == {"overview", "route", "execute", "settings"} \cup LoadPages

ASSUME PagesHaveViewModels == Pages \subseteq ViewModels
ASSUME JourneysAssumption == \A j \in Journeys : j \subseteq Pages

Init ==
    /\ FileInit /\ WorkersInit /\ PagesInit /\ ExecuteInit
    /\ page = "overview" /\ field = "blank"
    /\ store \in 0..1
    /\ asksFirst \in BOOLEAN
    /\ journey \in Journeys
    /\ "overview" \notin journey => store = 0
    /\ "execute" \notin journey => ~asksFirst
    /\ "settings" \notin journey => file = EmptyFile

ElsePages == UNCHANGED <<fileVars, executeVars, page, field, journey>>
ElseExecute == UNCHANGED <<fileVars, pageVars, page, field, journey>>

-----------------------------------------------------------------------------
(***************************************************************************)
(* The user, who acts on the page that is open.                            *)
(***************************************************************************)
On(p) == alive[Gui] /\ page = p /\ p \in journey

\* navigate: a page that loads is loaded, again if it is open.
Loads(p) ==
    IF p = "overview" THEN LoadOverview(FALSE)
    ELSE IF p \in LoadPages THEN LoadPage(p)
    ELSE UNCHANGED <<workerVars, pageVars>>

Navigate ==
    /\ alive[Gui]
    /\ page' \in journey
    /\ Loads(page')
    /\ UNCHANGED <<fileVars, executeVars, field, journey>>

\* initialize, when the window is complete.
Initialize ==
    /\ On("overview") /\ LoadOverview(FALSE)
    /\ ElsePages

\* Ctrl+R, on any page.
Refresh ==
    /\ alive[Gui] /\ "overview" \in journey
    /\ LoadOverview(TRUE)
    /\ ElsePages

EditTask ==
    /\ On("route")
    /\ field' \in Tasks \ {field}
    /\ UNCHANGED <<workerVars, fileVars, pageVars, executeVars, page, journey>>

OnRoute ==
    /\ On("route")
    /\ Analyze(field)
    /\ ElsePages

\* Dry Run and Execute, beside a result, take the text of the field.
PrepareExecution ==
    /\ On("route") /\ route.result # None
    /\ "execute" \in journey
    /\ PrepareDropped \/ \E dry \in BOOLEAN : Prepare(field, dry)
    /\ page' = "execute"
    /\ UNCHANGED <<fileVars, pageVars, field, journey>>

OnExecute ==
    /\ On("execute") /\ execute.plan # None
    /\ \/ ConfirmPlan /\ UNCHANGED page
       \/ CancelPlan /\ page' = "route"
    /\ UNCHANGED <<fileVars, pageVars, field, journey>>

OnSettings ==
    /\ On("settings")
    /\ SaveSettings
    /\ ElsePages

User ==
    \/ Navigate \/ Initialize \/ Refresh \/ EditTask \/ OnRoute
    \/ PrepareExecution \/ OnExecute \/ OnSettings

-----------------------------------------------------------------------------
(***************************************************************************)
(* Threads, and what they deliver.                                         *)
(***************************************************************************)
PageWork(i) ==
    \/ (ReadStore(i) \/ RefreshOverview(i) \/ RecommendLatest(i)) /\ ElsePages
    \/ (BeginSaving(i) \/ EndSaving(i)) /\ UNCHANGED <<executeVars, page, field, journey>>

ThreadStep(v) ==
    /\ alive[Gui]
    /\ \E i \in DOMAIN threads :
         /\ threads[i].vm = v
         /\ PageWork(i) \/ (ServiceStep(i) /\ ElseExecute)

FileStep(p) ==
    /\ WriterStep(p)
    /\ UNCHANGED <<workerVars, pageVars, executeVars, page, field, journey>>

ThreadBegins ==
    /\ alive[Gui] /\ TakeThread
    /\ UNCHANGED <<fileVars, pageVars, executeVars, page, field, journey>>

Deliver ==
    /\ alive[Gui]
    /\ \/ (ShowOverview \/ ShowPage \/ ShowRoute \/ ShowSaved) /\ ElsePages
       \/ (ShowPlan \/ ShowResult) /\ ElseExecute

-----------------------------------------------------------------------------
(***************************************************************************)
(* Other processes, and the end of this one.                               *)
(***************************************************************************)
Others == Processes \ {Gui}

\* What another process took for its own: its last save, or what it started with.
Held(p) == IF writer[p].at = "saved" THEN writer[p].config ELSE Started(p)

\* The settings page of the terminal application changes any field.
OthersSave ==
    /\ "settings" \in journey
    /\ \E p \in Others : \E f \in Fields : \E v \in Values :
         BeginWrite(p, [Held(p) EXCEPT ![f] = v])
    /\ UNCHANGED <<workerVars, pageVars, executeVars, page, field, journey>>

KillProcess ==
    /\ "settings" \in journey
    /\ \E p \in Processes : Kill(p)
    /\ UNCHANGED <<workerVars, pageVars, executeVars, page, field, journey>>

\* Another session of this application begins in Init, with what is in the file then.
RestartProcess ==
    /\ \E p \in Others : Restart(p)
    /\ UNCHANGED <<workerVars, pageVars, executeVars, page, field, journey>>

Next ==
    \/ User \/ ThreadBegins \/ Deliver
    \/ \E v \in ViewModels : ThreadStep(v)
    \/ \E p \in Processes : FileStep(p)
    \/ OthersSave \/ KillProcess \/ RestartProcess

\* The run is in the adapter's hands, whose awaits outside its timeout have no limit
\* (codex_cli.py 162 and 169).
Attempting == \E i \in DOMAIN threads : OnThread(i, "run", "attempt")

\* Every thread, the writer on it, the pool and the GUI thread go on. A run asks
\* nobody, but nobody owes it the end of an attempt.
Spec ==
    /\ Init /\ [][Next]_guiVars
    /\ WF_guiVars(ThreadBegins) /\ WF_guiVars(Deliver) /\ WF_guiVars(FileStep(Gui))
    /\ \A v \in ViewModels : WF_guiVars((v = "execute" => ~Attempting) /\ ThreadStep(v))

-----------------------------------------------------------------------------
\* An attempt is of a plan whose button was pressed, at the model and effort that was
\* shown: an escalation is refused for want of an approval of its own, also behind a
\* retry and when the policy asks for nothing at first: docs/DECISIONS.md:965-967.
EscalationsAreNotApproved ==
    \A a \in attempts : a.plan \in confirmed /\ ~a.plan.dry /\ a.step = 0

\* The plan and the result on the page are of the last plan that was asked for,
\* although Cancel lets a plan or a run go on that it has taken off the page.
ShowsTheLatestPlan ==
    /\ execute.plan # None => execute.plan.id = execute.prepared
    /\ execute.result # None => execute.result.id = execute.prepared
    /\ run.plan # None => run.plan.id = execute.prepared

\* No view model stays busy: whatever its operation returns or raises, and whatever
\* is cancelled meanwhile, its page can be used again. An attempt that hangs, which
\* no button of the page ends, keeps the execute page busy and no other.
BusyEnds ==
    /\ \A v \in ViewModels \ {"execute"} : busy[v] ~> ~busy[v] \/ ~alive[Gui]
    /\ []<>~Attempting => (busy["execute"] ~> ~busy["execute"] \/ ~alive[Gui])
=============================================================================
