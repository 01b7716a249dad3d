------------------------------- MODULE GuiPages -------------------------------
(***************************************************************************)
(* The pages of the desktop application that read and decide: the overview *)
(* with its refresh, the pages that load from the snapshot store, Route,   *)
(* and Settings.  A snapshot is the number it has in the store, or would   *)
(* have where its save failed.                                             *)
(***************************************************************************)
EXTENDS GuiWorkers, ConfigWriter

CONSTANTS
    LoadPages,       \* of "usage", "models", "history": each loads when it is opened
    Tasks,           \* texts of the task field, "blank" among them
    LanguageField,   \* a field of the settings form
    MaxSnapshots     \* bound of the store

ASSUME LoadPagesAssumption == LoadPages \subseteq {"usage", "models", "history"}
ASSUME TasksAssumption == "blank" \in Tasks
ASSUME LanguageAssumption == LanguageField \in Fields

VARIABLES
    store,           \* number of the newest stored snapshot
    shown,           \* per page: the snapshot it shows, 0 for none
    recommendation,  \* of the overview: the task it is for
    route,           \* [task, result]: result is the task it is for
    settings         \* [config, saved, language]: language is the translations'

pageVars == <<store, shown, recommendation, route, settings>>

Gui == "gui"

ASSUME GuiIsAProcess == Gui \in Processes

FormInit ==
    settings = [config |-> Started(Gui), saved |-> FALSE,
                language |-> Started(Gui)[LanguageField]]

PagesInit ==
    /\ shown = [v \in LoadPages \cup {"overview"} |-> 0]
    /\ recommendation = None
    /\ route = [task |-> "blank", result |-> None]
    /\ FormInit

-----------------------------------------------------------------------------
(***************************************************************************)
(* Overview and the pages of the store.  While one is busy, further loads  *)
(* and refreshes of it are dropped.                                        *)
(***************************************************************************)
LoadOverview(live) ==
    /\ IF busy["overview"] THEN UNCHANGED workerVars
       ELSE Begin("overview", IF live THEN "refresh" ELSE "load", None)
    /\ UNCHANGED pageVars

LoadPage(v) ==
    /\ IF busy[v] THEN UNCHANGED workerVars ELSE Begin(v, "load", None)
    /\ UNCHANGED pageVars

ReadStore(i) ==
    /\ OnThread(i, "load", "begun")
    /\ \E value \in {store, Raised} : Emits(i, value)
    /\ UNCHANGED pageVars

\* A captured snapshot is shown, stored or not; a failing provider leaves the newest
\* there is. The provider's own status is asked for behind either and may raise.
RefreshOverview(i) ==
    /\ OnThread(i, "refresh", "begun")
    /\ \/ /\ store < MaxSnapshots
          /\ store' \in {store, store + 1}
          /\ \E value \in {store + 1, Raised} : Emits(i, value)
       \/ /\ \E value \in {store, Raised} : Emits(i, value)
          /\ UNCHANGED store
    /\ UNCHANGED <<shown, recommendation, route, settings>>

Shows(v) ==
    /\ FinishesOrFails
    /\ shown' = [shown EXCEPT ![v] = IF Delivered.value = Raised THEN @ ELSE Delivered.value]
    /\ UNCHANGED <<store, recommendation, route, settings>>

ShowOverview ==
    /\ Delivers("load") \/ Delivers("refresh")
    /\ Delivered.vm = "overview"
    /\ Shows("overview")

\* The last of the snapshots that were read, and the forecast calculated from them.
ShowPage ==
    /\ Delivers("load")
    /\ Delivered.vm \in LoadPages
    /\ Shows(Delivered.vm)

-----------------------------------------------------------------------------
(***************************************************************************)
(* Route.                                                                  *)
(***************************************************************************)
Analyze(task) ==
    /\ ~busy["route"]
    /\ route' = [route EXCEPT !.task = task]
    /\ IF task = "blank" THEN Refuse("route") ELSE Begin("route", "analyze", None)
    /\ UNCHANGED <<store, shown, recommendation, settings>>

\* The worker reads the task of the view model. None: nothing is stored.
RecommendLatest(i) ==
    /\ OnThread(i, "analyze", "begun")
    /\ \E value \in {route.task, None, Raised} : Emits(i, value)
    /\ UNCHANGED pageVars

\* Faulty: an answer without a recommendation is no failure, and nothing finishes.
ShowRouteSilently ==
    /\ Delivers("analyze")
    /\ IF Delivered.value \in {None, Raised}
       THEN /\ events' = Tail(events)
            /\ route' = [route EXCEPT !.result = None]
            /\ UNCHANGED <<busy, error, queue, threads, recommendation>>
       ELSE /\ Finishes
            /\ route' = [route EXCEPT !.result = Delivered.value]
            /\ recommendation' = Delivered.value
    /\ UNCHANGED <<store, shown, settings>>

\* A recommendation goes to the overview, too; a failure leaves the one it shows.
ShowRoute ==
    /\ Delivers("analyze")
    /\ IF Delivered.value \in {None, Raised}
       THEN /\ Fails
            /\ route' = [route EXCEPT !.result = None]
            /\ UNCHANGED recommendation
       ELSE /\ Finishes
            /\ route' = [route EXCEPT !.result = Delivered.value]
            /\ recommendation' = Delivered.value
    /\ UNCHANGED <<store, shown, settings>>

-----------------------------------------------------------------------------
(***************************************************************************)
(* Settings: the form's fields over the configuration the page holds, all  *)
(* of which is written.                                                    *)
(***************************************************************************)
\* validate_settings_update: the form, over the fields it does not have.
Candidate(language) == [settings.config EXCEPT ![LanguageField] = language]

SaveSettings ==
    /\ ~busy["settings"]
    /\ \/ \E language \in Values :
            /\ Begin("settings", "save", Candidate(language))
            /\ settings' = [settings EXCEPT !.saved = FALSE]
       \/ Refuse("settings") /\ UNCHANGED settings   \* a value that is not valid
    /\ UNCHANGED <<store, shown, recommendation, route>>

BeginSaving(i) ==
    /\ OnThread(i, "save", "begun")
    /\ BeginWrite(Gui, threads[i].arg)
    /\ MovesTo(i, "writing")
    /\ UNCHANGED pageVars

EndSaving(i) ==
    /\ OnThread(i, "save", "writing")
    /\ \/ writer[Gui].at = "saved" /\ Emits(i, writer[Gui].config)
       \/ writer[Gui].at = "failed" /\ Emits(i, Raised)
    /\ UNCHANGED <<fileVars, pageVars>>

\* The language is applied at once, other settings at the next start.
ShowSaved ==
    /\ Delivers("save")
    /\ FinishesOrFails
    /\ settings' = IF Delivered.value = Raised THEN settings
                   ELSE [config |-> Delivered.value, saved |-> TRUE,
                         language |-> Delivered.value[LanguageField]]
    /\ UNCHANGED <<store, shown, recommendation, route>>
=============================================================================
