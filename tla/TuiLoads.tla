------------------------------- MODULE TuiLoads -------------------------------
(***************************************************************************)
(* What the terminal application reads: the overview's report (persisted   *)
(* first, then one provider refresh at a time) and the pages that load     *)
(* from the snapshot store, each with a flag for a load asked for and one  *)
(* for a load under way.  Snapshots are numbered as they are taken.         *)
(***************************************************************************)
EXTENDS SequencesExt, TuiWorkers

CONSTANTS
    LoadKinds,     \* the pages that load: of "usage", "history", "models", "doctor"
    MaxSnapshots   \* bound of the snapshots taken

ASSUME LoadKindsAssumption == LoadKinds \subseteq {"usage", "history", "models", "doctor"}

VARIABLES
    store,         \* [newest, taken, unsaved]: the newest stored snapshot, the newest
                   \* taken, and those taken here whose save failed
    overview,      \* [report, active, mounted, started, refreshes]
    usageRefresh,  \* a refresh asked for on the usage page is not over yet
    loads          \* per page: [pending, at, read, shown, status]

loadVars == <<store, overview, usageRefresh, loads>>

NoLoad == [pending |-> FALSE, at |-> "idle", read |-> 0, shown |-> 0, status |-> "empty"]

LoadsInit ==
    /\ store \in {[newest |-> n, taken |-> n, unsaved |-> {}] : n \in 0..1}
    /\ overview = [report |-> 0, active |-> FALSE, mounted |-> FALSE, started |-> FALSE,
                   refreshes |-> <<>>]
    /\ usageRefresh = FALSE
    /\ loads = [k \in LoadKinds |-> NoLoad]

-----------------------------------------------------------------------------
(***************************************************************************)
(* The pages.  A load asked for while one is pending is dropped.           *)
(***************************************************************************)
Idle(k) == ~loads[k].pending /\ loads[k].at = "idle"

Asked(k) == IF Idle(k) THEN [loads EXCEPT ![k].pending = TRUE] ELSE loads

Workers(k) == IF Idle(k) THEN <<k>> ELSE <<>>

\* The models page forgets its rows while it loads, the others keep theirs.
BeginLoad(k) ==
    /\ Turn(k, <<>>)
    /\ loads' = [loads EXCEPT ![k].at = "reading", ![k].status = "loading",
                              ![k].shown = IF k = "models" THEN 0 ELSE @]
    /\ UNCHANGED <<store, overview, usageRefresh>>

ReadStore(k) ==
    /\ loads[k].at = "reading"
    /\ loads' = [loads EXCEPT ![k].at = "projecting", ![k].read = store.newest]
    /\ UNCHANGED <<ready, store, overview, usageRefresh>>

FinishLoad(k) ==
    /\ loads[k].at = "projecting"
    /\ loads' = [loads EXCEPT ![k] =
                   [NoLoad EXCEPT !.shown = loads[k].read,
                                  !.status = IF loads[k].read = 0 THEN "empty" ELSE "ready"]]
    /\ UNCHANGED <<ready, store, overview, usageRefresh>>

\* Faulty: a load that fails forgets what was shown.
LoadFailsEmpty(k) ==
    /\ loads[k].at # "idle"
    /\ loads' = [loads EXCEPT ![k] = [NoLoad EXCEPT !.status = "error"]]
    /\ UNCHANGED <<ready, store, overview, usageRefresh>>

LoadFails(k) ==
    /\ loads[k].at # "idle"
    /\ loads' = [loads EXCEPT ![k] = [NoLoad EXCEPT !.shown = loads[k].shown,
                                                    !.status = "error"]]
    /\ UNCHANGED <<ready, store, overview, usageRefresh>>

-----------------------------------------------------------------------------
(***************************************************************************)
(* The overview.  A refresh is a coroutine [at, by, previous]; the code    *)
(* means to run one at a time, nothing in this model forces it.            *)
(***************************************************************************)
\* Once, after the first frame.
StartOverview ==
    /\ ~overview.mounted
    /\ overview' = [overview EXCEPT !.mounted = TRUE]
    /\ Start(<<"startup">>)
    /\ UNCHANGED <<store, usageRefresh, loads>>

Running(at, by) ==
    [overview EXCEPT !.active = TRUE,
                     !.refreshes = Append(@, [at |-> at, by |-> by, previous |-> 0])]

BeginStartup ==
    /\ Turn("startup", <<>>)
    /\ overview' = IF overview.started \/ overview.active THEN overview
                   ELSE [Running("local", "startup") EXCEPT !.started = TRUE]
    /\ UNCHANGED <<store, usageRefresh, loads>>

RefreshOverview ==
    /\ ~overview.active
    /\ Start(<<"refresh">>)
    /\ UNCHANGED loadVars

BeginRefresh ==
    /\ Turn("refresh", <<>>)
    /\ overview' = IF overview.active THEN overview ELSE Running("provider", "overview")
    /\ UNCHANGED <<store, usageRefresh, loads>>

RefreshUsage ==
    /\ ~overview.active /\ ~loads["usage"].pending /\ ~usageRefresh
    /\ usageRefresh' = TRUE
    /\ Start(<<"usageRefresh">>)
    /\ UNCHANGED <<store, overview, loads>>

\* Behind another refresh this one is over at once, and its load still follows.
BeginUsageRefresh ==
    \/ /\ ~overview.active
       /\ Turn("usageRefresh", <<>>)
       /\ overview' = Running("provider", "usage")
       /\ UNCHANGED <<store, usageRefresh, loads>>
    \/ /\ overview.active
       /\ Turn("usageRefresh", Workers("usage"))
       /\ usageRefresh' = FALSE
       /\ loads' = Asked("usage")
       /\ UNCHANGED <<store, overview>>

\* The i-th refresh moves on to another phase.
MovesOn(i, at, report) ==
    /\ overview' = [overview EXCEPT !.refreshes[i] =
                      [at |-> at, by |-> @.by, previous |-> report],
                                    !.report = report]
    /\ UNCHANGED <<ready, usageRefresh, loads>>

\* The i-th refresh ends with this report; one of the usage page loads the samples.
Ends(i, report) ==
    /\ overview' = [overview EXCEPT !.report = report, !.active = FALSE,
                                    !.refreshes = RemoveAt(@, i)]
    /\ IF overview.refreshes[i].by = "usage"
       THEN /\ usageRefresh' = FALSE
            /\ loads' = Asked("usage")
            /\ Start(Workers("usage"))
       ELSE UNCHANGED <<ready, usageRefresh, loads>>

LocalStatus(i) ==
    /\ overview.refreshes[i].at = "local"
    /\ \/ MovesOn(i, "provider", store.newest)
       \/ Ends(i, overview.report)  \* the status service raised
    /\ UNCHANGED store

InspectProvider(i) ==
    /\ overview.refreshes[i].at = "provider"
    /\ \/ MovesOn(i, "refreshing", overview.report)
       \/ Ends(i, overview.report)  \* failed, or unsafe to refresh
    /\ UNCHANGED store

\* One more snapshot was taken; it is kept unless its save fails.
Captured(kept) ==
    LET new == store.taken + 1
    IN  [ newest |-> IF kept THEN new ELSE store.newest,
          taken |-> new,
          unsaved |-> IF kept THEN store.unsaved ELSE store.unsaved \cup {new} ]

\* The status service's answer: a snapshot just captured, live when it was saved and a
\* fallback when it was not; else the newest stored one; else, for nothing or an
\* exception, which may also follow the capture, the report there was before.
Refreshed(i) ==
    /\ overview.refreshes[i].at = "refreshing"
    /\ \/ /\ store.taken < MaxSnapshots
          /\ \E kept \in BOOLEAN : store' = Captured(kept)
          /\ Ends(i, store.taken + 1) \/ Ends(i, overview.refreshes[i].previous)
       \/ /\ store.newest # 0
          /\ Ends(i, store.newest)
          /\ UNCHANGED store
       \/ /\ Ends(i, overview.refreshes[i].previous)
          /\ UNCHANGED store

OverviewStep ==
    \E i \in DOMAIN overview.refreshes : LocalStatus(i) \/ InspectProvider(i) \/ Refreshed(i)

\* Another process stores a snapshot.
OthersCapture ==
    /\ store.taken < MaxSnapshots
    /\ store' = Captured(TRUE)
    /\ UNCHANGED <<ready, overview, usageRefresh, loads>>

-----------------------------------------------------------------------------
\* Keys, startup and page changes may ask for a refresh in any order, and still at
\* most one provider operation of the overview is under way, and the active flag,
\* which hides further requests, tells so.
OneRefreshAtATime ==
    /\ Len(overview.refreshes) <= 1
    /\ overview.active <=> overview.refreshes # <<>>

\* What was shown of the store is not unshown: a page never falls back to an older
\* snapshot, and a report steps back only over snapshots that were never stored, down
\* to the newest that was, however refreshes, failed saves, loads and other processes'
\* captures interleave (services/status.py 54-69, tui/viewmodels/overview.py 145-171).
NeverShowsOlder ==
    [][ /\ overview'.report + 1 .. overview.report \subseteq store.unsaved
        /\ \A k \in LoadKinds \ {"models"} : loads'[k].shown >= loads[k].shown ]_loadVars
=============================================================================
