-------------------------- MODULE QuotaPilotAppProofs --------------------------
(***************************************************************************)
(* Proofs about QuotaPilotApp for any pages that load, plans, texts and    *)
(* configurations, and any bound.                                          *)
(***************************************************************************)
EXTENDS QuotaPilotApp, TLAPS

-----------------------------------------------------------------------------
(***************************************************************************)
(* Types.                                                                  *)
(***************************************************************************)
Plans == [id : PlanIds, step : Nat, dry : BOOLEAN]

ExecutionWorkers ==
    {"prepare", "prepareDry", "run", "runReturns", "cancel", "cancelAndQuit", "exit", "back"}

OtherWorkers ==
    {"save", "startup", "refresh", "usageRefresh", "analyze",
     "usage", "history", "models", "doctor"}

Names == ExecutionWorkers \cup OtherWorkers

Statuses == {"empty", "planning", "ready", "running", "awaiting_approval", "result", "error",
             "cancelled"}

States == [status : Statuses, plan : OrNone(Plans), result : BOOLEAN, active : BOOLEAN]

Runs == [at : Live \cup {"none", "over"}, origin : OrNone(Plans), plan : OrNone(Plans),
         reusable : BOOLEAN, count : Nat, end : {"none", "result", "error", "cancelled"}]

ExecutionTypes ==
    /\ execute \in States
    /\ view \in [plan : OrNone(Plans), approve : BOOLEAN, cancel : BOOLEAN]
    /\ approved \in OrNone(Plans) /\ asked \in OrNone(Plans)
    /\ held \in BOOLEAN /\ answer \in {"open", "yes", "no"}
    /\ planning \in [pending : BOOLEAN, dry : OrNone(BOOLEAN)]
    /\ executing \in BOOLEAN
    /\ run \in Runs
    /\ cancellers \in Seq({"cancel", "cancelAndQuit"})
    /\ quit \in BOOLEAN /\ asksFirst \in BOOLEAN
    /\ gestures \subseteq Plans /\ attempts \subseteq Plans

-----------------------------------------------------------------------------
(***************************************************************************)
(* The workers that wait for their first step.                             *)
(***************************************************************************)
In(w, q) == \E i \in DOMAIN q : q[i] = w

Once(w, q) == \A i, j \in DOMAIN q : q[i] = w /\ q[j] = w => i = j

NoneBefore(v, w, q) == \A i, j \in DOMAIN q : q[i] = v /\ q[j] = w => j < i

\* One worker prepares, and only while none is planning.
PrepareQueue ==
    /\ Once("prepare", ready) /\ Once("prepareDry", ready)
    /\ ~(In("prepare", ready) /\ In("prepareDry", ready))
    /\ In("prepare", ready) \/ In("prepareDry", ready) => planning.pending /\ planning.dry = None
    /\ planning.dry # None => planning.pending

\* One worker runs, before the run it starts; one returns from the run that is over.
RunQueue ==
    /\ Once("run", ready) /\ Once("runReturns", ready)
    /\ In("run", ready) => run.at = "none"
    /\ In("runReturns", ready) => run.at = "over"
    /\ run.at = "over" => run.end # "none"
    /\ executing <=> In("run", ready) \/ run.at # "none"

\* What exits behind a run has its turn before another run begins.
ExitQueue ==
    /\ In("exit", ready) => run.at \notin Live
    /\ NoneBefore("run", "exit", ready)

ShownPlan ==
    /\ execute.plan # None => view.plan = execute.plan
    /\ run.at # "none" => run.plan # None /\ ~run.plan.dry

Question ==
    /\ held <=> run.at = "waiting" /\ answer = "open"
    /\ answer = "open" => held
    /\ held => /\ asked = run.plan
               /\ execute.plan = run.plan
               /\ execute.status = "awaiting_approval" /\ ~execute.result
               /\ view.approve /\ view.cancel

Approvals ==
    /\ approved # None => executing /\ approved \in gestures
    /\ In("run", ready) /\ execute.plan # None /\ ~execute.active => execute.plan \in gestures
    /\ run.at = "waiting" /\ answer = "yes" => run.plan \in gestures
    /\ run.at # "none" /\ (run.reusable \/ run.plan.step = 0
                             \/ run.at \in {"revalidating", "attempt", "cleaning"})
         => run.plan \in gestures

ExecutionInv ==
    /\ ready \in Seq(Names)
    /\ ExecutionTypes
    /\ PrepareQueue /\ RunQueue /\ ExitQueue
    /\ OneExecutionAtATime
    /\ ShownPlan /\ Question /\ Approvals
    /\ AttemptsWereApproved
    /\ QuitLeavesNoRun

-----------------------------------------------------------------------------
Texts == {"blank"} \cup UNION {j.goals : j \in Journeys}

RouteInv ==
    /\ route \in [task : Texts, context : OrNone(Texts), analyzing : OrNone(Texts),
                  pending : BOOLEAN]
    /\ journey \in Journeys
    /\ RouteMatchesTask

Refreshes == [at : {"local", "provider", "refreshing"}, by : {"startup", "overview", "usage"},
              previous : Nat]

PageLoads == [pending : BOOLEAN, at : {"idle", "reading", "projecting"}, read : Nat,
              shown : Nat, status : {"empty", "loading", "ready", "error"}]

Stores == [newest : Nat, taken : Nat, unsaved : SUBSET Nat]

LoadTypes ==
    /\ store \in Stores
    /\ overview \in [report : Nat, active : BOOLEAN, mounted : BOOLEAN, started : BOOLEAN,
                     refreshes : Seq(Refreshes)]
    /\ loads \in [LoadKinds -> PageLoads]

\* Every snapshot taken after the newest stored one was not stored.
AllAccounted ==
    /\ store.newest <= store.taken
    /\ store.newest + 1 .. store.taken \subseteq store.unsaved

ReadsAreCurrent ==
    /\ overview.report <= store.taken
    /\ \A i \in DOMAIN overview.refreshes :
         overview.refreshes[i].at = "refreshing"
           => overview.refreshes[i].previous = overview.report
    /\ \A k \in LoadKinds :
         /\ loads[k].shown <= store.newest /\ loads[k].read <= store.newest
         /\ loads[k].at = "projecting" => loads[k].shown <= loads[k].read

LoadInv == LoadTypes /\ OneRefreshAtATime /\ AllAccounted /\ ReadsAreCurrent
-----------------------------------------------------------------------------
(***************************************************************************)
(* What a name in a queue amounts to when queues are joined and taken      *)
(* from.                                                                   *)
(***************************************************************************)
LEMMA JoinedAt ==
  ASSUME NEW S, NEW q \in Seq(S), NEW s \in Seq(S)
  PROVE  /\ q \o s \in Seq(S)
         /\ DOMAIN (q \o s) = 1 .. (Len(q) + Len(s))
         /\ \A i \in 1 .. Len(q) : (q \o s)[i] = q[i]
         /\ \A i \in 1 .. Len(s) : (q \o s)[Len(q) + i] = s[i]
  OBVIOUS

LEMMA JoinedIn ==
  ASSUME NEW S, NEW q \in Seq(S), NEW s \in Seq(S), NEW w
  PROVE  In(w, q \o s) <=> In(w, q) \/ In(w, s)
<1> DEFINE t == q \o s
<1>1. /\ DOMAIN t = 1 .. (Len(q) + Len(s))
      /\ \A i \in 1 .. Len(q) : t[i] = q[i]
      /\ \A i \in 1 .. Len(s) : t[Len(q) + i] = s[i]
      /\ Len(q) \in Nat /\ Len(s) \in Nat
      /\ DOMAIN q = 1 .. Len(q) /\ DOMAIN s = 1 .. Len(s)
  BY JoinedAt
<1> HIDE DEF t
<1>2. ASSUME NEW i \in DOMAIN t, t[i] = w
      PROVE  In(w, q) \/ In(w, s)
  <2>1. CASE i \in 1 .. Len(q)
    BY <1>1, <1>2, <2>1 DEF In
  <2>2. CASE i \notin 1 .. Len(q)
    <3>1. i - Len(q) \in 1 .. Len(s) /\ i = Len(q) + (i - Len(q))
      BY <1>1, <2>2
    <3> QED
      BY <1>1, <1>2, <3>1 DEF In
  <2> QED
    BY <2>1, <2>2
<1>3. ASSUME NEW i \in DOMAIN q, q[i] = w
      PROVE  In(w, t)
  BY <1>1, <1>3 DEF In
<1>4. ASSUME NEW i \in DOMAIN s, s[i] = w
      PROVE  In(w, t)
  <2>1. Len(q) + i \in DOMAIN t
    BY <1>1
  <2> QED
    BY <1>1, <1>4, <2>1 DEF In
<1>5. In(w, t) <=> In(w, q) \/ In(w, s)
  BY <1>2, <1>3, <1>4 DEF In
<1> QED
  BY <1>5 DEF t

LEMMA JoinedOnce ==
  ASSUME NEW S, NEW q \in Seq(S), NEW s \in Seq(S), NEW w,
         Once(w, q), Once(w, s), ~(In(w, q) /\ In(w, s))
  PROVE  Once(w, q \o s)
<1> DEFINE t == q \o s
<1>1. /\ DOMAIN t = 1 .. (Len(q) + Len(s))
      /\ \A i \in 1 .. Len(q) : t[i] = q[i]
      /\ \A i \in 1 .. Len(s) : t[Len(q) + i] = s[i]
      /\ Len(q) \in Nat /\ Len(s) \in Nat
      /\ DOMAIN q = 1 .. Len(q) /\ DOMAIN s = 1 .. Len(s)
  BY JoinedAt
<1> HIDE DEF t
<1>2. ASSUME NEW i \in DOMAIN t, i \notin 1 .. Len(q)
      PROVE  i - Len(q) \in 1 .. Len(s) /\ t[i] = s[i - Len(q)]
  <2>1. i - Len(q) \in 1 .. Len(s) /\ i = Len(q) + (i - Len(q))
    BY <1>1, <1>2
  <2> QED
    BY <1>1, <2>1
<1>3. ASSUME NEW i \in DOMAIN t, NEW j \in DOMAIN t, t[i] = w, t[j] = w
      PROVE  i = j
  <2>1. CASE i \in 1 .. Len(q) /\ j \in 1 .. Len(q)
    BY <1>1, <1>3, <2>1 DEF Once
  <2>2. CASE i \notin 1 .. Len(q) /\ j \notin 1 .. Len(q)
    <3>1. i - Len(q) = j - Len(q)
      BY <1>1, <1>2, <1>3, <2>2 DEF Once
    <3> QED
      BY <1>1, <3>1
  <2>3. CASE ~(i \in 1 .. Len(q) <=> j \in 1 .. Len(q))
    BY <1>1, <1>2, <1>3, <2>3 DEF In
  <2> QED
    BY <2>1, <2>2, <2>3
<1> QED
  BY <1>3 DEF Once, t

LEMMA JoinedNoneBefore ==
  ASSUME NEW S, NEW q \in Seq(S), NEW s \in Seq(S), NEW v, NEW w,
         NoneBefore(v, w, q), NoneBefore(v, w, s), ~(In(v, q) /\ In(w, s))
  PROVE  NoneBefore(v, w, q \o s)
<1> DEFINE t == q \o s
<1>1. /\ DOMAIN t = 1 .. (Len(q) + Len(s))
      /\ \A i \in 1 .. Len(q) : t[i] = q[i]
      /\ \A i \in 1 .. Len(s) : t[Len(q) + i] = s[i]
      /\ Len(q) \in Nat /\ Len(s) \in Nat
      /\ DOMAIN q = 1 .. Len(q) /\ DOMAIN s = 1 .. Len(s)
  BY JoinedAt
<1> HIDE DEF t
<1>2. ASSUME NEW i \in DOMAIN t, i \notin 1 .. Len(q)
      PROVE  i - Len(q) \in 1 .. Len(s) /\ t[i] = s[i - Len(q)]
  <2>1. i - Len(q) \in 1 .. Len(s) /\ i = Len(q) + (i - Len(q))
    BY <1>1, <1>2
  <2> QED
    BY <1>1, <2>1
<1>3. ASSUME NEW i \in DOMAIN t, NEW j \in DOMAIN t, t[i] = v, t[j] = w
      PROVE  j < i
  <2>1. CASE i \in 1 .. Len(q) /\ j \in 1 .. Len(q)
    BY <1>1, <1>3, <2>1 DEF NoneBefore
  <2>2. CASE i \notin 1 .. Len(q) /\ j \notin 1 .. Len(q)
    <3>1. j - Len(q) < i - Len(q)
      BY <1>1, <1>2, <1>3, <2>2 DEF NoneBefore
    <3> QED
      BY <1>1, <3>1
  <2>3. CASE i \in 1 .. Len(q) /\ j \notin 1 .. Len(q)
    BY <1>1, <1>2, <1>3, <2>3 DEF In
  <2>4. CASE i \notin 1 .. Len(q) /\ j \in 1 .. Len(q)
    BY <1>1, <2>4
  <2> QED
    BY <2>1, <2>2, <2>3, <2>4
<1> QED
  BY <1>3 DEF NoneBefore, t

\* Of one name.
LEMMA Alone ==
  ASSUME NEW S, NEW x \in S
  PROVE  /\ <<x>> \in Seq(S)
         /\ \A w : (In(w, <<x>>) <=> w = x) /\ Once(w, <<x>>)
         /\ \A v, w : v # w => NoneBefore(v, w, <<x>>)
  BY DEF In, Once, NoneBefore

LEMMA Nobody ==
  ASSUME NEW S
  PROVE  /\ <<>> \in Seq(S)
         /\ \A w : ~In(w, <<>>) /\ Once(w, <<>>)
         /\ \A v, w : NoneBefore(v, w, <<>>)
  BY DEF In, Once, NoneBefore

\* What is left of a queue without its head.
LEMMA Taken ==
  ASSUME NEW S, NEW q \in Seq(S), q # <<>>
  PROVE  /\ Tail(q) \in Seq(S) /\ Head(q) \in S
         /\ \A w : In(w, q) <=> Head(q) = w \/ In(w, Tail(q))
         /\ \A w : Once(w, q) => Once(w, Tail(q)) /\ (Head(q) = w => ~In(w, Tail(q)))
         /\ \A v, w : NoneBefore(v, w, q)
                        => NoneBefore(v, w, Tail(q)) /\ (Head(q) = v => ~In(w, Tail(q)))
<1> DEFINE t == Tail(q)
<1>1. /\ Len(q) \in Nat \ {0} /\ DOMAIN q = 1 .. Len(q) /\ Head(q) = q[1] /\ q[1] \in S
      /\ t \in Seq(S) /\ DOMAIN t = 1 .. (Len(q) - 1)
      /\ \A i \in 1 .. (Len(q) - 1) : t[i] = q[i + 1]
  OBVIOUS
<1> HIDE DEF t
<1>2. ASSUME NEW i \in DOMAIN t PROVE i + 1 \in DOMAIN q /\ q[i + 1] = t[i] /\ i + 1 # 1
  BY <1>1
<1>3. ASSUME NEW i \in DOMAIN q, i # 1 PROVE i - 1 \in DOMAIN t /\ t[i - 1] = q[i]
  <2>1. i - 1 \in 1 .. (Len(q) - 1) /\ (i - 1) + 1 = i
    BY <1>1, <1>3
  <2> QED
    BY <1>1, <2>1
<1>4. ASSUME NEW w PROVE In(w, q) <=> Head(q) = w \/ In(w, t)
  <2>1. ASSUME NEW i \in DOMAIN q, q[i] = w PROVE Head(q) = w \/ In(w, t)
    BY <1>1, <1>3, <2>1 DEF In
  <2>2. ASSUME NEW i \in DOMAIN t, t[i] = w PROVE In(w, q)
    BY <1>2, <2>2 DEF In
  <2>3. Head(q) = w => In(w, q)
    BY <1>1 DEF In
  <2> QED
    BY <2>1, <2>2, <2>3 DEF In
<1>5. ASSUME NEW w, Once(w, q) PROVE Once(w, t) /\ (Head(q) = w => ~In(w, t))
  <2>1. ASSUME NEW i \in DOMAIN t, NEW j \in DOMAIN t, t[i] = w, t[j] = w PROVE i = j
    <3>1. i + 1 = j + 1
      BY <1>2, <1>5, <2>1 DEF Once
    <3> QED
      BY <1>1, <3>1
  <2>2. ASSUME NEW i \in DOMAIN t, t[i] = w, q[1] = w PROVE FALSE
    BY <1>1, <1>2, <1>5, <2>2 DEF Once
  <2> QED
    BY <1>1, <2>1, <2>2 DEF Once, In
<1>6. ASSUME NEW v, NEW w, NoneBefore(v, w, q)
      PROVE  NoneBefore(v, w, t) /\ (Head(q) = v => ~In(w, t))
  <2>1. ASSUME NEW i \in DOMAIN t, NEW j \in DOMAIN t, t[i] = v, t[j] = w PROVE j < i
    <3>1. j + 1 < i + 1
      BY <1>2, <1>6, <2>1 DEF NoneBefore
    <3> QED
      BY <1>1, <3>1
  <2>2. ASSUME NEW j \in DOMAIN t, t[j] = w, q[1] = v PROVE FALSE
    <3>1. j + 1 < 1
      BY <1>1, <1>2, <1>6, <2>2 DEF NoneBefore
    <3> QED
      BY <1>1, <3>1
  <2> QED
    BY <1>1, <2>1, <2>2 DEF NoneBefore, In
<1> QED
  BY <1>1, <1>4, <1>5, <1>6 DEF t

-----------------------------------------------------------------------------
(***************************************************************************)
(* The route page.                                                         *)
(***************************************************************************)
LEMMA InitRoute == Init => RouteInv
<1> SUFFICES ASSUME Init PROVE RouteInv
  OBVIOUS
<1>1. /\ route = [task |-> "blank", context |-> None, analyzing |-> None, pending |-> FALSE]
      /\ journey \in Journeys
  BY DEF Init, ExecutionInit
<1>2. "blank" \in Texts
  BY DEF Texts
<1> QED
  BY <1>1, <1>2 DEF RouteInv, RouteMatchesTask, OrNone

LEMMA RouteStepKeeps ==
  ASSUME RouteInv, UNCHANGED journey,
         (\E t \in journey.goals : EditTask(t)) \/ AnalyzeTask \/ BeginAnalyze \/ AnalysisArrives
  PROVE  RouteInv'
<1> USE DEF RouteInv, RouteMatchesTask, OrNone
<1>1. ASSUME NEW t \in journey.goals, EditTask(t) PROVE RouteInv'
  <2>1. t \in Texts
    BY DEF Texts
  <2> QED
    BY <1>1, <2>1 DEF EditTask
<1>2. CASE AnalyzeTask
  BY <1>2 DEF AnalyzeTask
<1>3. CASE BeginAnalyze
  BY <1>3 DEF BeginAnalyze
<1>4. CASE AnalysisArrives
  <2>1. PICK found \in BOOLEAN :
          route' = [route EXCEPT !.analyzing = None, !.pending = FALSE,
                      !.context = IF found /\ route.task = route.analyzing
                                  THEN route.analyzing ELSE @]
    BY <1>4 DEF AnalysisArrives
  <2> QED
    BY <2>1
<1> QED
  BY <1>1, <1>2, <1>3, <1>4

\* Who moves the route page.
LEMMA RouteSteps ==
  ASSUME [Next]_appVars
  PROVE  /\ UNCHANGED journey
         /\ \/ UNCHANGED route
            \/ (\E t \in journey.goals : EditTask(t)) \/ AnalyzeTask \/ BeginAnalyze
            \/ AnalysisArrives
<1> USE DEF routeVars
<1>1. CASE GoTo \/ BackToRoute
  BY <1>1 DEF GoTo, BackToRoute, ElseNavigation
<1>2. CASE Escape \/ CancelButton \/ RequestQuit \/ QuitExecutionChosen
  BY <1>2 DEF Escape, CancelButton, RequestQuit, QuitExecutionChosen
<1>3. CASE Refresh \/ OnSettings \/ Approve
  BY <1>3 DEF Refresh, OnSettings, Approve, ElseLoads, ElseSettings, ElseExecution
<1>4. CASE OnRoute
  BY <1>4 DEF OnRoute, ElseRoute
<1>5. CASE Turns
  BY <1>5 DEF Turns, WorkerTurns, ElseSettings, ElseLoads, ElseRoute, ElseExecution
<1>6. CASE Services \/ OtherArrivals
  BY <1>6 DEF Services, ExecutionArrivals, OtherArrivals, ElseSettings, ElseLoads, ElseRoute,
              ElseExecution
<1>7. CASE Startup \/ Others
  BY <1>7 DEF Startup, Others, ElseLoads
<1>8. CASE UNCHANGED appVars
  BY <1>8 DEF appVars
<1> QED
  BY <1>1, <1>2, <1>3, <1>4, <1>5, <1>6, <1>7, <1>8 DEF Next

LEMMA NextRoute == RouteInv /\ [Next]_appVars => RouteInv'
<1> SUFFICES ASSUME RouteInv, [Next]_appVars PROVE RouteInv'
  OBVIOUS
<1>1. UNCHANGED <<route, journey>> => RouteInv'
  BY DEF RouteInv, RouteMatchesTask
<1> QED
  BY <1>1, RouteSteps, RouteStepKeeps

\* Whatever is typed while an answer is under way, the recommendation on the route page
\* is for the text in its editor, for every set of texts.
THEOREM RecommendationIsForTheText == Spec => []RouteMatchesTask
<1>1. RouteInv => RouteMatchesTask
  BY DEF RouteInv
<1> QED
  BY <1>1, InitRoute, NextRoute, PTL DEF Spec

-----------------------------------------------------------------------------
(***************************************************************************)
(* The overview and the pages that load.                                   *)
(***************************************************************************)
\* In this step the report goes back over nothing that was stored, and no page that
\* keeps its rows goes back.
GoesForward ==
    /\ overview'.report + 1 .. overview.report \subseteq store.unsaved
    /\ \A k \in LoadKinds \ {"models"} : loads'[k].shown >= loads[k].shown

LEMMA InitLoads == Init => LoadInv
<1> SUFFICES ASSUME Init PROVE LoadInv
  OBVIOUS
<1>1. LoadsInit
  BY DEF Init
<1>2. LoadTypes
  BY <1>1 DEF LoadsInit, LoadTypes, Stores, NoLoad, PageLoads
<1>3. OneRefreshAtATime
  BY <1>1 DEF LoadsInit, OneRefreshAtATime
<1>4. AllAccounted /\ ReadsAreCurrent
  BY <1>1, <1>2 DEF LoadsInit, AllAccounted, ReadsAreCurrent, NoLoad
<1> QED
  BY <1>2, <1>3, <1>4 DEF LoadInv

\* Asking for a load changes no more than a flag.
LEMMA AskingKeeps ==
  ASSUME LoadTypes, NEW k, loads' = Asked(k)
  PROVE  /\ loads' \in [LoadKinds -> PageLoads]
         /\ \A l \in LoadKinds : /\ loads'[l].at = loads[l].at
                                 /\ loads'[l].read = loads[l].read
                                 /\ loads'[l].shown = loads[l].shown
  BY DEF LoadTypes, PageLoads, Asked

\* The store gains snapshots, taken and saved or not.
StoreGrows ==
    /\ store' \in Stores
    /\ store.newest <= store'.newest /\ store.taken <= store'.taken
    /\ AllAccounted'

LEMMA StoreStays == LoadInv /\ UNCHANGED store => StoreGrows
  BY DEF LoadInv, LoadTypes, Stores, AllAccounted, StoreGrows

LEMMA CaptureGrows ==
  ASSUME LoadInv, NEW kept \in BOOLEAN, store' = Captured(kept)
  PROVE  StoreGrows /\ store'.taken = store.taken + 1
<1>1. /\ store.newest \in Nat /\ store.taken \in Nat /\ store.unsaved \subseteq Nat
      /\ store.newest <= store.taken
      /\ \A n \in store.newest + 1 .. store.taken : n \in store.unsaved
  BY DEF LoadInv, LoadTypes, Stores, AllAccounted
<1>2. /\ store'.newest = IF kept THEN store.taken + 1 ELSE store.newest
      /\ store'.taken = store.taken + 1
      /\ store'.unsaved = IF kept THEN store.unsaved ELSE store.unsaved \cup {store.taken + 1}
      /\ store' \in Stores
  BY <1>1 DEF Captured, Stores
<1>3. ASSUME NEW n \in store'.newest + 1 .. store'.taken
      PROVE  n \in store'.unsaved
  BY <1>1, <1>2, <1>3
<1> QED
  BY <1>1, <1>2, <1>3 DEF StoreGrows, AllAccounted

\* A later snapshot in the store makes nothing that was read wrong.
LEMMA LoadsStay ==
  ASSUME LoadInv, loads' \in [LoadKinds -> PageLoads],
         \A l \in LoadKinds : /\ loads'[l].at = loads[l].at
                              /\ loads'[l].read = loads[l].read
                              /\ loads'[l].shown = loads[l].shown,
         StoreGrows
  PROVE  /\ \A k \in LoadKinds :
              /\ loads'[k].shown <= store'.newest /\ loads'[k].read <= store'.newest
              /\ loads'[k].at = "projecting" => loads'[k].shown <= loads'[k].read
         /\ \A k \in LoadKinds \ {"models"} : loads'[k].shown >= loads[k].shown
<1> SUFFICES ASSUME NEW k \in LoadKinds
             PROVE  /\ loads'[k].shown <= store'.newest /\ loads'[k].read <= store'.newest
                    /\ loads'[k].at = "projecting" => loads'[k].shown <= loads'[k].read
                    /\ loads'[k].shown >= loads[k].shown
  OBVIOUS
<1>1. /\ loads[k].shown \in Nat /\ loads[k].read \in Nat /\ store.newest \in Nat
      /\ store'.newest \in Nat /\ store.newest <= store'.newest
  BY DEF LoadInv, LoadTypes, PageLoads, StoreGrows, Stores
<1> QED
  BY <1>1 DEF LoadInv, ReadsAreCurrent

\* Every step of the overview: what becomes of its report, its flag and its refreshes,
\* of the store and of the pages, decides.
LEMMA OverviewKeeps ==
  ASSUME LoadInv,
         overview' \in [report : Nat, active : BOOLEAN, mounted : BOOLEAN, started : BOOLEAN,
                        refreshes : Seq(Refreshes)],
         Len(overview'.refreshes) <= 1,
         overview'.active <=> overview'.refreshes # <<>>,
         \A i \in DOMAIN overview'.refreshes :
           overview'.refreshes[i].at = "refreshing"
             => overview'.refreshes[i].previous = overview'.report,
         overview'.report + 1 .. overview.report \subseteq store.unsaved,
         overview'.report <= store'.taken, StoreGrows,
         UNCHANGED loads \/ \E k : loads' = Asked(k)
  PROVE  LoadInv' /\ GoesForward
<1>1. /\ loads' \in [LoadKinds -> PageLoads]
      /\ \A l \in LoadKinds : /\ loads'[l].at = loads[l].at
                              /\ loads'[l].read = loads[l].read
                              /\ loads'[l].shown = loads[l].shown
  BY AskingKeeps DEF LoadInv, LoadTypes
<1>2. /\ \A k \in LoadKinds :
           /\ loads'[k].shown <= store'.newest /\ loads'[k].read <= store'.newest
           /\ loads'[k].at = "projecting" => loads'[k].shown <= loads'[k].read
      /\ \A k \in LoadKinds \ {"models"} : loads'[k].shown >= loads[k].shown
  BY <1>1, LoadsStay
<1>3. LoadTypes'
  BY <1>1 DEF LoadTypes, StoreGrows
<1>4. OneRefreshAtATime' /\ AllAccounted' /\ ReadsAreCurrent'
  BY <1>2 DEF OneRefreshAtATime, ReadsAreCurrent, StoreGrows
<1> QED
  BY <1>2, <1>3, <1>4 DEF LoadInv, GoesForward

\* A report that stays as it is, or that becomes the newest stored, steps back over
\* nothing that was stored.
LEMMA StepsOverUnsaved ==
  ASSUME LoadInv
  PROVE  /\ overview.report + 1 .. overview.report \subseteq store.unsaved
         /\ store.newest + 1 .. overview.report \subseteq store.unsaved
         /\ store.taken + 1 + 1 .. overview.report \subseteq store.unsaved
         /\ overview.report \in Nat /\ store.newest \in Nat /\ store.taken \in Nat
         /\ overview.report <= store.taken /\ store.newest <= store.taken
<1>1. /\ overview.report \in Nat /\ store.newest \in Nat /\ store.taken \in Nat
      /\ overview.report <= store.taken /\ store.newest <= store.taken
      /\ \A n \in store.newest + 1 .. store.taken : n \in store.unsaved
  BY DEF LoadInv, LoadTypes, Stores, AllAccounted, ReadsAreCurrent
<1>2. \A n \in store.newest + 1 .. overview.report : n \in store.newest + 1 .. store.taken
  BY <1>1
<1>3. overview.report + 1 .. overview.report = {} /\ store.taken + 1 + 1 .. overview.report = {}
  BY <1>1
<1> QED
  BY <1>1, <1>2, <1>3

\* A refresh is begun only where none is under way.
LEMMA RefreshBegins ==
  ASSUME LoadInv, ~overview.active, NEW at \in {"local", "provider"},
         NEW by \in {"startup", "overview", "usage"}, NEW started \in BOOLEAN,
         overview' = Running(at, by) \/ overview' = [Running(at, by) EXCEPT !.started = started],
         UNCHANGED <<store, loads>>
  PROVE  LoadInv' /\ GoesForward
<1>1. /\ overview.refreshes = <<>>
      /\ overview \in [report : Nat, active : BOOLEAN, mounted : BOOLEAN, started : BOOLEAN,
                       refreshes : Seq(Refreshes)]
  BY DEF LoadInv, LoadTypes, OneRefreshAtATime, ReadsAreCurrent
<1> DEFINE new == [at |-> at, by |-> by, previous |-> 0]
<1>2. /\ new \in Refreshes /\ new.at # "refreshing"
      /\ Append(<<>>, new) = <<new>> /\ <<new>> \in Seq(Refreshes)
      /\ DOMAIN <<new>> = {1} /\ <<new>>[1] = new /\ Len(<<new>>) = 1 /\ <<new>> # <<>>
  BY DEF Refreshes
<1> HIDE DEF new
<1>3. /\ overview' \in [report : Nat, active : BOOLEAN, mounted : BOOLEAN, started : BOOLEAN,
                        refreshes : Seq(Refreshes)]
      /\ overview'.refreshes = <<new>> /\ overview'.active = TRUE
      /\ overview'.report = overview.report
  <2>1. Running(at, by) = [overview EXCEPT !.active = TRUE, !.refreshes = <<new>>]
    BY <1>1, <1>2 DEF Running, new
  <2> QED
    BY <1>1, <1>2, <2>1
<1>4. /\ overview'.report + 1 .. overview.report \subseteq store.unsaved
      /\ overview'.report <= store'.taken
  BY <1>3, StepsOverUnsaved
<1> QED
  BY <1>2, <1>3, <1>4, StoreStays, OverviewKeeps

\* The one refresh there is goes on to another phase.
LEMMA RefreshMovesOn ==
  ASSUME LoadInv, NEW i \in DOMAIN overview.refreshes, NEW at \in {"provider", "refreshing"},
         NEW report \in Nat, MovesOn(i, at, report), UNCHANGED store,
         report + 1 .. overview.report \subseteq store.unsaved, report <= store.taken
  PROVE  LoadInv' /\ GoesForward
<1>1. /\ overview \in [report : Nat, active : BOOLEAN, mounted : BOOLEAN, started : BOOLEAN,
                       refreshes : Seq(Refreshes)]
      /\ overview.refreshes \in Seq(Refreshes) /\ Len(overview.refreshes) <= 1
      /\ overview.active <=> overview.refreshes # <<>>
  BY DEF LoadInv, LoadTypes, OneRefreshAtATime
<1> DEFINE next == [at |-> at, by |-> overview.refreshes[i].by, previous |-> report]
           rest == [overview.refreshes EXCEPT ![i] = next]
<1>2. next \in Refreshes /\ next.previous = report
  <2>1. overview.refreshes[i] \in Refreshes
    BY <1>1
  <2> QED
    BY <2>1 DEF Refreshes
<1>3. overview' = [overview EXCEPT !.refreshes = rest, !.report = report]
  BY <1>1 DEF MovesOn
<1> HIDE DEF next
<1>4. /\ rest \in Seq(Refreshes) /\ Len(rest) = Len(overview.refreshes)
      /\ DOMAIN rest = DOMAIN overview.refreshes /\ DOMAIN rest = {1} /\ rest[1] = next
      /\ overview.refreshes # <<>> /\ rest # <<>>
  BY <1>1, <1>2
<1> HIDE DEF rest
<1>5. /\ overview' \in [report : Nat, active : BOOLEAN, mounted : BOOLEAN, started : BOOLEAN,
                        refreshes : Seq(Refreshes)]
      /\ overview'.refreshes = rest /\ overview'.active = overview.active
      /\ overview'.report = report
  BY <1>1, <1>3, <1>4
<1>6. UNCHANGED loads
  BY DEF MovesOn
<1> QED
  BY <1>1, <1>2, <1>4, <1>5, <1>6, StoreStays, OverviewKeeps

LEMMA OnlyRefresh ==
  ASSUME LoadInv, NEW i \in DOMAIN overview.refreshes
  PROVE  i = 1 /\ Len(overview.refreshes) = 1
<1> DEFINE refreshes == overview.refreshes
<1>1. refreshes \in Seq(Refreshes) /\ Len(refreshes) <= 1 /\ i \in DOMAIN refreshes
  BY DEF LoadInv, LoadTypes, OneRefreshAtATime
<1> HIDE DEF refreshes
<1> DEFINE n == Len(refreshes)
<1>2. n \in Nat /\ n <= 1 /\ i \in 1..n
  BY <1>1
<1> HIDE DEF n
<1>3. i \in Nat /\ 1 <= i /\ i <= n
  BY <1>2
<1>4. i = 1 /\ n = 1
  BY <1>2, <1>3
<1> QED
  BY <1>4 DEF refreshes, n

\* The one refresh there is ends.
LEMMA RefreshEnds ==
  ASSUME LoadInv, NEW i \in DOMAIN overview.refreshes, NEW report \in Nat, Ends(i, report),
         StoreGrows, report + 1 .. overview.report \subseteq store.unsaved,
         report <= store'.taken
  PROVE  LoadInv' /\ GoesForward
<1>1. /\ overview \in [report : Nat, active : BOOLEAN, mounted : BOOLEAN, started : BOOLEAN,
                       refreshes : Seq(Refreshes)]
      /\ overview.refreshes \in Seq(Refreshes) /\ Len(overview.refreshes) <= 1
  BY DEF LoadInv, LoadTypes, OneRefreshAtATime
<1>2. i = 1 /\ Len(overview.refreshes) = 1
  BY OnlyRefresh
<1>3. RemoveAt(overview.refreshes, i) = <<>>
  BY <1>1, <1>2 DEF RemoveAt
<1>4. overview' = [overview EXCEPT !.report = report, !.active = FALSE, !.refreshes = <<>>]
  BY <1>3 DEF Ends
<1>5. /\ overview' \in [report : Nat, active : BOOLEAN, mounted : BOOLEAN, started : BOOLEAN,
                        refreshes : Seq(Refreshes)]
      /\ overview'.refreshes = <<>> /\ overview'.active = FALSE
      /\ overview'.report = report
  <2>1. <<>> \in Seq(Refreshes)
    OBVIOUS
  <2> QED
    BY <1>1, <1>4, <2>1
<1>6. UNCHANGED loads \/ \E k : loads' = Asked(k)
  BY DEF Ends
<1> QED
  BY <1>5, <1>6, OverviewKeeps

LEMMA OverviewStepKeeps ==
  ASSUME LoadInv, OverviewStep
  PROVE  LoadInv' /\ GoesForward
<1>1. PICK i \in DOMAIN overview.refreshes : LocalStatus(i) \/ InspectProvider(i) \/ Refreshed(i)
  BY DEF OverviewStep
<1>2. overview.refreshes[i].at = "refreshing" => overview.refreshes[i].previous = overview.report
  BY DEF LoadInv, ReadsAreCurrent
<1>3. ASSUME UNCHANGED store, NEW report \in {overview.report, store.newest},
             Ends(i, report) \/ MovesOn(i, "provider", report) \/ MovesOn(i, "refreshing", report)
      PROVE  LoadInv' /\ GoesForward
  <2>1. /\ report \in Nat /\ report <= store.taken /\ report <= store'.taken
        /\ report + 1 .. overview.report \subseteq store.unsaved
    BY <1>3, StepsOverUnsaved
  <2> QED
    BY <1>3, <2>1, StoreStays, RefreshMovesOn, RefreshEnds
<1>4. ASSUME NEW kept \in BOOLEAN, store' = Captured(kept),
             NEW report \in {overview.report, store.taken + 1}, Ends(i, report)
      PROVE  LoadInv' /\ GoesForward
  <2>1. StoreGrows /\ store'.taken = store.taken + 1
    BY <1>4, CaptureGrows
  <2>2. /\ report \in Nat /\ report <= store'.taken
        /\ report + 1 .. overview.report \subseteq store.unsaved
    BY <1>4, <2>1, StepsOverUnsaved
  <2> QED
    BY <1>4, <2>1, <2>2, RefreshEnds
<1>5. CASE LocalStatus(i) \/ InspectProvider(i)
  BY <1>3, <1>5 DEF LocalStatus, InspectProvider
<1>6. CASE Refreshed(i)
  BY <1>2, <1>3, <1>4, <1>6 DEF Refreshed
<1> QED
  BY <1>1, <1>5, <1>6

\* A step that leaves reports, refreshes and reads alone.
LEMMA NothingRead ==
  ASSUME LoadInv, UNCHANGED <<store, overview>>, UNCHANGED loads \/ \E k : loads' = Asked(k)
  PROVE  LoadInv' /\ GoesForward
<1>1. /\ overview \in [report : Nat, active : BOOLEAN, mounted : BOOLEAN, started : BOOLEAN,
                       refreshes : Seq(Refreshes)]
      /\ Len(overview.refreshes) <= 1 /\ (overview.active <=> overview.refreshes # <<>>)
      /\ \A i \in DOMAIN overview.refreshes :
           overview.refreshes[i].at = "refreshing"
             => overview.refreshes[i].previous = overview.report
  BY DEF LoadInv, LoadTypes, OneRefreshAtATime, ReadsAreCurrent
<1>2. /\ overview'.report + 1 .. overview.report \subseteq store.unsaved
      /\ overview'.report <= store'.taken
  BY StepsOverUnsaved
<1> QED
  BY <1>1, <1>2, StoreStays, OverviewKeeps

LEMMA BeginOverviewKeeps ==
  ASSUME LoadInv,
         StartOverview \/ BeginStartup \/ RefreshOverview \/ BeginRefresh \/ RefreshUsage
           \/ BeginUsageRefresh \/ OthersCapture
  PROVE  LoadInv' /\ GoesForward
<1>1. /\ overview \in [report : Nat, active : BOOLEAN, mounted : BOOLEAN, started : BOOLEAN,
                       refreshes : Seq(Refreshes)]
      /\ Len(overview.refreshes) <= 1 /\ (overview.active <=> overview.refreshes # <<>>)
      /\ \A i \in DOMAIN overview.refreshes :
           overview.refreshes[i].at = "refreshing"
             => overview.refreshes[i].previous = overview.report
  BY DEF LoadInv, LoadTypes, OneRefreshAtATime, ReadsAreCurrent
<1>2. CASE StartOverview
  <2>1. overview' = [overview EXCEPT !.mounted = TRUE] /\ UNCHANGED <<store, loads>>
    BY <1>2 DEF StartOverview
  <2>2. /\ overview' \in [report : Nat, active : BOOLEAN, mounted : BOOLEAN, started : BOOLEAN,
                          refreshes : Seq(Refreshes)]
        /\ overview'.report = overview.report /\ overview'.active = overview.active
        /\ overview'.refreshes = overview.refreshes
    BY <1>1, <2>1
  <2>3. /\ overview'.report + 1 .. overview.report \subseteq store.unsaved
        /\ overview'.report <= store'.taken
    BY <2>1, <2>2, StepsOverUnsaved
  <2> QED
    BY <1>1, <2>1, <2>2, <2>3, StoreStays, OverviewKeeps
<1>3. CASE BeginStartup
  <2>1. CASE overview.started \/ overview.active
    BY <1>3, <2>1, NothingRead DEF BeginStartup
  <2>2. CASE ~overview.started /\ ~overview.active
    <3>1. /\ overview' = [Running("local", "startup") EXCEPT !.started = TRUE]
          /\ UNCHANGED <<store, loads>>
      BY <1>3, <2>2 DEF BeginStartup
    <3> QED
      BY <2>2, <3>1, RefreshBegins
  <2> QED
    BY <2>1, <2>2, <1>1
<1>4. CASE RefreshOverview \/ RefreshUsage
  BY <1>4, NothingRead DEF RefreshOverview, RefreshUsage, loadVars
<1>5. CASE BeginRefresh
  <2>1. CASE overview.active
    BY <1>5, <2>1, NothingRead DEF BeginRefresh
  <2>2. CASE ~overview.active
    BY <1>5, <2>2, RefreshBegins DEF BeginRefresh
  <2> QED
    BY <2>1, <2>2
<1>6. CASE BeginUsageRefresh
  <2>1. CASE ~overview.active
    BY <1>6, <2>1, RefreshBegins DEF BeginUsageRefresh
  <2>2. CASE overview.active
    BY <1>6, <2>2, NothingRead DEF BeginUsageRefresh
  <2> QED
    BY <2>1, <2>2
<1>7. CASE OthersCapture
  <2>1. store' = Captured(TRUE) /\ UNCHANGED <<overview, loads>>
    BY <1>7 DEF OthersCapture
  <2>2. StoreGrows /\ store'.taken = store.taken + 1
    BY <2>1, CaptureGrows
  <2>3. overview.report + 1 .. overview.report \subseteq store.unsaved
    BY StepsOverUnsaved
  <2>4. overview.report <= store.taken + 1
    BY StepsOverUnsaved
  <2> QED
    BY <1>1, <2>1, <2>2, <2>3, <2>4, OverviewKeeps
<1> QED
  BY <1>2, <1>3, <1>4, <1>5, <1>6, <1>7

\* The load of one page, which reads the store and shows later what it read.
LEMMA LoadKeeps ==
  ASSUME LoadInv, NEW k \in LoadKinds, BeginLoad(k) \/ ReadStore(k) \/ FinishLoad(k) \/ LoadFails(k)
  PROVE  LoadInv' /\ GoesForward
<1>1. /\ loads \in [LoadKinds -> PageLoads] /\ store.newest \in Nat
      /\ \A l \in LoadKinds :
           /\ loads[l].shown \in Nat /\ loads[l].read \in Nat
           /\ loads[l].shown <= store.newest /\ loads[l].read <= store.newest
           /\ loads[l].at = "projecting" => loads[l].shown <= loads[l].read
  BY DEF LoadInv, LoadTypes, Stores, PageLoads, ReadsAreCurrent
<1>2. UNCHANGED <<store, overview>>
  BY DEF BeginLoad, ReadStore, FinishLoad, LoadFails
<1>3. ASSUME NEW page \in PageLoads, loads' = [loads EXCEPT ![k] = page],
             page.shown <= store.newest, page.read <= store.newest,
             page.at = "projecting" => page.shown <= page.read,
             k # "models" => page.shown >= loads[k].shown
      PROVE  LoadInv' /\ GoesForward
  <2>1. loads' \in [LoadKinds -> PageLoads] /\ loads'[k] = page
    BY <1>1, <1>3
  <2>2. \A l \in LoadKinds \ {k} : loads'[l] = loads[l]
    BY <1>1, <1>3
  <2>3. LoadTypes'
    BY <1>2, <2>1 DEF LoadInv, LoadTypes
  <2>4. ReadsAreCurrent' /\ OneRefreshAtATime' /\ AllAccounted'
    BY <1>1, <1>2, <1>3, <2>1, <2>2 DEF LoadInv, ReadsAreCurrent, OneRefreshAtATime, AllAccounted
  <2>5. \A l \in LoadKinds \ {"models"} : loads'[l].shown >= loads[l].shown
    BY <1>1, <1>3, <2>1, <2>2
  <2>6. overview'.report + 1 .. overview.report \subseteq store.unsaved
    BY <1>2, StepsOverUnsaved
  <2> QED
    BY <2>3, <2>4, <2>5, <2>6 DEF LoadInv, GoesForward
<1> HIDE DEF LoadInv, GoesForward
<1>4. loads[k] \in PageLoads
  BY <1>1
<1>5. CASE BeginLoad(k)
  <2> DEFINE page == [loads[k] EXCEPT !.at = "reading", !.status = "loading",
                                      !.shown = IF k = "models" THEN 0 ELSE @]
  <2>1. loads' = [loads EXCEPT ![k] = page]
    BY <1>1, <1>5 DEF BeginLoad
  <2>2. /\ page \in PageLoads /\ page.at = "reading" /\ page.read = loads[k].read
        /\ page.shown = IF k = "models" THEN 0 ELSE loads[k].shown
    BY <1>4 DEF PageLoads
  <2> HIDE DEF page
  <2>3. page.shown <= store.newest /\ page.read <= store.newest /\ page.at # "projecting"
    BY <1>1, <2>2
  <2>4. k # "models" => page.shown >= loads[k].shown
    BY <1>1, <2>2
  <2> QED
    BY <1>3, <2>1, <2>2, <2>3, <2>4
<1>6. CASE ReadStore(k)
  <2> DEFINE page == [loads[k] EXCEPT !.at = "projecting", !.read = store.newest]
  <2>1. loads' = [loads EXCEPT ![k] = page]
    BY <1>1, <1>6 DEF ReadStore
  <2>2. page \in PageLoads /\ page.read = store.newest /\ page.shown = loads[k].shown
    BY <1>1, <1>4 DEF PageLoads
  <2> HIDE DEF page
  <2>3. page.shown <= store.newest /\ page.read <= store.newest /\ page.shown <= page.read
        /\ page.shown >= loads[k].shown
    BY <1>1, <2>2
  <2> QED
    BY <1>3, <2>1, <2>2, <2>3
<1>7. CASE FinishLoad(k)
  <2> DEFINE page == [NoLoad EXCEPT !.shown = loads[k].read,
                                    !.status = IF loads[k].read = 0 THEN "empty" ELSE "ready"]
  <2>1. loads' = [loads EXCEPT ![k] = page] /\ loads[k].at = "projecting"
    BY <1>7 DEF FinishLoad
  <2>2. page \in PageLoads /\ page.read = 0 /\ page.shown = loads[k].read /\ page.at = "idle"
    BY <1>1, <1>4 DEF PageLoads, NoLoad
  <2> HIDE DEF page
  <2>3. page.shown <= store.newest /\ page.read <= store.newest /\ page.shown >= loads[k].shown
    BY <1>1, <2>1, <2>2
  <2> QED
    BY <1>3, <2>1, <2>2, <2>3
<1>8. CASE LoadFails(k)
  <2> DEFINE page == [NoLoad EXCEPT !.shown = loads[k].shown, !.status = "error"]
  <2>1. loads' = [loads EXCEPT ![k] = page]
    BY <1>8 DEF LoadFails
  <2>2. page \in PageLoads /\ page.read = 0 /\ page.shown = loads[k].shown /\ page.at = "idle"
    BY <1>1, <1>4 DEF PageLoads, NoLoad
  <2> HIDE DEF page
  <2>3. page.shown <= store.newest /\ page.read <= store.newest /\ page.shown >= loads[k].shown
    BY <1>1, <2>2
  <2> QED
    BY <1>3, <2>1, <2>2, <2>3
<1> QED
  BY <1>5, <1>6, <1>7, <1>8

\* Who reads, refreshes or asks for it.
LEMMA LoadSteps ==
  ASSUME [Next]_appVars
  PROVE  \/ UNCHANGED <<store, overview>> /\ (UNCHANGED loads \/ \E k : loads' = Asked(k))
         \/ StartOverview \/ BeginStartup \/ RefreshOverview \/ BeginRefresh \/ RefreshUsage
         \/ BeginUsageRefresh \/ OthersCapture \/ OverviewStep
         \/ \E k \in LoadKinds : BeginLoad(k) \/ ReadStore(k) \/ FinishLoad(k) \/ LoadFails(k)
<1> USE DEF loadVars
<1>1. ASSUME NEW d, Navigate(d)
      PROVE  UNCHANGED <<store, overview>> /\ (UNCHANGED loads \/ \E k : loads' = Asked(k))
  BY <1>1 DEF Navigate, Enters
<1>2. CASE GoTo \/ BackToRoute
  BY <1>1, <1>2 DEF GoTo, BackToRoute
<1>3. CASE Escape \/ CancelButton \/ RequestQuit \/ QuitExecutionChosen
  BY <1>3 DEF Escape, CancelButton, RequestQuit, QuitExecutionChosen
<1>4. CASE Refresh
  BY <1>4 DEF Refresh
<1>5. CASE OnRoute \/ OnSettings \/ Approve
  BY <1>5 DEF OnRoute, OnSettings, Approve, ElseRoute, ElseSettings, ElseExecution
<1>6. CASE Turns
  BY <1>6 DEF Turns, WorkerTurns, ElseSettings, ElseLoads, ElseRoute, ElseExecution
<1>7. CASE Services \/ OtherArrivals
  BY <1>7 DEF Services, ExecutionArrivals, OtherArrivals, ElseSettings, ElseLoads, ElseRoute,
              ElseExecution
<1>8. CASE Startup \/ Others
  BY <1>8 DEF Startup, Others
<1>9. CASE UNCHANGED appVars
  BY <1>9 DEF appVars
<1> QED
  BY <1>2, <1>3, <1>4, <1>5, <1>6, <1>7, <1>8, <1>9 DEF Next

LEMMA NextLoads == LoadInv /\ [Next]_appVars => LoadInv' /\ GoesForward
  BY LoadSteps, NothingRead, BeginOverviewKeeps, OverviewStepKeeps, LoadKeeps

\* One provider operation of the overview at a time, the active flag up exactly then;
\* the report, which a save may have failed to store, is no newer than the newest
\* snapshot taken, what the pages read no newer than the newest stored, and between
\* the two nothing was stored, for any pages and any store.
THEOREM OverviewIsConsistent == Spec => []LoadInv
  BY InitLoads, NextLoads, PTL DEF Spec

\* A page that keeps its rows never shows an older snapshot than before, and the
\* overview's report steps back only over snapshots that were never stored.
THEOREM ShownOnlyGetsNewer == Spec => NeverShowsOlder
<1>1. LoadInv /\ [Next]_appVars
        => [/\ overview'.report + 1 .. overview.report \subseteq store.unsaved
            /\ \A k \in LoadKinds \ {"models"} : loads'[k].shown >= loads[k].shown]_loadVars
  BY NextLoads DEF GoesForward
<1> QED
  BY <1>1, OverviewIsConsistent, PTL DEF Spec, NeverShowsOlder

-----------------------------------------------------------------------------
(***************************************************************************)
(* The queue of the workers, as planning, running and quitting see it.     *)
(***************************************************************************)
Watched == {"prepare", "prepareDry", "run", "runReturns", "exit"}

Neutral == Names \ Watched

\* The watched workers wait as they did before; one that exits may have its turn.
QueueAsBefore ==
    /\ ready' \in Seq(Names)
    /\ \A w \in Watched \ {"exit"} : In(w, ready') <=> In(w, ready)
    /\ In("exit", ready') => In("exit", ready)
    /\ \A w \in Watched : Once(w, ready) => Once(w, ready')
    /\ NoneBefore("run", "exit", ready) => NoneBefore("run", "exit", ready')

LEMMA NeutralIn ==
  ASSUME NEW s \in Seq(Neutral)
  PROVE  /\ s \in Seq(Names)
         /\ \A w \in Watched : ~In(w, s) /\ Once(w, s)
         /\ NoneBefore("run", "exit", s)
<1>1. \A i \in DOMAIN s : s[i] \in Neutral
  OBVIOUS
<1>2. \A w \in Watched : ~In(w, s)
  BY <1>1 DEF In, Neutral
<1>3. \A w \in Watched : Once(w, s)
  BY <1>2 DEF In, Once
<1>4. NoneBefore("run", "exit", s)
  BY <1>2 DEF In, NoneBefore, Watched
<1>5. s \in Seq(Names)
  BY DEF Neutral
<1> QED
  BY <1>2, <1>3, <1>4, <1>5

LEMMA JoinedNeutral ==
  ASSUME NEW q \in Seq(Names), NEW s \in Seq(Neutral)
  PROVE  /\ q \o s \in Seq(Names)
         /\ \A w \in Watched : /\ In(w, q \o s) <=> In(w, q)
                               /\ Once(w, q) => Once(w, q \o s)
         /\ NoneBefore("run", "exit", q) => NoneBefore("run", "exit", q \o s)
<1>1. /\ s \in Seq(Names)
      /\ \A w \in Watched : ~In(w, s) /\ Once(w, s)
      /\ NoneBefore("run", "exit", s)
  BY NeutralIn
<1>2. q \o s \in Seq(Names)
  BY <1>1, JoinedAt
<1>3. ASSUME NEW w \in Watched
      PROVE  (In(w, q \o s) <=> In(w, q)) /\ (Once(w, q) => Once(w, q \o s))
  <2>1. In(w, q \o s) <=> In(w, q)
    BY <1>1, JoinedIn
  <2>2. Once(w, q) => Once(w, q \o s)
    BY <1>1, JoinedOnce
  <2> QED
    BY <2>1, <2>2
<1>4. NoneBefore("run", "exit", q) => NoneBefore("run", "exit", q \o s)
  <2>1. ~In("exit", s)
    BY <1>1 DEF Watched
  <2> QED
    BY <1>1, <2>1, JoinedNoneBefore
<1> QED
  BY <1>2, <1>3, <1>4

LEMMA TakenNeutral ==
  ASSUME NEW q \in Seq(Names), q # <<>>, Head(q) \in Neutral
  PROVE  /\ Tail(q) \in Seq(Names)
         /\ \A w \in Watched : /\ In(w, Tail(q)) <=> In(w, q)
                               /\ Once(w, q) => Once(w, Tail(q))
         /\ NoneBefore("run", "exit", q) => NoneBefore("run", "exit", Tail(q))
<1>1. \A w \in Watched : Head(q) # w
  BY DEF Neutral
<1> QED
  BY <1>1, Taken

LEMMA StartNeutral ==
  ASSUME ready \in Seq(Names), NEW s \in Seq(Neutral), Start(s)
  PROVE  QueueAsBefore
<1>1. "exit" \in Watched
  BY DEF Watched
<1> QED
  BY <1>1, JoinedNeutral DEF Start, QueueAsBefore

LEMMA TurnNeutral ==
  ASSUME ready \in Seq(Names), NEW w \in Neutral, NEW s \in Seq(Neutral), Turn(w, s)
  PROVE  QueueAsBefore
<1>1. ready # <<>> /\ Head(ready) \in Neutral /\ ready' = Tail(ready) \o s
  BY DEF Turn
<1>2. /\ Tail(ready) \in Seq(Names)
      /\ \A v \in Watched : /\ In(v, Tail(ready)) <=> In(v, ready)
                            /\ Once(v, ready) => Once(v, Tail(ready))
      /\ NoneBefore("run", "exit", ready) => NoneBefore("run", "exit", Tail(ready))
  BY <1>1, TakenNeutral
<1>3. "exit" \in Watched
  BY DEF Watched
<1> QED
  BY <1>1, <1>2, <1>3, JoinedNeutral DEF QueueAsBefore

LEMMA Resting == ready \in Seq(Names) /\ UNCHANGED ready => QueueAsBefore
  BY DEF QueueAsBefore

\* The turn of a worker that is not followed by others.
LEMMA TurnOf ==
  ASSUME ready \in Seq(Names), NEW w, Turn(w, <<>>)
  PROVE  /\ w \in Names /\ In(w, ready)
         /\ ready' = Tail(ready) /\ ready' \in Seq(Names)
         /\ \A v : v # w => (In(v, ready') <=> In(v, ready))
         /\ \A v : Once(v, ready) => Once(v, ready')
         /\ Once(w, ready) => ~In(w, ready')
         /\ NoneBefore("run", "exit", ready) => NoneBefore("run", "exit", ready')
         /\ NoneBefore(w, "exit", ready) => ~In("exit", ready')
<1>1. ready # <<>> /\ Head(ready) = w /\ ready' = Tail(ready) \o <<>>
  BY DEF Turn
<1>2. Tail(ready) \in Seq(Names)
  BY <1>1, Taken
<1>3. ready' = Tail(ready)
  BY <1>1, <1>2
<1> QED
  BY <1>1, <1>2, <1>3, Taken

\* What exits, or has nobody wait for it, leaves the others where they are.
LEMMA TurnOfResumed ==
  ASSUME ready \in Seq(Names), NEW w \in Neutral \cup {"exit"}, Turn(w, <<>>)
  PROVE  QueueAsBefore
<1>1. \A v \in Watched \ {"exit"} : v # w
  BY DEF Neutral
<1>2. In("exit", ready') => In("exit", ready)
  BY TurnOf
<1> QED
  BY <1>1, <1>2, TurnOf DEF QueueAsBefore

\* One watched worker is started.
LEMMA StartOf ==
  ASSUME ready \in Seq(Names), NEW w \in Names, Start(<<w>>)
  PROVE  /\ ready' \in Seq(Names)
         /\ In(w, ready')
         /\ \A v : v # w => (In(v, ready') <=> In(v, ready)) /\ (Once(v, ready) => Once(v, ready'))
         /\ ~In(w, ready) /\ Once(w, ready) => Once(w, ready')
         /\ NoneBefore("run", "exit", ready) /\ w # "exit" => NoneBefore("run", "exit", ready')
<1>1. ready' = ready \o <<w>> /\ <<w>> \in Seq(Names)
  BY Alone DEF Start
<1>2. ready' \in Seq(Names)
  BY <1>1, JoinedAt
<1>3. \A v : In(v, ready') <=> In(v, ready) \/ v = w
  BY <1>1, JoinedIn, Alone
<1>4. ASSUME NEW v, Once(v, ready), ~(In(v, ready) /\ v = w) PROVE Once(v, ready')
  BY <1>1, <1>4, JoinedOnce, Alone
<1>5. ASSUME NoneBefore("run", "exit", ready), w # "exit" PROVE NoneBefore("run", "exit", ready')
  BY <1>1, <1>5, JoinedNoneBefore, Alone
<1> QED
  BY <1>2, <1>3, <1>4, <1>5

LEMMA WaitersAre ==
  ASSUME NEW c \in Seq({"cancel", "cancelAndQuit"})
  PROVE  Waiters(c) \in Seq({"exit", "back"})
<1>1. /\ Len(c) \in Nat /\ DOMAIN c = 1 .. Len(c)
  OBVIOUS
<1>2. Waiters(c) \in [1 .. Len(c) -> {"exit", "back"}]
  BY <1>1 DEF Waiters, Resumed
<1> QED
  BY <1>1, <1>2

\* What a run that ends leaves in the queue: its worker, and what waited for it.
LEMMA QueueOfAnEndedRun ==
  ASSUME NEW q \in Seq(Names), ~In("run", q), ~In("runReturns", q), Once("runReturns", q),
         NEW c \in Seq({"cancel", "cancelAndQuit"}),
         ready' = q \o (<<"runReturns">> \o Waiters(c))
  PROVE  /\ ready' \in Seq(Names)
         /\ In("runReturns", ready') /\ Once("runReturns", ready')
         /\ ~In("run", ready') /\ Once("run", ready')
         /\ \A w \in {"prepare", "prepareDry"} : /\ In(w, ready') <=> In(w, q)
                                                 /\ Once(w, q) => Once(w, ready')
         /\ NoneBefore("run", "exit", ready')
<1> DEFINE first == <<"runReturns">>
           rest == Waiters(c)
<1>1. rest \in Seq({"exit", "back"}) /\ rest \in Seq(Names)
  BY WaitersAre DEF Names, ExecutionWorkers
<1>2. ASSUME NEW w, w \notin {"exit", "back"} PROVE ~In(w, rest) /\ Once(w, rest)
  BY <1>1, <1>2 DEF In, Once
<1>3. /\ first \in Seq(Names) /\ Once("runReturns", first)
      /\ \A w : (In(w, first) <=> w = "runReturns") /\ Once(w, first)
  BY Alone DEF Names, ExecutionWorkers
<1> HIDE DEF first, rest
<1> DEFINE s == first \o rest
<1>4. s \in Seq(Names)
  BY <1>1, <1>3, JoinedAt
<1>5. \A w : w \notin {"exit", "back"} => (In(w, s) <=> w = "runReturns") /\ Once(w, s)
  <2> SUFFICES ASSUME NEW w, w \notin {"exit", "back"}
               PROVE  (In(w, s) <=> w = "runReturns") /\ Once(w, s)
    OBVIOUS
  <2>1. In(w, s) <=> w = "runReturns"
    BY <1>1, <1>2, <1>3, JoinedIn
  <2>2. Once(w, s)
    BY <1>1, <1>2, <1>3, JoinedOnce
  <2> QED
    BY <2>1, <2>2
<1> HIDE DEF s
<1>6. ready' = q \o s
  BY DEF s, first, rest
<1>7. ready' \in Seq(Names)
  BY <1>4, <1>6, JoinedAt
<1>8. ASSUME NEW w PROVE In(w, ready') <=> In(w, q) \/ In(w, s)
  <2>1. In(w, q \o s) <=> In(w, q) \/ In(w, s)
    BY <1>4, JoinedIn
  <2> QED
    BY <1>6, <2>1
<1>9. Once("runReturns", ready')
  BY <1>4, <1>5, <1>6, JoinedOnce
<1>10. ~In("run", ready')
  BY <1>5, <1>8
<1>11. Once("run", ready') /\ NoneBefore("run", "exit", ready')
  BY <1>10 DEF In, Once, NoneBefore
<1>12. ASSUME NEW w \in {"prepare", "prepareDry"}, Once(w, q) PROVE Once(w, ready')
  BY <1>4, <1>5, <1>6, <1>12, JoinedOnce
<1> QED
  BY <1>5, <1>7, <1>8, <1>9, <1>10, <1>11, <1>12

-----------------------------------------------------------------------------
(***************************************************************************)
(* Planning, running and quitting: steps that leave them alone.            *)
(***************************************************************************)
LEMMA InitExecution == Init => ExecutionInv
<1> SUFFICES ASSUME Init PROVE ExecutionInv
  OBVIOUS
<1> USE DEF OrNone
<1>1. ExecutionInit /\ ready = <<>>
  BY DEF Init
<1>2. /\ ready \in Seq(Names)
      /\ \A w : ~In(w, ready) /\ Once(w, ready)
      /\ \A v, w : NoneBefore(v, w, ready)
  BY <1>1, Nobody
<1>3. ExecutionTypes
  <2>1. NoState \in States /\ NoRun \in Runs
    BY DEF NoState, NoRun, States, Statuses, Runs
  <2>2. cancellers \in Seq({"cancel", "cancelAndQuit"})
    BY <1>1 DEF ExecutionInit
  <2> QED
    BY <1>1, <2>1, <2>2 DEF ExecutionInit, ExecutionTypes, NotPlanning
<1>4. PrepareQueue /\ RunQueue /\ ExitQueue
  BY <1>1, <1>2 DEF ExecutionInit, PrepareQueue, RunQueue, ExitQueue, NoRun, NotPlanning, Live
<1>5. OneExecutionAtATime /\ AttemptsWereApproved /\ QuitLeavesNoRun
  BY <1>1 DEF ExecutionInit, OneExecutionAtATime, AttemptsWereApproved, QuitLeavesNoRun,
              NoState, NoRun, NotPlanning
<1>6. ShownPlan /\ Question /\ Approvals
  BY <1>1, <1>2 DEF ExecutionInit, ShownPlan, Question, Approvals, NoState, NoRun
<1> QED
  BY <1>2, <1>3, <1>4, <1>5, <1>6 DEF ExecutionInv

LEMMA QueueKeeps ==
  ASSUME ready \in Seq(Names), PrepareQueue, RunQueue, ExitQueue, QueueAsBefore,
         UNCHANGED <<planning, run, executing>>
  PROVE  PrepareQueue' /\ RunQueue' /\ ExitQueue'
<1>1. /\ \A w \in {"prepare", "prepareDry", "run", "runReturns"} :
           /\ In(w, ready') <=> In(w, ready)
           /\ Once(w, ready) => Once(w, ready')
      /\ In("exit", ready') => In("exit", ready)
  BY DEF QueueAsBefore, Watched
<1>2. PrepareQueue'
  BY <1>1 DEF PrepareQueue
<1>3. RunQueue'
  BY <1>1 DEF RunQueue
<1>4. ExitQueue'
  BY <1>1 DEF ExitQueue, QueueAsBefore
<1> QED
  BY <1>2, <1>3, <1>4

LEMMA ElsewhereKeeps ==
  ASSUME ExecutionInv, QueueAsBefore, UNCHANGED executionVars
  PROVE  ExecutionInv'
<1>1. UNCHANGED <<execute, view, approved, asked, held, answer, planning, executing, run,
                  cancellers, quit, asksFirst, gestures, attempts>>
  BY DEF executionVars, approvalVars
<1>2. ready' \in Seq(Names) /\ (In("run", ready') <=> In("run", ready))
  BY DEF QueueAsBefore, Watched
<1>3. PrepareQueue' /\ RunQueue' /\ ExitQueue'
  BY <1>1, QueueKeeps DEF ExecutionInv
<1>4. ExecutionTypes'
  BY <1>1 DEF ExecutionInv, ExecutionTypes
<1>5. OneExecutionAtATime' /\ AttemptsWereApproved' /\ QuitLeavesNoRun'
  BY <1>1 DEF ExecutionInv, OneExecutionAtATime, AttemptsWereApproved, QuitLeavesNoRun
<1>6. ShownPlan' /\ Question'
  BY <1>1 DEF ExecutionInv, ShownPlan, Question
<1>7. Approvals'
  BY <1>1, <1>2 DEF ExecutionInv, Approvals
<1> QED
  BY <1>2, <1>3, <1>4, <1>5, <1>6, <1>7 DEF ExecutionInv

\* The workers of the pages are neutral.
LEMMA PageWorkers ==
  ASSUME NEW k, k \in LoadKinds \/ k = "usage"
  PROVE  k \in Neutral /\ Workers(k) \in Seq(Neutral)
<1>1. k \in {"usage", "history", "models", "doctor"}
  BY LoadKindsAssumption
<1>2. k \in Neutral
  BY <1>1 DEF Neutral, Names, ExecutionWorkers, OtherWorkers, Watched
<1>3. <<k>> \in Seq(Neutral) /\ <<>> \in Seq(Neutral)
  BY <1>2
<1> QED
  BY <1>2, <1>3 DEF Workers

LEMMA NeutralNames ==
  /\ {"save", "startup", "refresh", "usageRefresh", "analyze", "cancel", "cancelAndQuit", "back"}
       \subseteq Neutral
  /\ \A w \in Neutral : <<w>> \in Seq(Neutral)
  /\ <<>> \in Seq(Neutral)
<1>1. {"save", "startup", "refresh", "usageRefresh", "analyze", "cancel", "cancelAndQuit", "back"}
        \subseteq Neutral
  BY DEF Neutral, Names, ExecutionWorkers, OtherWorkers, Watched
<1> QED
  BY <1>1

LEMMA NavigateIsNeutral ==
  ASSUME ready \in Seq(Names), NEW d, Navigate(d)
  PROVE  QueueAsBefore
<1>1. CASE dest = "settings" /\ Intercepts
  BY <1>1, Resting DEF Navigate
<1>2. CASE ~(dest = "settings" /\ Intercepts)
  <2>1. Enters(d)
    BY <1>2 DEF Navigate
  <2>2. CASE LoadsOnEntry(d)
    BY <2>1, <2>2, PageWorkers, StartNeutral DEF Enters, LoadsOnEntry
  <2>3. CASE ~LoadsOnEntry(d)
    BY <2>1, <2>3, Resting DEF Enters
  <2> QED
    BY <2>2, <2>3
<1> QED
  BY <1>1, <1>2

LEMMA EndsIsNeutral ==
  ASSUME ready \in Seq(Names), NEW i, NEW report, Ends(i, report)
  PROVE  QueueAsBefore
<1>1. CASE overview.refreshes[i].by = "usage"
  BY <1>1, PageWorkers, StartNeutral DEF Ends
<1>2. CASE overview.refreshes[i].by # "usage"
  BY <1>2, Resting DEF Ends
<1> QED
  BY <1>1, <1>2

\* The overview and the pages leave the watched workers where they are.
LEMMA LoadsAreNeutral ==
  ASSUME ready \in Seq(Names),
         \/ StartOverview \/ BeginStartup \/ RefreshOverview \/ BeginRefresh \/ RefreshUsage
         \/ BeginUsageRefresh \/ OthersCapture \/ OverviewStep
         \/ \E k \in LoadKinds : BeginLoad(k) \/ ReadStore(k) \/ FinishLoad(k) \/ LoadFails(k)
  PROVE  QueueAsBefore
<1>1. CASE StartOverview \/ RefreshOverview \/ RefreshUsage
  BY <1>1, NeutralNames, StartNeutral DEF StartOverview, RefreshOverview, RefreshUsage
<1>2. CASE BeginStartup \/ BeginRefresh
  BY <1>2, NeutralNames, TurnNeutral DEF BeginStartup, BeginRefresh
<1>3. CASE BeginUsageRefresh
  BY <1>3, NeutralNames, PageWorkers, TurnNeutral DEF BeginUsageRefresh
<1>4. CASE OthersCapture
  BY <1>4, Resting DEF OthersCapture
<1>5. CASE OverviewStep
  <2>1. PICK i \in DOMAIN overview.refreshes :
          LocalStatus(i) \/ InspectProvider(i) \/ Refreshed(i)
    BY <1>5 DEF OverviewStep
  <2>2. UNCHANGED ready \/ \E report : Ends(i, report)
    BY <2>1 DEF LocalStatus, InspectProvider, Refreshed, MovesOn
  <2> QED
    BY <2>2, Resting, EndsIsNeutral
<1>6. ASSUME NEW k \in LoadKinds, BeginLoad(k) PROVE QueueAsBefore
  BY <1>6, NeutralNames, PageWorkers, TurnNeutral DEF BeginLoad
<1>7. ASSUME NEW k \in LoadKinds, ReadStore(k) \/ FinishLoad(k) \/ LoadFails(k)
      PROVE  QueueAsBefore
  BY <1>7, Resting DEF ReadStore, FinishLoad, LoadFails
<1> QED
  BY <1>1, <1>2, <1>3, <1>4, <1>5, <1>6, <1>7

-----------------------------------------------------------------------------
(***************************************************************************)
(* What the page shows.                                                    *)
(***************************************************************************)
LEMMA NoneIsApart == None \notin Plans /\ None \notin BOOLEAN
  BY NoneIsNoPlan DEF Plans

LEMMA Showing ==
  ASSUME ExecutionTypes, NEW state \in States, Shows(state)
  PROVE  /\ execute' = state
         /\ view' \in [plan : OrNone(Plans), approve : BOOLEAN, cancel : BOOLEAN]
         /\ state.plan # None => view'.plan = state.plan
         /\ state.plan # None /\ ~state.plan.dry /\ state.status # "running" /\ ~state.result
              => view'.approve /\ view'.cancel
<1>1. execute' = state /\ view' = Rendered(state)
  BY DEF Shows
<1>2. CASE state.plan = None
  BY <1>1, <1>2 DEF Rendered, ExecutionTypes, States, OrNone
<1>3. CASE state.plan # None
  <2>1. state.plan \in Plans /\ state.result \in BOOLEAN
    BY <1>3 DEF States, OrNone
  <2>2. state.plan.dry \in BOOLEAN
    BY <2>1 DEF Plans
  <2> QED
    BY <1>1, <1>3, <2>1, <2>2 DEF Rendered, OrNone
<1> QED
  BY <1>2, <1>3

\* Rendering the same state again: nothing of it and of the question is lost.
LEMMA ShownAgain ==
  ASSUME ExecutionInv, Shows(execute)
  PROVE  /\ UNCHANGED execute
         /\ view' \in [plan : OrNone(Plans), approve : BOOLEAN, cancel : BOOLEAN]
         /\ execute.plan # None => view'.plan = execute.plan
         /\ held => view'.approve /\ view'.cancel
<1>1. ExecutionTypes /\ execute \in States
  BY DEF ExecutionInv, ExecutionTypes
<1>2. held => /\ execute.plan # None /\ ~execute.plan.dry
              /\ execute.status # "running" /\ ~execute.result
  BY DEF ExecutionInv, Question, ShownPlan
<1> QED
  BY <1>1, <1>2, Showing

\* The parts of the invariant that the worker queue has no part in, when the page is
\* rendered again and the rest stays.
LEMMA RenderingKeeps ==
  ASSUME ExecutionInv, Shows(execute),
         UNCHANGED <<approved, asked, held, answer, executing, run, cancellers, quit, asksFirst,
                     gestures, attempts>>,
         planning' \in [pending : BOOLEAN, dry : OrNone(BOOLEAN)],
         planning'.dry = planning.dry,
         In("run", ready') => In("run", ready)
  PROVE  /\ ExecutionTypes'
         /\ OneExecutionAtATime'
         /\ ShownPlan' /\ Question' /\ Approvals'
         /\ AttemptsWereApproved' /\ QuitLeavesNoRun'
<1>1. /\ UNCHANGED execute
      /\ view' \in [plan : OrNone(Plans), approve : BOOLEAN, cancel : BOOLEAN]
      /\ execute.plan # None => view'.plan = execute.plan
      /\ held => view'.approve /\ view'.cancel
  BY ShownAgain
<1>2. ExecutionTypes'
  BY <1>1 DEF ExecutionInv, ExecutionTypes
<1>3. OneExecutionAtATime' /\ AttemptsWereApproved' /\ QuitLeavesNoRun'
  BY <1>1 DEF ExecutionInv, OneExecutionAtATime, AttemptsWereApproved, QuitLeavesNoRun
<1>4. ShownPlan' /\ Question'
  BY <1>1 DEF ExecutionInv, ShownPlan, Question
<1>5. Approvals'
  BY <1>1 DEF ExecutionInv, Approvals
<1> QED
  BY <1>2, <1>3, <1>4, <1>5

-----------------------------------------------------------------------------
(***************************************************************************)
(* Planning.                                                               *)
(***************************************************************************)
LEMMA PrepareExecutionKeeps ==
  ASSUME ExecutionInv, NEW dry \in BOOLEAN, PrepareExecution(dry)
  PROVE  ExecutionInv'
<1> DEFINE worker == IF dry THEN "prepareDry" ELSE "prepare"
<1>1. /\ ~planning.pending
      /\ planning' = [planning EXCEPT !.pending = TRUE]
      /\ Start(<<worker>>)
      /\ UNCHANGED <<execute, view, approved, asked, held, answer, executing, run, cancellers,
                     quit, asksFirst, gestures, attempts>>
  BY DEF PrepareExecution, approvalVars
<1>2. planning \in [pending : BOOLEAN, dry : OrNone(BOOLEAN)]
  BY DEF ExecutionInv, ExecutionTypes
<1>3. /\ planning' \in [pending : BOOLEAN, dry : OrNone(BOOLEAN)]
      /\ planning'.pending = TRUE /\ planning'.dry = planning.dry
  BY <1>1, <1>2
<1>4. /\ ~In("prepare", ready) /\ ~In("prepareDry", ready) /\ planning.dry = None
  BY <1>1, <1>2 DEF ExecutionInv, PrepareQueue
<1>5. worker \in {"prepare", "prepareDry"} /\ worker \in Names
  BY DEF Names, ExecutionWorkers
<1> HIDE DEF worker
<1>6. /\ ready' \in Seq(Names)
      /\ \A v : v # worker => /\ In(v, ready') <=> In(v, ready)
                              /\ Once(v, ready) => Once(v, ready')
      /\ Once(worker, ready')
      /\ NoneBefore("run", "exit", ready')
  BY <1>1, <1>4, <1>5, StartOf DEF ExecutionInv, PrepareQueue, ExitQueue
<1>7. /\ In("run", ready') <=> In("run", ready)
      /\ In("runReturns", ready') <=> In("runReturns", ready)
      /\ In("exit", ready') <=> In("exit", ready)
      /\ Once("run", ready') /\ Once("runReturns", ready')
  BY <1>5, <1>6 DEF ExecutionInv, RunQueue
<1>8. PrepareQueue'
  BY <1>3, <1>4, <1>5, <1>6 DEF ExecutionInv, PrepareQueue
<1>9. RunQueue' /\ ExitQueue'
  BY <1>1, <1>6, <1>7 DEF ExecutionInv, RunQueue, ExitQueue
<1>10. ExecutionTypes'
  BY <1>1, <1>3 DEF ExecutionInv, ExecutionTypes
<1>11. OneExecutionAtATime' /\ AttemptsWereApproved' /\ QuitLeavesNoRun'
  BY <1>1, <1>3 DEF ExecutionInv, OneExecutionAtATime, AttemptsWereApproved, QuitLeavesNoRun
<1>12. ShownPlan' /\ Question'
  BY <1>1 DEF ExecutionInv, ShownPlan, Question
<1>13. Approvals'
  BY <1>1, <1>7 DEF ExecutionInv, Approvals
<1> QED
  BY <1>6, <1>8, <1>9, <1>10, <1>11, <1>12, <1>13 DEF ExecutionInv

LEMMA BeginPrepareKeeps ==
  ASSUME ExecutionInv, NEW dry \in BOOLEAN, BeginPrepare(dry)
  PROVE  ExecutionInv'
<1> DEFINE worker == IF dry THEN "prepareDry" ELSE "prepare"
<1>1. /\ Turn(worker, <<>>)
      /\ IF execute.active
         THEN Shows(execute) /\ planning' = NotPlanning
         ELSE /\ Shows([NoState EXCEPT !.status = "planning", !.active = TRUE])
              /\ planning' = [pending |-> TRUE, dry |-> dry]
      /\ UNCHANGED <<approved, asked, held, answer, executing, run, cancellers, quit, asksFirst,
                     gestures, attempts>>
  BY DEF BeginPrepare, approvalVars
<1>2. worker \in {"prepare", "prepareDry"}
  OBVIOUS
<1> HIDE DEF worker
<1>3. /\ In(worker, ready)
      /\ ready' \in Seq(Names)
      /\ \A v : v # worker => (In(v, ready') <=> In(v, ready))
      /\ \A v : Once(v, ready) => Once(v, ready')
      /\ Once(worker, ready) => ~In(worker, ready')
      /\ NoneBefore("run", "exit", ready) => NoneBefore("run", "exit", ready')
  BY <1>1, TurnOf DEF ExecutionInv
<1>4. planning.pending /\ planning.dry = None
  BY <1>2, <1>3 DEF ExecutionInv, PrepareQueue
<1>5. ~In("prepare", ready') /\ ~In("prepareDry", ready')
  BY <1>2, <1>3 DEF ExecutionInv, PrepareQueue
<1>6. /\ In("run", ready') <=> In("run", ready)
      /\ In("runReturns", ready') <=> In("runReturns", ready)
      /\ In("exit", ready') <=> In("exit", ready)
  BY <1>2, <1>3
<1>7. RunQueue' /\ ExitQueue'
  BY <1>1, <1>3, <1>6 DEF ExecutionInv, RunQueue, ExitQueue
<1>8. CASE execute.active
  <2>0. Shows(execute) /\ planning' = NotPlanning
    BY <1>1, <1>8
  <2>1. /\ planning' \in [pending : BOOLEAN, dry : OrNone(BOOLEAN)]
        /\ planning'.dry = None
    BY <2>0 DEF NotPlanning, OrNone
  <2>2. PrepareQueue'
    BY <1>3, <1>5, <2>1 DEF ExecutionInv, PrepareQueue
  <2>3. /\ ExecutionTypes'
        /\ OneExecutionAtATime'
        /\ ShownPlan' /\ Question' /\ Approvals'
        /\ AttemptsWereApproved' /\ QuitLeavesNoRun'
    BY <1>1, <1>4, <1>6, <2>0, <2>1, RenderingKeeps
  <2> QED
    BY <1>3, <1>7, <2>2, <2>3 DEF ExecutionInv
<1>9. CASE ~execute.active
  <2> DEFINE state == [NoState EXCEPT !.status = "planning", !.active = TRUE]
  <2>1. /\ state \in States /\ state.plan = None /\ state.active = TRUE
    BY DEF NoState, States, Statuses, OrNone
  <2>2. Shows(state) /\ planning' = [pending |-> TRUE, dry |-> dry]
    BY <1>1, <1>9
  <2> HIDE DEF state
  <2>3. /\ execute' = state
        /\ view' \in [plan : OrNone(Plans), approve : BOOLEAN, cancel : BOOLEAN]
    BY <2>1, <2>2, Showing DEF ExecutionInv
  <2>4. /\ planning' \in [pending : BOOLEAN, dry : OrNone(BOOLEAN)]
        /\ planning'.pending = TRUE /\ planning'.dry # None
    BY <2>2, NoneIsApart DEF OrNone
  <2>5. run.at = "none" /\ ~held
    BY <1>9 DEF ExecutionInv, OneExecutionAtATime, Question
  <2>6. PrepareQueue'
    BY <1>3, <1>5, <2>4 DEF ExecutionInv, PrepareQueue
  <2>7. ExecutionTypes'
    BY <1>1, <2>1, <2>3, <2>4 DEF ExecutionInv, ExecutionTypes
  <2>8. OneExecutionAtATime' /\ AttemptsWereApproved' /\ QuitLeavesNoRun'
    BY <1>1, <2>1, <2>3, <2>4, <2>5
    DEF ExecutionInv, OneExecutionAtATime, AttemptsWereApproved, QuitLeavesNoRun
  <2>9. ShownPlan' /\ Question'
    BY <1>1, <2>1, <2>3, <2>5 DEF ExecutionInv, ShownPlan, Question
  <2>10. Approvals'
    BY <1>1, <2>1, <2>3, <2>5 DEF ExecutionInv, Approvals
  <2> QED
    BY <1>3, <1>7, <2>6, <2>7, <2>8, <2>9, <2>10 DEF ExecutionInv
<1> QED
  BY <1>8, <1>9

\* An approval that nothing waits for is none.
LEMMA NothingApproved ==
  ASSUME ExecutionInv, ready = <<>>, run.at = "none"
  PROVE  approved = None /\ ~executing
<1>1. ~In("run", ready)
  BY DEF In
<1> QED
  BY <1>1 DEF ExecutionInv, ExecutionTypes, RunQueue, Approvals

LEMMA PlanArrivesKeeps ==
  ASSUME ExecutionInv, ready = <<>>, PlanArrives
  PROVE  ExecutionInv'
<1>1. PICK state \in States :
        /\ Shows(state) /\ ~state.active
        /\ planning.dry # None /\ planning' = NotPlanning
        /\ gestures' = {} /\ attempts' = {}
        /\ UNCHANGED <<ready, approved, asked, held, answer, executing, run, cancellers, quit,
                       asksFirst>>
  <2> DEFINE failed == [NoState EXCEPT !.status = "error"]
             made(id) == [NoState EXCEPT !.status = "ready",
                            !.plan = [id |-> id, step |-> 0, dry |-> planning.dry]]
  <2>1. planning.dry \in BOOLEAN
    BY DEF PlanArrives, ExecutionInv, ExecutionTypes, OrNone
  <2>2. failed \in States /\ ~failed.active
    BY DEF NoState, States, Statuses, OrNone
  <2>3. ASSUME NEW id \in PlanIds PROVE made(id) \in States /\ ~made(id).active
    <3>1. [id |-> id, step |-> 0, dry |-> planning.dry] \in Plans
      BY <2>1 DEF Plans
    <3> QED
      BY <3>1 DEF NoState, States, Statuses, OrNone
  <2>4. Shows(failed) \/ \E id \in PlanIds : Shows(made(id))
    BY DEF PlanArrives
  <2> HIDE DEF failed, made
  <2> QED
    BY <2>2, <2>3, <2>4 DEF PlanArrives, approvalVars
<1>2. run.at = "none" /\ ~held
  BY <1>1 DEF ExecutionInv, OneExecutionAtATime, Question
<1>3. approved = None /\ ~executing
  BY <1>2, NothingApproved
<1>4. \A w : ~In(w, ready) /\ Once(w, ready)
  BY DEF In, Once
<1>5. /\ execute' = state
      /\ view' \in [plan : OrNone(Plans), approve : BOOLEAN, cancel : BOOLEAN]
      /\ state.plan # None => view'.plan = state.plan
  BY <1>1, Showing DEF ExecutionInv
<1>6. /\ planning' \in [pending : BOOLEAN, dry : OrNone(BOOLEAN)]
      /\ planning'.dry = None
  BY <1>1 DEF NotPlanning, OrNone
<1>7. PrepareQueue' /\ RunQueue' /\ ExitQueue'
  BY <1>1, <1>4, <1>6 DEF ExecutionInv, PrepareQueue, RunQueue, ExitQueue
<1>8. ExecutionTypes'
  BY <1>1, <1>5, <1>6 DEF ExecutionInv, ExecutionTypes
<1>9. OneExecutionAtATime' /\ AttemptsWereApproved' /\ QuitLeavesNoRun'
  BY <1>1, <1>2, <1>5, <1>6
  DEF ExecutionInv, OneExecutionAtATime, AttemptsWereApproved, QuitLeavesNoRun
<1>10. ShownPlan' /\ Question'
  BY <1>1, <1>2, <1>5 DEF ExecutionInv, ShownPlan, Question
<1>11. Approvals'
  BY <1>1, <1>2, <1>3, <1>4 DEF Approvals
<1> QED
  BY <1>1, <1>7, <1>8, <1>9, <1>10, <1>11 DEF ExecutionInv

-----------------------------------------------------------------------------
(***************************************************************************)
(* Approving and beginning to run.                                         *)
(***************************************************************************)
LEMMA AnswerQuestionKeeps ==
  ASSUME ExecutionInv, AnswerQuestion, view.plan # None, gestures' = gestures \cup {view.plan},
         UNCHANGED <<planning, run, cancellers, quit, asksFirst, attempts>>
  PROVE  ExecutionInv'
<1> DEFINE state == [execute EXCEPT !.status = "running", !.result = FALSE]
<1>1. /\ held /\ held' = FALSE /\ asked' = None
      /\ answer' = IF answer = "open" /\ asked # None THEN "yes" ELSE answer
      /\ Shows(state)
      /\ UNCHANGED <<ready, approved, executing>>
  BY DEF AnswerQuestion
<1>2. execute \in States /\ execute.active \in BOOLEAN /\ view.plan \in OrNone(Plans)
  BY DEF ExecutionInv, ExecutionTypes, States
<1>3. /\ state \in States /\ state.plan = execute.plan
      /\ state.active = execute.active
  BY <1>2 DEF States, Statuses
<1> HIDE DEF state
<1>4. /\ run.at = "waiting" /\ answer = "open" /\ asked = run.plan /\ execute.plan = run.plan
      /\ run.plan # None /\ view.plan = run.plan
  BY <1>1 DEF ExecutionInv, Question, ShownPlan
<1>5. answer' = "yes"
  BY <1>1, <1>4
<1>6. /\ execute' = state
      /\ view' \in [plan : OrNone(Plans), approve : BOOLEAN, cancel : BOOLEAN]
      /\ state.plan # None => view'.plan = state.plan
  BY <1>1, <1>3, Showing DEF ExecutionInv
<1>7. gestures \subseteq gestures' /\ run.plan \in gestures' /\ gestures' \subseteq Plans
  BY <1>2, <1>4 DEF ExecutionInv, ExecutionTypes, OrNone
<1>8. PrepareQueue' /\ RunQueue' /\ ExitQueue'
  BY <1>1 DEF ExecutionInv, PrepareQueue, RunQueue, ExitQueue
<1>9. ExecutionTypes'
  BY <1>1, <1>3, <1>5, <1>6, <1>7 DEF ExecutionInv, ExecutionTypes, OrNone
<1>10. OneExecutionAtATime' /\ AttemptsWereApproved' /\ QuitLeavesNoRun'
  BY <1>3, <1>6, <1>7
  DEF ExecutionInv, OneExecutionAtATime, AttemptsWereApproved, QuitLeavesNoRun
<1>11. ShownPlan' /\ Question'
  BY <1>1, <1>3, <1>4, <1>5, <1>6 DEF ExecutionInv, ShownPlan, Question
<1>12. Approvals'
  BY <1>1, <1>3, <1>4, <1>5, <1>6, <1>7 DEF ExecutionInv, RunQueue, Approvals
<1> QED
  BY <1>1, <1>8, <1>9, <1>10, <1>11, <1>12 DEF ExecutionInv

LEMMA StartRunKeeps ==
  ASSUME ExecutionInv, StartRun, view.plan # None, gestures' = gestures \cup {view.plan},
         UNCHANGED <<planning, run, cancellers, quit, asksFirst, attempts>>
  PROVE  ExecutionInv'
<1>1. /\ execute.plan # None /\ ~executing
      /\ approved' = execute.plan /\ executing' = TRUE
      /\ Start(<<"run">>)
      /\ UNCHANGED <<execute, view, asked, held, answer>>
  BY DEF StartRun
<1>2. /\ view.plan = execute.plan /\ execute.plan \in Plans
      /\ run.at = "none" /\ ~In("run", ready)
  BY <1>1 DEF ExecutionInv, ExecutionTypes, States, OrNone, ShownPlan, RunQueue
<1>3. /\ ready' \in Seq(Names)
      /\ In("run", ready') /\ Once("run", ready')
      /\ \A v : v # "run" => /\ In(v, ready') <=> In(v, ready)
                             /\ Once(v, ready) => Once(v, ready')
      /\ NoneBefore("run", "exit", ready')
  BY <1>1, <1>2, StartOf DEF ExecutionInv, RunQueue, ExitQueue, Names, ExecutionWorkers
<1>4. /\ gestures \subseteq gestures' /\ gestures' \subseteq Plans
      /\ execute.plan \in gestures'
  BY <1>2 DEF ExecutionInv, ExecutionTypes
<1>5. PrepareQueue' /\ RunQueue' /\ ExitQueue'
  BY <1>1, <1>2, <1>3 DEF ExecutionInv, PrepareQueue, RunQueue, ExitQueue, Live
<1>6. ExecutionTypes'
  BY <1>1, <1>2, <1>4 DEF ExecutionInv, ExecutionTypes, OrNone
<1>7. OneExecutionAtATime' /\ AttemptsWereApproved' /\ QuitLeavesNoRun'
  BY <1>1, <1>4
  DEF ExecutionInv, OneExecutionAtATime, AttemptsWereApproved, QuitLeavesNoRun
<1>8. ShownPlan' /\ Question'
  BY <1>1 DEF ExecutionInv, ShownPlan, Question
<1>9. Approvals'
  BY <1>1, <1>2, <1>4 DEF Approvals
<1> QED
  BY <1>3, <1>5, <1>6, <1>7, <1>8, <1>9 DEF ExecutionInv

LEMMA BeginRunKeeps ==
  ASSUME ExecutionInv, BeginRun, ~quit
  PROVE  ExecutionInv'
<1> DEFINE idle == execute.active \/ execute.plan = None \/ execute.plan.dry
           begun == [NoRun EXCEPT !.at = "deciding", !.origin = execute.plan,
                                  !.plan = execute.plan]
           state == [NoState EXCEPT !.status = "running", !.plan = execute.plan,
                                    !.active = TRUE]
<1>1. /\ Turn("run", <<>>)
      /\ UNCHANGED <<asked, held, answer, planning, cancellers, quit, asksFirst, gestures,
                     attempts>>
  BY DEF BeginRun
<1>2. /\ In("run", ready) /\ ~In("run", ready')
      /\ ready' \in Seq(Names)
      /\ \A v : v # "run" => (In(v, ready') <=> In(v, ready))
      /\ \A v : Once(v, ready) => Once(v, ready')
      /\ NoneBefore("run", "exit", ready') /\ ~In("exit", ready')
  BY <1>1, TurnOf DEF ExecutionInv, RunQueue, ExitQueue
<1>3. run.at = "none" /\ executing /\ ~held
  BY <1>2 DEF ExecutionInv, RunQueue, Question
<1>4. PrepareQueue'
  BY <1>1, <1>2 DEF ExecutionInv, PrepareQueue
<1>5. CASE idle
  <2>1. Shows(execute) /\ approved' = None /\ executing' = FALSE /\ UNCHANGED run
    BY <1>5 DEF BeginRun
  <2>2. /\ UNCHANGED execute
        /\ view' \in [plan : OrNone(Plans), approve : BOOLEAN, cancel : BOOLEAN]
        /\ execute.plan # None => view'.plan = execute.plan
    BY <2>1, ShownAgain
  <2>3. RunQueue' /\ ExitQueue'
    BY <1>2, <1>3, <2>1 DEF ExecutionInv, RunQueue, ExitQueue
  <2>4. ExecutionTypes'
    BY <1>1, <2>1, <2>2 DEF ExecutionInv, ExecutionTypes, OrNone
  <2>5. OneExecutionAtATime' /\ AttemptsWereApproved' /\ QuitLeavesNoRun'
    BY <1>1, <2>1, <2>2
    DEF ExecutionInv, OneExecutionAtATime, AttemptsWereApproved, QuitLeavesNoRun
  <2>6. ShownPlan' /\ Question'
    BY <1>1, <1>3, <2>1, <2>2 DEF ExecutionInv, ShownPlan, Question
  <2>7. Approvals'
    BY <1>1, <1>2, <1>3, <2>1, <2>2 DEF Approvals
  <2> QED
    BY <1>2, <1>4, <2>3, <2>4, <2>5, <2>6, <2>7 DEF ExecutionInv
<1>6. CASE ~idle
  <2>1. /\ ~execute.active /\ execute.plan # None /\ ~execute.plan.dry
    BY <1>6
  <2>2. Shows(state) /\ run' = begun /\ UNCHANGED <<approved, executing>>
    BY <1>6 DEF BeginRun
  <2>3. execute.plan \in Plans /\ execute.plan \in gestures
    BY <1>2, <2>1 DEF ExecutionInv, ExecutionTypes, States, OrNone, Approvals
  <2>4. /\ state \in States /\ state.active = TRUE /\ state.plan = execute.plan
    BY <2>3 DEF NoState, States, Statuses, OrNone
  <2>5. /\ begun \in Runs /\ begun.at = "deciding" /\ begun.plan = execute.plan
    BY <2>3 DEF NoRun, Runs, Live, OrNone
  <2> HIDE DEF state, begun, idle
  <2>6. /\ execute' = state
        /\ view' \in [plan : OrNone(Plans), approve : BOOLEAN, cancel : BOOLEAN]
        /\ view'.plan = execute.plan
    BY <2>1, <2>2, <2>4, Showing DEF ExecutionInv
  <2>7. planning.dry = None /\ QuitLeavesNoRun'
    BY <1>1, <2>1 DEF ExecutionInv, OneExecutionAtATime, QuitLeavesNoRun
  <2>8. RunQueue' /\ ExitQueue'
    BY <1>2, <1>3, <2>2, <2>5 DEF ExecutionInv, RunQueue, ExitQueue
  <2>9. ExecutionTypes'
    BY <1>1, <2>2, <2>4, <2>5, <2>6 DEF ExecutionInv, ExecutionTypes
  <2>10. OneExecutionAtATime' /\ AttemptsWereApproved'
    BY <1>1, <2>2, <2>4, <2>5, <2>6, <2>7
    DEF ExecutionInv, OneExecutionAtATime, AttemptsWereApproved
  <2>11. ShownPlan' /\ Question'
    BY <1>1, <1>3, <2>1, <2>2, <2>4, <2>5, <2>6 DEF ExecutionInv, ShownPlan, Question
  <2>12. Approvals'
    BY <1>1, <1>2, <1>3, <2>2, <2>3, <2>4, <2>5, <2>6 DEF ExecutionInv, Approvals
  <2> QED
    BY <1>2, <1>4, <2>7, <2>8, <2>9, <2>10, <2>11, <2>12 DEF ExecutionInv
<1> QED
  BY <1>5, <1>6

-----------------------------------------------------------------------------
(***************************************************************************)
(* The run as the service takes it on.                                     *)
(***************************************************************************)
\* What holds of a live run.
LEMMA LiveRun ==
  ASSUME ExecutionInv, run.at \in Live
  PROVE  /\ run \in Runs /\ run.plan \in Plans /\ run.plan # None /\ ~run.plan.dry
         /\ ~In("run", ready) /\ ~In("runReturns", ready) /\ ~In("exit", ready)
         /\ executing /\ ~quit /\ planning.dry = None /\ execute.active = TRUE
         /\ run.at # "waiting" => ~held /\ answer \in {"yes", "no"}
<1>1. run.at # "none" /\ run.at # "over"
  BY DEF Live
<1>2. execute.active \in BOOLEAN /\ run \in Runs /\ answer \in {"open", "yes", "no"}
  BY DEF ExecutionInv, ExecutionTypes, States
<1>3. run.plan \in Plans /\ run.plan # None /\ ~run.plan.dry
  BY <1>1, <1>2 DEF ExecutionInv, ShownPlan, Runs, OrNone
<1>4. ~In("run", ready) /\ ~In("runReturns", ready) /\ ~In("exit", ready) /\ executing
  BY <1>1 DEF ExecutionInv, RunQueue, ExitQueue
<1>5. ~quit /\ planning.dry = None /\ execute.active = TRUE
  BY <1>1, <1>2 DEF ExecutionInv, OneExecutionAtATime, QuitLeavesNoRun
<1>6. run.at # "waiting" => ~held /\ answer \in {"yes", "no"}
  BY <1>2 DEF ExecutionInv, Question
<1> QED
  BY <1>2, <1>3, <1>4, <1>5, <1>6

\* However a run ends: its worker is woken, what waited for it behind, and no question
\* is left.
LEMMA RunIsOver ==
  ASSUME ExecutionInv, run.at \in Live, NEW how \in {"result", "error", "cancelled"},
         run' = [run EXCEPT !.at = "over", !.end = how],
         NEW q \in Seq(Names), ~In("run", q), ~In("runReturns", q),
         \A w : Once(w, ready) => Once(w, q),
         \A w \in {"prepare", "prepareDry"} : In(w, q) <=> In(w, ready),
         NEW c \in Seq({"cancel", "cancelAndQuit"}),
         ready' = q \o (<<"runReturns">> \o Waiters(c)), cancellers' = <<>>,
         held' = FALSE, asked' \in OrNone(Plans), answer' \in {"yes", "no"},
         approved' \in {approved, None},
         UNCHANGED <<execute, view, planning, executing, quit, asksFirst, gestures, attempts>>
  PROVE  ExecutionInv'
<1>1. /\ run' \in Runs /\ run'.at = "over" /\ run'.plan = run.plan
      /\ run'.reusable = run.reusable /\ run'.end # "none"
  BY LiveRun DEF Runs
<1>2. /\ ready' \in Seq(Names)
      /\ In("runReturns", ready') /\ Once("runReturns", ready')
      /\ ~In("run", ready') /\ Once("run", ready')
      /\ \A w \in {"prepare", "prepareDry"} : /\ In(w, ready') <=> In(w, q)
                                              /\ Once(w, q) => Once(w, ready')
      /\ NoneBefore("run", "exit", ready')
  BY QueueOfAnEndedRun DEF ExecutionInv, RunQueue
<1>3. PrepareQueue'
  BY <1>2 DEF ExecutionInv, PrepareQueue
<1>4. RunQueue' /\ ExitQueue'
  BY <1>1, <1>2, LiveRun DEF RunQueue, ExitQueue, Live
<1>5. ExecutionTypes'
  <2>1. <<>> \in Seq({"cancel", "cancelAndQuit"})
    OBVIOUS
  <2> QED
    BY <1>1, <2>1 DEF ExecutionInv, ExecutionTypes, OrNone
<1>6. OneExecutionAtATime' /\ AttemptsWereApproved' /\ QuitLeavesNoRun'
  BY <1>1, LiveRun
  DEF ExecutionInv, OneExecutionAtATime, AttemptsWereApproved, QuitLeavesNoRun
<1>7. ShownPlan' /\ Question'
  BY <1>1, LiveRun DEF ExecutionInv, ShownPlan, Question
<1>8. Approvals'
  <2>1. run.at # "none"
    BY DEF Live
  <2>2. approved' # None => executing' /\ approved' \in gestures'
    BY DEF ExecutionInv, Approvals
  <2>3. run.reusable \/ run.plan.step = 0 => run.plan \in gestures
    BY <2>1 DEF ExecutionInv, Approvals
  <2> QED
    BY <1>1, <1>2, <2>2, <2>3 DEF Approvals
<1> QED
  BY <1>2, <1>3, <1>4, <1>5, <1>6, <1>7, <1>8 DEF ExecutionInv

LEMMA RunEndsKeeps ==
  ASSUME ExecutionInv, run.at \in Live, NEW how \in {"result", "error", "cancelled"},
         RunEnds(how),
         held' = FALSE, asked' \in OrNone(Plans), answer' \in {"yes", "no"},
         approved' \in {approved, None},
         UNCHANGED <<execute, view, planning, executing, quit, asksFirst, gestures, attempts>>
  PROVE  ExecutionInv'
<1>1. /\ run' = [run EXCEPT !.at = "over", !.end = how]
      /\ ready' = ready \o (<<"runReturns">> \o Waiters(cancellers))
      /\ cancellers' = <<>>
  BY DEF RunEnds, Start
<1>2. ready \in Seq(Names) /\ cancellers \in Seq({"cancel", "cancelAndQuit"})
  BY DEF ExecutionInv, ExecutionTypes
<1> QED
  BY <1>1, <1>2, LiveRun, RunIsOver

\* A live run goes on to live: where to, with what plan and what approval, decides.
LEMMA RunGoesOn ==
  ASSUME ExecutionInv, run.at \in Live, run' \in Runs, run'.at \in Live,
         run'.plan # None, ~run'.plan.dry,
         run'.at = "waiting" => answer' # "yes",
         run'.reusable \/ run'.plan.step = 0 \/ run'.at \in {"revalidating", "attempt", "cleaning"}
           => run'.plan \in gestures,
         execute' \in States, execute'.active = execute.active,
         view' \in [plan : OrNone(Plans), approve : BOOLEAN, cancel : BOOLEAN],
         execute'.plan # None => view'.plan = execute'.plan,
         Question', asked' \in OrNone(Plans), held' \in BOOLEAN, answer' \in {"open", "yes", "no"},
         approved' \in {approved, None},
         cancellers' \in Seq({"cancel", "cancelAndQuit"}),
         ready' \in Seq(Names), ~In("run", ready'), ~In("runReturns", ready'),
         ~In("exit", ready'),
         \A w : Once(w, ready) => Once(w, ready'),
         \A w \in {"prepare", "prepareDry"} : In(w, ready') <=> In(w, ready),
         gestures' = gestures, attempts' \subseteq gestures,
         UNCHANGED <<planning, executing, quit, asksFirst>>
  PROVE  ExecutionInv'
<1>1. run'.at # "none" /\ run'.at # "over"
  BY DEF Live
<1>2. PrepareQueue'
  BY DEF ExecutionInv, PrepareQueue
<1>3. Once("run", ready') /\ Once("runReturns", ready') /\ NoneBefore("run", "exit", ready')
  BY DEF ExecutionInv, RunQueue, NoneBefore, In
<1>4. RunQueue' /\ ExitQueue'
  BY <1>1, <1>3, LiveRun DEF RunQueue, ExitQueue
<1>5. ExecutionTypes'
  BY DEF ExecutionInv, ExecutionTypes, OrNone
<1>6. OneExecutionAtATime' /\ AttemptsWereApproved' /\ QuitLeavesNoRun'
  BY <1>1, LiveRun
  DEF OneExecutionAtATime, AttemptsWereApproved, QuitLeavesNoRun
<1>7. ShownPlan'
  BY <1>1 DEF ShownPlan
<1>8. Approvals'
  BY <1>1, LiveRun DEF ExecutionInv, Approvals
<1> QED
  BY <1>2, <1>4, <1>5, <1>6, <1>7, <1>8 DEF ExecutionInv

\* The same where the page and the queue stay.
LEMMA RunGoesOnUnseen ==
  ASSUME ExecutionInv, run.at \in Live, run' \in Runs, run'.at \in Live \ {"waiting"},
         run'.plan # None, ~run'.plan.dry,
         run'.reusable \/ run'.plan.step = 0 \/ run'.at \in {"revalidating", "attempt", "cleaning"}
           => run'.plan \in gestures,
         held' = FALSE, asked' \in OrNone(Plans), answer' \in {"yes", "no"},
         approved' \in {approved, None}, attempts' \subseteq gestures,
         UNCHANGED <<ready, cancellers, execute, view, planning, executing, quit, asksFirst,
                     gestures>>
  PROVE  ExecutionInv'
<1>1. Question'
  BY DEF Question
<1>2. /\ ready \in Seq(Names) /\ execute \in States
      /\ view \in [plan : OrNone(Plans), approve : BOOLEAN, cancel : BOOLEAN]
      /\ execute.plan # None => view.plan = execute.plan
      /\ cancellers \in Seq({"cancel", "cancelAndQuit"})
  BY DEF ExecutionInv, ExecutionTypes, ShownPlan
<1>3. answer' \in {"open", "yes", "no"} /\ held' \in BOOLEAN /\ run'.at \in Live
  OBVIOUS
<1>4. ~In("run", ready) /\ ~In("runReturns", ready) /\ ~In("exit", ready)
  BY LiveRun
<1> QED
  BY <1>1, <1>2, <1>3, <1>4, RunGoesOn

LEMMA AsksKeeps ==
  ASSUME ExecutionInv, run.at = "deciding", Asks,
         UNCHANGED <<ready, cancellers, planning, executing, quit, asksFirst, gestures, attempts>>,
         NeedsApproval
  PROVE  ExecutionInv'
<1> DEFINE state == [execute EXCEPT !.status = "awaiting_approval", !.plan = run.plan,
                                    !.result = FALSE]
<1>1. /\ run' = [run EXCEPT !.at = "waiting"]
      /\ asked' = run.plan /\ held' = TRUE /\ answer' = "open"
      /\ Shows(state)
      /\ UNCHANGED approved
  BY DEF Asks
<1>2. run.at \in Live
  BY DEF Live
<1>3. /\ run \in Runs /\ run.plan \in Plans /\ run.plan # None /\ ~run.plan.dry
      /\ ~In("run", ready) /\ ~In("runReturns", ready) /\ ~In("exit", ready)
  BY <1>2, LiveRun
<1>4. /\ run' \in Runs /\ run'.at = "waiting" /\ run'.plan = run.plan
      /\ run'.reusable = run.reusable /\ run'.at \in Live
  BY <1>1, <1>3 DEF Runs, Live
<1>5. /\ ready \in Seq(Names) /\ execute \in States /\ ExecutionTypes
      /\ cancellers \in Seq({"cancel", "cancelAndQuit"})
  BY DEF ExecutionInv, ExecutionTypes
<1>6. /\ state \in States /\ state.active = execute.active /\ state.plan = run.plan
      /\ state.status = "awaiting_approval" /\ state.result = FALSE
  BY <1>3, <1>5 DEF States, Statuses, OrNone
<1> HIDE DEF state
<1>7. /\ execute' = state
      /\ view' \in [plan : OrNone(Plans), approve : BOOLEAN, cancel : BOOLEAN]
      /\ view'.plan = run.plan /\ view'.approve /\ view'.cancel
  BY <1>1, <1>3, <1>5, <1>6, Showing
<1>8. Question'
  BY <1>1, <1>4, <1>6, <1>7 DEF Question
<1>9. run.reusable \/ run.plan.step = 0 => run.plan \in gestures
  BY <1>2 DEF ExecutionInv, Approvals, Live
<1>10. attempts \subseteq gestures
  BY DEF ExecutionInv, AttemptsWereApproved
<1>11. /\ execute' \in States /\ execute'.active = execute.active
       /\ execute'.plan # None => view'.plan = execute'.plan
       /\ asked' \in OrNone(Plans) /\ held' \in BOOLEAN /\ answer' \in {"open", "yes", "no"}
       /\ answer' # "yes"
       /\ run'.reusable \/ run'.plan.step = 0
            \/ run'.at \in {"revalidating", "attempt", "cleaning"} => run'.plan \in gestures
       /\ run'.plan # None /\ ~run'.plan.dry
  BY <1>1, <1>3, <1>4, <1>6, <1>7, <1>9 DEF OrNone
<1> QED
  BY <1>1, <1>2, <1>3, <1>4, <1>5, <1>7, <1>8, <1>10, <1>11, RunGoesOn

LEMMA ServiceDecidesKeeps ==
  ASSUME ExecutionInv, ServiceDecides
  PROVE  ExecutionInv'
<1>1. /\ run.at = "deciding" /\ run.at \in Live
      /\ UNCHANGED <<planning, executing, quit, asksFirst, gestures, attempts>>
  BY DEF ServiceDecides, Live
<1>2. /\ run \in Runs /\ run.plan \in Plans /\ run.plan # None /\ ~run.plan.dry
      /\ held = FALSE /\ answer \in {"yes", "no"} /\ asked \in OrNone(Plans)
      /\ approved \in OrNone(Plans) /\ asksFirst \in BOOLEAN /\ run.reusable \in BOOLEAN
      /\ run.plan.step \in Nat
  BY <1>1, LiveRun DEF ExecutionInv, ExecutionTypes, Runs, Plans
<1>3. attempts \subseteq gestures
  BY DEF ExecutionInv, AttemptsWereApproved
<1>4. CASE RunEnds("result") /\ UNCHANGED <<execute, view, approvalVars>>
  BY <1>1, <1>2, <1>4, RunEndsKeeps DEF approvalVars
<1>5. CASE /\ UNCHANGED <<ready, cancellers>>
           /\ ~NeedsApproval
           /\ run' = [run EXCEPT !.at = "revalidating"]
           /\ UNCHANGED <<execute, view, approvalVars>>
  <2>1. run.plan \in gestures
    <3>1. run.reusable \/ run.plan.step = 0
      BY <1>2, <1>5 DEF NeedsApproval
    <3> QED
      BY <1>1, <3>1 DEF ExecutionInv, Approvals
  <2>2. /\ run' \in Runs /\ run'.at \in Live \ {"waiting"} /\ run'.plan = run.plan
    BY <1>2, <1>5 DEF Runs, Live
  <2> QED
    BY <1>1, <1>2, <1>3, <1>5, <2>1, <2>2, RunGoesOnUnseen DEF approvalVars
<1>6. CASE /\ UNCHANGED <<ready, cancellers>>
           /\ NeedsApproval /\ Candidate(run.plan)
           /\ approved' = None
           /\ run' = [run EXCEPT !.at = "revalidating", !.reusable = TRUE]
           /\ UNCHANGED <<execute, view, asked, held, answer>>
  <2>1. run.plan \in gestures
    BY <1>6 DEF Candidate, ExecutionInv, Approvals
  <2>2. /\ run' \in Runs /\ run'.at \in Live \ {"waiting"} /\ run'.plan = run.plan
    BY <1>2, <1>6 DEF Runs, Live
  <2> QED
    BY <1>1, <1>2, <1>3, <1>6, <2>1, <2>2, RunGoesOnUnseen
<1>7. CASE UNCHANGED <<ready, cancellers>> /\ NeedsApproval /\ Asks
  BY <1>1, <1>7, AsksKeeps
<1> QED
  BY <1>4, <1>5, <1>6, <1>7 DEF ServiceDecides

LEMMA ServiceIsAnsweredKeeps ==
  ASSUME ExecutionInv, ServiceIsAnswered
  PROVE  ExecutionInv'
<1>1. /\ run.at = "waiting" /\ run.at \in Live
      /\ held' = FALSE /\ asked' = None
      /\ UNCHANGED <<execute, view, approved, answer, planning, executing, quit, asksFirst,
                     gestures, attempts>>
  BY DEF ServiceIsAnswered, Live
<1>2. /\ run \in Runs /\ run.plan \in Plans /\ run.plan # None /\ ~run.plan.dry
      /\ None \in OrNone(Plans)
  BY <1>1, LiveRun DEF OrNone
<1>3. CASE /\ answer = "yes"
           /\ run' = [run EXCEPT !.at = "revalidating", !.reusable = TRUE]
           /\ UNCHANGED <<ready, cancellers>>
  <2>1. run.plan \in gestures /\ attempts \subseteq gestures
    BY <1>1, <1>3 DEF ExecutionInv, Approvals, AttemptsWereApproved
  <2>2. run' \in Runs /\ run'.at \in Live \ {"waiting"} /\ run'.plan = run.plan
    BY <1>2, <1>3 DEF Runs, Live
  <2> QED
    BY <1>1, <1>2, <1>3, <2>1, <2>2, RunGoesOnUnseen
<1>4. CASE answer = "no" /\ RunEnds("result")
  BY <1>1, <1>2, <1>4, RunEndsKeeps
<1> QED
  BY <1>3, <1>4 DEF ServiceIsAnswered

\* What is asked while no question waits.
LEMMA Unasked ==
  ASSUME ExecutionInv, run.at \in Live, run.at # "waiting"
  PROVE  held = FALSE /\ answer \in {"yes", "no"} /\ asked \in OrNone(Plans)
  BY LiveRun DEF ExecutionInv, ExecutionTypes

LEMMA ServiceRevalidatesKeeps ==
  ASSUME ExecutionInv, ServiceRevalidates
  PROVE  ExecutionInv'
<1>1. /\ run.at = "revalidating" /\ run.at \in Live
      /\ UNCHANGED <<execute, view, approved, asked, held, answer, planning, executing, quit,
                     asksFirst, gestures>>
  BY DEF ServiceRevalidates, Live, approvalVars
<1>2. /\ run \in Runs /\ run.plan \in Plans /\ run.plan # None /\ ~run.plan.dry
      /\ held = FALSE /\ answer \in {"yes", "no"} /\ asked \in OrNone(Plans)
  BY <1>1, LiveRun, Unasked
<1>3. CASE /\ run' = [run EXCEPT !.at = "attempt", !.count = @ + 1]
           /\ attempts' = attempts \cup {run.plan}
           /\ UNCHANGED <<ready, cancellers>>
  <2>1. run.plan \in gestures /\ attempts' \subseteq gestures
    BY <1>1, <1>3 DEF ExecutionInv, Approvals, AttemptsWereApproved
  <2>2. run' \in Runs /\ run'.at \in Live \ {"waiting"} /\ run'.plan = run.plan
    <3>1. run.count \in Nat /\ run.count + 1 \in Nat
      BY <1>2 DEF Runs
    <3>2. run' = [run EXCEPT !.at = "attempt", !.count = run.count + 1]
      BY <1>3
    <3> QED
      BY <1>2, <3>1, <3>2 DEF Runs, Live
  <2> QED
    BY <1>1, <1>2, <1>3, <2>1, <2>2, RunGoesOnUnseen
<1>4. CASE (\E how \in {"result", "error"} : RunEnds(how)) /\ UNCHANGED attempts
  BY <1>1, <1>2, <1>4, RunEndsKeeps
<1> QED
  BY <1>3, <1>4 DEF ServiceRevalidates

LEMMA AttemptEndsKeeps ==
  ASSUME ExecutionInv, AttemptEnds
  PROVE  ExecutionInv'
<1>1. /\ run.at = "attempt" /\ run.at \in Live
      /\ UNCHANGED <<execute, view, approved, asked, held, answer, planning, executing, quit,
                     asksFirst, gestures, attempts>>
  BY DEF AttemptEnds, Live, approvalVars
<1>2. /\ run \in Runs /\ run.plan \in Plans /\ run.plan # None /\ ~run.plan.dry
      /\ held = FALSE /\ answer \in {"yes", "no"} /\ asked \in OrNone(Plans)
  BY <1>1, LiveRun, Unasked
<1>3. run.plan \in gestures /\ attempts \subseteq gestures
  BY <1>1 DEF ExecutionInv, Approvals, AttemptsWereApproved
<1>4. CASE \E how \in {"result", "error"} : RunEnds(how)
  BY <1>1, <1>2, <1>4, RunEndsKeeps
<1>5. CASE /\ run' = [run EXCEPT !.at = "deciding", !.reusable = TRUE]
           /\ UNCHANGED <<ready, cancellers>>
  <2>1. run' \in Runs /\ run'.at \in Live \ {"waiting"} /\ run'.plan = run.plan
    BY <1>2, <1>5 DEF Runs, Live
  <2> QED
    BY <1>1, <1>2, <1>3, <1>5, <2>1, RunGoesOnUnseen
<1>6. CASE /\ run' = [run EXCEPT !.at = "deciding", !.reusable = FALSE, !.plan.step = @ + 1]
           /\ UNCHANGED <<ready, cancellers>>
  <2> DEFINE next == [run.plan EXCEPT !.step = @ + 1]
  <2>1. /\ next \in Plans /\ next.dry = run.plan.dry /\ next.step # 0
    BY <1>2 DEF Plans
  <2>2. run' = [run EXCEPT !.at = "deciding", !.reusable = FALSE, !.plan = next]
    BY <1>6
  <2>3. next # None
    BY <2>1, NoneIsApart
  <2> HIDE DEF next
  <2>4. /\ run' \in Runs /\ run'.at = "deciding" /\ run'.plan = next /\ run'.reusable = FALSE
    BY <1>2, <2>1, <2>2 DEF Runs, Live, OrNone
  <2>5. run'.at \in Live \ {"waiting"}
    BY <2>4 DEF Live
  <2> QED
    BY <1>1, <1>2, <1>3, <1>6, <2>1, <2>3, <2>4, <2>5, RunGoesOnUnseen
<1> QED
  BY <1>4, <1>5, <1>6 DEF AttemptEnds

LEMMA CleanupEndsKeeps ==
  ASSUME ExecutionInv, CleanupEnds
  PROVE  ExecutionInv'
<1>1. /\ run.at = "cleaning" /\ run.at \in Live
      /\ RunEnds("cancelled")
      /\ UNCHANGED <<execute, view, approved, asked, held, answer, planning, executing, quit,
                     asksFirst, gestures, attempts>>
  BY DEF CleanupEnds, Live, approvalVars
<1>2. held = FALSE /\ answer \in {"yes", "no"} /\ asked \in OrNone(Plans)
  BY <1>1, Unasked
<1> QED
  BY <1>1, <1>2, RunEndsKeeps

LEMMA RunReturnsKeeps ==
  ASSUME ExecutionInv, RunReturns
  PROVE  ExecutionInv'
<1> DEFINE state == [NoState EXCEPT
                       !.status = run.end,
                       !.plan = IF run.end = "result" THEN execute.plan ELSE run.origin,
                       !.result = run.end = "result"]
<1>1. /\ Turn("runReturns", <<>>)
      /\ Shows(state)
      /\ run' = NoRun /\ approved' = None /\ executing' = FALSE
      /\ UNCHANGED <<asked, held, answer, planning, cancellers, quit, asksFirst, gestures,
                     attempts>>
  BY DEF RunReturns
<1>2. /\ In("runReturns", ready) /\ ~In("runReturns", ready')
      /\ ready' \in Seq(Names)
      /\ \A v : v # "runReturns" => (In(v, ready') <=> In(v, ready))
      /\ \A v : Once(v, ready) => Once(v, ready')
      /\ NoneBefore("run", "exit", ready')
  BY <1>1, TurnOf DEF ExecutionInv, RunQueue, ExitQueue
<1>3. run.at = "over" /\ ~held /\ planning.dry = None /\ ~In("run", ready)
  BY <1>2 DEF ExecutionInv, RunQueue, Question, OneExecutionAtATime
<1>4. /\ NoRun \in Runs /\ NoRun.at = "none" /\ run \in Runs /\ execute \in States
  BY DEF NoRun, Runs, OrNone, ExecutionInv, ExecutionTypes
<1>5. PICK shown \in States : Shows(shown) /\ ~shown.active
  <2>1. /\ run.end \in {"none", "result", "error", "cancelled"}
        /\ execute.plan \in OrNone(Plans) /\ run.origin \in OrNone(Plans)
    BY <1>4 DEF Runs, States
  <2>2. run.end # "none"
    BY <1>3 DEF ExecutionInv, RunQueue
  <2>3. state \in States /\ ~state.active
    BY <2>1, <2>2 DEF NoState, States, Statuses
  <2> QED
    BY <1>1, <2>3
<1> HIDE DEF state
<1>6. /\ execute' = shown
      /\ view' \in [plan : OrNone(Plans), approve : BOOLEAN, cancel : BOOLEAN]
      /\ shown.plan # None => view'.plan = shown.plan
  BY <1>5, Showing DEF ExecutionInv
<1>7. PrepareQueue'
  BY <1>1, <1>2 DEF ExecutionInv, PrepareQueue
<1>8. RunQueue' /\ ExitQueue'
  BY <1>1, <1>2, <1>3, <1>4 DEF ExecutionInv, RunQueue, ExitQueue, Live
<1>9. ExecutionTypes'
  BY <1>1, <1>4, <1>6 DEF ExecutionInv, ExecutionTypes, OrNone
<1>10. OneExecutionAtATime' /\ AttemptsWereApproved' /\ QuitLeavesNoRun'
  BY <1>1, <1>3, <1>4, <1>5, <1>6
  DEF ExecutionInv, OneExecutionAtATime, AttemptsWereApproved, QuitLeavesNoRun, Live
<1>11. ShownPlan' /\ Question'
  BY <1>1, <1>3, <1>4, <1>6 DEF ExecutionInv, ShownPlan, Question
<1>12. Approvals'
  BY <1>1, <1>2, <1>3, <1>4 DEF Approvals
<1> QED
  BY <1>2, <1>7, <1>8, <1>9, <1>10, <1>11, <1>12 DEF ExecutionInv

-----------------------------------------------------------------------------
(***************************************************************************)
(* Leaving, cancelling and quitting.                                       *)
(***************************************************************************)
LEMMA LeavesExecutionKeeps ==
  ASSUME ExecutionInv, LeavesExecution, UNCHANGED ready,
         Rejects \/ UNCHANGED <<approved, answer>>
  PROVE  ExecutionInv'
<1>1. /\ ~execute.active
      /\ execute' = NoState /\ UNCHANGED view
      /\ UNCHANGED <<ready, asked, held, planning, executing, run, cancellers, quit, asksFirst,
                     gestures, attempts>>
  BY DEF LeavesExecution, Clears
<1>2. run.at = "none" /\ planning.dry = None /\ ~held
  BY <1>1 DEF ExecutionInv, OneExecutionAtATime, Question
<1>3. approved' \in {approved, None} /\ answer' = answer
  BY <1>2 DEF Rejects
<1>4. NoState \in States /\ ~NoState.active /\ NoState.plan = None
  BY DEF NoState, States, Statuses, OrNone
<1>5. PrepareQueue' /\ RunQueue' /\ ExitQueue'
  BY <1>1 DEF ExecutionInv, PrepareQueue, RunQueue, ExitQueue
<1>6. ExecutionTypes'
  BY <1>1, <1>3, <1>4 DEF ExecutionInv, ExecutionTypes, OrNone
<1>7. OneExecutionAtATime' /\ AttemptsWereApproved' /\ QuitLeavesNoRun'
  BY <1>1, <1>2, <1>4
  DEF ExecutionInv, OneExecutionAtATime, AttemptsWereApproved, QuitLeavesNoRun
<1>8. ShownPlan' /\ Question'
  BY <1>1, <1>2, <1>3, <1>4 DEF ExecutionInv, ShownPlan, Question
<1>9. Approvals'
  BY <1>1, <1>2, <1>3, <1>4 DEF ExecutionInv, Approvals
<1> QED
  BY <1>1, <1>5, <1>6, <1>7, <1>8, <1>9 DEF ExecutionInv

\* Only what runs is asked about before the application exits.
LEMMA QuittingKeeps ==
  ASSUME ExecutionInv, QueueAsBefore, quit' \in BOOLEAN, quit' => run.at \notin Live,
         UNCHANGED <<execute, view, approved, asked, held, answer, planning, executing, run,
                     cancellers, asksFirst, gestures, attempts>>
  PROVE  ExecutionInv'
<1>1. ready' \in Seq(Names) /\ (In("run", ready') <=> In("run", ready))
  BY DEF QueueAsBefore, Watched
<1>2. PrepareQueue' /\ RunQueue' /\ ExitQueue'
  BY QueueKeeps DEF ExecutionInv
<1>3. ExecutionTypes'
  BY DEF ExecutionInv, ExecutionTypes
<1>4. OneExecutionAtATime' /\ AttemptsWereApproved' /\ QuitLeavesNoRun'
  BY DEF ExecutionInv, OneExecutionAtATime, AttemptsWereApproved, QuitLeavesNoRun
<1>5. ShownPlan' /\ Question'
  BY DEF ExecutionInv, ShownPlan, Question
<1>6. Approvals'
  BY <1>1 DEF ExecutionInv, Approvals
<1> QED
  BY <1>1, <1>2, <1>3, <1>4, <1>5, <1>6 DEF ExecutionInv

LEMMA RequestQuitKeeps ==
  ASSUME ExecutionInv, RequestQuit
  PROVE  ExecutionInv'
<1>1. /\ UNCHANGED <<ready, execute, view, approved, asked, held, answer, planning, executing,
                     run, cancellers, asksFirst, gestures, attempts>>
      /\ quit' = quit \/ (quit' = ~execute.active)
  BY DEF RequestQuit, approvalVars
<1>2. QueueAsBefore
  BY <1>1, Resting DEF ExecutionInv
<1>3. execute.active \in BOOLEAN /\ quit \in BOOLEAN
  BY DEF ExecutionInv, ExecutionTypes, States
<1>4. ~execute.active => run.at \notin Live
  BY DEF ExecutionInv, OneExecutionAtATime, Live
<1>5. quit => run.at \notin Live
  BY DEF ExecutionInv, QuitLeavesNoRun
<1>6. quit' \in BOOLEAN /\ (quit' => run.at \notin Live)
  <2>1. CASE quit' = quit
    BY <1>3, <1>5, <2>1
  <2>2. CASE quit' = ~execute.active
    BY <1>4, <2>2
  <2> QED
    BY <1>1, <2>1, <2>2
<1> QED
  BY <1>1, <1>2, <1>6, QuittingKeeps

\* What follows a cancellation.
LEMMA AfterCancelKeeps ==
  ASSUME ExecutionInv, NEW canceller, AfterCancel(canceller), QueueAsBefore,
         canceller = "cancelAndQuit" => run.at \notin Live,
         held => answer' = answer /\ approved' = approved,
         approved' \in {approved, None}, answer' = answer,
         UNCHANGED <<asked, held, planning, executing, run, cancellers, asksFirst, gestures,
                     attempts>>
  PROVE  ExecutionInv'
<1>1. /\ UNCHANGED execute
      /\ view' \in [plan : OrNone(Plans), approve : BOOLEAN, cancel : BOOLEAN]
      /\ execute.plan # None => view'.plan = execute.plan
      /\ held => view'.approve /\ view'.cancel
  BY ShownAgain DEF AfterCancel
<1>2. /\ ready' \in Seq(Names)
      /\ In("run", ready') <=> In("run", ready)
  BY DEF QueueAsBefore, Watched
<1>3. quit' \in BOOLEAN /\ (quit' => run.at \notin Live)
  BY DEF AfterCancel, ExecutionInv, ExecutionTypes, QuitLeavesNoRun
<1>4. PrepareQueue' /\ RunQueue' /\ ExitQueue'
  BY QueueKeeps DEF ExecutionInv
<1>5. ExecutionTypes'
  BY <1>1, <1>3 DEF ExecutionInv, ExecutionTypes, OrNone
<1>6. OneExecutionAtATime' /\ AttemptsWereApproved' /\ QuitLeavesNoRun'
  BY <1>1, <1>3 DEF ExecutionInv, OneExecutionAtATime, AttemptsWereApproved, QuitLeavesNoRun
<1>7. ShownPlan' /\ Question'
  BY <1>1 DEF ExecutionInv, ShownPlan, Question
<1>8. Approvals'
  BY <1>1, <1>2 DEF ExecutionInv, Approvals
<1> QED
  BY <1>2, <1>4, <1>5, <1>6, <1>7, <1>8 DEF ExecutionInv

LEMMA CancelReturnsKeeps ==
  ASSUME ExecutionInv, NEW canceller \in {"cancel", "cancelAndQuit"}, CancelReturns(canceller)
  PROVE  ExecutionInv'
<1>1. /\ Turn(Resumed(canceller), <<>>) /\ AfterCancel(canceller)
      /\ UNCHANGED <<approved, asked, held, answer, planning, executing, run, cancellers,
                     asksFirst, gestures, attempts>>
  BY DEF CancelReturns, approvalVars
<1>2. Resumed(canceller) \in Neutral \cup {"exit"}
  BY NeutralNames DEF Resumed
<1>3. QueueAsBefore
  BY <1>1, <1>2, TurnOfResumed DEF ExecutionInv
<1>4. ASSUME canceller = "cancelAndQuit" PROVE run.at \notin Live
  <2>1. Turn("exit", <<>>)
    BY <1>1, <1>4 DEF Resumed
  <2> QED
    BY <2>1, TurnOf DEF ExecutionInv, ExitQueue
<1> QED
  BY <1>1, <1>3, <1>4, AfterCancelKeeps

LEMMA CancelExecutionKeeps ==
  ASSUME ExecutionInv, NEW canceller \in {"cancel", "cancelAndQuit"}, CancelExecution(canceller)
  PROVE  ExecutionInv'
<1>1. /\ Rejects
      /\ UNCHANGED <<planning, executing, asksFirst, gestures, attempts>>
  BY DEF CancelExecution
<1>2. /\ answer' = IF held /\ answer = "open" THEN "no" ELSE answer
      /\ approved' = None
  BY <1>1 DEF Rejects
<1>3. canceller \in Neutral /\ <<>> \in Seq(Neutral)
  BY NeutralNames
<1>4. CASE run.at \notin Live
  <2>1. /\ Turn(canceller, <<>>) /\ AfterCancel(canceller)
        /\ UNCHANGED <<asked, held, run, cancellers>>
    BY <1>4 DEF CancelExecution
  <2>2. QueueAsBefore
    BY <1>3, <2>1, TurnNeutral DEF ExecutionInv
  <2>3. ~held
    BY <1>4 DEF ExecutionInv, Question, Live
  <2>4. answer' = answer
    BY <1>2, <2>3
  <2> QED
    BY <1>1, <1>2, <1>4, <2>1, <2>2, <2>3, <2>4, AfterCancelKeeps
<1>5. CASE run.at \in Live
  <2>1. /\ CancelRun(canceller)
        /\ held' = (held /\ run.at # "waiting")
        /\ asked' = IF run.at = "waiting" THEN None ELSE asked
        /\ UNCHANGED <<execute, view, quit>>
    BY <1>5 DEF CancelExecution
  <2>2. /\ run \in Runs /\ run.plan \in Plans /\ run.plan # None /\ ~run.plan.dry
        /\ ~In("run", ready) /\ ~In("runReturns", ready)
        /\ run.at # "waiting" => ~held
    BY <1>5, LiveRun
  <2>3. /\ held \in BOOLEAN /\ answer \in {"open", "yes", "no"} /\ asked \in OrNone(Plans)
        /\ cancellers \in Seq({"cancel", "cancelAndQuit"}) /\ ready \in Seq(Names)
    BY DEF ExecutionInv, ExecutionTypes
  <2>4. held' = FALSE
    BY <2>1, <2>2, <2>3
  <2>5. answer' \in {"yes", "no"}
    BY <1>2, <2>3 DEF ExecutionInv, Question
  <2>6. asked' \in OrNone(Plans)
    BY <2>1, <2>3 DEF OrNone
  <2>7. Append(cancellers, canceller) \in Seq({"cancel", "cancelAndQuit"})
    BY <2>3
  <2>8. approved' \in {approved, None}
    BY <1>2
  <2>9. CASE run.at = "attempt"
    <3>1. /\ run' = [run EXCEPT !.at = "cleaning"]
          /\ cancellers' = Append(cancellers, canceller)
          /\ Turn(canceller, <<>>)
      BY <2>1, <2>9 DEF CancelRun
    <3>2. /\ run' \in Runs /\ run'.at \in Live /\ run'.at # "waiting" /\ run'.plan = run.plan
      BY <2>2, <3>1 DEF Runs, Live
    <3>3. run.plan \in gestures /\ attempts \subseteq gestures
      BY <2>9 DEF ExecutionInv, Approvals, AttemptsWereApproved
    <3>4. QueueAsBefore
      BY <1>3, <3>1, TurnNeutral DEF ExecutionInv
    <3>5. ~In("exit", ready)
      BY <1>5, LiveRun
    <3>6. /\ ready' \in Seq(Names)
          /\ ~In("run", ready') /\ ~In("runReturns", ready') /\ ~In("exit", ready')
          /\ \A w \in {"prepare", "prepareDry"} : In(w, ready') <=> In(w, ready)
      BY <2>2, <3>4, <3>5 DEF QueueAsBefore, Watched
    <3>7. \A w : Once(w, ready) => Once(w, ready')
      BY <2>3, <3>1, TurnOf
    <3>8. Question'
      BY <2>4, <2>5, <3>2 DEF Question
    <3>9. /\ execute \in States
          /\ view \in [plan : OrNone(Plans), approve : BOOLEAN, cancel : BOOLEAN]
          /\ execute.plan # None => view.plan = execute.plan
      BY DEF ExecutionInv, ExecutionTypes, ShownPlan
    <3>10. answer' \in {"open", "yes", "no"} /\ held' \in BOOLEAN
      BY <2>4, <2>5
    <3> QED
      BY <1>1, <1>5, <2>1, <2>2, <2>6, <2>7, <2>8, <3>1, <3>2, <3>3, <3>6, <3>7, <3>8, <3>9,
         <3>10, RunGoesOn
  <2>10. CASE run.at # "attempt"
    <3> DEFINE q == Tail(ready)
               c == Append(cancellers, canceller)
    <3>1. /\ run' = [run EXCEPT !.at = "over", !.end = "cancelled"]
          /\ cancellers' = <<>>
          /\ ready # <<>> /\ Head(ready) = canceller
          /\ ready' = q \o (<<"runReturns">> \o Waiters(c))
      BY <2>1, <2>10 DEF CancelRun, Turn
    <3>2. /\ q \in Seq(Names)
          /\ \A w : In(w, ready) <=> Head(ready) = w \/ In(w, q)
          /\ \A w : Once(w, ready) => Once(w, q)
      BY <2>3, <3>1, Taken
    <3>3. c \in Seq({"cancel", "cancelAndQuit"})
      BY <2>7
    <3> HIDE DEF q, c
    <3>4. /\ ~In("run", q) /\ ~In("runReturns", q)
          /\ \A w \in {"prepare", "prepareDry"} : In(w, q) <=> In(w, ready)
      BY <2>2, <3>1, <3>2
    <3> QED
      BY <1>1, <1>5, <2>1, <2>4, <2>5, <2>6, <2>8, <3>1, <3>2, <3>3, <3>4, RunIsOver
  <2> QED
    BY <2>9, <2>10
<1> QED
  BY <1>4, <1>5

-----------------------------------------------------------------------------
(***************************************************************************)
(* Every step of the application.                                          *)
(***************************************************************************)
LEMMA ApproveKeeps ==
  ASSUME ExecutionInv, Approve
  PROVE  ExecutionInv'
<1>1. /\ view.plan # None /\ gestures' = gestures \cup {view.plan}
      /\ AnswerQuestion \/ StartRun
      /\ UNCHANGED <<planning, run, cancellers, quit, asksFirst, attempts>>
  BY DEF Approve, ApproveExecution
<1> QED
  BY <1>1, AnswerQuestionKeeps, StartRunKeeps

LEMMA CancelPressedKeeps ==
  ASSUME ExecutionInv, CancelPressed
  PROVE  ExecutionInv'
<1>1. Start(<<"cancel">>) /\ UNCHANGED executionVars
  BY DEF CancelPressed
<1>2. QueueAsBefore
  BY <1>1, NeutralNames, StartNeutral DEF ExecutionInv
<1> QED
  BY <1>1, <1>2, ElsewhereKeeps

LEMMA KeysKeep ==
  ASSUME ExecutionInv,
         GoTo \/ BackToRoute \/ Escape \/ CancelButton \/ RequestQuit \/ QuitExecutionChosen
  PROVE  ExecutionInv'
<1>1. ready \in Seq(Names)
  BY DEF ExecutionInv
<1>2. CASE GoTo \/ BackToRoute
  <2>1. (\E d : Navigate(d)) /\ UNCHANGED executionVars
    BY <1>2 DEF GoTo, BackToRoute, ElseNavigation
  <2> QED
    BY <1>1, <2>1, NavigateIsNeutral, ElsewhereKeeps
<1>3. CASE Escape
  <2>1. CASE CancelPressed
    BY <2>1, CancelPressedKeeps
  <2>2. CASE LeavesExecution /\ Rejects
    BY <2>2, LeavesExecutionKeeps DEF LeavesExecution
  <2>3. CASE UNCHANGED <<ready, executionVars>>
    BY <1>1, <2>3, Resting, ElsewhereKeeps
  <2> QED
    BY <1>3, <2>1, <2>2, <2>3 DEF Escape
<1>4. CASE CancelButton
  <2>1. CASE CancelPressed
    BY <2>1, CancelPressedKeeps
  <2>2. CASE LeavesExecution /\ UNCHANGED <<approved, answer>>
    BY <2>2, LeavesExecutionKeeps DEF LeavesExecution
  <2> QED
    BY <1>4, <2>1, <2>2 DEF CancelButton
<1>5. CASE RequestQuit
  BY <1>5, RequestQuitKeeps
<1>6. CASE QuitExecutionChosen
  <2>1. UNCHANGED executionVars /\ (UNCHANGED ready \/ Start(<<"cancelAndQuit">>))
    BY <1>6 DEF QuitExecutionChosen
  <2>2. QueueAsBefore
    BY <1>1, <2>1, Resting, NeutralNames, StartNeutral
  <2> QED
    BY <2>1, <2>2, ElsewhereKeeps
<1> QED
  BY <1>2, <1>3, <1>4, <1>5, <1>6

LEMMA PagesKeep ==
  ASSUME ExecutionInv, Refresh \/ OnSettings \/ OnRoute
  PROVE  ExecutionInv'
<1>1. ready \in Seq(Names)
  BY DEF ExecutionInv
<1>2. CASE Refresh
  <2>1. UNCHANGED executionVars
    BY <1>2 DEF Refresh, ElseLoads
  <2>2. QueueAsBefore
    <3>1. \/ RefreshOverview \/ RefreshUsage
          \/ \E k \in LoadKinds : Start(Workers(k))
      BY <1>2 DEF Refresh
    <3> QED
      BY <1>1, <3>1, LoadsAreNeutral, PageWorkers, StartNeutral
  <2> QED
    BY <2>1, <2>2, ElsewhereKeeps
<1>3. CASE OnSettings
  <2>1. UNCHANGED executionVars /\ (UNCHANGED ready \/ Start(<<"save">>))
    BY <1>3 DEF OnSettings, ElseSettings, SaveSettings
  <2>2. QueueAsBefore
    BY <1>1, <2>1, Resting, NeutralNames, StartNeutral
  <2> QED
    BY <2>1, <2>2, ElsewhereKeeps
<1>4. CASE OnRoute
  <2>1. CASE \E dry \in BOOLEAN : PrepareExecution(dry)
    BY <2>1, PrepareExecutionKeeps
  <2>2. CASE (AnalyzeTask \/ \E t \in journey.goals : EditTask(t)) /\ ElseRoute
    <3>1. UNCHANGED executionVars /\ (UNCHANGED ready \/ Start(<<"analyze">>))
      BY <2>2 DEF ElseRoute, AnalyzeTask, EditTask
    <3>2. QueueAsBefore
      BY <1>1, <3>1, Resting, NeutralNames, StartNeutral
    <3> QED
      BY <3>1, <3>2, ElsewhereKeeps
  <2> QED
    BY <1>4, <2>1, <2>2 DEF OnRoute
<1> QED
  BY <1>2, <1>3, <1>4

LEMMA TurnsKeep ==
  ASSUME ExecutionInv, Turns
  PROVE  ExecutionInv'
<1>1. ready \in Seq(Names) /\ ~quit /\ WorkerTurns
  BY DEF ExecutionInv, Turns
<1>2. CASE BeginSave /\ ElseSettings
  <2>1. QueueAsBefore
    BY <1>1, <1>2, NeutralNames, TurnNeutral DEF BeginSave
  <2> QED
    BY <1>2, <2>1, ElsewhereKeeps DEF ElseSettings
<1>3. CASE /\ \/ BeginStartup \/ BeginRefresh \/ BeginUsageRefresh
              \/ \E k \in LoadKinds : BeginLoad(k)
           /\ ElseLoads
  <2>1. QueueAsBefore
    BY <1>1, <1>3, LoadsAreNeutral
  <2> QED
    BY <1>3, <2>1, ElsewhereKeeps DEF ElseLoads
<1>4. CASE BeginAnalyze /\ ElseRoute
  <2>1. QueueAsBefore
    BY <1>1, <1>4, NeutralNames, TurnNeutral DEF BeginAnalyze
  <2> QED
    BY <1>4, <2>1, ElsewhereKeeps DEF ElseRoute
<1>5. CASE BeginRun \/ RunReturns \/ \E dry \in BOOLEAN : BeginPrepare(dry)
  BY <1>1, <1>5, BeginRunKeeps, RunReturnsKeeps, BeginPrepareKeeps
<1>6. CASE \E c \in {"cancel", "cancelAndQuit"} : CancelExecution(c) \/ CancelReturns(c)
  BY <1>6, CancelExecutionKeeps, CancelReturnsKeeps
<1> QED
  BY <1>1, <1>2, <1>3, <1>4, <1>5, <1>6 DEF WorkerTurns

LEMMA ArrivalsKeep ==
  ASSUME ExecutionInv, Services \/ OtherArrivals \/ Startup \/ Others
  PROVE  ExecutionInv'
<1>1. ready \in Seq(Names)
  BY DEF ExecutionInv
<1>2. CASE Services
  <2>1. /\ ready = <<>>
        /\ \/ PlanArrives \/ ServiceDecides \/ ServiceIsAnswered
           \/ ServiceRevalidates \/ AttemptEnds \/ CleanupEnds
    BY <1>2 DEF Services, ExecutionArrivals, Arrival
  <2> QED
    BY <2>1, PlanArrivesKeeps, ServiceDecidesKeeps, ServiceIsAnsweredKeeps,
       ServiceRevalidatesKeeps, AttemptEndsKeeps, CleanupEndsKeeps
<1>3. CASE OtherArrivals
  <2>1. CASE (SaveEnds /\ ElseSettings) \/ (AnalysisArrives /\ ElseRoute)
    <3>1. UNCHANGED <<ready, executionVars>>
      BY <2>1 DEF SaveEnds, AnalysisArrives, ElseSettings, ElseRoute
    <3> QED
      BY <1>1, <3>1, Resting, ElsewhereKeeps
  <2>2. CASE /\ \/ OverviewStep
                \/ \E k \in LoadKinds : ReadStore(k) \/ FinishLoad(k) \/ LoadFails(k)
             /\ ElseLoads
    <3>1. QueueAsBefore
      BY <1>1, <2>2, LoadsAreNeutral
    <3> QED
      BY <2>2, <3>1, ElsewhereKeeps DEF ElseLoads
  <2> QED
    BY <1>3, <2>1, <2>2 DEF OtherArrivals
<1>4. CASE Startup \/ Others
  <2>1. (StartOverview \/ OthersCapture) /\ UNCHANGED executionVars
    BY <1>4 DEF Startup, Others, ElseLoads
  <2> QED
    BY <1>1, <2>1, LoadsAreNeutral, ElsewhereKeeps
<1> QED
  BY <1>2, <1>3, <1>4

LEMMA NextExecution == ExecutionInv /\ [Next]_appVars => ExecutionInv'
<1> SUFFICES ASSUME ExecutionInv, [Next]_appVars PROVE ExecutionInv'
  OBVIOUS
<1>1. CASE UNCHANGED appVars
  BY <1>1, Resting, ElsewhereKeeps DEF appVars, ExecutionInv
<1>2. CASE Next
  BY <1>2, KeysKeep, PagesKeep, ApproveKeeps, TurnsKeep, ArrivalsKeep DEF Next
<1> QED
  BY <1>1, <1>2

\* The inductive invariant of planning, running, asking, cancelling and quitting from the
\* terminal application, for any plans, pages, texts and bounds.
THEOREM ApplicationIsConsistent == Spec => []ExecutionInv
  BY InitExecution, NextExecution, PTL DEF Spec

\* No attempt starts for a plan, or an escalation of it, that the user did not approve
\* while the page showed exactly this plan.
THEOREM NoAttemptUnapproved == Spec => []AttemptsWereApproved
<1>1. ExecutionInv => AttemptsWereApproved
  BY DEF ExecutionInv
<1> QED
  BY <1>1, ApplicationIsConsistent, PTL

\* While the service waits for an answer, the page shows the plan it asks about, with
\* the buttons that approve and cancel.
THEOREM WaitingIsVisible == Spec => []QuestionIsShown
<1>1. ExecutionInv => QuestionIsShown
  BY DEF ExecutionInv, Question, ShownPlan, QuestionIsShown
<1> QED
  BY <1>1, ApplicationIsConsistent, PTL

\* The application plans, runs and refreshes one thing at a time, and its flags say so,
\* whatever keys are pressed before the workers they start have their turns.
THEOREM OneThingAtATime == Spec => []OneOperationAtATime
<1>1. ExecutionInv /\ LoadInv => OneOperationAtATime
  BY DEF ExecutionInv, LoadInv, OneOperationAtATime
<1> QED
  BY <1>1, ApplicationIsConsistent, OverviewIsConsistent, PTL

\* The application exits behind a run, never with one under way.
THEOREM QuitsBehindTheRun == Spec => []QuitLeavesNoRun
<1>1. ExecutionInv => QuitLeavesNoRun
  BY DEF ExecutionInv
<1> QED
  BY <1>1, ApplicationIsConsistent, PTL
=============================================================================
