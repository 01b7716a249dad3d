----------------------------- MODULE StatusService -----------------------------
(***************************************************************************)
(* StatusService.get_status and SnapshotService.capture_and_store, asked by*)
(* several processes over one snapshot repository. The repository is what  *)
(* SnapshotHistory promises (SnapshotStore keeps that promise): a call of  *)
(* it is started by the service, worked on by steps of its own, and waited *)
(* for. A snapshot is named by the client that captured it.                *)
(*                                                                         *)
(* A capture reads the clock once, when its session has begun, and takes   *)
(* time before and after that. The clock never goes backward. A capture, a *)
(* save and a read may fail, and a client may be cancelled in any of them. *)
(***************************************************************************)
EXTENDS Naturals, Sequences

CONSTANTS
  Requests,    \* calls of get_status
  Refreshing,  \* those with a refresh_provider
  Capturing,   \* calls of capture_and_store
  MaxTime      \* bound of the clock

ASSUME RefreshingIsAsked == Refreshing \subseteq Requests
ASSUME CapturesAreApart  == Requests \cap Capturing = {}
ASSUME BoundIsTime       == MaxTime \in Nat

Clients == Requests \cup Capturing

\* The save of a client has its name; the read of a request has one of its own.
Saves == Refreshing \cup Capturing
LookupOf(q) == <<"lookup", q>>
Lookups == { LookupOf(q) : q \in Requests }

ASSUME NamesAreApart == Saves \cap Lookups = {}

VARIABLES
  history, saw, outcome,  \* the repository, as in SnapshotHistory
  clock,
  captured,  \* captured_at of each client's snapshot, 0 before it is taken
  pc,        \* the await a client is at, or how it ended
  now,       \* the time a request was given
  source,    \* SnapshotSource as get_status keeps it
  report,    \* the report a request returned
  known      \* history: what was stored when a request began

repository == <<history, saw, outcome>>
vars == <<repository, clock, captured, pc, now, source, report, known>>

History == INSTANCE SnapshotHistory WITH Savers <- Saves, Readers <- Lookups

NoReport == [source |-> "none", snapshot |-> "none", future |-> FALSE]

Init ==
  /\ History!Init
  /\ clock = 1
  /\ captured = [c \in Saves |-> 0]
  /\ pc = [c \in Clients |-> "idle"]
  /\ now = [q \in Requests |-> 0]
  /\ source = [q \in Requests |-> "persisted"]
  /\ report = [q \in Requests |-> NoReport]
  /\ known = [q \in Requests |-> {}]

-----------------------------------------------------------------------------
(***************************************************************************)
(* The clock and the repository                                            *)
(***************************************************************************)
Tick ==
  /\ clock < MaxTime
  /\ clock' = clock + 1
  /\ UNCHANGED <<repository, captured, pc, now, source, report, known>>

\* The repository works on the calls it was given, cancelled ones included.
StoreWorks ==
  /\ \/ \E s \in Saves : History!Append1(s)
     \/ \E r \in Lookups : History!Look(r)
     \/ \E c \in Saves \cup Lookups :
          outcome[c] = "open" /\ (History!Answer(c) \/ History!Fail(c))
  /\ UNCHANGED <<clock, captured, pc, now, source, report, known>>

-----------------------------------------------------------------------------
(***************************************************************************)
(* The services                                                            *)
(***************************************************************************)
GoTo(c, place) == pc' = [pc EXCEPT ![c] = place]

\* get_latest_snapshot is called and awaited.
LookUp(q) == GoTo(q, "lookup") /\ History!Start(LookupOf(q))

\* The caller reads the clock and calls get_status.
Begin(q) ==
  /\ pc[q] = "idle"
  /\ now' = [now EXCEPT ![q] = clock]
  /\ known' = [known EXCEPT ![q] = History!Stored]
  /\ IF q \in Refreshing
       THEN GoTo(q, "session") /\ UNCHANGED repository
       ELSE LookUp(q)
  /\ UNCHANGED <<clock, captured, source, report>>

BeginCapture(c) ==
  /\ pc[c] = "idle"
  /\ GoTo(c, "session")
  /\ UNCHANGED <<repository, clock, captured, now, source, report, known>>

\* captured_at is the clock when the session has been opened.
Stamp(c) ==
  /\ pc[c] = "session"
  /\ captured' = [captured EXCEPT ![c] = clock]
  /\ GoTo(c, "capture")
  /\ UNCHANGED <<repository, clock, now, source, report, known>>

\* The capture returns, and its snapshot is given to save_snapshot.
Captured(c) ==
  /\ pc[c] = "capture"
  /\ GoTo(c, "save")
  /\ History!Start(c)
  /\ UNCHANGED <<clock, captured, now, source, report, known>>

\* Faulty: without a capture there is no status.
CaptureFailsForGood(q) ==
  /\ pc[q] \in {"session", "capture"}
  /\ GoTo(q, "no_status")
  /\ source' = [source EXCEPT ![q] = "persisted_fallback"]
  /\ UNCHANGED <<repository, clock, captured, now, report, known>>

\* get_status falls back on what is stored.
CaptureFails(q) ==
  /\ pc[q] \in {"session", "capture"}
  /\ source' = [source EXCEPT ![q] = "persisted_fallback"]
  /\ LookUp(q)
  /\ UNCHANGED <<clock, captured, now, report, known>>

\* The report: the budget engine compares captured_at with the time of the request.
Answer(q, label, snapshot) ==
  /\ GoTo(q, "reported")
  /\ report' = [report EXCEPT ![q] = [source   |-> label,
                                      snapshot |-> snapshot,
                                      future   |-> now[q] < captured[snapshot]]]

\* The save returned: the report is of the captured snapshot, and live.
SaveReturns(q) ==
  /\ pc[q] = "save"
  /\ outcome[q] = "Stored"
  /\ source' = [source EXCEPT ![q] = "live_capture"]
  /\ Answer(q, "live_capture", q)
  /\ UNCHANGED <<repository, clock, captured, now, known>>

\* Faulty: the label is set before the save.
SaveFailsLabelled(q) ==
  /\ pc[q] = "save"
  /\ outcome[q] \in History!Errors
  /\ source' = [source EXCEPT ![q] = "live_capture"]
  /\ Answer(q, "live_capture", q)
  /\ UNCHANGED <<repository, clock, captured, now, known>>

\* The save raised: the snapshot is not None, so nothing is looked up.
SaveFails(q) ==
  /\ pc[q] = "save"
  /\ outcome[q] \in History!Errors
  /\ source' = [source EXCEPT ![q] = "persisted_fallback"]
  /\ Answer(q, "persisted_fallback", q)
  /\ UNCHANGED <<repository, clock, captured, now, known>>

\* Faulty: ORDER BY id alone.
NewestById(h, i) == \A j \in DOMAIN h : j <= i

\* ORDER BY captured_at DESC, id DESC
Newest(h, i) ==
  \A j \in DOMAIN h : \/ captured[h[j]] < captured[h[i]]
                      \/ captured[h[j]] = captured[h[i]] /\ j <= i

LookupReturns(q) ==
  /\ pc[q] = "lookup"
  /\ outcome[LookupOf(q)] = "Rows"
  /\ \E h \in saw[LookupOf(q)] : \E i \in DOMAIN h :
       Newest(h, i) /\ Answer(q, source[q], h[i])
  /\ UNCHANGED <<repository, clock, captured, now, source, known>>

NoStatus(q) ==
  /\ pc[q] = "lookup"
  /\ outcome[LookupOf(q)] = "Rows"
  /\ <<>> \in saw[LookupOf(q)]
  /\ GoTo(q, "no_status")
  /\ UNCHANGED <<repository, clock, captured, now, source, report, known>>

LookupFails(q) ==
  /\ pc[q] = "lookup"
  /\ outcome[LookupOf(q)] \in History!Errors
  /\ GoTo(q, "raised")
  /\ UNCHANGED <<repository, clock, captured, now, source, report, known>>

\* capture_and_store returns the id, or raises what went wrong.
CaptureAndStoreEnds(c) ==
  /\ \/ pc[c] \in {"session", "capture"} /\ GoTo(c, "raised")
     \/ pc[c] = "save" /\ outcome[c] = "Stored" /\ GoTo(c, "stored")
     \/ pc[c] = "save" /\ outcome[c] \in History!Errors /\ GoTo(c, "raised")
  /\ UNCHANGED <<repository, clock, captured, now, source, report, known>>

\* A cancellation is no Exception: it passes get_status, and a call of the repository that
\* is under way is cut off.
CancelCapture(c) ==
  /\ \/ pc[c] \in {"session", "capture"} /\ UNCHANGED repository
     \/ pc[c] = "save" /\ outcome[c] = "open" /\ History!BreakOff(c)
  /\ GoTo(c, "cancelled")
  /\ UNCHANGED <<clock, captured, now, source, report, known>>

CancelLookup(q) ==
  /\ pc[q] = "lookup"
  /\ outcome[LookupOf(q)] = "open"
  /\ History!BreakOff(LookupOf(q))
  /\ GoTo(q, "cancelled")
  /\ UNCHANGED <<clock, captured, now, source, report, known>>

Next ==
  \/ Tick
  \/ StoreWorks
  \/ \E q \in Requests :
       Begin(q) \/ LookupReturns(q) \/ NoStatus(q) \/ LookupFails(q) \/ CancelLookup(q)
  \/ \E q \in Refreshing : CaptureFails(q) \/ SaveReturns(q) \/ SaveFails(q)
  \/ \E c \in Capturing : BeginCapture(c) \/ CaptureAndStoreEnds(c)
  \/ \E c \in Saves : Stamp(c) \/ Captured(c) \/ CancelCapture(c)

Spec == Init /\ [][Next]_vars

-----------------------------------------------------------------------------
(***************************************************************************)
(* Properties                                                              *)
(***************************************************************************)
Sources == {"live_capture", "persisted", "persisted_fallback"}

Report == [source : Sources, snapshot : Saves, future : BOOLEAN]

\* Every variable has its type, and no time that was read is ahead of the clock.
TypeOK ==
  /\ clock \in Nat
  /\ captured \in [Saves -> Nat] /\ \A c \in Saves : captured[c] <= clock
  /\ pc \in [Clients -> {"idle", "session", "capture", "save", "lookup", "reported",
                         "no_status", "raised", "stored", "cancelled"}]
  /\ now \in [Requests -> Nat] /\ \A q \in Requests : now[q] <= clock
  /\ source \in [Requests -> Sources]
  /\ report \in [Requests -> Report \cup {NoReport}]
  /\ known \in [Requests -> SUBSET Saves]
  /\ history \in Seq(Saves)
  /\ saw \in [Lookups -> SUBSET Seq(Saves)]
  /\ outcome \in [Saves \cup Lookups ->
                   {"idle", "open", "Stored", "Rows", "Cancelled", "Killed"} \cup History!Errors]

\* No status is older than what was stored when it was asked for, whatever other processes
\* store in the meantime, and also when a later capture is stored before an earlier one.
ReportsAreCurrent ==
  \A q \in Requests : pc[q] = "reported" =>
    \A s \in known[q] : captured[s] <= captured[report[q].snapshot]

\* A status that says live_capture is of a snapshot every later reader finds.
LiveIsStored ==
  \A q \in Requests : report[q].source = "live_capture" => report[q].snapshot \in History!Stored

\* "Live provider failure must not erase valid persisted information"
\* (PHASE7_PRODUCTIZATION_CONTRACT): a request says that there is no snapshot only if there
\* was none when it was asked, and raises only if the repository could not be read.
PersistedIsRetained ==
  \A q \in Requests :
    /\ pc[q] = "no_status" => known[q] = {}
    /\ pc[q] = "raised" => outcome[LookupOf(q)] \in History!Errors

\* "A future captured_at returns a report with snapshot_captured_in_future"
\* (PHASE4_BUDGET_CONTRACT): a snapshot that is said to be of the future is.
FutureIsFuture ==
  \A q \in Requests : report[q].future => clock < captured[report[q].snapshot]

-----------------------------------------------------------------------------
(***************************************************************************)
(* The inductive invariant                                                 *)
(***************************************************************************)
In(h) == { h[i] : i \in DOMAIN h }

\* A snapshot is stamped before its save begins, and its time is never changed after that.
StampedFirst(s) ==
  /\ pc[s] \in {"idle", "session", "capture"} => outcome[s] = "idle"
  /\ outcome[s] = "idle" => s \notin History!Stored
  /\ outcome[s] = "Stored" => s \in History!Stored

\* What was known stays stored, a read sees all of it, and a capture comes after it.
NothingForgotten(q) ==
  LET read == LookupOf(q) IN
  /\ pc[q] \in {"session", "capture", "save"} => q \in Refreshing
  /\ pc[q] \in {"idle", "session", "capture", "save"} => outcome[read] = "idle"
  /\ outcome[read] = "idle" => saw[read] = {}
  /\ pc[q] = "idle" => known[q] = {}
  /\ known[q] \subseteq History!Stored
  /\ \A s \in known[q] : captured[s] <= now[q]
  /\ \A h \in saw[read] : known[q] \subseteq In(h) /\ In(h) \subseteq History!Stored
  /\ pc[q] \in {"capture", "save"} => now[q] <= captured[q]

\* A report is of the own snapshot or of a stored one.
OfSomething(q) ==
  /\ pc[q] # "reported" => report[q] = NoReport
  /\ pc[q] = "reported" =>
       report[q] # NoReport /\ (report[q].snapshot \in History!Stored \/ report[q].snapshot = q)

\* Together they are inductive, and they keep what a status promises.
StatusInv ==
  /\ \A s \in Saves : StampedFirst(s)
  /\ \A q \in Requests : NothingForgotten(q) /\ OfSomething(q)
  /\ ReportsAreCurrent
  /\ LiveIsStored
  /\ PersistedIsRetained
=============================================================================
