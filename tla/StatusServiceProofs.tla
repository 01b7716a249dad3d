-------------------------- MODULE StatusServiceProofs --------------------------
(***************************************************************************)
(* Proofs about StatusService for any number of requests, captures and     *)
(* clock ticks.                                                            *)
(***************************************************************************)
EXTENDS StatusService, TLAPS

\* The three properties, request by request.
Promises(q) ==
  /\ pc[q] = "reported" => \A s \in known[q] : captured[s] <= captured[report[q].snapshot]
  /\ report[q].source = "live_capture" => report[q].snapshot \in History!Stored
  /\ pc[q] = "no_status" => known[q] = {}
  /\ pc[q] = "raised" => outcome[LookupOf(q)] \in History!Errors

LEMMA InvByRequest ==
  StatusInv <=> /\ \A s \in Saves : StampedFirst(s)
                /\ \A q \in Requests : NothingForgotten(q) /\ OfSomething(q) /\ Promises(q)
BY DEF StatusInv, Promises, ReportsAreCurrent, LiveIsStored, PersistedIsRetained

LEMMA InvByRequestNext ==
  StatusInv' <=> /\ \A s \in Saves : StampedFirst(s)'
                 /\ \A q \in Requests : NothingForgotten(q)' /\ OfSomething(q)' /\ Promises(q)'
BY DEF StatusInv, Promises, ReportsAreCurrent, LiveIsStored, PersistedIsRetained

LEMMA LookupNames ==
  /\ \A q \in Requests : LookupOf(q) \in Lookups
  /\ \A p, q \in Requests : LookupOf(p) = LookupOf(q) => p = q
  /\ \A q \in Requests, s \in Saves : LookupOf(q) # s
  /\ Saves \subseteq Clients /\ Requests \subseteq Clients
BY NamesAreApart, RefreshingIsAsked DEF Lookups, LookupOf, Saves, Clients

-----------------------------------------------------------------------------
(***************************************************************************)
(* Types                                                                   *)
(***************************************************************************)
LEMMA InitTypes == Init => TypeOK
BY DEF Init, TypeOK, History!Init, History!Calls, NoReport, Sources

LEMMA StoreTypes == TypeOK /\ StoreWorks => TypeOK'
<1> SUFFICES ASSUME TypeOK, StoreWorks PROVE TypeOK'
  OBVIOUS
<1> USE DEF TypeOK
<1>1. UNCHANGED <<clock, captured, pc, now, source, report, known>>
  BY DEF StoreWorks
<1>2. /\ history' \in Seq(Saves)
      /\ saw' \in [Lookups -> SUBSET Seq(Saves)]
      /\ outcome' \in [Saves \cup Lookups ->
           {"idle", "open", "Stored", "Rows", "Cancelled", "Killed"} \cup History!Errors]
  <2>1. CASE \E s \in Saves : History!Append1(s)
    BY <2>1 DEF History!Append1
  <2>2. CASE \E r \in Lookups : History!Look(r)
    BY <2>2 DEF History!Look
  <2>3. CASE \E c \in Saves \cup Lookups :
               outcome[c] = "open" /\ (History!Answer(c) \/ History!Fail(c))
    BY <2>3 DEF History!Answer, History!Fail, History!Settle
  <2> QED
    BY <2>1, <2>2, <2>3 DEF StoreWorks
<1> QED
  BY <1>1, <1>2

\* A step of a client, or of the clock.
Serves ==
  \/ Tick
  \/ \E q \in Requests :
       Begin(q) \/ LookupReturns(q) \/ NoStatus(q) \/ LookupFails(q) \/ CancelLookup(q)
  \/ \E q \in Refreshing : CaptureFails(q) \/ SaveReturns(q) \/ SaveFails(q)
  \/ \E c \in Capturing : BeginCapture(c) \/ CaptureAndStoreEnds(c)
  \/ \E c \in Saves : Stamp(c) \/ Captured(c) \/ CancelCapture(c)

LEMMA ServesTypes == TypeOK /\ Serves => TypeOK'
<1> SUFFICES ASSUME TypeOK, Serves PROVE TypeOK'
  OBVIOUS
<1> USE LookupNames DEF TypeOK, repository, GoTo
<1>1. CASE Tick
  BY <1>1 DEF Tick
<1>2. ASSUME NEW q \in Requests, Begin(q) PROVE TypeOK'
  <2>1. known' \in [Requests -> SUBSET Saves]
    BY <1>2 DEF Begin, History!Stored
  <2>2. /\ now' \in [Requests -> Nat] /\ \A p \in Requests : now'[p] <= clock'
        /\ UNCHANGED <<clock, captured, source, report>>
    BY <1>2 DEF Begin
  <2>3. /\ UNCHANGED <<history, saw>>
        /\ \E place \in {"session", "lookup"} : pc' = [pc EXCEPT ![q] = place]
    BY <1>2 DEF Begin, LookUp, History!Start
  <2>4. outcome' \in [Saves \cup Lookups ->
           {"idle", "open", "Stored", "Rows", "Cancelled", "Killed"} \cup History!Errors]
    BY <1>2 DEF Begin, LookUp, History!Start, History!Settle
  <2> QED
    BY <2>1, <2>2, <2>3, <2>4
<1>3. ASSUME NEW q \in Requests, LookupReturns(q) PROVE TypeOK'
  <2>1. PICK h \in saw[LookupOf(q)] : \E i \in DOMAIN h :
               Newest(h, i) /\ Answer(q, source[q], h[i])
    BY <1>3 DEF LookupReturns
  <2>2. PICK i \in DOMAIN h : Answer(q, source[q], h[i])
    BY <2>1
  <2>3. h[i] \in Saves /\ source[q] \in Sources
    OBVIOUS
  <2> QED
    BY <1>3, <2>2, <2>3 DEF LookupReturns, Answer, Report
<1>4. ASSUME NEW q \in Requests, NoStatus(q) \/ LookupFails(q) PROVE TypeOK'
  <2>1. /\ \E place \in {"no_status", "raised"} : pc' = [pc EXCEPT ![q] = place]
        /\ UNCHANGED <<repository, clock, captured, now, source, report, known>>
    BY <1>4 DEF NoStatus, LookupFails
  <2> QED
    BY <2>1
<1>5. ASSUME NEW q \in Refreshing, CaptureFails(q) PROVE TypeOK'
  BY <1>5, RefreshingIsAsked DEF CaptureFails, LookUp, History!Start, History!Settle, Sources
<1>6. ASSUME NEW q \in Refreshing, SaveReturns(q) \/ SaveFails(q) PROVE TypeOK'
  <2>1. PICK label \in Sources : Answer(q, label, q)
    BY <1>6 DEF SaveReturns, SaveFails, Sources
  <2>2. /\ UNCHANGED <<history, saw, outcome, clock, captured, now, known>>
        /\ source' \in [Requests -> Sources]
    BY <1>6 DEF SaveReturns, SaveFails, Sources
  <2>3. q \in Saves /\ q \in Requests
    BY <1>6, RefreshingIsAsked DEF Saves
  <2>4. report' \in [Requests -> Report \cup {NoReport}]
    BY <2>1, <2>3 DEF Answer, Report
  <2>5. pc' = [pc EXCEPT ![q] = "reported"]
    BY <2>1 DEF Answer
  <2> QED
    BY <2>2, <2>4, <2>5
<1>7. ASSUME NEW c \in Capturing, BeginCapture(c) \/ CaptureAndStoreEnds(c) PROVE TypeOK'
  BY <1>7 DEF BeginCapture, CaptureAndStoreEnds, Clients
<1>8. ASSUME NEW c \in Saves, Stamp(c) PROVE TypeOK'
  BY <1>8 DEF Stamp
<1>9. ASSUME NEW c \in Saves, Captured(c) PROVE TypeOK'
  BY <1>9 DEF Captured, History!Start, History!Settle
<1>10. ASSUME NEW c \in Clients, NEW x \in Saves \cup Lookups,
              /\ UNCHANGED <<clock, captured, now, source, report, known, history, saw>>
              /\ pc' = [pc EXCEPT ![c] = "cancelled"]
              /\ outcome' = outcome
                   \/ \E how \in {"Cancelled", "Killed"} : outcome' = [outcome EXCEPT ![x] = how]
       PROVE  TypeOK'
  <2>1. outcome' \in [Saves \cup Lookups ->
           {"idle", "open", "Stored", "Rows", "Cancelled", "Killed"} \cup History!Errors]
    BY <1>10
  <2> QED
    BY <1>10, <2>1
<1>11. ASSUME NEW c \in Saves, CancelCapture(c) PROVE TypeOK'
  BY <1>10, <1>11 DEF CancelCapture, History!BreakOff, History!Settle
<1>12. ASSUME NEW q \in Requests, CancelLookup(q) PROVE TypeOK'
  BY <1>10, <1>12 DEF CancelLookup, History!BreakOff, History!Settle
<1> QED
  BY <1>1, <1>2, <1>3, <1>4, <1>5, <1>6, <1>7, <1>8, <1>9, <1>11, <1>12 DEF Serves

-----------------------------------------------------------------------------
(***************************************************************************)
(* The repository's steps                                                  *)
(***************************************************************************)
LEMMA Appending ==
  ASSUME TypeOK, NEW s \in Saves, history' = Append(history, s)
  PROVE  History!Stored' = History!Stored \cup {s}
<1>1. /\ Len(history') = Len(history) + 1
      /\ history'[Len(history) + 1] = s
      /\ \A i \in 1 .. Len(history) : history'[i] = history[i]
      /\ DOMAIN history = 1 .. Len(history)
      /\ DOMAIN history' = 1 .. (Len(history) + 1)
      /\ Len(history) \in Nat
  BY DEF TypeOK
<1> QED
  BY <1>1 DEF History!Stored

LEMMA StoreKeeps ==
  ASSUME TypeOK, StatusInv, StoreWorks
  PROVE  StatusInv'
<1>1. UNCHANGED <<clock, captured, pc, now, source, report, known>>
  BY DEF StoreWorks
<1>2. /\ \A s \in Saves : StampedFirst(s)
      /\ \A q \in Requests : NothingForgotten(q) /\ OfSomething(q) /\ Promises(q)
  BY InvByRequest
<1>3. CASE \E s \in Saves : History!Append1(s)
  <2>1. PICK s \in Saves : History!Append1(s)
    BY <1>3
  <2>2. /\ history' = Append(history, s) /\ UNCHANGED <<saw, outcome>>
        /\ outcome[s] \in {"open", "Cancelled"}
    BY <2>1 DEF History!Append1
  <2>3. History!Stored' = History!Stored \cup {s}
    BY <2>2, Appending
  <2>4. \A t \in Saves : StampedFirst(t)'
    BY <1>1, <1>2, <2>2, <2>3 DEF StampedFirst
  <2>5. \A q \in Requests : NothingForgotten(q)'
    BY <1>1, <1>2, <2>2, <2>3 DEF NothingForgotten
  <2>6. \A q \in Requests : OfSomething(q)' /\ Promises(q)'
    BY <1>1, <1>2, <2>2, <2>3 DEF OfSomething, Promises, History!Errors
  <2> QED
    BY <2>4, <2>5, <2>6, InvByRequestNext
<1>4. CASE \E r \in Lookups : History!Look(r)
  <2>1. PICK r \in Lookups : History!Look(r)
    BY <1>4
  <2>2. /\ saw' = [saw EXCEPT ![r] = {history}] /\ UNCHANGED <<history, outcome>>
        /\ outcome[r] \in {"open", "Cancelled"}
    BY <2>1 DEF History!Look
  <2>3. History!Stored' = History!Stored /\ In(history) = History!Stored
    BY <2>2 DEF History!Stored, In
  <2>4. \A t \in Saves : StampedFirst(t)'
    BY <1>1, <1>2, <2>2, <2>3 DEF StampedFirst
  <2>5. \A q \in Requests : NothingForgotten(q)'
    <3> SUFFICES ASSUME NEW q \in Requests PROVE NothingForgotten(q)'
      OBVIOUS
    <3>1. saw'[LookupOf(q)] = IF LookupOf(q) = r THEN {history} ELSE saw[LookupOf(q)]
      BY <2>2, LookupNames DEF TypeOK
    <3> QED
      BY <1>1, <1>2, <2>2, <2>3, <3>1 DEF NothingForgotten
  <2>6. \A q \in Requests : OfSomething(q)' /\ Promises(q)'
    BY <1>1, <1>2, <2>2, <2>3 DEF OfSomething, Promises, History!Errors
  <2> QED
    BY <2>4, <2>5, <2>6, InvByRequestNext
<1>5. CASE \E c \in Saves \cup Lookups :
             outcome[c] = "open" /\ (History!Answer(c) \/ History!Fail(c))
  <2>1. PICK c \in Saves \cup Lookups :
               outcome[c] = "open" /\ (History!Answer(c) \/ History!Fail(c))
    BY <1>5
  <2>2. /\ UNCHANGED <<history, saw>>
        /\ \E how \in {"Stored", "Rows"} \cup History!Errors :
             /\ outcome' = [outcome EXCEPT ![c] = how]
             /\ how = "Stored" => c \in History!Stored
    BY <2>1 DEF History!Answer, History!Fail, History!Settle, History!Errors
  <2>3. PICK how \in {"Stored", "Rows"} \cup History!Errors :
             /\ outcome' = [outcome EXCEPT ![c] = how]
             /\ how = "Stored" => c \in History!Stored
    BY <2>2
  <2>4. History!Stored' = History!Stored /\ how # "idle"
    BY <2>2 DEF History!Stored, History!Errors
  <2>5. \A x \in Saves \cup Lookups : outcome'[x] = IF x = c THEN how ELSE outcome[x]
    BY <2>3 DEF TypeOK
  <2>6. \A t \in Saves : StampedFirst(t)'
    BY <1>1, <1>2, <2>1, <2>3, <2>4, <2>5 DEF StampedFirst
  <2>7. \A q \in Requests : NothingForgotten(q)'
    BY <1>1, <1>2, <2>1, <2>2, <2>4, <2>5, LookupNames DEF NothingForgotten
  <2>8. \A q \in Requests : OfSomething(q)' /\ Promises(q)'
    <3> SUFFICES ASSUME NEW q \in Requests PROVE OfSomething(q)' /\ Promises(q)'
      OBVIOUS
    <3>1. LookupOf(q) \in Saves \cup Lookups /\ "open" \notin History!Errors
      BY LookupNames DEF History!Errors
    <3>2. outcome[LookupOf(q)] \in History!Errors => outcome'[LookupOf(q)] = outcome[LookupOf(q)]
      BY <2>1, <2>5, <3>1
    <3> QED
      BY <1>1, <1>2, <2>4, <3>2 DEF OfSomething, Promises, History!Errors
  <2> QED
    BY <2>6, <2>7, <2>8, InvByRequestNext
<1> QED
  BY <1>3, <1>4, <1>5 DEF StoreWorks

-----------------------------------------------------------------------------
(***************************************************************************)
(* The clients' steps                                                      *)
(***************************************************************************)
\* A step of one client disturbs what is said of that client only.
LEMMA Undisturbed ==
  ASSUME TypeOK, StatusInv, NEW c \in Clients,
         UNCHANGED <<history, saw, captured>>,
         \A s \in Saves \ {c} : outcome'[s] = outcome[s],
         \A q \in Requests \ {c} : outcome'[LookupOf(q)] = outcome[LookupOf(q)],
         \A d \in Clients \ {c} : pc'[d] = pc[d],
         \A q \in Requests \ {c} :
           now'[q] = now[q] /\ known'[q] = known[q] /\ report'[q] = report[q],
         c \in Saves => StampedFirst(c)',
         c \in Requests => NothingForgotten(c)' /\ OfSomething(c)' /\ Promises(c)'
  PROVE  StatusInv'
<1>1. History!Stored' = History!Stored
  BY DEF History!Stored
<1>2. /\ \A s \in Saves : StampedFirst(s)
      /\ \A q \in Requests : NothingForgotten(q) /\ OfSomething(q) /\ Promises(q)
  BY InvByRequest
<1>3. ASSUME NEW s \in Saves, s # c PROVE StampedFirst(s)'
  <2>1. outcome'[s] = outcome[s] /\ pc'[s] = pc[s]
    BY <1>3, LookupNames
  <2> QED
    BY <1>1, <1>2, <2>1 DEF StampedFirst
<1>4. ASSUME NEW q \in Requests, q # c
      PROVE  NothingForgotten(q)' /\ OfSomething(q)' /\ Promises(q)'
  <2>2. outcome'[LookupOf(q)] = outcome[LookupOf(q)] /\ pc'[q] = pc[q]
    BY <1>4, LookupNames
  <2>3. now'[q] = now[q] /\ known'[q] = known[q] /\ report'[q] = report[q]
    BY <1>4
  <2> QED
    BY <1>1, <1>2, <2>2, <2>3 DEF NothingForgotten, OfSomething, Promises
<1> QED
  BY <1>3, <1>4, InvByRequestNext

LEMMA StutterKeeps ==
  ASSUME StatusInv, UNCHANGED <<history, saw, outcome, captured, pc, now, report, known>>
  PROVE  StatusInv'
<1>1. History!Stored' = History!Stored
  BY DEF History!Stored
<1>2. /\ \A s \in Saves : StampedFirst(s)
      /\ \A q \in Requests : NothingForgotten(q) /\ OfSomething(q) /\ Promises(q)
  BY InvByRequest
<1>3. \A s \in Saves : StampedFirst(s)'
  BY <1>1, <1>2 DEF StampedFirst
<1>4. \A q \in Requests : NothingForgotten(q)' /\ OfSomething(q)' /\ Promises(q)'
  BY <1>1, <1>2 DEF NothingForgotten, OfSomething, Promises, History!Errors
<1> QED
  BY <1>3, <1>4, InvByRequestNext

LEMMA BeginKeeps ==
  ASSUME TypeOK, StatusInv, NEW q \in Requests, Begin(q)
  PROVE  StatusInv'
<1>1. /\ q \in Saves => StampedFirst(q)
      /\ NothingForgotten(q) /\ OfSomething(q) /\ Promises(q)
  BY InvByRequest
<1>2. /\ UNCHANGED <<history, saw, captured, report>>
      /\ pc[q] = "idle"
      /\ pc' = [pc EXCEPT ![q] = IF q \in Refreshing THEN "session" ELSE "lookup"]
      /\ outcome' = IF q \in Refreshing THEN outcome ELSE [outcome EXCEPT ![LookupOf(q)] = "open"]
      /\ now' = [now EXCEPT ![q] = clock] /\ known' = [known EXCEPT ![q] = History!Stored]
  BY DEF Begin, GoTo, LookUp, History!Start, History!Settle, repository
<1>3. History!Stored' = History!Stored /\ History!Stored \subseteq Saves
  BY <1>2 DEF History!Stored, TypeOK
<1>4. /\ pc'[q] = IF q \in Refreshing THEN "session" ELSE "lookup"
      /\ \A x \in Saves : outcome'[x] = outcome[x]
      /\ \A p \in Requests \ {q} : outcome'[LookupOf(p)] = outcome[LookupOf(p)]
      /\ q \in Refreshing => outcome' = outcome
      /\ q \notin Refreshing => outcome'[LookupOf(q)] = "open"
      /\ now'[q] = clock /\ known'[q] = History!Stored
  BY <1>2, LookupNames DEF TypeOK
<1>5. \A s \in History!Stored : captured[s] <= clock
  BY <1>3 DEF TypeOK
<1>6. saw'[LookupOf(q)] = {} /\ report'[q] = NoReport /\ pc'[q] \notin {"reported", "idle", "capture",
                                                                   "save", "no_status", "raised"}
  BY <1>1, <1>2, <1>4 DEF NothingForgotten, OfSomething
<1>7. q \in Saves => StampedFirst(q)'
  <2>1. q \in Saves => q \in Refreshing
    BY CapturesAreApart DEF Saves
  <2> QED
    BY <1>1, <1>2, <1>3, <1>4, <2>1 DEF StampedFirst
<1>8. NothingForgotten(q)'
  BY <1>1, <1>2, <1>3, <1>4, <1>5, <1>6 DEF NothingForgotten
<1>9. OfSomething(q)' /\ Promises(q)'
  BY <1>6 DEF OfSomething, Promises, NoReport
<1> QED
  BY <1>2, <1>4, <1>7, <1>8, <1>9, LookupNames, Undisturbed DEF TypeOK

\* The steps of a capture.
LEMMA CaptureKeeps ==
  ASSUME TypeOK, StatusInv, NEW c \in Saves,
         \/ Stamp(c) \/ Captured(c)
         \/ c \in Capturing /\ (BeginCapture(c) \/ CaptureAndStoreEnds(c))
  PROVE  StatusInv'
<1>1. /\ StampedFirst(c)
      /\ c \in Requests => NothingForgotten(c) /\ OfSomething(c) /\ Promises(c)
  BY InvByRequest
<1>2. UNCHANGED <<history, saw, clock, now, report, known>>
  BY DEF Stamp, Captured, BeginCapture, CaptureAndStoreEnds, History!Start, repository
<1>3. History!Stored' = History!Stored
  BY <1>2 DEF History!Stored
<1>4. CASE Stamp(c)
  <2>1. /\ pc[c] = "session" /\ pc' = [pc EXCEPT ![c] = "capture"] /\ outcome' = outcome
        /\ captured' = [captured EXCEPT ![c] = clock]
    BY <1>4 DEF Stamp, GoTo, repository
  <2>2. /\ pc'[c] = "capture" /\ captured'[c] = clock
        /\ \A d \in Clients \ {c} : pc'[d] = pc[d]
        /\ \A s \in Saves \ {c} : captured'[s] = captured[s]
    BY <2>1, LookupNames DEF TypeOK
  <2>3. c \notin History!Stored
    BY <1>1, <2>1 DEF StampedFirst
  <2>4. \A s \in Saves : StampedFirst(s)'
    BY <1>1, <1>3, <2>1, <2>2, LookupNames, InvByRequest DEF StampedFirst
  <2>5. ASSUME NEW q \in Requests
        PROVE  NothingForgotten(q)' /\ OfSomething(q)' /\ Promises(q)'
    <3>1. NothingForgotten(q) /\ OfSomething(q) /\ Promises(q) /\ now[q] <= clock
      BY InvByRequest DEF TypeOK
    <3>2. known[q] \subseteq Saves \ {c}
      BY <2>3, <3>1 DEF NothingForgotten, TypeOK
    <3>3. NothingForgotten(q)'
      <4>1. \A s \in known[q] : captured'[s] <= now[q]
        BY <2>2, <3>1, <3>2 DEF NothingForgotten
      <4>2. CASE q = c
        BY <1>2, <1>3, <2>1, <2>2, <3>1, <4>1, <4>2 DEF NothingForgotten
      <4>3. CASE q # c
        <5>1. pc'[q] = pc[q]
          BY <2>2, <4>3, LookupNames
        <5>2. pc[q] \in {"capture", "save"} => captured'[q] = captured[q]
          BY <2>2, <3>1, <4>3 DEF NothingForgotten, Saves
        <5> QED
          BY <1>2, <1>3, <2>1, <3>1, <4>1, <5>1, <5>2 DEF NothingForgotten
      <4> QED
        BY <4>2, <4>3
    <3>4. OfSomething(q)'
      BY <1>2, <1>3, <2>1, <2>2, <3>1, LookupNames DEF OfSomething
    <3>5. pc'[q] = "reported" => report[q].snapshot \in Saves \ {c} /\ pc[q] = "reported"
      <4> SUFFICES ASSUME pc'[q] = "reported"
                   PROVE  report[q].snapshot \in Saves \ {c} /\ pc[q] = "reported"
        OBVIOUS
      <4>1. q # c /\ pc[q] = "reported"
        BY <2>2, LookupNames
      <4>2. report[q] \in Report
        BY <3>1, <4>1 DEF OfSomething, TypeOK
      <4> QED
        BY <2>3, <3>1, <4>1, <4>2 DEF OfSomething, Report
    <3>6. Promises(q)'
      <4>1. pc'[q] \in {"no_status", "raised"} => pc'[q] = pc[q]
        BY <2>2, LookupNames
      <4> QED
        BY <1>2, <1>3, <2>1, <2>2, <3>1, <3>2, <3>5, <4>1 DEF Promises, History!Errors
    <3> QED
      BY <3>3, <3>4, <3>6
  <2> QED
    BY <2>4, <2>5, InvByRequestNext
<1>5. CASE Captured(c)
  <2>1. /\ pc[c] = "capture" /\ pc' = [pc EXCEPT ![c] = "save"] /\ captured' = captured
        /\ outcome' = [outcome EXCEPT ![c] = "open"]
    BY <1>5 DEF Captured, GoTo, History!Start, History!Settle
  <2>2. /\ pc'[c] = "save" /\ outcome'[c] = "open"
        /\ \A s \in Saves \ {c} : outcome'[s] = outcome[s]
        /\ \A q \in Requests : outcome'[LookupOf(q)] = outcome[LookupOf(q)]
    BY <2>1, LookupNames DEF TypeOK
  <2>3. StampedFirst(c)'
    BY <2>2 DEF StampedFirst
  <2>4. c \in Requests => NothingForgotten(c)' /\ OfSomething(c)' /\ Promises(c)'
    BY <1>1, <1>2, <1>3, <2>1, <2>2 DEF NothingForgotten, OfSomething, Promises
  <2> QED
    BY <1>2, <2>1, <2>2, <2>3, <2>4, LookupNames, Undisturbed DEF TypeOK
<1>6. CASE c \in Capturing /\ (BeginCapture(c) \/ CaptureAndStoreEnds(c))
  <2>1. /\ UNCHANGED <<outcome, captured>>
        /\ \E place \in {"session", "stored", "raised"} :
             /\ pc' = [pc EXCEPT ![c] = place]
             /\ place = "session" => pc[c] = "idle"
    BY <1>6 DEF BeginCapture, CaptureAndStoreEnds, GoTo, repository
  <2>2. pc'[c] \in {"idle", "session", "capture"} => pc[c] = "idle"
    BY <2>1, LookupNames DEF TypeOK
  <2>3. StampedFirst(c)'
    BY <1>1, <1>3, <2>1, <2>2 DEF StampedFirst
  <2>4. c \notin Requests
    BY <1>6, CapturesAreApart
  <2> QED
    BY <1>2, <2>1, <2>3, <2>4, LookupNames, Undisturbed DEF TypeOK
<1> QED
  BY <1>4, <1>5, <1>6

LEMMA CaptureFailsKeeps ==
  ASSUME TypeOK, StatusInv, NEW q \in Refreshing, CaptureFails(q)
  PROVE  StatusInv'
<1>0. q \in Requests /\ q \in Saves
  BY RefreshingIsAsked DEF Saves
<1>1. StampedFirst(q) /\ NothingForgotten(q) /\ OfSomething(q) /\ Promises(q)
  BY <1>0, InvByRequest
<1>2. /\ UNCHANGED <<history, saw, captured, now, report, known>>
      /\ pc[q] \in {"session", "capture"} /\ pc' = [pc EXCEPT ![q] = "lookup"]
      /\ outcome' = [outcome EXCEPT ![LookupOf(q)] = "open"]
  BY DEF CaptureFails, GoTo, LookUp, History!Start, History!Settle
<1>3. History!Stored' = History!Stored
  BY <1>2 DEF History!Stored
<1>4. /\ pc'[q] = "lookup" /\ outcome'[LookupOf(q)] = "open"
      /\ \A s \in Saves : outcome'[s] = outcome[s]
      /\ \A p \in Requests \ {q} : outcome'[LookupOf(p)] = outcome[LookupOf(p)]
  BY <1>0, <1>2, LookupNames DEF TypeOK
<1>5. StampedFirst(q)'
  BY <1>0, <1>1, <1>3, <1>4 DEF StampedFirst
<1>6. NothingForgotten(q)' /\ OfSomething(q)' /\ Promises(q)'
  BY <1>1, <1>2, <1>3, <1>4 DEF NothingForgotten, OfSomething, Promises
<1> QED
  BY <1>0, <1>2, <1>4, <1>5, <1>6, LookupNames, Undisturbed DEF TypeOK

LEMMA SaveEndsKeeps ==
  ASSUME TypeOK, StatusInv, NEW q \in Refreshing, SaveReturns(q) \/ SaveFails(q)
  PROVE  StatusInv'
<1>0. q \in Requests /\ q \in Saves
  BY RefreshingIsAsked DEF Saves
<1>1. StampedFirst(q) /\ NothingForgotten(q) /\ OfSomething(q) /\ Promises(q)
  BY <1>0, InvByRequest
<1>2. /\ UNCHANGED <<history, saw, outcome, captured, now, known>>
      /\ pc[q] = "save"
  BY DEF SaveReturns, SaveFails, repository
<1>3. PICK label \in {"live_capture", "persisted_fallback"} :
             /\ Answer(q, label, q)
             /\ label = "live_capture" => q \in History!Stored
  BY <1>0, <1>1 DEF SaveReturns, SaveFails, StampedFirst
<1>4. /\ pc'[q] = "reported" /\ \A d \in Clients \ {q} : pc'[d] = pc[d]
      /\ report'[q].source = label /\ report'[q].snapshot = q
      /\ \A p \in Requests \ {q} : report'[p] = report[p]
  BY <1>0, <1>3, LookupNames DEF TypeOK, Answer, GoTo
<1>5. History!Stored' = History!Stored /\ report'[q] # NoReport
  BY <1>2, <1>3, <1>4 DEF History!Stored, NoReport
<1>6. \A s \in known[q] : captured[s] <= captured[q]
  <2>1. now[q] \in Nat /\ captured[q] \in Nat /\ now[q] <= captured[q]
    BY <1>0, <1>1, <1>2 DEF NothingForgotten, TypeOK
  <2>2. \A s \in known[q] : captured[s] \in Nat /\ captured[s] <= now[q]
    BY <1>0, <1>1 DEF NothingForgotten, TypeOK
  <2> QED
    BY <2>1, <2>2
<1>7. StampedFirst(q)'
  BY <1>1, <1>2, <1>4, <1>5 DEF StampedFirst
<1>8. NothingForgotten(q)'
  BY <1>0, <1>1, <1>2, <1>4, <1>5 DEF NothingForgotten
<1>9. OfSomething(q)' /\ Promises(q)'
  BY <1>1, <1>2, <1>3, <1>4, <1>5, <1>6 DEF OfSomething, Promises
<1> QED
  BY <1>0, <1>2, <1>4, <1>7, <1>8, <1>9, LookupNames, Undisturbed

\* The snapshot a read finds newest is not older than any that was known.
LEMMA LookupReturnsKeeps ==
  ASSUME TypeOK, StatusInv, NEW q \in Requests, LookupReturns(q)
  PROVE  StatusInv'
<1>1. NothingForgotten(q) /\ OfSomething(q) /\ Promises(q) /\ (q \in Saves => StampedFirst(q))
  BY InvByRequest
<1>2. /\ UNCHANGED <<history, saw, outcome, captured, now, known>>
      /\ pc[q] = "lookup"
  BY DEF LookupReturns, repository
<1>3. PICK h \in saw[LookupOf(q)] : \E i \in DOMAIN h : Newest(h, i) /\ Answer(q, source[q], h[i])
  BY DEF LookupReturns
<1>4. PICK i \in DOMAIN h : Newest(h, i) /\ Answer(q, source[q], h[i])
  BY <1>3
<1>5. /\ known[q] \subseteq In(h) /\ In(h) \subseteq History!Stored
      /\ h[i] \in History!Stored
      /\ \A j \in DOMAIN h : h[j] \in Saves
  BY <1>1, <1>3, LookupNames DEF NothingForgotten, In, TypeOK
<1>6. /\ pc'[q] = "reported" /\ \A d \in Clients \ {q} : pc'[d] = pc[d]
      /\ report'[q] # NoReport /\ report'[q].snapshot = h[i]
      /\ \A p \in Requests \ {q} : report'[p] = report[p]
  BY <1>4, LookupNames DEF TypeOK, Answer, GoTo, NoReport, Sources
<1>7. History!Stored' = History!Stored
  BY <1>2 DEF History!Stored
<1>8. \A s \in known[q] : captured[s] <= captured[h[i]]
  <2>1. \A j \in DOMAIN h : captured[h[j]] \in Nat
    BY <1>5 DEF TypeOK
  <2>2. \A j \in DOMAIN h : captured[h[j]] <= captured[h[i]]
    BY <1>4, <2>1 DEF Newest
  <2> QED
    BY <1>5, <2>2 DEF In
<1>9. q \in Saves => StampedFirst(q)'
  BY <1>1, <1>2, <1>6, <1>7 DEF StampedFirst
<1>10. NothingForgotten(q)'
  BY <1>1, <1>2, <1>6, <1>7 DEF NothingForgotten
<1>11. OfSomething(q)' /\ Promises(q)'
  BY <1>2, <1>5, <1>6, <1>7, <1>8 DEF OfSomething, Promises
<1> QED
  BY <1>2, <1>6, <1>9, <1>10, <1>11, LookupNames, Undisturbed

LEMMA NoReportKeeps ==
  ASSUME TypeOK, StatusInv, NEW q \in Requests, NoStatus(q) \/ LookupFails(q)
  PROVE  StatusInv'
<1>1. NothingForgotten(q) /\ OfSomething(q) /\ Promises(q) /\ (q \in Saves => StampedFirst(q))
  BY InvByRequest
<1>2. /\ UNCHANGED <<history, saw, outcome, captured, now, report, known>>
      /\ pc[q] = "lookup"
      /\ \/ pc' = [pc EXCEPT ![q] = "no_status"] /\ <<>> \in saw[LookupOf(q)]
         \/ pc' = [pc EXCEPT ![q] = "raised"] /\ outcome[LookupOf(q)] \in History!Errors
  BY DEF NoStatus, LookupFails, GoTo, repository
<1>3. /\ pc'[q] \in {"no_status", "raised"} /\ \A d \in Clients \ {q} : pc'[d] = pc[d]
      /\ pc'[q] = "no_status" => <<>> \in saw[LookupOf(q)]
      /\ pc'[q] = "raised" => outcome[LookupOf(q)] \in History!Errors
  BY <1>2, LookupNames DEF TypeOK
<1>4. History!Stored' = History!Stored
  BY <1>2 DEF History!Stored
<1>5. pc'[q] = "no_status" => known[q] = {}
  <2>1. In(<<>>) = {}
    BY DEF In
  <2> QED
    BY <1>1, <1>3, <2>1 DEF NothingForgotten
<1>6. q \in Saves => StampedFirst(q)'
  BY <1>1, <1>2, <1>3, <1>4 DEF StampedFirst
<1>7. NothingForgotten(q)'
  BY <1>1, <1>2, <1>3, <1>4 DEF NothingForgotten
<1>8. OfSomething(q)' /\ Promises(q)'
  BY <1>1, <1>2, <1>3, <1>4, <1>5 DEF OfSomething, Promises, History!Errors
<1> QED
  BY <1>2, <1>3, <1>6, <1>7, <1>8, LookupNames, Undisturbed

LEMMA CancelCaptureKeeps ==
  ASSUME TypeOK, StatusInv, NEW c \in Saves, CancelCapture(c)
  PROVE  StatusInv'
<1>1. /\ StampedFirst(c)
      /\ c \in Requests => NothingForgotten(c) /\ OfSomething(c) /\ Promises(c)
  BY InvByRequest
<1>2. /\ UNCHANGED <<history, saw, captured, now, report, known>>
      /\ pc' = [pc EXCEPT ![c] = "cancelled"] /\ pc[c] \in {"session", "capture", "save"}
  BY DEF CancelCapture, GoTo, History!BreakOff, repository
<1>3. pc'[c] = "cancelled" /\ \A d \in Clients \ {c} : pc'[d] = pc[d]
  BY <1>2, LookupNames DEF TypeOK
<1>4. History!Stored' = History!Stored
  BY <1>2 DEF History!Stored
<1>5. \/ outcome' = outcome
      \/ /\ outcome[c] = "open"
         /\ \E how \in {"Cancelled", "Killed"} : outcome' = [outcome EXCEPT ![c] = how]
  BY DEF CancelCapture, History!BreakOff, History!Settle, repository
<1>6. /\ outcome'[c] = outcome[c] \/ outcome'[c] \in {"Cancelled", "Killed"}
      /\ \A s \in Saves \ {c} : outcome'[s] = outcome[s]
      /\ \A q \in Requests : outcome'[LookupOf(q)] = outcome[LookupOf(q)]
  BY <1>5, LookupNames DEF TypeOK
<1>7. StampedFirst(c)'
  BY <1>1, <1>3, <1>4, <1>6 DEF StampedFirst
<1>8. c \in Requests => NothingForgotten(c)' /\ OfSomething(c)' /\ Promises(c)'
  BY <1>1, <1>2, <1>3, <1>4, <1>6 DEF NothingForgotten, OfSomething, Promises, NoReport
<1> QED
  BY <1>2, <1>3, <1>6, <1>7, <1>8, LookupNames, Undisturbed

LEMMA CancelLookupKeeps ==
  ASSUME TypeOK, StatusInv, NEW q \in Requests, CancelLookup(q)
  PROVE  StatusInv'
<1>1. NothingForgotten(q) /\ OfSomething(q) /\ Promises(q) /\ (q \in Saves => StampedFirst(q))
  BY InvByRequest
<1>2. /\ UNCHANGED <<history, saw, captured, now, report, known>>
      /\ pc' = [pc EXCEPT ![q] = "cancelled"] /\ pc[q] = "lookup"
      /\ \E how \in {"Cancelled", "Killed"} : outcome' = [outcome EXCEPT ![LookupOf(q)] = how]
  BY DEF CancelLookup, GoTo, History!BreakOff, History!Settle
<1>3. pc'[q] = "cancelled" /\ \A d \in Clients \ {q} : pc'[d] = pc[d]
  BY <1>2, LookupNames DEF TypeOK
<1>4. History!Stored' = History!Stored
  BY <1>2 DEF History!Stored
<1>5. /\ outcome'[LookupOf(q)] \in {"Cancelled", "Killed"}
      /\ \A s \in Saves : outcome'[s] = outcome[s]
      /\ \A p \in Requests \ {q} : outcome'[LookupOf(p)] = outcome[LookupOf(p)]
  BY <1>2, LookupNames DEF TypeOK
<1>6. q \in Saves => StampedFirst(q)'
  BY <1>1, <1>3, <1>4, <1>5 DEF StampedFirst
<1>7. NothingForgotten(q)' /\ OfSomething(q)' /\ Promises(q)'
  BY <1>1, <1>2, <1>3, <1>4, <1>5 DEF NothingForgotten, OfSomething, Promises, NoReport
<1> QED
  BY <1>2, <1>3, <1>5, <1>6, <1>7, LookupNames, Undisturbed

-----------------------------------------------------------------------------
(***************************************************************************)
(* The invariant                                                           *)
(***************************************************************************)
LEMMA InitKeeps == Init => StatusInv
<1> SUFFICES ASSUME Init PROVE StatusInv
  OBVIOUS
<1>1. History!Stored = {}
  BY DEF Init, History!Init, History!Stored
<1>2. /\ \A s \in Saves : outcome[s] = "idle" /\ pc[s] = "idle"
      /\ \A q \in Requests :
           /\ outcome[LookupOf(q)] = "idle" /\ saw[LookupOf(q)] = {} /\ pc[q] = "idle"
           /\ known[q] = {} /\ report[q] = NoReport
  BY LookupNames DEF Init, History!Init, History!Calls
<1> QED
  BY <1>1, <1>2, InvByRequest DEF StampedFirst, NothingForgotten, OfSomething, Promises, NoReport

LEMMA ServesKeeps ==
  ASSUME TypeOK, StatusInv, Serves
  PROVE  StatusInv'
<1>1. CASE Tick
  BY <1>1, StutterKeeps DEF Tick, repository
<1>2. CASE ~Tick
  BY <1>2, LookupNames, BeginKeeps, CaptureKeeps, CaptureFailsKeeps, SaveEndsKeeps,
    LookupReturnsKeeps, NoReportKeeps, CancelCaptureKeeps, CancelLookupKeeps DEF Serves, Saves
<1> QED
  BY <1>1, <1>2

\* The inductive invariant of the services, for any number of requests and captures.
THEOREM StatusIsConsistent == Spec => [](TypeOK /\ StatusInv)
<1>1. Init => TypeOK /\ StatusInv
  BY InitTypes, InitKeeps
<1>2. TypeOK /\ StatusInv /\ [Next]_vars => TypeOK' /\ StatusInv'
  <2> SUFFICES ASSUME TypeOK, StatusInv, [Next]_vars
               PROVE  TypeOK' /\ StatusInv'
    OBVIOUS
  <2>1. CASE StoreWorks
    BY <2>1, StoreTypes, StoreKeeps
  <2>2. CASE Serves
    BY <2>2, ServesTypes, ServesKeeps
  <2>3. CASE UNCHANGED vars
    <3>1. UNCHANGED <<history, saw, outcome, captured, pc, now, report, known, clock, source>>
      BY <2>3 DEF vars, repository
    <3>2. StatusInv'
      BY <3>1, StutterKeeps
    <3>3. TypeOK'
      BY <3>1 DEF TypeOK
    <3> QED
      BY <3>2, <3>3
  <2> QED
    BY <2>1, <2>2, <2>3 DEF Next, Serves
<1> QED
  BY <1>1, <1>2, PTL DEF Spec

\* No status is older than what was stored when it was asked for.
THEOREM StatusIsCurrent == Spec => []ReportsAreCurrent
<1>1. StatusInv => ReportsAreCurrent
  BY DEF StatusInv
<1> QED
  BY <1>1, StatusIsConsistent, PTL

\* A live status is of a stored snapshot.
THEOREM LiveMeansStored == Spec => []LiveIsStored
<1>1. StatusInv => LiveIsStored
  BY DEF StatusInv
<1> QED
  BY <1>1, StatusIsConsistent, PTL

\* A failing provider never hides what is stored.
THEOREM StoredStaysVisible == Spec => []PersistedIsRetained
<1>1. StatusInv => PersistedIsRetained
  BY DEF StatusInv
<1> QED
  BY <1>1, StatusIsConsistent, PTL
=============================================================================
