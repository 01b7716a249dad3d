-------------------------- MODULE QuotaPilotGuiProofs --------------------------
(***************************************************************************)
(* Proofs about QuotaPilotGui for any set of pages, tasks, fields, values  *)
(* and processes, and any bound.                                           *)
(***************************************************************************)
EXTENDS QuotaPilotGui, TLAPS

-----------------------------------------------------------------------------
(***************************************************************************)
(* Types.                                                                  *)
(***************************************************************************)
Plans == [id : Nat, dry : BOOLEAN]

Payloads == {None, Raised} \cup Nat \cup Tasks \cup Plans \cup Config

Operations == {"load", "refresh", "analyze", "prepare", "run", "save"}

\* An operation is one of its view model, and its argument is what it needs.
WellFormed(w) ==
    /\ w.vm = "execute" <=> w.op \in {"prepare", "run"}
    /\ w.op \in {"prepare", "run"} => w.arg \in Plans
    /\ w.op = "save" => w.arg \in Config

Work == {w \in [vm : ViewModels, op : Operations, arg : Payloads] : WellFormed(w)}

Places == {"begun", "deciding", "revalidating", "attempt", "writing"}

WorkOnThread ==
    {w \in [vm : ViewModels, op : Operations, arg : Payloads, at : Places] : WellFormed(w)}

\* What is emitted of a plan or a run is its plan, of a save the whole configuration.
Event ==
    {w \in [vm : ViewModels, op : Operations, arg : Payloads, value : Payloads] :
        /\ WellFormed(w)
        /\ w.vm = "execute" => w.value \in {w.arg, Raised}
        /\ w.op = "save" => w.value \in Config \cup {Raised}}

WorkTypes ==
    /\ busy \in [ViewModels -> BOOLEAN]
    /\ queue \in Seq(Work) /\ threads \in Seq(WorkOnThread) /\ events \in Seq(Event)

PageTypes ==
    /\ store \in Nat /\ field \in Tasks
    /\ route \in [task : Tasks, result : Payloads]
    /\ settings \in [config : Config, saved : BOOLEAN, language : Values]

ExecuteTypes ==
    /\ execute \in [plan : OrNone(Plans), result : OrNone(Plans), prepared : Nat]
    /\ run \in [plan : OrNone(Plans), attempt : Nat, step : Nat, reusable : BOOLEAN]

WriterPlaces ==
    {"idle", "begun", "created", "written", "replaced", "refused", "saved", "failed"}

\* A writer holds a whole configuration from its beginning on, and what it is going to
\* put in the place of the file is all of it.
FileInv ==
    /\ file \in Contents /\ read \in [Processes -> Contents]
    /\ alive \in [Processes -> BOOLEAN]
    /\ temps \in [Processes -> Contents \cup {None, Torn}]
    /\ writer \in [Processes -> [at : WriterPlaces, config : Config \cup {None}]]
    /\ \A p \in Processes :
         /\ writer[p].at # "idle" => writer[p].config \in Config
         /\ writer[p].at = "written" => temps[p] = writer[p].config

-----------------------------------------------------------------------------
(***************************************************************************)
(* The configuration file.                                                 *)
(***************************************************************************)
\* A whole configuration is also something a file may hold.
LEMMA ConfigIsContent == Config \subseteq Contents
  BY DEF Config, Contents

\* Whatever is in the file, a process has a whole configuration.
LEMMA EffectiveIsWhole ==
  ASSUME NEW content \in Contents, NEW p \in Processes
  PROVE  EffectiveConfig(content, p) \in Config
<1>1. PICK fields \in SUBSET Fields : content \in [fields -> Values]
  BY DEF Contents
<1>2. PICK overridden \in SUBSET Fields : Environment[p] \in [overridden -> Values]
  BY EnvironmentAssumption DEF Contents
<1>3. Defaults \in [Fields -> Values]
  BY DefaultsAssumption DEF Config
<1> QED
  BY <1>1, <1>2, <1>3 DEF EffectiveConfig, Config

LEMMA InitFile == FileInit => FileInv
<1> SUFFICES ASSUME FileInit PROVE FileInv
  OBVIOUS
<1>1. file \in Contents /\ read \in [Processes -> Contents]
  BY ContentsAssumption DEF FileInit
<1>2. \A p \in Processes : writer[p].at = "idle"
  BY DEF FileInit, NotSaving
<1>3. writer \in [Processes -> [at : WriterPlaces, config : Config \cup {None}]]
  BY DEF FileInit, NotSaving, WriterPlaces
<1> QED
  BY <1>1, <1>2, <1>3 DEF FileInit, FileInv

LEMMA BeginWriteKeeps ==
  ASSUME FileInv, NEW p \in Processes, NEW c \in Config, BeginWrite(p, c)
  PROVE  FileInv'
<1>1. /\ writer' \in [Processes -> [at : WriterPlaces, config : Config \cup {None}]]
      /\ writer'[p].at = "begun" /\ writer'[p].config = c
      /\ \A q \in Processes \ {p} : writer'[q] = writer[q]
  BY DEF BeginWrite, FileInv, WriterPlaces
<1> QED
  BY <1>1 DEF BeginWrite, FileInv

\* Where a writer goes leaves its configuration and the other writers alone.
LEMMA GoingTo ==
  ASSUME FileInv, NEW p \in Processes, NEW at \in WriterPlaces, GoesTo(p, at)
  PROVE  /\ writer' \in [Processes -> [at : WriterPlaces, config : Config \cup {None}]]
         /\ writer'[p].at = at /\ writer'[p].config = writer[p].config
         /\ \A q \in Processes \ {p} : writer'[q] = writer[q]
  BY DEF GoesTo, FileInv

LEMMA WriterKeeps ==
  ASSUME FileInv, NEW p \in Processes, WriterStep(p)
  PROVE  FileInv'
<1> USE DEF TempName, InWriter, WriterPlaces
<1>1. CASE CreateTemp(p)
  BY <1>1, GoingTo DEF CreateTemp, FileInv
<1>2. CASE WriteTemp(p)
  BY <1>2, GoingTo, ConfigIsContent DEF WriteTemp, FileInv
<1>3. CASE ReplaceFile(p)
  BY <1>3, GoingTo, ConfigIsContent DEF ReplaceFile, FileInv
<1>4. CASE WriteFails(p)
  BY <1>4, GoingTo DEF WriteFails, FileInv
<1>5. CASE RemoveTemp(p)
  BY <1>5, GoingTo DEF RemoveTemp, FileInv
<1> QED
  BY <1>1, <1>2, <1>3, <1>4, <1>5 DEF WriterStep

LEMMA KillKeeps ==
  ASSUME FileInv, NEW p \in Processes, Kill(p) \/ Restart(p)
  PROVE  FileInv'
<1>1. CASE Kill(p)
  BY <1>1 DEF Kill, FileInv
<1>2. CASE Restart(p)
  <2>1. /\ writer' \in [Processes -> [at : WriterPlaces, config : Config \cup {None}]]
        /\ writer'[p].at = "idle"
        /\ \A q \in Processes \ {p} : writer'[q] = writer[q]
    BY <1>2 DEF Restart, NotSaving, FileInv, WriterPlaces
  <2> QED
    BY <1>2, <2>1 DEF Restart, FileInv, TempName
<1> QED
  BY <1>1, <1>2
-----------------------------------------------------------------------------
(***************************************************************************)
(* One operation of the execute page at a time.                            *)
(***************************************************************************)
\* The places of a sequence where an operation of the execute page stands.
Executes(s) == {i \in DOMAIN s : s[i].vm = "execute"}

\* It waits, is on a thread or is over and not delivered, and then the page is busy.
OneAtATime ==
    /\ \A i, j \in Executes(queue) : i = j
    /\ \A i, j \in Executes(threads) : i = j
    /\ \A i, j \in Executes(events) : i = j
    /\ Executes(queue) # {} => Executes(threads) = {} /\ Executes(events) = {} /\ busy["execute"]
    /\ Executes(threads) # {} => Executes(events) = {} /\ busy["execute"]
    /\ Executes(events) # {} => busy["execute"]

\* It is about the last plan that was asked for, and a run was confirmed.
OfLatestPlan(w) == w.arg.id = execute.prepared /\ (w.op = "run" => w.arg \in confirmed)

WorkIsCurrent ==
    /\ \A i \in Executes(queue) : OfLatestPlan(queue[i])
    /\ \A i \in Executes(threads) : OfLatestPlan(threads[i])
    /\ \A i \in Executes(events) : OfLatestPlan(events[i])

Running(i) == threads[i].op = "run" /\ threads[i].at # "begun"

\* The service runs the plan of the thread; an escalated step is never past the decision,
\* and what it wants there is an approval that attempt 1 alone is given.
RunIsOnThread ==
    /\ \A i \in DOMAIN threads : Running(i) =>
         /\ run.plan = threads[i].arg /\ ~run.plan.dry /\ run.attempt >= 1
         /\ run.step # 0 => threads[i].at = "deciding" /\ ~run.reusable /\ run.attempt # 1
    /\ run.plan # None => \E i \in DOMAIN threads : Running(i)

\* ShowsTheLatestPlan without the run, which RunIsOnThread and WorkIsCurrent give.
ShownIsCurrent ==
    /\ execute.plan # None => execute.plan.id = execute.prepared
    /\ execute.result # None => execute.result.id = execute.prepared

ExecInv ==
    /\ OneAtATime /\ WorkIsCurrent /\ RunIsOnThread
    /\ ShownIsCurrent /\ EscalationsAreNotApproved

GuiInv == WorkTypes /\ PageTypes /\ ExecuteTypes /\ FileInv /\ ExecInv

-----------------------------------------------------------------------------
(***************************************************************************)
(* Sequences.                                                              *)
(***************************************************************************)
LEMMA Appended ==
  ASSUME NEW S, NEW s \in Seq(S), NEW x \in S
  PROVE  /\ Append(s, x) \in Seq(S)
         /\ DOMAIN Append(s, x) = DOMAIN s \cup {Len(s) + 1}
         /\ \A i \in DOMAIN s : Append(s, x)[i] = s[i]
         /\ Append(s, x)[Len(s) + 1] = x
         /\ Executes(Append(s, x)) =
              Executes(s) \cup (IF x.vm = "execute" THEN {Len(s) + 1} ELSE {})
         /\ Len(s) + 1 \notin DOMAIN s
<1>1. /\ Append(s, x) \in Seq(S)
      /\ DOMAIN Append(s, x) = DOMAIN s \cup {Len(s) + 1}
      /\ \A i \in DOMAIN s : Append(s, x)[i] = s[i]
      /\ Append(s, x)[Len(s) + 1] = x
      /\ Len(s) + 1 \notin DOMAIN s
  OBVIOUS
<1> QED
  BY <1>1 DEF Executes

LEMMA Tailed ==
  ASSUME NEW S, NEW s \in Seq(S), s # <<>>
  PROVE  /\ 1 \in DOMAIN s /\ Head(s) = s[1] /\ Head(s) \in S
         /\ Tail(s) \in Seq(S)
         /\ \A i \in DOMAIN Tail(s) : i \in Nat /\ i + 1 \in DOMAIN s /\ i + 1 # 1
                                      /\ Tail(s)[i] = s[i + 1]
         /\ \A i \in Executes(Tail(s)) : i \in Nat /\ i + 1 \in Executes(s) /\ i + 1 # 1
                                         /\ Tail(s)[i] = s[i + 1]
         /\ \A j \in Executes(s) \ {1} : j - 1 \in Executes(Tail(s)) /\ Tail(s)[j - 1] = s[j]
         /\ Head(s).vm = "execute" => 1 \in Executes(s)
<1>1. /\ 1 \in DOMAIN s /\ Head(s) = s[1] /\ Head(s) \in S
      /\ Tail(s) \in Seq(S)
  OBVIOUS
<1>2. \A i \in DOMAIN Tail(s) : i \in Nat /\ i + 1 \in DOMAIN s /\ i + 1 # 1
                                /\ Tail(s)[i] = s[i + 1]
  OBVIOUS
<1>3. \A j \in DOMAIN s \ {1} : j - 1 \in DOMAIN Tail(s) /\ Tail(s)[j - 1] = s[j]
  OBVIOUS
<1> QED
  BY <1>1, <1>2, <1>3 DEF Executes

\* Where an entry comes from when one is taken out.
From(j, i) == IF j < i THEN j ELSE j + 1

LEMMA Concatenated ==
  ASSUME NEW S, NEW a \in Seq(S), NEW b \in Seq(S)
  PROVE  /\ a \o b \in Seq(S) /\ Len(a \o b) = Len(a) + Len(b)
         /\ \A j \in 1 .. Len(a) + Len(b) :
              (a \o b)[j] = IF j <= Len(a) THEN a[j] ELSE b[j - Len(a)]
  OBVIOUS

LEMMA Removed ==
  ASSUME NEW S, NEW s \in Seq(S), NEW i \in DOMAIN s
  PROVE  /\ RemoveAt(s, i) \in Seq(S)
         /\ \A j \in DOMAIN RemoveAt(s, i) :
              /\ j \in Nat /\ From(j, i) \in DOMAIN s \ {i}
              /\ RemoveAt(s, i)[j] = s[From(j, i)]
         /\ \A j \in Executes(RemoveAt(s, i)) :
              /\ j \in Nat /\ From(j, i) \in Executes(s) \ {i}
              /\ RemoveAt(s, i)[j] = s[From(j, i)]
         /\ \A j \in Executes(s) \ {i} : \E k \in Executes(RemoveAt(s, i)) :
              RemoveAt(s, i)[k] = s[j]
<1> DEFINE a == SubSeq(s, 1, i - 1)
           b == SubSeq(s, i + 1, Len(s))
<1>1. /\ a \in Seq(S) /\ Len(a) = i - 1 /\ \A j \in 1 .. i - 1 : a[j] = s[j]
      /\ i \in 1 .. Len(s) /\ Len(s) \in Nat
  OBVIOUS
<1>2. /\ b \in Seq(S) /\ Len(b) = Len(s) - i /\ \A j \in 1 .. Len(s) - i : b[j] = s[i + j]
  BY <1>1
<1> HIDE DEF a, b
<1>3. /\ a \o b \in Seq(S) /\ Len(a \o b) = Len(s) - 1
      /\ \A j \in 1 .. Len(s) - 1 : (a \o b)[j] = IF j < i THEN a[j] ELSE b[j - (i - 1)]
  <2>1. Len(a) + Len(b) = Len(s) - 1 /\ \A j \in 1 .. Len(s) - 1 : j <= Len(a) <=> j < i
    BY <1>1, <1>2
  <2>2. \A j \in 1 .. Len(a) + Len(b) :
            (a \o b)[j] = IF j <= Len(a) THEN a[j] ELSE b[j - Len(a)]
    BY <1>1, <1>2, Concatenated
  <2>3. a \o b \in Seq(S) /\ Len(a \o b) = Len(a) + Len(b)
    BY <1>1, <1>2, Concatenated
  <2> QED
    BY <1>1, <2>1, <2>2, <2>3
<1>4. RemoveAt(s, i) = a \o b
  BY DEF RemoveAt, a, b
<1>5. /\ RemoveAt(s, i) \in Seq(S) /\ Len(RemoveAt(s, i)) = Len(s) - 1
      /\ DOMAIN RemoveAt(s, i) = 1 .. Len(s) - 1
  BY <1>1, <1>3, <1>4
<1>6. \A j \in 1 .. Len(s) - 1 : From(j, i) \in DOMAIN s \ {i} /\ (a \o b)[j] = s[From(j, i)]
  <2> SUFFICES ASSUME NEW j \in 1 .. Len(s) - 1
               PROVE  From(j, i) \in DOMAIN s \ {i} /\ (a \o b)[j] = s[From(j, i)]
    OBVIOUS
  <2>1. CASE j < i
    BY <2>1, <1>1, <1>3 DEF From
  <2>2. CASE ~ j < i
    <3>1. j - (i - 1) \in 1 .. Len(s) - i /\ i + (j - (i - 1)) = j + 1
      BY <2>2, <1>1
    <3>2. b[j - (i - 1)] = s[j + 1]
      BY <3>1, <1>2
    <3>3. (a \o b)[j] = b[j - (i - 1)]
      BY <2>2, <1>3
    <3>4. From(j, i) = j + 1 /\ j + 1 \in 1 .. Len(s) /\ j + 1 # i
      BY <2>2, <1>1 DEF From
    <3> QED
      BY <3>2, <3>3, <3>4
  <2> QED
    BY <2>1, <2>2
<1>7. \A j \in DOMAIN RemoveAt(s, i) : /\ j \in Nat /\ From(j, i) \in DOMAIN s \ {i}
                                       /\ RemoveAt(s, i)[j] = s[From(j, i)]
  BY <1>1, <1>4, <1>5, <1>6
<1>8. \A j \in DOMAIN s \ {i} : \E k \in DOMAIN RemoveAt(s, i) : RemoveAt(s, i)[k] = s[j]
  <2> SUFFICES ASSUME NEW j \in DOMAIN s \ {i}
               PROVE  \E k \in DOMAIN RemoveAt(s, i) : RemoveAt(s, i)[k] = s[j]
    OBVIOUS
  <2>1. CASE j < i
    <3>1. j \in DOMAIN RemoveAt(s, i) /\ From(j, i) = j
      BY <2>1, <1>1, <1>5 DEF From
    <3> QED
      BY <3>1, <1>7
  <2>2. CASE j > i
    <3>1. j - 1 \in DOMAIN RemoveAt(s, i) /\ From(j - 1, i) = j
      BY <2>2, <1>1, <1>5 DEF From
    <3> QED
      BY <3>1, <1>7
  <2> QED
    BY <2>1, <2>2, <1>1
<1> QED
  BY <1>5, <1>7, <1>8 DEF Executes

\* What is said of the execute page's operations in s holds of those in t.
Keeps(s, t) ==
    /\ (\A i, j \in Executes(s) : i = j) => \A i, j \in Executes(t) : i = j
    /\ \A i \in Executes(t) : \E j \in Executes(s) : t[i] = s[j]
    /\ \A j \in Executes(s) : \E i \in Executes(t) : t[i] = s[j]

LEMMA AppendKeeps ==
  ASSUME NEW S, NEW s \in Seq(S), NEW x \in S, x.vm # "execute"
  PROVE  Keeps(s, Append(s, x))
<1>1. /\ Executes(Append(s, x)) = Executes(s)
      /\ \A i \in Executes(s) : Append(s, x)[i] = s[i]
  BY Appended DEF Executes
<1> QED
  BY <1>1 DEF Keeps

LEMMA TailKeeps ==
  ASSUME NEW S, NEW s \in Seq(S), s # <<>>, Head(s).vm # "execute"
  PROVE  Keeps(s, Tail(s))
<1>1. /\ \A i \in Executes(Tail(s)) : i \in Nat /\ i + 1 \in Executes(s) /\ Tail(s)[i] = s[i + 1]
      /\ \A j \in Executes(s) \ {1} : j - 1 \in Executes(Tail(s)) /\ Tail(s)[j - 1] = s[j]
      /\ 1 \notin Executes(s)
  BY Tailed DEF Executes
<1>2. \A i, j \in Nat : i + 1 = j + 1 => i = j
  OBVIOUS
<1>3. (\A i, j \in Executes(s) : i = j) => \A i, j \in Executes(Tail(s)) : i = j
  BY <1>1, <1>2
<1> QED
  BY <1>1, <1>3 DEF Keeps

LEMMA RemoveKeeps ==
  ASSUME NEW S, NEW s \in Seq(S), NEW i \in DOMAIN s, s[i].vm # "execute"
  PROVE  Keeps(s, RemoveAt(s, i))
<1> DEFINE r == RemoveAt(s, i)
<1>1. /\ \A j \in Executes(r) : /\ j \in Nat /\ From(j, i) \in Executes(s) \ {i}
                                /\ r[j] = s[From(j, i)]
      /\ \A j \in Executes(s) \ {i} : \E k \in Executes(r) : r[k] = s[j]
  BY Removed
<1>2. i \notin Executes(s) /\ i \in Nat
  BY DEF Executes
<1>3. \A j, k \in Nat : From(j, i) = From(k, i) /\ From(j, i) # i /\ From(k, i) # i => j = k
  BY <1>2 DEF From
<1> HIDE DEF r
<1>4. (\A j, k \in Executes(s) : j = k) => \A j, k \in Executes(r) : j = k
  BY <1>1, <1>3
<1>5. /\ \A j \in Executes(r) : \E k \in Executes(s) : r[j] = s[k]
      /\ \A j \in Executes(s) : \E k \in Executes(r) : r[k] = s[j]
  BY <1>1, <1>2
<1>6. Keeps(s, r)
  BY <1>4, <1>5 DEF Keeps
<1> QED
  BY <1>6 DEF r

\* The only operation of the execute page leaves a sequence.
LEMMA TailTakes ==
  ASSUME NEW S, NEW s \in Seq(S), s # <<>>, Head(s).vm = "execute",
         \A i, j \in Executes(s) : i = j
  PROVE  Executes(Tail(s)) = {} /\ Executes(s) # {}
<1>1. 1 \in Executes(s) /\ \A i \in Executes(Tail(s)) : i + 1 \in Executes(s) /\ i + 1 # 1
  BY Tailed
<1> QED
  BY <1>1

LEMMA RemoveTakes ==
  ASSUME NEW S, NEW s \in Seq(S), NEW i \in DOMAIN s, s[i].vm = "execute",
         \A j, k \in Executes(s) : j = k
  PROVE  Executes(RemoveAt(s, i)) = {} /\ Executes(s) # {}
<1>1. i \in Executes(s)
  BY DEF Executes
<1>2. \A j \in Executes(RemoveAt(s, i)) : From(j, i) \in Executes(s) \ {i}
  BY Removed
<1> QED
  BY <1>1, <1>2

\* Whatever the other pages do with the workers, the execute page's work is what it was.
LEMMA ElsewhereKeeps ==
  ASSUME ExecInv, WorkTypes, WorkTypes', UNCHANGED executeVars,
         busy'["execute"] = busy["execute"],
         Keeps(queue, queue'), Keeps(threads, threads'), Keeps(events, events')
  PROVE  ExecInv'
<1> USE DEF executeVars
<1>1. OneAtATime'
  <2>1. /\ Executes(queue') # {} => Executes(queue) # {}
        /\ Executes(threads') # {} => Executes(threads) # {}
        /\ Executes(events') # {} => Executes(events) # {}
    BY DEF Keeps
  <2> QED
    BY <2>1 DEF Keeps, ExecInv, OneAtATime
<1>2. WorkIsCurrent'
  BY DEF ExecInv, WorkIsCurrent, Keeps, OfLatestPlan
<1>3. RunIsOnThread'
  <2>1. /\ \A i \in DOMAIN threads : Running(i) => i \in Executes(threads)
        /\ \A i \in DOMAIN threads' : Running(i)' => i \in Executes(threads')
    BY DEF Running, Executes, WorkTypes, WorkOnThread, WellFormed
  <2>2. \A i \in DOMAIN threads' : Running(i)' =>
            \E j \in DOMAIN threads : Running(j) /\ threads'[i] = threads[j]
    BY <2>1 DEF Keeps, Running, Executes
  <2>3. \A j \in DOMAIN threads : Running(j) => \E i \in DOMAIN threads' : Running(i)'
    BY <2>1 DEF Keeps, Running, Executes
  <2> QED
    BY <2>2, <2>3 DEF ExecInv, RunIsOnThread
<1>4. ShownIsCurrent' /\ EscalationsAreNotApproved'
  BY DEF ExecInv, ShownIsCurrent, EscalationsAreNotApproved
<1> QED
  BY <1>1, <1>2, <1>3, <1>4 DEF ExecInv

LEMMA Unchanged ==
  ASSUME NEW s
  PROVE  Keeps(s, s)
  BY DEF Keeps

LEMMA ExecuteIsAViewModel == "execute" \in ViewModels
  BY PagesHaveViewModels DEF Pages

-----------------------------------------------------------------------------
(***************************************************************************)
(* The workers under the other pages.                                      *)
(***************************************************************************)
LEMMA BeginElsewhere ==
  ASSUME WorkTypes, ExecInv, UNCHANGED executeVars,
         NEW v \in ViewModels, NEW op \in Operations \ {"prepare", "run"}, NEW arg \in Payloads,
         v # "execute", op = "save" => arg \in Config, Begin(v, op, arg)
  PROVE  WorkTypes' /\ ExecInv'
<1> DEFINE w == [vm |-> v, op |-> op, arg |-> arg]
<1>1. w \in Work /\ w.vm # "execute"
  BY DEF Work, WellFormed
<1>2. queue' = Append(queue, w) /\ queue \in Seq(Work) /\ UNCHANGED <<threads, events>>
  BY DEF Begin, WorkTypes
<1> HIDE DEF w
<1>3. queue' \in Seq(Work) /\ Keeps(queue, queue')
  BY <1>1, <1>2, Appended, AppendKeeps
<1>4. busy' \in [ViewModels -> BOOLEAN] /\ busy'["execute"] = busy["execute"]
  BY ExecuteIsAViewModel DEF Begin, WorkTypes
<1>5. WorkTypes'
  BY <1>2, <1>3, <1>4 DEF WorkTypes
<1> QED
  BY <1>2, <1>3, <1>4, <1>5, ElsewhereKeeps, Unchanged

LEMMA RefuseElsewhere ==
  ASSUME WorkTypes, ExecInv, UNCHANGED executeVars,
         NEW v \in ViewModels, v # "execute", Refuse(v)
  PROVE  WorkTypes' /\ ExecInv'
<1>1. busy' \in [ViewModels -> BOOLEAN] /\ busy'["execute"] = busy["execute"]
  BY ExecuteIsAViewModel DEF Refuse, WorkTypes
<1>2. UNCHANGED <<queue, threads, events>>
  BY DEF Refuse
<1>3. WorkTypes'
  BY <1>1, <1>2 DEF WorkTypes
<1> QED
  BY <1>1, <1>2, <1>3, ElsewhereKeeps, Unchanged

LEMMA MoveElsewhere ==
  ASSUME WorkTypes, ExecInv, UNCHANGED executeVars,
         NEW i \in DOMAIN threads, NEW at \in Places,
         threads[i].vm # "execute", MovesTo(i, at)
  PROVE  WorkTypes' /\ ExecInv'
<1>1. threads[i] \in WorkOnThread /\ threads \in Seq(WorkOnThread)
  BY DEF WorkTypes
<1>2. [threads[i] EXCEPT !.at = at] \in WorkOnThread
  BY <1>1 DEF WorkOnThread, WellFormed
<1>3. /\ threads' = [threads EXCEPT ![i] = [threads[i] EXCEPT !.at = at]]
      /\ UNCHANGED <<busy, queue, events>>
  BY DEF MovesTo
<1>4. /\ threads' \in Seq(WorkOnThread) /\ DOMAIN threads' = DOMAIN threads
      /\ threads'[i] = [threads[i] EXCEPT !.at = at]
      /\ \A j \in DOMAIN threads \ {i} : threads'[j] = threads[j]
  BY <1>1, <1>2, <1>3
<1>5. threads'[i].vm # "execute"
  BY <1>1, <1>4 DEF WorkOnThread
<1>6. Keeps(threads, threads')
  BY <1>4, <1>5 DEF Keeps, Executes
<1>7. WorkTypes'
  BY <1>3, <1>4 DEF WorkTypes
<1> QED
  BY <1>3, <1>6, <1>7, ElsewhereKeeps, Unchanged

LEMMA EmitElsewhere ==
  ASSUME WorkTypes, ExecInv, UNCHANGED executeVars,
         NEW i \in DOMAIN threads, NEW value \in Payloads, threads[i].vm # "execute",
         threads[i].op = "save" => value \in Config \cup {Raised}, Emits(i, value)
  PROVE  WorkTypes' /\ ExecInv'
<1> DEFINE e == [vm |-> threads[i].vm, op |-> threads[i].op, arg |-> threads[i].arg,
                 value |-> value]
<1>1. threads[i] \in WorkOnThread /\ threads \in Seq(WorkOnThread) /\ events \in Seq(Event)
  BY DEF WorkTypes
<1>2. e \in Event /\ e.vm # "execute"
  BY <1>1 DEF WorkOnThread, WellFormed, Event
<1>3. /\ events' = Append(events, e) /\ threads' = RemoveAt(threads, i)
      /\ UNCHANGED <<busy, queue>>
  BY DEF Emits
<1> HIDE DEF e
<1>4. events' \in Seq(Event) /\ Keeps(events, events')
  BY <1>1, <1>2, <1>3, Appended, AppendKeeps
<1>5. threads' \in Seq(WorkOnThread) /\ Keeps(threads, threads')
  BY <1>1, <1>3, Removed, RemoveKeeps
<1>6. WorkTypes'
  BY <1>3, <1>4, <1>5 DEF WorkTypes
<1> QED
  BY <1>3, <1>4, <1>5, <1>6, ElsewhereKeeps, Unchanged

LEMMA DeliverElsewhere ==
  ASSUME WorkTypes, ExecInv, UNCHANGED executeVars,
         events # <<>>, Delivered.vm # "execute", Finishes \/ Fails
  PROVE  WorkTypes' /\ ExecInv'
<1>1. events \in Seq(Event)
  BY DEF WorkTypes
<1>2. events' = Tail(events) /\ UNCHANGED <<queue, threads>>
  BY DEF Finishes, Fails
<1>3. events' \in Seq(Event) /\ Keeps(events, events')
  BY <1>1, <1>2, Tailed, TailKeeps DEF Delivered
<1>4. busy' \in [ViewModels -> BOOLEAN] /\ busy'["execute"] = busy["execute"]
  BY ExecuteIsAViewModel DEF Finishes, Fails, WorkTypes
<1>5. WorkTypes'
  BY <1>2, <1>3, <1>4 DEF WorkTypes
<1> QED
  BY <1>2, <1>3, <1>4, <1>5, ElsewhereKeeps, Unchanged

\* An operation on a thread or delivered is well formed.
LEMMA OnThreadIs ==
  ASSUME WorkTypes, NEW i \in DOMAIN threads
  PROVE  /\ threads[i].vm \in ViewModels /\ threads[i].op \in Operations
         /\ threads[i].arg \in Payloads /\ threads[i].at \in Places
         /\ WellFormed(threads[i])
  BY DEF WorkTypes, WorkOnThread

LEMMA DeliveredIs ==
  ASSUME WorkTypes, events # <<>>
  PROVE  /\ Delivered.vm \in ViewModels /\ Delivered.op \in Operations
         /\ Delivered.arg \in Payloads /\ Delivered.value \in Payloads
         /\ WellFormed(Delivered)
         /\ Delivered.vm = "execute" => Delivered.value \in {Delivered.arg, Raised}
         /\ Delivered.op = "save" => Delivered.value \in Config \cup {Raised}
<1>1. Head(events) \in Event
  BY Tailed DEF WorkTypes
<1> QED
  BY <1>1 DEF Event, Delivered

\* A thread takes an operation of any page.
LEMMA TakeThreadKeeps ==
  ASSUME WorkTypes, ExecInv, UNCHANGED executeVars, TakeThread
  PROVE  WorkTypes' /\ ExecInv'
<1> DEFINE w == [vm |-> Head(queue).vm, op |-> Head(queue).op, arg |-> Head(queue).arg,
                 at |-> "begun"]
<1>1. /\ queue # <<>> /\ threads' = Append(threads, w) /\ queue' = Tail(queue)
      /\ UNCHANGED <<busy, events>>
      /\ queue \in Seq(Work) /\ threads \in Seq(WorkOnThread)
  BY DEF TakeThread, WorkTypes
<1>2. Head(queue) \in Work
  BY <1>1, Tailed
<1>3. w \in WorkOnThread /\ w.vm = Head(queue).vm
  BY <1>2 DEF Work, WorkOnThread, WellFormed, Places
<1>4. w.op = Head(queue).op /\ w.arg = Head(queue).arg /\ w.at = "begun"
  OBVIOUS
<1> HIDE DEF w
<1>5. WorkTypes'
  BY <1>1, <1>3, Tailed, Appended DEF WorkTypes
<1>6. CASE Head(queue).vm # "execute"
  BY <1>1, <1>3, <1>5, <1>6, TailKeeps, AppendKeeps, ElsewhereKeeps, Unchanged
<1>7. CASE Head(queue).vm = "execute"
  <2>1. Executes(queue') = {} /\ Executes(queue) # {} /\ 1 \in Executes(queue)
        /\ Head(queue) = queue[1]
    BY <1>1, <1>7, TailTakes, Tailed DEF ExecInv, OneAtATime
  <2>2. Executes(threads) = {} /\ Executes(events) = {} /\ busy["execute"]
    BY <2>1 DEF ExecInv, OneAtATime
  <2>3. /\ DOMAIN threads' = DOMAIN threads \cup {Len(threads) + 1}
        /\ \A i \in DOMAIN threads : threads'[i] = threads[i]
        /\ threads'[Len(threads) + 1] = w
        /\ Executes(threads') = {Len(threads) + 1}
    BY <1>1, <1>3, <1>7, <2>2, Appended
  <2>4. OneAtATime'
    BY <1>1, <2>1, <2>2, <2>3 DEF OneAtATime, Executes
  <2>5. w.arg.id = execute'.prepared /\ (w.op = "run" => w.arg \in confirmed')
    BY <1>4, <2>1 DEF ExecInv, WorkIsCurrent, OfLatestPlan, executeVars
  <2>6. WorkIsCurrent'
    BY <1>1, <2>1, <2>2, <2>3, <2>5 DEF WorkIsCurrent, OfLatestPlan, Executes
  <2>7. \A i \in DOMAIN threads : ~Running(i)
    BY <2>2, OnThreadIs DEF Executes, Running, WellFormed
  <2>8. run'.plan = None
    BY <2>7 DEF ExecInv, RunIsOnThread, executeVars
  <2>9. \A i \in DOMAIN threads' : ~Running(i)'
    BY <1>4, <2>3, <2>7 DEF Running
  <2>10. RunIsOnThread'
    BY <2>8, <2>9 DEF RunIsOnThread
  <2> QED
    BY <1>5, <2>4, <2>6, <2>10
    DEF ExecInv, ShownIsCurrent, EscalationsAreNotApproved, executeVars
<1> QED
  BY <1>6, <1>7

-----------------------------------------------------------------------------
(***************************************************************************)
(* The actions of the other pages.                                         *)
(***************************************************************************)
LEMMA NothingChanges ==
  ASSUME GuiInv, UNCHANGED <<workerVars, executeVars>>
  PROVE  WorkTypes' /\ ExecInv'
<1>1. WorkTypes'
  BY DEF GuiInv, WorkTypes, workerVars
<1> QED
  BY <1>1, ElsewhereKeeps, Unchanged DEF GuiInv, workerVars

LEMMA ElseKeeps ==
  ASSUME GuiInv
  PROVE  /\ UNCHANGED fileVars => FileInv'
         /\ UNCHANGED executeVars => ExecuteTypes'
         /\ UNCHANGED <<pageVars, field>> => PageTypes'
  BY DEF GuiInv, FileInv, fileVars, ExecuteTypes, executeVars, PageTypes, pageVars

LEMMA OverviewLoads ==
  ASSUME GuiInv, UNCHANGED executeVars, NEW live \in BOOLEAN, LoadOverview(live)
  PROVE  WorkTypes' /\ ExecInv'
<1>1. CASE UNCHANGED workerVars
  BY <1>1, NothingChanges
<1>2. CASE Begin("overview", IF live THEN "refresh" ELSE "load", None)
  BY <1>2, BeginElsewhere, PagesHaveViewModels DEF GuiInv, Pages, Operations, Payloads
<1> QED
  BY <1>1, <1>2 DEF LoadOverview

LEMMA PageLoads ==
  ASSUME GuiInv, UNCHANGED executeVars, NEW v \in LoadPages, LoadPage(v)
  PROVE  WorkTypes' /\ ExecInv'
<1>1. v \in ViewModels /\ v # "execute"
  BY PagesHaveViewModels, LoadPagesAssumption DEF Pages
<1>2. CASE UNCHANGED workerVars
  BY <1>2, NothingChanges
<1>3. CASE Begin(v, "load", None)
  BY <1>1, <1>3, BeginElsewhere DEF GuiInv, Operations, Payloads
<1> QED
  BY <1>2, <1>3 DEF LoadPage

LEMMA NavigateKeeps ==
  ASSUME GuiInv, Navigate
  PROVE  GuiInv'
<1>1. UNCHANGED <<fileVars, executeVars, field>> /\ Loads(page')
  BY DEF Navigate
<1>2. UNCHANGED pageVars
  BY <1>1 DEF Loads, LoadOverview, LoadPage
<1>3. WorkTypes' /\ ExecInv'
  BY <1>1, OverviewLoads, PageLoads, NothingChanges DEF Loads
<1> QED
  BY <1>1, <1>2, <1>3, ElseKeeps DEF GuiInv

LEMMA OverviewKeeps ==
  ASSUME GuiInv, Initialize \/ Refresh
  PROVE  GuiInv'
<1>1. PICK live \in BOOLEAN : LoadOverview(live) /\ ElsePages
  BY DEF Initialize, Refresh
<1>2. UNCHANGED <<fileVars, executeVars, field, pageVars>>
  BY <1>1 DEF ElsePages, LoadOverview
<1>3. WorkTypes' /\ ExecInv'
  BY <1>1, <1>2, OverviewLoads
<1> QED
  BY <1>2, <1>3, ElseKeeps DEF GuiInv

LEMMA EditTaskKeeps ==
  ASSUME GuiInv, EditTask
  PROVE  GuiInv'
<1>1. UNCHANGED <<workerVars, fileVars, pageVars, executeVars>> /\ field' \in Tasks
  BY DEF EditTask
<1>2. PageTypes'
  BY <1>1 DEF GuiInv, PageTypes, pageVars
<1> QED
  BY <1>1, <1>2, NothingChanges, ElseKeeps DEF GuiInv

LEMMA OnRouteKeeps ==
  ASSUME GuiInv, OnRoute
  PROVE  GuiInv'
<1>1. Analyze(field) /\ UNCHANGED <<fileVars, executeVars, field>> /\ field \in Tasks
  BY DEF OnRoute, ElsePages, GuiInv, PageTypes
<1>2. "route" \in ViewModels
  BY PagesHaveViewModels DEF Pages
<1>3. Refuse("route") \/ Begin("route", "analyze", None)
  BY <1>1 DEF Analyze
<1>4. WorkTypes' /\ ExecInv'
  BY <1>1, <1>2, <1>3, RefuseElsewhere, BeginElsewhere DEF GuiInv, Operations, Payloads
<1>5. PageTypes'
  BY <1>1 DEF Analyze, GuiInv, PageTypes
<1> QED
  BY <1>1, <1>4, <1>5, ElseKeeps DEF GuiInv

LEMMA OnSettingsKeeps ==
  ASSUME GuiInv, OnSettings
  PROVE  GuiInv'
<1>1. SaveSettings /\ UNCHANGED <<fileVars, executeVars, field>>
  BY DEF OnSettings, ElsePages
<1>2. "settings" \in ViewModels
  BY PagesHaveViewModels DEF Pages
<1>3. \A language \in Values : Candidate(language) \in Config
  BY LanguageAssumption DEF Candidate, Config, GuiInv, PageTypes
<1>4. \/ Refuse("settings")
      \/ \E language \in Values : Begin("settings", "save", Candidate(language))
  BY <1>1 DEF SaveSettings
<1>5. WorkTypes' /\ ExecInv'
  BY <1>1, <1>2, <1>3, <1>4, RefuseElsewhere, BeginElsewhere DEF GuiInv, Operations, Payloads
<1>6. PageTypes'
  BY <1>1 DEF SaveSettings, GuiInv, PageTypes
<1> QED
  BY <1>1, <1>5, <1>6, ElseKeeps DEF GuiInv

LEMMA ThreadBeginsKeeps ==
  ASSUME GuiInv, ThreadBegins
  PROVE  GuiInv'
  BY TakeThreadKeeps, ElseKeeps DEF ThreadBegins, GuiInv

\* An operation that loads, recommends or saves is not of the execute page.
LEMMA PageWorkIsElsewhere ==
  ASSUME GuiInv, NEW i \in DOMAIN threads, threads[i].op \notin {"prepare", "run"}
  PROVE  threads[i].vm # "execute"
  BY OnThreadIs DEF GuiInv, WellFormed

LEMMA PageWorkKeeps ==
  ASSUME GuiInv, NEW i \in DOMAIN threads, PageWork(i)
  PROVE  GuiInv'
<1>1. UNCHANGED <<executeVars, field>>
  BY DEF PageWork, ElsePages
<1>2. CASE ReadStore(i) /\ ElsePages
  <2>1. PICK value \in {store, Raised} : Emits(i, value)
    BY <1>2 DEF ReadStore
  <2>2. threads[i].op = "load" /\ value \in Payloads /\ UNCHANGED <<pageVars, fileVars>>
    BY <1>2 DEF ReadStore, OnThread, ElsePages, GuiInv, PageTypes, Payloads
  <2>3. WorkTypes' /\ ExecInv'
    BY <1>1, <2>1, <2>2, PageWorkIsElsewhere, EmitElsewhere DEF GuiInv
  <2> QED
    BY <1>1, <2>2, <2>3, ElseKeeps DEF GuiInv
<1>3. CASE RefreshOverview(i) /\ ElsePages
  <2>1. PICK value \in {store, store + 1, Raised} : Emits(i, value)
    BY <1>3 DEF RefreshOverview
  <2>2. /\ threads[i].op = "refresh" /\ value \in Payloads /\ store' \in {store, store + 1}
        /\ UNCHANGED <<route, settings, fileVars>>
    BY <1>3 DEF RefreshOverview, OnThread, ElsePages, GuiInv, PageTypes, Payloads
  <2>3. WorkTypes' /\ ExecInv'
    BY <1>1, <2>1, <2>2, PageWorkIsElsewhere, EmitElsewhere DEF GuiInv
  <2>4. PageTypes'
    BY <1>1, <2>2 DEF GuiInv, PageTypes
  <2> QED
    BY <1>1, <2>2, <2>3, <2>4, ElseKeeps DEF GuiInv
<1>4. CASE RecommendLatest(i) /\ ElsePages
  <2>1. PICK value \in {route.task, None, Raised} : Emits(i, value)
    BY <1>4 DEF RecommendLatest
  <2>2. threads[i].op = "analyze" /\ value \in Payloads /\ UNCHANGED <<pageVars, fileVars>>
    BY <1>4 DEF RecommendLatest, OnThread, ElsePages, GuiInv, PageTypes, Payloads
  <2>3. WorkTypes' /\ ExecInv'
    BY <1>1, <2>1, <2>2, PageWorkIsElsewhere, EmitElsewhere DEF GuiInv
  <2> QED
    BY <1>1, <2>2, <2>3, ElseKeeps DEF GuiInv
<1>5. CASE BeginSaving(i)
  <2>1. /\ threads[i].op = "save" /\ BeginWrite(Gui, threads[i].arg) /\ MovesTo(i, "writing")
        /\ UNCHANGED pageVars
    BY <1>5 DEF BeginSaving, OnThread
  <2>2. threads[i].arg \in Config
    BY <2>1, OnThreadIs DEF GuiInv, WellFormed
  <2>3. FileInv'
    BY <2>1, <2>2, GuiIsAProcess, BeginWriteKeeps DEF GuiInv
  <2>4. WorkTypes' /\ ExecInv'
    BY <1>1, <2>1, PageWorkIsElsewhere, MoveElsewhere DEF GuiInv, Places
  <2> QED
    BY <1>1, <2>1, <2>3, <2>4, ElseKeeps DEF GuiInv
<1>6. CASE EndSaving(i)
  <2>1. threads[i].op = "save" /\ UNCHANGED <<fileVars, pageVars>>
    BY <1>6 DEF EndSaving, OnThread
  <2>2. PICK value \in Config \cup {Raised} : Emits(i, value)
    BY <1>6, GuiIsAProcess DEF EndSaving, GuiInv, FileInv
  <2>3. WorkTypes' /\ ExecInv'
    BY <1>1, <2>1, <2>2, PageWorkIsElsewhere, EmitElsewhere DEF GuiInv, Payloads
  <2> QED
    BY <1>1, <2>1, <2>3, ElseKeeps DEF GuiInv
<1> QED
  BY <1>2, <1>3, <1>4, <1>5, <1>6 DEF PageWork

LEMMA DeliverPageKeeps ==
  ASSUME GuiInv, ShowOverview \/ ShowPage \/ ShowRoute \/ ShowSaved, ElsePages
  PROVE  GuiInv'
<1>1. UNCHANGED <<executeVars, fileVars, field>>
  BY DEF ElsePages
<1>2. events # <<>> /\ Delivered.op \in {"load", "refresh", "analyze", "save"}
  BY DEF ShowOverview, ShowPage, ShowRoute, ShowSaved, Delivers, Delivered
<1>3. Delivered.vm # "execute"
  BY <1>2, DeliveredIs DEF GuiInv, WellFormed
<1>4. Finishes \/ Fails
  BY DEF ShowOverview, ShowPage, ShowRoute, ShowSaved, Shows, FinishesOrFails
<1>5. WorkTypes' /\ ExecInv'
  BY <1>1, <1>2, <1>3, <1>4, DeliverElsewhere DEF GuiInv
<1>6. ShowOverview \/ ShowPage => PageTypes'
  BY <1>1 DEF ShowOverview, ShowPage, Shows, GuiInv, PageTypes
<1>7. ASSUME ShowRoute PROVE PageTypes'
  <2>1. UNCHANGED <<store, settings>> /\ \E r \in Payloads : route' = [route EXCEPT !.result = r]
    BY <1>2, <1>7, DeliveredIs DEF ShowRoute, GuiInv, Payloads
  <2> QED
    BY <1>1, <2>1 DEF GuiInv, PageTypes
<1>8. ASSUME ShowSaved PROVE PageTypes'
  <2>1. UNCHANGED <<store, route>> /\ Delivered.op = "save"
    BY <1>8 DEF ShowSaved, Delivers, Delivered
  <2>2. Delivered.value \in Config \cup {Raised}
    BY <1>2, <2>1, DeliveredIs DEF GuiInv
  <2>3. CASE Delivered.value = Raised
    BY <1>1, <1>8, <2>1, <2>3 DEF ShowSaved, GuiInv, PageTypes
  <2>4. CASE Delivered.value # Raised
    BY <1>1, <1>8, <2>1, <2>2, <2>4, LanguageAssumption DEF ShowSaved, GuiInv, PageTypes, Config
  <2> QED
    BY <2>3, <2>4
<1>9. PageTypes'
  BY <1>6, <1>7, <1>8
<1> QED
  BY <1>1, <1>5, <1>9, ElseKeeps DEF GuiInv

-----------------------------------------------------------------------------
(***************************************************************************)
(* The execute page and the service behind it.                             *)
(***************************************************************************)
\* While the page is not busy, nothing of it is anywhere, and no run.
LEMMA IdlePage ==
  ASSUME GuiInv, ~busy["execute"]
  PROVE  /\ Executes(queue) = {} /\ Executes(threads) = {} /\ Executes(events) = {}
         /\ run.plan = None /\ \A i \in DOMAIN threads : ~Running(i)
<1>1. Executes(queue) = {} /\ Executes(threads) = {} /\ Executes(events) = {}
  BY DEF GuiInv, ExecInv, OneAtATime
<1>2. \A i \in DOMAIN threads : ~Running(i)
  BY <1>1, OnThreadIs DEF Executes, Running, WellFormed, GuiInv
<1> QED
  BY <1>1, <1>2 DEF GuiInv, ExecInv, RunIsOnThread

\* An operation of the idle page begins, about the plan that is the last one then.
LEMMA BeginPlanOrRun ==
  ASSUME GuiInv, ~busy["execute"], NEW op \in {"prepare", "run"}, NEW plan \in Plans,
         Begin("execute", op, plan), UNCHANGED run, ShownIsCurrent', EscalationsAreNotApproved',
         plan.id = execute'.prepared, op = "run" => plan \in confirmed'
  PROVE  WorkTypes' /\ ExecInv'
<1> DEFINE w == [vm |-> "execute", op |-> op, arg |-> plan]
<1>1. w \in Work /\ w.vm = "execute" /\ w.op = op /\ w.arg = plan
  BY ExecuteIsAViewModel DEF Work, WellFormed, Operations, Payloads
<1>2. /\ queue' = Append(queue, w) /\ UNCHANGED <<threads, events>>
      /\ busy' = [busy EXCEPT !["execute"] = TRUE]
      /\ queue \in Seq(Work) /\ busy \in [ViewModels -> BOOLEAN]
  BY DEF Begin, GuiInv, WorkTypes
<1> HIDE DEF w
<1>3. /\ queue' \in Seq(Work)
      /\ Executes(queue') = {Len(queue) + 1} /\ queue'[Len(queue) + 1] = w
  BY <1>1, <1>2, IdlePage, Appended
<1>4. busy' \in [ViewModels -> BOOLEAN] /\ busy'["execute"]
  BY <1>2, ExecuteIsAViewModel
<1>5. WorkTypes'
  BY <1>2, <1>3, <1>4 DEF GuiInv, WorkTypes
<1>6. OneAtATime'
  BY <1>2, <1>3, <1>4, IdlePage DEF OneAtATime
<1>7. WorkIsCurrent'
  BY <1>1, <1>2, <1>3, IdlePage DEF WorkIsCurrent, OfLatestPlan
<1>8. RunIsOnThread'
  BY <1>2, IdlePage DEF RunIsOnThread, Running
<1> QED
  BY <1>5, <1>6, <1>7, <1>8 DEF ExecInv

LEMMA PrepareExecutionKeeps ==
  ASSUME GuiInv, PrepareExecution
  PROVE  GuiInv'
<1>1. UNCHANGED <<fileVars, pageVars, field>>
  BY DEF PrepareExecution
<1>2. CASE PrepareDropped
  <2>1. UNCHANGED <<workerVars, executeVars>>
    BY <1>2 DEF PrepareDropped
  <2> QED
    BY <1>1, <2>1, NothingChanges, ElseKeeps DEF GuiInv
<1>3. ASSUME NEW dry \in BOOLEAN, Prepare(field, dry)
      PROVE  GuiInv'
  <2>1. ~busy["execute"] /\ UNCHANGED <<run, asksFirst>>
    BY <1>3 DEF Prepare
  <2>2. CASE field = "blank"
    <3>1. Refuse("execute") /\ UNCHANGED executeVars
      BY <1>3, <2>2 DEF Prepare, executeVars
    <3>2. UNCHANGED <<queue, threads, events>> /\ busy' = [busy EXCEPT !["execute"] = FALSE]
      BY <3>1 DEF Refuse
    <3>3. busy' = busy
      BY <2>1, <3>2, ExecuteIsAViewModel DEF GuiInv, WorkTypes
    <3>4. WorkTypes'
      BY <3>2, <3>3 DEF GuiInv, WorkTypes
    <3>5. ExecInv'
      BY <3>1, <3>2, <3>3, <3>4, ElsewhereKeeps, Unchanged DEF GuiInv
    <3> QED
      BY <1>1, <3>1, <3>4, <3>5, ElseKeeps DEF GuiInv
  <2>3. CASE field # "blank"
    <3> DEFINE plan == [id |-> execute.prepared + 1, dry |-> dry]
    <3>1. /\ Begin("execute", "prepare", plan)
          /\ execute' = [plan |-> None, result |-> None, prepared |-> execute.prepared + 1]
          /\ attempts' = {}
      BY <1>3, <2>3 DEF Prepare
    <3>2. plan \in Plans /\ plan.id = execute'.prepared /\ execute'.prepared \in Nat
      BY <3>1 DEF Plans, GuiInv, ExecuteTypes
    <3> HIDE DEF plan
    <3>3. ShownIsCurrent' /\ EscalationsAreNotApproved'
      BY <3>1 DEF ShownIsCurrent, EscalationsAreNotApproved
    <3>4. WorkTypes' /\ ExecInv'
      BY <2>1, <3>1, <3>2, <3>3, BeginPlanOrRun
    <3>5. ExecuteTypes'
      BY <2>1, <3>1, <3>2 DEF GuiInv, ExecuteTypes, OrNone
    <3> QED
      BY <1>1, <3>4, <3>5, ElseKeeps DEF GuiInv
  <2> QED
    BY <2>2, <2>3
<1> QED
  BY <1>2, <1>3 DEF PrepareExecution

LEMMA OnExecuteKeeps ==
  ASSUME GuiInv, OnExecute
  PROVE  GuiInv'
<1>1. UNCHANGED <<fileVars, pageVars, field>>
  BY DEF OnExecute
<1>2. CASE ConfirmPlan
  <2>1. /\ ~busy["execute"] /\ Begin("execute", "run", execute.plan)
        /\ confirmed' = confirmed \cup {execute.plan}
        /\ UNCHANGED <<execute, run, attempts>>
    BY <1>2 DEF ConfirmPlan
  <2>2. execute.plan \in Plans /\ execute.plan.id = execute.prepared
    BY <1>2 DEF ConfirmPlan, GuiInv, ExecuteTypes, OrNone, ExecInv, ShownIsCurrent
  <2>3. ShownIsCurrent' /\ EscalationsAreNotApproved'
    BY <2>1 DEF GuiInv, ExecInv, ShownIsCurrent, EscalationsAreNotApproved
  <2>4. WorkTypes' /\ ExecInv'
    BY <2>1, <2>2, <2>3, BeginPlanOrRun
  <2>5. ExecuteTypes'
    BY <2>1 DEF GuiInv, ExecuteTypes
  <2> QED
    BY <1>1, <2>4, <2>5, ElseKeeps DEF GuiInv
<1>3. CASE CancelPlan
  <2>1. /\ execute' = [execute EXCEPT !.plan = None, !.result = None]
        /\ UNCHANGED <<busy, queue, threads, events, run, confirmed, attempts>>
    BY <1>3 DEF CancelPlan
  <2>2. /\ execute'.plan = None /\ execute'.result = None
        /\ execute'.prepared = execute.prepared
    BY <2>1 DEF GuiInv, ExecuteTypes
  <2>3. WorkTypes' /\ ExecuteTypes'
    BY <2>1 DEF GuiInv, WorkTypes, ExecuteTypes, OrNone
  <2>4. OneAtATime' /\ WorkIsCurrent' /\ RunIsOnThread'
    BY <2>1, <2>2 DEF GuiInv, ExecInv, OneAtATime, WorkIsCurrent, OfLatestPlan, RunIsOnThread,
                      Running
  <2>5. ExecInv'
    BY <2>1, <2>2, <2>4 DEF GuiInv, ExecInv, ShownIsCurrent, EscalationsAreNotApproved
  <2> QED
    BY <1>1, <2>3, <2>5, ElseKeeps DEF GuiInv
<1> QED
  BY <1>2, <1>3 DEF OnExecute

\* What a thread of the execute page says of everything else.
LEMMA OnlyThread ==
  ASSUME GuiInv, NEW i \in DOMAIN threads, threads[i].op \in {"prepare", "run"}
  PROVE  /\ i \in Executes(threads) /\ threads[i].vm = "execute" /\ threads[i].arg \in Plans
         /\ Executes(threads) = {i}
         /\ Executes(queue) = {} /\ Executes(events) = {} /\ busy["execute"]
         /\ threads[i].arg.id = execute.prepared
         /\ threads[i].op = "run" => threads[i].arg \in confirmed
         /\ \A j \in DOMAIN threads : j # i => ~Running(j)
<1>1. i \in Executes(threads) /\ threads[i].arg \in Plans /\ threads[i].vm = "execute"
  BY OnThreadIs DEF GuiInv, WellFormed, Executes
<1>2. \A j \in DOMAIN threads : Running(j) => j \in Executes(threads)
  BY OnThreadIs DEF GuiInv, WellFormed, Running, Executes
<1> QED
  BY <1>1, <1>2 DEF GuiInv, ExecInv, OneAtATime, WorkIsCurrent, OfLatestPlan

\* The operation of the execute page is over, and with it the run.
LEMMA EmitPlanOrRun ==
  ASSUME GuiInv, NEW i \in DOMAIN threads, threads[i].op \in {"prepare", "run"},
         NEW value \in {threads[i].arg, Raised}, Emits(i, value),
         run' = NotRunning \/ (~Running(i) /\ UNCHANGED run),
         UNCHANGED <<execute, confirmed, attempts>>
  PROVE  WorkTypes' /\ ExecInv'
<1> DEFINE e == [vm |-> threads[i].vm, op |-> threads[i].op, arg |-> threads[i].arg,
                 value |-> value]
<1>1. threads[i] \in WorkOnThread /\ threads \in Seq(WorkOnThread) /\ events \in Seq(Event)
  BY DEF GuiInv, WorkTypes
<1>2. e \in Event /\ e.vm = "execute" /\ e.op = threads[i].op /\ e.arg = threads[i].arg
  BY <1>1, OnlyThread DEF WorkOnThread, WellFormed, Event, Payloads
<1>3. /\ events' = Append(events, e) /\ threads' = RemoveAt(threads, i)
      /\ UNCHANGED <<busy, queue>>
  BY DEF Emits
<1> HIDE DEF e
<1>4. /\ events' \in Seq(Event) /\ Executes(events') = {Len(events) + 1}
      /\ events'[Len(events) + 1] = e
  BY <1>1, <1>2, <1>3, OnlyThread, Appended
<1>5. threads' \in Seq(WorkOnThread)
  BY <1>1, <1>3, Removed
<1>6. Executes(threads') = {}
  BY <1>1, <1>3, OnlyThread, RemoveTakes
<1>7. WorkTypes'
  BY <1>3, <1>4, <1>5 DEF GuiInv, WorkTypes
<1>8. OneAtATime'
  BY <1>3, <1>4, <1>6, OnlyThread DEF OneAtATime
<1>9. WorkIsCurrent'
  BY <1>2, <1>3, <1>4, <1>6, OnlyThread DEF WorkIsCurrent, OfLatestPlan
<1>10. run'.plan = None
  BY OnlyThread DEF GuiInv, ExecInv, RunIsOnThread, NotRunning
<1>11. \A j \in DOMAIN threads' : ~Running(j)'
  BY <1>5, <1>6, <1>7, OnThreadIs DEF Executes, Running, WorkTypes, WorkOnThread, WellFormed
<1>12. RunIsOnThread'
  BY <1>10, <1>11 DEF RunIsOnThread
<1> QED
  BY <1>7, <1>8, <1>9, <1>12 DEF GuiInv, ExecInv, ShownIsCurrent, EscalationsAreNotApproved

\* A run goes on at another place.
LEMMA MoveRun ==
  ASSUME GuiInv, NEW i \in DOMAIN threads, threads[i].op = "run",
         NEW at \in Places \ {"begun"}, MovesTo(i, at),
         run'.plan = threads[i].arg, ~run'.plan.dry, run'.attempt >= 1,
         run'.step # 0 => at = "deciding" /\ ~run'.reusable /\ run'.attempt # 1,
         UNCHANGED <<execute, confirmed>>, EscalationsAreNotApproved'
  PROVE  WorkTypes' /\ ExecInv'
<1>1. threads[i] \in WorkOnThread /\ threads \in Seq(WorkOnThread)
  BY DEF GuiInv, WorkTypes
<1>2. [threads[i] EXCEPT !.at = at] \in WorkOnThread
  BY <1>1 DEF WorkOnThread, WellFormed
<1>3. /\ threads' = [threads EXCEPT ![i] = [threads[i] EXCEPT !.at = at]]
      /\ UNCHANGED <<busy, queue, events>>
  BY DEF MovesTo
<1>4. /\ threads' \in Seq(WorkOnThread) /\ DOMAIN threads' = DOMAIN threads
      /\ threads'[i] = [threads[i] EXCEPT !.at = at]
      /\ \A j \in DOMAIN threads \ {i} : threads'[j] = threads[j]
  BY <1>1, <1>2, <1>3
<1>5. /\ threads'[i].vm = "execute" /\ threads'[i].op = "run" /\ threads'[i].at = at
      /\ threads'[i].arg = threads[i].arg
  BY <1>1, <1>4, OnlyThread DEF WorkOnThread
<1>6. Executes(threads') = {i}
  BY <1>4, <1>5, OnlyThread DEF Executes
<1>7. WorkTypes'
  BY <1>3, <1>4 DEF GuiInv, WorkTypes
<1>8. OneAtATime'
  BY <1>3, <1>6, OnlyThread DEF OneAtATime
<1>9. WorkIsCurrent'
  <2>1. Executes(queue) = {} /\ Executes(events) = {} /\ OfLatestPlan(threads[i])
    BY OnlyThread DEF OfLatestPlan
  <2>2. OfLatestPlan(threads[i])'
    BY <1>5, <2>1 DEF OfLatestPlan
  <2> QED
    BY <1>3, <1>6, <2>1, <2>2 DEF WorkIsCurrent
<1>10. /\ Running(i)' /\ i \in DOMAIN threads'
       /\ \A j \in DOMAIN threads' : j # i => ~Running(j)'
  <2>1. \A j \in DOMAIN threads : j # i => ~Running(j)
    BY OnlyThread
  <2> QED
    BY <1>4, <1>5, <2>1 DEF Running
<1>11. RunIsOnThread'
  BY <1>4, <1>5, <1>10 DEF RunIsOnThread
<1> QED
  BY <1>7, <1>8, <1>9, <1>11 DEF GuiInv, ExecInv, ShownIsCurrent

\* A thread that runs, and the service's idea of the run.
LEMMA RunOfThread ==
  ASSUME GuiInv, NEW i \in DOMAIN threads, Running(i)
  PROVE  /\ run.plan = threads[i].arg /\ run.plan \in Plans /\ ~run.plan.dry
         /\ run.attempt \in Nat /\ run.attempt >= 1 /\ run.step \in Nat /\ run.reusable \in BOOLEAN
         /\ run.step # 0 => threads[i].at = "deciding" /\ ~run.reusable /\ run.attempt # 1
         /\ run.plan \in confirmed
         /\ threads[i].op = "run"
<1>1. threads[i].op = "run"
  BY DEF Running
<1>2. /\ run.plan = threads[i].arg /\ ~run.plan.dry /\ run.attempt >= 1
      /\ run.step # 0 => threads[i].at = "deciding" /\ ~run.reusable /\ run.attempt # 1
  BY DEF GuiInv, ExecInv, RunIsOnThread
<1>3. threads[i].arg \in Plans /\ threads[i].arg \in confirmed
  BY <1>1, OnlyThread
<1> QED
  BY <1>1, <1>2, <1>3 DEF GuiInv, ExecuteTypes

\* The end of a run.
LEMMA EndsRunKeeps ==
  ASSUME GuiInv, NEW i \in DOMAIN threads, Running(i), NEW value \in {run.plan, Raised},
         EndsRun(i, value), UNCHANGED <<execute, confirmed, attempts>>
  PROVE  WorkTypes' /\ ExecInv' /\ ExecuteTypes'
<1>1. WorkTypes' /\ ExecInv'
  BY RunOfThread, EmitPlanOrRun DEF EndsRun
<1>2. ExecuteTypes'
  BY DEF EndsRun, NotRunning, GuiInv, ExecuteTypes, OrNone
<1> QED
  BY <1>1, <1>2

LEMMA ServiceKeeps ==
  ASSUME GuiInv, NEW i \in DOMAIN threads, ServiceStep(i)
  PROVE  WorkTypes' /\ ExecInv' /\ ExecuteTypes'
<1>1. CASE CreatePlan(i)
  <2>1. PICK value \in {threads[i].arg, Raised} : Emits(i, value)
    BY <1>1 DEF CreatePlan
  <2>2. threads[i].op = "prepare" /\ UNCHANGED executeVars /\ ~Running(i)
    BY <1>1 DEF CreatePlan, OnThread, Running
  <2>3. WorkTypes' /\ ExecInv'
    BY <2>1, <2>2, EmitPlanOrRun DEF executeVars
  <2> QED
    BY <2>2, <2>3, ElseKeeps
<1>2. CASE StartRun(i)
  <2>1. /\ threads[i].op = "run" /\ threads[i].at = "begun" /\ ~Running(i)
        /\ UNCHANGED <<execute, confirmed, attempts>>
    BY <1>2 DEF StartRun, OnThread, Running
  <2>2. CASE \E value \in {threads[i].arg, Raised} : Emits(i, value) /\ UNCHANGED run
    <3>1. WorkTypes' /\ ExecInv'
      BY <2>1, <2>2, EmitPlanOrRun
    <3>2. ExecuteTypes'
      BY <2>1, <2>2 DEF GuiInv, ExecuteTypes
    <3> QED
      BY <3>1, <3>2
  <2>3. CASE /\ ~threads[i].arg.dry /\ MovesTo(i, "deciding")
             /\ run' = [NotRunning EXCEPT !.plan = threads[i].arg, !.attempt = 1]
    <3>1. /\ run' = [plan |-> threads[i].arg, attempt |-> 1, step |-> 0, reusable |-> FALSE]
          /\ threads[i].arg \in Plans
      BY <2>1, <2>3, OnlyThread DEF NotRunning
    <3>2. EscalationsAreNotApproved'
      BY <2>1 DEF GuiInv, ExecInv, EscalationsAreNotApproved
    <3>3. run'.plan = threads[i].arg /\ run'.attempt = 1 /\ run'.step = 0
      BY <3>1
    <3>4. ~threads[i].arg.dry
      BY <2>3
    <3>5. /\ run'.plan = threads[i].arg /\ ~run'.plan.dry /\ run'.attempt >= 1
          /\ run'.step = 0 /\ "deciding" \in Places \ {"begun"}
      BY <3>3, <3>4 DEF Places
    <3>6. WorkTypes' /\ ExecInv'
      BY <2>1, <2>3, <3>2, <3>5, MoveRun
    <3>7. ExecuteTypes'
      BY <2>1, <3>1 DEF GuiInv, ExecuteTypes, OrNone
    <3> QED
      BY <3>6, <3>7
  <2> QED
    BY <1>2, <2>2, <2>3 DEF StartRun
<1>3. CASE Decide(i)
  <2>1. Running(i) /\ UNCHANGED <<execute, confirmed, attempts>> /\ threads[i].at = "deciding"
    BY <1>3 DEF Decide, OnThread, Running
  <2>2. CASE EndsRun(i, run.plan)
    BY <2>1, <2>2, EndsRunKeeps
  <2>3. CASE /\ NeedsApproval => Approves
             /\ MovesTo(i, "revalidating")
             /\ run' = [run EXCEPT !.reusable = @ \/ NeedsApproval]
    <3>1. run.step = 0
      BY <2>1, <2>3, RunOfThread DEF NeedsApproval, Approves
    <3>2. /\ run'.plan = run.plan /\ run'.attempt = run.attempt /\ run'.step = run.step
          /\ ExecuteTypes'
      BY <2>1, <2>3 DEF GuiInv, ExecuteTypes, NeedsApproval
    <3>3. EscalationsAreNotApproved'
      BY <2>1 DEF GuiInv, ExecInv, EscalationsAreNotApproved
    <3> QED
      BY <2>1, <2>3, <3>1, <3>2, <3>3, RunOfThread, MoveRun DEF Places
  <2> QED
    BY <1>3, <2>2, <2>3 DEF Decide
<1>4. CASE Revalidate(i)
  <2>1. Running(i) /\ UNCHANGED <<execute, confirmed>> /\ threads[i].at = "revalidating"
    BY <1>4 DEF Revalidate, OnThread, Running
  <2>2. CASE /\ MovesTo(i, "attempt")
             /\ attempts' = attempts \cup {[plan |-> run.plan, step |-> run.step]}
             /\ UNCHANGED run
    <3>1. EscalationsAreNotApproved'
      BY <2>1, <2>2, RunOfThread DEF GuiInv, ExecInv, EscalationsAreNotApproved
    <3>2. WorkTypes' /\ ExecInv'
      BY <2>1, <2>2, <3>1, RunOfThread, MoveRun DEF Places
    <3>3. ExecuteTypes'
      BY <2>1, <2>2 DEF GuiInv, ExecuteTypes
    <3> QED
      BY <3>2, <3>3
  <2>3. CASE (\E value \in {run.plan, Raised} : EndsRun(i, value)) /\ UNCHANGED attempts
    BY <2>1, <2>3, EndsRunKeeps
  <2> QED
    BY <1>4, <2>2, <2>3 DEF Revalidate
<1>5. CASE EndAttempt(i)
  <2>1. /\ Running(i) /\ UNCHANGED <<execute, confirmed, attempts>>
        /\ threads[i].at = "attempt"
    BY <1>5 DEF EndAttempt, OnThread, Running
  <2>2. CASE \E value \in {run.plan, Raised} : EndsRun(i, value)
    BY <2>1, <2>2, EndsRunKeeps
  <2>3. CASE /\ MovesTo(i, "deciding")
             /\ \/ run' = [run EXCEPT !.attempt = @ + 1, !.reusable = TRUE]
                \/ run' = [run EXCEPT !.attempt = @ + 1, !.step = @ + 1, !.reusable = FALSE]
    <3>1. run.step = 0 /\ run.attempt \in Nat /\ run.attempt >= 1 /\ run.plan \in Plans
      BY <2>1, RunOfThread
    <3> DEFINE R == [plan : OrNone(Plans), attempt : Nat, step : Nat, reusable : BOOLEAN]
    <3>2. run \in R /\ run.attempt + 1 \in Nat /\ run.step + 1 \in Nat
      BY <3>1 DEF GuiInv, ExecuteTypes
    <3>3. /\ run'.plan = run.plan /\ run'.attempt = run.attempt + 1
          /\ run'.step # 0 => ~run'.reusable
          /\ run' \in R
      <4>1. CASE run' = [run EXCEPT !.attempt = @ + 1, !.reusable = TRUE]
        BY <4>1, <3>1, <3>2
      <4>2. CASE run' = [run EXCEPT !.attempt = @ + 1, !.step = @ + 1, !.reusable = FALSE]
        BY <4>2, <3>1, <3>2
      <4> QED
        BY <2>3, <4>1, <4>2
    <3>4. /\ run'.plan = run.plan /\ run'.attempt = run.attempt + 1
          /\ run'.step # 0 => ~run'.reusable
          /\ ExecuteTypes'
      BY <2>1, <3>3 DEF GuiInv, ExecuteTypes
    <3>5. EscalationsAreNotApproved'
      BY <2>1 DEF GuiInv, ExecInv, EscalationsAreNotApproved
    <3>6. run'.attempt >= 1 /\ run'.attempt # 1
      BY <3>1, <3>4
    <3> QED
      BY <2>1, <2>3, <3>4, <3>5, <3>6, RunOfThread, MoveRun DEF Places
  <2> QED
    BY <1>5, <2>2, <2>3 DEF EndAttempt
<1> QED
  BY <1>1, <1>2, <1>3, <1>4, <1>5 DEF ServiceStep

LEMMA ThreadStepKeeps ==
  ASSUME GuiInv, NEW v \in ViewModels, ThreadStep(v)
  PROVE  GuiInv'
<1>1. PICK i \in DOMAIN threads : PageWork(i) \/ (ServiceStep(i) /\ ElseExecute)
  BY DEF ThreadStep
<1>2. CASE PageWork(i)
  BY <1>2, PageWorkKeeps
<1>3. CASE ServiceStep(i) /\ ElseExecute
  BY <1>3, ServiceKeeps, ElseKeeps DEF ElseExecute, GuiInv
<1> QED
  BY <1>1, <1>2, <1>3

\* A plan or a result is delivered to the execute page.
LEMMA DeliverPlanOrRun ==
  ASSUME GuiInv, ShowPlan \/ ShowResult, ElseExecute
  PROVE  GuiInv'
<1>1. /\ events # <<>> /\ Delivered.op \in {"prepare", "run"} /\ FinishesOrFails
      /\ UNCHANGED <<run, confirmed, attempts>>
  BY DEF ShowPlan, ShowResult, Delivers, Delivered
<1>2. /\ Delivered.vm = "execute" /\ Delivered.arg \in Plans
      /\ Delivered.value \in {Delivered.arg, Raised}
  BY <1>1, DeliveredIs DEF GuiInv, WellFormed
<1>3. /\ events' = Tail(events) /\ UNCHANGED <<queue, threads>>
      /\ busy' = [busy EXCEPT !["execute"] = FALSE]
  BY <1>1, <1>2 DEF FinishesOrFails, Finishes, Fails
<1>4. events \in Seq(Event) /\ busy \in [ViewModels -> BOOLEAN]
  BY DEF GuiInv, WorkTypes
<1>5. /\ Executes(events') = {} /\ Executes(events) # {} /\ events' \in Seq(Event)
      /\ 1 \in Executes(events) /\ events[1] = Delivered
  BY <1>1, <1>2, <1>3, <1>4, TailTakes, Tailed DEF Delivered, GuiInv, ExecInv, OneAtATime
<1>6. Executes(queue) = {} /\ Executes(threads) = {} /\ Delivered.arg.id = execute.prepared
  BY <1>5 DEF GuiInv, ExecInv, OneAtATime, WorkIsCurrent, OfLatestPlan
<1>7. WorkTypes'
  BY <1>3, <1>4, <1>5 DEF GuiInv, WorkTypes
<1>8. OneAtATime' /\ WorkIsCurrent'
  BY <1>3, <1>5, <1>6 DEF OneAtATime, WorkIsCurrent
<1>9. RunIsOnThread'
  BY <1>1, <1>3 DEF GuiInv, ExecInv, RunIsOnThread, Running
<1>10. /\ execute'.prepared = execute.prepared
       /\ execute'.plan \in {execute.plan, Delivered.arg}
       /\ execute'.result \in {execute.result, Delivered.arg}
       /\ ExecuteTypes'
  BY <1>1, <1>2 DEF ShowPlan, ShowResult, GuiInv, ExecuteTypes, OrNone
<1>11. ShownIsCurrent' /\ EscalationsAreNotApproved'
  BY <1>1, <1>6, <1>10 DEF GuiInv, ExecInv, ShownIsCurrent, EscalationsAreNotApproved
<1> QED
  BY <1>7, <1>8, <1>9, <1>10, <1>11, ElseKeeps DEF GuiInv, ExecInv, ElseExecute

-----------------------------------------------------------------------------
(***************************************************************************)
(* The file, other processes, and the whole.                               *)
(***************************************************************************)
\* What another process saves is a whole configuration.
LEMMA HeldIsWhole ==
  ASSUME FileInv, NEW p \in Processes
  PROVE  Held(p) \in Config
<1>1. read[p] \in Contents
  BY DEF FileInv
<1> QED
  BY <1>1, EffectiveIsWhole DEF Held, Started, FileInv

LEMMA FilesKeep ==
  ASSUME GuiInv, (\E p \in Processes : FileStep(p)) \/ OthersSave \/ KillProcess \/ RestartProcess
  PROVE  GuiInv'
<1>1. UNCHANGED <<workerVars, pageVars, executeVars, field>>
  BY DEF FileStep, OthersSave, KillProcess, RestartProcess
<1>2. FileInv'
  <2>1. ASSUME NEW p \in Processes, FileStep(p)
        PROVE  FileInv'
    BY <2>1, WriterKeeps DEF FileStep, GuiInv
  <2>2. ASSUME OthersSave
        PROVE  FileInv'
    <3>1. PICK p \in Processes, f \in Fields, v \in Values :
              BeginWrite(p, [Held(p) EXCEPT ![f] = v])
      BY <2>2 DEF OthersSave, Others
    <3>2. [Held(p) EXCEPT ![f] = v] \in Config
      BY HeldIsWhole DEF GuiInv, Config
    <3> QED
      BY <3>1, <3>2, BeginWriteKeeps DEF GuiInv
  <2>3. ASSUME KillProcess \/ RestartProcess
        PROVE  FileInv'
    BY <2>3, KillKeeps DEF KillProcess, RestartProcess, Others, GuiInv
  <2> QED
    BY <2>1, <2>2, <2>3
<1> QED
  BY <1>1, <1>2, NothingChanges, ElseKeeps DEF GuiInv

LEMMA InitGui == Init => GuiInv
<1> SUFFICES ASSUME Init PROVE GuiInv
  OBVIOUS
<1>1. FileInv
  BY InitFile DEF Init
<1>2. WorkTypes
  BY DEF Init, WorkersInit, WorkTypes
<1>3. ExecuteTypes
  BY DEF Init, ExecuteInit, NotRunning, ExecuteTypes, OrNone
<1>4. Started(Gui) \in Config
  BY <1>1, GuiIsAProcess, EffectiveIsWhole DEF Started, FileInv
<1>5. PageTypes
  BY <1>4, TasksAssumption, LanguageAssumption
  DEF Init, PagesInit, FormInit, PageTypes, Payloads, Config
<1>6. ExecInv
  <2>1. Executes(queue) = {} /\ Executes(threads) = {} /\ Executes(events) = {}
        /\ DOMAIN threads = {}
    BY DEF Init, WorkersInit, Executes
  <2>2. OneAtATime /\ WorkIsCurrent
    BY <2>1 DEF OneAtATime, WorkIsCurrent
  <2>3. run.plan = None /\ execute.plan = None /\ execute.result = None /\ attempts = {}
    BY DEF Init, ExecuteInit, NotRunning
  <2> QED
    BY <2>1, <2>2, <2>3 DEF ExecInv, RunIsOnThread, ShownIsCurrent, EscalationsAreNotApproved
<1> QED
  BY <1>1, <1>2, <1>3, <1>5, <1>6 DEF GuiInv

LEMMA NextGui == GuiInv /\ [Next]_guiVars => GuiInv'
<1> SUFFICES ASSUME GuiInv, [Next]_guiVars PROVE GuiInv'
  OBVIOUS
<1>1. CASE User
  BY <1>1, NavigateKeeps, OverviewKeeps, EditTaskKeeps, OnRouteKeeps, PrepareExecutionKeeps,
     OnExecuteKeeps, OnSettingsKeeps DEF User
<1>2. CASE ThreadBegins
  BY <1>2, ThreadBeginsKeeps
<1>3. CASE Deliver
  BY <1>3, DeliverPageKeeps, DeliverPlanOrRun DEF Deliver
<1>4. CASE \E v \in ViewModels : ThreadStep(v)
  BY <1>4, ThreadStepKeeps
<1>5. CASE (\E p \in Processes : FileStep(p)) \/ OthersSave \/ KillProcess \/ RestartProcess
  BY <1>5, FilesKeep
<1>6. CASE UNCHANGED guiVars
  BY <1>6, NothingChanges, ElseKeeps DEF guiVars, GuiInv
<1> QED
  BY <1>1, <1>2, <1>3, <1>4, <1>5, <1>6 DEF Next

\* The invariant of the desktop application: its operations, their arguments and the
\* file are well formed, and there is one operation of the execute page at a time.
THEOREM GuiIsConsistent == Spec => []GuiInv
  BY InitGui, NextGui, PTL DEF Spec

\* An approval covers nothing but the plan that was shown when the button was pressed.
THEOREM ApprovalIsForTheShownPlan == Spec => []EscalationsAreNotApproved
<1>1. GuiInv => EscalationsAreNotApproved
  BY DEF GuiInv, ExecInv
<1> QED
  BY <1>1, GuiIsConsistent, PTL

\* Cancelling and asking again never shows the plan or result of an earlier request.
THEOREM PageIsOfTheLatestPlan == Spec => []ShowsTheLatestPlan
<1>1. GuiInv => ShowsTheLatestPlan
  <2> SUFFICES ASSUME GuiInv PROVE ShowsTheLatestPlan
    OBVIOUS
  <2>1. run.plan # None => run.plan.id = execute.prepared
    <3> SUFFICES ASSUME run.plan # None PROVE run.plan.id = execute.prepared
      OBVIOUS
    <3>1. PICK i \in DOMAIN threads : Running(i)
      BY DEF GuiInv, ExecInv, RunIsOnThread
    <3> QED
      BY <3>1, RunOfThread, OnlyThread
  <2> QED
    BY <2>1 DEF GuiInv, ExecInv, ShownIsCurrent, ShowsTheLatestPlan
<1> QED
  BY <1>1, GuiIsConsistent, PTL

-----------------------------------------------------------------------------
(***************************************************************************)
(* The configuration file keeps the promise of ConfigFile.                 *)
(***************************************************************************)
\* What Shared takes for the saves under way.
Saving == [p \in Processes |-> IF Pending(p) THEN writer[p].config ELSE None]

\* A step, or a step that does not show.
SharedStep == Shared!Next \/ UNCHANGED <<file, Saving, read>>

\* What one process does leaves the saves of the others as they were.
LEMMA SavingOfOne ==
  ASSUME NEW p \in Processes, NEW c,
         (IF Pending(p)' THEN writer'[p].config ELSE None) = c,
         \A q \in Processes \ {p} : writer'[q] = writer[q] /\ alive'[q] = alive[q]
  PROVE  Saving' = [Saving EXCEPT ![p] = c]
  BY DEF Saving, Pending

LEMMA SharedInit == Init => Shared!Init
<1> SUFFICES ASSUME Init PROVE Shared!Init
  OBVIOUS
<1>1. FileInv /\ \A p \in Processes : ~Pending(p)
  BY InitFile DEF Init, FileInit, NotSaving, Pending
<1> QED
  BY <1>1 DEF Shared!Init, FileInv

LEMMA BeginsASave ==
  ASSUME FileInv, NEW p \in Processes, NEW c \in Config, BeginWrite(p, c)
  PROVE  SharedStep
<1>1. Saving[p] = None /\ c \in Contents /\ UNCHANGED <<file, read, alive>>
  BY ConfigIsContent DEF BeginWrite, Pending, Saving
<1>2. /\ writer'[p].at = "begun" /\ writer'[p].config = c /\ alive'[p]
      /\ \A q \in Processes \ {p} : writer'[q] = writer[q] /\ alive'[q] = alive[q]
  BY DEF BeginWrite, FileInv
<1>3. Saving' = [Saving EXCEPT ![p] = c]
  BY <1>2, SavingOfOne DEF Pending
<1>4. Shared!Begin(p)
  BY <1>1, <1>3 DEF Shared!Begin, Saving
<1> QED
  BY <1>4 DEF SharedStep, Shared!Next

LEMMA WriterRefines ==
  ASSUME FileInv, NEW p \in Processes, WriterStep(p)
  PROVE  SharedStep
<1> USE DEF InWriter, TempName
<1>1. PICK at \in WriterPlaces : GoesTo(p, at)
  BY DEF WriterStep, CreateTemp, WriteTemp, ReplaceFile, WriteFails, RemoveTemp, WriterPlaces
<1>2. UNCHANGED <<read, alive>> /\ alive[p]
  BY DEF WriterStep, CreateTemp, WriteTemp, ReplaceFile, WriteFails, RemoveTemp
<1>3. /\ writer'[p].at = at /\ writer'[p].config = writer[p].config
      /\ \A q \in Processes \ {p} : writer'[q] = writer[q] /\ alive'[q] = alive[q]
  BY <1>1, <1>2, GoingTo
<1>4. Saving[p] = IF Pending(p) THEN writer[p].config ELSE None
  BY DEF Saving
<1>5. Saving' = [Saving EXCEPT ![p] = IF Pending(p)' THEN writer[p].config ELSE None]
  BY <1>3, SavingOfOne
<1>6. CASE ReplaceFile(p)
  <2>1. /\ Pending(p) /\ ~Pending(p)' /\ writer[p].config \in Config
        /\ file' = writer[p].config
    BY <1>3, <1>6, GoingTo DEF ReplaceFile, GoesTo, Pending, FileInv
  <2>2. Saving[p] # None /\ file' = Saving[p] /\ Saving' = [Saving EXCEPT ![p] = None]
    BY <1>4, <1>5, <2>1, ContentsAssumption, ConfigIsContent
  <2>3. Shared!Commit(p)
    BY <1>2, <2>2 DEF Shared!Commit, Saving
  <2> QED
    BY <2>3 DEF SharedStep, Shared!Next
<1>7. CASE WriteFails(p)
  <2>1. Pending(p) /\ ~Pending(p)' /\ writer[p].config \in Config /\ UNCHANGED file
    BY <1>2, <1>3, <1>7 DEF WriteFails, GoesTo, Pending, FileInv
  <2>2. Saving[p] # None /\ Saving' = [Saving EXCEPT ![p] = None]
    BY <1>4, <1>5, <2>1, ContentsAssumption, ConfigIsContent
  <2>3. Shared!Abandon(p)
    BY <1>2, <2>1, <2>2 DEF Shared!Abandon, Saving
  <2> QED
    BY <2>3 DEF SharedStep, Shared!Next
<1>8. CASE CreateTemp(p) \/ WriteTemp(p) \/ RemoveTemp(p)
  <2>1. UNCHANGED file /\ (Pending(p)' <=> Pending(p))
    <3>1. CASE CreateTemp(p)
      <4>1. writer[p].at = "begun" /\ writer'[p].at = "created"
        BY <3>1, GoingTo DEF CreateTemp, WriterPlaces
      <4> QED
        BY <1>2, <3>1, <4>1 DEF CreateTemp, Pending
    <3>2. CASE WriteTemp(p)
      <4>1. writer[p].at = "created" /\ writer'[p].at = "written"
        BY <3>2, GoingTo DEF WriteTemp, WriterPlaces
      <4> QED
        BY <1>2, <3>2, <4>1 DEF WriteTemp, Pending
    <3>3. CASE RemoveTemp(p)
      <4>1. /\ writer[p].at \in {"replaced", "refused"}
            /\ writer'[p].at \in {"saved", "failed"}
        BY <3>3, GoingTo DEF RemoveTemp, WriterPlaces
      <4> QED
        BY <1>2, <3>3, <4>1 DEF RemoveTemp, Pending
    <3> QED
      BY <1>8, <3>1, <3>2, <3>3
  <2>2. Saving' = Saving
    BY <1>4, <1>5, <2>1 DEF Saving
  <2> QED
    BY <1>2, <2>1, <2>2 DEF SharedStep
<1> QED
  BY <1>6, <1>7, <1>8 DEF WriterStep

LEMMA KillRefines ==
  ASSUME FileInv, NEW p \in Processes, Kill(p)
  PROVE  SharedStep
<1>1. /\ UNCHANGED <<file, read, writer>> /\ ~Pending(p)'
      /\ \A q \in Processes \ {p} : writer'[q] = writer[q] /\ alive'[q] = alive[q]
  BY DEF Kill, Pending, FileInv
<1>2. Saving' = [Saving EXCEPT ![p] = None]
  BY <1>1, SavingOfOne
<1>3. CASE Pending(p)
  <2>1. Saving[p] # None
    BY <1>3, ContentsAssumption, ConfigIsContent DEF Saving, Pending, FileInv
  <2>2. Shared!Abandon(p)
    BY <1>1, <1>2, <2>1 DEF Shared!Abandon, Saving
  <2> QED
    BY <2>2 DEF SharedStep, Shared!Next
<1>4. CASE ~Pending(p)
  BY <1>1, <1>2, <1>4 DEF SharedStep, Saving
<1> QED
  BY <1>3, <1>4

LEMMA RestartRefines ==
  ASSUME FileInv, NEW p \in Processes, Restart(p)
  PROVE  SharedStep
<1>1. /\ UNCHANGED file /\ read' = [read EXCEPT ![p] = file] /\ ~Pending(p) /\ ~Pending(p)'
      /\ \A q \in Processes \ {p} : writer'[q] = writer[q] /\ alive'[q] = alive[q]
  BY DEF Restart, Pending, FileInv, NotSaving
<1>2. Saving' = [Saving EXCEPT ![p] = None]
  BY <1>1, SavingOfOne
<1>3. Saving' = Saving
  BY <1>1, <1>2 DEF Saving
<1>4. Shared!Load(p)
  BY <1>1, <1>3 DEF Shared!Load, Saving
<1> QED
  BY <1>4 DEF SharedStep, Shared!Next

\* Most actions leave the file and its writers alone.
LEMMA FileIsLeftAlone ==
  ASSUME UNCHANGED fileVars
  PROVE  SharedStep
  BY DEF fileVars, SharedStep, Saving, Pending

LEMMA NextRefines == GuiInv /\ [Next]_guiVars => SharedStep
<1> SUFFICES ASSUME GuiInv, [Next]_guiVars PROVE SharedStep
  OBVIOUS
<1>1. CASE User \/ ThreadBegins \/ Deliver \/ UNCHANGED guiVars
  <2>1. UNCHANGED fileVars
    BY <1>1 DEF User, Navigate, Initialize, Refresh, EditTask, OnRoute, PrepareExecution,
                OnExecute, OnSettings, ThreadBegins, Deliver, ElsePages, ElseExecute, guiVars
  <2> QED
    BY <2>1, FileIsLeftAlone
<1>2. ASSUME NEW v \in ViewModels, ThreadStep(v)
      PROVE  SharedStep
  <2>1. PICK i \in DOMAIN threads : PageWork(i) \/ (ServiceStep(i) /\ ElseExecute)
    BY <1>2 DEF ThreadStep
  <2>2. CASE BeginSaving(i)
    <3>1. BeginWrite(Gui, threads[i].arg) /\ threads[i].op = "save"
      BY <2>2 DEF BeginSaving, OnThread
    <3>2. threads[i].arg \in Config
      BY <3>1, OnThreadIs DEF GuiInv, WellFormed
    <3> QED
      BY <3>1, <3>2, GuiIsAProcess, BeginsASave DEF GuiInv
  <2>3. CASE ~BeginSaving(i)
    <3>1. UNCHANGED fileVars
      BY <2>1, <2>3 DEF PageWork, ElsePages, ElseExecute, EndSaving
    <3> QED
      BY <3>1, FileIsLeftAlone
  <2> QED
    BY <2>2, <2>3
<1>3. ASSUME NEW p \in Processes, FileStep(p)
      PROVE  SharedStep
  BY <1>3, WriterRefines DEF FileStep, GuiInv
<1>4. ASSUME OthersSave
      PROVE  SharedStep
  <2>1. PICK p \in Processes, f \in Fields, v \in Values :
            BeginWrite(p, [Held(p) EXCEPT ![f] = v])
    BY <1>4 DEF OthersSave, Others
  <2>2. [Held(p) EXCEPT ![f] = v] \in Config
    BY HeldIsWhole DEF GuiInv, Config
  <2> QED
    BY <2>1, <2>2, BeginsASave DEF GuiInv
<1>5. ASSUME KillProcess \/ RestartProcess
      PROVE  SharedStep
  BY <1>5, KillRefines, RestartRefines DEF KillProcess, RestartProcess, Others, GuiInv
<1> QED
  BY <1>1, <1>2, <1>3, <1>4, <1>5 DEF Next

\* Whoever saves, fails or is killed at whatever step, the file changes as a whole, to a
\* configuration whose save was under way.
THEOREM FileIsReplacedAsAWhole == Spec => SavesAreAtomic
<1>1. GuiInv /\ [Next]_guiVars => [Shared!Next]_<<file, Saving, read>>
  BY NextRefines DEF SharedStep
<1> QED
  BY <1>1, SharedInit, GuiIsConsistent, PTL DEF Spec, SavesAreAtomic, Shared!FileSpec, Saving
=============================================================================
