------------------------------ MODULE CodexSession ------------------------------
(***************************************************************************)
(* One operation of OpenAICodexProvider: the app-server process it starts, *)
(* the JSON-RPC client with its reader task, the calls the operation makes *)
(* one after another, and the teardown its session's finally clause runs.  *)
(*                                                                         *)
(* The reader and the operation are two tasks of one event loop: an answer *)
(* completes a future in one step, and the operation that awaits it goes   *)
(* on in a later one, so a timer, a cancellation or a further line may come*)
(* in between. The server writes whatever it likes, whenever it likes. The *)
(* few hundred bytes of a request never fill the pipe, so drain does not   *)
(* wait for the server; it suspends only over a transport that is closing. *)
(***************************************************************************)
EXTENDS Integers, Sequences, SequencesExt

CONSTANTS
  Cursors,     \* pagination cursors the server may hand out
  NoCursor,    \* the code's None where a cursor may be missing
  MaxPages,    \* _MAX_MODEL_LIST_PAGES
  MaxWire,     \* bound: lines in the stdout pipe the reader has not read yet
  MaxCancels   \* bound: how often the operation's task may be cancelled

ASSUME NoCursorIsNone == NoCursor \notin Cursors
ASSUME PagesAreLimited == MaxPages \in Nat \ {0}
ASSUME SessionBounds == MaxWire \in Nat /\ MaxCancels \in Nat

VARIABLES
  operation,    \* the provider method that was called
  pc,           \* where its task is suspended or about to go on
  step,         \* the call of the operation's script it is at
  cursor, seen, \* of _fetch_all_models
  pages,        \* the pages fetched so far, each with what it was asked for
  last_id,      \* the last request id issued
  pending,      \* the ids in the client's table of pending requests
  future,       \* the future of the last request
  interrupted,  \* what was thrown into the task while it awaited the future
  closed,       \* _closed_exc, by its cause
  reader,       \* the reader task
  stderr_task,  \* the task that drains stderr
  child,        \* the app-server process
  wire,         \* lines written by the server and not read yet
  signals,      \* signals sent to the process
  cancels,      \* how often the task was cancelled
  leaving,      \* the exception the finally clause is run for
  result, raised

connection == <<last_id, pending, future, closed, reader>>
process    == <<child, stderr_task, wire, signals>>
walk       == <<cursor, seen, pages>>
outcome    == <<result, raised>>
vars == <<operation, pc, step, walk, connection, interrupted, process, cancels,
          leaving, outcome>>

\* The calls each operation makes in its session.
Script ==
  [ capture_usage  |-> <<"initialize", "account/read", "account/rateLimits/read", "model/list">>,
    get_models     |-> <<"initialize", "model/list">>,
    inspect_status |-> <<"initialize", "account/read">>,
    healthcheck    |-> <<"initialize">> ]

Operation == DOMAIN Script

Method == Script[operation][step]

\* A line of the server's stdout. Garbage is whatever fails to decode or to be a valid
\* envelope, requests of the server's own included.
Line == [ kind : {"result", "error", "notification", "garbage"}, id : Nat,
          next : Cursors \cup {NoCursor}, valid : BOOLEAN ]

\* A future without an answer; an answered one is the line that answered it.
Unanswered(kind) == [ kind |-> kind, id |-> 0, next |-> NoCursor, valid |-> FALSE ]

Done(f) == f.kind # "pending"

Init ==
  /\ operation \in Operation
  /\ pc = "start"
  /\ step = 1
  /\ cursor = NoCursor
  /\ seen = {}
  /\ pages = <<>>
  /\ last_id = 0
  /\ pending = {}
  /\ future = Unanswered("none")
  /\ interrupted = "none"
  /\ closed = "none"
  /\ reader = "none"
  /\ stderr_task = "none"
  /\ child = "none"
  /\ wire = <<>>
  /\ signals = {}
  /\ cancels = 0
  /\ leaving = "none"
  /\ result = "none"
  /\ raised = "none"

-----------------------------------------------------------------------------
(***************************************************************************)
(* The connection                                                          *)
(***************************************************************************)
\* Faulty: the error is stored, and nobody who waits is told.
CloseSilently(cause) ==
  /\ closed' = IF closed = "none" THEN cause ELSE closed
  /\ pending' = {}
  /\ UNCHANGED future

\* _close_with_error: the first error stays, and whatever is pending fails with it.
Close(cause) ==
  /\ closed' = IF closed = "none" THEN cause ELSE closed
  /\ pending' = {}
  /\ future' = IF pending # {} /\ ~Done(future) THEN Unanswered("transport_error") ELSE future

\* Faulty: an answer goes to whoever is waiting.
MatchesAny(line) == line.kind \in {"result", "error"} /\ pending # {}

\* _dispatch: a response whose id is in the table; any other line is a notification.
Matches(line) == line.kind \in {"result", "error"} /\ line.id \in pending

\* The reader's task is scheduled when the first request is being sent, never before.
ReaderRuns == reader = "running" /\ last_id > 0

\* A line arrives. Answering a future that is already done or cancelled is an error in
\* the reader, which closes the connection.
ReadLine ==
  /\ ReaderRuns
  /\ wire # <<>>
  /\ LET line == Head(wire)
     IN  IF line.kind = "garbage"
           THEN Close("protocol") /\ reader' = "ended"
         ELSE IF ~Matches(line)
           THEN UNCHANGED <<pending, future, closed, reader>>
         ELSE IF Done(future)
           THEN Close("reader_failed") /\ reader' = "ended"
         ELSE future' = line /\ UNCHANGED <<pending, closed, reader>>
  /\ wire' = Tail(wire)
  /\ UNCHANGED <<operation, pc, step, walk, last_id, interrupted, child, stderr_task, signals,
                 cancels, leaving, outcome>>

\* End of file, or a failing read: an I/O error, or a line longer than the stream's limit.
ReadEnds ==
  /\ ReaderRuns
  /\ \/ child = "exited" /\ wire = <<>> /\ Close("eof")
     \/ Close("io")
  /\ reader' = "ended"
  /\ UNCHANGED <<operation, pc, step, walk, last_id, interrupted, process, cancels, leaving, outcome>>

-----------------------------------------------------------------------------
(***************************************************************************)
(* The operation                                                           *)
(***************************************************************************)
\* The finally clause begins, for an exception or for none.
Leave(exception) ==
  /\ leaving' = exception
  /\ pc' = "stop_reading"

\* inspect_status and healthcheck report a failure; nothing else is caught.
Reports(exception) ==
  \/ operation = "inspect_status" /\ exception \in {"transport", "rpc", "normalization"}
  \/ operation = "healthcheck" /\ exception \in {"transport", "rpc"}

\* What the operation returns or raises. A capture may still fail to be normalised
\* after its session.
Finish(exception) ==
  /\ pc' = "done"
  /\ IF Reports(exception) THEN result' = "unavailable" /\ UNCHANGED raised
     ELSE IF exception # "none" THEN raised' = exception /\ UNCHANGED result
     ELSE \/ result' = operation /\ UNCHANGED raised
          \/ /\ operation \in {"capture_usage", "get_models"}
             /\ raised' = "normalization" /\ UNCHANGED result

\* The process cannot be spawned, or not in time; asyncio ends a half-started one.
StartFails ==
  /\ pc = "start"
  /\ Finish("transport")
  /\ UNCHANGED <<operation, step, walk, connection, interrupted, process, cancels, leaving>>

Start ==
  /\ pc = "start"
  /\ child' = "running"
  /\ stderr_task' = "running"
  /\ reader' = "running"
  /\ pc' = "request"
  /\ UNCHANGED <<operation, step, walk, last_id, pending, future, closed, interrupted,
                 wire, signals, cancels, leaving, outcome>>

\* request on a closed client raises the stored error.
RefuseRequest ==
  /\ pc = "request"
  /\ closed # "none"
  /\ Leave("transport")
  /\ UNCHANGED <<operation, step, walk, connection, interrupted, process, cancels, outcome>>

\* The request is entered into the table and written; over a pipe known to be broken,
\* drain suspends once more before it raises, or returns.
SendRequest ==
  /\ pc = "request"
  /\ closed = "none"
  /\ last_id' = last_id + 1
  /\ pending' = pending \cup {last_id + 1}
  /\ future' = Unanswered("pending")
  /\ pc' \in {"await", "drain"}
  /\ UNCHANGED <<operation, step, walk, closed, reader, interrupted, process, cancels,
                 leaving, outcome>>

DrainFails ==
  /\ pc = "drain"
  /\ closed' = IF closed = "none" THEN "write" ELSE closed
  /\ pending' = {}
  /\ future' = IF Done(future) THEN future ELSE Unanswered("cancelled")
  /\ Leave("transport")
  /\ UNCHANGED <<operation, step, walk, last_id, reader, interrupted, process, cancels, outcome>>

Drained ==
  /\ pc = "drain"
  /\ pc' = "await"
  /\ UNCHANGED <<operation, step, walk, connection, interrupted, process, cancels, leaving,
                 outcome>>

\* wait_for's timer or a cancellation: the future is cancelled unless it is done; the
\* task goes on in a later step.
Interrupt(by) ==
  /\ pc = "await"
  /\ interrupted' = by
  /\ future' = IF Done(future) THEN future ELSE Unanswered("cancelled")
  /\ UNCHANGED <<operation, pc, step, walk, last_id, pending, closed, reader, process,
                 leaving, outcome>>

\* A cancellation is not turned into a timeout.
CallTimesOut == interrupted = "none" /\ Interrupt("timeout") /\ UNCHANGED cancels

\* The task wakes up with an exception, whose place in the taxonomy of errors it gets.
CallFails ==
  /\ pc = "await"
  /\ Done(future)
  /\ interrupted # "none" \/ future.kind # "result"
  /\ Leave(CASE interrupted = "cancelled" -> "cancelled"
             [] interrupted = "timeout"   -> "transport"
             [] OTHER -> IF future.kind = "error" THEN "rpc" ELSE "transport")
  /\ pending' = pending \ {last_id}
  /\ UNCHANGED <<operation, step, walk, last_id, future, closed, reader, interrupted, process,
                 cancels, outcome>>

\* The task wakes up with an answer; request's finally clause takes it from the table.
Answered ==
  /\ pc = "await"
  /\ interrupted = "none"
  /\ future.kind = "result"
  /\ pending' = pending \ {last_id}
  /\ UNCHANGED <<operation, last_id, future, closed, reader, interrupted, process, cancels,
                 outcome>>

\* The next call of the script, or its end. The answer to initialize is not looked at.
CallSucceeds ==
  /\ Answered
  /\ Method # "model/list"
  /\ IF Method # "initialize" /\ ~future.valid
       THEN Leave("normalization") /\ UNCHANGED step
     ELSE IF step < Len(Script[operation])
       THEN step' = step + 1 /\ pc' = "request" /\ UNCHANGED leaving
     ELSE Leave("none") /\ UNCHANGED step
  /\ UNCHANGED walk

KnownCursor == future.next \in seen

\* One turn of the loop of _fetch_all_models.
PageArrives ==
  /\ Answered
  /\ Method = "model/list"
  /\ IF ~future.valid THEN Leave("normalization") /\ UNCHANGED walk
     ELSE /\ pages' = Append(pages, [ asked |-> cursor, request |-> last_id,
                                      answer |-> future.id, next |-> future.next ])
          /\ IF future.next = NoCursor THEN Leave("none") /\ UNCHANGED <<cursor, seen>>
             ELSE IF KnownCursor
               THEN Leave("normalization") /\ UNCHANGED <<cursor, seen>>
             ELSE /\ seen' = seen \cup {future.next}
                  /\ cursor' = future.next
                  /\ IF Len(pages) + 1 = MaxPages
                       THEN Leave("normalization")
                       ELSE pc' = "request" /\ UNCHANGED leaving
  /\ UNCHANGED step

-----------------------------------------------------------------------------
(***************************************************************************)
(* The teardown                                                            *)
(***************************************************************************)
\* stop_reading: a reader that is still running is cancelled and awaited.
CancelReader ==
  /\ pc = "stop_reading"
  /\ reader = "running"
  /\ reader' = "cancelling"
  /\ pc' = "await_reader"
  /\ UNCHANGED <<operation, step, walk, last_id, pending, future, closed, interrupted, process,
                 cancels, leaving, outcome>>

StopPending ==
  IF pending # {} THEN Close("stopped") ELSE UNCHANGED <<pending, future, closed>>

\* The reader is over; what is still pending fails, and process.stop begins: SIGTERM and
\* five seconds of grace, unless the process has exited.
ReaderStopped ==
  /\ \/ pc = "await_reader" /\ reader' = "cancelled"
     \/ pc = "stop_reading" /\ reader = "ended" /\ UNCHANGED reader
  /\ StopPending
  /\ IF child = "exited" THEN pc' = "stop_stderr" /\ UNCHANGED signals
     ELSE pc' = "grace" /\ signals' = signals \cup {"TERM"}
  /\ UNCHANGED <<operation, step, walk, last_id, interrupted, child, stderr_task, wire, cancels,
                 leaving, outcome>>

ProcessStopped ==
  /\ pc \in {"grace", "killed"}
  /\ child = "exited"
  /\ pc' = "stop_stderr"
  /\ UNCHANGED <<operation, step, walk, connection, interrupted, process, cancels, leaving, outcome>>

\* Faulty: waits on without SIGKILL.
GraceExpiresUnkilled ==
  /\ pc = "grace"
  /\ pc' = "killed"
  /\ UNCHANGED <<operation, step, walk, connection, interrupted, process, cancels, leaving, outcome>>

GraceExpires ==
  /\ pc = "grace"
  /\ signals' = signals \cup {"KILL"}
  /\ pc' = "killed"
  /\ UNCHANGED <<operation, step, walk, connection, interrupted, child, stderr_task, wire,
                 cancels, leaving, outcome>>

\* Faulty: the task that drains stderr is forgotten.
StderrForgotten ==
  /\ pc = "stop_stderr"
  /\ Finish(leaving)
  /\ UNCHANGED <<operation, step, walk, connection, interrupted, process, cancels, leaving>>

StderrStopped ==
  /\ pc = "stop_stderr"
  /\ stderr_task' = IF stderr_task = "running" THEN "cancelled" ELSE stderr_task
  /\ Finish(leaving)
  /\ UNCHANGED <<operation, step, walk, connection, interrupted, child, wire, signals,
                 cancels, leaving>>

-----------------------------------------------------------------------------
(***************************************************************************)
(* Cancellation of the operation's task                                    *)
(***************************************************************************)
Cancelling == cancels < MaxCancels /\ cancels' = cancels + 1

CancelStart ==
  /\ pc = "start"
  /\ Cancelling
  /\ Finish("cancelled")
  /\ UNCHANGED <<operation, step, walk, connection, interrupted, process, leaving>>

CancelCall == Cancelling /\ Interrupt("cancelled")

\* In drain the request has not reached its own try clause: the table keeps it.
CancelDrain ==
  /\ pc = "drain"
  /\ Cancelling
  /\ Leave("cancelled")
  /\ UNCHANGED <<operation, step, walk, connection, interrupted, process, outcome>>

\* The cancellation is passed on to the task that is awaited, cancelled already, and
\* is taken for that task's own: except CancelledError: pass.
CancelSwallowed ==
  /\ \/ pc = "await_reader"
     \/ pc = "stop_stderr" /\ stderr_task = "running"
  /\ Cancelling
  /\ UNCHANGED <<operation, pc, step, walk, connection, interrupted, process, leaving, outcome>>

\* process.stop is left at its await: no SIGKILL, no wait, and stderr is drained on.
CancelStop ==
  /\ pc \in {"grace", "killed"}
  /\ Cancelling
  /\ Finish("cancelled")
  /\ UNCHANGED <<operation, step, walk, connection, interrupted, process, leaving>>

-----------------------------------------------------------------------------
(***************************************************************************)
(* The server                                                              *)
(***************************************************************************)
\* Answers to the last request, to the one before and to the next one: on time, late,
\* twice or too early.
Ids == {last_id - 1, last_id, last_id + 1} \cap Nat

Lines ==
  { Unanswered("notification"), Unanswered("garbage") }
    \cup { [ kind |-> kind, id |-> id, next |-> NoCursor, valid |-> FALSE ] :
             kind \in {"result", "error"}, id \in Ids }
    \cup { [ kind |-> "result", id |-> id, next |-> next, valid |-> TRUE ] :
             id \in Ids,
             next \in IF Method = "model/list" THEN Cursors \cup {NoCursor} ELSE {NoCursor} }

ServerWrites ==
  /\ child = "running"
  /\ reader = "running"   \* nobody will read a later line
  /\ Len(wire) < MaxWire
  /\ \E line \in Lines : wire' = Append(wire, line)
  /\ UNCHANGED <<operation, pc, step, walk, connection, interrupted, child, stderr_task,
                 signals, cancels, leaving, outcome>>

ServerExits ==
  /\ child = "running"
  /\ child' = "exited"
  /\ UNCHANGED <<operation, pc, step, walk, connection, interrupted, stderr_task, wire,
                 signals, cancels, leaving, outcome>>

\* End of file on stderr, or a read that fails: the drain returns either way.
StderrEnds ==
  /\ stderr_task = "running"
  /\ stderr_task' = "ended"
  /\ UNCHANGED <<operation, pc, step, walk, connection, interrupted, child, wire,
                 signals, cancels, leaving, outcome>>

-----------------------------------------------------------------------------
Reader == ReadLine \/ ReadEnds

Provider ==
  \/ StartFails \/ Start \/ RefuseRequest \/ SendRequest \/ DrainFails \/ Drained
  \/ CallTimesOut \/ CallFails \/ CallSucceeds \/ PageArrives
  \/ CancelReader \/ ReaderStopped \/ ProcessStopped \/ GraceExpires \/ StderrStopped

Cancel == CancelStart \/ CancelCall \/ CancelDrain \/ CancelSwallowed \/ CancelStop

Server == ServerWrites \/ ServerExits \/ StderrEnds

Finished == pc = "done" /\ UNCHANGED vars

Next == Provider \/ Reader \/ Cancel \/ Server \/ Finished

Spec == Init /\ [][Next]_vars

\* The event loop runs the operation's steps and its timers, and SIGKILL ends a process.
\* The server owes nothing else, and no line need ever be read.
FairSpec ==
  /\ Spec
  /\ WF_vars(Provider)
  /\ WF_vars(ServerExits /\ "KILL" \in signals)

-----------------------------------------------------------------------------
Exceptions == {"none", "transport", "rpc", "normalization", "cancelled"}

Page == [ asked : Cursors \cup {NoCursor}, request : Nat, answer : Nat,
          next : Cursors \cup {NoCursor} ]

FutureType ==
  Line \cup { Unanswered(kind) : kind \in {"none", "pending", "cancelled", "transport_error"} }

TypeOK ==
  /\ operation \in Operation
  /\ pc \in {"start", "request", "drain", "await", "stop_reading", "await_reader",
             "grace", "killed", "stop_stderr", "done"}
  /\ step \in 1..Len(Script[operation])
  /\ cursor \in Cursors \cup {NoCursor}
  /\ seen \in SUBSET Cursors
  /\ pages \in Seq(Page)
  /\ last_id \in Nat
  /\ pending \in SUBSET {last_id}
  /\ future \in FutureType
  /\ interrupted \in {"none", "timeout", "cancelled"}
  /\ closed \in {"none", "eof", "io", "protocol", "reader_failed", "write", "stopped"}
  /\ reader \in {"none", "running", "cancelling", "cancelled", "ended"}
  /\ stderr_task \in {"none", "running", "cancelled", "ended"}
  /\ child \in {"none", "running", "exited"}
  /\ wire \in Seq(Line)
  /\ signals \in SUBSET {"TERM", "KILL"}
  /\ cancels \in 0..MaxCancels
  /\ leaving \in Exceptions
  /\ result \in Operation \cup {"none", "unavailable"}
  /\ raised \in Exceptions

\* A dead connection strands nobody (rpc.py:5-8): once the error is stored, whatever its
\* cause, the table is empty and no call is left waiting for its timeout; and a reader
\* that ended by itself has always stored one.
FailedAtOnce ==
  /\ closed # "none" => pending = {} /\ (pc = "await" => Done(future))
  /\ reader = "ended" => closed # "none"

\* The first error is the one every later request gets, and no request is sent after it.
ClosedForGood == [][closed # "none" => closed' = closed /\ last_id' = last_id]_vars

\* The pages of a capture are one walk along the server's cursors: each is the answer to
\* the request that asked for it, the first was asked without a cursor, every next one
\* with the cursor of the page before, no cursor was followed twice, and a returned
\* capture or model list has followed the walk to its end.
OneWalk ==
  /\ Len(pages) <= MaxPages
  /\ \A i \in DOMAIN pages :
       /\ pages[i].answer = pages[i].request
       /\ pages[i].asked = IF i = 1 THEN NoCursor ELSE pages[i - 1].next
       /\ \A j \in 1..(i - 1) : pages[j].asked # pages[i].asked
  /\ result \in {"capture_usage", "get_models"} =>
       pages # <<>> /\ Last(pages).next = NoCursor

\* The session takes its server with it: an operation that is over has reaped the process
\* and ended both tasks, unless it was cancelled while it waited for the process to end,
\* when that had at least been told to.
SessionTornDown ==
  pc = "done" =>
    /\ reader \notin {"running", "cancelling"}
    /\ \/ child # "running" /\ stderr_task # "running"
       \/ raised = "cancelled" /\ "TERM" \in signals

\* Nothing a finished operation asked for is left in the client's table.
NothingLeftPending == pc = "done" => pending = {} /\ Done(future)

\* The probes answer: whatever the server does, inspect_status and healthcheck do not
\* raise, except for a cancellation.
ProbesAnswer ==
  (pc = "done" /\ operation \in {"inspect_status", "healthcheck"}) =>
    raised \in {"none", "cancelled"}

\* Every operation comes to its end, whatever the server does or does not.
OperationEnds == <>(pc = "done")

-----------------------------------------------------------------------------
(***************************************************************************)
(* What the steps rely on: SessionInv is inductive, the properties above   *)
(* are not.                                                                *)
(***************************************************************************)
Walking  == pc \in {"request", "drain", "await"}
TornDown == pc \in {"grace", "killed", "stop_stderr", "done"}

\* The table holds the request that waits for an answer, and no other.
TableFollowsFuture ==
  /\ ~Done(future) => pending # {}
  /\ pc \in {"start", "request"} \/ TornDown => pending = {}
  /\ future.kind \in {"result", "error"} => future.id = last_id
  /\ closed # "none" => pending = {} /\ (pc \in {"drain", "await"} => Done(future))

\* Which tasks and processes there are at each place.
SessionStages ==
  /\ pc = "start" =>
       /\ child = "none" /\ reader = "none" /\ stderr_task = "none"
       /\ last_id = 0 /\ future.kind = "none" /\ pages = <<>> /\ step = 1
  /\ pc \notin {"start", "done"} => child # "none"
  /\ Walking \/ pc = "stop_reading" => reader \in {"running", "ended"}
  /\ pc = "await_reader" => reader = "cancelling"
  /\ pc \in {"grace", "killed", "stop_stderr"} => reader \in {"cancelled", "ended"}
  /\ pc = "grace" => "TERM" \in signals
  /\ pc = "killed" => "TERM" \in signals
  /\ pc = "stop_stderr" => child = "exited"
  /\ pc # "done" => result = "none" /\ raised = "none"

\* Where the walk along the cursors is, and that each cursor it has asked with is known.
WalkGoesOn ==
  /\ \A i \in DOMAIN pages : pages[i].asked \in seen \cup {NoCursor}
  /\ Walking \/ pc = "start" =>
       /\ Len(pages) < MaxPages
       /\ cursor = IF pages = <<>> THEN NoCursor ELSE pages[Len(pages)].next
       /\ cursor \in seen \cup {NoCursor}
       /\ \A i \in DOMAIN pages : pages[i].asked # cursor

\* What an operation leaves with, and that it leaves with nothing only after its script.
LeavesWithReason ==
  /\ Walking \/ pc = "start" => leaving = "none"
  /\ operation = "healthcheck" => leaving # "normalization"
  /\ /\ operation \in {"capture_usage", "get_models"}
     /\ ~Walking /\ pc \notin {"start", "done"}
     /\ leaving = "none"
     => pages # <<>> /\ pages[Len(pages)].next = NoCursor

\* The inductive invariant of a session.
SessionInv ==
  /\ TypeOK /\ TableFollowsFuture /\ SessionStages /\ WalkGoesOn /\ LeavesWithReason
  /\ FailedAtOnce /\ OneWalk /\ SessionTornDown /\ NothingLeftPending /\ ProbesAnswer
=============================================================================
