---------------------------- MODULE CodexCliAdapter ----------------------------
(***************************************************************************)
(* One call of CodexCliExecutionAdapter.execute: the child process, its    *)
(* stdin write, the two output readers, the timeout, and the cleanup that  *)
(* a timeout, a broken pipe or a cancellation of the calling task starts.  *)
(*                                                                         *)
(* Every await is a place of its own (pc), so that the child, its          *)
(* descendants, a timer or a (further) cancellation may act there. The     *)
(* child is any program: it may ignore its stdin, ignore SIGTERM, exit at  *)
(* any time with any status, and leave a descendant holding the pipes.     *)
(***************************************************************************)
EXTENDS Integers, FiniteSets

CONSTANTS
  Streams,     \* the output pipes, each with its reader task
  MaxCancels   \* bound: how often the task may be cancelled

ASSUME StreamsAreFinite == IsFiniteSet(Streams)
ASSUME CancelsAreBounded == MaxCancels \in Nat

VARIABLES
  pc,          \* the await the call is suspended at
  ending,      \* the except clause or exit path that is being followed
  pending,     \* the exception _write_task re-raises after its finally clause
  child,       \* the process: not started, running, or exited and reaped
  exit_code,   \* its exit status
  markers,     \* the failure markers its retained output ends with
  unsent,      \* how much of the task the stdin transport still holds
  broken,      \* the read end of stdin is closed
  descendant,  \* a process the child started holds the output pipes
  readers,     \* the reader task of each output pipe
  signals,     \* the signals sent to the child
  cancels,     \* how often the calling task was cancelled
  result,      \* the ExecutionResult, once returned
  raised       \* the exception that left execute instead

vars == <<pc, ending, pending, child, exit_code, markers, unsent, broken, descendant,
          readers, signals, cancels, result, raised>>

process == <<child, exit_code, markers, unsent, broken, descendant>>

Nothing == [ none |-> TRUE ]

Marker == {"authentication", "quota"}

\* "much" is above the transport's high-water mark, where drain waits; "some" is
\* buffered data, which only closing the pipe waits for.
Unsent == {"none", "some", "much"}

Ending == {"none", "timeout", "cancelled", "transport", "exit"}

Init ==
  /\ pc = "spawn"
  /\ ending = "none"
  /\ pending = "none"
  /\ child = "none"
  /\ exit_code = "unset"
  /\ markers = {}
  /\ unsent = "none"
  /\ broken = FALSE
  /\ descendant = FALSE
  /\ readers = [ s \in Streams |-> "none" ]
  /\ signals = {}
  /\ cancels = 0
  /\ result = Nothing
  /\ raised = "none"

-----------------------------------------------------------------------------
(***************************************************************************)
(* The adapter                                                             *)
(***************************************************************************)
Return(status, failure, code) ==
  /\ result' = [ status |-> status, failure_class |-> failure, exit_code |-> code ]
  /\ pc' = "done"
  /\ UNCHANGED raised

Raise(exception) ==
  /\ raised' = exception
  /\ pc' = "done"
  /\ UNCHANGED result

SpawnFails ==
  /\ pc = "spawn"
  /\ \E failure \in {"execution_environment", "transport"} :
       Return("failed", failure, "unset")
  /\ UNCHANGED <<ending, pending, process, readers, signals, cancels>>

\* The child runs, both readers are started, and the task is written to stdin.
Spawn ==
  /\ pc = "spawn"
  /\ child' = "running"
  /\ unsent' \in Unsent
  /\ readers' = [ s \in Streams |-> "reading" ]
  /\ pc' = "drain_stdin"
  /\ UNCHANGED <<ending, pending, exit_code, markers, broken, descendant, signals,
                 cancels, result, raised>>

\* _write_task's finally clause: stdin.close, then wait_closed.
CloseStdin(exception) ==
  /\ pending' = exception
  /\ pc' = "close_stdin"

StdinDrained ==
  /\ pc = "drain_stdin"
  /\ unsent # "much"
  /\ CloseStdin("none")
  /\ UNCHANGED <<ending, process, readers, signals, cancels, result, raised>>

StdinBreaks ==
  /\ pc = "drain_stdin"
  /\ broken
  /\ CloseStdin("broken_pipe")
  /\ UNCHANGED <<ending, process, readers, signals, cancels, result, raised>>

\* Faulty: the process is asked to end and not waited for.
StopUnwaited(why) ==
  /\ ending' = why
  /\ signals' = IF child = "exited" THEN signals ELSE signals \cup {"TERM"}
  /\ pc' = "collect"

\* _stop_process up to its first await, on behalf of an except clause.
Stop(why) ==
  /\ ending' = why
  /\ IF child = "exited"
       THEN pc' = "collect" /\ UNCHANGED signals
       ELSE pc' = "grace" /\ signals' = signals \cup {"TERM"}

\* wait_closed returns when the buffer is flushed or the pipe is lost; it swallows
\* a broken pipe, and the exception the write had raised goes on.
StdinClosed ==
  /\ pc = "close_stdin"
  /\ unsent = "none" \/ broken
  /\ CASE pending = "none"        -> pc' = "wait" /\ UNCHANGED <<ending, signals>>
       [] pending = "broken_pipe" -> Stop("transport")
       [] pending = "cancelled"   -> Stop("cancelled")
  /\ UNCHANGED <<pending, process, readers, cancels, result, raised>>

ProcessEnded ==
  /\ pc = "wait"
  /\ child = "exited"
  /\ ending' = "exit"
  /\ pc' = "collect"
  /\ UNCHANGED <<pending, process, readers, signals, cancels, result, raised>>

\* The plan's timeout; it may fire although the child has just exited.
TimesOut ==
  /\ pc = "wait"
  /\ Stop("timeout")
  /\ UNCHANGED <<pending, process, readers, cancels, result, raised>>

StoppedInGrace ==
  /\ pc \in {"grace", "killed"}
  /\ child = "exited"
  /\ pc' = "collect"
  /\ UNCHANGED <<ending, pending, process, readers, signals, cancels, result, raised>>

\* Faulty: waits on without SIGKILL.
GraceExpiresUnkilled ==
  /\ pc = "grace"
  /\ pc' = "killed"
  /\ UNCHANGED <<ending, pending, process, readers, signals, cancels, result, raised>>

GraceExpires ==
  /\ pc = "grace"
  /\ signals' = signals \cup {"KILL"}
  /\ pc' = "killed"
  /\ UNCHANGED <<ending, pending, process, readers, cancels, result, raised>>

\* _classify_nonzero: the markers of an authentication failure are looked for first.
Classify == IF "authentication" \in markers THEN "authentication"
            ELSE IF "quota" \in markers THEN "quota" ELSE "agent_error"

\* Faulty: a reader that failed is not noticed.
ReadFailedUnnoticed == FALSE

ReadFailed == \E s \in Streams : readers[s] # "eof"

\* _finish_readers: both reader tasks are over.
ReadersEnded == \A s \in Streams : readers[s] # "reading"

Collected ==
  /\ pc = "collect"
  /\ ReadersEnded
  /\ CASE ending = "timeout"   -> Return("failed", "timeout", "unset")
       [] ending = "cancelled" -> Return("cancelled", "user_cancelled", "unset")
       [] ending = "transport" -> Return("failed", "transport", "unset")
       [] ending = "exit"      ->
            IF ReadFailed THEN Return("failed", "transport", exit_code)
            ELSE IF exit_code = "zero" THEN Return("succeeded", "none", exit_code)
            ELSE Return("failed", Classify, exit_code)
  /\ UNCHANGED <<ending, pending, process, readers, signals, cancels>>

-----------------------------------------------------------------------------
(***************************************************************************)
(* Cancellation of the calling task: CancelledError at the current await.  *)
(***************************************************************************)
Cancelling ==
  /\ cancels < MaxCancels
  /\ cancels' = cancels + 1
  /\ UNCHANGED process

CancelSpawn ==
  /\ pc = "spawn"
  /\ Cancelling
  /\ Raise("cancelled")
  /\ UNCHANGED <<ending, pending, readers, signals>>

\* The finally clause of _write_task still waits for the pipe to close.
CancelDrain ==
  /\ pc = "drain_stdin"
  /\ Cancelling
  /\ CloseStdin("cancelled")
  /\ UNCHANGED <<ending, readers, signals, result, raised>>

CancelWait ==
  /\ pc \in {"close_stdin", "wait"}
  /\ Cancelling
  /\ Stop("cancelled")
  /\ UNCHANGED <<pending, readers, result, raised>>

\* Cancelling a gather cancels the tasks it gathers.
ReadersCancelled ==
  [ s \in Streams |-> IF readers[s] = "reading" THEN "cancelled" ELSE readers[s] ]

\* Faulty: the cleanup of a timeout goes on as if nothing had happened.
CancelsIgnoredInTimeout ==
  /\ pc \in {"grace", "killed", "collect"}
  /\ ending = "timeout"
  /\ Cancelling
  /\ UNCHANGED <<pc, ending, signals, readers, pending, result, raised>>

\* The handler of TimeoutError is inside the outer try: its cancellation starts the
\* cleanup of a cancelled run.
CancelTimeoutCleanup ==
  /\ pc \in {"grace", "killed", "collect"}
  /\ ending = "timeout"
  /\ Cancelling
  /\ Stop("cancelled")
  /\ readers' = IF pc = "collect" THEN ReadersCancelled ELSE readers
  /\ UNCHANGED <<pending, result, raised>>

\* The other handlers, and the collecting after a normal exit, are outside of it:
\* the exception leaves execute.
CancelCleanup ==
  /\ pc \in {"grace", "killed", "collect"}
  /\ ending # "timeout"
  /\ Cancelling
  /\ Raise("cancelled")
  /\ readers' = IF pc = "collect" THEN ReadersCancelled ELSE readers
  /\ UNCHANGED <<ending, pending, signals>>

-----------------------------------------------------------------------------
(***************************************************************************)
(* The readers, the child and its descendant                               *)
(***************************************************************************)
adapter == <<pc, ending, pending, signals, cancels, result, raised>>

\* End of file: nobody holds the write end of the pipe any more.
ReaderEnds(s) ==
  /\ readers[s] = "reading"
  /\ child = "exited" /\ ~descendant
  /\ readers' = [readers EXCEPT ![s] = "eof"]
  /\ UNCHANGED <<adapter, process>>

ReaderFails(s) ==
  /\ readers[s] = "reading"
  /\ readers' = [readers EXCEPT ![s] = "failed"]
  /\ UNCHANGED <<adapter, process>>

ChildReads ==
  /\ child = "running" /\ ~broken
  /\ unsent # "none"
  /\ unsent' = IF unsent = "much" THEN "some" ELSE "none"
  /\ UNCHANGED <<adapter, readers, child, exit_code, markers, broken, descendant>>

ChildClosesStdin ==
  /\ child = "running" /\ ~broken
  /\ broken' = TRUE
  /\ UNCHANGED <<adapter, readers, child, exit_code, markers, unsent, descendant>>

ChildForks ==
  /\ child = "running" /\ ~descendant
  /\ descendant' = TRUE
  /\ UNCHANGED <<adapter, readers, child, exit_code, markers, unsent, broken>>

ChildExits ==
  /\ child = "running"
  /\ child' = "exited"
  /\ exit_code' \in {"zero", "nonzero"}
  /\ markers' \in SUBSET Marker
  /\ broken' = (broken \/ ~descendant)
  /\ UNCHANGED <<adapter, readers, unsent, descendant>>

DescendantEnds ==
  /\ descendant
  /\ descendant' = FALSE
  /\ broken' = (broken \/ child = "exited")
  /\ UNCHANGED <<adapter, readers, child, exit_code, markers, unsent>>

-----------------------------------------------------------------------------
Adapter ==
  \/ SpawnFails \/ Spawn \/ StdinDrained \/ StdinBreaks \/ StdinClosed \/ ProcessEnded
  \/ TimesOut \/ StoppedInGrace \/ GraceExpires \/ Collected

Cancel == CancelSpawn \/ CancelDrain \/ CancelWait \/ CancelTimeoutCleanup \/ CancelCleanup

Readers == \E s \in Streams : ReaderEnds(s) \/ ReaderFails(s)

Child == ChildReads \/ ChildClosesStdin \/ ChildForks \/ ChildExits \/ DescendantEnds

Finished == pc = "done" /\ UNCHANGED vars

Next == Adapter \/ Cancel \/ Readers \/ Child \/ Finished

Spec == Init /\ [][Next]_vars

\* The event loop runs the call's own steps and its timers, a reader sees the end of
\* its pipe, and SIGKILL ends a process. Nothing is assumed of the child otherwise.
FairSpec ==
  /\ Spec
  /\ WF_vars(Adapter)
  /\ \A s \in Streams : WF_vars(ReaderEnds(s))
  /\ WF_vars(ChildExits /\ "KILL" \in signals)

-----------------------------------------------------------------------------
\* The statuses and failure classes this adapter reports.
ResultType ==
  [ status : {"succeeded", "failed", "cancelled"},
    failure_class : {"none", "execution_environment", "transport", "timeout",
                     "user_cancelled", "authentication", "quota", "agent_error"},
    exit_code : {"unset", "zero", "nonzero"} ]

TypeOK ==
  /\ pc \in {"spawn", "drain_stdin", "close_stdin", "wait", "grace", "killed", "collect", "done"}
  /\ ending \in Ending
  /\ pending \in {"none", "broken_pipe", "cancelled"}
  /\ child \in {"none", "running", "exited"}
  /\ exit_code \in {"unset", "zero", "nonzero"}
  /\ markers \in SUBSET Marker
  /\ unsent \in Unsent
  /\ broken \in BOOLEAN /\ descendant \in BOOLEAN
  /\ readers \in [ Streams -> {"none", "reading", "eof", "failed", "cancelled"} ]
  /\ signals \in SUBSET {"TERM", "KILL"}
  /\ cancels \in 0..MaxCancels
  /\ result \in ResultType \cup {Nothing}
  /\ raised \in {"none", "cancelled"}

\* Whatever a returned result says, nothing is left behind: the child has exited and
\* was reaped, and no reader task is still running (codex_cli.py 159-236, 289-306).
ReturnsClean ==
  result # Nothing => child # "running" /\ \A s \in Streams : readers[s] # "reading"

\* A success is the child's own: it exited with zero before anything was sent to it,
\* and all of its output was read.
SuccessIsTheChildsOwn ==
  (result # Nothing /\ result.status = "succeeded") =>
    /\ exit_code = "zero" /\ signals = {}
    /\ \A s \in Streams : readers[s] = "eof"

\* Once the task has been cancelled, at whatever await, the call ends as cancelled: it
\* is not reported as timed out, failed or finished, which would let the service's
\* loop retry or escalate what the user stopped.
CancellationWins ==
  (cancels > 0 /\ pc = "done") => raised = "cancelled" \/ result.status = "cancelled"

\* A timeout or a cancellation never hangs on a child that ignores SIGTERM: from the
\* timed wait on the call comes to its end, unless a process the child left behind
\* keeps the output pipes open.
TimedWaitEnds == (pc = "wait") ~> (pc = "done" \/ descendant)

\* The execution contract on cancellation (docs/PHASE6_EXECUTION_CONTRACT.md 776-804):
\* however the call ends, no child process and no reader task is left running.
CancellationCleansUp ==
  pc = "done" => child # "running" /\ \A s \in Streams : readers[s] # "reading"

-----------------------------------------------------------------------------
(***************************************************************************)
(* The inductive strengthening of the three invariants.                    *)
(***************************************************************************)
\* Nothing is running before the spawn, and the output is only collected of a child
\* that has exited.
ChildFollowsCall ==
  /\ pc = "spawn" => child = "none" /\ \A s \in Streams : readers[s] = "none"
  /\ pc = "collect" => child = "exited"
  /\ result # Nothing => pc = "done"

\* Signals are sent by the cleanup only, and the normal exit path is none.
SignalsAreOfCleanup ==
  /\ pc \in {"spawn", "drain_stdin", "close_stdin", "wait"} =>
       signals = {} /\ ending = "none"
  /\ pc \in {"grace", "killed"} => ending # "exit"
  /\ ending = "exit" => signals = {} /\ child = "exited"

\* A cleanup, and the collecting after it, knows what it is for.
CollectsAnEnding == pc \in {"grace", "killed", "collect"} => ending # "none"

\* A cancellation is on its way to its handler, or the handler is at work, or it left.
CancellationIsKept ==
  cancels > 0 =>
    \/ pc = "close_stdin" /\ pending = "cancelled"
    \/ pc \in {"grace", "killed", "collect"} /\ ending = "cancelled"
    \/ pc = "done" /\ raised = "cancelled"
    \/ pc = "done" /\ result # Nothing /\ result.status = "cancelled"

CleanupInv ==
  /\ TypeOK
  /\ ChildFollowsCall
  /\ SignalsAreOfCleanup
  /\ CollectsAnEnding
  /\ CancellationIsKept
  /\ ReturnsClean
  /\ SuccessIsTheChildsOwn
=============================================================================
