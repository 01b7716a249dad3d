# QuotaPilot in TLA+

QuotaPilot observes the quota of a Codex account, turns it into a budget, routes
a task to a model and an effort, and — only through an explicit policy — runs the
task with the Codex CLI. This directory is a verification development of the
Python package `src/src/quotapilot`: TLA+ modules that model its stateful parts
operation by operation, TLC configurations that explore them on small instances,
and proofs checked by TLAPS for every value of the constants.

Paths below are relative to the package unless they begin with `docs/`.

## 1. Inventory

| Part | State it keeps | Operations | Talks to | What is hard |
|---|---|---|---|---|
| Execution service (`services/execution.py`) | per `run_plan`: current plan, four counters, the approval flag, the audit events | `create_plan`, `run_plan` | provider (live capture), routing service, planner, gate, escalation evaluator, adapter, the caller's approval handlers | the world changes at every `await`; retries and escalations mix with approvals; exceptions and cancellation anywhere |
| Policy, gate, planner, evaluator (`execution/*.py`) | frozen policy and plan values | `decide`, `build`, `retry`, `escalate`, `validate_initial` | called by the service | bounds tested in several places; which failures may continue |
| Codex CLI adapter (`execution/adapters/codex_cli.py`) | one child process, two reader tasks, bounded tails | `execute` | the `codex exec` child, its pipes and signals | timeout, broken pipe and cancellation at any await, a child that ignores all of it |
| App-server process and RPC client (`providers/openai_codex/app_server.py`, `rpc.py`) | child process, stderr task, pending requests, first closing error, notification queue, reader task | `start`, `stop`, `request`, `stop_reading`, the read loop | `codex app-server` over JSON lines | late, duplicated and malformed answers, the reader against the caller, failing all that is pending |
| Codex provider (`providers/openai_codex/provider.py`, `parser.py`, `models.py`) | none between calls; one session per call | `capture_usage`, `get_models`, `healthcheck`, `inspect_status` | RPC client | start and call timeouts, pagination, teardown under cancellation |
| Snapshot store (`history/`) | SQLite database with a schema version | `save_snapshot`, `get_latest_snapshot`, `list_snapshots`, `ensure_schema` | several processes on one file | atomicity of a save, crash, migration race, ordering of equal times |
| Status, snapshot, provider-status, budget services (`services/`) | none | `get_status`, `capture`, `inspect`, `evaluate` | provider, store, budget engine | one step of several failing, and what the result is then labelled |
| Routing service and engine (`services/routing.py`, `routing/`) | none | `recommend_*`, `recommend` | store, budget, capabilities | pure scoring with floors, ties and an escalation path |
| Budget engine and forecast (`budget/`) | none | `evaluate`, `calculate` | called by services and views | windows with missing, empty or past timing; days of 23 and 25 hours; division by what may be zero |
| Capabilities, calibration (`capabilities/`, `calibration/`) | static catalogues | `enrich`, `evaluate` | routing | precedence and freshness of profiles, field by field |
| Configuration (`config/`) | the user's file | `load_effective_config`, `save_user_config` | CLI, TUI, GUI | replace-on-write against other writers, faults and kills |
| TUI (`tui/`) | view-model states, busy flags, one execution task, one approval future and one one-shot approval, a navigation stack, a settings draft | refresh, load, analyze, prepare, approve, cancel, quit, stage, save | all services on one event loop | a worker runs later than the key that started it; results after navigation; an approval resolved from several places |
| GUI (`gui/`) | view-model properties, busy flags, the shown plan, a worker set | load, refresh, analyze, prepare, run, cancel, save | services on pool threads, the Qt event loop | results delivered across threads, busy flags, an approval rule of its own |
| CLI (`cli/`) | none | one command per process | services | none beyond the services |
| Doctor, domain, localisation, QML | none | probes, value types, presentation | | none |

What makes each part correct:

* **Execution** — an agent never runs without the consent the policy asks for,
  given for that very plan; never under a quota, route or catalogue that has
  drifted away from the plan; a bounded number of times; only forward along the
  planned escalation path; only after failures the policy lists; and the counters
  and audit events tell exactly what happened.
* **Adapter** — a returned call leaves nothing behind, a success is the child's
  own, a cancellation is never turned into something the loop would retry, a timed
  wait ends.
* **RPC and provider** — every answer reaches the request it answers, a dead
  connection fails what is pending at once, the operation ends and takes its child
  with it, the pages of a capture are one walk of the server's cursors.
* **Store** — a snapshot is there as a whole or not at all; the latest is the latest.
* **Budget and routing** — every assessment and forecast of a legal snapshot is itself
  legal at any time it is asked for, today's share adds up to the plan for the rest of the
  window, an escalation climbs, and waiting never makes the recommendation cheaper.
* **Configuration** — the file is always one whole configuration that somebody saved.
* **Views** — what runs was approved by a gesture on a page that showed exactly it; what
  is shown steps back over nothing that was stored and belongs to the input beside it; one
  operation at a time; nothing stays busy but for an agent; a draft is not lost unasked.

The hazards found while reading, each at its line, are listed in `PROJECT.json`
with the properties that cover them.

## 2. Modules

| Module | Models | Kind |
|---|---|---|
| `ExecutionDecisions` | policy validators, gate, retry/escalate evaluator, drift and freshness tests | operators |
| `ExecutionRun` | `ExecutionService.create_plan` and `run_plan` with `ExecutionPlanner` | state machine, EXTENDS `ExecutionDecisions` |
| `BoundedExecution` | what controlled execution promises, without plans, captures or adapters | abstract specification |
| `MCExecutionRun` | contexts and policies for TLC | instance |
| `ExecutionRunProofs` | inductive invariants, safety theorems, refinement | proofs |
| `CodexCliAdapter` | `CodexCliExecutionAdapter.execute` and the child it runs | state machine |
| `MCCodexCliAdapter`, `CodexCliAdapterProofs` | instance and proofs | |
| `SnapshotHistory` | what the snapshot repository promises: a growing history of whole snapshots | abstract specification |
| `SnapshotStore` | `SqliteSnapshotRepository` with its connections, `ensure_schema`, and SQLite's locks and transactions | state machine |
| `MCSnapshotStore`, `SnapshotStoreProofs` | instance and proofs, the refinement included | |
| `StatusService` | `StatusService.get_status` and `SnapshotService.capture_and_store` over a repository that is `SnapshotHistory` | state machine, INSTANCEs `SnapshotHistory` |
| `MCStatusService`, `StatusServiceProofs` | instance and proofs | |
| `CodexSession` | one operation of `OpenAICodexProvider` with its `AppServerClient`, `AppServerProcess` and the server | state machine |
| `MCCodexSession`, `CodexSessionProofs` | instance and proofs | |
| `OptionalValue` | Python's `None` beside a value | operators |
| `BudgetEngine`, `DailyForecast` | `BudgetEngine.evaluate`, `DailyForecastService.calculate` | operators |
| `CapabilityEnrichment`, `RoutingEngine` | `CapabilityEnricher.enrich` with the registry; `RoutingEngine.recommend` with the task profiler | operators |
| `RoutingService` | `RoutingService` and `BudgetService` over the latest stored snapshot and a running clock | state machine, EXTENDS the four |
| `MCRoutingService`, `RoutingServiceProofs` | setups, snapshots, tasks and a calendar for TLC; proofs about the service and its operators | instance and proofs |
| `TuiWorkers` | the event loop: keys, workers and their turns | |
| `SettingsViewModel`, `TuiLoads`, `TuiNavigation`, `TuiExecution` | the settings page; the overview and the pages that load; destinations; route, planning, approval, run and cancellation | parts of the TUI, each with its variables |
| `QuotaPilotApp`, `MCQuotaPilotApp`, `QuotaPilotAppProofs` | `tui/app.py` over these parts | state machine, instance and proofs |
| `ConfigFile` | what the configuration file promises to the processes that share it | abstract specification |
| `ConfigWriter` | `load_effective_config` and `save_user_config`, step by step | actions, INSTANCEs `ConfigFile` |
| `GuiWorkers`, `GuiPages`, `GuiExecution` | `async_runner.py` and `BaseViewModel`; overview, usage, Route and Settings; Execute and the service's run | parts of the GUI |
| `QuotaPilotGui`, `MCQuotaPilotGui` | the desktop application beside another process | state machine and instance |
| `QuotaPilotGuiProofs` | inductive invariant, safety theorems, refinement of `ConfigFile` | proofs |

### ExecutionRun

`pc` is the await or the synchronous block the coroutine is in: `latest`,
`capture_missing`, `capture_stale`, `build` (create_plan), `planned` (the caller
holds the plan), `gate`, `approval`, `revalidate`, `execute`, `adapter` (run_plan's
loop) and `done`. Each action is one such block with everything it does, early
returns and raises included; the environment chooses the context a capture leads to,
the person's answer, the adapter's result, an exception or a cancellation at any await
(`AwaitRaises`: while the plan is built and in the approval handler too). The plan
keeps the fields the code compares or displays; identifiers, digests and texts are
abstracted, so the checks of `validate_initial` on digests and of the command preview
are not in `StartRun` (the caller of the model never alters a plan). A
`RoutingContext` is what the routing service returns for a capture, with the age of
the snapshot reduced to the verdict `fresh`. Budget pressure is a number of units, and
the low-risk comparison of the gate is the flag `low_risk` of the call. The
variables `approved`, `captures`, `invocations` and `answers` are history: no guard
reads them.

### CodexCliAdapter

`pc` is the await `execute` is suspended at, from the spawn over the stdin write, its
`finally` clause, the timed wait, the five seconds of grace and the wait after
SIGKILL to the collecting of the two readers. `ending` is the handler being followed.
The child is any program: it reads stdin or not, closes it, forks a descendant that
holds the pipes, exits at any moment with any status and any failure markers in its
output. Stdin holds `none`, `some` or `much`: above the high-water mark `drain` waits,
below it only `wait_closed` does. `Process.wait` is modelled as returning when the
child has exited, whoever holds its pipes (CPython from 3.12.5 on). The bounded tails
of the output are not modelled.

### CodexSession

`Script` lists the calls each provider operation makes; `get_account`,
`get_quota_pools` and `get_quota_bindings` are `capture_usage`. `pc` is where the
operation's task is: before the spawn, about to send a request, in `drain`, at the
future of a request, and the places of the teardown (`stop_reading`, the wait for the
cancelled reader, the grace, the wait after SIGKILL, the stderr task). The operation,
the reader and the stderr task are tasks of one event loop, so completing a future and
going on after it are two steps: `Interrupt` (the timer of `wait_for` or a
cancellation) throws into the waiting task, `CallFails` and `Answered` are the task
waking up, and a line, the end of file or another cancellation may come in between.
That is where a late answer finds its future cancelled and the reader closes the
connection (`ReadLine`). `last_id`, `pending` and `future` are the request counter, the
table, and the future of the newest request; no operation has two calls under way.

A server line is an answer (with the id it answers, whether its payload parses, and its
cursor), a notification, or garbage: anything `_validate_message` or the JSON decoder
refuses. The server answers late, twice, too early, to the wrong id, or never; it dies
at any moment. `ReadEnds` with the cause `io` is a read that raises, a line longer than
the stream's limit included. A request never fills the pipe, so `drain` waits only over
a transport that is closing. Reading the end of the file needs the process to have
exited: a server that closes stdout and lives on is the cause `io`, with the same
consequences. `pages` is history: what each page was asked with and answered by.

### SnapshotHistory and SnapshotStore

Each call of the repository is a task with a connection of its own, as
`_connection` opens one per call; calls of different processes differ in nothing else.
`at` is the await the task is at, by the name of the statement it has sent; `sent` and
`closing` are the queue of the connection's thread, which runs a statement in one step
while the task goes on in a later one. A cancelled task leaves its statement in the
queue, so an insert or a commit may run after the call has raised `CancelledError`, with
the close behind it: `CancelBody`. A cancellation inside `ensure_schema` finds nobody to
close the connection: `CancelOpening` puts it among `abandoned`, and `Collect` is the
garbage collector finding it, which nothing owes. SQLite is `reserved` (the write lock,
which `BEGIN IMMEDIATE` and the first insert take), `shared` (a cursor that stands on a
row), and `txn`, the uncommitted writes of each connection; `Kill` ends a process and
with it all of these, uncommitted writes included. `Fault` makes any statement fail, the
busy timeout of one that waits for a lock included.

A snapshot is the name of the call that saves it, with `Samples` pool and binding rows.
The canonicalisation before the file is touched is reduced to passing or failing
(`RefuseSnapshot`); rows that were stored are taken to decode. The three PRAGMA
statements before `BEGIN IMMEDIATE` are part of it, and a fetch is one step. The journal
is SQLite's default, the rollback journal. The database starts empty, at this version,
or as something this build refuses.

`SnapshotHistory` is what the interface promises: `history`, what each read saw of it,
and how each call ended. `SnapshotStore` implements it with the same three variables.

### StatusService

`Begin` is the caller reading the clock and calling `get_status`; a refreshing request
then goes through `session` (the provider's session is being opened), `capture`
(`captured_at` has been read, the answers are awaited), `save`, and perhaps `lookup`. The
calls of the repository are started and answered by the actions of `SnapshotHistory`, so
that everything said here rests on what `SnapshotStore` was shown to keep. A `report` is
its label, its snapshot, and whether the budget engine warns of a snapshot from the
future. `known` is history: what was stored when the request began.

### RoutingService and its operators

Fractions are integers of `Unit` parts, quotients stay records `[num, den]`, and time is a
number of ticks; `Midnights` is the calendar of the local zone, with days of three lengths.
What the code rounds for display is not rounded. `BudgetEngine` follows `evaluate` through
remaining fraction, timing, expected use, pace, today's share and the pressure of the
report; `DailyForecast` the choice of the pool, the refusals in their order, and the points.
`CapabilityEnrichment` fills the fields a provider left open from the profiles in their
precedence. `RoutingEngine` scores, filters by the floor, ranks, picks the effort and
builds alternatives and the escalation path. The state machine is `Ask`, `ReadLatest` and
`Route`, between which the clock ticks and other processes store snapshots: a request keeps
the time it was asked at, so a snapshot it reads may be younger than that time.

### The terminal application

`ready` is the queue of workers a key has started and that have not had their first step:
Textual handles further keys before it. `Turn` is that first step, up to the first await;
`Arrival` is the answer of a thread or a service, behind what was started before. So every
order of keys, first steps and answers is explored that asyncio can produce, and no other.
A journey bounds a session to some pages and texts and says whether the application
refreshes at its start.

`execute` is the state of `ExecuteViewModel`, `view` what the page was last rendered with:
the two differ after `clear`, which does not render. `approved` is `_approved_plan`,
`asked` and `held` are `_pending_plan` and `_approval_future`, and `answer` is what the
future holds, which the service reads a step later. `planning.pending` and `executing` are
the flags that are up from the key on, `execute.active` the one that is up from the first
step on. `run` is the execution service seen from its caller: where it decides, waits for
an answer, revalidates, attempts, cleans up or is over; `ExecutionRun` models its inside.
`cancellers` are the workers that wait for a run they have cancelled, in their order.
`gestures` and `attempts` are history.

`settings` has the draft, the saved configuration, the armed warning, and `message`, what
`_render_message` shows. `loads` has for each page the flag of a load asked for, the phase
of a load under way and the snapshot shown. Snapshots are numbered as they are taken:
`store` has the newest number stored, the newest taken, and those taken whose save failed.
The status service answers a refresh with one of these too (`Captured`,
`services/status.py` 54-69), so that what is shown may be newer than what is stored.

### The desktop application and the configuration file

A view model that is not busy starts an operation: it goes through `queue` (waiting for a
thread of the pool), `threads` and `events` (a queued signal) back to the GUI thread, where
`Deliver` runs its callback. The operations of different view models run in parallel, the
user acts in between, and Cancel of the Execute page ends nothing. An unsaved snapshot has the number after the
newest one stored. A plan is known by the
number of the request that made it, as the execution id of an attempt one; `attempt` and
`step` of `run` tell a retry and an escalation from it.

`ConfigWriter` is one process's save: a temporary file is created, written and synced,
replaces the file, and is removed, or a step fails. A process that is killed leaves its
temporary file; a restart loads the file. The other process of the run is a terminal
application: it saves what it holds with one field changed. `ConfigFile` is what is
promised: a save is one moment or none, and a load sees the file of one moment.

## 3. Runs

| Run | Question | Bounds | Result |
|---|---|---|---|
| `execution_run` | do the safety properties of the loop hold under every interleaving, does the service implement `BoundedExecution`, and does it end or rest in a wait for its caller, a person or the adapter? | 8 policies, 10 contexts that each differ in one respect from the first, at most 4 attempts, paths of at most 2 steps | passes, 1.5 million states |
| `cli_adapter` | is one adapter call clean, genuine, cancelled when cancelled, and its timed wait ended? | two streams, at most two cancellations | passes |
| `cli_second_cancel` | does a cancelled call always clean up? | the same | violated: finding |
| `codex_session` | does a provider operation fail at once, walk the cursors once, tear its session down, and end? | 3 cursors, 3 pages, one unread line, two cancellations | passes, 2.6 million states |
| `snapshot_store` | does the repository implement `SnapshotHistory` under faults, cancellations and kills, and do openers get along? | two saves and a read, two rows | passes, 1.9 million states |
| `snapshot_calls_end` | does every call return or raise? | a save and a read | passes |
| `status` | is a status current, a live one stored, and what is stored shown? | a refreshing and a watching request, a capture of another process, three instants | passes, 3.6 million states |
| `status_future` | is a snapshot of the future one? | the same | violated: finding |
| `recommend` | are assessments, allocations, forecasts, enriched catalogues and recommendations sound at any time? | 3 setups, 8 contents of a snapshot, 4 tasks, 2 snapshots, 5 instants around two days of one length, or a short and a long day | passes, 204 thousand states |
| `tui` | does only run what was approved as shown, can a question be answered, is there one operation at a time, does what is shown step back over nothing that was stored and belong to its task, and do runs end? | four journeys, two waiting workers, a back stack of 4, 2 plan identities, 2 attempts, one escalation, 2 snapshots | passes, 1.3 million states |
| `tui_discard` | is a draft thrown away only after the page has said so? | the same, a back stack of 2 | violated: finding |
| `gui` | does an approval cover nothing but the shown plan, do pages show the last plan, does no page stay busy, the execute page unless an attempt hangs, is the file whole? | four journeys, two threads, 2 plans, 3 attempts, one escalation, two fields, a second process | passes, 449 thousand states |

**Why the bounds are enough.** A policy matters through its mode, its two bounds, its
two failure lists and the threshold: the policies cover every mode, the smallest
bounds, one step with two retries, and a class that is both retried and escalated. A
context matters through each comparison of `_revalidate`, and there is one that fails
each of them alone, on both sides of the threshold (units of pressure 4, 5, 6, unknown).
Four attempts over a path of two steps allow every order of one or two retries and two
escalations. A second cancellation is the first that can hit a cleanup; a third adds
nothing, since the call is over. Three pages with three cursors allow a cycle of one and
of two, the page limit, and a walk that ends. One unread line suffices: the server writes
the next as soon as one is read, so two answers may still arrive before the task that
waits for the first wakes up, and an answer may be read one request later. Two saves and
a read are the smallest set with a lock that three openers compete for, two commits in
either order, and a read on either side of each; two rows are the first number with a
row before the last. The liveness of a call needs one other that holds its lock. Two
captures and three instants allow captures that are stored in the other order than they
were taken, and a request before, between or after them. The snapshots of `recommend` hold
each kind of timing (by start, by length, both in disagreement, none, empty, passed, to
come), catalogues with and without metrics and orders, and two pools or two models of one id; five instants
from before a midnight put a request on each side of a midnight, a reset and the
expiry of a profile. The calendar goes from days of four to days of three and then five
ticks, with two days of a length in a row: the line of the forecast is checked beyond the
day of the samples, and its end where a day is longer. In the terminal application two waiting workers are the fewest that
can be out of the order the user means, and two identities suffice because a new plan
differs from those still held; a journey takes the pages whose state interacts, since
`tui/app.py` couples the others through navigation alone. Two threads let an operation
overtake another one and leave one to the others when a run hangs (`QThreadPool` has a
thread per core: on a machine with one core a hung run would hold up every page); three attempts allow a retry on either side of an escalation, and two
fields let two processes save what the other does not know.

**Fairness.** `FairSpec` of `ExecutionRun` is weak fairness of the service's own steps
except the answer of the adapter. A capture ends (`OperationEnds` of `CodexSession`), a
call of the repository too (`EveryCallEnds`), but `execute` of the CLI adapter awaits twice
without a limit (`codex_cli.py` 162 and 169, see below): so `ComesToRest` counts the adapter among the waits a run may rest in.
Starting a plan, answering an approval, exceptions and cancellations are not fair either.
`FairSpec` of `CodexCliAdapter` is weak
fairness of the call's own steps, its timers included, of a reader seeing the end of
its pipe, and of a child exiting once SIGKILL was sent. The child owes nothing else.
`FairSpec` of `CodexSession` is weak fairness of the operation's own steps with its
timers, and of the server's exit once SIGKILL was sent; the reader owes nothing, since
every wait for it has a timer. `FairSpec` of `SnapshotStore` is weak fairness of each
task and of each connection's thread; a thread whose statement waits for a lock may
always take `Fault`, the busy timeout. A kill, a cancellation and a collection are owed
by nobody. In `QuotaPilotApp` the loop owes every waiting worker its turn (weak fairness of
`Turns`), and the services their answers. An answer is handled behind the workers, so it is
enabled only again and again while keys go on: hence strong fairness of `Services`, of which the
attempt and cleanup of the adapter are no part, for the reason above. `ExecutionEnds` asks
in its premise that keys let the loop catch up time and again and that no call of the
adapter goes on forever. Keys,
answers of a person, refreshes and loads are not fair. In `QuotaPilotGui` the pool, the GUI
thread, the writer and each view model's operation are weakly fair, but for the execute page's
thread while it attempts: nothing cancels a run there (`gui/viewmodels/execute.py:134`).
`BusyEnds` speaks of every other page without a premise, and of the execute page if
attempts end. Its other operations ask nobody. `RoutingService` has no liveness property: its
operations are functions of what they read.

**Findings.** Each has a run that TLC ends with a counterexample.

* `cli_second_cancel`: a second cancellation during `_stop_process` leaves `execute`
  with the child running and the readers not awaited (`docs/PHASE6_EXECUTION_CONTRACT.md`
  780-802).
* `status_future`: a refresh is evaluated at a time read before its capture, so every
  live status has a negative age and warns `snapshot_captured_in_future`
  (`docs/PHASE4_BUDGET_CONTRACT.md:336`).
* `tui_discard`: after a refused value or a failed save the settings page goes on showing
  the error where the discard warning would be; the first Esc arms the discard unseen and
  the second throws the draft away, against "a safe discard confirmation"
  (`docs/CUI_DESIGN.md:748`). An Esc in between that is answered by the editor, or typing
  into the filter, takes the warning back, so only the repeated key is affected.

**What the models do besides, as the code does.** These steps are in the models, disagree
with a text or may surprise, and no run is kept for them.

* Execution: the comment at `services/execution.py:200` offers interactive clients a
  confirmation of every changed escalation plan through `plan_change_handler`. The gate
  confirms every escalation, so only `approval_handler` is ever selected; a client with
  the other handler alone gets the plan back unasked. The TUI passes both.
* CLI adapter: the prompt is written outside of the timed wait (`codex_cli.py:162`), so a
  child that neither reads it nor exits keeps the call forever, against "Every real external
  execution must have a configurable timeout" (`docs/PHASE6_EXECUTION_CONTRACT.md:762`).
  After the timeout the readers are awaited without a limit (169); a descendant that holds
  the pipes keeps the call from returning, against "Timeout must produce a structured
  failure" (764). `TimedWaitEnds` says what does end; no liveness of the service or of the
  applications assumes that a call of the adapter does.
* Session: a cancellation while `AppServerProcess.stop` waits for the process ends the call
  without SIGKILL, with the server running (`app_server.py:105`), against
  `providers/openai_codex/provider.py:81`. `stop_reading` and `stop` await a task they have
  cancelled under `except asyncio.CancelledError: pass`, so a cancellation of the operation
  at that await is taken for that task's own (`rpc.py:81`).
* Store: a call cancelled inside `ensure_schema` leaves its connection, and the lock of
  `BEGIN IMMEDIATE` with it, to the garbage collector (`history/sqlite.py:121`;
  `LocksBelongToWork` and `EveryCallEnds` say what still holds then).
* Status: an unsaved live snapshot is labelled `persisted_fallback`
  (`services/status.py:61`, `docs/DECISIONS.md:918`). The overview shows it, and
  the next refresh that fails shows the older stored one (`tui/viewmodels/overview.py:155`),
  against "refresh failure preserves the current report"
  (`docs/PHASE9_TUI_CONTRACT.md:520`). `NeverShowsOlder` allows exactly that: nothing that
  was stored is ever passed over.
* TUI: a second Esc during the cleanup of a run delivers a second cancellation and goes
  back twice; Esc while a plan is being made finds no run to cancel and leaves the page
  with planning going on (`tui/app.py`, `docs/CUI_DESIGN.md` 602-616); a cancelled or failed
  plan shows an approve button that does nothing; a save overtaken by a discard leaves the
  draft at the old values and the saved ones new, that is, dirty; a load of a page asked
  for while one runs is dropped, so the page may stay behind the overview; `r` before the
  startup worker's first step makes the startup skip the persisted report.
* GUI: Cancel stops neither planning nor a run (`gui/viewmodels/execute.py:134`): the page
  then says "Building execution plan…" (`gui/qml/Execute.qml:12`) while the agent works,
  another request is dropped without a word, and the earlier one's plan or result may
  appear; a finished plan may be run again by another press; `prepare` takes the text field
  as it is, without the overrides of Advanced the analysis used; a failed analysis leaves
  the overview's previous recommendation.
* Configuration: a save writes the whole effective configuration, so overrides of the
  environment become values of the file, and a second client's newer fields are replaced
  by the first one's older ones; a killed save leaves its temporary file.

What does hold under cancellation is `SessionTornDown`: except for that one wait, a
cancelled operation too leaves no process and no task.

## 4. Proofs

The constants are arbitrary: any steps, providers, pools, any set of routing contexts
whose initial step is selectable (`ContextsAreRoutable`), any set of policies the strict
model accepts (`PoliciesAreStrict`), `NoStep` different from every step, an adapter
provider among the providers; for the adapter, any finite set of streams and any
number of cancellations; for the session, any set of cursors without `NoCursor`, any page
limit, any capacity of the pipe and any number of cancellations; for the repository, any
number of saves, reads and rows; for the services, any number of requests, captures and
clock ticks, with names of reads that are no names of saves (`NamesAreApart`); for the desktop
application, any number of threads, plans, attempts and steps, any fields, values and
processes, overrides and first contents that are fields of a configuration
(`EnvironmentAssumption`, `ContentsAssumption`), and any pages that load of the three there
are (`LoadPagesAssumption`); for the terminal application, any journeys, plans, texts,
configurations and bounds, and any of the four pages that load (`LoadKindsAssumption`); for
routing, any configurations, profiles, policies, snapshots and tasks that the validators of
`budget/models.py`, `capabilities/models.py`, `routing/models.py` and `domain/` let through
(`SetupsAreValid`, `PolicyAssumption`, `PoolsAreValid`, `ModelsAreValid`, `TasksAreValid`),
and a calendar that goes on beyond the last instant that is looked up in it
(`CalendarAssumption`), with days of any length. The absent value is none of the things it
stands beside (`NoneIsNoNumber`, `NoneIsNoPlan`, `NoneIsNoQuotient`, `NoneIsNoEffort`).

Each module's inductive invariant was explored by TLC as an invariant of its run before the
proof (of the desktop application, the parts that are not types); the runs list the
properties it was made for.

**ExecutionRun.** `ApprovedAsShown` and `BoundedForwardWalk` talk about the history of
adapter calls only and are not inductive: nothing in them says what the *next* call
will look like. `IInv` adds that. `NothingRunYet` fixes the state before the loop;
`LoopBookkeeping` ties plan, counters and history together at each place of the loop
(attempt number, retries plus escalations, the plan's step is the one its index
names); `StepsOfHistory` says that the newest `same_step_retries` entries are those of
the current step, and the one before them of the previous step, which is what makes
"at most max_same_step_retries + 1 per step" inductive; `ApprovalIsCurrent` says that
a reusable approval is one of the plan in hand. `RanAsAllowed` is for the refinement.
Types come first (`NextTypes`), then the loop (`NextKeepsLoop`), then the history,
which only `InvokeAdapter` extends. Theorems: `Consistent`, `TypeCorrect`,
`ApprovalIsForThePlan`, `LoopIsBounded`.

**The account.** `ResultTellsWhatHappened` is about a finished run. `TrailTellsTheLoop` adds
that before the loop nothing is recorded, and that in it the events of each kind are as many
as the counter of that kind, at every place at which the loop can leave. One event more is
counted once (`CountAppended`), and the events of an outcome are not among those that are
counted. Theorem: `AccountIsTrue`.

**Revalidation.** `RevalidatedAttempts` and `ContinuesOnlyAsConfigured` are again about the
history only. `RInv` adds four parts to them and to the proved loop. `CheckHolds` carries
the verdict of the live check over the await between it and the call: at `execute` the
newest context is still the one found unchanged. `SameTerms` says that retries keep the
quota context of their step, so that a check of the plan in hand speaks of every attempt of
the step. `LastAnswer` says that each attempt has been answered, the newest with a class
that the policy lists for the way the loop went on: for retries while
`same_step_retries` is positive, for escalations otherwise. `NotOver` says that nothing is
returned or raised before the end. Theorems: `Revalidated`, `EveryAttemptIsRevalidated`,
`GoesOnOnlyAsConfigured`, `ServiceNeverRefusesItself`.

**The promise.** `ServiceKeepsPromise` shows `Spec => KeepsPromise`: initial states map
to initial states, planning and checking steps stutter or fix the route, `Approve` is
`Consent`, `InvokeAdapter` is `StartAgent` (reachable, not exhausted, consented), an
answer that another attempt follows is `AgentAnswers`, every return or raise is
`GiveUpOrFinish`.

**CodexCliAdapter.** `CleanupInv` adds to the three properties which process and reader
states go with which await, that signals are sent by a cleanup only, and where a
cancellation is at each moment. Theorems: `CleanupIsInductive`, `ReturnedCallIsClean`,
`SuccessIsGenuine`, `CancelledEndsCancelled`.

**CodexSession.** `SessionInv` adds four parts to the properties. `TableFollowsFuture`
says that an open future is in the table: without it `_close_with_error`, which walks the
table, could miss the caller it has to fail. `SessionStages` says which tasks and which
process there are at each place. `WalkGoesOn` keeps, while the walk goes on, the next
cursor new and every earlier one remembered, so that `OneWalk` survives a page.
`LeavesWithReason` keeps why an operation leaves, and that without a reason its script was
complete. Theorems: `SessionIsConsistent`, `DeadConnectionFailsCalls`,
`ConnectionClosesOnce`, `PagesAreOneWalk`, `SessionEndsWithCall`, `TableIsEmptied`,
`ProbesNeverRaise`.

**SnapshotStore.** `StoreInv` has five parts beside the properties. `TaskAndThread` ties
the await of a task to the queue of its thread: a statement is in the queue exactly while
it is awaited, or was left behind by a cancellation with the close behind it.
`SchemaIsMine` says that whoever has found the database empty still holds the write lock
and finds it empty at its commit: that is why openers do not fail each other.
`SaveProgress` follows the inserts: no commit is sent before the rows are complete, no
snapshot is stored while its transaction is open, and the id is one more than the length
of the history for as long as the lock is held. `ReadProgress` says that a read looks once.
`Reasons` keeps what a call is going to answer true until it has closed its connection.
Each action disturbs what is said of one call only (`StepKeeps`), so there is one lemma
per action about its own call; `RunCommitKeeps` is the exception, where the schema and
the history change for all. Theorems: `StoreIsConsistent`, `SavesAreAtomic`, `IdsAreTrue`,
`OpenersGetAlong`, `LocksAreGivenBack`. `RepositoryKeepsHistory` shows
`Spec => KeepsHistory`: a commit with a snapshot is `Append1`, a select is `Look`, the
ends of a task are `Answer`, `Fail` and `BreakOff`, everything else stutters. It is also
the docstring of `SnapshotWriteError`: an error of a save means that it will never be
stored.

**StatusService.** `StatusInv` adds that a snapshot is stamped before its save begins
(`StampedFirst`), so that times of stored snapshots never change, and that a read sees all
that was known when its request began, while a capture comes after it
(`NothingForgotten`). Theorems: `StatusIsConsistent`, `StatusIsCurrent`,
`LiveMeansStored`, `StoredStaysVisible`. That a non-empty history has a newest row, which
enables `LookupReturns`, is an induction over its length and is not proved.

**QuotaPilotApp.** Three invariants that need little of each other. `RouteInv` keeps the
recommendation with the text: it is cleared by every edit, and an answer is taken only for
the text it was asked for. `LoadInv` adds to `OneRefreshAtATime` that the pages
have read no more than is stored, that every snapshot taken after the newest stored one is
among the unsaved, that the report is no newer than the newest taken, and that a load
that projects has read at least what is shown: reads of two workers answer in any order.
Hence a report that steps back passes over unsaved snapshots only. `ExecutionInv` is about the keys that started a
worker and the worker that comes to its turn later. `PrepareQueue`, `RunQueue` and
`ExitQueue` say which workers wait for their first step and what cannot have changed until
then: a run waits only while none is under way, one that returns comes behind it, an exit has
its turn before any other run. `ShownPlan` keeps the plan of the state on the page. `Question`
ties the held future to the run that waits for it. `Approvals` follows an approval from the
key over `_approved_plan` and the future to the attempt, with the plan it was given for: a
reusable one never outlives its plan. The queue is a sequence that other workers join and
leave, so what a step does to it is said once (`QueueAsBefore`) and each worker of the
other pages needs that only. Theorems: `ApplicationIsConsistent`, `NoAttemptUnapproved`,
`WaitingIsVisible`, `OneThingAtATime`, `QuitsBehindTheRun`, `RecommendationIsForTheText`,
`OverviewIsConsistent`, `ShownOnlyGetsNewer`.

**RoutingService.** `ServiceInv` says that a request reads what was stored, under the setup
the service was built with and at a time the calendar covers; the rest is about operators.
Two lemmas stand in for induction, which the provers cannot instantiate: a set of naturals
has a least member (`LeastOf`), and what holds at zero and passes on holds up to any number
(`UpTo`); both say *set* where the library says *predicate*.

* `ReportsValidate`: a window that is resolved has a length, its progress is clipped, and a
  part of the weights is no more than their sum.
* `PlanOfDays`: an instant lies in one local day (`LocalDayIs`), and the weights of a number of days
  are those of the first and of the others (`TotalUnfolds`), over week ends and whole weeks.
* `ForecastJoins`: the projected use is on one line through the last sample while the days
  have the length of today (`UseIsOnLine`), no day is left out (`NoGaps`), and the last point ends at
  the reset or at the limit of points.
* `PrecedenceIsHonoured`: a registry without two documents of one rank has exactly one list by
  falling rank (`ListedByRank`), and along it the first fresh document that gives a field
  fills it, since no later one overwrites it (`EnrichedFillsUp`).
* `PathsClimb`: a finite set has a first member in a total order (`FirstExists`), which the
  ranking and the order of the weakest are once ids differ; the path has at most three steps,
  each to a stronger model or to the next effort (`PathClimbs`); the alternatives chosen so
  far are pairwise distinct (`ChosenAreDistinct`).
* `WaitingIsRewarded`: with time the expected use grows, so fewer thresholds are passed, the
  pressure of a pool falls (`PressureFalls`) and with it the greatest of them; the penalty is
  a product of pressure and cost, so that if a dearer model was first under more pressure,
  the cheaper one is not first under less (`LessPressureNoCheaper`).

**QuotaPilotGui.** What is shown and what runs meet only through the workers: an operation
is a record in the queue, on a thread, or among the events, with the plan it is about. So
`ExecInv` says where such a record may be and what it may say. `OneAtATime`: at most one of
the execute page in all three sequences together, and then the page is busy; without it
Cancel, which leaves the operation going on, would let two meet. `WorkIsCurrent`: it is
about the last plan asked for, and a run's plan was confirmed. `RunIsOnThread`: the service
runs the plan of the thread, and an escalated step is met only at the decision, after
attempt 1 and without a reusable approval, where the approval is refused. The other pages move
the same sequences; `Keeps` says that they leave the records of the execute page as they
were, so that each needs one lemma per worker step and none about execution. `FileInv` says
that a writer holds a whole configuration, and that what it is about to put in the place of
the file is that one. Theorems: `GuiIsConsistent`, `ApprovalIsForTheShownPlan`,
`PageIsOfTheLatestPlan`. `FileIsReplacedAsAWhole` shows `Spec => SavesAreAtomic`: a save
begins as `Begin`, its replacement is `Commit`, a fault or a kill before it `Abandon`, a
restart `Load`, and everything else stutters.

Only model-checked is all liveness (`ComesToRest`, `TimedWaitEnds`, `OperationEnds`,
`EveryCallEnds`, `ExecutionEnds`, `BusyEnds`), which is out of the prover's reach; every other
property of a passing run is a theorem. `RoutingService` keeps the model from the sorting and
filtering operators of the libraries where a theorem depends on them (`SortSeq` and
`SelectSeq` are recursive): a sorted list is the one list by its order. `SelectSeq`
remains in the sources of a field, which decide the confidence, and no theorem is about that.

## 5. Not modelled

The app-server payload parser and the redaction (data conversion), rendering, texts,
translations and key tables, the calibration and the doctor (sequential, read-only, one
independent step after another), the domain value types, the commands of the CLI (each
calls one service and prints). Of the TUI: focus, layout, the command palette and the
doctor's details; the model ends with the application's `exit()`. Of the GUI: the pages
Models and History beside Usage, whose loading they share, the palette, and closing the
window with workers under way, where Qt and the interpreter decide. Of the configuration:
parsing, validation and overrides of the command line. Of routing and budget: rounding for
display and the texts of reasons. Time-outs of the services under the applications are in
the modules of the services.

## 6. Plan

1. The domain of the proofs: the confidence of a recommendation from the sources of the
   fields (`AttachProfileProvenance`), and the effort as a monotone function of the task.
2. The refinement of the service seen by the applications: `run` of `TuiExecution` and of
   `GuiExecution` as abstractions of `ExecutionRun`.
3. The rank of `StatusService`'s newest row, so that the enabling of its reads is proved too.
