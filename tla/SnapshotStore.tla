----------------------------- MODULE SnapshotStore -----------------------------
(***************************************************************************)
(* SqliteSnapshotRepository: calls of several QuotaPilot processes on one  *)
(* database file, each over a connection of its own. A call is a task that *)
(* sends one statement after another to the connection's thread and awaits *)
(* each; SQLite is the locks, the transaction of each connection, and the  *)
(* rollback of whatever a connection leaves behind.                        *)
(*                                                                         *)
(* The thread runs a statement in one step and the task goes on in a later *)
(* one, so a cancellation may find a statement not run, running or already *)
(* run: it will run in any case, since nothing takes it from the queue.    *)
(* Any statement may fail (disk, driver); one that waits for a lock fails  *)
(* when the busy timeout is over. A process may be killed at any moment.   *)
(***************************************************************************)
EXTENDS Naturals, Sequences

CONSTANTS
  Savers,    \* calls of save_snapshot
  Readers,   \* calls of get_snapshot, get_latest_snapshot and list_snapshots
  Samples    \* how many pool and binding rows a snapshot has

ASSUME CallsAreOfOneKind == Savers \cap Readers = {}
ASSUME SamplesAreCounted == Samples \in Nat

Calls == Savers \cup Readers

VARIABLES
  schema,     \* of the file: empty, v1, or something else
  history,    \* the committed rows of snapshots, by id, named by their saves
  samples,    \* the committed child rows of each save's snapshot
  reserved,   \* who holds SQLite's RESERVED lock
  shared,     \* the reads that hold a SHARED lock
  txn,        \* the uncommitted writes of each connection
  at,         \* the await each call's task is at
  sent,       \* the statement in the queue of its thread
  closing,    \* whether a close is queued after it
  result,     \* what the thread has answered and the task has not taken yet
  verdict,    \* what the call is going to end with
  outcome,    \* what it ended with
  rowid,      \* lastrowid of a save
  saw,        \* what a read's cursor was opened on
  abandoned,  \* connections nobody will close
  faulty      \* history: the calls one of whose statements SQLite refused

database == <<schema, history, samples>>
locks    == <<reserved, shared>>
task     == <<at, verdict, outcome>>
vars == <<database, locks, txn, task, sent, closing, result, rowid, saw, abandoned, faulty>>

\* The awaits of ensure_schema, where _connection has not yielded yet.
SchemaPlaces == {"begin_schema", "inspect", "create", "version", "commit_schema",
                 "rollback_schema"}

WritePlaces == {"begin", "parent", "child", "commit"}
ReadPlaces  == {"select", "fetch"}
BodyPlaces  == WritePlaces \cup ReadPlaces \cup {"rollback"}

Statements == {"connect"} \cup SchemaPlaces \cup BodyPlaces

NoWrites == [schema |-> "unchanged", parent |-> FALSE, children |-> 0]

\* The database is new, of this version, or of one this build refuses.
Init ==
  /\ schema \in {"empty", "v1", "other"}
  /\ history = <<>>
  /\ samples = [s \in Savers |-> 0]
  /\ reserved = {}
  /\ shared = {}
  /\ txn = [c \in Calls |-> NoWrites]
  /\ at = [c \in Calls |-> "idle"]
  /\ sent = [c \in Calls |-> "none"]
  /\ closing = [c \in Calls |-> FALSE]
  /\ result = [c \in Calls |-> "none"]
  /\ verdict = [c \in Calls |-> "none"]
  /\ outcome = [c \in Calls |-> "idle"]
  /\ rowid = [s \in Savers |-> 0]
  /\ saw = [r \in Readers |-> {}]
  /\ abandoned = {}
  /\ faulty = {}

-----------------------------------------------------------------------------
(***************************************************************************)
(* The connection's thread and SQLite                                      *)
(***************************************************************************)
\* The answer reaches the task that still awaits this statement, or nobody.
Deliver(c, answer) ==
  result' = [result EXCEPT ![c] = IF at[c] = sent[c] THEN answer ELSE @]

Runs(c, statement) ==
  /\ sent[c] = statement
  /\ sent' = [sent EXCEPT ![c] = "none"]

Free(c) == reserved \subseteq {c}

\* A statement that writes needs the RESERVED lock and keeps it.
Write(c, ddl, parent, children) ==
  /\ Free(c)
  /\ reserved' = {c}
  /\ txn' = [txn EXCEPT ![c] = [schema |-> ddl, parent |-> parent, children |-> children]]

WritesSomething(c) == txn[c] # NoWrites

Release(c) ==
  /\ reserved' = reserved \ {c}
  /\ txn' = [txn EXCEPT ![c] = NoWrites]

\* connect, and BEGIN, which takes no lock
RunPlain(c) ==
  /\ \E statement \in {"connect", "begin"} : Runs(c, statement)
  /\ Deliver(c, "ok")
  /\ UNCHANGED <<database, locks, txn, rowid, saw>>

\* Faulty: BEGIN without IMMEDIATE.
RunBeginDeferred(c) ==
  /\ Runs(c, "begin_schema")
  /\ Deliver(c, "ok")
  /\ UNCHANGED <<database, locks, txn, rowid, saw>>

\* BEGIN IMMEDIATE
RunBeginSchema(c) ==
  /\ Runs(c, "begin_schema")
  /\ Free(c)
  /\ reserved' = {c}
  /\ Deliver(c, "ok")
  /\ UNCHANGED <<database, shared, txn, rowid, saw>>

\* _user_tables and, unless there are none, _validate_version
RunInspect(c) ==
  /\ Runs(c, "inspect")
  /\ Deliver(c, schema)
  /\ UNCHANGED <<database, locks, txn, rowid, saw>>

\* The CREATE TABLEs fail over tables that are there; the version row follows.
RunCreate(c) ==
  /\ Runs(c, "create")
  /\ IF schema = "empty"
       THEN /\ Write(c, "unversioned", txn[c].parent, txn[c].children)
            /\ Deliver(c, "ok")
       ELSE Deliver(c, "error") /\ UNCHANGED <<reserved, txn>>
  /\ UNCHANGED <<database, shared, rowid, saw>>

RunVersion(c) ==
  /\ Runs(c, "version")
  /\ Write(c, "v1", txn[c].parent, txn[c].children)
  /\ Deliver(c, "ok")
  /\ UNCHANGED <<database, shared, rowid, saw>>

\* _insert_snapshot_row; AUTOINCREMENT's counter is part of the transaction.
RunParent(c) ==
  /\ Runs(c, "parent")
  /\ Write(c, txn[c].schema, TRUE, txn[c].children)
  /\ rowid' = [rowid EXCEPT ![c] = Len(history) + 1]
  /\ Deliver(c, "ok")
  /\ UNCHANGED <<database, shared, saw>>

\* One row of _insert_pool_samples or _insert_binding_samples.
RunChild(c) ==
  /\ Runs(c, "child")
  /\ Write(c, txn[c].schema, txn[c].parent, txn[c].children + 1)
  /\ Deliver(c, "ok")
  /\ UNCHANGED <<database, shared, rowid, saw>>

\* A commit that writes needs the readers gone; one that does not only lets go.
RunCommit(c) ==
  /\ \E statement \in {"commit_schema", "commit"} : Runs(c, statement)
  /\ WritesSomething(c) => shared \subseteq {c}
  /\ schema' = IF txn[c].schema = "unchanged" THEN schema ELSE txn[c].schema
  /\ history' = IF txn[c].parent THEN Append(history, c) ELSE history
  /\ samples' = IF txn[c].parent THEN [samples EXCEPT ![c] = txn[c].children] ELSE samples
  /\ Release(c)
  /\ Deliver(c, "ok")
  /\ UNCHANGED <<shared, rowid, saw>>

RunRollback(c) ==
  /\ \E statement \in {"rollback_schema", "rollback"} : Runs(c, statement)
  /\ Release(c)
  /\ Deliver(c, "ok")
  /\ UNCHANGED <<database, shared, rowid, saw>>

\* A SELECT stands on its first row, if it has one, and keeps the file as it is.
RunSelect(c) ==
  /\ Runs(c, "select")
  /\ saw' = [saw EXCEPT ![c] = {history}]
  /\ shared' = IF history = <<>> THEN shared ELSE shared \cup {c}
  /\ Deliver(c, "ok")
  /\ UNCHANGED <<database, reserved, txn, rowid>>

RunFetch(c) ==
  /\ Runs(c, "fetch")
  /\ shared' = shared \ {c}
  /\ Deliver(c, "ok")
  /\ UNCHANGED <<database, reserved, txn, rowid, saw>>

\* Any statement may fail; it changes nothing then.
Fault(c) ==
  /\ sent[c] # "none"
  /\ sent' = [sent EXCEPT ![c] = "none"]
  /\ Deliver(c, "error")
  /\ faulty' = faulty \cup {c}
  /\ UNCHANGED <<database, locks, txn, task, closing, rowid, saw, abandoned>>

\* close comes after the statement, and with it the end of its transaction.
RunClose(c) ==
  /\ closing[c]
  /\ sent[c] = "none"
  /\ closing' = [closing EXCEPT ![c] = FALSE]
  /\ Release(c)
  /\ shared' = shared \ {c}
  /\ result' = [result EXCEPT ![c] = IF at[c] \in {"close_schema", "close"} THEN "ok" ELSE @]
  /\ UNCHANGED <<database, task, sent, rowid, saw, abandoned, faulty>>

Run(c) ==
  /\ \/ RunPlain(c) \/ RunBeginSchema(c) \/ RunInspect(c) \/ RunCreate(c) \/ RunVersion(c)
     \/ RunCommit(c) \/ RunRollback(c)
     \/ c \in Savers /\ (RunParent(c) \/ RunChild(c))
     \/ c \in Readers /\ (RunSelect(c) \/ RunFetch(c))
  /\ UNCHANGED <<task, closing, abandoned, faulty>>

-----------------------------------------------------------------------------
(***************************************************************************)
(* The task of a call                                                      *)
(***************************************************************************)
Settle(c, how) ==
  /\ outcome' = [outcome EXCEPT ![c] = how]
  /\ at' = [at EXCEPT ![c] = "done"]
  /\ result' = [result EXCEPT ![c] = "none"]

\* The task sends a statement and awaits it.
Await(c, statement) ==
  /\ at' = [at EXCEPT ![c] = statement]
  /\ sent' = [sent EXCEPT ![c] = statement]
  /\ result' = [result EXCEPT ![c] = "none"]
  /\ UNCHANGED <<closing, outcome>>

\* The task awaits conn.close(), which queues behind whatever was sent.
AwaitClose(c, place) ==
  /\ at' = [at EXCEPT ![c] = place]
  /\ closing' = [closing EXCEPT ![c] = TRUE]
  /\ result' = [result EXCEPT ![c] = "none"]
  /\ UNCHANGED <<sent, outcome>>

Decide(c, how) == verdict' = [verdict EXCEPT ![c] = how]

TaskOnly == UNCHANGED <<database, locks, txn, rowid, saw, abandoned, faulty>>

\* _check_coherence and _canonicalize come before the file is touched.
RefuseSnapshot(s) ==
  /\ at[s] = "idle"
  /\ Settle(s, "CoherenceError")
  /\ TaskOnly
  /\ UNCHANGED <<verdict, sent, closing>>

Start(c) ==
  /\ at[c] = "idle"
  /\ at' = [at EXCEPT ![c] = "connect"]
  /\ sent' = [sent EXCEPT ![c] = "connect"]
  /\ outcome' = [outcome EXCEPT ![c] = "open"]
  /\ TaskOnly
  /\ UNCHANGED <<verdict, closing, result>>

\* The loops over the rows: the task has sent as many as the transaction has.
RowsFrom(c) == IF txn[c].children < Samples THEN "child" ELSE "commit"

\* What follows where there is no choice.
Order ==
  [connect |-> "begin_schema", begin_schema |-> "inspect", create |-> "version",
   version |-> "commit_schema", begin |-> "parent", select |-> "fetch"]

\* The statement that follows one that went well.
Following(c) ==
  CASE at[c] = "inspect"           -> IF result[c] = "empty" THEN "create" ELSE "commit_schema"
    [] at[c] = "commit_schema"     -> IF c \in Savers THEN "begin" ELSE "select"
    [] at[c] \in {"parent", "child"} -> RowsFrom(c)
    [] OTHER                       -> Order[at[c]]

\* The places whose statement another one follows if it went well.
Inner == {"connect", "begin_schema", "inspect", "create", "version", "commit_schema",
          "begin", "parent", "child", "select"}

Refused(c) == result[c] = "error" \/ (at[c] = "inspect" /\ result[c] = "other")

WentWell(c) == result[c] # "none" /\ ~Refused(c)

Proceed(c) ==
  /\ at[c] \in Inner
  /\ WentWell(c)
  /\ Await(c, Following(c))
  /\ TaskOnly
  /\ UNCHANGED verdict

\* Faulty: an error of the commit is passed over.
SucceedUnchecked(c) ==
  /\ at[c] \in {"commit", "fetch"}
  /\ result[c] # "none"
  /\ Decide(c, IF c \in Savers THEN "Stored" ELSE "Rows")
  /\ AwaitClose(c, "close")
  /\ TaskOnly

\* The body of the async with is over, and its exit closes the connection.
Succeed(c) ==
  /\ at[c] \in {"commit", "fetch"}
  /\ WentWell(c)
  /\ Decide(c, IF c \in Savers THEN "Stored" ELSE "Rows")
  /\ AwaitClose(c, "close")
  /\ TaskOnly

ConnectFails(c) ==
  /\ at[c] = "connect"
  /\ Refused(c)
  /\ Settle(c, "InitError")
  /\ TaskOnly
  /\ UNCHANGED <<verdict, sent, closing>>

\* Faulty: the transaction is begun again for as long as the database is locked.
SchemaFailsRetried(c) ==
  /\ at[c] = "begin_schema"
  /\ Refused(c)
  /\ Await(c, "begin_schema")
  /\ TaskOnly
  /\ UNCHANGED verdict

\* The except clauses of ensure_schema.
SchemaFails(c) ==
  /\ at[c] \in SchemaPlaces \ {"rollback_schema"}
  /\ Refused(c)
  /\ Decide(c, "InitError")
  /\ Await(c, "rollback_schema")
  /\ TaskOnly

\* The except clauses of save_snapshot.
WriteFails(c) ==
  /\ at[c] \in WritePlaces
  /\ Refused(c)
  /\ Decide(c, "WriteError")
  /\ Await(c, "rollback")
  /\ TaskOnly

\* A read that fails leaves the async with, and is translated outside of it.
ReadFails(c) ==
  /\ at[c] \in ReadPlaces
  /\ Refused(c)
  /\ Decide(c, "ReadError")
  /\ AwaitClose(c, "close")
  /\ TaskOnly

\* What a rollback itself reports is of no interest; the connection is closed next.
RolledBack(c) ==
  /\ at[c] \in {"rollback_schema", "rollback"}
  /\ result[c] # "none"
  /\ AwaitClose(c, IF at[c] = "rollback" THEN "close" ELSE "close_schema")
  /\ TaskOnly
  /\ UNCHANGED verdict

\* The call returns or raises.
Closed(c) ==
  /\ at[c] \in {"close_schema", "close"}
  /\ result[c] # "none"
  /\ Settle(c, verdict[c])
  /\ TaskOnly
  /\ UNCHANGED <<verdict, sent, closing>>

TaskStep(c) ==
  \/ Proceed(c) \/ Succeed(c) \/ ConnectFails(c) \/ SchemaFails(c) \/ WriteFails(c)
  \/ ReadFails(c) \/ RolledBack(c) \/ Closed(c)

\* CancelledError is no Exception: up to ensure_schema's end nobody closes the connection.
CancelOpening(c) ==
  /\ at[c] \in {"connect", "close_schema"} \cup SchemaPlaces
  /\ Settle(c, "Cancelled")
  /\ abandoned' = IF at[c] \in SchemaPlaces THEN abandoned \cup {c} ELSE abandoned
  /\ UNCHANGED <<database, locks, txn, rowid, saw, faulty, verdict, sent, closing>>

\* Faulty: the connection is not closed on the way out.
CancelBodyUnclosed(c) ==
  /\ at[c] \in BodyPlaces
  /\ Settle(c, "Cancelled")
  /\ TaskOnly
  /\ UNCHANGED <<verdict, sent, closing>>

\* Inside of the async with it is not rolled back, but its finally closes the connection.
CancelBody(c) ==
  /\ at[c] \in BodyPlaces
  /\ Decide(c, "Cancelled")
  /\ AwaitClose(c, "close")
  /\ TaskOnly

\* The close that is awaited stays in the queue.
CancelClose(c) ==
  /\ at[c] = "close"
  /\ Settle(c, "Cancelled")
  /\ TaskOnly
  /\ UNCHANGED <<verdict, sent, closing>>

-----------------------------------------------------------------------------
(***************************************************************************)
(* The process and its memory                                              *)
(***************************************************************************)
\* The garbage collector finds a connection nobody closed, whose thread is idle.
Collect(c) ==
  /\ c \in abandoned
  /\ sent[c] = "none"
  /\ abandoned' = abandoned \ {c}
  /\ Release(c)
  /\ UNCHANGED <<database, shared, task, sent, closing, result, rowid, saw, faulty>>

Alive(c) == at[c] \notin {"idle", "done"} \/ sent[c] # "none" \/ closing[c] \/ c \in abandoned

\* The process ends: SQLite drops its locks, and the next opener rolls its writes back.
Kill(c) ==
  /\ Alive(c)
  /\ at' = [at EXCEPT ![c] = "done"]
  /\ sent' = [sent EXCEPT ![c] = "none"]
  /\ closing' = [closing EXCEPT ![c] = FALSE]
  /\ result' = [result EXCEPT ![c] = "none"]
  /\ outcome' = [outcome EXCEPT ![c] = IF @ = "open" THEN "Killed" ELSE @]
  /\ abandoned' = abandoned \ {c}
  /\ Release(c)
  /\ shared' = shared \ {c}
  /\ UNCHANGED <<database, rowid, saw, verdict, faulty>>

Next ==
  \/ \E s \in Savers : RefuseSnapshot(s)
  \/ \E c \in Calls :
       \/ Start(c) \/ TaskStep(c) \/ Run(c) \/ Fault(c) \/ RunClose(c)
       \/ CancelOpening(c) \/ CancelBody(c) \/ CancelClose(c)
       \/ Collect(c) \/ Kill(c)

Spec == Init /\ [][Next]_vars

\* Tasks go on, threads work off their queue, and whoever waits for a lock gets it or
\* times out. Nobody owes a kill, a cancellation or a garbage collection.
Fairness ==
  \A c \in Calls : /\ WF_vars(TaskStep(c))
                   /\ WF_vars(Run(c) \/ Fault(c) \/ RunClose(c))

FairSpec == Spec /\ Fairness

-----------------------------------------------------------------------------
(***************************************************************************)
(* Properties                                                              *)
(***************************************************************************)
Awaited == Statements \cup {"close_schema", "close"}

Answers == {"none", "ok", "error", "empty", "v1", "other"}

Errors == {"InitError", "WriteError", "ReadError", "CoherenceError"}

Ends == {"Stored", "Rows", "Cancelled", "Killed"} \cup Errors

Stored == { history[i] : i \in DOMAIN history }

\* Every variable has its type.
TypeOK ==
  /\ schema \in {"empty", "v1", "other"}
  /\ history \in Seq(Savers)
  /\ samples \in [Savers -> Nat]
  /\ reserved \subseteq Calls
  /\ shared \subseteq Readers
  /\ txn \in [Calls -> [schema : {"unchanged", "unversioned", "v1"}, parent : BOOLEAN,
                        children : Nat]]
  /\ at \in [Calls -> {"idle", "done"} \cup Awaited]
  /\ sent \in [Calls -> {"none"} \cup Statements]
  /\ closing \in [Calls -> BOOLEAN]
  /\ result \in [Calls -> Answers]
  /\ verdict \in [Calls -> {"none"} \cup Ends]
  /\ outcome \in [Calls -> {"idle", "open"} \cup Ends]
  /\ rowid \in [Savers -> Nat]
  /\ saw \in [Readers -> SUBSET Seq(Savers)]
  /\ abandoned \subseteq Calls
  /\ faulty \subseteq Calls

\* Saving one snapshot is atomic: whatever is killed, cancelled or refused between two of
\* its inserts, a stored snapshot has all of its pool and binding rows, and is stored once.
AllOrNothing ==
  /\ \A i \in DOMAIN history : samples[history[i]] = Samples
  /\ \A i, j \in DOMAIN history : history[i] = history[j] => i = j

\* The id save_snapshot returns is the row of its own snapshot, whatever was saved in
\* between by others.
ReturnedIdIsTheRow ==
  \A s \in Savers : outcome[s] = "Stored" =>
    rowid[s] \in DOMAIN history /\ history[rowid[s]] = s

\* Two openers of a new file never refuse each other: an operation fails only if SQLite
\* refused a statement of its own, or the database is not this build's.
OnlyFaultsFail ==
  \A c \in Calls : outcome[c] \in {"InitError", "WriteError", "ReadError"} =>
    c \in faulty \/ schema = "other"

\* One connection at a time may write, and a lock is held only by a call that is at work
\* on it, whose close is queued, or that was cancelled while it opened the database.
LocksBelongToWork ==
  /\ \A c, d \in reserved : c = d
  /\ \A c \in reserved \cup shared :
       at[c] \notin {"idle", "done"} \/ closing[c] \/ c \in abandoned

-----------------------------------------------------------------------------
(***************************************************************************)
(* The inductive invariant                                                 *)
(***************************************************************************)
OneWriter == \A c, d \in reserved : c = d

\* What is sent is awaited and unanswered, or was left behind by a cancellation.
TaskAndThread(c) ==
  /\ (at[c] = "idle") <=> (outcome[c] = "idle")
  /\ (outcome[c] = "open") <=> (at[c] \notin {"idle", "done"})
  /\ at[c] = "idle" => sent[c] = "none" /\ ~closing[c]
  /\ at[c] \in {"idle", "done"} => result[c] = "none"
  /\ at[c] \in Statements =>
       ~closing[c] /\ IF result[c] = "none" THEN sent[c] = at[c] ELSE sent[c] = "none"
  /\ at[c] = "close" => sent[c] \in {"none"} \cup BodyPlaces
  /\ at[c] = "close_schema" => sent[c] = "none"
  /\ at[c] \in {"close", "close_schema"} =>
       IF result[c] = "none" THEN closing[c] ELSE ~closing[c] /\ sent[c] = "none"
  /\ sent[c] # "none" \/ closing[c] => outcome[c] \in {"open", "Cancelled"}
  /\ {at[c], sent[c]} \cap (WritePlaces \cup {"rollback"}) # {} => c \in Savers
  /\ {at[c], sent[c]} \cap ReadPlaces # {} => c \in Readers
  /\ c \in abandoned => at[c] = "done" /\ sent[c] \in {"none"} \cup SchemaPlaces
  /\ at[c] = "done" /\ sent[c] \notin {"none", "connect"} => closing[c] \/ c \in abandoned
  /\ result[c] \in {"empty", "v1", "other"} => at[c] = "inspect"

\* Who has decided on the schema is alone with the file until it has committed.
SchemaIsMine(c) ==
  /\ at[c] = "begin_schema" /\ result[c] = "ok" => c \in reserved
  /\ "inspect" \in {at[c], sent[c]} => c \in reserved
  /\ at[c] = "inspect" /\ result[c] = "empty" => schema = "empty"
  /\ at[c] = "inspect" /\ result[c] = "other" => schema = "other"
  /\ {at[c], sent[c]} \cap {"create", "version"} # {} => c \in reserved /\ schema = "empty"
  /\ txn[c].schema # "unchanged" => c \in reserved /\ schema = "empty"
  /\ at[c] = "version" /\ result[c] = "ok" => txn[c].schema = "v1"
  /\ sent[c] = "commit_schema" => txn[c].schema \in {"unchanged", "v1"}
  /\ at[c] = "commit_schema" /\ result[c] = "ok" => txn[c] = NoWrites
  /\ at[c] \in {"idle", "connect", "begin_schema", "inspect"} \cup BodyPlaces =>
       txn[c].schema = "unchanged"
  /\ sent[c] \in {"connect", "begin_schema", "inspect"} \cup BodyPlaces =>
       txn[c].schema = "unchanged"

\* A snapshot is inserted row by row under the lock and stored when its rows are complete.
SaveProgress(s) ==
  /\ txn[s].parent => s \in reserved /\ s \notin Stored /\ rowid[s] = Len(history) + 1
  /\ at[s] \in {"idle", "connect", "begin", "close_schema"} \cup SchemaPlaces =>
       s \notin Stored /\ ~txn[s].parent /\ txn[s].children = 0
  /\ sent[s] \in {"connect", "begin", "parent"} \cup SchemaPlaces =>
       s \notin Stored /\ ~txn[s].parent /\ txn[s].children = 0
  /\ at[s] \in {"parent", "child"} /\ result[s] = "ok" => txn[s].parent
  /\ sent[s] \in {"child", "commit"} => txn[s].parent
  /\ sent[s] = "child" => txn[s].children < Samples
  /\ sent[s] = "commit" => txn[s].children = Samples
  /\ txn[s].children <= Samples
  /\ at[s] \in {"parent", "child", "rollback"} => s \notin Stored
  /\ at[s] = "commit" => (s \in Stored <=> result[s] = "ok")
  /\ s \in Stored => rowid[s] \in DOMAIN history /\ history[rowid[s]] = s

\* A read looks once.
ReadProgress(r) ==
  /\ ~txn[r].parent /\ txn[r].children = 0
  /\ at[r] \in {"idle", "connect", "close_schema"} \cup SchemaPlaces => saw[r] = {}
  /\ sent[r] \in {"connect", "select"} \cup SchemaPlaces => saw[r] = {}
  /\ at[r] = "select" /\ result[r] = "ok" => saw[r] # {}
  /\ at[r] = "fetch" => saw[r] # {}

\* What a call is going to say is true, and an error has its cause.
Reasons(c) ==
  /\ result[c] = "error" => c \in faulty
  /\ at[c] \in {"rollback_schema", "close_schema"} => verdict[c] = "InitError"
  /\ at[c] = "rollback" => verdict[c] = "WriteError"
  /\ at[c] = "close" => verdict[c] \in {"Stored", "Rows", "WriteError", "ReadError", "Cancelled"}
  /\ at[c] \in {"close", "close_schema", "rollback", "rollback_schema"} =>
       /\ verdict[c] \in {"InitError", "WriteError", "ReadError"} => c \in faulty \/ schema = "other"
       /\ verdict[c] = "Stored" => c \in Savers /\ c \in Stored /\ sent[c] = "none"
       /\ verdict[c] = "Rows" => c \in Readers /\ saw[c] # {} /\ sent[c] = "none"
       /\ verdict[c] = "WriteError" => c \in Savers /\ c \notin Stored /\ sent[c] \in {"none", "rollback"}
       /\ verdict[c] = "ReadError" => c \in Readers /\ sent[c] = "none"
  /\ outcome[c] = "Stored" => c \in Savers /\ c \in Stored

\* A lock is taken by a statement and given back by the end of the transaction or by close.
LocksGivenBack(c) ==
  /\ at[c] \in {"idle", "connect"} => c \notin reserved \cup shared
  /\ sent[c] = "connect" => c \notin reserved \cup shared
  /\ at[c] \in {"close", "close_schema"} /\ result[c] # "none" => c \notin reserved \cup shared
  /\ c \in shared => c \in Readers /\ saw[c] # {} /\ c \notin abandoned

\* Together they are inductive, and they keep what the repository promises.
StoreInv ==
  /\ OneWriter
  /\ \A c \in Calls : /\ TaskAndThread(c)
                      /\ SchemaIsMine(c)
                      /\ Reasons(c)
                      /\ LocksGivenBack(c)
  /\ \A s \in Savers : SaveProgress(s)
  /\ \A r \in Readers : ReadProgress(r)
  /\ AllOrNothing
  /\ ReturnedIdIsTheRow
  /\ OnlyFaultsFail
  /\ LocksBelongToWork

-----------------------------------------------------------------------------
\* The repository is the history it promises to be: whole snapshots appended one at a time,
\* truthful saves (SnapshotWriteError means rolled back for good), reads of one moment.
History == INSTANCE SnapshotHistory
KeepsHistory == History!Spec

\* Every call returns or raises, even behind a lock nobody gives back.
EveryCallEnds == \A c \in Calls : outcome[c] = "open" ~> outcome[c] \in Ends
=============================================================================
