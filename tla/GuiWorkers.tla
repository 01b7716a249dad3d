------------------------------ MODULE GuiWorkers ------------------------------
(***************************************************************************)
(* Under the desktop application: a view model starts an operation on a    *)
(* worker of the thread pool and is busy; what the operation returns or    *)
(* raises is emitted by the worker and delivered to the view model on the  *)
(* GUI thread.  The thread pool and the queued delivery are Qt's.          *)
(***************************************************************************)
EXTENDS OptionalValue, SequencesExt

CONSTANTS
    ViewModels,
    MaxThreads,    \* threads of the pool
    Raised         \* an exception in the place of a value

VARIABLES
    busy,          \* BaseViewModel: per view model
    error,         \* per view model: a message is shown
    queue,         \* operations waiting for a thread, [vm, op, arg]
    threads,       \* operations on a thread, [vm, op, arg, at]
    events         \* what is emitted and not delivered yet, [vm, op, arg, value]

workerVars == <<busy, error, queue, threads, events>>

WorkersInit ==
    /\ busy = [v \in ViewModels |-> FALSE]
    /\ error = [v \in ViewModels |-> FALSE]
    /\ queue = <<>> /\ threads = <<>> /\ events = <<>>

\* _begin, and AsyncRunner.start.
Begin(v, op, arg) ==
    /\ busy' = [busy EXCEPT ![v] = TRUE]
    /\ error' = [error EXCEPT ![v] = FALSE]
    /\ queue' = Append(queue, [vm |-> v, op |-> op, arg |-> arg])
    /\ UNCHANGED <<threads, events>>

\* _fail before anything was started.
Refuse(v) ==
    /\ busy' = [busy EXCEPT ![v] = FALSE]
    /\ error' = [error EXCEPT ![v] = TRUE]
    /\ UNCHANGED <<queue, threads, events>>

\* _CoroutineWorker.run begins: each worker runs an event loop of its own.
TakeThread ==
    /\ queue # <<>>
    /\ Len(threads) < MaxThreads
    /\ threads' = Append(threads, [vm |-> Head(queue).vm, op |-> Head(queue).op,
                                   arg |-> Head(queue).arg, at |-> "begun"])
    /\ queue' = Tail(queue)
    /\ UNCHANGED <<busy, error, events>>

OnThread(i, op, at) == threads[i].op = op /\ threads[i].at = at

MovesTo(i, at) ==
    /\ threads' = [threads EXCEPT ![i].at = at]
    /\ UNCHANGED <<busy, error, queue, events>>

\* The operation is over: succeeded with a value, or failed.
Emits(i, value) ==
    /\ events' = Append(events, [vm |-> threads[i].vm, op |-> threads[i].op,
                                 arg |-> threads[i].arg, value |-> value])
    /\ threads' = RemoveAt(threads, i)
    /\ UNCHANGED <<busy, error, queue>>

Delivers(op) == events # <<>> /\ Head(events).op = op

Delivered == Head(events)

\* _finish
Finishes ==
    /\ busy' = [busy EXCEPT ![Delivered.vm] = FALSE]
    /\ events' = Tail(events)
    /\ UNCHANGED <<error, queue, threads>>

\* _fail
Fails ==
    /\ busy' = [busy EXCEPT ![Delivered.vm] = FALSE]
    /\ error' = [error EXCEPT ![Delivered.vm] = TRUE]
    /\ events' = Tail(events)
    /\ UNCHANGED <<queue, threads>>

FinishesOrFails == IF Delivered.value = Raised THEN Fails ELSE Finishes
=============================================================================
