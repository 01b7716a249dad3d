------------------------------ MODULE TuiWorkers ------------------------------
(***************************************************************************)
(* The event loop under the terminal application.  A key or a button is    *)
(* handled at once, without a wait; what has to wait is started as a       *)
(* worker (App.run_worker), and started workers take their first step in   *)
(* the order they were started.  Several keys may be handled before a      *)
(* worker's first step.  The loop and run_worker belong to asyncio and     *)
(* Textual, outside the repository.                                        *)
(***************************************************************************)
EXTENDS OptionalValue, Sequences

CONSTANT MaxReady  \* bound of the workers waiting for their first step

VARIABLE ready     \* their names, in the order they were started

\* The user acts, while the loop keeps up.
Gesture == Len(ready) < MaxReady

Start(workers) == ready' = ready \o workers

\* The turn of this worker, which goes on to start others.
Turn(worker, started) ==
    /\ ready # <<>>
    /\ Head(ready) = worker
    /\ ready' = Tail(ready) \o started

\* What arrives from a thread, a process or a service wakes its coroutine behind the
\* workers that were started before.
Arrival == ready = <<>>
=============================================================================
