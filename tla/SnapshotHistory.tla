---------------------------- MODULE SnapshotHistory ----------------------------
(***************************************************************************)
(* What the snapshot repository promises: a history that grows by one whole*)
(* snapshot at a time and never changes otherwise, saves that are answered *)
(* truthfully, and reads that answer with the history of one moment between*)
(* their call and their answer. Connections, locks, transactions and       *)
(* schemas do not exist here. Each save is a call with a snapshot of its   *)
(* own, so a snapshot is named by its call.                                *)
(***************************************************************************)
EXTENDS Naturals, Sequences

CONSTANTS
  Savers,   \* calls of save_snapshot
  Readers   \* calls of get_snapshot, get_latest_snapshot and list_snapshots

Calls == Savers \cup Readers

VARIABLES
  history,  \* the stored snapshots, by row id
  saw,      \* of a read: the history it was given, once it has looked
  outcome   \* of a call

historyVars == <<history, saw, outcome>>

Stored == { history[i] : i \in DOMAIN history }

Errors == {"InitError", "WriteError", "ReadError", "CoherenceError"}

Init ==
  /\ history = <<>>
  /\ saw = [r \in Readers |-> {}]
  /\ outcome = [c \in Calls |-> "idle"]

Settle(c, how) == outcome' = [outcome EXCEPT ![c] = how]

Start(c) ==
  /\ outcome[c] = "idle"
  /\ Settle(c, "open")
  /\ UNCHANGED <<history, saw>>

\* A snapshot enters the history, while its save is open or after a cancelled one.
Append1(s) ==
  /\ outcome[s] \in {"open", "Cancelled"}
  /\ s \notin Stored
  /\ history' = Append(history, s)
  /\ UNCHANGED <<saw, outcome>>

Look(r) ==
  /\ outcome[r] \in {"open", "Cancelled"}
  /\ saw[r] = {}
  /\ saw' = [saw EXCEPT ![r] = {history}]
  /\ UNCHANGED <<history, outcome>>

\* A save says it stored its snapshot only if it did, a read answers what it saw.
Answer(c) ==
  /\ outcome[c] = "open"
  /\ \/ c \in Savers /\ c \in Stored /\ Settle(c, "Stored")
     \/ c \in Readers /\ saw[c] # {} /\ Settle(c, "Rows")
  /\ UNCHANGED <<history, saw>>

\* An error of a save says that the snapshot is not there, and it never will be.
Fail(c) ==
  /\ outcome[c] \in {"idle", "open"}
  /\ c \in Savers => c \notin Stored
  /\ \E error \in Errors : Settle(c, error)
  /\ UNCHANGED <<history, saw>>

\* A cancelled call and a killed one leave open whether they did it.
BreakOff(c) ==
  /\ outcome[c] \in {"open", "Cancelled"}
  /\ \E how \in {"Cancelled", "Killed"} : Settle(c, how)
  /\ UNCHANGED <<history, saw>>

Next ==
  \/ \E c \in Calls : Start(c) \/ Answer(c) \/ Fail(c) \/ BreakOff(c)
  \/ \E s \in Savers : Append1(s)
  \/ \E r \in Readers : Look(r)

Spec == Init /\ [][Next]_historyVars
=============================================================================
