------------------------------ MODULE ConfigFile ------------------------------
(***************************************************************************)
(* What the user's configuration file promises to the processes that share *)
(* it: a save puts the whole of its configuration into the file at one     *)
(* moment or leaves the file alone, also when its process is killed, and a *)
(* load sees the file of one moment.                                       *)
(***************************************************************************)
CONSTANTS Processes, Contents, None

VARIABLES
    content,   \* of the file
    saving,    \* per process: the configuration of its save under way, or None
    read       \* per process: what its last load found

Init ==
    /\ content \in Contents
    /\ saving = [p \in Processes |-> None]
    /\ read \in [Processes -> Contents]

Begin(p) ==
    /\ saving[p] = None
    /\ \E c \in Contents : saving' = [saving EXCEPT ![p] = c]
    /\ UNCHANGED <<content, read>>

Commit(p) ==
    /\ saving[p] # None
    /\ content' = saving[p]
    /\ saving' = [saving EXCEPT ![p] = None]
    /\ UNCHANGED read

\* An error, or the process was killed.
Abandon(p) ==
    /\ saving[p] # None
    /\ saving' = [saving EXCEPT ![p] = None]
    /\ UNCHANGED <<content, read>>

Load(p) ==
    /\ read' = [read EXCEPT ![p] = content]
    /\ UNCHANGED <<content, saving>>

Next == \E p \in Processes : Begin(p) \/ Commit(p) \/ Abandon(p) \/ Load(p)

FileSpec == Init /\ [][Next]_<<content, saving, read>>
=============================================================================
