----------------------------- MODULE ConfigWriter -----------------------------
(***************************************************************************)
(* The user's configuration file under its loader and its writer: each     *)
(* process loads it once, when it starts, and saves its whole effective    *)
(* configuration through a temporary file that replaces the file.  Faults  *)
(* of the file system and kills may come between any two steps.            *)
(***************************************************************************)
EXTENDS OptionalValue

CONSTANTS
    Processes,
    Fields,          \* of AppConfig
    Values,
    Defaults,        \* AppConfig(): the policies' and the built-in defaults
    Environment,     \* per process: the fields its environment overrides
    FirstContents,   \* what may be in the file before: nothing, or a user's own fields
    Torn             \* what is in a file that is not written to its end

Config == [Fields -> Values]

\* Of a file: some fields of a configuration.
Contents == UNION { [fields -> Values] : fields \in SUBSET Fields }

ASSUME DefaultsAssumption == Defaults \in Config
ASSUME EnvironmentAssumption == \A p \in Processes : Environment[p] \in Contents
ASSUME ContentsAssumption == FirstContents \subseteq Contents /\ None \notin Contents

VARIABLES
    file,      \* what is in the file, empty if there is none
    temps,     \* per name of a temporary file: what is in it
    writer,    \* per process: [at, config], the save_user_config under way
    read,      \* per process: what load_effective_config found in the file
    alive      \* per process

fileVars == <<file, temps, writer, read, alive>>

\* load_effective_config: defaults < file < environment, for every field on its own.
EffectiveConfig(content, p) ==
    [f \in Fields |-> IF f \in DOMAIN Environment[p] THEN Environment[p][f]
                      ELSE IF f \in DOMAIN content THEN content[f] ELSE Defaults[f]]

EmptyFile == [f \in {} |-> None]

NotSaving == [at |-> "idle", config |-> None]

FileInit ==
    /\ file \in FirstContents
    /\ temps = [name \in Processes |-> None]
    /\ writer = [p \in Processes |-> NotSaving]
    /\ read = [p \in Processes |-> file]
    /\ alive = [p \in Processes |-> TRUE]

Started(p) == EffectiveConfig(read[p], p)

-----------------------------------------------------------------------------
\* Faulty: every process writes to the same temporary file.
TempNameShared(p) == CHOOSE q \in Processes : TRUE

\* mkstemp gives every writer a name of its own.
TempName(p) == p

InWriter(p, at) == alive[p] /\ writer[p].at = at

GoesTo(p, at) == writer' = [writer EXCEPT ![p].at = at]

BeginWrite(p, config) ==
    /\ alive[p]
    /\ writer[p].at \in {"idle", "saved", "failed"}
    /\ writer' = [writer EXCEPT ![p] = [at |-> "begun", config |-> config]]
    /\ UNCHANGED <<file, temps, read, alive>>

CreateTemp(p) ==
    /\ InWriter(p, "begun")
    /\ temps' = [temps EXCEPT ![TempName(p)] = Torn]
    /\ GoesTo(p, "created")
    /\ UNCHANGED <<file, read, alive>>

\* Written, flushed and synced.
WriteTemp(p) ==
    /\ InWriter(p, "created")
    /\ temps[TempName(p)] # None
    /\ temps' = [temps EXCEPT ![TempName(p)] = writer[p].config]
    /\ GoesTo(p, "written")
    /\ UNCHANGED <<file, read, alive>>

ReplaceFile(p) ==
    /\ InWriter(p, "written")
    /\ temps[TempName(p)] # None
    /\ file' = temps[TempName(p)]
    /\ temps' = [temps EXCEPT ![TempName(p)] = None]
    /\ GoesTo(p, "replaced")
    /\ UNCHANGED <<read, alive>>

\* An OSError of mkdir, mkstemp, write, fsync or replace.
WriteFails(p) ==
    /\ \E at \in {"begun", "created", "written"} : InWriter(p, at)
    /\ GoesTo(p, "refused")
    /\ UNCHANGED <<file, temps, read, alive>>

\* finally: the temporary file is removed, if it is still there.
RemoveTemp(p) ==
    /\ \/ InWriter(p, "replaced") /\ GoesTo(p, "saved")
       \/ InWriter(p, "refused") /\ GoesTo(p, "failed")
    /\ temps' = [temps EXCEPT ![TempName(p)] = None]
    /\ UNCHANGED <<file, read, alive>>

WriterStep(p) ==
    \/ CreateTemp(p) \/ WriteTemp(p) \/ ReplaceFile(p) \/ WriteFails(p) \/ RemoveTemp(p)

-----------------------------------------------------------------------------
\* A killed process leaves its temporary file behind.
Kill(p) ==
    /\ alive[p]
    /\ alive' = [alive EXCEPT ![p] = FALSE]
    /\ UNCHANGED <<file, temps, writer, read>>

\* It is started again, and loads the file.
Restart(p) ==
    /\ ~alive[p]
    /\ alive' = [alive EXCEPT ![p] = TRUE]
    /\ read' = [read EXCEPT ![p] = file]
    /\ writer' = [writer EXCEPT ![p] = NotSaving]
    /\ temps' = [temps EXCEPT ![TempName(p)] = None]   \* a new name
    /\ UNCHANGED file

-----------------------------------------------------------------------------
Pending(p) == alive[p] /\ writer[p].at \in {"begun", "created", "written"}

Shared == INSTANCE ConfigFile WITH
    content <- file,
    saving <- [p \in Processes |-> IF Pending(p) THEN writer[p].config ELSE None]

\* Whoever saves, is refused or is killed at whatever step, the file is always one
\* whole configuration that somebody saved or the one there was before, and a start
\* never finds it missing or half written: docs/CUI_DESIGN.md:747.
SavesAreAtomic == Shared!FileSpec
=============================================================================
