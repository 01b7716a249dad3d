-------------------------- MODULE SettingsViewModel --------------------------
(***************************************************************************)
(* The settings page of the terminal application: a draft of the whole     *)
(* configuration, saved by a worker that writes the file in a thread, and  *)
(* the warning that guards the draft when the page is left.                *)
(***************************************************************************)
EXTENDS TuiWorkers

CONSTANTS
    Configs,           \* the configurations a user may stage
    Effective          \* the one the application was started with

ASSUME EffectiveAssumption == Effective \in Configs

VARIABLE settings  \* [saved, draft, error, armed, editor, message, saving, pending]

settingsVars == <<settings>>

SettingsInit ==
    settings = [saved |-> Effective, draft |-> Effective, error |-> FALSE,
                armed |-> FALSE, editor |-> FALSE, message |-> "none",
                saving |-> None, pending |-> FALSE]

IsDirty(s) == s.draft # s.saved

Dirty == IsDirty(settings)

\* _render_message: an error hides the warning, the warning hides the rest.
RenderMessage(s) ==
    [s EXCEPT !.message = IF s.error THEN "error"
                          ELSE IF s.armed THEN "discard_confirm"
                          ELSE IF IsDirty(s) THEN "unsaved"
                          ELSE "none"]

\* SettingsView.discard
Discarded(s) ==
    RenderMessage([s EXCEPT !.draft = s.saved, !.error = FALSE, !.armed = FALSE,
                            !.editor = FALSE])

-----------------------------------------------------------------------------
(***************************************************************************)
(* arm_discard: the first attempt to leave a dirty page is turned into a   *)
(* warning, the next one discards the draft and leaves.                    *)
(***************************************************************************)
Intercepts == Dirty /\ ~settings.armed

Warn == settings' = RenderMessage([settings EXCEPT !.armed = TRUE])

LeavePage == settings' = IF Dirty THEN Discarded(settings) ELSE settings

-----------------------------------------------------------------------------
SelectField ==
    /\ ~settings.editor
    /\ settings' = [settings EXCEPT !.editor = TRUE]

CloseEditor ==
    /\ settings.editor
    /\ settings' = [settings EXCEPT !.editor = FALSE]

\* A value the configuration model accepts closes the editor, one it refuses is an
\* error that stays until a value is accepted, saved or discarded.
Stage ==
    /\ settings.editor
    /\ \/ \E c \in Configs :
            settings' = RenderMessage([settings EXCEPT !.draft = c, !.error = FALSE,
                                                       !.editor = FALSE])
       \/ settings' = RenderMessage([settings EXCEPT !.error = TRUE])

\* update_editor_state: rendering the page again takes the warning back.
Updated(s) == RenderMessage([s EXCEPT !.armed = FALSE])

\* Typing into the filter.
FilterSettings ==
    /\ settings.armed
    /\ settings' = Updated(settings)

DiscardDraft ==
    /\ Dirty
    /\ settings' = Discarded(settings)

SaveSettings ==
    /\ ~settings.pending
    /\ Dirty
    /\ settings' = [settings EXCEPT !.pending = TRUE]
    /\ Start(<<"save">>)

BeginSave ==
    /\ Turn("save", <<>>)
    /\ settings' = IF Dirty THEN [settings EXCEPT !.saving = settings.draft]
                   ELSE Updated([settings EXCEPT !.pending = FALSE])

\* What is saved is the draft of the moment the save began, whatever became of it.
SaveEnds ==
    /\ settings.saving # None
    /\ \E written \in BOOLEAN :
         settings' = Updated([settings EXCEPT
                       !.saved = IF written THEN settings.saving ELSE @,
                       !.error = ~written, !.saving = None, !.pending = FALSE])
    /\ UNCHANGED ready
=============================================================================
