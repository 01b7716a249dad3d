---------------------------- MODULE TuiNavigation ----------------------------
(***************************************************************************)
(* Moving between the pages of the terminal application: the current page, *)
(* the stack behind Esc, the warning of the settings page on the way out   *)
(* and the loads a page starts on the way in.                              *)
(***************************************************************************)
EXTENDS SettingsViewModel, TuiLoads

CONSTANT MaxBack   \* bound of the back stack

VARIABLES
    dest,          \* current_destination
    back           \* the destinations Esc returns to, the last one first

navigationVars == <<dest, back>>

NavigationInit == dest = "overview" /\ back = <<>>

Leaves(d, stack) ==
    /\ dest' = d
    /\ back' = stack
    /\ IF dest = "settings" THEN LeavePage ELSE UNCHANGED settingsVars

\* Entering models loads only what was never loaded.
LoadsOnEntry(d) == d \in LoadKinds /\ (d = "models" => loads[d].status = "empty")

Enters(d) ==
    IF LoadsOnEntry(d) THEN loads' = Asked(d) /\ Start(Workers(d))
    ELSE UNCHANGED <<loads, ready>>

\* navigate: to the page that is shown already it does nothing.
Navigate(d) ==
    /\ d # dest
    /\ IF dest = "settings" /\ Intercepts
       THEN Warn /\ UNCHANGED <<navigationVars, loads, ready>>
       ELSE Len(back) < MaxBack /\ Leaves(d, Append(back, dest)) /\ Enters(d)
    /\ UNCHANGED <<store, overview, usageRefresh>>

\* _navigate_back: loads nothing, and at the overview with no history stays there.
NavigateBack ==
    IF dest = "settings" /\ Intercepts THEN Warn /\ UNCHANGED navigationVars
    ELSE IF back = <<>> THEN Leaves("overview", back)
    ELSE Leaves(Last(back), Front(back))
=============================================================================
