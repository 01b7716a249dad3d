---------------------------- MODULE MCCodexSession ----------------------------
(***************************************************************************)
(* CodexSession with a server that knows three cursors.                      *)
(***************************************************************************)
EXTENDS CodexSession

CONSTANTS first, second, third
=============================================================================
