-------------------------- MODULE MCCodexCliAdapter --------------------------
(***************************************************************************)
(* CodexCliAdapter with its two output pipes.                              *)
(***************************************************************************)
EXTENDS CodexCliAdapter

CONSTANTS stdout, stderr
=============================================================================
