--------------------------- MODULE MCStatusService ---------------------------
(***************************************************************************)
(* StatusService with two requests of which one refreshes, and a capture of*)
(* another process.                                                        *)
(***************************************************************************)
EXTENDS StatusService

CONSTANTS refresh, watch, capture
=============================================================================
