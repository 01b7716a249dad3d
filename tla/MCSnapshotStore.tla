--------------------------- MODULE MCSnapshotStore ---------------------------
(***************************************************************************)
(* SnapshotStore with a few processes, each making one call.               *)
(***************************************************************************)
EXTENDS SnapshotStore

CONSTANTS save1, save2, read1
=============================================================================
