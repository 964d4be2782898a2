--------------------------- MODULE MCTaskManager ---------------------------
(***************************************************************************)
(* Instance of TaskManager for TLC.                                        *)
(***************************************************************************)
EXTENDS TaskManager

CONSTANT w1

=============================================================================
