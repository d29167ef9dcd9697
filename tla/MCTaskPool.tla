----------------------------- MODULE MCTaskPool -----------------------------
(* The instance of TaskPool: the .cfg file gives its constants. *)
EXTENDS TaskPool
=============================================================================
