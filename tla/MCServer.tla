------------------------------ MODULE MCServer ------------------------------
(* The instance of Server and ThreadPool: the .cfg file gives its constants. *)
EXTENDS Server
=============================================================================
