--------------------------- MODULE MCTaskService ---------------------------
(***************************************************************************)
(* TaskService on small sets of requests.                                  *)
(***************************************************************************)
EXTENDS TaskService

=============================================================================
