-------------------------- MODULE MCServiceShutdown --------------------------
(* ServiceShutdown with the bounds of its configuration. *)
EXTENDS ServiceShutdown, TLC
=============================================================================
