------------------------------ MODULE MCHttpApi ------------------------------
(* HttpApi with the bounds of its configuration. *)
EXTENDS HttpApi, TLC
=============================================================================
