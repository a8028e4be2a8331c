---------------------------- MODULE MCMcpGateway ----------------------------
(* McpGateway on two calls that race on one task. *)
EXTENDS McpGateway, TLC
=============================================================================
