---------------------------- MODULE MCLocalVerify ----------------------------
(* LocalVerify with the bounds of its configuration. *)
EXTENDS LocalVerify, TLC

(* Every toolchain, and a client without a service. *)
MCPresentSets == { Modules, {"mcp-server"} }

=============================================================================
