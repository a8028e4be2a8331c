-------------------------- MODULE MCConfigureGithub --------------------------
(* ConfigureGithub with the bounds of its configuration. *)
EXTENDS ConfigureGithub, TLC

MCPageSize == [rulesets |-> 3, variables |-> 2]

=============================================================================
