-------------------------- MODULE MCTemplateRelease --------------------------
(* TemplateRelease with the bounds of its configurations. *)
EXTENDS TemplateRelease, TLC

=============================================================================
