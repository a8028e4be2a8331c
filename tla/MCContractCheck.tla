--------------------------- MODULE MCContractCheck ---------------------------
(* ContractCheck with the bounds of its configuration. *)
EXTENDS ContractCheck, TLC

(* Any flaw in the first service; the second tells whether the verdict on  *)
(* the first is kept.                                                      *)
MCFlaws == <<AllFlaws, {"unbuilt", "unready", "answers"}>>

=============================================================================
