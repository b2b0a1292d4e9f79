----------------------------- MODULE MCOpsHistory -----------------------------
(***************************************************************************)
(* A small instance of OpsHistory for TLC. Requests are told apart only by *)
(* what they ask for, so permutations of them are symmetries; the runs     *)
(* check invariants only.                                                  *)
(***************************************************************************)
EXTENDS OpsHistory, TLC

AnyOrder == Permutations(Requests)
===============================================================================
