------------------------------ MODULE MCBudget ------------------------------
(* Instances of Budget for TLC: the .cfg files give the constants values. *)
EXTENDS Budget
=============================================================================
