----------------------------- MODULE MCTransfer -----------------------------
(* Instances of Transfer for TLC: the .cfg files give the constants values. *)
EXTENDS Transfer
=============================================================================
