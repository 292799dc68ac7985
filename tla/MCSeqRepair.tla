---------------------------- MODULE MCSeqRepair ----------------------------
(* Instances of SeqRepair for TLC: the .cfg files give the constants values. *)
EXTENDS SeqRepair
=============================================================================
