--------------------------- MODULE MCRangeRepair ---------------------------
(* Instances of RangeRepair for TLC: the .cfg files give the constants values. *)
EXTENDS RangeRepair
=============================================================================
