------------------------------ MODULE MCSender ------------------------------
(* Instances of Sender for TLC: the .cfg files give the constants values. *)
EXTENDS Sender
=============================================================================
