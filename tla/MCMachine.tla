----------------------------- MODULE MCMachine -----------------------------
(***************************************************************************)
(* The instances of ScalewayMachine that the runs check: small sets of     *)
(* machines, addresses and volumes, given in the configuration files.      *)
(***************************************************************************)
EXTENDS ScalewayMachine
=============================================================================
