----------------------------- MODULE MCProvider ------------------------------
(***************************************************************************)
(* A managed Private Network without a Public Gateway.                     *)
(***************************************************************************)
EXTENDS Provider

ManagedNetwork == {[pn |-> "managed", gw |-> FALSE, gwIP |-> FALSE, lbIP |-> FALSE,
                    lbZone |-> FALSE, gwZone |-> FALSE]}

=============================================================================
