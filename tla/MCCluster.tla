------------------------------ MODULE MCCluster ------------------------------
(***************************************************************************)
(* The configurations of a cluster that the runs start from.               *)
(***************************************************************************)
EXTENDS ScalewayCluster

Config(network, gateway, gatewayIP, balancerIP, balancerZone, gatewayZone) ==
    [pn |-> network, gw |-> gateway, gwIP |-> gatewayIP, lbIP |-> balancerIP, lbZone |-> balancerZone,
     gwZone |-> gatewayZone]

\* Nothing but a load balancer; a managed network and gateway; the same with IPs
\* of the user; an existing network with and without a gateway.
Various == {Config("none", FALSE, FALSE, FALSE, FALSE, FALSE),
            Config("managed", TRUE, FALSE, FALSE, FALSE, FALSE),
            Config("managed", TRUE, TRUE, TRUE, FALSE, FALSE),
            Config("existing", FALSE, FALSE, FALSE, FALSE, FALSE),
            Config("existing", TRUE, FALSE, FALSE, FALSE, FALSE)}

\* The ones that can become ready, see ExistingNetworkIsUsable.
Usable == {c \in Various : c.pn # "existing"}

\* The load balancer has a zone of its own, and the gateway as well or not, or
\* both have an IP of the user.
PinnedLB == {Config("managed", TRUE, FALSE, FALSE, TRUE, FALSE),
             Config("managed", TRUE, FALSE, FALSE, TRUE, TRUE),
             Config("managed", TRUE, TRUE, TRUE, FALSE, FALSE)}

ExistingNetwork == {Config("existing", TRUE, FALSE, FALSE, FALSE, FALSE)}

=============================================================================
