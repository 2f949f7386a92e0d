--------------------------- MODULE ScalewayCluster ---------------------------
(***************************************************************************)
(* The ScalewayCluster controller and the services it runs in turn:        *)
(* security groups, Private Network, Public Gateway and load balancer.     *)
(*                                                                         *)
(* A reconcile is a sequence of Scaleway API calls, one action each; a     *)
(* lookup is part of the action of the call that depends on it.  Between   *)
(* two calls the user edits or deletes the object, the cloud brings a load *)
(* balancer or a gateway up or takes it down, and the process may crash.   *)
(* The worker keeps using the spec it loaded at the start (want).          *)
(***************************************************************************)
EXTENDS Reconciler, FiniteSets, SecurityGroupOutcomes

CONSTANTS
    Configs,          \* the immutable choices users start with, see AllConfigs
    Zones,            \* zones of the region
    FirstZone,        \* the failure domain first listed by the user
    Ranges,           \* IP ranges for controlPlaneLoadBalancer.allowedRanges
    SGNames,          \* security group names
    GwAddrs,          \* addresses the cloud may hand out to gateways
    None,             \* nil
    InitiallyPaused,  \* is the Cluster paused when the object appears?
    Resync,           \* is the periodic resync of the informers modelled?
    MaxEdits          \* bound: edits of the object by the user

\* privateNetwork: disabled, created by the controller, or given by its ID;
\* publicGateway.enabled; publicGateway.ip and controlPlaneLoadBalancer.ip given
\* by the user or not; controlPlaneLoadBalancer.zone and publicGateway.zone set (to
\* FirstZone) or not.
AllConfigs == [pn : {"none", "managed", "existing"}, gw : BOOLEAN, gwIP : BOOLEAN,
               lbIP : BOOLEAN, lbZone : BOOLEAN, gwZone : BOOLEAN]

ASSUME ConfigAssumption == Configs \subseteq AllConfigs
ASSUME ZoneAssumption == FirstZone \in Zones /\ None \notin Zones
ASSUME EditAssumption == MaxEdits \in Nat
ASSUME SwitchAssumption == InitiallyPaused \in BOOLEAN /\ Resync \in BOOLEAN

VARIABLES
    conf,      \* the part of spec that the webhook declares immutable
    spec,      \* the part of spec the webhook lets the user edit
    obj,       \* the rest of the ScalewayCluster in the API server
    owner,     \* has the Cluster controller set the OwnerRef?
    paused,    \* Cluster.spec.paused
    queued,    \* is the object in the work queue?
    sgs,       \* security groups that carry the tags of the cluster
    pn,        \* does the managed Private Network exist?
    gwIPs,     \* gateway IPs that carry the tags of the cluster, per zone
    gw,        \* the Public Gateway that carries the name of the cluster, per zone
    lb,        \* the load balancer that carries that name, per zone
    userIPs,   \* IPs given by the user that still exist
    servers,   \* do servers of the cluster use its network and security groups?
    want,      \* spec as loaded by the reconcile
    base, mem, \* the fields the controller writes: as loaded, as changed in memory
    edits      \* edits so far

k8s   == <<conf, spec, obj, owner, paused, edits>>
net   == <<sgs, pn, gwIPs, gw>>
cloud == <<net, lb, userIPs, servers>>
local == <<want, base, mem>>
vars  == <<k8s, queued, cloud, local, pc, res, faults>>

-----------------------------------------------------------------------------
(* Types *)

SpecFields == [fd : Zones, allowed : SUBSET Ranges, sgs : SUBSET SGNames]

NoSpec == [fd |-> FirstZone, allowed |-> {}, sgs |-> {}]

Fields == [finalizer : BOOLEAN, endpoint : Zones \cup {None}, ready : BOOLEAN,
           pnID : BOOLEAN, fd : Zones \cup {None}]

NoFields == [finalizer |-> FALSE, endpoint |-> None, ready |-> FALSE,
             pnID |-> FALSE, fd |-> None]

Gateways == [state : {"none", "allocating", "running", "deleting"}, net : BOOLEAN]

NoGateway == [state |-> "none", net |-> FALSE]

\* Backends and frontends are the ones the controller names, or foreign ones.
Parts == {"own", "foreign"}

LoadBalancers == [state : {"none", "creating", "ready", "deleting"}, net : BOOLEAN,
                  backends : SUBSET Parts, frontends : SUBSET Parts,
                  allowed : SUBSET Ranges, gws : SUBSET Zones, deny : BOOLEAN]

NoLB == [state |-> "none", net |-> FALSE, backends |-> {}, frontends |-> {},
         allowed |-> {}, gws |-> {}, deny |-> FALSE]

PCs == {"idle", "close", "finalizer", "sg", "pn", "gw", "gwIP", "gwCreate", "gwNet",
        "lb", "lbNet", "backend", "frontend", "aclRanges", "aclGw", "aclDeny", "publish",
        "delLB", "delGw", "delGwIP", "delPN", "delSG", "unfinalize"}

TypeOK ==
    /\ conf \in AllConfigs /\ spec \in SpecFields
    /\ obj \in [exists : BOOLEAN, deleting : BOOLEAN, f : Fields]
    /\ owner \in BOOLEAN /\ paused \in BOOLEAN /\ queued \in BOOLEAN
    /\ sgs \in SUBSET SGNames /\ pn \in BOOLEAN
    /\ gwIPs \in [Zones -> SUBSET GwAddrs]
    /\ gw \in [Zones -> Gateways] /\ lb \in [Zones -> LoadBalancers]
    /\ userIPs \in SUBSET {"lb", "gw"} /\ servers \in BOOLEAN
    /\ want \in SpecFields /\ base \in Fields /\ mem \in Fields
    /\ pc \in PCs /\ res \in Results
    /\ faults \in 0..MaxFaults /\ edits \in 0..MaxEdits

GivenIPs(c) == {u \in {"lb", "gw"} : IF u = "lb" THEN c.lbIP ELSE c.gwIP}

Init ==
    /\ conf \in Configs
    /\ spec \in [fd : {FirstZone}, allowed : SUBSET Ranges, sgs : {SGNames}]
    /\ obj = [exists |-> TRUE, deleting |-> FALSE, f |-> NoFields]
    /\ owner = FALSE /\ paused = InitiallyPaused /\ queued = TRUE
    /\ sgs = {} /\ pn = FALSE
    /\ gwIPs = [z \in Zones |-> {}] /\ gw = [z \in Zones |-> NoGateway]
    /\ lb = [z \in Zones |-> NoLB]
    /\ userIPs = GivenIPs(conf) /\ servers = FALSE
    /\ want = NoSpec /\ base = NoFields /\ mem = NoFields
    /\ pc = "idle" /\ res = "done" /\ faults = 0 /\ edits = 0

-----------------------------------------------------------------------------
(* scope.Cluster *)

HasPrivateNetwork == conf.pn # "none"

ShouldManagePrivateNetwork == conf.pn = "managed"

\* Faulty variant: the zone the user chose for the load balancer is ignored.
ZoneOfFailureDomain == want.fd

\* Without zones in the spec, the first failure domain decides.
LoadBalancerZone == IF conf.lbZone THEN FirstZone ELSE want.fd

PublicGatewayZone == IF conf.gwZone THEN FirstZone ELSE want.fd

\* The failure domains to publish, of which the first one matters here.
FailureDomains == want.fd

\* PrivateNetworkID dereferences status.network, which only
\* SetStatusPrivateNetworkID allocates.
StatusNetworkIsNil == ~mem.pnID

\* A call fails without effect.
CallRefused(p) == pc = p /\ CallFails /\ UNCHANGED <<k8s, queued, cloud, local>>

-----------------------------------------------------------------------------
(* Reconcile: from the queue to reconcileNormal or reconcileDelete *)

SkipReconcile ==
    /\ pc = "idle" /\ queued
    /\ ~obj.exists \/ (owner /\ paused)
    /\ queued' = FALSE
    /\ UNCHANGED <<k8s, cloud, local, pc, res, faults>>

\* An error of Get, or a missing OwnerRef, ends in a requeue without any effect.
GetFails ==
    /\ pc = "idle" /\ queued /\ obj.exists
    /\ Fault
    /\ UNCHANGED <<k8s, queued, cloud, local, pc, res>>

Reconcile ==
    /\ pc = "idle" /\ queued /\ obj.exists
    /\ owner /\ ~paused
    /\ queued' = FALSE
    /\ want' = spec /\ base' = obj.f /\ mem' = obj.f
    /\ pc' = IF obj.deleting THEN "delLB" ELSE "finalizer"
    /\ UNCHANGED <<k8s, cloud, res, faults>>

HasFinalizer ==
    /\ pc = "finalizer" /\ mem.finalizer
    /\ Proceed("sg")
    /\ UNCHANGED <<k8s, queued, cloud, local>>

\* The patch of an object whose deletion has completed meanwhile is refused.
FinalizerTooLate ==
    /\ pc = "finalizer" /\ ~mem.finalizer /\ ~obj.exists
    /\ mem' = [mem EXCEPT !.finalizer = TRUE]
    /\ Return("error")
    /\ UNCHANGED <<k8s, queued, cloud, want, base>>

\* Faulty variant: the finalizer is only added in memory.
FinalizerInMemory == UNCHANGED <<obj, queued>>

\* The finalizer is stored before anything is created in the cloud.
StoreFinalizer == obj' = [obj EXCEPT !.f.finalizer = TRUE] /\ queued' = TRUE

AddFinalizer ==
    /\ pc = "finalizer" /\ ~mem.finalizer /\ obj.exists
    /\ mem' = [mem EXCEPT !.finalizer = TRUE]
    /\ \/ StoreFinalizer /\ Reply("sg")
       \/ CallFails /\ UNCHANGED <<obj, queued>>
    /\ UNCHANGED <<conf, spec, owner, paused, edits, cloud, want, base>>

-----------------------------------------------------------------------------
(* securitygroup.Service *)

\* A group that a server uses cannot be deleted.  Which ones servers use is not
\* modelled here: any of those to delete may be.
SGsInUse(names) == servers /\ sgs \ names # {}

\* The whole call, which SecurityGroups models step by step.
EnsureSecurityGroups(names, next) ==
    \/ sgs' = names /\ Proceed(next)
    \/ SGsInUse(names) /\ Return("error") /\ sgs' \in BlockedSGs(sgs, names)
    \/ CallFails /\ sgs' \in PartialSGs(sgs, names)

\* Also publishes the failure domains, in memory, just before.
ReconcileSecurityGroups ==
    /\ pc = "sg"
    /\ mem' = [mem EXCEPT !.fd = FailureDomains]
    /\ EnsureSecurityGroups(want.sgs, "pn")
    /\ UNCHANGED <<k8s, queued, pn, gwIPs, gw, lb, userIPs, servers, want, base>>

-----------------------------------------------------------------------------
(* vpc.Service and vpcgw.Service *)

\* Only a network the controller manages gets its ID into the status.
ReconcilePrivateNetwork ==
    /\ pc = "pn"
    /\ \/ ~ShouldManagePrivateNetwork /\ Proceed("gw") /\ UNCHANGED <<pn, mem>>
       \/ /\ ShouldManagePrivateNetwork
          /\ pn' = TRUE
          /\ \/ Proceed("gw") /\ mem' = [mem EXCEPT !.pnID = TRUE]
             \/ ~pn /\ CallFails /\ UNCHANGED mem
    /\ UNCHANGED <<k8s, queued, sgs, gwIPs, gw, lb, userIPs, servers, want, base>>

FindGateway ==
    /\ pc = "gw"
    /\ Proceed(IF ~HasPrivateNetwork \/ ~conf.gw THEN "lb"
               ELSE IF gw[PublicGatewayZone].state = "none" THEN "gwIP" ELSE "gwNet")
    /\ UNCHANGED <<k8s, queued, cloud, local>>

FreeGwAddrs == GwAddrs \ UNION {gwIPs[z] : z \in Zones}

\* Faulty variant: an IP is created without looking for the one made before.
AlwaysCreateGatewayIP ==
    /\ pc = "gwIP" /\ Reply("gwCreate")
    /\ \E a \in FreeGwAddrs : gwIPs' = [gwIPs EXCEPT ![PublicGatewayZone] = @ \cup {a}]
    /\ UNCHANGED <<k8s, queued, sgs, pn, gw, lb, userIPs, servers, local>>

\* FindGatewayIPByTags: more than one hit is an error, no hit creates an IP.
GetOrCreateGatewayIP ==
    /\ pc = "gwIP"
    /\ LET z == PublicGatewayZone IN
       \/ conf.gwIP /\ Proceed("gwCreate") /\ UNCHANGED gwIPs
       \/ /\ ~conf.gwIP /\ gwIPs[z] # {} /\ UNCHANGED gwIPs
          /\ IF Cardinality(gwIPs[z]) = 1 THEN Proceed("gwCreate") ELSE Return("error")
       \/ ~conf.gwIP /\ gwIPs[z] = {} /\ FreeGwAddrs = {} /\ Return("error") /\ UNCHANGED gwIPs
       \/ /\ ~conf.gwIP /\ gwIPs[z] = {}
          /\ \E a \in FreeGwAddrs : gwIPs' = [gwIPs EXCEPT ![z] = {a}]
          /\ Reply("gwCreate")
    /\ UNCHANGED <<k8s, queued, sgs, pn, gw, lb, userIPs, servers, local>>

\* An IP can be attached to one gateway only.
GatewayIPBusy(z) == conf.gwIP /\ \E y \in Zones \ {z} : gw[y].state # "none"

CreateGateway ==
    /\ pc = "gwCreate"
    /\ LET z == PublicGatewayZone IN
       \/ GatewayIPBusy(z) /\ Return("error") /\ UNCHANGED gw
       \/ /\ ~GatewayIPBusy(z)
          /\ gw' = [gw EXCEPT ![z].state = "allocating"]
          /\ Reply("gwNet")
    /\ UNCHANGED <<k8s, queued, sgs, pn, gwIPs, lb, userIPs, servers, local>>

AttachGateway ==
    /\ pc = "gwNet"
    /\ LET z == PublicGatewayZone IN
       \/ StatusNetworkIsNil /\ Return("panic") /\ UNCHANGED gw
       \/ ~StatusNetworkIsNil /\ gw[z].net /\ Proceed("lb") /\ UNCHANGED gw
       \/ /\ ~StatusNetworkIsNil /\ ~gw[z].net
          /\ gw' = [gw EXCEPT ![z].net = TRUE]
          /\ Reply("lb")
    /\ UNCHANGED <<k8s, queued, sgs, pn, gwIPs, lb, userIPs, servers, local>>

-----------------------------------------------------------------------------
(* loadbalancer.Service.Reconcile *)

LBIPBusy(z) == conf.lbIP /\ \E y \in Zones \ {z} : lb[y].state # "none"

\* A load balancer that is not ready ends the reconcile with a requeue.
GetOrCreateLB ==
    /\ pc = "lb"
    /\ LET z == LoadBalancerZone IN
       \/ lb[z].state = "ready" /\ Proceed("lbNet") /\ UNCHANGED lb
       \/ lb[z].state \in {"creating", "deleting"} /\ Return("requeue") /\ UNCHANGED lb
       \/ lb[z].state = "none" /\ LBIPBusy(z) /\ Return("error") /\ UNCHANGED lb
       \/ /\ lb[z].state = "none" /\ ~LBIPBusy(z)
          /\ lb' = [lb EXCEPT ![z].state = "creating"]
          /\ Return("requeue") \/ CallFails
    /\ UNCHANGED <<k8s, queued, net, userIPs, servers, local>>

\* Faulty variant: the load balancer is not attached to the Private Network.
LBNotAttached ==
    /\ pc = "lbNet" /\ Proceed("backend")
    /\ UNCHANGED <<k8s, queued, cloud, local>>

AttachLB ==
    /\ pc = "lbNet"
    /\ LET z == LoadBalancerZone IN
       \/ ~HasPrivateNetwork /\ Proceed("backend") /\ UNCHANGED lb
       \/ HasPrivateNetwork /\ StatusNetworkIsNil /\ Return("panic") /\ UNCHANGED lb
       \/ HasPrivateNetwork /\ ~StatusNetworkIsNil /\ lb[z].net /\ Proceed("backend") /\ UNCHANGED lb
       \/ /\ HasPrivateNetwork /\ ~StatusNetworkIsNil /\ ~lb[z].net
          /\ lb' = [lb EXCEPT ![z].net = TRUE]
          /\ Reply("backend")
    /\ UNCHANGED <<k8s, queued, net, userIPs, servers, local>>

\* Foreign parts are deleted one by one, then the missing own part is created:
\* what is left of parts when the loop ends or stops half-way.
EnsureOwnPart(parts, left, next) ==
    \/ left = {"own"} /\ Proceed(next)
    \/ left = {"own"} /\ parts # {"own"} /\ CallFails
    \/ left = parts \ {"foreign"} /\ "foreign" \in parts /\ CallFails

EnsureBackend ==
    /\ pc = "backend"
    /\ LET z == LoadBalancerZone IN \E left \in SUBSET Parts :
          /\ EnsureOwnPart(lb[z].backends, left, "frontend")
          /\ lb' = [lb EXCEPT ![z].backends = left]
    /\ UNCHANGED <<k8s, queued, net, userIPs, servers, local>>

EnsureFrontend ==
    /\ pc = "frontend"
    /\ LET z == LoadBalancerZone IN \E left \in SUBSET Parts :
          /\ EnsureOwnPart(lb[z].frontends, left, "aclRanges")
          /\ lb' = [lb EXCEPT ![z].frontends = left]
    /\ UNCHANGED <<k8s, queued, net, userIPs, servers, local>>

EnsureAllowedRanges ==
    /\ pc = "aclRanges"
    /\ LET z == LoadBalancerZone IN
       \/ lb[z].allowed = want.allowed /\ Proceed("aclGw") /\ UNCHANGED lb
       \/ /\ lb[z].allowed # want.allowed
          /\ lb' = [lb EXCEPT ![z].allowed = want.allowed]
          /\ Reply("aclGw")
    /\ UNCHANGED <<k8s, queued, net, userIPs, servers, local>>

\* FindGatewaysByPrivateNetworkID, in all zones.
AttachedGateways == {z \in Zones : gw[z].state # "none" /\ gw[z].net}

\* Faulty variant: the gateways of the network are not allowed.
GatewayACLForgotten ==
    /\ pc = "aclGw" /\ Proceed("aclDeny")
    /\ UNCHANGED <<k8s, queued, cloud, local>>

EnsureGatewayACL ==
    /\ pc = "aclGw"
    /\ LET z == LoadBalancerZone IN
       \/ (~HasPrivateNetwork \/ lb[z].gws = AttachedGateways) /\ Proceed("aclDeny") /\ UNCHANGED lb
       \/ /\ HasPrivateNetwork /\ lb[z].gws # AttachedGateways
          /\ lb' = [lb EXCEPT ![z].gws = AttachedGateways]
          /\ Reply("aclDeny")
    /\ UNCHANGED <<k8s, queued, net, userIPs, servers, local>>

\* Faulty variant: the ACL that denies everything is never removed.
DenyAllForGood == lb[LoadBalancerZone].deny \/ want.allowed # {}

\* Everything else is denied exactly when there are allowed ranges.
DenyAll == want.allowed # {}

EnsureDenyAll ==
    /\ pc = "aclDeny"
    /\ LET z == LoadBalancerZone IN
       \/ lb[z].deny = DenyAll /\ Proceed("publish") /\ UNCHANGED lb
       \/ /\ lb[z].deny # DenyAll
          /\ lb' = [lb EXCEPT ![z].deny = DenyAll]
          /\ Reply("publish")
    /\ UNCHANGED <<k8s, queued, net, userIPs, servers, local>>

\* Faulty variant: the first address of the load balancer is published, whatever
\* its family.
PublishAnyFamily ==
    /\ pc = "publish" /\ Return("done")
    /\ \E ip \in {LoadBalancerZone, "IPv6"} : mem' = [mem EXCEPT !.endpoint = ip, !.ready = TRUE]
    /\ UNCHANGED <<k8s, queued, cloud, want, base>>

\* The endpoint is the IPv4 address of the load balancer, here its zone; then
\* status.ready is set.
Publish ==
    /\ pc = "publish"
    /\ mem' = [mem EXCEPT !.endpoint = LoadBalancerZone, !.ready = TRUE]
    /\ Return("done")
    /\ UNCHANGED <<k8s, queued, cloud, want, base>>

-----------------------------------------------------------------------------
(* reconcileDelete *)

\* Faulty variant: the IP of the load balancer is always released.
AlwaysReleaseIP == TRUE

\* An IP that the user provided is kept.
ReleaseIP == ~conf.lbIP

\* Faulty variant: Delete takes an error of the call for "already gone".
DeleteLBErrorIgnored ==
    /\ pc = "delLB"
    /\ LET z == LoadBalancerZone IN
       \/ Proceed("delGw") /\ UNCHANGED lb
       \/ lb[z].state # "none" /\ lb' = [lb EXCEPT ![z].state = "deleting"] /\ Reply("delGw")
    /\ UNCHANGED <<k8s, queued, net, userIPs, servers, local>>

DeleteLB ==
    /\ pc = "delLB"
    /\ LET z == LoadBalancerZone IN
       \/ lb[z].state = "none" /\ Proceed("delGw") /\ UNCHANGED <<lb, userIPs>>
       \/ /\ lb[z].state # "none"
          /\ lb' = [lb EXCEPT ![z].state = "deleting"]
          /\ userIPs' = IF ReleaseIP THEN userIPs \ {"lb"} ELSE userIPs
          /\ Reply("delGw")
    /\ UNCHANGED <<k8s, queued, net, servers, local>>

\* Faulty variant: the gateway is left attached to the network.
GatewayLeftBehind ==
    /\ pc = "delGw" /\ Proceed("delPN")
    /\ UNCHANGED <<k8s, queued, cloud, local>>

DeleteGateway ==
    /\ pc = "delGw"
    /\ LET z == PublicGatewayZone IN
       \/ (~HasPrivateNetwork \/ ~conf.gw) /\ Proceed("delPN") /\ UNCHANGED gw
       \/ HasPrivateNetwork /\ conf.gw /\ gw[z].state = "none" /\ Proceed("delGwIP") /\ UNCHANGED gw
       \/ /\ HasPrivateNetwork /\ conf.gw /\ gw[z].state # "none"
          /\ gw' = [gw EXCEPT ![z].state = "deleting"]
          /\ Reply("delGwIP")
    /\ UNCHANGED <<k8s, queued, sgs, pn, gwIPs, lb, userIPs, servers, local>>

\* The IP the controller created is found by its tags, whether or not there is a
\* gateway; it cannot be released while the gateway holds it.
DeleteGatewayIP ==
    /\ pc = "delGwIP"
    /\ LET z == PublicGatewayZone IN
       \/ (conf.gwIP \/ gwIPs[z] = {}) /\ Proceed("delPN") /\ UNCHANGED gwIPs
       \/ /\ ~conf.gwIP /\ gwIPs[z] # {}
          /\ gw[z].state # "none" \/ Cardinality(gwIPs[z]) > 1
          /\ Return("error") /\ UNCHANGED gwIPs
       \/ /\ ~conf.gwIP /\ Cardinality(gwIPs[z]) = 1 /\ gw[z].state = "none"
          /\ gwIPs' = [gwIPs EXCEPT ![z] = {}]
          /\ Reply("delPN")
    /\ UNCHANGED <<k8s, queued, sgs, pn, gw, lb, userIPs, servers, local>>

\* The precondition of the API: nothing is attached to the network any more.
NetworkInUse == servers \/ \E z \in Zones : lb[z].net \/ gw[z].net

\* Faulty variant: a network that is in use is taken for deleted.
InUseIgnored ==
    /\ pc = "delPN"
    /\ \/ (~ShouldManagePrivateNetwork \/ ~pn \/ NetworkInUse) /\ Proceed("delSG") /\ UNCHANGED pn
       \/ ShouldManagePrivateNetwork /\ pn /\ ~NetworkInUse /\ pn' = FALSE /\ Reply("delSG")
    /\ UNCHANGED <<k8s, queued, sgs, gwIPs, gw, lb, userIPs, servers, local>>

DeletePrivateNetwork ==
    /\ pc = "delPN"
    /\ \/ (~ShouldManagePrivateNetwork \/ ~pn) /\ Proceed("delSG") /\ UNCHANGED pn
       \/ ShouldManagePrivateNetwork /\ pn /\ NetworkInUse /\ Return("requeue") /\ UNCHANGED pn
       \/ /\ ShouldManagePrivateNetwork /\ pn /\ ~NetworkInUse
          /\ pn' = FALSE
          /\ Reply("delSG")
    /\ UNCHANGED <<k8s, queued, sgs, gwIPs, gw, lb, userIPs, servers, local>>

DeleteSecurityGroups ==
    /\ pc = "delSG"
    /\ EnsureSecurityGroups({}, "unfinalize")
    /\ UNCHANGED <<k8s, queued, pn, gwIPs, gw, lb, userIPs, servers, local>>

RemoveFinalizer ==
    /\ pc = "unfinalize"
    /\ mem' = [mem EXCEPT !.finalizer = FALSE]
    /\ Return("done")
    /\ UNCHANGED <<k8s, queued, cloud, want, base>>

-----------------------------------------------------------------------------
(* Close: the deferred patch of the object, which runs after a panic, too *)

\* Metadata and spec are patched in one call, status in another.
Patched(metaAndSpec, status) ==
    [obj EXCEPT !.f = [finalizer |-> IF metaAndSpec THEN mem.finalizer ELSE @.finalizer,
                       endpoint  |-> IF metaAndSpec THEN mem.endpoint ELSE @.endpoint,
                       ready     |-> IF status THEN mem.ready ELSE @.ready,
                       pnID      |-> IF status THEN mem.pnID ELSE @.pnID,
                       fd        |-> IF status THEN mem.fd ELSE @.fd],
                !.exists = @ /\ ~(obj.deleting /\ metaAndSpec /\ ~mem.finalizer)]

\* Faulty variant: the result of the reconcile is dropped, no requeue is asked for.
StoreWithoutRequeue(o) == obj' = o /\ queued' = (queued \/ o # obj)

\* A change of the object, an error, a requested requeue and a restart after a
\* panic all put it back into the queue.
Store(o) == obj' = o /\ queued' = (queued \/ o # obj \/ res' # "done")

CloseSucceeds ==
    /\ res' = IF obj.exists \/ mem = base THEN res ELSE "error"
    /\ Store(IF obj.exists /\ mem # base THEN Patched(TRUE, TRUE) ELSE obj)
    /\ UNCHANGED faults

CloseFails ==
    /\ Fault /\ mem # base /\ obj.exists
    /\ res' = "error"
    /\ \E metaAndSpec, status \in BOOLEAN : Store(Patched(metaAndSpec, status))

Close ==
    /\ pc = "close"
    /\ CloseSucceeds \/ CloseFails
    /\ pc' = "idle" /\ want' = NoSpec /\ base' = NoFields /\ mem' = NoFields
    /\ UNCHANGED <<conf, spec, owner, paused, edits, cloud>>

-----------------------------------------------------------------------------
(* The process and its environment *)

Crash ==
    /\ pc # "idle" /\ Fault
    /\ pc' = "idle" /\ want' = NoSpec /\ base' = NoFields /\ mem' = NoFields
    /\ queued' = TRUE
    /\ UNCHANGED <<k8s, cloud, res>>

PeriodicResync ==
    /\ Resync /\ obj.exists /\ queued' = TRUE
    /\ UNCHANGED <<k8s, cloud, local, pc, res, faults>>

SetOwner ==
    /\ obj.exists /\ ~owner
    /\ owner' = TRUE /\ queued' = TRUE
    /\ UNCHANGED <<conf, spec, obj, paused, edits, cloud, local, pc, res, faults>>

\* The controller watches ScalewayClusters only.
Unpause ==
    /\ paused /\ paused' = FALSE
    /\ UNCHANGED <<conf, spec, obj, owner, edits, queued, cloud, local, pc, res, faults>>

\* Faulty variant: the zone of the load balancer may be edited.
ZoneEditable(old, new) ==
    /\ new.pn = old.pn
    /\ new.gw = old.gw /\ new.gwIP = old.gwIP /\ new.gwZone = old.gwZone
    /\ new.lbIP = old.lbIP

\* The validating webhook: privateNetwork and publicGateway as a whole, and zone
\* and IP of the load balancer.
EnforceImmutability(old, new) ==
    /\ new.pn = old.pn
    /\ new.gw = old.gw /\ new.gwIP = old.gwIP /\ new.gwZone = old.gwZone
    /\ new.lbZone = old.lbZone /\ new.lbIP = old.lbIP

\* The user submits any spec; failure domains, allowed ranges and security groups
\* may be edited.
UserEdit ==
    /\ obj.exists /\ ~obj.deleting /\ edits < MaxEdits
    /\ edits' = edits + 1
    /\ conf' \in {c \in AllConfigs : EnforceImmutability(conf, c)}
    /\ spec' \in SpecFields
    /\ <<conf', spec'>> # <<conf, spec>>
    /\ queued' = TRUE
    /\ UNCHANGED <<obj, owner, paused, cloud, local, pc, res, faults>>

UserDelete ==
    /\ obj.exists /\ ~obj.deleting
    /\ obj' = [obj EXCEPT !.deleting = TRUE, !.exists = obj.f.finalizer]
    /\ queued' = TRUE
    /\ UNCHANGED <<conf, spec, owner, paused, edits, cloud, local, pc, res, faults>>

\* Somebody adds a backend and a frontend to the load balancer by hand.
AddForeignParts(z) ==
    /\ lb[z].state = "ready" /\ edits < MaxEdits /\ edits' = edits + 1
    /\ lb' = [lb EXCEPT ![z].backends = @ \cup {"foreign"}, ![z].frontends = @ \cup {"foreign"}]
    /\ UNCHANGED <<conf, spec, obj, owner, paused, queued, net, userIPs, servers, local, pc, res, faults>>

\* Machines are created in a ready cluster; their servers may outlive them by the
\* time a termination takes, and are gone some time after the deletion began.
ServersCreated ==
    /\ obj.exists /\ obj.f.ready /\ ~obj.deleting /\ ~servers
    /\ servers' = TRUE
    /\ UNCHANGED <<k8s, queued, net, lb, userIPs, local, pc, res, faults>>

ServersTerminated ==
    /\ obj.deleting /\ servers
    /\ servers' = FALSE
    /\ UNCHANGED <<k8s, queued, net, lb, userIPs, local, pc, res, faults>>

LBSettles(z) ==
    /\ \/ lb[z].state = "creating" /\ lb' = [lb EXCEPT ![z].state = "ready"]
       \/ lb[z].state = "deleting" /\ lb' = [lb EXCEPT ![z] = NoLB]
    /\ UNCHANGED <<k8s, queued, net, userIPs, servers, local, pc, res, faults>>

GatewaySettles(z) ==
    /\ \/ gw[z].state = "allocating" /\ gw' = [gw EXCEPT ![z].state = "running"]
       \/ gw[z].state = "deleting" /\ gw' = [gw EXCEPT ![z] = NoGateway]
    /\ UNCHANGED <<k8s, queued, sgs, pn, gwIPs, lb, userIPs, servers, local, pc, res, faults>>

-----------------------------------------------------------------------------

\* Every call of the worker may be refused (those of the security group service
\* and of Close have their own failures).
AnyCallRefused ==
    \/ ShouldManagePrivateNetwork /\ (CallRefused("pn") \/ CallRefused("delPN"))
    \/ HasPrivateNetwork /\ conf.gw /\ (CallRefused("gw") \/ CallRefused("delGw"))
    \/ CallRefused("gwIP") \/ CallRefused("gwCreate")
    \/ ~StatusNetworkIsNil /\ CallRefused("gwNet")
    \/ CallRefused("lb") \/ (HasPrivateNetwork /\ ~StatusNetworkIsNil /\ CallRefused("lbNet"))
    \/ CallRefused("backend") \/ CallRefused("frontend")
    \/ CallRefused("aclRanges") \/ CallRefused("aclGw") \/ CallRefused("aclDeny")
    \/ CallRefused("delLB")
    \/ ~conf.gwIP /\ CallRefused("delGwIP")

NormalStep ==
    \/ HasFinalizer \/ FinalizerTooLate \/ AddFinalizer
    \/ ReconcileSecurityGroups \/ ReconcilePrivateNetwork
    \/ FindGateway \/ GetOrCreateGatewayIP \/ CreateGateway \/ AttachGateway
    \/ GetOrCreateLB \/ AttachLB \/ EnsureBackend \/ EnsureFrontend
    \/ EnsureAllowedRanges \/ EnsureGatewayACL \/ EnsureDenyAll \/ Publish

DeleteStep ==
    \/ DeleteLB \/ DeleteGateway \/ DeleteGatewayIP \/ DeletePrivateNetwork
    \/ DeleteSecurityGroups \/ RemoveFinalizer

Step == NormalStep \/ DeleteStep \/ AnyCallRefused \/ Close

Take == SkipReconcile \/ GetFails \/ Reconcile

Environment ==
    \/ Crash \/ PeriodicResync \/ SetOwner \/ Unpause \/ UserEdit \/ UserDelete
    \/ ServersCreated \/ ServersTerminated
    \/ \E z \in Zones : AddForeignParts(z) \/ LBSettles(z) \/ GatewaySettles(z)

Next == Step \/ Take \/ Environment

Spec == Init /\ [][Next]_vars

\* The worker keeps working, the cloud finishes what it started, terminating
\* servers go away and the informers resync.
Fairness ==
    /\ WF_vars(Step) /\ SF_vars(Take) /\ WF_vars(PeriodicResync)
    /\ WF_vars(ServersTerminated)
    /\ \A z \in Zones : WF_vars(LBSettles(z)) /\ WF_vars(GatewaySettles(z))

FairSpec == Spec /\ Fairness

-----------------------------------------------------------------------------
(* Properties *)

Serving(z) ==
    /\ lb[z].state = "ready" /\ "own" \in lb[z].backends \cap lb[z].frontends
    /\ HasPrivateNetwork => lb[z].net

\* A cluster reported ready has a load balancer that serves the control plane on
\* the Private Network, and its gateway is attached to that network, although it may
\* still be allocating.  The status patch is the last of a dozen calls, each of which
\* may be lost or repeated.
ReadyMeansServing ==
    obj.exists /\ obj.f.ready /\ ~obj.deleting =>
        /\ \E z \in Zones : Serving(z)
        /\ HasPrivateNetwork /\ conf.gw => AttachedGateways # {}

\* What makes up the network of the cluster.  What is "deleting" is on its way out.
Infrastructure ==
    \/ pn
    \/ \E z \in Zones : \/ gwIPs[z] # {}
                        \/ gw[z].state \notin {"none", "deleting"}
                        \/ lb[z].state \notin {"none", "deleting"}

\* Everything that Delete has to remove.
Leftovers == sgs # {} \/ Infrastructure

\* Whatever exists in the cloud for the cluster, including what a half-finished or
\* crashed reconcile created, is guarded by an object with its finalizer: when the
\* object is gone, nothing is left behind.
FinalizerGuardsResources == Leftovers => obj.exists /\ obj.f.finalizer

\* The abstract state of the object, see GuardedResource.
ObjectState ==
    IF ~obj.exists THEN "gone"
    ELSE IF obj.deleting THEN "dying"
    ELSE IF obj.f.finalizer THEN "guarded" ELSE "new"

Guarded == INSTANCE GuardedResource WITH
               Owners <- {"cluster"},
               object <- [o \in {"cluster"} |-> ObjectState],
               resource <- [o \in {"cluster"} |-> Infrastructure]

\* The controller implements the protocol of finalizers for the network of the
\* cluster: built only behind a stored finalizer, torn down only for a cluster that
\* is being deleted (an edit of the spec never does), forgotten only when nothing is
\* left.
ImplementsGuardedResource == Guarded!Spec

\* IPs that the user provided are never released.
UserIPsKept == userIPs = GivenIPs(conf)

\* FindGatewayIPByTags fails for ever when it finds two: never create a second.
OneGatewayIP == \A z \in Zones : Cardinality(gwIPs[z]) <= 1

\* The rule that denies everything goes in only after the allowed ranges and the
\* gateways of the network are let in: switching allowedRanges on cannot lock the
\* nodes out.
DenyInstalledLast ==
    [][\A z \in Zones : lb'[z].deny /\ ~lb[z].deny =>
            lb[z].allowed # {} /\ AttachedGateways \subseteq lb[z].gws]_vars

\* The endpoint that machines are given never changes once it is published, as long as
\* an edit of failureDomains cannot move the load balancer (see README).
EndpointStable ==
    [][obj.f.endpoint # None => obj'.f.endpoint = obj.f.endpoint]_vars

-----------------------------------------------------------------------------

\* A removed security group that servers still use blocks every later step.
SGBlocked == servers /\ sgs \ spec.sgs # {}

\* A cluster with an owner that is not paused becomes ready with an endpoint, also
\* when the patch that publishes them is half lost, unless it is deleted or the
\* user removed a security group that is in use.
EventuallyReady ==
    (owner /\ ~paused) ~>
        ((obj.f.ready /\ obj.f.endpoint # None) \/ obj.deleting \/ SGBlocked)

\* The ACLs follow the last edit of allowedRanges, although a reconcile works on
\* the spec it loaded before the edit.
ACLsFollowSpec ==
    \A r \in SUBSET Ranges :
        (spec.allowed = r /\ obj.f.ready) ~>
            \/ \E z \in Zones : lb[z].allowed = r /\ (lb[z].deny <=> r # {})
            \/ spec.allowed # r \/ obj.deleting \/ SGBlocked

\* A deleted cluster goes away: every resource that is in use is retried.
DeletionCompletes == (obj.deleting /\ ~paused) ~> ~obj.exists

\* Claim of the API documentation: "Set a Private Network ID to reuse an existing
\* Private Network."
ExistingNetworkIsUsable ==
    (conf.pn = "existing" /\ owner /\ ~paused) ~> (obj.f.ready \/ obj.deleting)

\* A load balancer whose zone is fixed, or whose IP the user owns, stays the only
\* one when the user edits failureDomains, across crashes and lost replies.
OneLoadBalancer == Cardinality({z \in Zones : lb[z].state # "none"}) <= 1

=============================================================================
