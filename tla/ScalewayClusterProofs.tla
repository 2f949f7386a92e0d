------------------------ MODULE ScalewayClusterProofs ------------------------
(***************************************************************************)
(* Proofs about ScalewayCluster, for any zones, ranges, security groups,   *)
(* addresses and configurations, and any bound on failures and edits:      *)
(*                                                                         *)
(*   ClusterTypeCorrect    the types;                                      *)
(*   UserKeepsIPs          IPs of the user are never released;             *)
(*   AtMostOneGatewayIP    no second gateway IP is created;                *)
(*   LoadBalancerIsUnique  no second load balancer is created, if edits of *)
(*                         failureDomains do not move it;                  *)
(*   FinalizerGuards       nothing outlives the finalizer, if edits of     *)
(*                         failureDomains move nothing;                    *)
(*   ClusterRefinesGuardedResource                                         *)
(*                         the network of the cluster follows the protocol *)
(*                         of finalizers, under the same hypothesis.       *)
(*                                                                         *)
(* The last three need their hypotheses: the controller looks for the load *)
(* balancer and the gateway in the zone that the spec names now, so an     *)
(* edit of failureDomains makes it forget those of another zone.           *)
(***************************************************************************)
EXTENDS ScalewayCluster, FiniteSetTheorems, TLAPS

-----------------------------------------------------------------------------
(* Hypotheses on the configurations *)

\* An edit of failureDomains does not move the load balancer: there is no other zone,
\* nobody edits, or it has a zone or an IP of the user's choice.
LoadBalancerPinned ==
    \/ Zones = {FirstZone} \/ MaxEdits = 0
    \/ \A c \in Configs : c.lbZone \/ c.lbIP

\* It moves nothing at all: there is no other zone, nobody edits, or load balancer and
\* gateway (if any) have a zone of the user's choice.
ZonesPinned ==
    \/ Zones = {FirstZone} \/ MaxEdits = 0
    \/ \A c \in Configs : c.lbZone /\ (c.gwZone \/ ~c.gw \/ c.pn = "none")

-----------------------------------------------------------------------------
(* The inductive invariants *)

\* The steps of reconcileNormal behind the finalizer, and of reconcileDelete.
NormalPCs == {"sg", "pn", "gw", "gwIP", "gwCreate", "gwNet", "lb", "lbNet", "backend", "frontend",
              "aclRanges", "aclGw", "aclDeny", "publish"}
DeletePCs == {"delLB", "delGw", "delGwIP", "delPN", "delSG", "unfinalize"}

\* No edit changes what the webhook protects, and the IPs of the user stay.  Without
\* edits, the first failure domain is the one the user began with.
ConfigInv ==
    /\ conf \in Configs /\ UserIPsKept
    /\ MaxEdits = 0 => spec.fd = FirstZone /\ want.fd = FirstZone

\* A gateway zone has no IP or one.
GatewayIPInv == \A z \in Zones : gwIPs[z] = {} \/ \E a \in GwAddrs : gwIPs[z] = {a}

\* The API server keeps a deleted object only while it has a finalizer.
DeletingKeepsFinalizer == obj.exists /\ obj.deleting => obj.f.finalizer

\* What the worker knows: reconcileNormal has a stored finalizer behind it, only
\* reconcileDelete removes the finalizer, and only from what is being deleted.
WorkerFinalizer ==
    /\ pc \in NormalPCs => obj.exists /\ obj.f.finalizer /\ mem.finalizer
    /\ pc = "finalizer" /\ mem.finalizer => obj.exists /\ obj.f.finalizer
    /\ pc \in DeletePCs => mem.finalizer /\ obj.deleting
    /\ pc = "close" /\ ~mem.finalizer => obj.deleting

\* States in which the controller is done with a load balancer or a gateway.
Ending == {"none", "deleting"}

\* There is nothing that the configuration does not ask for.
Confined ==
    /\ \A z \in Zones \ {FirstZone} :
           lb[z].state = "none" /\ gw[z].state = "none" /\ gwIPs[z] = {}
    /\ conf.gwIP => \A z \in Zones : gwIPs[z] = {}
    /\ ~ShouldManagePrivateNetwork => ~pn

\* A gateway exists only where the spec asks for one.
GatewayWanted ==
    /\ ~(HasPrivateNetwork /\ conf.gw) =>
           \A z \in Zones : gw[z].state = "none" /\ gwIPs[z] = {}
    /\ pc \in {"gwIP", "gwCreate", "gwNet"} => HasPrivateNetwork /\ conf.gw

\* What reconcileDelete has got rid of at each of its steps.
DeleteProgress ==
    /\ pc \in {"delGw", "delGwIP", "delPN", "delSG", "unfinalize"} =>
           \A z \in Zones : lb[z].state \in Ending
    /\ pc \in {"delGwIP", "delPN", "delSG", "unfinalize"} =>
           \A z \in Zones : gw[z].state \in Ending
    /\ pc \in {"delPN", "delSG", "unfinalize"} => \A z \in Zones : gwIPs[z] = {}
    /\ pc \in {"delSG", "unfinalize"} => ~pn
    /\ pc = "unfinalize" => sgs = {}
    /\ pc = "close" /\ ~mem.finalizer => ~Leftovers

GuardInv == DeletingKeepsFinalizer /\ WorkerFinalizer

LeftoverInv == FinalizerGuardsResources /\ Confined /\ DeleteProgress

\* At most one zone has a load balancer, the first one if the spec fixes it.
SingleLB ==
    /\ \A y, z \in Zones : lb[y].state # "none" /\ lb[z].state # "none" => y = z
    /\ conf.lbZone \/ MaxEdits = 0 => \A z \in Zones \ {FirstZone} : lb[z].state = "none"

-----------------------------------------------------------------------------
(* Updates of load balancers and gateways *)

LBStates == {"none", "creating", "ready", "deleting"}
GatewayStates == {"none", "allocating", "running", "deleting"}

\* Changing the state of a load balancer keeps the type of all of them (create, delete).
LEMMA LBState ==
    ASSUME NEW L \in [Zones -> LoadBalancers], NEW z \in Zones,
           NEW v \in LBStates
    PROVE  [L EXCEPT ![z].state = v] \in [Zones -> LoadBalancers]
  BY DEF LoadBalancers, LBStates

\* So does the attachment to the Private Network.
LEMMA LBNet ==
    ASSUME NEW L \in [Zones -> LoadBalancers], NEW z \in Zones,
           NEW v \in BOOLEAN
    PROVE  [L EXCEPT ![z].net = v] \in [Zones -> LoadBalancers]
  BY DEF LoadBalancers, LBStates

\* So does a change of the backends.
LEMMA LBBackends ==
    ASSUME NEW L \in [Zones -> LoadBalancers], NEW z \in Zones,
           NEW v \in SUBSET Parts
    PROVE  [L EXCEPT ![z].backends = v] \in [Zones -> LoadBalancers]
  BY DEF LoadBalancers, LBStates

\* So does a change of the frontends.
LEMMA LBFrontends ==
    ASSUME NEW L \in [Zones -> LoadBalancers], NEW z \in Zones,
           NEW v \in SUBSET Parts
    PROVE  [L EXCEPT ![z].frontends = v] \in [Zones -> LoadBalancers]
  BY DEF LoadBalancers, LBStates

\* So does a change of the ACL with the allowed ranges.
LEMMA LBAllowed ==
    ASSUME NEW L \in [Zones -> LoadBalancers], NEW z \in Zones,
           NEW v \in SUBSET Ranges
    PROVE  [L EXCEPT ![z].allowed = v] \in [Zones -> LoadBalancers]
  BY DEF LoadBalancers, LBStates

\* So does a change of the ACL with the gateways.
LEMMA LBGateways ==
    ASSUME NEW L \in [Zones -> LoadBalancers], NEW z \in Zones,
           NEW v \in SUBSET Zones
    PROVE  [L EXCEPT ![z].gws = v] \in [Zones -> LoadBalancers]
  BY DEF LoadBalancers, LBStates

\* So does a change of the ACL that denies the rest.
LEMMA LBDeny ==
    ASSUME NEW L \in [Zones -> LoadBalancers], NEW z \in Zones,
           NEW v \in BOOLEAN
    PROVE  [L EXCEPT ![z].deny = v] \in [Zones -> LoadBalancers]
  BY DEF LoadBalancers, LBStates

\* So does adding backends and frontends by hand.
LEMMA LBParts ==
    ASSUME NEW L \in [Zones -> LoadBalancers], NEW z \in Zones,
           NEW v \in SUBSET Parts, NEW w \in SUBSET Parts
    PROVE  [L EXCEPT ![z].backends = v, ![z].frontends = w] \in [Zones -> LoadBalancers]
<1> DEFINE K == [L EXCEPT ![z].backends = v]
<1>1. K \in [Zones -> LoadBalancers]
    BY LBBackends
<1> HIDE DEF K
<1>2. [K EXCEPT ![z].frontends = w] \in [Zones -> LoadBalancers]
    BY <1>1, LBFrontends
<1>3. QED
    BY <1>2 DEF K

\* Storing the finalizer keeps the type of the object.
LEMMA ObjectFinalizer ==
    ASSUME NEW o \in [exists : BOOLEAN, deleting : BOOLEAN, f : Fields]
    PROVE  [o EXCEPT !.f.finalizer = TRUE] \in [exists : BOOLEAN, deleting : BOOLEAN, f : Fields]
<1>1. [o.f EXCEPT !.finalizer = TRUE] \in Fields
    BY DEF Fields
<1>2. QED
    BY <1>1

\* Changing the state of a gateway keeps the type of all gateways (create, delete).
LEMMA GatewayState ==
    ASSUME NEW G \in [Zones -> Gateways], NEW z \in Zones,
           NEW v \in GatewayStates
    PROVE  [G EXCEPT ![z].state = v] \in [Zones -> Gateways]
  BY DEF Gateways, GatewayStates

\* So does the attachment to the Private Network.
LEMMA GatewayNet ==
    ASSUME NEW G \in [Zones -> Gateways], NEW z \in Zones
    PROVE  [G EXCEPT ![z].net = TRUE] \in [Zones -> Gateways]
  BY DEF Gateways

\* What the patch sent by Close does to the fields, whichever of its two calls gets
\* through: the object goes when its last finalizer does.
LEMMA PatchedFields ==
    ASSUME TypeOK, NEW x \in BOOLEAN, NEW y \in BOOLEAN
    PROVE  /\ Patched(x, y) \in [exists : BOOLEAN, deleting : BOOLEAN, f : Fields]
           /\ Patched(x, y).f.finalizer = (IF x THEN mem.finalizer ELSE obj.f.finalizer)
           /\ Patched(x, y).f.endpoint = (IF x THEN mem.endpoint ELSE obj.f.endpoint)
           /\ Patched(x, y).f.ready = (IF y THEN mem.ready ELSE obj.f.ready)
           /\ Patched(x, y).f.pnID = (IF y THEN mem.pnID ELSE obj.f.pnID)
           /\ Patched(x, y).deleting = obj.deleting
           /\ Patched(x, y).exists = (obj.exists /\ ~(obj.deleting /\ x /\ ~mem.finalizer))
<1> DEFINE f == [finalizer |-> IF x THEN mem.finalizer ELSE obj.f.finalizer,
                 endpoint  |-> IF x THEN mem.endpoint ELSE obj.f.endpoint,
                 ready     |-> IF y THEN mem.ready ELSE obj.f.ready,
                 pnID      |-> IF y THEN mem.pnID ELSE obj.f.pnID,
                 fd        |-> IF y THEN mem.fd ELSE obj.f.fd]
           e == obj.exists /\ ~(obj.deleting /\ x /\ ~mem.finalizer)
<1>1. obj \in [exists : BOOLEAN, deleting : BOOLEAN, f : Fields] /\ mem \in Fields
    BY DEF TypeOK
<1>2. f \in Fields
    BY <1>1 DEF Fields
<1>3. e \in BOOLEAN
    OBVIOUS
<1>4. Patched(x, y) = [obj EXCEPT !.f = f, !.exists = e]
    BY <1>1 DEF Patched
<1>5. /\ f.finalizer = (IF x THEN mem.finalizer ELSE obj.f.finalizer)
      /\ f.endpoint = (IF x THEN mem.endpoint ELSE obj.f.endpoint)
      /\ f.ready = (IF y THEN mem.ready ELSE obj.f.ready)
      /\ f.pnID = (IF y THEN mem.pnID ELSE obj.f.pnID)
    OBVIOUS
<1>6. e = (obj.exists /\ ~(obj.deleting /\ x /\ ~mem.finalizer))
    OBVIOUS
<1> HIDE DEF f, e
<1>7. /\ Patched(x, y) \in [exists : BOOLEAN, deleting : BOOLEAN, f : Fields]
      /\ Patched(x, y).f = f /\ Patched(x, y).exists = e /\ Patched(x, y).deleting = obj.deleting
    BY <1>1, <1>2, <1>3, <1>4
<1>8. QED
    BY <1>5, <1>6, <1>7

\* Close leaves the object alone or patches it.
LEMMA CloseObject ==
    ASSUME Close
    PROVE  obj' = obj \/ \E x, y \in BOOLEAN : obj' = Patched(x, y)
  BY DEF Close, CloseSucceeds, CloseFails, Store

\* The worker only works in zones of the region.
LEMMA ZoneTypes ==
    ASSUME TypeOK
    PROVE  LoadBalancerZone \in Zones /\ PublicGatewayZone \in Zones
  BY ZoneAssumption DEF TypeOK, SpecFields, LoadBalancerZone, PublicGatewayZone

-----------------------------------------------------------------------------
(* Types *)

\* The initial state has the types.
LEMMA TypeInit == Init => TypeOK
<1> SUFFICES ASSUME Init PROVE TypeOK
    OBVIOUS
<1> USE ConfigAssumption, ZoneAssumption, EditAssumption, SwitchAssumption, FaultAssumption DEF Init
<1>1. NoFields \in Fields
    BY DEF NoFields, Fields
<1>2. obj \in [exists : BOOLEAN, deleting : BOOLEAN, f : Fields]
    BY <1>1
<1>3. NoSpec \in SpecFields /\ spec \in SpecFields
    BY DEF NoSpec, SpecFields
<1>4. NoLB \in LoadBalancers /\ NoGateway \in Gateways
    BY DEF NoLB, NoGateway, LoadBalancers, Gateways
<1>5. userIPs \in SUBSET {"lb", "gw"}
    BY DEF GivenIPs
<1>6. pc \in PCs /\ res \in Results
    BY DEF PCs, Results
<1>7. owner \in BOOLEAN /\ paused \in BOOLEAN /\ queued \in BOOLEAN /\ pn \in BOOLEAN /\ servers \in BOOLEAN
    OBVIOUS
<1>8. conf \in AllConfigs /\ faults \in 0..MaxFaults /\ edits \in 0..MaxEdits
    OBVIOUS
<1>9. QED
    BY <1>1, <1>2, <1>3, <1>4, <1>5, <1>6, <1>7, <1>8 DEF TypeOK

\* Every step keeps the types.
LEMMA TypeNext == TypeOK /\ [Next]_vars => TypeOK'
<1> SUFFICES ASSUME TypeOK, [Next]_vars PROVE TypeOK'
    OBVIOUS
<1>a. NoFields \in Fields /\ NoSpec \in SpecFields
    BY ZoneAssumption DEF NoFields, Fields, NoSpec, SpecFields
<1>b. NoLB \in LoadBalancers /\ NoGateway \in Gateways
    BY DEF NoLB, NoGateway, LoadBalancers, Gateways
<1>t. lb \in [Zones -> LoadBalancers] /\ gw \in [Zones -> Gateways]
    BY DEF TypeOK
<1>z. LoadBalancerZone \in Zones /\ PublicGatewayZone \in Zones
    BY ZoneTypes
<1> USE FaultAssumption, EditAssumption
<1> USE DEF k8s, net, cloud, local, Proceed, Return, Reply, CallFails, Fault, PCs, Results
<1>1. CASE HasFinalizer
    BY <1>1 DEF HasFinalizer, TypeOK
<1>2. CASE FinalizerTooLate
  <2>1. mem' \in Fields
    BY <1>2 DEF FinalizerTooLate, Fields, TypeOK
  <2>2. QED
    BY <1>2, <2>1 DEF FinalizerTooLate, TypeOK
<1>3. CASE AddFinalizer
  <2>1. mem' \in Fields
    BY <1>3 DEF AddFinalizer, Fields, TypeOK
  <2>2. obj' \in [exists : BOOLEAN, deleting : BOOLEAN, f : Fields]
    <3>1. obj' = obj \/ obj' = [obj EXCEPT !.f.finalizer = TRUE]
      BY <1>3 DEF AddFinalizer, StoreFinalizer
    <3>2. QED
      BY <3>1, ObjectFinalizer DEF TypeOK
  <2>3. queued' \in BOOLEAN
    BY <1>3 DEF AddFinalizer, StoreFinalizer, TypeOK
  <2>4. QED
    BY <1>3, <2>1, <2>2, <2>3 DEF AddFinalizer, TypeOK
<1>4. CASE ReconcileSecurityGroups
  <2>1. mem' \in Fields
    BY <1>4 DEF ReconcileSecurityGroups, Fields, FailureDomains, SpecFields, TypeOK
  <2>2. want.sgs \in SUBSET SGNames
    BY DEF SpecFields, TypeOK
  <2>3. sgs' \in SUBSET SGNames
    BY <1>4, <2>2 DEF ReconcileSecurityGroups, EnsureSecurityGroups, PartialSGs, BlockedSGs, TypeOK
  <2>4. QED
    BY <1>4, <2>1, <2>3 DEF ReconcileSecurityGroups, EnsureSecurityGroups, TypeOK
<1>5. CASE ReconcilePrivateNetwork
  <2>1. mem' \in Fields
    BY <1>5 DEF ReconcilePrivateNetwork, Fields, TypeOK
  <2>2. pn' \in BOOLEAN
    BY <1>5 DEF ReconcilePrivateNetwork, TypeOK
  <2>3. QED
    BY <1>5, <2>1, <2>2 DEF ReconcilePrivateNetwork, TypeOK
<1>6. CASE FindGateway
    BY <1>6 DEF FindGateway, TypeOK
<1>7. CASE GetOrCreateGatewayIP
  <2>1. gwIPs' \in [Zones -> SUBSET GwAddrs]
    BY <1>7, <1>z DEF GetOrCreateGatewayIP, FreeGwAddrs, TypeOK
  <2>2. QED
    BY <1>7, <2>1 DEF GetOrCreateGatewayIP, TypeOK
<1>8. CASE CreateGateway
  <2>1. PICK v \in GatewayStates : gw' = gw \/ gw' = [gw EXCEPT ![PublicGatewayZone].state = v]
    BY <1>8 DEF CreateGateway, GatewayStates
  <2>2. gw' \in [Zones -> Gateways]
    BY <1>t, <1>z, <2>1, GatewayState
  <2>3. QED
    BY <1>8, <2>2 DEF CreateGateway, TypeOK
<1>9. CASE AttachGateway
  <2>1. gw' = gw \/ gw' = [gw EXCEPT ![PublicGatewayZone].net = TRUE]
    BY <1>9 DEF AttachGateway, TypeOK
  <2>2. gw' \in [Zones -> Gateways]
    BY <1>t, <1>z, <2>1, GatewayNet
  <2>3. QED
    BY <1>9, <2>2 DEF AttachGateway, TypeOK
<1>10. CASE GetOrCreateLB
  <2>1. PICK v \in LBStates : lb' = lb \/ lb' = [lb EXCEPT ![LoadBalancerZone].state = v]
    BY <1>10 DEF GetOrCreateLB, LBStates, TypeOK
  <2>2. lb' \in [Zones -> LoadBalancers]
    BY <1>t, <1>z, <2>1, LBState
  <2>3. QED
    BY <1>10, <2>2 DEF GetOrCreateLB, TypeOK
<1>11. CASE AttachLB
  <2>1. PICK v \in BOOLEAN : lb' = lb \/ lb' = [lb EXCEPT ![LoadBalancerZone].net = v]
    BY <1>11 DEF AttachLB, TypeOK
  <2>2. lb' \in [Zones -> LoadBalancers]
    BY <1>t, <1>z, <2>1, LBNet
  <2>3. QED
    BY <1>11, <2>2 DEF AttachLB, TypeOK
<1>12. CASE EnsureBackend
  <2>1. PICK left \in SUBSET Parts : lb' = [lb EXCEPT ![LoadBalancerZone].backends = left]
    BY <1>12 DEF EnsureBackend, TypeOK
  <2>2. lb' \in [Zones -> LoadBalancers]
    BY <1>t, <1>z, <2>1, LBBackends
  <2>3. QED
    BY <1>12, <2>2 DEF EnsureBackend, EnsureOwnPart, TypeOK
<1>13. CASE EnsureFrontend
  <2>1. PICK left \in SUBSET Parts : lb' = [lb EXCEPT ![LoadBalancerZone].frontends = left]
    BY <1>13 DEF EnsureFrontend, TypeOK
  <2>2. lb' \in [Zones -> LoadBalancers]
    BY <1>t, <1>z, <2>1, LBFrontends
  <2>3. QED
    BY <1>13, <2>2 DEF EnsureFrontend, EnsureOwnPart, TypeOK
<1>14. CASE EnsureAllowedRanges
  <2>1. PICK v \in SUBSET Ranges : lb' = lb \/ lb' = [lb EXCEPT ![LoadBalancerZone].allowed = v]
    BY <1>14 DEF EnsureAllowedRanges, SpecFields, TypeOK
  <2>2. lb' \in [Zones -> LoadBalancers]
    BY <1>t, <1>z, <2>1, LBAllowed
  <2>3. QED
    BY <1>14, <2>2 DEF EnsureAllowedRanges, TypeOK
<1>15. CASE EnsureGatewayACL
  <2>1. PICK v \in SUBSET Zones : lb' = lb \/ lb' = [lb EXCEPT ![LoadBalancerZone].gws = v]
    BY <1>15 DEF EnsureGatewayACL, AttachedGateways, TypeOK
  <2>2. lb' \in [Zones -> LoadBalancers]
    BY <1>t, <1>z, <2>1, LBGateways
  <2>3. QED
    BY <1>15, <2>2 DEF EnsureGatewayACL, TypeOK
<1>16. CASE EnsureDenyAll
  <2>1. PICK v \in BOOLEAN : lb' = lb \/ lb' = [lb EXCEPT ![LoadBalancerZone].deny = v]
    BY <1>16 DEF EnsureDenyAll, DenyAll, TypeOK
  <2>2. lb' \in [Zones -> LoadBalancers]
    BY <1>t, <1>z, <2>1, LBDeny
  <2>3. QED
    BY <1>16, <2>2 DEF EnsureDenyAll, TypeOK
<1>17. CASE Publish
  <2>1. mem' \in Fields
    BY <1>17, <1>z DEF Publish, Fields, TypeOK
  <2>2. QED
    BY <1>17, <2>1 DEF Publish, TypeOK
<1>18. CASE DeleteLB
  <2>1. PICK v \in LBStates : lb' = lb \/ lb' = [lb EXCEPT ![LoadBalancerZone].state = v]
    BY <1>18 DEF DeleteLB, LBStates
  <2>2. lb' \in [Zones -> LoadBalancers]
    BY <1>t, <1>z, <2>1, LBState
  <2>3. QED
    BY <1>18, <2>2 DEF DeleteLB, TypeOK
<1>19. CASE DeleteGateway
  <2>1. PICK v \in GatewayStates : gw' = gw \/ gw' = [gw EXCEPT ![PublicGatewayZone].state = v]
    BY <1>19 DEF DeleteGateway, GatewayStates
  <2>2. gw' \in [Zones -> Gateways]
    BY <1>t, <1>z, <2>1, GatewayState
  <2>3. QED
    BY <1>19, <2>2 DEF DeleteGateway, TypeOK
<1>20. CASE DeleteGatewayIP
  <2>1. gwIPs' \in [Zones -> SUBSET GwAddrs]
    BY <1>20, <1>z DEF DeleteGatewayIP, TypeOK
  <2>2. QED
    BY <1>20, <2>1 DEF DeleteGatewayIP, TypeOK
<1>21. CASE DeletePrivateNetwork
  <2>1. pn' \in BOOLEAN
    BY <1>21 DEF DeletePrivateNetwork, TypeOK
  <2>2. QED
    BY <1>21, <2>1 DEF DeletePrivateNetwork, TypeOK
<1>22. CASE DeleteSecurityGroups
  <2>1. sgs' \in SUBSET SGNames
    BY <1>22 DEF DeleteSecurityGroups, EnsureSecurityGroups, PartialSGs, BlockedSGs, TypeOK
  <2>2. QED
    BY <1>22, <2>1 DEF DeleteSecurityGroups, EnsureSecurityGroups, TypeOK
<1>23. CASE RemoveFinalizer
  <2>1. mem' \in Fields
    BY <1>23 DEF RemoveFinalizer, Fields, TypeOK
  <2>2. QED
    BY <1>23, <2>1 DEF RemoveFinalizer, TypeOK
<1>24. CASE AnyCallRefused
  <2>1. CallFails /\ UNCHANGED <<k8s, queued, cloud, local>>
    BY <1>24 DEF AnyCallRefused, CallRefused
  <2>2. QED
    BY <2>1 DEF TypeOK
<1>25. CASE Close
  <2>1. obj' \in [exists : BOOLEAN, deleting : BOOLEAN, f : Fields]
    BY <1>25, CloseObject, PatchedFields DEF TypeOK
  <2>2. res' \in Results /\ faults' \in 0..MaxFaults
    <3>1. (res' = res \/ res' = "error") /\ (UNCHANGED faults \/ Fault)
      BY <1>25 DEF Close, CloseSucceeds, CloseFails
    <3>2. QED
      BY <3>1 DEF TypeOK
  <2>3. queued' \in BOOLEAN
    BY <1>25 DEF Close, CloseSucceeds, CloseFails, Store
  <2>4. QED
    BY <1>25, <1>a, <2>1, <2>2, <2>3 DEF Close, TypeOK
<1>26. CASE SkipReconcile
    BY <1>26 DEF SkipReconcile, TypeOK
<1>27. CASE GetFails
    BY <1>27 DEF GetFails, TypeOK
<1>28. CASE Reconcile
    BY <1>28 DEF Reconcile, TypeOK
<1>29. CASE Crash
    BY <1>29, <1>a DEF Crash, TypeOK
<1>30. CASE PeriodicResync
    BY <1>30 DEF PeriodicResync, TypeOK
<1>31. CASE SetOwner
    BY <1>31 DEF SetOwner, TypeOK
<1>32. CASE Unpause
  <2>1. paused' \in BOOLEAN
    BY <1>32 DEF Unpause, TypeOK
  <2>2. QED
    BY <1>32, <2>1 DEF Unpause, TypeOK
<1>33. CASE UserEdit
    BY <1>33 DEF UserEdit, EnforceImmutability, TypeOK
<1>34. CASE UserDelete
  <2>1. obj' \in [exists : BOOLEAN, deleting : BOOLEAN, f : Fields]
    BY <1>34 DEF UserDelete, Fields, TypeOK
  <2>2. QED
    BY <1>34, <2>1 DEF UserDelete, TypeOK
<1>35. CASE ServersCreated
    BY <1>35 DEF ServersCreated, TypeOK
<1>36. CASE ServersTerminated
  <2>1. servers' \in BOOLEAN
    BY <1>36 DEF ServersTerminated, TypeOK
  <2>2. QED
    BY <1>36, <2>1 DEF ServersTerminated, TypeOK
<1>37. ASSUME NEW z \in Zones, AddForeignParts(z) PROVE TypeOK'
  <2>1. lb' \in [Zones -> LoadBalancers]
    <3>1. /\ lb[z].backends \cup {"foreign"} \in SUBSET Parts
          /\ lb[z].frontends \cup {"foreign"} \in SUBSET Parts
      BY <1>37, <1>t DEF LoadBalancers, Parts
    <3>2. QED
      BY <1>37, <1>t, <3>1, LBParts DEF AddForeignParts
  <2>2. QED
    BY <1>37, <2>1 DEF AddForeignParts, TypeOK
<1>38. ASSUME NEW z \in Zones, LBSettles(z) PROVE TypeOK'
  <2>1. PICK v \in LBStates : lb' = [lb EXCEPT ![z].state = v] \/ lb' = [lb EXCEPT ![z] = NoLB]
    BY <1>38 DEF LBSettles, LBStates
  <2>2. lb' \in [Zones -> LoadBalancers]
    BY <1>38, <1>b, <1>t, <2>1, LBState
  <2>3. QED
    BY <1>38, <2>2 DEF LBSettles, TypeOK
<1>39. ASSUME NEW z \in Zones, GatewaySettles(z) PROVE TypeOK'
  <2>1. PICK v \in GatewayStates :
            gw' = [gw EXCEPT ![z].state = v] \/ gw' = [gw EXCEPT ![z] = NoGateway]
    BY <1>39 DEF GatewaySettles, GatewayStates
  <2>2. gw' \in [Zones -> Gateways]
    BY <1>39, <1>b, <1>t, <2>1, GatewayState
  <2>3. QED
    BY <1>39, <2>2 DEF GatewaySettles, TypeOK
<1>40. CASE UNCHANGED vars
    BY <1>40 DEF vars, TypeOK
<1>41. QED
    BY <1>1, <1>2, <1>3, <1>4, <1>5, <1>6, <1>7, <1>8, <1>9, <1>10, <1>11, <1>12, <1>13, <1>14,
       <1>15, <1>16, <1>17, <1>18, <1>19, <1>20, <1>21, <1>22, <1>23, <1>24, <1>25, <1>26, <1>27,
       <1>28, <1>29, <1>30, <1>31, <1>32, <1>33, <1>34, <1>35, <1>36, <1>37, <1>38, <1>39, <1>40
    DEF Next, Step, NormalStep, DeleteStep, Take, Environment

\* Every variable of the cluster controller keeps its type.
THEOREM ClusterTypeCorrect == Spec => []TypeOK
  BY TypeInit, TypeNext, PTL DEF Spec

-----------------------------------------------------------------------------
(* Who changes what *)

\* The steps that change a load balancer, by what they do to it.
LBStep ==
    \/ GetOrCreateLB \/ AttachLB \/ EnsureBackend \/ EnsureFrontend
    \/ EnsureAllowedRanges \/ EnsureGatewayACL \/ EnsureDenyAll \/ DeleteLB
    \/ \E z \in Zones : AddForeignParts(z) \/ LBSettles(z)

\* Which actions write the configuration, the object and the resources in the cloud.
Writers ==
    /\ (conf' = conf /\ spec' = spec) \/ UserEdit
    /\ want' \in {want, spec, NoSpec}
    /\ obj' = obj \/ AddFinalizer \/ Close \/ UserDelete
    /\ userIPs' = userIPs \/ DeleteLB
    /\ gwIPs' = gwIPs \/ GetOrCreateGatewayIP \/ DeleteGatewayIP
    /\ \/ gw' = gw
       \/ CreateGateway \/ AttachGateway \/ DeleteGateway
       \/ \E z \in Zones : GatewaySettles(z)
    /\ lb' = lb \/ LBStep

\* Every other step leaves them alone.
LEMMA WhoWrites == [Next]_vars => Writers
<1> SUFFICES ASSUME [Next]_vars PROVE Writers
    OBVIOUS
<1> USE DEF Writers, LBStep, k8s, net, cloud, local
<1>1. CASE HasFinalizer
    BY <1>1 DEF HasFinalizer
<1>2. CASE FinalizerTooLate
    BY <1>2 DEF FinalizerTooLate
<1>3. CASE AddFinalizer
    BY <1>3 DEF AddFinalizer
<1>4. CASE ReconcileSecurityGroups
    BY <1>4 DEF ReconcileSecurityGroups
<1>5. CASE ReconcilePrivateNetwork
    BY <1>5 DEF ReconcilePrivateNetwork
<1>6. CASE FindGateway
    BY <1>6 DEF FindGateway
<1>7. CASE GetOrCreateGatewayIP
    BY <1>7 DEF GetOrCreateGatewayIP
<1>8. CASE CreateGateway
    BY <1>8 DEF CreateGateway
<1>9. CASE AttachGateway
    BY <1>9 DEF AttachGateway
<1>10. CASE GetOrCreateLB
    BY <1>10 DEF GetOrCreateLB
<1>11. CASE AttachLB
    BY <1>11 DEF AttachLB
<1>12. CASE EnsureBackend
    BY <1>12 DEF EnsureBackend
<1>13. CASE EnsureFrontend
    BY <1>13 DEF EnsureFrontend
<1>14. CASE EnsureAllowedRanges
    BY <1>14 DEF EnsureAllowedRanges
<1>15. CASE EnsureGatewayACL
    BY <1>15 DEF EnsureGatewayACL
<1>16. CASE EnsureDenyAll
    BY <1>16 DEF EnsureDenyAll
<1>17. CASE Publish
    BY <1>17 DEF Publish
<1>18. CASE DeleteLB
    BY <1>18 DEF DeleteLB
<1>19. CASE DeleteGateway
    BY <1>19 DEF DeleteGateway
<1>20. CASE DeleteGatewayIP
    BY <1>20 DEF DeleteGatewayIP
<1>21. CASE DeletePrivateNetwork
    BY <1>21 DEF DeletePrivateNetwork
<1>22. CASE DeleteSecurityGroups
    BY <1>22 DEF DeleteSecurityGroups
<1>23. CASE RemoveFinalizer
    BY <1>23 DEF RemoveFinalizer
<1>24. CASE AnyCallRefused
    BY <1>24 DEF AnyCallRefused, CallRefused
<1>25. CASE Close
    BY <1>25 DEF Close
<1>26. CASE SkipReconcile
    BY <1>26 DEF SkipReconcile
<1>27. CASE GetFails
    BY <1>27 DEF GetFails
<1>28. CASE Reconcile
    BY <1>28 DEF Reconcile
<1>29. CASE Crash
    BY <1>29 DEF Crash
<1>30. CASE PeriodicResync
    BY <1>30 DEF PeriodicResync
<1>31. CASE SetOwner
    BY <1>31 DEF SetOwner
<1>32. CASE Unpause
    BY <1>32 DEF Unpause
<1>33. CASE UserEdit
    BY <1>33 DEF UserEdit
<1>34. CASE UserDelete
    BY <1>34 DEF UserDelete
<1>35. CASE ServersCreated
    BY <1>35 DEF ServersCreated
<1>36. CASE ServersTerminated
    BY <1>36 DEF ServersTerminated
<1>37. ASSUME NEW z \in Zones, AddForeignParts(z) PROVE Writers
    BY <1>37 DEF AddForeignParts
<1>38. ASSUME NEW z \in Zones, LBSettles(z) PROVE Writers
    BY <1>38 DEF LBSettles
<1>39. ASSUME NEW z \in Zones, GatewaySettles(z) PROVE Writers
    BY <1>39 DEF GatewaySettles
<1>40. CASE UNCHANGED vars
    BY <1>40 DEF vars
<1>41. QED
    BY <1>1, <1>2, <1>3, <1>4, <1>5, <1>6, <1>7, <1>8, <1>9, <1>10, <1>11, <1>12, <1>13, <1>14,
       <1>15, <1>16, <1>17, <1>18, <1>19, <1>20, <1>21, <1>22, <1>23, <1>24, <1>25, <1>26, <1>27,
       <1>28, <1>29, <1>30, <1>31, <1>32, <1>33, <1>34, <1>35, <1>36, <1>37, <1>38, <1>39, <1>40
    DEF Next, Step, NormalStep, DeleteStep, Take, Environment

-----------------------------------------------------------------------------
(* What belongs to the user *)

\* The webhook admits no edit of the protected part.
LEMMA ConfigKept == TypeOK /\ UserEdit => conf' = conf
<1> SUFFICES ASSUME TypeOK, UserEdit PROVE conf' = conf
    OBVIOUS
<1>1. conf \in AllConfigs /\ conf' \in AllConfigs /\ EnforceImmutability(conf, conf')
    BY DEF TypeOK, UserEdit
<1>2. QED
    BY <1>1 DEF AllConfigs, EnforceImmutability

\* No step takes an IP of the user.
LEMMA ConfigNext == TypeOK /\ ConfigInv /\ [Next]_vars => ConfigInv' /\ conf' = conf
<1> SUFFICES ASSUME TypeOK, ConfigInv, [Next]_vars PROVE ConfigInv' /\ conf' = conf
    OBVIOUS
<1>1. conf' = conf
    BY WhoWrites, ConfigKept DEF Writers
<1>2. userIPs' = userIPs
  <2>1. CASE DeleteLB
    <3>1. userIPs' = userIPs \/ (~conf.lbIP /\ userIPs' = userIPs \ {"lb"})
      BY <2>1 DEF DeleteLB, ReleaseIP
    <3>2. ~conf.lbIP => "lb" \notin userIPs
      BY DEF ConfigInv, UserIPsKept, GivenIPs
    <3>3. QED
      BY <3>1, <3>2
  <2>2. QED
    BY <2>1, WhoWrites DEF Writers
<1>3. ASSUME MaxEdits = 0 PROVE spec'.fd = FirstZone /\ want'.fd = FirstZone
  <2>1. ~UserEdit
    BY <1>3 DEF UserEdit, TypeOK
  <2>2. spec' = spec /\ want' \in {want, spec, NoSpec}
    BY <2>1, WhoWrites DEF Writers
  <2>3. QED
    BY <1>3, <2>2 DEF ConfigInv, NoSpec
<1>4. QED
    BY <1>1, <1>2, <1>3 DEF ConfigInv, UserIPsKept, GivenIPs

\* IPs that the user provided are never released: Delete asks the API to keep the IP
\* of the load balancer, and no admitted edit makes the controller take it for its own.
THEOREM UserKeepsIPs == Spec => []UserIPsKept
<1>1. Init => ConfigInv
    BY DEF Init, ConfigInv, UserIPsKept, NoSpec
<1>2. TypeOK /\ ConfigInv /\ [Next]_vars => ConfigInv'
    BY ConfigNext
<1>3. ConfigInv => UserIPsKept
    BY DEF ConfigInv
<1>4. QED
    BY <1>1, <1>2, <1>3, ClusterTypeCorrect, PTL DEF Spec

-----------------------------------------------------------------------------
(* Gateway IPs *)

\* A set with no element or one is small.
LEMMA SmallSet ==
    ASSUME NEW S, S = {} \/ \E x : S = {x}
    PROVE  Cardinality(S) <= 1
<1>1. CASE S = {}
  <2>1. Cardinality(S) = 0
    BY <1>1, FS_EmptySet, Zenon
  <2>2. QED
    BY <2>1
<1>2. CASE \E x : S = {x}
  <2>1. Cardinality(S) = 1
    BY <1>2, FS_Singleton, Zenon
  <2>2. QED
    BY <2>1
<1>3. QED
    BY <1>1, <1>2

\* A second IP is never created for a zone.
LEMMA GatewayIPNext == TypeOK /\ GatewayIPInv /\ [Next]_vars => GatewayIPInv'
<1> SUFFICES ASSUME TypeOK, GatewayIPInv, [Next]_vars PROVE GatewayIPInv'
    OBVIOUS
<1>a. gwIPs \in [Zones -> SUBSET GwAddrs] /\ PublicGatewayZone \in Zones
    BY ZoneTypes DEF TypeOK
<1>1. CASE GetOrCreateGatewayIP
  <2>1. gwIPs' = gwIPs \/ \E a \in GwAddrs : gwIPs' = [gwIPs EXCEPT ![PublicGatewayZone] = {a}]
    BY <1>1 DEF GetOrCreateGatewayIP, FreeGwAddrs
  <2>2. QED
    BY <1>a, <2>1 DEF GatewayIPInv
<1>2. CASE DeleteGatewayIP
  <2>1. gwIPs' = gwIPs \/ gwIPs' = [gwIPs EXCEPT ![PublicGatewayZone] = {}]
    BY <1>2 DEF DeleteGatewayIP
  <2>2. QED
    BY <1>a, <2>1 DEF GatewayIPInv
<1>3. QED
    BY <1>1, <1>2, WhoWrites DEF Writers, GatewayIPInv

\* A zone never has two gateway IPs with the tags of the cluster, whatever replies
\* are lost: FindGatewayIPByTags would fail for ever.
THEOREM AtMostOneGatewayIP == Spec => []OneGatewayIP
<1>1. Init => GatewayIPInv
    BY DEF Init, GatewayIPInv
<1>2. GatewayIPInv => OneGatewayIP
  <2> SUFFICES ASSUME GatewayIPInv, NEW z \in Zones PROVE Cardinality(gwIPs[z]) <= 1
    BY DEF OneGatewayIP
  <2>1. gwIPs[z] = {} \/ \E a : gwIPs[z] = {a}
    BY DEF GatewayIPInv
  <2>2. QED
    BY <2>1, SmallSet
<1>3. QED
    BY <1>1, <1>2, GatewayIPNext, ClusterTypeCorrect, PTL DEF Spec

-----------------------------------------------------------------------------
(* One load balancer *)

\* How the state of a load balancer changes: it is created by GetOrCreateLB, becomes
\* ready, and goes through "deleting" once reconcileDelete has asked for it.
LBLife(y) ==
    \/ lb'[y].state = lb[y].state
    \/ GetOrCreateLB /\ y = LoadBalancerZone /\ lb[y].state = "none" /\ lb'[y].state = "creating"
    \/ DeleteLB /\ y = LoadBalancerZone /\ lb[y].state # "none" /\ lb'[y].state = "deleting"
    \/ LBSettles(y) /\ lb[y].state = "creating" /\ lb'[y].state = "ready"
    \/ LBSettles(y) /\ lb[y].state = "deleting" /\ lb'[y].state = "none"

\* No step does anything else to it.
LEMMA LBLives ==
    ASSUME TypeOK, [Next]_vars, NEW y \in Zones
    PROVE  LBLife(y)
<1>a. lb \in [Zones -> LoadBalancers] /\ LoadBalancerZone \in Zones
    BY ZoneTypes DEF TypeOK
<1>1. CASE AttachLB
  <2>1. lb' = lb \/ lb' = [lb EXCEPT ![LoadBalancerZone].net = TRUE]
    BY <1>1 DEF AttachLB
  <2>2. QED
    BY <1>a, <2>1 DEF LoadBalancers, LBLife
<1>2. CASE EnsureBackend
  <2>1. \E v : lb' = [lb EXCEPT ![LoadBalancerZone].backends = v]
    BY <1>2 DEF EnsureBackend
  <2>2. QED
    BY <1>a, <2>1 DEF LoadBalancers, LBLife
<1>3. CASE EnsureFrontend
  <2>1. \E v : lb' = [lb EXCEPT ![LoadBalancerZone].frontends = v]
    BY <1>3 DEF EnsureFrontend
  <2>2. QED
    BY <1>a, <2>1 DEF LoadBalancers, LBLife
<1>4. CASE EnsureAllowedRanges
  <2>1. \E v : lb' = lb \/ lb' = [lb EXCEPT ![LoadBalancerZone].allowed = v]
    BY <1>4 DEF EnsureAllowedRanges
  <2>2. QED
    BY <1>a, <2>1 DEF LoadBalancers, LBLife
<1>5. CASE EnsureGatewayACL
  <2>1. \E v : lb' = lb \/ lb' = [lb EXCEPT ![LoadBalancerZone].gws = v]
    BY <1>5 DEF EnsureGatewayACL
  <2>2. QED
    BY <1>a, <2>1 DEF LoadBalancers, LBLife
<1>6. CASE EnsureDenyAll
  <2>1. \E v : lb' = lb \/ lb' = [lb EXCEPT ![LoadBalancerZone].deny = v]
    BY <1>6 DEF EnsureDenyAll
  <2>2. QED
    BY <1>a, <2>1 DEF LoadBalancers, LBLife
<1>7. CASE DeleteLB
  <2>1. CASE lb[LoadBalancerZone].state = "none"
    BY <1>7, <2>1 DEF DeleteLB, LBLife
  <2>2. CASE lb[LoadBalancerZone].state # "none"
    <3>1. lb' = [lb EXCEPT ![LoadBalancerZone].state = "deleting"]
      BY <1>7, <2>2 DEF DeleteLB
    <3>2. y # LoadBalancerZone => lb'[y].state = lb[y].state
      BY <1>a, <3>1
    <3>3. lb'[LoadBalancerZone].state = "deleting"
      BY <1>a, <3>1 DEF LoadBalancers
    <3>4. QED
      BY <1>7, <2>2, <3>2, <3>3 DEF LBLife
  <2>3. QED
    BY <2>1, <2>2
<1>8. ASSUME NEW z \in Zones, AddForeignParts(z) PROVE LBLife(y)
  <2>1. \E v, w : lb' = [lb EXCEPT ![z].backends = v, ![z].frontends = w]
    BY <1>8 DEF AddForeignParts
  <2>2. QED
    BY <1>a, <2>1 DEF LoadBalancers, LBLife
<1>9. ASSUME NEW z \in Zones, LBSettles(z) PROVE LBLife(y)
  <2>1. CASE z # y
    BY <1>9, <1>a, <2>1 DEF LBSettles, LBLife
  <2>2. CASE z = y /\ lb[y].state = "creating"
    <3>1. lb' = [lb EXCEPT ![y].state = "ready"]
      BY <1>9, <2>2 DEF LBSettles
    <3>2. lb'[y].state = "ready"
      BY <1>a, <3>1 DEF LoadBalancers
    <3>3. QED
      BY <1>9, <2>2, <3>2 DEF LBLife
  <2>3. CASE z = y /\ lb[y].state = "deleting"
    <3>1. lb' = [lb EXCEPT ![y] = NoLB]
      BY <1>9, <2>3 DEF LBSettles
    <3>2. lb'[y].state = "none"
      BY <1>a, <3>1 DEF NoLB
    <3>3. QED
      BY <1>9, <2>3, <3>2 DEF LBLife
  <2>4. QED
    BY <1>9, <2>1, <2>2, <2>3 DEF LBSettles
<1>10. CASE GetOrCreateLB
  <2>1. CASE lb' = lb
    BY <2>1 DEF LBLife
  <2>2. CASE lb' # lb
    <3>1. /\ lb' = [lb EXCEPT ![LoadBalancerZone].state = "creating"]
          /\ lb[LoadBalancerZone].state = "none"
      BY <1>10, <2>2 DEF GetOrCreateLB
    <3>2. y # LoadBalancerZone => lb'[y].state = lb[y].state
      BY <1>a, <3>1
    <3>3. lb'[LoadBalancerZone].state = "creating"
      BY <1>a, <3>1 DEF LoadBalancers
    <3>4. QED
      BY <1>10, <3>1, <3>2, <3>3 DEF LBLife
  <2>3. QED
    BY <2>1, <2>2
<1>11. CASE lb' = lb
    BY <1>11 DEF LBLife
<1>12. QED
    BY <1>1, <1>2, <1>3, <1>4, <1>5, <1>6, <1>7, <1>8, <1>9, <1>10, <1>11, WhoWrites
    DEF LBStep, Writers

\* No step creates a load balancer beside another one.
LEMMA SingleLBNext ==
    ASSUME LoadBalancerPinned, TypeOK, ConfigInv, SingleLB, [Next]_vars
    PROVE  SingleLB'
<1>a. lb \in [Zones -> LoadBalancers] /\ LoadBalancerZone \in Zones
    BY ZoneTypes DEF TypeOK
<1>b. conf' = conf
    BY ConfigNext
<1>c. Zones = {FirstZone} \/ MaxEdits = 0 \/ conf.lbZone \/ conf.lbIP
    BY DEF ConfigInv, LoadBalancerPinned
<1>d. conf.lbZone \/ MaxEdits = 0 => LoadBalancerZone = FirstZone
    BY DEF ConfigInv, LoadBalancerZone
<1>1. CASE GetOrCreateLB
  <2>1. CASE lb' = lb
    BY <1>b, <2>1 DEF SingleLB
  <2>2. CASE lb' # lb
    <3>1. /\ lb' = [lb EXCEPT ![LoadBalancerZone].state = "creating"]
          /\ ~LBIPBusy(LoadBalancerZone)
      BY <1>1, <2>2 DEF GetOrCreateLB
    <3>2. \A y \in Zones : y # LoadBalancerZone => lb'[y] = lb[y]
      BY <1>a, <3>1
    <3>3. \A y \in Zones : y # LoadBalancerZone => lb[y].state = "none"
      <4>1. CASE conf.lbIP
        BY <3>1, <4>1 DEF LBIPBusy
      <4>2. CASE conf.lbZone \/ MaxEdits = 0
        BY <1>d, <4>2 DEF SingleLB
      <4>3. CASE Zones = {FirstZone}
        BY <1>a, <4>3
      <4>4. QED
        BY <1>c, <4>1, <4>2, <4>3
    <3>4. QED
      BY <1>b, <1>d, <3>2, <3>3 DEF SingleLB
  <2>3. QED
    BY <2>1, <2>2
<1>2. CASE ~GetOrCreateLB
  <2>1. \A y \in Zones : lb[y].state = "none" => lb'[y].state = "none"
    BY <1>2, LBLives DEF LBLife
  <2>2. QED
    BY <1>b, <2>1 DEF SingleLB
<1>3. QED
    BY <1>1, <1>2

\* A load balancer whose zone or IP the user chose stays the only one, however
\* failureDomains is edited and whatever replies are lost; so does any, without edits.
THEOREM LoadBalancerIsUnique ==
    ASSUME LoadBalancerPinned PROVE Spec => []OneLoadBalancer
<1>1. Init => ConfigInv /\ SingleLB
    BY DEF Init, ConfigInv, UserIPsKept, NoSpec, SingleLB, NoLB
<1>2. TypeOK /\ ConfigInv /\ SingleLB /\ [Next]_vars => ConfigInv' /\ SingleLB'
    BY LoadBalancerPinned, ConfigNext, SingleLBNext
<1>3. SingleLB => OneLoadBalancer
  <2> SUFFICES ASSUME SingleLB PROVE OneLoadBalancer
    OBVIOUS
  <2> DEFINE S == {z \in Zones : lb[z].state # "none"}
  <2>1. S = {} \/ \E z : S = {z}
    BY DEF SingleLB
  <2>2. Cardinality(S) <= 1
    BY <2>1, SmallSet
  <2>3. QED
    BY <2>2 DEF OneLoadBalancer
<1>4. QED
    BY <1>1, <1>2, <1>3, ClusterTypeCorrect, PTL DEF Spec

-----------------------------------------------------------------------------
(* The finalizer *)

\* A worker on the normal path has stored a finalizer, and only reconcileDelete lets
\* it go.
LEMMA GuardNext == TypeOK /\ GuardInv /\ [Next]_vars => GuardInv'
<1> SUFFICES ASSUME TypeOK, GuardInv, [Next]_vars PROVE GuardInv'
    OBVIOUS
<1>t. obj \in [exists : BOOLEAN, deleting : BOOLEAN, f : Fields] /\ mem \in Fields
    BY DEF TypeOK
<1> USE DEF GuardInv, DeletingKeepsFinalizer, WorkerFinalizer, NormalPCs, DeletePCs,
            Proceed, Return, CallFails, Reply, k8s, local
<1>1. CASE HasFinalizer
    BY <1>1, <1>t DEF HasFinalizer
<1>2. CASE FinalizerTooLate
    BY <1>2, <1>t DEF FinalizerTooLate, Fields
<1>3. CASE AddFinalizer
    BY <1>3, <1>t DEF AddFinalizer, StoreFinalizer, Fields
<1>4. CASE ReconcileSecurityGroups
    BY <1>4, <1>t DEF ReconcileSecurityGroups, EnsureSecurityGroups, Fields
<1>5. CASE ReconcilePrivateNetwork
    BY <1>5, <1>t DEF ReconcilePrivateNetwork, Fields
<1>6. CASE FindGateway
    BY <1>6, <1>t DEF FindGateway
<1>7. CASE GetOrCreateGatewayIP
    BY <1>7, <1>t DEF GetOrCreateGatewayIP
<1>8. CASE CreateGateway
    BY <1>8, <1>t DEF CreateGateway
<1>9. CASE AttachGateway
    BY <1>9, <1>t DEF AttachGateway
<1>10. CASE GetOrCreateLB
    BY <1>10, <1>t DEF GetOrCreateLB
<1>11. CASE AttachLB
    BY <1>11, <1>t DEF AttachLB
<1>12. CASE EnsureBackend
    BY <1>12, <1>t DEF EnsureBackend, EnsureOwnPart
<1>13. CASE EnsureFrontend
    BY <1>13, <1>t DEF EnsureFrontend, EnsureOwnPart
<1>14. CASE EnsureAllowedRanges
    BY <1>14, <1>t DEF EnsureAllowedRanges
<1>15. CASE EnsureGatewayACL
    BY <1>15, <1>t DEF EnsureGatewayACL
<1>16. CASE EnsureDenyAll
    BY <1>16, <1>t DEF EnsureDenyAll
<1>17. CASE Publish
    BY <1>17, <1>t DEF Publish, Fields
<1>18. CASE DeleteLB
    BY <1>18, <1>t DEF DeleteLB
<1>19. CASE DeleteGateway
    BY <1>19, <1>t DEF DeleteGateway
<1>20. CASE DeleteGatewayIP
    BY <1>20, <1>t DEF DeleteGatewayIP
<1>21. CASE DeletePrivateNetwork
    BY <1>21, <1>t DEF DeletePrivateNetwork
<1>22. CASE DeleteSecurityGroups
    BY <1>22, <1>t DEF DeleteSecurityGroups, EnsureSecurityGroups
<1>23. CASE RemoveFinalizer
    BY <1>23, <1>t DEF RemoveFinalizer, Fields
<1>24. CASE AnyCallRefused
    BY <1>24, <1>t DEF AnyCallRefused, CallRefused
<1>25. CASE Close
  <2>1. pc' = "idle" /\ pc = "close"
    BY <1>25 DEF Close
  <2>2. CASE obj' = obj
    BY <2>1, <2>2
  <2>3. ASSUME NEW x \in BOOLEAN, NEW y \in BOOLEAN, obj' = Patched(x, y) PROVE GuardInv'
    <3>1. /\ obj'.f.finalizer = (IF x THEN mem.finalizer ELSE obj.f.finalizer)
          /\ obj'.deleting = obj.deleting
          /\ obj'.exists = (obj.exists /\ ~(obj.deleting /\ x /\ ~mem.finalizer))
      BY <2>3, PatchedFields
    <3>2. QED
      BY <2>1, <3>1
  <2>4. QED
    BY <1>25, <2>2, <2>3, CloseObject
<1>26. CASE SkipReconcile
    BY <1>26, <1>t DEF SkipReconcile
<1>27. CASE GetFails
    BY <1>27, <1>t DEF GetFails
<1>28. CASE Reconcile
    BY <1>28 DEF Reconcile
<1>29. CASE Crash
    BY <1>29, <1>t DEF Crash
<1>30. CASE PeriodicResync
    BY <1>30, <1>t DEF PeriodicResync
<1>31. CASE SetOwner
    BY <1>31, <1>t DEF SetOwner
<1>32. CASE Unpause
    BY <1>32, <1>t DEF Unpause
<1>33. CASE UserEdit
    BY <1>33, <1>t DEF UserEdit
<1>34. CASE UserDelete
    BY <1>34, <1>t DEF UserDelete, Fields
<1>35. CASE ServersCreated
    BY <1>35, <1>t DEF ServersCreated
<1>36. CASE ServersTerminated
    BY <1>36, <1>t DEF ServersTerminated
<1>37. ASSUME NEW z \in Zones, AddForeignParts(z) PROVE GuardInv'
    BY <1>37, <1>t DEF AddForeignParts
<1>38. ASSUME NEW z \in Zones, LBSettles(z) PROVE GuardInv'
    BY <1>38, <1>t DEF LBSettles
<1>39. ASSUME NEW z \in Zones, GatewaySettles(z) PROVE GuardInv'
    BY <1>39, <1>t DEF GatewaySettles
<1>40. CASE UNCHANGED vars
    BY <1>40, <1>t DEF vars
<1>41. QED
    BY <1>1, <1>2, <1>3, <1>4, <1>5, <1>6, <1>7, <1>8, <1>9, <1>10, <1>11, <1>12, <1>13, <1>14,
       <1>15, <1>16, <1>17, <1>18, <1>19, <1>20, <1>21, <1>22, <1>23, <1>24, <1>25, <1>26, <1>27,
       <1>28, <1>29, <1>30, <1>31, <1>32, <1>33, <1>34, <1>35, <1>36, <1>37, <1>38, <1>39, <1>40
    DEF Next, Step, NormalStep, DeleteStep, Take, Environment

-----------------------------------------------------------------------------
(* What appears and what goes *)

\* How the state of a Public Gateway changes.
GatewayLife(y) ==
    \/ gw'[y].state = gw[y].state
    \/ CreateGateway /\ y = PublicGatewayZone /\ gw'[y].state = "allocating"
    \/ DeleteGateway /\ y = PublicGatewayZone /\ gw[y].state # "none" /\ gw'[y].state = "deleting"
    \/ GatewaySettles(y) /\ gw[y].state = "allocating" /\ gw'[y].state = "running"
    \/ GatewaySettles(y) /\ gw[y].state = "deleting" /\ gw'[y].state = "none"

\* No step does anything else to it.
LEMMA GatewayLives ==
    ASSUME TypeOK, [Next]_vars, NEW y \in Zones
    PROVE  GatewayLife(y)
<1>a. gw \in [Zones -> Gateways] /\ PublicGatewayZone \in Zones
    BY ZoneTypes DEF TypeOK
<1>1. CASE CreateGateway
  <2>1. gw' = gw \/ gw' = [gw EXCEPT ![PublicGatewayZone].state = "allocating"]
    BY <1>1 DEF CreateGateway
  <2>2. gw' = gw \/ gw'[PublicGatewayZone].state = "allocating"
    BY <1>a, <2>1 DEF Gateways
  <2>3. y # PublicGatewayZone => gw'[y].state = gw[y].state
    BY <1>a, <2>1
  <2>4. QED
    BY <1>1, <2>2, <2>3 DEF GatewayLife
<1>2. CASE AttachGateway
  <2>1. gw' = gw \/ gw' = [gw EXCEPT ![PublicGatewayZone].net = TRUE]
    BY <1>2 DEF AttachGateway
  <2>2. QED
    BY <1>a, <2>1 DEF Gateways, GatewayLife
<1>3. CASE DeleteGateway
  <2>1. \/ gw' = gw
        \/ /\ gw[PublicGatewayZone].state # "none"
           /\ gw' = [gw EXCEPT ![PublicGatewayZone].state = "deleting"]
    BY <1>3 DEF DeleteGateway
  <2>2. \/ gw' = gw
        \/ gw[PublicGatewayZone].state # "none" /\ gw'[PublicGatewayZone].state = "deleting"
    BY <1>a, <2>1 DEF Gateways
  <2>3. y # PublicGatewayZone => gw'[y].state = gw[y].state
    BY <1>a, <2>1
  <2>4. QED
    BY <1>3, <2>2, <2>3 DEF GatewayLife
<1>4. ASSUME NEW z \in Zones, GatewaySettles(z) PROVE GatewayLife(y)
  <2>1. CASE z # y
    BY <1>4, <1>a, <2>1 DEF GatewaySettles, GatewayLife
  <2>2. CASE z = y /\ gw[y].state = "allocating"
    <3>1. gw' = [gw EXCEPT ![y].state = "running"]
      BY <1>4, <2>2 DEF GatewaySettles
    <3>2. gw'[y].state = "running"
      BY <1>a, <3>1 DEF Gateways
    <3>3. QED
      BY <1>4, <2>2, <3>2 DEF GatewayLife
  <2>3. CASE z = y /\ gw[y].state = "deleting"
    <3>1. gw' = [gw EXCEPT ![y] = NoGateway]
      BY <1>4, <2>3 DEF GatewaySettles
    <3>2. gw'[y].state = "none"
      BY <1>a, <3>1 DEF NoGateway
    <3>3. QED
      BY <1>4, <2>3, <3>2 DEF GatewayLife
  <2>4. QED
    BY <1>4, <2>1, <2>2, <2>3 DEF GatewaySettles
<1>5. CASE gw' = gw
    BY <1>5 DEF GatewayLife
<1>6. QED
    BY <1>1, <1>2, <1>3, <1>4, <1>5, WhoWrites DEF Writers

\* How the gateway IPs of a zone change.
GatewayIPLife(y) ==
    \/ gwIPs'[y] = gwIPs[y]
    \/ GetOrCreateGatewayIP /\ y = PublicGatewayZone /\ ~conf.gwIP
    \/ DeleteGatewayIP /\ y = PublicGatewayZone /\ gwIPs'[y] = {}

\* No step does anything else to them.
LEMMA GatewayIPLives ==
    ASSUME TypeOK, [Next]_vars, NEW y \in Zones
    PROVE  GatewayIPLife(y)
<1>a. gwIPs \in [Zones -> SUBSET GwAddrs] /\ PublicGatewayZone \in Zones
    BY ZoneTypes DEF TypeOK
<1>1. CASE GetOrCreateGatewayIP
  <2>1. \/ gwIPs' = gwIPs
        \/ ~conf.gwIP /\ \E a : gwIPs' = [gwIPs EXCEPT ![PublicGatewayZone] = {a}]
    BY <1>1 DEF GetOrCreateGatewayIP
  <2>2. QED
    BY <1>1, <1>a, <2>1 DEF GatewayIPLife
<1>2. CASE DeleteGatewayIP
  <2>1. gwIPs' = gwIPs \/ gwIPs' = [gwIPs EXCEPT ![PublicGatewayZone] = {}]
    BY <1>2 DEF DeleteGatewayIP
  <2>2. QED
    BY <1>2, <1>a, <2>1 DEF GatewayIPLife
<1>3. QED
    BY <1>1, <1>2, WhoWrites DEF Writers, GatewayIPLife

\* The Private Network and the security groups are made by their own steps.
LEMMA OthersAppear ==
    ASSUME [Next]_vars
    PROVE  /\ pn' = pn \/ (ReconcilePrivateNetwork /\ ShouldManagePrivateNetwork)
                       \/ (DeletePrivateNetwork /\ pn' = FALSE)
           /\ sgs' = sgs \/ ReconcileSecurityGroups \/ (DeleteSecurityGroups /\ sgs' \subseteq sgs)
<1> DEFINE Goal == /\ pn' = pn \/ (ReconcilePrivateNetwork /\ ShouldManagePrivateNetwork)
                               \/ (DeletePrivateNetwork /\ pn' = FALSE)
                   /\ sgs' = sgs \/ ReconcileSecurityGroups
                                 \/ (DeleteSecurityGroups /\ sgs' \subseteq sgs)
<1> SUFFICES Goal
    OBVIOUS
<1> USE DEF k8s, net, cloud, local
<1>1. CASE HasFinalizer
    BY <1>1 DEF HasFinalizer
<1>2. CASE FinalizerTooLate
    BY <1>2 DEF FinalizerTooLate
<1>3. CASE AddFinalizer
    BY <1>3 DEF AddFinalizer
<1>4. CASE ReconcileSecurityGroups
    BY <1>4 DEF ReconcileSecurityGroups
<1>5. CASE ReconcilePrivateNetwork
    BY <1>5 DEF ReconcilePrivateNetwork
<1>6. CASE FindGateway
    BY <1>6 DEF FindGateway
<1>7. CASE GetOrCreateGatewayIP
    BY <1>7 DEF GetOrCreateGatewayIP
<1>8. CASE CreateGateway
    BY <1>8 DEF CreateGateway
<1>9. CASE AttachGateway
    BY <1>9 DEF AttachGateway
<1>10. CASE GetOrCreateLB
    BY <1>10 DEF GetOrCreateLB
<1>11. CASE AttachLB
    BY <1>11 DEF AttachLB
<1>12. CASE EnsureBackend
    BY <1>12 DEF EnsureBackend
<1>13. CASE EnsureFrontend
    BY <1>13 DEF EnsureFrontend
<1>14. CASE EnsureAllowedRanges
    BY <1>14 DEF EnsureAllowedRanges
<1>15. CASE EnsureGatewayACL
    BY <1>15 DEF EnsureGatewayACL
<1>16. CASE EnsureDenyAll
    BY <1>16 DEF EnsureDenyAll
<1>17. CASE Publish
    BY <1>17 DEF Publish
<1>18. CASE DeleteLB
    BY <1>18 DEF DeleteLB
<1>19. CASE DeleteGateway
    BY <1>19 DEF DeleteGateway
<1>20. CASE DeleteGatewayIP
    BY <1>20 DEF DeleteGatewayIP
<1>21. CASE DeletePrivateNetwork
    BY <1>21 DEF DeletePrivateNetwork
<1>22. CASE DeleteSecurityGroups
  <2>1. sgs' \subseteq sgs
    BY <1>22 DEF DeleteSecurityGroups, EnsureSecurityGroups, BlockedSGs, PartialSGs
  <2>2. QED
    BY <1>22, <2>1 DEF DeleteSecurityGroups
<1>23. CASE RemoveFinalizer
    BY <1>23 DEF RemoveFinalizer
<1>24. CASE AnyCallRefused
    BY <1>24 DEF AnyCallRefused, CallRefused
<1>25. CASE Close
    BY <1>25 DEF Close
<1>26. CASE SkipReconcile
    BY <1>26 DEF SkipReconcile
<1>27. CASE GetFails
    BY <1>27 DEF GetFails
<1>28. CASE Reconcile
    BY <1>28 DEF Reconcile
<1>29. CASE Crash
    BY <1>29 DEF Crash
<1>30. CASE PeriodicResync
    BY <1>30 DEF PeriodicResync
<1>31. CASE SetOwner
    BY <1>31 DEF SetOwner
<1>32. CASE Unpause
    BY <1>32 DEF Unpause
<1>33. CASE UserEdit
    BY <1>33 DEF UserEdit
<1>34. CASE UserDelete
    BY <1>34 DEF UserDelete
<1>35. CASE ServersCreated
    BY <1>35 DEF ServersCreated
<1>36. CASE ServersTerminated
    BY <1>36 DEF ServersTerminated
<1>37. ASSUME NEW z \in Zones, AddForeignParts(z) PROVE Goal
    BY <1>37 DEF AddForeignParts
<1>38. ASSUME NEW z \in Zones, LBSettles(z) PROVE Goal
    BY <1>38 DEF LBSettles
<1>39. ASSUME NEW z \in Zones, GatewaySettles(z) PROVE Goal
    BY <1>39 DEF GatewaySettles
<1>40. CASE UNCHANGED vars
    BY <1>40 DEF vars
<1>41. QED
    BY <1>1, <1>2, <1>3, <1>4, <1>5, <1>6, <1>7, <1>8, <1>9, <1>10, <1>11, <1>12, <1>13, <1>14,
       <1>15, <1>16, <1>17, <1>18, <1>19, <1>20, <1>21, <1>22, <1>23, <1>24, <1>25, <1>26, <1>27,
       <1>28, <1>29, <1>30, <1>31, <1>32, <1>33, <1>34, <1>35, <1>36, <1>37, <1>38, <1>39, <1>40
    DEF Next, Step, NormalStep, DeleteStep, Take, Environment

\* Nothing comes into being unless the worker is on the normal path: deletion,
\* the cloud, the user and a restart only take away.
LEMMA OnlyNormalCreates ==
    ASSUME TypeOK, [Next]_vars, pc \notin NormalPCs
    PROVE  /\ pn' => pn
           /\ sgs' \subseteq sgs
           /\ \A z \in Zones :
                 /\ lb[z].state \in Ending => lb'[z].state \in Ending
                 /\ gw[z].state \in Ending => gw'[z].state \in Ending
                 /\ gwIPs[z] = {} => gwIPs'[z] = {}
<1>1. /\ ~ReconcilePrivateNetwork /\ ~ReconcileSecurityGroups
      /\ ~GetOrCreateLB /\ ~CreateGateway /\ ~GetOrCreateGatewayIP
    BY DEF NormalPCs, ReconcilePrivateNetwork, ReconcileSecurityGroups,
           GetOrCreateLB, CreateGateway, GetOrCreateGatewayIP
<1>2. pn' => pn
    BY <1>1, OthersAppear DEF TypeOK
<1>3. sgs' \subseteq sgs
    BY <1>1, OthersAppear
<1>4. ASSUME NEW z \in Zones
      PROVE  /\ lb[z].state \in Ending => lb'[z].state \in Ending
             /\ gw[z].state \in Ending => gw'[z].state \in Ending
             /\ gwIPs[z] = {} => gwIPs'[z] = {}
  <2>1. LBLife(z) /\ GatewayLife(z) /\ GatewayIPLife(z)
    BY LBLives, GatewayLives, GatewayIPLives
  <2>2. QED
    BY <1>1, <2>1 DEF LBLife, GatewayLife, GatewayIPLife, Ending
<1>5. QED
    BY <1>2, <1>3, <1>4

-----------------------------------------------------------------------------
(* The order of the calls *)

\* Where the worker goes: from step to step of reconcileNormal or reconcileDelete,
\* from anywhere to Close, and back to the queue.  It keeps the spec it has loaded.
Goes(p, q) == pc = p /\ pc' = q /\ want' = want

Move ==
    \/ pc' = pc /\ want' = want /\ mem' = mem
    \/ pc' = "idle"
    \/ Reconcile /\ pc' = IF obj.deleting THEN "delLB" ELSE "finalizer"
    \/ pc' = "close" /\ pc \notin {"idle", "close"} /\ mem'.finalizer
    \/ RemoveFinalizer
    \/ HasFinalizer /\ Goes("finalizer", "sg")
    \/ AddFinalizer /\ Goes("finalizer", "sg")
    \/ ReconcileSecurityGroups /\ Goes("sg", "pn")
    \/ ReconcilePrivateNetwork /\ Goes("pn", "gw")
    \/ FindGateway /\ (Goes("gw", "lb") \/ Goes("gw", "gwIP") \/ Goes("gw", "gwNet"))
    \/ GetOrCreateGatewayIP /\ Goes("gwIP", "gwCreate")
    \/ CreateGateway /\ Goes("gwCreate", "gwNet")
    \/ AttachGateway /\ Goes("gwNet", "lb")
    \/ GetOrCreateLB /\ Goes("lb", "lbNet")
    \/ AttachLB /\ Goes("lbNet", "backend")
    \/ EnsureBackend /\ Goes("backend", "frontend")
    \/ EnsureFrontend /\ Goes("frontend", "aclRanges")
    \/ EnsureAllowedRanges /\ Goes("aclRanges", "aclGw")
    \/ EnsureGatewayACL /\ Goes("aclGw", "aclDeny")
    \/ EnsureDenyAll /\ Goes("aclDeny", "publish")
    \/ DeleteLB /\ Goes("delLB", "delGw")
    \/ DeleteGateway /\ (Goes("delGw", "delPN") \/ Goes("delGw", "delGwIP"))
    \/ DeleteGatewayIP /\ Goes("delGwIP", "delPN")
    \/ DeletePrivateNetwork /\ Goes("delPN", "delSG")
    \/ DeleteSecurityGroups /\ Goes("delSG", "unfinalize")

\* Every step is one of these moves.
LEMMA Moves == TypeOK /\ GuardInv /\ [Next]_vars => Move
<1> SUFFICES ASSUME TypeOK, GuardInv, [Next]_vars PROVE Move
    OBVIOUS
<1>t. mem \in Fields
    BY DEF TypeOK
<1>g. pc \in NormalPCs \cup DeletePCs => mem.finalizer
    BY DEF GuardInv, WorkerFinalizer
<1> USE DEF Move, Goes, NormalPCs, DeletePCs, Proceed, Return, CallFails, Reply, k8s, local
<1>1. CASE HasFinalizer
    BY <1>1 DEF HasFinalizer
<1>2. CASE FinalizerTooLate
    BY <1>2, <1>t, <1>g DEF FinalizerTooLate, Fields
<1>3. CASE AddFinalizer
    BY <1>3, <1>t, <1>g DEF AddFinalizer, StoreFinalizer, Fields
<1>4. CASE ReconcileSecurityGroups
    BY <1>4, <1>t, <1>g DEF ReconcileSecurityGroups, EnsureSecurityGroups, Fields
<1>5. CASE ReconcilePrivateNetwork
    BY <1>5, <1>t, <1>g DEF ReconcilePrivateNetwork, Fields
<1>6. CASE FindGateway
    BY <1>6, <1>t, <1>g DEF FindGateway
<1>7. CASE GetOrCreateGatewayIP
    BY <1>7, <1>t, <1>g DEF GetOrCreateGatewayIP
<1>8. CASE CreateGateway
    BY <1>8, <1>t, <1>g DEF CreateGateway
<1>9. CASE AttachGateway
    BY <1>9, <1>t, <1>g DEF AttachGateway
<1>10. CASE GetOrCreateLB
    BY <1>10, <1>t, <1>g DEF GetOrCreateLB
<1>11. CASE AttachLB
    BY <1>11, <1>t, <1>g DEF AttachLB
<1>12. CASE EnsureBackend
    BY <1>12, <1>t, <1>g DEF EnsureBackend, EnsureOwnPart
<1>13. CASE EnsureFrontend
    BY <1>13, <1>t, <1>g DEF EnsureFrontend, EnsureOwnPart
<1>14. CASE EnsureAllowedRanges
    BY <1>14, <1>t, <1>g DEF EnsureAllowedRanges
<1>15. CASE EnsureGatewayACL
    BY <1>15, <1>t, <1>g DEF EnsureGatewayACL
<1>16. CASE EnsureDenyAll
    BY <1>16, <1>t, <1>g DEF EnsureDenyAll
<1>17. CASE Publish
    BY <1>17, <1>t, <1>g DEF Publish, Fields
<1>18. CASE DeleteLB
    BY <1>18, <1>t, <1>g DEF DeleteLB
<1>19. CASE DeleteGateway
    BY <1>19, <1>t, <1>g DEF DeleteGateway
<1>20. CASE DeleteGatewayIP
    BY <1>20, <1>t, <1>g DEF DeleteGatewayIP
<1>21. CASE DeletePrivateNetwork
    BY <1>21, <1>t, <1>g DEF DeletePrivateNetwork
<1>22. CASE DeleteSecurityGroups
    BY <1>22, <1>t, <1>g DEF DeleteSecurityGroups, EnsureSecurityGroups
<1>23. CASE RemoveFinalizer
    BY <1>23 DEF RemoveFinalizer
<1>24. CASE AnyCallRefused
    BY <1>24, <1>t, <1>g DEF AnyCallRefused, CallRefused
<1>25. CASE Close
    BY <1>25 DEF Close
<1>26. CASE SkipReconcile
    BY <1>26 DEF SkipReconcile
<1>27. CASE GetFails
    BY <1>27 DEF GetFails
<1>28. CASE Reconcile
    BY <1>28 DEF Reconcile
<1>29. CASE Crash
    BY <1>29 DEF Crash
<1>30. CASE PeriodicResync
    BY <1>30 DEF PeriodicResync
<1>31. CASE SetOwner
    BY <1>31 DEF SetOwner
<1>32. CASE Unpause
    BY <1>32 DEF Unpause
<1>33. CASE UserEdit
    BY <1>33 DEF UserEdit
<1>34. CASE UserDelete
    BY <1>34 DEF UserDelete
<1>35. CASE ServersCreated
    BY <1>35 DEF ServersCreated
<1>36. CASE ServersTerminated
    BY <1>36 DEF ServersTerminated
<1>37. ASSUME NEW z \in Zones, AddForeignParts(z) PROVE Move
    BY <1>37 DEF AddForeignParts
<1>38. ASSUME NEW z \in Zones, LBSettles(z) PROVE Move
    BY <1>38 DEF LBSettles
<1>39. ASSUME NEW z \in Zones, GatewaySettles(z) PROVE Move
    BY <1>39 DEF GatewaySettles
<1>40. CASE UNCHANGED vars
    BY <1>40 DEF vars
<1>41. QED
    BY <1>1, <1>2, <1>3, <1>4, <1>5, <1>6, <1>7, <1>8, <1>9, <1>10, <1>11, <1>12, <1>13, <1>14,
       <1>15, <1>16, <1>17, <1>18, <1>19, <1>20, <1>21, <1>22, <1>23, <1>24, <1>25, <1>26, <1>27,
       <1>28, <1>29, <1>30, <1>31, <1>32, <1>33, <1>34, <1>35, <1>36, <1>37, <1>38, <1>39, <1>40
    DEF Next, Step, NormalStep, DeleteStep, Take, Environment

-----------------------------------------------------------------------------
(* Nothing is left behind *)

\* A gateway is only made, and its steps are only reached, when the spec asks for one.
LEMMA GatewayWantedNext ==
    ASSUME TypeOK, ConfigInv, GuardInv, GatewayWanted, [Next]_vars
    PROVE  GatewayWanted'
<1>1. conf' = conf
    BY ConfigNext
<1>2. pc' \in {"gwIP", "gwCreate", "gwNet"} => HasPrivateNetwork /\ conf.gw
  <2> SUFFICES ASSUME pc' \in {"gwIP", "gwCreate", "gwNet"} PROVE HasPrivateNetwork /\ conf.gw
    OBVIOUS
  <2>1. \/ pc' = pc
        \/ FindGateway
        \/ pc \in {"gwIP", "gwCreate"}
    BY Moves DEF Move, Goes, RemoveFinalizer, Return
  <2>2. CASE FindGateway
    BY <2>2 DEF FindGateway, Proceed
  <2>3. QED
    BY <2>1, <2>2 DEF GatewayWanted
<1>3. ASSUME ~(HasPrivateNetwork /\ conf.gw), NEW z \in Zones
      PROVE  gw'[z].state = "none" /\ gwIPs'[z] = {}
  <2>1. ~CreateGateway /\ ~GetOrCreateGatewayIP
    BY <1>3 DEF GatewayWanted, CreateGateway, GetOrCreateGatewayIP
  <2>2. gw[z].state = "none" /\ gwIPs[z] = {}
    BY <1>3 DEF GatewayWanted
  <2>3. GatewayLife(z) /\ GatewayIPLife(z)
    BY GatewayLives, GatewayIPLives
  <2>4. QED
    BY <2>1, <2>2, <2>3 DEF GatewayLife, GatewayIPLife
<1>4. QED
    BY <1>1, <1>2, <1>3 DEF GatewayWanted, HasPrivateNetwork

\* Where edits of failureDomains move nothing, there is one zone to look at.
LEMMA OneZone ==
    ASSUME ZonesPinned, TypeOK, ConfigInv
    PROVE  /\ LoadBalancerZone = FirstZone
           /\ HasPrivateNetwork /\ conf.gw => PublicGatewayZone = FirstZone
<1>1. CASE Zones = {FirstZone}
    BY <1>1, ZoneTypes
<1>2. CASE conf.lbZone /\ (conf.gwZone \/ ~conf.gw \/ conf.pn = "none")
    BY <1>2 DEF LoadBalancerZone, PublicGatewayZone, HasPrivateNetwork
<1>3. CASE MaxEdits = 0
    BY <1>3 DEF ConfigInv, LoadBalancerZone, PublicGatewayZone
<1>4. QED
    BY <1>1, <1>2, <1>3 DEF ZonesPinned, ConfigInv

\* Nothing appears that the configuration does not ask for.
LEMMA ConfinedNext ==
    ASSUME ZonesPinned, TypeOK, ConfigInv, GatewayWanted, Confined, [Next]_vars
    PROVE  Confined'
<1>1. conf' = conf
    BY ConfigNext
<1>2. ASSUME NEW z \in Zones \ {FirstZone}
      PROVE  lb'[z].state = "none" /\ gw'[z].state = "none" /\ gwIPs'[z] = {}
  <2>1. lb[z].state = "none" /\ gw[z].state = "none" /\ gwIPs[z] = {}
    BY DEF Confined
  <2>2. LoadBalancerZone # z
    BY OneZone
  <2>3. CreateGateway \/ GetOrCreateGatewayIP => PublicGatewayZone # z
    BY OneZone DEF GatewayWanted, CreateGateway, GetOrCreateGatewayIP
  <2>4. LBLife(z) /\ GatewayLife(z) /\ GatewayIPLife(z)
    BY LBLives, GatewayLives, GatewayIPLives
  <2>5. QED
    BY <2>1, <2>2, <2>3, <2>4 DEF LBLife, GatewayLife, GatewayIPLife
<1>3. conf.gwIP => \A z \in Zones : gwIPs'[z] = {}
  <2> SUFFICES ASSUME conf.gwIP, NEW z \in Zones PROVE gwIPs'[z] = {}
    OBVIOUS
  <2>1. gwIPs[z] = {} /\ GatewayIPLife(z)
    BY GatewayIPLives DEF Confined
  <2>2. QED
    BY <2>1 DEF GatewayIPLife
<1>4. ~ShouldManagePrivateNetwork => ~pn'
    BY OthersAppear DEF Confined, TypeOK
<1>5. QED
    BY <1>1, <1>2, <1>3, <1>4 DEF Confined, ShouldManagePrivateNetwork

\* Delete gets rid of one thing after the other, and nothing comes back meanwhile.
LEMMA DeleteProgressNext ==
    ASSUME ZonesPinned, TypeOK, ConfigInv, GuardInv, GatewayWanted, Confined, DeleteProgress,
           [Next]_vars
    PROVE  DeleteProgress'
<1> DEFINE After1 == {"delGw", "delGwIP", "delPN", "delSG", "unfinalize"}
           After2 == {"delGwIP", "delPN", "delSG", "unfinalize"}
           After3 == {"delPN", "delSG", "unfinalize"}
<1>z. LoadBalancerZone \in Zones /\ PublicGatewayZone \in Zones
    BY ZoneTypes
<1>m. pc' \in After1 =>
        \/ pc' = pc
        \/ DeleteLB /\ Goes("delLB", "delGw")
        \/ DeleteGateway /\ (Goes("delGw", "delPN") \/ Goes("delGw", "delGwIP"))
        \/ DeleteGatewayIP /\ Goes("delGwIP", "delPN")
        \/ DeletePrivateNetwork /\ Goes("delPN", "delSG")
        \/ DeleteSecurityGroups /\ Goes("delSG", "unfinalize")
    BY Moves DEF Move, Goes, RemoveFinalizer, Return
<1>n. pc' \in After1 => pc \in DeletePCs /\ pc \notin NormalPCs
    BY <1>m DEF Goes, DeletePCs, NormalPCs
<1>1. pc' \in After1 => \A z \in Zones : lb'[z].state \in Ending
  <2> SUFFICES ASSUME pc' \in After1, NEW z \in Zones PROVE lb'[z].state \in Ending
    OBVIOUS
  <2>1. CASE DeleteLB
    <3>1. CASE z = LoadBalancerZone
      <4>1. (lb[z].state = "none" /\ lb' = lb) \/ lb' = [lb EXCEPT ![z].state = "deleting"]
        BY <2>1, <3>1 DEF DeleteLB
      <4>2. QED
        BY <4>1 DEF Ending, TypeOK, LoadBalancers
    <3>2. CASE z # LoadBalancerZone
      <4>1. lb[z].state = "none" /\ LBLife(z)
        BY <3>2, OneZone, LBLives DEF Confined
      <4>2. ~GetOrCreateLB
        BY <2>1 DEF DeleteLB, GetOrCreateLB
      <4>3. QED
        BY <4>1, <4>2 DEF LBLife, Ending
    <3>3. QED
      BY <3>1, <3>2
  <2>2. CASE ~DeleteLB
    <3>1. pc \in After1
      BY <2>2, <1>m DEF Goes
    <3>2. QED
      BY <3>1, <1>n, OnlyNormalCreates DEF DeleteProgress
  <2>3. QED
    BY <2>1, <2>2
<1>2. pc' \in After2 => \A z \in Zones : gw'[z].state \in Ending
  <2> SUFFICES ASSUME pc' \in After2, NEW z \in Zones PROVE gw'[z].state \in Ending
    OBVIOUS
  <2>1. CASE DeleteGateway
    <3>0. GatewayLife(z) /\ ~CreateGateway
      BY <2>1, GatewayLives DEF DeleteGateway, CreateGateway
    <3>1. CASE ~(HasPrivateNetwork /\ conf.gw)
      BY <3>0, <3>1 DEF GatewayWanted, GatewayLife, Ending
    <3>2. CASE HasPrivateNetwork /\ conf.gw /\ z = PublicGatewayZone
      <4>1. (gw[z].state = "none" /\ gw' = gw) \/ gw' = [gw EXCEPT ![z].state = "deleting"]
        BY <2>1, <3>2 DEF DeleteGateway
      <4>2. QED
        BY <4>1 DEF Ending, TypeOK, Gateways
    <3>3. CASE HasPrivateNetwork /\ conf.gw /\ z # PublicGatewayZone
      <4>1. gw[z].state = "none"
        BY <3>3, OneZone DEF Confined
      <4>2. QED
        BY <4>1, <3>0 DEF GatewayLife, Ending
    <3>4. QED
      BY <3>1, <3>2, <3>3
  <2>2. CASE ~DeleteGateway
    <3>1. pc \in After2
      BY <2>2, <1>m DEF Goes
    <3>2. QED
      BY <3>1, <1>n, OnlyNormalCreates DEF DeleteProgress
  <2>3. QED
    BY <2>1, <2>2
<1>3. pc' \in After3 => \A z \in Zones : gwIPs'[z] = {}
  <2> SUFFICES ASSUME pc' \in After3, NEW z \in Zones PROVE gwIPs'[z] = {}
    OBVIOUS
  <2>0. gwIPs[z] = {} => gwIPs'[z] = {}
    BY <1>n, OnlyNormalCreates
  <2>1. CASE DeleteGatewayIP /\ pc' = "delPN"
    <3>1. CASE z = PublicGatewayZone
      <4>1. conf.gwIP \/ gwIPs[z] = {} \/ gwIPs' = [gwIPs EXCEPT ![z] = {}]
        BY <2>1, <3>1 DEF DeleteGatewayIP, Return
      <4>2. QED
        BY <4>1, <2>0 DEF Confined, TypeOK
    <3>2. CASE z # PublicGatewayZone
      <4>1. gwIPs[z] = {}
        BY <3>2, OneZone DEF Confined, GatewayWanted
      <4>2. QED
        BY <4>1, <2>0
    <3>3. QED
      BY <3>1, <3>2
  <2>2. CASE DeleteGateway /\ pc' = "delPN"
    <3>1. ~HasPrivateNetwork \/ ~conf.gw
      BY <2>2 DEF DeleteGateway, Proceed, Reply, CallFails
    <3>2. QED
      BY <3>1, <2>0 DEF GatewayWanted
  <2>3. CASE pc \in After3
    BY <2>3, <2>0 DEF DeleteProgress
  <2>4. QED
    BY <2>1, <2>2, <2>3, <1>m DEF Goes
<1>4. pc' \in {"delSG", "unfinalize"} => ~pn'
  <2> SUFFICES ASSUME pc' \in {"delSG", "unfinalize"} PROVE ~pn'
    OBVIOUS
  <2>0. pn' => pn
    BY <1>n, OnlyNormalCreates
  <2>1. CASE DeletePrivateNetwork /\ pc' = "delSG"
    BY <2>1, <2>0 DEF DeletePrivateNetwork, Return, Confined
  <2>2. CASE pc \in {"delSG", "unfinalize"}
    BY <2>2, <2>0 DEF DeleteProgress
  <2>3. QED
    BY <2>1, <2>2, <1>m DEF Goes
<1>5. pc' = "unfinalize" => sgs' = {}
  <2> SUFFICES ASSUME pc' = "unfinalize" PROVE sgs' = {}
    OBVIOUS
  <2>1. CASE DeleteSecurityGroups
    BY <2>1 DEF DeleteSecurityGroups, EnsureSecurityGroups, Return, CallFails
  <2>2. CASE pc = "unfinalize"
    BY <2>2, <1>n, OnlyNormalCreates DEF DeleteProgress
  <2>3. QED
    BY <2>1, <2>2, <1>m DEF Goes
<1>6. pc' = "close" /\ ~mem'.finalizer => ~Leftovers'
  <2> SUFFICES ASSUME pc' = "close", ~mem'.finalizer PROVE ~Leftovers'
    OBVIOUS
  <2>1. (pc = "close" /\ ~mem.finalizer) \/ pc = "unfinalize"
    BY Moves DEF Move, Goes, Reconcile, RemoveFinalizer
  <2>2. pc \notin NormalPCs
    BY <2>1 DEF NormalPCs
  <2>3. ~Leftovers
    BY <2>1 DEF DeleteProgress, Leftovers, Infrastructure, Ending
  <2>4. QED
    BY <2>2, <2>3, OnlyNormalCreates DEF Leftovers, Infrastructure, Ending
<1>7. QED
    BY <1>1, <1>2, <1>3, <1>4, <1>5, <1>6 DEF DeleteProgress

\* The finalizer stays as long as anything is left.
LEMMA GuardsNext ==
    ASSUME TypeOK, GuardInv, DeleteProgress, FinalizerGuardsResources, [Next]_vars
    PROVE  FinalizerGuardsResources'
<1>t. obj \in [exists : BOOLEAN, deleting : BOOLEAN, f : Fields] /\ mem \in Fields
    BY DEF TypeOK
<1> SUFFICES ASSUME Leftovers' PROVE obj'.exists /\ obj'.f.finalizer
    BY DEF FinalizerGuardsResources
<1>1. obj.exists /\ obj.f.finalizer
  <2>1. CASE pc \in NormalPCs
    BY <2>1 DEF GuardInv, WorkerFinalizer
  <2>2. CASE pc \notin NormalPCs
    <3>1. Leftovers
      BY <2>2, OnlyNormalCreates DEF Leftovers, Infrastructure, Ending
    <3>2. QED
      BY <3>1 DEF FinalizerGuardsResources
  <2>3. QED
    BY <2>1, <2>2
<1>2. CASE AddFinalizer
    BY <1>2, <1>t, <1>1 DEF AddFinalizer, StoreFinalizer, Fields
<1>3. CASE UserDelete
    BY <1>3, <1>t, <1>1 DEF UserDelete
<1>4. CASE Close
  <2>1. Leftovers
    BY <1>4, OnlyNormalCreates DEF Close, NormalPCs, Leftovers, Infrastructure, Ending
  <2>2. mem.finalizer
    BY <1>4, <2>1 DEF Close, DeleteProgress
  <2>3. ASSUME NEW x \in BOOLEAN, NEW y \in BOOLEAN, obj' = Patched(x, y)
        PROVE  obj'.exists /\ obj'.f.finalizer
    <3>1. /\ obj'.f.finalizer = (IF x THEN mem.finalizer ELSE obj.f.finalizer)
          /\ obj'.exists = (obj.exists /\ ~(obj.deleting /\ x /\ ~mem.finalizer))
      BY <2>3, PatchedFields
    <3>2. QED
      BY <1>1, <2>2, <3>1
  <2>4. QED
    BY <1>4, <1>1, <2>3, CloseObject
<1>5. QED
    BY <1>1, <1>2, <1>3, <1>4, WhoWrites DEF Writers

\* Everything the earlier lemmas keep, together.
BaseInv == TypeOK /\ ConfigInv /\ GuardInv /\ GatewayWanted

\* It holds at the start.
LEMMA BaseInit == Init => BaseInv
<1> SUFFICES ASSUME Init PROVE BaseInv
    OBVIOUS
<1>1. TypeOK
    BY TypeInit
<1>2. ConfigInv
    BY DEF Init, ConfigInv, UserIPsKept, NoSpec
<1>3. GuardInv
    BY DEF Init, NoFields, GuardInv, DeletingKeepsFinalizer, WorkerFinalizer, NormalPCs, DeletePCs
<1>4. GatewayWanted
    BY DEF Init, NoGateway, GatewayWanted
<1>5. QED
    BY <1>1, <1>2, <1>3, <1>4 DEF BaseInv

\* Every step keeps it.
LEMMA BaseNext == BaseInv /\ [Next]_vars => BaseInv'
  BY TypeNext, ConfigNext, GuardNext, GatewayWantedNext DEF BaseInv

\* It is an invariant.
LEMMA BaseInvariant == Spec => []BaseInv
  BY BaseInit, BaseNext, PTL DEF Spec

\* The same for what the deletion relies on.
LEMMA LeftoverInit == Init => LeftoverInv
<1> SUFFICES ASSUME Init PROVE LeftoverInv
    OBVIOUS
<1>1. Confined
    BY DEF Init, NoLB, NoGateway, Confined
<1>2. DeleteProgress
    BY DEF Init, DeleteProgress
<1>3. FinalizerGuardsResources
    BY DEF Init, NoLB, NoGateway, FinalizerGuardsResources, Leftovers, Infrastructure
<1>4. QED
    BY <1>1, <1>2, <1>3 DEF LeftoverInv

\* It is inductive where edits of failureDomains move nothing.
LEMMA LeftoverNext ==
    ASSUME ZonesPinned PROVE BaseInv /\ LeftoverInv /\ [Next]_vars => LeftoverInv'
  BY ZonesPinned, ConfinedNext, DeleteProgressNext, GuardsNext DEF BaseInv, LeftoverInv

LEMMA LeftoverInvariant ==
    ASSUME ZonesPinned PROVE Spec => []LeftoverInv
<1>1. BaseInv /\ LeftoverInv /\ [Next]_vars => LeftoverInv'
    BY ZonesPinned, LeftoverNext
<1>2. QED
    BY <1>1, LeftoverInit, BaseInvariant, PTL DEF Spec

\* Whatever exists in the cloud for the cluster is guarded by an object with its
\* finalizer, through crashes, lost replies and half-sent patches, as long as edits of
\* failureDomains move nothing: when the object is gone, nothing is left behind.
THEOREM FinalizerGuards ==
    ASSUME ZonesPinned PROVE Spec => []FinalizerGuardsResources
<1>1. LeftoverInv => FinalizerGuardsResources
    BY DEF LeftoverInv
<1>2. QED
    BY <1>1, ZonesPinned, LeftoverInvariant, PTL

-----------------------------------------------------------------------------
(* The refinement of GuardedResource for the network of the cluster *)

(***************************************************************************)
(* Most steps are stutters of the abstract protocol.  The others are:      *)
(* AddFinalizer and Close may be a Guard, a step of reconcileNormal that   *)
(* makes the first part of the network a Create, the step of               *)
(* reconcileDelete that asks for the removal of the last one a Release,    *)
(* UserDelete a Delete, and Close a Forget.                                *)
(***************************************************************************)

\* The abstract state.
Object == [o \in {"cluster"} |-> ObjectState]
Resource == [o \in {"cluster"} |-> Infrastructure]

-----------------------------------------------------------------------------
(* Steps of the abstract protocol *)

\* A step on the network is a Create, a Release or a stutter.
LEMMA NetworkChange ==
    ASSUME obj' = obj,
           ~Infrastructure /\ Infrastructure' => ObjectState \in {"guarded", "dying"},
           Infrastructure /\ ~Infrastructure' => ObjectState = "dying"
    PROVE  [Guarded!Next]_<<Object, Resource>>
<1>1. Object' = Object
    BY DEF Object, ObjectState
<1>2. Object["cluster"] = ObjectState
    BY DEF Object
<1>3. Infrastructure \in BOOLEAN /\ Infrastructure' \in BOOLEAN
    BY DEF Infrastructure
<1>4. CASE Infrastructure' = Infrastructure
    BY <1>1, <1>4 DEF Resource
<1>5. CASE ~Infrastructure /\ Infrastructure'
  <2>1. /\ ~Resource["cluster"] /\ Resource' = [Resource EXCEPT !["cluster"] = TRUE]
        /\ Object["cluster"] \in {"guarded", "dying"}
    BY <1>2, <1>3, <1>5 DEF Resource
  <2>2. Guarded!Create("cluster")
    BY <1>1, <2>1 DEF Guarded!Create, Object, Resource
  <2>3. QED
    BY <2>2 DEF Guarded!Next
<1>6. CASE Infrastructure /\ ~Infrastructure'
  <2>1. /\ Resource["cluster"] /\ Resource' = [Resource EXCEPT !["cluster"] = FALSE]
        /\ Object["cluster"] = "dying"
    BY <1>2, <1>3, <1>6 DEF Resource
  <2>2. Guarded!Release("cluster")
    BY <1>1, <2>1 DEF Guarded!Release, Object, Resource
  <2>3. QED
    BY <2>2 DEF Guarded!Next
<1>7. QED
    BY <1>3, <1>4, <1>5, <1>6

\* A step on the object is a Guard, a Delete, a Forget or a stutter.
LEMMA ObjectChange ==
    ASSUME Infrastructure' = Infrastructure,
           \/ ObjectState' = ObjectState
           \/ ObjectState = "new" /\ ObjectState' \in {"guarded", "gone"}
           \/ ObjectState = "guarded" /\ ObjectState' = "dying"
           \/ ObjectState = "dying" /\ ObjectState' = "gone" /\ ~Infrastructure
    PROVE  [Guarded!Next]_<<Object, Resource>>
<1>1. Resource' = Resource
    BY DEF Resource
<1>2. /\ Object["cluster"] = ObjectState /\ Resource["cluster"] = Infrastructure
      /\ Object' = [Object EXCEPT !["cluster"] = ObjectState']
    BY DEF Object, Resource
<1>3. CASE ObjectState' = ObjectState
    BY <1>1, <1>3 DEF Object
<1>4. CASE ObjectState = "new" /\ ObjectState' = "guarded"
  <2>1. Guarded!Guard("cluster")
    BY <1>1, <1>2, <1>4 DEF Guarded!Guard, Object, Resource
  <2>2. QED
    BY <2>1 DEF Guarded!Next
<1>5. CASE \/ ObjectState = "new" /\ ObjectState' = "gone"
           \/ ObjectState = "guarded" /\ ObjectState' = "dying"
  <2>1. Guarded!Delete("cluster")
    BY <1>1, <1>2, <1>5 DEF Guarded!Delete, Object, Resource
  <2>2. QED
    BY <2>1 DEF Guarded!Next
<1>6. CASE ObjectState = "dying" /\ ObjectState' = "gone" /\ ~Infrastructure
  <2>1. Guarded!Forget("cluster")
    BY <1>1, <1>2, <1>6 DEF Guarded!Forget, Object, Resource
  <2>2. QED
    BY <2>1 DEF Guarded!Next
<1>7. QED
    BY <1>3, <1>4, <1>5, <1>6

-----------------------------------------------------------------------------
(* What changes the network *)

\* Only reconcileDelete gives up a part of the network, and it runs only for a cluster
\* that is being deleted.
LEMMA OnlyDeleteReleases ==
    ASSUME BaseInv, [Next]_vars, Infrastructure, ~Infrastructure'
    PROVE  pc \in DeletePCs
<1>t. TypeOK
    BY DEF BaseInv
<1>1. CASE pn
  <2>1. DeletePrivateNetwork \/ ReconcilePrivateNetwork
    BY <1>1, OthersAppear DEF Infrastructure
  <2>2. ~ReconcilePrivateNetwork
    BY <1>1 DEF Infrastructure, ReconcilePrivateNetwork
  <2>3. QED
    BY <2>1, <2>2 DEF DeletePrivateNetwork, DeletePCs
<1>2. ASSUME NEW z \in Zones, gwIPs[z] # {} PROVE pc \in DeletePCs
  <2>1. gwIPs'[z] = {} /\ GatewayIPLife(z)
    BY <1>t, GatewayIPLives DEF Infrastructure
  <2>2. GetOrCreateGatewayIP => gwIPs' = gwIPs \/ gwIPs[PublicGatewayZone] = {}
    BY DEF GetOrCreateGatewayIP
  <2>3. DeleteGatewayIP
    BY <1>2, <2>1, <2>2 DEF GatewayIPLife
  <2>4. QED
    BY <2>3 DEF DeleteGatewayIP, DeletePCs
<1>3. ASSUME NEW z \in Zones, gw[z].state \notin {"none", "deleting"} PROVE pc \in DeletePCs
  <2>1. gw'[z].state \in {"none", "deleting"} /\ GatewayLife(z)
    BY <1>t, GatewayLives DEF Infrastructure
  <2>2. DeleteGateway
    BY <1>3, <2>1 DEF GatewayLife
  <2>3. QED
    BY <2>2 DEF DeleteGateway, DeletePCs
<1>4. ASSUME NEW z \in Zones, lb[z].state \notin {"none", "deleting"} PROVE pc \in DeletePCs
  <2>1. lb'[z].state \in {"none", "deleting"} /\ LBLife(z)
    BY <1>t, LBLives DEF Infrastructure
  <2>2. DeleteLB
    BY <1>4, <2>1 DEF LBLife
  <2>3. QED
    BY <2>2 DEF DeleteLB, DeletePCs
<1>5. QED
    BY <1>1, <1>2, <1>3, <1>4 DEF Infrastructure

-----------------------------------------------------------------------------
(* Every step of the controller and of its environment *)

\* Every step is a step of the abstract protocol or a stutter.
LEMMA NextRefines ==
    BaseInv /\ LeftoverInv /\ [Next]_vars => [Guarded!Next]_<<Object, Resource>>
<1> SUFFICES ASSUME BaseInv, LeftoverInv, [Next]_vars PROVE [Guarded!Next]_<<Object, Resource>>
    OBVIOUS
<1>t. /\ TypeOK /\ GuardInv /\ mem \in Fields
      /\ obj \in [exists : BOOLEAN, deleting : BOOLEAN, f : Fields]
    BY DEF BaseInv, TypeOK
<1>d. obj.exists /\ obj.deleting => obj.f.finalizer
    BY <1>t DEF GuardInv, DeletingKeepsFinalizer
<1>1. CASE obj' = obj
  <2>1. ~Infrastructure /\ Infrastructure' => ObjectState \in {"guarded", "dying"}
    <3> SUFFICES ASSUME ~Infrastructure, Infrastructure' PROVE ObjectState \in {"guarded", "dying"}
      OBVIOUS
    <3>1. pc \in NormalPCs
      BY <1>t, OnlyNormalCreates DEF Infrastructure, Ending
    <3>2. QED
      BY <1>t, <3>1 DEF GuardInv, WorkerFinalizer, ObjectState
  <2>2. Infrastructure /\ ~Infrastructure' => ObjectState = "dying"
    <3> SUFFICES ASSUME Infrastructure, ~Infrastructure' PROVE ObjectState = "dying"
      OBVIOUS
    <3>1. obj.deleting
      BY <1>t, OnlyDeleteReleases DEF GuardInv, WorkerFinalizer
    <3>2. obj.exists
      BY DEF LeftoverInv, FinalizerGuardsResources, Leftovers
    <3>3. QED
      BY <3>1, <3>2 DEF ObjectState
  <2>3. QED
    BY <1>1, <2>1, <2>2, NetworkChange
<1>2. CASE AddFinalizer
  <2>1. Infrastructure' = Infrastructure /\ obj.exists
    BY <1>2 DEF AddFinalizer, cloud, net, Infrastructure
  <2>2. obj' = obj \/ obj' = [obj EXCEPT !.f.finalizer = TRUE]
    BY <1>2 DEF AddFinalizer, StoreFinalizer
  <2>3. \/ ObjectState' = ObjectState
        \/ ObjectState = "new" /\ ObjectState' = "guarded"
    BY <1>t, <2>1, <2>2 DEF ObjectState, Fields
  <2>4. QED
    BY <2>1, <2>3, ObjectChange
<1>3. CASE UserDelete
  <2>1. /\ Infrastructure' = Infrastructure /\ obj.exists /\ ~obj.deleting
        /\ obj' = [obj EXCEPT !.deleting = TRUE, !.exists = obj.f.finalizer]
    BY <1>3 DEF UserDelete, cloud, net, Infrastructure
  <2>2. obj'.deleting /\ obj'.exists = obj.f.finalizer
    BY <1>t, <2>1
  <2>3. \/ ObjectState = "new" /\ ObjectState' = "gone"
        \/ ObjectState = "guarded" /\ ObjectState' = "dying"
    BY <2>1, <2>2 DEF ObjectState
  <2>4. QED
    BY <2>1, <2>3, ObjectChange
<1>4. CASE Close
  <2>1. Infrastructure' = Infrastructure /\ pc = "close"
    BY <1>4 DEF Close, cloud, net, Infrastructure
  <2>2. ASSUME NEW x \in BOOLEAN, NEW y \in BOOLEAN, obj' = Patched(x, y)
        PROVE  [Guarded!Next]_<<Object, Resource>>
    <3>1. /\ obj'.f.finalizer = (IF x THEN mem.finalizer ELSE obj.f.finalizer)
          /\ obj'.deleting = obj.deleting
          /\ obj'.exists = (obj.exists /\ ~(obj.deleting /\ x /\ ~mem.finalizer))
      BY <1>t, <2>2, PatchedFields
    <3>2. /\ mem.finalizer \in BOOLEAN /\ obj.f.finalizer \in BOOLEAN
          /\ obj.exists \in BOOLEAN /\ obj.deleting \in BOOLEAN
      BY <1>t DEF Fields
    <3>3. ~mem.finalizer => ~Infrastructure /\ obj.deleting
      BY <1>t, <2>1 DEF GuardInv, WorkerFinalizer, LeftoverInv, DeleteProgress, Leftovers
    <3>4. \/ ObjectState' = ObjectState
          \/ ObjectState = "new" /\ ObjectState' = "guarded"
          \/ ObjectState = "dying" /\ ObjectState' = "gone" /\ ~Infrastructure
      BY <1>d, <3>1, <3>2, <3>3 DEF ObjectState
    <3>5. QED
      BY <2>1, <3>4, ObjectChange
  <2>3. QED
    BY <1>1, <1>4, <2>2, CloseObject
<1>5. QED
    BY <1>1, <1>2, <1>3, <1>4, WhoWrites DEF Writers

-----------------------------------------------------------------------------

\* Before the first step there is neither a finalizer nor a network.
LEMMA InitRefines == Init => Guarded!Init
<1> SUFFICES ASSUME Init PROVE Guarded!Init
    OBVIOUS
<1>1. obj.exists /\ ~obj.deleting /\ ~obj.f.finalizer
    BY DEF Init, NoFields
<1>2. ObjectState = "new"
    BY <1>1 DEF ObjectState
<1>3. Infrastructure = FALSE
    BY DEF Init, Infrastructure, NoLB, NoGateway
<1>4. QED
    BY <1>2, <1>3 DEF Guarded!Init

\* The cluster controller implements the protocol of finalizers for the network of the
\* cluster, where edits of failureDomains move nothing: it is built only behind a stored
\* finalizer, torn down only for a cluster that is being deleted, and the cluster is
\* forgotten only when nothing is left.
THEOREM ClusterRefinesGuardedResource ==
    ASSUME ZonesPinned PROVE Spec => ImplementsGuardedResource
<1>1. Spec => [](BaseInv /\ LeftoverInv)
    BY ZonesPinned, LeftoverInvariant, BaseInvariant, PTL
<1>2. Init => Guarded!Init
    BY InitRefines
<1>3. BaseInv /\ LeftoverInv /\ [Next]_vars =>
          [Guarded!Next]_<<[o \in {"cluster"} |-> ObjectState], [o \in {"cluster"} |-> Infrastructure]>>
    BY NextRefines DEF Object, Resource
<1>4. QED
    BY <1>1, <1>2, <1>3, PTL DEF Spec, ImplementsGuardedResource, Guarded!Spec

=============================================================================
