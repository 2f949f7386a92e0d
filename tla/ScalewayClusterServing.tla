----------------------- MODULE ScalewayClusterServing ------------------------
(***************************************************************************)
(* Proofs about what reconcileNormal of ScalewayCluster achieves:          *)
(*                                                                         *)
(*   ReadyServes       a cluster reported ready has a load balancer that   *)
(*                     serves, and its gateway;                            *)
(*   DenyIsLast        nobody is denied before the others are allowed;     *)
(*   EndpointIsStable  the endpoint never changes once it is published, if *)
(*                     edits of failureDomains do not move it.             *)
(*                                                                         *)
(* The invariants say what is in place at each step of reconcileNormal,    *)
(* and that nothing is taken away before the object is being deleted.      *)
(***************************************************************************)
EXTENDS ScalewayClusterProofs

-----------------------------------------------------------------------------
(* The inductive invariants *)

\* Is the worker, or the next one, on the normal path?
Building == ~obj.deleting \/ pc \in NormalPCs \cup {"finalizer"}

\* Nothing is on its way out while the worker builds.
NothingDying ==
    Building => \A z \in Zones : lb[z].state # "deleting" /\ gw[z].state # "deleting"

\* What reconcileNormal has built at each of its steps.
NormalProgress ==
    /\ pc = "gwNet" => gw[PublicGatewayZone].state # "none"
    /\ pc \in {"lb", "lbNet", "backend", "frontend", "aclRanges", "aclGw", "aclDeny", "publish"} =>
           (HasPrivateNetwork /\ conf.gw => PublicGatewayZone \in AttachedGateways)
    /\ pc \in {"lbNet", "backend", "frontend", "aclRanges", "aclGw", "aclDeny", "publish"} =>
           lb[LoadBalancerZone].state = "ready"
    /\ pc \in {"backend", "frontend", "aclRanges", "aclGw", "aclDeny", "publish"} =>
           (HasPrivateNetwork => lb[LoadBalancerZone].net)
    /\ pc \in {"frontend", "aclRanges", "aclGw", "aclDeny", "publish"} =>
           "own" \in lb[LoadBalancerZone].backends
    /\ pc \in {"aclRanges", "aclGw", "aclDeny", "publish"} =>
           "own" \in lb[LoadBalancerZone].frontends
    /\ pc \in {"aclGw", "aclDeny"} => lb[LoadBalancerZone].allowed = want.allowed
    /\ pc = "aclDeny" /\ HasPrivateNetwork => AttachedGateways \subseteq lb[LoadBalancerZone].gws

\* What status.ready stands for.
Provisioned ==
    /\ \E z \in Zones : Serving(z)
    /\ HasPrivateNetwork /\ conf.gw => AttachedGateways # {}

\* The object says ready, or the worker is about to.
ReadyInv == ~obj.deleting /\ (obj.f.ready \/ (pc # "idle" /\ mem.ready)) => Provisioned

ServingInv == NothingDying /\ NormalProgress /\ ReadyInv

\* A published endpoint is that of the load balancer, as long as the worker builds,
\* and the worker does not change it.
EndpointInv ==
    /\ Building /\ obj.f.endpoint # None => lb[obj.f.endpoint].state # "none"
    /\ Building /\ mem.endpoint # None => lb[mem.endpoint].state # "none"
    /\ pc # "idle" /\ obj.f.endpoint # None => mem.endpoint = obj.f.endpoint

-----------------------------------------------------------------------------
(* What is built stays *)

\* What no step takes from a load balancer, unless it is the cloud that removes it, and
\* who writes its ACLs.
LBKept(y) ==
    /\ lb[y].state # "deleting" =>
          /\ lb[y].net => lb'[y].net
          /\ "own" \in lb[y].backends => "own" \in lb'[y].backends
          /\ "own" \in lb[y].frontends => "own" \in lb'[y].frontends
          /\ lb'[y].allowed = lb[y].allowed \/ EnsureAllowedRanges
          /\ lb'[y].gws = lb[y].gws \/ EnsureGatewayACL
    /\ lb'[y].deny => lb[y].deny \/ (EnsureDenyAll /\ y = LoadBalancerZone)

\* Every step is like that: foreign backends go, the one of the controller stays.
LEMMA LBKeeps ==
    ASSUME TypeOK, [Next]_vars, NEW y \in Zones
    PROVE  LBKept(y)
<1>a. lb \in [Zones -> LoadBalancers] /\ LoadBalancerZone \in Zones
    BY ZoneTypes DEF TypeOK
<1> USE DEF LBKept
<1>1. CASE GetOrCreateLB
  <2>1. lb' = lb \/ lb' = [lb EXCEPT ![LoadBalancerZone].state = "creating"]
    BY <1>1 DEF GetOrCreateLB
  <2>2. QED
    BY <1>a, <2>1 DEF LoadBalancers
<1>2. CASE AttachLB
  <2>1. lb' = lb \/ lb' = [lb EXCEPT ![LoadBalancerZone].net = TRUE]
    BY <1>2 DEF AttachLB
  <2>2. QED
    BY <1>a, <2>1 DEF LoadBalancers
<1>3. CASE EnsureBackend
  <2>1. PICK left \in SUBSET Parts :
           /\ \/ left = {"own"}
              \/ left = lb[LoadBalancerZone].backends \ {"foreign"}
           /\ lb' = [lb EXCEPT ![LoadBalancerZone].backends = left]
    BY <1>3 DEF EnsureBackend, EnsureOwnPart
  <2>2. "own" \in lb[LoadBalancerZone].backends => "own" \in left
    BY <2>1
  <2>3. lb' = [lb EXCEPT ![LoadBalancerZone].backends = left]
    BY <2>1
  <2>4. QED
    BY <1>a, <2>2, <2>3 DEF LoadBalancers
<1>4. CASE EnsureFrontend
  <2>1. PICK left \in SUBSET Parts :
           /\ \/ left = {"own"}
              \/ left = lb[LoadBalancerZone].frontends \ {"foreign"}
           /\ lb' = [lb EXCEPT ![LoadBalancerZone].frontends = left]
    BY <1>4 DEF EnsureFrontend, EnsureOwnPart
  <2>2. "own" \in lb[LoadBalancerZone].frontends => "own" \in left
    BY <2>1
  <2>3. lb' = [lb EXCEPT ![LoadBalancerZone].frontends = left]
    BY <2>1
  <2>4. QED
    BY <1>a, <2>2, <2>3 DEF LoadBalancers
<1>5. CASE EnsureAllowedRanges
  <2>1. \E v : lb' = lb \/ lb' = [lb EXCEPT ![LoadBalancerZone].allowed = v]
    BY <1>5 DEF EnsureAllowedRanges
  <2>2. QED
    BY <1>5, <1>a, <2>1 DEF LoadBalancers
<1>6. CASE EnsureGatewayACL
  <2>1. \E v : lb' = lb \/ lb' = [lb EXCEPT ![LoadBalancerZone].gws = v]
    BY <1>6 DEF EnsureGatewayACL
  <2>2. QED
    BY <1>6, <1>a, <2>1 DEF LoadBalancers
<1>7. CASE EnsureDenyAll
  <2>1. \E v : lb' = lb \/ lb' = [lb EXCEPT ![LoadBalancerZone].deny = v]
    BY <1>7 DEF EnsureDenyAll
  <2>2. QED
    BY <1>7, <1>a, <2>1 DEF LoadBalancers
<1>8. CASE DeleteLB
  <2>1. lb' = lb \/ lb' = [lb EXCEPT ![LoadBalancerZone].state = "deleting"]
    BY <1>8 DEF DeleteLB
  <2>2. QED
    BY <1>a, <2>1 DEF LoadBalancers
<1>9. ASSUME NEW z \in Zones, AddForeignParts(z) PROVE LBKept(y)
  <2> DEFINE v == lb[z].backends \cup {"foreign"}
             w == lb[z].frontends \cup {"foreign"}
  <2>1. lb' = [lb EXCEPT ![z].backends = v, ![z].frontends = w]
    BY <1>9, <1>a DEF AddForeignParts, LoadBalancers
  <2>2. lb[z].backends \subseteq v /\ lb[z].frontends \subseteq w
    OBVIOUS
  <2> HIDE DEF v, w
  <2>3. QED
    BY <1>a, <2>1, <2>2 DEF LoadBalancers
<1>10. ASSUME NEW z \in Zones, LBSettles(z) PROVE LBKept(y)
  <2>1. CASE lb' = [lb EXCEPT ![z].state = "ready"]
    BY <1>a, <2>1 DEF LoadBalancers
  <2>2. CASE lb[z].state = "deleting" /\ lb' = [lb EXCEPT ![z] = NoLB]
    BY <1>a, <2>2 DEF NoLB
  <2>3. QED
    BY <1>10, <2>1, <2>2 DEF LBSettles
<1>11. CASE lb' = lb
    BY <1>11
<1>12. QED
    BY <1>1, <1>2, <1>3, <1>4, <1>5, <1>6, <1>7, <1>8, <1>9, <1>10, <1>11, WhoWrites
    DEF LBStep, Writers

\* The same for the attachment of a gateway to the network.
GatewayKept(y) ==
    /\ gw[y].state # "deleting" /\ gw[y].net => gw'[y].net
    /\ gw'[y].net => gw[y].net \/ AttachGateway

\* Every step is like that.
LEMMA GatewayKeeps ==
    ASSUME TypeOK, [Next]_vars, NEW y \in Zones
    PROVE  GatewayKept(y)
<1>a. gw \in [Zones -> Gateways] /\ PublicGatewayZone \in Zones
    BY ZoneTypes DEF TypeOK
<1> USE DEF GatewayKept
<1>1. CASE CreateGateway
  <2>1. gw' = gw \/ gw' = [gw EXCEPT ![PublicGatewayZone].state = "allocating"]
    BY <1>1 DEF CreateGateway
  <2>2. QED
    BY <1>a, <2>1 DEF Gateways
<1>2. CASE AttachGateway
  <2>1. gw' = gw \/ gw' = [gw EXCEPT ![PublicGatewayZone].net = TRUE]
    BY <1>2 DEF AttachGateway
  <2>2. QED
    BY <1>2, <1>a, <2>1 DEF Gateways
<1>3. CASE DeleteGateway
  <2>1. gw' = gw \/ gw' = [gw EXCEPT ![PublicGatewayZone].state = "deleting"]
    BY <1>3 DEF DeleteGateway
  <2>2. QED
    BY <1>a, <2>1 DEF Gateways
<1>4. ASSUME NEW z \in Zones, GatewaySettles(z) PROVE GatewayKept(y)
  <2>1. CASE gw' = [gw EXCEPT ![z].state = "running"]
    BY <1>a, <2>1 DEF Gateways
  <2>2. CASE gw[z].state = "deleting" /\ gw' = [gw EXCEPT ![z] = NoGateway]
    BY <1>a, <2>2 DEF NoGateway
  <2>3. QED
    BY <1>4, <2>1, <2>2 DEF GatewaySettles
<1>5. CASE gw' = gw
    BY <1>5
<1>6. QED
    BY <1>1, <1>2, <1>3, <1>4, <1>5, WhoWrites DEF Writers

\* An object that is being deleted stays so, and nobody starts to build for it.
LEMMA BuildingBack ==
    ASSUME BaseInv, [Next]_vars
    PROVE  /\ obj.deleting => obj'.deleting
           /\ Building' => Building
<1>t. TypeOK /\ GuardInv /\ obj \in [exists : BOOLEAN, deleting : BOOLEAN, f : Fields]
    BY DEF BaseInv, TypeOK
<1>1. obj.deleting => obj'.deleting
  <2>1. CASE AddFinalizer
    BY <2>1, <1>t DEF AddFinalizer, StoreFinalizer
  <2>2. CASE Close
    <3>1. ASSUME NEW x \in BOOLEAN, NEW y \in BOOLEAN, obj' = Patched(x, y)
          PROVE  obj'.deleting = obj.deleting
      BY <3>1, <1>t, PatchedFields
    <3>2. QED
      BY <2>2, <3>1, CloseObject
  <2>3. CASE UserDelete
    BY <2>3 DEF UserDelete
  <2>4. QED
    BY <2>1, <2>2, <2>3, WhoWrites DEF Writers
<1>2. pc' \in NormalPCs \cup {"finalizer"} => Building
  <2>1. CASE Reconcile
    <3>1. pc' = "delLB" \/ ~obj.deleting
      BY <2>1 DEF Reconcile
    <3>2. QED
      BY <3>1 DEF Building, NormalPCs
  <2>2. CASE ~Reconcile
    BY <2>2, <1>t, Moves DEF Move, Goes, Building, NormalPCs, RemoveFinalizer, Return
  <2>3. QED
    BY <2>1, <2>2
<1>3. QED
    BY <1>1, <1>2 DEF Building

\* Deletion begins only when the worker has nothing more to build.
LEMMA NothingDyingNext ==
    ASSUME BaseInv, NothingDying, [Next]_vars
    PROVE  NothingDying'
<1> SUFFICES ASSUME Building', NEW z \in Zones
             PROVE  lb'[z].state # "deleting" /\ gw'[z].state # "deleting"
    BY DEF NothingDying
<1>1. lb[z].state # "deleting" /\ gw[z].state # "deleting"
    BY BuildingBack DEF NothingDying
<1>2. LBLife(z) /\ GatewayLife(z)
    BY LBLives, GatewayLives DEF BaseInv
<1>3. ~DeleteLB
  <2> SUFFICES ASSUME DeleteLB PROVE FALSE
    OBVIOUS
  <2>1. obj.deleting /\ pc' \notin NormalPCs \cup {"finalizer"}
    BY DEF BaseInv, GuardInv, WorkerFinalizer, DeletePCs, NormalPCs, DeleteLB, Proceed, Reply, CallFails
  <2>2. QED
    BY <2>1, BuildingBack DEF Building
<1>4. ~DeleteGateway
  <2> SUFFICES ASSUME DeleteGateway PROVE FALSE
    OBVIOUS
  <2>1. obj.deleting /\ pc' \notin NormalPCs \cup {"finalizer"}
    BY DEF BaseInv, GuardInv, WorkerFinalizer, DeletePCs, NormalPCs, DeleteGateway, Proceed, Reply, CallFails
  <2>2. QED
    BY <2>1, BuildingBack DEF Building
<1>5. QED
    BY <1>1, <1>2, <1>3, <1>4 DEF LBLife, GatewayLife

\* While the worker builds, a ready load balancer stays as it has been made, and
\* attached gateways stay attached.
LEMMA BuiltStays ==
    ASSUME BaseInv, NothingDying, [Next]_vars, Building', NEW z \in Zones
    PROVE  /\ lb[z].state # "none" => lb'[z].state # "none"
           /\ lb[z].state = "ready" => lb'[z].state = "ready"
           /\ lb[z].net => lb'[z].net
           /\ "own" \in lb[z].backends => "own" \in lb'[z].backends
           /\ "own" \in lb[z].frontends => "own" \in lb'[z].frontends
           /\ gw[z].state # "none" => gw'[z].state # "none"
           /\ gw[z].net => gw'[z].net
<1>1. lb[z].state # "deleting" /\ gw[z].state # "deleting"
    BY BuildingBack DEF NothingDying
<1>2. lb'[z].state # "deleting"
    BY NothingDyingNext DEF NothingDying
<1>3. LBLife(z) /\ GatewayLife(z) /\ LBKept(z) /\ GatewayKept(z)
    BY LBLives, GatewayLives, LBKeeps, GatewayKeeps DEF BaseInv
<1>4. lb[z].state # "none" => lb'[z].state # "none"
    BY <1>1, <1>3 DEF LBLife
<1>5. lb[z].state = "ready" => lb'[z].state = "ready"
    BY <1>2, <1>3 DEF LBLife
<1>6. gw[z].state # "none" => gw'[z].state # "none"
    BY <1>1, <1>3 DEF GatewayLife
<1>7. QED
    BY <1>1, <1>3, <1>4, <1>5, <1>6 DEF LBKept, GatewayKept

-----------------------------------------------------------------------------
(* A ready cluster serves *)

\* At each step of reconcileNormal, everything before it is in place.
LEMMA NormalProgressNext ==
    ASSUME BaseInv, NothingDying, NormalProgress, [Next]_vars
    PROVE  NormalProgress'
<1> DEFINE AfterGw == {"lb", "lbNet", "backend", "frontend", "aclRanges", "aclGw", "aclDeny", "publish"}
           AfterLB == {"lbNet", "backend", "frontend", "aclRanges", "aclGw", "aclDeny", "publish"}
           AfterNet == {"backend", "frontend", "aclRanges", "aclGw", "aclDeny", "publish"}
           AfterBackend == {"frontend", "aclRanges", "aclGw", "aclDeny", "publish"}
           AfterFrontend == {"aclRanges", "aclGw", "aclDeny", "publish"}
<1>t. /\ TypeOK /\ ConfigInv /\ GuardInv
      /\ lb \in [Zones -> LoadBalancers] /\ gw \in [Zones -> Gateways]
      /\ LoadBalancerZone \in Zones /\ PublicGatewayZone \in Zones
    BY ZoneTypes DEF BaseInv, TypeOK
<1>c. conf' = conf
    BY <1>t, ConfigNext
<1>m. pc' \in AfterGw \cup {"gwNet"} =>
        \/ pc' = pc /\ want' = want
        \/ FindGateway /\ (Goes("gw", "lb") \/ Goes("gw", "gwNet"))
        \/ CreateGateway /\ Goes("gwCreate", "gwNet")
        \/ AttachGateway /\ Goes("gwNet", "lb")
        \/ GetOrCreateLB /\ Goes("lb", "lbNet")
        \/ AttachLB /\ Goes("lbNet", "backend")
        \/ EnsureBackend /\ Goes("backend", "frontend")
        \/ EnsureFrontend /\ Goes("frontend", "aclRanges")
        \/ EnsureAllowedRanges /\ Goes("aclRanges", "aclGw")
        \/ EnsureGatewayACL /\ Goes("aclGw", "aclDeny")
        \/ EnsureDenyAll /\ Goes("aclDeny", "publish")
    BY <1>t, Moves DEF Move, Goes, RemoveFinalizer, Return
<1>w. pc' \in AfterGw \cup {"gwNet"} =>
        /\ want' = want /\ LoadBalancerZone' = LoadBalancerZone
        /\ PublicGatewayZone' = PublicGatewayZone
    BY <1>m, <1>c DEF Goes, LoadBalancerZone, PublicGatewayZone
<1>b. pc' \in AfterGw \cup {"gwNet"} => Building'
    BY DEF Building, NormalPCs
<1>h. HasPrivateNetwork' = HasPrivateNetwork
    BY <1>c DEF HasPrivateNetwork
<1>1. pc' = "gwNet" => gw'[PublicGatewayZone].state # "none"
  <2> SUFFICES ASSUME pc' = "gwNet" PROVE gw'[PublicGatewayZone].state # "none"
    OBVIOUS
  <2>1. CASE CreateGateway
    <3>1. gw' = [gw EXCEPT ![PublicGatewayZone].state = "allocating"]
      BY <2>1 DEF CreateGateway, Return
    <3>2. QED
      BY <3>1, <1>t DEF Gateways
  <2>2. CASE FindGateway
    <3>1. gw[PublicGatewayZone].state # "none"
      BY <2>2 DEF FindGateway, Proceed
    <3>2. QED
      BY <3>1, <1>t, <1>b, BuiltStays
  <2>3. CASE pc = "gwNet"
    BY <2>3, <1>t, <1>b, BuiltStays DEF NormalProgress
  <2>4. QED
    BY <2>1, <2>2, <2>3, <1>m DEF Goes
<1>2. pc' \in AfterGw /\ HasPrivateNetwork /\ conf.gw =>
        gw'[PublicGatewayZone].state # "none" /\ gw'[PublicGatewayZone].net
  <2> SUFFICES ASSUME pc' \in AfterGw, HasPrivateNetwork, conf.gw
               PROVE  gw'[PublicGatewayZone].state # "none" /\ gw'[PublicGatewayZone].net
    OBVIOUS
  <2>1. CASE AttachGateway
    <3>1. gw[PublicGatewayZone].state # "none"
      BY <2>1 DEF AttachGateway, NormalProgress
    <3>2. \/ gw[PublicGatewayZone].net /\ gw' = gw
          \/ gw' = [gw EXCEPT ![PublicGatewayZone].net = TRUE]
      BY <2>1 DEF AttachGateway, Return
    <3>3. gw'[PublicGatewayZone].net
      BY <3>2, <1>t DEF Gateways
    <3>4. QED
      BY <3>1, <3>3, <1>t, <1>b, BuiltStays
  <2>2. CASE pc \in AfterGw
    <3>1. gw[PublicGatewayZone].state # "none" /\ gw[PublicGatewayZone].net
      BY <2>2 DEF NormalProgress, AttachedGateways
    <3>2. QED
      BY <3>1, <1>t, <1>b, BuiltStays
  <2>3. ~FindGateway
    BY DEF FindGateway, Proceed
  <2>4. QED
    BY <2>1, <2>2, <2>3, <1>m DEF Goes
<1>3. pc' \in AfterLB => lb'[LoadBalancerZone].state = "ready"
  <2> SUFFICES ASSUME pc' \in AfterLB PROVE lb'[LoadBalancerZone].state = "ready"
    OBVIOUS
  <2>1. lb[LoadBalancerZone].state = "ready"
    <3>1. CASE GetOrCreateLB
      BY <3>1 DEF GetOrCreateLB, Return, CallFails
    <3>2. CASE pc \in AfterLB
      BY <3>2 DEF NormalProgress
    <3>3. QED
      BY <3>1, <3>2, <1>m DEF Goes
  <2>2. QED
    BY <2>1, <1>t, <1>b, BuiltStays
<1>4. pc' \in AfterNet /\ HasPrivateNetwork => lb'[LoadBalancerZone].net
  <2> SUFFICES ASSUME pc' \in AfterNet, HasPrivateNetwork PROVE lb'[LoadBalancerZone].net
    OBVIOUS
  <2>1. CASE AttachLB
    <3>1. \/ lb[LoadBalancerZone].net /\ lb' = lb
          \/ lb' = [lb EXCEPT ![LoadBalancerZone].net = TRUE]
      BY <2>1 DEF AttachLB, Return
    <3>2. QED
      BY <3>1, <1>t DEF LoadBalancers
  <2>2. CASE pc \in AfterNet
    BY <2>2, <1>t, <1>b, BuiltStays DEF NormalProgress
  <2>3. QED
    BY <2>1, <2>2, <1>m DEF Goes
<1>5. pc' \in AfterBackend => "own" \in lb'[LoadBalancerZone].backends
  <2> SUFFICES ASSUME pc' \in AfterBackend PROVE "own" \in lb'[LoadBalancerZone].backends
    OBVIOUS
  <2>1. CASE EnsureBackend
    <3>1. lb' = [lb EXCEPT ![LoadBalancerZone].backends = {"own"}]
      BY <2>1 DEF EnsureBackend, EnsureOwnPart, CallFails
    <3>2. QED
      BY <3>1, <1>t DEF LoadBalancers
  <2>2. CASE pc \in AfterBackend
    BY <2>2, <1>t, <1>b, BuiltStays DEF NormalProgress
  <2>3. QED
    BY <2>1, <2>2, <1>m DEF Goes
<1>6. pc' \in AfterFrontend => "own" \in lb'[LoadBalancerZone].frontends
  <2> SUFFICES ASSUME pc' \in AfterFrontend PROVE "own" \in lb'[LoadBalancerZone].frontends
    OBVIOUS
  <2>1. CASE EnsureFrontend
    <3>1. lb' = [lb EXCEPT ![LoadBalancerZone].frontends = {"own"}]
      BY <2>1 DEF EnsureFrontend, EnsureOwnPart, CallFails
    <3>2. QED
      BY <3>1, <1>t DEF LoadBalancers
  <2>2. CASE pc \in AfterFrontend
    BY <2>2, <1>t, <1>b, BuiltStays DEF NormalProgress
  <2>3. QED
    BY <2>1, <2>2, <1>m DEF Goes
<1>d. pc' \in AfterLB => lb[LoadBalancerZone].state # "deleting" /\ LBKept(LoadBalancerZone)
    BY <1>t, <1>b, BuildingBack, LBKeeps DEF NothingDying
<1>7. pc' \in {"aclGw", "aclDeny"} => lb'[LoadBalancerZone].allowed = want.allowed
  <2> SUFFICES ASSUME pc' \in {"aclGw", "aclDeny"} PROVE lb'[LoadBalancerZone].allowed = want.allowed
    OBVIOUS
  <2>1. CASE EnsureAllowedRanges
    <3>1. \/ lb[LoadBalancerZone].allowed = want.allowed /\ lb' = lb
          \/ lb' = [lb EXCEPT ![LoadBalancerZone].allowed = want.allowed]
      BY <2>1 DEF EnsureAllowedRanges
    <3>2. QED
      BY <3>1, <1>t DEF LoadBalancers
  <2>2. CASE ~EnsureAllowedRanges
    <3>1. pc \in {"aclGw", "aclDeny"}
      BY <2>2, <1>m DEF Goes
    <3>2. QED
      BY <2>2, <3>1, <1>d DEF NormalProgress, LBKept
  <2>3. QED
    BY <2>1, <2>2
<1>8. pc' = "aclDeny" /\ HasPrivateNetwork => AttachedGateways' \subseteq lb'[LoadBalancerZone].gws
  <2> SUFFICES ASSUME pc' = "aclDeny", HasPrivateNetwork
               PROVE  AttachedGateways' \subseteq lb'[LoadBalancerZone].gws
    OBVIOUS
  <2>0. AttachedGateways' \subseteq AttachedGateways
    <3>1. ~AttachGateway /\ ~CreateGateway
      BY DEF AttachGateway, CreateGateway, Proceed, Return, Reply, CallFails
    <3>2. \A z \in Zones : GatewayLife(z) /\ GatewayKept(z)
      BY <1>t, GatewayLives, GatewayKeeps
    <3>3. QED
      BY <3>1, <3>2 DEF GatewayLife, GatewayKept, AttachedGateways
  <2>1. CASE EnsureGatewayACL
    <3>1. \/ lb[LoadBalancerZone].gws = AttachedGateways /\ lb' = lb
          \/ lb' = [lb EXCEPT ![LoadBalancerZone].gws = AttachedGateways]
      BY <2>1 DEF EnsureGatewayACL
    <3>2. lb'[LoadBalancerZone].gws = AttachedGateways
      BY <3>1, <1>t DEF LoadBalancers
    <3>3. QED
      BY <2>0, <3>2
  <2>2. CASE ~EnsureGatewayACL
    <3>1. pc = "aclDeny"
      BY <2>2, <1>m DEF Goes
    <3>2. QED
      BY <2>0, <2>2, <3>1, <1>d DEF NormalProgress, LBKept
  <2>3. QED
    BY <2>1, <2>2
<1>9. QED
  <2>1. pc' \in AfterGw /\ HasPrivateNetwork /\ conf.gw => PublicGatewayZone \in AttachedGateways'
    BY <1>2, <1>t DEF AttachedGateways
  <2>2. QED
    BY <1>1, <2>1, <1>3, <1>4, <1>5, <1>6, <1>7, <1>8, <1>c, <1>w, <1>h DEF NormalProgress

\* A provisioned cluster stays so until it is deleted.
LEMMA ProvisionedNext ==
    ASSUME BaseInv, NothingDying, [Next]_vars, ~obj'.deleting, Provisioned
    PROVE  Provisioned'
<1>1. conf' = conf /\ Building'
    BY ConfigNext DEF BaseInv, Building
<1>2. PICK z \in Zones : Serving(z)
    BY DEF Provisioned
<1>3. Serving(z)'
    BY <1>1, <1>2, BuiltStays DEF Serving, HasPrivateNetwork
<1>4. AttachedGateways \subseteq AttachedGateways'
    BY <1>1, BuiltStays DEF AttachedGateways
<1>5. QED
    BY <1>1, <1>3, <1>4 DEF Provisioned, HasPrivateNetwork

\* The worker does not claim more than there is.
LEMMA ReadyNext ==
    ASSUME BaseInv, ServingInv, [Next]_vars
    PROVE  ReadyInv'
<1> SUFFICES ASSUME ~obj'.deleting, obj'.f.ready \/ (pc' # "idle" /\ mem'.ready)
             PROVE  Provisioned'
    BY DEF ReadyInv
<1>t. /\ TypeOK /\ obj \in [exists : BOOLEAN, deleting : BOOLEAN, f : Fields] /\ mem \in Fields
      /\ ~obj.deleting /\ LoadBalancerZone \in Zones /\ PublicGatewayZone \in Zones
    BY BuildingBack, ZoneTypes DEF BaseInv, TypeOK
<1>r. CASE obj.f.ready \/ (pc # "idle" /\ mem.ready)
    BY <1>r, <1>t, ProvisionedNext DEF ServingInv, ReadyInv
<1>p. CASE Publish
  <2>1. Serving(LoadBalancerZone)
    BY <1>p DEF Publish, ServingInv, NormalProgress, Serving
  <2>2. HasPrivateNetwork /\ conf.gw => AttachedGateways # {}
    BY <1>p DEF Publish, ServingInv, NormalProgress
  <2>3. Provisioned
    BY <2>1, <2>2, <1>t DEF Provisioned
  <2>4. QED
    BY <2>3, ProvisionedNext DEF ServingInv
<1>1. obj'.f.ready => obj.f.ready \/ (pc = "close" /\ mem.ready)
  <2>1. CASE AddFinalizer
    BY <2>1, <1>t DEF AddFinalizer, StoreFinalizer, Fields
  <2>2. CASE Close
    <3>1. ASSUME NEW x \in BOOLEAN, NEW y \in BOOLEAN, obj' = Patched(x, y)
          PROVE  obj'.f.ready => obj.f.ready \/ mem.ready
      <4>1. obj'.f.ready = (IF y THEN mem.ready ELSE obj.f.ready)
        BY <3>1, <1>t, PatchedFields
      <4>2. QED
        BY <4>1
    <3>2. QED
      BY <2>2, <3>1, CloseObject DEF Close
  <2>3. CASE UserDelete
    BY <2>3, <1>t DEF UserDelete
  <2>4. QED
    BY <2>1, <2>2, <2>3, WhoWrites DEF Writers
<1>2. pc' # "idle" /\ mem'.ready => obj.f.ready \/ (pc # "idle" /\ mem.ready) \/ Publish
  <2> DEFINE G == pc' # "idle" /\ mem'.ready => obj.f.ready \/ (pc # "idle" /\ mem.ready) \/ Publish
  <2> SUFFICES G
    OBVIOUS
  <2> USE DEF k8s, local
  <2>1. CASE HasFinalizer
      BY <2>1 DEF HasFinalizer, Proceed, Return, Reply, CallFails
  <2>2. CASE FinalizerTooLate
      BY <2>2, <1>t DEF FinalizerTooLate, Fields, Proceed, Return, Reply, CallFails
  <2>3. CASE AddFinalizer
      BY <2>3, <1>t DEF AddFinalizer, Fields, Proceed, Return, Reply, CallFails
  <2>4. CASE ReconcileSecurityGroups
      BY <2>4, <1>t
      DEF ReconcileSecurityGroups, EnsureSecurityGroups, Fields, Proceed, Return, Reply, CallFails
  <2>5. CASE ReconcilePrivateNetwork
      BY <2>5, <1>t DEF ReconcilePrivateNetwork, Fields, Proceed, Return, Reply, CallFails
  <2>6. CASE FindGateway
      BY <2>6 DEF FindGateway, Proceed, Return, Reply, CallFails
  <2>7. CASE GetOrCreateGatewayIP
      BY <2>7 DEF GetOrCreateGatewayIP, Proceed, Return, Reply, CallFails
  <2>8. CASE CreateGateway
      BY <2>8 DEF CreateGateway, Proceed, Return, Reply, CallFails
  <2>9. CASE AttachGateway
      BY <2>9 DEF AttachGateway, Proceed, Return, Reply, CallFails
  <2>10. CASE GetOrCreateLB
      BY <2>10 DEF GetOrCreateLB, Proceed, Return, Reply, CallFails
  <2>11. CASE AttachLB
      BY <2>11 DEF AttachLB, Proceed, Return, Reply, CallFails
  <2>12. CASE EnsureBackend
      BY <2>12 DEF EnsureBackend, EnsureOwnPart, Proceed, CallFails
  <2>13. CASE EnsureFrontend
      BY <2>13 DEF EnsureFrontend, EnsureOwnPart, Proceed, CallFails
  <2>14. CASE EnsureAllowedRanges
      BY <2>14 DEF EnsureAllowedRanges, Proceed, Return, Reply, CallFails
  <2>15. CASE EnsureGatewayACL
      BY <2>15 DEF EnsureGatewayACL, Proceed, Return, Reply, CallFails
  <2>16. CASE EnsureDenyAll
      BY <2>16 DEF EnsureDenyAll, Proceed, Return, Reply, CallFails
  <2>17. CASE Publish
      BY <2>17 DEF Publish, Proceed, Return, Reply, CallFails
  <2>18. CASE DeleteLB
      BY <2>18 DEF DeleteLB, Proceed, Return, Reply, CallFails
  <2>19. CASE DeleteGateway
      BY <2>19 DEF DeleteGateway, Proceed, Return, Reply, CallFails
  <2>20. CASE DeleteGatewayIP
      BY <2>20 DEF DeleteGatewayIP, Proceed, Return, Reply, CallFails
  <2>21. CASE DeletePrivateNetwork
      BY <2>21 DEF DeletePrivateNetwork, Proceed, Return, Reply, CallFails
  <2>22. CASE DeleteSecurityGroups
      BY <2>22 DEF DeleteSecurityGroups, EnsureSecurityGroups, Proceed, Return, Reply, CallFails
  <2>23. CASE RemoveFinalizer
      BY <2>23, <1>t DEF RemoveFinalizer, Fields, Proceed, Return, Reply, CallFails
  <2>24. CASE AnyCallRefused
      BY <2>24 DEF AnyCallRefused, CallRefused, CallFails
  <2>25. CASE Close
      BY <2>25 DEF Close
  <2>26. CASE SkipReconcile
      BY <2>26 DEF SkipReconcile
  <2>27. CASE GetFails
      BY <2>27 DEF GetFails
  <2>28. CASE Reconcile
      BY <2>28 DEF Reconcile
  <2>29. CASE Crash
      BY <2>29 DEF Crash
  <2>30. CASE PeriodicResync
      BY <2>30 DEF PeriodicResync
  <2>31. CASE SetOwner
      BY <2>31 DEF SetOwner
  <2>32. CASE Unpause
      BY <2>32 DEF Unpause
  <2>33. CASE UserEdit
      BY <2>33 DEF UserEdit
  <2>34. CASE UserDelete
      BY <2>34 DEF UserDelete
  <2>35. CASE ServersCreated
      BY <2>35 DEF ServersCreated
  <2>36. CASE ServersTerminated
      BY <2>36 DEF ServersTerminated
  <2>37. ASSUME NEW z \in Zones, AddForeignParts(z) PROVE G
      BY <2>37 DEF AddForeignParts
  <2>38. ASSUME NEW z \in Zones, LBSettles(z) PROVE G
      BY <2>38 DEF LBSettles
  <2>39. ASSUME NEW z \in Zones, GatewaySettles(z) PROVE G
      BY <2>39 DEF GatewaySettles
  <2>40. CASE UNCHANGED vars
      BY <2>40 DEF vars
  <2>41. QED
      BY <2>1, <2>2, <2>3, <2>4, <2>5, <2>6, <2>7, <2>8, <2>9, <2>10, <2>11, <2>12, <2>13, <2>14,
         <2>15, <2>16, <2>17, <2>18, <2>19, <2>20, <2>21, <2>22, <2>23, <2>24, <2>25, <2>26, <2>27,
         <2>28, <2>29, <2>30, <2>31, <2>32, <2>33, <2>34, <2>35, <2>36, <2>37, <2>38, <2>39, <2>40
      DEF Next, Step, NormalStep, DeleteStep, Take, Environment
<1>3. QED
    BY <1>r, <1>p, <1>1, <1>2

\* It holds at the start.
LEMMA ServingInit == Init => ServingInv
<1> SUFFICES ASSUME Init PROVE ServingInv
    OBVIOUS
<1>1. NothingDying
    BY DEF Init, NoLB, NoGateway, NothingDying
<1>2. NormalProgress
    BY DEF Init, NormalProgress
<1>3. ReadyInv
    BY DEF Init, NoFields, ReadyInv
<1>4. QED
    BY <1>1, <1>2, <1>3 DEF ServingInv

\* Every step keeps it.
LEMMA ServingNext == BaseInv /\ ServingInv /\ [Next]_vars => ServingInv'
  BY NothingDyingNext, NormalProgressNext, ReadyNext DEF ServingInv

\* It is an invariant.
LEMMA ServingInvariant == Spec => []ServingInv
  BY ServingInit, ServingNext, BaseInvariant, PTL DEF Spec

\* A cluster that is reported ready has a load balancer that serves the control plane
\* on the Private Network, and an attached gateway if the spec asks for one.
THEOREM ReadyServes == Spec => []ReadyMeansServing
<1>1. ServingInv => ReadyMeansServing
    BY DEF ServingInv, ReadyInv, Provisioned, ReadyMeansServing
<1>2. QED
    BY <1>1, ServingInvariant, PTL

\* A step that installs the rule that denies everything.
LEMMA DenyStep ==
    ASSUME BaseInv, ServingInv, [Next]_vars, NEW z \in Zones, lb'[z].deny, ~lb[z].deny
    PROVE  lb[z].allowed # {} /\ AttachedGateways \subseteq lb[z].gws
<1>1. EnsureDenyAll /\ z = LoadBalancerZone
    BY LBKeeps DEF BaseInv, LBKept
<1>2. want.allowed # {}
  <2>1. lb' = lb \/ lb' = [lb EXCEPT ![z].deny = DenyAll]
    BY <1>1 DEF EnsureDenyAll
  <2>2. SUFFICES ASSUME want.allowed = {} PROVE FALSE
    OBVIOUS
  <2>3. DenyAll = FALSE
    BY <2>2 DEF DenyAll
  <2>4. lb' = lb \/ lb' = [lb EXCEPT ![z].deny = FALSE]
    BY <2>1, <2>3, Zenon
  <2>5. QED
    BY <2>4 DEF BaseInv, TypeOK, LoadBalancers
<1>3. lb[z].allowed = want.allowed
    BY <1>1 DEF EnsureDenyAll, ServingInv, NormalProgress
<1>4. CASE HasPrivateNetwork
    BY <1>1, <1>2, <1>3, <1>4 DEF EnsureDenyAll, ServingInv, NormalProgress
<1>5. CASE ~HasPrivateNetwork
  <2>1. AttachedGateways = {}
    BY <1>5 DEF BaseInv, GatewayWanted, AttachedGateways
  <2>2. QED
    BY <1>2, <1>3, <2>1
<1>6. QED
    BY <1>4, <1>5

\* The rule that denies everything is installed only after the allowed ranges and the
\* gateways of the network are let in.
THEOREM DenyIsLast == Spec => DenyInstalledLast
<1>1. BaseInv /\ ServingInv /\ [Next]_vars =>
          \A z \in Zones : lb'[z].deny /\ ~lb[z].deny =>
              lb[z].allowed # {} /\ AttachedGateways \subseteq lb[z].gws
    BY DenyStep
<1>2. QED
    BY <1>1, BaseInvariant, ServingInvariant, PTL DEF Spec, DenyInstalledLast

-----------------------------------------------------------------------------
(* The endpoint *)

\* Who writes the endpoint in the object: Close, with what the worker has in memory.
LEMMA EndpointWriters ==
    ASSUME TypeOK, [Next]_vars
    PROVE  obj'.f.endpoint = obj.f.endpoint \/ (Close /\ obj'.f.endpoint = mem.endpoint)
<1>t. obj \in [exists : BOOLEAN, deleting : BOOLEAN, f : Fields]
    BY DEF TypeOK
<1>1. CASE AddFinalizer
    BY <1>1, <1>t DEF AddFinalizer, StoreFinalizer, Fields
<1>2. CASE UserDelete
    BY <1>2, <1>t DEF UserDelete
<1>3. CASE Close
  <2>1. ASSUME NEW x \in BOOLEAN, NEW y \in BOOLEAN, obj' = Patched(x, y)
        PROVE  obj'.f.endpoint = obj.f.endpoint \/ obj'.f.endpoint = mem.endpoint
    <3>1. obj'.f.endpoint = (IF x THEN mem.endpoint ELSE obj.f.endpoint)
      BY <2>1, PatchedFields
    <3>2. QED
      BY <3>1
  <2>2. QED
    BY <1>3, <2>1, CloseObject
<1>4. QED
    BY <1>1, <1>2, <1>3, WhoWrites DEF Writers

\* Who writes what the worker has in memory: the load of the object, Publish, and
\* SetStatusPrivateNetworkID for a network that exists; a worker that has ended
\* forgets it all.
MemoryLife ==
    \/ /\ mem'.endpoint = mem.endpoint /\ mem'.ready = mem.ready
       /\ mem'.pnID = mem.pnID \/ (mem'.pnID /\ pn')
       /\ pc = "idle" => pc' = "idle"
    \/ Reconcile /\ mem' = obj.f
    \/ Publish /\ mem'.endpoint = LoadBalancerZone /\ mem'.ready /\ mem'.pnID = mem.pnID
    \/ pc' = "idle" /\ mem' = NoFields

\* Nobody else does.
LEMMA MemoryLives == TypeOK /\ [Next]_vars => MemoryLife
<1> SUFFICES ASSUME TypeOK, [Next]_vars PROVE MemoryLife
    OBVIOUS
<1>t. mem \in Fields
    BY DEF TypeOK
<1> USE DEF MemoryLife, k8s, local
<1>1. CASE HasFinalizer
    BY <1>1 DEF HasFinalizer
<1>2. CASE FinalizerTooLate
    BY <1>2, <1>t DEF FinalizerTooLate, Fields
<1>3. CASE AddFinalizer
    BY <1>3, <1>t DEF AddFinalizer, Fields
<1>4. CASE ReconcileSecurityGroups
    BY <1>4, <1>t DEF ReconcileSecurityGroups, EnsureSecurityGroups, Fields
<1>5. CASE ReconcilePrivateNetwork
    BY <1>5, <1>t DEF ReconcilePrivateNetwork, Fields
<1>6. CASE FindGateway
    BY <1>6 DEF FindGateway
<1>7. CASE GetOrCreateGatewayIP
    BY <1>7 DEF GetOrCreateGatewayIP
<1>8. CASE CreateGateway
    BY <1>8 DEF CreateGateway
<1>9. CASE AttachGateway
    BY <1>9 DEF AttachGateway
<1>10. CASE GetOrCreateLB
    BY <1>10 DEF GetOrCreateLB
<1>11. CASE AttachLB
    BY <1>11 DEF AttachLB
<1>12. CASE EnsureBackend
    BY <1>12 DEF EnsureBackend
<1>13. CASE EnsureFrontend
    BY <1>13 DEF EnsureFrontend
<1>14. CASE EnsureAllowedRanges
    BY <1>14 DEF EnsureAllowedRanges
<1>15. CASE EnsureGatewayACL
    BY <1>15 DEF EnsureGatewayACL
<1>16. CASE EnsureDenyAll
    BY <1>16 DEF EnsureDenyAll
<1>17. CASE Publish
    BY <1>17, <1>t DEF Publish, Fields
<1>18. CASE DeleteLB
    BY <1>18 DEF DeleteLB
<1>19. CASE DeleteGateway
    BY <1>19 DEF DeleteGateway
<1>20. CASE DeleteGatewayIP
    BY <1>20 DEF DeleteGatewayIP
<1>21. CASE DeletePrivateNetwork
    BY <1>21 DEF DeletePrivateNetwork
<1>22. CASE DeleteSecurityGroups
    BY <1>22 DEF DeleteSecurityGroups, EnsureSecurityGroups
<1>23. CASE RemoveFinalizer
    BY <1>23, <1>t DEF RemoveFinalizer, Fields
<1>24. CASE AnyCallRefused
    BY <1>24 DEF AnyCallRefused, CallRefused, CallFails
<1>25. CASE Close
    BY <1>25 DEF Close
<1>26. CASE SkipReconcile
    BY <1>26 DEF SkipReconcile
<1>27. CASE GetFails
    BY <1>27 DEF GetFails
<1>28. CASE Reconcile
    BY <1>28 DEF Reconcile
<1>29. CASE Crash
    BY <1>29 DEF Crash
<1>30. CASE PeriodicResync
    BY <1>30 DEF PeriodicResync
<1>31. CASE SetOwner
    BY <1>31 DEF SetOwner
<1>32. CASE Unpause
    BY <1>32 DEF Unpause
<1>33. CASE UserEdit
    BY <1>33 DEF UserEdit
<1>34. CASE UserDelete
    BY <1>34 DEF UserDelete
<1>35. CASE ServersCreated
    BY <1>35 DEF ServersCreated
<1>36. CASE ServersTerminated
    BY <1>36 DEF ServersTerminated
<1>37. ASSUME NEW z \in Zones, AddForeignParts(z) PROVE MemoryLife
    BY <1>37 DEF AddForeignParts
<1>38. ASSUME NEW z \in Zones, LBSettles(z) PROVE MemoryLife
    BY <1>38 DEF LBSettles
<1>39. ASSUME NEW z \in Zones, GatewaySettles(z) PROVE MemoryLife
    BY <1>39 DEF GatewaySettles
<1>40. CASE UNCHANGED vars
    BY <1>40 DEF vars
<1>41. QED
    BY <1>1, <1>2, <1>3, <1>4, <1>5, <1>6, <1>7, <1>8, <1>9, <1>10, <1>11, <1>12, <1>13, <1>14,
       <1>15, <1>16, <1>17, <1>18, <1>19, <1>20, <1>21, <1>22, <1>23, <1>24, <1>25, <1>26, <1>27,
       <1>28, <1>29, <1>30, <1>31, <1>32, <1>33, <1>34, <1>35, <1>36, <1>37, <1>38, <1>39, <1>40
    DEF Next, Step, NormalStep, DeleteStep, Take, Environment

\* The published endpoint stays that of the one load balancer.
LEMMA EndpointNext ==
    ASSUME BaseInv, ServingInv, SingleLB, EndpointInv, [Next]_vars
    PROVE  EndpointInv'
<1>t. /\ TypeOK /\ NothingDying /\ LoadBalancerZone \in Zones
      /\ obj.f.endpoint \in Zones \cup {None} /\ mem.endpoint \in Zones \cup {None}
    BY ZoneTypes DEF BaseInv, ServingInv, TypeOK, Fields
<1>b. Building' => Building
    BY BuildingBack
<1>e. obj'.f.endpoint = obj.f.endpoint \/ (Close /\ obj'.f.endpoint = mem.endpoint)
    BY <1>t, EndpointWriters
<1>m. MemoryLife
    BY <1>t, MemoryLives
<1>p. Publish => lb[LoadBalancerZone].state # "none" /\ Building /\ pc # "idle" /\ ~Close
    BY DEF Publish, Close, ServingInv, NormalProgress, Building, NormalPCs
<1>s. Building' => \A z \in Zones : lb[z].state # "none" => lb'[z].state # "none"
    BY <1>t, BuiltStays
<1>1. Building' /\ obj'.f.endpoint # None => lb'[obj'.f.endpoint].state # "none"
    BY <1>t, <1>b, <1>e, <1>s DEF EndpointInv
<1>2. Building' /\ mem'.endpoint # None => lb'[mem'.endpoint].state # "none"
    BY <1>t, <1>b, <1>m, <1>p, <1>s DEF EndpointInv, MemoryLife, NoFields
<1>3. pc' # "idle" /\ obj'.f.endpoint # None => mem'.endpoint = obj'.f.endpoint
  <2> SUFFICES ASSUME pc' # "idle", obj'.f.endpoint # None PROVE mem'.endpoint = obj'.f.endpoint
    OBVIOUS
  <2>1. obj'.f.endpoint = obj.f.endpoint
    BY <1>e DEF Close
  <2>2. CASE Publish
    <3>1. lb[obj.f.endpoint].state # "none" /\ lb[LoadBalancerZone].state # "none"
      BY <2>1, <2>2, <1>p DEF EndpointInv
    <3>2. obj.f.endpoint = LoadBalancerZone
      BY <3>1, <2>1, <1>t DEF SingleLB
    <3>3. mem'.endpoint = LoadBalancerZone
      <4>1. mem \in Fields
        BY <1>t DEF TypeOK
      <4>2. QED
        BY <2>2, <4>1 DEF Publish, Fields
    <3>4. QED
      BY <2>1, <3>2, <3>3
  <2>3. QED
    BY <2>1, <2>2, <1>m DEF MemoryLife, EndpointInv
<1>4. QED
    BY <1>1, <1>2, <1>3 DEF EndpointInv

LEMMA EndpointInit == Init => SingleLB /\ EndpointInv
  BY DEF Init, NoLB, NoFields, SingleLB, EndpointInv

LEMMA PinnedNext ==
    ASSUME LoadBalancerPinned
    PROVE  BaseInv /\ ServingInv /\ SingleLB /\ EndpointInv /\ [Next]_vars => SingleLB' /\ EndpointInv'
  BY LoadBalancerPinned, SingleLBNext, EndpointNext DEF BaseInv

LEMMA EndpointKept ==
    BaseInv /\ EndpointInv /\ [Next]_vars =>
        (obj.f.endpoint # None => obj'.f.endpoint = obj.f.endpoint)
  BY EndpointWriters DEF BaseInv, EndpointInv, Close

\* The endpoint that machines are given never changes once it is published, if no edit
\* of failureDomains can move the load balancer.
THEOREM EndpointIsStable ==
    ASSUME LoadBalancerPinned PROVE Spec => EndpointStable
<1>1. Spec => [](SingleLB /\ EndpointInv)
    BY LoadBalancerPinned, EndpointInit, PinnedNext, BaseInvariant, ServingInvariant, PTL DEF Spec
<1>2. QED
    BY <1>1, EndpointKept, BaseInvariant, PTL DEF Spec, EndpointStable

-----------------------------------------------------------------------------
(* The Private Network of a ready cluster *)

\* The managed network is there whenever its ID is, until the object is deleted: the
\* worker goes on to publish only with the ID, the ID is in the status that says ready,
\* and ready is never taken back.  Delete forgets the object only without the network.
NetworkInv ==
    /\ pn => ShouldManagePrivateNetwork /\ obj.exists /\ obj.f.finalizer
    /\ pc \in {"delSG", "unfinalize"} \/ (pc = "close" /\ ~mem.finalizer) => ~pn
    /\ Building /\ (obj.f.pnID \/ (pc # "idle" /\ mem.pnID)) => pn
    /\ pc \in {"backend", "frontend", "aclRanges", "aclGw", "aclDeny", "publish"}
          /\ HasPrivateNetwork => mem.pnID
    /\ obj.f.ready /\ HasPrivateNetwork => obj.f.pnID
    /\ pc # "idle" /\ mem.ready /\ HasPrivateNetwork => mem.pnID
    /\ pc # "idle" /\ obj.f.ready => mem.ready

\* Who writes the status in the object: Close, all of it, with what the worker has in memory.
LEMMA StatusWriters ==
    ASSUME TypeOK, [Next]_vars
    PROVE  \/ obj'.f.ready = obj.f.ready /\ obj'.f.pnID = obj.f.pnID
           \/ Close /\ obj'.f.ready = mem.ready /\ obj'.f.pnID = mem.pnID
<1>t. obj \in [exists : BOOLEAN, deleting : BOOLEAN, f : Fields]
    BY DEF TypeOK
<1>1. CASE AddFinalizer
    BY <1>1, <1>t DEF AddFinalizer, StoreFinalizer, Fields
<1>2. CASE UserDelete
    BY <1>2, <1>t DEF UserDelete
<1>3. CASE Close
  <2>1. ASSUME NEW x \in BOOLEAN, NEW y \in BOOLEAN, obj' = Patched(x, y)
        PROVE  \/ obj'.f.ready = obj.f.ready /\ obj'.f.pnID = obj.f.pnID
               \/ obj'.f.ready = mem.ready /\ obj'.f.pnID = mem.pnID
    <3>1. /\ obj'.f.ready = (IF y THEN mem.ready ELSE obj.f.ready)
          /\ obj'.f.pnID = (IF y THEN mem.pnID ELSE obj.f.pnID)
      BY <2>1, PatchedFields
    <3>2. QED
      BY <3>1
  <2>2. QED
    BY <1>3, <2>1, CloseObject
<1>4. QED
    BY <1>1, <1>2, <1>3, WhoWrites DEF Writers

\* Only reconcileNormal makes the network, and only reconcileDelete removes it.
LEMMA NetworkLives ==
    ASSUME BaseInv, [Next]_vars
    PROVE  /\ pn' /\ ~pn => pc = "pn" /\ ShouldManagePrivateNetwork /\ obj' = obj
           /\ pn /\ ~pn' => DeletePrivateNetwork /\ ~servers /\ ~Building'
<1>1. ReconcilePrivateNetwork /\ ShouldManagePrivateNetwork => pc = "pn" /\ obj' = obj /\ pn'
    BY DEF ReconcilePrivateNetwork, k8s
<1>2. ASSUME DeletePrivateNetwork, pn, ~pn' PROVE ~servers /\ ~Building'
  <2>1. ~NetworkInUse /\ pc = "delPN" /\ obj' = obj /\ pc' \in {"delSG", "close"}
    BY <1>2 DEF DeletePrivateNetwork, Proceed, Reply, CallFails, k8s
  <2>2. obj.deleting
    BY <2>1 DEF BaseInv, GuardInv, WorkerFinalizer, DeletePCs
  <2>3. QED
    BY <2>1, <2>2 DEF NetworkInUse, Building, NormalPCs
<1>3. pn' = pn \/ (ReconcilePrivateNetwork /\ ShouldManagePrivateNetwork)
               \/ (DeletePrivateNetwork /\ pn' = FALSE)
    BY OthersAppear
<1>4. pn' /\ ~pn => pc = "pn" /\ ShouldManagePrivateNetwork /\ obj' = obj
    BY <1>1, <1>3
<1>5. pn /\ ~pn' => DeletePrivateNetwork
    BY <1>1, <1>3
<1>6. QED
    BY <1>2, <1>4, <1>5

\* The finalizer stays until the network is gone.
LEMMA NetworkGuarded ==
    ASSUME BaseInv, NetworkInv, [Next]_vars, pn'
    PROVE  ShouldManagePrivateNetwork' /\ obj'.exists /\ obj'.f.finalizer
<1>t. TypeOK /\ ConfigInv /\ obj \in [exists : BOOLEAN, deleting : BOOLEAN, f : Fields]
    BY DEF BaseInv, TypeOK
<1>1. conf' = conf
    BY <1>t, ConfigNext
<1>2. ShouldManagePrivateNetwork /\ obj.exists /\ obj.f.finalizer
    BY NetworkLives DEF NetworkInv, BaseInv, GuardInv, WorkerFinalizer, NormalPCs
<1>3. ShouldManagePrivateNetwork'
    BY <1>1, <1>2 DEF ShouldManagePrivateNetwork
<1>4. CASE AddFinalizer
    BY <1>2, <1>3, <1>4, <1>t DEF AddFinalizer, StoreFinalizer, Fields
<1>5. CASE UserDelete
    BY <1>2, <1>3, <1>5, <1>t DEF UserDelete
<1>6. CASE Close
  <2>1. pc = "close"
    BY <1>6 DEF Close
  <2>2. mem.finalizer
    BY <2>1, NetworkLives DEF NetworkInv
  <2>3. ASSUME NEW x \in BOOLEAN, NEW y \in BOOLEAN, obj' = Patched(x, y)
        PROVE  obj'.exists /\ obj'.f.finalizer
    <3>1. /\ obj'.f.finalizer = (IF x THEN mem.finalizer ELSE obj.f.finalizer)
          /\ obj'.exists = (obj.exists /\ ~(obj.deleting /\ x /\ ~mem.finalizer))
      BY <2>3, <1>t, PatchedFields
    <3>2. QED
      BY <3>1, <1>2, <2>2
  <2>4. QED
    BY <1>2, <1>3, <1>6, <2>3, CloseObject
<1>7. QED
    BY <1>2, <1>3, <1>4, <1>5, <1>6, WhoWrites DEF Writers

\* Every step keeps the invariant.
LEMMA NetworkNext == BaseInv /\ NetworkInv /\ [Next]_vars => NetworkInv'
<1> SUFFICES ASSUME BaseInv, NetworkInv, [Next]_vars PROVE NetworkInv'
    OBVIOUS
<1>t. TypeOK /\ ConfigInv /\ GuardInv /\ mem \in Fields
    BY DEF BaseInv, TypeOK
<1>c. HasPrivateNetwork' = HasPrivateNetwork
    BY <1>t, ConfigNext DEF HasPrivateNetwork
<1>m. MemoryLife
    BY <1>t, MemoryLives
<1>s. \/ obj'.f.ready = obj.f.ready /\ obj'.f.pnID = obj.f.pnID
      \/ /\ pc = "close" /\ pc' = "idle"
         /\ obj'.f.ready = mem.ready /\ obj'.f.pnID = mem.pnID
    BY <1>t, StatusWriters DEF Close
<1>p. Publish => pc = "publish" /\ pc' = "close"
    BY DEF Publish, Return
<1>r. Reconcile => pc' \in {"delLB", "finalizer"}
    BY DEF Reconcile
<1>1. pn' => ShouldManagePrivateNetwork' /\ obj'.exists /\ obj'.f.finalizer
    BY NetworkGuarded
<1>2. pc' \in {"delSG", "unfinalize"} \/ (pc' = "close" /\ ~mem'.finalizer) => ~pn'
  <2>1. CASE pc' = pc /\ mem' = mem
    BY <2>1, NetworkLives DEF NetworkInv
  <2>2. CASE RemoveFinalizer
    BY <2>2, NetworkLives DEF RemoveFinalizer, NetworkInv
  <2>3. CASE DeletePrivateNetwork /\ Goes("delPN", "delSG")
    BY <2>3 DEF DeletePrivateNetwork, Goes, Return, NetworkInv
  <2>4. CASE DeleteSecurityGroups /\ Goes("delSG", "unfinalize")
    BY <2>4, NetworkLives DEF Goes, NetworkInv
  <2>5. QED
    BY <1>t, <1>r, <2>1, <2>2, <2>3, <2>4, Moves DEF Move, Goes
<1>3. Building' /\ (obj'.f.pnID \/ (pc' # "idle" /\ mem'.pnID)) => pn'
  <2>1. Building' => Building
    BY BuildingBack
  <2>2. obj'.f.pnID => obj.f.pnID \/ (pc # "idle" /\ mem.pnID)
    BY <1>s
  <2>3. pc' # "idle" /\ mem'.pnID => obj.f.pnID \/ (pc # "idle" /\ mem.pnID) \/ pn'
    BY <1>m, <1>p DEF MemoryLife
  <2>4. QED
    BY <2>1, <2>2, <2>3, NetworkLives DEF NetworkInv
<1>4. pc' \in {"backend", "frontend", "aclRanges", "aclGw", "aclDeny", "publish"}
         /\ HasPrivateNetwork' => mem'.pnID
  <2> SUFFICES ASSUME pc' \in {"backend", "frontend", "aclRanges", "aclGw", "aclDeny", "publish"},
                      HasPrivateNetwork
               PROVE  mem'.pnID
    BY <1>c
  <2>1. mem.pnID => mem'.pnID
    BY <1>m, <1>p, <1>r DEF MemoryLife
  <2>2. AttachLB /\ Goes("lbNet", "backend") => mem.pnID
    BY DEF AttachLB, Goes, Return, StatusNetworkIsNil
  <2>3. QED
    BY <1>t, <1>r, <2>1, <2>2, Moves DEF Move, Goes, RemoveFinalizer, Return, NetworkInv
<1>5. obj'.f.ready /\ HasPrivateNetwork' => obj'.f.pnID
    BY <1>s, <1>c DEF NetworkInv
<1>6. pc' # "idle" /\ mem'.ready /\ HasPrivateNetwork' => mem'.pnID
  <2>1. pc' # "idle" /\ mem'.ready /\ HasPrivateNetwork =>
            mem.pnID \/ mem'.pnID \/ (Reconcile /\ mem' = obj.f)
    BY <1>m, <1>p DEF MemoryLife, NetworkInv
  <2>2. QED
    BY <1>m, <1>p, <1>c, <2>1 DEF MemoryLife, NetworkInv
<1>7. pc' # "idle" /\ obj'.f.ready => mem'.ready
    BY <1>s, <1>m, <1>p DEF MemoryLife, NetworkInv
<1>8. QED
    BY <1>1, <1>2, <1>3, <1>4, <1>5, <1>6, <1>7 DEF NetworkInv

\* There is no network at the start.
LEMMA NetworkInit == Init => NetworkInv
  BY DEF Init, NetworkInv, NoFields

-----------------------------------------------------------------------------
(* For the composition with the machine controller, see Provider *)

\* The steps of the worker that change the object.
LEMMA StepWrites == Step => obj' = obj \/ AddFinalizer \/ Close
<1> SUFFICES ASSUME Step, ~AddFinalizer, ~Close PROVE obj' = obj
    OBVIOUS
<1> USE DEF k8s
<1>1. CASE HasFinalizer
    BY <1>1 DEF HasFinalizer
<1>2. CASE FinalizerTooLate
    BY <1>2 DEF FinalizerTooLate
<1>3. CASE ReconcileSecurityGroups
    BY <1>3 DEF ReconcileSecurityGroups
<1>4. CASE ReconcilePrivateNetwork
    BY <1>4 DEF ReconcilePrivateNetwork
<1>5. CASE FindGateway
    BY <1>5 DEF FindGateway
<1>6. CASE GetOrCreateGatewayIP
    BY <1>6 DEF GetOrCreateGatewayIP
<1>7. CASE CreateGateway
    BY <1>7 DEF CreateGateway
<1>8. CASE AttachGateway
    BY <1>8 DEF AttachGateway
<1>9. CASE GetOrCreateLB
    BY <1>9 DEF GetOrCreateLB
<1>10. CASE AttachLB
    BY <1>10 DEF AttachLB
<1>11. CASE EnsureBackend
    BY <1>11 DEF EnsureBackend
<1>12. CASE EnsureFrontend
    BY <1>12 DEF EnsureFrontend
<1>13. CASE EnsureAllowedRanges
    BY <1>13 DEF EnsureAllowedRanges
<1>14. CASE EnsureGatewayACL
    BY <1>14 DEF EnsureGatewayACL
<1>15. CASE EnsureDenyAll
    BY <1>15 DEF EnsureDenyAll
<1>16. CASE Publish
    BY <1>16 DEF Publish
<1>17. CASE DeleteLB
    BY <1>17 DEF DeleteLB
<1>18. CASE DeleteGateway
    BY <1>18 DEF DeleteGateway
<1>19. CASE DeleteGatewayIP
    BY <1>19 DEF DeleteGatewayIP
<1>20. CASE DeletePrivateNetwork
    BY <1>20 DEF DeletePrivateNetwork
<1>21. CASE DeleteSecurityGroups
    BY <1>21 DEF DeleteSecurityGroups
<1>22. CASE RemoveFinalizer
    BY <1>22 DEF RemoveFinalizer
<1>23. CASE AnyCallRefused
    BY <1>23 DEF AnyCallRefused, CallRefused
<1>24. QED
    BY <1>1, <1>2, <1>3, <1>4, <1>5, <1>6, <1>7, <1>8, <1>9, <1>10, <1>11, <1>12, <1>13, <1>14,
       <1>15, <1>16, <1>17, <1>18, <1>19, <1>20, <1>21, <1>22, <1>23
    DEF Step, NormalStep, DeleteStep

\* The worker never asks for the deletion of its object.
LEMMA StepKeepsDeleting ==
    ASSUME TypeOK, Step
    PROVE  obj'.deleting = obj.deleting
<1>t. obj \in [exists : BOOLEAN, deleting : BOOLEAN, f : Fields]
    BY DEF TypeOK
<1>1. CASE AddFinalizer
    BY <1>1, <1>t DEF AddFinalizer, StoreFinalizer
<1>2. CASE Close
  <2>1. ASSUME NEW x \in BOOLEAN, NEW y \in BOOLEAN, obj' = Patched(x, y)
        PROVE  obj'.deleting = obj.deleting
    BY <2>1, PatchedFields
  <2>2. QED
    BY <1>2, <2>1, CloseObject
<1>3. QED
    BY <1>1, <1>2, StepWrites

\* All that the composition needs, without the choices that pin the zones.
ClusterInv == BaseInv /\ ServingInv /\ NetworkInv

LEMMA ClusterInit == Init => ClusterInv
  BY BaseInit, ServingInit, NetworkInit DEF ClusterInv

LEMMA ClusterNext == ClusterInv /\ [Next]_vars => ClusterInv'
  BY BaseNext, ServingNext, NetworkNext DEF ClusterInv

\* A step of somebody else: it leaves the cluster and its network alone, and the
\* process may have restarted.
Elsewhere ==
    /\ UNCHANGED <<conf, spec, obj, owner, sgs, pn, gwIPs, gw, lb, userIPs>>
    /\ UNCHANGED <<want, base, mem, pc>> \/ (pc' = "idle" /\ want' = NoSpec /\ mem' = NoFields)

\* Such a step disturbs nothing that the controller relies on.
LEMMA ClusterInvElsewhere ==
    ASSUME ClusterInv, TypeOK', Elsewhere
    PROVE  ClusterInv'
<1> USE DEF Elsewhere
<1>c. ConfigInv' /\ UNCHANGED <<HasPrivateNetwork, ShouldManagePrivateNetwork, AttachedGateways>>
    BY DEF ClusterInv, BaseInv, ConfigInv, UserIPsKept, GivenIPs, HasPrivateNetwork,
           ShouldManagePrivateNetwork, AttachedGateways, NoSpec
<1>s. Provisioned' = Provisioned
    BY DEF Provisioned, Serving, HasPrivateNetwork, AttachedGateways
<1>1. CASE pc' = "idle" /\ mem' = NoFields
  <2>1. BaseInv'
    BY <1>1, <1>c DEF ClusterInv, BaseInv, GuardInv, DeletingKeepsFinalizer, WorkerFinalizer,
                      NormalPCs, DeletePCs, GatewayWanted
  <2>2. Building' => Building
    BY <1>1 DEF Building, NormalPCs
  <2>3. ServingInv'
    BY <1>1, <1>s, <2>2 DEF ClusterInv, ServingInv, NothingDying, NormalProgress, ReadyInv
  <2>4. NetworkInv'
    BY <1>1, <1>c, <2>2 DEF ClusterInv, NetworkInv
  <2>5. QED
    BY <2>1, <2>3, <2>4 DEF ClusterInv
<1>2. CASE UNCHANGED <<want, base, mem, pc>>
  <2>1. BaseInv'
    BY <1>2, <1>c DEF ClusterInv, BaseInv, GuardInv, DeletingKeepsFinalizer, WorkerFinalizer,
                      GatewayWanted
  <2>2. Building' = Building
    BY <1>2 DEF Building
  <2>3. UNCHANGED <<LoadBalancerZone, PublicGatewayZone>>
    BY <1>2 DEF LoadBalancerZone, PublicGatewayZone
  <2>4. ServingInv'
    BY <1>2, <1>s, <1>c, <2>2, <2>3 DEF ClusterInv, ServingInv, NothingDying, NormalProgress, ReadyInv
  <2>5. NetworkInv'
    BY <1>2, <1>c, <2>2 DEF ClusterInv, NetworkInv
  <2>6. QED
    BY <2>1, <2>4, <2>5 DEF ClusterInv
<1>3. QED
    BY <1>1, <1>2

LEMMA LeftoverInvElsewhere ==
    ASSUME LeftoverInv, Elsewhere
    PROVE  LeftoverInv'
<1> USE DEF Elsewhere
<1>1. Leftovers' = Leftovers
    BY DEF Leftovers, Infrastructure
<1>2. FinalizerGuardsResources' /\ Confined'
    BY <1>1 DEF LeftoverInv, FinalizerGuardsResources, Confined, ShouldManagePrivateNetwork
<1>3. DeleteProgress'
    BY <1>1 DEF LeftoverInv, DeleteProgress
<1>4. QED
    BY <1>2, <1>3 DEF LeftoverInv

LEMMA EndpointElsewhere ==
    ASSUME SingleLB, EndpointInv, Elsewhere
    PROVE  SingleLB' /\ EndpointInv'
<1> USE DEF Elsewhere
<1>1. SingleLB'
    BY DEF SingleLB
<1>2. CASE pc' = "idle" /\ mem' = NoFields
  <2>1. Building' => Building
    BY <1>2 DEF Building, NormalPCs
  <2>2. QED
    BY <1>1, <1>2, <2>1 DEF EndpointInv, NoFields
<1>3. CASE UNCHANGED <<want, base, mem, pc>>
    BY <1>1, <1>3 DEF EndpointInv, Building
<1>4. QED
    BY <1>2, <1>3

=============================================================================
