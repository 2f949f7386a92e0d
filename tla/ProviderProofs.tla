---------------------------- MODULE ProviderProofs ----------------------------
(***************************************************************************)
(* Both controllers together: a started node reaches the API, and nothing  *)
(* of the machines outlives the ScalewayCluster.                           *)
(*                                                                         *)
(* A step of one controller, or of the cloud behind it, is a step of its   *)
(* own module and leaves alone what the other one relies on.  What         *)
(* connects the two is said by JointInv: the order in which the parts are  *)
(* declared ready and deleted.                                             *)
(***************************************************************************)
EXTENDS Provider, TLAPS

\* The machines are gone before the ScalewayCluster is deleted.
MachinesFirst == cobj.deleting => \A m \in Machines : ~obj[m].exists

\* The Cluster only says what the ScalewayCluster said before and never took back.
ReadyWasSaid == infraReady => cobj.f.ready

\* Servers, also those that are being terminated, stand on the Private Network.
ServersOnNetwork == ServersExist => pn

JointInv ==
    /\ M!MachineInv /\ C!ClusterInv
    /\ MachinesFirst /\ ReadyWasSaid /\ ServersOnNetwork

\* The steps of the machine controller and of its surroundings.
MachineActs ==
    \/ MachineWorker \/ CacheCatchesUp \/ MachineResync
    \/ \E m \in Machines : \/ MachineTake(m) \/ MachineDropped(m)
                           \/ MachineEnvironment(m) \/ CloudStep(m)

\* The steps of the cluster controller and of its surroundings.
ClusterActs ==
    \/ ClusterStep \/ ClusterTake \/ ClusterDeleted \/ ClusterOwned
    \/ \E z \in Zones : CloudSettles(z)

-----------------------------------------------------------------------------
(* What the invariants say about the other controller *)

\* A cluster that is ready and not deleted has its network and a load balancer.
LEMMA ReadyCluster ==
    ASSUME JointInv, infraReady, ~cobj.deleting
    PROVE  pn /\ (\E z \in Zones : C!Serving(z)) /\ LoadBalancerServes
<1>1. cobj.f.ready
    BY DEF JointInv, ReadyWasSaid
<1>2. C!HasPrivateNetwork
  <2>1. conf \in Configs
    BY DEF JointInv, C!ClusterInv, C!BaseInv, C!ConfigInv
  <2>2. QED
    BY <2>1, ConfigAssumption DEF C!HasPrivateNetwork
<1>3. pn
    BY <1>1, <1>2 DEF JointInv, C!ClusterInv, C!NetworkInv, C!Building
<1>4. \E z \in Zones : C!Serving(z)
    BY <1>1 DEF JointInv, C!ClusterInv, C!ServingInv, C!ReadyInv, C!Provisioned
<1>5. LoadBalancerServes
    BY <1>4 DEF C!Serving, LoadBalancerServes
<1>6. QED
    BY <1>3, <1>4, <1>5

\* So has the cluster of every server in use.
LEMMA ServerInUse ==
    ASSUME JointInv, NEW m \in Machines, M!InUse(m)
    PROVE  infraReady /\ obj[m].exists /\ ~cobj.deleting /\ LoadBalancerServes
<1>1. infraReady
    BY DEF JointInv, M!MachineInv, M!BootInv, M!InfraOnce
<1>2. obj[m].exists
    BY DEF JointInv, M!MachineInv, M!RefinementInv, M!FinalizerInv, M!FinalizerGuardsServer, M!InUse
<1>3. ~cobj.deleting
    BY <1>2 DEF JointInv, MachinesFirst
<1>4. QED
    BY <1>1, <1>2, <1>3, ReadyCluster

-----------------------------------------------------------------------------
(* A step of the machine controller *)

\* It is a step of its module.
LEMMA MachineSteps ==
    ASSUME MachineActs
    PROVE  /\ M!Next /\ infraReady' = infraReady
           /\ UNCHANGED clusterOnly \/ ClusterWorkerRestarts
<1>1. CASE MachineWorker
  <2>1. M!Step /\ (UNCHANGED clusterOnly \/ ClusterWorkerRestarts)
    BY <1>1 DEF MachineWorker, MachineStep, MachinePanics, M!Step
  <2>2. infraReady' = infraReady
    BY <2>1, M!StepKeepsCluster, FaultAssumption, MachinesAssumption, AddrAssumption
  <2>3. QED
    BY <2>1, <2>2 DEF M!Next
<1>2. CASE CacheCatchesUp
    BY <1>2 DEF CacheCatchesUp, M!CacheCatchesUp, M!Next, M!Environment
<1>3. CASE MachineResync
    BY <1>3 DEF MachineResync, M!PeriodicResync, M!Next, M!Environment, M!k8s
<1>4. ASSUME NEW m \in Machines,
             MachineTake(m) \/ MachineDropped(m) \/ MachineEnvironment(m) \/ CloudStep(m)
      PROVE  /\ M!Next /\ infraReady' = infraReady
             /\ UNCHANGED clusterOnly
  <2>1. CASE MachineTake(m)
    BY <2>1 DEF MachineTake, M!Next, M!Take, M!SkipReconcile, M!GetFails, M!Reconcile, M!k8s
  <2>2. CASE MachineEnvironment(m)
    BY <2>2 DEF MachineEnvironment, M!Next, M!Environment, M!SetOwner, M!SetBootstrapData, M!UserDelete
  <2>3. CASE CloudStep(m)
    BY <2>3 DEF CloudStep, M!Next, M!Environment, M!CloudStep, M!AssignPrivateIP, M!ServerBooted,
                M!ServerTerminated, M!k8s
  <2>4. CASE MachineDropped(m)
    BY <2>4 DEF MachineDropped, M!Next, M!Take, M!ClusterLookupFails, M!k8s
  <2>5. QED
    BY <1>4, <2>1, <2>2, <2>3, <2>4
<1>5. QED
    BY <1>1, <1>2, <1>3, <1>4 DEF MachineActs

\* The cluster stays as it is, unless its worker restarts.
LEMMA ClusterUndisturbed ==
    ASSUME C!ClusterInv, UNCHANGED clusterOnly \/ ClusterWorkerRestarts,
           paused' \in BOOLEAN, faults' \in 0..MaxFaults
    PROVE  C!ClusterInv'
<1>1. C!TypeOK
    BY DEF C!ClusterInv, C!BaseInv
<1>2. C!NoFields \in C!Fields /\ C!NoSpec \in C!SpecFields
    BY ZoneAssumption DEF C!NoFields, C!Fields, C!NoSpec, C!SpecFields
<1>3. C!TypeOK'
  <2>1. ServersExist' \in BOOLEAN
    BY DEF ServersExist
  <2>2. CASE UNCHANGED clusterOnly
    BY <1>1, <2>1, <2>2 DEF C!TypeOK, clusterOnly
  <2>3. CASE ClusterWorkerRestarts
    BY <1>1, <1>2, <2>1, <2>3 DEF C!TypeOK, ClusterWorkerRestarts, C!PCs
  <2>4. QED
    BY <2>2, <2>3
<1>4. C!Elsewhere
    BY DEF C!Elsewhere, clusterOnly, ClusterWorkerRestarts
<1>5. QED
    BY <1>3, <1>4, C!ClusterInvElsewhere, FaultAssumption, ConfigAssumption, ZoneAssumption

\* A server is created on the network of a cluster that is ready.
LEMMA CreatedOnNetwork ==
    ASSUME JointInv, M!Next, ServersExist'
    PROVE  pn
<1>1. CASE ServersExist
    BY <1>1 DEF JointInv, ServersOnNetwork
<1>2. CASE ~ServersExist
  <2>1. PICK n \in Machines : server'[n].state # "none" /\ server[n].state = "none"
    BY <1>2 DEF ServersExist
  <2>2. M!TypeOK
    BY DEF JointInv, M!MachineInv, M!RefinementInv, M!TypeInv
  <2>3. M!ServerLife(n)
    BY <2>2, M!ServerLives, FaultAssumption, MachinesAssumption, AddrAssumption
  <2>4. ~(M!EnsureServerStarted /\ n = cur)
    BY <2>1 DEF JointInv, M!MachineInv, M!AddrInv, M!WorkerServer, M!WithServer, M!InUse,
                M!EnsureServerStarted
  <2>5. M!CreateServer /\ n = cur
    BY <2>1, <2>3, <2>4 DEF M!ServerLife, M!SameState, M!NoServer, M!InUse
  <2>6. pc = "server" /\ pc \in M!NormalPCs \ {"finalizer"}
    BY <2>5 DEF M!CreateServer, M!NormalPCs
  <2>7. infraReady
    BY <2>6 DEF JointInv, M!MachineInv, M!BootInv, M!InfraOnce
  <2>8. obj[n].exists
    BY <2>5, <2>6 DEF JointInv, M!MachineInv, M!RefinementInv, M!FinalizerInv, M!WorkerFinalizer
  <2>9. ~cobj.deleting
    BY <2>8 DEF JointInv, MachinesFirst
  <2>10. QED
    BY <2>7, <2>9, ReadyCluster
<1>3. QED
    BY <1>1, <1>2

LEMMA MachineActsKeep ==
    ASSUME JointInv, MachineActs
    PROVE  JointInv'
<1>1. /\ M!Next /\ infraReady' = infraReady
      /\ UNCHANGED clusterOnly \/ ClusterWorkerRestarts
    BY MachineSteps
<1>2. cobj' = cobj /\ pn' = pn
    BY <1>1 DEF clusterOnly, ClusterWorkerRestarts
<1>3. M!MachineInv'
    BY <1>1, M!MachineNext, FaultAssumption, MachinesAssumption, AddrAssumption DEF JointInv
<1>4. C!ClusterInv'
  <2>1. paused' \in BOOLEAN /\ faults' \in 0..MaxFaults
    BY <1>3 DEF M!MachineInv, M!RefinementInv, M!TypeInv, M!TypeOK
  <2>2. QED
    BY <1>1, <2>1, ClusterUndisturbed DEF JointInv
<1>5. MachinesFirst'
  <2>1. ASSUME NEW m \in Machines, ~obj[m].exists PROVE ~obj'[m].exists
    BY <1>1, <2>1, M!GoneForGood, FaultAssumption, MachinesAssumption, AddrAssumption
    DEF JointInv, M!MachineInv
  <2>2. QED
    BY <1>2, <2>1 DEF JointInv, MachinesFirst
<1>6. ReadyWasSaid'
    BY <1>1, <1>2 DEF JointInv, ReadyWasSaid
<1>7. ServersOnNetwork'
    BY <1>1, <1>2, CreatedOnNetwork DEF ServersOnNetwork
<1>8. QED
    BY <1>3, <1>4, <1>5, <1>6, <1>7 DEF JointInv

-----------------------------------------------------------------------------
(* A step of the cluster controller *)

\* It is a step of its module, and the deletion of the cluster begins only when the
\* machines are gone.
LEMMA ClusterSteps ==
    ASSUME ClusterActs, C!TypeOK
    PROVE  /\ C!Next /\ UNCHANGED machineOnly
           /\ \/ cobj'.deleting = cobj.deleting
              \/ \A m \in Machines : ~obj[m].exists
<1>1. CASE ClusterStep
  <2>1. C!Step /\ UNCHANGED machineOnly
    BY <1>1 DEF ClusterStep
  <2>2. cobj'.deleting = cobj.deleting
    BY <2>1, C!StepKeepsDeleting, FaultAssumption, ConfigAssumption, ZoneAssumption
  <2>3. QED
    BY <2>1, <2>2 DEF C!Next
<1>2. CASE ClusterTake
    BY <1>2 DEF ClusterTake, C!Next, C!Take, C!SkipReconcile, C!GetFails, C!Reconcile, C!k8s
<1>3. CASE ClusterDeleted
    BY <1>3 DEF ClusterDeleted, C!Next, C!Environment
<1>4. CASE ClusterOwned
    BY <1>4 DEF ClusterOwned, C!Next, C!Environment, C!SetOwner
<1>5. ASSUME NEW z \in Zones, CloudSettles(z)
      PROVE  C!Next /\ UNCHANGED machineOnly /\ cobj' = cobj
    BY <1>5 DEF CloudSettles, C!Next, C!Environment, C!LBSettles, C!GatewaySettles, C!k8s
<1>6. QED
    BY <1>1, <1>2, <1>3, <1>4, <1>5 DEF ClusterActs

\* The cloud finishes what it started: a load balancer that serves stays.
LEMMA SettlingServes ==
    ASSUME C!TypeOK, NEW z \in Zones, CloudSettles(z), LoadBalancerServes
    PROVE  LoadBalancerServes'
<1>1. lb \in [Zones -> C!LoadBalancers]
    BY DEF C!TypeOK
<1>2. PICK y \in Zones : lb[y].state = "ready" /\ "own" \in lb[y].backends \cap lb[y].frontends
    BY DEF LoadBalancerServes
<1>3. lb'[y] = lb[y]
  <2>1. CASE C!LBSettles(z)
    <3>1. y # z
      BY <1>2, <2>1 DEF C!LBSettles
    <3>2. QED
      BY <1>1, <2>1, <3>1 DEF C!LBSettles
  <2>2. CASE C!GatewaySettles(z)
    BY <2>2 DEF C!GatewaySettles
  <2>3. QED
    BY <2>1, <2>2 DEF CloudSettles
<1>4. QED
    BY <1>2, <1>3 DEF LoadBalancerServes

\* What becomes of the load balancer, as the machine controller sees it.
LEMMA LoadBalancerMoves ==
    ASSUME JointInv, ClusterActs
    PROVE  M!LBElsewhere
<1>t. C!TypeOK
    BY DEF JointInv, C!ClusterInv, C!BaseInv
<1>1. CASE LoadBalancerServes /\ ~LoadBalancerServes' /\ pool' = {} /\ acl' = [m \in Machines |-> None]
    BY <1>1 DEF M!LBElsewhere
<1>2. CASE UNCHANGED onLB /\ (LoadBalancerServes => LoadBalancerServes')
  <2>1. CASE LoadBalancerServes \/ ~LoadBalancerServes'
    <3>1. LoadBalancerServes' = LoadBalancerServes
      BY <1>2, <2>1 DEF LoadBalancerServes
    <3>2. QED
      BY <1>2, <3>1 DEF M!LBElsewhere, onLB
  <2>2. CASE ~LoadBalancerServes /\ LoadBalancerServes'
    <3>1. \A m \in Machines : ~M!InUse(m)
      BY <2>2, ServerInUse
    <3>2. QED
      BY <1>2, <2>2, <3>1 DEF M!LBElsewhere, onLB
  <2>3. QED
    BY <2>1, <2>2
<1>3. ASSUME lb' = lb PROVE LoadBalancerServes' = LoadBalancerServes
    BY <1>3 DEF LoadBalancerServes
<1>4. CASE ClusterStep
    BY <1>1, <1>2, <1>4 DEF ClusterStep, LBContents
<1>5. CASE ClusterTake
    BY <1>2, <1>3, <1>5 DEF ClusterTake, C!Take, C!SkipReconcile, C!GetFails, C!Reconcile, C!cloud
<1>6. CASE ClusterDeleted
    BY <1>2, <1>3, <1>6 DEF ClusterDeleted, C!UserDelete, C!cloud
<1>7. CASE ClusterOwned
    BY <1>2, <1>3, <1>7 DEF ClusterOwned, C!SetOwner, C!cloud
<1>8. ASSUME NEW z \in Zones, CloudSettles(z) PROVE M!LBElsewhere
  <2>1. UNCHANGED onLB
    BY <1>8 DEF CloudSettles, onLB
  <2>2. LoadBalancerServes => LoadBalancerServes'
    BY <1>t, <1>8, SettlingServes
  <2>3. QED
    BY <1>2, <2>1, <2>2
<1>9. QED
    BY <1>4, <1>5, <1>6, <1>7, <1>8 DEF ClusterActs

\* The machines stay as they are, unless their worker restarts.
LEMMA MachinesUndisturbed ==
    ASSUME M!MachineInv, M!Elsewhere, M!LBElsewhere, res' = res,
           queue' \in SUBSET Machines, infraReady' \in BOOLEAN, network' \in BOOLEAN,
           paused' \in BOOLEAN, faults' \in 0..MaxFaults
    PROVE  M!MachineInv'
<1>1. M!TypeOK
    BY DEF M!MachineInv, M!RefinementInv, M!TypeInv
<1>2. LoadBalancerServes' \in BOOLEAN
    BY DEF LoadBalancerServes
<1>3. pool' \in SUBSET M!Addrs /\ acl' \in [Machines -> PubAddrs \cup {None}]
    BY <1>1 DEF M!TypeOK, M!LBElsewhere
<1>4. /\ M!NoFields \in M!Fields /\ M!NoSnap \in M!Snaps
      /\ None \notin Machines
    BY AddrAssumption DEF M!NoFields, M!Fields, M!NoSnap, M!Snaps, M!ServerStates
<1>5. /\ pc' \in M!PCs /\ cur' \in Machines \cup {None} /\ (cur' = None <=> pc' = "idle")
      /\ base' \in M!Fields /\ mem' \in M!Fields /\ snap' \in M!Snaps
  <2>1. CASE UNCHANGED <<pc, cur, base, mem, snap>>
    BY <1>1, <2>1 DEF M!TypeOK
  <2>2. CASE pc' = "idle" /\ cur' = None /\ base' = M!NoFields /\ mem' = M!NoFields /\ snap' = M!NoSnap
    BY <1>4, <2>2 DEF M!PCs
  <2>3. QED
    BY <2>1, <2>2 DEF M!Elsewhere
<1>6. /\ obj' \in [Machines -> M!Objects] /\ publicIP' \in [Machines -> BOOLEAN \cup {None}]
      /\ owner' \in SUBSET Machines /\ bootstrap' \in SUBSET Machines
      /\ ips' \in [Machines -> SUBSET PubAddrs] /\ server' \in [Machines -> M!Servers]
      /\ bootVol' \in [Machines -> {"none", "attached", "detached"}] /\ res' \in M!Results
    BY <1>1 DEF M!TypeOK, M!Elsewhere
<1>7. M!TypeOK'
    BY <1>2, <1>3, <1>5, <1>6 DEF M!TypeOK
<1>8. QED
    BY <1>7, M!MachineInvElsewhere, FaultAssumption, MachinesAssumption, AddrAssumption

LEMMA ClusterActsKeep ==
    ASSUME JointInv, ClusterActs
    PROVE  JointInv'
<1>t. C!TypeOK /\ C!BaseInv
    BY DEF JointInv, C!ClusterInv, C!BaseInv
<1>1. /\ C!Next /\ UNCHANGED machineOnly
      /\ \/ cobj'.deleting = cobj.deleting
         \/ \A m \in Machines : ~obj[m].exists
    BY <1>t, ClusterSteps
<1>2. C!ClusterInv'
    BY <1>1, C!ClusterNext, FaultAssumption, ConfigAssumption, ZoneAssumption DEF JointInv
<1>3. M!MachineInv'
  <2>1. paused' \in BOOLEAN /\ faults' \in 0..MaxFaults
    BY <1>2 DEF C!ClusterInv, C!BaseInv, C!TypeOK
  <2>2. M!Elsewhere /\ res' = res
    BY <1>1 DEF machineOnly, M!Elsewhere
  <2>3. queue' \in SUBSET Machines /\ infraReady' \in BOOLEAN /\ network' \in BOOLEAN
    BY <1>1 DEF machineOnly, JointInv, M!MachineInv, M!RefinementInv, M!TypeInv, M!TypeOK
  <2>4. QED
    BY <2>1, <2>2, <2>3, LoadBalancerMoves, MachinesUndisturbed DEF JointInv
<1>4. MachinesFirst'
    BY <1>1 DEF JointInv, MachinesFirst, machineOnly
<1>5. ReadyWasSaid'
  <2>1. \/ cobj'.f.ready = cobj.f.ready
        \/ C!Close /\ cobj'.f.ready = cmem.ready
    BY <1>t, <1>1, C!StatusWriters, FaultAssumption, ConfigAssumption, ZoneAssumption
  <2>2. C!Close /\ cobj.f.ready => cmem.ready
    BY DEF C!Close, JointInv, C!ClusterInv, C!NetworkInv
  <2>3. QED
    BY <1>1, <2>1, <2>2 DEF JointInv, ReadyWasSaid, machineOnly
<1>6. ServersOnNetwork'
  <2>1. ServersExist' = ServersExist
    BY <1>1 DEF machineOnly, ServersExist
  <2>2. pn /\ ~pn' => ~ServersExist
    BY <1>t, <1>1, C!NetworkLives, FaultAssumption, ConfigAssumption, ZoneAssumption
  <2>3. QED
    BY <2>1, <2>2 DEF JointInv, ServersOnNetwork
<1>7. QED
    BY <1>2, <1>3, <1>4, <1>5, <1>6 DEF JointInv

-----------------------------------------------------------------------------
(* The steps that concern both *)

LEMMA CrashKeeps ==
    ASSUME JointInv, Crash
    PROVE  JointInv'
<1>t. M!TypeOK
    BY DEF JointInv, M!MachineInv, M!RefinementInv, M!TypeInv
<1>1. /\ cobj' = cobj /\ pn' = pn /\ lb' = lb /\ UNCHANGED <<obj, server, infraReady, onLB>>
    BY DEF Crash, ClusterWorkerRestarts
<1>2. paused' \in BOOLEAN /\ faults' \in 0..MaxFaults
    BY <1>t, FaultAssumption DEF Crash, M!Fault, M!TypeOK
<1>3. C!ClusterInv'
    BY <1>2, ClusterUndisturbed DEF JointInv, Crash
<1>4. M!MachineInv'
  <2>1. M!Elsewhere /\ res' = res
    BY DEF Crash, M!Elsewhere
  <2>2. LoadBalancerServes' = LoadBalancerServes
    BY <1>1 DEF LoadBalancerServes
  <2>3. M!LBElsewhere
    BY <1>1, <2>2 DEF M!LBElsewhere, onLB
  <2>4. infraReady' \in BOOLEAN /\ network' \in BOOLEAN /\ queue' \in SUBSET Machines
    BY <1>t, <1>1 DEF Crash, M!Restarted, M!TypeOK
  <2>5. QED
    BY <1>2, <2>1, <2>3, <2>4, MachinesUndisturbed DEF JointInv
<1>5. ServersExist' = ServersExist
    BY <1>1 DEF ServersExist
<1>6. QED
    BY <1>1, <1>3, <1>4, <1>5 DEF JointInv, MachinesFirst, ReadyWasSaid, ServersOnNetwork

LEMMA InfrastructureReadyKeeps ==
    ASSUME JointInv, InfrastructureReady
    PROVE  JointInv'
<1>t. M!TypeOK
    BY DEF JointInv, M!MachineInv, M!RefinementInv, M!TypeInv
<1>1. UNCHANGED <<clusterOnly, onLB, obj, server>> /\ cobj' = cobj /\ pn' = pn /\ lb' = lb /\ cobj.f.ready
    BY DEF InfrastructureReady, clusterOnly, onLB
<1>2. paused' \in BOOLEAN /\ faults' \in 0..MaxFaults
    BY <1>t DEF InfrastructureReady, M!TypeOK
<1>3. C!ClusterInv'
    BY <1>1, <1>2, ClusterUndisturbed DEF JointInv
<1>4. M!MachineInv'
  <2>1. M!Elsewhere /\ res' = res
    BY DEF InfrastructureReady, M!Elsewhere
  <2>2. LoadBalancerServes' = LoadBalancerServes
    BY <1>1 DEF LoadBalancerServes
  <2>3. M!LBElsewhere
    BY <1>1, <2>2 DEF M!LBElsewhere, onLB
  <2>4. infraReady' \in BOOLEAN /\ network' \in BOOLEAN /\ queue' \in SUBSET Machines
    BY <1>t DEF InfrastructureReady, M!TypeOK
  <2>5. QED
    BY <1>2, <2>1, <2>3, <2>4, MachinesUndisturbed DEF JointInv
<1>5. ServersExist' = ServersExist
    BY <1>1 DEF ServersExist
<1>6. QED
    BY <1>1, <1>3, <1>4, <1>5 DEF JointInv, MachinesFirst, ReadyWasSaid, ServersOnNetwork

-----------------------------------------------------------------------------
(* The joint invariant *)

LEMMA JointInit == Init => JointInv
<1> SUFFICES ASSUME Init PROVE JointInv
    OBVIOUS
<1>1. M!Init /\ C!Init
    BY DEF Init
<1>2. M!MachineInv
    BY <1>1, M!MachineInit, FaultAssumption, MachinesAssumption, AddrAssumption
<1>3. C!ClusterInv
    BY <1>1, C!ClusterInit, FaultAssumption, ConfigAssumption, ZoneAssumption
<1>4. MachinesFirst /\ ReadyWasSaid
    BY <1>1 DEF C!Init, M!Init, MachinesFirst, ReadyWasSaid
<1>5. ServersOnNetwork
    BY <1>1 DEF M!Init, M!NoServer, ServersOnNetwork, ServersExist
<1>6. QED
    BY <1>2, <1>3, <1>4, <1>5 DEF JointInv

LEMMA JointStutter ==
    ASSUME JointInv, UNCHANGED vars
    PROVE  JointInv'
<1>1. UNCHANGED <<machineOnly, onLB, clusterOnly, paused, faults>>
    BY DEF vars
<1>2. M!MachineInv'
  <2>1. UNCHANGED M!vars
    BY <1>1 DEF M!vars, M!k8s, M!cloud, M!local, machineOnly, onLB, clusterOnly, LoadBalancerServes
  <2>2. QED
    BY <2>1, M!MachineNext, FaultAssumption, MachinesAssumption, AddrAssumption DEF JointInv
<1>3. C!ClusterInv'
  <2>1. UNCHANGED C!vars
    BY <1>1 DEF C!vars, C!k8s, C!cloud, C!net, C!local, machineOnly, clusterOnly, ServersExist
  <2>2. QED
    BY <2>1, C!ClusterNext, FaultAssumption, ConfigAssumption, ZoneAssumption DEF JointInv
<1>4. QED
    BY <1>1, <1>2, <1>3
    DEF JointInv, MachinesFirst, ReadyWasSaid, ServersOnNetwork, ServersExist, machineOnly, clusterOnly

LEMMA JointNext == JointInv /\ [Next]_vars => JointInv'
  BY MachineActsKeep, ClusterActsKeep, CrashKeeps, InfrastructureReadyKeeps, JointStutter
  DEF Next, MachineActs, ClusterActs

LEMMA JointInvariant == Spec => []JointInv
  BY JointInit, JointNext, PTL DEF Spec

-----------------------------------------------------------------------------
(* What both controllers achieve together *)

\* A node that was started, and is not deleted, reaches the API endpoint: there is a load
\* balancer that serves on the Private Network and, when it denies everything by default,
\* lets the public address of the node in.
THEOREM StartedNodesReachAPI == Spec => []NodesReachAPI
<1>1. JointInv => NodesReachAPI
  <2> SUFFICES ASSUME JointInv, NEW m \in Machines, M!Started(m), ~obj[m].deleting
               PROVE  \E z \in Zones : /\ C!Serving(z)
                                       /\ lb[z].deny /\ server[m].ip # None => acl[m] = server[m].ip
    BY DEF NodesReachAPI
  <2>1. M!InUse(m)
    BY DEF M!Started, M!InUse
  <2>2. infraReady /\ ~cobj.deleting /\ LoadBalancerServes
    BY <2>1, ServerInUse
  <2>3. PICK z \in Zones : C!Serving(z)
    BY <2>2, ReadyCluster
  <2>4. server[m].ip # None => acl[m] = server[m].ip
    BY <2>2 DEF JointInv, M!MachineInv, M!BootInv, M!Booted, M!Building, M!LetIn
  <2>5. QED
    BY <2>3, <2>4
<1>2. QED
    BY <1>1, JointInvariant, PTL

\* When the ScalewayCluster is gone, so are the servers of all its machines, also those
\* that outlived their machines, the network, and what the machines had in the load
\* balancer.
THEOREM MachinesLeaveNothing == Spec => []NothingOutlivesCluster
<1>1. JointInv => NothingOutlivesCluster
  <2> SUFFICES ASSUME JointInv, ~cobj.exists
               PROVE  ~ServersExist /\ ~pn /\ pool = {} /\ \A m \in Machines : acl[m] = None
    BY DEF NothingOutlivesCluster
  <2>1. ~pn
    BY DEF JointInv, C!ClusterInv, C!NetworkInv
  <2>2. ~ServersExist
    BY <2>1 DEF JointInv, ServersOnNetwork
  <2>3. \A m \in Machines : server[m].state = "none"
    BY <2>2 DEF ServersExist
  <2>4. pool = {}
    BY <2>3, MachinesAssumption DEF JointInv, M!MachineInv, M!TraceInv, M!BackendsAreAlive
  <2>5. \A m \in Machines : acl[m] = None
    BY <2>3 DEF JointInv, M!MachineInv, M!TraceInv, M!EndingLeavesNoTrace, M!Ending
  <2>6. QED
    BY <2>1, <2>2, <2>4, <2>5
<1>2. QED
    BY <1>1, JointInvariant, PTL

\* Next to the real cluster controller, which builds and tears down the load balancer as it
\* likes and restarts with it, the machine controller keeps its promises: no server is
\* forgotten or powered on too early, no backend and no ACL outlives its address, and ready
\* means started.
THEOREM MachinesSafeTogether ==
    Spec => [](/\ M!FinalizerGuardsServer /\ M!IPsAreAttached
               /\ M!BootstrapBeforeBoot /\ M!ReachableBeforeBoot /\ M!ReadyMeansStarted
               /\ M!BackendsAreAlive /\ M!ACLsAreAlive)
<1> DEFINE Safe == /\ M!FinalizerGuardsServer /\ M!IPsAreAttached
                   /\ M!BootstrapBeforeBoot /\ M!ReachableBeforeBoot /\ M!ReadyMeansStarted
                   /\ M!BackendsAreAlive /\ M!ACLsAreAlive
<1>1. JointInv => Safe
  <2> SUFFICES ASSUME JointInv PROVE Safe
    OBVIOUS
  <2>1. M!FinalizerGuardsServer /\ M!IPsAreAttached /\ M!BackendsAreAlive /\ M!ACLsAreAlive
    BY DEF JointInv, M!MachineInv, M!RefinementInv, M!FinalizerInv, M!AddrInv, M!TraceInv
  <2>2. M!BootstrapBeforeBoot /\ M!ReachableBeforeBoot
    BY DEF JointInv, M!MachineInv, M!BootInv, M!Booted, M!Building, M!LetIn, M!BootstrapBeforeBoot,
           M!ReachableBeforeBoot
  <2>3. M!ReadyMeansStarted
    BY DEF JointInv, M!MachineInv, M!BootInv, M!ReadyInv, M!ReadyMeansStarted
  <2>4. QED
    BY <2>1, <2>2, <2>3
<1>2. QED
    BY <1>1, JointInvariant, PTL

\* The machine controller implements the protocol of finalizers next to the cluster
\* controller, too: their shared process, load balancer and network let no server be
\* created without a stored finalizer, given up for a machine that is not deleted, or
\* forgotten.
THEOREM MachinesGuardedTogether == Spec => M!ImplementsGuardedResource
<1>1. Init => M!Guarded!Init
    BY M!InitRefines, FaultAssumption, MachinesAssumption, AddrAssumption DEF Init
<1>2. JointInv /\ [Next]_vars =>
          [M!Guarded!Next]_<<[m \in Machines |-> M!ObjectState(m)], [m \in Machines |-> M!InUse(m)]>>
  <2> SUFFICES ASSUME JointInv, [Next]_vars
               PROVE  [M!Guarded!Next]_<<[m \in Machines |-> M!ObjectState(m)],
                                         [m \in Machines |-> M!InUse(m)]>>
    OBVIOUS
  <2>1. CASE MachineActs
    BY <2>1, MachineSteps, M!NextRefines, FaultAssumption, MachinesAssumption, AddrAssumption
    DEF JointInv, M!MachineInv, M!Object, M!Resource
  <2>2. CASE UNCHANGED <<obj, server>>
    BY <2>2 DEF M!ObjectState, M!InUse
  <2>3. ClusterActs \/ Crash \/ InfrastructureReady \/ UNCHANGED vars => UNCHANGED <<obj, server>>
    BY DEF ClusterActs, ClusterStep, ClusterTake, ClusterDeleted, ClusterOwned, CloudSettles,
           Crash, InfrastructureReady, machineOnly, vars
  <2>4. QED
    BY <2>1, <2>2, <2>3 DEF Next, MachineActs, ClusterActs
<1>3. QED
    BY <1>1, <1>2, JointInvariant, PTL DEF Spec, M!ImplementsGuardedResource, M!Guarded!Spec

-----------------------------------------------------------------------------
(* The cluster controller next to the machines *)

\* The steps of the machines, a crash and Cluster API leave alone what the cluster
\* controller has built.
LEMMA OthersLeaveCluster ==
    ASSUME MachineActs \/ Crash \/ InfrastructureReady \/ UNCHANGED vars
    PROVE  UNCHANGED clusterOnly \/ ClusterWorkerRestarts
  BY MachineSteps DEF Crash, InfrastructureReady, clusterOnly, vars

LEMMA Actors == Next => MachineActs \/ ClusterActs \/ Crash \/ InfrastructureReady
  BY DEF Next, MachineActs, ClusterActs

\* The rule that denies everything goes in only after the allowed ranges and the gateways
\* are let in, also when servers join the network meanwhile: with StartedNodesReachAPI, no
\* node is locked out, whether it has a public address or uses the gateway.
THEOREM DenyIsLastTogether == Spec => C!DenyInstalledLast
<1> DEFINE Ok == \A z \in Zones : lb'[z].deny /\ ~lb[z].deny =>
                     lb[z].allowed # {} /\ C!AttachedGateways \subseteq lb[z].gws
<1>1. JointInv /\ [Next]_vars => Ok
  <2> SUFFICES ASSUME JointInv, [Next]_vars PROVE Ok
    OBVIOUS
  <2>t. C!TypeOK /\ C!BaseInv /\ C!ServingInv
    BY DEF JointInv, C!ClusterInv, C!BaseInv
  <2>1. CASE ClusterActs
    <3>1. C!Next
      BY <2>1, <2>t, ClusterSteps
    <3>2. QED
      BY <3>1, <2>t, C!DenyStep, FaultAssumption, ConfigAssumption, ZoneAssumption
  <2>2. CASE ~ClusterActs
    BY <2>2, OthersLeaveCluster, Actors DEF clusterOnly, ClusterWorkerRestarts
  <2>3. QED
    BY <2>1, <2>2
<1>2. QED
    BY <1>1, JointInvariant, PTL DEF Spec, C!DenyInstalledLast

\* Failure domains are not edited here, so nothing moves to another zone.
LEMMA NobodyEdits == C!ZonesPinned /\ C!LoadBalancerPinned
  BY DEF C!ZonesPinned, C!LoadBalancerPinned

\* What Delete has to remove is guarded.
LEMMA LeftoversTogether == Spec => []C!LeftoverInv
<1>1. Init => C!LeftoverInv
    BY C!LeftoverInit, FaultAssumption, ConfigAssumption, ZoneAssumption DEF Init
<1>2. JointInv /\ C!LeftoverInv /\ [Next]_vars => C!LeftoverInv'
  <2> SUFFICES ASSUME JointInv, C!LeftoverInv, [Next]_vars PROVE C!LeftoverInv'
    OBVIOUS
  <2>1. CASE ClusterActs
    <3>1. C!TypeOK /\ C!BaseInv
      BY DEF JointInv, C!ClusterInv, C!BaseInv
    <3>2. C!Next
      BY <2>1, <3>1, ClusterSteps
    <3>3. QED
      BY <3>1, <3>2, NobodyEdits, C!LeftoverNext, FaultAssumption, ConfigAssumption, ZoneAssumption
  <2>2. CASE ~ClusterActs
    <3>1. C!Elsewhere
      BY <2>2, OthersLeaveCluster, Actors DEF C!Elsewhere, clusterOnly, ClusterWorkerRestarts
    <3>2. QED
      BY <3>1, C!LeftoverInvElsewhere, FaultAssumption, ConfigAssumption, ZoneAssumption
  <2>3. QED
    BY <2>1, <2>2
<1>3. QED
    BY <1>1, <1>2, JointInvariant, PTL DEF Spec

\* When the ScalewayCluster is gone, no server is left and nothing of what the cluster
\* controller made, except load balancers and gateways that are being removed.
THEOREM TeardownLeavesNothing ==
    Spec => [](~cobj.exists => ~ServersExist /\ ~C!Leftovers)
<1>1. JointInv /\ C!LeftoverInv => (~cobj.exists => ~ServersExist /\ ~C!Leftovers)
  <2> SUFFICES ASSUME JointInv, C!LeftoverInv, ~cobj.exists PROVE ~ServersExist /\ ~C!Leftovers
    OBVIOUS
  <2>1. ~C!Leftovers
    BY DEF C!LeftoverInv, C!FinalizerGuardsResources
  <2>2. ~pn
    BY DEF JointInv, C!ClusterInv, C!NetworkInv
  <2>3. QED
    BY <2>1, <2>2 DEF JointInv, ServersOnNetwork
<1>2. QED
    BY <1>1, LeftoversTogether, JointInvariant, PTL

\* The cluster controller implements the protocol of finalizers for its network next to the
\* machine controller, whose servers use that network and whose panics restart it.
THEOREM ClusterGuardedTogether == Spec => C!ImplementsGuardedResource
<1>1. Spec => [](JointInv /\ C!LeftoverInv)
    BY LeftoversTogether, JointInvariant, PTL
<1>2. Init => C!Guarded!Init
    BY C!InitRefines, FaultAssumption, ConfigAssumption, ZoneAssumption DEF Init
<1>3. JointInv /\ C!LeftoverInv /\ [Next]_vars =>
          [C!Guarded!Next]_<<[o \in {"cluster"} |-> C!ObjectState],
                             [o \in {"cluster"} |-> C!Infrastructure]>>
  <2> SUFFICES ASSUME JointInv, C!LeftoverInv, [Next]_vars
               PROVE  [C!Guarded!Next]_<<[o \in {"cluster"} |-> C!ObjectState],
                                         [o \in {"cluster"} |-> C!Infrastructure]>>
    OBVIOUS
  <2>1. CASE ClusterActs
    <3>1. C!TypeOK /\ C!BaseInv
      BY DEF JointInv, C!ClusterInv, C!BaseInv
    <3>2. C!Next
      BY <2>1, <3>1, ClusterSteps
    <3>3. QED
      BY <3>1, <3>2, C!NextRefines, FaultAssumption, ConfigAssumption, ZoneAssumption
      DEF C!Object, C!Resource
  <2>2. CASE ~ClusterActs
    <3>1. UNCHANGED <<cobj, pn, gwIPs, gw, lb>>
      BY <2>2, OthersLeaveCluster, Actors DEF clusterOnly, ClusterWorkerRestarts
    <3>2. QED
      BY <3>1 DEF C!ObjectState, C!Infrastructure
  <2>3. QED
    BY <2>1, <2>2
<1>4. QED
    BY <1>1, <1>2, <1>3, PTL DEF Spec, C!ImplementsGuardedResource, C!Guarded!Spec

\* The endpoint that all machines are given never changes once it is published, whatever
\* the machines do to the load balancer and however often their panics end the process.
THEOREM EndpointStableTogether == Spec => C!EndpointStable
<1>1. Init => C!SingleLB /\ C!EndpointInv
    BY C!EndpointInit, FaultAssumption, ConfigAssumption, ZoneAssumption DEF Init
<1>2. ASSUME JointInv, C!SingleLB, C!EndpointInv, [Next]_vars
      PROVE  /\ C!SingleLB' /\ C!EndpointInv'
             /\ cobj.f.endpoint # None => cobj'.f.endpoint = cobj.f.endpoint
  <2>1. CASE ClusterActs
    <3>1. C!TypeOK /\ C!BaseInv /\ C!ServingInv
      BY <1>2 DEF JointInv, C!ClusterInv, C!BaseInv
    <3>2. C!Next
      BY <2>1, <3>1, ClusterSteps
    <3>3. C!SingleLB' /\ C!EndpointInv'
      BY <1>2, <3>1, <3>2, NobodyEdits, C!PinnedNext, FaultAssumption, ConfigAssumption, ZoneAssumption
    <3>4. cobj.f.endpoint # None => cobj'.f.endpoint = cobj.f.endpoint
      BY <1>2, <3>1, <3>2, C!EndpointKept, FaultAssumption, ConfigAssumption, ZoneAssumption
    <3>5. QED
      BY <3>3, <3>4
  <2>2. CASE ~ClusterActs
    <3>1. C!Elsewhere /\ cobj' = cobj
      BY <1>2, <2>2, OthersLeaveCluster, Actors DEF C!Elsewhere, clusterOnly, ClusterWorkerRestarts
    <3>2. QED
      BY <1>2, <3>1, C!EndpointElsewhere, FaultAssumption, ConfigAssumption, ZoneAssumption
  <2>3. QED
    BY <2>1, <2>2
<1>3. Spec => [](C!SingleLB /\ C!EndpointInv)
    BY <1>1, <1>2, JointInvariant, PTL DEF Spec
<1>4. QED
    BY <1>2, <1>3, JointInvariant, PTL DEF Spec, C!EndpointStable

=============================================================================
