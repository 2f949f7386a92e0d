------------------------------- MODULE Provider -------------------------------
(***************************************************************************)
(* Both controllers in one process, on one cloud: ScalewayMachine and      *)
(* ScalewayCluster share the load balancer, the Private Network, the       *)
(* process that crashes and the bound on faults.  Cluster API connects     *)
(* them: it copies status.ready of the ScalewayCluster to the Cluster,     *)
(* which lets the machines proceed, and it deletes the ScalewayCluster     *)
(* only when the machines are gone.                                        *)
(***************************************************************************)
EXTENDS Naturals, FiniteSets

CONSTANTS
    Machines, ControlPlane, PublicIP, PubAddrs, PrivAddrs,   \* see ScalewayMachine
    Configs, Zones, FirstZone, Ranges, GwAddrs,              \* see ScalewayCluster
    None, MaxFaults

ASSUME FaultAssumption == MaxFaults \in Nat
ASSUME MachinesAssumption == ControlPlane \subseteq Machines /\ PublicIP \subseteq Machines
ASSUME AddrAssumption == /\ PubAddrs \cap PrivAddrs = {}
                         /\ None \notin PubAddrs \cup PrivAddrs \cup Machines \cup BOOLEAN
ASSUME ZoneAssumption == FirstZone \in Zones /\ None \notin Zones

VARIABLES
    obj, publicIP, owner, bootstrap, infraReady, network, queue,      \* of the machines
    ips, server, bootVol, pool, acl, cur, base, mem, snap, pc, res,
    conf, spec, cobj, cowner, queued, pn, gwIPs, gw, lb, userIPs,     \* of the cluster
    want, cbase, cmem, cpc, cres,
    paused, faults,                                                   \* of both
    missed   \* machines whose last event was dropped, until another one (a history variable)

\* The load balancer as the machine controller needs it.
LoadBalancerServes ==
    \E z \in Zones : lb[z].state = "ready" /\ "own" \in lb[z].backends \cap lb[z].frontends

\* The servers as the cluster controller meets them.
ServersExist == \E m \in Machines : server[m].state # "none"

\* Data volumes, edits of the spec and security groups are left to the modules of
\* the components.  Each component comes with what is proved about it.
M == INSTANCE ScalewayMachineBoot WITH
         lb <- LoadBalancerServes, HasPrivateNetwork <- TRUE, UnsetPublicIP <- {},
         Volumes <- {}, lost <- {}, InitiallyPaused <- FALSE, Resync <- TRUE

C == INSTANCE ScalewayClusterServing WITH
         obj <- cobj, owner <- cowner, servers <- ServersExist,
         base <- cbase, mem <- cmem, pc <- cpc, res <- cres,
         SGNames <- {}, sgs <- {}, MaxEdits <- 0, edits <- 0, InitiallyPaused <- FALSE, Resync <- FALSE

\* The machines and the cluster agree that there is a Private Network.
ASSUME ConfigAssumption == Configs \subseteq C!AllConfigs /\ \A c \in Configs : c.pn # "none"

\* What only the machine controller and the cloud behind it change.
machineOnly == <<obj, publicIP, owner, bootstrap, infraReady, network, queue, ips, server,
                 bootVol, cur, base, mem, snap, pc, res>>
onLB        == <<pool, acl>>
clusterOnly == <<conf, spec, cobj, cowner, queued, pn, gwIPs, gw, lb, userIPs,
                 want, cbase, cmem, cpc, cres>>
vars        == <<machineOnly, onLB, clusterOnly, paused, faults, missed>>

\* The user restricts the access to the load balancer from the start.
Init ==
    /\ server = [m \in Machines |-> M!NoServer]
    /\ C!Init /\ M!Init
    /\ spec.allowed = Ranges
    /\ missed = {}

-----------------------------------------------------------------------------

\* The worker of the cluster loses what it had in memory, its queue is filled again.
ClusterWorkerRestarts ==
    /\ cpc' = "idle" /\ want' = C!NoSpec /\ cbase' = C!NoFields /\ cmem' = C!NoFields
    /\ queued' = TRUE
    /\ UNCHANGED <<conf, spec, cobj, cowner, pn, gwIPs, gw, lb, userIPs, cres>>

\* A machine that is queued again has missed nothing.
Wakes == missed' = missed \ queue'

MachineStep == (pc = "close" => res # "panic") /\ UNCHANGED clusterOnly /\ M!Step /\ Wakes

\* A panic of the machine controller ends the process of both.
MachinePanics ==
    /\ pc = "close" /\ res = "panic"
    /\ ClusterWorkerRestarts
    /\ M!Close
    /\ Wakes

MachineWorker == MachineStep \/ MachinePanics

MachineTake(m) ==
    /\ UNCHANGED clusterOnly
    /\ M!SkipReconcile(m) \/ M!GetFails(m) \/ M!Reconcile(m)
    /\ UNCHANGED missed

\* The lookup of the Cluster fails and the event is gone.
MachineDropped(m) ==
    /\ UNCHANGED clusterOnly
    /\ M!ClusterLookupFails(m)
    /\ missed' = missed \cup {m}

\* A load balancer takes its backend and its ACLs with it.
LBContents ==
    IF LoadBalancerServes /\ ~LoadBalancerServes'
    THEN pool' = {} /\ acl' = [m \in Machines |-> None]
    ELSE UNCHANGED onLB

ClusterStep == UNCHANGED <<machineOnly, missed>> /\ C!Step /\ LBContents

ClusterTake == UNCHANGED <<machineOnly, onLB, missed>> /\ C!Take

Crash ==
    /\ pc # "idle" \/ cpc # "idle"
    /\ M!Fault
    /\ ClusterWorkerRestarts
    /\ pc' = "idle" /\ cur' = None
    /\ base' = M!NoFields /\ mem' = M!NoFields /\ snap' = M!NoSnap
    /\ UNCHANGED <<obj, publicIP, owner, bootstrap, paused, infraReady, ips, server, bootVol, onLB, res>>
    /\ M!Restarted
    /\ Wakes

\* The informer of the ScalewayMachines resyncs; that of the ScalewayClusters, whose
\* events are never dropped, is left to ScalewayCluster.
MachineResync == UNCHANGED clusterOnly /\ M!PeriodicResync /\ Wakes

-----------------------------------------------------------------------------
(* Cluster API *)

\* The Cluster controller copies status.ready; the machine controller may see that
\* before its cache of ScalewayClusters has status.network.
InfrastructureReady ==
    /\ cobj.exists /\ cobj.f.ready /\ ~infraReady
    /\ infraReady' = TRUE /\ network' \in BOOLEAN
    /\ UNCHANGED <<obj, publicIP, owner, bootstrap, queue, ips, server, bootVol, cur, base, mem, snap,
                   pc, res, onLB, clusterOnly, paused, faults, missed>>

MachineEnvironment(m) ==
    /\ UNCHANGED clusterOnly
    /\ M!SetOwner(m) \/ M!SetBootstrapData(m) \/ M!UserDelete(m)
    /\ Wakes

\* The ScalewayCluster is deleted when all machines are gone.
ClusterDeleted ==
    /\ \A m \in Machines : ~obj[m].exists
    /\ UNCHANGED <<machineOnly, onLB, missed>> /\ C!UserDelete

ClusterOwned == UNCHANGED <<machineOnly, onLB, missed>> /\ C!SetOwner

CacheCatchesUp == UNCHANGED <<clusterOnly, missed>> /\ M!CacheCatchesUp

CloudStep(m) == UNCHANGED <<clusterOnly, missed>> /\ M!CloudStep(m)

CloudSettles(z) == UNCHANGED <<machineOnly, onLB, missed>> /\ (C!LBSettles(z) \/ C!GatewaySettles(z))

Next ==
    \/ MachineWorker \/ ClusterStep \/ ClusterTake \/ Crash
    \/ InfrastructureReady \/ ClusterDeleted \/ ClusterOwned \/ CacheCatchesUp
    \/ MachineResync
    \/ \E m \in Machines : \/ MachineTake(m) \/ MachineDropped(m)
                           \/ MachineEnvironment(m) \/ CloudStep(m)
    \/ \E z \in Zones : CloudSettles(z)

Spec == Init /\ [][Next]_vars

\* Both workers keep working, a queued machine is not taken in vain for ever, the cloud
\* finishes what it started, and Cluster API copies status.ready.  No resync has to
\* come, and no cache has to catch up.
Fairness ==
    /\ WF_vars(MachineWorker) /\ WF_vars(ClusterStep) /\ SF_vars(ClusterTake)
    /\ WF_vars(InfrastructureReady)
    /\ \A m \in Machines : SF_vars(MachineTake(m)) /\ WF_vars(CloudStep(m))
    /\ \A z \in Zones : WF_vars(CloudSettles(z))

FairSpec == Spec /\ Fairness

-----------------------------------------------------------------------------
(* Properties *)

\* A started node reaches the API endpoint: the load balancer serves on the Private
\* Network and, when it denies everything by default, lets the public address of
\* the node in.  The two controllers write the ACLs of one frontend independently
\* (nodes without a public address use the gateway, see DenyInstalledLast).
NodesReachAPI ==
    \A m \in Machines : M!Started(m) /\ ~obj[m].deleting =>
        \E z \in Zones : /\ C!Serving(z)
                         /\ lb[z].deny /\ server[m].ip # None => acl[m] = server[m].ip

\* When the ScalewayCluster is gone, so are the servers of the machines, also those that
\* were still terminating when their machines were gone already, the network they were
\* attached to, and what they had in the load balancer.
NothingOutlivesCluster ==
    ~cobj.exists => ~ServersExist /\ ~pn /\ pool = {} /\ \A m \in Machines : acl[m] = None

\* An event of machine m was dropped by a failed lookup of the Cluster, and no other
\* event and no resync ever brings the machine back into the queue.
LostForGood(m) == <>[](m \in missed)

\* With an owner and bootstrap data, a machine ends up ready behind a published
\* endpoint, unless it is deleted, although neither controller watches the objects of
\* the other.  The swallowed error of the lookup is the only way to lose an event.
EventuallyServing ==
    \A m \in Machines :
        \/ LostForGood(m)
        \/ (cowner /\ m \in owner \cap bootstrap) ~>
               \/ obj[m].f.ready /\ cobj.f.ready /\ cobj.f.endpoint # None
               \/ obj[m].deleting

\* Every deleted machine goes away, except the control-plane machine whose server
\* has no private NIC and the machine whose event was swallowed for good: otherwise the
\* requeues suffice.
MachineDeletionCompletes ==
    \A m \in Machines :
        \/ LostForGood(m)
        \/ obj[m].deleting ~> (~obj[m].exists \/ M!StuckWithoutNIC(m))

\* A deleted ScalewayCluster goes away, although the last servers are still there
\* when its deletion begins.
TeardownCompletes == cobj.deleting ~> ~cobj.exists

=============================================================================
