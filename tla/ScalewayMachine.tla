--------------------------- MODULE ScalewayMachine ---------------------------
(***************************************************************************)
(* The ScalewayMachine controller and the instance service it drives.      *)
(*                                                                         *)
(* One worker (controller-runtime's default of one concurrent reconcile)   *)
(* takes machines from a work queue and runs Reconcile for them.  A        *)
(* reconcile is a sequence of calls to the Scaleway API, one action each:  *)
(* a lookup and the create that depends on it are one action, because no   *)
(* other actor creates what the worker looks up.  Between two calls the    *)
(* environment moves: the user deletes the object, the cloud boots or      *)
(* removes a server, IPAM hands out an address, the process crashes.       *)
(* Every call may fail without effect, or take effect and lose its reply.  *)
(***************************************************************************)
EXTENDS Reconciler, FiniteSets

CONSTANTS
    Machines,           \* the ScalewayMachine objects
    ControlPlane,       \* those whose Machine is a control-plane machine
    PublicIP,           \* those created with spec.publicIP = true
    UnsetPublicIP,      \* those created without spec.publicIP
    HasPrivateNetwork,  \* scope.Cluster.HasPrivateNetwork()
    Volumes,            \* data volumes the CSI driver may attach
    PubAddrs,           \* addresses the cloud may hand out as flexible IPs
    PrivAddrs,          \* addresses IPAM may hand out in the Private Network
    None,               \* nil
    InitiallyPaused,    \* is the Cluster paused when the objects appear?
    Resync              \* is the periodic resync of the informers modelled?

ASSUME MachinesAssumption == /\ ControlPlane \subseteq Machines
                             /\ PublicIP \cup UnsetPublicIP \subseteq Machines
                             /\ PublicIP \cap UnsetPublicIP = {}
ASSUME SwitchAssumption == {HasPrivateNetwork, InitiallyPaused, Resync} \subseteq BOOLEAN
ASSUME AddrAssumption == /\ PubAddrs \cap PrivAddrs = {}
                         /\ None \notin PubAddrs \cup PrivAddrs \cup Machines \cup BOOLEAN

VARIABLES
    obj,         \* the ScalewayMachine objects in the API server
    publicIP,    \* their spec.publicIP
    owner,       \* machines whose OwnerRef and Cluster can be resolved
    bootstrap,   \* machines whose bootstrap data secret is available
    paused,      \* Cluster.spec.paused
    infraReady,  \* Cluster.status.infrastructureReady, as the controller's cache shows it
    network,     \* is ScalewayCluster.status.network in the controller's cache?
    queue,       \* the controller's work queue
    ips,         \* flexible IPs that carry the tags of each machine
    server,      \* the server that carries the name of each machine
    bootVol,     \* the boot volume created with that server
    lb,          \* does the control-plane load balancer exist?
    pool,        \* addresses in the load balancer's backend
    acl,         \* the address allowed by the ACL of each machine
    lost,        \* data volumes that were destroyed
    cur,         \* the machine being reconciled
    base, mem,   \* its object as loaded, and as changed in memory
    snap         \* the server, the addresses and the cluster read by this reconcile

k8s    == <<obj, publicIP, owner, bootstrap, paused, infraReady, network>>
cloud  == <<ips, server, bootVol, lb, pool, acl, lost>>
local  == <<cur, base, mem, snap>>
vars   == <<k8s, queue, cloud, local, pc, res, faults>>

-----------------------------------------------------------------------------
(* Types *)

Addrs == PubAddrs \cup PrivAddrs

\* The fields of a ScalewayMachine that the controller writes.
Fields == [finalizer : BOOLEAN, providerID : BOOLEAN, ready : BOOLEAN]

Objects == [exists : BOOLEAN, deleting : BOOLEAN, f : Fields]

ServerStates == {"none", "stopped", "starting", "running", "stopping"}

Servers == [state : ServerStates, ip : PubAddrs \cup {None}, nic : BOOLEAN,
            nicIP : PrivAddrs \cup {None}, cloudInit : Addrs \cup {None},
            vols : SUBSET Volumes]

NoServer == [state |-> "none", ip |-> None, nic |-> FALSE, nicIP |-> None,
             cloudInit |-> None, vols |-> {}]

Snaps == [state : ServerStates, ip : PubAddrs \cup {None},
          int : PrivAddrs \cup {None}, boot : BOOLEAN, vols : SUBSET Volumes,
          infraReady : BOOLEAN, network : BOOLEAN]

NoSnap == [state |-> "none", ip |-> None, int |-> None, boot |-> FALSE, vols |-> {},
           infraReady |-> FALSE, network |-> FALSE]

NoFields == [finalizer |-> FALSE, providerID |-> FALSE, ready |-> FALSE]

NormalPCs == {"finalizer", "ip", "server", "nic", "addrs", "backend", "acl",
              "cloudinit", "start", "publish"}
DeletePCs == {"find", "delACL", "delBackend", "delIP", "detach", "delBoot",
              "delVolume", "delServer", "terminate", "unfinalize"}
PCs == {"idle", "close"} \cup NormalPCs \cup DeletePCs

TypeOK ==
    /\ obj \in [Machines -> Objects]
    /\ publicIP \in [Machines -> BOOLEAN \cup {None}]
    /\ owner \in SUBSET Machines /\ bootstrap \in SUBSET Machines
    /\ paused \in BOOLEAN /\ infraReady \in BOOLEAN /\ network \in BOOLEAN
    /\ queue \in SUBSET Machines
    /\ ips \in [Machines -> SUBSET PubAddrs]
    /\ server \in [Machines -> Servers]
    /\ bootVol \in [Machines -> {"none", "attached", "detached"}]
    /\ lb \in BOOLEAN /\ pool \in SUBSET Addrs
    /\ acl \in [Machines -> PubAddrs \cup {None}]
    /\ lost \in SUBSET Volumes
    /\ pc \in PCs
    /\ cur \in Machines \cup {None} /\ (cur = None <=> pc = "idle")
    /\ base \in Fields /\ mem \in Fields
    /\ snap \in Snaps
    /\ res \in Results
    /\ faults \in 0..MaxFaults

Init ==
    /\ obj = [m \in Machines |-> [exists |-> TRUE, deleting |-> FALSE, f |-> NoFields]]
    /\ publicIP = [m \in Machines |-> IF m \in UnsetPublicIP THEN None ELSE m \in PublicIP]
    /\ owner = {} /\ bootstrap = {}
    /\ paused = InitiallyPaused /\ infraReady = FALSE /\ network = FALSE
    /\ queue = Machines
    /\ ips = [m \in Machines |-> {}]
    /\ server = [m \in Machines |-> NoServer]
    /\ bootVol = [m \in Machines |-> "none"]
    /\ lb = FALSE /\ pool = {} /\ acl = [m \in Machines |-> None]
    /\ lost = {}
    /\ cur = None /\ pc = "idle"
    /\ base = NoFields /\ mem = NoFields /\ snap = NoSnap
    /\ res = "done" /\ faults = 0

-----------------------------------------------------------------------------
(* Failing calls *)

Existing == {m \in Machines : obj[m].exists}

\* A call fails without effect.
CallRefused(p) == pc = p /\ CallFails /\ UNCHANGED <<k8s, queue, cloud, local>>

-----------------------------------------------------------------------------
(* Reconcile: from the queue to reconcileNormal or reconcileDelete *)

\* The early returns of Reconcile, none of which asks for a requeue.
Skipped(m) == ~obj[m].exists \/ m \notin owner \/ paused

SkipReconcile(m) ==
    /\ pc = "idle" /\ m \in queue
    /\ Skipped(m)
    /\ queue' = queue \ {m}
    /\ UNCHANGED <<k8s, cloud, local, pc, res, faults>>

\* A Get of the object, its cluster or the secret fails: rate-limited requeue.
GetFails(m) ==
    /\ pc = "idle" /\ m \in queue
    /\ ~Skipped(m)
    /\ Fault
    /\ UNCHANGED <<k8s, queue, cloud, local, pc, res>>

\* GetClusterFromMetadata fails: whatever the reason, Reconcile gives up without
\* requeue.
ClusterLookupFails(m) ==
    /\ pc = "idle" /\ m \in queue
    /\ ~Skipped(m)
    /\ queue' = queue \ {m}
    /\ UNCHANGED <<k8s, cloud, local, pc, res, faults>>

\* The Cluster and the ScalewayCluster are read now, from caches, and kept.
Reconcile(m) ==
    /\ pc = "idle" /\ m \in queue
    /\ ~Skipped(m)
    /\ queue' = queue \ {m}
    /\ cur' = m
    /\ base' = obj[m].f /\ mem' = obj[m].f
    /\ snap' = [NoSnap EXCEPT !.infraReady = infraReady, !.network = network]
    /\ pc' = IF obj[m].deleting THEN "find" ELSE "finalizer"
    /\ UNCHANGED <<k8s, cloud, res, faults>>

\* Faulty variant: the test of the gate is inverted.
GateInverted ==
    IF snap.infraReady THEN Return("requeue") ELSE Proceed("ip")

\* reconcileNormal continues only when the infrastructure of the cluster is ready.
InfrastructureGate ==
    IF snap.infraReady THEN Proceed("ip") ELSE Return("requeue")

HasFinalizer ==
    /\ pc = "finalizer" /\ mem.finalizer
    /\ InfrastructureGate
    /\ UNCHANGED <<k8s, queue, cloud, local>>

\* The patch of an object whose deletion has completed meanwhile is refused.
FinalizerTooLate ==
    /\ pc = "finalizer" /\ ~mem.finalizer /\ ~obj[cur].exists
    /\ mem' = [mem EXCEPT !.finalizer = TRUE]
    /\ Return("error")
    /\ UNCHANGED <<k8s, queue, cloud, cur, base, snap>>

\* Faulty variant: the finalizer is only added in memory.
FinalizerInMemory == UNCHANGED <<obj, queue>>

\* The finalizer is stored before anything is created in the cloud.
StoreFinalizer ==
    /\ obj' = [obj EXCEPT ![cur].f.finalizer = TRUE]
    /\ queue' = queue \cup {cur}

AddFinalizer ==
    /\ pc = "finalizer" /\ ~mem.finalizer /\ obj[cur].exists
    /\ mem' = [mem EXCEPT !.finalizer = TRUE]
    /\ \/ StoreFinalizer /\ (InfrastructureGate \/ CallFails)
       \/ CallFails /\ UNCHANGED <<obj, queue>>
    /\ UNCHANGED <<publicIP, owner, bootstrap, paused, infraReady, network, cloud, cur, base, snap>>

-----------------------------------------------------------------------------
(* instance.Service.Reconcile *)

NeedsPublicIP == publicIP[cur] = TRUE

FreePubAddrs == PubAddrs \ UNION {ips[m] : m \in Machines}

\* Faulty variant: an IP is created without looking for the one made before.
AlwaysCreateIP ==
    /\ pc = "ip" /\ Reply("server")
    /\ \E a \in FreePubAddrs : ips' = [ips EXCEPT ![cur] = @ \cup {a}]
    /\ UNCHANGED <<k8s, queue, server, bootVol, lb, pool, acl, lost, local>>

\* FindIPByTags: more than one hit is an error, no hit creates an IP.
GetOrCreateIP ==
    /\ pc = "ip"
    /\ \/ ~NeedsPublicIP /\ Proceed("server") /\ UNCHANGED ips
       \/ /\ NeedsPublicIP /\ ips[cur] # {} /\ UNCHANGED ips
          /\ IF Cardinality(ips[cur]) = 1 THEN Proceed("server") ELSE Return("error")
       \/ NeedsPublicIP /\ ips[cur] = {} /\ FreePubAddrs = {} /\ Return("error") /\ UNCHANGED ips
       \/ /\ NeedsPublicIP /\ ips[cur] = {}
          /\ \E a \in FreePubAddrs : ips' = [ips EXCEPT ![cur] = @ \cup {a}]
          /\ Reply("server")
    /\ UNCHANGED <<k8s, queue, server, bootVol, lb, pool, acl, lost, local>>

\* What the API returns for the server of machine m.
Snapshot(m) == [snap EXCEPT !.state = server[m].state, !.ip = server[m].ip,
                            !.boot = (bootVol[m] = "attached"), !.vols = server[m].vols]

GetServer ==
    /\ pc = "server" /\ server[cur].state # "none"
    /\ snap' = Snapshot(cur)
    /\ Proceed("nic")
    /\ UNCHANGED <<k8s, queue, cloud, cur, base, mem>>

CreateServer ==
    /\ pc = "server" /\ server[cur].state = "none"
    /\ \E a \in IF NeedsPublicIP THEN ips[cur] ELSE {None} :
          /\ server' = [server EXCEPT ![cur] = [NoServer EXCEPT !.state = "stopped", !.ip = a]]
          /\ snap' = [snap EXCEPT !.state = "stopped", !.ip = a, !.boot = TRUE]
    /\ bootVol' = [bootVol EXCEPT ![cur] = "attached"]
    /\ Reply("nic")
    /\ UNCHANGED <<k8s, queue, ips, lb, pool, acl, lost, cur, base, mem>>

\* PrivateNetworkID dereferences status.network of the ScalewayCluster that was
\* read from the cache.
StatusNetworkIsNil == HasPrivateNetwork /\ ~snap.network

GetOrCreatePrivateNIC ==
    /\ pc = "nic"
    /\ \/ StatusNetworkIsNil /\ Return("panic") /\ UNCHANGED server
       \/ /\ ~StatusNetworkIsNil /\ (~HasPrivateNetwork \/ server[cur].nic)
          /\ Proceed("addrs") /\ UNCHANGED server
       \/ /\ ~StatusNetworkIsNil /\ HasPrivateNetwork /\ ~server[cur].nic
          /\ server' = [server EXCEPT ![cur].nic = TRUE]
          /\ Reply("addrs")
    /\ UNCHANGED <<k8s, queue, ips, bootVol, lb, pool, acl, lost, local>>

\* Faulty variant: Reconcile does not wait for the address of the NIC.
PrivateIPIgnored == FALSE

\* getMachineIPs: no address of the NIC in IPAM yet (ErrPrivateIPNotFound).
PrivateIPMissing == HasPrivateNetwork /\ server[cur].nicIP = None

\* getMachineIPs: neither an internal nor an external address (errMachineHasNoIP).
MachineHasNoIP == ~HasPrivateNetwork /\ snap.ip = None

GetMachineIPs ==
    /\ pc = "addrs"
    /\ \/ PrivateIPMissing /\ Return("requeue") /\ UNCHANGED snap
       \/ MachineHasNoIP /\ Return("error") /\ UNCHANGED snap
       \/ /\ ~PrivateIPMissing /\ ~MachineHasNoIP
          /\ snap' = [snap EXCEPT !.int = server[cur].nicIP]
          /\ Proceed("backend")
    /\ UNCHANGED <<k8s, queue, cloud, cur, base, mem>>

\* Faulty variant: the public address is preferred.
NodeIPExternalFirst(int, ext) == IF ext # None THEN ext ELSE int

\* The address used between the load balancer and the node.
NodeIP(int, ext) == IF int # None THEN int ELSE ext

IsControlPlane == cur \in ControlPlane

\* ensureControlPlaneLoadBalancer with deletion = false.
JoinBackend ==
    /\ pc = "backend"
    /\ \/ ~IsControlPlane /\ Proceed("acl") /\ UNCHANGED pool
       \/ IsControlPlane /\ ~lb /\ Return("error") /\ UNCHANGED pool
       \/ /\ IsControlPlane /\ lb
          /\ pool' = pool \cup {NodeIP(snap.int, snap.ip)}
          /\ Reply("acl")
    /\ UNCHANGED <<k8s, queue, ips, server, bootVol, lb, acl, lost, local>>

\* Faulty variant: the ACL is left out.
ACLForgotten ==
    /\ pc = "acl" /\ Proceed("cloudinit")
    /\ UNCHANGED <<k8s, queue, cloud, local>>

\* ensureLoadBalancerACL: the ACL of the machine allows exactly its public IP.
EnsureACL ==
    /\ pc = "acl"
    /\ \/ ~lb /\ Return("error") /\ UNCHANGED acl
       \/ lb /\ acl' = [acl EXCEPT ![cur] = snap.ip] /\ Reply("cloudinit")
    /\ UNCHANGED <<k8s, queue, ips, server, bootVol, lb, pool, lost, local>>

SnapStopped == snap.state = "stopped"

\* GetRawBootstrapData: the secret is named by the Machine (ErrBootstrapDataNotReady).
BootstrapDataReady == cur \in bootstrap

\* ensureCloudInit: the bootstrap data is rendered with the address of the node.
EnsureCloudInit ==
    /\ pc = "cloudinit"
    /\ \/ ~SnapStopped /\ Proceed("start") /\ UNCHANGED server
       \/ SnapStopped /\ server[cur].cloudInit # None /\ Proceed("start") /\ UNCHANGED server
       \/ /\ SnapStopped /\ server[cur].cloudInit = None /\ ~BootstrapDataReady
          /\ Return("requeue") /\ UNCHANGED server
       \/ /\ SnapStopped /\ server[cur].cloudInit = None /\ BootstrapDataReady
          /\ server' = [server EXCEPT ![cur].cloudInit = NodeIP(snap.int, snap.ip)]
          /\ Reply("start")
    /\ UNCHANGED <<k8s, queue, ips, bootVol, lb, pool, acl, lost, local>>

\* Faulty variant: the server is not powered on.
NeverStarted ==
    /\ pc = "start" /\ Proceed("publish")
    /\ UNCHANGED <<k8s, queue, cloud, local>>

EnsureServerStarted ==
    /\ pc = "start"
    /\ \/ ~SnapStopped /\ Proceed("publish") /\ UNCHANGED server
       \/ /\ SnapStopped
          /\ server' = [server EXCEPT ![cur].state = "starting"]
          /\ Reply("publish")
    /\ UNCHANGED <<k8s, queue, ips, bootVol, lb, pool, acl, lost, local>>

\* The end of Reconcile: providerID, addresses and status.ready, in memory.
Publish ==
    /\ pc = "publish"
    /\ mem' = [mem EXCEPT !.providerID = TRUE, !.ready = TRUE]
    /\ Return("done")
    /\ UNCHANGED <<k8s, queue, cloud, cur, base, snap>>

-----------------------------------------------------------------------------
(* instance.Service.Delete *)

FindServer ==
    /\ pc = "find"
    /\ \/ server[cur].state = "none" /\ Proceed("unfinalize") /\ UNCHANGED snap
       \/ server[cur].state # "none" /\ snap' = Snapshot(cur) /\ Proceed("delACL")
    /\ UNCHANGED <<k8s, queue, cloud, cur, base, mem>>

\* Faulty variant: Delete leaves the ACL of the machine behind.
ACLLeftBehind ==
    /\ pc = "delACL" /\ Proceed("delBackend")
    /\ UNCHANGED <<k8s, queue, cloud, local>>

\* A missing load balancer is not an error when the machine is deleted.
DeleteACL ==
    /\ pc = "delACL"
    /\ \/ ~lb /\ Proceed("delBackend") /\ UNCHANGED acl
       \/ lb /\ acl' = [acl EXCEPT ![cur] = None] /\ Reply("delBackend")
    /\ UNCHANGED <<k8s, queue, ips, server, bootVol, lb, pool, lost, local>>

\* Faulty variant: Delete leaves the machine in the backend.
NeverLeaveBackend ==
    /\ pc = "delBackend" /\ Proceed("delIP")
    /\ UNCHANGED <<k8s, queue, cloud, local>>

\* Faulty variant: a machine without any address cannot be deleted.
MissingIPIsFatal ==
    /\ pc = "delBackend"
    /\ IF IsControlPlane /\ MachineHasNoIP THEN Return("error") ELSE Proceed("delIP")
    /\ UNCHANGED <<k8s, queue, cloud, local>>

\* ensureControlPlaneLoadBalancer with deletion = true.  With a Private Network
\* the NIC and its address must be found, or Delete returns an error.
LeaveBackend ==
    /\ pc = "delBackend"
    /\ \/ ~IsControlPlane /\ Proceed("delIP") /\ UNCHANGED pool
       \/ IsControlPlane /\ StatusNetworkIsNil /\ Return("panic") /\ UNCHANGED pool
       \/ /\ IsControlPlane /\ ~StatusNetworkIsNil
          /\ HasPrivateNetwork /\ (~server[cur].nic \/ PrivateIPMissing)
          /\ Return("error") /\ UNCHANGED pool
       \/ IsControlPlane /\ MachineHasNoIP /\ Proceed("delIP") /\ UNCHANGED pool
       \/ /\ IsControlPlane /\ ~StatusNetworkIsNil /\ ~MachineHasNoIP /\ ~PrivateIPMissing
          /\ HasPrivateNetwork => server[cur].nic
          /\ \/ ~lb /\ Proceed("delIP") /\ UNCHANGED pool
             \/ lb /\ pool' = pool \ {NodeIP(server[cur].nicIP, snap.ip)} /\ Reply("delIP")
    /\ UNCHANGED <<k8s, queue, ips, server, bootVol, lb, acl, lost, local>>

DeleteIP ==
    /\ pc = "delIP"
    /\ \/ snap.ip = None /\ Proceed("detach") /\ UNCHANGED <<ips, server>>
       \/ /\ snap.ip # None
          /\ ips' = [ips EXCEPT ![cur] = @ \ {snap.ip}]
          /\ server' = [server EXCEPT ![cur].ip = None]
          /\ Reply("detach")
    /\ UNCHANGED <<k8s, queue, bootVol, lb, pool, acl, lost, local>>

\* Faulty variant: the data volumes stay attached.
DetachNothing == {}

\* The non-boot volumes of the snapshot are detached one call at a time.
ToDetach == snap.vols

DetachVolume ==
    /\ pc = "detach"
    /\ \E v \in ToDetach :
          /\ server' = [server EXCEPT ![cur].vols = @ \ {v}]
          /\ snap' = [snap EXCEPT !.vols = @ \ {v}]
    /\ Reply("detach")
    /\ UNCHANGED <<k8s, queue, ips, bootVol, lb, pool, acl, lost, cur, base, mem>>

AllDetached ==
    /\ pc = "detach" /\ ToDetach = {}
    /\ Proceed(IF SnapStopped THEN "delBoot" ELSE "terminate")
    /\ UNCHANGED <<k8s, queue, cloud, local>>

DetachBootVolume ==
    /\ pc = "delBoot"
    /\ \/ ~snap.boot /\ Proceed("delServer") /\ UNCHANGED bootVol
       \/ snap.boot /\ bootVol' = [bootVol EXCEPT ![cur] = "detached"] /\ Reply("delVolume")
    /\ UNCHANGED <<k8s, queue, ips, server, lb, pool, acl, lost, local>>

DeleteBootVolume ==
    /\ pc = "delVolume"
    /\ bootVol' = [bootVol EXCEPT ![cur] = "none"]
    /\ Reply("delServer")
    /\ UNCHANGED <<k8s, queue, ips, server, lb, pool, acl, lost, local>>

DeleteServer ==
    /\ pc = "delServer"
    /\ server' = [server EXCEPT ![cur] = NoServer]
    /\ Reply("unfinalize")
    /\ UNCHANGED <<k8s, queue, ips, bootVol, lb, pool, acl, lost, local>>

\* Faulty variant: an error of the termination does not end Delete.
TerminateErrorIgnored ==
    /\ pc = "terminate"
    /\ \/ Proceed("unfinalize") /\ UNCHANGED server
       \/ server' = [server EXCEPT ![cur].state = "stopping"] /\ Reply("unfinalize")
    /\ UNCHANGED <<k8s, queue, ips, bootVol, lb, pool, acl, lost, local>>

\* The server goes away later, with the volumes that are attached then.
TerminateServer ==
    /\ pc = "terminate"
    /\ \/ server[cur].state \in {"none", "stopping"} /\ Return("error") /\ UNCHANGED server
       \/ /\ server[cur].state \notin {"none", "stopping"}
          /\ server' = [server EXCEPT ![cur].state = "stopping"]
          /\ Reply("unfinalize")
    /\ UNCHANGED <<k8s, queue, ips, bootVol, lb, pool, acl, lost, local>>

RemoveFinalizer ==
    /\ pc = "unfinalize"
    /\ mem' = [mem EXCEPT !.finalizer = FALSE]
    /\ Return("done")
    /\ UNCHANGED <<k8s, queue, cloud, cur, base, snap>>

-----------------------------------------------------------------------------
(* Close: the deferred patch of the object *)

\* The patch helper sends metadata and spec in one call and status in another.
Patched(o, metaAndSpec, status) ==
    [o EXCEPT !.f = [finalizer  |-> IF metaAndSpec THEN mem.finalizer ELSE @.finalizer,
                     providerID |-> IF metaAndSpec THEN mem.providerID ELSE @.providerID,
                     ready      |-> IF status THEN mem.ready ELSE @.ready],
              !.exists = @ /\ ~(o.deleting /\ metaAndSpec /\ ~mem.finalizer)]

\* Faulty variant: the result of the reconcile is dropped, no requeue is asked for.
StoreWithoutRequeue(o) ==
    /\ obj' = [obj EXCEPT ![cur] = o]
    /\ UNCHANGED network
    /\ queue' = queue \cup (IF o # obj[cur] THEN {cur} ELSE {})

\* A new process lists all objects again and has up-to-date caches.
Restarted ==
    /\ queue' = {m \in Machines : obj'[m].exists}
    /\ network' = (HasPrivateNetwork /\ infraReady)

\* The object changes in the API server: the controller's own watch sees it.  An
\* error or a requested requeue brings it back, a panic ends the process.
Store(o) ==
    /\ obj' = [obj EXCEPT ![cur] = o]
    /\ \/ res' = "panic" /\ Restarted
       \/ /\ res' # "panic" /\ UNCHANGED network
          /\ queue' = queue \cup (IF o # obj[cur] \/ res' # "done" THEN {cur} ELSE {})

\* The deferred Close may turn success into an error, not a panic into one.
CloseError == IF res = "panic" THEN res ELSE "error"

CloseSucceeds ==
    /\ res' = IF obj[cur].exists \/ mem = base THEN res ELSE CloseError
    /\ Store(IF obj[cur].exists /\ mem # base THEN Patched(obj[cur], TRUE, TRUE) ELSE obj[cur])
    /\ UNCHANGED faults

\* One of the two patches, or both, is lost or loses its reply.
CloseFails ==
    /\ Fault
    /\ mem # base /\ obj[cur].exists
    /\ res' = CloseError
    /\ \E metaAndSpec, status \in BOOLEAN : Store(Patched(obj[cur], metaAndSpec, status))

Close ==
    /\ pc = "close"
    /\ CloseSucceeds \/ CloseFails
    /\ pc' = "idle" /\ cur' = None
    /\ base' = NoFields /\ mem' = NoFields /\ snap' = NoSnap
    /\ UNCHANGED <<publicIP, owner, bootstrap, paused, infraReady, cloud>>

-----------------------------------------------------------------------------
(* The process and its environment *)

\* The process dies: memory is lost, the informers list all objects again.
Crash ==
    /\ pc # "idle"
    /\ Fault
    /\ pc' = "idle" /\ cur' = None
    /\ base' = NoFields /\ mem' = NoFields /\ snap' = NoSnap
    /\ UNCHANGED <<obj, publicIP, owner, bootstrap, paused, infraReady>>
    /\ Restarted
    /\ UNCHANGED <<cloud, res>>

PeriodicResync ==
    /\ Resync
    /\ queue' = queue \cup Existing
    /\ UNCHANGED <<k8s, cloud, local, pc, res, faults>>

SetOwner(m) ==
    /\ obj[m].exists /\ m \notin owner
    /\ owner' = owner \cup {m}
    /\ queue' = queue \cup {m}
    /\ UNCHANGED <<obj, publicIP, bootstrap, paused, infraReady, network, cloud, local, pc, res, faults>>

\* The controller watches ScalewayMachines only: the queue does not change when
\* a Machine or the Cluster does.
SetBootstrapData(m) ==
    /\ m \notin bootstrap
    /\ bootstrap' = bootstrap \cup {m}
    /\ UNCHANGED <<obj, publicIP, owner, paused, infraReady, network, queue, cloud, local, pc, res, faults>>

Unpause ==
    /\ paused /\ paused' = FALSE
    /\ UNCHANGED <<obj, publicIP, owner, bootstrap, infraReady, network, queue, cloud, local, pc, res, faults>>

\* The ScalewayCluster is in another cache than the Cluster, which may lag.
SetInfrastructureReady ==
    /\ ~infraReady /\ infraReady' = TRUE /\ lb' = TRUE
    /\ network' \in {HasPrivateNetwork, FALSE}
    /\ UNCHANGED <<obj, publicIP, owner, bootstrap, paused, queue, ips, server, bootVol, pool, acl, lost,
                   local, pc, res, faults>>

CacheCatchesUp ==
    /\ HasPrivateNetwork /\ infraReady /\ ~network
    /\ network' = TRUE
    /\ UNCHANGED <<obj, publicIP, owner, bootstrap, paused, infraReady, queue, cloud, local, pc, res, faults>>

\* The ScalewayCluster is being deleted while machines are left.
LoadBalancerDeleted ==
    /\ lb /\ lb' = FALSE
    /\ pool' = {} /\ acl' = [m \in Machines |-> None]
    /\ UNCHANGED <<k8s, queue, ips, server, bootVol, lost, local, pc, res, faults>>

UserDelete(m) ==
    /\ obj[m].exists /\ ~obj[m].deleting
    /\ obj' = [obj EXCEPT ![m].deleting = TRUE, ![m].exists = obj[m].f.finalizer]
    /\ queue' = queue \cup {m}
    /\ UNCHANGED <<publicIP, owner, bootstrap, paused, infraReady, network, cloud, local, pc, res, faults>>

\* Faulty variant: publicIP can be switched on later.
PublicIPEditable(old, new) == old = None

\* The validating webhook: once set, publicIP is immutable, and an unset one can
\* only be set to false.
EnforceImmutability(old, new) == old = None /\ new # TRUE

UserEdit(m) ==
    /\ obj[m].exists
    /\ \E new \in (BOOLEAN \cup {None}) \ {publicIP[m]} :
          /\ EnforceImmutability(publicIP[m], new)
          /\ publicIP' = [publicIP EXCEPT ![m] = new]
    /\ queue' = queue \cup {m}
    /\ UNCHANGED <<obj, owner, bootstrap, paused, infraReady, network, cloud, local, pc, res, faults>>

FreePrivAddrs == PrivAddrs \ {server[m].nicIP : m \in Machines}

AssignPrivateIP(m) ==
    /\ server[m].nic /\ server[m].nicIP = None
    /\ \E a \in FreePrivAddrs : server' = [server EXCEPT ![m].nicIP = a]
    /\ UNCHANGED <<k8s, queue, ips, bootVol, lb, pool, acl, lost, local, pc, res, faults>>

ServerBooted(m) ==
    /\ server[m].state = "starting"
    /\ server' = [server EXCEPT ![m].state = "running"]
    /\ UNCHANGED <<k8s, queue, ips, bootVol, lb, pool, acl, lost, local, pc, res, faults>>

ServerTerminated(m) ==
    /\ server[m].state = "stopping"
    /\ server' = [server EXCEPT ![m] = NoServer]
    /\ bootVol' = [bootVol EXCEPT ![m] = "none"]
    /\ lost' = lost \cup server[m].vols
    /\ UNCHANGED <<k8s, queue, ips, lb, pool, acl, local, pc, res, faults>>

\* The CSI driver attaches a volume to a node that is not being deleted (Cluster
\* API drains a node and waits for its volumes before it deletes the machine).
AttachDataVolume(m) ==
    /\ server[m].state = "running" /\ obj[m].exists /\ ~obj[m].deleting
    /\ \E v \in Volumes \ (lost \cup UNION {server[n].vols : n \in Machines}) :
          server' = [server EXCEPT ![m].vols = @ \cup {v}]
    /\ UNCHANGED <<k8s, queue, ips, bootVol, lb, pool, acl, lost, local, pc, res, faults>>

-----------------------------------------------------------------------------

\* Every call the worker makes may be refused; Close has its own failures.
AnyCallRefused ==
    \/ CallRefused("ip") /\ NeedsPublicIP
    \/ CallRefused("server")
    \/ HasPrivateNetwork /\ (CallRefused("nic") \/ CallRefused("addrs"))
    \/ IsControlPlane /\ (CallRefused("backend") \/ CallRefused("delBackend"))
    \/ CallRefused("acl") \/ CallRefused("find") \/ CallRefused("delACL")
    \/ SnapStopped /\ (CallRefused("cloudinit") \/ CallRefused("start"))
    \/ snap.ip # None /\ CallRefused("delIP")
    \/ ToDetach # {} /\ CallRefused("detach")
    \/ snap.boot /\ CallRefused("delBoot")
    \/ CallRefused("delVolume") \/ CallRefused("delServer") \/ CallRefused("terminate")

NormalStep ==
    \/ HasFinalizer \/ FinalizerTooLate \/ AddFinalizer
    \/ GetOrCreateIP \/ GetServer \/ CreateServer
    \/ GetOrCreatePrivateNIC \/ GetMachineIPs \/ JoinBackend \/ EnsureACL
    \/ EnsureCloudInit \/ EnsureServerStarted \/ Publish

DeleteStep ==
    \/ FindServer \/ DeleteACL \/ LeaveBackend \/ DeleteIP
    \/ DetachVolume \/ AllDetached \/ DetachBootVolume \/ DeleteBootVolume
    \/ DeleteServer \/ TerminateServer \/ RemoveFinalizer

Take(m) == SkipReconcile(m) \/ GetFails(m) \/ ClusterLookupFails(m) \/ Reconcile(m)

Step == NormalStep \/ DeleteStep \/ AnyCallRefused \/ Close

CloudStep(m) == AssignPrivateIP(m) \/ ServerBooted(m) \/ ServerTerminated(m)

Environment ==
    \/ Crash \/ PeriodicResync \/ Unpause \/ SetInfrastructureReady \/ CacheCatchesUp
    \/ LoadBalancerDeleted
    \/ \E m \in Machines : \/ SetOwner(m) \/ SetBootstrapData(m) \/ UserEdit(m) \/ UserDelete(m)
                           \/ CloudStep(m) \/ AttachDataVolume(m)

Next == Step \/ (\E m \in Machines : Take(m)) \/ Environment

Spec == Init /\ [][Next]_vars

\* The worker keeps working, its queue is first in, first out and no lookup fails
\* for ever; the cloud finishes what it started; the informers resync.  Users and
\* the other controllers promise nothing, and no cache has to catch up.
Fairness ==
    /\ WF_vars(Step)
    /\ \A m \in Machines : SF_vars(SkipReconcile(m) \/ Reconcile(m))
    /\ \A m \in Machines : /\ WF_vars(AssignPrivateIP(m))
                           /\ WF_vars(ServerBooted(m))
                           /\ WF_vars(ServerTerminated(m))
    /\ WF_vars(PeriodicResync)

FairSpec == Spec /\ Fairness

-----------------------------------------------------------------------------
(* Properties *)

\* The address by which the load balancer reaches the node of machine m.
NodeAddr(m) == IF HasPrivateNetwork THEN server[m].nicIP ELSE server[m].ip

Started(m) == server[m].state \in {"starting", "running"}

\* A server is powered on only once its cloud-init user data is complete: it was
\* rendered with the address the node really has (ensureCloudInit before
\* ensureServerStarted, across crashes, lost replies and retries).
BootstrapBeforeBoot ==
    \A m \in Machines : Started(m) =>
        /\ server[m].cloudInit # None
        /\ ~obj[m].deleting => server[m].cloudInit = NodeAddr(m)

\* While the load balancer exists, a started control-plane node is in its backend
\* and every started node with a public IP is allowed by its ACL, until the
\* machine is deleted: a booting node can always reach the API endpoint.
ReachableBeforeBoot ==
    \A m \in Machines : Started(m) /\ lb /\ ~obj[m].deleting =>
        /\ m \in ControlPlane => NodeAddr(m) \in pool
        /\ server[m].ip # None => acl[m] = server[m].ip

\* The backend never holds an address that is not the address of a control-plane
\* server that is still in use: Delete leaves the backend before it releases the
\* address, so an address handed out again never inherits API traffic.
BackendsAreAlive ==
    \A a \in pool : \E m \in ControlPlane :
        server[m].state \in {"stopped", "starting", "running"} /\ a = NodeAddr(m)

\* A server that is not being terminated belongs to an object that still exists
\* and still carries the finalizer: no crash, lost reply or early delete makes
\* the controller forget a server.
FinalizerGuardsServer ==
    \A m \in Machines : server[m].state \notin {"none", "stopping"} =>
        obj[m].exists /\ obj[m].f.finalizer

\* When the object is gone, so are its ACL and its backend entry.
NoTraceInLoadBalancer ==
    \A m \in Machines : ~obj[m].exists =>
        acl[m] = None /\ (m \in ControlPlane => NodeAddr(m) \notin pool)

\* A machine never owns two flexible IPs (FindIPByTags would then fail for ever).
OneIPPerMachine == \A m \in Machines : Cardinality(ips[m]) <= 1

\* The flexible IP of a machine is the one its server has, since Delete only knows
\* the IP of the server: no edit of spec.publicIP that the webhook lets through
\* makes the controller create an IP beside a server that was created without.
IPsAreAttached ==
    \A m \in Machines : server[m].state \notin {"none", "stopping"} /\ ips[m] # {} =>
        server[m].ip \in ips[m]

\* Terminating a server destroys the volumes attached to it: all data volumes
\* have been detached before.
NoDataVolumeLost == lost = {}

\* A machine reported ready has a server that was powered on and is not being
\* terminated, whatever was lost between the power-on and the status patch.
ReadyMeansStarted ==
    \A m \in Machines : obj[m].exists /\ obj[m].f.ready /\ ~obj[m].deleting => Started(m)

\* The ACL of a machine only allows an address that the machine still holds: a
\* flexible IP that is released and handed out to somebody else is not let in.
ACLsAreAlive == \A m \in Machines : acl[m] # None => acl[m] \in ips[m]

-----------------------------------------------------------------------------

\* The abstract state of the object of machine m, see GuardedResource.
ObjectState(m) ==
    IF ~obj[m].exists THEN "gone"
    ELSE IF obj[m].deleting THEN "dying"
    ELSE IF obj[m].f.finalizer THEN "guarded" ELSE "new"

\* The server of machine m exists and has not been told to go.
InUse(m) == server[m].state \notin {"none", "stopping"}

Guarded == INSTANCE GuardedResource WITH
               Owners <- Machines,
               object <- [m \in Machines |-> ObjectState(m)],
               resource <- [m \in Machines |-> InUse(m)]

\* The controller implements the protocol of finalizers: a server is created only
\* behind a stored finalizer, given up only when the machine is being deleted, and
\* the machine is not forgotten before, however the calls of several reconciles
\* interleave with crashes, lost replies and half-lost patches.
ImplementsGuardedResource == Guarded!Spec

\* A control-plane server that got no private NIC before its machine was deleted.
StuckWithoutNIC(m) ==
    m \in ControlPlane /\ HasPrivateNetwork /\ server[m].state = "stopped" /\ ~server[m].nic

\* A machine that can get an address (without one, getMachineIPs fails for ever)
\* and whose owner, infrastructure and bootstrap data are there becomes ready,
\* unless it is deleted or loses its load balancer.
EventuallyReady ==
    \A m \in Machines :
        (/\ m \in owner \cap bootstrap /\ infraReady /\ ~paused
         /\ HasPrivateNetwork \/ publicIP[m] = TRUE)
            ~> (obj[m].f.ready /\ obj[m].f.providerID) \/ obj[m].deleting \/ ~lb

\* Claim of the comment "Delete flexible IP.": a machine that is gone holds no IP.
FlexibleIPDeleted == \A m \in Machines : ~obj[m].exists => ips[m] = {}

\* Claim of the comment "If server is stopped, remove boot volume and delete the
\* server.": a machine that is gone has left no boot volume behind.
BootVolumeDeleted ==
    \A m \in Machines : ~obj[m].exists /\ server[m].state = "none" => bootVol[m] = "none"

\* Claim of the README that the custom resources can be deleted: every deleted
\* machine eventually goes away.  What wakes the controller up are the requeues and,
\* after a pause or a failed lookup of the Cluster, the resync.  It holds without a
\* Private Network (see StuckWithoutNIC).
DeletionCompletes ==
    \A m \in Machines : (obj[m].deleting /\ ~paused) ~> ~obj[m].exists

=============================================================================
