------------------------ MODULE ScalewayMachineProofs ------------------------
(***************************************************************************)
(* Proofs about ScalewayMachine, for any number of machines, volumes and   *)
(* addresses and any bound on the failures:                                *)
(*                                                                         *)
(*   TypeCorrect         the types, with the fact that the worker only     *)
(*                       reaches the load balancer with a node address;    *)
(*   ServersAreGuarded   a server in use has an object with a finalizer;   *)
(*   DataVolumesSurvive  no data volume is destroyed by a termination.     *)
(*                                                                         *)
(* Each one is an invariant strengthened with what the worker knows at     *)
(* each of its steps, and the step lemmas go through the actions in turn.  *)
(***************************************************************************)
EXTENDS ScalewayMachine, TLAPS

-----------------------------------------------------------------------------
(* The inductive invariants *)

\* Between getMachineIPs and the end of Reconcile the worker holds a node address
\* (NodeIP does not dereference a nil pointer).
AddressKnown ==
    pc \in {"backend", "acl", "cloudinit", "start", "publish"} => NodeIP(snap.int, snap.ip) # None

TypeInv == TypeOK /\ AddressKnown

\* States in which the controller is done with a server.
Ending == {"none", "stopping"}

\* The API server keeps a deleted object only while it has a finalizer.
DeletingKeepsFinalizer ==
    \A m \in Machines : obj[m].exists /\ obj[m].deleting => obj[m].f.finalizer

\* What the worker knows: from its second step on reconcileNormal has a stored
\* finalizer, and only a reconcile that got rid of the server removes it.
WorkerFinalizer ==
    /\ pc \in NormalPCs \ {"finalizer"} =>
           obj[cur].exists /\ obj[cur].f.finalizer /\ mem.finalizer
    /\ pc = "finalizer" /\ mem.finalizer => obj[cur].exists /\ obj[cur].f.finalizer
    /\ pc \in DeletePCs => mem.finalizer
    /\ pc = "unfinalize" => server[cur].state \in Ending
    /\ pc = "close" /\ ~mem.finalizer => server[cur].state \in Ending

FinalizerInv == FinalizerGuardsServer /\ DeletingKeepsFinalizer /\ WorkerFinalizer

\* reconcileDelete works on a snapshot of the volumes that is complete, because
\* nothing is attached to the server of a machine that is being deleted.
VolumeInv ==
    /\ NoDataVolumeLost
    /\ \A m \in Machines : server[m].state = "stopping" => server[m].vols = {}
    /\ pc \in DeletePCs => obj[cur].deleting
    /\ pc \in {"delACL", "delBackend", "delIP", "detach"} => server[cur].vols \subseteq snap.vols
    /\ pc \in {"delBoot", "delVolume", "delServer", "terminate"} => server[cur].vols = {}

-----------------------------------------------------------------------------
(* Updates of the objects and of the servers *)

\* Changing the state of a server keeps the type of all servers (power-on, terminate).
LEMMA ServerState ==
    ASSUME NEW S \in [Machines -> Servers], NEW m \in Machines, NEW st \in ServerStates
    PROVE  [S EXCEPT ![m].state = st] \in [Machines -> Servers]
  BY DEF Servers

\* So does attaching a private NIC (getOrCreatePrivateNIC).
LEMMA ServerNIC ==
    ASSUME NEW S \in [Machines -> Servers], NEW m \in Machines
    PROVE  [S EXCEPT ![m].nic = TRUE] \in [Machines -> Servers]
  BY DEF Servers

\* So does storing the user data (ensureCloudInit).
LEMMA ServerCloudInit ==
    ASSUME NEW S \in [Machines -> Servers], NEW m \in Machines, NEW a \in Addrs \cup {None}
    PROVE  [S EXCEPT ![m].cloudInit = a] \in [Machines -> Servers]
  BY DEF Servers

\* So does releasing the flexible IP (Delete).
LEMMA ServerIP ==
    ASSUME NEW S \in [Machines -> Servers], NEW m \in Machines
    PROVE  [S EXCEPT ![m].ip = None] \in [Machines -> Servers]
  BY DEF Servers

\* So does changing the attached volumes (Delete).
LEMMA ServerVolumes ==
    ASSUME NEW S \in [Machines -> Servers], NEW m \in Machines, NEW v \in SUBSET Volumes
    PROVE  [S EXCEPT ![m].vols = v] \in [Machines -> Servers]
  BY DEF Servers

\* Storing the finalizer keeps the type of all objects (reconcileNormal).
LEMMA ObjectFinalizer ==
    ASSUME NEW O \in [Machines -> Objects], NEW m \in Machines
    PROVE  [O EXCEPT ![m].f.finalizer = TRUE] \in [Machines -> Objects]
  BY DEF Objects, Fields

\* So does a delete request of the user.
LEMMA ObjectDeleted ==
    ASSUME NEW O \in [Machines -> Objects], NEW m \in Machines, NEW e \in BOOLEAN
    PROVE  [O EXCEPT ![m].deleting = TRUE, ![m].exists = e] \in [Machines -> Objects]
  BY DEF Objects

\* So does the patch sent by Close, whichever of its two calls gets through.
LEMMA PatchedType ==
    ASSUME mem \in Fields, NEW o \in Objects, NEW x \in BOOLEAN, NEW y \in BOOLEAN
    PROVE  Patched(o, x, y) \in Objects
<1> DEFINE f == [finalizer  |-> IF x THEN mem.finalizer ELSE o.f.finalizer,
                 providerID |-> IF x THEN mem.providerID ELSE o.f.providerID,
                 ready      |-> IF y THEN mem.ready ELSE o.f.ready]
           e == o.exists /\ ~(o.deleting /\ x /\ ~mem.finalizer)
<1>1. f \in Fields
    BY DEF Objects, Fields
<1>2. e \in BOOLEAN
    OBVIOUS
<1>3. Patched(o, x, y) = [o EXCEPT !.f = f, !.exists = e]
    BY DEF Patched, Objects
<1> HIDE DEF f, e
<1>4. QED
    BY <1>1, <1>2, <1>3 DEF Objects

\* What the patch sent by Close does to the finalizer and to the existence of an
\* object: the object goes when its last finalizer does.
LEMMA PatchedFields ==
    ASSUME mem \in Fields, NEW o \in Objects, NEW x \in BOOLEAN, NEW y \in BOOLEAN
    PROVE  /\ Patched(o, x, y).f.finalizer = (IF x THEN mem.finalizer ELSE o.f.finalizer)
           /\ Patched(o, x, y).deleting = o.deleting
           /\ Patched(o, x, y).exists = (o.exists /\ ~(o.deleting /\ x /\ ~mem.finalizer))
  BY DEF Patched, Objects, Fields

\* Close leaves the object alone or patches it.
LEMMA CloseObjects ==
    ASSUME Close
    PROVE  \/ obj' = [obj EXCEPT ![cur] = obj[cur]]
           \/ \E x, y \in BOOLEAN : obj' = [obj EXCEPT ![cur] = Patched(obj[cur], x, y)]
  BY DEF Close, CloseSucceeds, CloseFails, Store

-----------------------------------------------------------------------------
(* Types *)

\* The initial state has the types.
LEMMA TypeInit == Init => TypeInv
<1> SUFFICES ASSUME Init PROVE TypeInv
    OBVIOUS
<1> USE MachinesAssumption, SwitchAssumption, AddrAssumption, FaultAssumption DEF Init
<1>1. NoFields \in Fields
    BY DEF NoFields, Fields
<1>2. obj \in [Machines -> Objects]
    BY <1>1 DEF Objects
<1>3. NoServer \in Servers
    BY DEF NoServer, Servers, ServerStates
<1>4. NoSnap \in Snaps
    BY DEF NoSnap, Snaps, ServerStates
<1>5. paused \in BOOLEAN
    BY DEF Init
<1>6. pc \in PCs /\ res \in Results /\ faults \in 0..MaxFaults
    BY DEF PCs, Results
<1>7. publicIP \in [Machines -> BOOLEAN \cup {None}]
    OBVIOUS
<1>8. TypeOK
    BY <1>1, <1>2, <1>3, <1>4, <1>5, <1>6, <1>7 DEF TypeOK
<1>9. QED
    BY <1>8 DEF TypeInv, AddressKnown

\* Every step keeps the types and the node address of the worker.
LEMMA TypeNext == TypeInv /\ [Next]_vars => TypeInv'
<1> SUFFICES ASSUME TypeInv, [Next]_vars PROVE TypeInv'
    OBVIOUS
<1> USE MachinesAssumption, AddrAssumption, FaultAssumption
<1> USE DEF TypeInv, AddressKnown, TypeOK, k8s, cloud, local, Proceed, Return, Reply, CallFails, Fault,
            PCs, NormalPCs, DeletePCs, Results
<1>a. NoFields \in Fields /\ NoServer \in Servers /\ NoSnap \in Snaps
    BY DEF NoFields, Fields, NoServer, Servers, NoSnap, Snaps, ServerStates
<1>b. pc # "idle" => cur \in Machines
    OBVIOUS
<1>1. CASE HasFinalizer
    BY <1>1, <1>a, <1>b DEF HasFinalizer, InfrastructureGate
<1>2. CASE FinalizerTooLate
  <2>1. mem' \in Fields
    BY <1>2, <1>a, <1>b DEF FinalizerTooLate, Fields
  <2>2. QED
    BY <1>2, <1>a, <1>b, <2>1 DEF FinalizerTooLate
<1>3. CASE AddFinalizer
  <2>1. cur \in Machines /\ mem' \in Fields
    BY <1>3, <1>b DEF AddFinalizer, Fields
  <2>2. obj' = obj \/ obj' = [obj EXCEPT ![cur].f.finalizer = TRUE]
    BY <1>3 DEF AddFinalizer, StoreFinalizer
  <2>3. obj' \in [Machines -> Objects]
    BY <2>1, <2>2, ObjectFinalizer
  <2>4. QED
    BY <1>3, <2>1, <2>3 DEF AddFinalizer, StoreFinalizer, InfrastructureGate
<1>4. CASE GetOrCreateIP
    BY <1>4, <1>a, <1>b DEF GetOrCreateIP, FreePubAddrs
<1>5. CASE GetServer
  <2>1. snap' \in Snaps
    BY <1>5, <1>a, <1>b DEF GetServer, Snapshot, Snaps, Servers
  <2>2. QED
    BY <1>5, <1>a, <1>b, <2>1 DEF GetServer
<1>6. CASE CreateServer
  <2>1. cur \in Machines
    BY <1>6, <1>b DEF CreateServer
  <2>2. PICK a \in (IF NeedsPublicIP THEN ips[cur] ELSE {None}) :
            /\ server' = [server EXCEPT ![cur] = [NoServer EXCEPT !.state = "stopped", !.ip = a]]
            /\ snap' = [snap EXCEPT !.state = "stopped", !.ip = a, !.boot = TRUE]
    BY <1>6 DEF CreateServer
  <2>3. a \in PubAddrs \cup {None}
    BY <2>1, <2>2
  <2>4. [NoServer EXCEPT !.state = "stopped", !.ip = a] \in Servers
    BY <2>3, <1>a DEF NoServer, Servers, ServerStates
  <2>5. server' \in [Machines -> Servers]
    BY <2>1, <2>2, <2>4
  <2>6. snap' \in Snaps
    BY <2>2, <2>3, <1>a DEF NoSnap, Snaps, ServerStates
  <2>7. QED
    BY <1>6, <2>1, <2>5, <2>6 DEF CreateServer
<1>7. CASE GetOrCreatePrivateNIC
  <2>1. cur \in Machines
    BY <1>7, <1>b DEF GetOrCreatePrivateNIC
  <2>2. server' = server \/ server' = [server EXCEPT ![cur].nic = TRUE]
    BY <1>7 DEF GetOrCreatePrivateNIC
  <2>3. server' \in [Machines -> Servers]
    BY <2>1, <2>2, ServerNIC
  <2>4. QED
    BY <1>7, <2>1, <2>3 DEF GetOrCreatePrivateNIC
<1>8. CASE GetMachineIPs
  <2>1. snap' \in Snaps
    BY <1>8, <1>b DEF GetMachineIPs, Snaps, Servers
  <2>2. pc' = "backend" => NodeIP(snap'.int, snap'.ip) # None
    BY <1>8, <1>b DEF GetMachineIPs, PrivateIPMissing, MachineHasNoIP, NodeIP, Snaps
  <2>3. QED
    BY <1>8, <1>b, <2>1, <2>2 DEF GetMachineIPs
<1>9. CASE JoinBackend
  <2>1. pool' \in SUBSET Addrs
    BY <1>9, <1>a, <1>b DEF JoinBackend, NodeIP, Snaps, Addrs, IsControlPlane
  <2>2. QED
    BY <1>9, <1>a, <1>b, <2>1 DEF JoinBackend
<1>10. CASE EnsureACL
  <2>1. snap.ip \in PubAddrs \cup {None}
    BY <1>10, <1>a, <1>b DEF EnsureACL, Snaps
  <2>2. QED
    BY <1>10, <1>a, <1>b, <2>1 DEF EnsureACL
<1>11. CASE EnsureCloudInit
  <2>1. NodeIP(snap.int, snap.ip) \in Addrs \cup {None}
    BY <1>11, <1>a, <1>b DEF EnsureCloudInit, NodeIP, Snaps, Addrs
  <2>2. cur \in Machines
    BY <1>11, <1>b DEF EnsureCloudInit
  <2>3. \/ server' = server
        \/ server' = [server EXCEPT ![cur].cloudInit = NodeIP(snap.int, snap.ip)]
    BY <1>11 DEF EnsureCloudInit
  <2> DEFINE addr == NodeIP(snap.int, snap.ip)
  <2> HIDE DEF addr
  <2>a. addr \in Addrs \cup {None}
    BY <2>1 DEF addr
  <2>b. [server EXCEPT ![cur].cloudInit = addr] \in [Machines -> Servers]
    BY <2>2, <2>a, ServerCloudInit
  <2>4. server' \in [Machines -> Servers]
    BY <2>3, <2>b DEF addr
  <2>5. QED
    BY <1>11, <1>a, <1>b, <2>4 DEF EnsureCloudInit
<1>12. CASE EnsureServerStarted
  <2>1. cur \in Machines
    BY <1>12, <1>b DEF EnsureServerStarted
  <2>2. server' = server \/ server' = [server EXCEPT ![cur].state = "starting"]
    BY <1>12 DEF EnsureServerStarted
  <2>3. "starting" \in ServerStates
    BY DEF ServerStates
  <2>4. server' \in [Machines -> Servers]
    BY <2>1, <2>2, <2>3, ServerState
  <2>5. QED
    BY <1>12, <2>1, <2>4 DEF EnsureServerStarted
<1>13. CASE Publish
  <2>1. mem' \in Fields
    BY <1>13, <1>a, <1>b DEF Publish, Fields
  <2>2. QED
    BY <1>13, <1>a, <1>b, <2>1 DEF Publish
<1>14. CASE FindServer
  <2>1. cur \in Machines
    BY <1>14, <1>b DEF FindServer
  <2>2. Snapshot(cur) \in Snaps
    BY <2>1 DEF Snapshot, Snaps, Servers
  <2>3. QED
    BY <1>14, <2>1, <2>2 DEF FindServer
<1>15. CASE DeleteACL
    BY <1>15, <1>a, <1>b DEF DeleteACL
<1>16. CASE LeaveBackend
    BY <1>16, <1>a, <1>b DEF LeaveBackend
<1>17. CASE DeleteIP
  <2>1. cur \in Machines
    BY <1>17, <1>b DEF DeleteIP
  <2>2. server' = server \/ server' = [server EXCEPT ![cur].ip = None]
    BY <1>17 DEF DeleteIP
  <2>3. server' \in [Machines -> Servers]
    BY <2>1, <2>2, ServerIP
  <2>4. QED
    BY <1>17, <2>1, <2>3 DEF DeleteIP
<1>18. CASE DetachVolume
  <2>1. cur \in Machines
    BY <1>18, <1>b DEF DetachVolume
  <2>2. PICK v \in ToDetach : /\ server' = [server EXCEPT ![cur].vols = @ \ {v}]
                             /\ snap' = [snap EXCEPT !.vols = @ \ {v}]
    BY <1>18 DEF DetachVolume
  <2>3. server[cur].vols \ {v} \in SUBSET Volumes /\ snap' \in Snaps
    BY <2>1, <2>2 DEF Servers, Snaps
  <2>4. server' \in [Machines -> Servers]
    BY <2>1, <2>2, <2>3, ServerVolumes
  <2>5. QED
    BY <1>18, <2>1, <2>3, <2>4 DEF DetachVolume
<1>19. CASE AllDetached
    BY <1>19, <1>a, <1>b DEF AllDetached
<1>20. CASE DetachBootVolume
    BY <1>20, <1>a, <1>b DEF DetachBootVolume
<1>21. CASE DeleteBootVolume
    BY <1>21, <1>a, <1>b DEF DeleteBootVolume
<1>22. CASE DeleteServer
    BY <1>22, <1>a, <1>b DEF DeleteServer
<1>23. CASE TerminateServer
  <2>1. cur \in Machines
    BY <1>23, <1>b DEF TerminateServer
  <2>2. server' = server \/ server' = [server EXCEPT ![cur].state = "stopping"]
    BY <1>23 DEF TerminateServer
  <2>3. "stopping" \in ServerStates
    BY DEF ServerStates
  <2>4. server' \in [Machines -> Servers]
    BY <2>1, <2>2, <2>3, ServerState
  <2>5. QED
    BY <1>23, <2>1, <2>4 DEF TerminateServer
<1>24. CASE RemoveFinalizer
  <2>1. mem' \in Fields
    BY <1>24, <1>a, <1>b DEF RemoveFinalizer, Fields
  <2>2. QED
    BY <1>24, <1>a, <1>b, <2>1 DEF RemoveFinalizer
<1>25. CASE AnyCallRefused
    BY <1>25, <1>a, <1>b DEF AnyCallRefused, CallRefused
<1>26. CASE Close
  <2>1. cur \in Machines
    BY <1>26, <1>b DEF Close
  <2>2. ASSUME NEW x \in BOOLEAN, NEW y \in BOOLEAN
        PROVE  [obj EXCEPT ![cur] = Patched(obj[cur], x, y)] \in [Machines -> Objects]
    BY <2>1, PatchedType
  <2>3. obj' \in [Machines -> Objects]
    BY <1>26, <2>1, <2>2, CloseObjects
  <2>4. queue' \in SUBSET Machines /\ network' \in BOOLEAN
    BY <1>26, <2>1 DEF Close, CloseSucceeds, CloseFails, Store, Restarted
  <2>5. res' \in Results
    BY <1>26 DEF Close, CloseSucceeds, CloseFails, CloseError
  <2>6. faults' \in 0..MaxFaults
    <3>1. faults' = faults \/ (faults < MaxFaults /\ faults' = faults + 1)
      BY <1>26 DEF Close, CloseSucceeds, CloseFails
    <3>2. faults \in 0..MaxFaults
      OBVIOUS
    <3>3. QED
      BY ONLY <3>1, <3>2, FaultAssumption
  <2>7. QED
    BY <1>26, <1>a, <2>3, <2>4, <2>5, <2>6 DEF Close
<1>27. CASE Crash
    BY <1>27, <1>a, <1>b DEF Crash, Restarted
<1>28. CASE PeriodicResync
    BY <1>28, <1>a, <1>b DEF PeriodicResync, Existing
<1>29. CASE Unpause
    BY <1>29, <1>a, <1>b DEF Unpause
<1>30. CASE SetInfrastructureReady
    BY <1>30, <1>a, <1>b, SwitchAssumption DEF SetInfrastructureReady
<1>31. CASE LoadBalancerDeleted
    BY <1>31, <1>a, <1>b DEF LoadBalancerDeleted
<1>32. ASSUME NEW m \in Machines, SkipReconcile(m) PROVE TypeInv'
    BY <1>32, <1>a, <1>b DEF SkipReconcile
<1>33. ASSUME NEW m \in Machines, GetFails(m) PROVE TypeInv'
    BY <1>33, <1>a, <1>b DEF GetFails
<1>34. ASSUME NEW m \in Machines, Reconcile(m) PROVE TypeInv'
  <2>1. obj[m].f \in Fields
    BY <1>34, <1>a, <1>b DEF Reconcile, Objects
  <2>2. snap' \in Snaps
    BY <1>34, <1>a DEF Reconcile, Snaps
  <2>3. QED
    BY <1>34, <1>a, <1>b, <2>1, <2>2 DEF Reconcile, Skipped
<1>35. ASSUME NEW m \in Machines, SetOwner(m) PROVE TypeInv'
    BY <1>35, <1>a, <1>b DEF SetOwner
<1>36. ASSUME NEW m \in Machines, SetBootstrapData(m) PROVE TypeInv'
    BY <1>36, <1>a, <1>b DEF SetBootstrapData
<1>37. ASSUME NEW m \in Machines, UserDelete(m) PROVE TypeInv'
  <2>1. obj' = [obj EXCEPT ![m].deleting = TRUE, ![m].exists = obj[m].f.finalizer]
    BY <1>37 DEF UserDelete
  <2>2. obj[m].f.finalizer \in BOOLEAN
    BY <1>37 DEF Objects, Fields
  <2>3. obj' \in [Machines -> Objects]
    BY <1>37, <2>1, <2>2, ObjectDeleted
  <2>4. QED
    BY <1>37, <2>3 DEF UserDelete
<1>38. ASSUME NEW m \in Machines, AssignPrivateIP(m) PROVE TypeInv'
  <2>1. server' \in [Machines -> Servers]
    BY <1>38, <1>a, <1>b DEF AssignPrivateIP, Servers, FreePrivAddrs
  <2>2. QED
    BY <1>38, <1>a, <1>b, <2>1 DEF AssignPrivateIP
<1>39. ASSUME NEW m \in Machines, ServerBooted(m) PROVE TypeInv'
  <2>1. server' \in [Machines -> Servers]
    BY <1>39, <1>a, <1>b DEF ServerBooted, Servers, ServerStates
  <2>2. QED
    BY <1>39, <1>a, <1>b, <2>1 DEF ServerBooted
<1>40. ASSUME NEW m \in Machines, ServerTerminated(m) PROVE TypeInv'
  <2>1. server[m].vols \in SUBSET Volumes
    BY <1>40, <1>a, <1>b DEF ServerTerminated, Servers
  <2>2. QED
    BY <1>40, <1>a, <1>b, <2>1 DEF ServerTerminated
<1>41. ASSUME NEW m \in Machines, AttachDataVolume(m) PROVE TypeInv'
  <2>1. server' \in [Machines -> Servers]
    BY <1>41, <1>a, <1>b DEF AttachDataVolume, Servers
  <2>2. QED
    BY <1>41, <1>a, <1>b, <2>1 DEF AttachDataVolume
<1>44. CASE CacheCatchesUp
    BY <1>44 DEF CacheCatchesUp
<1>45. ASSUME NEW m \in Machines, ClusterLookupFails(m) PROVE TypeInv'
    BY <1>45 DEF ClusterLookupFails
<1>46. ASSUME NEW m \in Machines, UserEdit(m) PROVE TypeInv'
    BY <1>46 DEF UserEdit
<1>x. CASE UNCHANGED vars
    BY <1>x DEF vars
<1>y. QED
    BY <1>x, <1>1, <1>2, <1>3, <1>4, <1>5, <1>6, <1>7, <1>8, <1>9, <1>10, <1>11, <1>12,
       <1>13, <1>14, <1>15, <1>16, <1>17, <1>18, <1>19, <1>20, <1>21, <1>22, <1>23, <1>24,
       <1>25, <1>26, <1>27, <1>28, <1>29, <1>30, <1>31, <1>32, <1>33, <1>34, <1>35, <1>36,
       <1>37, <1>38, <1>39, <1>40, <1>41, <1>44, <1>45, <1>46
    DEF Next, Step, NormalStep, DeleteStep, Take, Environment, CloudStep

-----------------------------------------------------------------------------
(* Finalizers *)

\* Initially there is no server and the worker is idle.
LEMMA FinalizerInit == Init => FinalizerInv
  BY DEF Init, FinalizerInv, FinalizerGuardsServer, DeletingKeepsFinalizer, WorkerFinalizer,
         NoServer, NormalPCs, DeletePCs, Ending, NoFields

\* Every step keeps the finalizer invariant; Close, which may remove the
\* finalizer, is the delicate one.
LEMMA FinalizerNext == TypeInv /\ FinalizerInv /\ [Next]_vars => FinalizerInv'
<1> SUFFICES ASSUME TypeInv, FinalizerInv, [Next]_vars PROVE FinalizerInv'
    OBVIOUS
<1>a. obj \in [Machines -> Objects] /\ server \in [Machines -> Servers] /\ mem \in Fields
    BY DEF TypeInv, TypeOK
<1>b. pc # "idle" => cur \in Machines
    BY DEF TypeInv, TypeOK
<1> USE <1>a, <1>b
<1> USE DEF FinalizerInv, FinalizerGuardsServer, DeletingKeepsFinalizer, WorkerFinalizer,
            k8s, cloud, local, Proceed, Return, Reply, CallFails, Fault,
            NormalPCs, DeletePCs, Ending
<1>1. CASE HasFinalizer
    BY <1>1 DEF HasFinalizer, InfrastructureGate
<1>2. CASE FinalizerTooLate
    BY <1>2 DEF FinalizerTooLate, Fields
<1>3. CASE GetOrCreateIP
    BY <1>3 DEF GetOrCreateIP
<1>4. CASE GetServer
    BY <1>4 DEF GetServer
<1>5. CASE GetMachineIPs
    BY <1>5 DEF GetMachineIPs
<1>6. CASE JoinBackend
    BY <1>6 DEF JoinBackend
<1>7. CASE EnsureACL
    BY <1>7 DEF EnsureACL
<1>8. CASE Publish
    BY <1>8 DEF Publish, Fields
<1>9. CASE FindServer
    BY <1>9 DEF FindServer
<1>10. CASE DeleteACL
    BY <1>10 DEF DeleteACL
<1>11. CASE LeaveBackend
    BY <1>11 DEF LeaveBackend
<1>12. CASE AllDetached
    BY <1>12 DEF AllDetached
<1>13. CASE DetachBootVolume
    BY <1>13 DEF DetachBootVolume
<1>14. CASE DeleteBootVolume
    BY <1>14 DEF DeleteBootVolume
<1>15. CASE RemoveFinalizer
    BY <1>15 DEF RemoveFinalizer, Fields
<1>16. CASE AnyCallRefused
    BY <1>16 DEF AnyCallRefused, CallRefused
<1>17. CASE Crash
    BY <1>17 DEF Crash, NoFields
<1>18. CASE PeriodicResync
    BY <1>18 DEF PeriodicResync
<1>19. CASE Unpause
    BY <1>19 DEF Unpause
<1>20. CASE SetInfrastructureReady
    BY <1>20 DEF SetInfrastructureReady
<1>21. CASE LoadBalancerDeleted
    BY <1>21 DEF LoadBalancerDeleted
<1>22. CASE GetOrCreatePrivateNIC
    BY <1>22 DEF GetOrCreatePrivateNIC, Servers, NoServer
<1>23. CASE EnsureCloudInit
    BY <1>23 DEF EnsureCloudInit, Servers, NoServer
<1>24. CASE DeleteIP
    BY <1>24 DEF DeleteIP, Servers, NoServer
<1>25. CASE DetachVolume
    BY <1>25 DEF DetachVolume, Servers, NoServer
<1>26. CASE EnsureServerStarted
    BY <1>26 DEF EnsureServerStarted, Servers, NoServer
<1>27. CASE TerminateServer
    BY <1>27 DEF TerminateServer, Servers, NoServer
<1>28. CASE DeleteServer
    BY <1>28 DEF DeleteServer, Servers, NoServer
<1>29. CASE CreateServer
    BY <1>29 DEF CreateServer, Servers, NoServer
<1>30. CASE AddFinalizer
    BY <1>30 DEF AddFinalizer, StoreFinalizer, InfrastructureGate, Objects, Fields
<1>31. CASE Close
  <2>1. cur \in Machines /\ pc = "close" /\ pc' = "idle" /\ server' = server
    BY <1>31 DEF Close
  <2>2. \A m \in Machines : m # cur => obj'[m] = obj[m]
    BY <1>31, <2>1, CloseObjects
  <2>3. \/ obj'[cur] = obj[cur]
        \/ \E x, y \in BOOLEAN : obj'[cur] = Patched(obj[cur], x, y)
    BY <1>31, <2>1, CloseObjects
  <2>4. \/ obj'[cur] = obj[cur]
        \/ /\ obj'[cur].deleting = obj[cur].deleting
           /\ \/ /\ obj'[cur].f.finalizer = obj[cur].f.finalizer
                 /\ obj'[cur].exists = obj[cur].exists
              \/ /\ obj'[cur].f.finalizer = mem.finalizer
                 /\ obj'[cur].exists = (obj[cur].exists /\ ~(obj[cur].deleting /\ ~mem.finalizer))
    <3>1. CASE obj'[cur] = obj[cur]
      BY <3>1
    <3>2. CASE \E x, y \in BOOLEAN : obj'[cur] = Patched(obj[cur], x, y)
      <4>1. PICK x \in BOOLEAN, y \in BOOLEAN : obj'[cur] = Patched(obj[cur], x, y)
        BY <3>2
      <4>2. obj[cur] \in Objects
        BY <2>1
      <4>3. obj[cur].exists \in BOOLEAN
        BY <4>2 DEF Objects
      <4>4. /\ obj'[cur].f.finalizer = (IF x THEN mem.finalizer ELSE obj[cur].f.finalizer)
            /\ obj'[cur].deleting = obj[cur].deleting
            /\ obj'[cur].exists = (obj[cur].exists /\ ~(obj[cur].deleting /\ x /\ ~mem.finalizer))
        BY <4>1, <4>2, PatchedFields
      <4>5. QED
        BY <4>3, <4>4
    <3>3. QED
      BY <2>3, <3>1, <3>2
  <2>5. FinalizerGuardsServer'
    BY <2>1, <2>2, <2>4
  <2>6. DeletingKeepsFinalizer'
    BY <2>1, <2>2, <2>4
  <2>7. WorkerFinalizer'
    BY <2>1
  <2>8. QED
    BY <2>5, <2>6, <2>7
<1>32. ASSUME NEW m \in Machines, SkipReconcile(m) PROVE FinalizerInv'
    BY <1>32 DEF SkipReconcile
<1>33. ASSUME NEW m \in Machines, GetFails(m) PROVE FinalizerInv'
    BY <1>33 DEF GetFails
<1>34. ASSUME NEW m \in Machines, Reconcile(m) PROVE FinalizerInv'
    BY <1>34 DEF Reconcile, Skipped
<1>35. ASSUME NEW m \in Machines, SetOwner(m) PROVE FinalizerInv'
    BY <1>35 DEF SetOwner
<1>36. ASSUME NEW m \in Machines, SetBootstrapData(m) PROVE FinalizerInv'
    BY <1>36 DEF SetBootstrapData
<1>37. ASSUME NEW m \in Machines, UserDelete(m) PROVE FinalizerInv'
    BY <1>37 DEF UserDelete, Objects, Fields
<1>38. ASSUME NEW m \in Machines, AssignPrivateIP(m) PROVE FinalizerInv'
    BY <1>38 DEF AssignPrivateIP, Servers
<1>39. ASSUME NEW m \in Machines, ServerBooted(m) PROVE FinalizerInv'
    BY <1>39 DEF ServerBooted, Servers
<1>40. ASSUME NEW m \in Machines, ServerTerminated(m) PROVE FinalizerInv'
    BY <1>40 DEF ServerTerminated, NoServer
<1>41. ASSUME NEW m \in Machines, AttachDataVolume(m) PROVE FinalizerInv'
    BY <1>41 DEF AttachDataVolume, Servers
<1>44. CASE CacheCatchesUp
    BY <1>44 DEF CacheCatchesUp
<1>45. ASSUME NEW m \in Machines, ClusterLookupFails(m) PROVE FinalizerInv'
    BY <1>45 DEF ClusterLookupFails
<1>46. ASSUME NEW m \in Machines, UserEdit(m) PROVE FinalizerInv'
    BY <1>46 DEF UserEdit
<1>42. CASE UNCHANGED vars
    BY <1>42 DEF vars
<1>43. QED
    BY <1>1, <1>2, <1>3, <1>4, <1>5, <1>6, <1>7, <1>8, <1>9, <1>10, <1>11, <1>12, <1>13,
       <1>14, <1>15, <1>16, <1>17, <1>18, <1>19, <1>20, <1>21, <1>22, <1>23, <1>24, <1>25,
       <1>26, <1>27, <1>28, <1>29, <1>30, <1>31, <1>32, <1>33, <1>34, <1>35, <1>36, <1>37,
       <1>38, <1>39, <1>40, <1>41, <1>42, <1>44, <1>45, <1>46
    DEF Next, Step, NormalStep, DeleteStep, Take, Environment, CloudStep

\* Every variable has its type in every behaviour of the machine controller; in
\* particular the backend of the load balancer only ever gets real addresses.
THEOREM TypeCorrect == Spec => []TypeOK
<1>1. Init => TypeInv
    BY TypeInit
<1>2. TypeInv /\ [Next]_vars => TypeInv'
    BY TypeNext
<1>3. TypeInv => TypeOK
    BY DEF TypeInv
<1>4. QED
    BY <1>1, <1>2, <1>3, PTL DEF Spec

\* No crash, lost reply, half-lost patch or early delete makes the controller
\* forget a server: one that is in use has an object that carries the finalizer.
THEOREM ServersAreGuarded == Spec => []FinalizerGuardsServer
<1>1. Init => TypeInv /\ FinalizerInv
    BY TypeInit, FinalizerInit
<1>2. TypeInv /\ FinalizerInv /\ [Next]_vars => TypeInv' /\ FinalizerInv'
    BY TypeNext, FinalizerNext
<1>3. FinalizerInv => FinalizerGuardsServer
    BY DEF FinalizerInv
<1>4. QED
    BY <1>1, <1>2, <1>3, PTL DEF Spec

-----------------------------------------------------------------------------
(* Volumes *)

\* Initially no volume is attached or lost.
LEMMA VolumeInit == Init => VolumeInv
  BY DEF Init, VolumeInv, NoDataVolumeLost, NoServer, DeletePCs

\* Every step keeps the volume invariant.
LEMMA VolumeNext == TypeInv /\ VolumeInv /\ [Next]_vars => VolumeInv'
<1> SUFFICES ASSUME TypeInv, VolumeInv, [Next]_vars PROVE VolumeInv'
    OBVIOUS
<1>a. /\ obj \in [Machines -> Objects] /\ server \in [Machines -> Servers] /\ mem \in Fields
      /\ snap \in Snaps
    BY DEF TypeInv, TypeOK
<1>b. pc # "idle" => cur \in Machines
    BY DEF TypeInv, TypeOK
<1> USE <1>a, <1>b
<1> USE DEF VolumeInv, NoDataVolumeLost, k8s, cloud, local, Proceed, Return, Reply, CallFails,
            Fault, DeletePCs
<1>1. CASE HasFinalizer
    BY <1>1 DEF HasFinalizer, InfrastructureGate
<1>2. CASE FinalizerTooLate
    BY <1>2 DEF FinalizerTooLate
<1>3. CASE GetOrCreateIP
    BY <1>3 DEF GetOrCreateIP
<1>4. CASE GetServer
    BY <1>4 DEF GetServer
<1>5. CASE GetMachineIPs
    BY <1>5 DEF GetMachineIPs
<1>6. CASE JoinBackend
    BY <1>6 DEF JoinBackend
<1>7. CASE EnsureACL
    BY <1>7 DEF EnsureACL
<1>8. CASE Publish
    BY <1>8 DEF Publish
<1>9. CASE DeleteACL
    BY <1>9 DEF DeleteACL
<1>10. CASE LeaveBackend
    BY <1>10 DEF LeaveBackend
<1>11. CASE AllDetached
    BY <1>11 DEF AllDetached, ToDetach
<1>12. CASE DetachBootVolume
    BY <1>12 DEF DetachBootVolume
<1>13. CASE DeleteBootVolume
    BY <1>13 DEF DeleteBootVolume
<1>14. CASE RemoveFinalizer
    BY <1>14 DEF RemoveFinalizer
<1>15. CASE AnyCallRefused
    BY <1>15 DEF AnyCallRefused, CallRefused
<1>16. CASE Crash
    BY <1>16 DEF Crash
<1>17. CASE PeriodicResync
    BY <1>17 DEF PeriodicResync
<1>18. CASE Unpause
    BY <1>18 DEF Unpause
<1>19. CASE SetInfrastructureReady
    BY <1>19 DEF SetInfrastructureReady
<1>20. CASE LoadBalancerDeleted
    BY <1>20 DEF LoadBalancerDeleted
<1>21. CASE FindServer
    BY <1>21 DEF FindServer, Snapshot, Snaps
<1>22. CASE GetOrCreatePrivateNIC
    BY <1>22 DEF GetOrCreatePrivateNIC, Servers
<1>23. CASE EnsureCloudInit
    BY <1>23 DEF EnsureCloudInit, Servers
<1>24. CASE DeleteIP
  <2>1. \A m \in Machines : /\ server'[m].state = server[m].state
                            /\ server'[m].vols = server[m].vols
    BY <1>24 DEF DeleteIP, Servers
  <2>2. QED
    BY <1>24, <2>1 DEF DeleteIP
<1>25. CASE DetachVolume
    BY <1>25 DEF DetachVolume, Servers, Snaps, ToDetach
<1>26. CASE EnsureServerStarted
    BY <1>26 DEF EnsureServerStarted, Servers
<1>27. CASE TerminateServer
    BY <1>27 DEF TerminateServer, Servers
<1>28. CASE DeleteServer
    BY <1>28 DEF DeleteServer, NoServer
<1>29. CASE CreateServer
    BY <1>29 DEF CreateServer, NoServer
<1>30. CASE AddFinalizer
    BY <1>30 DEF AddFinalizer, StoreFinalizer, InfrastructureGate, Objects
<1>31. CASE Close
    BY <1>31 DEF Close
<1>32. ASSUME NEW m \in Machines, SkipReconcile(m) PROVE VolumeInv'
    BY <1>32 DEF SkipReconcile
<1>33. ASSUME NEW m \in Machines, GetFails(m) PROVE VolumeInv'
    BY <1>33 DEF GetFails
<1>34. ASSUME NEW m \in Machines, Reconcile(m) PROVE VolumeInv'
    BY <1>34 DEF Reconcile, Skipped
<1>35. ASSUME NEW m \in Machines, SetOwner(m) PROVE VolumeInv'
    BY <1>35 DEF SetOwner
<1>36. ASSUME NEW m \in Machines, SetBootstrapData(m) PROVE VolumeInv'
    BY <1>36 DEF SetBootstrapData
<1>37. ASSUME NEW m \in Machines, UserDelete(m) PROVE VolumeInv'
    BY <1>37 DEF UserDelete, Objects
<1>38. ASSUME NEW m \in Machines, AssignPrivateIP(m) PROVE VolumeInv'
    BY <1>38 DEF AssignPrivateIP, Servers
<1>39. ASSUME NEW m \in Machines, ServerBooted(m) PROVE VolumeInv'
    BY <1>39 DEF ServerBooted, Servers
<1>40. ASSUME NEW m \in Machines, ServerTerminated(m) PROVE VolumeInv'
    BY <1>40 DEF ServerTerminated, NoServer
<1>41. ASSUME NEW m \in Machines, AttachDataVolume(m) PROVE VolumeInv'
    BY <1>41 DEF AttachDataVolume, Servers
<1>44. CASE CacheCatchesUp
    BY <1>44 DEF CacheCatchesUp
<1>45. ASSUME NEW m \in Machines, ClusterLookupFails(m) PROVE VolumeInv'
    BY <1>45 DEF ClusterLookupFails
<1>46. ASSUME NEW m \in Machines, UserEdit(m) PROVE VolumeInv'
    BY <1>46 DEF UserEdit
<1>42. CASE UNCHANGED vars
    BY <1>42 DEF vars
<1>43. QED
    BY <1>1, <1>2, <1>3, <1>4, <1>5, <1>6, <1>7, <1>8, <1>9, <1>10, <1>11, <1>12, <1>13,
       <1>14, <1>15, <1>16, <1>17, <1>18, <1>19, <1>20, <1>21, <1>22, <1>23, <1>24, <1>25,
       <1>26, <1>27, <1>28, <1>29, <1>30, <1>31, <1>32, <1>33, <1>34, <1>35, <1>36, <1>37,
       <1>38, <1>39, <1>40, <1>41, <1>42, <1>44, <1>45, <1>46
    DEF Next, Step, NormalStep, DeleteStep, Take, Environment, CloudStep

\* Delete never destroys a data volume: all of them are detached, by possibly many
\* interrupted reconciles, before the server is terminated.
THEOREM DataVolumesSurvive == Spec => []NoDataVolumeLost
<1>1. Init => TypeInv /\ VolumeInv
    BY TypeInit, VolumeInit
<1>2. TypeInv /\ VolumeInv /\ [Next]_vars => TypeInv' /\ VolumeInv'
    BY TypeNext, VolumeNext
<1>3. VolumeInv => NoDataVolumeLost
    BY DEF VolumeInv
<1>4. QED
    BY <1>1, <1>2, <1>3, PTL DEF Spec

=============================================================================
