---------------------- MODULE ScalewayMachineAddresses -----------------------
(***************************************************************************)
(* Proofs about the addresses of the machines and their traces in the load *)
(* balancer, for any number of machines and addresses:                     *)
(*                                                                         *)
(*   AtMostOneIP         no second flexible IP is created for a machine;   *)
(*   EveryIPIsAttached   the flexible IP of a machine is that of its       *)
(*                       server, so that Delete finds it;                  *)
(*   OnlyHeldIPsAllowed  an ACL allows only an address the machine holds;  *)
(*   OnlyLiveBackends    a backend is the address of a server in use;      *)
(*   GoneLeavesNoTrace   a machine that is gone is not in the load         *)
(*                       balancer.                                         *)
(*                                                                         *)
(* They rest on one invariant: which machine an address belongs to, in     *)
(* each state of its server and at each step of the worker.                *)
(***************************************************************************)
EXTENDS ScalewayMachineRefinement, FiniteSetTheorems

-----------------------------------------------------------------------------
(* What the worker is doing *)

\* Is the worker building the machine, or will the next one?
Building(m) == ~obj[m].deleting \/ (cur = m /\ pc \in NormalPCs)

\* The steps at which the worker has found or made the server, those at which it also
\* knows the address of the node, and those of Delete, up to the release of the IP and
\* after it.
WithServer == {"nic", "addrs", "backend", "acl", "cloudinit", "start", "publish"}
WithAddress == {"backend", "acl", "cloudinit", "start", "publish"}
BeforeRelease == {"delACL", "delBackend", "delIP"}
AfterRelease == {"detach", "delBoot", "delVolume", "delServer", "terminate"}

-----------------------------------------------------------------------------
(* Addresses *)

\* A machine has no flexible IP or one.
IPInv == \A m \in Machines : ips[m] = {} \/ \E a \in PubAddrs : ips[m] = {a}

\* Nothing is torn down as long as a worker builds the machine.
NothingDying == \A m \in Machines : Building(m) => server[m].state # "stopping"

\* Whom an address belongs to.
Ownership ==
    /\ \A m \in Machines : ips[m] # {} => publicIP[m] = TRUE
    /\ \A m, n \in Machines : m # n => ips[m] \cap ips[n] = {}
    /\ \A m, n \in Machines : m # n => server[m].nicIP = None \/ server[m].nicIP # server[n].nicIP

\* The addresses of a server in its states.
ServerAddrs ==
    \A m \in Machines :
        /\ server[m].ip # None => server[m].ip \in ips[m]
        /\ server[m].state = "stopping" => server[m].ip = None
        /\ server[m].state = "none" => /\ server[m].ip = None /\ server[m].nicIP = None
                                       /\ ~server[m].nic /\ server[m].cloudInit = None
        /\ ~HasPrivateNetwork => ~server[m].nic /\ server[m].nicIP = None
        /\ Building(m) /\ publicIP[m] = TRUE /\ InUse(m) => server[m].ip # None

\* What the worker knows of the server it works on.
WorkerServer ==
    /\ pc \in WithServer => InUse(cur)
    /\ pc \in WithServer \cup BeforeRelease => snap.ip = server[cur].ip
    /\ pc \in AfterRelease => server[cur].ip = None
    /\ pc \in WithAddress => NodeIP(snap.int, snap.ip) = NodeAddr(cur)

AddrInv == IPInv /\ NothingDying /\ Ownership /\ ServerAddrs /\ IPsAreAttached /\ WorkerServer

-----------------------------------------------------------------------------
(* The load balancer *)

\* A load balancer that is gone has no backend and no ACL.
GoneLB == ~lb => pool = {} /\ \A m \in Machines : acl[m] = None

\* A server that is going or gone has no trace in the load balancer.
EndingLeavesNoTrace ==
    \A m \in Machines : server[m].state \in Ending =>
        acl[m] = None /\ (m \in ControlPlane => NodeAddr(m) \notin pool)

\* What Delete has removed at each of its steps.
DeleteLeavesLB ==
    /\ pc \in AfterRelease \cup {"delBackend", "delIP"} => acl[cur] = None
    /\ pc \in AfterRelease \cup {"delIP"} /\ cur \in ControlPlane => NodeAddr(cur) \notin pool

TraceInv ==
    GoneLB /\ ACLsAreAlive /\ BackendsAreAlive /\ EndingLeavesNoTrace /\ DeleteLeavesLB

-----------------------------------------------------------------------------
(* Who changes what *)

\* The steps that change a server.
ChangesServer ==
    \/ CreateServer \/ GetOrCreatePrivateNIC \/ EnsureCloudInit \/ EnsureServerStarted
    \/ DeleteIP \/ DetachVolume \/ DeleteServer \/ TerminateServer
    \/ \E m \in Machines : \/ AssignPrivateIP(m) \/ ServerBooted(m) \/ ServerTerminated(m)
                           \/ AttachDataVolume(m)

\* Which actions write the objects, the addresses, the servers and the load balancer.
Writers ==
    /\ obj' = obj \/ AddFinalizer \/ Close \/ \E m \in Machines : UserDelete(m)
    /\ publicIP' = publicIP \/ \E m \in Machines : UserEdit(m)
    /\ infraReady' = infraReady \/ SetInfrastructureReady
    /\ ips' = ips \/ GetOrCreateIP \/ DeleteIP
    /\ server' = server \/ ChangesServer
    /\ lb' = lb \/ SetInfrastructureReady \/ LoadBalancerDeleted
    /\ pool' = pool \/ JoinBackend \/ LeaveBackend \/ LoadBalancerDeleted
    /\ acl' = acl \/ EnsureACL \/ DeleteACL \/ LoadBalancerDeleted

\* Every other step leaves them alone.
LEMMA WhoWrites == [Next]_vars => Writers
<1> SUFFICES ASSUME [Next]_vars PROVE Writers
    OBVIOUS
<1> USE DEF Writers, ChangesServer, k8s, cloud, local
<1>1. CASE HasFinalizer
    BY <1>1 DEF HasFinalizer
<1>2. CASE FinalizerTooLate
    BY <1>2 DEF FinalizerTooLate
<1>3. CASE AddFinalizer
    BY <1>3 DEF AddFinalizer
<1>4. CASE GetOrCreateIP
    BY <1>4 DEF GetOrCreateIP
<1>5. CASE GetServer
    BY <1>5 DEF GetServer
<1>6. CASE CreateServer
    BY <1>6 DEF CreateServer
<1>7. CASE GetOrCreatePrivateNIC
    BY <1>7 DEF GetOrCreatePrivateNIC
<1>8. CASE GetMachineIPs
    BY <1>8 DEF GetMachineIPs
<1>9. CASE JoinBackend
    BY <1>9 DEF JoinBackend
<1>10. CASE EnsureACL
    BY <1>10 DEF EnsureACL
<1>11. CASE EnsureCloudInit
    BY <1>11 DEF EnsureCloudInit
<1>12. CASE EnsureServerStarted
    BY <1>12 DEF EnsureServerStarted
<1>13. CASE Publish
    BY <1>13 DEF Publish
<1>14. CASE FindServer
    BY <1>14 DEF FindServer
<1>15. CASE DeleteACL
    BY <1>15 DEF DeleteACL
<1>16. CASE LeaveBackend
    BY <1>16 DEF LeaveBackend
<1>17. CASE DeleteIP
    BY <1>17 DEF DeleteIP
<1>18. CASE DetachVolume
    BY <1>18 DEF DetachVolume
<1>19. CASE AllDetached
    BY <1>19 DEF AllDetached
<1>20. CASE DetachBootVolume
    BY <1>20 DEF DetachBootVolume
<1>21. CASE DeleteBootVolume
    BY <1>21 DEF DeleteBootVolume
<1>22. CASE DeleteServer
    BY <1>22 DEF DeleteServer
<1>23. CASE TerminateServer
    BY <1>23 DEF TerminateServer
<1>24. CASE RemoveFinalizer
    BY <1>24 DEF RemoveFinalizer
<1>25. CASE AnyCallRefused
    BY <1>25 DEF AnyCallRefused, CallRefused
<1>26. CASE Close
    BY <1>26 DEF Close
<1>27. CASE Crash
    BY <1>27 DEF Crash
<1>28. CASE PeriodicResync
    BY <1>28 DEF PeriodicResync
<1>29. CASE Unpause
    BY <1>29 DEF Unpause
<1>30. CASE SetInfrastructureReady
    BY <1>30 DEF SetInfrastructureReady
<1>31. CASE CacheCatchesUp
    BY <1>31 DEF CacheCatchesUp
<1>32. CASE LoadBalancerDeleted
    BY <1>32 DEF LoadBalancerDeleted
<1>33. ASSUME NEW m \in Machines, SkipReconcile(m) PROVE Writers
    BY <1>33 DEF SkipReconcile
<1>34. ASSUME NEW m \in Machines, GetFails(m) PROVE Writers
    BY <1>34 DEF GetFails
<1>35. ASSUME NEW m \in Machines, ClusterLookupFails(m) PROVE Writers
    BY <1>35 DEF ClusterLookupFails
<1>36. ASSUME NEW m \in Machines, Reconcile(m) PROVE Writers
    BY <1>36 DEF Reconcile
<1>37. ASSUME NEW m \in Machines, SetOwner(m) PROVE Writers
    BY <1>37 DEF SetOwner
<1>38. ASSUME NEW m \in Machines, SetBootstrapData(m) PROVE Writers
    BY <1>38 DEF SetBootstrapData
<1>39. ASSUME NEW m \in Machines, UserEdit(m) PROVE Writers
    BY <1>39 DEF UserEdit
<1>40. ASSUME NEW m \in Machines, UserDelete(m) PROVE Writers
    BY <1>40 DEF UserDelete
<1>41. ASSUME NEW m \in Machines, AssignPrivateIP(m) PROVE Writers
    BY <1>41 DEF AssignPrivateIP
<1>42. ASSUME NEW m \in Machines, ServerBooted(m) PROVE Writers
    BY <1>42 DEF ServerBooted
<1>43. ASSUME NEW m \in Machines, ServerTerminated(m) PROVE Writers
    BY <1>43 DEF ServerTerminated
<1>44. ASSUME NEW m \in Machines, AttachDataVolume(m) PROVE Writers
    BY <1>44 DEF AttachDataVolume
<1>45. CASE UNCHANGED vars
    BY <1>45 DEF vars
<1>46. QED
    BY <1>1, <1>2, <1>3, <1>4, <1>5, <1>6, <1>7, <1>8, <1>9, <1>10, <1>11, <1>12, <1>13, <1>14,
       <1>15, <1>16, <1>17, <1>18, <1>19, <1>20, <1>21, <1>22, <1>23, <1>24, <1>25, <1>26, <1>27,
       <1>28, <1>29, <1>30, <1>31, <1>32, <1>33, <1>34, <1>35, <1>36, <1>37, <1>38, <1>39, <1>40,
       <1>41, <1>42, <1>43, <1>44, <1>45
    DEF Next, Step, NormalStep, DeleteStep, Take, Environment, CloudStep

\* Where the worker goes, with what it has read: from step to step of Reconcile or
\* Delete, from anywhere to Close, and back to the queue.
Goes(p, q) == pc = p /\ pc' = q /\ cur' = cur /\ mem' = mem /\ snap' = snap

Move ==
    \/ pc' = pc /\ cur' = cur /\ mem' = mem /\ snap' = snap
    \/ pc' = "idle" /\ cur' = None /\ mem' = NoFields /\ snap' = NoSnap
    \/ \E m \in Machines : Reconcile(m)
    \/ pc' = "close" /\ pc \in NormalPCs \cup DeletePCs /\ cur' = cur
    \/ pc = "finalizer" /\ pc' = "ip" /\ cur' = cur /\ snap' = snap /\ snap.infraReady
    \/ GetOrCreateIP /\ Goes("ip", "server")
    \/ GetServer /\ pc' = "nic" /\ cur' = cur
    \/ CreateServer /\ pc' = "nic" /\ cur' = cur
    \/ GetOrCreatePrivateNIC /\ Goes("nic", "addrs")
    \/ GetMachineIPs /\ pc' = "backend" /\ cur' = cur
    \/ JoinBackend /\ Goes("backend", "acl")
    \/ EnsureACL /\ Goes("acl", "cloudinit")
    \/ EnsureCloudInit /\ Goes("cloudinit", "start")
    \/ EnsureServerStarted /\ Goes("start", "publish")
    \/ FindServer /\ pc' \in {"unfinalize", "delACL"} /\ cur' = cur
    \/ DeleteACL /\ Goes("delACL", "delBackend")
    \/ LeaveBackend /\ Goes("delBackend", "delIP")
    \/ DeleteIP /\ Goes("delIP", "detach")
    \/ DetachVolume /\ pc' = "detach" /\ cur' = cur
    \/ AllDetached /\ (Goes("detach", "delBoot") \/ Goes("detach", "terminate"))
    \/ DetachBootVolume /\ (Goes("delBoot", "delServer") \/ Goes("delBoot", "delVolume"))
    \/ DeleteBootVolume /\ Goes("delVolume", "delServer")
    \/ DeleteServer /\ Goes("delServer", "unfinalize")
    \/ TerminateServer /\ Goes("terminate", "unfinalize")

\* Every step is one of these moves.
LEMMA Moves == [Next]_vars => Move
<1> SUFFICES ASSUME [Next]_vars PROVE Move
    OBVIOUS
<1> USE DEF Move, Goes, NormalPCs, DeletePCs, Proceed, Return, CallFails, Reply, k8s, local
<1>1. CASE HasFinalizer
    BY <1>1 DEF HasFinalizer, InfrastructureGate
<1>2. CASE FinalizerTooLate
    BY <1>2 DEF FinalizerTooLate
<1>3. CASE AddFinalizer
    BY <1>3 DEF AddFinalizer, InfrastructureGate
<1>4. CASE GetOrCreateIP
    BY <1>4 DEF GetOrCreateIP
<1>5. CASE GetServer
    BY <1>5 DEF GetServer
<1>6. CASE CreateServer
    BY <1>6 DEF CreateServer
<1>7. CASE GetOrCreatePrivateNIC
    BY <1>7 DEF GetOrCreatePrivateNIC
<1>8. CASE GetMachineIPs
    BY <1>8 DEF GetMachineIPs
<1>9. CASE JoinBackend
    BY <1>9 DEF JoinBackend
<1>10. CASE EnsureACL
    BY <1>10 DEF EnsureACL
<1>11. CASE EnsureCloudInit
    BY <1>11 DEF EnsureCloudInit
<1>12. CASE EnsureServerStarted
    BY <1>12 DEF EnsureServerStarted
<1>13. CASE Publish
    BY <1>13 DEF Publish
<1>14. CASE FindServer
    BY <1>14 DEF FindServer
<1>15. CASE DeleteACL
    BY <1>15 DEF DeleteACL
<1>16. CASE LeaveBackend
    BY <1>16 DEF LeaveBackend
<1>17. CASE DeleteIP
    BY <1>17 DEF DeleteIP
<1>18. CASE DetachVolume
    BY <1>18 DEF DetachVolume
<1>19. CASE AllDetached
    BY <1>19 DEF AllDetached
<1>20. CASE DetachBootVolume
    BY <1>20 DEF DetachBootVolume
<1>21. CASE DeleteBootVolume
    BY <1>21 DEF DeleteBootVolume
<1>22. CASE DeleteServer
    BY <1>22 DEF DeleteServer
<1>23. CASE TerminateServer
    BY <1>23 DEF TerminateServer
<1>24. CASE RemoveFinalizer
    BY <1>24 DEF RemoveFinalizer
<1>25. CASE AnyCallRefused
    BY <1>25 DEF AnyCallRefused, CallRefused
<1>26. CASE Close
    BY <1>26 DEF Close
<1>27. CASE Crash
    BY <1>27 DEF Crash
<1>28. CASE PeriodicResync
    BY <1>28 DEF PeriodicResync
<1>29. CASE Unpause
    BY <1>29 DEF Unpause
<1>30. CASE SetInfrastructureReady
    BY <1>30 DEF SetInfrastructureReady
<1>31. CASE CacheCatchesUp
    BY <1>31 DEF CacheCatchesUp
<1>32. CASE LoadBalancerDeleted
    BY <1>32 DEF LoadBalancerDeleted
<1>33. ASSUME NEW m \in Machines, SkipReconcile(m) PROVE Move
    BY <1>33 DEF SkipReconcile
<1>34. ASSUME NEW m \in Machines, GetFails(m) PROVE Move
    BY <1>34 DEF GetFails
<1>35. ASSUME NEW m \in Machines, ClusterLookupFails(m) PROVE Move
    BY <1>35 DEF ClusterLookupFails
<1>36. ASSUME NEW m \in Machines, Reconcile(m) PROVE Move
    BY <1>36 DEF Reconcile
<1>37. ASSUME NEW m \in Machines, SetOwner(m) PROVE Move
    BY <1>37 DEF SetOwner
<1>38. ASSUME NEW m \in Machines, SetBootstrapData(m) PROVE Move
    BY <1>38 DEF SetBootstrapData
<1>39. ASSUME NEW m \in Machines, UserEdit(m) PROVE Move
    BY <1>39 DEF UserEdit
<1>40. ASSUME NEW m \in Machines, UserDelete(m) PROVE Move
    BY <1>40 DEF UserDelete
<1>41. ASSUME NEW m \in Machines, AssignPrivateIP(m) PROVE Move
    BY <1>41 DEF AssignPrivateIP
<1>42. ASSUME NEW m \in Machines, ServerBooted(m) PROVE Move
    BY <1>42 DEF ServerBooted
<1>43. ASSUME NEW m \in Machines, ServerTerminated(m) PROVE Move
    BY <1>43 DEF ServerTerminated
<1>44. ASSUME NEW m \in Machines, AttachDataVolume(m) PROVE Move
    BY <1>44 DEF AttachDataVolume
<1>45. CASE UNCHANGED vars
    BY <1>45 DEF vars
<1>46. QED
    BY <1>1, <1>2, <1>3, <1>4, <1>5, <1>6, <1>7, <1>8, <1>9, <1>10, <1>11, <1>12, <1>13, <1>14,
       <1>15, <1>16, <1>17, <1>18, <1>19, <1>20, <1>21, <1>22, <1>23, <1>24, <1>25, <1>26, <1>27,
       <1>28, <1>29, <1>30, <1>31, <1>32, <1>33, <1>34, <1>35, <1>36, <1>37, <1>38, <1>39, <1>40,
       <1>41, <1>42, <1>43, <1>44, <1>45
    DEF Next, Step, NormalStep, DeleteStep, Take, Environment, CloudStep

-----------------------------------------------------------------------------
(* The life of a server *)

\* What a step leaves as it is.
SameState(n) == server'[n].state = server[n].state
SameIP(n) == server'[n].ip = server[n].ip
SameNIC(n) == server'[n].nic = server[n].nic /\ server'[n].nicIP = server[n].nicIP
SameCloudInit(n) == server'[n].cloudInit = server[n].cloudInit

\* How the server of machine n changes, but for its volumes.
ServerLife(n) ==
    \/ SameState(n) /\ SameIP(n) /\ SameNIC(n) /\ SameCloudInit(n)
    \/ /\ CreateServer /\ n = cur /\ server[n].state = "none"
       /\ server'[n].state = "stopped" /\ ~server'[n].nic /\ server'[n].nicIP = None
       /\ server'[n].ip \in (IF NeedsPublicIP THEN ips[n] ELSE {None})
       /\ server'[n].cloudInit = None
    \/ /\ GetOrCreatePrivateNIC /\ n = cur /\ HasPrivateNetwork
       /\ SameState(n) /\ SameIP(n) /\ SameCloudInit(n) /\ server'[n].nicIP = server[n].nicIP
    \/ /\ AssignPrivateIP(n) /\ server[n].nic /\ server[n].nicIP = None
       /\ server'[n].nicIP \in FreePrivAddrs /\ server'[n].nic = server[n].nic
       /\ SameState(n) /\ SameIP(n) /\ SameCloudInit(n)
    \/ /\ EnsureCloudInit /\ n = cur /\ SnapStopped
       /\ server'[n].cloudInit = NodeIP(snap.int, snap.ip)
       /\ SameState(n) /\ SameIP(n) /\ SameNIC(n)
    \/ /\ EnsureServerStarted /\ n = cur /\ SnapStopped /\ server'[n].state = "starting"
       /\ SameIP(n) /\ SameNIC(n) /\ SameCloudInit(n)
    \/ /\ ServerBooted(n) /\ server[n].state = "starting" /\ server'[n].state = "running"
       /\ SameIP(n) /\ SameNIC(n) /\ SameCloudInit(n)
    \/ /\ DeleteIP /\ n = cur /\ server'[n].ip = None
       /\ SameState(n) /\ SameNIC(n) /\ SameCloudInit(n)
    \/ /\ TerminateServer /\ n = cur /\ InUse(n) /\ server'[n].state = "stopping"
       /\ SameIP(n) /\ SameNIC(n) /\ SameCloudInit(n)
    \/ /\ (DeleteServer /\ n = cur) \/ (ServerTerminated(n) /\ server[n].state = "stopping")
       /\ server'[n] = NoServer

\* What createServer makes, and what the worker knows of it.
LEMMA CreatedServer ==
    ASSUME TypeOK, CreateServer
    PROVE  /\ cur \in Machines /\ server[cur].state = "none"
           /\ server'[cur].state = "stopped" /\ ~server'[cur].nic /\ server'[cur].nicIP = None
           /\ server'[cur].ip \in (IF NeedsPublicIP THEN ips[cur] ELSE {None})
           /\ server'[cur].cloudInit = None
           /\ snap'.ip = server'[cur].ip /\ snap'.state = "stopped"
           /\ \A n \in Machines : n # cur => server'[n] = server[n]
<1>t. server \in [Machines -> Servers] /\ snap \in Snaps /\ cur \in Machines
    BY DEF TypeOK, CreateServer
<1>1. PICK a \in IF NeedsPublicIP THEN ips[cur] ELSE {None} :
         /\ server' = [server EXCEPT ![cur] = [NoServer EXCEPT !.state = "stopped", !.ip = a]]
         /\ snap' = [snap EXCEPT !.state = "stopped", !.ip = a, !.boot = TRUE]
    BY DEF CreateServer
<1>2. server'[cur] = [NoServer EXCEPT !.state = "stopped", !.ip = a]
    BY <1>t, <1>1
<1>3. /\ server'[cur].state = "stopped" /\ server'[cur].ip = a /\ ~server'[cur].nic
      /\ server'[cur].nicIP = None /\ server'[cur].cloudInit = None
    BY <1>2 DEF NoServer
<1>4. snap'.ip = a /\ snap'.state = "stopped"
    BY <1>t, <1>1 DEF Snaps
<1>5. server[cur].state = "none" /\ \A n \in Machines : n # cur => server'[n] = server[n]
    BY <1>t, <1>1 DEF CreateServer
<1>6. QED
    BY <1>t, <1>1, <1>3, <1>4, <1>5

\* No step does anything else to it.
LEMMA ServerLives ==
    ASSUME TypeOK, [Next]_vars, NEW n \in Machines
    PROVE  ServerLife(n)
<1>a. server \in [Machines -> Servers]
    BY DEF TypeOK
<1> USE DEF ServerLife, SameState, SameIP, SameNIC, SameCloudInit
<1>1. CASE CreateServer
    BY <1>1, CreatedServer
<1>2. CASE GetOrCreatePrivateNIC
  <2>1. server' = server \/ (HasPrivateNetwork /\ server' = [server EXCEPT ![cur].nic = TRUE])
    BY <1>2 DEF GetOrCreatePrivateNIC
  <2>2. QED
    BY <1>2, <1>a, <2>1 DEF Servers
<1>3. CASE EnsureCloudInit
  <2>1. \/ server' = server
        \/ SnapStopped /\ server' = [server EXCEPT ![cur].cloudInit = NodeIP(snap.int, snap.ip)]
    BY <1>3 DEF EnsureCloudInit
  <2>2. QED
    BY <1>3, <1>a, <2>1 DEF Servers
<1>4. CASE EnsureServerStarted
  <2>1. server' = server \/ (SnapStopped /\ server' = [server EXCEPT ![cur].state = "starting"])
    BY <1>4 DEF EnsureServerStarted
  <2>2. QED
    BY <1>4, <1>a, <2>1 DEF Servers
<1>5. CASE DeleteIP
  <2>1. server' = server \/ server' = [server EXCEPT ![cur].ip = None]
    BY <1>5 DEF DeleteIP
  <2>2. QED
    BY <1>5, <1>a, <2>1 DEF Servers
<1>6. CASE DetachVolume
  <2>1. \E v : server' = [server EXCEPT ![cur].vols = v]
    BY <1>6 DEF DetachVolume
  <2>2. QED
    BY <1>6, <1>a, <2>1 DEF Servers
<1>7. CASE DeleteServer
  <2>1. server' = [server EXCEPT ![cur] = NoServer]
    BY <1>7 DEF DeleteServer
  <2>2. QED
    BY <1>7, <1>a, <2>1
<1>8. CASE TerminateServer
  <2>1. \/ server' = server
        \/ /\ server[cur].state \notin {"none", "stopping"}
           /\ server' = [server EXCEPT ![cur].state = "stopping"]
    BY <1>8 DEF TerminateServer
  <2>2. QED
    BY <1>8, <1>a, <2>1 DEF Servers, InUse
<1>9. ASSUME NEW m \in Machines, AssignPrivateIP(m) PROVE ServerLife(n)
  <2>1. PICK a \in FreePrivAddrs : server' = [server EXCEPT ![m].nicIP = a]
    BY <1>9 DEF AssignPrivateIP
  <2>2. server[m].nic /\ server[m].nicIP = None
    BY <1>9 DEF AssignPrivateIP
  <2>3. QED
    BY <1>9, <1>a, <2>1, <2>2 DEF Servers
<1>10. ASSUME NEW m \in Machines, ServerBooted(m) PROVE ServerLife(n)
  <2>1. server[m].state = "starting" /\ server' = [server EXCEPT ![m].state = "running"]
    BY <1>10 DEF ServerBooted
  <2>2. QED
    BY <1>10, <1>a, <2>1 DEF Servers
<1>11. ASSUME NEW m \in Machines, ServerTerminated(m) PROVE ServerLife(n)
  <2>1. server[m].state = "stopping" /\ server' = [server EXCEPT ![m] = NoServer]
    BY <1>11 DEF ServerTerminated
  <2>2. QED
    BY <1>11, <1>a, <2>1
<1>12. ASSUME NEW m \in Machines, AttachDataVolume(m) PROVE ServerLife(n)
  <2>1. \E v : server' = [server EXCEPT ![m].vols = v]
    BY <1>12 DEF AttachDataVolume
  <2>2. QED
    BY <1>12, <1>a, <2>1 DEF Servers
<1>13. CASE server' = server
    BY <1>13
<1>14. QED
    BY <1>1, <1>2, <1>3, <1>4, <1>5, <1>6, <1>7, <1>8, <1>9, <1>10, <1>11, <1>12, <1>13, WhoWrites
    DEF Writers, ChangesServer

-----------------------------------------------------------------------------
(* Building and tearing down *)

\* What ScalewayMachineRefinement rests on is an invariant.
LEMMA BaseInvariant == Spec => []RefinementInv
<1>1. Init => RefinementInv
    BY TypeInit, FinalizerInit, VolumeInit, GuardInit DEF RefinementInv
<1>2. RefinementInv /\ [Next]_vars => RefinementInv'
    BY TypeNext, FinalizerNext, VolumeNext, GuardNext DEF RefinementInv
<1>3. QED
    BY <1>1, <1>2, PTL DEF Spec

\* The types of the variables, in the pieces the proofs use.
LEMMA BaseTypes ==
    ASSUME RefinementInv
    PROVE  /\ TypeOK /\ obj \in [Machines -> Objects] /\ mem \in Fields
           /\ ips \in [Machines -> SUBSET PubAddrs] /\ server \in [Machines -> Servers]
           /\ pool \in SUBSET Addrs /\ acl \in [Machines -> PubAddrs \cup {None}]
           /\ snap \in Snaps /\ publicIP \in [Machines -> BOOLEAN \cup {None}]
           /\ cur \in Machines \cup {None} /\ (cur = None <=> pc = "idle")
           /\ pc # "idle" => cur \in Machines
  BY DEF RefinementInv, TypeInv, TypeOK

\* A machine that is being deleted stays so, and nobody starts to build it.
LEMMA BuildingBack ==
    ASSUME RefinementInv, [Next]_vars, NEW m \in Machines
    PROVE  /\ obj[m].deleting => obj'[m].deleting
           /\ Building(m)' => Building(m)
<1>t. obj \in [Machines -> Objects] /\ mem \in Fields
    BY BaseTypes
<1>1. obj[m].deleting => obj'[m].deleting
  <2>1. CASE AddFinalizer
    <3>1. obj' = obj \/ obj' = [obj EXCEPT ![cur].f.finalizer = TRUE]
      BY <2>1 DEF AddFinalizer, StoreFinalizer
    <3>2. QED
      BY <3>1, <1>t DEF Objects
  <2>2. CASE Close
    <3>1. CASE obj' = [obj EXCEPT ![cur] = obj[cur]]
      BY <3>1, <1>t
    <3>2. ASSUME NEW x \in BOOLEAN, NEW y \in BOOLEAN,
                 obj' = [obj EXCEPT ![cur] = Patched(obj[cur], x, y)]
          PROVE  obj'[m].deleting = obj[m].deleting
      <4>1. CASE m # cur
        BY <3>2, <4>1, <1>t
      <4>2. CASE m = cur
        <5>1. obj'[m] = Patched(obj[m], x, y)
          BY <3>2, <4>2, <1>t
        <5>2. QED
          BY <5>1, <1>t, PatchedFields
      <4>3. QED
        BY <4>1, <4>2
    <3>3. QED
      BY <2>2, <3>1, <3>2, CloseObjects
  <2>3. ASSUME NEW k \in Machines, UserDelete(k) PROVE obj[m].deleting => obj'[m].deleting
    <3>1. \E e : obj' = [obj EXCEPT ![k].deleting = TRUE, ![k].exists = e]
      BY <2>3 DEF UserDelete
    <3>2. QED
      BY <3>1, <1>t DEF Objects
  <2>4. QED
    BY <2>1, <2>2, <2>3, WhoWrites DEF Writers
<1>2. cur' = m /\ pc' \in NormalPCs => Building(m)
  <2> SUFFICES ASSUME cur' = m, pc' \in NormalPCs PROVE Building(m)
    OBVIOUS
  <2>1. ASSUME NEW k \in Machines, Reconcile(k) PROVE Building(m)
    <3>1. k = m /\ (pc' = "find" \/ ~obj[m].deleting)
      BY <2>1 DEF Reconcile
    <3>2. QED
      BY <3>1 DEF Building, NormalPCs
  <2>2. CASE ~(\E k \in Machines : Reconcile(k))
    BY <2>2, Moves DEF Move, Goes, Building, NormalPCs, GetServer, CreateServer, GetMachineIPs,
       FindServer, DetachVolume
  <2>3. QED
    BY <2>1, <2>2
<1>3. QED
    BY <1>1, <1>2 DEF Building

\* Delete only runs for a machine that nobody builds any more.
LEMMA DeleteIsFinal ==
    ASSUME RefinementInv, [Next]_vars, pc \in DeletePCs
    PROVE  ~Building(cur) /\ \A m \in Machines : Building(m)' => m # cur
<1>1. ~Building(cur)
    BY DEF RefinementInv, VolumeInv, Building, NormalPCs, DeletePCs
<1>2. QED
    BY <1>1, BuildingBack

\* Which steps belong to Delete.
LEMMA DeleteSteps ==
    /\ DeleteACL \/ LeaveBackend \/ DeleteIP \/ DeleteServer \/ TerminateServer => pc \in DeletePCs
    /\ CreateServer \/ GetOrCreatePrivateNIC \/ EnsureCloudInit \/ EnsureServerStarted
       \/ GetOrCreateIP \/ JoinBackend \/ EnsureACL => pc \in NormalPCs
  BY DEF DeleteACL, LeaveBackend, DeleteIP, DeleteServer, TerminateServer, DeletePCs, NormalPCs,
         CreateServer, GetOrCreatePrivateNIC, EnsureCloudInit, EnsureServerStarted,
         GetOrCreateIP, JoinBackend, EnsureACL

\* How the flexible IPs of machine n change.
IPLife(n) ==
    \/ ips'[n] = ips[n]
    \/ /\ GetOrCreateIP /\ n = cur /\ publicIP[n] = TRUE /\ ips[n] = {}
       /\ \E a \in FreePubAddrs : ips'[n] = {a}
    \/ /\ DeleteIP /\ n = cur /\ snap.ip # None
       /\ ips'[n] = ips[n] \ {snap.ip} /\ server'[n].ip = None

\* No step does anything else to them.
LEMMA IPLives ==
    ASSUME RefinementInv, [Next]_vars, NEW n \in Machines
    PROVE  IPLife(n)
<1>t. ips \in [Machines -> SUBSET PubAddrs] /\ server \in [Machines -> Servers]
    BY BaseTypes
<1>1. CASE GetOrCreateIP
  <2>1. \/ ips' = ips
        \/ /\ publicIP[cur] = TRUE /\ ips[cur] = {}
           /\ \E a \in FreePubAddrs : ips' = [ips EXCEPT ![cur] = ips[cur] \cup {a}]
    BY <1>1 DEF GetOrCreateIP, NeedsPublicIP
  <2>2. QED
    BY <1>1, <1>t, <2>1 DEF IPLife
<1>2. CASE DeleteIP
  <2>1. \/ ips' = ips
        \/ /\ snap.ip # None /\ ips' = [ips EXCEPT ![cur] = ips[cur] \ {snap.ip}]
           /\ server' = [server EXCEPT ![cur].ip = None]
    BY <1>2 DEF DeleteIP
  <2>2. QED
    BY <1>2, <1>t, <2>1 DEF IPLife, Servers
<1>3. QED
    BY <1>1, <1>2, WhoWrites DEF Writers, IPLife

\* Whether a machine needs an IP is decided when it is created.
LEMMA NeedsIPKept ==
    ASSUME RefinementInv, [Next]_vars, NEW n \in Machines
    PROVE  publicIP'[n] = TRUE <=> publicIP[n] = TRUE
<1>t. publicIP \in [Machines -> BOOLEAN \cup {None}] /\ None # TRUE
    BY BaseTypes, AddrAssumption
<1>1. ASSUME NEW m \in Machines, UserEdit(m) PROVE publicIP'[n] = TRUE <=> publicIP[n] = TRUE
  <2>1. PICK new : publicIP[m] = None /\ new # TRUE /\ publicIP' = [publicIP EXCEPT ![m] = new]
    BY <1>1 DEF UserEdit, EnforceImmutability
  <2>2. CASE n # m
    BY <1>t, <2>1, <2>2
  <2>3. CASE n = m
    <3>1. publicIP'[n] = new /\ publicIP[n] = None
      BY <1>t, <2>1, <2>3
    <3>2. QED
      BY <1>t, <2>1, <3>1, Zenon
  <2>4. QED
    BY <2>2, <2>3
<1>2. QED
    BY <1>1, WhoWrites DEF Writers

-----------------------------------------------------------------------------
(* The step of AddrInv, part by part *)

\* No second IP is created.
LEMMA IPNext ==
    ASSUME RefinementInv, IPInv, [Next]_vars PROVE IPInv'
<1> SUFFICES ASSUME NEW n \in Machines PROVE ips'[n] = {} \/ \E a \in PubAddrs : ips'[n] = {a}
    BY DEF IPInv
<1>1. IPLife(n) /\ (ips[n] = {} \/ \E a \in PubAddrs : ips[n] = {a})
    BY IPLives DEF IPInv
<1>2. QED
    BY <1>1 DEF IPLife, FreePubAddrs

\* Termination begins only when nobody builds the machine any more.
LEMMA NothingDyingNext ==
    ASSUME RefinementInv, NothingDying, [Next]_vars PROVE NothingDying'
<1> SUFFICES ASSUME NEW n \in Machines, Building(n)' PROVE server'[n].state # "stopping"
    BY DEF NothingDying
<1>1. server[n].state # "stopping"
    BY BuildingBack DEF NothingDying
<1>2. ~(TerminateServer /\ n = cur)
    BY DeleteIsFinal, DeleteSteps
<1>3. ServerLife(n)
    BY BaseTypes, ServerLives
<1>4. QED
    BY <1>1, <1>2, <1>3 DEF ServerLife, SameState, NoServer

\* A new address is nobody else's.
LEMMA OwnershipNext ==
    ASSUME RefinementInv, Ownership, [Next]_vars PROVE Ownership'
<1>t. server \in [Machines -> Servers]
    BY BaseTypes
<1>1. ASSUME NEW n \in Machines PROVE ips'[n] # {} => publicIP'[n] = TRUE
  <2>1. ips'[n] # {} => publicIP[n] = TRUE
    BY IPLives DEF IPLife, Ownership
  <2>2. QED
    BY <2>1, NeedsIPKept
<1>2. ASSUME NEW m \in Machines, NEW n \in Machines, m # n PROVE ips'[m] \cap ips'[n] = {}
  <2>1. IPLife(m) /\ IPLife(n) /\ ips[m] \cap ips[n] = {}
    BY <1>2, IPLives DEF Ownership
  <2>2. FreePubAddrs \cap ips[m] = {} /\ FreePubAddrs \cap ips[n] = {}
    BY DEF FreePubAddrs
  <2>3. QED
    BY <1>2, <2>1, <2>2 DEF IPLife
<1>3. ASSUME NEW m \in Machines, NEW n \in Machines, m # n
      PROVE  server'[m].nicIP = None \/ server'[m].nicIP # server'[n].nicIP
  <2>1. ServerLife(m) /\ ServerLife(n)
    BY BaseTypes, ServerLives
  <2>2. server[m].nicIP = None \/ server[m].nicIP # server[n].nicIP
    BY <1>3 DEF Ownership
  <2>3. server[m].nicIP \notin FreePrivAddrs /\ server[n].nicIP \notin FreePrivAddrs
    BY DEF FreePrivAddrs
  <2>4. \A k \in Machines : ServerLife(k) =>
           \/ server'[k].nicIP = server[k].nicIP
           \/ server'[k].nicIP = None
           \/ AssignPrivateIP(k) /\ server'[k].nicIP \in FreePrivAddrs
    BY DEF ServerLife, SameNIC, NoServer
  <2>5. ~(AssignPrivateIP(m) /\ AssignPrivateIP(n))
         \/ server'[m].nicIP = server[m].nicIP \/ server'[n].nicIP = server[n].nicIP
    <3> SUFFICES ASSUME AssignPrivateIP(m), AssignPrivateIP(n)
                 PROVE  server'[n].nicIP = server[n].nicIP
      OBVIOUS
    <3>1. \E a : server' = [server EXCEPT ![m].nicIP = a]
      BY DEF AssignPrivateIP
    <3>2. QED
      BY <1>3, <1>t, <3>1
  <2>6. QED
    BY <2>1, <2>2, <2>3, <2>4, <2>5
<1>4. QED
    BY <1>1, <1>2, <1>3 DEF Ownership

\* The addresses of a server follow its life.
LEMMA ServerAddrsNext ==
    ASSUME RefinementInv, NothingDying, ServerAddrs, WorkerServer, [Next]_vars
    PROVE  ServerAddrs'
<1>t. /\ TypeOK /\ server \in [Machines -> Servers] /\ ips \in [Machines -> SUBSET PubAddrs]
      /\ None \notin PubAddrs
    BY BaseTypes, AddrAssumption
<1> SUFFICES ASSUME NEW n \in Machines
             PROVE  /\ server'[n].ip # None => server'[n].ip \in ips'[n]
                    /\ server'[n].state = "stopping" => server'[n].ip = None
                    /\ server'[n].state = "none" =>
                          /\ server'[n].ip = None /\ server'[n].nicIP = None
                          /\ ~server'[n].nic /\ server'[n].cloudInit = None
                    /\ ~HasPrivateNetwork => ~server'[n].nic /\ server'[n].nicIP = None
                    /\ Building(n)' /\ publicIP'[n] = TRUE /\ InUse(n)' => server'[n].ip # None
    BY DEF ServerAddrs
<1>1. ServerLife(n) /\ IPLife(n)
    BY <1>t, ServerLives, IPLives
<1>2. /\ server[n].ip # None => server[n].ip \in ips[n]
      /\ server[n].state = "stopping" => server[n].ip = None
      /\ server[n].state = "none" => /\ server[n].ip = None /\ server[n].nicIP = None
                                     /\ ~server[n].nic /\ server[n].cloudInit = None
      /\ ~HasPrivateNetwork => ~server[n].nic /\ server[n].nicIP = None
      /\ Building(n) /\ publicIP[n] = TRUE /\ InUse(n) => server[n].ip # None
    BY DEF ServerAddrs
<1>3. /\ GetOrCreatePrivateNIC \/ EnsureCloudInit \/ EnsureServerStarted => InUse(cur)
      /\ TerminateServer => server[cur].ip = None
    BY DEF GetOrCreatePrivateNIC, EnsureCloudInit, EnsureServerStarted, TerminateServer,
           WorkerServer, WithServer, AfterRelease
<1>4. server'[n].ip # None => server'[n].ip \in ips'[n]
  <2>1. CASE CreateServer /\ n = cur
    <3>1. ~GetOrCreateIP /\ ~DeleteIP
      BY <2>1 DEF CreateServer, GetOrCreateIP, DeleteIP
    <3>2. QED
      BY <1>1, <1>2, <2>1, <3>1 DEF ServerLife, IPLife, SameIP, NoServer
  <2>2. CASE ~(CreateServer /\ n = cur)
    <3>1. server'[n].ip = server[n].ip \/ server'[n].ip = None
      BY <1>1, <2>2 DEF ServerLife, SameIP, NoServer
    <3>2. QED
      BY <1>1, <1>2, <3>1 DEF IPLife
  <2>3. QED
    BY <2>1, <2>2
<1>5. server'[n].state = "stopping" => server'[n].ip = None
    BY <1>1, <1>2, <1>3 DEF ServerLife, SameState, SameIP, NoServer
<1>6. server'[n].state = "none" => /\ server'[n].ip = None /\ server'[n].nicIP = None
                                   /\ ~server'[n].nic /\ server'[n].cloudInit = None
    BY <1>1, <1>2, <1>3, <1>t DEF ServerLife, SameState, SameIP, SameNIC, SameCloudInit, NoServer, InUse
<1>7. ~HasPrivateNetwork => ~server'[n].nic /\ server'[n].nicIP = None
    BY <1>1, <1>2 DEF ServerLife, SameNIC, NoServer
<1>8. Building(n)' /\ publicIP'[n] = TRUE /\ InUse(n)' => server'[n].ip # None
  <2> SUFFICES ASSUME Building(n)', publicIP'[n] = TRUE, InUse(n)' PROVE server'[n].ip # None
    OBVIOUS
  <2>1. Building(n) /\ publicIP[n] = TRUE
    BY BuildingBack, NeedsIPKept
  <2>2. ~(n = cur /\ (DeleteIP \/ DeleteServer \/ TerminateServer))
    BY DeleteIsFinal, DeleteSteps
  <2>3. CASE CreateServer /\ n = cur
    BY <1>t, <2>1, <2>3, CreatedServer DEF NeedsPublicIP
  <2>4. CASE ~(CreateServer /\ n = cur)
    <3>1. InUse(n) /\ server'[n].ip = server[n].ip
      BY <1>1, <1>3, <2>2, <2>4 DEF ServerLife, SameState, SameIP, InUse, NoServer
    <3>2. QED
      BY <1>2, <2>1, <3>1
  <2>5. QED
    BY <2>3, <2>4
<1>9. QED
    BY <1>4, <1>5, <1>6, <1>7, <1>8

\* An IP is only created for a server that is still to be made.
LEMMA IPsAreAttachedNext ==
    ASSUME RefinementInv, AddrInv, [Next]_vars PROVE IPsAreAttached'
<1>t. TypeOK /\ server \in [Machines -> Servers]
    BY BaseTypes
<1> SUFFICES ASSUME NEW n \in Machines, InUse(n)', ips'[n] # {} PROVE server'[n].ip \in ips'[n]
    BY DEF IPsAreAttached, InUse
<1>1. ServerLife(n) /\ IPLife(n)
    BY <1>t, ServerLives, IPLives
<1>2. CASE CreateServer /\ n = cur
  <2>1. ips'[n] = ips[n]
    BY <1>1, <1>2 DEF CreateServer, GetOrCreateIP, DeleteIP, IPLife
  <2>2. NeedsPublicIP
    BY <1>2, <2>1 DEF AddrInv, Ownership, NeedsPublicIP
  <2>3. QED
    BY <1>t, <1>2, <2>1, <2>2, CreatedServer
<1>3. CASE ~(CreateServer /\ n = cur)
  <2>1. EnsureServerStarted => InUse(cur)
    BY DEF EnsureServerStarted, AddrInv, WorkerServer, WithServer
  <2>2. InUse(n)
    BY <1>1, <1>3, <2>1 DEF ServerLife, SameState, InUse, NoServer
  <2>3. ips[n] # {} => server[n].ip \in ips[n]
    BY <2>2 DEF AddrInv, IPsAreAttached, InUse
  <2>4. CASE DeleteIP /\ n = cur
    <3>1. snap.ip = server[n].ip
      BY <2>4 DEF DeleteIP, AddrInv, WorkerServer, BeforeRelease
    <3>2. ips[n] = {} \/ \E a : ips[n] = {a}
      BY DEF AddrInv, IPInv
    <3>3. ~GetOrCreateIP
      BY <2>4 DEF DeleteIP, GetOrCreateIP
    <3>4. ips'[n] = ips[n]
      BY <1>1, <2>3, <3>1, <3>2, <3>3 DEF IPLife
    <3>5. snap.ip = None
      <4> SUFFICES ASSUME snap.ip # None PROVE FALSE
        OBVIOUS
      <4>1. ips' = [ips EXCEPT ![cur] = ips[cur] \ {snap.ip}] /\ ips \in [Machines -> SUBSET PubAddrs]
        BY <2>4, BaseTypes DEF DeleteIP
      <4>2. ips'[n] = ips[n] \ {snap.ip}
        BY <2>4, <4>1
      <4>3. QED
        BY <2>3, <3>1, <3>4, <4>2
    <3>6. server' = server
      BY <2>4, <3>5 DEF DeleteIP
    <3>7. QED
      BY <2>3, <3>4, <3>6
  <2>5. CASE ~(DeleteIP /\ n = cur)
    <3>1. server'[n].ip = server[n].ip
      BY <1>1, <1>3, <2>5 DEF ServerLife, SameIP, InUse, NoServer
    <3>2. ips'[n] = ips[n]
      <4> SUFFICES ASSUME ips'[n] # ips[n] PROVE FALSE
        OBVIOUS
      <4>1. GetOrCreateIP /\ n = cur /\ publicIP[n] = TRUE /\ ips[n] = {}
        BY <1>1, <2>5 DEF IPLife
      <4>2. Building(n)
        BY <4>1, DeleteSteps DEF Building
      <4>3. QED
        BY <2>2, <4>1, <4>2 DEF AddrInv, ServerAddrs
    <3>3. QED
      BY <2>3, <3>1, <3>2
  <2>6. QED
    BY <2>4, <2>5
<1>4. QED
    BY <1>2, <1>3

\* Nobody but the worker changes what it knows of the server it works on.
LEMMA WorkerServerKept ==
    ASSUME RefinementInv, AddrInv, [Next]_vars, NEW c \in Machines, c = cur
    PROVE  /\ pc \in WithServer => server'[c].state \notin Ending
           /\ pc \in WithServer => server'[c].ip = server[c].ip
           /\ pc \in BeforeRelease /\ pc # "delIP" => server'[c].ip = server[c].ip
           /\ DeleteIP => server'[c].ip = None
           /\ pc = "delIP" /\ ~DeleteIP => server'[c].ip = server[c].ip
           /\ pc \in AfterRelease => server'[c].ip = None
           /\ pc \in WithAddress => server'[c].nicIP = server[c].nicIP
<1>t. TypeOK /\ server \in [Machines -> Servers]
    BY BaseTypes
<1>1. ServerLife(c)
    BY <1>t, ServerLives
<1>2. server[c].state = "stopping" => server[c].ip = None
    BY DEF AddrInv, ServerAddrs
<1>3. pc \in WithServer => /\ server[c].state \notin Ending
                           /\ ~CreateServer /\ ~DeleteIP /\ ~TerminateServer /\ ~DeleteServer
    BY DEF AddrInv, WorkerServer, WithServer, InUse, Ending, CreateServer, DeleteIP, TerminateServer,
           DeleteServer
<1>4. pc \in WithServer => server'[c].state \notin Ending
    BY <1>1, <1>3 DEF ServerLife, SameState, Ending
<1>5. pc \in WithServer => server'[c].ip = server[c].ip
    BY <1>1, <1>3 DEF ServerLife, SameIP, Ending
<1>6. pc \in BeforeRelease /\ ~DeleteIP => server'[c].ip = server[c].ip
  <2>1. pc \in BeforeRelease => ~CreateServer /\ ~DeleteServer
    BY DEF BeforeRelease, CreateServer, DeleteServer
  <2>2. QED
    BY <1>1, <1>2, <2>1 DEF ServerLife, SameIP, NoServer
<1>7. DeleteIP => server'[c].ip = None
  <2> SUFFICES ASSUME DeleteIP PROVE server'[c].ip = None
    OBVIOUS
  <2>1. snap.ip = server[c].ip
    BY DEF DeleteIP, AddrInv, WorkerServer, BeforeRelease
  <2>2. (server' = server /\ snap.ip = None) \/ server' = [server EXCEPT ![cur].ip = None]
    BY DEF DeleteIP
  <2>3. QED
    BY <1>t, <2>1, <2>2 DEF Servers
<1>8. pc \in AfterRelease => server'[c].ip = None
  <2>1. pc \in AfterRelease => ~CreateServer /\ server[c].ip = None
    BY DEF AfterRelease, CreateServer, AddrInv, WorkerServer
  <2>2. QED
    BY <1>1, <2>1 DEF ServerLife, SameIP, NoServer
<1>9. pc \in WithAddress => server'[c].nicIP = server[c].nicIP
  <2> SUFFICES ASSUME pc \in WithAddress PROVE server'[c].nicIP = server[c].nicIP
    OBVIOUS
  <2>1. NodeIP(snap.int, snap.ip) # None /\ NodeIP(snap.int, snap.ip) = NodeAddr(c)
    BY DEF RefinementInv, TypeInv, AddressKnown, WithAddress, AddrInv, WorkerServer
  <2>2. pc \in WithServer /\ ~GetOrCreatePrivateNIC
    BY DEF WithAddress, WithServer, GetOrCreatePrivateNIC
  <2>3. ~HasPrivateNetwork => ~server[c].nic
    BY DEF AddrInv, ServerAddrs
  <2>4. QED
    BY <1>1, <1>3, <2>1, <2>2, <2>3 DEF ServerLife, SameNIC, NodeAddr, Ending
<1>10. QED
    BY <1>4, <1>5, <1>6, <1>7, <1>8, <1>9 DEF BeforeRelease, DeleteIP

\* What the worker has read of its server stays true while it works on it.
LEMMA WorkerServerNext ==
    ASSUME RefinementInv, AddrInv, [Next]_vars PROVE WorkerServer'
<1>t. /\ TypeOK /\ server \in [Machines -> Servers] /\ snap \in Snaps
      /\ (pc # "idle" => cur \in Machines) /\ None \notin PrivAddrs
    BY BaseTypes, AddrAssumption
<1>w. WorkerServer
    BY DEF AddrInv
<1> DEFINE Known(p, s) ==
             /\ p \in WithServer => server'[cur].state \notin Ending
             /\ p \in WithServer \cup BeforeRelease => s.ip = server'[cur].ip
             /\ p \in AfterRelease => server'[cur].ip = None
             /\ p \in WithAddress => NodeIP(s.int, s.ip) =
                    (IF HasPrivateNetwork THEN server'[cur].nicIP ELSE server'[cur].ip)
           Sets == WithServer \cup BeforeRelease \cup AfterRelease
<1>s. ASSUME cur' = cur, Known(pc', snap') PROVE WorkerServer'
    BY <1>s DEF WorkerServer, InUse, Ending, NodeAddr
<1>n. ASSUME pc' \notin Sets PROVE WorkerServer'
    BY <1>n DEF WorkerServer, WithServer, WithAddress
<1>k. ASSUME cur \in Machines
      PROVE  /\ pc \in WithServer => server'[cur].state \notin Ending
             /\ pc \in WithServer => server'[cur].ip = server[cur].ip
             /\ pc \in BeforeRelease /\ pc # "delIP" => server'[cur].ip = server[cur].ip
             /\ DeleteIP => server'[cur].ip = None
             /\ pc = "delIP" /\ ~DeleteIP => server'[cur].ip = server[cur].ip
             /\ pc \in AfterRelease => server'[cur].ip = None
             /\ pc \in WithAddress => server'[cur].nicIP = server[cur].nicIP
    BY <1>k, WorkerServerKept
<1>v. ASSUME cur \in Machines, pc \in WithAddress
      PROVE  NodeIP(snap.int, snap.ip) =
                    (IF HasPrivateNetwork THEN server'[cur].nicIP ELSE server'[cur].ip)
    BY <1>v, <1>k, <1>w DEF WorkerServer, NodeAddr, WithAddress, WithServer
<1>1. CASE pc' = pc /\ cur' = cur /\ snap' = snap
  <2>1. CASE pc = "idle"
    BY <1>1, <2>1, <1>n DEF WithServer, BeforeRelease, AfterRelease
  <2>2. CASE pc # "idle"
    <3>1. DeleteIP => pc' # "delIP"
      BY DEF DeleteIP, Proceed, Reply, CallFails
    <3>2. pc \in WithServer \cup BeforeRelease => snap.ip = server'[cur].ip
      BY <1>1, <1>t, <1>k, <1>w, <2>2, <3>1 DEF WorkerServer, BeforeRelease
    <3>3. Known(pc, snap)
      BY <1>t, <1>k, <1>v, <2>2, <3>2
    <3>4. QED
      BY <1>1, <1>s, <3>3
  <2>3. QED
    BY <2>1, <2>2
<1>2. CASE pc' \in {"idle", "close", "ip", "server", "unfinalize"}
    BY <1>2, <1>n DEF WithServer, BeforeRelease, AfterRelease
<1>3. ASSUME NEW m \in Machines, Reconcile(m) PROVE WorkerServer'
    BY <1>3, <1>n DEF Reconcile, WithServer, BeforeRelease, AfterRelease
<1>4. CASE GetServer /\ pc' = "nic" /\ cur' = cur
  <2>1. cur \in Machines /\ server[cur].state # "none" /\ Building(cur)
    BY <1>4, <1>t DEF GetServer, Building, NormalPCs
  <2>2. server[cur].state # "stopping"
    BY <2>1 DEF AddrInv, NothingDying
  <2>3. server' = server /\ snap'.ip = server[cur].ip
    BY <1>4, <1>t DEF GetServer, Snapshot, Snaps, cloud
  <2>4. Known("nic", snap')
    BY <2>1, <2>2, <2>3 DEF WithServer, BeforeRelease, AfterRelease, WithAddress, Ending
  <2>5. QED
    BY <1>4, <1>s, <2>4
<1>5. CASE CreateServer /\ pc' = "nic" /\ cur' = cur
  <2>1. Known("nic", snap')
    BY <1>5, <1>t, CreatedServer DEF WithServer, BeforeRelease, AfterRelease, WithAddress, Ending
  <2>2. QED
    BY <1>5, <1>s, <2>1
<1>6. CASE GetMachineIPs /\ pc' = "backend" /\ cur' = cur
  <2>1. pc = "addrs" /\ cur \in Machines
    BY <1>6, <1>t DEF GetMachineIPs
  <2>2. /\ ~PrivateIPMissing /\ server' = server
        /\ snap' = [snap EXCEPT !.int = server[cur].nicIP]
    BY <1>6 DEF GetMachineIPs, Return, Proceed, cloud
  <2>3. snap'.ip = snap.ip /\ snap'.int = server[cur].nicIP
    BY <1>t, <2>2 DEF Snaps
  <2>4. snap.ip = server[cur].ip /\ server[cur].state \notin Ending
    BY <1>w, <2>1 DEF WorkerServer, WithServer, InUse, Ending
  <2>5. ~HasPrivateNetwork => server[cur].nicIP = None
    BY <2>1 DEF AddrInv, ServerAddrs
  <2>6. Known("backend", snap')
    BY <2>2, <2>3, <2>4, <2>5 DEF PrivateIPMissing, NodeIP, WithServer, BeforeRelease, AfterRelease
  <2>7. QED
    BY <1>6, <1>s, <2>6
<1>7. CASE \/ Goes("nic", "addrs") \/ Goes("backend", "acl") \/ Goes("acl", "cloudinit")
           \/ Goes("cloudinit", "start") \/ Goes("start", "publish")
  <2>1. cur \in Machines /\ pc \in WithServer /\ (pc' = "addrs" \/ pc \in WithAddress)
    BY <1>7, <1>t DEF Goes, WithServer, WithAddress
  <2>2. snap.ip = server'[cur].ip
    BY <1>k, <1>w, <2>1 DEF WorkerServer
  <2>3. Known(pc', snap)
    BY <1>7, <1>k, <1>v, <2>1, <2>2 DEF Goes, WithServer, WithAddress, BeforeRelease, AfterRelease
  <2>4. QED
    BY <1>7, <1>s, <2>3 DEF Goes
<1>8. CASE FindServer /\ pc' = "delACL" /\ cur' = cur
  <2>1. server' = server /\ snap' = Snapshot(cur)
    BY <1>8 DEF FindServer, Proceed, cloud
  <2>2. snap'.ip = server[cur].ip
    BY <1>t, <2>1 DEF Snapshot, Snaps
  <2>3. Known("delACL", snap')
    BY <2>1, <2>2 DEF WithServer, WithAddress, BeforeRelease, AfterRelease
  <2>4. QED
    BY <1>8, <1>s, <2>3
<1>9. CASE Goes("delACL", "delBackend") \/ Goes("delBackend", "delIP")
  <2>1. cur \in Machines /\ snap.ip = server'[cur].ip
    BY <1>9, <1>t, <1>k, <1>w DEF Goes, WorkerServer, BeforeRelease
  <2>2. Known(pc', snap)
    BY <1>9, <2>1 DEF Goes, WithServer, WithAddress, BeforeRelease, AfterRelease
  <2>3. QED
    BY <1>9, <1>s, <2>2 DEF Goes
<1>10. CASE cur' = cur /\ pc' \in AfterRelease /\ (pc \in AfterRelease \/ DeleteIP)
  <2>1. cur \in Machines /\ server'[cur].ip = None
    BY <1>10, <1>t, <1>k DEF DeleteIP, AfterRelease
  <2>2. Known(pc', snap')
    BY <1>10, <2>1 DEF WithServer, WithAddress, BeforeRelease, AfterRelease
  <2>3. QED
    BY <1>10, <1>s, <2>2
<1>11. QED
  <2>1. DetachVolume => pc = "detach"
    BY DEF DetachVolume
  <2>2. QED
    BY <1>1, <1>2, <1>3, <1>4, <1>5, <1>6, <1>7, <1>8, <1>9, <1>10, <2>1, Moves
    DEF Move, Goes, AfterRelease

\* It holds at the start, when there is nothing.
LEMMA AddrInit == Init => AddrInv
  BY AddrAssumption
  DEF Init, AddrInv, IPInv, NothingDying, Ownership, ServerAddrs, IPsAreAttached, WorkerServer, NoServer,
      InUse, WithServer, BeforeRelease, AfterRelease, WithAddress

\* Every step keeps it.
LEMMA AddrNext == RefinementInv /\ AddrInv /\ [Next]_vars => AddrInv'
<1> SUFFICES ASSUME RefinementInv, AddrInv, [Next]_vars PROVE AddrInv'
    OBVIOUS
<1>1. IPInv /\ NothingDying /\ Ownership /\ ServerAddrs /\ WorkerServer
    BY DEF AddrInv
<1>2. QED
    BY <1>1, IPNext, NothingDyingNext, OwnershipNext, ServerAddrsNext, IPsAreAttachedNext,
       WorkerServerNext DEF AddrInv

\* It is an invariant.
LEMMA AddrInvariant == Spec => []AddrInv
  BY BaseInvariant, AddrInit, AddrNext, PTL DEF Spec

\* A set with at most one element has a cardinality of at most one.
LEMMA SmallSet ==
    ASSUME NEW S, S = {} \/ \E x : S = {x}
    PROVE  Cardinality(S) <= 1
<1>1. CASE S = {}
  <2>1. Cardinality(S) = 0
    BY <1>1, FS_EmptySet, Zenon
  <2>2. QED
    BY <2>1
<1>2. CASE \E x : S = {x}
  <2>1. Cardinality(S) = 1
    BY <1>2, FS_Singleton, Zenon
  <2>2. QED
    BY <2>1
<1>3. QED
    BY <1>1, <1>2

\* However often reconciles are cut short by crashes, lost replies and errors, a machine
\* never owns two flexible IPs: GetOrCreateIP looks for the first one by its tags.
THEOREM AtMostOneIP == Spec => []OneIPPerMachine
<1>1. AddrInv => OneIPPerMachine
  <2> SUFFICES ASSUME AddrInv, NEW m \in Machines PROVE Cardinality(ips[m]) <= 1
    BY DEF OneIPPerMachine
  <2>1. ips[m] = {} \/ \E x : ips[m] = {x}
    BY DEF AddrInv, IPInv
  <2>2. QED
    BY <2>1, SmallSet
<1>2. QED
    BY <1>1, AddrInvariant, PTL

\* The flexible IP of a machine with a server is the IP of that server, which is the only one
\* Delete knows of: the webhook keeps a user from asking for an IP afterwards.
THEOREM EveryIPIsAttached == Spec => []IPsAreAttached
<1>1. AddrInv => IPsAreAttached
    BY DEF AddrInv
<1>2. QED
    BY <1>1, AddrInvariant, PTL

-----------------------------------------------------------------------------
(* The load balancer *)

\* How the load balancer changes.
LBLife ==
    \/ lb' = lb /\ pool' = pool /\ acl' = acl
    \/ lb' = TRUE /\ pool' = pool /\ acl' = acl
    \/ lb' = FALSE /\ pool' = {} /\ acl' = [m \in Machines |-> None]
    \/ /\ JoinBackend /\ lb /\ lb' = lb /\ acl' = acl /\ cur \in ControlPlane
       /\ pool' = pool \cup {NodeIP(snap.int, snap.ip)}
    \/ /\ LeaveBackend /\ lb /\ lb' = lb /\ acl' = acl
       /\ pool' = pool \ {NodeIP(server[cur].nicIP, snap.ip)}
    \/ /\ EnsureACL /\ lb /\ lb' = lb /\ pool' = pool
       /\ acl' = [acl EXCEPT ![cur] = snap.ip]
    \/ /\ DeleteACL /\ lb /\ lb' = lb /\ pool' = pool
       /\ acl' = [acl EXCEPT ![cur] = None]

\* No step does anything else to it.
LEMMA LBLives ==
    ASSUME [Next]_vars PROVE LBLife
<1>1. CASE JoinBackend
    BY <1>1 DEF JoinBackend, LBLife, IsControlPlane
<1>2. CASE LeaveBackend
    BY <1>2 DEF LeaveBackend, LBLife
<1>3. CASE EnsureACL
    BY <1>3 DEF EnsureACL, LBLife
<1>4. CASE DeleteACL
    BY <1>4 DEF DeleteACL, LBLife
<1>5. CASE LoadBalancerDeleted
    BY <1>5 DEF LoadBalancerDeleted, LBLife
<1>6. CASE SetInfrastructureReady
    BY <1>6 DEF SetInfrastructureReady, LBLife
<1>7. QED
    BY <1>1, <1>2, <1>3, <1>4, <1>5, <1>6, WhoWrites DEF Writers, LBLife

\* The addresses the worker joins and leaves the backend with are those of the node.
LEMMA WorkerAddress ==
    ASSUME RefinementInv, AddrInv
    PROVE  /\ pc \in WithAddress => /\ NodeIP(snap.int, snap.ip) = NodeAddr(cur)
                                    /\ NodeAddr(cur) # None
           /\ pc = "delBackend" /\ ~PrivateIPMissing =>
                  NodeIP(server[cur].nicIP, snap.ip) = NodeAddr(cur)
<1>1. pc \in WithAddress => NodeIP(snap.int, snap.ip) = NodeAddr(cur) /\ NodeAddr(cur) # None
    BY DEF RefinementInv, TypeInv, AddressKnown, AddrInv, WorkerServer, WithAddress
<1>2. ASSUME pc = "delBackend", ~PrivateIPMissing
      PROVE  NodeIP(server[cur].nicIP, snap.ip) = NodeAddr(cur)
  <2>1. cur \in Machines
    BY <1>2, BaseTypes
  <2>2. snap.ip = server[cur].ip /\ (~HasPrivateNetwork => server[cur].nicIP = None)
    BY <1>2, <2>1 DEF AddrInv, WorkerServer, BeforeRelease, ServerAddrs
  <2>3. QED
    BY <1>2, <2>2 DEF PrivateIPMissing, NodeIP, NodeAddr
<1>3. QED
    BY <1>1, <1>2

\* Two nodes have different addresses.
LEMMA AddressesDiffer ==
    ASSUME AddrInv, NEW m \in Machines, NEW n \in Machines, m # n, NodeAddr(m) # None
    PROVE  NodeAddr(m) # NodeAddr(n)
<1>1. CASE HasPrivateNetwork
    BY <1>1 DEF AddrInv, Ownership, NodeAddr
<1>2. CASE ~HasPrivateNetwork
  <2>1. /\ server[m].ip # None => server[m].ip \in ips[m]
        /\ server[n].ip # None => server[n].ip \in ips[n]
        /\ ips[m] \cap ips[n] = {}
    BY DEF AddrInv, Ownership, ServerAddrs
  <2>2. QED
    BY <1>2, <2>1 DEF NodeAddr
<1>3. QED
    BY <1>1, <1>2

\* No backend is without an address, in this state and in the next one.
LEMMA NoneIsNoBackend ==
    ASSUME RefinementInv, [Next]_vars PROVE None \notin pool /\ None \notin pool'
<1>1. TypeOK /\ TypeOK'
    BY TypeNext DEF RefinementInv, TypeInv
<1>2. QED
    BY <1>1, AddrAssumption DEF TypeOK, Addrs

\* The address of a node that is not a backend does not become one, unless the node joins.
LEMMA NotABackend ==
    ASSUME RefinementInv, AddrInv, BackendsAreAlive, [Next]_vars, NEW n \in Machines,
           NodeAddr(n) \notin pool, ~(CreateServer /\ n = cur), ~(JoinBackend /\ n = cur)
    PROVE  NodeAddr(n)' \notin pool'
<1>t. TypeOK /\ (pc # "idle" => cur \in Machines) /\ None \notin pool /\ None \notin pool'
    BY BaseTypes, NoneIsNoBackend
<1>1. ServerLife(n) /\ LBLife
    BY <1>t, ServerLives, LBLives
<1>2. NodeAddr(n)' = None \/ NodeAddr(n)' \notin pool
  <2>1. ~HasPrivateNetwork => ~server[n].nic
    BY DEF AddrInv, ServerAddrs
  <2>2. HasPrivateNetwork => FreePrivAddrs \cap pool = {}
    BY MachinesAssumption DEF FreePrivAddrs, BackendsAreAlive, NodeAddr
  <2>3. NodeAddr(n)' = IF HasPrivateNetwork THEN server'[n].nicIP ELSE server'[n].ip
    BY DEF NodeAddr
  <2>4. QED
    BY <1>1, <2>1, <2>2, <2>3 DEF ServerLife, SameNIC, SameIP, NoServer, NodeAddr
<1>3. CASE JoinBackend
  <2>1. /\ pc \in WithAddress /\ cur \in Machines /\ n # cur
        /\ server' = server
    BY <1>t, <1>3 DEF JoinBackend, WithAddress
  <2>2. NodeIP(snap.int, snap.ip) = NodeAddr(cur) /\ NodeAddr(cur) # NodeAddr(n)
    BY <2>1, WorkerAddress, AddressesDiffer
  <2>3. NodeAddr(n)' = NodeAddr(n)
    BY <2>1 DEF NodeAddr
  <2>4. pool' \subseteq pool \cup {NodeIP(snap.int, snap.ip)}
    BY <1>3 DEF JoinBackend
  <2>5. QED
    BY <2>2, <2>3, <2>4
<1>4. CASE ~JoinBackend
  <2>1. pool' \subseteq pool
    BY <1>1, <1>4 DEF LBLife
  <2>2. QED
    BY <1>t, <1>2, <2>1
<1>5. QED
    BY <1>3, <1>4

-----------------------------------------------------------------------------
(* The step of TraceInv, part by part *)

\* Nothing is put into a load balancer that is not there.
LEMMA GoneLBNext ==
    ASSUME RefinementInv, GoneLB, [Next]_vars PROVE GoneLB'
<1>1. LBLife /\ lb \in BOOLEAN
    BY LBLives, BaseTypes DEF TypeOK
<1>2. QED
    BY <1>1 DEF LBLife, GoneLB

\* The ACL is removed before the IP is released.
LEMMA ACLsAreAliveNext ==
    ASSUME RefinementInv, AddrInv, TraceInv, [Next]_vars PROVE ACLsAreAlive'
<1>t. /\ TypeOK /\ acl \in [Machines -> PubAddrs \cup {None}]
      /\ (pc # "idle" => cur \in Machines)
    BY BaseTypes
<1> SUFFICES ASSUME NEW n \in Machines, acl'[n] # None PROVE acl'[n] \in ips'[n]
    BY DEF ACLsAreAlive
<1>1. LBLife /\ IPLife(n)
    BY LBLives, IPLives
<1>2. CASE EnsureACL /\ n = cur
  <2>1. ips' = ips /\ (acl' = acl \/ acl' = [acl EXCEPT ![cur] = snap.ip])
    BY <1>2 DEF EnsureACL
  <2>2. snap.ip = server[n].ip
    BY <1>2 DEF EnsureACL, AddrInv, WorkerServer, WithServer
  <2>3. server[n].ip # None => server[n].ip \in ips[n]
    BY DEF AddrInv, ServerAddrs
  <2>4. acl[n] # None => acl[n] \in ips[n]
    BY DEF TraceInv, ACLsAreAlive
  <2>5. QED
    BY <1>2, <1>t, <2>1, <2>2, <2>3, <2>4
<1>3. CASE ~(EnsureACL /\ n = cur)
  <2>1. acl'[n] = acl[n]
    BY <1>1, <1>3, <1>t DEF LBLife
  <2>2. acl[n] \in ips[n]
    BY <2>1 DEF TraceInv, ACLsAreAlive
  <2>3. ~(DeleteIP /\ n = cur)
    BY <2>1 DEF DeleteIP, TraceInv, DeleteLeavesLB
  <2>4. QED
    BY <1>1, <2>1, <2>2, <2>3 DEF IPLife
<1>4. QED
    BY <1>2, <1>3

\* The backend is left before the address is released and before the server goes.
LEMMA BackendsAreAliveNext ==
    ASSUME RefinementInv, AddrInv, TraceInv, [Next]_vars PROVE BackendsAreAlive'
<1>t. /\ TypeOK /\ TypeOK' /\ server \in [Machines -> Servers] /\ server' \in [Machines -> Servers]
      /\ (pc # "idle" => cur \in Machines) /\ None \notin pool
    BY BaseTypes, NoneIsNoBackend, TypeNext DEF RefinementInv, TypeInv, TypeOK
<1> SUFFICES ASSUME NEW a \in pool'
             PROVE  \E m \in ControlPlane : server'[m].state \notin Ending /\ a = NodeAddr(m)'
    BY <1>t, MachinesAssumption DEF BackendsAreAlive, Servers, ServerStates, Ending
<1>1. LBLife
    BY LBLives
<1>2. CASE JoinBackend /\ a \notin pool
  <2>1. /\ server' = server /\ pc \in WithAddress /\ pc \in WithServer /\ cur \in ControlPlane
        /\ pool' = pool \cup {NodeIP(snap.int, snap.ip)}
    BY <1>1, <1>2 DEF LBLife, JoinBackend, WithAddress, WithServer, IsControlPlane
  <2>2. a = NodeAddr(cur)
    BY <1>2, <2>1, WorkerAddress
  <2>3. server[cur].state \notin Ending
    BY <2>1 DEF AddrInv, WorkerServer, InUse, Ending
  <2>4. PICK c \in ControlPlane : c = cur
    BY <2>1
  <2>5. server'[c].state \notin Ending /\ a = NodeAddr(c)'
    BY <2>1, <2>2, <2>3, <2>4 DEF NodeAddr
  <2>6. QED
    BY <2>5
<1>3. CASE a \in pool
  <2>1. PICK m \in ControlPlane : InUse(m) /\ a = NodeAddr(m)
    BY <1>3, MachinesAssumption DEF TraceInv, BackendsAreAlive, InUse
  <2>2. m \in Machines /\ server[m].state \notin Ending
    BY <2>1, MachinesAssumption DEF InUse, Ending
  <2>3. ServerLife(m)
    BY <1>t, <2>2, ServerLives
  <2>4. ~(m = cur /\ (DeleteIP \/ DeleteServer \/ TerminateServer))
    BY <1>3, <2>1 DEF DeleteIP, DeleteServer, TerminateServer, TraceInv, DeleteLeavesLB, AfterRelease
  <2>5. server'[m].state \notin Ending
    BY <2>2, <2>3, <2>4 DEF ServerLife, SameState, Ending
  <2>6. ~HasPrivateNetwork => ~server[m].nic
    BY <2>2 DEF AddrInv, ServerAddrs
  <2>7. NodeAddr(m) # None
    BY <1>t, <1>3, <2>1
  <2>8. NodeAddr(m)' = IF HasPrivateNetwork THEN server'[m].nicIP ELSE server'[m].ip
    BY DEF NodeAddr
  <2>9. NodeAddr(m)' = NodeAddr(m)
    BY <2>2, <2>3, <2>4, <2>6, <2>7, <2>8 DEF ServerLife, SameNIC, SameIP, NodeAddr, Ending
  <2>10. QED
    BY <2>1, <2>5, <2>9
<1>4. QED
    BY <1>1, <1>2, <1>3 DEF LBLife

\* A server is told to go only after its machine has left the load balancer.
LEMMA EndingLeavesNoTraceNext ==
    ASSUME RefinementInv, AddrInv, TraceInv, [Next]_vars PROVE EndingLeavesNoTrace'
<1>t. /\ TypeOK /\ acl \in [Machines -> PubAddrs \cup {None}] /\ (pc # "idle" => cur \in Machines)
    BY BaseTypes
<1> SUFFICES ASSUME NEW n \in Machines, server'[n].state \in Ending
             PROVE  acl'[n] = None /\ (n \in ControlPlane => NodeAddr(n)' \notin pool')
    BY DEF EndingLeavesNoTrace
<1>1. LBLife /\ ServerLife(n)
    BY <1>t, LBLives, ServerLives
<1>2. acl[n] = None /\ (n \in ControlPlane => NodeAddr(n) \notin pool)
  <2>1. CASE server[n].state \in Ending
    BY <2>1 DEF TraceInv, EndingLeavesNoTrace
  <2>2. CASE server[n].state \notin Ending
    <3>1. n = cur /\ (DeleteServer \/ TerminateServer)
      BY <1>1, <2>2 DEF ServerLife, SameState, Ending
    <3>2. QED
      BY <3>1 DEF DeleteServer, TerminateServer, TraceInv, DeleteLeavesLB, AfterRelease
  <2>3. QED
    BY <2>1, <2>2
<1>3. n = cur => ~EnsureACL /\ ~JoinBackend /\ ~CreateServer
  <2>1. ASSUME n = cur, EnsureACL \/ JoinBackend PROVE FALSE
    <3>1. pc \in WithServer /\ server' = server
      BY <2>1 DEF EnsureACL, JoinBackend, WithServer
    <3>2. QED
      BY <2>1, <3>1 DEF AddrInv, WorkerServer, InUse, Ending
  <2>2. ASSUME n = cur, CreateServer PROVE FALSE
    BY <1>t, <2>2, CreatedServer DEF Ending
  <2>3. QED
    BY <2>1, <2>2
<1>4. acl'[n] = None
    BY <1>1, <1>2, <1>3, <1>t DEF LBLife
<1>5. n \in ControlPlane => NodeAddr(n)' \notin pool'
    BY <1>2, <1>3, NotABackend DEF TraceInv
<1>6. QED
    BY <1>4, <1>5

\* What Delete has removed from the load balancer is not put back.
LEMMA DeleteLeavesLBNext ==
    ASSUME RefinementInv, AddrInv, TraceInv, [Next]_vars PROVE DeleteLeavesLB'
<1>t. /\ TypeOK /\ acl \in [Machines -> PubAddrs \cup {None}] /\ (pc # "idle" => cur \in Machines)
      /\ None \notin pool /\ None \notin pool' /\ lb \in BOOLEAN
    BY BaseTypes, NoneIsNoBackend DEF TypeOK
<1> DEFINE NoACL == AfterRelease \cup {"delBackend", "delIP"}
           NoBackend == AfterRelease \cup {"delIP"}
<1>1. LBLife
    BY LBLives
<1>2. cur' = cur \/ pc' \notin NoACL
    BY Moves DEF Move, Goes, Reconcile, AfterRelease
<1>3. pc' \in NoACL => pc \in NoACL \/ (DeleteACL /\ pc' = "delBackend")
    BY Moves DEF Move, Goes, Reconcile, AfterRelease, GetServer, CreateServer, GetMachineIPs, FindServer,
       DetachVolume
<1>4. pc' \in NoBackend => pc \in NoBackend \/ (LeaveBackend /\ pc' = "delIP")
    BY Moves DEF Move, Goes, Reconcile, AfterRelease, GetServer, CreateServer, GetMachineIPs, FindServer,
       DetachVolume
<1>5. ASSUME pc' \in NoACL PROVE acl'[cur] = None
  <2>1. CASE DeleteACL
    <3>1. cur \in Machines /\ ((~lb /\ acl' = acl) \/ acl' = [acl EXCEPT ![cur] = None])
      BY <1>t, <2>1 DEF DeleteACL
    <3>2. QED
      BY <1>t, <3>1 DEF TraceInv, GoneLB
  <2>2. CASE pc \in NoACL
    <3>1. acl[cur] = None /\ cur \in Machines /\ ~EnsureACL
      BY <1>t, <2>2 DEF TraceInv, DeleteLeavesLB, EnsureACL, AfterRelease
    <3>2. QED
      BY <1>1, <1>t, <3>1 DEF LBLife
  <2>3. QED
    BY <1>3, <1>5, <2>1, <2>2
<1>6. ASSUME NEW c \in ControlPlane, c = cur, pc' \in NoBackend PROVE NodeAddr(c)' \notin pool'
  <2>0. c \in Machines
    BY MachinesAssumption
  <2>1. CASE pc \in NoBackend
    <3>1. NodeAddr(c) \notin pool /\ ~CreateServer /\ ~JoinBackend
      BY <1>6, <2>1 DEF TraceInv, DeleteLeavesLB, CreateServer, JoinBackend, AfterRelease
    <3>2. QED
      BY <2>0, <3>1, NotABackend DEF TraceInv
  <2>2. CASE LeaveBackend /\ pc' = "delIP"
    <3>1. pc = "delBackend" /\ server' = server
      BY <2>2 DEF LeaveBackend
    <3>2. snap.ip = server[c].ip
      BY <1>6, <3>1 DEF AddrInv, WorkerServer, BeforeRelease
    <3>3. \/ MachineHasNoIP /\ pool' = pool
          \/ ~lb /\ pool' = pool
          \/ ~PrivateIPMissing /\ pool' = pool \ {NodeIP(server[cur].nicIP, snap.ip)}
      BY <1>6, <2>2 DEF LeaveBackend, IsControlPlane, Return, Proceed
    <3>4. NodeAddr(c)' = NodeAddr(c)
      BY <3>1 DEF NodeAddr
    <3>5. CASE MachineHasNoIP /\ pool' = pool
      BY <1>t, <3>2, <3>4, <3>5 DEF MachineHasNoIP, NodeAddr
    <3>6. CASE ~lb /\ pool' = pool
      BY <3>6 DEF TraceInv, GoneLB
    <3>7. CASE ~PrivateIPMissing /\ pool' = pool \ {NodeIP(server[cur].nicIP, snap.ip)}
      BY <1>6, <3>1, <3>4, <3>7, WorkerAddress
    <3>8. QED
      BY <3>3, <3>5, <3>6, <3>7
  <2>3. QED
    BY <1>4, <1>6, <2>1, <2>2
<1>7. QED
  <2>1. pc' \in NoACL => acl'[cur'] = None
    BY <1>2, <1>5
  <2>2. ASSUME pc' \in NoBackend, cur' \in ControlPlane PROVE NodeAddr(cur)' \notin pool'
    <3>1. PICK c \in ControlPlane : c = cur'
      BY <2>2
    <3>2. c = cur
      BY <1>2, <2>2, <3>1
    <3>3. NodeAddr(c)' \notin pool'
      BY <1>6, <2>2, <3>2
    <3>4. QED
      BY <3>1, <3>3 DEF NodeAddr
  <2>3. QED
    BY <2>1, <2>2 DEF DeleteLeavesLB

\* There is no load balancer at the start.
LEMMA TraceInit == Init => TraceInv
  BY AddrAssumption
  DEF Init, TraceInv, GoneLB, ACLsAreAlive, BackendsAreAlive, EndingLeavesNoTrace, DeleteLeavesLB,
      AfterRelease

\* Every step keeps the invariant.
LEMMA TraceNext == RefinementInv /\ AddrInv /\ TraceInv /\ [Next]_vars => TraceInv'
<1> SUFFICES ASSUME RefinementInv, AddrInv, TraceInv, [Next]_vars PROVE TraceInv'
    OBVIOUS
<1>1. GoneLB'
    BY GoneLBNext DEF TraceInv
<1>2. QED
    BY <1>1, ACLsAreAliveNext, BackendsAreAliveNext, EndingLeavesNoTraceNext, DeleteLeavesLBNext DEF TraceInv

\* It is an invariant.
LEMMA TraceInvariant == Spec => []TraceInv
  BY BaseInvariant, AddrInvariant, TraceInit, TraceNext, PTL DEF Spec

\* An ACL of the load balancer allows only an address its machine still holds: Delete removes
\* the ACL before it releases the flexible IP, which may be handed out to somebody else.
THEOREM OnlyHeldIPsAllowed == Spec => []ACLsAreAlive
<1>1. TraceInv => ACLsAreAlive
    BY DEF TraceInv
<1>2. QED
    BY <1>1, TraceInvariant, PTL

\* A backend of the load balancer is the address of a control-plane server in use: Delete
\* leaves the backend before the address is released and before the server goes.
THEOREM OnlyLiveBackends == Spec => []BackendsAreAlive
<1>1. TraceInv => BackendsAreAlive
    BY DEF TraceInv
<1>2. QED
    BY <1>1, TraceInvariant, PTL

\* A machine that is gone is not in the load balancer, however many attempts its Delete took.
THEOREM GoneLeavesNoTrace == Spec => []NoTraceInLoadBalancer
<1>1. RefinementInv /\ TraceInv => NoTraceInLoadBalancer
    BY DEF RefinementInv, FinalizerInv, FinalizerGuardsServer, TraceInv, EndingLeavesNoTrace, Ending,
           NoTraceInLoadBalancer
<1>2. QED
    BY <1>1, BaseInvariant, TraceInvariant, PTL

=============================================================================
