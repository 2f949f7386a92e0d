------------------------- MODULE ScalewayMachineBoot -------------------------
(***************************************************************************)
(* Proofs about the boot of a server, for any number of machines and       *)
(* addresses:                                                              *)
(*                                                                         *)
(*   UserDataFirst   a server that was powered on has its user data, made  *)
(*                   with the address the node has;                        *)
(*   LetInFirst      a server that was powered on is in the backend and    *)
(*                   in the ACLs of the load balancer, while there is one; *)
(*   ReadyIsStarted  a machine that is reported ready has been powered on. *)
(*                                                                         *)
(* They rest on one invariant that says what the worker has done at each   *)
(* of its steps, and that nothing undoes it as long as the machine is      *)
(* built: Delete only runs for machines that are not.                      *)
(***************************************************************************)
EXTENDS ScalewayMachineAddresses

-----------------------------------------------------------------------------
(* The boot of a server *)

\* No worker builds before the infrastructure of the cluster is ready, and it stays so.
InfraOnce ==
    /\ pc \in NormalPCs \ {"finalizer"} => snap.infraReady
    /\ pc \in NormalPCs /\ snap.infraReady => infraReady
    /\ \A m \in Machines : InUse(m) => infraReady

\* Is machine m let in by the load balancer?
LetIn(m) ==
    lb => /\ m \in ControlPlane => NodeAddr(m) \in pool
          /\ server[m].ip # None => acl[m] = server[m].ip

\* A started server has its user data, and can reach the load balancer.
Booted ==
    \A m \in Machines :
        /\ Started(m) => server[m].cloudInit # None
        /\ Building(m) /\ server[m].cloudInit # None => server[m].cloudInit = NodeAddr(m)
        /\ Building(m) /\ Started(m) => LetIn(m)

\* What the worker has done before it starts the server.
WorkerBoots ==
    /\ pc \in WithServer \ {"publish"} /\ SnapStopped => server[cur].state = "stopped"
    /\ pc \in WithServer /\ ~SnapStopped => Started(cur)
    /\ pc \in {"acl", "cloudinit", "start", "publish"} /\ lb /\ cur \in ControlPlane =>
           NodeAddr(cur) \in pool
    /\ pc \in {"cloudinit", "start", "publish"} => LetIn(cur)
    /\ pc \in {"start", "publish"} => server[cur].cloudInit # None
    /\ pc = "publish" => Started(cur)

\* What status.ready stands for, in the object and in the memory of the worker.
ReadyInv ==
    \A m \in Machines :
        ~obj[m].deleting /\ (obj[m].f.ready \/ (cur = m /\ mem.ready)) => Started(m)

BootInv == InfraOnce /\ Booted /\ WorkerBoots /\ ReadyInv

-----------------------------------------------------------------------------
(* What a step does to a machine that is being built *)

\* A server in use keeps its addresses, its user data and its state or goes on booting.
LEMMA BuiltServerKept ==
    ASSUME RefinementInv, AddrInv, [Next]_vars, NEW n \in Machines, Building(n)', InUse(n)
    PROVE  /\ server'[n].ip = server[n].ip
           /\ NodeAddr(n) # None => NodeAddr(n)' = NodeAddr(n)
           /\ InUse(n)'
           /\ Started(n) => Started(n)'
           /\ server'[n].cloudInit = server[n].cloudInit \/ (EnsureCloudInit /\ n = cur)
           /\ \/ server'[n].state = server[n].state
              \/ Started(n) /\ Started(n)'
              \/ EnsureServerStarted /\ n = cur /\ Started(n)'
<1>t. TypeOK
    BY BaseTypes
<1>1. ServerLife(n)
    BY <1>t, ServerLives
<1>2. ~(n = cur /\ (DeleteIP \/ DeleteServer \/ TerminateServer))
    BY DeleteIsFinal, DeleteSteps
<1>3. server[n].state \notin {"none", "stopping"}
    BY DEF InUse
<1>4. ~HasPrivateNetwork => ~server[n].nic
    BY DEF AddrInv, ServerAddrs
<1>5. server'[n].ip = server[n].ip
    BY <1>1, <1>2, <1>3 DEF ServerLife, SameIP
<1>6. NodeAddr(n) # None => NodeAddr(n)' = NodeAddr(n)
  <2>1. NodeAddr(n)' = IF HasPrivateNetwork THEN server'[n].nicIP ELSE server'[n].ip
    BY DEF NodeAddr
  <2>2. QED
    BY <1>1, <1>2, <1>3, <1>4, <2>1 DEF ServerLife, SameIP, SameNIC, NodeAddr
<1>7. server'[n].cloudInit = server[n].cloudInit \/ (EnsureCloudInit /\ n = cur)
    BY <1>1, <1>2, <1>3 DEF ServerLife, SameCloudInit
<1>8. \/ server'[n].state = server[n].state
      \/ server[n].state = "starting" /\ server'[n].state = "running"
      \/ EnsureServerStarted /\ n = cur /\ server'[n].state = "starting"
    BY <1>1, <1>2, <1>3 DEF ServerLife, SameState
<1>9. QED
    BY <1>3, <1>5, <1>6, <1>7, <1>8 DEF Started, InUse

\* The load balancer appears before the infrastructure is ready.
LEMMA NoNewLB ==
    ASSUME [Next]_vars, infraReady
    PROVE  lb' => lb
  BY WhoWrites DEF Writers, SetInfrastructureReady, LoadBalancerDeleted

\* A node that is a backend stays one.
LEMMA BackendKept ==
    ASSUME RefinementInv, AddrInv, InfraOnce, [Next]_vars, NEW n \in Machines, Building(n)', InUse(n),
           NodeAddr(n) # None, lb => NodeAddr(n) \in pool
    PROVE  lb' => NodeAddr(n)' \in pool'
<1>1. infraReady /\ NodeAddr(n)' = NodeAddr(n) /\ (lb' => lb)
    BY BuiltServerKept, NoNewLB DEF InfraOnce
<1>2. CASE LeaveBackend
  <2>1. pc \in DeletePCs /\ pc = "delBackend"
    BY <1>2, DeleteSteps DEF LeaveBackend
  <2>2. n # cur /\ cur \in Machines
    BY <2>1, DeleteIsFinal, BaseTypes
  <2>3. \/ pool' = pool
        \/ ~PrivateIPMissing /\ pool' = pool \ {NodeIP(server[cur].nicIP, snap.ip)}
    BY <1>2 DEF LeaveBackend
  <2>4. NodeAddr(n) # NodeAddr(cur)
    BY <2>2, AddressesDiffer
  <2>5. QED
    BY <1>1, <2>1, <2>3, <2>4, WorkerAddress
<1>3. CASE ~LeaveBackend
  <2>1. LBLife
    BY LBLives
  <2>2. (lb' => pool \subseteq pool')
    BY <1>3, <2>1 DEF LBLife
  <2>3. QED
    BY <1>1, <2>2
<1>4. QED
    BY <1>2, <1>3

\* A node that the load balancer lets in stays let in.
LEMMA LetInKept ==
    ASSUME RefinementInv, AddrInv, InfraOnce, [Next]_vars, NEW n \in Machines, Building(n)', InUse(n),
           NodeAddr(n) # None, LetIn(n)
    PROVE  LetIn(n)'
<1>t. acl \in [Machines -> PubAddrs \cup {None}]
    BY BaseTypes
<1>1. infraReady /\ server'[n].ip = server[n].ip /\ (lb' => lb)
    BY BuiltServerKept, NoNewLB DEF InfraOnce
<1>2. n \in ControlPlane => (lb' => NodeAddr(n)' \in pool')
    BY BackendKept DEF LetIn
<1>3. ASSUME lb', server[n].ip # None PROVE acl'[n] = server[n].ip
  <2>1. LBLife /\ acl[n] = server[n].ip
    BY <1>1, <1>3, LBLives DEF LetIn
  <2>2. DeleteACL => n # cur
    BY DeleteSteps, DeleteIsFinal
  <2>3. EnsureACL => snap.ip = server[cur].ip
    BY DEF EnsureACL, AddrInv, WorkerServer, WithServer
  <2>4. QED
    BY <1>3, <1>t, <2>1, <2>2, <2>3 DEF LBLife
<1>4. QED
    BY <1>1, <1>2, <1>3 DEF LetIn

-----------------------------------------------------------------------------
(* The step of BootInv, part by part *)

\* A worker builds only behind the gate of the infrastructure, which never closes.
LEMMA InfraOnceNext ==
    ASSUME RefinementInv, AddrInv, InfraOnce, [Next]_vars PROVE InfraOnce'
<1>t. /\ TypeOK /\ snap \in Snaps /\ server \in [Machines -> Servers]
      /\ infraReady \in BOOLEAN /\ network \in BOOLEAN
    BY BaseTypes DEF TypeOK
<1>1. infraReady => infraReady'
    BY WhoWrites DEF Writers, SetInfrastructureReady
<1>2. ASSUME NEW n \in Machines, InUse(n)' PROVE infraReady'
  <2>1. ServerLife(n)
    BY <1>t, ServerLives
  <2>2. InUse(n) \/ (CreateServer /\ n = cur) \/ (EnsureServerStarted /\ n = cur)
    BY <1>2, <2>1 DEF ServerLife, SameState, InUse, NoServer
  <2>3. CreateServer \/ EnsureServerStarted => infraReady
    BY DEF CreateServer, EnsureServerStarted, InfraOnce, NormalPCs
  <2>4. QED
    BY <1>1, <2>2, <2>3 DEF InfraOnce
<1>3. /\ pc' \in NormalPCs \ {"finalizer"} => snap'.infraReady
      /\ pc' \in NormalPCs /\ snap'.infraReady => infraReady'
  <2>1. ASSUME NEW m \in Machines, Reconcile(m)
        PROVE  pc' \in {"find", "finalizer"} /\ snap'.infraReady = infraReady
    BY <2>1 DEF Reconcile, NoSnap
  <2>2. GetServer \/ CreateServer \/ GetMachineIPs => pc \in NormalPCs \ {"finalizer"}
    BY DEF GetServer, CreateServer, GetMachineIPs, NormalPCs
  <2>3. GetServer \/ GetMachineIPs => snap'.infraReady = snap.infraReady
    BY <1>t DEF GetServer, GetMachineIPs, Snapshot, Snaps
  <2>4. CreateServer => snap'.infraReady = snap.infraReady
    <3>1. CreateServer =>
             \E a : snap' = [snap EXCEPT !.state = "stopped", !.ip = a, !.boot = TRUE]
      BY DEF CreateServer
    <3>2. QED
      BY <1>t, <3>1 DEF Snaps
  <2>5. pc' \in NormalPCs =>
           \/ \E m \in Machines : Reconcile(m)
           \/ /\ snap'.infraReady = snap.infraReady
              /\ pc \in NormalPCs
              /\ pc = "finalizer" => pc' = "finalizer" \/ snap.infraReady
    BY <2>2, <2>3, <2>4, Moves DEF Move, Goes, NormalPCs
  <2>6. QED
    BY <1>1, <2>1, <2>5 DEF InfraOnce, NormalPCs
<1>4. QED
    BY <1>2, <1>3 DEF InfraOnce

\* The worker stores the user data and opens the load balancer before it starts the server, and
\* nothing undoes that before the machine is deleted.
LEMMA BootedNext ==
    ASSUME RefinementInv, AddrInv, BootInv, [Next]_vars PROVE Booted'
<1>t. TypeOK /\ server \in [Machines -> Servers] /\ (pc # "idle" => cur \in Machines)
    BY BaseTypes
<1>b. Booted /\ InfraOnce /\ WorkerBoots
    BY DEF BootInv
<1> SUFFICES ASSUME NEW n \in Machines
             PROVE  /\ Started(n)' => server'[n].cloudInit # None
                    /\ Building(n)' /\ server'[n].cloudInit # None =>
                           server'[n].cloudInit = NodeAddr(n)'
                    /\ Building(n)' /\ Started(n)' => LetIn(n)'
    BY DEF Booted
<1>1. ServerLife(n)
    BY <1>t, ServerLives
<1>2. EnsureCloudInit => /\ pc \in WithServer /\ NodeIP(snap.int, snap.ip) = NodeAddr(cur)
                         /\ NodeAddr(cur) # None /\ InUse(cur)
    BY WorkerAddress DEF EnsureCloudInit, WithServer, WithAddress, AddrInv, WorkerServer
<1>3. EnsureServerStarted => server[cur].cloudInit # None /\ LetIn(cur) /\ InUse(cur)
    BY <1>b DEF EnsureServerStarted, WorkerBoots, AddrInv, WorkerServer, WithServer
<1>4. Started(n)' => server'[n].cloudInit # None
  <2>1. Started(n) => server[n].cloudInit # None
    BY <1>b DEF Booted
  <2>2. QED
    BY <1>1, <1>2, <1>3, <2>1 DEF ServerLife, SameState, SameCloudInit, Started, NoServer
<1>5. ASSUME Building(n)', server'[n].cloudInit # None PROVE server'[n].cloudInit = NodeAddr(n)'
  <2>1. Building(n)
    BY <1>5, BuildingBack
  <2>2. CASE InUse(n)
    <3>1. CASE server'[n].cloudInit = server[n].cloudInit
      <4>1. server[n].cloudInit = NodeAddr(n) /\ NodeAddr(n) # None
        BY <1>5, <1>b, <2>1, <3>1 DEF Booted
      <4>2. QED
        BY <1>5, <2>2, <3>1, <4>1, BuiltServerKept
    <3>2. CASE server'[n].cloudInit # server[n].cloudInit
      <4>1. EnsureCloudInit /\ n = cur
        BY <1>5, <2>2, <3>2, BuiltServerKept
      <4>2. server' = server \/ server' = [server EXCEPT ![n].cloudInit = NodeIP(snap.int, snap.ip)]
        BY <4>1 DEF EnsureCloudInit
      <4>3. server'[n].cloudInit = NodeIP(snap.int, snap.ip)
        BY <1>t, <3>2, <4>2 DEF Servers
      <4>4. NodeAddr(n)' = NodeAddr(n)
        BY <1>2, <1>5, <2>2, <4>1, BuiltServerKept
      <4>5. QED
        BY <1>2, <4>1, <4>3, <4>4
    <3>3. QED
      BY <3>1, <3>2
  <2>3. CASE ~InUse(n)
    <3>1. server[n].state = "none" /\ server[n].cloudInit = None
      BY <2>1, <2>3 DEF InUse, AddrInv, NothingDying, ServerAddrs
    <3>2. ~(EnsureCloudInit /\ n = cur)
      BY <1>2, <2>3
    <3>3. QED
      BY <1>1, <1>5, <3>1, <3>2 DEF ServerLife, SameCloudInit, NoServer
  <2>4. QED
    BY <2>2, <2>3
<1>6. ASSUME Building(n)', Started(n)' PROVE LetIn(n)'
  <2>1. Building(n)
    BY <1>6, BuildingBack
  <2>2. CASE Started(n)
    <3>1. InUse(n) /\ LetIn(n) /\ NodeAddr(n) # None
      BY <1>b, <2>1, <2>2 DEF Booted, Started, InUse
    <3>2. QED
      BY <1>6, <1>b, <3>1, LetInKept
  <2>3. CASE ~Started(n)
    <3>1. EnsureServerStarted /\ n = cur
      BY <1>1, <1>6, <2>3 DEF ServerLife, SameState, Started, NoServer
    <3>2. InUse(n) /\ LetIn(n) /\ NodeAddr(n) # None
      BY <1>3, <3>1, WorkerAddress DEF EnsureServerStarted, WithAddress
    <3>3. QED
      BY <1>6, <1>b, <3>2, LetInKept
  <2>4. QED
    BY <2>2, <2>3
<1>7. QED
    BY <1>4, <1>5, <1>6

\* What the worker has done stays done while it goes on.
LEMMA WorkerBootsNext ==
    ASSUME RefinementInv, AddrInv, BootInv, [Next]_vars PROVE WorkerBoots'
<1>t. /\ TypeOK /\ server \in [Machines -> Servers] /\ snap \in Snaps
      /\ (pc # "idle" => cur \in Machines)
    BY BaseTypes
<1>b. Booted /\ InfraOnce /\ WorkerBoots
    BY DEF BootInv
<1> SUFFICES ASSUME pc' \in WithServer PROVE WorkerBoots'
    BY DEF WorkerBoots, WithServer
<1>m. /\ cur' = cur /\ cur \in Machines /\ pc \in NormalPCs
      /\ \/ pc' = pc /\ snap' = snap
         \/ GetServer /\ pc' = "nic"
         \/ CreateServer /\ pc' = "nic"
         \/ GetOrCreatePrivateNIC /\ Goes("nic", "addrs")
         \/ GetMachineIPs /\ pc' = "backend"
         \/ JoinBackend /\ Goes("backend", "acl")
         \/ EnsureACL /\ Goes("acl", "cloudinit")
         \/ EnsureCloudInit /\ Goes("cloudinit", "start")
         \/ EnsureServerStarted /\ Goes("start", "publish")
    BY <1>t, Moves DEF Move, Goes, Reconcile, WithServer, NormalPCs, GetServer, CreateServer, GetMachineIPs
<1>1. PICK c \in Machines : c = cur /\ c = cur'
    BY <1>m
<1>2. Building(c)'
    BY <1>1 DEF Building, WithServer, NormalPCs
<1>3. SUFFICES
      /\ pc' # "publish" /\ snap'.state = "stopped" => server'[c].state = "stopped"
      /\ snap'.state # "stopped" => Started(c)'
      /\ pc' \in {"acl", "cloudinit", "start", "publish"} /\ lb' /\ c \in ControlPlane =>
             NodeAddr(c)' \in pool'
      /\ pc' \in {"cloudinit", "start", "publish"} => LetIn(c)'
      /\ pc' \in {"start", "publish"} => server'[c].cloudInit # None
      /\ pc' = "publish" => Started(c)'
  <2>1. /\ server'[cur'] = server'[c] /\ (NodeAddr(cur)' = NodeAddr(c)')
        /\ (Started(cur)' = Started(c)') /\ (LetIn(cur)' = LetIn(c)')
    BY <1>1 DEF NodeAddr, Started, LetIn
  <2>2. QED
    BY <1>1, <1>3, <2>1 DEF WorkerBoots, SnapStopped
<1>4. CASE GetServer /\ pc' = "nic"
  <2>1. server' = server /\ snap' = Snapshot(c) /\ server[c].state # "none" /\ Building(c)
    BY <1>1, <1>2, <1>4, BuildingBack DEF GetServer, cloud
  <2>2. snap'.state = server[c].state
    BY <1>t, <2>1 DEF Snapshot, Snaps
  <2>3. server[c].state \in ServerStates /\ server[c].state # "stopping"
    BY <1>t, <2>1 DEF AddrInv, NothingDying, Servers
  <2>4. QED
    BY <1>4, <2>1, <2>2, <2>3 DEF Started, ServerStates
<1>5. CASE CreateServer /\ pc' = "nic"
    BY <1>1, <1>5, <1>t, CreatedServer
<1>6. CASE pc \in WithServer
  <2>1. InUse(c)
    BY <1>1, <1>6 DEF AddrInv, WorkerServer
  <2>2. pc \in WithAddress =>
           NodeAddr(c) # None /\ NodeIP(snap.int, snap.ip) = NodeAddr(c) /\ NodeAddr(c)' = NodeAddr(c)
    BY <1>1, <1>2, <2>1, WorkerAddress, BuiltServerKept
  <2>3. snap'.state = snap.state
    <3>1. ~GetServer /\ ~CreateServer
      BY <1>6 DEF GetServer, CreateServer, WithServer
    <3>2. GetMachineIPs => snap'.state = snap.state
      BY <1>t DEF GetMachineIPs, Snaps
    <3>3. QED
      BY <1>m, <3>1, <3>2 DEF Goes
  <2>4. \/ server'[c].state = server[c].state
        \/ Started(c) /\ Started(c)'
        \/ EnsureServerStarted /\ Started(c)'
    BY <1>2, <2>1, BuiltServerKept
  <2>5. pc' # "publish" => pc # "publish" /\ ~EnsureServerStarted
    <3>1. pc = "publish" => pc' = "publish"
      BY <1>m DEF Goes, GetServer, CreateServer, GetMachineIPs
    <3>2. EnsureServerStarted => pc' \in {"publish", "close"}
      BY DEF EnsureServerStarted, Proceed, Reply, CallFails
    <3>3. QED
      BY <3>1, <3>2 DEF WithServer
  <2>6. pc' # "publish" /\ snap'.state = "stopped" => server'[c].state = "stopped"
    <3> SUFFICES ASSUME pc' # "publish", snap'.state = "stopped" PROVE server'[c].state = "stopped"
      OBVIOUS
    <3>1. server[c].state = "stopped"
      BY <1>1, <1>6, <1>b, <2>3, <2>5 DEF WorkerBoots, SnapStopped
    <3>2. QED
      BY <2>4, <2>5, <3>1 DEF Started
  <2>7. snap'.state # "stopped" => Started(c)'
    BY <1>1, <1>2, <1>6, <1>b, <2>1, <2>3, BuiltServerKept DEF WorkerBoots, SnapStopped
  <2>8. ASSUME pc' \in {"acl", "cloudinit", "start", "publish"}, lb', c \in ControlPlane
        PROVE  NodeAddr(c)' \in pool'
    <3>1. CASE JoinBackend /\ Goes("backend", "acl")
      <4>1. pool' = pool \cup {NodeIP(snap.int, snap.ip)} /\ pc \in WithAddress
        BY <1>1, <2>8, <3>1 DEF JoinBackend, IsControlPlane, Goes, Return, Proceed, WithAddress
      <4>2. QED
        BY <2>2, <4>1
    <3>2. CASE ~(JoinBackend /\ Goes("backend", "acl"))
      <4>1. pc \in {"acl", "cloudinit", "start", "publish"}
        BY <1>m, <2>8, <3>2 DEF Goes
      <4>2. lb => NodeAddr(c) \in pool
        BY <1>1, <1>b, <2>8, <4>1 DEF WorkerBoots
      <4>3. pc \in WithAddress
        BY <4>1 DEF WithAddress
      <4>4. QED
        BY <1>2, <1>b, <2>1, <2>2, <2>8, <4>2, <4>3, BackendKept
    <3>3. QED
      BY <3>1, <3>2
  <2>9. ASSUME pc' \in {"cloudinit", "start", "publish"} PROVE LetIn(c)'
    <3>1. CASE EnsureACL /\ Goes("acl", "cloudinit")
      <4>1. /\ lb /\ lb' = lb /\ server' = server /\ pool' = pool
            /\ acl' = [acl EXCEPT ![cur] = snap.ip] /\ acl \in [Machines -> PubAddrs \cup {None}]
        BY <3>1, BaseTypes DEF EnsureACL, Goes, Return
      <4>2. acl'[c] = server[c].ip
        BY <1>1, <1>6, <4>1 DEF AddrInv, WorkerServer
      <4>3. QED
        BY <2>8, <2>9, <4>1, <4>2 DEF LetIn
    <3>2. CASE ~(EnsureACL /\ Goes("acl", "cloudinit"))
      <4>1. pc \in {"cloudinit", "start", "publish"}
        BY <1>m, <2>9, <3>2 DEF Goes
      <4>2. LetIn(c) /\ pc \in WithAddress
        BY <1>1, <1>b, <4>1 DEF WorkerBoots, WithAddress
      <4>3. QED
        BY <1>2, <1>b, <2>1, <2>2, <4>2, LetInKept
    <3>3. QED
      BY <3>1, <3>2
  <2>10. ASSUME pc' \in {"start", "publish"} PROVE server'[c].cloudInit # None
    <3>1. CASE EnsureCloudInit /\ Goes("cloudinit", "start")
      <4>1. pc = "cloudinit" /\ pc \in WithAddress
        BY <3>1 DEF Goes, WithAddress
      <4>2. \/ ~SnapStopped /\ server' = server
            \/ server[cur].cloudInit # None /\ server' = server
            \/ server' = [server EXCEPT ![cur].cloudInit = NodeIP(snap.int, snap.ip)]
        BY <3>1 DEF EnsureCloudInit, Goes, Return
      <4>3. ~SnapStopped => server[c].cloudInit # None
        BY <1>1, <1>6, <1>b DEF WorkerBoots, Booted
      <4>4. CASE server' = server
        BY <1>1, <4>2, <4>3, <4>4, <2>2, <4>1, <1>t DEF Servers
      <4>5. CASE server' = [server EXCEPT ![cur].cloudInit = NodeIP(snap.int, snap.ip)]
        <5>1. server'[c].cloudInit = NodeIP(snap.int, snap.ip)
          BY <1>1, <1>t, <4>5 DEF Servers
        <5>2. QED
          BY <2>2, <4>1, <5>1
      <4>6. QED
        BY <4>2, <4>4, <4>5
    <3>2. CASE ~(EnsureCloudInit /\ Goes("cloudinit", "start"))
      <4>1. pc \in {"start", "publish"}
        BY <1>m, <2>10, <3>2 DEF Goes
      <4>2. server[c].cloudInit # None /\ ~EnsureCloudInit
        BY <1>1, <1>b, <4>1 DEF WorkerBoots, EnsureCloudInit
      <4>3. QED
        BY <1>2, <2>1, <4>2, BuiltServerKept
    <3>3. QED
      BY <3>1, <3>2
  <2>11. ASSUME pc' = "publish" PROVE Started(c)'
    <3>1. CASE EnsureServerStarted /\ Goes("start", "publish")
      <4>1. \/ ~SnapStopped /\ server' = server
            \/ server' = [server EXCEPT ![cur].state = "starting"]
        BY <3>1 DEF EnsureServerStarted
      <4>2. ~SnapStopped => Started(c)
        BY <1>1, <1>6, <1>b DEF WorkerBoots
      <4>3. QED
        BY <1>1, <1>t, <4>1, <4>2 DEF Started, Servers
    <3>2. CASE ~(EnsureServerStarted /\ Goes("start", "publish"))
      <4>1. pc = "publish"
        BY <1>m, <2>11, <3>2 DEF Goes
      <4>2. Started(c)
        BY <1>1, <1>b, <4>1 DEF WorkerBoots
      <4>3. QED
        BY <1>2, <2>1, <4>2, BuiltServerKept
    <3>3. QED
      BY <3>1, <3>2
  <2>12. QED
    BY <2>6, <2>7, <2>8, <2>9, <2>10, <2>11
<1>7. QED
  <2>1. pc \in WithServer \/ (GetServer /\ pc' = "nic") \/ (CreateServer /\ pc' = "nic")
    BY <1>m DEF Goes, WithServer, GetMachineIPs
  <2>2. QED
    BY <1>4, <1>5, <1>6, <2>1

-----------------------------------------------------------------------------
(* The status of a machine *)

\* How status.ready gets into the memory of the worker.
ReadyLife ==
    \/ cur' = cur /\ mem'.ready = mem.ready
    \/ cur' = None
    \/ Publish
    \/ \E m \in Machines : Reconcile(m)

\* There is no other way.
LEMMA ReadyLives ==
    ASSUME RefinementInv, [Next]_vars PROVE ReadyLife
<1>t. mem \in Fields
    BY BaseTypes
<1> USE DEF ReadyLife, local
<1>1. CASE HasFinalizer
    BY <1>1 DEF HasFinalizer
<1>2. CASE FinalizerTooLate
    BY <1>2, <1>t DEF FinalizerTooLate, Fields
<1>3. CASE AddFinalizer
    BY <1>3, <1>t DEF AddFinalizer, Fields
<1>4. CASE GetOrCreateIP
    BY <1>4 DEF GetOrCreateIP
<1>5. CASE GetServer
    BY <1>5 DEF GetServer
<1>6. CASE CreateServer
    BY <1>6 DEF CreateServer
<1>7. CASE GetOrCreatePrivateNIC
    BY <1>7 DEF GetOrCreatePrivateNIC
<1>8. CASE GetMachineIPs
    BY <1>8 DEF GetMachineIPs
<1>9. CASE JoinBackend
    BY <1>9 DEF JoinBackend
<1>10. CASE EnsureACL
    BY <1>10 DEF EnsureACL
<1>11. CASE EnsureCloudInit
    BY <1>11 DEF EnsureCloudInit
<1>12. CASE EnsureServerStarted
    BY <1>12 DEF EnsureServerStarted
<1>13. CASE Publish
    BY <1>13 DEF Publish
<1>14. CASE FindServer
    BY <1>14 DEF FindServer
<1>15. CASE DeleteACL
    BY <1>15 DEF DeleteACL
<1>16. CASE LeaveBackend
    BY <1>16 DEF LeaveBackend
<1>17. CASE DeleteIP
    BY <1>17 DEF DeleteIP
<1>18. CASE DetachVolume
    BY <1>18 DEF DetachVolume
<1>19. CASE AllDetached
    BY <1>19 DEF AllDetached
<1>20. CASE DetachBootVolume
    BY <1>20 DEF DetachBootVolume
<1>21. CASE DeleteBootVolume
    BY <1>21 DEF DeleteBootVolume
<1>22. CASE DeleteServer
    BY <1>22 DEF DeleteServer
<1>23. CASE TerminateServer
    BY <1>23 DEF TerminateServer
<1>24. CASE RemoveFinalizer
    BY <1>24, <1>t DEF RemoveFinalizer, Fields
<1>25. CASE AnyCallRefused
    BY <1>25 DEF AnyCallRefused, CallRefused
<1>26. CASE Close
    BY <1>26 DEF Close
<1>27. CASE Crash
    BY <1>27 DEF Crash
<1>28. CASE PeriodicResync
    BY <1>28 DEF PeriodicResync
<1>29. CASE Unpause
    BY <1>29 DEF Unpause
<1>30. CASE SetInfrastructureReady
    BY <1>30 DEF SetInfrastructureReady
<1>31. CASE CacheCatchesUp
    BY <1>31 DEF CacheCatchesUp
<1>32. CASE LoadBalancerDeleted
    BY <1>32 DEF LoadBalancerDeleted
<1>33. ASSUME NEW m \in Machines, SkipReconcile(m) PROVE ReadyLife
    BY <1>33 DEF SkipReconcile
<1>34. ASSUME NEW m \in Machines, GetFails(m) PROVE ReadyLife
    BY <1>34 DEF GetFails
<1>35. ASSUME NEW m \in Machines, ClusterLookupFails(m) PROVE ReadyLife
    BY <1>35 DEF ClusterLookupFails
<1>36. ASSUME NEW m \in Machines, Reconcile(m) PROVE ReadyLife
    BY <1>36 DEF Reconcile
<1>37. ASSUME NEW m \in Machines, SetOwner(m) PROVE ReadyLife
    BY <1>37 DEF SetOwner
<1>38. ASSUME NEW m \in Machines, SetBootstrapData(m) PROVE ReadyLife
    BY <1>38 DEF SetBootstrapData
<1>39. ASSUME NEW m \in Machines, UserEdit(m) PROVE ReadyLife
    BY <1>39 DEF UserEdit
<1>40. ASSUME NEW m \in Machines, UserDelete(m) PROVE ReadyLife
    BY <1>40 DEF UserDelete
<1>41. ASSUME NEW m \in Machines, AssignPrivateIP(m) PROVE ReadyLife
    BY <1>41 DEF AssignPrivateIP
<1>42. ASSUME NEW m \in Machines, ServerBooted(m) PROVE ReadyLife
    BY <1>42 DEF ServerBooted
<1>43. ASSUME NEW m \in Machines, ServerTerminated(m) PROVE ReadyLife
    BY <1>43 DEF ServerTerminated
<1>44. ASSUME NEW m \in Machines, AttachDataVolume(m) PROVE ReadyLife
    BY <1>44 DEF AttachDataVolume
<1>45. CASE UNCHANGED vars
    BY <1>45 DEF vars
<1>46. QED
    BY <1>1, <1>2, <1>3, <1>4, <1>5, <1>6, <1>7, <1>8, <1>9, <1>10, <1>11, <1>12, <1>13, <1>14,
       <1>15, <1>16, <1>17, <1>18, <1>19, <1>20, <1>21, <1>22, <1>23, <1>24, <1>25, <1>26, <1>27,
       <1>28, <1>29, <1>30, <1>31, <1>32, <1>33, <1>34, <1>35, <1>36, <1>37, <1>38, <1>39, <1>40,
       <1>41, <1>42, <1>43, <1>44, <1>45
    DEF Next, Step, NormalStep, DeleteStep, Take, Environment, CloudStep
\* Close stores status.ready as it is in memory, or not at all.
LEMMA PatchedReady ==
    ASSUME mem \in Fields, NEW o \in Objects, NEW x \in BOOLEAN, NEW y \in BOOLEAN
    PROVE  Patched(o, x, y).f.ready = (IF y THEN mem.ready ELSE o.f.ready)
  BY DEF Patched, Objects, Fields

\* How the status.ready of an object changes.
LEMMA StoredReady ==
    ASSUME RefinementInv, [Next]_vars, NEW n \in Machines
    PROVE  obj'[n].f.ready = obj[n].f.ready \/ (n = cur /\ obj'[n].f.ready = mem.ready)
<1>t. obj \in [Machines -> Objects] /\ mem \in Fields
    BY BaseTypes
<1> DEFINE Goal == obj'[n].f.ready = obj[n].f.ready \/ (n = cur /\ obj'[n].f.ready = mem.ready)
<1>1. CASE AddFinalizer
  <2>1. obj' = obj \/ obj' = [obj EXCEPT ![cur].f.finalizer = TRUE]
    BY <1>1 DEF AddFinalizer, StoreFinalizer
  <2>2. QED
    BY <1>t, <2>1 DEF Objects, Fields
<1>2. CASE Close
  <2>1. CASE obj' = [obj EXCEPT ![cur] = obj[cur]]
    BY <1>t, <2>1
  <2>2. ASSUME NEW x \in BOOLEAN, NEW y \in BOOLEAN,
               obj' = [obj EXCEPT ![cur] = Patched(obj[cur], x, y)]
        PROVE  Goal
    <3>1. CASE n # cur
      BY <1>t, <2>2, <3>1
    <3>2. CASE n = cur
      <4>1. obj'[n] = Patched(obj[n], x, y)
        BY <1>t, <2>2, <3>2
      <4>2. obj'[n].f.ready = (IF y THEN mem.ready ELSE obj[n].f.ready)
        BY <1>t, <4>1, PatchedReady
      <4>3. QED
        BY <3>2, <4>2
    <3>3. QED
      BY <3>1, <3>2
  <2>3. QED
    BY <1>2, <2>1, <2>2, CloseObjects
<1>3. ASSUME NEW k \in Machines, UserDelete(k) PROVE Goal
  <2>1. \E e : obj' = [obj EXCEPT ![k].deleting = TRUE, ![k].exists = e]
    BY <1>3 DEF UserDelete
  <2>2. QED
    BY <1>t, <2>1 DEF Objects
<1>4. QED
    BY <1>1, <1>2, <1>3, WhoWrites DEF Writers

\* Reconcile publishes only a server it has started, and nothing stops it afterwards.
LEMMA ReadyNext ==
    ASSUME RefinementInv, AddrInv, BootInv, [Next]_vars PROVE ReadyInv'
<1>t. /\ obj \in [Machines -> Objects] /\ mem \in Fields /\ (pc # "idle" => cur \in Machines)
      /\ None \notin Machines
    BY BaseTypes, AddrAssumption
<1> SUFFICES ASSUME NEW n \in Machines, ~obj'[n].deleting,
                    obj'[n].f.ready \/ (cur' = n /\ mem'.ready)
             PROVE  Started(n)'
    BY DEF ReadyInv
<1>1. ~obj[n].deleting /\ Building(n)'
    BY BuildingBack DEF Building
<1>2. CASE obj[n].f.ready \/ (cur = n /\ mem.ready)
  <2>1. Started(n) /\ InUse(n)
    BY <1>1, <1>2 DEF BootInv, ReadyInv, Started, InUse
  <2>2. QED
    BY <1>1, <2>1, BuiltServerKept
<1>3. CASE ~(obj[n].f.ready \/ (cur = n /\ mem.ready))
  <2>1. ~obj'[n].f.ready
    BY <1>3, StoredReady
  <2>2. cur' = n /\ mem'.ready
    BY <2>1
  <2>3. ASSUME NEW m \in Machines, Reconcile(m) PROVE FALSE
    BY <1>3, <2>2, <2>3 DEF Reconcile
  <2>4. Publish
    BY <1>t, <1>3, <2>2, <2>3, ReadyLives DEF ReadyLife
  <2>5. Started(n) /\ server' = server
    BY <2>2, <2>4 DEF Publish, BootInv, WorkerBoots, cloud
  <2>6. QED
    BY <2>5 DEF Started
<1>4. QED
    BY <1>2, <1>3

-----------------------------------------------------------------------------
(* The theorems *)

\* Nothing has been started at the start.
LEMMA BootInit == Init => BootInv
  BY DEF Init, BootInv, InfraOnce, Booted, WorkerBoots, ReadyInv, NoServer, NoSnap, NoFields, Started, InUse,
         WithServer, NormalPCs

\* Every step keeps the invariant.
LEMMA BootNext == RefinementInv /\ AddrInv /\ BootInv /\ [Next]_vars => BootInv'
<1> SUFFICES ASSUME RefinementInv, AddrInv, BootInv, [Next]_vars PROVE BootInv'
    OBVIOUS
<1>1. InfraOnce'
    BY InfraOnceNext DEF BootInv
<1>2. QED
    BY <1>1, BootedNext, WorkerBootsNext, ReadyNext DEF BootInv

\* It is an invariant.
LEMMA BootInvariant == Spec => []BootInv
  BY BaseInvariant, AddrInvariant, BootInit, BootNext, PTL DEF Spec

\* A server is powered on only with complete user data, made with the address the node has:
\* ensureCloudInit comes before ensureServerStarted in every reconcile that starts the server,
\* and what a lost reply or a crash cuts off is done again by the next one.
THEOREM UserDataFirst == Spec => []BootstrapBeforeBoot
<1>1. BootInv => BootstrapBeforeBoot
    BY DEF BootInv, Booted, Building, BootstrapBeforeBoot
<1>2. QED
    BY <1>1, BootInvariant, PTL

\* While there is a load balancer, a server that was powered on is in its backend and its ACL
\* until the machine is deleted: a booting node always reaches the API endpoint.
THEOREM LetInFirst == Spec => []ReachableBeforeBoot
<1>1. BootInv => ReachableBeforeBoot
    BY DEF BootInv, Booted, Building, LetIn, ReachableBeforeBoot
<1>2. QED
    BY <1>1, BootInvariant, PTL

\* A machine reported ready has a server that was powered on and not told to go, although the
\* status is patched by Close, long after, and survives crashes and later reconciles.
THEOREM ReadyIsStarted == Spec => []ReadyMeansStarted
<1>1. BootInv => ReadyMeansStarted
    BY DEF BootInv, ReadyInv, ReadyMeansStarted
<1>2. QED
    BY <1>1, BootInvariant, PTL

-----------------------------------------------------------------------------
(* For compositions with the controller of the cluster *)

\* All that is invariant for the machines.
MachineInv == RefinementInv /\ AddrInv /\ TraceInv /\ BootInv

\* It is inductive.
LEMMA MachineInit == Init => MachineInv
  BY TypeInit, FinalizerInit, VolumeInit, GuardInit, AddrInit, TraceInit, BootInit
  DEF MachineInv, RefinementInv

LEMMA MachineNext == MachineInv /\ [Next]_vars => MachineInv'
  BY TypeNext, FinalizerNext, VolumeNext, GuardNext, AddrNext, TraceNext, BootNext
  DEF MachineInv, RefinementInv

\* The worker never writes what it reads of the cluster.
LEMMA StepKeepsCluster == Step => infraReady' = infraReady
<1> SUFFICES ASSUME Step PROVE infraReady' = infraReady
    OBVIOUS
<1> USE DEF k8s
<1>1. CASE HasFinalizer
    BY <1>1 DEF HasFinalizer
<1>2. CASE FinalizerTooLate
    BY <1>2 DEF FinalizerTooLate
<1>3. CASE AddFinalizer
    BY <1>3 DEF AddFinalizer
<1>4. CASE GetOrCreateIP
    BY <1>4 DEF GetOrCreateIP
<1>5. CASE GetServer
    BY <1>5 DEF GetServer
<1>6. CASE CreateServer
    BY <1>6 DEF CreateServer
<1>7. CASE GetOrCreatePrivateNIC
    BY <1>7 DEF GetOrCreatePrivateNIC
<1>8. CASE GetMachineIPs
    BY <1>8 DEF GetMachineIPs
<1>9. CASE JoinBackend
    BY <1>9 DEF JoinBackend
<1>10. CASE EnsureACL
    BY <1>10 DEF EnsureACL
<1>11. CASE EnsureCloudInit
    BY <1>11 DEF EnsureCloudInit
<1>12. CASE EnsureServerStarted
    BY <1>12 DEF EnsureServerStarted
<1>13. CASE Publish
    BY <1>13 DEF Publish
<1>14. CASE FindServer
    BY <1>14 DEF FindServer
<1>15. CASE DeleteACL
    BY <1>15 DEF DeleteACL
<1>16. CASE LeaveBackend
    BY <1>16 DEF LeaveBackend
<1>17. CASE DeleteIP
    BY <1>17 DEF DeleteIP
<1>18. CASE DetachVolume
    BY <1>18 DEF DetachVolume
<1>19. CASE AllDetached
    BY <1>19 DEF AllDetached
<1>20. CASE DetachBootVolume
    BY <1>20 DEF DetachBootVolume
<1>21. CASE DeleteBootVolume
    BY <1>21 DEF DeleteBootVolume
<1>22. CASE DeleteServer
    BY <1>22 DEF DeleteServer
<1>23. CASE TerminateServer
    BY <1>23 DEF TerminateServer
<1>24. CASE RemoveFinalizer
    BY <1>24 DEF RemoveFinalizer
<1>25. CASE AnyCallRefused
    BY <1>25 DEF AnyCallRefused, CallRefused
<1>26. CASE Close
    BY <1>26 DEF Close
<1>27. QED
    BY <1>1, <1>2, <1>3, <1>4, <1>5, <1>6, <1>7, <1>8, <1>9, <1>10, <1>11, <1>12, <1>13,
       <1>14, <1>15, <1>16, <1>17, <1>18, <1>19, <1>20, <1>21, <1>22, <1>23, <1>24, <1>25,
       <1>26
    DEF Step, NormalStep, DeleteStep

\* An object that is gone stays so.
LEMMA GoneForGood ==
    ASSUME RefinementInv, [Next]_vars, NEW m \in Machines, ~obj[m].exists
    PROVE  ~obj'[m].exists
<1>t. obj \in [Machines -> Objects] /\ mem \in Fields
    BY BaseTypes
<1>1. CASE AddFinalizer
  <2>1. obj' = obj \/ obj' = [obj EXCEPT ![cur].f.finalizer = TRUE]
    BY <1>1 DEF AddFinalizer, StoreFinalizer
  <2>2. QED
    BY <2>1, <1>t DEF Objects
<1>2. CASE Close
  <2>1. CASE obj' = [obj EXCEPT ![cur] = obj[cur]]
    BY <2>1, <1>t
  <2>2. ASSUME NEW x \in BOOLEAN, NEW y \in BOOLEAN,
               obj' = [obj EXCEPT ![cur] = Patched(obj[cur], x, y)]
        PROVE  ~obj'[m].exists
    <3>1. CASE m # cur
      BY <2>2, <3>1, <1>t
    <3>2. CASE m = cur
      <4>1. obj'[m] = Patched(obj[m], x, y)
        BY <2>2, <3>2, <1>t
      <4>2. obj[m] \in Objects
        BY <1>t
      <4>3. Patched(obj[m], x, y).exists = (obj[m].exists /\ ~(obj[m].deleting /\ x /\ ~mem.finalizer))
        BY <2>2, <4>2, <1>t, PatchedFields
      <4>4. QED
        BY <4>1, <4>3
    <3>3. QED
      BY <3>1, <3>2
  <2>3. QED
    BY <1>2, <2>1, <2>2, CloseObjects
<1>3. ASSUME NEW k \in Machines, UserDelete(k) PROVE ~obj'[m].exists
  <2>1. obj' = [obj EXCEPT ![k].deleting = TRUE, ![k].exists = obj[k].f.finalizer] /\ obj[k].exists
    BY <1>3 DEF UserDelete
  <2>2. obj'[m] = obj[m]
    BY <2>1, <1>t
  <2>3. QED
    BY <2>2
<1>4. QED
    BY <1>1, <1>2, <1>3, WhoWrites DEF Writers

\* A step of somebody else: it leaves machines, servers and addresses alone, and the
\* process may have restarted.
Elsewhere ==
    /\ UNCHANGED <<obj, publicIP, owner, bootstrap, ips, server, bootVol, lost>>
    /\ infraReady => infraReady'
    /\ \/ UNCHANGED <<pc, cur, base, mem, snap>>
       \/ pc' = "idle" /\ cur' = None /\ base' = NoFields /\ mem' = NoFields /\ snap' = NoSnap

\* The load balancer stays, goes with all it holds, or comes before any server.
LBElsewhere ==
    \/ UNCHANGED <<lb, pool, acl>>
    \/ ~lb' /\ pool' = {} /\ acl' = [m \in Machines |-> None]
    \/ lb' /\ UNCHANGED <<pool, acl>> /\ \A m \in Machines : ~InUse(m)

\* Such a step disturbs nothing that the controller relies on.
LEMMA MachineInvElsewhere ==
    ASSUME MachineInv, TypeOK', Elsewhere, LBElsewhere
    PROVE  MachineInv'
<1> USE DEF Elsewhere
<1>t. /\ TypeOK /\ cur \in Machines \cup {None} /\ (cur = None <=> pc = "idle")
      /\ None \notin Machines
    BY BaseTypes, AddrAssumption DEF MachineInv
<1>i. pc' = "idle" => cur' \notin Machines
    BY <1>t
<1>n. \A m \in Machines : NodeAddr(m)' = NodeAddr(m) /\ InUse(m)' = InUse(m) /\ Started(m)' = Started(m)
    BY DEF NodeAddr, InUse, Started
<1>b. \A m \in Machines : Building(m)' => Building(m)
    BY DEF Building, NormalPCs
<1>1. RefinementInv'
  <2>1. TypeInv'
    BY DEF MachineInv, RefinementInv, TypeInv, AddressKnown
  <2>2. FinalizerInv'
    BY DEF MachineInv, RefinementInv, FinalizerInv, FinalizerGuardsServer, DeletingKeepsFinalizer,
           WorkerFinalizer, NormalPCs, DeletePCs
  <2>3. VolumeInv'
    BY DEF MachineInv, RefinementInv, VolumeInv, NoDataVolumeLost, DeletePCs
  <2>4. GuardInv'
    BY DEF MachineInv, RefinementInv, GuardInv
  <2>5. QED
    BY <2>1, <2>2, <2>3, <2>4 DEF RefinementInv
<1>2. AddrInv'
  <2>1. IPInv' /\ Ownership'
    BY DEF MachineInv, AddrInv, IPInv, Ownership
  <2>2. NothingDying' /\ IPsAreAttached'
    BY <1>b DEF MachineInv, AddrInv, NothingDying, IPsAreAttached
  <2>3. ServerAddrs'
    BY <1>b, <1>n DEF MachineInv, AddrInv, ServerAddrs
  <2>4. WorkerServer'
    <3>1. CASE pc' = "idle"
      BY <3>1 DEF WorkerServer, WithServer, WithAddress, BeforeRelease, AfterRelease
    <3>2. CASE UNCHANGED <<pc, cur, base, mem, snap>>
      BY <3>2 DEF MachineInv, AddrInv, WorkerServer, InUse, NodeAddr
    <3>3. QED
      BY <3>1, <3>2
  <2>5. QED
    BY <2>1, <2>2, <2>3, <2>4 DEF AddrInv
<1>l. \/ ~lb' /\ pool' = {} /\ acl' = [m \in Machines |-> None]
      \/ UNCHANGED <<lb, pool, acl>>
      \/ lb' /\ UNCHANGED <<pool, acl>> /\ \A m \in Machines : ~InUse(m)
    BY DEF LBElsewhere
<1>3. TraceInv'
  <2>1. GoneLB'
    BY <1>l DEF GoneLB, MachineInv, TraceInv
  <2>2. ACLsAreAlive' /\ BackendsAreAlive'
    <3>1. ACLsAreAlive'
      BY <1>l DEF ACLsAreAlive, MachineInv, TraceInv
    <3>2. CASE pool' = {}
      BY <3>1, <3>2 DEF BackendsAreAlive
    <3>3. CASE pool' = pool
      BY <3>1, <3>3 DEF BackendsAreAlive, MachineInv, TraceInv, NodeAddr
    <3>4. QED
      BY <1>l, <3>2, <3>3
  <2>3. EndingLeavesNoTrace'
    BY <1>l, <1>n DEF EndingLeavesNoTrace, MachineInv, TraceInv
  <2>4. DeleteLeavesLB'
    <3>1. CASE pc' = "idle"
      BY <3>1 DEF DeleteLeavesLB, AfterRelease
    <3>2. CASE UNCHANGED <<pc, cur, base, mem, snap>>
      BY <1>l, <1>t, <3>2 DEF MachineInv, TraceInv, DeleteLeavesLB, AfterRelease, NodeAddr
    <3>3. QED
      BY <3>1, <3>2
  <2>5. QED
    BY <2>1, <2>2, <2>3, <2>4 DEF TraceInv
<1>4. BootInv'
  <2>1. InfraOnce'
    BY <1>n DEF MachineInv, BootInv, InfraOnce, NormalPCs
  <2>2. ASSUME NEW m \in Machines, InUse(m), LetIn(m) PROVE LetIn(m)'
    <3>1. CASE ~lb'
      BY <3>1 DEF LetIn
    <3>2. CASE UNCHANGED <<lb, pool, acl>>
      BY <2>2, <3>2 DEF LetIn, NodeAddr
    <3>3. QED
      BY <1>l, <2>2, <3>1, <3>2
  <2>3. Booted'
    <3>1. ASSUME NEW m \in Machines
          PROVE  /\ Started(m)' => server'[m].cloudInit # None
                 /\ Building(m)' /\ server'[m].cloudInit # None => server'[m].cloudInit = NodeAddr(m)'
      BY <1>b, <1>n DEF MachineInv, BootInv, Booted
    <3>2. ASSUME NEW m \in Machines, Building(m)', Started(m)' PROVE LetIn(m)'
      <4>1. Building(m) /\ Started(m) /\ InUse(m)
        BY <1>b, <1>n, <3>2 DEF Started, InUse
      <4>2. QED
        BY <4>1, <2>2 DEF MachineInv, BootInv, Booted
    <3>3. QED
      BY <3>1, <3>2 DEF Booted
  <2>4. WorkerBoots'
    <3>1. CASE pc' = "idle"
      BY <3>1 DEF WorkerBoots, WithServer
    <3>2. CASE pc' # "idle"
      <4>1. UNCHANGED <<pc, cur, base, mem, snap>> /\ cur \in Machines
        BY <3>2, <1>t
      <4>2. pc \in WithServer => InUse(cur)
        BY DEF MachineInv, AddrInv, WorkerServer
      <4>3. pc \in {"cloudinit", "start", "publish"} => LetIn(cur)'
        BY <4>1, <4>2, <2>2 DEF MachineInv, BootInv, WorkerBoots, WithServer
      <4>4. pc \in {"acl", "cloudinit", "start", "publish"} /\ lb' /\ cur \in ControlPlane =>
               NodeAddr(cur)' \in pool'
        BY <4>1, <4>2, <1>l, <1>n DEF MachineInv, BootInv, WorkerBoots, WithServer
      <4>5. QED
        BY <4>1, <4>3, <4>4 DEF MachineInv, BootInv, WorkerBoots, SnapStopped, Started, LetIn, NodeAddr
    <3>3. QED
      BY <3>1, <3>2
  <2>5. ReadyInv'
    BY <1>t, <1>n DEF MachineInv, BootInv, ReadyInv
  <2>6. QED
    BY <2>1, <2>3, <2>4, <2>5 DEF BootInv
<1>5. QED
    BY <1>1, <1>2, <1>3, <1>4 DEF MachineInv

=============================================================================
