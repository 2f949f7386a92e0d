# Cluster API Provider Scaleway: models, checks and proofs

The provider runs two controllers in one process. The **ScalewayCluster
controller** builds the infrastructure of a Kubernetes cluster on Scaleway
(security groups, Private Network, Public Gateway, control-plane load balancer).
The **ScalewayMachine controller** builds one server per machine and enters it
into that load balancer. Both are level-triggered loops: a reconcile looks up
what exists, makes the calls that are missing, and stores the outcome with a
deferred patch. What makes them hard to get right is that a reconcile may stop
after any call (error, lost reply, crash, not ready yet), that the next one
starts over on what the last one left behind, and that users, the cloud and the
other controllers move in between.

## Inventory

| Part | State | Operations | Hard behaviour | What makes it correct |
|---|---|---|---|---|
| Reconcile loop (`internal/controller`, `internal/scope`, controller-runtime) | work queue, loaded and changed copy of the object | Reconcile, AddFinalizer + Patch, deferred Close (patches metadata/spec and status in two calls) | crash between calls, half-lost patch, missed events | every early return is woken up again; the finalizer guards the cloud |
| Instance service | flexible IP, server, private NIC, user data, boot and data volumes | Reconcile (8 steps), Delete (8 steps) | lost replies, stale server snapshot, reuse of addresses | order of preparation, no leak, no lost data volume, no dead backend |
| Load balancer service | load balancer, attachment, backend, frontend, 3 ACLs | Reconcile, Delete | readiness takes time, order of the ACLs | nodes never locked out, endpoint stable, user IPs kept |
| VPC service | Private Network, `status.network` | Reconcile, Delete | in-use precondition, nil status | deletion completes; an existing network works |
| Public Gateway service | gateway IP, gateway, attachment | Reconcile, Delete | IP created before the gateway and released after it | one IP, none leaked |
| Security group service | groups and rules per zone | ensureSecurityGroups, compareRules, toInstanceRequestRule | groups in use, rules set after creation, a listing that gets old | the cloud enforces what the fields mean; nothing is created twice |
| Client lookups (`client/`) | none | find by name, tags, network | zero, one, several hits | used under the lookups above |
| Secret and client (`secret.go`) | owner reference of the secret | clientFromSecret | update conflicts | failure means retry |
| Webhooks, API conversions | none | validate, enforceImmutability, ToRange, ... | mutable failureDomains, publicIP that may still be unset, uint32 wrap-around | what is accepted can be reconciled |
| Manager process (`cmd/main.go`) | both controllers, caches, ENABLE_WEBHOOKS | start, crash | a panic of one controller ends the other's work, caches of different kinds lag apart | the two controllers together build and tear down a cluster |

Interaction: the machine controller reads `Cluster.status.infrastructureReady`
(set by Cluster API from `ScalewayCluster.status.ready`), looks up the load
balancer that the cluster controller made, and edits its backend and its ACLs.
Each controller watches only its own kind, so a change of the Cluster, the
Machine or the other object wakes nobody up. `PROJECT.json` lists the hazards
line by line.

## Modules

* **Reconciler** - what both controllers share: `pc` names the next call of the
  worker, `res` how the reconcile ends. `Proceed`, `Return`, `CallFails` and
  `Reply` (a call took effect and its reply arrives or is lost) are the only ways
  a step ends. `MaxFaults` bounds failures and crashes.
* **ScalewayMachine** - the machine controller and the instance service. One
  action per API call, in the order of `Reconcile` and `Delete`; a lookup and the
  create that depends on it are one action since no other actor creates what the
  worker looks up. `obj` is the API server, `base`/`mem` the copy of the patch
  helper, `snap` the server object, the addresses and the cluster state that the
  rest of the reconcile keeps using, `ips`, `server`, `bootVol`, `pool`, `acl`,
  `lost` the cloud. `Patched` gives the effect of each of the two patches of Close;
  removing the finalizer of a deleted object removes it. `infraReady` and `network`
  are what the caches of Clusters and of ScalewayClusters show; the second may lag
  behind the first, and then `PrivateNetworkID` dereferences nil and the process
  panics. The environment deletes machines, edits `publicIP` as far as the webhook
  lets it, sets owners and bootstrap data, unpauses, declares the infrastructure
  ready, deletes the load balancer, attaches data volumes, boots and removes
  servers, hands out addresses, resyncs and crashes.
* **ScalewayCluster** - the cluster controller and its four services over a set of
  zones, in the same form. `conf` is the part of the spec the webhook keeps
  immutable, `spec` what the user may edit, `want` the copy a reconcile works on.
  `UserEdit` submits any spec and `EnforceImmutability` decides. The security group
  service is one step here, whose outcomes come from SecurityGroupOutcomes; while there
  are servers, any of the groups it has to delete may be in use or not.
  A nil dereference is the result `"panic"`: the deferred Close still runs, the
  process restarts and the object is queued again.
* **SecurityGroupRules** - the pure part of the security group service and of the
  webhook: `ToRange`, `ToInstance`, `ToInstanceAction`, `ParseCIDR`,
  `toInstanceRequestRule`, `compareRule(s)`, `validate...`, and the reference
  definitions `Meaning` (what a rule says by the documentation of its fields) and
  `Effect` (what a rule of the API lets through). The width of uint32 and of an
  address are parameters; what does not parse, and the error of a conversion, is
  `Invalid`. The range of a rule is a text (`RangeTexts`): the address and length it
  stands for, and whether it is written as `net.IPNet` prints them. `ParseCIDR` turns it
  into a network, `Text` prints a network, and `compareRule` compares the text of the
  user with the printed one, as the code does.
* **SecurityGroups** - one call of `ensureSecurityGroups` with one action per API
  call, over all groups and zones, with edits of the spec, changes made in the
  console, servers that use groups, and webhooks that may be off.
* **SecurityGroupOutcomes** - the sets of group names that an interrupted call may
  leave. ScalewayCluster takes them as the effect of the whole call;
  SecurityGroups checks that they cover every point where the call can stop.
* **Provider** - both controllers in one process over one cloud: `INSTANCE`s of
  ScalewayMachine and ScalewayCluster with a shared load balancer, a shared bound on
  faults and a shared process; what one module takes for its environment is the
  other. Cluster API in between copies `status.ready` and deletes the
  ScalewayCluster after the machines. A lookup of the Cluster may fail at any time and
  drops the machine's event (`MachineDropped`); the history variable `missed` records the
  machines that this happened to until something queues them again. Machines may be
  resynced at any time; the resync of ScalewayClusters, whose events are never dropped, is
  left to ScalewayCluster. Every configuration has a Private Network. Data
  volumes, edits and security groups are left to the other modules. What is instantiated
  is ScalewayMachineBoot and ScalewayClusterServing, the components together with what is
  proved about them, so that the proofs about Provider can cite it.
* **GuardedResource** - the abstract specification of both controllers: the life of
  an object with a finalizer and of what it owns in the cloud (new, guarded, dying,
  gone; created behind the finalizer, released while dying, forgotten last).
* **MCMachine**, **MCCluster**, **MCSecurityGroups**, **MCProvider** - the instances
  for TLC.
* **ScalewayMachineProofs**, **ScalewayMachineRefinement**,
  **ScalewayMachineAddresses**, **ScalewayMachineBoot**, **ScalewayClusterProofs**,
  **ScalewayClusterServing**, **SecurityGroupsProofs**, **ProviderProofs** - the theorems
  and their proofs.

Operators commented as faulty variants are what a plausible mistake in the code
would turn a definition into; each property is known to fail with one of them.

## Runs

| Run | Bounds | Shows |
|---|---|---|
| MachineSafety | 2 control-plane machines, 1 private and 2 public addresses, 1 volume, 2 faults, paused at first, lagging cache, resync | the eight safety invariants of a machine and its types; 3.7 M states |
| MachinePublic | no Private Network, a control plane and a worker, 1 public address, 1 fault | an address that changes hands is neither in the backend nor in an ACL of its former owner; the controller implements GuardedResource; 220 k states |
| MachineUnpause | worker with a public IP and a control plane without any address and with `publicIP` unset, resync, fair | without a Private Network: ready after an unpause and after failed lookups of the Cluster, because the resync queues dropped machines again; every deleted machine goes away, one without any address too; no edit of `publicIP` creates an IP that Delete would not find; 112 k states |
| ClusterSafety | 5 configurations, 1 zone, 2 faults, 1 edit | what ready means, nothing left behind, user IPs, one gateway IP, order of the ACLs; the controller implements GuardedResource; 530 k states |
| ClusterZones | 2 zones, fixed load balancer zone or user IP, 1 fault, 2 edits | one load balancer, stable endpoint; 1.4 M states |
| ClusterLive | 3 configurations, 1 fault, 1 edit, **no** resync, fair | ready, ACLs follow the last edit, deletion completes; 99 k states |
| SecurityGroups | 2 groups, 2 zones, 5 valid and 9 invalid specs, 1 edit or change by hand, 1 fault, webhooks on and off, fair | a reconcile that ends well enforces what the fields mean; what is admitted converts; no group twice; no needless rewrite; the abstraction used in ScalewayCluster; convergence; 353 k states |
| Provider | 1 control-plane machine, managed network, 1 zone, 1 fault, any number of failed lookups, a resync of the machine that may come and need not, fair | nodes reach the API, nothing outlives the cluster, the machine ends up served, is deleted, and the cluster is torn down, unless a dropped event is followed by nothing (`LostForGood`); 153 k states |
| MachineIPLeak | violated | a flexible IP without a server is leaked by Delete |
| MachineVolumeLeak | violated | a boot volume detached but not deleted is leaked by the retry |
| MachineStuck | violated, fair | a control plane without private NIC is never deleted |
| ClusterExistingNetwork | violated, fair | an existing Private Network ID makes every reconcile panic |

Why the bounds are enough: machines interact only through the worker, the
address pools and the load balancer, so two of them and one address that both
want show every hand-over. The leftovers of one interrupted reconcile matter to
the next, and a second fault hits the recovery itself. Two public addresses let a
machine get a second IP if the code allowed it. One zone suffices where no
zone changes; two where `failureDomains` does, and two for the loop of the
security groups over zones. Provider has one machine because hand-overs between
machines are the subject of the machine runs; it adds the interleaving of the two
workers, which needs one object each. Nobody edits in Provider and the ranges are
restricted from the start, so deny-all is installed before any machine starts; switching
it on later is the subject of DenyInstalledLast in ClusterSafety. The rules of the security groups are
checked with a uint32 of 8 values and addresses of 2 bits: ports at and past the
upper end (`Uint32 - 1`, `Uint32`), ranges with host bits and ranges that are not
written as they are printed exist at every width.
Each of the nine invalid specs fails exactly one check of the webhook.

`CHECK_DEADLOCK FALSE` stands where no resync comes for ever: once every object is gone,
or settled where there is no resync, nothing is left to do. MaxEdits bounds the user's edits and the
manual changes of the load balancer or of a security group.

### Fairness

`WF(Step)`: a reconcile that started goes on (Go schedules the worker).
`SF(SkipReconcile \/ Reconcile)`, `SF(Take)`: controller-runtime's queue is first in,
first out and a requeue after 2 s or a backoff comes back, so a queued object is
taken although the worker is busy in between and may be paused for a time; and the
lookup of the Cluster, whose failures are not bounded, does not fail
every time. `WF` of what the cloud started (boot,
termination, address assignment, load balancer and gateway transitions) and, in
the cluster model, of the termination of servers once the cluster is deleted: Cluster
API deletes the machines before the infrastructure. `WF(PeriodicResync)` has an
effect only in the runs that enable it (`cmd/main.go` keeps the default sync
period). Provider assumes in addition that Cluster API copies `status.ready`. It has no
fairness for the resync, so its liveness properties show what the requeues achieve by
themselves: everything, except for a machine whose event a failed lookup dropped and that
no later event and no resync queues again (`LostForGood`). That a resync repairs this as
well is what MachineUnpause shows, where it is fair. Nothing else is assumed of users and of other controllers, and no lagging
cache is assumed to catch up except by a restart: the liveness properties hold
although the machine controller may panic until then. Faults are bounded,
so fairness never has to outlast an endless series of failures.

## Findings

1. `instance.go:454`: Delete returns when there is no server, so a flexible IP
   made before the server is leaked (MachineIPLeak).
2. `instance.go:523`: detaching the boot volume hides it from a retry
   (MachineVolumeLeak).
3. `instance.go:477`: a control-plane machine without private NIC cannot be
   deleted (MachineStuck). `MachineDeletionCompletes` shows that, lost events apart, it
   is the only such case within the bounds of Provider; without a Private Network every
   deletion completes (`DeletionCompletes` in MachineUnpause).
4. `cluster.go:181`: an existing Private Network is unusable
   (ClusterExistingNetwork).

More observations that no run is spent on. `status.ready` does not wait for
the gateway (a TODO in the code says so) although its documentation says "all
cloud resources are created and ready"; `ReadyMeansServing` states what does hold:
the gateway is attached. And without a fixed zone or IP an edit of
`failureDomains` makes the controller create a second load balancer and gateway
and forget the first ones; ClusterZones covers the configurations where the
load balancer cannot move, and ClusterSafety, whose leftovers would include the
forgotten ones, has a single zone. `scalewaymachine_controller.go:63` swallows every
error of the lookup of the Cluster: the event is lost until the next one or the next
resync, by default ten hours later. An IP range with host bits (`10.0.0.1/8`) or in
another form than `net.IPNet` prints (`10.0.0.0/08`, `2001:DB8::/32`) passes the webhook
and never equals the text of the range the API returns, so its group is written on every
reconcile: `NoNeedlessRewrite` holds with this exception. It says
that rules which are already as the conversion makes them are not written again; rules
of the same effect in another form (somebody replaced port 3 by the range 3-3 in the
console) are, which an earlier version of the property missed because no submitted list
had both forms. A port
number of 2^32 or more passes the webhook and wraps around: `DoneMeansEnforced` and
`Converges` hold for ports that a uint32 can hold.

## Proofs

`ScalewayMachineProofs` proves, for all machines, addresses, volumes and bounds:

* **TypeCorrect**: `Spec => []TypeOK`. `TypeOK` is not inductive: the backend would
  receive "no address" if the worker got past `getMachineIPs` without one. The
  invariant adds `AddressKnown`, which also says that `NodeIP`, whose comment reads
  "Panics if machineIPs has no IP (should never happen)", never panics.
* **ServersAreGuarded**: `Spec => []FinalizerGuardsServer`. Strengthened with
  `DeletingKeepsFinalizer` (the API server keeps a deleted object only for its
  finalizer) and `WorkerFinalizer`: from its second step on the normal path has a
  stored finalizer, and a finalizer is missing in memory at Close only if the
  server is gone or on its way out. Close is the delicate step, since each of its two
  patches may get through alone.
* **DataVolumesSurvive**: `Spec => []NoDataVolumeLost`. `VolumeInv` says that the
  snapshot covers all attached volumes from the lookup to the detach loop, that
  nothing is attached afterwards and that a server that is stopping has none. It
  rests on the assumption, built into `AttachDataVolume`, that nothing is attached
  to the node of a machine that is being deleted (Cluster API drains it first).

`ScalewayMachineRefinement` proves, on top of these:

* **MachineRefinesGuardedResource**: `Spec => ImplementsGuardedResource`, for any
  number of machines. A machine maps to its abstract state by `ObjectState`, its
  server to a resource by `InUse`. The invariant joins the three above with
  `GuardInv` (a finalizer missing in memory at Close means a machine that is being
  deleted), without which Close could strip the finalizer of a live machine.
  `ServerChange` and `ObjectChange` say which changes of one server or of one object
  are abstract steps; each action of `Next` is then a stutter or one of these.
  CreateServer and EnsureServerStarted are Create, DeleteServer and TerminateServer
  Release, AddFinalizer and Close Guard, UserDelete Delete, and Close Forget. It
  says more than ServersAreGuarded: a server is given up only for a machine that is
  being deleted, and a finalizer is never withdrawn from one that is not.

`ScalewayMachineAddresses` proves, on top of these, for any number of machines that
share the pools of addresses:

* **AtMostOneIP**, **EveryIPIsAttached**: `OneIPPerMachine`, `IPsAreAttached`. The
  invariant `AddrInv` says to whom an address belongs: `Ownership` (no two machines
  share one, and only a machine with `publicIP` has one), `ServerAddrs` (which
  addresses a server has in each of its states), `NothingDying` (no server of a machine
  that is built is stopping) and `WorkerServer` (what the snapshot of the worker still
  has in common with the server). `IPsAreAttached` is not inductive without the last
  conjunct of `ServerAddrs`: a server in use of a machine with `publicIP` has an IP, so
  `GetOrCreateIP` never makes one beside it.
* **OnlyHeldIPsAllowed**, **OnlyLiveBackends**, **GoneLeavesNoTrace**: `ACLsAreAlive`,
  `BackendsAreAlive`, `NoTraceInLoadBalancer`. `TraceInv` adds what Delete has removed
  at each of its steps and that a server that is going has no trace. The argument is
  the order of Delete (ACL, backend, IP, server) together with `Ownership`: an address
  that Delete removes from the backend is nobody else's.

`ScalewayMachineBoot` proves:

* **UserDataFirst**, **LetInFirst**, **ReadyIsStarted**: `BootstrapBeforeBoot`,
  `ReachableBeforeBoot`, `ReadyMeansStarted`. `BootInv` says what the worker has done
  at each step (`WorkerBoots`), what holds for every machine that is being built
  (`Booted`) and that no server is in use before the infrastructure was declared ready
  (`InfraOnce`: without it a server could be started before there is a backend to join,
  and the load balancer follow). The address must not change below the worker: `NodeAddr` is stable for a
  server in use, by `AddrInv`.

`ScalewayClusterProofs` proves, for all zones, configurations, ranges and edits:

* **ClusterTypeCorrect**, **UserKeepsIPs**, **AtMostOneGatewayIP**: `TypeOK`,
  `UserIPsKept`, `OneGatewayIP`.
* **LoadBalancerIsUnique**: `OneLoadBalancer`, provided `LoadBalancerPinned`: there is
  one zone, nobody edits, or the user has chosen a zone or an IP for the load balancer.
* **FinalizerGuards**: `FinalizerGuardsResources`, provided `ZonesPinned`: there is one
  zone, nobody edits, or load balancer and gateway have a zone of the user's choice. The
  invariant joins `GuardInv` (the worker and the API server about the finalizer), `Confined`
  (nothing outside the zone of the spec) and `DeleteProgress` (what is gone at each step
  of `reconcileDelete`).
* **ClusterRefinesGuardedResource**: `ImplementsGuardedResource`, provided `ZonesPinned`.
  The step of `reconcileNormal` that makes the first part of the network is the abstract
  Create, the one of `reconcileDelete` that asks for the removal of the last one the
  abstract Release.

The two hypotheses are what the code needs, not what the proofs need: without them an
edit of `failureDomains` makes the controller look in another zone, create a second
load balancer and forget the first (see Findings). ClusterZones checks configurations
that satisfy `LoadBalancerPinned`, ClusterSafety one that satisfies `ZonesPinned`.

`ScalewayClusterServing` proves:

* **ReadyServes**: `ReadyMeansServing`, for all configurations. `NormalProgress` says
  what is in place at each step of `reconcileNormal`, `NothingDying` that nothing goes
  before the object is being deleted, and `ReadyInv` extends the property to the memory
  of the worker, which the deferred patch stores.
* **DenyIsLast**: `DenyInstalledLast`, an action property, from `NormalProgress`.
* **EndpointIsStable**: `EndpointStable`, an action property, provided
  `LoadBalancerPinned`; `EndpointInv` says that a published endpoint is that of the one
  load balancer and that the worker holds the same.

It also proves what Provider needs besides: `NetworkInv`, that a cluster which says ready
has its Private Network until it is deleted, and that the object goes only after the
network; and that the invariants hold in steps that only change what the cluster
controller reads (`Elsewhere`).

`SecurityGroupsProofs` proves, for any lists of groups, zones, changes by hand, and
widths of ports and addresses:

* **AdmittedConverts**: `AdmittedIsConvertible`, from lemmas on every conversion: what
  `validateRule` accepts, `toInstanceRequestRule` turns into a rule of the API.
* **DoneIsEnforced**: `DoneMeansEnforced`. `RuleConverted` shows that a converted rule
  has the effect that the documentation of its fields describes (clearing host bits
  keeps the network, a port below 2^32 is its own remainder, a range that is not set
  matches everybody), `EqualIsEnforced` the same for a rule that `compareRule` finds
  equal. The loop is an induction over its rounds: `ContentInv` says that the groups
  of the rounds ahead are as listed, those behind as intended. `RoundsDiffer` (names
  are unique, the webhook says) and `EveryCell` (quotient and remainder of the round
  number reach every group in every zone) do the rest.
* **NoGroupTwice**, **StopsAreOutcomes**: `NoTwins`, `StopsAsAbstracted`. `NewInv` and
  `ListingInv` relate the old listing to the groups there are. The second covers both
  the points where the call may stop after a failure and the one where a group in use
  stops it. With it,
  `EnsureSecurityGroups` of ScalewayCluster rests on a proved abstraction.
* **RewritesAreNeeded**: `NoNeedlessRewrite`; `compareRule` finds a rule equal to its own
  conversion if the text of its range is the printed form of the network it stands for.
* **SecurityGroupTypes**: `TypeOK`, with `PlaceInv` (the round is within the lists, and
  the group of the round exists when its rules are compared).

`ProviderProofs` proves about both controllers together, for any number of machines,
zones, addresses and faults and without further hypotheses:

* **StartedNodesReachAPI**, **MachinesLeaveNothing**: `NodesReachAPI`,
  `NothingOutlivesCluster`.
* **TeardownLeavesNothing**: with the ScalewayCluster gone, no server is left, and nothing
  of the cluster (`Leftovers`). Nobody edits `failureDomains` in Provider, so the zones are
  pinned.
* **MachinesSafeTogether**, **DenyIsLastTogether**, **EndpointStableTogether**: the
  invariants of the machine controller and the action properties of the cluster
  controller hold in the composition, each with the other controller in the place of the
  free environment they were proved with.
* **MachinesGuardedTogether**, **ClusterGuardedTogether**: both controllers implement
  GuardedResource in the composition.

`NodesReachAPI` and `NothingOutlivesCluster` are not inductive. `JointInv` joins the
invariants of the components, `M!MachineInv` and `C!ClusterInv`, with what connects them:
`MachinesFirst` (no machine exists once the ScalewayCluster is being deleted),
`ReadyWasSaid` (the Cluster says ready only if the ScalewayCluster does) and
`ServersOnNetwork` (a server, a terminating one too, stands on a Private Network that
exists, which is why the deletion of the network waits for it). TLC checked `JointInv`
with one machine and a fault, and with two machines, before it was proved. A step of
Provider is a step of one module, whose theorem on steps applies, and an `Elsewhere` step
of the other (a crash is both). One case is not free: the state of the load balancer is
a variable of the cluster and a parameter of the machines' invariants. When it
starts to serve, no server is in use, by `JointInv`; when it stops, it takes its backend
and ACLs with it (`LBElsewhere`).

Assumptions. Machines: `MachinesAssumption`, `SwitchAssumption`, `AddrAssumption`
(public and private addresses are disjoint and differ from nil). Cluster: the
configurations, zones and switches have their types, and nil is not a zone
(`ConfigAssumption`, `ZoneAssumption`, `SwitchAssumption`). Security groups: the
types of what is submitted, of the changes by hand and of the zones, that nil and
`Invalid` are none of the values they stand beside, and `PowerAssumption` (2^n is
positive, an induction the provers cannot do). Provider: those of the components for its
own constants, and that every configuration has a Private Network. `FaultAssumption` and
`EditAssumption` type the bounds, which play no other role in the proofs, except that `MaxEdits = 0`
(nobody edits) is one way to satisfy the hypotheses on zones. TLC evaluates all of them.

In all modules the steps are first reduced to what they do to the parts that an
invariant reads (`WhoWrites`, `Moves`, ...), then each conjunct of the invariant has a
lemma with one step per remaining kind of step, and `PTL` combines them.

Only model-checked: liveness, because the prover handles neither fairness nor ENABLED.
Every invariant and action property that a passing run checks is a theorem.
Induction over data and RECURSIVE operators are out of the prover's reach; the modules
use none.

## Not modelled

* The checks of the webhooks for region, zones, gateway, subnet and volume type,
  and the defaults of the CRDs: each is a test of one request, and the models only
  submit what passes them. An existing gateway ID: the CRD sets a default type and
  the webhook rejects a type beside an ID.
* A stale ScalewayMachine or ScalewayCluster at the start of its own reconcile: it
  reads the current object. The cache of ScalewayClusters that the machine
  controller reads does lag.
* Servers and other resources changed behind the controller's back (so the
  immutability of `providerID` never bites), except foreign backends, frontends and
  changed security groups; other resources with the same name.
* A subnet that does not parse (`vpc.go:35-38`) and a network without DHCP
  (`vpc.go:53-55`) as errors that persist: they are calls that fail, as often as
  `MaxFaults` allows. The error for a load balancer without any IP
  (`loadbalancer.go:341-343`).
* Data volumes attached to the node of a machine that is being deleted, after Delete has
  listed the server: Cluster API drains the node first.
* The owner reference on the secret; image lookup, volume types, the text of the
  bootstrap template; templates and generated code; start-up, flags, metrics and
  leader election.

## Plan

Done: Reconciler, ScalewayMachine, ScalewayCluster, SecurityGroups, Provider,
GuardedResource; all safety invariants, the action properties and the refinements are
checked and proved, for the components and for their composition.

Left: a server removed behind the controller's back, with `providerID` as an identity.
