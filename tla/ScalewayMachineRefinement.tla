---------------------- MODULE ScalewayMachineRefinement -----------------------
(***************************************************************************)
(* Proof that the machine controller implements GuardedResource, for any   *)
(* number of machines, volumes and addresses and any bound on the failures.*)
(*                                                                         *)
(* Most steps of the controller are stutters of the abstract protocol.     *)
(* The others are, per machine: AddFinalizer and Close may be a Guard,     *)
(* CreateServer and EnsureServerStarted a Create, TerminateServer and      *)
(* DeleteServer a Release, UserDelete a Delete, and Close a Forget.        *)
(***************************************************************************)
EXTENDS ScalewayMachineProofs

\* Only reconcileDelete removes the finalizer in memory, so what Close may store
\* without a finalizer is being deleted.
GuardInv == pc = "close" /\ ~mem.finalizer => obj[cur].deleting

RefinementInv == TypeInv /\ FinalizerInv /\ VolumeInv /\ GuardInv

\* The abstract state.
Object == [m \in Machines |-> ObjectState(m)]
Resource == [m \in Machines |-> InUse(m)]

-----------------------------------------------------------------------------
(* Steps of the abstract protocol *)

\* A step that changes neither the objects nor which servers are in use.
LEMMA Stutter ==
    ASSUME obj' = obj, \A m \in Machines : InUse(m)' = InUse(m)
    PROVE  Object' = Object /\ Resource' = Resource
  BY DEF Object, Resource, ObjectState

\* A step that changes the object of one machine only.
LEMMA ObjectStep ==
    ASSUME NEW m \in Machines, server' = server,
           \A n \in Machines : n # m => obj'[n] = obj[n]
    PROVE  /\ Object' = [Object EXCEPT ![m] = ObjectState(m)']
           /\ Resource' = Resource
  BY DEF Object, Resource, ObjectState, InUse

\* A step that changes the server of one machine only.
LEMMA ServerStep ==
    ASSUME NEW m \in Machines, obj' = obj,
           \A n \in Machines : n # m => server'[n].state = server[n].state
    PROVE  /\ Object' = Object
           /\ Resource' = [Resource EXCEPT ![m] = InUse(m)']
  BY DEF Object, Resource, ObjectState, InUse

\* A step on one server is a Create, a Release or a stutter.
LEMMA ServerChange ==
    ASSUME NEW m \in Machines, obj' = obj,
           \A n \in Machines : n # m => server'[n].state = server[n].state,
           ~InUse(m) /\ InUse(m)' => ObjectState(m) \in {"guarded", "dying"},
           InUse(m) /\ ~InUse(m)' => ObjectState(m) = "dying"
    PROVE  [Guarded!Next]_<<Object, Resource>>
<1>1. Object' = Object /\ Resource' = [Resource EXCEPT ![m] = InUse(m)']
    BY ServerStep
<1>2. Object[m] = ObjectState(m) /\ Resource[m] = InUse(m)
    BY DEF Object, Resource
<1>3. InUse(m) \in BOOLEAN /\ InUse(m)' \in BOOLEAN
    BY DEF InUse
<1>4. CASE InUse(m)' = InUse(m)
  <2>1. Resource' = Resource
    BY <1>1, <1>2, <1>4 DEF Resource
  <2>2. QED
    BY <1>1, <2>1
<1>5. CASE ~InUse(m) /\ InUse(m)'
  <2>1. Object[m] \in {"guarded", "dying"} /\ ~Resource[m] /\ Resource' = [Resource EXCEPT ![m] = TRUE]
    BY <1>1, <1>2, <1>3, <1>5
  <2>2. Guarded!Create(m)
    BY <1>1, <2>1 DEF Guarded!Create, Object, Resource
  <2>3. QED
    BY <2>2 DEF Guarded!Next
<1>6. CASE InUse(m) /\ ~InUse(m)'
  <2>1. Object[m] = "dying" /\ Resource[m] /\ Resource' = [Resource EXCEPT ![m] = FALSE]
    BY <1>1, <1>2, <1>3, <1>6
  <2>2. Guarded!Release(m)
    BY <1>1, <2>1 DEF Guarded!Release, Object, Resource
  <2>3. QED
    BY <2>2 DEF Guarded!Next
<1>7. QED
    BY <1>3, <1>4, <1>5, <1>6

\* A step on one object is a Guard, a Delete, a Forget or a stutter.
LEMMA ObjectChange ==
    ASSUME NEW m \in Machines, server' = server,
           \A n \in Machines : n # m => obj'[n] = obj[n],
           \/ ObjectState(m)' = ObjectState(m)
           \/ ObjectState(m) = "new" /\ ObjectState(m)' \in {"guarded", "gone"}
           \/ ObjectState(m) = "guarded" /\ ObjectState(m)' = "dying"
           \/ ObjectState(m) = "dying" /\ ObjectState(m)' = "gone" /\ ~InUse(m)
    PROVE  [Guarded!Next]_<<Object, Resource>>
<1>1. Object' = [Object EXCEPT ![m] = ObjectState(m)'] /\ Resource' = Resource
    BY ObjectStep
<1>2. Object[m] = ObjectState(m) /\ Resource[m] = InUse(m)
    BY DEF Object, Resource
<1>3. CASE ObjectState(m)' = ObjectState(m)
  <2>1. Object' = Object
    BY <1>1, <1>2, <1>3 DEF Object
  <2>2. QED
    BY <1>1, <2>1
<1>4. CASE ObjectState(m) = "new" /\ ObjectState(m)' = "guarded"
  <2>1. Guarded!Guard(m)
    BY <1>1, <1>2, <1>4 DEF Guarded!Guard, Object, Resource
  <2>2. QED
    BY <2>1 DEF Guarded!Next
<1>5. CASE \/ ObjectState(m) = "new" /\ ObjectState(m)' = "gone"
           \/ ObjectState(m) = "guarded" /\ ObjectState(m)' = "dying"
  <2>1. Guarded!Delete(m)
    BY <1>1, <1>2, <1>5 DEF Guarded!Delete, Object, Resource
  <2>2. QED
    BY <2>1 DEF Guarded!Next
<1>6. CASE ObjectState(m) = "dying" /\ ObjectState(m)' = "gone" /\ ~InUse(m)
  <2>1. Guarded!Forget(m)
    BY <1>1, <1>2, <1>6 DEF Guarded!Forget, Object, Resource
  <2>2. QED
    BY <2>1 DEF Guarded!Next
<1>7. QED
    BY <1>3, <1>4, <1>5, <1>6

-----------------------------------------------------------------------------
(* The strengthening *)

\* Nothing is in memory at first.
LEMMA GuardInit == Init => GuardInv
  BY DEF Init, GuardInv

\* Every step keeps it: reconcileDelete only runs for a machine that is being deleted.
LEMMA GuardNext == RefinementInv /\ [Next]_vars => GuardInv'
<1> SUFFICES ASSUME RefinementInv, [Next]_vars PROVE GuardInv'
    OBVIOUS
<1>a. /\ obj \in [Machines -> Objects] /\ mem \in Fields
      /\ cur \in Machines \cup {None} /\ (cur = None <=> pc = "idle")
    BY DEF RefinementInv, TypeInv, TypeOK
<1>b. /\ pc \in NormalPCs \ {"finalizer"} => mem.finalizer
      /\ pc \in DeletePCs => mem.finalizer /\ obj[cur].deleting
    BY DEF RefinementInv, FinalizerInv, WorkerFinalizer, VolumeInv
<1>c. GuardInv
    BY DEF RefinementInv
<1> USE DEF GuardInv, k8s, cloud, local, Proceed, Return, Reply, CallFails, Fault, NormalPCs, DeletePCs
<1>1. CASE HasFinalizer
    BY <1>1, <1>a, <1>b, <1>c DEF HasFinalizer, InfrastructureGate
<1>2. CASE FinalizerTooLate
    BY <1>2, <1>a, <1>b, <1>c DEF FinalizerTooLate, Fields
<1>3. CASE AddFinalizer
    BY <1>3, <1>a, <1>b, <1>c DEF AddFinalizer, StoreFinalizer, InfrastructureGate, Fields
<1>4. CASE GetOrCreateIP
    BY <1>4, <1>a, <1>b, <1>c DEF GetOrCreateIP
<1>5. CASE GetServer
    BY <1>5, <1>a, <1>b, <1>c DEF GetServer
<1>6. CASE CreateServer
    BY <1>6, <1>a, <1>b, <1>c DEF CreateServer
<1>7. CASE GetOrCreatePrivateNIC
    BY <1>7, <1>a, <1>b, <1>c DEF GetOrCreatePrivateNIC
<1>8. CASE GetMachineIPs
    BY <1>8, <1>a, <1>b, <1>c DEF GetMachineIPs
<1>9. CASE JoinBackend
    BY <1>9, <1>a, <1>b, <1>c DEF JoinBackend
<1>10. CASE EnsureACL
    BY <1>10, <1>a, <1>b, <1>c DEF EnsureACL
<1>11. CASE EnsureCloudInit
    BY <1>11, <1>a, <1>b, <1>c DEF EnsureCloudInit
<1>12. CASE EnsureServerStarted
    BY <1>12, <1>a, <1>b, <1>c DEF EnsureServerStarted
<1>13. CASE Publish
    BY <1>13, <1>a, <1>b, <1>c DEF Publish, Fields
<1>14. CASE FindServer
    BY <1>14, <1>a, <1>b, <1>c DEF FindServer
<1>15. CASE DeleteACL
    BY <1>15, <1>a, <1>b, <1>c DEF DeleteACL
<1>16. CASE LeaveBackend
    BY <1>16, <1>a, <1>b, <1>c DEF LeaveBackend
<1>17. CASE DeleteIP
    BY <1>17, <1>a, <1>b, <1>c DEF DeleteIP
<1>18. CASE DetachVolume
    BY <1>18, <1>a, <1>b, <1>c DEF DetachVolume
<1>19. CASE AllDetached
    BY <1>19, <1>a, <1>b, <1>c DEF AllDetached
<1>20. CASE DetachBootVolume
    BY <1>20, <1>a, <1>b, <1>c DEF DetachBootVolume
<1>21. CASE DeleteBootVolume
    BY <1>21, <1>a, <1>b, <1>c DEF DeleteBootVolume
<1>22. CASE DeleteServer
    BY <1>22, <1>a, <1>b, <1>c DEF DeleteServer
<1>23. CASE TerminateServer
    BY <1>23, <1>a, <1>b, <1>c DEF TerminateServer
<1>24. CASE RemoveFinalizer
    BY <1>24, <1>a, <1>b, <1>c DEF RemoveFinalizer, Fields
<1>25. CASE AnyCallRefused
    BY <1>25, <1>a, <1>b, <1>c DEF AnyCallRefused, CallRefused
<1>26. CASE Close
    BY <1>26, <1>a, <1>b, <1>c DEF Close
<1>27. CASE Crash
    BY <1>27, <1>a, <1>b, <1>c DEF Crash
<1>28. CASE PeriodicResync
    BY <1>28, <1>a, <1>b, <1>c DEF PeriodicResync
<1>29. CASE Unpause
    BY <1>29, <1>a, <1>b, <1>c DEF Unpause
<1>30. CASE SetInfrastructureReady
    BY <1>30, <1>a, <1>b, <1>c DEF SetInfrastructureReady
<1>31. CASE CacheCatchesUp
    BY <1>31, <1>a, <1>b, <1>c DEF CacheCatchesUp
<1>32. CASE LoadBalancerDeleted
    BY <1>32, <1>a, <1>b, <1>c DEF LoadBalancerDeleted
<1>33. ASSUME NEW m \in Machines, SkipReconcile(m) PROVE GuardInv'
    BY <1>33, <1>a, <1>b, <1>c DEF SkipReconcile
<1>34. ASSUME NEW m \in Machines, GetFails(m) PROVE GuardInv'
    BY <1>34, <1>a, <1>b, <1>c DEF GetFails
<1>35. ASSUME NEW m \in Machines, ClusterLookupFails(m) PROVE GuardInv'
    BY <1>35, <1>a, <1>b, <1>c DEF ClusterLookupFails
<1>36. ASSUME NEW m \in Machines, Reconcile(m) PROVE GuardInv'
    BY <1>36, <1>a, <1>b, <1>c DEF Reconcile
<1>37. ASSUME NEW m \in Machines, SetOwner(m) PROVE GuardInv'
    BY <1>37, <1>a, <1>b, <1>c DEF SetOwner
<1>38. ASSUME NEW m \in Machines, SetBootstrapData(m) PROVE GuardInv'
    BY <1>38, <1>a, <1>b, <1>c DEF SetBootstrapData
<1>39. ASSUME NEW m \in Machines, UserEdit(m) PROVE GuardInv'
    BY <1>39, <1>a, <1>b, <1>c DEF UserEdit
<1>40. ASSUME NEW m \in Machines, UserDelete(m) PROVE GuardInv'
    BY <1>40, <1>a, <1>b, <1>c DEF UserDelete, Objects
<1>41. ASSUME NEW m \in Machines, AssignPrivateIP(m) PROVE GuardInv'
    BY <1>41, <1>a, <1>b, <1>c DEF AssignPrivateIP
<1>42. ASSUME NEW m \in Machines, ServerBooted(m) PROVE GuardInv'
    BY <1>42, <1>a, <1>b, <1>c DEF ServerBooted
<1>43. ASSUME NEW m \in Machines, ServerTerminated(m) PROVE GuardInv'
    BY <1>43, <1>a, <1>b, <1>c DEF ServerTerminated
<1>44. ASSUME NEW m \in Machines, AttachDataVolume(m) PROVE GuardInv'
    BY <1>44, <1>a, <1>b, <1>c DEF AttachDataVolume
<1>45. CASE UNCHANGED vars
    BY <1>45, <1>c DEF vars
<1>46. QED
    BY <1>1, <1>2, <1>3, <1>4, <1>5, <1>6, <1>7, <1>8, <1>9, <1>10, <1>11, <1>12, <1>13, 
       <1>14, <1>15, <1>16, <1>17, <1>18, <1>19, <1>20, <1>21, <1>22, <1>23, <1>24, <1>25, 
       <1>26, <1>27, <1>28, <1>29, <1>30, <1>31, <1>32, <1>33, <1>34, <1>35, <1>36, <1>37, 
       <1>38, <1>39, <1>40, <1>41, <1>42, <1>43, <1>44, <1>45
    DEF Next, Step, NormalStep, DeleteStep, Take, Environment, CloudStep

-----------------------------------------------------------------------------
(* Every step of the controller and of its environment *)

\* Every step is a step of the abstract protocol or a stutter.
LEMMA NextRefines == RefinementInv /\ [Next]_vars => [Guarded!Next]_<<Object, Resource>>
<1> SUFFICES ASSUME RefinementInv, [Next]_vars PROVE [Guarded!Next]_<<Object, Resource>>
    OBVIOUS
<1>a. /\ obj \in [Machines -> Objects] /\ server \in [Machines -> Servers] /\ mem \in Fields
      /\ cur \in Machines \cup {None} /\ (cur = None <=> pc = "idle")
    BY DEF RefinementInv, TypeInv, TypeOK
<1>b. /\ pc \in NormalPCs \ {"finalizer"} => obj[cur].exists /\ obj[cur].f.finalizer
      /\ pc \in DeletePCs => obj[cur].deleting
      /\ pc = "close" /\ ~mem.finalizer => ~InUse(cur) /\ obj[cur].deleting
      /\ \A m \in Machines : InUse(m) => obj[m].exists
      /\ \A m \in Machines : obj[m].exists /\ obj[m].deleting => obj[m].f.finalizer
    BY DEF RefinementInv, FinalizerInv, WorkerFinalizer, FinalizerGuardsServer, DeletingKeepsFinalizer,
           VolumeInv, GuardInv, Ending, InUse
<1> DEFINE Quiet == obj' = obj /\ \A m \in Machines : InUse(m)' = InUse(m)
<1>q. Quiet => [Guarded!Next]_<<Object, Resource>>
    BY Stutter
<1> HIDE DEF Quiet
<1> USE DEF k8s, cloud, local
<1>1. CASE HasFinalizer
    BY <1>1, <1>q DEF HasFinalizer, Quiet, InUse
<1>2. CASE FinalizerTooLate
    BY <1>2, <1>q DEF FinalizerTooLate, Quiet, InUse
<1>3. CASE GetOrCreateIP
    BY <1>3, <1>q DEF GetOrCreateIP, Quiet, InUse
<1>4. CASE GetServer
    BY <1>4, <1>q DEF GetServer, Quiet, InUse
<1>5. CASE GetOrCreatePrivateNIC
    BY <1>5, <1>q, <1>a DEF GetOrCreatePrivateNIC, Quiet, InUse, Servers
<1>6. CASE GetMachineIPs
    BY <1>6, <1>q DEF GetMachineIPs, Quiet, InUse
<1>7. CASE JoinBackend
    BY <1>7, <1>q DEF JoinBackend, Quiet, InUse
<1>8. CASE EnsureACL
    BY <1>8, <1>q DEF EnsureACL, Quiet, InUse
<1>9. CASE EnsureCloudInit
    BY <1>9, <1>q, <1>a DEF EnsureCloudInit, Quiet, InUse, Servers
<1>10. CASE Publish
    BY <1>10, <1>q DEF Publish, Quiet, InUse
<1>11. CASE FindServer
    BY <1>11, <1>q DEF FindServer, Quiet, InUse
<1>12. CASE DeleteACL
    BY <1>12, <1>q DEF DeleteACL, Quiet, InUse
<1>13. CASE LeaveBackend
    BY <1>13, <1>q DEF LeaveBackend, Quiet, InUse
<1>14. CASE DeleteIP
    BY <1>14, <1>q, <1>a DEF DeleteIP, Quiet, InUse, Servers
<1>15. CASE DetachVolume
    BY <1>15, <1>q, <1>a DEF DetachVolume, Quiet, InUse, Servers
<1>16. CASE AllDetached
    BY <1>16, <1>q DEF AllDetached, Quiet, InUse
<1>17. CASE DetachBootVolume
    BY <1>17, <1>q DEF DetachBootVolume, Quiet, InUse
<1>18. CASE DeleteBootVolume
    BY <1>18, <1>q DEF DeleteBootVolume, Quiet, InUse
<1>19. CASE RemoveFinalizer
    BY <1>19, <1>q DEF RemoveFinalizer, Quiet, InUse
<1>20. CASE AnyCallRefused
    BY <1>20, <1>q DEF AnyCallRefused, CallRefused, Quiet, InUse
<1>21. CASE Crash
    BY <1>21, <1>q DEF Crash, Quiet, InUse
<1>22. CASE PeriodicResync
    BY <1>22, <1>q DEF PeriodicResync, Quiet, InUse
<1>23. CASE Unpause
    BY <1>23, <1>q DEF Unpause, Quiet, InUse
<1>24. CASE SetInfrastructureReady
    BY <1>24, <1>q DEF SetInfrastructureReady, Quiet, InUse
<1>25. CASE CacheCatchesUp
    BY <1>25, <1>q DEF CacheCatchesUp, Quiet, InUse
<1>26. CASE LoadBalancerDeleted
    BY <1>26, <1>q DEF LoadBalancerDeleted, Quiet, InUse
<1>27. ASSUME NEW m \in Machines, SkipReconcile(m) PROVE [Guarded!Next]_<<Object, Resource>>
    BY <1>27, <1>q DEF SkipReconcile, Quiet, InUse
<1>28. ASSUME NEW m \in Machines, GetFails(m) PROVE [Guarded!Next]_<<Object, Resource>>
    BY <1>28, <1>q DEF GetFails, Quiet, InUse
<1>29. ASSUME NEW m \in Machines, ClusterLookupFails(m) PROVE [Guarded!Next]_<<Object, Resource>>
    BY <1>29, <1>q DEF ClusterLookupFails, Quiet, InUse
<1>30. ASSUME NEW m \in Machines, Reconcile(m) PROVE [Guarded!Next]_<<Object, Resource>>
    BY <1>30, <1>q DEF Reconcile, Quiet, InUse
<1>31. ASSUME NEW m \in Machines, SetOwner(m) PROVE [Guarded!Next]_<<Object, Resource>>
    BY <1>31, <1>q DEF SetOwner, Quiet, InUse
<1>32. ASSUME NEW m \in Machines, SetBootstrapData(m) PROVE [Guarded!Next]_<<Object, Resource>>
    BY <1>32, <1>q DEF SetBootstrapData, Quiet, InUse
<1>33. ASSUME NEW m \in Machines, UserEdit(m) PROVE [Guarded!Next]_<<Object, Resource>>
    BY <1>33, <1>q DEF UserEdit, Quiet, InUse
<1>34. ASSUME NEW m \in Machines, AssignPrivateIP(m) PROVE [Guarded!Next]_<<Object, Resource>>
    BY <1>34, <1>q, <1>a DEF AssignPrivateIP, Quiet, InUse, Servers
<1>35. ASSUME NEW m \in Machines, ServerBooted(m) PROVE [Guarded!Next]_<<Object, Resource>>
    BY <1>35, <1>q, <1>a DEF ServerBooted, Quiet, InUse, Servers
<1>36. ASSUME NEW m \in Machines, ServerTerminated(m) PROVE [Guarded!Next]_<<Object, Resource>>
    BY <1>36, <1>q, <1>a DEF ServerTerminated, Quiet, InUse, Servers, NoServer
<1>37. ASSUME NEW m \in Machines, AttachDataVolume(m) PROVE [Guarded!Next]_<<Object, Resource>>
    BY <1>37, <1>q, <1>a DEF AttachDataVolume, Quiet, InUse, Servers
<1>38. CASE CreateServer
  <2>m. PICK m \in Machines : m = cur
    BY <1>38, <1>a DEF CreateServer
  <2>1. obj' = obj
    BY <1>38 DEF CreateServer
  <2>2. \A k \in Machines : k # m => server'[k].state = server[k].state
    BY <1>38, <1>a, <2>m, <2>1 DEF CreateServer, Servers
  <2>3. ObjectState(m) \in {"guarded", "dying"}
    BY <1>38, <1>b, <2>m DEF CreateServer, NormalPCs, ObjectState
  <2>4. InUse(m)'
    BY <1>38, <1>a, <2>m, <2>1 DEF CreateServer, InUse, Servers, NoServer
  <2>5. QED
    BY <2>1, <2>2, <2>3, <2>4, ServerChange
<1>39. CASE EnsureServerStarted
  <2>m. PICK m \in Machines : m = cur
    BY <1>39, <1>a DEF EnsureServerStarted
  <2>1. obj' = obj
    BY <1>39 DEF EnsureServerStarted
  <2>2. \A k \in Machines : k # m => server'[k].state = server[k].state
    BY <1>39, <1>a, <2>m, <2>1 DEF EnsureServerStarted, Servers
  <2>3. ObjectState(m) \in {"guarded", "dying"}
    BY <1>39, <1>b, <2>m DEF EnsureServerStarted, NormalPCs, ObjectState
  <2>4. InUse(m) => InUse(m)'
    BY <1>39, <1>a, <2>m, <2>1 DEF EnsureServerStarted, InUse, Servers
  <2>5. QED
    BY <2>1, <2>2, <2>3, <2>4, ServerChange
<1>40. CASE DeleteServer
  <2>m. PICK m \in Machines : m = cur
    BY <1>40, <1>a DEF DeleteServer
  <2>1. obj' = obj
    BY <1>40 DEF DeleteServer
  <2>2. \A k \in Machines : k # m => server'[k].state = server[k].state
    BY <1>40, <1>a, <2>m, <2>1 DEF DeleteServer, Servers
  <2>3. InUse(m) => ObjectState(m) = "dying"
    BY <1>40, <1>b, <2>m, <2>1 DEF DeleteServer, DeletePCs, ObjectState
  <2>4. ~InUse(m)'
    BY <1>40, <1>a, <2>m, <2>1 DEF DeleteServer, InUse, Servers, NoServer
  <2>5. QED
    BY <2>1, <2>2, <2>3, <2>4, ServerChange
<1>41. CASE TerminateServer
  <2>m. PICK m \in Machines : m = cur
    BY <1>41, <1>a DEF TerminateServer
  <2>1. obj' = obj
    BY <1>41 DEF TerminateServer
  <2>2. \A k \in Machines : k # m => server'[k].state = server[k].state
    BY <1>41, <1>a, <2>m, <2>1 DEF TerminateServer, Servers
  <2>3. InUse(m) => ObjectState(m) = "dying"
    BY <1>41, <1>b, <2>m, <2>1 DEF TerminateServer, DeletePCs, ObjectState
  <2>4. ~InUse(m)'
    BY <1>41, <1>a, <2>m, <2>1 DEF TerminateServer, InUse, Servers, NoServer
  <2>5. QED
    BY <2>1, <2>2, <2>3, <2>4, ServerChange
<1>42. CASE AddFinalizer
  <2>m. PICK m \in Machines : m = cur
    BY <1>42, <1>a DEF AddFinalizer
  <2>1. server' = server /\ obj[m].exists
    BY <1>42, <2>m DEF AddFinalizer
  <2>2. obj' = obj \/ obj' = [obj EXCEPT ![m].f.finalizer = TRUE]
    BY <1>42, <2>m DEF AddFinalizer, StoreFinalizer
  <2>3. \A k \in Machines : k # m => obj'[k] = obj[k]
    BY <1>a, <2>1, <2>2
  <2>4. \/ ObjectState(m)' = ObjectState(m)
        \/ ObjectState(m) = "new" /\ ObjectState(m)' = "guarded"
    BY <1>a, <2>1, <2>2 DEF ObjectState, Objects, Fields
  <2>5. QED
    BY <2>1, <2>3, <2>4, ObjectChange
<1>43. CASE Close
  <2>1. PICK m \in Machines : m = cur
    BY <1>43, <1>a DEF Close
  <2>2. server' = server /\ pc = "close"
    BY <1>43 DEF Close
  <2>3. CASE obj' = [obj EXCEPT ![cur] = obj[cur]]
    <3>1. obj' = obj
      BY <1>a, <2>3
    <3>2. QED
      BY <1>q, <2>2, <3>1 DEF Quiet, InUse
  <2>4. ASSUME NEW x \in BOOLEAN, NEW y \in BOOLEAN, obj' = [obj EXCEPT ![cur] = Patched(obj[cur], x, y)]
        PROVE  [Guarded!Next]_<<Object, Resource>>
    <3>1. /\ obj'[m] = Patched(obj[m], x, y)
          /\ \A k \in Machines : k # m => obj'[k] = obj[k]
      BY <1>a, <2>1, <2>4
    <3>2. /\ obj'[m].f.finalizer = (IF x THEN mem.finalizer ELSE obj[m].f.finalizer)
          /\ obj'[m].deleting = obj[m].deleting
          /\ obj'[m].exists = (obj[m].exists /\ ~(obj[m].deleting /\ x /\ ~mem.finalizer))
      BY <1>a, <3>1, PatchedFields
    <3>3. mem.finalizer \in BOOLEAN /\ obj[m].f.finalizer \in BOOLEAN /\ obj[m].exists \in BOOLEAN /\ obj[m].deleting \in BOOLEAN
      BY <1>a DEF Objects, Fields
    <3>4. ~mem.finalizer => ~InUse(m) /\ obj[m].deleting
      BY <1>b, <2>1, <2>2
    <3>5. \/ ObjectState(m)' = ObjectState(m)
          \/ ObjectState(m) = "new" /\ ObjectState(m)' \in {"guarded", "gone"}
          \/ ObjectState(m) = "dying" /\ ObjectState(m)' = "gone" /\ ~InUse(m)
      BY <1>b, <3>2, <3>3, <3>4 DEF ObjectState
    <3>6. QED
      BY <2>2, <3>1, <3>5, ObjectChange
  <2>5. QED
    BY <1>43, <2>3, <2>4, CloseObjects
<1>44. ASSUME NEW m \in Machines, UserDelete(m) PROVE [Guarded!Next]_<<Object, Resource>>
  <2>1. /\ server' = server /\ obj[m].exists /\ ~obj[m].deleting
        /\ obj' = [obj EXCEPT ![m].deleting = TRUE, ![m].exists = obj[m].f.finalizer]
    BY <1>44 DEF UserDelete
  <2>2. /\ obj'[m].deleting /\ obj'[m].exists = obj[m].f.finalizer
        /\ \A k \in Machines : k # m => obj'[k] = obj[k]
    BY <1>a, <2>1 DEF Objects
  <2>3. \/ ObjectState(m) = "new" /\ ObjectState(m)' = "gone"
        \/ ObjectState(m) = "guarded" /\ ObjectState(m)' = "dying"
    BY <2>1, <2>2 DEF ObjectState
  <2>4. QED
    BY <2>1, <2>2, <2>3, ObjectChange
<1>45. CASE UNCHANGED vars
    BY <1>45, <1>q DEF vars, Quiet, InUse
<1>46. QED
    BY <1>1, <1>2, <1>3, <1>4, <1>5, <1>6, <1>7, <1>8, <1>9, <1>10, <1>11, <1>12, <1>13, 
       <1>14, <1>15, <1>16, <1>17, <1>18, <1>19, <1>20, <1>21, <1>22, <1>23, <1>24, <1>25, 
       <1>26, <1>27, <1>28, <1>29, <1>30, <1>31, <1>32, <1>33, <1>34, <1>35, <1>36, <1>37, 
       <1>38, <1>39, <1>40, <1>41, <1>42, <1>43, <1>44, <1>45
    DEF Next, Step, NormalStep, DeleteStep, Take, Environment, CloudStep

-----------------------------------------------------------------------------

\* Before the first step no machine has a finalizer or a server.
LEMMA InitRefines == Init => Guarded!Init
<1> SUFFICES ASSUME Init PROVE Guarded!Init
    OBVIOUS
<1>1. \A m \in Machines : ~obj[m].deleting /\ obj[m].exists /\ ~obj[m].f.finalizer
    BY DEF Init, NoFields
<1>2. \A m \in Machines : ObjectState(m) = "new"
    BY <1>1 DEF ObjectState
<1>3. \A m \in Machines : InUse(m) = FALSE
    BY DEF Init, InUse, NoServer
<1>4. QED
    BY <1>2, <1>3 DEF Guarded!Init

\* The machine controller implements the protocol of finalizers: under every
\* interleaving of its calls with crashes, lost replies, half-lost patches and the
\* steps of the user and the cloud, a server is created only behind a stored
\* finalizer, is given up only for a machine that is being deleted, and the machine
\* is not forgotten before.
THEOREM MachineRefinesGuardedResource == Spec => ImplementsGuardedResource
<1>1. Init => RefinementInv
    BY TypeInit, FinalizerInit, VolumeInit, GuardInit DEF RefinementInv
<1>2. RefinementInv /\ [Next]_vars => RefinementInv'
    BY TypeNext, FinalizerNext, VolumeNext, GuardNext DEF RefinementInv
<1>3. Init => Guarded!Init
    BY InitRefines
<1>4. RefinementInv /\ [Next]_vars =>
          [Guarded!Next]_<<[m \in Machines |-> ObjectState(m)], [m \in Machines |-> InUse(m)]>>
    BY NextRefines DEF Object, Resource
<1>5. QED
    BY <1>1, <1>2, <1>3, <1>4, PTL DEF Spec, ImplementsGuardedResource, Guarded!Spec

=============================================================================
