--------------------------- MODULE GuardedResource ---------------------------
(***************************************************************************)
(* What a finalizer promises, for both controllers: the abstract life of a *)
(* Kubernetes object and of what it owns in the cloud.                     *)
(*                                                                         *)
(*   new ---Guard---> guarded ---Delete---> dying ---Forget---> gone       *)
(*    \------------------------Delete------------------------->/           *)
(*                                                                         *)
(* A resource is only created for an object that is guarded (or that was   *)
(* guarded when the running reconcile began and is dying now), it is only  *)
(* given up for an object that is dying, and an object is not forgotten as *)
(* long as it has a resource.                                              *)
(***************************************************************************)
CONSTANT Owners

VARIABLES
    object,    \* the state of the object of each owner
    resource   \* does it own anything in the cloud?

Init ==
    /\ object = [o \in Owners |-> "new"]
    /\ resource = [o \in Owners |-> FALSE]

\* The finalizer is stored in the API server.
Guard(o) ==
    /\ object[o] = "new"
    /\ object' = [object EXCEPT ![o] = "guarded"]
    /\ UNCHANGED resource

\* A reconcile that began before the deletion may still create something.
Create(o) ==
    /\ object[o] \in {"guarded", "dying"} /\ ~resource[o]
    /\ resource' = [resource EXCEPT ![o] = TRUE]
    /\ UNCHANGED object

Release(o) ==
    /\ object[o] = "dying" /\ resource[o]
    /\ resource' = [resource EXCEPT ![o] = FALSE]
    /\ UNCHANGED object

\* The API server drops an object without finalizer at once.
Delete(o) ==
    /\ \/ object[o] = "new" /\ object' = [object EXCEPT ![o] = "gone"]
       \/ object[o] = "guarded" /\ object' = [object EXCEPT ![o] = "dying"]
    /\ UNCHANGED resource

Forget(o) ==
    /\ object[o] = "dying" /\ ~resource[o]
    /\ object' = [object EXCEPT ![o] = "gone"]
    /\ UNCHANGED resource

Next == \E o \in Owners : Guard(o) \/ Create(o) \/ Release(o) \/ Delete(o) \/ Forget(o)

Spec == Init /\ [][Next]_<<object, resource>>

=============================================================================
