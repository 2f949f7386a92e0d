------------------------- MODULE SecurityGroupOutcomes ------------------------
(***************************************************************************)
(* What ensureSecurityGroups may have done to the set of security group    *)
(* names when it stops.  ScalewayCluster takes this as the effect of the   *)
(* whole call, SecurityGroups checks it against the calls it is made of.   *)
(***************************************************************************)

\* It deletes what is not listed before it creates what is missing.
PartialSGs(before, names) ==
    {before \ d : d \in SUBSET (before \ names)} \cup
    {(before \cap names) \cup c : c \in SUBSET names}

\* One of the groups to delete is in use: the others may be gone.
BlockedSGs(before, names) ==
    {before \ d : d \in (SUBSET (before \ names)) \ {before \ names}}

=============================================================================
