---------------------------- MODULE SecurityGroups ----------------------------
(***************************************************************************)
(* The security group service: one call of ensureSecurityGroups, with one  *)
(* action per call to the Scaleway API.  Reconcile passes it the groups of *)
(* the spec it has loaded, Delete passes it none.  It lists the groups of  *)
(* the cluster in all zones, deletes those that are not wanted and then    *)
(* creates or updates every wanted group in every zone, all on the strength*)
(* of that listing.  ScalewayCluster abstracts the whole call to one       *)
(* action on the set of names (PartialSGs).                                *)
(***************************************************************************)
EXTENDS Reconciler, SecurityGroupRules, FiniteSets, SecurityGroupOutcomes

CONSTANTS
    Names,        \* names of security groups
    Zones,        \* the zones of the region, in order
    InMachines,   \* groups (name and zone) that machines name in their spec
    Submissions,  \* lists of groups that users submit, valid or not
    HandMade,     \* what a group may be changed to in the console
    Webhooks,     \* possible values of ENABLE_WEBHOOKS
    MaxEdits      \* bound: edits of the spec, and changes by hand

\* A security group as it is submitted, and as the API has it: default policies,
\* default security, rules.
GroupTexts == [name : Names, inbound : {None} \cup PolicyTexts, outbound : {None} \cup PolicyTexts]
Groups     == [in : Actions, out : Actions, security : BOOLEAN,
               inRules : Seq(APIRules), outRules : Seq(APIRules)]

\* Where a group may be: under a name, in a zone.
Cells == Names \X {Zones[i] : i \in DOMAIN Zones}

ASSUME SubmissionAssumption == Submissions \subseteq Seq(GroupTexts)
ASSUME ZoneAssumption == /\ Len(Zones) \in Nat \ {0} /\ DOMAIN Zones = 1..Len(Zones)
                         /\ \A i, j \in DOMAIN Zones : Zones[i] = Zones[j] => i = j
ASSUME CellAssumption == InMachines \subseteq Cells
ASSUME GroupAssumption == HandMade \subseteq Groups /\ None \notin Groups
ASSUME ListingAssumption == None \notin [Cells -> {None} \cup Groups]
ASSUME WebhookAssumption == Webhooks \subseteq BOOLEAN
ASSUME EditAssumption == MaxEdits \in Nat

VARIABLES
    webhooks, \* are the validating webhooks enabled?
    spec,     \* spec.network.securityGroups, as the API server has it
    obj,      \* the ScalewayCluster: "live", "deleting" or "gone"
    queued,   \* is it in the work queue?
    groups,   \* the groups with the tags of the cluster, by name and zone
    used,     \* those that servers use
    deleting, \* is the running reconcile a Delete?
    want,     \* the groups wanted by it
    listed,   \* the listing it works on, if any
    doomed,   \* the groups it still has to delete
    at,       \* its position in the loop over groups and zones
    touched,  \* was a group changed by hand since the reconcile began?
    edits     \* edits so far

k8s   == <<webhooks, spec, obj, edits>>
local == <<deleting, want, listed, doomed, at>>
vars  == <<k8s, queued, groups, used, local, touched, pc, res, faults>>

-----------------------------------------------------------------------------
(* Types *)

NoGroups == [c \in Cells |-> None]

PCs == {"idle", "close", "list", "delete", "ensure", "rules", "set"}

TypeOK ==
    /\ webhooks \in BOOLEAN
    /\ spec \in Submissions /\ want \in Submissions \cup {<<>>}
    /\ obj \in {"live", "deleting", "gone"} /\ queued \in BOOLEAN
    /\ groups \in [Cells -> {None} \cup Groups]
    /\ listed \in {None} \cup [Cells -> {None} \cup Groups]
    /\ used \subseteq {c \in Cells : groups[c] # None}
    /\ doomed \subseteq Cells /\ at \in 1..(Len(want) * Len(Zones) + 1)
    /\ deleting \in BOOLEAN /\ touched \in BOOLEAN /\ edits \in 0..MaxEdits
    /\ pc \in PCs /\ res \in Results /\ faults \in 0..MaxFaults

\* What the API server lets users store.
Admitted == {s \in Submissions : webhooks => validateSecurityGroups(s)}

Init ==
    /\ webhooks \in Webhooks
    /\ spec \in Admitted
    /\ obj = "live" /\ queued = TRUE
    /\ groups = NoGroups /\ used = {}
    /\ deleting = FALSE /\ want = <<>> /\ listed = None /\ doomed = {} /\ at = 1
    /\ touched = FALSE /\ edits = 0
    /\ pc = "idle" /\ res = "done" /\ faults = 0

-----------------------------------------------------------------------------
(* ensureSecurityGroups *)

CallRefused(p) == pc = p /\ CallFails /\ UNCHANGED <<k8s, queued, groups, used, local, touched>>

\* Reconcile and Delete of the service.
Begin ==
    /\ pc = "idle" /\ queued /\ obj # "gone"
    /\ queued' = FALSE
    /\ deleting' = (obj = "deleting")
    /\ want' = IF obj = "deleting" THEN <<>> ELSE spec
    /\ touched' = FALSE
    /\ Proceed("list")
    /\ UNCHANGED <<k8s, groups, used, listed, doomed, at>>

\* Faulty variant: the whole listing is deleted.
AllListed(list) == {c \in Cells : list[c] # None}

Unwanted(list) == {c \in Cells : list[c] # None /\ \A i \in DOMAIN want : want[i].name # c[1]}

ListSecurityGroups ==
    /\ pc = "list"
    /\ listed' = groups /\ doomed' = Unwanted(groups) /\ at' = 1
    /\ Proceed("delete")
    /\ UNCHANGED <<k8s, queued, groups, used, deleting, want, touched>>

\* A group that a server uses cannot be deleted: the reconcile ends there.
DeleteSecurityGroup ==
    /\ pc = "delete"
    /\ \E c \in doomed :
          \/ c \in used /\ Return("error") /\ UNCHANGED <<groups, doomed>>
          \/ /\ c \notin used
             /\ groups' = [groups EXCEPT ![c] = None]
             /\ doomed' = doomed \ {c}
             /\ Reply("delete")
    /\ UNCHANGED <<k8s, queued, used, deleting, want, listed, at, touched>>

NoneToDelete ==
    /\ pc = "delete" /\ doomed = {}
    /\ IF want = <<>> THEN Return("done") ELSE Proceed("ensure")
    /\ UNCHANGED <<k8s, queued, groups, used, local, touched>>

\* The group and the zone the loop is at: for each group, all zones in order.
Wanted == want[((at - 1) \div Len(Zones)) + 1]

Cell == <<Wanted.name, Zones[((at - 1) % Len(Zones)) + 1]>>

Policies == [in |-> defaultPolicy(Wanted.inbound), out |-> defaultPolicy(Wanted.outbound)]

PoliciesKnown == Policies.in # Invalid /\ Policies.out # Invalid

BadPolicy ==
    /\ pc = "ensure" /\ ~PoliciesKnown
    /\ Return("error")
    /\ UNCHANGED <<k8s, queued, groups, used, local, touched>>

\* A group that is not in the listing is created, with default policies only.
CreateSecurityGroup ==
    /\ pc = "ensure" /\ PoliciesKnown
    /\ listed[Cell] = None
    /\ groups' = [groups EXCEPT ![Cell] = [in |-> Policies.in, out |-> Policies.out, security |-> FALSE,
                                           inRules |-> <<>>, outRules |-> <<>>]]
    /\ Reply("rules")
    /\ UNCHANGED <<k8s, queued, used, local, touched>>

\* Faulty variant: only the inbound policy is looked at.
OutboundIgnored(g) == g.in # Policies.in \/ g.security

Outdated(g) == g.in # Policies.in \/ g.out # Policies.out \/ g.security

UpdateSecurityGroup ==
    /\ pc = "ensure" /\ PoliciesKnown
    /\ listed[Cell] # None
    /\ \/ ~Outdated(listed[Cell]) /\ Proceed("rules") /\ UNCHANGED groups
       \/ /\ Outdated(listed[Cell])
          /\ groups' = [groups EXCEPT ![Cell].in = Policies.in, ![Cell].out = Policies.out,
                                      ![Cell].security = FALSE]
          /\ Reply("rules")
    /\ UNCHANGED <<k8s, queued, used, local, touched>>

\* Faulty variant: the last zone is left out.
NextSkipsLastZone ==
    IF at >= Len(want) * Len(Zones) - 1 THEN Return("done") /\ UNCHANGED at
    ELSE Proceed("ensure") /\ at' = at + 1

\* On to the next zone or group.
NextCell ==
    IF at = Len(want) * Len(Zones) THEN Return("done") /\ UNCHANGED at
    ELSE Proceed("ensure") /\ at' = at + 1

CompareRules ==
    /\ pc = "rules"
    /\ LET inbound  == compareRules(Rules(Wanted.inbound), groups[Cell].inRules)
           outbound == compareRules(Rules(Wanted.outbound), groups[Cell].outRules)
       IN  \/ "error" \in {inbound, outbound} /\ Return("error") /\ UNCHANGED at
           \/ inbound = "equal" /\ outbound = "equal" /\ NextCell
           \/ /\ "error" \notin {inbound, outbound} /\ "differ" \in {inbound, outbound}
              /\ Proceed("set") /\ UNCHANGED at
    /\ UNCHANGED <<k8s, queued, groups, used, deleting, want, listed, doomed, touched>>

RequestRules(policy) == [i \in DOMAIN Rules(policy) |-> toInstanceRequestRule(Rules(policy)[i])]

\* Faulty variant: errors of the conversion are ignored.
ErrorsIgnored(policy) == TRUE

Convertible(policy) == \A i \in DOMAIN Rules(policy) : RequestRules(policy)[i] # Invalid

\* All rules are replaced in one call.
SetSecurityGroupRules ==
    /\ pc = "set"
    /\ \/ /\ ~Convertible(Wanted.inbound) \/ ~Convertible(Wanted.outbound)
          /\ Return("error") /\ UNCHANGED <<groups, at>>
       \/ /\ Convertible(Wanted.inbound) /\ Convertible(Wanted.outbound)
          /\ groups' = [groups EXCEPT ![Cell].inRules = RequestRules(Wanted.inbound),
                                      ![Cell].outRules = RequestRules(Wanted.outbound)]
          /\ NextCell \/ (CallFails /\ UNCHANGED at)
    /\ UNCHANGED <<k8s, queued, used, deleting, want, listed, doomed, touched>>

\* The rest of the reconcile: an error leads to another one, a completed Delete
\* to the removal of the finalizer.
Close ==
    /\ pc = "close" /\ pc' = "idle"
    /\ obj' = IF deleting /\ res = "done" THEN "gone" ELSE obj
    /\ queued' = (queued \/ res # "done")
    /\ deleting' = FALSE /\ want' = <<>> /\ listed' = None /\ doomed' = {} /\ at' = 1
    /\ UNCHANGED <<webhooks, spec, edits, groups, used, touched, res, faults>>

-----------------------------------------------------------------------------
(* The process and its environment *)

Crash ==
    /\ pc # "idle" /\ Fault /\ pc' = "idle"
    /\ queued' = TRUE
    /\ deleting' = FALSE /\ want' = <<>> /\ listed' = None /\ doomed' = {} /\ at' = 1
    /\ UNCHANGED <<k8s, groups, used, touched, res>>

PeriodicResync ==
    /\ obj # "gone" /\ ~queued /\ queued' = TRUE
    /\ UNCHANGED <<k8s, groups, used, local, touched, pc, res, faults>>

UserEdit ==
    /\ obj = "live" /\ edits < MaxEdits /\ edits' = edits + 1
    /\ spec' \in Admitted \ {spec}
    /\ queued' = TRUE
    /\ UNCHANGED <<webhooks, obj, groups, used, local, touched, pc, res, faults>>

UserDelete ==
    /\ obj = "live" /\ obj' = "deleting" /\ queued' = TRUE
    /\ UNCHANGED <<webhooks, spec, edits, groups, used, local, touched, pc, res, faults>>

\* Somebody changes a group in the console.
ChangedByHand(c) ==
    /\ groups[c] # None /\ edits < MaxEdits /\ edits' = edits + 1
    /\ \E g \in HandMade : groups' = [groups EXCEPT ![c] = g]
    /\ touched' = TRUE
    /\ UNCHANGED <<webhooks, spec, obj, queued, used, local, pc, res, faults>>

\* The server of a machine that names a group of the spec ("MUST NOT be removed
\* from this list: remove the machines first") uses it until it is deleted.
ServerCreated(c) ==
    /\ obj = "live" /\ groups[c] # None /\ c \notin used
    /\ \E i \in DOMAIN spec : spec[i].name = c[1]
    /\ used' = used \cup {c}
    /\ UNCHANGED <<k8s, queued, groups, local, touched, pc, res, faults>>

ServerDeleted(c) ==
    /\ c \in used /\ used' = used \ {c}
    /\ UNCHANGED <<k8s, queued, groups, local, touched, pc, res, faults>>

-----------------------------------------------------------------------------

AnyCallRefused ==
    \/ CallRefused("list") \/ (doomed # {} /\ CallRefused("delete"))
    \/ pc = "ensure" /\ PoliciesKnown /\ (listed[Cell] # None => Outdated(listed[Cell]))
       /\ CallRefused("ensure")
    \/ CallRefused("rules") \/ CallRefused("set")

Step ==
    \/ ListSecurityGroups \/ DeleteSecurityGroup \/ NoneToDelete
    \/ BadPolicy \/ CreateSecurityGroup \/ UpdateSecurityGroup
    \/ CompareRules \/ SetSecurityGroupRules \/ AnyCallRefused \/ Close

Environment ==
    \/ Crash \/ PeriodicResync \/ UserEdit \/ UserDelete
    \/ \E c \in Cells : ChangedByHand(c)
    \/ \E c \in InMachines : ServerCreated(c) \/ ServerDeleted(c)

Next == Step \/ Begin \/ Environment

Spec == Init /\ [][Next]_vars

\* The worker keeps working and the informers resync; a server of a cluster that
\* is being deleted goes away in the end.
Fairness ==
    /\ WF_vars(Step) /\ WF_vars(Begin) /\ WF_vars(PeriodicResync)
    /\ \A c \in InMachines : WF_vars(obj = "deleting" /\ ServerDeleted(c))

FairSpec == Spec /\ Fairness

-----------------------------------------------------------------------------
(* Properties *)

Intended(policy) == [i \in DOMAIN Rules(policy) |-> Meaning(Rules(policy)[i])]

Effects(rules) == [i \in DOMAIN rules |-> Effect(rules[i])]

Default(policy) ==
    IF policy = None THEN "Accept" ELSE IF policy.default = None THEN "Accept" ELSE policy.default

\* Port numbers that a uint32 cannot hold have no meaning the API could give them.
HasPorts(sgs) ==
    \A i \in DOMAIN sgs : \A p \in {sgs[i].inbound, sgs[i].outbound} :
        \A k \in DOMAIN Rules(p) : Meaning(Rules(p)[k]).ports \subseteq AllPorts

\* Group g does what sg says.
Enforces(g, sg) ==
    /\ g # None
    /\ g.in = Default(sg.inbound) /\ g.out = Default(sg.outbound) /\ ~g.security
    /\ Effects(g.inRules) = Intended(sg.inbound) /\ Effects(g.outRules) = Intended(sg.outbound)

\* Exactly the groups of sgs exist, in every zone, and do what sgs says.
Enforced(sgs) ==
    \A c \in Cells :
        /\ \A i \in DOMAIN sgs : sgs[i].name = c[1] => Enforces(groups[c], sgs[i])
        /\ groups[c] # None => \E i \in DOMAIN sgs : sgs[i].name = c[1]

\* A reconcile that ends well has every wanted group in every zone, with the
\* policies and rules that the documentation of the fields promises, whatever
\* half-done work of crashed reconciles on older specs it started from.
DoneMeansEnforced ==
    webhooks /\ pc = "close" /\ res = "done" /\ ~touched /\ HasPorts(want) => Enforced(want)

\* Whatever the webhook admits the service can convert: no admitted spec makes
\* every reconcile fail in the conversions, which the webhook does not share.
AdmittedIsConvertible ==
    webhooks => \A i \in DOMAIN spec : \A p \in {spec[i].inbound, spec[i].outbound} :
        defaultPolicy(p) # Invalid /\ Convertible(p)

\* A group is never created a second time: the API would accept another group of
\* the same name, and every later lookup by name would be ambiguous.
NoTwins == webhooks /\ pc = "ensure" /\ listed[Cell] = None => groups[Cell] = None

\* Is a range not written the way the network it stands for is printed?
OddRange(policy) ==
    \E i \in DOMAIN Rules(policy) :
        LET r == Rules(policy)[i].range IN r \notin {None, Invalid} /\ r # Text(ParseCIDR(r))

\* Rules that are right already are not written again, which would interrupt
\* traffic, unless a range has host bits or another form than IPNet.String would give
\* it: its text never equals the text of the network that the API returns.
NoNeedlessRewrite ==
    pc = "set" /\ ~touched =>
        \/ groups[Cell].inRules # RequestRules(Wanted.inbound)
        \/ groups[Cell].outRules # RequestRules(Wanted.outbound)
        \/ OddRange(Wanted.inbound) \/ OddRange(Wanted.outbound)

NamesIn(g) == {c[1] : c \in {d \in Cells : g[d] # None}}

WantedNames == {want[i].name : i \in DOMAIN want}

\* Whenever the call stops, the names that exist are one of the outcomes that
\* ScalewayCluster allows for a call that starts from the listing, and for one that
\* stops because a group is in use.
StopsAsAbstracted ==
    /\ listed # None =>
          NamesIn(groups) \in PartialSGs(NamesIn(listed), WantedNames)
    /\ pc = "delete" /\ doomed \cap used # {} =>
          NamesIn(groups) \in BlockedSGs(NamesIn(listed), WantedNames)

\* A group that is no longer wanted and that a server uses.
Blocked == \E c \in used : \A i \in DOMAIN spec : spec[i].name # c[1]

\* When the user stops editing, the groups end up as the last spec says, and none
\* is left of a deleted cluster, although every call works on a spec and a listing
\* that may be out of date; unless a removed group is in use.
Converges ==
    <>[](webhooks => Blocked \/ ~HasPorts(spec) \/ Enforced(IF obj = "gone" THEN <<>> ELSE spec))

=============================================================================
