-------------------------- MODULE SecurityGroupRules --------------------------
(***************************************************************************)
(* Security groups as the user writes them, as the webhook validates them  *)
(* and as the service converts them and compares them with those of the    *)
(* Scaleway API.                                                           *)
(*                                                                         *)
(* A policy is None (nil) or [default, rules]; a rule is [action, protocol,*)
(* ports, range].  The text of the ports is the sequence of its parts      *)
(* between dashes.  A network is [addr, len]; the text of an IP range also *)
(* says whether it is written the way net.IPNet prints addresses, which    *)
(* "10.0.0.0/08" and "2001:DB8::/32" are not, and may have host bits set.  *)
(* Invalid stands for a text that does not parse and for the error that a  *)
(* conversion returns.                                                     *)
(***************************************************************************)
EXTENDS Integers, Sequences

CONSTANTS
    None,         \* nil
    Invalid,      \* a text that does not parse; an error
    Uint32,       \* the number of values of a uint32
    AddressBits   \* the length of an IP address

ASSUME WidthAssumption == Uint32 \in Nat \ {0} /\ AddressBits \in Nat

Protocols == {"ANY", "TCP", "UDP", "ICMP"}
Actions   == {"Accept", "Drop"}

AllAddresses == 0..(2 ^ AddressBits - 1)
AllPorts     == 0..(Uint32 - 1)
IPRanges     == [addr : AllAddresses, len : 0..AddressBits]
RangeTexts   == [addr : AllAddresses, len : 0..AddressBits, printed : BOOLEAN]

\* What the fields of a rule and of a policy may hold when they are submitted.
RuleTexts   == [action : STRING, protocol : {None} \cup STRING,
                ports : {None} \cup Seq({Invalid} \cup Nat), range : {None, Invalid} \cup RangeTexts]
PolicyTexts == [default : {None} \cup STRING, rules : Seq(RuleTexts)]

\* A rule of the API.
PortRanges == [from : {None} \cup AllPorts, to : {None} \cup AllPorts]
APIRules   == [action : Actions, protocol : Protocols, ports : PortRanges, range : IPRanges]

ASSUME NilAssumption == None \notin {Invalid} \cup STRING \cup Nat \cup RangeTexts
ASSUME InvalidAssumption ==
    Invalid \notin Actions \cup Protocols \cup Nat \cup RangeTexts \cup IPRanges
                    \cup PortRanges \cup APIRules

\* A fact of arithmetic, which takes an induction.
ASSUME PowerAssumption == \A n \in 0..AddressBits : 2 ^ n > 0

-----------------------------------------------------------------------------
(* Conversions *)

\* A single port has no upper end.  strconv.Atoi yields an int (64 bits), the
\* order of the two ends is tested before they are converted to uint32.
ToRange(ports) ==
    IF ports = None THEN [from |-> None, to |-> None]
    ELSE IF \/ Len(ports) \notin {1, 2}
            \/ \E i \in DOMAIN ports : ports[i] = Invalid
            \/ Len(ports) = 2 /\ ports[2] < ports[1]
         THEN Invalid
         ELSE [from |-> ports[1] % Uint32,
               to   |-> IF Len(ports) = 2 THEN ports[2] % Uint32 ELSE None]

ToInstance(protocol) ==
    IF protocol = None THEN "ANY" ELSE IF protocol \in Protocols THEN protocol ELSE Invalid

\* ToInstanceAction and ToInstancePolicy map the same names to the same names.
ToInstanceAction(action) ==
    IF action = None THEN "Accept" ELSE IF action \in Actions THEN action ELSE Invalid

\* net.ParseCIDR returns the network: the host bits are cleared.
ParseCIDR(range) ==
    IF range = Invalid THEN Invalid
    ELSE [addr |-> range.addr - (range.addr % 2 ^ (AddressBits - range.len)), len |-> range.len]

\* IPNet.String.
Text(net) == [addr |-> net.addr, len |-> net.len, printed |-> TRUE]

Anywhere == [addr |-> 0, len |-> 0]

IPRange(range) == IF range = None THEN Text(Anywhere) ELSE range

defaultPolicy(policy) ==
    IF policy = None THEN "Accept" ELSE ToInstanceAction(policy.default)

Rules(policy) == IF policy = None THEN <<>> ELSE policy.rules

toInstanceRequestRule(rule) ==
    LET action   == ToInstanceAction(rule.action)
        protocol == ToInstance(rule.protocol)
        ports    == ToRange(rule.ports)
        range    == ParseCIDR(IPRange(rule.range))
    IN  IF action = Invalid \/ protocol = Invalid \/ ports = Invalid \/ range = Invalid THEN Invalid
        ELSE [action |-> action, protocol |-> protocol, ports |-> ports, range |-> range]

-----------------------------------------------------------------------------
(* Comparison with the rules of the API *)

Mismatch(expected) == IF expected = Invalid THEN "error" ELSE "differ"

\* Faulty variant: an unset IP range is not replaced by its default.
RangeNotDefaulted(a, b) ==
    IF ToInstance(a.protocol) # b.protocol THEN Mismatch(ToInstance(a.protocol))
    ELSE IF ToInstanceAction(a.action) # b.action THEN Mismatch(ToInstanceAction(a.action))
    ELSE IF a.range # Text(b.range) THEN "differ"
    ELSE IF ToRange(a.ports) # b.ports THEN Mismatch(ToRange(a.ports))
    ELSE "equal"

\* The text of the range is compared with the text of the network in the API.
compareRule(a, b) ==
    IF ToInstance(a.protocol) # b.protocol THEN Mismatch(ToInstance(a.protocol))
    ELSE IF ToInstanceAction(a.action) # b.action THEN Mismatch(ToInstanceAction(a.action))
    ELSE IF IPRange(a.range) # Text(b.range) THEN "differ"
    ELSE IF ToRange(a.ports) # b.ports THEN Mismatch(ToRange(a.ports))
    ELSE "equal"

\* The first rule that is not equal decides.
compareRules(a, b) ==
    LET bad == {i \in DOMAIN a : compareRule(a[i], b[i]) # "equal"}
    IN  IF Len(a) # Len(b) THEN "differ"
        ELSE IF bad = {} THEN "equal"
        ELSE LET i == CHOOSE i \in bad : \A j \in bad : i <= j IN compareRule(a[i], b[i])

-----------------------------------------------------------------------------
(* The validating webhook *)

\* Faulty variant: the ports are not parsed.
PortsNotValidated(rule) ==
    /\ ToInstanceAction(rule.action) # Invalid
    /\ ToInstance(rule.protocol) # Invalid
    /\ ToInstance(rule.protocol) \in {"ANY", "ICMP"} => rule.ports = None
    /\ rule.range # None => ParseCIDR(rule.range) # Invalid

validateRule(rule) ==
    /\ ToInstanceAction(rule.action) # Invalid
    /\ ToInstance(rule.protocol) # Invalid
    /\ ToRange(rule.ports) # Invalid
    /\ ToInstance(rule.protocol) \in {"ANY", "ICMP"} => rule.ports = None
    /\ rule.range # None => ParseCIDR(rule.range) # Invalid

validateSecurityGroupPolicy(policy) ==
    policy # None =>
        /\ ToInstanceAction(policy.default) # Invalid
        /\ \A i \in DOMAIN policy.rules : validateRule(policy.rules[i])

\* Faulty variant: names may be used twice.
DuplicateNames(sgs) ==
    \A i \in DOMAIN sgs : /\ validateSecurityGroupPolicy(sgs[i].inbound)
                          /\ validateSecurityGroupPolicy(sgs[i].outbound)

validateSecurityGroups(sgs) ==
    /\ \A i, j \in DOMAIN sgs : sgs[i].name = sgs[j].name => i = j
    /\ \A i \in DOMAIN sgs : /\ validateSecurityGroupPolicy(sgs[i].inbound)
                             /\ validateSecurityGroupPolicy(sgs[i].outbound)

-----------------------------------------------------------------------------
(* Reference: what a rule means, as the API documentation explains it *)

SameNetwork(a, b, len) ==
    a \div 2 ^ (AddressBits - len) = b \div 2 ^ (AddressBits - len)

Matching(range) == {a \in AllAddresses : SameNetwork(a, range.addr, range.len)}

PortsBetween(from, to) ==
    IF from = None THEN AllPorts ELSE IF to = None THEN {from} ELSE from..to

\* "Port or range of ports this rule applies to", "Defaults to 0.0.0.0/0", "If
\* unset, defaults to ANY".
Meaning(rule) ==
    [action   |-> rule.action,
     protocol |-> IF rule.protocol = None THEN "ANY" ELSE rule.protocol,
     addrs    |-> IF rule.range = None THEN AllAddresses ELSE Matching(rule.range),
     ports    |-> IF rule.ports = None THEN AllPorts
                  ELSE rule.ports[1]..rule.ports[Len(rule.ports)]]

\* What a rule of the API lets through.
Effect(rule) ==
    [action |-> rule.action, protocol |-> rule.protocol,
     addrs  |-> Matching(rule.range), ports |-> PortsBetween(rule.ports.from, rule.ports.to)]

=============================================================================
