------------------------- MODULE SecurityGroupsProofs -------------------------
(***************************************************************************)
(* Theorems about the security group service: what the webhook admits can  *)
(* be converted, the conversion and the comparison of rules keep their     *)
(* meaning, and a call of ensureSecurityGroups that ends well has every    *)
(* group in every zone, for any groups, zones, rules and widths.           *)
(***************************************************************************)
EXTENDS SecurityGroups, WellFoundedInduction, TLAPS

-----------------------------------------------------------------------------
(* Arithmetic *)

\* What division and remainder are.
LEMMA Euclid ==
    ASSUME NEW a \in Int, NEW n \in Nat \ {0}
    PROVE  a \div n \in Int /\ a % n \in 0..(n - 1) /\ a = n * (a \div n) + (a % n)
  OBVIOUS

\* Quotient and remainder identify a number.
LEMMA EuclidUnique ==
    ASSUME NEW n \in Nat \ {0}, NEW i \in Int, NEW j \in 0..(n - 1)
    PROVE  (i * n + j) \div n = i /\ (i * n + j) % n = j
  BY Euclid

\* The network of an address is that of its canonical form.
LEMMA ClearedBits ==
    ASSUME NEW n \in Nat \ {0}, NEW a \in Nat
    PROVE  a - (a % n) \in 0..a /\ (a - (a % n)) \div n = a \div n
  <1>1. a \div n \in Int /\ a % n \in 0..(n - 1) /\ a = n * (a \div n) + (a % n)
    BY Euclid
  <1>2. a - (a % n) = (a \div n) * n + 0
    BY <1>1
  <1>3. ((a \div n) * n + 0) \div n = a \div n
    BY <1>1, EuclidUnique
  <1>4. a % n <= a
    <2>1. a \div n >= 0
      BY <1>1
    <2>2. n * (a \div n) >= 0
      BY <1>1, <2>1
    <2> QED BY <1>1, <2>2
  <1> QED BY <1>1, <1>2, <1>3, <1>4

\* A number below n is its own remainder, and its quotient is zero.
LEMMA SmallNumbers ==
    ASSUME NEW n \in Nat \ {0}, NEW a \in 0..(n - 1)
    PROVE  a % n = a /\ a \div n = 0
  BY Euclid

\* The lengths of the host part of an address.
LEMMA Powers == \A len \in 0..AddressBits : 2 ^ (AddressBits - len) \in Nat \ {0}
  <1> SUFFICES ASSUME NEW len \in 0..AddressBits PROVE 2 ^ (AddressBits - len) \in Nat \ {0}
    OBVIOUS
  <1> DEFINE n == AddressBits - len
  <1>1. n \in 0..AddressBits /\ n \in Nat
    BY WidthAssumption
  <1>2. 2 ^ n \in Int
    BY <1>1
  <1>3. 2 ^ n > 0
    BY <1>1, PowerAssumption
  <1> QED BY <1>2, <1>3

-----------------------------------------------------------------------------
(* Conversions *)

\* An action, or the default policy, is converted to its name.
LEMMA ActionConverted ==
    ASSUME NEW a \in {None} \cup STRING, ToInstanceAction(a) # Invalid
    PROVE  /\ ToInstanceAction(a) \in Actions
           /\ ToInstanceAction(a) = IF a = None THEN "Accept" ELSE a
  BY DEF ToInstanceAction, Actions

\* A protocol is converted to its name.
LEMMA ProtocolConverted ==
    ASSUME NEW p \in {None} \cup STRING, ToInstance(p) # Invalid
    PROVE  /\ ToInstance(p) \in Protocols
           /\ ToInstance(p) = IF p = None THEN "ANY" ELSE p
  BY DEF ToInstance, Protocols

\* Ports are converted to two numbers of 32 bits.
LEMMA PortsConverted ==
    ASSUME NEW ports \in {None} \cup Seq({Invalid} \cup Nat), ToRange(ports) # Invalid
    PROVE  ToRange(ports) \in PortRanges
  <1>1. CASE ports = None
    BY <1>1 DEF ToRange, PortRanges
  <1>2. CASE ports # None
    <2>1. ports \in Seq({Invalid} \cup Nat) /\ Len(ports) \in {1, 2} /\ \A i \in DOMAIN ports : ports[i] # Invalid
      BY <1>2 DEF ToRange
    <2>2. \A i \in 1..Len(ports) : ports[i] \in Nat
      BY <2>1
    <2>3. \A i \in 1..Len(ports) : ports[i] % Uint32 \in AllPorts
      <3> TAKE i \in 1..Len(ports)
      <3>1. ports[i] \in Int /\ Uint32 \in Nat \ {0}
        BY <2>2, WidthAssumption
      <3>2. ports[i] % Uint32 \in 0..(Uint32 - 1)
        BY <3>1, Euclid
      <3> QED BY <3>2 DEF AllPorts
    <2>4. ToRange(ports) = [from |-> ports[1] % Uint32,
                            to   |-> IF Len(ports) = 2 THEN ports[2] % Uint32 ELSE None]
      BY <1>2 DEF ToRange
    <2> QED BY <2>1, <2>3, <2>4 DEF PortRanges
  <1> QED BY <1>1, <1>2

\* The converted ports are those that the rule names, if a uint32 can hold them.
LEMMA PortsKept ==
    ASSUME NEW r \in RuleTexts, ToRange(r.ports) # Invalid, Meaning(r).ports \subseteq AllPorts
    PROVE  PortsBetween(ToRange(r.ports).from, ToRange(r.ports).to) = Meaning(r).ports
  <1> DEFINE ports == r.ports
  <1>1. CASE ports = None
    BY <1>1 DEF ToRange, PortsBetween, Meaning
  <1>2. CASE ports # None
    <2>1. ports \in Seq({Invalid} \cup Nat) /\ Len(ports) \in {1, 2} /\ \A i \in DOMAIN ports : ports[i] # Invalid
      BY <1>2 DEF ToRange, RuleTexts
    <2>2. \A i \in 1..Len(ports) : ports[i] \in Nat
      BY <2>1
    <2>3. Meaning(r).ports = ports[1]..ports[Len(ports)]
      BY <1>2 DEF Meaning
    <2>4. ToRange(ports) = [from |-> ports[1] % Uint32,
                            to   |-> IF Len(ports) = 2 THEN ports[2] % Uint32 ELSE None]
      BY <1>2 DEF ToRange
    <2>5. CASE Len(ports) = 1
      <3>1. ports[1] \in AllPorts
        BY <2>2, <2>3, <2>5 DEF AllPorts
      <3>2. ports[1] % Uint32 = ports[1]
        BY <3>1, SmallNumbers, WidthAssumption DEF AllPorts
      <3>3. ports[1]..ports[1] = {ports[1]}
        BY <2>2, <2>5
      <3>4. ports[1] # None
        BY <2>2, <2>5, NilAssumption
      <3> QED BY <2>3, <2>4, <2>5, <3>2, <3>3, <3>4 DEF PortsBetween
    <2>6. CASE Len(ports) = 2
      <3>1. ports[1] \in Nat /\ ports[2] \in Nat /\ ports[1] <= ports[2]
        BY <1>2, <2>1, <2>2, <2>6 DEF ToRange
      <3>2. ports[1] \in AllPorts /\ ports[2] \in AllPorts
        BY <2>3, <2>6, <3>1
      <3>3. ports[1] % Uint32 = ports[1] /\ ports[2] % Uint32 = ports[2]
        BY <3>2, SmallNumbers, WidthAssumption DEF AllPorts
      <3>4. ports[1] # None /\ ports[2] # None
        BY <3>1, NilAssumption
      <3> QED BY <2>3, <2>4, <2>6, <3>3, <3>4 DEF PortsBetween
    <2> QED BY <2>1, <2>5, <2>6
  <1> QED BY <1>1, <1>2

\* The default of a range that is not set lets everybody in.
LEMMA AnywhereIsAll == Anywhere \in IPRanges /\ Matching(Anywhere) = AllAddresses
  <1>1. AddressBits \in Nat /\ 0 \in 0..AddressBits /\ 2 ^ (AddressBits - 0) \in Nat \ {0}
    BY Powers, WidthAssumption
  <1> DEFINE n == 2 ^ AddressBits
  <1>2. n \in Nat \ {0} /\ 2 ^ (AddressBits - 0) = n
    BY <1>1
  <1>3. Anywhere \in IPRanges
    BY <1>1, <1>2 DEF Anywhere, IPRanges, AllAddresses
  <1>4. \A a \in AllAddresses : SameNetwork(a, 0, 0)
    <2> TAKE a \in AllAddresses
    <2>1. a \div n = 0 /\ 0 \div n = 0
      BY <1>2, SmallNumbers DEF AllAddresses
    <2> QED BY <1>2, <2>1 DEF SameNetwork
  <1> QED BY <1>3, <1>4 DEF Matching, Anywhere

\* The same for its text.
LEMMA AnywhereText == Text(Anywhere) \in RangeTexts /\ Matching(Text(Anywhere)) = AllAddresses
  <1>1. Text(Anywhere).addr = Anywhere.addr /\ Text(Anywhere).len = Anywhere.len
    BY DEF Text
  <1>2. Text(Anywhere) \in RangeTexts
    BY AnywhereIsAll DEF Text, RangeTexts, IPRanges
  <1> QED BY <1>1, <1>2, AnywhereIsAll DEF Matching

\* ParseCIDR keeps the addresses that a range matches.
LEMMA RangeConverted ==
    ASSUME NEW r \in RangeTexts
    PROVE  ParseCIDR(r) \in IPRanges /\ Matching(ParseCIDR(r)) = Matching(r)
  <1>1. r.addr \in AllAddresses /\ r.len \in 0..AddressBits /\ r.addr \in Nat
    BY DEF RangeTexts, AllAddresses
  <1> DEFINE n == 2 ^ (AddressBits - r.len)
             p == ParseCIDR(r)
  <1>2. n \in Nat \ {0}
    BY <1>1, Powers
  <1>3. r # Invalid
    BY InvalidAssumption
  <1>4. p = [addr |-> r.addr - (r.addr % n), len |-> r.len]
    BY <1>3 DEF ParseCIDR
  <1>5. p.addr \in 0..r.addr /\ p.addr \div n = r.addr \div n
    <2>1. p.addr = r.addr - (r.addr % n)
      BY <1>4
    <2> HIDE DEF n, p
    <2> QED BY <1>1, <1>2, <2>1, ClearedBits
  <1>6. p.addr \in AllAddresses
    <2>1. 2 ^ AddressBits \in Int
      BY WidthAssumption
    <2>2. r.addr \in Int /\ r.addr <= 2 ^ AddressBits - 1
      BY <1>1, <2>1 DEF AllAddresses
    <2>3. p.addr \in Int /\ 0 <= p.addr /\ p.addr <= r.addr
      BY <1>5, <2>2
    <2> HIDE DEF p
    <2> QED BY <2>1, <2>2, <2>3 DEF AllAddresses
  <1>7. p \in IPRanges
    BY <1>1, <1>4, <1>6 DEF IPRanges
  <1>8. p.len = r.len
    BY <1>4
  <1>9. \A a \in AllAddresses : SameNetwork(a, p.addr, p.len) <=> SameNetwork(a, r.addr, r.len)
    BY <1>5, <1>8 DEF SameNetwork
  <1> QED BY <1>7, <1>9 DEF Matching

\* A rule that is converted is a rule of the API, and means what the documentation
\* of its fields says.
LEMMA RuleConverted ==
    ASSUME NEW r \in RuleTexts, toInstanceRequestRule(r) # Invalid
    PROVE  /\ toInstanceRequestRule(r) \in APIRules
           /\ Meaning(r).ports \subseteq AllPorts => Effect(toInstanceRequestRule(r)) = Meaning(r)
  <1> DEFINE action   == ToInstanceAction(r.action)
             protocol == ToInstance(r.protocol)
             ports    == ToRange(r.ports)
             range    == ParseCIDR(IPRange(r.range))
             t        == toInstanceRequestRule(r)
  <1>1. /\ action # Invalid /\ protocol # Invalid /\ ports # Invalid /\ range # Invalid
        /\ t = [action |-> action, protocol |-> protocol, ports |-> ports, range |-> range]
    BY DEF toInstanceRequestRule
  <1>2. /\ r.action \in STRING /\ r.protocol \in {None} \cup STRING
        /\ r.ports \in {None} \cup Seq({Invalid} \cup Nat) /\ r.range \in {None, Invalid} \cup RangeTexts
    BY DEF RuleTexts
  <1>3. action \in Actions /\ action = r.action
    BY <1>1, <1>2, ActionConverted, NilAssumption
  <1>4. protocol \in Protocols /\ protocol = IF r.protocol = None THEN "ANY" ELSE r.protocol
    BY <1>1, <1>2, ProtocolConverted
  <1>5. ports \in PortRanges
    BY <1>1, <1>2, PortsConverted
  <1>6. /\ range \in IPRanges
        /\ Matching(range) = IF r.range = None THEN AllAddresses ELSE Matching(r.range)
    <2>1. CASE r.range = None
      BY <2>1, RangeConverted, AnywhereText DEF IPRange
    <2>2. CASE r.range # None
      <3>1. r.range \in RangeTexts /\ IPRange(r.range) = r.range
        BY <1>1, <1>2, <2>2 DEF IPRange, ParseCIDR
      <3> QED BY <2>2, <3>1, RangeConverted
    <2> QED BY <2>1, <2>2
  <1> HIDE DEF action, protocol, ports, range
  <1>7. t \in APIRules
    BY <1>1, <1>3, <1>4, <1>5, <1>6 DEF APIRules
  <1>8. ASSUME Meaning(r).ports \subseteq AllPorts PROVE Effect(t) = Meaning(r)
    <2>1. PortsBetween(ports.from, ports.to) = Meaning(r).ports
      BY <1>1, <1>8, PortsKept DEF ports
    <2>2. /\ t.action = action /\ t.protocol = protocol /\ t.ports = ports /\ t.range = range
      BY <1>1
    <2>3. Effect(t) = [action |-> action, protocol |-> protocol, addrs |-> Matching(range),
                       ports |-> Meaning(r).ports]
      BY <2>1, <2>2 DEF Effect
    <2>4. /\ Meaning(r).action = action /\ Meaning(r).protocol = protocol
          /\ Meaning(r).addrs = Matching(range)
      BY <1>3, <1>4, <1>6 DEF Meaning
    <2>5. Meaning(r) = [action |-> Meaning(r).action, protocol |-> Meaning(r).protocol,
                        addrs |-> Meaning(r).addrs, ports |-> Meaning(r).ports]
      BY DEF Meaning
    <2> QED BY <2>3, <2>4, <2>5
  <1> QED BY <1>7, <1>8

\* A rule that equals one of the API is enforced by that one.
LEMMA EqualIsEnforced ==
    ASSUME NEW r \in RuleTexts, NEW b \in APIRules, compareRule(r, b) = "equal",
           Meaning(r).ports \subseteq AllPorts
    PROVE  Effect(b) = Meaning(r)
  <1>1. /\ ToInstance(r.protocol) = b.protocol /\ ToInstanceAction(r.action) = b.action
        /\ IPRange(r.range) = Text(b.range) /\ ToRange(r.ports) = b.ports
    BY DEF compareRule, Mismatch
  <1>2. /\ r.action \in STRING /\ r.protocol \in {None} \cup STRING
        /\ r.ports \in {None} \cup Seq({Invalid} \cup Nat) /\ r.range \in {None, Invalid} \cup RangeTexts
    BY DEF RuleTexts
  <1>3. b.protocol \in Protocols /\ b.action \in Actions /\ b.ports \in PortRanges /\ b.range \in IPRanges
    BY DEF APIRules
  <1>4. b.protocol # Invalid /\ b.action # Invalid /\ b.ports # Invalid
    BY <1>3, InvalidAssumption
  <1>5. b.action = r.action
    BY <1>1, <1>2, <1>4, ActionConverted, NilAssumption
  <1>6. b.protocol = IF r.protocol = None THEN "ANY" ELSE r.protocol
    BY <1>1, <1>2, <1>4, ProtocolConverted
  <1>7. Matching(b.range) = IF r.range = None THEN AllAddresses ELSE Matching(r.range)
    <2>1. Matching(Text(b.range)) = Matching(b.range)
      <3>1. Text(b.range).addr = b.range.addr /\ Text(b.range).len = b.range.len
        BY DEF Text
      <3> QED BY <3>1 DEF Matching
    <2> QED BY <1>1, <2>1, AnywhereText DEF IPRange
  <1>8. PortsBetween(b.ports.from, b.ports.to) = Meaning(r).ports
    <2>1. PortsBetween(ToRange(r.ports).from, ToRange(r.ports).to) = Meaning(r).ports
      BY <1>1, <1>4, PortsKept
    <2> QED BY <1>1, <2>1
  <1>9. Effect(b) = [action |-> b.action, protocol |-> b.protocol, addrs |-> Matching(b.range),
                     ports |-> Meaning(r).ports]
    BY <1>8 DEF Effect
  <1>10. /\ Meaning(r).action = b.action /\ Meaning(r).protocol = b.protocol
         /\ Meaning(r).addrs = Matching(b.range)
    BY <1>5, <1>6, <1>7 DEF Meaning
  <1>11. Meaning(r) = [action |-> Meaning(r).action, protocol |-> Meaning(r).protocol,
                       addrs |-> Meaning(r).addrs, ports |-> Meaning(r).ports]
    BY DEF Meaning
  <1> QED BY <1>9, <1>10, <1>11

\* A rule of the API equals the rule it was made from, if that one has its range in the
\* form in which networks are printed.
LEMMA WrittenIsEqual ==
    ASSUME NEW r \in RuleTexts, toInstanceRequestRule(r) # Invalid,
           r.range # None => Text(ParseCIDR(r.range)) = r.range
    PROVE  compareRule(r, toInstanceRequestRule(r)) = "equal"
  <1> DEFINE t == toInstanceRequestRule(r)
  <1>1. /\ t.action = ToInstanceAction(r.action) /\ t.protocol = ToInstance(r.protocol)
        /\ t.ports = ToRange(r.ports) /\ t.range = ParseCIDR(IPRange(r.range))
    BY DEF toInstanceRequestRule
  <1>2. Text(ParseCIDR(IPRange(r.range))) = IPRange(r.range)
    <2>1. CASE r.range = None
      <3>1. Text(Anywhere) # Invalid
        BY AnywhereText, InvalidAssumption
      <3>2. 2 ^ (AddressBits - 0) \in Nat \ {0}
        BY Powers, WidthAssumption
      <3>3. 0 % (2 ^ (AddressBits - 0)) = 0
        BY <3>2, SmallNumbers
      <3>4. Text(Anywhere).addr = 0 /\ Text(Anywhere).len = 0
        BY DEF Text, Anywhere
      <3>5. ParseCIDR(Text(Anywhere)) = Anywhere
        <4>1. ParseCIDR(Text(Anywhere)) = [addr |-> 0 - (0 % 2 ^ (AddressBits - 0)), len |-> 0]
          BY <3>1, <3>4 DEF ParseCIDR
        <4> QED BY <3>3, <4>1 DEF Anywhere
      <3> QED BY <2>1, <3>5 DEF IPRange
    <2>2. CASE r.range # None
      BY <2>2 DEF IPRange
    <2> QED BY <2>1, <2>2
  <1> HIDE DEF t
  <1> QED BY <1>1, <1>2 DEF compareRule, t

-----------------------------------------------------------------------------
(* Lists of rules *)

\* Every nonempty set of indices has a first one.
LEMMA FirstIndex ==
    ASSUME NEW n \in Nat, NEW S \in SUBSET (1..n), S # {}
    PROVE  \E i \in S : \A j \in S : i <= j
  <1>1. S \subseteq Nat
    OBVIOUS
  <1>2. PICK i \in S : \A j \in S : ~(<<j, i>> \in OpToRel(<, Nat))
    BY <1>1, WFMin, NatLessThanWellFounded
  <1>3. \A j \in S : <<j, i>> \in OpToRel(<, Nat) <=> j < i
    BY <1>1, <1>2 DEF OpToRel
  <1>4. \A j \in S : i <= j
    <2> TAKE j \in S
    <2>1. j \in Nat /\ i \in Nat /\ ~(j < i)
      BY <1>1, <1>2, <1>3
    <2> QED BY <2>1
  <1> QED BY <1>2, <1>4

\* Lists of rules are equal only if all their rules are.
LEMMA ListsEqual ==
    ASSUME NEW a \in Seq(RuleTexts), NEW b \in Seq(APIRules)
    PROVE  /\ compareRules(a, b) = "equal" =>
                  Len(a) = Len(b) /\ \A i \in 1..Len(a) : compareRule(a[i], b[i]) = "equal"
           /\ Len(a) = Len(b) /\ (\A i \in 1..Len(a) : compareRule(a[i], b[i]) = "equal") =>
                  compareRules(a, b) = "equal"
           /\ compareRules(a, b) \in {"equal", "differ", "error"}
  <1> DEFINE bad   == {i \in DOMAIN a : compareRule(a[i], b[i]) # "equal"}
             first == CHOOSE i \in bad : \A j \in bad : i <= j
  <1>1. DOMAIN a = 1..Len(a) /\ Len(a) \in Nat
    OBVIOUS
  <1>2. bad # {} => first \in bad
    <2>1. bad \in SUBSET (1..Len(a))
      BY <1>1
    <2>2. bad # {} => \E i \in bad : \A j \in bad : i <= j
      BY <1>1, <2>1, FirstIndex
    <2> HIDE DEF bad
    <2> QED BY <2>2
  <1>3. bad # {} => compareRule(a[first], b[first]) # "equal"
    BY <1>2
  <1>4. \A i : compareRule(a[i], b[i]) \in {"equal", "differ", "error"}
    BY DEF compareRule, Mismatch
  <1>5. compareRules(a, b) = IF Len(a) # Len(b) THEN "differ"
                             ELSE IF bad = {} THEN "equal" ELSE compareRule(a[first], b[first])
    BY DEF compareRules
  <1> HIDE DEF first
  <1> QED BY <1>1, <1>3, <1>4, <1>5

\* A policy of a group that is submitted may be nil.
PolicyValues == {None} \cup PolicyTexts

\* What a policy contains.
LEMMA PolicyParts ==
    ASSUME NEW p \in PolicyValues
    PROVE  /\ Rules(p) \in Seq(RuleTexts) /\ DOMAIN Rules(p) = 1..Len(Rules(p)) /\ Len(Rules(p)) \in Nat
           /\ p # None => p.default \in {None} \cup STRING
  BY DEF PolicyValues, PolicyTexts, Rules

\* The default policy is converted to what it says.
LEMMA DefaultConverted ==
    ASSUME NEW p \in PolicyValues, defaultPolicy(p) # Invalid
    PROVE  defaultPolicy(p) \in Actions /\ defaultPolicy(p) = Default(p)
  <1>1. CASE p = None
    BY <1>1 DEF defaultPolicy, Default, Actions
  <1>2. CASE p # None
    <2>1. p.default \in {None} \cup STRING /\ ToInstanceAction(p.default) # Invalid
      BY <1>2, PolicyParts DEF defaultPolicy
    <2> QED BY <1>2, <2>1, ActionConverted DEF defaultPolicy, Default
  <1> QED BY <1>1, <1>2

\* What the rules of a policy must be like for the API to hold their ports.
PortsFit(p) == \A k \in DOMAIN Rules(p) : Meaning(Rules(p)[k]).ports \subseteq AllPorts

\* The rules of a policy that can be converted do what the policy says.
LEMMA RulesConverted ==
    ASSUME NEW p \in PolicyValues, Convertible(p)
    PROVE  /\ RequestRules(p) \in Seq(APIRules)
           /\ PortsFit(p) => Effects(RequestRules(p)) = Intended(p)
  <1>1. Rules(p) \in Seq(RuleTexts) /\ DOMAIN Rules(p) = 1..Len(Rules(p)) /\ Len(Rules(p)) \in Nat
    BY PolicyParts
  <1>2. \A i \in 1..Len(Rules(p)) : Rules(p)[i] \in RuleTexts
    BY <1>1
  <1>3. \A i \in 1..Len(Rules(p)) : RequestRules(p)[i] = toInstanceRequestRule(Rules(p)[i])
    BY <1>1 DEF RequestRules
  <1>4. \A i \in 1..Len(Rules(p)) : toInstanceRequestRule(Rules(p)[i]) # Invalid
    BY <1>1, <1>3 DEF Convertible
  <1>5. \A i \in 1..Len(Rules(p)) : toInstanceRequestRule(Rules(p)[i]) \in APIRules
    BY <1>2, <1>4, RuleConverted
  <1>6. RequestRules(p) \in [1..Len(Rules(p)) -> APIRules]
    BY <1>1, <1>5 DEF RequestRules
  <1>7. RequestRules(p) \in Seq(APIRules)
    BY <1>1, <1>6
  <1>8. ASSUME PortsFit(p) PROVE Effects(RequestRules(p)) = Intended(p)
    <2>1. \A i \in 1..Len(Rules(p)) : Effect(toInstanceRequestRule(Rules(p)[i])) = Meaning(Rules(p)[i])
      BY <1>1, <1>2, <1>4, <1>8, RuleConverted DEF PortsFit
    <2>2. DOMAIN RequestRules(p) = 1..Len(Rules(p))
      BY <1>6
    <2> QED BY <1>1, <1>3, <2>1, <2>2 DEF Effects, Intended
  <1> QED BY <1>7, <1>8

\* Rules that equal those of a policy do what the policy says.
LEMMA EqualRules ==
    ASSUME NEW p \in PolicyValues, NEW b \in Seq(APIRules), compareRules(Rules(p), b) = "equal", PortsFit(p)
    PROVE  Effects(b) = Intended(p)
  <1>1. Rules(p) \in Seq(RuleTexts) /\ DOMAIN Rules(p) = 1..Len(Rules(p)) /\ Len(Rules(p)) \in Nat
    BY PolicyParts
  <1>2. Len(Rules(p)) = Len(b) /\ \A i \in 1..Len(Rules(p)) : compareRule(Rules(p)[i], b[i]) = "equal"
    BY <1>1, ListsEqual
  <1>3. \A i \in 1..Len(Rules(p)) : Rules(p)[i] \in RuleTexts /\ b[i] \in APIRules
    BY <1>1, <1>2
  <1>4. \A i \in 1..Len(Rules(p)) : Effect(b[i]) = Meaning(Rules(p)[i])
    BY <1>1, <1>2, <1>3, EqualIsEnforced DEF PortsFit
  <1>5. DOMAIN b = 1..Len(Rules(p))
    BY <1>2
  <1> QED BY <1>1, <1>4, <1>5 DEF Effects, Intended

\* Rules as they are written equal those of the policy, unless a range is odd.
LEMMA WrittenRules ==
    ASSUME NEW p \in PolicyValues, NEW b \in Seq(APIRules), b = RequestRules(p), ~OddRange(p)
    PROVE  compareRules(Rules(p), b) = "equal"
  <1>1. Rules(p) \in Seq(RuleTexts) /\ DOMAIN Rules(p) = 1..Len(Rules(p)) /\ Len(Rules(p)) \in Nat
    BY PolicyParts
  <1>2. DOMAIN b = 1..Len(Rules(p)) /\ \A i \in 1..Len(Rules(p)) : b[i] = toInstanceRequestRule(Rules(p)[i])
    BY <1>1 DEF RequestRules
  <1>3. Len(b) = Len(Rules(p)) /\ \A i \in 1..Len(Rules(p)) : b[i] \in APIRules /\ Rules(p)[i] \in RuleTexts
    BY <1>1, <1>2
  <1>4. \A i \in 1..Len(Rules(p)) : toInstanceRequestRule(Rules(p)[i]) # Invalid
    BY <1>2, <1>3, InvalidAssumption
  <1>5. \A i \in 1..Len(Rules(p)) :
            Rules(p)[i].range # None => Text(ParseCIDR(Rules(p)[i].range)) = Rules(p)[i].range
    <2> TAKE i \in 1..Len(Rules(p))
    <2>1. ParseCIDR(IPRange(Rules(p)[i].range)) # Invalid
      BY <1>4 DEF toInstanceRequestRule
    <2>2. CASE Rules(p)[i].range = Invalid
      <3>1. Invalid # None
        BY NilAssumption
      <3> QED BY <2>1, <2>2, <3>1 DEF IPRange, ParseCIDR
    <2>3. CASE Rules(p)[i].range # Invalid
      BY <1>1, <2>3 DEF OddRange
    <2> QED BY <2>2, <2>3
  <1>6. \A i \in 1..Len(Rules(p)) : compareRule(Rules(p)[i], b[i]) = "equal"
    BY <1>2, <1>3, <1>4, <1>5, WrittenIsEqual
  <1> QED BY <1>1, <1>3, <1>6, ListsEqual

\* A policy that the webhook admits can be converted.
LEMMA ValidConverts ==
    ASSUME NEW p \in PolicyValues, validateSecurityGroupPolicy(p)
    PROVE  defaultPolicy(p) # Invalid /\ Convertible(p)
  <1>1. Rules(p) \in Seq(RuleTexts) /\ DOMAIN Rules(p) = 1..Len(Rules(p))
    BY PolicyParts
  <1>2. "Accept" # Invalid
    BY InvalidAssumption DEF Actions
  <1>3. defaultPolicy(p) # Invalid
    BY <1>2 DEF defaultPolicy, validateSecurityGroupPolicy
  <1>4. \A i \in DOMAIN Rules(p) : validateRule(Rules(p)[i])
    BY DEF validateSecurityGroupPolicy, Rules
  <1>5. \A i \in DOMAIN Rules(p) : toInstanceRequestRule(Rules(p)[i]) # Invalid
    <2> TAKE i \in DOMAIN Rules(p)
    <2> DEFINE r == Rules(p)[i]
    <2>1. r \in RuleTexts
      BY <1>1
    <2>2. /\ ToInstanceAction(r.action) # Invalid /\ ToInstance(r.protocol) # Invalid
          /\ ToRange(r.ports) # Invalid
          /\ r.range # None => ParseCIDR(r.range) # Invalid
      BY <1>4 DEF validateRule
    <2>3. ParseCIDR(IPRange(r.range)) # Invalid
      <3>1. ParseCIDR(Text(Anywhere)) # Invalid
        BY AnywhereText, RangeConverted, InvalidAssumption
      <3> QED BY <2>2, <3>1 DEF IPRange
    <2> DEFINE t == [action |-> ToInstanceAction(r.action), protocol |-> ToInstance(r.protocol),
                     ports |-> ToRange(r.ports), range |-> ParseCIDR(IPRange(r.range))]
    <2>4. toInstanceRequestRule(r) = t
      BY <2>2, <2>3 DEF toInstanceRequestRule
    <2>5. t \in APIRules
      <3>1. /\ r.action \in STRING /\ r.protocol \in {None} \cup STRING
            /\ r.ports \in {None} \cup Seq({Invalid} \cup Nat) /\ r.range \in {None, Invalid} \cup RangeTexts
        BY <2>1 DEF RuleTexts
      <3>2. ToInstanceAction(r.action) \in Actions
        BY <2>2, <3>1, ActionConverted
      <3>3. ToInstance(r.protocol) \in Protocols
        BY <2>2, <3>1, ProtocolConverted
      <3>4. ToRange(r.ports) \in PortRanges
        BY <2>2, <3>1, PortsConverted
      <3>5. ParseCIDR(IPRange(r.range)) \in IPRanges
        <4>1. IPRange(r.range) \in RangeTexts
          BY <2>2, <3>1, AnywhereText DEF IPRange, ParseCIDR
        <4> QED BY <4>1, RangeConverted
      <3> HIDE DEF r
      <3> QED BY <3>2, <3>3, <3>4, <3>5 DEF APIRules
    <2> HIDE DEF t
    <2> QED BY <2>4, <2>5, InvalidAssumption
  <1> QED BY <1>1, <1>3, <1>5 DEF Convertible, RequestRules

-----------------------------------------------------------------------------
(* The inductive invariant *)

\* The loop over the wanted groups and the zones: what it looks at in its q-th round.
WantedAt(q) == want[((q - 1) \div Len(Zones)) + 1]
CellAt(q) == <<WantedAt(q).name, Zones[((q - 1) % Len(Zones)) + 1]>>
Rounds == 1..(Len(want) * Len(Zones))

InLoop == {"ensure", "rules", "set"}

\* Has the loop yet to ensure the group of round q?
Ahead(q) == q > at \/ (q = at /\ pc = "ensure")

\* Does the running reconcile want a group of this name?
IsWanted(c) == \E i \in DOMAIN want : want[i].name = c[1]

\* The webhook has validated what the reconcile works on.
ValidInv == webhooks => validateSecurityGroups(spec) /\ validateSecurityGroups(want)

\* Where the reconcile is, and what it has at hand there.
PlaceInv ==
    /\ pc \in {"idle", "list"} => listed = None
    /\ pc \in {"idle", "list", "delete"} => at = 1
    /\ pc \in {"delete"} \cup InLoop => listed \in [Cells -> {None} \cup Groups]
    /\ pc \in InLoop => at \in Rounds
    /\ pc \in {"rules", "set"} => groups[Cell] # None

\* What the listing has of the wanted groups still exists; and nothing but the
\* listing exists until everything that is not wanted has been deleted.
ListingInv ==
    /\ listed # None =>
          /\ \A c \in Cells : IsWanted(c) /\ listed[c] # None => groups[c] # None
          /\ \/ \A c \in Cells : groups[c] # None => listed[c] # None
             \/ \A c \in Cells : groups[c] # None => IsWanted(c)
    /\ pc = "delete" =>
          /\ \A c \in doomed : ~IsWanted(c)
          /\ \A c \in Cells : groups[c] # None => listed[c] # None /\ (IsWanted(c) \/ c \in doomed)
    /\ pc \in InLoop => \A c \in Cells : groups[c] # None => IsWanted(c)

CallInv == TypeOK /\ ValidInv /\ PlaceInv /\ ListingInv

\* The loop has created nothing that it still has to ensure.
NewInv ==
    webhooks /\ pc \in InLoop =>
        \A q \in Rounds : Ahead(q) /\ listed[CellAt(q)] = None => groups[CellAt(q)] = None

\* As long as nobody changes them by hand, the groups are as listed before the loop
\* reaches them, and right when it has left them.
ContentInv ==
    webhooks /\ ~touched =>
        /\ pc = "delete" => \A c \in Cells : IsWanted(c) => groups[c] = listed[c]
        /\ pc \in InLoop => \A q \in Rounds : Ahead(q) => groups[CellAt(q)] = listed[CellAt(q)]
        /\ pc \in {"rules", "set"} => PoliciesKnown /\ ~Outdated(groups[Cell])
        /\ pc \in InLoop /\ HasPorts(want) =>
              \A q \in Rounds : q < at => Enforces(groups[CellAt(q)], WantedAt(q))

-----------------------------------------------------------------------------
(* The rounds of the loop *)

\* The lists of groups that a reconcile works on.
LEMMA WantedTypes ==
    ASSUME TypeOK
    PROVE  /\ want \in Seq(GroupTexts) /\ spec \in Seq(GroupTexts)
           /\ Len(want) \in Nat /\ DOMAIN want = 1..Len(want)
           /\ Len(want) * Len(Zones) \in Nat
  <1>1. want \in Submissions \cup {<<>>} /\ spec \in Submissions
    BY DEF TypeOK
  <1>2. want \in Seq(GroupTexts) /\ spec \in Seq(GroupTexts)
    <2>1. <<>> \in Seq(GroupTexts)
      OBVIOUS
    <2> QED BY <1>1, <2>1, SubmissionAssumption, Zenon
  <1>3. Len(want) \in Nat /\ DOMAIN want = 1..Len(want)
    BY <1>2
  <1>4. Len(Zones) \in Nat
    BY ZoneAssumption
  <1>5. Len(want) * Len(Zones) \in Nat
    <2>1. \A a, b \in Nat : a * b \in Nat
      OBVIOUS
    <2> QED BY <1>3, <1>4, <2>1
  <1> QED BY <1>2, <1>3, <1>5

\* Quotient and remainder of a round are in range.
LEMMA RoundParts ==
    ASSUME NEW n \in Nat, NEW l \in Nat \ {0}, NEW q \in 1..(n * l)
    PROVE  ((q - 1) \div l) + 1 \in 1..n /\ ((q - 1) % l) + 1 \in 1..l
  <1> DEFINE a == q - 1
  <1>1. a \in Nat /\ a < n * l
    OBVIOUS
  <1>2. a \div l \in Int /\ a % l \in 0..(l - 1) /\ a = l * (a \div l) + (a % l)
    BY <1>1, Euclid
  <1>3. a \div l < n /\ a \div l >= 0
    BY <1>1, <1>2
  <1> HIDE DEF a
  <1>4. (a \div l) + 1 \in 1..n /\ (a % l) + 1 \in 1..l
    BY <1>2, <1>3
  <1> QED BY <1>4 DEF a

\* They identify the round.
LEMMA RoundUnique ==
    ASSUME NEW l \in Nat \ {0}, NEW q \in Int, NEW r \in Int,
           (q - 1) \div l = (r - 1) \div l, (q - 1) % l = (r - 1) % l
    PROVE  q = r
  <1>1. q - 1 = l * ((q - 1) \div l) + ((q - 1) % l) /\ r - 1 = l * ((r - 1) \div l) + ((r - 1) % l)
    BY Euclid
  <1> QED BY <1>1

\* There is a round for every group and every zone.
LEMMA RoundExists ==
    ASSUME NEW n \in Nat, NEW l \in Nat \ {0}, NEW i \in 1..n, NEW j \in 1..l
    PROVE  \E q \in 1..(n * l) : ((q - 1) \div l) + 1 = i /\ ((q - 1) % l) + 1 = j
  <1> DEFINE b == i - 1
             d == j - 1
             a == b * l + d
  <1>1. b \in Nat /\ d \in 0..(l - 1)
    OBVIOUS
  <1>2. a \div l = b /\ a % l = d
    <2> HIDE DEF b, d
    <2> QED BY <1>1, EuclidUnique
  <1>3. (i - 1) * l \in Nat /\ (i - 1) * l + l <= n * l
    <2>1. (i - 1) * l \in Nat
      BY <1>1
    <2>2. (i - 1) * l + l = i * l
      BY <1>1
    <2>3. i * l <= n * l
      <3>1. (n - i) \in Nat
        OBVIOUS
      <3>2. (n - i) * l >= 0
        BY <3>1
      <3>3. (n - i) * l = n * l - i * l
        OBVIOUS
      <3> QED BY <3>2, <3>3
    <2> QED BY <2>1, <2>2, <2>3
  <1>4. a \in Nat /\ a < n * l
    BY <1>1, <1>3
  <1> HIDE DEF a
  <1>5. a + 1 \in 1..(n * l) /\ (a + 1) - 1 = a
    BY <1>4
  <1>6. (((a + 1) - 1) \div l) + 1 = i /\ (((a + 1) - 1) % l) + 1 = j
    BY <1>2, <1>4, <1>5
  <1> QED BY <1>5, <1>6

\* What a round looks at.
LEMMA RoundTypes ==
    ASSUME TypeOK, NEW q \in Rounds
    PROVE  /\ WantedAt(q) \in GroupTexts /\ WantedAt(q).name \in Names
           /\ WantedAt(q).inbound \in PolicyValues /\ WantedAt(q).outbound \in PolicyValues
           /\ CellAt(q) \in Cells /\ IsWanted(CellAt(q))
           /\ \E i \in DOMAIN want : WantedAt(q) = want[i]
  <1>1. want \in Seq(GroupTexts) /\ Len(want) \in Nat /\ DOMAIN want = 1..Len(want)
    BY WantedTypes
  <1>2. Len(Zones) \in Nat \ {0} /\ DOMAIN Zones = 1..Len(Zones)
    BY ZoneAssumption
  <1> DEFINE i == ((q - 1) \div Len(Zones)) + 1
             j == ((q - 1) % Len(Zones)) + 1
  <1>3. i \in 1..Len(want) /\ j \in 1..Len(Zones)
    BY <1>1, <1>2, RoundParts DEF Rounds
  <1>4. WantedAt(q) = want[i] /\ CellAt(q) = <<want[i].name, Zones[j]>>
    BY DEF WantedAt, CellAt
  <1> HIDE DEF i, j
  <1>5. want[i] \in GroupTexts
    BY <1>1, <1>3
  <1>6. want[i].name \in Names /\ want[i].inbound \in PolicyValues /\ want[i].outbound \in PolicyValues
    BY <1>5 DEF GroupTexts, PolicyValues
  <1>7. Zones[j] \in {Zones[k] : k \in DOMAIN Zones}
    BY <1>2, <1>3
  <1>8. CellAt(q) \in Cells /\ CellAt(q)[1] = want[i].name
    BY <1>4, <1>6, <1>7 DEF Cells
  <1> QED BY <1>1, <1>3, <1>4, <1>5, <1>6, <1>8 DEF IsWanted

\* If no name is used twice, every round has a group of its own.
LEMMA RoundsDiffer ==
    ASSUME TypeOK, validateSecurityGroups(want), NEW q \in Rounds, NEW r \in Rounds, CellAt(q) = CellAt(r)
    PROVE  q = r
  <1>1. Len(want) \in Nat /\ DOMAIN want = 1..Len(want)
    BY WantedTypes
  <1>2. Len(Zones) \in Nat \ {0} /\ DOMAIN Zones = 1..Len(Zones)
    BY ZoneAssumption
  <1> DEFINE i(x) == ((x - 1) \div Len(Zones)) + 1
             j(x) == ((x - 1) % Len(Zones)) + 1
  <1>3. \A x \in Rounds : i(x) \in 1..Len(want) /\ j(x) \in 1..Len(Zones)
    BY <1>1, <1>2, RoundParts DEF Rounds
  <1>4. \A x \in Rounds : CellAt(x) = <<want[i(x)].name, Zones[j(x)]>>
    BY DEF WantedAt, CellAt
  <1>5. want[i(q)].name = want[i(r)].name /\ Zones[j(q)] = Zones[j(r)]
    BY <1>4
  <1>6. i(q) = i(r)
    BY <1>1, <1>3, <1>5 DEF validateSecurityGroups
  <1>7. j(q) = j(r)
    BY <1>2, <1>3, <1>5, ZoneAssumption
  <1>8. q \in Int /\ r \in Int
    BY <1>1, <1>2 DEF Rounds
  <1>9. (q - 1) \div Len(Zones) = (r - 1) \div Len(Zones) /\ (q - 1) % Len(Zones) = (r - 1) % Len(Zones)
    <2>1. /\ (q - 1) \div Len(Zones) \in Int /\ (r - 1) \div Len(Zones) \in Int
          /\ (q - 1) % Len(Zones) \in Int /\ (r - 1) % Len(Zones) \in Int
      BY <1>2, <1>8, Euclid
    <2> QED BY <1>6, <1>7, <2>1
  <1> QED BY <1>2, <1>8, <1>9, RoundUnique

\* Every wanted group is looked at in every zone.
LEMMA EveryCell ==
    ASSUME TypeOK, NEW c \in Cells, NEW i \in DOMAIN want, want[i].name = c[1]
    PROVE  \E q \in Rounds : CellAt(q) = c /\ WantedAt(q) = want[i]
  <1>1. Len(want) \in Nat /\ DOMAIN want = 1..Len(want)
    BY WantedTypes
  <1>2. Len(Zones) \in Nat \ {0} /\ DOMAIN Zones = 1..Len(Zones)
    BY ZoneAssumption
  <1>3. PICK j \in 1..Len(Zones) : c = <<c[1], Zones[j]>>
    <2>1. PICK n \in Names, z \in {Zones[k] : k \in DOMAIN Zones} : c = <<n, z>>
      BY DEF Cells
    <2>2. PICK j \in DOMAIN Zones : z = Zones[j]
      BY <2>1
    <2> QED BY <1>2, <2>1, <2>2
  <1>4. PICK q \in Rounds : ((q - 1) \div Len(Zones)) + 1 = i /\ ((q - 1) % Len(Zones)) + 1 = j
    <2>1. i \in 1..Len(want)
      BY <1>1
    <2>2. \A n \in Nat, l \in Nat \ {0} : \A x \in 1..n, y \in 1..l :
             \E q \in 1..(n * l) : ((q - 1) \div l) + 1 = x /\ ((q - 1) % l) + 1 = y
      BY RoundExists
    <2>3. \E q \in 1..(Len(want) * Len(Zones)) :
             ((q - 1) \div Len(Zones)) + 1 = i /\ ((q - 1) % Len(Zones)) + 1 = j
      <3>1. Len(want) \in Nat /\ Len(Zones) \in Nat \ {0} /\ i \in 1..Len(want) /\ j \in 1..Len(Zones)
        BY <1>1, <1>2, <2>1
      <3>2. \A x \in 1..Len(want), y \in 1..Len(Zones) : \E q \in 1..(Len(want) * Len(Zones)) :
               ((q - 1) \div Len(Zones)) + 1 = x /\ ((q - 1) % Len(Zones)) + 1 = y
        BY <2>2, <3>1, Zenon
      <3> QED BY <3>1, <3>2, Zenon
    <2> QED BY <2>3, Zenon DEF Rounds
  <1>5. WantedAt(q) = want[i] /\ CellAt(q) = <<want[i].name, Zones[j]>>
    BY <1>4 DEF WantedAt, CellAt
  <1> QED BY <1>3, <1>5

\* The round the loop is in.
LEMMA RoundNow == Wanted = WantedAt(at) /\ Cell = CellAt(at)
  BY DEF Wanted, Cell, WantedAt, CellAt

-----------------------------------------------------------------------------
(* Writing to a group *)

\* Writing to one group changes no other one.
LEMMA CellWrite ==
    ASSUME NEW f \in [Cells -> {None} \cup Groups], NEW c \in Cells, NEW h \in Groups, NEW g,
           g = [f EXCEPT ![c] = h]
    PROVE  /\ g \in [Cells -> {None} \cup Groups] /\ g[c] = h
           /\ \A d \in Cells : d # c => g[d] = f[d]
  OBVIOUS

\* Where the loop is.
LEMMA Here ==
    ASSUME CallInv, pc \in InLoop
    PROVE  /\ at \in Rounds /\ Cell \in Cells /\ IsWanted(Cell)
           /\ Wanted.inbound \in PolicyValues /\ Wanted.outbound \in PolicyValues
           /\ listed \in [Cells -> {None} \cup Groups]
           /\ listed # None
           /\ groups \in [Cells -> {None} \cup Groups]
           /\ listed[Cell] # None => groups[Cell] \in Groups
           /\ pc \in {"rules", "set"} => groups[Cell] \in Groups
  <1>1. at \in Rounds /\ listed \in [Cells -> {None} \cup Groups]
    BY DEF CallInv, PlaceInv
  <1>2. TypeOK /\ groups \in [Cells -> {None} \cup Groups]
    BY DEF CallInv, TypeOK
  <1>3. /\ Cell \in Cells /\ IsWanted(Cell)
        /\ Wanted.inbound \in PolicyValues /\ Wanted.outbound \in PolicyValues
    BY <1>1, <1>2, RoundTypes, RoundNow
  <1>4. listed # None
    BY <1>1, ListingAssumption
  <1>5. listed[Cell] # None => groups[Cell] # None
    BY <1>3, <1>4 DEF CallInv, ListingInv
  <1>6. pc \in {"rules", "set"} => groups[Cell] # None
    BY DEF CallInv, PlaceInv
  <1> QED BY <1>1, <1>2, <1>3, <1>4, <1>5, <1>6

-----------------------------------------------------------------------------
(* What a step does to the call *)

\* The call is left alone.
Stay == UNCHANGED <<webhooks, want, listed, touched, doomed, at, groups, pc, res>>

\* It ends with an error before it changes anything.
Stop == /\ pc' = "close" /\ res' = "error"
        /\ UNCHANGED <<webhooks, want, listed, touched, doomed, at, groups>>

\* It is over.
Over == /\ pc' = "idle" /\ want' = <<>> /\ listed' = None /\ doomed' = {} /\ at' = 1
        /\ UNCHANGED <<webhooks, touched, groups>>

\* Somebody changes a group that exists.
Hand == /\ touched' = TRUE /\ UNCHANGED <<webhooks, want, listed, doomed, at, pc, res>>
        /\ groups' \in [Cells -> {None} \cup Groups]
        /\ \A c \in Cells : groups'[c] = None <=> groups[c] = None

\* One group that is not wanted is deleted.
Drop == /\ pc = "delete" /\ UNCHANGED <<webhooks, want, listed, touched, at>>
        /\ \E c \in doomed : /\ c \notin used /\ doomed' = doomed \ {c}
                             /\ groups' = [groups EXCEPT ![c] = None]
        /\ Reply("delete")

\* The loop writes to the group of its round, or finds it up to date: it goes on
\* with p, or the reply is lost.
Write == /\ UNCHANGED <<webhooks, want, listed, touched, doomed>>
         /\ groups' \in [Cells -> {None} \cup Groups] /\ groups'[Cell] \in Groups
         /\ \A c \in Cells : c # Cell => groups'[c] = groups[c]

\* The default policies are right, or were right in the listing already.
Ensured == /\ pc = "ensure" /\ Write /\ Reply("rules") /\ UNCHANGED at
           /\ PoliciesKnown
           /\ \/ ~Outdated(groups'[Cell])
              \/ groups' = groups /\ ~Outdated(listed[Cell])

\* The rules are those of the spec.
RulesSet == /\ pc = "set" /\ Write /\ (NextCell \/ (CallFails /\ UNCHANGED at))
            /\ Convertible(Wanted.inbound) /\ Convertible(Wanted.outbound)
            /\ groups'[Cell].inRules = RequestRules(Wanted.inbound)
            /\ groups'[Cell].outRules = RequestRules(Wanted.outbound)
            /\ groups'[Cell].in = groups[Cell].in /\ groups'[Cell].out = groups[Cell].out
            /\ groups'[Cell].security = groups[Cell].security

\* The rules are equal, or they are not.
SameRules == /\ pc = "rules" /\ UNCHANGED <<webhooks, want, listed, touched, doomed, groups>>
             /\ compareRules(Rules(Wanted.inbound), groups[Cell].inRules) = "equal"
             /\ compareRules(Rules(Wanted.outbound), groups[Cell].outRules) = "equal"
             /\ NextCell

OtherRules == /\ pc = "rules" /\ UNCHANGED <<webhooks, want, listed, touched, doomed, groups, at>>
              /\ \/ compareRules(Rules(Wanted.inbound), groups[Cell].inRules) = "differ"
                 \/ compareRules(Rules(Wanted.outbound), groups[Cell].outRules) = "differ"
              /\ Proceed("set")

\* The loop writes to one group at a time.
LEMMA EnsureWrites ==
    ASSUME CallInv, CreateSecurityGroup \/ UpdateSecurityGroup
    PROVE  Ensured
  <1>1. pc = "ensure" /\ pc \in InLoop
    BY DEF CreateSecurityGroup, UpdateSecurityGroup, InLoop
  <1>2. /\ Cell \in Cells /\ groups \in [Cells -> {None} \cup Groups]
        /\ listed[Cell] # None => groups[Cell] \in Groups
    BY <1>1, Here
  <1>3. Policies.in \in Actions /\ Policies.out \in Actions
    <2>1. Policies.in = defaultPolicy(Wanted.inbound) /\ Policies.out = defaultPolicy(Wanted.outbound)
      BY DEF Policies
    <2>2. defaultPolicy(Wanted.inbound) # Invalid /\ defaultPolicy(Wanted.outbound) # Invalid
      BY <2>1 DEF CreateSecurityGroup, UpdateSecurityGroup, PoliciesKnown
    <2>3. Wanted.inbound \in PolicyValues /\ Wanted.outbound \in PolicyValues
      BY <1>1, Here
    <2> QED BY <2>1, <2>2, <2>3, DefaultConverted
  <1>4. CASE CreateSecurityGroup
    <2> DEFINE g == [in |-> Policies.in, out |-> Policies.out, security |-> FALSE,
                     inRules |-> <<>>, outRules |-> <<>>]
    <2>1. g \in Groups
      BY <1>3 DEF Groups
    <2>2. groups' = [groups EXCEPT ![Cell] = g]
      BY <1>4 DEF CreateSecurityGroup
    <2> HIDE DEF g
    <2>3. Write
      BY <1>2, <1>4, <2>1, <2>2 DEF Write, CreateSecurityGroup, k8s, local
    <2>4. ~Outdated(g) /\ groups'[Cell] = g
      <3>1. ~Outdated(g)
        BY DEF Outdated, g
      <3> QED BY <1>2, <2>1, <2>2, <3>1, CellWrite
    <2> QED BY <1>1, <1>4, <2>3, <2>4 DEF Ensured, CreateSecurityGroup, local
  <1>5. CASE UpdateSecurityGroup
    <2>1. groups[Cell] \in Groups
      BY <1>2, <1>5 DEF UpdateSecurityGroup
    <2>2. \/ groups' = groups /\ ~Outdated(listed[Cell])
          \/ groups' = [groups EXCEPT ![Cell].in = Policies.in, ![Cell].out = Policies.out,
                                      ![Cell].security = FALSE]
      BY <1>5 DEF UpdateSecurityGroup
    <2>3. Write /\ (~Outdated(groups'[Cell]) \/ (groups' = groups /\ ~Outdated(listed[Cell])))
      <3>1. /\ groups' \in [Cells -> {None} \cup Groups] /\ groups'[Cell] \in Groups
            /\ \A c \in Cells : c # Cell => groups'[c] = groups[c]
            /\ ~Outdated(groups'[Cell]) \/ (groups' = groups /\ ~Outdated(listed[Cell]))
        <4>1. CASE groups' = groups /\ ~Outdated(listed[Cell])
          BY <1>2, <2>1, <4>1
        <4>2. CASE groups' = [groups EXCEPT ![Cell].in = Policies.in, ![Cell].out = Policies.out,
                                            ![Cell].security = FALSE]
          <5> DEFINE h == [groups[Cell] EXCEPT !.in = Policies.in, !.out = Policies.out,
                                               !.security = FALSE]
          <5>1. h \in Groups /\ h.in = Policies.in /\ h.out = Policies.out /\ h.security = FALSE
            BY <1>3, <2>1 DEF Groups
          <5>2. groups' = [groups EXCEPT ![Cell] = h]
            BY <4>2
          <5> HIDE DEF h
          <5>3. ~Outdated(h)
            BY <5>1 DEF Outdated
          <5> QED BY <1>2, <5>1, <5>2, <5>3, CellWrite
        <4> QED BY <2>2, <4>1, <4>2
      <3> QED BY <1>5, <3>1 DEF Write, UpdateSecurityGroup, k8s, local
    <2> QED BY <1>1, <1>5, <2>3 DEF Ensured, UpdateSecurityGroup, local, Reply
  <1> QED BY <1>4, <1>5

\* Setting the rules writes them to one group, or fails before the call.
LEMMA SetWrites ==
    ASSUME CallInv, SetSecurityGroupRules
    PROVE  Stop \/ RulesSet
  <1>1. pc = "set" /\ pc \in InLoop
    BY DEF SetSecurityGroupRules, InLoop
  <1>2. CASE ~Convertible(Wanted.inbound) \/ ~Convertible(Wanted.outbound)
    BY <1>2 DEF SetSecurityGroupRules, Stop, Return, k8s
  <1>3. CASE Convertible(Wanted.inbound) /\ Convertible(Wanted.outbound)
    <2>1. Cell \in Cells /\ groups \in [Cells -> {None} \cup Groups] /\ groups[Cell] \in Groups
      BY <1>1, Here
    <2>2. RequestRules(Wanted.inbound) \in Seq(APIRules) /\ RequestRules(Wanted.outbound) \in Seq(APIRules)
      BY <1>1, <1>3, Here, RulesConverted
    <2>3. groups' = [groups EXCEPT ![Cell].inRules = RequestRules(Wanted.inbound),
                                   ![Cell].outRules = RequestRules(Wanted.outbound)]
      BY <1>3 DEF SetSecurityGroupRules
    <2>4. /\ groups' \in [Cells -> {None} \cup Groups] /\ groups'[Cell] \in Groups
          /\ \A c \in Cells : c # Cell => groups'[c] = groups[c]
          /\ groups'[Cell].inRules = RequestRules(Wanted.inbound)
          /\ groups'[Cell].outRules = RequestRules(Wanted.outbound)
          /\ groups'[Cell].in = groups[Cell].in /\ groups'[Cell].out = groups[Cell].out
          /\ groups'[Cell].security = groups[Cell].security
      <3> DEFINE h == [groups[Cell] EXCEPT !.inRules = RequestRules(Wanted.inbound),
                                           !.outRules = RequestRules(Wanted.outbound)]
      <3>1. /\ h \in Groups /\ h.inRules = RequestRules(Wanted.inbound)
            /\ h.outRules = RequestRules(Wanted.outbound)
            /\ h.in = groups[Cell].in /\ h.out = groups[Cell].out /\ h.security = groups[Cell].security
        BY <2>1, <2>2 DEF Groups
      <3>2. groups' = [groups EXCEPT ![Cell] = h]
        BY <2>3
      <3> HIDE DEF h
      <3> QED BY <2>1, <3>1, <3>2, CellWrite
    <2> QED BY <1>1, <1>3, <2>4 DEF RulesSet, Write, SetSecurityGroupRules, k8s
  <1> QED BY <1>2, <1>3

\* These are all the ways a step may change the state of the call.
LEMMA Moves ==
    ASSUME CallInv, [Next]_vars
    PROVE  \/ Stay \/ Stop \/ Over \/ Hand \/ Begin \/ ListSecurityGroups \/ Drop \/ NoneToDelete
           \/ Ensured \/ SameRules \/ OtherRules \/ RulesSet
  <1>1. CASE DeleteSecurityGroup
    BY <1>1 DEF DeleteSecurityGroup, Stop, Drop, Return, k8s
  <1>2. CASE BadPolicy
    BY <1>2 DEF BadPolicy, Stop, Return, k8s, local
  <1>3. CASE CreateSecurityGroup \/ UpdateSecurityGroup
    BY <1>3, EnsureWrites
  <1>4. CASE CompareRules
    <2> DEFINE inbound  == compareRules(Rules(Wanted.inbound), groups[Cell].inRules)
               outbound == compareRules(Rules(Wanted.outbound), groups[Cell].outRules)
    <2>1. /\ pc = "rules" /\ UNCHANGED <<k8s, queued, groups, used, want, listed, doomed, touched>>
          /\ \/ "error" \in {inbound, outbound} /\ Return("error") /\ UNCHANGED at
             \/ inbound = "equal" /\ outbound = "equal" /\ NextCell
             \/ "differ" \in {inbound, outbound} /\ Proceed("set") /\ UNCHANGED at
      BY <1>4 DEF CompareRules
    <2> HIDE DEF inbound, outbound
    <2>2. CASE Return("error") /\ UNCHANGED at
      BY <2>1, <2>2 DEF Stop, Return, k8s
    <2>3. CASE inbound = "equal" /\ outbound = "equal" /\ NextCell
      BY <2>1, <2>3 DEF SameRules, inbound, outbound, k8s
    <2>4. CASE "differ" \in {inbound, outbound} /\ Proceed("set") /\ UNCHANGED at
      <3>1. inbound = "differ" \/ outbound = "differ"
        BY <2>4
      <3> QED BY <2>1, <2>4, <3>1 DEF OtherRules, inbound, outbound, k8s
    <2> QED BY <2>1, <2>2, <2>3, <2>4
  <1>5. CASE SetSecurityGroupRules
    BY <1>5, SetWrites
  <1>6. CASE AnyCallRefused
    BY <1>6 DEF AnyCallRefused, CallRefused, CallFails, Stop, k8s, local
  <1>7. CASE Close
    BY <1>7 DEF Close, Over
  <1>8. CASE Crash
    BY <1>8 DEF Crash, Over, k8s
  <1>9. CASE PeriodicResync \/ UserEdit \/ UserDelete
    BY <1>9 DEF PeriodicResync, UserEdit, UserDelete, Stay, k8s, local
  <1>10. ASSUME NEW c \in Cells, ChangedByHand(c) PROVE Hand
    <2>1. PICK g \in Groups : groups' = [groups EXCEPT ![c] = g]
      BY <1>10, GroupAssumption DEF ChangedByHand
    <2>2. groups \in [Cells -> {None} \cup Groups]
      BY DEF CallInv, TypeOK
    <2>3. groups' \in [Cells -> {None} \cup Groups]
      BY <2>1, <2>2
    <2>4. \A d \in Cells : groups'[d] = None <=> groups[d] = None
      BY <1>10, <2>1, <2>2, GroupAssumption DEF ChangedByHand
    <2> QED BY <1>10, <2>3, <2>4 DEF ChangedByHand, Hand, local
  <1>11. ASSUME NEW c \in InMachines, ServerCreated(c) \/ ServerDeleted(c) PROVE Stay
    BY <1>11 DEF ServerCreated, ServerDeleted, Stay, k8s, local
  <1>12. CASE UNCHANGED vars
    BY <1>12 DEF vars, Stay, k8s, local
  <1> QED
    BY <1>1, <1>2, <1>3, <1>4, <1>5, <1>6, <1>7, <1>8, <1>9, <1>10, <1>11, <1>12
       DEF Next, Step, Environment

-----------------------------------------------------------------------------
(* Types, validity, place and listing *)

\* The loop moves on by one round.
LEMMA NextRound ==
    ASSUME CallInv, pc \in InLoop, NextCell, want' = want
    PROVE  /\ pc' \in {"ensure", "close"} /\ at' \in 1..(Len(want') * Len(Zones) + 1)
           /\ pc' = "ensure" => at' = at + 1 /\ at' \in Rounds' /\ UNCHANGED res
           /\ pc' = "close" => at' = at /\ at = Len(want) * Len(Zones) /\ res' = "done"
  <1>1. at \in Rounds
    BY Here
  <1>2. Len(want) * Len(Zones) \in Nat
    BY WantedTypes DEF CallInv
  <1> DEFINE n == Len(want) * Len(Zones)
  <1>3. n \in Nat /\ at \in 1..n /\ Rounds' = 1..n
    BY <1>1, <1>2 DEF Rounds
  <1>4. \/ at = n /\ pc' = "close" /\ res' = "done" /\ at' = at
        \/ at # n /\ pc' = "ensure" /\ res' = res /\ at' = at + 1
    BY DEF NextCell, Return, Proceed
  <1>5. n = Len(want') * Len(Zones)
    OBVIOUS
  <1> HIDE DEF n
  <1>6. at' \in 1..(n + 1) /\ (at # n => at + 1 \in 1..n)
    BY <1>3, <1>4
  <1> QED BY <1>3, <1>4, <1>5, <1>6 DEF n

\* Every step keeps the types.
LEMMA TypeStep ==
    ASSUME CallInv, [Next]_vars
    PROVE  TypeOK'
  <1>1. /\ TypeOK /\ webhooks \in BOOLEAN /\ spec \in Submissions /\ want \in Submissions \cup {<<>>}
        /\ obj \in {"live", "deleting", "gone"} /\ queued \in BOOLEAN
        /\ groups \in [Cells -> {None} \cup Groups]
        /\ listed \in {None} \cup [Cells -> {None} \cup Groups]
        /\ used \subseteq {c \in Cells : groups[c] # None}
        /\ doomed \subseteq Cells /\ at \in 1..(Len(want) * Len(Zones) + 1)
        /\ deleting \in BOOLEAN /\ touched \in BOOLEAN /\ edits \in 0..MaxEdits
        /\ pc \in PCs /\ res \in Results /\ faults \in 0..MaxFaults
    BY DEF CallInv, TypeOK
  <1>2. webhooks' \in BOOLEAN /\ spec' \in Submissions /\ edits' \in 0..MaxEdits
    <2>1. \/ UNCHANGED <<webhooks, spec, edits>>
          \/ webhooks' = webhooks /\ spec' \in Admitted /\ edits < MaxEdits /\ edits' = edits + 1
          \/ webhooks' = webhooks /\ spec' = spec /\ edits < MaxEdits /\ edits' = edits + 1
      BY DEF Next, Step, Environment, Begin, ListSecurityGroups, DeleteSecurityGroup, NoneToDelete,
             BadPolicy, CreateSecurityGroup, UpdateSecurityGroup, CompareRules, SetSecurityGroupRules,
             AnyCallRefused, CallRefused, Close, Crash, PeriodicResync, UserEdit, UserDelete,
             ChangedByHand, ServerCreated, ServerDeleted, k8s, vars
    <2> QED BY <1>1, <2>1, EditAssumption DEF Admitted
  <1>3. obj' \in {"live", "deleting", "gone"} /\ queued' \in BOOLEAN /\ touched' \in BOOLEAN
    BY <1>1 DEF Next, Step, Environment, Begin, ListSecurityGroups, DeleteSecurityGroup, NoneToDelete,
           BadPolicy, CreateSecurityGroup, UpdateSecurityGroup, CompareRules, SetSecurityGroupRules,
           AnyCallRefused, CallRefused, Close, Crash, PeriodicResync, UserEdit, UserDelete,
           ChangedByHand, ServerCreated, ServerDeleted, k8s, vars
  <1>4. faults' \in 0..MaxFaults
    <2>1. faults' = faults \/ (faults < MaxFaults /\ faults' = faults + 1)
      BY DEF Next, Step, Environment, Begin, ListSecurityGroups, DeleteSecurityGroup, NoneToDelete,
             BadPolicy, CreateSecurityGroup, UpdateSecurityGroup, CompareRules, SetSecurityGroupRules,
             AnyCallRefused, CallRefused, Close, Crash, PeriodicResync, UserEdit, UserDelete,
             ChangedByHand, ServerCreated, ServerDeleted, vars,
             Proceed, Return, Reply, CallFails, Fault, NextCell
    <2> QED BY <1>1, <2>1, FaultAssumption
  <1>5. res' \in Results
    BY <1>1 DEF Next, Step, Environment, Begin, ListSecurityGroups, DeleteSecurityGroup, NoneToDelete,
           BadPolicy, CreateSecurityGroup, UpdateSecurityGroup, CompareRules, SetSecurityGroupRules,
           AnyCallRefused, CallRefused, Close, Crash, PeriodicResync, UserEdit, UserDelete,
           ChangedByHand, ServerCreated, ServerDeleted, vars,
           Proceed, Return, Reply, CallFails, NextCell, Results
  <1>6. /\ want' \in Submissions \cup {<<>>} /\ groups' \in [Cells -> {None} \cup Groups]
        /\ listed' \in {None} \cup [Cells -> {None} \cup Groups]
        /\ doomed' \subseteq Cells /\ at' \in 1..(Len(want') * Len(Zones) + 1) /\ pc' \in PCs
    <2>1. CASE Stay
      BY <1>1, <2>1 DEF Stay
    <2>2. CASE Stop
      BY <1>1, <2>2 DEF Stop, PCs
    <2>3. CASE Over
      <3>1. Len(<<>>) * Len(Zones) = 0
        BY ZoneAssumption
      <3> QED BY <1>1, <2>3, <3>1 DEF Over, PCs
    <2>4. CASE Hand
      BY <1>1, <2>4 DEF Hand
    <2>5. CASE Begin
      <3>1. want' \in Submissions \cup {<<>>}
        BY <1>1, <2>5 DEF Begin
      <3>2. at' = 1
        BY <2>5 DEF Begin, CallInv, PlaceInv
      <3>3. Len(want') * Len(Zones) \in Nat
        <4>1. want' \in Seq(GroupTexts)
          <5>1. <<>> \in Seq(GroupTexts)
            OBVIOUS
          <5> QED BY <3>1, <5>1, SubmissionAssumption, Zenon
        <4>2. Len(want') \in Nat /\ Len(Zones) \in Nat
          BY <4>1, ZoneAssumption
        <4>3. \A a, b \in Nat : a * b \in Nat
          OBVIOUS
        <4> QED BY <4>2, <4>3
      <3> QED BY <1>1, <2>5, <3>1, <3>2, <3>3 DEF Begin, Proceed, PCs
    <2>6. CASE ListSecurityGroups
      <3>1. Len(want) * Len(Zones) \in Nat
        BY <1>1, WantedTypes
      <3>2. at' \in 1..(Len(want') * Len(Zones) + 1)
        BY <2>6, <3>1 DEF ListSecurityGroups
      <3> QED BY <1>1, <2>6, <3>2 DEF ListSecurityGroups, Unwanted, Proceed, PCs
    <2>7. CASE Drop
      <3>1. PICK c \in doomed : doomed' = doomed \ {c} /\ groups' = [groups EXCEPT ![c] = None]
        BY <2>7 DEF Drop
      <3>2. groups' \in [Cells -> {None} \cup Groups] /\ doomed' \subseteq Cells
        BY <1>1, <3>1
      <3> QED BY <1>1, <2>7, <3>2 DEF Drop, Reply, Proceed, CallFails, PCs
    <2>8. CASE NoneToDelete
      BY <1>1, <2>8 DEF NoneToDelete, Return, Proceed, PCs, local
    <2>9. CASE Ensured
      BY <1>1, <2>9 DEF Ensured, Write, Reply, Proceed, CallFails, PCs
    <2>10. CASE SameRules
      <3>1. pc' \in {"ensure", "close"} /\ at' \in 1..(Len(want') * Len(Zones) + 1)
        BY <2>10, NextRound DEF SameRules, InLoop
      <3> QED BY <1>1, <2>10, <3>1 DEF SameRules, PCs
    <2>11. CASE OtherRules
      BY <1>1, <2>11 DEF OtherRules, Proceed, PCs
    <2>12. CASE RulesSet
      <3>1. pc' \in {"ensure", "close"} /\ at' \in 1..(Len(want') * Len(Zones) + 1)
        <4>1. CASE NextCell
          BY <2>12, <4>1, NextRound DEF RulesSet, Write, InLoop
        <4>2. CASE CallFails /\ UNCHANGED at
          BY <1>1, <2>12, <4>2 DEF RulesSet, Write, CallFails
        <4> QED BY <2>12, <4>1, <4>2 DEF RulesSet
      <3> QED BY <1>1, <2>12, <3>1 DEF RulesSet, Write, PCs
    <2> QED BY <2>1, <2>2, <2>3, <2>4, <2>5, <2>6, <2>7, <2>8, <2>9, <2>10, <2>11, <2>12, Moves
  <1>7. used' \subseteq {c \in Cells : groups'[c] # None}
    <2>1. CASE \E c \in InMachines : ServerCreated(c) \/ ServerDeleted(c)
      <3>1. PICK c \in InMachines : ServerCreated(c) \/ ServerDeleted(c)
        BY <2>1
      <3> QED BY <1>1, <3>1, CellAssumption DEF ServerCreated, ServerDeleted
    <2>2. CASE ~\E c \in InMachines : ServerCreated(c) \/ ServerDeleted(c)
      <3>1. used' = used
        BY <2>2 DEF Next, Step, Environment, Begin, ListSecurityGroups, DeleteSecurityGroup, NoneToDelete,
           BadPolicy, CreateSecurityGroup, UpdateSecurityGroup, CompareRules, SetSecurityGroupRules,
           AnyCallRefused, CallRefused, Close, Crash, PeriodicResync, UserEdit, UserDelete,
           ChangedByHand, vars
      <3>2. \A c \in used : groups'[c] # None
        <4>1. CASE UNCHANGED groups
          BY <1>1, <4>1
        <4>2. CASE Hand
          BY <1>1, <4>2 DEF Hand
        <4>3. CASE Drop
          BY <1>1, <4>3 DEF Drop
        <4>4. CASE Ensured \/ RulesSet
          <5>1. Cell \in Cells /\ groups'[Cell] # None
            BY <4>4, Here, GroupAssumption DEF Ensured, RulesSet, Write, InLoop
          <5> QED BY <1>1, <4>4, <5>1 DEF Ensured, RulesSet, Write
        <4> QED BY <4>1, <4>2, <4>3, <4>4, Moves DEF Stay, Stop, Over, Begin, ListSecurityGroups,
                   NoneToDelete, SameRules, OtherRules
      <3> QED BY <1>1, <3>1, <3>2
    <2> QED BY <2>1, <2>2
  <1>8. deleting' \in BOOLEAN
    BY <1>1 DEF Next, Step, Environment, Begin, ListSecurityGroups, DeleteSecurityGroup, NoneToDelete,
       BadPolicy, CreateSecurityGroup, UpdateSecurityGroup, CompareRules, SetSecurityGroupRules,
       AnyCallRefused, CallRefused, Close, Crash, PeriodicResync, UserEdit, UserDelete,
       ChangedByHand, ServerCreated, ServerDeleted, local, vars
  <1> QED BY <1>2, <1>3, <1>4, <1>5, <1>6, <1>7, <1>8 DEF TypeOK

\* What a reconcile works on is a spec that the API server has admitted.
LEMMA ValidStep ==
    ASSUME CallInv, [Next]_vars
    PROVE  ValidInv'
  <1>1. webhooks' = webhooks
    BY Moves DEF Stay, Stop, Over, Hand, Begin, ListSecurityGroups, Drop, NoneToDelete, Ensured,
           RulesSet, Write, SameRules, OtherRules, k8s
  <1>2. spec' = spec \/ spec' \in Admitted
    BY DEF Next, Step, Environment, Begin, ListSecurityGroups, DeleteSecurityGroup, NoneToDelete,
           BadPolicy, CreateSecurityGroup, UpdateSecurityGroup, CompareRules, SetSecurityGroupRules,
           AnyCallRefused, CallRefused, Close, Crash, PeriodicResync, UserEdit, UserDelete,
           ChangedByHand, ServerCreated, ServerDeleted, k8s, vars
  <1>3. want' \in {want, spec, <<>>}
    BY Moves DEF Stay, Stop, Over, Hand, Begin, ListSecurityGroups, Drop, NoneToDelete, Ensured,
           RulesSet, Write, SameRules, OtherRules, local
  <1>4. validateSecurityGroups(<<>>)
    BY DEF validateSecurityGroups
  <1>5. webhooks => validateSecurityGroups(spec')
    BY <1>2 DEF CallInv, ValidInv, Admitted
  <1>6. webhooks => validateSecurityGroups(want')
    BY <1>3, <1>4 DEF CallInv, ValidInv
  <1> QED BY <1>1, <1>5, <1>6 DEF ValidInv, validateSecurityGroups

\* Rounds and wanted groups are the same as long as the list is.
LEMMA SameRounds ==
    ASSUME want' = want
    PROVE  /\ Rounds' = Rounds /\ \A c : IsWanted(c)' <=> IsWanted(c)
           /\ \A q : WantedAt(q)' = WantedAt(q) /\ CellAt(q)' = CellAt(q)
  BY DEF Rounds, IsWanted, WantedAt, CellAt

\* The worker has a listing, a round and a group where it needs them.
LEMMA PlaceStep ==
    ASSUME CallInv, [Next]_vars
    PROVE  PlaceInv'
  <1>1. /\ pc \in {"idle", "list"} => listed = None
        /\ pc \in {"idle", "list", "delete"} => at = 1
        /\ pc \in {"delete"} \cup InLoop => listed \in [Cells -> {None} \cup Groups]
        /\ pc \in InLoop => at \in Rounds
        /\ pc \in {"rules", "set"} => groups[Cell] # None
    BY DEF CallInv, PlaceInv
  <1>2. groups \in [Cells -> {None} \cup Groups]
    BY DEF CallInv, TypeOK
  <1>3. CASE Stay
    BY <1>1, <1>3 DEF Stay, PlaceInv, Rounds, Cell, Wanted
  <1>4. CASE Stop
    BY <1>4 DEF Stop, PlaceInv, InLoop
  <1>5. CASE Over
    BY <1>5 DEF Over, PlaceInv, InLoop
  <1>6. CASE Hand
    <2>1. Cell' = Cell /\ Rounds' = Rounds
      BY <1>6 DEF Hand, Cell, Wanted, Rounds
    <2>2. pc \in {"rules", "set"} => groups'[Cell] # None
      BY <1>1, <1>6, Here DEF Hand, InLoop
    <2> QED BY <1>1, <1>6, <2>1, <2>2 DEF Hand, PlaceInv
  <1>7. CASE Begin
    BY <1>1, <1>7 DEF Begin, Proceed, PlaceInv, InLoop
  <1>8. CASE ListSecurityGroups
    BY <1>2, <1>8 DEF ListSecurityGroups, Proceed, PlaceInv, InLoop
  <1>9. CASE Drop
    BY <1>1, <1>9 DEF Drop, Reply, Proceed, CallFails, PlaceInv, InLoop
  <1>10. CASE NoneToDelete
    <2>1. CASE want = <<>>
      BY <1>10, <2>1 DEF NoneToDelete, Return, PlaceInv, InLoop
    <2>2. CASE want # <<>>
      <3>1. pc' = "ensure" /\ at = 1 /\ UNCHANGED <<want, listed, at>> /\ pc = "delete"
        BY <1>1, <1>10, <2>2 DEF NoneToDelete, Proceed, local
      <3>2. Len(want) \in Nat \ {0} /\ Len(Zones) \in Nat \ {0}
        <4>1. want \in Seq(GroupTexts)
          BY WantedTypes DEF CallInv
        <4> QED BY <2>2, <4>1, ZoneAssumption
      <3>3. \A a, b \in Nat \ {0} : a * b \in Nat /\ a * b >= 1
        OBVIOUS
      <3>4. 1 \in Rounds
        BY <3>2, <3>3 DEF Rounds
      <3>5. at' \in Rounds'
        BY <3>1, <3>4, SameRounds
      <3> QED BY <1>1, <3>1, <3>5 DEF PlaceInv, InLoop
    <2> QED BY <2>1, <2>2
  <1>11. CASE Ensured
    <2>1. Cell' = Cell /\ Rounds' = Rounds
      BY <1>11 DEF Ensured, Write, Cell, Wanted, Rounds
    <2>2. groups'[Cell] # None
      BY <1>11, GroupAssumption DEF Ensured, Write
    <2> QED BY <1>1, <1>11, <2>1, <2>2
            DEF Ensured, Write, Reply, Proceed, CallFails, PlaceInv, InLoop
  <1>12. CASE SameRules
    <2>1. pc' \in {"ensure", "close"} /\ (pc' = "ensure" => at' \in Rounds')
      BY <1>12, NextRound DEF SameRules, InLoop
    <2> QED BY <1>1, <1>12, <2>1 DEF SameRules, PlaceInv, InLoop
  <1>13. CASE OtherRules
    <2>1. Cell' = Cell /\ Rounds' = Rounds
      BY <1>13 DEF OtherRules, Cell, Wanted, Rounds
    <2> QED BY <1>1, <1>13, <2>1 DEF OtherRules, Proceed, PlaceInv, InLoop
  <1>14. CASE RulesSet
    <2>1. pc' \in {"ensure", "close"} /\ (pc' = "ensure" => at' \in Rounds')
      <3>1. CASE NextCell
        BY <1>14, <3>1, NextRound DEF RulesSet, Write, InLoop
      <3>2. CASE CallFails
        BY <3>2 DEF CallFails
      <3> QED BY <1>14, <3>1, <3>2 DEF RulesSet
    <2> QED BY <1>1, <1>14, <2>1 DEF RulesSet, Write, PlaceInv, InLoop
  <1> QED BY <1>3, <1>4, <1>5, <1>6, <1>7, <1>8, <1>9, <1>10, <1>11, <1>12, <1>13, <1>14, Moves

\* Groups come and go as the listing and the spec say.
LEMMA ListingStep ==
    ASSUME CallInv, [Next]_vars
    PROVE  ListingInv'
  <1>1. CASE pc' = "idle" \/ pc' = "list"
    <2>1. listed' = None
      BY <1>1, PlaceStep DEF PlaceInv
    <2> QED BY <1>1, <2>1 DEF ListingInv, InLoop
  <1>2. /\ listed # None =>
              /\ \A c \in Cells : IsWanted(c) /\ listed[c] # None => groups[c] # None
              /\ \/ \A c \in Cells : groups[c] # None => listed[c] # None
                 \/ \A c \in Cells : groups[c] # None => IsWanted(c)
        /\ pc = "delete" =>
              /\ \A c \in doomed : ~IsWanted(c)
              /\ \A c \in Cells : groups[c] # None => listed[c] # None /\ (IsWanted(c) \/ c \in doomed)
        /\ pc \in InLoop => \A c \in Cells : groups[c] # None => IsWanted(c)
    BY DEF CallInv, ListingInv
  <1>3. groups \in [Cells -> {None} \cup Groups] /\ doomed \subseteq Cells
    BY DEF CallInv, TypeOK
  <1>4. CASE Stay
    BY <1>2, <1>4, SameRounds DEF Stay, ListingInv
  <1>5. CASE Stop
    BY <1>2, <1>5, SameRounds DEF Stop, ListingInv, InLoop
  <1>6. CASE Hand
    <2>1. \A c : IsWanted(c)' <=> IsWanted(c)
      BY <1>6, SameRounds DEF Hand
    <2> QED BY <1>2, <1>3, <1>6, <2>1 DEF Hand, ListingInv, InLoop
  <1>7. CASE ListSecurityGroups
    <2>1. \A c : IsWanted(c)' <=> IsWanted(c)
      BY <1>7, SameRounds DEF ListSecurityGroups
    <2>2. \A c \in Unwanted(groups) : ~IsWanted(c)
      BY DEF Unwanted, IsWanted
    <2>3. \A c \in Cells : groups[c] # None => IsWanted(c) \/ c \in Unwanted(groups)
      BY DEF Unwanted, IsWanted
    <2> QED BY <1>7, <2>1, <2>2, <2>3 DEF ListSecurityGroups, Proceed, ListingInv, InLoop
  <1>8. CASE Drop
    <2>1. \A c : IsWanted(c)' <=> IsWanted(c)
      BY <1>8, SameRounds DEF Drop
    <2>2. PICK d \in doomed : doomed' = doomed \ {d} /\ groups' = [groups EXCEPT ![d] = None]
      BY <1>8 DEF Drop
    <2>3. groups'[d] = None /\ \A c \in Cells : c # d => groups'[c] = groups[c]
      BY <1>3, <2>2
    <2>4. ~IsWanted(d)
      BY <1>2, <1>8, <2>2 DEF Drop
    <2>5. /\ \A c \in doomed' : ~IsWanted(c)'
          /\ \A c \in Cells : groups'[c] # None => listed'[c] # None /\ (IsWanted(c)' \/ c \in doomed')
      BY <1>2, <1>8, <2>1, <2>2, <2>3 DEF Drop
    <2>6. \A c \in Cells : IsWanted(c)' /\ listed'[c] # None /\ listed # None => groups'[c] # None
      BY <1>2, <1>8, <2>1, <2>3, <2>4 DEF Drop
    <2> QED BY <1>8, <2>5, <2>6 DEF Drop, Reply, Proceed, CallFails, ListingInv, InLoop
  <1>9. CASE NoneToDelete
    <2>1. \A c : IsWanted(c)' <=> IsWanted(c)
      BY <1>9, SameRounds DEF NoneToDelete, local
    <2>2. UNCHANGED <<groups, listed, doomed>> /\ pc = "delete" /\ doomed = {} /\ pc' \in {"close", "ensure"}
      BY <1>9 DEF NoneToDelete, local, Return, Proceed
    <2> QED BY <1>2, <2>1, <2>2 DEF ListingInv
  <1>10. CASE Ensured \/ RulesSet
    <2>1. \A c : IsWanted(c)' <=> IsWanted(c)
      BY <1>10, SameRounds DEF Ensured, RulesSet, Write
    <2>2. pc \in InLoop
      BY <1>10 DEF Ensured, RulesSet, InLoop
    <2>3. Cell \in Cells /\ IsWanted(Cell) /\ groups'[Cell] # None /\ listed' = listed
      BY <1>10, <2>2, Here, GroupAssumption DEF Ensured, RulesSet, Write
    <2>4. \A c \in Cells : c # Cell => groups'[c] = groups[c]
      BY <1>10 DEF Ensured, RulesSet, Write
    <2>5. \A c \in Cells : groups'[c] # None => IsWanted(c)'
      BY <1>2, <2>1, <2>2, <2>3, <2>4
    <2>6. \A c \in Cells : IsWanted(c)' /\ listed'[c] # None /\ listed # None => groups'[c] # None
      BY <1>2, <2>1, <2>3, <2>4
    <2>7. pc' # "delete"
      BY <1>10 DEF Ensured, RulesSet, Reply, Proceed, CallFails, NextCell, Return
    <2> QED BY <2>3, <2>5, <2>6, <2>7 DEF ListingInv
  <1>11. CASE SameRules \/ OtherRules
    <2>1. \A c : IsWanted(c)' <=> IsWanted(c)
      BY <1>11, SameRounds DEF SameRules, OtherRules
    <2>2. UNCHANGED <<groups, listed>> /\ pc = "rules" /\ pc' # "delete"
      BY <1>11 DEF SameRules, OtherRules, NextCell, Return, Proceed
    <2> QED BY <1>2, <2>1, <2>2 DEF ListingInv, InLoop
  <1> QED BY <1>1, <1>4, <1>5, <1>6, <1>7, <1>8, <1>9, <1>10, <1>11, Moves DEF Over, Begin, Proceed

\* None of the rounds ahead has a group that the listing lacks: names are unique.
LEMMA NewStep ==
    ASSUME CallInv, NewInv, [Next]_vars
    PROVE  NewInv'
  <1> SUFFICES ASSUME webhooks', pc' \in InLoop, NEW q \in Rounds', Ahead(q)',
                      listed'[CellAt(q)'] = None
               PROVE  groups'[CellAt(q)'] = None
    BY DEF NewInv
  <1>1. webhooks
    BY Moves DEF Stay, Stop, Over, Hand, Begin, ListSecurityGroups, Drop, NoneToDelete, Ensured,
           RulesSet, Write, SameRules, OtherRules, k8s
  <1>2. pc \in InLoop => \A r \in Rounds : Ahead(r) /\ listed[CellAt(r)] = None => groups[CellAt(r)] = None
    BY <1>1 DEF NewInv
  <1>3. TypeOK /\ Len(want) * Len(Zones) \in Nat
    BY WantedTypes DEF CallInv
  <1>4. at \in Int
    BY <1>3 DEF TypeOK
  <1>5. ASSUME want' = want PROVE /\ q \in Rounds /\ CellAt(q)' = CellAt(q) /\ CellAt(q) \in Cells
                                  /\ q \in Int
    <2>1. q \in Rounds /\ CellAt(q)' = CellAt(q)
      BY <1>5, SameRounds
    <2>2. q \in Int
      BY <1>3, <2>1 DEF Rounds
    <2> QED BY <1>3, <2>1, <2>2, RoundTypes
  <1>6. CASE Stay
    BY <1>2, <1>5, <1>6 DEF Stay, Ahead
  <1>7. CASE Stop \/ Over
    BY <1>7 DEF Stop, Over, InLoop
  <1>8. CASE Hand
    BY <1>2, <1>5, <1>8 DEF Hand, Ahead
  <1>9. CASE Begin \/ ListSecurityGroups \/ Drop
    BY <1>9 DEF Begin, ListSecurityGroups, Drop, Reply, Proceed, CallFails, InLoop
  <1>10. CASE NoneToDelete
    <2>1. pc = "delete" /\ UNCHANGED <<want, groups, listed>>
      BY <1>10 DEF NoneToDelete, local
    <2> QED BY <1>5, <2>1 DEF CallInv, ListingInv
  <1>11. CASE Ensured
    <2>1. pc' = "rules" /\ at' = at /\ want' = want /\ listed' = listed /\ pc \in InLoop
      BY <1>11 DEF Ensured, Write, Reply, Proceed, CallFails, InLoop
    <2>2. q > at
      BY <2>1 DEF Ahead
    <2>3. CellAt(q) # Cell
      <3>1. at \in Rounds /\ Cell = CellAt(at)
        BY <2>1, Here, RoundNow
      <3>2. validateSecurityGroups(want)
        BY <1>1 DEF CallInv, ValidInv
      <3> QED BY <1>3, <1>4, <1>5, <2>1, <2>2, <3>1, <3>2, RoundsDiffer
    <2>4. groups'[CellAt(q)] = groups[CellAt(q)]
      BY <1>5, <1>11, <2>1, <2>3 DEF Ensured, Write
    <2> QED BY <1>2, <1>5, <2>1, <2>2, <2>4 DEF Ahead
  <1>12. CASE SameRules \/ RulesSet
    <2>1. pc' = "ensure" /\ want' = want /\ listed' = listed /\ pc \in InLoop /\ NextCell
      BY <1>12 DEF SameRules, RulesSet, Write, CallFails, NextCell, Return, Proceed, InLoop
    <2>2. at' = at + 1
      BY <2>1, NextRound
    <2>3. q > at
      BY <1>4, <1>5, <2>1, <2>2 DEF Ahead
    <2>4. CellAt(q) # Cell
      <3>1. at \in Rounds /\ Cell = CellAt(at)
        BY <2>1, Here, RoundNow
      <3>2. validateSecurityGroups(want)
        BY <1>1 DEF CallInv, ValidInv
      <3> QED BY <1>3, <1>4, <1>5, <2>1, <2>3, <3>1, <3>2, RoundsDiffer
    <2>5. groups'[CellAt(q)] = groups[CellAt(q)]
      BY <1>5, <1>12, <2>1, <2>4 DEF SameRules, RulesSet, Write
    <2> QED BY <1>2, <1>5, <2>1, <2>3, <2>5 DEF Ahead
  <1>13. CASE OtherRules
    <2>1. /\ pc = "rules" /\ pc' = "set" /\ at' = at /\ want' = want /\ listed' = listed
          /\ groups' = groups /\ pc \in InLoop
      BY <1>13 DEF OtherRules, Proceed, InLoop
    <2> QED BY <1>2, <1>5, <2>1 DEF Ahead
  <1> QED BY <1>6, <1>7, <1>8, <1>9, <1>10, <1>11, <1>12, <1>13, Moves

-----------------------------------------------------------------------------
(* What the groups are like *)

\* A round that ends well leaves a group that does what the spec says.
LEMMA RoundDone ==
    ASSUME CallInv, ContentInv, webhooks, ~touched, HasPorts(want), SameRules \/ RulesSet
    PROVE  Enforces(groups'[Cell], Wanted)
  <1>1. pc \in {"rules", "set"} /\ pc \in InLoop
    BY DEF SameRules, RulesSet, InLoop
  <1>2. PoliciesKnown /\ ~Outdated(groups[Cell])
    BY <1>1 DEF ContentInv
  <1>3. /\ groups[Cell] \in Groups /\ at \in Rounds
        /\ Wanted.inbound \in PolicyValues /\ Wanted.outbound \in PolicyValues
    BY <1>1, Here
  <1>4. PortsFit(Wanted.inbound) /\ PortsFit(Wanted.outbound)
    <2>1. PICK i \in DOMAIN want : Wanted = want[i]
      BY <1>3, RoundTypes, RoundNow DEF CallInv
    <2> QED BY <2>1 DEF HasPorts, PortsFit
  <1>5. groups[Cell].in = Default(Wanted.inbound) /\ groups[Cell].out = Default(Wanted.outbound)
    <2>1. Policies.in = defaultPolicy(Wanted.inbound) /\ Policies.out = defaultPolicy(Wanted.outbound)
      BY DEF Policies
    <2>2. defaultPolicy(Wanted.inbound) = Default(Wanted.inbound)
      BY <1>2, <1>3, <2>1, DefaultConverted DEF PoliciesKnown
    <2>3. defaultPolicy(Wanted.outbound) = Default(Wanted.outbound)
      BY <1>2, <1>3, <2>1, DefaultConverted DEF PoliciesKnown
    <2> QED BY <1>2, <2>1, <2>2, <2>3 DEF Outdated
  <1>6. ~groups[Cell].security
    BY <1>2 DEF Outdated
  <1>7. CASE SameRules
    <2>1. groups[Cell].inRules \in Seq(APIRules) /\ groups[Cell].outRules \in Seq(APIRules)
      BY <1>3 DEF Groups
    <2>2. Effects(groups[Cell].inRules) = Intended(Wanted.inbound)
      BY <1>3, <1>4, <1>7, <2>1, EqualRules DEF SameRules
    <2>3. Effects(groups[Cell].outRules) = Intended(Wanted.outbound)
      BY <1>3, <1>4, <1>7, <2>1, EqualRules DEF SameRules
    <2> QED BY <1>3, <1>5, <1>6, <1>7, <2>2, <2>3, GroupAssumption DEF SameRules, Enforces
  <1>8. CASE RulesSet
    <2>1. Effects(groups'[Cell].inRules) = Intended(Wanted.inbound)
      BY <1>3, <1>4, <1>8, RulesConverted DEF RulesSet
    <2>2. Effects(groups'[Cell].outRules) = Intended(Wanted.outbound)
      BY <1>3, <1>4, <1>8, RulesConverted DEF RulesSet
    <2>3. groups'[Cell] # None
      BY <1>8, GroupAssumption DEF RulesSet, Write
    <2>4. /\ groups'[Cell].in = Default(Wanted.inbound) /\ groups'[Cell].out = Default(Wanted.outbound)
          /\ ~groups'[Cell].security
      BY <1>5, <1>6, <1>8 DEF RulesSet
    <2> QED BY <2>1, <2>2, <2>3, <2>4 DEF Enforces
  <1> QED BY <1>7, <1>8

\* After a round that ends well, all groups up to it do what the spec says.
LEMMA RoundsDone ==
    ASSUME CallInv, ContentInv, webhooks, ~touched, HasPorts(want), SameRules \/ RulesSet,
           NEW q \in Rounds, q <= at
    PROVE  Enforces(groups'[CellAt(q)], WantedAt(q))
  <1>1. pc \in InLoop /\ at \in Rounds
    <2>1. pc \in InLoop
      BY DEF SameRules, RulesSet, InLoop
    <2> QED BY <2>1, Here
  <1>2. CASE q = at
    BY <1>2, RoundDone, RoundNow
  <1>3. CASE q # at
    <2>1. TypeOK /\ validateSecurityGroups(want)
      BY DEF CallInv, ValidInv
    <2>2. CellAt(q) \in Cells
      BY <2>1, RoundTypes
    <2>3. CellAt(q) # Cell
      BY <1>1, <1>3, <2>1, RoundsDiffer, RoundNow
    <2>4. groups'[CellAt(q)] = groups[CellAt(q)]
      BY <2>2, <2>3 DEF SameRules, RulesSet, Write
    <2>5. q < at
      <3>1. q \in Int /\ at \in Int
        BY <1>1, <2>1, WantedTypes DEF Rounds
      <3> QED BY <1>3, <3>1
    <2>6. Enforces(groups[CellAt(q)], WantedAt(q))
      BY <1>1, <2>5 DEF ContentInv
    <2> QED BY <2>4, <2>6
  <1> QED BY <1>2, <1>3

\* No step spoils the groups before or behind the loop.
LEMMA ContentStep ==
    ASSUME CallInv, ContentInv, [Next]_vars
    PROVE  ContentInv'
  <1> SUFFICES ASSUME webhooks', ~touched' PROVE ContentInv'
    BY DEF ContentInv
  <1>1. webhooks
    BY Moves DEF Stay, Stop, Over, Hand, Begin, ListSecurityGroups, Drop, NoneToDelete, Ensured,
           RulesSet, Write, SameRules, OtherRules, k8s
  <1>2. TypeOK /\ Len(want) * Len(Zones) \in Nat /\ validateSecurityGroups(want)
    BY <1>1, WantedTypes DEF CallInv, ValidInv
  <1>3. at \in Int /\ groups \in [Cells -> {None} \cup Groups]
    BY <1>2 DEF TypeOK
  <1>4. \A q \in Rounds : q \in Int /\ CellAt(q) \in Cells /\ IsWanted(CellAt(q))
    <2> TAKE q \in Rounds
    <2>1. q \in Int
      BY <1>2 DEF Rounds
    <2> QED BY <1>2, <2>1, RoundTypes
  <1>5. CASE Stop \/ Over
    BY <1>5 DEF Stop, Over, ContentInv, InLoop
  <1>6. CASE Begin
    BY <1>6 DEF Begin, Proceed, ContentInv, InLoop
  <1>7. CASE Hand
    BY <1>7 DEF Hand
  <1>8. ASSUME want' = want, touched' = touched
        PROVE  /\ Rounds' = Rounds /\ ~touched /\ HasPorts(want)' = HasPorts(want)
               /\ \A c : IsWanted(c)' <=> IsWanted(c)
               /\ \A q : WantedAt(q)' = WantedAt(q) /\ CellAt(q)' = CellAt(q)
    BY <1>8, SameRounds DEF HasPorts
  <1>9. ASSUME ~touched
        PROVE  /\ pc = "delete" => \A c \in Cells : IsWanted(c) => groups[c] = listed[c]
               /\ pc \in InLoop => \A q \in Rounds : Ahead(q) => groups[CellAt(q)] = listed[CellAt(q)]
               /\ pc \in {"rules", "set"} => PoliciesKnown /\ ~Outdated(groups[Cell])
               /\ pc \in InLoop /\ HasPorts(want) =>
                     \A q \in Rounds : q < at => Enforces(groups[CellAt(q)], WantedAt(q))
    BY <1>1, <1>9 DEF ContentInv
  <1>10. CASE Stay
    BY <1>10, <1>1 DEF Stay, ContentInv, IsWanted, Rounds, Ahead, CellAt, WantedAt, HasPorts, Cell,
                       Wanted, PoliciesKnown, Policies, Outdated
  <1>11. CASE ListSecurityGroups
    <2>1. pc' = "delete" /\ listed' = groups /\ groups' = groups
      BY <1>11 DEF ListSecurityGroups, Proceed
    <2> QED BY <2>1 DEF ContentInv, InLoop
  <1>12. CASE Drop
    <2>1. /\ want' = want /\ touched' = touched /\ listed' = listed /\ pc = "delete"
          /\ pc' \in {"delete", "close"}
      BY <1>12 DEF Drop, Reply, Proceed, CallFails
    <2>2. PICK d \in doomed : groups' = [groups EXCEPT ![d] = None]
      BY <1>12 DEF Drop
    <2>3. ~IsWanted(d)
      BY <2>1, <2>2 DEF CallInv, ListingInv
    <2>4. \A c \in Cells : IsWanted(c)' => groups'[c] = listed'[c]
      <3> SUFFICES ASSUME NEW c \in Cells, IsWanted(c)' PROVE groups'[c] = listed'[c]
        OBVIOUS
      <3>1. IsWanted(c) /\ c # d
        BY <1>8, <2>1, <2>3
      <3>2. groups'[c] = groups[c]
        BY <1>3, <2>2, <3>1
      <3> QED BY <1>8, <1>9, <2>1, <3>1, <3>2
    <2> QED BY <2>1, <2>4 DEF ContentInv, InLoop
  <1>13. CASE NoneToDelete
    <2>1. /\ want' = want /\ touched' = touched /\ listed' = listed /\ pc = "delete" /\ groups' = groups
          /\ at' = at /\ pc' \in {"ensure", "close"} /\ at = 1
      BY <1>13 DEF NoneToDelete, local, Return, Proceed, CallInv, PlaceInv
    <2>2. \A q \in Rounds' : groups'[CellAt(q)'] = listed'[CellAt(q)']
      BY <1>4, <1>8, <1>9, <2>1
    <2>3. \A q \in Rounds' : ~(q < at')
      BY <1>2, <1>8, <2>1 DEF Rounds
    <2> QED BY <2>1, <2>2, <2>3 DEF ContentInv
  <1>14. CASE Ensured
    <2>1. /\ want' = want /\ touched' = touched /\ listed' = listed /\ pc = "ensure" /\ pc \in InLoop
          /\ at' = at /\ pc' \in {"rules", "close"}
      BY <1>14 DEF Ensured, Write, Reply, Proceed, CallFails, InLoop
    <2>2. at \in Rounds /\ Cell = CellAt(at) /\ Cell' = Cell
      BY <2>1, Here, RoundNow DEF Cell, Wanted
    <2>3. ASSUME NEW q \in Rounds, q # at PROVE groups'[CellAt(q)] = groups[CellAt(q)]
      <3>1. CellAt(q) # Cell /\ CellAt(q) \in Cells
        BY <1>2, <1>4, <2>2, <2>3, RoundsDiffer
      <3> QED BY <1>14, <3>1 DEF Ensured, Write
    <2>4. \A q \in Rounds' : pc' = "rules" /\ Ahead(q)' => groups'[CellAt(q)'] = listed'[CellAt(q)']
      <3> SUFFICES ASSUME NEW q \in Rounds, pc' = "rules", Ahead(q)'
                   PROVE  groups'[CellAt(q)] = listed[CellAt(q)]
        BY <1>8, <2>1
      <3>1. q > at /\ q # at
        BY <1>3, <1>4, <2>1 DEF Ahead
      <3> QED BY <1>8, <1>9, <2>1, <2>3, <3>1 DEF Ahead
    <2>5. \A q \in Rounds' : q < at' /\ HasPorts(want)' => Enforces(groups'[CellAt(q)'], WantedAt(q)')
      <3> SUFFICES ASSUME NEW q \in Rounds, q < at, HasPorts(want)
                   PROVE  Enforces(groups'[CellAt(q)], WantedAt(q))
        BY <1>8, <2>1
      <3>1. q # at
        BY <1>3, <1>4
      <3> QED BY <1>8, <1>9, <2>1, <2>3, <3>1
    <2>6. PoliciesKnown' /\ ~Outdated(groups[Cell])'
      <3>1. PoliciesKnown' = PoliciesKnown /\ Outdated(groups[Cell])' = Outdated(groups'[Cell])
        BY <2>1, <2>2 DEF PoliciesKnown, Outdated, Policies, Wanted
      <3>2. groups[Cell] = listed[Cell]
        BY <1>8, <1>9, <2>1, <2>2 DEF Ahead
      <3> QED BY <1>14, <3>1, <3>2 DEF Ensured
    <2>7. CASE pc' = "close"
      BY <2>7 DEF ContentInv, InLoop
    <2>8. CASE pc' = "rules"
      <3>1. /\ pc' \in InLoop => \A q \in Rounds' : Ahead(q)' => groups'[CellAt(q)'] = listed'[CellAt(q)']
            /\ pc' \in InLoop /\ HasPorts(want)' =>
                  \A q \in Rounds' : q < at' => Enforces(groups'[CellAt(q)'], WantedAt(q)')
        BY <2>4, <2>5, <2>8
      <3> QED BY <2>6, <2>8, <3>1 DEF ContentInv, Enforces
    <2> QED BY <2>1, <2>7, <2>8
  <1>15. CASE SameRules \/ RulesSet
    <2>1. /\ want' = want /\ touched' = touched /\ listed' = listed /\ pc \in InLoop
          /\ pc' \in {"ensure", "close"} /\ (pc' = "ensure" => NextCell)
      BY <1>15 DEF SameRules, RulesSet, Write, NextCell, CallFails, Return, Proceed, InLoop
    <2>2. CASE pc' = "close"
      BY <2>2 DEF ContentInv, InLoop
    <2>3. CASE pc' = "ensure"
      <3>1. at' = at + 1 /\ at \in Rounds /\ Cell = CellAt(at)
        BY <2>1, <2>3, NextRound, Here, RoundNow
      <3>2. \A q \in Rounds' : Ahead(q)' => groups'[CellAt(q)'] = listed'[CellAt(q)']
        <4> SUFFICES ASSUME NEW q \in Rounds, Ahead(q)'
                     PROVE  groups'[CellAt(q)] = listed[CellAt(q)]
          BY <1>8, <2>1
        <4>1. q > at /\ q # at
          BY <1>3, <1>4, <3>1 DEF Ahead
        <4>2. CellAt(q) # Cell /\ CellAt(q) \in Cells
          BY <1>2, <1>4, <3>1, <4>1, RoundsDiffer
        <4>3. groups'[CellAt(q)] = groups[CellAt(q)]
          BY <1>15, <4>2 DEF SameRules, RulesSet, Write
        <4> QED BY <1>8, <1>9, <2>1, <4>1, <4>3 DEF Ahead
      <3>3. \A q \in Rounds' : q < at' /\ HasPorts(want)' => Enforces(groups'[CellAt(q)'], WantedAt(q)')
        <4> SUFFICES ASSUME NEW q \in Rounds, q < at + 1, HasPorts(want)
                     PROVE  Enforces(groups'[CellAt(q)], WantedAt(q))
          BY <1>8, <2>1, <3>1
        <4>1. q <= at
          BY <1>3, <1>4
        <4> QED BY <1>1, <1>8, <1>15, <2>1, <4>1, RoundsDone
      <3> QED BY <2>3, <3>2, <3>3 DEF ContentInv, Enforces
    <2> QED BY <2>1, <2>2, <2>3
  <1>16. CASE OtherRules
    <2>1. /\ want' = want /\ touched' = touched /\ listed' = listed /\ pc = "rules" /\ pc \in InLoop
          /\ groups' = groups /\ at' = at /\ pc' = "set"
      BY <1>16 DEF OtherRules, Proceed, InLoop
    <2>2. PoliciesKnown' = PoliciesKnown /\ Outdated(groups[Cell])' = Outdated(groups[Cell])
      BY <2>1 DEF PoliciesKnown, Outdated, Policies, Wanted, Cell
    <2>3. \A q \in Rounds' : Ahead(q)' => groups'[CellAt(q)'] = listed'[CellAt(q)']
      BY <1>8, <1>9, <2>1 DEF Ahead
    <2>4. \A q \in Rounds' : q < at' /\ HasPorts(want)' => Enforces(groups'[CellAt(q)'], WantedAt(q)')
      BY <1>8, <1>9, <2>1
    <2> QED BY <1>8, <1>9, <2>1, <2>2, <2>3, <2>4 DEF ContentInv, Enforces
  <1> QED BY <1>5, <1>6, <1>7, <1>10, <1>11, <1>12, <1>13, <1>14, <1>15, <1>16, Moves

\* Rules are only written if they are not yet as the conversion makes them.
LEMMA RewriteStep ==
    ASSUME CallInv, NoNeedlessRewrite, [Next]_vars
    PROVE  NoNeedlessRewrite'
  <1> SUFFICES ASSUME pc' = "set", ~touched' PROVE NoNeedlessRewrite'
    BY DEF NoNeedlessRewrite
  <1>1. CASE Stay
    BY <1>1 DEF Stay, NoNeedlessRewrite, Cell, Wanted, RequestRules, OddRange, Rules
  <1>2. CASE OtherRules
    <2>1. UNCHANGED <<groups, want, at>> /\ pc \in InLoop /\ pc = "rules"
      BY <1>2 DEF OtherRules, InLoop
    <2>2. Cell' = Cell /\ Wanted' = Wanted
      BY <2>1 DEF Cell, Wanted
    <2>3. /\ groups[Cell] \in Groups
          /\ Wanted.inbound \in PolicyValues /\ Wanted.outbound \in PolicyValues
      BY <2>1, Here
    <2>4. groups[Cell].inRules \in Seq(APIRules) /\ groups[Cell].outRules \in Seq(APIRules)
      BY <2>3 DEF Groups
    <2>5. \/ groups[Cell].inRules # RequestRules(Wanted.inbound)
          \/ groups[Cell].outRules # RequestRules(Wanted.outbound)
          \/ OddRange(Wanted.inbound) \/ OddRange(Wanted.outbound)
      <3> SUFFICES ASSUME groups[Cell].inRules = RequestRules(Wanted.inbound), ~OddRange(Wanted.inbound),
                          groups[Cell].outRules = RequestRules(Wanted.outbound), ~OddRange(Wanted.outbound)
                   PROVE  FALSE
        OBVIOUS
      <3>1. compareRules(Rules(Wanted.inbound), groups[Cell].inRules) = "equal"
        BY <2>3, <2>4, WrittenRules
      <3>2. compareRules(Rules(Wanted.outbound), groups[Cell].outRules) = "equal"
        BY <2>3, <2>4, WrittenRules
      <3> QED BY <1>2, <3>1, <3>2 DEF OtherRules
    <2>6. /\ RequestRules(Wanted.inbound)' = RequestRules(Wanted.inbound)
          /\ RequestRules(Wanted.outbound)' = RequestRules(Wanted.outbound)
          /\ OddRange(Wanted.inbound)' <=> OddRange(Wanted.inbound)
          /\ OddRange(Wanted.outbound)' <=> OddRange(Wanted.outbound)
      BY <2>2 DEF RequestRules, OddRange, Rules
    <2> QED BY <2>1, <2>2, <2>5, <2>6 DEF NoNeedlessRewrite
  <1>3. \/ Stay \/ OtherRules
    BY Moves DEF Stop, Over, Hand, Begin, ListSecurityGroups, Drop, NoneToDelete, Ensured, SameRules,
                 RulesSet, Write, NextCell, Reply, CallFails, Proceed, Return
  <1> QED BY <1>1, <1>2, <1>3

\* When the call ends well, every round has ended well.
LEMMA DoneStep ==
    ASSUME CallInv, ContentInv, DoneMeansEnforced, [Next]_vars
    PROVE  DoneMeansEnforced'
  <1> SUFFICES ASSUME webhooks', pc' = "close", res' = "done", ~touched', HasPorts(want)'
               PROVE  Enforced(want)'
    BY DEF DoneMeansEnforced
  <1>1. CASE Stay
    BY <1>1 DEF Stay, DoneMeansEnforced, Enforced, HasPorts, Enforces
  <1>2. CASE NoneToDelete
    <2>1. want = <<>> /\ UNCHANGED <<want, groups>> /\ pc = "delete" /\ doomed = {}
      BY <1>2 DEF NoneToDelete, Proceed, local
    <2>2. DOMAIN want = {}
      BY <2>1
    <2>3. \A c \in Cells : groups[c] = None
      BY <2>1, <2>2 DEF CallInv, ListingInv, IsWanted
    <2> QED BY <2>1, <2>2, <2>3 DEF Enforced
  <1>3. CASE SameRules \/ RulesSet
    <2>1. NextCell /\ UNCHANGED <<want, touched, webhooks>> /\ pc \in InLoop
      BY <1>3 DEF SameRules, RulesSet, Write, CallFails, InLoop
    <2>2. at = Len(want) * Len(Zones)
      BY <2>1, NextRound
    <2>3. TypeOK /\ Len(want) * Len(Zones) \in Nat /\ HasPorts(want) /\ webhooks /\ ~touched
      BY <2>1, WantedTypes DEF CallInv, HasPorts
    <2>4. \A q \in Rounds : Enforces(groups'[CellAt(q)], WantedAt(q))
      <3> TAKE q \in Rounds
      <3>1. q <= at
        BY <2>2, <2>3 DEF Rounds
      <3> QED BY <1>3, <2>3, <3>1, RoundsDone
    <2>5. ASSUME NEW c \in Cells, NEW i \in DOMAIN want, want[i].name = c[1]
          PROVE  Enforces(groups'[c], want[i])
      <3>1. PICK q \in Rounds : CellAt(q) = c /\ WantedAt(q) = want[i]
        BY <2>3, <2>5, EveryCell
      <3> QED BY <2>4, <3>1
    <2>6. ASSUME NEW c \in Cells, groups'[c] # None
          PROVE  \E i \in DOMAIN want : want[i].name = c[1]
      <3>1. Cell \in Cells /\ IsWanted(Cell)
        BY <2>1, Here
      <3>2. c = Cell \/ groups'[c] = groups[c]
        BY <1>3 DEF SameRules, RulesSet, Write
      <3>3. IsWanted(c)
        BY <2>1, <2>6, <3>1, <3>2 DEF CallInv, ListingInv
      <3> QED BY <3>3 DEF IsWanted
    <2> QED BY <2>1, <2>5, <2>6 DEF Enforced, Enforces
  <1>4. Stay \/ NoneToDelete \/ SameRules \/ RulesSet
    BY Moves DEF Stop, Over, Hand, Begin, ListSecurityGroups, Drop, Ensured, OtherRules,
                 Reply, CallFails, Proceed
  <1> QED BY <1>1, <1>2, <1>3, <1>4

-----------------------------------------------------------------------------
(* Theorems *)

\* The inductive invariant of the security group service.
SGInv == CallInv /\ NewInv /\ ContentInv /\ DoneMeansEnforced /\ NoNeedlessRewrite

\* The initial states satisfy the inductive invariant.
LEMMA InitSGInv == Init => SGInv
  <1> SUFFICES ASSUME Init PROVE SGInv
    OBVIOUS
  <1>1. /\ pc = "idle" /\ want = <<>> /\ listed = None /\ doomed = {} /\ at = 1 /\ groups = NoGroups
        /\ spec \in Admitted /\ used = {}
    BY DEF Init
  <1>2. NoGroups \in [Cells -> {None} \cup Groups]
    BY DEF NoGroups
  <1>3. Len(<<>>) * Len(Zones) = 0
    BY ZoneAssumption
  <1>4. TypeOK
    <2>1. webhooks \in BOOLEAN /\ queued \in BOOLEAN /\ touched \in BOOLEAN /\ deleting \in BOOLEAN
      BY WebhookAssumption DEF Init
    <2>2. spec \in Submissions
      BY <1>1 DEF Admitted
    <2>3. obj \in {"live", "deleting", "gone"} /\ pc \in PCs /\ res \in Results
      BY DEF Init, PCs, Results
    <2>4. edits \in 0..MaxEdits /\ faults \in 0..MaxFaults
      BY EditAssumption, FaultAssumption DEF Init
    <2>5. at \in 1..(Len(want) * Len(Zones) + 1)
      BY <1>1, <1>3
    <2> QED BY <1>1, <1>2, <2>1, <2>2, <2>3, <2>4, <2>5 DEF TypeOK
  <1>5. ValidInv
    BY <1>1 DEF ValidInv, Admitted, validateSecurityGroups
  <1>6. PlaceInv
    BY <1>1 DEF PlaceInv, InLoop
  <1>7. ListingInv
    BY <1>1 DEF ListingInv, InLoop
  <1>8. NewInv /\ ContentInv
    BY <1>1 DEF NewInv, ContentInv, InLoop
  <1>9. DoneMeansEnforced /\ NoNeedlessRewrite
    BY <1>1 DEF DoneMeansEnforced, NoNeedlessRewrite
  <1> QED BY <1>4, <1>5, <1>6, <1>7, <1>8, <1>9 DEF SGInv, CallInv

\* The inductive invariant holds throughout.
LEMMA SGInvariant == Spec => []SGInv
  <1>1. SGInv /\ [Next]_vars => SGInv'
    <2> SUFFICES ASSUME SGInv, [Next]_vars PROVE SGInv'
      OBVIOUS
    <2>1. CallInv /\ NewInv /\ ContentInv /\ DoneMeansEnforced /\ NoNeedlessRewrite
      BY DEF SGInv
    <2>2. CallInv'
      BY <2>1, TypeStep, ValidStep, PlaceStep, ListingStep DEF CallInv
    <2>3. NewInv' /\ ContentInv'
      BY <2>1, NewStep, ContentStep
    <2>4. DoneMeansEnforced' /\ NoNeedlessRewrite'
      BY <2>1, DoneStep, RewriteStep
    <2> QED BY <2>2, <2>3, <2>4 DEF SGInv
  <1> QED BY <1>1, InitSGInv, PTL DEF Spec

\* Every variable keeps its type: the service sends the API nothing but groups and
\* rules that the API knows, whether the webhooks are on or off.
THEOREM SecurityGroupTypes == Spec => []TypeOK
  <1>1. SGInv => TypeOK
    BY DEF SGInv, CallInv
  <1> QED BY <1>1, SGInvariant, PTL

\* What validateSecurityGroups admits, toInstanceRequestRule and defaultPolicy can
\* convert, for any list of groups.
THEOREM AdmittedConverts == Spec => []AdmittedIsConvertible
  <1>1. SGInv => AdmittedIsConvertible
    <2> SUFFICES ASSUME SGInv, webhooks, NEW i \in DOMAIN spec, NEW p \in {spec[i].inbound, spec[i].outbound}
                 PROVE  defaultPolicy(p) # Invalid /\ Convertible(p)
      BY DEF AdmittedIsConvertible
    <2>1. spec \in Seq(GroupTexts) /\ validateSecurityGroups(spec)
      BY WantedTypes DEF SGInv, CallInv, ValidInv
    <2>2. spec[i] \in GroupTexts
      BY <2>1
    <2>3. p \in PolicyValues
      BY <2>2 DEF GroupTexts, PolicyValues
    <2>4. validateSecurityGroupPolicy(p)
      BY <2>1 DEF validateSecurityGroups
    <2> QED BY <2>3, <2>4, ValidConverts
  <1> QED BY <1>1, SGInvariant, PTL

\* ensureSecurityGroups never creates a group that exists already, however old the
\* listing is that it works on.
THEOREM NoGroupTwice == Spec => []NoTwins
  <1>1. SGInv => NoTwins
    <2> SUFFICES ASSUME SGInv, webhooks, pc = "ensure", listed[Cell] = None PROVE groups[Cell] = None
      BY DEF NoTwins
    <2>1. at \in Rounds /\ Ahead(at) /\ Cell = CellAt(at) /\ pc \in InLoop
      BY RoundNow DEF SGInv, CallInv, PlaceInv, InLoop, Ahead
    <2> QED BY <2>1 DEF SGInv, NewInv
  <1> QED BY <1>1, SGInvariant, PTL

\* compareRules finds rules equal that are as the conversion makes them.
THEOREM RewritesAreNeeded == Spec => []NoNeedlessRewrite
  <1>1. SGInv => NoNeedlessRewrite
    BY DEF SGInv
  <1> QED BY <1>1, SGInvariant, PTL

\* Wherever ensureSecurityGroups stops, the names that exist are an outcome that
\* ScalewayCluster allows for the whole call.
THEOREM StopsAreOutcomes == Spec => []StopsAsAbstracted
  <1>1. ASSUME SGInv, listed # None
        PROVE  NamesIn(groups) \in PartialSGs(NamesIn(listed), WantedNames)
    <2> DEFINE before == NamesIn(listed)
               after  == NamesIn(groups)
    <2>1. /\ \A c \in Cells : IsWanted(c) /\ listed[c] # None => groups[c] # None
          /\ \/ \A c \in Cells : groups[c] # None => listed[c] # None
             \/ \A c \in Cells : groups[c] # None => IsWanted(c)
      BY <1>1 DEF SGInv, CallInv, ListingInv
    <2>2. \A c \in Cells : IsWanted(c) <=> c[1] \in WantedNames
      BY DEF IsWanted, WantedNames
    <2>3. \A n \in before : n \in WantedNames => n \in after
      <3> SUFFICES ASSUME NEW n \in before, n \in WantedNames PROVE n \in after
        OBVIOUS
      <3>1. PICK c \in Cells : listed[c] # None /\ n = c[1]
        BY DEF NamesIn
      <3>2. groups[c] # None
        BY <2>1, <2>2, <3>1
      <3> QED BY <3>1, <3>2 DEF NamesIn
    <2>4. CASE \A c \in Cells : groups[c] # None => listed[c] # None
      <3>1. after \subseteq before
        BY <2>4 DEF NamesIn
      <3> HIDE DEF before, after
      <3>2. before \ after \in SUBSET (before \ WantedNames) /\ after = before \ (before \ after)
        BY <2>3, <3>1
      <3>3. after \in {before \ d : d \in SUBSET (before \ WantedNames)}
        BY <3>2
      <3> QED BY <3>3 DEF PartialSGs, before, after
    <2>5. CASE \A c \in Cells : groups[c] # None => IsWanted(c)
      <3>1. after \subseteq WantedNames
        BY <2>2, <2>5 DEF NamesIn
      <3> HIDE DEF before, after
      <3>2. after \in SUBSET WantedNames /\ after = (before \cap WantedNames) \cup after
        BY <2>3, <3>1
      <3>3. after \in {(before \cap WantedNames) \cup c : c \in SUBSET WantedNames}
        BY <3>2
      <3> QED BY <3>3 DEF PartialSGs, before, after
    <2> QED BY <2>1, <2>4, <2>5
  <1>2. ASSUME SGInv, pc = "delete", doomed \cap used # {}
        PROVE  NamesIn(groups) \in BlockedSGs(NamesIn(listed), WantedNames)
    <2> DEFINE before == NamesIn(listed)
               after  == NamesIn(groups)
    <2>1. /\ \A c \in Cells : IsWanted(c) /\ listed[c] # None => groups[c] # None
          /\ \A c \in doomed : ~IsWanted(c)
          /\ \A c \in Cells : groups[c] # None => listed[c] # None
      <3>1. listed # None
        BY <1>2, ListingAssumption DEF SGInv, CallInv, PlaceInv
      <3> QED BY <1>2, <3>1 DEF SGInv, CallInv, ListingInv
    <2>2. \A c \in Cells : IsWanted(c) <=> c[1] \in WantedNames
      BY DEF IsWanted, WantedNames
    <2>3. PICK c \in Cells : c \in doomed /\ groups[c] # None
      BY <1>2 DEF SGInv, CallInv, TypeOK
    <2>4. c[1] \in after /\ c[1] \in before /\ c[1] \notin WantedNames
      BY <2>1, <2>2, <2>3 DEF NamesIn
    <2>5. after \subseteq before /\ \A n \in before : n \in WantedNames => n \in after
      BY <2>1, <2>2 DEF NamesIn
    <2> HIDE DEF before, after
    <2>6. /\ before \ after \in (SUBSET (before \ WantedNames)) \ {before \ WantedNames}
          /\ after = before \ (before \ after)
      BY <2>4, <2>5
    <2> QED BY <2>6 DEF BlockedSGs, before, after
  <1>3. SGInv => StopsAsAbstracted
    BY <1>1, <1>2 DEF StopsAsAbstracted
  <1> QED BY <1>3, SGInvariant, PTL

\* A call of ensureSecurityGroups that ends well, and that nobody interfered with, has
\* exactly the wanted groups in all zones, and each lets through what the fields of
\* the spec mean.
THEOREM DoneIsEnforced == Spec => []DoneMeansEnforced
  <1>1. SGInv => DoneMeansEnforced
    BY DEF SGInv
  <1> QED BY <1>1, SGInvariant, PTL

=============================================================================
