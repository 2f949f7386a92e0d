-------------------------- MODULE MCSecurityGroups ---------------------------
(* Lists of security groups to submit: valid ones, and one for every check of *)
(* the webhook.                                                               *)
EXTENDS SecurityGroups

MCZones == <<"z1", "z2">>

MCInMachines == {<<"a", "z1">>}

Rule(a, p, ports, range) == [action |-> a, protocol |-> p, ports |-> ports, range |-> range]

Policy(default, rules) == [default |-> default, rules |-> rules]

Group(name, inbound, outbound) == [name |-> name, inbound |-> inbound, outbound |-> outbound]

\* HTTPS from a network, in canonical form or written with host bits; a port range at
\* the upper end from a network that is written in another form ("10.0.0.0/08");
\* everything from anywhere.
HTTPS(range) == Rule("Accept", "TCP", <<3>>, range)
Canonical    == [addr |-> 2, len |-> 1, printed |-> TRUE]
WithHostBits == [addr |-> 3, len |-> 1, printed |-> TRUE]
OtherForm    == [addr |-> 2, len |-> 1, printed |-> FALSE]
Upper        == Rule("Accept", "UDP", <<2, Uint32 - 1>>, OtherForm)
All          == Rule("Drop", None, None, None)

Valid == {
    <<>>,
    <<Group("a", None, Policy("Drop", <<Upper>>))>>,
    <<Group("a", Policy("Drop", <<HTTPS(Canonical), All>>), None), Group("b", None, None)>>,
    <<Group("b", Policy(None, <<HTTPS(WithHostBits)>>), Policy("Accept", <<All>>))>>,
    <<Group("a", Policy(None, <<Rule("Accept", "TCP", <<Uint32, Uint32 + 1>>, None)>>), None)>> }

Refused == {
    <<Group("a", None, None), Group("a", Policy("Drop", <<>>), None)>>,
    <<Group("a", Policy("Reject", <<>>), None)>>,
    <<Group("a", None, Policy("Drop", <<Rule("Reject", "UDP", None, None)>>))>>,
    <<Group("a", None, Policy("Drop", <<Rule("Accept", "GRE", None, None)>>))>>,
    <<Group("a", None, Policy("Drop", <<Rule("Accept", "UDP", <<5, 4>>, None)>>))>>,
    <<Group("a", None, Policy("Drop", <<Rule("Accept", "UDP", <<1, 2, 3>>, None)>>))>>,
    <<Group("a", None, Policy("Drop", <<Rule("Accept", "TCP", <<Invalid>>, Canonical)>>))>>,
    <<Group("a", None, Policy("Drop", <<Rule("Accept", "ICMP", <<1>>, None)>>))>>,
    <<Group("a", None, Policy("Drop", <<Rule("Accept", "UDP", <<3>>, Invalid)>>))>> }

MCSubmissions == Valid \cup Refused

\* Default security switched on and the rules replaced; another outbound policy.
MCHandMade == {
    [in |-> "Accept", out |-> "Accept", security |-> TRUE, inRules |-> <<>>,
     outRules |-> <<toInstanceRequestRule(HTTPS(Canonical))>>],
    [in |-> "Accept", out |-> "Drop", security |-> FALSE, inRules |-> <<>>, outRules |-> <<>>] }

=============================================================================
