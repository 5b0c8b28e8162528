------------------------------- MODULE MCRules -------------------------------
(***************************************************************************)
(* Small rule sets and packets for the backends of the iptables family:    *)
(* calls of filtergen_cprod, rules that may be in force before, and the    *)
(* packets that tell rules apart.                                          *)
(***************************************************************************)
EXTENDS Firewall, SequencesExt

MCValue == {"*", "eth0", "eth1", "a", "b", "tcp", "udp", "icmp", "ssh", "high",
            "echo", "pong", "g", "h", "h2", "n", "ACCEPT", "DROP", "REJECT", "MASQ", "REDIRECT",
            "LOCALONLY", "ROUTEDONLY", "F_SUBGROUP"}

(* An entry as filtergen_cprod hands it over.                              *)
Entry(group, dir, tests) ==
    [m |-> [t \in FieldType |-> IF \E x \in tests : x[1] = t
                                THEN (CHOOSE x \in tests : x[1] = t)[2] ELSE NULL],
     dir |-> dir, group |-> group,
     set |-> { x[1] : x \in tests } \intersect {"TARGET", "SUBGROUP", "DIRECTION", "LOG"},
     neg |-> { x[1] : x \in { y \in tests : Len(y) = 3 } }]

RuleCall(e) == [k |-> "rule", group |-> e.group, ent |-> e]
GroupCall(name) == [k |-> "group", group |-> name, ent |-> EmptyEnt]

In(iface, tests) == RuleCall(Entry(NULL, "INPUT", tests \union {<<"DIRECTION", iface>>}))
Out(iface, tests) == RuleCall(Entry(NULL, "OUTPUT", tests \union {<<"DIRECTION", iface>>}))
InG(group, tests) == RuleCall(Entry(group, "INPUT", tests))
OutG(group, tests) == RuleCall(Entry(group, "OUTPUT", tests))

Accept == <<"TARGET", "ACCEPT">>
Drop == <<"TARGET", "DROP">>
Reject == <<"TARGET", "REJECT">>
Tcp == <<"PROTO", "tcp">>
Udp == <<"PROTO", "udp">>
Icmp == <<"PROTO", "icmp">>
Ssh == <<"DPORT", "ssh">>
Not(x) == <<x[1], x[2], "negated">>
Log == <<"LOG", NULL>>
Local == <<"ROUTINGTYPE", "LOCALONLY">>
Forward == <<"ROUTINGTYPE", "ROUTEDONLY">>
JumpTo(g) == {<<"SUBGROUP", g>>, <<"TARGET", "F_SUBGROUP">>}

(* Rules, and groups with the rule that jumps to them.                     *)
Items ==
    { << In("*", {Accept}) >>, << Out("*", {Accept}) >>,
      << In("eth0", {Tcp, Ssh, Accept}) >>,
      << In("eth0", {<<"SOURCE", "a">>, Log, Drop}) >>,
      << In("eth0", {Tcp, Not(<<"SOURCE", "a">>), Not(Ssh), Accept, Log}) >>,
      << Out("eth1", {Not(<<"DIRECTION", "eth1">>), Drop}) >>,
      << Out("eth1", {Tcp, <<"SPORT", "high">>, Accept}) >>,
      << Out("*", {Udp, <<"DEST", "b">>, Accept}) >>,
      << Out("eth1", {<<"TARGET", "MASQ">>, Forward}) >>,
      << In("eth0", {Tcp, Ssh, <<"TARGET", "REDIRECT">>}) >>,
      << In("*", {Icmp, <<"ICMPTYPE", "echo">>, Local, Accept}) >>,
      << Out("*", {Tcp, Reject}) >>,
      << GroupCall("g"), InG("g", {Tcp, Ssh, Accept}), InG("g", {Udp, Log, Drop}),
         In("eth0", {<<"SOURCE", "a">>} \union JumpTo("g")) >>,
      << GroupCall("n"), OutG("n", {Tcp, <<"TARGET", "MASQ">>}), OutG("n", {Udp, Accept}),
         Out("eth1", JumpTo("n")) >>,
      << GroupCall("h"), OutG("h", {<<"DEST", "b">>, Drop}),
         GroupCall("h2"), OutG("h2", {Ssh, Tcp, Accept}),
         OutG("h", {Tcp} \union JumpTo("h2")), OutG("h", {Icmp, Accept, Local}),
         Out("*", JumpTo("h")) >> }

(* examples/forward-drop-test.filter: what comes in at eth0 may go back    *)
(* there if a sends it, and on to eth1 if b does.                          *)
Block(iface, source) ==
    << In("eth0", {Forward, <<"SOURCE", source>>, Accept}), In("eth0", {Forward, Drop}),
       Out(iface, {Forward, <<"SOURCE", source>>, Accept}), Out(iface, {Forward, Drop}) >>

ForwardPrograms == { Block("eth0", "a") \o Block("eth1", "b") }

(* The depth of the groups: h jumps to h2.                                 *)
MCRank == [g \in Group |-> IF g = NULL THEN 2 ELSE IF g = "h" THEN 1 ELSE 0]

(* The rules left by an earlier load, and rules of another making: what    *)
(* they do not drop passes.                                                *)
Execution(commands) == Effect(Booted, commands)

Earlier ==
    Execution(Skeleton("AF_INET") \o GroupCommands("g")
              \o RuleCommands(InG("g", {Tcp, Accept}).ent)
              \o RuleCommands(In("eth1", JumpTo("g")).ent)
              \o RuleCommands(Out("*", {Accept}).ent))

Permissive == Execution(RuleCommands(In("eth0", {Local, Drop}).ent))

-----------------------------------------------------------------------------
Paths ==
    { [path |-> "INPUT", in |-> i, out |-> NULL] : i \in {"eth0", "eth1"} }
    \union { [path |-> "OUTPUT", in |-> NULL, out |-> o] : o \in {"eth0", "eth1"} }
    \union { [path |-> "FORWARD", in |-> i, out |-> o] : i \in {"eth0", "eth1"}, o \in {"eth0", "eth1"} }

Contents ==
    [proto : {"tcp"}, sport : {"high"}, dport : {"ssh"}, icmp : {NULL},
     state : {"NEW"}, syn : {"yes"}]
    \union [proto : {"tcp"}, sport : {"high"}, dport : {"ssh"}, icmp : {NULL},
            state : {"ESTABLISHED"}, syn : {"no"}]
    \union [proto : {"tcp"}, sport : {"ssh"}, dport : {"high"}, icmp : {NULL},
            state : {"ESTABLISHED"}, syn : {"yes", "no"}]
    \union [proto : {"tcp"}, sport : {"ssh"}, dport : {"high"}, icmp : {NULL},
            state : {"INVALID", "NEW"}, syn : {"no"}]
    \union [proto : {"udp"}, sport : {"high"}, dport : {"high"}, icmp : {NULL},
            state : {"NEW", "ESTABLISHED", "RELATED"}, syn : {"no"}]
    \union [proto : {"tcp"}, sport : {"high"}, dport : {"ssh"}, icmp : {NULL},
            state : {"RELATED"}, syn : {"yes"}]
    \union [proto : {"icmp"}, sport : {NULL}, dport : {NULL}, icmp : {"echo", "pong"},
            state : {"NEW"}, syn : {"no"}]
    \union [proto : {"icmp"}, sport : {NULL}, dport : {NULL}, icmp : {"echo"},
            state : {"RELATED"}, syn : {"no"}]

Ends == { <<"a", "b">>, <<"b", "a">> }

MCPackets ==
    { [path |-> w.path, in |-> w.in, out |-> w.out, src |-> e[1], dst |-> e[2],
       proto |-> c.proto, sport |-> c.sport, dport |-> c.dport, icmp |-> c.icmp,
       state |-> c.state, syn |-> c.syn] : w \in Paths, e \in Ends, c \in Contents }
=============================================================================
