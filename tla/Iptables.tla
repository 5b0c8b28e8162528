------------------------------ MODULE Iptables ------------------------------
(***************************************************************************)
(* fg-iptables.c: the commands that the iptables and ip6tables backends    *)
(* print for a rule, a group, the skeleton and a flush.  The loops of the  *)
(* script ("for f in $CHAINS") are written out.                            *)
(*                                                                         *)
(* FF_LSTATE is never set by the driver, and what depends on it is left    *)
(* out: the features seen, and the rules after the last one.               *)
(***************************************************************************)
EXTENDS Netfilter

Family == {"AF_INET", "AF_INET6"}

Opposite(dir) == IF dir = "INPUT" THEN "OUTPUT" ELSE "INPUT"

(* The chain in which a rule of this direction meets forwarded packets.    *)
Forwarding(dir) == IF dir = "INPUT" THEN "FORWARD" ELSE "FORW_OUT"

NatChain(dir) == IF dir = "INPUT" THEN "PREROUTING" ELSE "POSTROUTING"

IfaceFlag(dir) == IF dir = "INPUT" THEN "-i" ELSE "-o"

(* The flag that tests a field, in a rule and in the rule for the packets  *)
(* that come back.                                                         *)
Flags(dir) ==
    [DIRECTION |-> IfaceFlag(dir), SOURCE |-> "-s", DEST |-> "-d",
     SPORT |-> "--sport", DPORT |-> "--dport", ICMPTYPE |-> "--icmp-type"]

ReturnFlags(dir) ==
    [DIRECTION |-> IfaceFlag(Opposite(dir)), SOURCE |-> "-d", DEST |-> "-s",
     SPORT |-> "--dport", DPORT |-> "--sport"]

Connection == {"tcp", "udp"}

HasState(ent) == ent.m["PROTO"] \in Connection

(* Set, and not a wildcard; a port or type only of a protocol that has it. *)
Tested(ent, t) ==
    /\ ent.m[t] # NULL
    /\ t = "DIRECTION" => ent.m[t] # "*"
    /\ t \in {"SPORT", "DPORT"} => HasState(ent)
    /\ t = "ICMPTYPE" => ent.m["PROTO"] = "icmp"

Only(flag, val) == [flag |-> flag, vals |-> {val}, neg |-> FALSE]

(* A wrong variant: without NEGA.                                          *)
FieldTestsPlain(ent, flags) ==
    { [flag |-> flags[t], vals |-> {ent.m[t]}, neg |-> FALSE] :
        t \in { u \in DOMAIN flags : Tested(ent, u) } }

FieldTests(ent, flags) ==
    { [flag |-> flags[t], vals |-> {ent.m[t]}, neg |-> t \in ent.neg] :
        t \in { u \in DOMAIN flags : Tested(ent, u) } }

(* The protocol is never negated.                                          *)
ProtoTests(ent) ==
    IF ent.m["PROTO"] = NULL THEN {} ELSE { Only("-p", ent.m["PROTO"]) }

StateTests(ent) ==
    IF HasState(ent)
    THEN { [flag |-> "--ctstate", vals |-> {"NEW", "ESTABLISHED"}, neg |-> FALSE] }
    ELSE {}

(* A wrong variant: the first packet of a connection passes for an answer. *)
ReturnStateTestsOpen(ent) ==
    IF HasState(ent) THEN { Only("--ctstate", "ESTABLISHED") } ELSE {}

ReturnStateTests(ent) ==
    (IF HasState(ent) THEN { Only("--ctstate", "ESTABLISHED") } ELSE {})
    \union
    (IF ent.m["PROTO"] = "tcp"
     THEN { [flag |-> "--syn", vals |-> {"yes"}, neg |-> TRUE] } ELSE {})

NatTests(ent) == FieldTests(ent, Flags(ent.dir)) \union ProtoTests(ent)

RuleTests(ent) == NatTests(ent) \union StateTests(ent)

ReturnTests(ent) ==
    FieldTests(ent, ReturnFlags(ent.dir)) \union ProtoTests(ent) \union ReturnStateTests(ent)

-----------------------------------------------------------------------------
(***************************************************************************)
(* cb_iptables_rule_common                                                 *)
(***************************************************************************)
NeedsNat(ent) == ent.m["TARGET"] \in {"MASQ", "REDIRECT"}

Permits(ent) == ent.m["TARGET"] \in {"ACCEPT", "MASQ", "REDIRECT"}

Denies(ent) == ent.m["TARGET"] \in {"DROP", "REJECT"}

Jumps(ent) == ent.m["TARGET"] = "F_SUBGROUP"

(* return -1                                                               *)
Refused(ent, family) ==
    \/ NeedsNat(ent) /\ family = "AF_INET6"
    \/ ent.m["TARGET"] = "MASQ" /\ ent.dir = "INPUT"
    \/ ent.m["TARGET"] = "REDIRECT" /\ ent.dir = "OUTPUT"
    \/ ent.dir \notin Direction
    \/ ~Permits(ent) /\ ~Denies(ent) /\ ~Jumps(ent)

IsLocal(ent) == ent.m["ROUTINGTYPE"] # "ROUTEDONLY"

IsForward(ent) == ent.m["ROUTINGTYPE"] # "LOCALONLY"

NeedsReturn(ent) ==
    /\ Jumps(ent) \/ HasState(ent)
    /\ ~Denies(ent)
    /\ ent.m["ONEWAY"] = NULL

(* ruletarget, revtarget, fortarget and forrevtarget, for the local and    *)
(* the forwarded packets of a rule and of its return rule.  What a rule    *)
(* for input decides of a forwarded packet is left to those for output.    *)
InGroup(ent, base) == [group |-> ent.m["SUBGROUP"], base |-> base]

Denial(ent) == Base(ent.m["TARGET"])

RuleTarget(ent) ==
    IF Jumps(ent) THEN InGroup(ent, ent.dir)
    ELSE IF Denies(ent) THEN Denial(ent) ELSE Base("ACCEPT")

ReturnTarget(ent) ==
    IF Jumps(ent) THEN InGroup(ent, Opposite(ent.dir)) ELSE Base("ACCEPT")

(* A wrong variant: the rule for input has the last word.                  *)
ForwardTargetDirect(ent) ==
    IF Jumps(ent) THEN InGroup(ent, Forwarding(ent.dir)) ELSE RuleTarget(ent)

ForwardTarget(ent) ==
    IF Jumps(ent) THEN InGroup(ent, Forwarding(ent.dir))
    ELSE IF ent.dir = "INPUT" THEN Base("FORW_OUT")
    ELSE IF Denies(ent) THEN Denial(ent) ELSE Base("ACCEPT")

(* A wrong variant: the answers to a rule for output have the last word.   *)
ForwardReturnTargetDirect(ent) ==
    IF Jumps(ent) THEN InGroup(ent, Forwarding(Opposite(ent.dir))) ELSE Base("ACCEPT")

ForwardReturnTarget(ent) ==
    IF Jumps(ent) THEN InGroup(ent, Forwarding(Opposite(ent.dir)))
    ELSE IF ent.dir = "OUTPUT" THEN Base("FORW_OUT") ELSE Base("ACCEPT")

NatTarget(ent) == Base(IF ent.m["TARGET"] = "MASQ" THEN "MASQUERADE" ELSE "REDIRECT")

SubChain(ent, base) == [group |-> ent.group, base |-> base]

If(condition, commands) == IF condition THEN commands ELSE <<>>

Put(op, chain, tests, jump) ==
    << [op |-> op, chain |-> chain, rule |-> [tests |-> tests, jump |-> jump]] >>

(* A log goes to the chain of the direction, in a group as well.           *)
LogCommands(ent) ==
    If("LOG" \in ent.set,
       If(IsLocal(ent), Put("-A", Base(ent.dir), RuleTests(ent), Base("LOG")))
       \o If(IsForward(ent),
             Put("-A", Base(Forwarding(ent.dir)), RuleTests(ent), Base("LOG"))))

RuleCommands(ent) ==
    LogCommands(ent)
    \o If(NeedsNat(ent),
          Put("-A", SubChain(ent, NatChain(ent.dir)), NatTests(ent), NatTarget(ent)))
    \o If(IsLocal(ent),
          Put("-A", SubChain(ent, ent.dir), RuleTests(ent), RuleTarget(ent)))
    \o If(NeedsReturn(ent),
          Put("-I", SubChain(ent, Opposite(ent.dir)), ReturnTests(ent), ReturnTarget(ent)))
    \o If(IsForward(ent),
          Put("-A", SubChain(ent, Forwarding(ent.dir)), RuleTests(ent), ForwardTarget(ent))
          \o If(NeedsReturn(ent),
                Put("-I", SubChain(ent, Forwarding(Opposite(ent.dir))),
                    ReturnTests(ent), ForwardReturnTarget(ent))))

(* A call of filtergen_cprod; a group has no entry to speak of.            *)
Call == [k : {"group", "rule"}, group : Group, ent : Ent]

-----------------------------------------------------------------------------
(* The other callback, the skeleton before the first rule, the flush.      *)
NewChain(c) == [op |-> "-N", chain |-> c]

(* A wrong variant: no chain for forwarded packets going out.              *)
GroupCommandsThree(name) ==
    [i \in 1..3 |-> NewChain([group |-> name, base |-> <<"INPUT", "OUTPUT", "FORWARD">>[i]])]

GroupCommands(name) ==
    [i \in 1..4 |-> NewChain([group |-> name,
                              base |-> <<"INPUT", "OUTPUT", "FORWARD", "FORW_OUT">>[i]])]

Chains == <<"INPUT", "OUTPUT", "FORWARD">>

SetPolicy(verdict) ==
    [i \in 1..3 |-> [op |-> "-P", chain |-> Base(Chains[i]), jump |-> Base(verdict)]]

FlushTable(table) == << [op |-> "-F", table |-> table], [op |-> "-X", table |-> table] >>

(* A wrong variant: flush first, then set the policy.                      *)
FlushCommandsEarly(verdict, family) ==
    FlushTable("filter")
    \o If(family = "AF_INET", FlushTable("nat")) \o SetPolicy(verdict)

FlushCommands(verdict, family) ==
    SetPolicy(verdict) \o FlushTable("filter")
    \o If(family = "AF_INET", FlushTable("nat"))

InvalidTests == { Only("--ctstate", "INVALID") }

Skeleton(family) ==
    FlushCommands("DROP", family)
    \o << NewChain(Base("FORW_OUT")), NewChain(Base("INVALID")) >>
    \o Put("-A", Base("INVALID"), {}, Base("DROP"))
    \o Put("-I", Base("INPUT"), InvalidTests, Base("INVALID"))
    \o Put("-I", Base("OUTPUT"), InvalidTests, Base("INVALID"))
    \o Put("-I", Base("FORWARD"), InvalidTests, Base("INVALID"))
=============================================================================
