----------------------------- MODULE Netfilter -----------------------------
(***************************************************************************)
(* The packet filter of the kernel, as far as the scripts of the iptables  *)
(* backend use it.  None of this is filtergen's own code: it is read off   *)
(* the commands that fg-iptables.c prints.                                 *)
(*                                                                         *)
(* A chain of a group is named after the group and one of the base chains; *)
(* the base chains have no group.  The nat table has its own two chains,   *)
(* which alter packets and decide nothing.                                 *)
(***************************************************************************)
EXTENDS FilterIR

Builtin == {"INPUT", "OUTPUT", "FORWARD"}

FilterBase == Builtin \union {"FORW_OUT", "INVALID"}

NatBase == {"PREROUTING", "POSTROUTING"}

Verdict == {"ACCEPT", "DROP", "REJECT"}

(* What else a rule may do with a packet.                                  *)
Alteration == {"LOG", "MASQUERADE", "REDIRECT"}

Group == Value \union {NULL}

Chain == [group : Group, base : FilterBase \union NatBase]

Base(name) == [group |-> NULL, base |-> name]

BuiltinChains == { Base(b) : b \in Builtin \union NatBase }

Table(c) == IF c.base \in NatBase THEN "nat" ELSE "filter"

Flag == {"-i", "-o", "-p", "-s", "-d", "--sport", "--dport", "--icmp-type",
         "--ctstate", "--syn"}

(* RELATED: an ICMP error, or another connection that one in being asks    *)
(* for.                                                                    *)
State == {"NEW", "ESTABLISHED", "RELATED", "INVALID"}

(* A test names the values it admits: one, or a list of states.            *)
Test == [flag : Flag, vals : SUBSET (Value \union State \union {"yes"}), neg : BOOLEAN]

Jump == [group : Group, base : FilterBase \union Verdict \union Alteration]

Rule == [tests : SUBSET Test, jump : Jump]

Exists(k) == DOMAIN k.rules

(* A chain is a target in its own table only.                              *)
JumpOK(k, c, jump) ==
    \/ jump.base \in Verdict \union Alteration
    \/ jump \in Exists(k) /\ Table(jump) = Table(c)

(* No rule leads to a chain that is not there.                             *)
Linked(k) ==
    \A c \in Exists(k) : \A i \in 1..Len(k.rules[c]) : JumpOK(k, c, k.rules[c][i].jump)

IsKernel(k) ==
    /\ k = [policy |-> k.policy, rules |-> k.rules]
    /\ k.policy \in [Builtin -> Verdict]
    /\ BuiltinChains \subseteq Exists(k) /\ Exists(k) \subseteq Chain
    /\ k.rules \in [Exists(k) -> Seq(Rule)]
    /\ Linked(k)

(* iptables -P, -F, -X, -N, -A and -I                                      *)
Command ==
    [op : {"-P"}, chain : { Base(b) : b \in Builtin }, jump : Jump]
    \union [op : {"-F", "-X"}, table : {"filter", "nat"}]
    \union [op : {"-N"}, chain : Chain]
    \union [op : {"-A", "-I"}, chain : Chain, rule : Rule]

Unused(k, c) ==
    /\ k.rules[c] = <<>>
    /\ \A d \in Exists(k) : \A i \in 1..Len(k.rules[d]) : k.rules[d][i].jump # c

(* What iptables-restore reads: commands, "*table" and COMMIT.             *)
Line == Command \union [op : {"*"}, table : {"filter", "nat"}] \union [op : {"COMMIT"}]

(* What iptables refuses: a policy other than these two, the removal of    *)
(* chains if one is in use, a chain that is there or is not, a target that *)
(* is not; and what is no command.                                         *)
Accepted(k, cmd) ==
    CASE cmd.op = "-P" -> cmd.jump.base \in {"ACCEPT", "DROP"}
      [] cmd.op = "-F" -> TRUE
      [] cmd.op = "-X" ->
            \A c \in Exists(k) \ BuiltinChains : Table(c) = cmd.table => Unused(k, c)
      [] cmd.op = "-N" -> cmd.chain \notin Exists(k)
      [] cmd.op \in {"-A", "-I"} -> cmd.chain \in Exists(k) /\ JumpOK(k, cmd.chain, cmd.rule.jump)
      [] OTHER -> FALSE

Obeyed(k, cmd) ==
    CASE cmd.op = "-P" -> [k EXCEPT !.policy[cmd.chain.base] = cmd.jump.base]
      [] cmd.op = "-F" ->
            [k EXCEPT !.rules = [c \in Exists(k) |->
                                    IF Table(c) = cmd.table THEN <<>> ELSE k.rules[c]]]
      [] cmd.op = "-X" ->
            [k EXCEPT !.rules = [c \in { d \in Exists(k) : Table(d) = cmd.table => d \in BuiltinChains } |->
                                    k.rules[c]]]
      [] cmd.op = "-N" ->
            [k EXCEPT !.rules = [c \in Exists(k) \union {cmd.chain} |->
                                    IF c = cmd.chain THEN <<>> ELSE k.rules[c]]]
      [] cmd.op = "-A" -> [k EXCEPT !.rules[cmd.chain] = Append(@, cmd.rule)]
      [] cmd.op = "-I" -> [k EXCEPT !.rules[cmd.chain] = <<cmd.rule>> \o @]

(* A command that is refused changes nothing.                              *)
After(k, cmd) == IF Accepted(k, cmd) THEN Obeyed(k, cmd) ELSE k

(* Commands in a row: what holds after each of them.  (Sets of one, with a *)
(* condition that always holds: TLC then evaluates one after the other,    *)
(* and not inside each other.)                                             *)
Stages(k, commands) ==
    LET after[i \in 0..Len(commands)] ==
            IF i = 0 THEN {k}
            ELSE { x \in { After(y, commands[i]) : y \in after[i - 1] } : IsKernel(x) }
    IN  after

Effect(k, commands) == CHOOSE x \in Stages(k, commands)[Len(commands)] : TRUE

(* The kernel as it boots: no filter at all.                               *)
Booted == [policy |-> [b \in Builtin |-> "ACCEPT"],
           rules  |-> [c \in BuiltinChains |-> <<>>]]
=============================================================================
