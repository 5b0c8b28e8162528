------------------------------ MODULE Firewall ------------------------------
(***************************************************************************)
(* What becomes of a packet: under the rules in force, and under the       *)
(* policy that the calls of filtergen_cprod stand for.  The policy is read *)
(* off filter_syntax.5 and the head of fg-iptables.c; it knows nothing of  *)
(* chains or commands.                                                     *)
(***************************************************************************)
EXTENDS Iptables

CONSTANTS
    Packets,    \* the packets that may arrive
    JumpLimit   \* how far the kernel follows jumps from chain to chain

(* A packet is for this host (path INPUT), from it (OUTPUT) or passes      *)
(* through (FORWARD).  What it does not have is NULL, which names nothing. *)
Packet ==
    LET Any == Value \union {NULL}
    IN  [path : Builtin, in : Any, out : Any, src : Any, dst : Any, proto : Any,
         sport : Any, dport : Any, icmp : Any, state : State, syn : {"yes", "no"}]

ASSUME FirewallAssumption ==
    /\ Packets \subseteq Packet
    /\ \A p \in Packets : p.syn = "yes" => p.proto = "tcp"
    /\ NULL \notin Connection \union {"icmp"}
    /\ JumpLimit \in Nat

FlagOf(p, flag) ==
    CASE flag = "-i" -> p.in        [] flag = "-o" -> p.out
      [] flag = "-s" -> p.src       [] flag = "-d" -> p.dst
      [] flag = "-p" -> p.proto     [] flag = "--icmp-type" -> p.icmp
      [] flag = "--sport" -> p.sport [] flag = "--dport" -> p.dport
      [] flag = "--ctstate" -> p.state
      [] flag = "--syn" -> p.syn

-----------------------------------------------------------------------------
(* The rules of a chain are tried in order; one that jumps to another      *)
(* chain goes on if that chain does not decide.                            *)
Passes(r, p) == \A t \in r.tests : (FlagOf(p, t.flag) \in t.vals) # t.neg

(* sub says what the other chains decide.                                  *)
ByTarget(r, p, sub) ==
    IF ~Passes(r, p) \/ r.jump.base \in Alteration THEN "RETURN"
    ELSE IF r.jump.base \in Verdict THEN r.jump.base
    ELSE sub[r.jump]

First(verdicts) ==
    LET decided == { i \in DOMAIN verdicts : verdicts[i] # "RETURN" }
    IN  IF decided = {} THEN "RETURN"
        ELSE verdicts[CHOOSE i \in decided : \A j \in decided : i <= j]

InChain(k, c, p, sub) ==
    First([i \in 1..Len(k.rules[c]) |-> ByTarget(k.rules[c][i], p, sub)])

Decision(k, p) ==
    LET jumps[n \in 0..JumpLimit] ==
            [c \in Exists(k) |-> IF n = 0 THEN "RETURN" ELSE InChain(k, c, p, jumps[n - 1])]
    IN  jumps

LetsThrough(k, p) ==
    LET d == Decision(k, p)[JumpLimit][Base(p.path)]
    IN  (IF d = "RETURN" THEN k.policy[p.path] ELSE d) = "ACCEPT"

-----------------------------------------------------------------------------
(* A rule and a packet.                                                    *)
Iface(dir, p) == IF dir = "INPUT" THEN p.in ELSE p.out

Agrees(e, t, v) ==
    \/ e.m[t] = NULL
    \/ t = "DIRECTION" /\ e.m[t] = "*"
    \/ (e.m[t] = v) # (t \in e.neg)

Fits(e, p) ==
    /\ Agrees(e, "DIRECTION", Iface(e.dir, p))
    /\ Agrees(e, "PROTO", p.proto)
    /\ Agrees(e, "SOURCE", p.src) /\ Agrees(e, "DEST", p.dst)
    /\ Agrees(e, "SPORT", p.sport) /\ Agrees(e, "DPORT", p.dport)
    /\ Agrees(e, "ICMPTYPE", p.icmp)

(* The options local and forward.                                          *)
Concerns(e, p) ==
    e.m["ROUTINGTYPE"] # (IF p.path = "FORWARD" THEN "LOCALONLY" ELSE "ROUTEDONLY")

(* The packet that p answers.                                              *)
Answered(p) ==
    [p EXCEPT !.in = p.out, !.out = p.in, !.src = p.dst, !.dst = p.src,
              !.sport = p.dport, !.dport = p.sport]

(* What a rule says of the packets of its direction, and of those that     *)
(* belong to a connection, or an exchange of datagrams, that it permits in *)
(* the other.  "Allow rules include state.  Deny rules don't", and rules   *)
(* for other protocols do not either (fg-iptables.c:27-30).  sub says what *)
(* the groups say.                                                         *)
ByRule(e, dir, p, sub) ==
    IF ~(e.dir = dir /\ Concerns(e, p) /\ Fits(e, p)) THEN "RETURN"
    ELSE IF Jumps(e) THEN sub[e.m["SUBGROUP"]]
    ELSE IF Denies(e) THEN e.m["TARGET"]
    ELSE IF HasState(e) => p.state \in {"NEW", "ESTABLISHED"} THEN "ACCEPT" ELSE "RETURN"

ByAnswer(e, dir, p, sub) ==
    IF ~ /\ p.state = "ESTABLISHED" /\ p.syn # "yes"
         /\ e.dir # dir /\ Concerns(e, p) /\ Fits(e, Answered(p))
         /\ e.m["ONEWAY"] = NULL
    THEN "RETURN"
    ELSE IF Jumps(e) THEN sub[e.m["SUBGROUP"]]
    ELSE IF Permits(e) /\ HasState(e) THEN "ACCEPT" ELSE "RETURN"

Voice == {"rule", "answer"}

Says(voice, e, dir, p, sub) ==
    IF voice = "rule" THEN ByRule(e, dir, p, sub) ELSE ByAnswer(e, dir, p, sub)

(* The first rule of a group that has something to say decides for the     *)
(* group (NULL: the program itself).  The rules of a group come before     *)
(* those that jump to it.                                                  *)
Heard(voice, calls, dir, p) ==
    LET upto[n \in 0..Len(calls)] ==
            [g \in Group |->
                IF n = 0 THEN "RETURN"
                ELSE LET before == upto[n - 1][g]
                     IN  IF before # "RETURN" \/ calls[n].k = "group" \/ calls[n].ent.group # g
                         THEN before
                         ELSE Says(voice, calls[n].ent, dir, p, upto[n - 1])]
    IN  upto

Side(calls, dir, p) ==
    LET answer == Heard("answer", calls, dir, p)[Len(calls)][NULL]
    IN  IF answer # "RETURN" THEN answer
        ELSE Heard("rule", calls, dir, p)[Len(calls)][NULL]

(* What no rule decides is dropped, and so is what belongs nowhere.  A     *)
(* forwarded packet passes through both sides; a drop on its way in does   *)
(* not decide, so that other rules may let it go                           *)
(* (examples/forward-drop-test.filter).                                    *)
Allowed(calls, p) ==
    /\ p.state # "INVALID"
    /\ CASE p.path = "FORWARD" ->
                /\ Side(calls, "INPUT", p) # "RETURN"
                /\ Side(calls, "OUTPUT", p) = "ACCEPT"
         [] OTHER -> Side(calls, p.path, p) = "ACCEPT"

-----------------------------------------------------------------------------
(***************************************************************************)
(* Where the code is known to differ from the policy, for some packets.    *)
(***************************************************************************)
(* The state is tested by every rule for tcp or udp, whatever its target   *)
(* (fg-iptables.c:192): a related packet goes past a denial, or a jump,    *)
(* that speaks of it.                                                      *)
Overlooked(calls, p) ==
    /\ p.state = "RELATED"
    /\ \E i \in 1..Len(calls) :
        /\ calls[i].k = "rule"
        /\ LET e == calls[i].ent
           IN  /\ HasState(e) /\ ~Permits(e)
               /\ p.path \in {e.dir, "FORWARD"} /\ Concerns(e, p) /\ Fits(e, p)

(* iptables-restore is given denials for input as final for forwarded      *)
(* packets too (fg-iptablesrestore.c:307-315).                             *)
DeniedOnInput(calls, p) ==
    p.path = "FORWARD" /\ Side(calls, "INPUT", p) \notin {"ACCEPT", "RETURN"}

-----------------------------------------------------------------------------
(***************************************************************************)
(* Programs for which the backends keep to the policy.  Some of this       *)
(* gen.c sees to: checkmatch wants a protocol for ports and types; a group *)
(* is announced first, and has its rules before a rule jumps to it, which  *)
(* may send them again.  The rest is where a backend is known to differ:   *)
(* it does not print the negation of a protocol, writes the return rule of *)
(* a rule for forwarded packets for local ones too, and mixes up the       *)
(* chains of a group that both directions use.                             *)
(***************************************************************************)
Rendered(e) ==
    /\ e.m["SPORT"] # NULL \/ e.m["DPORT"] # NULL => HasState(e)
    /\ e.m["ICMPTYPE"] # NULL => e.m["PROTO"] = "icmp"
    /\ "PROTO" \notin e.neg
    /\ NeedsReturn(e) => IsLocal(e)
    /\ Jumps(e) => e.m["SUBGROUP"] # NULL

RuleCalls(calls) == { i \in 1..Len(calls) : calls[i].k = "rule" }

OneWay(calls) ==
    \A i, j \in RuleCalls(calls) :
        GroupsOf(calls[i].ent) \intersect GroupsOf(calls[j].ent) # {} =>
            calls[i].ent.dir = calls[j].ent.dir

FilledFirst(calls) ==
    \A i, j \in RuleCalls(calls) :
        i < j /\ Jumps(calls[i].ent) /\ calls[j].ent.group = calls[i].ent.m["SUBGROUP"] =>
            \E l \in RuleCalls(calls) : l < i /\ calls[l].ent = calls[j].ent

(* The groups are nested, no deeper than the kernel can follow; rank is    *)
(* how deep a group goes.                                                  *)
Nested(calls, rank) ==
    /\ 2 * rank[NULL] + 2 <= JumpLimit
    /\ \A i \in RuleCalls(calls) :
        Jumps(calls[i].ent) => rank[calls[i].ent.m["SUBGROUP"]] < rank[calls[i].ent.group]

Regular(calls) ==
    /\ Grouped(calls) /\ OneWay(calls) /\ FilledFirst(calls)
    /\ \A i \in RuleCalls(calls) : Rendered(calls[i].ent)

Orderly(calls) == Regular(calls) /\ \E rank \in [Group -> Nat] : Nested(calls, rank)
=============================================================================
