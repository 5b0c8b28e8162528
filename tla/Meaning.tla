------------------------------ MODULE Meaning ------------------------------
(***************************************************************************)
(* What a source program stands for, read off the program itself           *)
(* (filter_syntax.5, GROUPING and OUT-OF-LINE GROUPS).  It knows nothing   *)
(* of trees, pointers or passes: a compound is the list of its subrules,   *)
(* each continued by the rest of the rule.  An empty rule or subrule is no *)
(* rule at all (testsuite/fg-convert.dg/noop.in).                          *)
(***************************************************************************)
EXTENDS Resolver

(* The alternatives an argument stands for.  With names resolved, a host   *)
(* is each of its addresses under the mask that is written (the first of   *)
(* them last), a service or an ICMP type is its number.  A protocol is     *)
(* always known by its name.                                               *)
Alternatives(s, a, byNumber) ==
    CASE s.k \in HostKeyword /\ byNumber /\ a.host \in DOMAIN Addresses ->
           LET hosts == Tail(Addresses[a.host]) \o <<Head(Addresses[a.host])>>
           IN  [i \in DOMAIN hosts |-> HostText([a EXCEPT !.host = hosts[i]])]
      [] s.k \in HostKeyword -> <<HostText(a)>>
      [] s.k \in {"SPORT", "DPORT"} /\ byNumber -> <<Number(Services, a)>>
      [] s.k = "ICMPTYPE" /\ byNumber -> <<Number(IcmpCodes, a)>>
      [] OTHER -> <<a>>

Lit(s, a) == [t |-> s.k, v |-> a, neg |-> s.neg]

(* Where a rule is: the group it is in, its direction, what it tests.      *)
Outside == [group |-> NULL, dir |-> NULL, lits |-> <<>>]

With(c, s, a) == [c EXCEPT !.lits = Append(@, Lit(s, a)),
                           !.dir = IF s.k = "DIRECTION" THEN s.dir ELSE @]

(* The name of a group; a program here has at most one without a name.     *)
NameOf(s) == IF s.name = NULL THEN AnonymousName(0) ELSE s.name

Concat(ss) == FlattenSeq(ss)

(* The one argument an option or a target stands for.                      *)
OptionLit(s) ==
    CASE s.k = "LOCAL"   -> [t |-> "ROUTINGTYPE", v |-> "LOCALONLY", neg |-> s.neg]
      [] s.k = "FORWARD" -> [t |-> "ROUTINGTYPE", v |-> "ROUTEDONLY", neg |-> s.neg]
      [] OTHER           -> [t |-> s.k, v |-> NULL, neg |-> s.neg]

(* The negation of a subrule is that of one of its specifiers.  (Of a list *)
(* of subrules the language has none: "can't negate conjunctions".)        *)
Negated(s) == [s EXCEPT !.neg = ~@]

(* The calls for what is left of a rule; mode says whether groups are out  *)
(* of line (groups) and names resolved (numbers).                          *)
RECURSIVE Calls(_, _, _)
Calls(specs, c, mode) ==
    IF specs = <<>> THEN << [k |-> "rule", c |-> c] >>
    ELSE LET s    == Head(specs)
             rest == Tail(specs)
             Each(list, ctx, tail) ==
                 Concat([i \in 1..Len(list) |->
                            IF list[i] = <<>> THEN <<>>
                            ELSE Calls(list[i] \o tail, ctx, mode)])
         IN  CASE s.k = "CHAINGROUP" /\ mode.groups ->
                    << [k |-> "group", c |-> [Outside EXCEPT !.group = NameOf(s)]] >>
                    \o Each(s.subs, [Outside EXCEPT !.group = NameOf(s),
                                                    !.dir = c.dir], <<>>)
                    \o Calls(rest, [c EXCEPT !.lits = Append(@,
                                 [t |-> "SUBGROUP", v |-> NameOf(s), neg |-> FALSE])],
                             mode)
               [] s.k = "COMPOUND" /\ s.neg ->
                    Each([i \in DOMAIN s.subs[1] |-> <<Negated(s.subs[1][i])>>], c, rest)
               [] s.k \in {"COMPOUND", "CHAINGROUP"} -> Each(s.subs, c, rest)
               [] s.k \in {"LOCAL", "FORWARD", "ONEWAY", "LOG"} /\ s.args = <<>> ->
                    Calls(rest, [c EXCEPT !.lits = Append(@, OptionLit(s))], mode)
               [] OTHER ->
                    LET vs == Concat([i \in 1..Len(s.args) |->
                                         Alternatives(s, s.args[i], mode.numbers)])
                    IN  Concat([i \in 1..Len(vs) |-> Calls(rest, With(c, s, vs[i]), mode)])

Meaning(rules, outOfLine, byNumber) ==
    Concat([i \in 1..Len(rules) |->
               IF rules[i] = <<>> THEN <<>>
               ELSE Calls(rules[i], Outside, [groups |-> outOfLine, numbers |-> byNumber])])

-----------------------------------------------------------------------------
(* The rules that make sense.                                              *)
Occurs(c, t) == {i \in DOMAIN c.lits : c.lits[i].t = t}

Is(c, t, vs) == \E i \in DOMAIN c.lits : c.lits[i].t = t /\ c.lits[i].v \in vs

Sensible(c) ==
    /\ \A t \in FieldType \ {"LOG", "ONEWAY", "DPORT"} : Cardinality(Occurs(c, t)) <= 1
    /\ (Occurs(c, "TARGET") = {}) # (Occurs(c, "SUBGROUP") = {})
    /\ c.group # NULL \/ Occurs(c, "DIRECTION") # {}
    /\ Occurs(c, "SPORT") \union Occurs(c, "DPORT") # {} => Is(c, "PROTO", {"tcp", "udp"})
    /\ Occurs(c, "ICMPTYPE") # {} => Is(c, "PROTO", {"icmp"})
    /\ ~(Is(c, "ROUTINGTYPE", {"LOCALONLY"}) /\ Is(c, "TARGET", {"MASQ"}))

(* A call as the backend sees it: a rule is a set of tests.                *)
AsCall(e) == [k |-> e.k, group |-> e.c.group, dir |-> e.c.dir, lits |-> ToSet(e.c.lits)]
=============================================================================
