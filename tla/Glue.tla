-------------------------------- MODULE Glue --------------------------------
(***************************************************************************)
(* glue.c: from the parser's abstract syntax to struct filter.             *)
(*                                                                         *)
(* A program is a sequence of rules, a rule a sequence of specifiers (the  *)
(* specifier_list; empty where the grammar leaves a NULL list).  A         *)
(* specifier has a keyword, and arguments or subrules:                     *)
(*   DIRECTION, SPORT, DPORT, ICMPTYPE, PROTO                args          *)
(*   SOURCE, DEST                           args, each [host, mask]        *)
(*   TARGET, LOG                                             args[1]       *)
(*   LOCAL, FORWARD, ONEWAY                                                *)
(*   COMPOUND, CHAINGROUP                                    subs (, name) *)
(***************************************************************************)
EXTENDS FilterIR, SequencesExt

CONSTANTS
    BadMask,    \* the netmasks that new_filter_host cannot parse
    Protocols   \* getprotobyname: name of a protocol -> its number

ASSUME GlueAssumption ==
    /\ NULL \notin BadMask
    /\ Protocols \in [DOMAIN Protocols -> Value]

(* G.n is the memory the nodes are allocated in, G.cc the static counter   *)
(* that names anonymous groups.                                            *)
Alloc(G, node) == [n |-> Append(G.n, node), cc |-> G.cc, p |-> Len(G.n) + 1]

Nothing(G) == [n |-> G.n, cc |-> G.cc, p |-> NIL]

(* Convert a sequence in order, collecting the pointers.  (TLC evaluates   *)
(* ps first, and so one element after the other, not inside each other.)   *)
ConvertEach(Convert(_, _), G, s) ==
    LET done[i \in 0..Len(s)] ==
            IF i = 0 THEN [n |-> G.n, cc |-> G.cc, ps |-> <<>>]
            ELSE LET before == done[i - 1]
                     r == Convert([n |-> before.n, cc |-> before.cc], s[i])
                 IN  [ps |-> Append(before.ps, r.p), n |-> r.n, cc |-> r.cc]
    IN  done[Len(s)]

NonNull(ps) == SelectSeq(ps, LAMBDA p : p # NIL)

(* Hang each element on the one before: by next, or by child.              *)
Chain(n, ps, field) ==
    FoldLeft(LAMBDA h, i : IF field = "next"
                           THEN [h EXCEPT ![ps[i]].next = ps[i + 1]]
                           ELSE [h EXCEPT ![ps[i]].child = ps[i + 1]],
             n, [i \in 1..(Len(ps) - 1) |-> i])

(* A wrong variant: the left-recursive list is walked from its end.        *)
LinkListBackwards(A, field) ==
    LET ps == Reverse(NonNull(A.ps)) IN
    IF A.ps = <<>> \/ A.ps[1] = NIL THEN Nothing(A)
    ELSE [n |-> Chain(A.n, ps, field), cc |-> A.cc, p |-> ps[1]]

(***************************************************************************)
(* The idiom of every convert_*_list over a left-recursive list.  An       *)
(* element that converts to NULL is skipped, except that a NULL FIRST      *)
(* element makes the list NULL ("warning: ... returned NULL").             *)
(***************************************************************************)
LinkList(A, field) ==
    LET ps == NonNull(A.ps) IN
    IF A.ps = <<>> \/ A.ps[1] = NIL THEN Nothing(A)
    ELSE [n |-> Chain(A.n, ps, field), cc |-> A.cc, p |-> ps[1]]

(* convert_rule_list alone starts again after a NULL.                      *)
LinkRules(A) ==
    LET ps == NonNull(A.ps) IN
    IF ps = <<>> THEN Nothing(A)
    ELSE [n |-> Chain(A.n, ps, "next"), cc |-> A.cc, p |-> ps[1]]

-----------------------------------------------------------------------------
HostKeyword == {"SOURCE", "DEST"}

HostText(a) == IF a.mask = NULL THEN a.host ELSE a.host \o "/" \o a.mask

(* The entry of a protocol, found by its number or by its name.            *)
ProtocolEntry(a) == {p \in DOMAIN Protocols : a \in {p, Protocols[p]}}

(* The one value a node keeps of its argument, if its constructor takes it.*)
NodeValue(type, a) ==
    CASE type \in HostKeyword -> IF a.mask \in BadMask THEN {} ELSE {HostText(a)}
      [] type = "PROTO"       -> ProtocolEntry(a)
      [] OTHER                -> {a}

(* One node per argument; new_filter_siblings(NULL) is NULL.               *)
ConvertArg(G, type, dir, a) ==
    IF NodeValue(type, a) = {} THEN Nothing(G)
    ELSE Alloc(G, NewNode(type, CHOOSE v \in NodeValue(type, a) : TRUE, dir, NIL))

Siblings(L) ==
    IF L.p = NIL THEN L ELSE Alloc(L, NewNode("SIBLINGLIST", NULL, NULL, L.p))

ConvertMatch(G, s) ==
    Siblings(LinkList(
        ConvertEach(LAMBDA H, a : ConvertArg(H, s.k, s.dir, a), G, s.args),
        "next"))

(* oneway becomes a routing type, not the F_ONEWAY node.                   *)
ConvertOption(G, s) ==
    LET Rtype(v) == Alloc(G, NewNode("ROUTINGTYPE", v, NULL, NIL))
    IN  CASE s.k = "LOCAL"   -> Rtype("LOCALONLY")
          [] s.k = "FORWARD" -> Rtype("ROUTEDONLY")
          [] s.k = "ONEWAY"  -> Rtype("F_ONEWAY")

ConvertLeaf(G, s) ==
    Alloc(G, NewNode(s.k, IF s.args = <<>> THEN NULL ELSE s.args[1], NULL, NIL))

AnonymousName(cc) == "chain_" \o ToString(cc)

MatchKeyword == {"DIRECTION", "SOURCE", "DEST", "SPORT", "DPORT",
                 "ICMPTYPE", "PROTO"}

RECURSIVE ConvertSpecifierList(_, _), ConvertSpecifier(_, _)

ConvertSubrules(G, subs) ==
    LinkList(ConvertEach(ConvertSpecifierList, G, subs), "next")

(* The name is taken before the rules of the group are converted.          *)
ConvertChaingroup(G, s) ==
    LET anon == s.name = NULL
        name == IF anon THEN AnonymousName(G.cc) ELSE s.name
        L    == ConvertSubrules([n  |-> G.n,
                                 cc |-> IF anon THEN G.cc + 1 ELSE G.cc],
                                s.subs)
    IN  IF L.p = NIL THEN L
        ELSE Alloc(L, NewNode("SUBGROUP", name, NULL, L.p))

ConvertSpecifier(G, s) ==
    CASE s.k = "COMPOUND"   -> Siblings(ConvertSubrules(G, s.subs))
      [] s.k = "CHAINGROUP" -> ConvertChaingroup(G, s)
      [] s.k \in MatchKeyword -> ConvertMatch(G, s)
      [] s.k \in {"TARGET", "LOG"} -> ConvertLeaf(G, s)
      [] OTHER -> ConvertOption(G, s)

ConvertNegated(G, s) ==
    LET r == ConvertSpecifier(G, s)
    IN  IF s.neg /\ r.p # NIL
        THEN Alloc(r, NewNode("NEG", NULL, NULL, r.p)) ELSE r

ConvertSpecifierList(G, rule) ==
    LinkList(ConvertEach(ConvertNegated, G, rule), "child")

(* convert: the whole program.                                             *)
ConvertProgram(rules) ==
    LinkRules(ConvertEach(ConvertSpecifierList, [n |-> <<>>, cc |-> 0], rules))
=============================================================================
