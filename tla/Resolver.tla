------------------------------ MODULE Resolver ------------------------------
(***************************************************************************)
(* resolver.c: before a program is converted, and unless filtergen runs    *)
(* with -R, the names in it are replaced by numbers.  A host name becomes  *)
(* as many arguments as it has addresses.  Names that are not found stay,  *)
(* with a warning.                                                         *)
(***************************************************************************)
EXTENDS Glue

CONSTANTS
    Addresses,  \* getaddrinfo: host name -> its addresses, one or more
    Services,   \* getservbyname: port name (or range of them) -> number(s)
    IcmpCodes   \* icmpent.c: name of an ICMP type -> type

ASSUME ResolverAssumption ==
    /\ \A h \in DOMAIN Addresses : Addresses[h] # <<>>
    /\ Addresses \in [DOMAIN Addresses -> Seq(Value)]
    /\ Services  \in [DOMAIN Services  -> Value]
    /\ IcmpCodes \in [DOMAIN IcmpCodes -> Value]

Number(table, name) == IF name \in DOMAIN table THEN table[name] ELSE name

(* A wrong variant: a loop that ends one address early.                    *)
ResolveHostShort(a, stale) ==
    IF a.host \notin DOMAIN Addresses THEN <<a>>
    ELSE LET found == Addresses[a.host]
             mask  == IF a.mask # NULL THEN a.mask ELSE stale
         IN  [i \in 1..(Len(found) - 2) |-> [host |-> found[i + 1], mask |-> mask]]
             \o << [a EXCEPT !.host = found[1]] >>

(***************************************************************************)
(* The argument itself takes the first address; the further ones are       *)
(* inserted before it, and get a copy of its mask.  Without a mask they    *)
(* get what malloc left there: "stale", a null pointer or something else.  *)
(***************************************************************************)
ResolveHost(a, stale) ==
    IF a.host \notin DOMAIN Addresses THEN <<a>>
    ELSE LET found == Addresses[a.host]
             mask  == IF a.mask # NULL THEN a.mask ELSE stale
         IN  [i \in 1..(Len(found) - 1) |-> [host |-> found[i + 1], mask |-> mask]]
             \o << [a EXCEPT !.host = found[1]] >>

ResolveArgs(table, args) == [i \in DOMAIN args |-> Number(table, args[i])]

RECURSIVE ResolveSpecifier(_, _)
ResolveSpecifier(s, stale) ==
    CASE s.k \in HostKeyword ->
           [s EXCEPT !.args = FlattenSeq([i \in DOMAIN @ |-> ResolveHost(@[i], stale)])]
      [] s.k \in {"SPORT", "DPORT"} -> [s EXCEPT !.args = ResolveArgs(Services, @)]
      [] s.k = "PROTO"              -> [s EXCEPT !.args = ResolveArgs(Protocols, @)]
      [] s.k = "ICMPTYPE"           -> [s EXCEPT !.args = ResolveArgs(IcmpCodes, @)]
      [] s.k \in {"COMPOUND", "CHAINGROUP"} ->
           [s EXCEPT !.subs = [i \in DOMAIN @ |->
               [j \in DOMAIN @[i] |-> ResolveSpecifier(@[i][j], stale)]]]
      [] OTHER -> s

ResolveProgram(rules, stale) ==
    [i \in DOMAIN rules |->
        [j \in DOMAIN rules[i] |-> ResolveSpecifier(rules[i][j], stale)]]
=============================================================================
