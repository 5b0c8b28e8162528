----------------------------- MODULE MCCompiler -----------------------------
(***************************************************************************)
(* Programs for the compiler.  Every rule has one direction, up to two     *)
(* other specifiers drawn from a pool, and a target, in several orders;    *)
(* the pool has lists, negations, compounds in compounds, targets inside   *)
(* compounds, groups, groups in groups, a host name with two addresses,    *)
(* names of ports, protocols and ICMP types, and specifiers that make a    *)
(* rule senseless when combined.                                           *)
(***************************************************************************)
EXTENDS Compiler

Spc(k, args) == [neg |-> FALSE, k |-> k, dir |-> NULL, args |-> args,
                 subs |-> <<>>, name |-> NULL]

On(dir, ifaces) == [Spc("DIRECTION", ifaces) EXCEPT !.dir = dir]
Host(a)   == [host |-> a, mask |-> NULL]
Net(a, m) == [host |-> a, mask |-> m]
Src(as)   == Spc("SOURCE", [i \in DOMAIN as |-> Host(as[i])])
Dst(as)   == Spc("DEST", [i \in DOMAIN as |-> Host(as[i])])
Tgt(t)    == Spc("TARGET", <<t>>)
Not(s)    == [s EXCEPT !.neg = TRUE]
Compound(subs) == [Spc("COMPOUND", <<>>) EXCEPT !.subs = subs]
Group(name, subs) == [Spc("CHAINGROUP", <<>>) EXCEPT !.subs = subs, !.name = name]

Tcp     == Spc("PROTO", <<"tcp">>)
Log     == Spc("LOG", <<>>)
LogText == Spc("LOG", <<"text">>)
Local   == Spc("LOCAL", <<>>)
Http    == Spc("DPORT", <<"http">>)
SshFrom == Spc("SPORT", <<"tcpmux:1023">>)
Echo    == Spc("ICMPTYPE", <<"echo-request">>)

MCAddresses == [c |-> <<"c">>, www |-> <<"w1", "w2">>]
MCServices  == [n \in {"http", "tcpmux:1023"} |-> IF n = "http" THEN "80" ELSE "1:1023"]
MCProtocols == [tcp |-> "6", udp |-> "17"]
MCIcmpCodes == [n \in {"echo-request"} |-> "8"]

Matches ==
    { Spc("SOURCE", <<Host("a"), Net("www", "24")>>),
      Not(Dst(<<"c">>)), Not(Compound(<< <<Src(<<"a">>)>> >>)), Log, Local,
      Compound(<< <<Tcp, Http, Spc("SPORT", <<"53">>)>>, <<Echo>> >>),
      Compound(<< <<Compound(<< <<Dst(<<"a", "c">>)>>, <<Log>> >>), Src(<<"a">>)>>,
             <<Not(Src(<<"b">>))>> >>),
      Compound(<< <<Dst(<<"c">>), Tgt("DROP")>>, <<LogText>> >>),
      Compound(<< <<Tcp, SshFrom>>, <<Src(<<"b">>)>> >>) }

Groups ==
    { Group("g", << <<Dst(<<"c">>), Tgt("DROP")>>, <<Src(<<"b">>), Tgt("ACCEPT")>> >>),
      Group(NULL, << <<Compound(<< <<Dst(<<"c">>)>>, <<Log>> >>), Tgt("ACCEPT")>> >>),
      Group("g", << <<Src(<<"a">>), Group("h", << <<Tgt("DROP")>> >>)>>,
                    <<Tgt("ACCEPT")>> >>) }

Eth0 == On("INPUT", <<"eth0">>)
Both == On("OUTPUT", <<"eth0", "eth1">>)

(* The orders a rule is written in; the target is never written first.     *)
Orders(d, m, n, t) ==
    { <<d, m, n, t>>, <<m, d, t, n>>, <<m, n, t, d>> }

Decides(s) == s.k = "COMPOUND" /\ \E i \in DOMAIN s.subs : \E j \in DOMAIN s.subs[i] :
                                    s.subs[i][j].k = "TARGET"

(* Rules without a group end in a target.  In those with one the direction *)
(* comes before the group, and the jump is the only target.                *)
Rules ==
    UNION { Orders(Both, m, n, Tgt("ACCEPT")) : m \in Matches, n \in Matches }
    \union UNION { {<<Eth0, m, g>>, <<Eth0, g, m>>} :
                     m \in {x \in Matches : ~Decides(x)}, g \in Groups }
    \union { <<Eth0, g, h>> : g \in Groups, h \in {x \in Groups : x.name # NULL} }

MCAsts ==
    { <<r>> : r \in Rules } \union
    { << <<Both, m, Tgt("ACCEPT")>>, <<Eth0, Tgt("DROP")>> >> : m \in Matches } \union
    { << <<Eth0, g>>, <<Both, Tgt("DROP")>> >> : g \in Groups } \union
    { << <<Eth0, Src(<<"a", "b">>), Tgt("DROP")>>,
         <<Both, Local, Tgt("MASQ")>>,
         <<Eth0, Tgt("ACCEPT")>> >>,
      << <<>>, <<Eth0, Compound(<< <<Log>>, <<>> >>), Tgt("ACCEPT")>>,
         <<Both, Tgt("DROP")>> >>,
      <<>> }

(* What its rule callback returns: a rule, or an error.                    *)
MCResults == {-1, 1}

(* A target that is not the last element of its rule.                      *)
TargetFirstAsts ==
    { << <<Tgt("ACCEPT"), Eth0, Src(<<"a">>)>>, <<Eth0, Src(<<"b">>), Tgt("DROP")>> >> }

(* A name with two addresses and no netmask.                               *)
StaleMaskAsts == { << <<Eth0, Src(<<"www">>), Tgt("ACCEPT")>> >> }

MCValue == {"eth0", "eth1", "a", "b", "c", "w1", "w2", "www", "www/24", "w1/24",
            "w2/24", "w2/8", "tcp", "udp", "6", "17", "http", "80", "22", "53",
            "tcpmux:1023", "1:1023", "echo-request", "8", "text", "g", "h",
            "chain_0", "ACCEPT", "DROP", "MASQ", "LOCALONLY", "F_ONEWAY",
            "F_SUBGROUP"}
=============================================================================
