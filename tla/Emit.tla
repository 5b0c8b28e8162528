-------------------------------- MODULE Emit --------------------------------
(***************************************************************************)
(* The filtergen backend (output/filtergen/emit.c): a rule is printed in   *)
(* the language it was written in.  The output is modelled by the syntax   *)
(* tree the parser makes of it; an address keeps its mask in its text.     *)
(***************************************************************************)
EXTENDS Glue

Printed(k, dir, args) ==
    << [neg |-> FALSE, k |-> k, dir |-> dir, args |-> args, subs |-> <<>>, name |-> NULL] >>

Field(ent, t) ==
    IF ent.m[t] = NULL THEN <<>> ELSE Printed(t, NULL, <<ent.m[t]>>)

HostField(ent, t) ==
    IF ent.m[t] = NULL THEN <<>>
    ELSE Printed(t, NULL, << [host |-> ent.m[t], mask |-> NULL] >>)

LogField(ent) == IF "LOG" \in ent.set THEN Printed("LOG", NULL, <<>>) ELSE <<>>

TargetField(ent) ==
    IF ent.m["TARGET"] \in {"ACCEPT", "DROP", "REJECT"} THEN Field(ent, "TARGET") ELSE <<>>

(* A wrong variant: both ports are printed from the source port range.     *)
out_filtergen_rule_one_port(ent) ==
    Printed("DIRECTION", ent.dir, <<ent.m["DIRECTION"]>>)
    \o HostField(ent, "SOURCE") \o HostField(ent, "DEST") \o Field(ent, "PROTO")
    \o Field(ent, "SPORT")
    \o (IF ent.m["SPORT"] = NULL THEN <<>> ELSE Printed("DPORT", NULL, <<ent.m["SPORT"]>>))
    \o Field(ent, "ICMPTYPE") \o LogField(ent) \o TargetField(ent)

out_filtergen_rule(ent) ==
    Printed("DIRECTION", ent.dir, <<ent.m["DIRECTION"]>>)
    \o HostField(ent, "SOURCE") \o HostField(ent, "DEST") \o Field(ent, "PROTO")
    \o Field(ent, "SPORT") \o Field(ent, "DPORT")
    \o Field(ent, "ICMPTYPE") \o LogField(ent) \o TargetField(ent)
=============================================================================
