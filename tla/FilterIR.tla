------------------------------ MODULE FilterIR ------------------------------
(***************************************************************************)
(* The intermediate representation of filtergen: struct filter (filter.h)  *)
(* and the entry a rule is built from, struct filterent (gen.h).           *)
(*                                                                         *)
(* A heap is a sequence of nodes and a pointer is an index into it, NIL    *)
(* being the null pointer.  Names, addresses, ports, protocols and targets *)
(* are members of Value; the code never looks inside one, except for the   *)
(* handful of values named below.                                          *)
(***************************************************************************)
EXTENDS Integers, Sequences

CONSTANTS
    Value,      \* what a match, a target, an option or a group name may hold
    NULL,       \* the null char* and the zero enum of an unset field
    RangePort   \* the port arguments written "min:max" (maxstr is set)

Direction == {"INPUT", "OUTPUT"}

ASSUME ValueAssumption ==
    /\ NULL \notin Value
    /\ RangePort \subseteq Value
    /\ "F_SUBGROUP" \in Value

NIL == 0

(***************************************************************************)
(* enum filtertype.  A leaf sets one field of the filterent; the others    *)
(* only give the tree its shape.                                           *)
(***************************************************************************)
LeafType == {"DIRECTION", "TARGET", "SOURCE", "DEST", "SPORT", "DPORT",
             "ICMPTYPE", "PROTO", "LOG", "ROUTINGTYPE", "ONEWAY"}

FieldType == LeafType \union {"SUBGROUP"}

NodeType == FieldType \union {"NEG", "SIBLINGLIST"}

(***************************************************************************)
(* struct filter.  "list" stands for the three pointers of the union that  *)
(* lead into the tree (u.neg, u.siblings, u.sub.list), "val" for the other *)
(* members of the union, "dir" for u.ifinfo.direction.  (A ONEWAY node has *)
(* none; its val is the 1 that gen.c writes.)                              *)
(***************************************************************************)
Node == [type   : NodeType,
         val    : Value \union {NULL},
         dir    : Direction \union {NULL},
         list   : Nat,
         child  : Nat,
         next   : Nat,
         negate : BOOLEAN]

NewNode(type, val, dir, list) ==
    [type |-> type, val |-> val, dir |-> dir, list |-> list,
     child |-> NIL, next |-> NIL, negate |-> FALSE]

(***************************************************************************)
(* struct filterent.  m[t] is the field a node of type t writes (iface for *)
(* DIRECTION, which also writes dir); set and neg are the bit sets         *)
(* whats_set and whats_negated.                                            *)
(***************************************************************************)
Ent == [m     : [FieldType -> Value \union {NULL}],
        dir   : Direction \union {NULL},
        group : Value \union {NULL},
        set   : SUBSET FieldType,
        neg   : SUBSET FieldType]

EmptyEnt == [m |-> [t \in FieldType |-> NULL], dir |-> NULL,
             group |-> NULL, set |-> {}, neg |-> {}]

(***************************************************************************)
(* Of the calls that filtergen_cprod makes: a group has a name and is      *)
(* announced before any rule of it and any rule that jumps to it.          *)
(***************************************************************************)
Announced(calls, n) == { calls[i].group : i \in { j \in 1..n : calls[j].k = "group" } }

GroupsOf(ent) == {ent.group, ent.m["SUBGROUP"]} \ {NULL}

Grouped(calls) ==
    \A n \in 1..Len(calls) :
        IF calls[n].k = "group" THEN calls[n].group # NULL
        ELSE GroupsOf(calls[n].ent) \subseteq Announced(calls, n)

(***************************************************************************)
(* What every consumer of a heap relies on: pointers stay inside it,       *)
(* new_filter_siblings and new_filter_subgroup refuse an empty list, and   *)
(* every leaf but a log has a value.                                       *)
(***************************************************************************)
HeapOK(h) ==
    /\ h \in Seq(Node)
    /\ \A i \in 1..Len(h) :
        /\ {h[i].list, h[i].child, h[i].next} \subseteq 0..Len(h)
        /\ h[i].type \in {"SIBLINGLIST", "SUBGROUP"} => h[i].list # NIL
        /\ h[i].type \in FieldType \ {"LOG"} => h[i].val # NULL
=============================================================================
