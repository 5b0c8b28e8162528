------------------------------- MODULE MCGen -------------------------------
(***************************************************************************)
(* filtergen_cprod on its own: every graph of five nodes of the following  *)
(* shape.  The first is a direction and the last a target; the three       *)
(* between them are matches, sibling lists and groups, linked in any       *)
(* acyclic way that the passes of filter.c leave: a sibling list has no    *)
(* child, and tails may be shared.                                         *)
(***************************************************************************)
EXTENDS Gen

Last == 5

Inner ==
    { NewNode("SOURCE", "a", NULL, NIL),
      [NewNode("LOG", NULL, NULL, NIL) EXCEPT !.negate = TRUE],
      NewNode("SIBLINGLIST", NULL, NULL, NIL),
      NewNode("SUBGROUP", "g", NULL, NIL) }

Links(i) == {NIL} \union (i + 1)..Last

(* Every way to link node i; only a member of a list has a next.           *)
Linked(i) ==
    { [n EXCEPT !.list = l, !.child = c, !.next = x] :
        n \in Inner, l \in Links(i), c \in Links(i),
        x \in IF i = 2 THEN {NIL} ELSE Links(i) }

Inside(i) ==
    { n \in Linked(i) :
        /\ (n.list # NIL) = (n.type \in {"SIBLINGLIST", "SUBGROUP"})
        /\ n.type = "SIBLINGLIST" => n.child = NIL }

Heaps ==
    { << [NewNode("DIRECTION", "eth0", "INPUT", NIL) EXCEPT !.child = 2],
         n2, n3, n4, NewNode("TARGET", "DROP", NULL, NIL) >> :
      n2 \in Inside(2), n3 \in Inside(3), n4 \in Inside(4) }

Pointers(h, I) == UNION {{h[i].list, h[i].child, h[i].next} : i \in I}

(* Those all of whose nodes are in use, and the empty tree.                *)
MCInit ==
    /\ heap \in { h \in Heaps : 3 \in Pointers(h, {2}) /\ 4 \in Pointers(h, {2, 3}) }
                \union { <<>> }
    /\ root = IF heap = <<>> THEN NIL ELSE 1
    /\ Init

MCNext == GenNext \/ (pc \in {"done", "crashed"} /\ UNCHANGED genVars)

MCSpec == MCInit /\ [][MCNext]_genVars

(* What a rule callback returns: an error, or the number of rules written. *)
MCResults == {-1, 2}

MCValue == {"a", "eth0", "DROP", "g", "F_SUBGROUP", "LOCALONLY"}
=============================================================================
