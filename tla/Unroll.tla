------------------------------- MODULE Unroll -------------------------------
(***************************************************************************)
(* filter.c: the passes that turn the parse tree into a DAG every path of  *)
(* which can be walked by following child and next.  They work in place: a *)
(* pass maps a memory to a memory.  Where the code passes a                *)
(* struct filter **, "p" is what the call leaves in that slot.             *)
(***************************************************************************)
EXTENDS FilterIR

(* st is how the process stands: running, abort()ed or exit(1)ed.          *)
Memory(h, slot) == [n |-> h, st |-> "ok", p |-> slot]

Stopped(M, why) == [M EXCEPT !.st = why]

-----------------------------------------------------------------------------
(* Where the walk of filter_append stops: at the end of the child chain,   *)
(* at a sibling list, or at x itself.                                      *)
RECURSIVE ChainEnd(_, _, _)
ChainEnd(n, f, x) ==
    IF f # x /\ n[f].type # "SIBLINGLIST" /\ n[f].child # NIL
    THEN ChainEnd(n, n[f].child, x)
    ELSE f

RECURSIVE filter_append(_, _, _), AppendToEach(_, _, _)
filter_append(M, f, x) ==
    IF M.st # "ok" \/ f = NIL \/ x = NIL THEN M
    ELSE LET e == ChainEnd(M.n, f, x) IN
         IF e = x THEN M
         ELSE IF M.n[e].type # "SIBLINGLIST"
              THEN [M EXCEPT !.n[e].child = x]
              ELSE IF M.n[e].child # NIL
                   THEN Stopped(M, "abort")  \* "corrupt siblist ..."
                   ELSE AppendToEach(M, M.n[e].list, x)

AppendToEach(M, s, x) ==
    IF M.st # "ok" \/ s = NIL THEN M
    ELSE AppendToEach(filter_append(M, s, x), M.n[s].next, x)

-----------------------------------------------------------------------------
(* __filter_unroll: depth first, then this node, then sideways.            *)
RECURSIVE DoUnroll(_, _), PushDown(_, _, _)

(* Each member of a list is continued by the child of the list, which then *)
(* loses it.  A wrong variant: it does not.                                *)
DistributeKeeping(M, f, c) == PushDown(M, M.n[f].list, c)

Distribute(M, f, c) == [PushDown(M, M.n[f].list, c) EXCEPT !.n[f].child = NIL]

DoUnroll(M, f) ==
    IF M.st # "ok" \/ f = NIL THEN M
    ELSE LET c  == M.n[f].child
             M1 == DoUnroll(M, c)
             M2 == CASE M1.st # "ok" -> M1
                     [] M.n[f].type = "SIBLINGLIST" -> Distribute(M1, f, c)
                     [] M.n[f].type = "SUBGROUP" -> DoUnroll(M1, M.n[f].list)
                     [] M.n[f].type = "NEG" -> Stopped(M1, "abort")
                     [] OTHER -> M1
         IN  DoUnroll(M2, M.n[f].next)

(* A wrong variant: a list within the list is not unrolled first.          *)
PushDownFlat(M, s, c) ==
    IF M.st # "ok" \/ s = NIL THEN M
    ELSE LET M1 == filter_append(M, s, c)
         IN  PushDown(M1, M1.n[s].next, c)

PushDown(M, s, c) ==
    IF M.st # "ok" \/ s = NIL THEN M
    ELSE LET M1 == filter_append(DoUnroll(M, s), s, c)
         IN  PushDown(M1, M1.n[s].next, c)

-----------------------------------------------------------------------------
(* __filter_neg_expand: a negation disappears and marks what it was about. *)
RECURSIVE NegExpand(_, _, _)
NegExpand(M, f, neg) ==
    IF M.st # "ok" \/ f = NIL THEN [M EXCEPT !.p = f]
    ELSE
    LET a  == NegExpand(M, M.n[f].child, neg)
        b  == NegExpand([a EXCEPT !.n[f].child = a.p], M.n[f].next, neg)
        Mb == [b EXCEPT !.n[f].next = b.p, !.p = f]
        me == Mb.n[f]
        (* what a list or a negation is about *)
        l  == NegExpand(Mb, me.list, IF me.type = "NEG" THEN ~neg ELSE neg)
        Ml == [l EXCEPT !.n[f].list = l.p, !.n[f].negate = neg, !.p = f]
        Mn == filter_append(l, l.p, me.child)
    IN  CASE b.st # "ok" -> Mb
          [] me.type = "SIBLINGLIST" ->
               IF neg /\ me.list # NIL /\ Mb.n[me.list].next # NIL
               THEN Stopped(Mb, "exit")  \* "can't negate conjunctions"
               ELSE Ml
          [] me.type = "SUBGROUP" -> IF neg THEN Stopped(Mb, "exit") ELSE Ml
          [] me.type = "NEG" ->  \* the content takes the place of the node
               [Mn EXCEPT !.n[l.p].next = me.next, !.n[l.p].negate = ~neg]
          [] OTHER -> [Mb EXCEPT !.n[f].negate = neg]

-----------------------------------------------------------------------------
(* __filter_targets_to_end: only along child and next, not into lists.     *)
(* The child takes the place of f.  A wrong variant: but stays its child.  *)
TakeOutHalf(M, f) == [M EXCEPT !.p = M.n[f].child]

TakeOut(M, f) == [M EXCEPT !.n[f].child = NIL, !.p = M.n[f].child]

RECURSIVE TargetsToEnd(_, _)
TargetsToEnd(M, f) ==
    IF M.st # "ok" \/ f = NIL THEN [M EXCEPT !.p = f]
    ELSE IF M.n[f].type = "TARGET" /\ M.n[f].child # NIL
    THEN filter_append(TakeOut(M, f), M.n[f].child, f)
    ELSE LET a  == TargetsToEnd(M, M.n[f].child)
             b  == TargetsToEnd([a EXCEPT !.n[f].child = a.p], M.n[f].next)
         IN  [b EXCEPT !.n[f].next = b.p, !.p = f]

(* filter_nogroup: for a backend without groups, a group is a compound.    *)
RECURSIVE NoGroup(_, _)
NoGroup(M, f) ==
    IF f = NIL THEN M
    ELSE LET M1 == IF M.n[f].type = "SUBGROUP"
                   THEN [M EXCEPT !.n[f].type = "SIBLINGLIST",
                                  !.n[f].val = NULL]
                   ELSE M
             M2 == IF M1.n[f].type = "SIBLINGLIST"
                   THEN NoGroup(M1, M1.n[f].list) ELSE M1
         IN  NoGroup(NoGroup(M2, M.n[f].child), M.n[f].next)
=============================================================================
