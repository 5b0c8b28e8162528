-------------------------------- MODULE Gen --------------------------------
(***************************************************************************)
(* gen.c: the cross product of an unrolled filter tree.  filtergen_cprod   *)
(* walks every path of the DAG, copies the entry at each branch, and calls *)
(* the backend once per complete path (cb->rule) and once per group        *)
(* (cb->group).                                                            *)
(*                                                                         *)
(* The three mutually recursive C functions are one machine with an        *)
(* explicit stack: a frame is an activation of __fg_applylist, "cur" is    *)
(* the activation of __fg_apply in progress (tail calls reuse it), and     *)
(* "ret" is the value the last one returned.                               *)
(*                                                                         *)
(* path is history: the nodes that __fg_applyone has written into the      *)
(* entry since it was zeroed.  No guard reads it.                          *)
(***************************************************************************)
EXTENDS FilterIR

CONSTANTS
    RuleResults,    \* what cb->rule may return: a rule count, or an error
    DefaultRtype    \* FF_LOCAL / FF_ROUTE as the rtype they stand for

(* Every backend's rule callback returns at least 1, or -1 on an error.    *)
ASSUME GenAssumption ==
    /\ RuleResults \subseteq Int \ {0}
    /\ DefaultRtype \in Value \union {NULL}

VARIABLES
    heap,   \* the filter nodes
    root,   \* the struct filter * handed to filtergen_cprod
    pc,     \* where control is
    stack,  \* activations of __fg_applylist
    cur,    \* the activation of __fg_apply in progress
    ret,    \* the value being returned
    out     \* the calls made to the backend, in order

genVars == <<heap, root, pc, stack, cur, ret, out>>

Ctx == [ent : Ent, path : Seq(Nat)]

EmptyCtx == [ent |-> EmptyEnt, path |-> <<>>]

(* kind is who called: filtergen_cprod, or the F_SIBLINGLIST or F_SUBGROUP *)
(* node "at" of an __fg_apply whose own entry, "outer", is suspended.      *)
Frame == [kind : {"top", "sib", "sub"}, at : Nat, node : Nat,
          inner : Ctx, outer : Ctx, count : Int]

Act == [node : Nat, ctx : Ctx]

Event == [k : {"group", "rule"}, group : Value \union {NULL}, ctx : Ctx]

Top == stack[Len(stack)]

Pop == SubSeq(stack, 1, Len(stack) - 1)

-----------------------------------------------------------------------------
(***************************************************************************)
(* __fg_applyone                                                           *)
(***************************************************************************)

(* The matches whose own field is tested before it is overwritten.         *)
ExactType == {"DIRECTION", "SOURCE", "DEST", "SPORT", "ICMPTYPE", "PROTO",
              "ROUTINGTYPE"}

(* _NA: "filter has already defined a ...".  F_DPORT tests the maximum of  *)
(* the SOURCE port range.                                                  *)
AlreadySet(e, n) ==
    \/ n.type \in {"TARGET", "DIRECTION"} /\ n.type \in e.set
    \/ n.type \in ExactType /\ e.m[n.type] # NULL
    \/ n.type = "DPORT" /\ e.m["SPORT"] \in RangePort

Recorded == {"TARGET", "SUBGROUP", "DIRECTION", "LOG"}

(* A wrong variant: whats_negated is assigned to, not or'ed.               *)
SetLeafAssigns(e, n) ==
    [e EXCEPT !.m[n.type] = n.val,
              !.dir = IF n.type = "DIRECTION" THEN n.dir ELSE @,
              !.set = IF n.type \in Recorded THEN @ \union {n.type} ELSE @,
              !.neg = IF n.negate THEN {n.type} ELSE {}]

SetLeaf(e, n) ==
    [e EXCEPT !.m[n.type] = n.val,
              !.dir = IF n.type = "DIRECTION" THEN n.dir ELSE @,
              !.set = IF n.type \in Recorded THEN @ \union {n.type} ELSE @,
              !.neg = IF n.negate THEN @ \union {n.type} ELSE @]

(* The jump to a group: it takes the place of the target.                  *)
SetSubgroup(e, n) ==
    [e EXCEPT !.m["SUBGROUP"] = n.val,
              !.m["TARGET"] = "F_SUBGROUP",
              !.set = @ \union {"SUBGROUP"},
              !.neg = IF n.negate THEN @ \union {"SUBGROUP"} ELSE @]

(* A wrong variant: the entry of the group is a copy, without the memset.  *)
GroupEntCopied(e, n) == [e EXCEPT !.group = n.val]

(* The entry of a group's rules: "direction is special".                   *)
GroupEnt(e, n) == [EmptyEnt EXCEPT !.group = n.val, !.dir = e.dir]

Extend(ctx, e, i) == [ent |-> e, path |-> Append(ctx.path, i)]

-----------------------------------------------------------------------------
(***************************************************************************)
(* The end of a path: applydefaults, then checkmatch                       *)
(***************************************************************************)
Defaulted(e) ==
    [e EXCEPT !.m["ROUTINGTYPE"] = IF @ = NULL THEN DefaultRtype ELSE @]

Complete(e) ==
    /\ e.m["SUBGROUP"] # NULL \/ e.m["TARGET"] # NULL
    /\ e.group # NULL \/ (e.dir # NULL /\ e.m["DIRECTION"] # NULL)
    /\ \/ e.m["SPORT"] = NULL /\ e.m["DPORT"] = NULL
       \/ e.m["PROTO"] \in {"tcp", "udp"}
    /\ e.m["ICMPTYPE"] # NULL => e.m["PROTO"] = "icmp"
    /\ ~(e.m["ROUTINGTYPE"] = "LOCALONLY" /\ e.m["TARGET"] = "MASQ")

-----------------------------------------------------------------------------
Init ==
    /\ HeapOK(heap)
    /\ root \in 0..Len(heap)
    /\ pc = "start"
    /\ stack = <<>>
    /\ cur = [node |-> NIL, ctx |-> EmptyCtx]
    /\ ret = 0
    /\ out = <<>>

(* filtergen_cprod *)
Start ==
    /\ pc = "start"
    /\ stack' = << [kind |-> "top", at |-> NIL, node |-> root,
                    inner |-> EmptyCtx, outer |-> EmptyCtx, count |-> 0] >>
    /\ pc' = "list"
    /\ UNCHANGED <<heap, root, cur, ret, out>>

(* A wrong variant: the end of the list is not tested for.                 *)
ListCallPastEnd ==
    /\ pc = "list"
    /\ cur' = [node |-> Top.node, ctx |-> Top.inner]
    /\ pc' = "apply"
    /\ UNCHANGED <<heap, root, stack, ret, out>>

(* __fg_applylist: call __fg_apply, which starts from a copy of the entry. *)
ListCall ==
    /\ pc = "list"
    /\ Top.node # NIL
    /\ cur' = [node |-> Top.node, ctx |-> Top.inner]
    /\ pc' = "apply"
    /\ UNCHANGED <<heap, root, stack, ret, out>>

(* __fg_applylist: __fg_apply has returned a count; go to the next filter. *)
(* Wrong variants: __fg_apply works on the entry of its caller instead of  *)
(* a copy; the count is not added up.                                      *)
AdvanceShared(f, r) ==
    [f EXCEPT !.node = heap[@].next, !.count = @ + r, !.inner.ent = cur.ctx.ent]

AdvanceUncounted(f, r) == [f EXCEPT !.node = heap[@].next]

Advance(f, r) == [f EXCEPT !.node = heap[@].next, !.count = @ + r]

ListNext ==
    /\ pc = "applied"
    /\ ret >= 0
    /\ stack' = [stack EXCEPT ![Len(stack)] = Advance(Top, ret)]
    /\ pc' = "list"
    /\ UNCHANGED <<heap, root, cur, ret, out>>

(* __fg_applylist returns the error at once ...                            *)
ListError ==
    /\ pc = "applied"
    /\ ret < 0
    /\ pc' = "listed"
    /\ UNCHANGED <<heap, root, stack, cur, ret, out>>

(* A wrong variant: the loop goes on at the end of the list.               *)
ListEndRepeats ==
    /\ pc = "list"
    /\ Top.node = NIL
    /\ ret' = Top.count
    /\ UNCHANGED <<heap, root, pc, stack, cur, out>>

(* ... or the number of rules once the list is exhausted.                  *)
ListEnd ==
    /\ pc = "list"
    /\ Top.node = NIL
    /\ ret' = Top.count
    /\ pc' = "listed"
    /\ UNCHANGED <<heap, root, stack, cur, out>>

ApplyLeaf ==
    /\ pc = "apply"
    /\ cur.node # NIL
    /\ LET n == heap[cur.node] IN
        /\ n.type \in LeafType
        /\ ~AlreadySet(cur.ctx.ent, n)
        /\ cur' = [node |-> n.child,
                   ctx |-> Extend(cur.ctx, SetLeaf(cur.ctx.ent, n), cur.node)]
    /\ UNCHANGED <<heap, root, pc, stack, ret, out>>

(* Duplicates, and a node no pass should have left (default: "invalid      *)
(* filter type").                                                          *)
ApplyError ==
    /\ pc = "apply"
    /\ cur.node # NIL
    /\ LET n == heap[cur.node] IN
        /\ n.type \notin {"SIBLINGLIST", "SUBGROUP"}
        /\ n.type \in LeafType => AlreadySet(cur.ctx.ent, n)
    /\ ret' = -1
    /\ pc' = "applied"
    /\ UNCHANGED <<heap, root, stack, cur, out>>

ApplySiblings ==
    /\ pc = "apply"
    /\ cur.node # NIL
    /\ heap[cur.node].type = "SIBLINGLIST"
    /\ stack' = Append(stack, [kind |-> "sib", at |-> cur.node,
                               node |-> heap[cur.node].list,
                               inner |-> cur.ctx, outer |-> cur.ctx,
                               count |-> 0])
    /\ pc' = "list"
    /\ UNCHANGED <<heap, root, cur, ret, out>>

(* A wrong variant: announces the group around the group.                  *)
AnnounceOuter(ctx, n) == [k |-> "group", group |-> ctx.ent.group, ctx |-> ctx]

Announce(ctx, n) == [k |-> "group", group |-> n.val, ctx |-> ctx]

(* cb->group, then the rules of the group before the rest of this path.    *)
ApplySubgroup ==
    /\ pc = "apply"
    /\ cur.node # NIL
    /\ LET n == heap[cur.node]
           e == cur.ctx.ent
       IN  /\ n.type = "SUBGROUP"
           /\ "SUBGROUP" \notin e.set
           /\ out' = Append(out, Announce(cur.ctx, n))
           /\ stack' = Append(stack,
                 [kind |-> "sub", at |-> cur.node, node |-> n.list,
                  inner |-> [ent |-> GroupEnt(e, n), path |-> <<>>],
                  outer |-> Extend(cur.ctx, SetSubgroup(e, n), cur.node),
                  count |-> 0])
    /\ pc' = "list"
    /\ UNCHANGED <<heap, root, cur, ret>>

(* A second group on one path.  The diagnostic prints the bit of whats_set *)
(* with "%s": undefined behaviour, an error return or a crash.             *)
ComposeSubgroups ==
    /\ pc = "apply"
    /\ cur.node # NIL
    /\ heap[cur.node].type = "SUBGROUP"
    /\ "SUBGROUP" \in cur.ctx.ent.set
    /\ ret' = -1
    /\ pc' \in {"applied", "crashed"}
    /\ UNCHANGED <<heap, root, stack, cur, out>>

(* The path is complete: hand the entry to the backend.                    *)
EmitRule ==
    /\ pc = "apply"
    /\ cur.node = NIL
    /\ LET e == Defaulted(cur.ctx.ent) IN
        /\ Complete(e)
        /\ out' = Append(out, [k |-> "rule", group |-> e.group,
                               ctx |-> [cur.ctx EXCEPT !.ent = e]])
    /\ ret' \in RuleResults
    /\ pc' = "applied"
    /\ UNCHANGED <<heap, root, stack, cur>>

(* checkmatch objects: "filter definition incomplete".                     *)
IncompleteRule ==
    /\ pc = "apply"
    /\ cur.node = NIL
    /\ ~Complete(Defaulted(cur.ctx.ent))
    /\ ret' = -1
    /\ pc' = "applied"
    /\ UNCHANGED <<heap, root, stack, cur, out>>

(* if (r) return r; -- with a zero count control falls through to child.   *)
SiblingsReturn ==
    /\ pc = "listed"
    /\ Top.kind = "sib"
    /\ stack' = Pop
    /\ IF ret # 0
       THEN /\ pc' = "applied"
            /\ UNCHANGED cur
       ELSE /\ pc' = "apply"
            /\ cur' = [node |-> heap[Top.at].child, ctx |-> Top.outer]
    /\ UNCHANGED <<heap, root, ret, out>>

(* A wrong variant: what the rules of the group returned is ignored.       *)
SubgroupReturnRegardless ==
    /\ pc = "listed"
    /\ Top.kind = "sub"
    /\ stack' = Pop
    /\ pc' = "apply"
    /\ cur' = [node |-> heap[Top.at].child, ctx |-> Top.outer]
    /\ UNCHANGED <<heap, root, ret, out>>

SubgroupReturn ==
    /\ pc = "listed"
    /\ Top.kind = "sub"
    /\ stack' = Pop
    /\ IF ret < 0
       THEN /\ pc' = "applied"
            /\ UNCHANGED cur
       ELSE /\ pc' = "apply"
            /\ cur' = [node |-> heap[Top.at].child, ctx |-> Top.outer]
    /\ UNCHANGED <<heap, root, ret, out>>

(* filtergen_cprod returns.                                                *)
Finish ==
    /\ pc = "listed"
    /\ Top.kind = "top"
    /\ stack' = Pop
    /\ pc' = "done"
    /\ UNCHANGED <<heap, root, cur, ret, out>>

GenNext ==
    \/ Start \/ ListCall \/ ListNext \/ ListError \/ ListEnd
    \/ ApplyLeaf \/ ApplyError \/ ApplySiblings \/ ApplySubgroup
    \/ ComposeSubgroups \/ EmitRule \/ IncompleteRule
    \/ SiblingsReturn \/ SubgroupReturn \/ Finish

GenSpec == Init /\ [][GenNext]_genVars

-----------------------------------------------------------------------------
(***************************************************************************)
(* Properties                                                              *)
(***************************************************************************)
CtxOK(c) ==
    /\ c \in Ctx
    /\ \A i \in 1..Len(c.path) :
        /\ c.path[i] \in 1..Len(heap)
        /\ heap[c.path[i]].type \in FieldType

FrameOK(f) ==
    /\ f \in Frame
    /\ f.node \in 0..Len(heap)
    /\ f.kind # "top" => f.at \in 1..Len(heap)
    /\ CtxOK(f.inner) /\ CtxOK(f.outer)

StackOK(s) ==
    /\ s \in Seq(Frame)
    /\ \A i \in 1..Len(s) : FrameOK(s[i]) /\ (s[i].kind = "top" <=> i = 1)

OutOK(o) == o \in Seq(Event) /\ \A i \in 1..Len(o) : CtxOK(o[i].ctx)

CurOK(a) == a \in Act /\ a.node \in 0..Len(heap) /\ CtxOK(a.ctx)

(* Type invariant: every activation holds pointers into the heap, the      *)
(* stack is not empty while filtergen_cprod runs, and a suspended          *)
(* __fg_applylist has the filter it is at.                                 *)
GenTypeOK ==
    /\ HeapOK(heap)
    /\ root \in 0..Len(heap)
    /\ pc \in {"start", "list", "apply", "applied", "listed", "done", "crashed"}
    /\ ret \in Int
    /\ StackOK(stack)
    /\ CurOK(cur)
    /\ OutOK(out)
    /\ pc \in {"list", "apply", "applied", "listed"} => stack # <<>>
    /\ \A i \in 1..Len(stack) :
        i < Len(stack) \/ pc \in {"apply", "applied"} => stack[i].node # NIL

TypeAt(p, i) == heap[p[i]].type

(* Each match of an entry is the last one of its type on the entry's own   *)
(* path, there is only one where the code refuses a second, and a type the *)
(* path lacks is unset: nothing leaks from one branch of a sibling list,   *)
(* or from a group, into another, and nothing on the way is lost.  (The    *)
(* routing type may come from the flags, the target from a jump.)          *)
LastOfType(p, i) == \A j \in 1..Len(p) : TypeAt(p, j) = TypeAt(p, i) => j <= i

Kept(c, i) ==
    \/ c.ent.m[TypeAt(c.path, i)] = heap[c.path[i]].val
    \/ TypeAt(c.path, i) = "TARGET" /\ c.ent.m["TARGET"] = "F_SUBGROUP"

Faithful(c) ==
    LET p == c.path
    IN  /\ \A i \in 1..Len(p) : LastOfType(p, i) => Kept(c, i)
        /\ \A i, j \in 1..Len(p) :
            TypeAt(p, i) = TypeAt(p, j) /\ TypeAt(p, i) \in ExactType => i = j
        /\ \A t \in FieldType \ {"TARGET", "ROUTINGTYPE"} :
            c.ent.m[t] # NULL => \E i \in 1..Len(p) : TypeAt(p, i) = t

(* A match is negated in the entry exactly when a node of its type on the  *)
(* path is.                                                                *)
NegationKept(c) ==
    \A t \in FieldType :
        t \in c.ent.neg <=> \E i \in 1..Len(c.path) :
                                /\ TypeAt(c.path, i) = t
                                /\ heap[c.path[i]].negate

(* Every rule handed to a backend carries the matches of its path.         *)
NoMatchLost == \A i \in 1..Len(out) : Faithful(out[i].ctx)

(* Every rule handed to a backend is negated where its path is.            *)
NegFaithful == \A i \in 1..Len(out) : NegationKept(out[i].ctx)

(* __fg_apply takes a zero from __fg_applyone for "this filter has been    *)
(* applied, go on with its child".  A sibling list must therefore never    *)
(* return zero: it would be walked and then skipped over.                  *)
CountNeverZero ==
    pc = "applied" \/ (pc = "listed" /\ Top.kind # "top") => ret # 0

(* Once a callback or a check has failed, no rule or group reaches the     *)
(* backend any more and the error is what filtergen_cprod returns.         *)
ErrorIsFinal == [][ret < 0 => ret' = ret /\ out' = out]_genVars

(* A group is announced to the backend before any rule of it, and before   *)
(* any rule that jumps to it.                                              *)
Declared(g, n) == \E j \in 1..n : out[j].k = "group" /\ out[j].group = g

Mentioned(e) == {e.group, e.m["SUBGROUP"]} \ {NULL}

ChainDeclaredFirst ==
    \A i \in 1..Len(out) :
        out[i].k = "rule" =>
            \A g \in Mentioned(out[i].ctx.ent) : Declared(g, i - 1)

-----------------------------------------------------------------------------
(***************************************************************************)
(* The inductive invariant                                                 *)
(***************************************************************************)

(* An entry in use is faithful to its path; a field that the code refuses  *)
(* to set twice still holds what the path has set it to ...                *)
PathInv(c) ==
    /\ Faithful(c)
    /\ NegationKept(c)
    /\ \A i \in 1..Len(c.path) :
        TypeAt(c.path, i) \in ExactType => c.ent.m[TypeAt(c.path, i)] = heap[c.path[i]].val

(* ... and every group it names is announced.                              *)
KnownGroups(e) == \A g \in Mentioned(e) : Declared(g, Len(out))

CtxInv(c) == PathInv(c) /\ KnownGroups(c.ent)

(* A list under a node is not empty, and its count is positive once it has *)
(* been entered.                                                           *)
FrameInv(f) ==
    /\ CtxInv(f.inner) /\ CtxInv(f.outer)
    /\ f.count >= 0
    /\ f.kind # "top" => f.node # NIL \/ f.count > 0

(* What holds in every state of a walk, and is kept by every step of it:   *)
(* the entries of all activations, suspended or not, are faithful to their *)
(* paths, and a negative value is only ever on its way out.                *)
GenInv ==
    /\ GenTypeOK
    /\ CtxInv(cur.ctx)
    /\ \A i \in 1..Len(stack) : FrameInv(stack[i])
    /\ NoMatchLost /\ NegFaithful /\ ChainDeclaredFirst
    /\ CountNeverZero
    /\ pc \in {"start", "list", "apply"} => ret >= 0
=============================================================================
