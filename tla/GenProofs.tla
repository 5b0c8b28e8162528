----------------------------- MODULE GenProofs -----------------------------
(***************************************************************************)
(* Proofs about gen.c.  The inductive invariant is GenInv of module Gen.   *)
(* Its heart is CtxInv, which is stated of every entry in use and not only *)
(* of those handed to a backend: an entry that is suspended on the stack   *)
(* is the one the next branch is copied from.                              *)
(*                                                                         *)
(* The lemmas go bottom up: types of the entry's operators, the stack, the *)
(* type invariant, one step along a path, one call to the backend, and     *)
(* then the invariant, action by action.                                   *)
(***************************************************************************)
EXTENDS Gen, SeqLemmas, SequenceTheorems, TLAPS

(* What a pointer into the heap leads to (filter.h).                       *)
LEMMA HeapNode ==
    ASSUME HeapOK(heap), NEW i \in 1..Len(heap)
    PROVE  /\ heap[i] \in Node
           /\ heap[i].list \in 0..Len(heap)
           /\ heap[i].child \in 0..Len(heap)
           /\ heap[i].next \in 0..Len(heap)
           /\ heap[i].type \in {"SIBLINGLIST", "SUBGROUP"} => heap[i].list # NIL
           /\ heap[i].type \in FieldType \ {"LOG"} => heap[i].val # NULL
  BY DEF HeapOK

(* The assignments of __fg_applyone for a leaf keep the entry well formed. *)
LEMMA SetLeafType ==
    ASSUME NEW e \in Ent, NEW n \in Node, n.type \in LeafType
    PROVE  SetLeaf(e, n) \in Ent
  <1> DEFINE m == [e.m EXCEPT ![n.type] = n.val]
             dir == IF n.type = "DIRECTION" THEN n.dir ELSE e.dir
             group == e.group
             set == IF n.type \in Recorded THEN e.set \cup {n.type} ELSE e.set
             neg == IF n.negate THEN e.neg \cup {n.type} ELSE e.neg
  <1>1. /\ e.m \in [FieldType -> Value \cup {NULL}]
        /\ n.type \in FieldType
        /\ n.val \in Value \cup {NULL}
    BY DEF Ent, Node, FieldType
  <1>2. m \in [FieldType -> Value \cup {NULL}]
    BY <1>1
  <1>3. dir \in Direction \cup {NULL} /\ group \in Value \cup {NULL}
        /\ set \in SUBSET FieldType /\ neg \in SUBSET FieldType
    BY <1>1 DEF Ent, Node
  <1>4. SetLeaf(e, n) = [e EXCEPT !.m = m, !.dir = dir, !.set = set, !.neg = neg]
    BY DEF SetLeaf
  <1>5. e.group = group
    OBVIOUS
  <1> HIDE DEF m, dir, group, set, neg
  <1>6. SetLeaf(e, n) = [m |-> m, dir |-> dir, group |-> group, set |-> set, neg |-> neg]
    BY <1>4, <1>5 DEF Ent
  <1> QED
    BY <1>2, <1>3, <1>6 DEF Ent

(* So do those for a jump.                                                 *)
LEMMA SetSubgroupType ==
    ASSUME NEW e \in Ent, NEW n \in Node
    PROVE  SetSubgroup(e, n) \in Ent
  BY ValueAssumption DEF SetSubgroup, Ent, Node, FieldType

(* And the memset of the entry of a group.                                 *)
LEMMA GroupEntType ==
    ASSUME NEW e \in Ent, NEW n \in Node
    PROVE  GroupEnt(e, n) \in Ent
  BY DEF GroupEnt, EmptyEnt, Ent, Node

(* And applydefaults.                                                      *)
LEMMA DefaultedType ==
    ASSUME NEW e \in Ent
    PROVE  Defaulted(e) \in Ent
  BY GenAssumption DEF Defaulted, Ent, FieldType, LeafType

(* The entry that filtergen_cprod starts from.                             *)
LEMMA EmptyCtxOK == CtxOK(EmptyCtx)
  BY DEF CtxOK, EmptyCtx, Ctx, EmptyEnt, Ent

(* The path of an entry grows by a node of the heap.                       *)
LEMMA ExtendOK ==
    ASSUME NEW c, CtxOK(c), NEW e \in Ent, NEW i \in 1..Len(heap),
           heap[i].type \in FieldType
    PROVE  CtxOK(Extend(c, e, i))
  BY DEF CtxOK, Extend, Ctx

(* The heap is constant during the walk.                                   *)
LEMMA CtxOKUnchanged ==
    ASSUME NEW c, CtxOK(c), UNCHANGED heap
    PROVE  CtxOK(c)'
  BY DEF CtxOK

(* So what holds of activations and calls for its sake stays true.         *)
LEMMA Unchanged ==
    ASSUME UNCHANGED heap
    PROVE  /\ \A s : StackOK(s) => StackOK(s)'
           /\ \A o : OutOK(o) => OutOK(o)'
           /\ \A a : CurOK(a) => CurOK(a)'
           /\ HeapOK(heap)' = HeapOK(heap)
           /\ Len(heap)' = Len(heap)
  <1>1. \A c : CtxOK(c) => CtxOK(c)'
    BY CtxOKUnchanged
  <1>2. \A f : FrameOK(f) => FrameOK(f)'
    BY <1>1 DEF FrameOK
  <1> QED
    BY <1>1, <1>2 DEF StackOK, OutOK, CurOK

(* There is an activation of __fg_applylist to go on with.                 *)
LEMMA TopOK ==
    ASSUME StackOK(stack), stack # <<>>
    PROVE  /\ Len(stack) \in 1..Len(stack)
           /\ FrameOK(Top)
           /\ Top.kind = "top" <=> Len(stack) = 1
  <1>1. stack \in Seq(Frame) /\ Len(stack) \in Nat
    BY LenProperties DEF StackOK
  <1>2. Len(stack) # 0
    BY <1>1, EmptySeq
  <1>3. Len(stack) \in 1..Len(stack)
    BY <1>1, <1>2
  <1> QED
    BY <1>3 DEF StackOK, Top

(* Returning to the activation below; there is one unless it is the first. *)
LEMMA PopOK ==
    ASSUME StackOK(stack), stack # <<>>
    PROVE  /\ StackOK(Pop)
           /\ Top.kind # "top" => Pop # <<>>
           /\ Len(Pop) = Len(stack) - 1
           /\ \A i \in 1..Len(Pop) : i \in 1..Len(stack) /\ Pop[i] = stack[i]
  <1>1. stack \in Seq(Frame) /\ Len(stack) \in Nat /\ Len(stack) >= 1
    BY TopOK, LenProperties DEF StackOK
  <1>2. /\ Pop \in Seq(Frame)
        /\ Len(Pop) = Len(stack) - 1
        /\ \A i \in 1..Len(Pop) : i \in 1..Len(stack) /\ Pop[i] = stack[i]
    BY <1>1, FrontOfSeq, Zenon DEF Pop
  <1>3. StackOK(Pop)
    BY <1>2 DEF StackOK
  <1>4. Top.kind # "top" => Pop # <<>>
    BY <1>1, <1>2, TopOK
  <1> QED
    BY <1>2, <1>3, <1>4

(* A nested call of __fg_applylist.                                        *)
LEMMA PushOK ==
    ASSUME StackOK(stack), stack # <<>>, NEW f, FrameOK(f), f.kind # "top"
    PROVE  StackOK(Append(stack, f)) /\ Append(stack, f) # <<>>
  BY DEF StackOK, FrameOK

(* The loop of __fg_applylist changes its own activation only.             *)
LEMMA ReplaceOK ==
    ASSUME StackOK(stack), stack # <<>>, NEW f, FrameOK(f), f.kind = Top.kind
    PROVE  LET s == [stack EXCEPT ![Len(stack)] = f]
           IN  /\ StackOK(s) /\ Len(s) = Len(stack) /\ s # <<>>
               /\ s[Len(s)] = f
               /\ \A i \in 1..Len(s) : i < Len(s) => s[i] = stack[i]
  <1> DEFINE s == [stack EXCEPT ![Len(stack)] = f]
  <1>1. stack \in Seq(Frame) /\ Len(stack) \in 1..Len(stack) /\ f \in Frame
    BY TopOK DEF StackOK, FrameOK
  <1>2. s \in Seq(Frame) /\ Len(s) = Len(stack) /\ s[Len(s)] = f
        /\ \A i \in 1..Len(s) : i < Len(s) => s[i] = stack[i]
    BY <1>1
  <1>3. s # <<>>
    BY <1>1, <1>2, EmptySeq
  <1>4. \A i \in 1..Len(s) : FrameOK(s[i]) /\ (s[i].kind = "top" <=> i = 1)
    <2> SUFFICES ASSUME NEW i \in 1..Len(s)
                 PROVE  FrameOK(s[i]) /\ (s[i].kind = "top" <=> i = 1)
      OBVIOUS
    <2>1. CASE i = Len(s)
      BY <1>2, <2>1, TopOK
    <2>2. CASE i < Len(s)
      BY <1>2, <2>2 DEF StackOK
    <2> QED
      BY <1>1, <1>2, <2>1, <2>2
  <1> QED
    BY <1>2, <1>3, <1>4 DEF StackOK

(* One more call to the backend.                                           *)
LEMMA EmitOK ==
    ASSUME OutOK(out), NEW e \in Event, CtxOK(e.ctx)
    PROVE  OutOK(Append(out, e))
  BY DEF OutOK

(* filtergen_cprod is called with an empty stack.                          *)
LEMMA TypeInit == Init => GenTypeOK
  <1> SUFFICES ASSUME Init PROVE GenTypeOK
    OBVIOUS
  <1>1. CurOK(cur)
    BY EmptyCtxOK DEF Init, CurOK, Act, CtxOK, NIL
  <1>2. StackOK(stack) /\ OutOK(out)
    BY DEF Init, StackOK, OutOK
  <1> QED
    BY <1>1, <1>2 DEF Init, GenTypeOK

(* Every step of filtergen_cprod keeps the types.                          *)
LEMMA TypeStep == GenTypeOK /\ [GenNext]_genVars => GenTypeOK'
  <1> SUFFICES ASSUME GenTypeOK, [GenNext]_genVars PROVE GenTypeOK'
    OBVIOUS
  <1> USE DEF GenTypeOK, NIL
  <1>0. UNCHANGED heap /\ UNCHANGED root
    BY DEF GenNext, genVars, Start, ListCall, ListNext, ListError, ListEnd,
           ApplyLeaf, ApplyError, ApplySiblings, ApplySubgroup,
           ComposeSubgroups, EmitRule, IncompleteRule, SiblingsReturn,
           SubgroupReturn, Finish
  <1>a. \A i \in 1..Len(heap) : heap[i] \in Node /\ heap[i].child \in 0..Len(heap)
                                 /\ heap[i].list \in 0..Len(heap) /\ heap[i].next \in 0..Len(heap)
    BY HeapNode
  <1>b. cur.ctx.ent \in Ent /\ CtxOK(cur.ctx)
    BY DEF CurOK, Act, Ctx
  <1>1. CASE Start
    <2> DEFINE f == [kind |-> "top", at |-> NIL, node |-> root,
                     inner |-> EmptyCtx, outer |-> EmptyCtx, count |-> 0]
    <2>1. FrameOK(f)
      BY EmptyCtxOK DEF FrameOK, Frame, CtxOK, HeapOK
    <2>2. StackOK(<<f>>)
      BY <2>1 DEF StackOK, FrameOK
    <2> QED
      BY <1>0, <1>1, <2>2, Unchanged DEF Start
  <1>2. CASE ListCall
    <2>1. CurOK([node |-> Top.node, ctx |-> Top.inner])
      BY <1>2, TopOK DEF ListCall, FrameOK, Frame, CurOK, Act, CtxOK
    <2>2. \A i \in 1..Len(stack) : stack[i].node # NIL
      BY <1>2, TopOK DEF ListCall, Top, StackOK
    <2> QED
      BY <1>0, <1>2, <2>1, <2>2, Unchanged DEF ListCall
  <1>3. CASE ListNext
    <2> DEFINE f == [Top EXCEPT !.node = heap[Top.node].next, !.count = Top.count + ret]
    <2>0. stack # <<>> /\ Top.node # NIL /\ ret \in Int
      BY <1>3, TopOK DEF ListNext, Top
    <2>1. FrameOK(f) /\ f.kind = Top.kind
      <3>1. Top \in Frame /\ FrameOK(Top)
        BY <2>0, TopOK DEF FrameOK
      <3>2. heap[Top.node].next \in 0..Len(heap) /\ Top.count + ret \in Int
        BY <2>0, <3>1, <1>a DEF FrameOK, Frame, HeapOK
      <3>3. heap[Top.node].next \in Nat
        BY <3>2 DEF HeapOK
      <3>4. f \in Frame /\ f.kind = Top.kind /\ f.node = heap[Top.node].next
            /\ f.at = Top.at /\ f.inner = Top.inner /\ f.outer = Top.outer
        BY <3>1, <3>2, <3>3 DEF Frame
      <3> QED
        BY <3>1, <3>2, <3>4 DEF FrameOK
    <2> DEFINE s == [stack EXCEPT ![Len(stack)] = f]
    <2>2. stack' = s
      BY <1>3 DEF ListNext, Advance
    <2> HIDE DEF f
    <2>s. StackOK(s) /\ s # <<>>
      <3>1. StackOK(stack) /\ stack # <<>> /\ FrameOK(f) /\ f.kind = Top.kind
        BY <2>0, <2>1
      <3> QED
        BY <3>1, ReplaceOK, Zenon
    <2> HIDE DEF s
    <2>3. StackOK(stack') /\ stack' # <<>>
      BY <2>2, <2>s
    <2> QED
      BY <1>0, <1>3, <2>3, Unchanged DEF ListNext
  <1>4. CASE ListError
    BY <1>0, <1>4, Unchanged DEF ListError
  <1>5. CASE ListEnd
    BY <1>0, <1>5, TopOK, Unchanged DEF ListEnd, FrameOK, Frame
  <1>6. CASE ApplyLeaf
    <2> DEFINE n == heap[cur.node]
               c == Extend(cur.ctx, SetLeaf(cur.ctx.ent, n), cur.node)
    <2>0. cur.node \in 1..Len(heap) /\ n.type \in LeafType /\ cur' = [node |-> n.child, ctx |-> c]
      BY <1>6 DEF ApplyLeaf, CurOK
    <2>2. n \in Node /\ n.child \in 0..Len(heap) /\ n.type \in FieldType
      BY <2>0, <1>a DEF FieldType
    <2>3. SetLeaf(cur.ctx.ent, n) \in Ent
      BY <1>b, <2>0, <2>2, SetLeafType
    <2>4. CtxOK(c)
      BY <1>b, <2>0, <2>2, <2>3, ExtendOK
    <2> HIDE DEF c
    <2>5. n.child \in Nat /\ c \in Ctx
      BY <2>2, <2>4 DEF Node, CtxOK
    <2>1. CurOK(cur')
      BY <2>0, <2>2, <2>4, <2>5 DEF CurOK, Act
    <2> QED
      BY <1>0, <1>6, <2>1, Unchanged DEF ApplyLeaf
  <1>7. CASE ApplyError
    BY <1>0, <1>7, Unchanged DEF ApplyError
  <1>8. CASE ApplySiblings
    <2>1. FrameOK([kind |-> "sib", at |-> cur.node, node |-> heap[cur.node].list,
                   inner |-> cur.ctx, outer |-> cur.ctx, count |-> 0])
      BY <1>8, <1>a, <1>b DEF ApplySiblings, FrameOK, Frame, CurOK, CtxOK
    <2> QED
      BY <1>0, <1>8, <2>1, PushOK, Unchanged DEF ApplySiblings
  <1>9. CASE ApplySubgroup
    <2> DEFINE n == heap[cur.node]
               e == cur.ctx.ent
               ev == [k |-> "group", group |-> n.val, ctx |-> cur.ctx]
               f == [kind |-> "sub", at |-> cur.node, node |-> n.list,
                     inner |-> [ent |-> GroupEnt(e, n), path |-> <<>>],
                     outer |-> Extend(cur.ctx, SetSubgroup(e, n), cur.node),
                     count |-> 0]
    <2>1. n \in Node /\ cur.node \in 1..Len(heap) /\ n.list \in 0..Len(heap)
      BY <1>9, <1>a DEF ApplySubgroup, CurOK
    <2>2. FrameOK(f)
      <3>1. CtxOK(f.inner)
        BY <2>1, <1>b, GroupEntType DEF CtxOK, Ctx
      <3>2. CtxOK(f.outer)
        BY <1>9, <2>1, <1>b, SetSubgroupType, ExtendOK DEF ApplySubgroup, FieldType
      <3>3. f.inner \in Ctx /\ f.outer \in Ctx
        BY <3>1, <3>2 DEF CtxOK
      <3>4. cur.node \in Nat /\ n.list \in Nat
        BY <2>1 DEF HeapOK
      <3> DEFINE inner == f.inner
                 outer == f.outer
      <3>5. f = [kind |-> "sub", at |-> cur.node, node |-> n.list,
                 inner |-> inner, outer |-> outer, count |-> 0]
        OBVIOUS
      <3> HIDE DEF inner, outer, f, n
      <3>6. f \in Frame
        <4>1. inner \in Ctx /\ outer \in Ctx
          BY <3>3 DEF inner, outer
        <4> QED
          BY <3>4, <3>5, <4>1 DEF Frame
      <3>7. f.kind = "sub" /\ f.at = cur.node /\ f.node = n.list
        BY <3>5
      <3> QED
        BY <2>1, <3>1, <3>2, <3>6, <3>7 DEF FrameOK
    <2>3. OutOK(Append(out, ev))
      BY <2>1, <1>b, EmitOK DEF Event, Node, CtxOK
    <2> QED
      BY <1>0, <1>9, <2>2, <2>3, PushOK, Unchanged DEF ApplySubgroup, Announce
  <1>10. CASE ComposeSubgroups
    BY <1>0, <1>10, Unchanged DEF ComposeSubgroups
  <1>11. CASE EmitRule
    <2> DEFINE e == Defaulted(cur.ctx.ent)
               ev == [k |-> "rule", group |-> e.group,
                      ctx |-> [cur.ctx EXCEPT !.ent = e]]
    <2>1. e \in Ent
      BY <1>b, DefaultedType
    <2>2. CtxOK(ev.ctx)
      BY <1>b, <2>1 DEF CtxOK, Ctx
    <2>3. OutOK(Append(out, ev))
      BY <2>1, <2>2, EmitOK DEF Event, Ent, CtxOK
    <2> QED
      BY <1>0, <1>11, <2>3, GenAssumption, Unchanged DEF EmitRule
  <1>12. CASE IncompleteRule
    BY <1>0, <1>12, Unchanged DEF IncompleteRule
  <1>13. CASE SiblingsReturn
    <2>1. CurOK([node |-> heap[Top.at].child, ctx |-> Top.outer])
      BY <1>13, <1>a, TopOK DEF SiblingsReturn, FrameOK, CurOK, Act, CtxOK
    <2> QED
      BY <1>0, <1>13, <2>1, PopOK, Unchanged DEF SiblingsReturn
  <1>14. CASE SubgroupReturn
    <2>1. CurOK([node |-> heap[Top.at].child, ctx |-> Top.outer])
      BY <1>14, <1>a, TopOK DEF SubgroupReturn, FrameOK, CurOK, Act, CtxOK
    <2> QED
      BY <1>0, <1>14, <2>1, PopOK, Unchanged DEF SubgroupReturn
  <1>15. CASE Finish
    BY <1>0, <1>15, PopOK, Unchanged DEF Finish
  <1>16. CASE UNCHANGED genVars
    BY <1>0, <1>16, Unchanged DEF genVars
  <1> QED
    BY <1>1, <1>2, <1>3, <1>4, <1>5, <1>6, <1>7, <1>8, <1>9, <1>10, <1>11,
       <1>12, <1>13, <1>14, <1>15, <1>16 DEF GenNext

(* The nodes on the path of an entry.                                      *)
LEMMA HeapPath ==
    ASSUME HeapOK(heap), NEW c, CtxOK(c)
    PROVE  /\ c.path \in Seq(Nat) /\ Len(c.path) \in Nat
           /\ \A i \in 1..Len(c.path) :
                /\ c.path[i] \in 1..Len(heap)
                /\ TypeAt(c.path, i) \in FieldType
                /\ TypeAt(c.path, i) # "LOG" => heap[c.path[i]].val # NULL
  <1>1. c.path \in Seq(Nat)
    BY DEF CtxOK, Ctx
  <1> QED
    BY <1>1, HeapNode DEF CtxOK, TypeAt

(* The path one node longer.                                               *)
LEMMA PathAppend ==
    ASSUME NEW p \in Seq(Nat), NEW k \in Nat, k = Len(p), NEW i \in Nat
    PROVE  /\ Len(Append(p, i)) = k + 1
           /\ TypeAt(Append(p, i), k + 1) = heap[i].type
           /\ Append(p, i)[k + 1] = i
           /\ \A j \in 1..k : /\ Append(p, i)[j] = p[j]
                               /\ TypeAt(Append(p, i), j) = TypeAt(p, j)
           /\ \A j \in 1..(k + 1) : j \in 1..k \/ j = k + 1
  BY DEF TypeAt

(* A step of the walk: the entry takes the match of the node, and at most  *)
(* its target is replaced by a jump besides.                               *)
LEMMA ExtendPath ==
    ASSUME HeapOK(heap), NEW c, CtxOK(c), PathInv(c), NEW i \in 1..Len(heap),
           NEW e \in Ent,
           heap[i].type \in FieldType,
           e.m[heap[i].type] = heap[i].val,
           heap[i].type \in ExactType => c.ent.m[heap[i].type] = NULL,
           \A t \in FieldType \ {heap[i].type} :
                e.m[t] = c.ent.m[t] \/ (t = "TARGET" /\ e.m[t] = "F_SUBGROUP"),
           e.neg = IF heap[i].negate THEN c.ent.neg \union {heap[i].type} ELSE c.ent.neg
    PROVE  PathInv(Extend(c, e, i))
  <1> DEFINE p == c.path
             k == Len(p)
             q == Append(p, i)
             d == Extend(c, e, i)
             T == heap[i].type
  <1>1. d.path = q /\ d.ent = e /\ p \in Seq(Nat) /\ k \in Nat /\ i \in Nat
    BY HeapPath DEF Extend
  <1>2. /\ Len(q) = k + 1 /\ TypeAt(q, k + 1) = T /\ q[k + 1] = i
        /\ \A j \in 1..k : q[j] = p[j] /\ TypeAt(q, j) = TypeAt(p, j)
        /\ \A j \in 1..(k + 1) : j \in 1..k \/ j = k + 1
    BY <1>1, PathAppend
  <1>3. \A j \in 1..k : TypeAt(p, j) \in FieldType
    BY HeapPath
  <1>4. \A j \in 1..k : TypeAt(p, j) \in ExactType => TypeAt(p, j) # T
    <2> SUFFICES ASSUME NEW j \in 1..k, TypeAt(p, j) \in ExactType, TypeAt(p, j) = T
                 PROVE  FALSE
      OBVIOUS
    <2>1. heap[p[j]].val # NULL
      BY HeapPath DEF ExactType
    <2>2. c.ent.m[T] = heap[p[j]].val
      BY DEF PathInv
    <2> QED
      BY <2>1, <2>2
  <1>5. \A j \in 1..Len(q) : LastOfType(q, j) => Kept(d, j)
    <2> SUFFICES ASSUME NEW j \in 1..(k + 1), LastOfType(q, j) PROVE Kept(d, j)
      BY <1>2
    <2>1. CASE j = k + 1
      BY <1>1, <1>2, <2>1 DEF Kept
    <2>2. CASE j \in 1..k
      <3>1. TypeAt(p, j) # T
        BY <1>1, <1>2, <2>2 DEF LastOfType
      <3>2. LastOfType(p, j)
        BY <1>1, <1>2, <2>2 DEF LastOfType
      <3>3. Kept(c, j)
        BY <2>2, <3>2 DEF PathInv, Faithful
      <3> QED
        BY <1>1, <1>2, <1>3, <2>2, <3>1, <3>3 DEF Kept
    <2> QED
      BY <1>2, <2>1, <2>2
  <1>6. \A j, l \in 1..Len(q) : TypeAt(q, j) = TypeAt(q, l) /\ TypeAt(q, j) \in ExactType => j = l
    <2> SUFFICES ASSUME NEW j \in 1..(k + 1), NEW l \in 1..(k + 1),
                        TypeAt(q, j) = TypeAt(q, l), TypeAt(q, j) \in ExactType
                 PROVE  j = l
      BY <1>2
    <2>1. CASE j \in 1..k /\ l \in 1..k
      <3>1. TypeAt(p, j) = TypeAt(p, l) /\ TypeAt(p, j) \in ExactType
        BY <1>2, <2>1
      <3> QED
        BY <2>1, <3>1 DEF PathInv, Faithful
    <2>2. CASE j = k + 1 /\ l \in 1..k
      BY <1>2, <1>4, <2>2
    <2>3. CASE j \in 1..k /\ l = k + 1
      BY <1>2, <1>4, <2>3
    <2> QED
      BY <1>2, <2>1, <2>2, <2>3
  <1>7. \A t \in FieldType \ {"TARGET", "ROUTINGTYPE"} :
            e.m[t] # NULL => \E j \in 1..Len(q) : TypeAt(q, j) = t
    <2> SUFFICES ASSUME NEW t \in FieldType \ {"TARGET", "ROUTINGTYPE"}, e.m[t] # NULL
                 PROVE  \E j \in 1..Len(q) : TypeAt(q, j) = t
      OBVIOUS
    <2>1. CASE t = T
      <3> WITNESS k + 1 \in 1..Len(q)
      <3> QED
        BY <1>2, <2>1
    <2>2. CASE t # T
      <3>1. PICK j \in 1..k : TypeAt(p, j) = t
        BY <2>2 DEF PathInv, Faithful
      <3> QED
        BY <1>1, <1>2, <3>1
    <2> QED
      BY <2>1, <2>2
  <1>8. NegationKept(d)
    <2> SUFFICES ASSUME NEW t \in FieldType
                 PROVE  t \in e.neg <=> \E j \in 1..Len(q) : TypeAt(q, j) = t /\ heap[q[j]].negate
      BY <1>1 DEF NegationKept
    <2>1. t \in c.ent.neg <=> \E j \in 1..k : TypeAt(p, j) = t /\ heap[p[j]].negate
      BY DEF PathInv, NegationKept
    <2>2. (\E j \in 1..Len(q) : TypeAt(q, j) = t /\ heap[q[j]].negate)
          <=> (T = t /\ heap[i].negate) \/ \E j \in 1..k : TypeAt(p, j) = t /\ heap[p[j]].negate
      <3>1. ASSUME NEW j \in 1..Len(q), TypeAt(q, j) = t /\ heap[q[j]].negate
            PROVE  (T = t /\ heap[i].negate) \/ \E l \in 1..k : TypeAt(p, l) = t /\ heap[p[l]].negate
        BY <1>2, <3>1
      <3>2. ASSUME NEW j \in 1..k, TypeAt(p, j) = t /\ heap[p[j]].negate
            PROVE  \E l \in 1..Len(q) : TypeAt(q, l) = t /\ heap[q[l]].negate
        <4>1. j \in 1..Len(q) /\ TypeAt(q, j) = t /\ heap[q[j]].negate
          BY <1>1, <1>2, <3>2
        <4> QED
          BY <4>1
      <3>3. ASSUME T = t /\ heap[i].negate
            PROVE  \E l \in 1..Len(q) : TypeAt(q, l) = t /\ heap[q[l]].negate
        <4>1. k + 1 \in 1..Len(q) /\ TypeAt(q, k + 1) = t /\ heap[q[k + 1]].negate
          BY <1>1, <1>2, <3>3
        <4> QED
          BY <4>1
      <3> QED
        BY <3>1, <3>2, <3>3
    <2> QED
      BY <2>1, <2>2
  <1>9. \A j \in 1..Len(q) : TypeAt(q, j) \in ExactType => e.m[TypeAt(q, j)] = heap[q[j]].val
    <2> SUFFICES ASSUME NEW j \in 1..(k + 1), TypeAt(q, j) \in ExactType
                 PROVE  e.m[TypeAt(q, j)] = heap[q[j]].val
      BY <1>2
    <2>1. CASE j = k + 1
      BY <1>2, <2>1
    <2>2. CASE j \in 1..k
      <3>1. TypeAt(p, j) \in ExactType /\ TypeAt(p, j) # T /\ TypeAt(p, j) # "TARGET"
        BY <1>2, <1>4, <2>2 DEF ExactType
      <3>2. c.ent.m[TypeAt(p, j)] = heap[p[j]].val
        BY <2>2, <3>1 DEF PathInv
      <3>3. e.m[TypeAt(p, j)] = c.ent.m[TypeAt(p, j)]
        BY <1>3, <2>2, <3>1
      <3> QED
        BY <1>2, <2>2, <3>2, <3>3
    <2> QED
      BY <1>2, <2>1, <2>2
  <1>10. d.path = q /\ d.ent = e
    BY <1>1
  <1> HIDE DEF d, q
  <1>11. Faithful(d)
    <2>1. \A j \in 1..Len(d.path) : LastOfType(d.path, j) => Kept(d, j)
      BY <1>5, <1>10
    <2>2. \A j, l \in 1..Len(d.path) :
             TypeAt(d.path, j) = TypeAt(d.path, l) /\ TypeAt(d.path, j) \in ExactType => j = l
      BY <1>6, <1>10
    <2>3. \A t \in FieldType \ {"TARGET", "ROUTINGTYPE"} :
             d.ent.m[t] # NULL => \E j \in 1..Len(d.path) : TypeAt(d.path, j) = t
      BY <1>7, <1>10
    <2> QED
      BY <2>1, <2>2, <2>3 DEF Faithful
  <1>12. \A j \in 1..Len(d.path) :
           TypeAt(d.path, j) \in ExactType => d.ent.m[TypeAt(d.path, j)] = heap[d.path[j]].val
    BY <1>9, <1>10
  <1>13. PathInv(d)
    BY <1>8, <1>11, <1>12 DEF PathInv
  <1> QED
    BY <1>13 DEF d

(* The entry of a group's rules starts from nothing.                       *)
LEMMA GroupPath ==
    ASSUME NEW e \in Ent, NEW n \in Node
    PROVE  PathInv([ent |-> GroupEnt(e, n), path |-> <<>>])
  <1> DEFINE d == [ent |-> GroupEnt(e, n), path |-> <<>>]
  <1>1. d.path = <<>> /\ d.ent.neg = {} /\ \A t \in FieldType : d.ent.m[t] = NULL
    BY DEF GroupEnt, EmptyEnt
  <1> QED
    BY <1>1 DEF PathInv, Faithful, NegationKept

(* So does the entry of the whole program.                                 *)
LEMMA EmptyPath == PathInv(EmptyCtx) /\ KnownGroups(EmptyCtx.ent)
  <1>1. PathInv(EmptyCtx)
    BY DEF PathInv, Faithful, NegationKept, EmptyCtx, EmptyEnt
  <1>2. Mentioned(EmptyCtx.ent) = {}
    BY DEF Mentioned, EmptyCtx, EmptyEnt, FieldType
  <1> QED
    BY <1>1, <1>2 DEF KnownGroups

(* The defaults do not touch what a path has set.                          *)
LEMMA DefaultedPath ==
    ASSUME HeapOK(heap), NEW c, CtxOK(c), PathInv(c)
    PROVE  LET d == [c EXCEPT !.ent = Defaulted(c.ent)]
           IN  Faithful(d) /\ NegationKept(d)
  <1> DEFINE e == Defaulted(c.ent)
             d == [c EXCEPT !.ent = e]
  <1>1. c.ent \in Ent /\ d.ent = e /\ d.path = c.path /\ e.neg = c.ent.neg
    BY DEF CtxOK, Ctx, Defaulted, Ent
  <1>2. \A t \in FieldType : e.m[t] = c.ent.m[t] \/ (t = "ROUTINGTYPE" /\ c.ent.m[t] = NULL)
    BY <1>1 DEF Defaulted, Ent
  <1>3. \A i \in 1..Len(c.path) : Kept(c, i) => Kept(d, i)
    <2> SUFFICES ASSUME NEW i \in 1..Len(c.path), Kept(c, i) PROVE Kept(d, i)
      OBVIOUS
    <2>1. /\ TypeAt(c.path, i) \in FieldType
          /\ TypeAt(c.path, i) # "LOG" => heap[c.path[i]].val # NULL
      BY HeapPath
    <2>2. CASE TypeAt(c.path, i) = "LOG"
      BY <1>1, <1>2, <2>2 DEF Kept, FieldType, LeafType
    <2>3. CASE TypeAt(c.path, i) # "LOG"
      BY <1>1, <1>2, <2>1, <2>3 DEF Kept
    <2> QED
      BY <2>2, <2>3
  <1>4. Faithful(d)
    BY <1>1, <1>2, <1>3 DEF PathInv, Faithful
  <1>5. NegationKept(d)
    BY <1>1 DEF PathInv, NegationKept
  <1> QED
    BY <1>4, <1>5

(* What a call to the backend does not disturb.                            *)
LEMMA Later ==
    ASSUME OutOK(out), UNCHANGED heap,
           out' = out \/ \E ev \in Event : out' = Append(out, ev)
    PROVE  /\ \A c : PathInv(c) => PathInv(c)'
           /\ \A c : CtxInv(c) => CtxInv(c)'
           /\ \A f : FrameInv(f) => FrameInv(f)'
           /\ Len(out') >= Len(out) /\ Len(out) \in Nat
           /\ \A i \in 1..Len(out) : i \in 1..Len(out') /\ out'[i] = out[i]
  <1>1. out \in Seq(Event) /\ Len(out) \in Nat /\ Len(out') \in Nat /\ Len(out') >= Len(out)
        /\ \A i \in 1..Len(out) : i \in 1..Len(out') /\ out'[i] = out[i]
    BY DEF OutOK
  <1>2. \A c : PathInv(c) => PathInv(c)'
    BY DEF PathInv, Faithful, NegationKept, Kept, LastOfType, TypeAt
  <1>3. \A e : KnownGroups(e) => KnownGroups(e)'
    BY <1>1 DEF KnownGroups, Declared, Mentioned
  <1>4. \A c : CtxInv(c) => CtxInv(c)'
    BY <1>2, <1>3 DEF CtxInv
  <1> QED
    BY <1>1, <1>2, <1>4 DEF FrameInv

(* Nothing that was said of the calls made so far changes with one more.   *)
LEMMA Emitted ==
    ASSUME OutOK(out), NoMatchLost, NegFaithful, ChainDeclaredFirst,
           UNCHANGED heap, NEW ev \in Event, out' = Append(out, ev),
           Faithful(ev.ctx), NegationKept(ev.ctx),
           ev.k = "rule" => KnownGroups(ev.ctx.ent)
    PROVE  NoMatchLost' /\ NegFaithful' /\ ChainDeclaredFirst'
  <1>1. /\ Len(out) \in Nat /\ Len(out') = Len(out) + 1
        /\ \A i \in 1..Len(out) : out'[i] = out[i]
        /\ out'[Len(out) + 1] = ev
        /\ \A i \in 1..Len(out') : i \in 1..Len(out) \/ i = Len(out) + 1
    BY DEF OutOK
  <1>2. \A c : (Faithful(c) => Faithful(c)') /\ (NegationKept(c) => NegationKept(c)')
    BY DEF Faithful, NegationKept, Kept, LastOfType, TypeAt
  <1>3. NoMatchLost' /\ NegFaithful'
    BY <1>1, <1>2 DEF NoMatchLost, NegFaithful
  <1>4. ChainDeclaredFirst'
    <2> SUFFICES ASSUME NEW i \in 1..Len(out'), out'[i].k = "rule",
                        NEW g \in Mentioned(out'[i].ctx.ent)
                 PROVE  Declared(g, i - 1)'
      BY DEF ChainDeclaredFirst
    <2>1. CASE i \in 1..Len(out)
      <3>1. Declared(g, i - 1)
        BY <1>1, <2>1 DEF ChainDeclaredFirst
      <3> QED
        BY <1>1, <2>1, <3>1 DEF Declared
    <2>2. CASE i = Len(out) + 1
      <3>1. Declared(g, Len(out))
        BY <1>1, <2>2 DEF KnownGroups
      <3> QED
        BY <1>1, <2>2, <3>1 DEF Declared
    <2> QED
      BY <1>1, <2>1, <2>2
  <1> QED
    BY <1>3, <1>4

(* Nothing is in use, and nothing has been emitted.                        *)
LEMMA InvInit == Init => GenInv
  <1> SUFFICES ASSUME Init PROVE GenInv
    OBVIOUS
  <1>1. GenTypeOK
    BY TypeInit
  <1>2. CtxInv(cur.ctx)
    BY EmptyPath DEF Init, CtxInv
  <1>3. NoMatchLost /\ NegFaithful /\ ChainDeclaredFirst /\ Len(stack) = 0
    BY DEF Init, NoMatchLost, NegFaithful, ChainDeclaredFirst
  <1> QED
    BY <1>1, <1>2, <1>3 DEF Init, GenInv, CountNeverZero

(* Every step of filtergen_cprod keeps the invariant.                      *)
LEMMA InvStep == GenInv /\ [GenNext]_genVars => GenInv'
  <1> SUFFICES ASSUME GenInv, [GenNext]_genVars PROVE GenInv'
    OBVIOUS
  <1> USE DEF NIL
  <1>0. GenTypeOK /\ GenTypeOK' /\ HeapOK(heap) /\ UNCHANGED heap
        /\ OutOK(out) /\ StackOK(stack) /\ CurOK(cur)
    BY TypeStep DEF GenInv, GenTypeOK, GenNext, genVars, Start, ListCall,
       ListNext, ListError, ListEnd, ApplyLeaf, ApplyError, ApplySiblings,
       ApplySubgroup, ComposeSubgroups, EmitRule, IncompleteRule,
       SiblingsReturn, SubgroupReturn, Finish
  <1>a. \A i \in 1..Len(heap) :
            /\ heap[i] \in Node
            /\ heap[i].type \in {"SIBLINGLIST", "SUBGROUP"} => heap[i].list # NIL
    BY <1>0, HeapNode
  <1>b. cur.ctx.ent \in Ent /\ CtxOK(cur.ctx) /\ CtxInv(cur.ctx) /\ PathInv(cur.ctx)
    BY <1>0 DEF CurOK, Act, Ctx, GenInv, CtxInv, CtxOK
  <1>c. ret \in Int /\ Len(stack) \in Nat /\ stack \in Seq(Frame)
    BY <1>0 DEF GenTypeOK, StackOK
  <1>t. ASSUME stack # <<>>
        PROVE  Len(stack) \in 1..Len(stack) /\ FrameInv(Top) /\ FrameOK(Top) /\ Top.count \in Nat
    BY <1>0, <1>t, TopOK DEF GenInv, Top, FrameInv, FrameOK, Frame
  <1>u. ASSUME UNCHANGED out
        PROVE  /\ NoMatchLost' /\ NegFaithful' /\ ChainDeclaredFirst'
               /\ \A c : CtxInv(c) => CtxInv(c)'
               /\ \A f : FrameInv(f) => FrameInv(f)'
    <2>1. \A c : (Faithful(c) => Faithful(c)') /\ (NegationKept(c) => NegationKept(c)')
      BY <1>0 DEF Faithful, NegationKept, Kept, LastOfType, TypeAt
    <2>2. NoMatchLost'
      BY <1>u, <2>1 DEF GenInv, NoMatchLost
    <2>3. NegFaithful'
      BY <1>u, <2>1 DEF GenInv, NegFaithful
    <2>4. ChainDeclaredFirst'
      <3> SUFFICES ASSUME NEW i \in 1..Len(out), out[i].k = "rule",
                          NEW g \in Mentioned(out[i].ctx.ent)
                   PROVE  Declared(g, i - 1)'
        BY <1>u DEF ChainDeclaredFirst
      <3>1. Declared(g, i - 1)
        BY DEF GenInv, ChainDeclaredFirst
      <3> QED
        BY <1>u, <3>1 DEF Declared
    <2> QED
      BY <1>0, <1>u, <2>2, <2>3, <2>4, Later
  <1>1. CASE Start
    <2> DEFINE f == [kind |-> "top", at |-> NIL, node |-> root,
                     inner |-> EmptyCtx, outer |-> EmptyCtx, count |-> 0]
    <2>1. FrameInv(f)
      BY EmptyPath DEF FrameInv, CtxInv
    <2>2. Len(stack') = 1 /\ stack'[1] = f /\ UNCHANGED <<cur, ret, out>> /\ pc' = "list" /\ ret >= 0
      BY <1>1 DEF Start, GenInv
    <2> QED
      BY <1>0, <1>b, <1>u, <2>1, <2>2 DEF GenInv, CountNeverZero
  <1>2. CASE ListCall
    <2>1. CtxInv(cur'.ctx)
      BY <1>0, <1>2, <1>t DEF ListCall, GenTypeOK, FrameInv
    <2> QED
      BY <1>0, <1>2, <1>u, <2>1 DEF ListCall, GenInv, CountNeverZero
  <1>3. CASE ListNext
    <2> DEFINE f == [Top EXCEPT !.node = heap[Top.node].next, !.count = Top.count + ret]
    <2>0. stack # <<>> /\ ret > 0
      BY <1>0, <1>3, <1>c DEF ListNext, GenTypeOK, GenInv, CountNeverZero
    <2>1. f.inner = Top.inner /\ f.outer = Top.outer /\ f.count = Top.count + ret /\ f.kind = Top.kind
      BY <1>t, <2>0 DEF FrameOK, Frame
    <2>2. FrameInv(f)
      BY <1>c, <1>t, <2>0, <2>1 DEF FrameInv
    <2>3. stack' = [stack EXCEPT ![Len(stack)] = f] /\ UNCHANGED <<cur, ret, out>> /\ pc' = "list"
      BY <1>3 DEF ListNext, Advance
    <2> HIDE DEF f
    <2>4. Len(stack') = Len(stack) /\ \A i \in 1..Len(stack) : stack'[i] = f \/ stack'[i] = stack[i]
      BY <1>c, <2>3
    <2> QED
      <3>1. ASSUME NEW i \in 1..Len(stack')
            PROVE  FrameInv(stack[i])'
        <4>1. FrameInv(stack'[i])
          BY <2>2, <2>4 DEF GenInv
        <4> QED
          BY <1>u, <2>3, <4>1
      <3> QED
        <4>1. CtxInv(cur.ctx)'
          BY <1>b, <1>u, <2>3
        <4>2. NoMatchLost' /\ NegFaithful' /\ ChainDeclaredFirst'
          BY <1>u, <2>3
        <4>3. ret' >= 0 /\ CountNeverZero'
          BY <1>c, <2>0, <2>3 DEF CountNeverZero
        <4> QED
          BY <1>0, <2>3, <3>1, <4>1, <4>2, <4>3 DEF GenInv
  <1>4. CASE ListError
    BY <1>0, <1>4, <1>u DEF ListError, GenInv, CountNeverZero
  <1>5. CASE ListEnd
    <2>1. Top.count \in Nat /\ (Top.kind # "top" => Top.count # 0)
      BY <1>0, <1>5, <1>t DEF ListEnd, GenTypeOK, FrameInv
    <2>2. Top' = Top
      BY <1>5 DEF ListEnd, Top
    <2> QED
      BY <1>0, <1>5, <1>u, <2>1, <2>2 DEF ListEnd, GenInv, CountNeverZero
  <1>6. CASE ApplyLeaf
    <2> DEFINE n == heap[cur.node]
               e == SetLeaf(cur.ctx.ent, n)
               d == Extend(cur.ctx, e, cur.node)
    <2>1. cur.node \in 1..Len(heap) /\ n \in Node /\ n.type \in LeafType /\ e \in Ent
      BY <1>0, <1>6, <1>a, <1>b, SetLeafType DEF ApplyLeaf, CurOK
    <2>2. /\ e.m[n.type] = n.val
          /\ \A t \in FieldType \ {n.type} : e.m[t] = cur.ctx.ent.m[t]
          /\ e.neg = (IF n.negate THEN cur.ctx.ent.neg \union {n.type} ELSE cur.ctx.ent.neg)
          /\ e.group = cur.ctx.ent.group
      BY <1>b, <2>1 DEF SetLeaf, Ent, FieldType
    <2>3. n.type \in ExactType => cur.ctx.ent.m[n.type] = NULL
      BY <1>6 DEF ApplyLeaf, AlreadySet
    <2>4. PathInv(d)
      BY <1>0, <1>b, <2>1, <2>2, <2>3, ExtendPath DEF FieldType
    <2>5. Mentioned(d.ent) = Mentioned(cur.ctx.ent)
      BY <2>1, <2>2 DEF Mentioned, Extend, FieldType, LeafType
    <2>6. CtxInv(d)
      BY <1>b, <2>4, <2>5 DEF CtxInv, KnownGroups
    <2> QED
      BY <1>0, <1>6, <1>u, <2>6 DEF ApplyLeaf, GenInv, CountNeverZero
  <1>7. CASE ApplyError
    BY <1>0, <1>7, <1>u DEF ApplyError, GenInv, CountNeverZero
  <1>8. CASE ApplySiblings
    <2> DEFINE f == [kind |-> "sib", at |-> cur.node, node |-> heap[cur.node].list,
                     inner |-> cur.ctx, outer |-> cur.ctx, count |-> 0]
    <2>1. FrameInv(f)
      BY <1>0, <1>8, <1>a, <1>b DEF ApplySiblings, FrameInv, CurOK
    <2>2. Len(stack') = Len(stack) + 1 /\ \A i \in 1..Len(stack') : stack'[i] = f \/ (i \in 1..Len(stack) /\ stack'[i] = stack[i])
      BY <1>8, <1>c DEF ApplySiblings
    <2> QED
      BY <1>0, <1>8, <1>u, <2>1, <2>2 DEF ApplySiblings, GenInv, CountNeverZero
  <1>9. CASE ApplySubgroup
    <2> DEFINE n == heap[cur.node]
               o == cur.ctx.ent
               e == SetSubgroup(o, n)
               g == GroupEnt(o, n)
               inner == [ent |-> g, path |-> <<>>]
               outer == Extend(cur.ctx, e, cur.node)
               ev == [k |-> "group", group |-> n.val, ctx |-> cur.ctx]
               f == [kind |-> "sub", at |-> cur.node, node |-> n.list,
                     inner |-> inner, outer |-> outer, count |-> 0]
    <2>1. /\ cur.node \in 1..Len(heap) /\ n \in Node /\ n.type = "SUBGROUP"
          /\ n.list # NIL /\ e \in Ent /\ ev \in Event
      BY <1>0, <1>9, <1>a, <1>b, SetSubgroupType DEF ApplySubgroup, Announce, CurOK, Event, Node, CtxOK
    <2>2. /\ e.m["SUBGROUP"] = n.val
          /\ \A t \in FieldType \ {"SUBGROUP"} :
                e.m[t] = o.m[t] \/ (t = "TARGET" /\ e.m[t] = "F_SUBGROUP")
          /\ e.neg = (IF n.negate THEN o.neg \union {"SUBGROUP"} ELSE o.neg)
          /\ e.group = o.group
      BY <1>b, <2>1 DEF SetSubgroup, Ent, FieldType
    <2>3. PathInv(outer) /\ PathInv(inner)
      <3>1. "SUBGROUP" \notin ExactType /\ "SUBGROUP" \in FieldType
        BY DEF ExactType, FieldType
      <3> QED
        BY <1>0, <1>b, <2>1, <2>2, <3>1, ExtendPath, GroupPath
    <2>4. out' = Append(out, ev) /\ stack' = Append(stack, f) /\ pc' = "list" /\ UNCHANGED <<cur, ret>>
          /\ ret >= 0
      BY <1>9 DEF ApplySubgroup, Announce, GenInv
    <2>s. n' = n /\ e' = e /\ g' = g /\ inner' = inner /\ outer' = outer /\ f' = f
      BY <1>0, <2>4
    <2>5. /\ \A c : PathInv(c) => PathInv(c)'
          /\ \A c : CtxInv(c) => CtxInv(c)'
          /\ \A h : FrameInv(h) => FrameInv(h)'
      BY <1>0, <2>1, <2>4, Later
    <2>6. NoMatchLost' /\ NegFaithful' /\ ChainDeclaredFirst'
      BY <1>0, <1>b, <2>1, <2>4, Emitted DEF PathInv, GenInv
    <2>7. Declared(n.val, Len(out))' /\ \A x : Declared(x, Len(out)) => Declared(x, Len(out))'
      <3>1. out \in Seq(Event) /\ Len(out) \in Nat
        BY <1>0 DEF OutOK
      <3>2. Len(out') = Len(out) + 1 /\ out'[Len(out) + 1] = ev
            /\ \A j \in 1..Len(out) : out'[j] = out[j]
        BY <2>1, <2>4, <3>1
      <3>3. ev.k = "group" /\ ev.group = n.val /\ n'.val = n.val
        BY <2>s
      <3> HIDE DEF ev, n
      <3> QED
        BY <3>1, <3>2, <3>3 DEF Declared
    <2>8. KnownGroups(e)'
      <3>1. \A x \in Mentioned(o) : Declared(x, Len(out))
        BY <1>b DEF CtxInv, KnownGroups
      <3>2. Mentioned(e) \subseteq Mentioned(o) \union {n.val}
        BY <2>2 DEF Mentioned
      <3> HIDE DEF e, n, o
      <3> QED
        BY <2>s, <2>7, <3>1, <3>2 DEF KnownGroups
    <2>9. KnownGroups(g)'
      <3>1. Mentioned(g) \subseteq {n.val}
        BY DEF Mentioned, GroupEnt, EmptyEnt, FieldType
      <3> HIDE DEF g, n
      <3> QED
        BY <2>s, <2>7, <3>1 DEF KnownGroups
    <2>10. CtxInv(inner)' /\ CtxInv(outer)'
      <3>1. inner.ent = g /\ outer.ent = e
        BY DEF Extend
      <3> HIDE DEF inner, outer, e, g
      <3>2. PathInv(inner)' /\ PathInv(outer)'
        BY <2>3, <2>5, <2>s
      <3> QED
        BY <2>8, <2>9, <2>s, <3>1, <3>2 DEF CtxInv
    <2>11. FrameInv(f)'
      <3>1. f.inner = inner /\ f.outer = outer /\ f.count = 0 /\ f.node # NIL
        BY <2>1
      <3> HIDE DEF f, inner, outer
      <3> QED
        BY <2>10, <2>s, <3>1 DEF FrameInv
    <2> HIDE DEF f, ev, inner, outer, e, g, n, o
    <2>12. Len(stack') = Len(stack) + 1
           /\ \A i \in 1..Len(stack') : stack'[i] = f \/ (i \in 1..Len(stack) /\ stack'[i] = stack[i])
      BY <1>c, <2>4
    <2> QED
      <3>1. CtxInv(cur.ctx)'
        BY <1>b, <2>4, <2>5
      <3>2. \A i \in 1..Len(stack') : FrameInv(stack[i])'
        BY <2>5, <2>11, <2>12, <2>s DEF GenInv
      <3> QED
        BY <1>0, <2>4, <2>6, <3>1, <3>2 DEF GenInv, CountNeverZero
  <1>10. CASE ComposeSubgroups
    BY <1>0, <1>10, <1>u DEF ComposeSubgroups, GenInv, CountNeverZero
  <1>11. CASE EmitRule
    <2> DEFINE e == Defaulted(cur.ctx.ent)
               d == [cur.ctx EXCEPT !.ent = e]
               ev == [k |-> "rule", group |-> e.group, ctx |-> d]
    <2>1. e \in Ent /\ ev \in Event /\ d.ent = e
      BY <1>b, DefaultedType DEF Event, Ent, CtxOK, Ctx
    <2>2. Faithful(d) /\ NegationKept(d)
      BY <1>0, <1>b, DefaultedPath
    <2>3. Mentioned(e) = Mentioned(cur.ctx.ent)
      BY <1>b DEF Mentioned, Defaulted, Ent, FieldType
    <2>4. KnownGroups(d.ent)
      BY <1>b, <2>1, <2>3 DEF CtxInv, KnownGroups
    <2>5. out' = Append(out, ev) /\ UNCHANGED <<stack, cur>> /\ pc' = "applied" /\ ret' # 0
      BY <1>11, GenAssumption DEF EmitRule
    <2>6. NoMatchLost' /\ NegFaithful' /\ ChainDeclaredFirst'
      <3>1. ev.ctx = d
        OBVIOUS
      <3> HIDE DEF ev, d
      <3> QED
        BY <1>0, <2>1, <2>2, <2>4, <2>5, <3>1, Emitted DEF GenInv
    <2>7. /\ \A c : CtxInv(c) => CtxInv(c)'
          /\ \A h : FrameInv(h) => FrameInv(h)'
      <3> HIDE DEF ev
      <3> QED
        BY <1>0, <2>1, <2>5, Later
    <2> QED
      BY <1>0, <2>5, <2>6, <2>7 DEF GenInv, CountNeverZero
  <1>12. CASE IncompleteRule
    BY <1>0, <1>12, <1>u DEF IncompleteRule, GenInv, CountNeverZero
  <1>13. CASE SiblingsReturn
    <2>1. stack # <<>> /\ ret # 0
      BY <1>0, <1>13 DEF SiblingsReturn, GenTypeOK, GenInv, CountNeverZero
    <2>2. stack' = Pop /\ pc' = "applied" /\ UNCHANGED <<cur, ret, out>>
      BY <1>13, <2>1 DEF SiblingsReturn
    <2>3. \A i \in 1..Len(stack') : i \in 1..Len(stack) /\ stack'[i] = stack[i]
      BY <1>0, <2>1, <2>2, PopOK
    <2> QED
      BY <1>0, <1>b, <1>u, <2>1, <2>2, <2>3 DEF GenInv, CountNeverZero
  <1>14. CASE SubgroupReturn
    <2>1. stack # <<>> /\ ret # 0 /\ FrameInv(Top)
      BY <1>0, <1>14, <1>t DEF SubgroupReturn, GenTypeOK, GenInv, CountNeverZero
    <2>2. stack' = Pop /\ UNCHANGED <<ret, out>>
      BY <1>14 DEF SubgroupReturn
    <2>3. \A i \in 1..Len(stack') : i \in 1..Len(stack) /\ stack'[i] = stack[i]
      BY <1>0, <2>1, <2>2, PopOK
    <2>4. CtxInv(cur'.ctx) /\ pc' \in {"apply", "applied"} /\ (pc' = "apply" => ret >= 0)
      BY <1>b, <1>c, <1>14, <2>1 DEF SubgroupReturn, FrameInv
    <2> QED
      BY <1>0, <1>u, <2>1, <2>2, <2>3, <2>4 DEF GenInv, CountNeverZero
  <1>15. CASE Finish
    <2>1. stack # <<>> /\ stack' = Pop /\ pc' = "done" /\ UNCHANGED <<cur, ret, out>>
      BY <1>0, <1>15 DEF Finish, GenTypeOK
    <2>2. \A i \in 1..Len(stack') : i \in 1..Len(stack) /\ stack'[i] = stack[i]
      BY <1>0, <2>1, PopOK
    <2> QED
      BY <1>0, <1>b, <1>u, <2>1, <2>2 DEF GenInv, CountNeverZero
  <1>16. CASE UNCHANGED genVars
    <2>1. UNCHANGED <<pc, stack, cur, ret, out, Top>>
      BY <1>16 DEF genVars, Top
    <2> QED
      BY <1>0, <1>u, <2>1 DEF GenInv, CountNeverZero
  <1> QED
    BY <1>1, <1>2, <1>3, <1>4, <1>5, <1>6, <1>7, <1>8, <1>9, <1>10, <1>11,
       <1>12, <1>13, <1>14, <1>15, <1>16 DEF GenNext

-----------------------------------------------------------------------------
(***************************************************************************)
(* Theorems                                                                *)
(***************************************************************************)

(* gen.c never follows a pointer out of the heap, never returns to an      *)
(* activation that is not there, and hands well-formed entries over.       *)
THEOREM TypeCorrect == GenSpec => []GenTypeOK
  BY TypeInit, TypeStep, PTL DEF GenSpec

(* The inductive invariant holds, whatever the heap and the backend.       *)
THEOREM Invariance == GenSpec => []GenInv
  BY InvInit, InvStep, PTL DEF GenSpec

(* Every rule handed to a backend carries the matches of its path, and no  *)
(* other: the copy that __fg_apply makes keeps branches apart.             *)
THEOREM MatchesKept == GenSpec => []NoMatchLost
  <1>1. GenInv => NoMatchLost
    BY DEF GenInv
  <1> QED
    BY <1>1, Invariance, PTL

(* Every rule handed to a backend is negated where its path is.            *)
THEOREM NegationsKept == GenSpec => []NegFaithful
  <1>1. GenInv => NegFaithful
    BY DEF GenInv
  <1> QED
    BY <1>1, Invariance, PTL

(* No list of rules counts zero, so that "if (r) return r" in __fg_apply   *)
(* never continues after a sibling list.                                   *)
THEOREM ListsCount == GenSpec => []CountNeverZero
  <1>1. GenInv => CountNeverZero
    BY DEF GenInv
  <1> QED
    BY <1>1, Invariance, PTL

(* cb->group precedes every cb->rule that needs the group.                 *)
THEOREM GroupsFirst == GenSpec => []ChainDeclaredFirst
  <1>1. GenInv => ChainDeclaredFirst
    BY DEF GenInv
  <1> QED
    BY <1>1, Invariance, PTL

(* An error stops the walk: nothing more is emitted, and it is returned.   *)
THEOREM ErrorsFinal == GenSpec => ErrorIsFinal
  <1>1. GenInv /\ [GenNext]_genVars => [ret < 0 => ret' = ret /\ out' = out]_genVars
    <2> SUFFICES ASSUME GenInv, GenNext, ret < 0
                 PROVE  ret' = ret /\ out' = out
      BY DEF genVars
    <2>1. ret \in Int /\ pc \notin {"start", "list", "apply"}
      BY DEF GenInv, GenTypeOK
    <2> QED
      BY <2>1 DEF GenNext, Start, ListCall, ListNext, ListError, ListEnd,
         ApplyLeaf, ApplyError, ApplySiblings, ApplySubgroup,
         ComposeSubgroups, EmitRule, IncompleteRule, SiblingsReturn,
         SubgroupReturn, Finish
  <1> QED
    BY <1>1, Invariance, PTL DEF GenSpec, ErrorIsFinal

-----------------------------------------------------------------------------
(***************************************************************************)
(* What the backends may count on.  The modules that model them take any   *)
(* calls that are Grouped (FilterIR); these are.                           *)
(***************************************************************************)
CallsMade ==
    [i \in 1..Len(out) |-> [k |-> out[i].k, group |-> out[i].group, ent |-> out[i].ctx.ent]]

GroupsNamed == \A i \in 1..Len(out) : out[i].k = "group" => out[i].group # NULL

(* new_filter_subgroup is never without a name.                            *)
LEMMA NamedStep ==
    ASSUME GenTypeOK, GroupsNamed, [GenNext]_genVars
    PROVE  GroupsNamed'
  <1>1. out \in Seq(Event)
    BY DEF GenTypeOK, OutOK
  <1>2. ASSUME NEW ev \in Event, out' = Append(out, ev), ev.k = "group" => ev.group # NULL
        PROVE  GroupsNamed'
    <2>1. Len(out') = Len(out) + 1 /\ out'[Len(out) + 1] = ev /\ \A i \in 1..Len(out) : out'[i] = out[i]
      BY <1>1, <1>2
    <2>2. \A i \in 1..(Len(out) + 1) : i \in 1..Len(out) \/ i = Len(out) + 1
      BY <1>1
    <2> QED
      BY <1>2, <2>1, <2>2 DEF GroupsNamed
  <1>3. cur.ctx.ent \in Ent /\ CtxOK(cur.ctx) /\ cur.node \in 0..Len(heap)
    BY DEF GenTypeOK, CurOK, Act, Ctx, CtxOK
  <1>4. CASE ApplySubgroup
    <2> DEFINE n == heap[cur.node]
               ev == [k |-> "group", group |-> n.val, ctx |-> cur.ctx]
    <2>1. out' = Append(out, ev) /\ cur.node \in 1..Len(heap) /\ n.type = "SUBGROUP"
      BY <1>3, <1>4 DEF ApplySubgroup, Announce, NIL
    <2>2. n \in Node /\ n.val # NULL
      BY <2>1, HeapNode DEF GenTypeOK, FieldType
    <2>3. ev \in Event
      BY <1>3, <2>2 DEF Event, Node, CtxOK
    <2> QED
      BY <1>2, <2>1, <2>2, <2>3
  <1>5. CASE EmitRule
    <2> DEFINE e == Defaulted(cur.ctx.ent)
               d == [cur.ctx EXCEPT !.ent = e]
               ev == [k |-> "rule", group |-> e.group, ctx |-> d]
    <2>1. out' = Append(out, ev)
      BY <1>5 DEF EmitRule
    <2>2. ev \in Event
      BY <1>3, DefaultedType DEF Event, Ent, CtxOK, Ctx
    <2> QED
      BY <1>2, <2>1, <2>2
  <1>6. CASE UNCHANGED out
    BY <1>6 DEF GroupsNamed
  <1> QED
    BY <1>4, <1>5, <1>6 DEF GenNext, genVars, Start, ListCall, ListNext, ListError, ListEnd,
       ApplyLeaf, ApplyError, ApplySiblings, ComposeSubgroups, IncompleteRule,
       SiblingsReturn, SubgroupReturn, Finish

(* Whatever the tree, filtergen_cprod makes calls that are Grouped: every  *)
(* group has a name and comes before the rules that need it.  This is what *)
(* the theorems about the iptables backends (LoadProofs, RestoreProofs)    *)
(* ask of a program.                                                       *)
THEOREM GroupedCalls == GenSpec => []Grouped(CallsMade)
  <1>1. Init => GroupsNamed
    BY DEF Init, GroupsNamed
  <1>2. GenTypeOK /\ GroupsNamed /\ [GenNext]_genVars => GroupsNamed'
    BY NamedStep
  <1>3. GenTypeOK /\ GroupsNamed /\ ChainDeclaredFirst => Grouped(CallsMade)
    <2> SUFFICES ASSUME GenTypeOK, GroupsNamed, ChainDeclaredFirst, NEW n \in 1..Len(out),
                        out[n].k # "group", NEW g \in Mentioned(out[n].ctx.ent)
                 PROVE  g \in Announced(CallsMade, n)
      <3>1. Len(out) \in Nat
        BY LenProperties DEF GenTypeOK, OutOK
      <3>2. Len(CallsMade) = Len(out)
        BY <3>1 DEF CallsMade
      <3> QED
        BY <3>2 DEF Grouped, CallsMade, GroupsNamed, GroupsOf, Mentioned
    <2>1. out[n].k = "rule" /\ Len(out) \in Nat
      <3>1. out \in Seq(Event)
        BY DEF GenTypeOK, OutOK
      <3>2. out[n] \in Event /\ Len(out) \in Nat
        BY <3>1
      <3> QED
        BY <3>2 DEF Event
    <2>2. PICK j \in 1..(n - 1) : out[j].k = "group" /\ out[j].group = g
      BY <2>1 DEF ChainDeclaredFirst, Declared
    <2>3. j \in 1..n /\ j \in 1..Len(out)
      BY <2>1
    <2> QED
      BY <2>2, <2>3 DEF Announced, CallsMade
  <1> QED
    BY <1>1, <1>2, <1>3, TypeCorrect, GroupsFirst, PTL DEF GenSpec


(* What checkmatch sees to of a rule, in the calls that are made.          *)
Checked(calls) ==
    \A i \in 1..Len(calls) : calls[i].k = "rule" =>
        LET m == calls[i].ent.m IN
        /\ m["SPORT"] # NULL \/ m["DPORT"] # NULL => m["PROTO"] \in {"tcp", "udp"}
        /\ m["ICMPTYPE"] # NULL => m["PROTO"] = "icmp"
        /\ m["SUBGROUP"] # NULL \/ m["TARGET"] # NULL
        /\ m["ROUTINGTYPE"] = "LOCALONLY" => m["TARGET"] # "MASQ"

AllComplete == \A i \in 1..Len(out) : out[i].k = "rule" => Complete(out[i].ctx.ent)

(* Nothing but a rule that is complete goes to the backend, as a rule.     *)
LEMMA CompleteStep ==
    ASSUME GenTypeOK, AllComplete, [GenNext]_genVars
    PROVE  AllComplete'
  <1>1. out \in Seq(Event)
    BY DEF GenTypeOK, OutOK
  <1>2. ASSUME NEW ev, out' = Append(out, ev), ev.k = "rule" => Complete(ev.ctx.ent)
        PROVE  AllComplete'
    <2>1. Len(out') = Len(out) + 1 /\ out'[Len(out) + 1] = ev /\ \A i \in 1..Len(out) : out'[i] = out[i]
      BY <1>1, <1>2
    <2>2. \A i \in 1..(Len(out) + 1) : i \in 1..Len(out) \/ i = Len(out) + 1
      BY <1>1
    <2> QED
      BY <1>2, <2>1, <2>2 DEF AllComplete
  <1>3. CASE ApplySubgroup
    BY <1>2, <1>3 DEF ApplySubgroup, Announce
  <1>4. CASE EmitRule
    <2> DEFINE e == Defaulted(cur.ctx.ent)
               d == [cur.ctx EXCEPT !.ent = e]
               ev == [k |-> "rule", group |-> e.group, ctx |-> d]
    <2>1. out' = Append(out, ev) /\ Complete(e)
      BY <1>4 DEF EmitRule
    <2>2. d.ent = e
      BY DEF GenTypeOK, CurOK, Act, Ctx
    <2> QED
      BY <1>2, <2>1, <2>2
  <1>5. CASE UNCHANGED out
    BY <1>5 DEF AllComplete
  <1> QED
    BY <1>3, <1>4, <1>5 DEF GenNext, genVars, Start, ListCall, ListNext, ListError, ListEnd,
       ApplyLeaf, ApplyError, ApplySiblings, ComposeSubgroups, IncompleteRule,
       SiblingsReturn, SubgroupReturn, Finish

(* And whatever the tree, each rule has the protocol that its ports or its *)
(* icmp type need, and says what becomes of a packet: what Orderly         *)
(* (Firewall) asks of a rule because checkmatch sees to it.                *)
THEOREM CheckedCalls == GenSpec => []Checked(CallsMade)
  <1>1. Init => AllComplete
    BY DEF Init, AllComplete
  <1>2. GenTypeOK /\ AllComplete /\ [GenNext]_genVars => AllComplete'
    BY CompleteStep
  <1>3. GenTypeOK /\ AllComplete => Checked(CallsMade)
    <2> SUFFICES ASSUME GenTypeOK, AllComplete PROVE Checked(CallsMade)
      OBVIOUS
    <2>1. Len(out) \in Nat
      BY LenProperties DEF GenTypeOK, OutOK
    <2>2. Len(CallsMade) = Len(out)
      BY <2>1 DEF CallsMade
    <2> QED
      BY <2>2 DEF Checked, CallsMade, AllComplete, Complete
  <1> QED
    BY <1>1, <1>2, <1>3, TypeCorrect, PTL DEF GenSpec
=============================================================================
