------------------------------ MODULE Compiler ------------------------------
(***************************************************************************)
(* A compilation: resolve (resolver.c), convert (glue.c), the passes of    *)
(* filter_unroll (filter.c) in the order a backend calls them, and then    *)
(* filtergen_cprod (gen.c).                                                *)
(* Backends of the iptables and ipchains families keep groups; ipfilter,   *)
(* cisco and filtergen call filter_nogroup before filter_unroll.           *)
(***************************************************************************)
EXTENDS Emit, Gen, Meaning, Unroll

CONSTANTS
    Asts,       \* the programs that are compiled
    StaleMask   \* what unset memory may hold where a mask is looked for

VARIABLES
    source,     \* the program as written
    ast,        \* the syntax tree the parser made of it
    grouping,   \* does the backend support groups
    resolving,  \* are names resolved: no FF_NORESOLVE
    policy      \* history: what the program stands for

given == <<source, grouping, resolving, policy>>

vars == <<genVars, ast, given>>

CompilerInit ==
    /\ source \in Asts
    /\ ast = source
    /\ grouping \in BOOLEAN
    /\ resolving \in BOOLEAN
    /\ policy = Meaning(source, grouping, resolving)
    /\ heap = <<>>
    /\ root = NIL
    /\ pc = "resolve"
    /\ stack = <<>>
    /\ cur = [node |-> NIL, ctx |-> EmptyCtx]
    /\ ret = 0
    /\ out = <<>>

(* A pass leaves its result in the tree, or ends the process.              *)
Pass(from, to, S) ==
    /\ pc = from
    /\ heap' = S.n
    /\ root' = S.p
    /\ pc' = IF S.st = "ok" THEN to ELSE S.st
    /\ UNCHANGED <<stack, cur, ret, out, given>>

Resolve ==
    /\ pc = "resolve"
    /\ pc' = "convert"
    /\ IF resolving THEN \E stale \in StaleMask : ast' = ResolveProgram(ast, stale)
       ELSE UNCHANGED ast
    /\ UNCHANGED <<heap, root, stack, cur, ret, out, given>>

(* It frees the syntax tree as it goes.                                    *)
Convert ==
    LET r == ConvertProgram(ast)
    IN  /\ Pass("convert", IF grouping THEN "negexpand" ELSE "nogroup",
                Memory(r.n, r.p))
        /\ ast' = <<>>

RemoveGroups ==
    /\ Pass("nogroup", "negexpand", NoGroup(Memory(heap, root), root))
    /\ UNCHANGED ast

ExpandNegations ==
    /\ Pass("negexpand", "unroll", NegExpand(Memory(heap, root), root, FALSE))
    /\ UNCHANGED ast

UnrollTree ==
    /\ Pass("unroll", "targets", DoUnroll(Memory(heap, root), root))
    /\ UNCHANGED ast

MoveTargets ==
    /\ Pass("targets", "start", TargetsToEnd(Memory(heap, root), root))
    /\ UNCHANGED ast

Generate == GenNext /\ UNCHANGED <<ast, given>>

Ended == pc \in {"done", "crashed", "abort", "exit"}

Terminated == Ended /\ UNCHANGED vars

Next ==
    \/ Resolve \/ Convert \/ RemoveGroups \/ ExpandNegations \/ UnrollTree \/ MoveTargets
    \/ Generate \/ Terminated

(* One thread and no input after the parser: once it is called, gen.c runs *)
(* until it returns.  (A pass is one step, and needs no fairness to end.)  *)
Spec == CompilerInit /\ [][Next]_vars /\ WF_vars(Generate)

-----------------------------------------------------------------------------
Generating == pc \in {"start", "list", "apply", "applied", "listed", "done", "crashed"}

(* Type invariant: before gen.c runs nothing of it is in use, and the heap *)
(* that every pass leaves is one that gen.c can walk.                      *)
TypeOK ==
    /\ source \in Asts /\ grouping \in BOOLEAN /\ resolving \in BOOLEAN
    /\ ast # <<>> => pc \in {"resolve", "convert"} /\ Len(ast) = Len(source)
    /\ IF Generating THEN GenTypeOK
       ELSE /\ HeapOK(heap) /\ root \in 0..Len(heap)
            /\ stack = <<>> /\ out = <<>> /\ ret = 0

(* The nodes reachable from root.                                          *)
RECURSIVE Closure(_)
Closure(ns) ==
    LET more == ns \union UNION {{heap[i].list, heap[i].child, heap[i].next} : i \in ns \ {NIL}}
    IN  IF more = ns THEN ns ELSE Closure(more)

Reachable == Closure({root}) \ {NIL}

(* filter_unroll: "we ensure that no filter node has more than one path    *)
(* out" -- when gen.c starts there is no negation node left and no sibling *)
(* list is continued by a child: its members are.                          *)
SinglePathOut ==
    pc = "start" => \A i \in Reachable :
        /\ heap[i].type # "NEG"
        /\ heap[i].type = "SIBLINGLIST" => heap[i].child = NIL

(* filter_append is "paranoid about making loops": after any pass, no node *)
(* is reachable from itself, although the passes share tails.              *)
Acyclic ==
    ~Generating \/ pc = "start" =>
        \A i \in Reachable :
            i \notin Closure({heap[i].list, heap[i].child, heap[i].next})

(* The passes neither abort ("corrupt siblist contains child node") nor    *)
(* give up on a program of this family.                                    *)
PassesSucceed == pc \notin {"abort", "exit"}

(* The walk ends, although it follows a graph that the passes rewired.     *)
Terminates == pc = "start" ~> pc \in {"done", "crashed"}

-----------------------------------------------------------------------------
(* The calls the backend got, as tests: from the entry, not from its path. *)
Tests(e) ==
    {[t |-> t, v |-> e.m[t], neg |-> t \in e.neg] :
        t \in {u \in FieldType : e.m[u] # NULL \/ (u = "LOG" /\ u \in e.set)}}

CallSeen(e) ==
    IF e.k = "group"
    THEN [k |-> "group", group |-> e.group, dir |-> NULL, lits |-> {}]
    ELSE [k |-> "rule", group |-> e.group, dir |-> e.ctx.ent.dir,
          lits |-> {l \in Tests(e.ctx.ent) : l.v # "F_SUBGROUP"}]

Outcome == CASE pc = "done" /\ ret < 0  -> "error"
             [] pc = "done"             -> "ok"
             [] pc \in {"crashed", "abort", "exit"} -> "dead"
             [] OTHER                   -> "running"

Pol == INSTANCE Policy WITH
    sent    <- [i \in DOMAIN out |-> CallSeen(out[i])],
    outcome <- Outcome,
    BackendRefuses <- \E r \in RuleResults : r < 0

(* The compiler implements the policy: whatever sharing the passes create, *)
(* the backend receives the rules of the source, in source order.          *)
ImplementsPolicy == Pol!Spec

-----------------------------------------------------------------------------
(* What the filtergen backend has words for: no negation, no log message,  *)
(* neither local nor forward, and no address translation.                  *)
HasWords(l) ==
    /\ ~l.neg /\ l.t # "ROUTINGTYPE"
    /\ l.t = "LOG" => l.v = NULL
    /\ l.t = "TARGET" => l.v \in {"ACCEPT", "DROP", "REJECT"}

Reprinted == [i \in DOMAIN out |-> out_filtergen_rule(out[i].ctx.ent)]

(* emit.c prints a program "in the filtergen language": where it has the   *)
(* words, what is printed stands for the rules of the source, in their     *)
(* order, although names, lists, compounds and groups are gone.            *)
ReprintsProgram ==
    pc = "done" /\ ret >= 0 /\ ~grouping =>
        LET again == Meaning(Reprinted, FALSE, resolving)
        IN  \A i \in DOMAIN policy :
                (\A l \in AsCall(policy[i]).lits : HasWords(l)) =>
                    AsCall(again[i]) = AsCall(policy[i])

-----------------------------------------------------------------------------
(* filter_syntax.5: "the elements of the rule can be placed in any order": *)
(* a compilation that succeeds has handed over every rule of the source.   *)
EveryRuleCompiled == pc = "done" /\ ret >= 0 => Len(out) = Len(policy)

(* filter_syntax.5, MATCHES: they "apply a set of tests to a packet and    *)
(* decide if this rule will be used to process it".  A compilation that    *)
(* succeeds hands over each rule with the tests that are written, and with *)
(* a name for each of its addresses.                                       *)
TestsKept ==
    pc = "done" /\ ret >= 0 =>
        \A i \in DOMAIN out \intersect DOMAIN policy : CallSeen(out[i]) = AsCall(policy[i])
=============================================================================
