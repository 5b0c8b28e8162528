----------------------------- MODULE LoadProofs -----------------------------
(***************************************************************************)
(* Proofs about the load, for all programs, all rules in force before it   *)
(* and every capacity of the pipe.  The inductive invariant is LoadInv.    *)
(*                                                                         *)
(* First the kernel: a harmless command keeps what is over, and a step it  *)
(* takes is over afterwards.  Then the writer: what it writes is harmless, *)
(* and the skeleton takes every step before it needs it.  Then the pipe.   *)
(***************************************************************************)
EXTENDS Load, FirewallProofs

Safe == { cmd \in Command : Harmless(cmd) }

-----------------------------------------------------------------------------
(* A step that is over stays over, ...                                     *)
LEMMA StepStays ==
    ASSUME NEW k, IsKernel(k), NEW cmd \in Safe, NEW step \in Step, Over(k, step)
    PROVE  Over(After(k, cmd), step)
  <1> SUFFICES ASSUME Accepted(k, cmd)
               PROVE  Over(Obeyed(k, cmd), step)
    BY DEF After
  <1> DEFINE o == Obeyed(k, cmd)
  <1>0. /\ k = [policy |-> k.policy, rules |-> k.rules]
        /\ k.policy \in [Builtin -> Verdict]
        /\ k.rules \in [DOMAIN k.rules -> Seq(Rule)]
        /\ cmd \in Command /\ Harmless(cmd)
    BY DEF IsKernel, Exists, Safe
  <1>1. CASE step # "flush"
    <2>1. step \in Builtin /\ k.policy[step] = "DROP"
      BY <1>1 DEF Step, Over
    <2>2. o.policy[step] = "DROP"
      BY <1>0, <2>1 DEF Obeyed, Harmless, Base, Command
    <2> QED
      BY <1>1, <2>2 DEF Over
  <1>2. CASE step = "flush"
    <2>1. NoneAccepts(k, "FORWARD")
      BY <1>2 DEF Over
    <2> SUFFICES ASSUME NEW c \in DOMAIN o.rules, c.base = "FORWARD",
                        NEW i \in 1..Len(o.rules[c])
                 PROVE  o.rules[c][i].jump # Base("ACCEPT")
      BY <1>2 DEF Over, NoneAccepts, Exists
    <2>2. CASE cmd.op = "-P"
      BY <1>0, <2>1, <2>2 DEF Obeyed, NoneAccepts, Exists
    <2>3. CASE cmd.op = "-F"
      BY <1>0, <2>1, <2>3, EmptySeq DEF Obeyed, NoneAccepts, Exists
    <2>4. CASE cmd.op = "-X"
      BY <1>0, <2>1, <2>4 DEF Obeyed, NoneAccepts, Exists
    <2>5. CASE cmd.op = "-N"
      BY <1>0, <2>1, <2>5, EmptySeq DEF Obeyed, NoneAccepts, Exists
    <2>6. CASE cmd.op \in {"-A", "-I"}
      <3>1. /\ cmd.rule \in Rule /\ cmd.chain \in DOMAIN k.rules
            /\ k.rules[cmd.chain] \in Seq(Rule)
        BY <1>0, <2>6 DEF Command, Accepted, Exists
      <3>2. c \in DOMAIN k.rules /\ k.rules[c] \in Seq(Rule)
        BY <1>0, <2>6 DEF Obeyed
      <3>3. c # cmd.chain => o.rules[c] = k.rules[c]
        BY <1>0, <2>6, <3>1 DEF Obeyed
      <3>4. c = cmd.chain => cmd.rule.jump # Base("ACCEPT")
        BY <1>0, <2>6 DEF Harmless
      <3>5. c = cmd.chain =>
              \/ o.rules[c] = Append(k.rules[c], cmd.rule)
              \/ o.rules[c] = <<cmd.rule>> \o k.rules[c]
        BY <1>0, <2>6, <3>1 DEF Obeyed
      <3>6. \/ o.rules[c][i] = cmd.rule /\ c = cmd.chain
            \/ \E j \in 1..Len(k.rules[c]) : o.rules[c][i] = k.rules[c][j]
        <4>1. CASE c # cmd.chain
          BY <3>3, <4>1
        <4>2. CASE o.rules[c] = Append(k.rules[c], cmd.rule)
          BY <3>1, <3>2, <3>3, <4>2
        <4>3. CASE o.rules[c] = <<cmd.rule>> \o k.rules[c]
          <5> HIDE DEF o
          <5>1. <<cmd.rule>> \in Seq(Rule) /\ Len(<<cmd.rule>>) = 1 /\ <<cmd.rule>>[1] = cmd.rule
            BY <3>1
          <5>2. /\ Len(o.rules[c]) = 1 + Len(k.rules[c])
                /\ \A j \in 1..(1 + Len(k.rules[c])) :
                     o.rules[c][j] = IF j <= 1 THEN <<cmd.rule>>[j] ELSE k.rules[c][j - 1]
            BY <3>2, <4>3, <5>1, ConcatProperties
          <5>3. Len(k.rules[c]) \in Nat
            BY <3>2, LenProperties
          <5>4. i = 1 \/ (i - 1 \in 1..Len(k.rules[c]) /\ o.rules[c][i] = k.rules[c][i - 1])
            BY <5>2, <5>3
          <5> QED
            BY <3>3, <5>1, <5>2, <5>3, <5>4
        <4> QED
          BY <3>5, <4>1, <4>2, <4>3
      <3> QED
        BY <2>1, <3>2, <3>4, <3>6 DEF NoneAccepts, Exists
    <2> QED
      BY <1>0, <2>2, <2>3, <2>4, <2>5, <2>6 DEF Command
  <1> QED
    BY <1>1, <1>2

(* ... and a command that takes a step completes it.                       *)
LEMMA StepTaken ==
    ASSUME NEW k, IsKernel(k), NEW cmd \in Safe, NEW step \in Step, Takes(cmd, step)
    PROVE  Over(After(k, cmd), step)
  <1>0. /\ k = [policy |-> k.policy, rules |-> k.rules]
        /\ k.policy \in [Builtin -> Verdict]
        /\ DOMAIN k.rules \subseteq Chain
        /\ cmd \in Command /\ Harmless(cmd)
    BY DEF IsKernel, Exists, Safe
  <1>1. CASE step # "flush"
    <2>1. step \in Builtin /\ cmd.op = "-P" /\ cmd.chain = Base(step) /\ cmd.jump = Base("DROP")
      BY <1>0, <1>1 DEF Step, Takes, Harmless
    <2>2. Accepted(k, cmd) /\ cmd.chain.base = step /\ cmd.jump.base = "DROP"
      BY <2>1 DEF Accepted, Base
    <2>3. After(k, cmd).policy = [k.policy EXCEPT ![step] = "DROP"]
      BY <1>0, <2>1, <2>2 DEF After, Obeyed
    <2> QED
      BY <1>0, <1>1, <2>1, <2>3 DEF Over
  <1>2. CASE step = "flush"
    <2>1. cmd.op = "-F" /\ cmd.table = "filter"
      BY <1>2 DEF Takes
    <2>2. After(k, cmd).rules = [c \in Exists(k) |->
                                    IF Table(c) = "filter" THEN <<>> ELSE k.rules[c]]
      BY <1>0, <2>1 DEF After, Accepted, Obeyed
    <2>3. \A c : c.base = "FORWARD" => Table(c) = "filter"
      BY DEF Table, NatBase
    <2>4. Len(<<>>) = 0
      BY EmptySeq
    <2> QED
      BY <1>2, <2>2, <2>3, <2>4 DEF Over, NoneAccepts, Exists
  <1> QED
    BY <1>1, <1>2

(* A command that needs nothing leaves the rules alone.                    *)
LEMMA OnlyPolicy ==
    ASSUME NEW k, IsKernel(k), NEW cmd \in Command, Needs(cmd) = {}
    PROVE  After(k, cmd).rules = k.rules
  <1>1. cmd.op = "-P"
    BY DEF Needs, Command, Step, Builtin
  <1> QED
    BY <1>1 DEF After, Obeyed, IsKernel
-----------------------------------------------------------------------------
(* One rule put into a chain.                                              *)
LEMMA PutSafe ==
    ASSUME NEW op \in {"-A", "-I"}, NEW chain \in Chain, NEW tests \in SUBSET Test,
           NEW jump \in Jump, chain.base = "FORWARD" => jump # Base("ACCEPT")
    PROVE  Put(op, chain, tests, jump) \in Seq(Safe)
  <1> DEFINE cmd == [op |-> op, chain |-> chain, rule |-> [tests |-> tests, jump |-> jump]]
  <1>1. [tests |-> tests, jump |-> jump] \in Rule
    BY DEF Rule
  <1>2. cmd \in Command
    BY <1>1 DEF Command
  <1>3. Harmless(cmd)
    BY DEF Harmless
  <1>4. cmd \in Safe
    BY <1>2, <1>3 DEF Safe
  <1> HIDE DEF cmd
  <1>5. <<cmd>> \in Seq(Safe)
    BY <1>4
  <1> QED
    BY <1>5 DEF Put, cmd

(* Safe commands, some of which depend on a condition,                     *)
LEMMA IfSafe ==
    ASSUME NEW condition, NEW s, condition => s \in Seq(Safe)
    PROVE  If(condition, s) \in Seq(Safe)
  BY EmptySeq DEF If

(* and one after the other.                                                *)
LEMMA ConcatSafe ==
    ASSUME NEW s \in Seq(Safe), NEW t \in Seq(Safe)
    PROVE  s \o t \in Seq(Safe)
  BY ConcatProperties

(* What a rule that is not refused writes: a chain for packets on their    *)
(* way in never gets a rule that accepts.                                  *)
LEMMA RuleSafe ==
    ASSUME NEW ent \in Ent, NEW f \in Family, ~Refused(ent, f)
    PROVE  RuleCommands(ent) \in Seq(Safe)
  <1>1. /\ ent.dir \in {"INPUT", "OUTPUT"} /\ Opposite(ent.dir) \in {"INPUT", "OUTPUT"}
        /\ {ent.dir, Opposite(ent.dir), Forwarding(ent.dir), Forwarding(Opposite(ent.dir))}
               \subseteq GroupBase
        /\ {Forwarding(ent.dir), Forwarding(Opposite(ent.dir))} \subseteq {"FORWARD", "FORW_OUT"}
        /\ NatChain(ent.dir) \in NatBase
        /\ \A b \in GroupBase \union NatBase :
               SubChain(ent, b) \in Chain /\ SubChain(ent, b).base = b
        /\ \A b \in FilterBase : Base(b) \in Chain /\ Base(b).base = b
        /\ RuleTests(ent) \in SUBSET Test /\ NatTests(ent) \in SUBSET Test
        /\ ReturnTests(ent) \in SUBSET Test
        /\ NatTarget(ent) \in Jump
        /\ Base("LOG") \in Jump /\ Base("LOG") # Base("ACCEPT")
    BY RuleParts
  <1>2. /\ RuleTarget(ent) \in Jump /\ ReturnTarget(ent) \in Jump
        /\ ForwardTarget(ent) \in Jump /\ ForwardReturnTarget(ent) \in Jump
        /\ Forwarding(ent.dir) = "FORWARD" => ForwardTarget(ent) # Base("ACCEPT")
        /\ Forwarding(Opposite(ent.dir)) = "FORWARD" => ForwardReturnTarget(ent) # Base("ACCEPT")
    BY RuleParts DEF Aims
  <1>3. GroupBase \subseteq FilterBase /\ "FORWARD" \notin NatBase
    BY DEF GroupBase, FilterBase, Builtin, NatBase
  <1>4. LogCommands(ent) \in Seq(Safe)
    <2>1. /\ Put("-A", Base(ent.dir), RuleTests(ent), Base("LOG")) \in Seq(Safe)
          /\ Put("-A", Base(Forwarding(ent.dir)), RuleTests(ent), Base("LOG")) \in Seq(Safe)
      BY <1>1, <1>3, PutSafe
    <2> QED
      BY <2>1, IfSafe, ConcatSafe DEF LogCommands
  <1>5. Put("-A", SubChain(ent, NatChain(ent.dir)), NatTests(ent), NatTarget(ent)) \in Seq(Safe)
    BY <1>1, <1>3, PutSafe
  <1>6. Put("-A", SubChain(ent, ent.dir), RuleTests(ent), RuleTarget(ent)) \in Seq(Safe)
    BY <1>1, <1>2, PutSafe
  <1>7. Put("-I", SubChain(ent, Opposite(ent.dir)), ReturnTests(ent), ReturnTarget(ent)) \in Seq(Safe)
    BY <1>1, <1>2, PutSafe
  <1>8. Put("-A", SubChain(ent, Forwarding(ent.dir)), RuleTests(ent), ForwardTarget(ent)) \in Seq(Safe)
    BY <1>1, <1>2, PutSafe
  <1>9. Put("-I", SubChain(ent, Forwarding(Opposite(ent.dir))), ReturnTests(ent),
            ForwardReturnTarget(ent)) \in Seq(Safe)
    BY <1>1, <1>2, PutSafe
  <1> QED
    BY <1>4, <1>5, <1>6, <1>7, <1>8, <1>9, IfSafe, ConcatSafe DEF RuleCommands

(* Chains for a group: nothing accepts.                                    *)
LEMMA GroupSafe ==
    ASSUME NEW name \in Group
    PROVE  GroupCommands(name) \in Seq(Safe)
  <1> DEFINE bases == <<"INPUT", "OUTPUT", "FORWARD", "FORW_OUT">>
  <1>1. ASSUME NEW i \in 1..4
        PROVE  NewChain([group |-> name, base |-> bases[i]]) \in Safe
    <2>1. bases[i] \in FilterBase
      BY DEF FilterBase, Builtin
    <2> HIDE DEF bases
    <2> QED
      BY <2>1 DEF NewChain, Safe, Harmless, Command, Chain
  <1> QED
    BY <1>1, SeqDef DEF GroupCommands

-----------------------------------------------------------------------------
(* The skeleton sets the policies, then flushes, and what follows does not *)
(* come before.                                                            *)
Closes(s) ==
    /\ s \in Seq(Safe)
    /\ Len(s) >= 4
    /\ \A b \in Builtin : \E i \in 1..3 : s[i].op = "-P" /\ s[i].chain = Base(b)
    /\ \A i \in 1..3 : s[i].op = "-P"
    /\ s[4].op = "-F" /\ s[4].table = "filter"

(* What closes at its beginning may go on with anything safe.              *)
LEMMA ClosesFirst ==
    ASSUME NEW s, Closes(s), NEW t \in Seq(Safe)
    PROVE  Closes(s \o t)
  <1>1. /\ s \o t \in Seq(Safe)
        /\ Len(s \o t) = Len(s) + Len(t)
        /\ \A i \in 1 .. Len(s) + Len(t) : (s \o t)[i] = IF i <= Len(s) THEN s[i] ELSE t[i - Len(s)]
    BY ConcatProperties DEF Closes
  <1>2. Len(s) \in Nat /\ Len(t) \in Nat /\ Len(s) >= 4
    BY LenProperties DEF Closes
  <1>3. \A i \in 1..4 : (s \o t)[i] = s[i]
    BY <1>1, <1>2
  <1> QED
    BY <1>1, <1>2, <1>3 DEF Closes

(* The flush of a load begins with the policies,                           *)
LEMMA FlushCloses ==
    ASSUME NEW f \in Family
    PROVE  Closes(FlushCommands("DROP", f))
  <1> DEFINE p == SetPolicy("DROP")
             q == FlushTable("filter")
  <1>1. \A i \in 1..3 : /\ p[i] \in Safe /\ p[i].op = "-P"
                        /\ p[i].chain = Base(Chains[i])
    <2>1. ASSUME NEW i \in 1..3
          PROVE  /\ p[i] \in Safe /\ p[i].op = "-P"
                 /\ p[i].chain = Base(Chains[i])
      <3>1. Chains[i] \in Builtin
        BY DEF Chains, Builtin
      <3>2. Base("DROP") \in Jump
        BY DEF Base, Jump, Group, Verdict
      <3>3. p[i] = [op |-> "-P", chain |-> Base(Chains[i]), jump |-> Base("DROP")]
        BY DEF SetPolicy
      <3>4. p[i] \in Command /\ Harmless(p[i])
        BY <3>1, <3>2, <3>3 DEF Command, Harmless
      <3> QED
        BY <3>3, <3>4 DEF Safe
    <2> QED
      BY <2>1
  <1>2. p \in Seq(Safe) /\ Len(p) = 3
    BY <1>1, SeqDef DEF SetPolicy
  <1>3. /\ \A table \in {"filter", "nat"} : FlushTable(table) \in Seq(Safe)
        /\ q \in Seq(Safe) /\ Len(q) = 2 /\ q[1] = [op |-> "-F", table |-> "filter"]
    BY DEF FlushTable, Safe, Command, Harmless
  <1>4. \A b \in Builtin : \E i \in 1..3 : Chains[i] = b
    BY DEF Chains, Builtin
  <1> HIDE DEF p, q
  <1>5. /\ p \o q \in Seq(Safe) /\ Len(p \o q) = 5
        /\ \A i \in 1..5 : (p \o q)[i] = IF i <= 3 THEN p[i] ELSE q[i - 3]
    <2>1. /\ p \o q \in Seq(Safe) /\ Len(p \o q) = Len(p) + Len(q)
          /\ \A i \in 1..(Len(p) + Len(q)) : (p \o q)[i] = IF i <= Len(p) THEN p[i] ELSE q[i - Len(p)]
      BY <1>2, <1>3, ConcatProperties
    <2>2. Len(p) = 3 /\ Len(q) = 2 /\ 3 + 2 = 5
      BY <1>2, <1>3
    <2> QED
      BY <2>1, <2>2
  <1>6. Closes(p \o q)
    <2>1. (p \o q)[4] = q[1] /\ \A i \in 1..3 : (p \o q)[i] = p[i]
      BY <1>5
    <2>2. \A b \in Builtin : \E i \in 1..3 :
            (p \o q)[i].op = "-P" /\ (p \o q)[i].chain = Base(b)
      <3> TAKE b \in Builtin
      <3>1. PICK i \in 1..3 : Chains[i] = b
        BY <1>4
      <3>2. (p \o q)[i].op = "-P" /\ (p \o q)[i].chain = Base(Chains[i])
        BY <1>1, <2>1
      <3> QED
        BY <3>1, <3>2
    <2>3. \A i \in 1..3 : (p \o q)[i].op = "-P"
      BY <1>1, <2>1
    <2>4. (p \o q)[4].op = "-F" /\ (p \o q)[4].table = "filter"
      BY <1>3, <2>1
    <2> QED
      BY <1>5, <2>2, <2>3, <2>4 DEF Closes
  <1>7. If(f = "AF_INET", FlushTable("nat")) \in Seq(Safe)
    BY <1>3, IfSafe
  <1> QED
    BY <1>6, <1>7, ClosesFirst DEF FlushCommands, p, q

(* and so does the skeleton.                                               *)
LEMMA SkeletonCloses ==
    ASSUME NEW f \in Family
    PROVE  Closes(Skeleton(f))
  <1>1. << NewChain(Base("FORW_OUT")), NewChain(Base("INVALID")) >> \in Seq(Safe)
    BY DEF NewChain, Base, Safe, Harmless, Command, Chain, FilterBase, Group
  <1>2. \A b \in FilterBase : Base(b) \in Chain /\ Base(b) \in Jump /\ Base(b).base = b
    BY DEF Base, Chain, Jump, Group
  <1>3. Base("DROP") \in Jump /\ \A x, y : Base(x) = Base(y) => x = y
    BY DEF Base, Jump, Group, Verdict
  <1>4. {"INPUT", "OUTPUT", "FORWARD", "INVALID"} \subseteq FilterBase
    BY DEF FilterBase, Builtin
  <1>5. InvalidTests \in SUBSET Test /\ {} \in SUBSET Test
    BY DEF InvalidTests, Only, Test, Flag, State
  <1>6. Put("-A", Base("INVALID"), {}, Base("DROP")) \in Seq(Safe)
    BY <1>2, <1>3, <1>4, <1>5, PutSafe
  <1>7. \A b \in {"INPUT", "OUTPUT", "FORWARD"} :
          Put("-I", Base(b), InvalidTests, Base("INVALID")) \in Seq(Safe)
    BY <1>2, <1>3, <1>4, <1>5, PutSafe
  <1> QED
    BY <1>1, <1>6, <1>7, FlushCloses, ClosesFirst DEF Skeleton
-----------------------------------------------------------------------------
(* The calls still to be made are calls of the program.                    *)
LEMMA NextCall ==
    ASSUME TypeOK, todo # <<>>
    PROVE  /\ Head(todo) \in Call
           /\ \E n \in 0..Len(program) : Tail(todo) = SubSeq(program, n + 1, Len(program))
  <1> DEFINE l == Len(program)
  <1>1. program \in Seq(Call) /\ l \in Nat
    BY LoadAssumption, LenProperties DEF TypeOK
  <1>2. PICK n \in 0..l : todo = SubSeq(program, n + 1, l)
    BY DEF TypeOK
  <1>3. n \in Nat /\ n + 1 \in 1..(l + 1)
    BY <1>1
  <1>4. n < l
    <2>1. n = l => SubSeq(program, n + 1, l) = <<>>
      BY <1>1, SubSeqEmpty
    <2> QED
      BY <1>1, <1>2, <1>3, <2>1
  <1> HIDE DEF l
  <1>5. n + 1 \in 1..l /\ \A i \in (n + 1)..l : program[i] \in Call
    BY <1>1, <1>3, <1>4 DEF l
  <1>6. Head(todo) = program[n + 1] /\ Tail(todo) = SubSeq(program, n + 2, l)
    BY <1>1, <1>2, <1>3, <1>4, <1>5, HeadTailOfSubSeq
  <1>7. n + 2 = (n + 1) + 1 /\ n + 1 \in 0..l /\ n + 1 \in (n + 1)..l
    BY <1>1, <1>3, <1>4
  <1> QED
    BY <1>5, <1>6, <1>7 DEF l

(* What is written goes to the end of the pipe.                            *)
LEMMA PipeGrows ==
    ASSUME LoadInv, NEW s \in Seq(Safe), pipe' = pipe \o s, UNCHANGED kernel,
           \A i \in 1..Len(s) : \A step \in Needs(s[i]) :
               \/ Over(kernel, step)
               \/ \E j \in 1..Len(pipe) : Takes(pipe[j], step)
               \/ \E j \in 1..Len(s) : j < i /\ Takes(s[j], step)
    PROVE  /\ pipe' \in Seq(Command)
           /\ \A i \in 1..Len(pipe') : Harmless(pipe'[i])
           /\ InOrder'
           /\ \A step : (\E j \in 1..Len(pipe) : Takes(pipe[j], step))
                            => \E j \in 1..Len(pipe') : Takes(pipe'[j], step)
  <1>1. pipe \in Seq(Command) /\ s \in Seq(Command) /\ \A i \in 1..Len(s) : Harmless(s[i])
    BY DEF LoadInv, TypeOK, Safe
  <1> DEFINE m == Len(pipe)
  <1>2. /\ pipe' \in Seq(Command) /\ m \in Nat /\ Len(s) \in Nat /\ Len(pipe') = m + Len(s)
        /\ \A i \in 1..(m + Len(s)) : pipe'[i] = IF i <= m THEN pipe[i] ELSE s[i - m]
    BY <1>1, ConcatProperties, LenProperties
  <1>3. /\ \A i \in 1..m : i \in 1..Len(pipe') /\ pipe'[i] = pipe[i]
        /\ \A i \in 1..Len(s) : m + i \in 1..Len(pipe') /\ pipe'[m + i] = s[i]
        /\ \A i \in 1..Len(pipe') : i \in 1..m \/ (i > m /\ i - m \in 1..Len(s) /\ pipe'[i] = s[i - m])
    BY <1>2
  <1>4. \A i \in 1..Len(pipe') : Harmless(pipe'[i])
    BY <1>1, <1>3 DEF LoadInv
  <1>5. ASSUME NEW i \in 1..Len(pipe'), NEW step \in Needs(pipe'[i])
        PROVE  Over(kernel, step) \/ \E j \in 1..Len(pipe') : j < i /\ Takes(pipe'[j], step)
    <2>1. CASE i \in 1..m
      BY <1>3, <1>5, <2>1 DEF LoadInv, InOrder
    <2>2. CASE i > m /\ i - m \in 1..Len(s) /\ pipe'[i] = s[i - m]
      <3>1. \/ Over(kernel, step)
            \/ \E j \in 1..m : Takes(pipe[j], step)
            \/ \E j \in 1..Len(s) : j < i - m /\ Takes(s[j], step)
        BY <1>5, <2>2
      <3>2. ASSUME NEW j \in 1..m, Takes(pipe[j], step)
            PROVE  j \in 1..Len(pipe') /\ j < i /\ Takes(pipe'[j], step)
        BY <1>2, <1>3, <2>2, <3>2
      <3>3. ASSUME NEW j \in 1..Len(s), j < i - m, Takes(s[j], step)
            PROVE  m + j \in 1..Len(pipe') /\ m + j < i /\ Takes(pipe'[m + j], step)
        BY <1>2, <1>3, <2>2, <3>3
      <3> QED
        BY <3>1, <3>2, <3>3
    <2> QED
      BY <1>3, <2>1, <2>2
  <1>6. InOrder'
    BY <1>5 DEF InOrder
  <1> QED
    BY <1>2, <1>3, <1>4, <1>6

(* While rules are being written, whatever a command needs is over or      *)
(* ahead of it.                                                            *)
LEMMA RulesWritten ==
    ASSUME LoadInv, writer = "rules", NEW s \in Seq(Safe), pipe' = pipe \o s,
           UNCHANGED <<kernel, writer>>
    PROVE  /\ pipe' \in Seq(Command)
           /\ \A i \in 1..Len(pipe') : Harmless(pipe'[i])
           /\ InOrder' /\ Prepared'
  <1>1. \A step \in Step : Over(kernel, step) \/ \E j \in 1..Len(pipe) : Takes(pipe[j], step)
    BY DEF LoadInv, Prepared
  <1>2. \A i \in 1..Len(s) : Needs(s[i]) \subseteq Step
    BY DEF Needs, Step
  <1>3. /\ pipe' \in Seq(Command)
        /\ \A i \in 1..Len(pipe') : Harmless(pipe'[i])
        /\ InOrder'
        /\ \A step : (\E j \in 1..Len(pipe) : Takes(pipe[j], step))
                         => \E j \in 1..Len(pipe') : Takes(pipe'[j], step)
    BY <1>1, <1>2, PipeGrows
  <1>4. Prepared'
    BY <1>1, <1>3 DEF Prepared
  <1> QED
    BY <1>3, <1>4

(* The skeleton is written into an empty pipe.                             *)
LEMMA SkeletonWritten ==
    ASSUME LoadInv, WriteSkeleton
    PROVE  /\ pipe' \in Seq(Command)
           /\ \A i \in 1..Len(pipe') : Harmless(pipe'[i])
           /\ InOrder' /\ Prepared'
  <1> DEFINE s == Skeleton(family)
  <1>1. pipe = <<>> /\ pipe' = pipe \o s /\ UNCHANGED kernel /\ writer' = "rules"
    BY DEF LoadInv, Prepared, WriteSkeleton, Write
  <1>2. Closes(s)
    BY SkeletonCloses DEF LoadInv, TypeOK
  <1> HIDE DEF s
  <1>3. s \in Seq(Safe) /\ Len(s) \in Nat /\ Len(s) >= 4 /\ pipe' = s
    BY <1>1, <1>2, LenProperties, ConcatEmptySeq DEF Closes
  <1>4. \A step \in Step : \E j \in 1..4 :
          Takes(s[j], step) /\ (step # "flush" => j < 4)
    <2>1. Takes(s[4], "flush")
      BY <1>2 DEF Closes, Takes
    <2>2. ASSUME NEW b \in Builtin
          PROVE  b # "flush" /\ \E j \in 1..3 : Takes(s[j], b)
      BY <1>2 DEF Closes, Takes, Builtin
    <2> QED
      BY <2>1, <2>2 DEF Step
  <1>5. ASSUME NEW i \in 1..Len(s), NEW step \in Needs(s[i])
        PROVE  \E j \in 1..Len(s) : j < i /\ Takes(s[j], step)
    <2>1. step \in Step
      BY <1>5 DEF Needs, Step
    <2>2. i >= 4
      BY <1>2, <1>3, <1>5 DEF Closes, Needs
    <2>3. i = 4 => step # "flush"
      BY <1>2, <1>5 DEF Closes, Needs, Builtin
    <2>4. PICK j \in 1..4 : Takes(s[j], step) /\ (step # "flush" => j < 4)
      BY <1>4, <2>1
    <2> QED
      BY <1>3, <2>2, <2>3, <2>4
  <1>6. \A i \in 1..Len(s) : \A step \in Needs(s[i]) :
               \/ Over(kernel, step)
               \/ \E j \in 1..Len(pipe) : Takes(pipe[j], step)
               \/ \E j \in 1..Len(s) : j < i /\ Takes(s[j], step)
    BY <1>5
  <1>7. /\ pipe' \in Seq(Command)
        /\ \A i \in 1..Len(pipe') : Harmless(pipe'[i])
        /\ InOrder'
    BY <1>1, <1>3, <1>6, PipeGrows
  <1>8. \A step \in Step : \E j \in 1..Len(pipe') : Takes(pipe'[j], step)
    BY <1>3, <1>4
  <1> QED
    BY <1>1, <1>7, <1>8 DEF Prepared
(* What the four steps amount to.                                          *)
LEMMA ClosedIsOver ==
    ASSUME NEW k
    PROVE  /\ Closed(k) <=> \A b \in Builtin : Over(k, b)
           /\ NoneAccepts(k, "FORWARD") <=> Over(k, "flush")
           /\ Builtin \subseteq Step /\ "flush" \in Step
  BY DEF Closed, Over, Builtin, Step

(* A command needs nothing, the policies, or every step.                   *)
LEMMA NeedsCases ==
    ASSUME NEW cmd \in Command
    PROVE  \/ Needs(cmd) = {}
           \/ Needs(cmd) = Builtin /\ Takes(cmd, "flush")
           \/ Needs(cmd) = Step
  BY DEF Needs, Command, Takes

(* The shell executes the first command of the pipe.                       *)
LEMMA Executed ==
    ASSUME LoadInv, Execute
    PROVE  LoadInv'
  <1> DEFINE cmd == Head(pipe)
             m == Len(pipe)
  <1>1. /\ pipe \in Seq(Command) /\ pipe # <<>> /\ IsKernel(kernel)
        /\ refused \subseteq Command
    BY DEF LoadInv, TypeOK, Execute
  <1>2. /\ pipe' = Tail(pipe) /\ kernel' = After(kernel, cmd)
        /\ refused' \in {refused, refused \union {cmd}}
        /\ UNCHANGED <<program, family, old, todo, writer, shell>>
    BY DEF Execute, constants
  <1>3. /\ m \in Nat /\ m >= 1 /\ cmd \in Command /\ cmd = pipe[1] /\ 1 \in 1..m
        /\ pipe' \in Seq(Command) /\ Len(pipe') = m - 1
        /\ \A i \in 1..Len(pipe') : i + 1 \in 1..m /\ pipe'[i] = pipe[i + 1]
    <2>1. m \in Nat /\ m >= 1
      BY <1>1, EmptySeq
    <2>2. /\ Head(pipe) \in Command /\ Tail(pipe) \in Seq(Command)
          /\ Len(Tail(pipe)) = Len(pipe) - 1
          /\ \A i \in 1..Len(Tail(pipe)) : Tail(pipe)[i] = pipe[i + 1]
      BY <1>1, HeadTailProperties
    <2>3. Head(pipe) = pipe[1]
      BY <1>1
    <2> QED
      BY <1>2, <2>1, <2>2, <2>3
  <1> HIDE DEF cmd
  <1>4. cmd \in Safe
    BY <1>3 DEF LoadInv, Safe
  <1>5. \A step \in Step : Over(kernel, step) => Over(kernel', step)
    BY <1>1, <1>2, <1>4, StepStays
  <1>6. \A step \in Step : Takes(cmd, step) => Over(kernel', step)
    BY <1>1, <1>2, <1>4, StepTaken
  <1>7. \A step \in Needs(cmd) : Over(kernel, step)
    BY <1>3 DEF LoadInv, InOrder
  <1>8. TypeOK'
    <2>1. IsKernel(kernel')
      BY <1>1, <1>2, <1>3, AfterIsKernel DEF Line
    <2>2. refused' \subseteq Command
      BY <1>1, <1>2, <1>3
    <2> QED
      BY <1>2, <1>3, <2>1, <2>2 DEF LoadInv, TypeOK
  <1>9. Needs(cmd) = {} => kernel'.rules = kernel.rules
    BY <1>1, <1>2, <1>3, OnlyPolicy
  <1>10. NeverOpen' /\ BothSides'
    <2>1. CASE Needs(cmd) = {}
      <3>1. Closed(kernel) => Closed(kernel')
        BY <1>5, ClosedIsOver
      <3>2. NoneAccepts(kernel, "FORWARD") => NoneAccepts(kernel', "FORWARD")
        BY <1>5, ClosedIsOver
      <3> QED
        BY <1>2, <1>9, <2>1, <3>1, <3>2 DEF LoadInv, NeverOpen, BothSides
    <2>2. CASE Needs(cmd) # {}
      <3>1. \A b \in Builtin : Over(kernel', b)
        BY <1>3, <1>5, <1>7, <2>2, NeedsCases, ClosedIsOver
      <3>2. Over(kernel', "flush")
        BY <1>3, <1>5, <1>6, <1>7, <2>2, NeedsCases, ClosedIsOver
      <3> QED
        BY <3>1, <3>2, ClosedIsOver DEF NeverOpen, BothSides
    <2> QED
      BY <2>1, <2>2
  <1>11. \A i \in 1..Len(pipe') : Harmless(pipe'[i])
    BY <1>3 DEF LoadInv
  <1>12. InOrder'
    <2> SUFFICES ASSUME NEW i \in 1..Len(pipe'), NEW step \in Needs(pipe'[i])
                 PROVE  Over(kernel', step) \/ \E j \in 1..Len(pipe') : j < i /\ Takes(pipe'[j], step)
      BY DEF InOrder
    <2>1. i + 1 \in 1..m /\ pipe'[i] = pipe[i + 1] /\ i \in Nat
      BY <1>3
    <2>2. step \in Step
      BY DEF Needs, Step
    <2>3. Over(kernel, step) \/ \E j \in 1..m : j < i + 1 /\ Takes(pipe[j], step)
      BY <2>1 DEF LoadInv, InOrder
    <2>4. ASSUME NEW j \in 1..m, j < i + 1, Takes(pipe[j], step), j # 1
          PROVE  j - 1 \in 1..Len(pipe') /\ j - 1 < i /\ pipe'[j - 1] = pipe[j]
      BY <1>3, <2>1, <2>4
    <2> QED
      BY <1>3, <1>5, <1>6, <2>2, <2>3, <2>4
  <1>13. Prepared'
    <2>1. writer' # "skeleton"
      BY <1>1, <1>2 DEF LoadInv, Prepared
    <2> SUFFICES ASSUME writer = "rules", NEW step \in Step
                 PROVE  Over(kernel', step) \/ \E j \in 1..Len(pipe') : Takes(pipe'[j], step)
      BY <1>2, <2>1 DEF Prepared
    <2>2. Over(kernel, step) \/ \E j \in 1..m : Takes(pipe[j], step)
      BY DEF LoadInv, Prepared
    <2>3. ASSUME NEW j \in 1..m, Takes(pipe[j], step), j # 1
          PROVE  j - 1 \in 1..Len(pipe') /\ pipe'[j - 1] = pipe[j]
      BY <1>3, <2>3
    <2> QED
      BY <1>3, <1>5, <1>6, <2>2, <2>3
  <1> QED
    BY <1>8, <1>10, <1>11, <1>12, <1>13 DEF LoadInv

(* The writer comes to an end, one way or another.                         *)
LEMMA WriterEnds ==
    ASSUME LoadInv, writer' \in {"done", "failed"}, writer # "done",
           UNCHANGED <<constants, todo, pipe, shell, kernel, refused>>
    PROVE  LoadInv'
  BY DEF LoadInv, TypeOK, NeverOpen, BothSides, InOrder, Prepared, constants

-----------------------------------------------------------------------------
(* For all programs and all rules in force before, however the load is     *)
(* interleaved and whatever is killed (Load).                              *)
THEOREM LoadInvariance == Spec => []LoadInv
  <1>1. ASSUME Init
        PROVE  LoadInv
    <2>1. /\ program \in Programs /\ family \in Family /\ old \in OldRules /\ todo = program
          /\ writer = "skeleton" /\ pipe = <<>> /\ shell = "running" /\ kernel = old /\ refused = {}
      BY <1>1 DEF Init
    <2>2. todo = SubSeq(program, 0 + 1, Len(program)) /\ 0 \in 0..Len(program)
      <3>1. program \in Seq(Call)
        BY <2>1, LoadAssumption
      <3> QED
        BY <2>1, <3>1, SubSeqFull, LenProperties
    <2>3. IsKernel(kernel) /\ pipe \in Seq(Command) /\ Len(pipe) = 0
      BY <2>1, LoadAssumption, EmptySeq
    <2>4. TypeOK
      BY <2>1, <2>2, <2>3 DEF TypeOK
    <2> QED
      BY <2>1, <2>3, <2>4 DEF LoadInv, NeverOpen, BothSides, InOrder, Prepared
  <1>2. ASSUME LoadInv, [Next]_loadVars
        PROVE  LoadInv'
    <2>1. CASE WriteSkeleton
      <3>1. /\ pipe' \in Seq(Command)
            /\ \A i \in 1..Len(pipe') : Harmless(pipe'[i])
            /\ InOrder' /\ Prepared'
        BY <1>2, <2>1, SkeletonWritten
      <3>2. UNCHANGED <<constants, todo, shell, kernel, refused>> /\ writer' = "rules"
        BY <2>1 DEF WriteSkeleton, Write
      <3> QED
        BY <1>2, <3>1, <3>2 DEF LoadInv, TypeOK, NeverOpen, BothSides, constants
    <2>2. CASE WriteGroup \/ WriteRule
      <3>1. /\ writer = "rules" /\ todo # <<>> /\ todo' = Tail(todo)
            /\ UNCHANGED <<constants, writer, shell, kernel, refused>>
        BY <2>2 DEF WriteGroup, WriteRule, Write
      <3>2. Head(todo) \in Call
            /\ \E n \in 0..Len(program) : todo' = SubSeq(program, n + 1, Len(program))
        BY <1>2, <3>1, NextCall DEF LoadInv
      <3>3. PICK s \in Seq(Safe) : pipe' = pipe \o s
        <4>1. CASE WriteGroup
          BY <3>2, <4>1, GroupSafe DEF WriteGroup, Write, Call
        <4>2. CASE WriteRule
          <5>1. Head(todo).ent \in Ent /\ family \in Family /\ ~Refused(Head(todo).ent, family)
            BY <1>2, <3>2, <4>2 DEF Call, LoadInv, TypeOK, WriteRule
          <5> QED
            BY <4>2, <5>1, RuleSafe DEF WriteRule, Write
        <4> QED
          BY <2>2, <4>1, <4>2
      <3>4. /\ pipe' \in Seq(Command)
            /\ \A i \in 1..Len(pipe') : Harmless(pipe'[i])
            /\ InOrder' /\ Prepared'
        BY <1>2, <3>1, <3>3, RulesWritten
      <3>5. TypeOK'
        BY <1>2, <3>1, <3>2, <3>4 DEF LoadInv, TypeOK, constants
      <3> QED
        BY <1>2, <3>1, <3>4, <3>5 DEF LoadInv, NeverOpen, BothSides, constants
    <2>3. CASE RuleRefused \/ Written \/ Interrupted
      BY <1>2, <2>3, WriterEnds DEF RuleRefused, Written, Interrupted
    <2>4. CASE Execute
      BY <1>2, <2>4, Executed
    <2>5. CASE ShellKilled
      BY <1>2, <2>5 DEF ShellKilled, LoadInv, TypeOK, NeverOpen, BothSides, InOrder, Prepared, constants
    <2>6. CASE UNCHANGED loadVars
      BY <1>2, <2>6 DEF loadVars, LoadInv, TypeOK, NeverOpen, BothSides, InOrder, Prepared
    <2> QED
      BY <1>2, <2>1, <2>2, <2>3, <2>4, <2>5, <2>6 DEF Next
  <1> QED
    BY <1>1, <1>2, PTL DEF Spec

(* Whatever is killed, no moment is left without policy: the old rules are *)
(* in force or every builtin chain drops what no rule decides              *)
(* (fg_iptables_common).                                                   *)
THEOREM FailsClosed == Spec => []NeverOpen
  <1>1. LoadInv => NeverOpen
    BY DEF LoadInv
  <1> QED
    BY <1>1, LoadInvariance, PTL

(* Forwarded packets are never accepted on their way in: the rules for     *)
(* output have the last word (cb_iptables_rule_common).                    *)
THEOREM ForwardedPassBoth == Spec => []BothSides
  <1>1. LoadInv => BothSides
    BY DEF LoadInv
  <1> QED
    BY <1>1, LoadInvariance, PTL

(* Only commands of iptables are written, and every state of the load has  *)
(* a kernel in it (Load, Netfilter).                                       *)
THEOREM LoadTypes == Spec => []TypeOK
  <1>1. LoadInv => TypeOK
    BY DEF LoadInv
  <1> QED
    BY <1>1, LoadInvariance, PTL

-----------------------------------------------------------------------------
(***************************************************************************)
(* Nothing is refused.  What the kernel will be when the pipe is empty     *)
(* does not change while the shell executes, so it is enough to know its   *)
(* chains when the writer writes: those of the skeleton and of the groups  *)
(* announced so far.                                                       *)
(***************************************************************************)

Calls == Len(program) - Len(todo)

(* The commands that NothingRefused excuses.                               *)
Excused(calls) ==
    Again(calls)
    \union { c \in Command : \E i \in 1..Len(calls) :
                               calls[i].k = "rule" /\ Homeless(calls[i].ent, c) }

(* The invariant: nothing has been refused that should not have been, none *)
(* of what is in the pipe will be, and the writer has created the chains   *)
(* that it relies on.                                                      *)
RefusalInv ==
    /\ NothingRefused
    /\ AllAccepted(kernel, pipe, Excused(program))
    /\ writer = "skeleton" => Calls = 0
    /\ writer = "rules" => FilterChains(Effect(kernel, pipe)) = Built(program, Calls)

(* Where the calls that are still to be made begin.                        *)
LEMMA CallsMade ==
    ASSUME TypeOK
    PROVE  /\ program \in Seq(Call) /\ Calls \in 0..Len(program)
           /\ todo # <<>> =>
                /\ Calls + 1 \in 1..Len(program)
                /\ Head(todo) = program[Calls + 1] /\ Head(todo) \in Call
                /\ Len(program) - Len(Tail(todo)) = Calls + 1
  <1>1. program \in Seq(Call)
    BY LoadAssumption DEF TypeOK
  <1>2. PICK n \in 0..Len(program) : todo = SubSeq(program, n + 1, Len(program))
    BY DEF TypeOK
  <1>3. /\ Len(program) - Len(todo) = n
        /\ todo # <<>> =>
             /\ n + 1 \in 1..Len(program)
             /\ Head(todo) = program[n + 1] /\ Head(todo) \in Call
             /\ Len(program) - Len(Tail(todo)) = n + 1
    <2> DEFINE S == Call
               t == todo
               s == program
    <2>1. s \in Seq(S) /\ n \in Nat /\ n <= Len(s) /\ t = SubSeq(s, n + 1, Len(s))
      BY <1>1, <1>2
    <2> HIDE DEF S, t, s
    <2>2. Left(S, s, t, n)
      BY <2>1, StillToCome
    <2> QED
      BY <2>2 DEF Left, S, t, s
  <1> QED
    BY <1>1, <1>3 DEF Calls

(* Lines that find the chains they need, written after others.             *)
LEMMA Writes ==
    ASSUME TypeOK, AllAccepted(kernel, pipe, Excused(program)), UNCHANGED <<program, kernel>>,
           NEW s, NEW D, Leads(FilterChains(Effect(kernel, pipe)), s, D, Excused(program)), pipe' = pipe \o s
    PROVE  AllAccepted(kernel, pipe, Excused(program))' /\ FilterChains(Effect(kernel, pipe))' = D
  <1>1. IsKernel(kernel) /\ pipe \in Seq(Line) /\ s \in Seq(Line)
    <2>1. Command \subseteq Line
      BY DEF Line
    <2> QED
      BY <2>1, SeqMonotonic DEF TypeOK, Leads
  <1>2. IsKernel(Effect(kernel, pipe))
    BY <1>1, StageSteps
  <1>3. AllAccepted(Effect(kernel, pipe), s, Excused(program)) /\ FilterChains(Effect(Effect(kernel, pipe), s)) = D
    BY <1>2 DEF Leads
  <1>4. AllAccepted(kernel, pipe \o s, Excused(program)) /\ Effect(kernel, pipe \o s) = Effect(Effect(kernel, pipe), s)
    BY <1>1, <1>3, AcceptedBeyond, StageBeyond
  <1>5. Excused(program)' = Excused(program)
    BY DEF Excused, Again, Twice
  <1> QED
    BY <1>3, <1>4, <1>5

(* A group is announced, or announced again.                               *)
LEMMA RefusalGroup ==
    ASSUME TypeOK, RefusalInv, Grouped(program), WriteGroup
    PROVE  RefusalInv'
  <1> DEFINE n == Calls
             name == program[n + 1].group
             C == Built(program, n)
             D == C \union ChainsOf(name)
  <1>1. /\ program \in Seq(Call) /\ n \in 0..Len(program) /\ n + 1 \in 1..Len(program)
        /\ Head(todo) = program[n + 1] /\ Len(program) - Len(Tail(todo)) = n + 1
    BY CallsMade DEF WriteGroup
  <1>2. /\ program[n + 1].k = "group" /\ pipe' = pipe \o GroupCommands(name)
        /\ UNCHANGED <<program, kernel, refused, writer>> /\ todo' = Tail(todo)
    BY <1>1 DEF WriteGroup, Write, constants
  <1>3. name \in Value /\ name \in Group
    <2>1. program[n + 1] \in Call
      BY CallsMade DEF WriteGroup
    <2>2. name # NULL
      BY <1>1, <1>2 DEF Grouped
    <2> QED
      BY <2>1, <2>2 DEF Call, Group
  <1>4. n \in Nat
    BY <1>1
  <1>5. C = FilterChains(Effect(kernel, pipe))
    BY DEF RefusalInv, WriteGroup
  <1>6. \A c \in ChainsOf(name) : c \notin C \/ NewChain(c) \in Excused(program)
    BY <1>1, <1>2, <1>3, <1>4, BuiltOnce DEF Excused
  <1>7. Built(program, Calls)' = D /\ NothingRefused'
    <2>1. Calls' = n + 1
      BY <1>1, <1>2 DEF Calls
    <2>2. Built(program, n + 1) = D
      BY <1>2, <1>4, BuiltNext
    <2>3. \A i : i = Calls' => Built(program, Calls)' = Built(program, i)
      BY <1>2 DEF Built, Announced
    <2>4. NothingRefused'
      BY <1>2 DEF RefusalInv, NothingRefused, Redeclared, Translates
    <2> QED
      BY <2>1, <2>2, <2>3, <2>4
  <1> HIDE DEF n, name, C, D
  <1>8. Leads(C, GroupCommands(name), D, Excused(program))
    BY <1>3, <1>6, LeadsGroup DEF D
  <1> DEFINE s == GroupCommands(name)
  <1> HIDE DEF s
  <1>9. AllAccepted(kernel, pipe, Excused(program))' /\ FilterChains(Effect(kernel, pipe))' = D
    BY <1>2, <1>5, <1>8, Writes DEF RefusalInv, s
  <1> QED
    BY <1>2, <1>7, <1>9 DEF RefusalInv, WriteGroup

(* A rule finds its chains.                                                *)
LEMMA RefusalRule ==
    ASSUME TypeOK, RefusalInv, Grouped(program), WriteRule
    PROVE  RefusalInv'
  <1> DEFINE n == Calls
             ent == program[n + 1].ent
             C == Built(program, n)
  <1>1. /\ program \in Seq(Call) /\ n \in 0..Len(program) /\ n + 1 \in 1..Len(program)
        /\ Head(todo) = program[n + 1] /\ Len(program) - Len(Tail(todo)) = n + 1
    BY CallsMade DEF WriteRule
  <1>2. /\ program[n + 1].k = "rule" /\ pipe' = pipe \o RuleCommands(ent) /\ ~Refused(ent, family)
        /\ UNCHANGED <<program, kernel, refused, writer>> /\ todo' = Tail(todo)
    BY <1>1 DEF WriteRule, Write, constants
  <1>3. ent \in Ent /\ family \in Family
    <2>1. program[n + 1] \in Call
      BY CallsMade DEF WriteRule
    <2> QED
      BY <2>1 DEF Call, TypeOK
  <1>4. n \in Nat
    BY <1>1
  <1>5. C = FilterChains(Effect(kernel, pipe))
    BY DEF RefusalInv, WriteRule
  <1>6. /\ GroupsOf(ent) \subseteq Announced(program, n)
        /\ \A c : Homeless(ent, c) => c \in Excused(program)
    <2>1. GroupsOf(ent) \subseteq Announced(program, n + 1)
      BY <1>1, <1>2 DEF Grouped
    <2>2. Announced(program, n + 1) = Announced(program, n)
      <3>1. 1..(n + 1) = 1..n \union {n + 1}
        BY <1>4
      <3> QED
        BY <1>2, <3>1 DEF Announced
    <2>3. \A c : Homeless(ent, c) => c \in Excused(program)
      BY <1>1, <1>2 DEF Excused, Homeless
    <2> QED
      BY <2>1, <2>2, <2>3
  <1>7. Built(program, Calls)' = C /\ NothingRefused'
    <2>1. Calls' = n + 1
      BY <1>1, <1>2 DEF Calls
    <2>2. Built(program, n + 1) = C
      BY <1>2, <1>4, BuiltNext
    <2>3. \A i : i = Calls' => Built(program, Calls)' = Built(program, i)
      BY <1>2 DEF Built, Announced
    <2>4. NothingRefused'
      BY <1>2 DEF RefusalInv, NothingRefused, Redeclared, Translates
    <2> QED
      BY <2>1, <2>2, <2>3, <2>4
  <1>8. Placed(ent, C)
    BY <1>4, <1>6, BuiltBefore
  <1> HIDE DEF n, ent, C
  <1>9. Leads(C, RuleCommands(ent), C, Excused(program))
    BY <1>2, <1>3, <1>6, <1>8, LeadsRule
  <1> DEFINE s == RuleCommands(ent)
  <1> HIDE DEF s
  <1>10. AllAccepted(kernel, pipe, Excused(program))' /\ FilterChains(Effect(kernel, pipe))' = C
    BY <1>2, <1>5, <1>9, Writes DEF RefusalInv, s
  <1> QED
    BY <1>2, <1>7, <1>10 DEF RefusalInv, WriteRule

(* The skeleton sweeps away whatever chains there are.                     *)
LEMMA RefusalSkeleton ==
    ASSUME TypeOK, RefusalInv, WriteSkeleton
    PROVE  RefusalInv'
  <1> DEFINE C == FilterChains(Effect(kernel, pipe))
             s == Skeleton(family)
  <1>1. /\ pipe' = pipe \o s /\ UNCHANGED <<program, kernel, refused, todo>> /\ writer' = "rules"
    BY DEF WriteSkeleton, Write, constants
  <1>2. Leads(C, s, Ground, Excused(program))
    BY LeadsSkeleton DEF TypeOK
  <1>3. Built(program, 0) = Ground
    BY DEF Built, Announced
  <1>4. Calls' = 0 /\ Built(program, 0)' = Built(program, 0) /\ NothingRefused'
    <2>1. Calls = 0
      BY DEF RefusalInv, WriteSkeleton
    <2>2. Calls' = 0 /\ Built(program, 0)' = Built(program, 0)
      BY <1>1, <2>1 DEF Calls, Built, Announced
    <2>3. NothingRefused'
      BY <1>1 DEF RefusalInv, NothingRefused, Redeclared, Translates
    <2> QED
      BY <2>2, <2>3
  <1> HIDE DEF s
  <1>5. AllAccepted(kernel, pipe, Excused(program))' /\ FilterChains(Effect(kernel, pipe))' = Ground
    BY <1>1, <1>2, Writes DEF RefusalInv
  <1> QED
    BY <1>1, <1>3, <1>4, <1>5 DEF RefusalInv

(* The shell executes what it was going to: no more may be refused.        *)
LEMMA RefusalExecute ==
    ASSUME TypeOK, RefusalInv, Execute
    PROVE  RefusalInv'
  <1>1. /\ kernel' = After(kernel, Head(pipe)) /\ pipe' = Tail(pipe) /\ pipe # <<>>
        /\ refused' = IF Accepted(kernel, Head(pipe)) THEN refused ELSE refused \union {Head(pipe)}
        /\ UNCHANGED <<program, todo, writer>>
    BY DEF Execute, constants
  <1>2. IsKernel(kernel) /\ pipe \in Seq(Line)
    <2>1. Command \subseteq Line
      BY DEF Line
    <2> QED
      BY <2>1, SeqMonotonic DEF TypeOK
  <1>3. AllAccepted(kernel, pipe, Excused(program))
    BY DEF RefusalInv
  <1>4. /\ Effect(kernel, pipe) = Effect(kernel', pipe')
        /\ Head(pipe) \in Excused(program) \/ Accepted(kernel, Head(pipe))
        /\ AllAccepted(kernel', pipe', Excused(program))
    BY <1>1, <1>2, <1>3, FirstLine
  <1>5. Excused(program)' = Excused(program) /\ Calls' = Calls /\ Built(program, Calls)' = Built(program, Calls)
    BY <1>1 DEF Excused, Again, Twice, Calls, Built, Announced
  <1>6. NothingRefused'
    <2> DEFINE Fine(c) ==
                 \/ c.op = "-N" /\ Redeclared(c.chain.group)
                 \/ /\ c.op = "-A" /\ Table(c.chain) = "nat" /\ c.chain.group # NULL
                    /\ Translates(c.chain.group)
    <2>1. ASSUME NEW c \in Again(program)
          PROVE  Fine(c)
      BY <2>1 DEF Again, NewChain, Twice, Redeclared
    <2>2. ASSUME NEW c, NEW i \in 1..Len(program), program[i].k = "rule", Homeless(program[i].ent, c)
          PROVE  Fine(c)
      <3> DEFINE e == program[i].ent
      <3>1. c.op = "-A" /\ c.chain = SubChain(e, NatChain(e.dir)) /\ e.group # NULL /\ NeedsNat(e)
        BY <2>2 DEF Homeless
      <3>2. c.chain.group = e.group /\ Table(c.chain) = "nat"
        BY <3>1 DEF SubChain, NatChain, Table, NatBase
      <3> QED
        BY <2>2, <3>1, <3>2 DEF Translates
    <2>3. \A c \in Excused(program) : Fine(c)
      BY <2>1, <2>2 DEF Excused
    <2>4. \A c \in refused' : Fine(c)
      BY <1>1, <1>4, <2>3 DEF RefusalInv, NothingRefused
    <2> QED
      BY <1>1, <2>4 DEF NothingRefused, Redeclared, Translates
  <1> QED
    BY <1>1, <1>4, <1>5, <1>6 DEF RefusalInv

(* At first nothing has been refused.                                      *)
LEMMA RefusalStart ==
    ASSUME Init
    PROVE  RefusalInv
  <1>1. IsKernel(kernel) /\ pipe = <<>> /\ refused = {} /\ todo = program /\ writer = "skeleton"
    BY LoadAssumption DEF Init
  <1>2. AllAccepted(kernel, pipe, Excused(program))
    BY <1>1, NoLine
  <1>3. Calls = 0
    <2>1. Len(program) \in Nat
      BY LoadAssumption, LenProperties DEF Init
    <2> QED
      BY <1>1, <2>1 DEF Calls
  <1> QED
    BY <1>1, <1>2, <1>3 DEF RefusalInv, NothingRefused

(* Every step, of filtergen or the shell.                                  *)
LEMMA RefusalStep ==
    ASSUME TypeOK, RefusalInv, Grouped(program), [Next]_loadVars
    PROVE  RefusalInv'
  <1>1. CASE WriteSkeleton
    BY <1>1, RefusalSkeleton
  <1>2. CASE WriteGroup
    BY <1>2, RefusalGroup
  <1>3. CASE WriteRule
    BY <1>3, RefusalRule
  <1>4. CASE Execute
    BY <1>4, RefusalExecute
  <1>5. ASSUME UNCHANGED <<program, todo, pipe, kernel, refused>>, writer' \in {writer, "failed", "done"}
        PROVE  RefusalInv'
    <2>1. Excused(program)' = Excused(program) /\ Calls' = Calls /\ Built(program, Calls)' = Built(program, Calls)
      BY <1>5 DEF Excused, Again, Twice, Calls, Built, Announced
    <2>2. NothingRefused'
      BY <1>5 DEF RefusalInv, NothingRefused, Redeclared, Translates
    <2> QED
      BY <1>5, <2>1, <2>2 DEF RefusalInv
  <1>6. CASE RuleRefused \/ Written \/ Interrupted \/ ShellKilled \/ UNCHANGED loadVars
    BY <1>5, <1>6 DEF RuleRefused, Written, Interrupted, ShellKilled, loadVars, constants
  <1> QED
    BY <1>1, <1>2, <1>3, <1>4, <1>6 DEF Next

(* For calls in which each group is announced before a rule is in it or    *)
(* jumps to it -- filtergen_cprod makes no others, GroupedCalls of         *)
(* GenProofs -- iptables refuses nothing but a group announced again and   *)
(* the nat command of a rule in a group, however the two processes are     *)
(* interleaved or cut short: each chain is created after the old ones are  *)
(* gone and before it is used (fg-iptables.c:298-560).                     *)
THEOREM NoneRefused == Spec => [](Grouped(program) => NothingRefused)
  <1> DEFINE I == Grouped(program) => RefusalInv
  <1>1. Init => I
    BY RefusalStart
  <1>2. TypeOK /\ TypeOK' /\ I /\ [Next]_loadVars => I'
    <2> SUFFICES ASSUME TypeOK, TypeOK', I, [Next]_loadVars, Grouped(program)'
                 PROVE  RefusalInv'
      OBVIOUS
    <2>1. program' = program
      BY DEF Next, loadVars, WriteSkeleton, WriteGroup, WriteRule, Write, RuleRefused, Written,
             Interrupted, Execute, ShellKilled, constants
    <2>2. Grouped(program)
      BY <2>1
    <2> QED
      BY <2>2, RefusalStep
  <1>3. I => (Grouped(program) => NothingRefused)
    BY DEF RefusalInv
  <1> QED
    BY <1>1, <1>2, <1>3, LoadTypes, PTL DEF Spec


-----------------------------------------------------------------------------
(***************************************************************************)
(* What gets through.  As before, what the kernel will be when the pipe is *)
(* empty does not change while the shell executes.  Now the whole way that *)
(* leads there matters, for any of its stages may be the last.             *)
(***************************************************************************)

(* What is written makes the way longer,                                   *)
LEMMA WayGrows ==
    ASSUME NEW k, IsKernel(k), NEW s \in Seq(Line), NEW A, NEW B, NEW I, NEW t, Through(A, t, B, I),
           Effect(k, s) \in A, NEW F, I \subseteq F, \A i \in 0..Len(s) : Stage(k, s, i) \in F
    PROVE  /\ Effect(k, s \o t) \in B
           /\ \A i \in 0..Len(s \o t) : Stage(k, s \o t, i) \in F
  <1>1. /\ t \in Seq(Line) /\ Effect(Effect(k, s), t) \in B
        /\ \A i \in 0..Len(t) : Stage(Effect(k, s), t, i) \in F
    BY DEF Through
  <1>2. /\ \A i \in 0..Len(s) : Stage(k, s \o t, i) = Stage(k, s, i)
        /\ \A i \in 0..Len(t) : Stage(k, s \o t, Len(s) + i) = Stage(Effect(k, s), t, i)
        /\ Effect(k, s \o t) = Effect(Effect(k, s), t)
    BY <1>1, StageBeyond
  <1>3. Len(s) \in Nat /\ Len(t) \in Nat /\ Len(s \o t) = Len(s) + Len(t)
    BY <1>1, LenProperties, ConcatProperties
  <1>4. ASSUME NEW i \in 0..Len(s \o t)
        PROVE  Stage(k, s \o t, i) \in F
    <2>1. CASE i <= Len(s)
      BY <1>2, <1>3, <2>1
    <2>2. CASE i > Len(s)
      <3> DEFINE j == i - Len(s)
      <3>1. j \in 0..Len(t) /\ i = Len(s) + j
        BY <1>3, <2>2
      <3> HIDE DEF j
      <3> QED
        BY <1>1, <1>2, <3>1
    <2> QED
      BY <1>3, <2>1, <2>2
  <1> QED
    BY <1>1, <1>2, <1>4

(* and a command that is executed is a step on it.                         *)
LEMMA WayGone ==
    ASSUME NEW k, IsKernel(k), NEW s \in Seq(Line), s # <<>>, NEW n, n = After(k, Head(s)),
           NEW F, \A i \in 0..Len(s) : Stage(k, s, i) \in F
    PROVE  /\ Effect(n, Tail(s)) = Effect(k, s)
           /\ \A i \in 0..Len(Tail(s)) : Stage(n, Tail(s), i) \in F
  <1> DEFINE h == <<Head(s)>>
             t == Tail(s)
  <1>1. Head(s) \in Line /\ t \in Seq(Line)
    OBVIOUS
  <1>2. h \in Seq(Line) /\ Len(h) = 1 /\ Len(t) \in Nat
    BY <1>1, LenProperties
  <1>3. s = h \o t
    BY HeadAndTail
  <1>4. Effect(k, h) = n
    BY <1>1, OneLine
  <1>5. Len(s) = 1 + Len(t)
    BY HeadTailProperties, LenProperties, <1>2
  <1> HIDE DEF h, t
  <1>6. /\ \A i \in 0..Len(t) : Stage(k, h \o t, Len(h) + i) = Stage(Effect(k, h), t, i)
        /\ Effect(k, h \o t) = Effect(Effect(k, h), t)
    <2>1. h \in Seq(Line) /\ t \in Seq(Line) /\ IsKernel(k)
      BY <1>1, <1>2
    <2>2. /\ h \o t \in Seq(Line)
          /\ \A i \in 0..Len(h) : Stage(k, h \o t, i) = Stage(k, h, i)
          /\ \A i \in 0..Len(t) : Stage(k, h \o t, Len(h) + i) = Stage(Effect(k, h), t, i)
          /\ Effect(k, h \o t) = Effect(Effect(k, h), t)
      BY ONLY <2>1, StageBeyond
    <2> QED
      BY <2>2
  <1>7. ASSUME NEW i \in 0..Len(t)
        PROVE  Stage(n, t, i) \in F
    <2> DEFINE j == 1 + i
    <2>1. j \in 0..Len(s)
      BY <1>2, <1>5
    <2>2. Stage(k, s, j) = Stage(n, t, i)
      BY <1>2, <1>3, <1>4, <1>6
    <2> HIDE DEF j
    <2> QED
      BY <2>1, <2>2
  <1> QED
    BY <1>3, <1>4, <1>6, <1>7 DEF t

(* The rules in force: the old ones, or none that accept, or those of the  *)
(* calls up to some of them.                                               *)
Fair(calls, before) == Waning(before) \union Telling(FALSE, calls)

Heading(calls, n) == Having(FALSE, calls, Evenly(n), Built(calls, n))

(* The invariant: every stage on the way is fair, and the writer has put   *)
(* the texts of its calls into the chains.                                 *)
PolicyInv ==
    /\ \A i \in 0..Len(pipe) : Stage(kernel, pipe, i) \in Fair(program, old)
    /\ writer = "skeleton" => kernel = old /\ pipe = <<>> /\ Calls = 0
    /\ writer = "rules" => Effect(kernel, pipe) \in Heading(program, Calls)
    /\ writer = "done" => Effect(kernel, pipe) \in Heading(program, Len(program))

(* Programs with something to prove.                                       *)
LEMMA OrderlyCourse ==
    ASSUME TypeOK, Orderly(program)
    PROVE  \E rank : Course(program, rank)
  <1>1. program \in Seq(Call)
    BY CallsMade
  <1> QED
    BY <1>1 DEF Orderly, Course

(* The kernel and the pipe.                                                *)
LEMMA PipeTyped ==
    ASSUME TypeOK
    PROVE  IsKernel(kernel) /\ pipe \in Seq(Line) /\ IsKernel(old)
  <1>1. Command \subseteq Line
    BY DEF Line
  <1> QED
    BY <1>1, SeqMonotonic, LoadAssumption DEF TypeOK

(* Lines that take what there is from A to B.                              *)
LEMMA PolicyWritten ==
    ASSUME TypeOK, PolicyInv, NEW A, NEW B, NEW I, NEW s, Through(A, s, B, I),
           Effect(kernel, pipe) \in A, I \subseteq Fair(program, old), pipe' = pipe \o s,
           UNCHANGED <<constants, kernel>>
    PROVE  /\ \A i \in 0..Len(pipe') : Stage(kernel', pipe', i) \in Fair(program', old')
           /\ Effect(kernel', pipe') \in B
  <1> DEFINE k == kernel
             q == pipe
             F == Fair(program, old)
  <1>1. IsKernel(k) /\ q \in Seq(Line)
    BY PipeTyped
  <1>2. Effect(k, q) \in A /\ I \subseteq F /\ \A i \in 0..Len(q) : Stage(k, q, i) \in F
    BY DEF PolicyInv
  <1> HIDE DEF k, q, F
  <1>3. Effect(k, q \o s) \in B /\ \A i \in 0..Len(q \o s) : Stage(k, q \o s, i) \in F
    BY <1>1, <1>2, WayGrows
  <1>4. kernel' = k /\ pipe' = q \o s /\ Fair(program', old') = F
    BY DEF k, q, F, constants
  <1> QED
    BY <1>3, <1>4

(* The skeleton.                                                           *)
LEMMA PolicySkeleton ==
    ASSUME TypeOK, PolicyInv, Orderly(program), WriteSkeleton
    PROVE  PolicyInv'
  <1> DEFINE A == Halfway(old, {})
             n == 0
             B == Heading(program, n)
             s == Skeleton(family)
             I == Waning(old)
  <1>1. /\ pipe' = pipe \o s /\ UNCHANGED <<constants, kernel, todo>> /\ writer' = "rules"
        /\ kernel = old /\ pipe = <<>> /\ Calls = 0
    BY DEF WriteSkeleton, Write, PolicyInv
  <1>2. IsKernel(kernel) /\ Effect(kernel, pipe) = kernel
    BY <1>1, PipeTyped, NoLine
  <1>3. Effect(kernel, pipe) \in A
    BY <1>1, <1>2, KernelSet DEF Halfway
  <1>4. Through(A, s, B, I)
    <2> DEFINE final == FALSE
    <2>1. PICK rank : Course(program, rank)
      BY OrderlyCourse
    <2>2. final \in BOOLEAN
      OBVIOUS
    <2> HIDE DEF final
    <2>3. Through(Halfway(old, {}), Skeleton(family),
                  Having(final, program, Evenly(0), Built(program, 0)), Waning(old))
      BY <2>1, <2>2, SkeletonThrough
    <2> QED
      BY <2>3 DEF Heading, final
  <1>5. I \subseteq Fair(program, old)
    BY DEF Fair
  <1>6. program' = program /\ Calls' = n
    BY <1>1 DEF Calls, constants
  <1> HIDE DEF A, B, s, I, n
  <1>7. /\ \A i \in 0..Len(pipe') : Stage(kernel', pipe', i) \in Fair(program', old')
        /\ Effect(kernel', pipe') \in B
    BY <1>1, <1>3, <1>4, <1>5, PolicyWritten
  <1> QED
    BY <1>1, <1>6, <1>7 DEF PolicyInv, B


(* The texts of a call.                                                    *)
LEMMA PolicyCall ==
    ASSUME TypeOK, PolicyInv, writer = "rules", todo # <<>>, NEW s, NEW n, n = Calls + 1,
           Through(Heading(program, Calls), s, Heading(program, n), Telling(FALSE, program)),
           pipe' = pipe \o s, todo' = Tail(todo), UNCHANGED <<constants, kernel, writer>>
    PROVE  PolicyInv'
  <1> DEFINE A == Heading(program, Calls)
             B == Heading(program, n)
             I == Telling(FALSE, program)
  <1>1. Effect(kernel, pipe) \in A /\ I \subseteq Fair(program, old)
    BY DEF PolicyInv, Fair
  <1>2. program' = program /\ Calls' = n
    <2>1. Len(program) - Len(Tail(todo)) = Calls + 1
      BY CallsMade
    <2> QED
      BY <2>1 DEF Calls, constants
  <1> HIDE DEF A, B, I
  <1>3. Through(A, s, B, I)
    BY DEF A, B, I
  <1>4. /\ \A i \in 0..Len(pipe') : Stage(kernel', pipe', i) \in Fair(program', old')
        /\ Effect(kernel', pipe') \in B
    BY <1>1, <1>3, PolicyWritten
  <1>5. Effect(kernel', pipe') \in Heading(program', Calls')
    BY <1>2, <1>4 DEF B
  <1> QED
    BY <1>4, <1>5 DEF PolicyInv

(* A group,                                                                *)
LEMMA PolicyGroup ==
    ASSUME TypeOK, PolicyInv, Orderly(program), WriteGroup
    PROVE  PolicyInv'
  <1> DEFINE m == Calls + 1
             final == FALSE
             s == GroupCommands(program[m].group)
  <1>1. /\ writer = "rules" /\ todo # <<>> /\ UNCHANGED <<constants, kernel, writer>>
        /\ todo' = Tail(todo) /\ Head(todo).k = "group" /\ pipe' = pipe \o GroupCommands(Head(todo).group)
    BY DEF WriteGroup, Write
  <1>2. /\ m \in 1..Len(program) /\ Head(todo) = program[m] /\ Calls = m - 1
    <2>1. Calls \in Nat /\ m \in 1..Len(program) /\ Head(todo) = program[m]
      BY <1>1, CallsMade
    <2> QED
      BY <2>1
  <1>3. PICK rank : Course(program, rank)
    BY OrderlyCourse
  <1>4. final \in BOOLEAN /\ program[m].k = "group" /\ m = Calls + 1
    BY <1>1, <1>2
  <1> HIDE DEF m, final
  <1>5. Through(Having(final, program, Evenly(m - 1), Built(program, m - 1)),
                GroupCommands(program[m].group),
                Having(final, program, Evenly(m), Built(program, m)), Telling(final, program))
    BY <1>2, <1>3, <1>4, GroupThrough
  <1>6. Through(Heading(program, Calls), s, Heading(program, m), Telling(FALSE, program))
    BY <1>2, <1>5 DEF Heading, final
  <1>7. pipe' = pipe \o s
    BY <1>1, <1>2
  <1> HIDE DEF s
  <1> QED
    BY <1>1, <1>4, <1>6, <1>7, PolicyCall

(* and a rule.                                                             *)
LEMMA PolicyRule ==
    ASSUME TypeOK, PolicyInv, Orderly(program), WriteRule
    PROVE  PolicyInv'
  <1> DEFINE m == Calls + 1
             final == FALSE
             C == Built(program, m)
             s == RuleCommands(program[m].ent)
  <1>1. /\ writer = "rules" /\ todo # <<>> /\ UNCHANGED <<constants, kernel, writer>>
        /\ todo' = Tail(todo) /\ Head(todo).k = "rule" /\ pipe' = pipe \o RuleCommands(Head(todo).ent)
        /\ ~Refused(Head(todo).ent, family) /\ family \in Family
    BY DEF WriteRule, Write, TypeOK
  <1>2. /\ m \in 1..Len(program) /\ Head(todo) = program[m] /\ Calls = m - 1 /\ Calls \in Nat
    <2>1. Calls \in Nat /\ m \in 1..Len(program) /\ Head(todo) = program[m]
      BY <1>1, CallsMade
    <2> QED
      BY <2>1
  <1>3. PICK rank : Course(program, rank)
    BY OrderlyCourse
  <1>4. /\ final = FALSE /\ m = Calls + 1 /\ program[m].k = "rule" /\ m \in RuleCalls(program)
        /\ ~Refused(program[m].ent, family)
    BY <1>1, <1>2 DEF RuleCalls
  <1>5. Placed(program[m].ent, C) /\ C = Built(program, Calls)
    <2> DEFINE n == Calls
    <2>1. n \in Nat /\ m = n + 1
      BY <1>2
    <2> HIDE DEF n, m
    <2>2. GroupsOf(program[m].ent) \subseteq Announced(program, m)
      BY <1>2, <1>3, <1>4 DEF Course, Regular, Grouped
    <2>3. m \in Nat
      BY <2>1
    <2>4. Placed(program[m].ent, Built(program, m))
      BY <2>2, <2>3, BuiltBefore
    <2>5. Built(program, n + 1) = Built(program, n)
      BY <1>4, <2>1, BuiltNext
    <2> QED
      BY <2>1, <2>4, <2>5 DEF n
  <1> HIDE DEF m, final, C
  <1>6. Through(Having(final, program, Evenly(m - 1), C), RuleCommands(program[m].ent),
                Having(final, program, Evenly(m), C), Telling(final, program))
    BY <1>1, <1>3, <1>4, <1>5, RuleCommandsThrough
  <1>7. Through(Heading(program, Calls), s, Heading(program, m), Telling(FALSE, program))
    BY <1>2, <1>4, <1>5, <1>6 DEF Heading, C
  <1>8. pipe' = pipe \o s
    BY <1>1, <1>2
  <1> HIDE DEF s
  <1> QED
    BY <1>1, <1>4, <1>7, <1>8, PolicyCall

(* The shell goes on.                                                      *)
LEMMA PolicyExecute ==
    ASSUME TypeOK, PolicyInv, Execute
    PROVE  PolicyInv'
  <1> DEFINE k == kernel
             q == pipe
             n == After(k, Head(q))
             F == Fair(program, old)
  <1>1. /\ kernel' = n /\ pipe' = Tail(q) /\ q # <<>> /\ UNCHANGED <<constants, todo, writer>>
    BY DEF Execute
  <1>2. IsKernel(k) /\ q \in Seq(Line)
    BY PipeTyped
  <1>3. \A i \in 0..Len(q) : Stage(k, q, i) \in F
    BY DEF PolicyInv
  <1> HIDE DEF k, q, F
  <1>4. /\ Effect(n, Tail(q)) = Effect(k, q)
        /\ \A i \in 0..Len(Tail(q)) : Stage(n, Tail(q), i) \in F
    <2>1. n = After(k, Head(q))
      OBVIOUS
    <2> HIDE DEF n
    <2> QED
      BY <1>1, <1>2, <1>3, <2>1, WayGone
  <1>5. Effect(kernel, pipe)' = Effect(kernel, pipe) /\ Calls' = Calls /\ program' = program /\ old' = old
    BY <1>1, <1>4 DEF k, q, Calls, constants
  <1>6. writer # "skeleton" /\ writer' = writer
    BY <1>1 DEF PolicyInv, q
  <1> QED
    BY <1>1, <1>4, <1>5, <1>6 DEF PolicyInv, F

(* At first the old rules are in force.                                    *)
LEMMA PolicyStart ==
    ASSUME Init
    PROVE  PolicyInv
  <1>1. IsKernel(kernel) /\ pipe = <<>> /\ kernel = old /\ todo = program /\ writer = "skeleton"
    BY LoadAssumption DEF Init
  <1>2. Calls = 0
    <2>1. Len(program) \in Nat
      BY LoadAssumption, LenProperties DEF Init
    <2> QED
      BY <1>1, <2>1 DEF Calls
  <1>3. <<>> \in Seq(Line) /\ Len(<<>>) = 0
    OBVIOUS
  <1>4. Stage(kernel, <<>>, 0) = kernel
    BY <1>1, <1>3, StageSteps
  <1>5. kernel \in Fair(program, old)
    BY <1>1, KernelSet DEF Fair, Waning
  <1>6. \A i \in 0..Len(pipe) : Stage(kernel, pipe, i) \in Fair(program, old)
    BY <1>1, <1>3, <1>4, <1>5
  <1> QED
    BY <1>1, <1>2, <1>6 DEF PolicyInv

(* Every step, of filtergen or the shell.                                  *)
LEMMA PolicyStep ==
    ASSUME TypeOK, PolicyInv, Orderly(program), [Next]_loadVars
    PROVE  PolicyInv'
  <1>1. CASE WriteSkeleton
    BY <1>1, PolicySkeleton
  <1>2. CASE WriteGroup
    BY <1>2, PolicyGroup
  <1>3. CASE WriteRule
    BY <1>3, PolicyRule
  <1>4. CASE Execute
    BY <1>4, PolicyExecute
  <1>5. ASSUME UNCHANGED <<constants, todo, pipe, kernel>>,
               \/ writer' \in {writer, "failed"}
               \/ writer = "rules" /\ todo = <<>> /\ writer' = "done"
        PROVE  PolicyInv'
    <2>1. /\ Calls' = Calls /\ program' = program /\ old' = old
          /\ kernel' = kernel /\ pipe' = pipe
      BY <1>5 DEF Calls, constants
    <2>2. todo = <<>> => Calls = Len(program)
      <3>1. Len(program) \in Nat
        BY CallsMade, LenProperties
      <3> QED
        BY <3>1 DEF Calls
    <2> QED
      BY <1>5, <2>1, <2>2 DEF PolicyInv
  <1>6. CASE RuleRefused \/ Written \/ Interrupted \/ ShellKilled \/ UNCHANGED loadVars
    BY <1>5, <1>6 DEF RuleRefused, Written, Interrupted, ShellKilled, loadVars, constants
  <1> QED
    BY <1>1, <1>2, <1>3, <1>4, <1>6 DEF Next


(* The same rules decide the same, whatever the policies.                  *)
LEMMA SameRules ==
    ASSUME NEW k, NEW before, k.rules = before.rules, NEW p \in Packets,
           \A b \in Builtin : k.policy[b] \in {before.policy[b], "DROP"}
    PROVE  LetsThrough(k, p) => LetsThrough(before, p)
  <1>1. Decision(k, p) = Decision(before, p)
    BY DEF Decision, InChain, Exists
  <1>2. p.path \in Builtin
    BY FirewallAssumption DEF Packet
  <1>3. k.policy[p.path] \in {before.policy[p.path], "DROP"}
    BY <1>2
  <1> QED
    BY <1>1, <1>3 DEF LetsThrough

(* What a fair kernel lets through.                                        *)
LEMMA FairKernel ==
    ASSUME NEW calls, NEW rank, Course(calls, rank), NEW before, NEW k \in Fair(calls, before),
           NEW p \in Packets, LetsThrough(k, p)
    PROVE  IF k.rules = before.rules THEN LetsThrough(before, p)
           ELSE Allowed(calls, p) \/ Overlooked(calls, p)
  <1> DEFINE final == FALSE
  <1>0. final = FALSE /\ final \in BOOLEAN
    OBVIOUS
  <1> HIDE DEF final
  <1>1. CASE k \in Waning(before)
    <2>1. /\ \A b \in Builtin : k.policy[b] \in {before.policy[b], "DROP"}
          /\ k.rules = before.rules \/ Barren(k)
          /\ IsKernel(k)
      BY <1>1 DEF Waning, Kernel
    <2>2. CASE k.rules = before.rules
      BY <2>1, <2>2, SameRules
    <2>3. CASE Barren(k)
      BY <2>1, <2>3, BarrenStops
    <2> QED
      BY <2>1, <2>2, <2>3
  <1>2. CASE k \in Telling(final, calls)
    <2>1. PICK s : Shaped(final, calls, s, k)
      BY <1>2 DEF Telling
    <2>2. p \in Heeded(calls) => Due(final, calls, p)
      BY <1>0, <2>1, ShapedKeeps
    <2>3. Allowed(calls, p) \/ Overlooked(calls, p)
      BY <2>2 DEF Due, Heeded
    <2>4. CASE k.rules = before.rules
      <3>1. \A b \in Builtin : k.policy[b] = "DROP"
        BY <2>1 DEF Shaped
      <3> QED
        BY <2>4, <3>1, SameRules
    <2> QED
      BY <2>3, <2>4
  <1> QED
    BY <1>0, <1>1, <1>2 DEF Fair

(* The program stays, and so does the invariant.                           *)
LEMMA PolicyKept ==
    ASSUME TypeOK, Orderly(program) => PolicyInv, [Next]_loadVars, Orderly(program)'
    PROVE  PolicyInv'
  <1>1. program' = program
    BY DEF Next, loadVars, WriteSkeleton, WriteGroup, WriteRule, Write, RuleRefused, Written,
           Interrupted, Execute, ShellKilled, constants
  <1>2. Orderly(program)
    BY <1>1
  <1> QED
    BY <1>2, PolicyStep

(* The rules in force are the first stage of the way.                      *)
LEMMA KernelFair ==
    ASSUME TypeOK, PolicyInv
    PROVE  kernel \in Fair(program, old)
  <1> DEFINE q == pipe
  <1>1. IsKernel(kernel) /\ q \in Seq(Line) /\ \A i \in 0..Len(q) : Stage(kernel, q, i) \in Fair(program, old)
    BY PipeTyped DEF PolicyInv
  <1> HIDE DEF q
  <1>2. 0 \in 0..Len(q)
    BY <1>1, LenProperties
  <1>3. Stage(kernel, q, 0) = kernel
    BY <1>1, StageSteps
  <1> QED
    BY <1>1, <1>2, <1>3

(* At the end the pipe is empty.                                           *)
LEMMA LoadedHeading ==
    ASSUME TypeOK, PolicyInv, Loaded
    PROVE  kernel \in Heading(program, Len(program))
  <1>1. IsKernel(kernel) /\ pipe = <<>> /\ Effect(kernel, pipe) \in Heading(program, Len(program))
    BY PipeTyped DEF PolicyInv, Loaded
  <1>2. Effect(kernel, <<>>) = kernel
    BY <1>1, NoLine
  <1> QED
    BY <1>1, <1>2

(* All the texts are there.                                                *)
LEMMA HeadingKeeps ==
    ASSUME NEW calls, NEW rank, Course(calls, rank), NEW k \in Heading(calls, Len(calls)),
           NEW p \in Heeded(calls)
    PROVE  LetsThrough(k, p) <=> Allowed(calls, p)
  <1> DEFINE final == FALSE
             s == Evenly(Len(calls))
  <1>0. final = FALSE /\ final \in BOOLEAN /\ \A b \in GroupBase : s[b] = Len(calls)
    BY DEF Evenly
  <1>1. Shaped(final, calls, s, k)
    BY DEF Heading, Having
  <1> HIDE DEF final, s
  <1>2. /\ LetsThrough(k, p) => Due(final, calls, p)
        /\ (\A b \in GroupBase : s[b] = Len(calls)) /\ Due(final, calls, p) => LetsThrough(k, p)
    BY <1>0, <1>1, ShapedKeeps
  <1>3. Due(final, calls, p) <=> Allowed(calls, p)
    BY <1>0 DEF Due
  <1> QED
    BY <1>0, <1>2, <1>3

(* However the load is interleaved and whatever is killed, what gets       *)
(* through is what the old rules let through, as long as they are in       *)
(* force, and nothing but what the policy of the program allows from then  *)
(* on (fg-iptables.c:298-560).  For all old rules and all packets, but the *)
(* related ones that a denial or a jump of the program is overlooked for   *)
(* (FailClosed names them), and every program that is Orderly: groups are  *)
(* nested and used in one direction, no protocol is negated, and no rule   *)
(* that is for forwarded packets only has a return rule.                   *)
THEOREM LoadFailsClosed == Spec => [](Orderly(program) => FailClosed)
  <1> DEFINE I == Orderly(program) => PolicyInv
  <1>1. Init => I
    BY PolicyStart
  <1>2. TypeOK /\ TypeOK' /\ I /\ [Next]_loadVars => I'
    BY PolicyKept
  <1>3. TypeOK /\ I => (Orderly(program) => FailClosed)
    <2> SUFFICES ASSUME TypeOK, PolicyInv, Orderly(program), NEW p \in Packets, LetsThrough(kernel, p)
                 PROVE  IF kernel.rules = old.rules THEN LetsThrough(old, p)
                        ELSE Allowed(program, p) \/ Overlooked(program, p)
      BY DEF FailClosed
    <2>1. PICK rank : Course(program, rank)
      BY OrderlyCourse
    <2>2. kernel \in Fair(program, old)
      BY KernelFair
    <2> QED
      BY <2>1, <2>2, FairKernel
  <1> QED
    BY <1>1, <1>2, <1>3, LoadTypes, PTL DEF Spec

(* A load that has come to its end, of such a program, leaves rules that   *)
(* let through exactly what the policy allows, of all packets but the same *)
(* related ones: first match, groups, the answers to what is permitted,    *)
(* both sides of a forwarded packet (cb_iptables_rule_common).             *)
THEOREM LoadedRules == Spec => [](Orderly(program) => LoadedPolicy)
  <1> DEFINE I == Orderly(program) => PolicyInv
  <1>1. Init => I
    BY PolicyStart
  <1>2. TypeOK /\ TypeOK' /\ I /\ [Next]_loadVars => I'
    BY PolicyKept
  <1>3. TypeOK /\ I => (Orderly(program) => LoadedPolicy)
    <2> SUFFICES ASSUME TypeOK, PolicyInv, Orderly(program), Loaded, NEW p \in Heeded(program)
                 PROVE  LetsThrough(kernel, p) <=> Allowed(program, p)
      BY DEF LoadedPolicy, Heeded
    <2>1. PICK rank : Course(program, rank)
      BY OrderlyCourse
    <2>2. kernel \in Heading(program, Len(program))
      BY LoadedHeading
    <2> QED
      BY <2>1, <2>2, HeadingKeeps
  <1> QED
    BY <1>1, <1>2, <1>3, LoadTypes, PTL DEF Spec
=============================================================================
