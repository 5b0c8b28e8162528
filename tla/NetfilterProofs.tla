--------------------------- MODULE NetfilterProofs ---------------------------
(***************************************************************************)
(* Proofs about the kernel and the commands of the iptables backends, for  *)
(* every kernel, every rule and every sequence of commands: what a command *)
(* leaves behind, what commands in a row come to, and that iptables has    *)
(* nothing to refuse in what the callbacks print.  The modules about loads *)
(* rest on it.                                                             *)
(***************************************************************************)
EXTENDS Iptables, SeqLemmas, SequenceTheorems, TLAPS

-----------------------------------------------------------------------------
(***************************************************************************)
(* One command                                                             *)
(***************************************************************************)

(* The parts of what a command makes of a kernel.                          *)
LEMMA ObeyedParts ==
    ASSUME NEW k, IsKernel(k), NEW cmd \in Command, Accepted(k, cmd)
    PROVE  LET o == Obeyed(k, cmd)
           IN  /\ o = [policy |-> o.policy, rules |-> o.rules]
               /\ o.policy \in [Builtin -> Verdict]
               /\ BuiltinChains \subseteq Exists(o) /\ Exists(o) \subseteq Chain
               /\ o.rules \in [Exists(o) -> Seq(Rule)]
  <1>0. /\ k = [policy |-> k.policy, rules |-> k.rules]
        /\ k.policy \in [Builtin -> Verdict]
        /\ BuiltinChains \subseteq DOMAIN k.rules /\ DOMAIN k.rules \subseteq Chain
        /\ k.rules \in [DOMAIN k.rules -> Seq(Rule)]
    BY DEF IsKernel, Exists
  <1>e. <<>> \in Seq(Rule)
    BY EmptySeq
  <1>1. CASE cmd.op = "-P"
    <2>1. \E b \in Builtin : cmd.chain = Base(b)
      BY <1>1 DEF Command
    <2>2. cmd.chain.base \in Builtin /\ cmd.jump.base \in Verdict
      BY <1>1, <2>1 DEF Accepted, Base, Verdict
    <2>3. Obeyed(k, cmd) = [policy |-> [k.policy EXCEPT ![cmd.chain.base] = cmd.jump.base],
                            rules |-> k.rules]
      BY <1>0, <1>1 DEF Obeyed
    <2> QED
      BY <1>0, <2>2, <2>3 DEF Exists
  <1>2. CASE cmd.op = "-F"
    <2>1. Obeyed(k, cmd) = [policy |-> k.policy,
                            rules |-> [c \in Exists(k) |->
                                    IF Table(c) = cmd.table THEN <<>> ELSE k.rules[c]]]
      BY <1>0, <1>2 DEF Obeyed
    <2> QED
      BY <1>0, <1>e, <2>1 DEF Exists
  <1>3. CASE cmd.op = "-X"
    <2> DEFINE D == { d \in Exists(k) : Table(d) = cmd.table => d \in BuiltinChains }
    <2>1. Obeyed(k, cmd) = [policy |-> k.policy, rules |-> [c \in D |-> k.rules[c]]]
      BY <1>0, <1>3 DEF Obeyed
    <2>2. D \subseteq DOMAIN k.rules /\ BuiltinChains \subseteq D
      BY <1>0 DEF Exists
    <2> HIDE DEF D
    <2> QED
      BY <1>0, <2>1, <2>2 DEF Exists
  <1>4. CASE cmd.op = "-N"
    <2>1. cmd.chain \in Chain
      BY <1>4 DEF Command
    <2>2. Obeyed(k, cmd) = [policy |-> k.policy,
                            rules |-> [c \in Exists(k) \union {cmd.chain} |->
                                    IF c = cmd.chain THEN <<>> ELSE k.rules[c]]]
      BY <1>0, <1>4 DEF Obeyed
    <2> QED
      BY <1>0, <1>e, <2>1, <2>2 DEF Exists
  <1>5. CASE cmd.op \in {"-A", "-I"}
    <2>1. cmd.rule \in Rule /\ cmd.chain \in DOMAIN k.rules
      BY <1>5 DEF Command, Accepted, Exists
    <2>2. k.rules[cmd.chain] \in Seq(Rule)
      BY <1>0, <2>1
    <2>3. /\ Append(k.rules[cmd.chain], cmd.rule) \in Seq(Rule)
          /\ <<cmd.rule>> \o k.rules[cmd.chain] \in Seq(Rule)
      BY <2>1, <2>2
    <2>4. PICK r \in Seq(Rule) : Obeyed(k, cmd) = [policy |-> k.policy,
                            rules |-> [k.rules EXCEPT ![cmd.chain] = r]]
      BY <1>0, <1>5, <2>3 DEF Obeyed
    <2>5. /\ [k.rules EXCEPT ![cmd.chain] = r] \in [DOMAIN k.rules -> Seq(Rule)]
          /\ DOMAIN [k.rules EXCEPT ![cmd.chain] = r] = DOMAIN k.rules
      BY <1>0
    <2> QED
      BY <1>0, <2>4, <2>5 DEF Exists
  <1> QED
    BY <1>1, <1>2, <1>3, <1>4, <1>5 DEF Command

(* The rules of a chain to which one is added at either end.               *)
LEMMA OneMore ==
    ASSUME NEW S, NEW s \in Seq(S), NEW x \in S, NEW r,
           r = Append(s, x) \/ r = <<x>> \o s, NEW i \in 1..Len(r)
    PROVE  r[i] = x \/ \E j \in 1..Len(s) : r[i] = s[j]
  <1>1. CASE r = Append(s, x)
    BY <1>1
  <1>2. CASE r = <<x>> \o s
    <2>1. <<x>> \in Seq(S) /\ Len(<<x>>) = 1 /\ <<x>>[1] = x /\ Len(s) \in Nat
      BY LenProperties
    <2>2. /\ Len(r) = 1 + Len(s)
          /\ \A j \in 1..(1 + Len(s)) : r[j] = IF j <= 1 THEN <<x>>[j] ELSE s[j - 1]
      BY <1>2, <2>1, ConcatProperties
    <2>3. i = 1 \/ (i - 1 \in 1..Len(s) /\ r[i] = s[i - 1])
      BY <2>1, <2>2
    <2>4. CASE i = 1
      BY <2>1, <2>2, <2>4
    <2> QED
      BY <2>1, <2>3, <2>4
  <1> QED
    BY <1>1, <1>2

(* A rule leads where its chain may: -F, -N and -P do not change that, -X  *)
(* removes no chain in use, and -A and -I are refused otherwise.           *)
LEMMA ObeyedLinked ==
    ASSUME NEW k, IsKernel(k), NEW cmd \in Command, Accepted(k, cmd)
    PROVE  Linked(Obeyed(k, cmd))
  <1> DEFINE o == Obeyed(k, cmd)
  <1>0. /\ k = [policy |-> k.policy, rules |-> k.rules]
        /\ k.rules \in [DOMAIN k.rules -> Seq(Rule)]
        /\ Linked(k)
    BY DEF IsKernel, Exists
  <1> SUFFICES ASSUME NEW c \in DOMAIN o.rules, NEW i \in 1..Len(o.rules[c])
               PROVE  JumpOK(o, c, o.rules[c][i].jump)
    BY DEF Linked, Exists
  <1>1. ASSUME NEW j, DOMAIN k.rules \subseteq DOMAIN o.rules, JumpOK(k, c, j)
        PROVE  JumpOK(o, c, j)
    BY <1>1 DEF JumpOK, Exists
  <1>2. CASE cmd.op = "-P"
    <2>1. o.rules = k.rules
      BY <1>0, <1>2 DEF Obeyed
    <2> QED
      BY <1>0, <1>1, <2>1 DEF Linked, Exists
  <1>3. CASE cmd.op = "-F"
    <2>1. o.rules = [d \in DOMAIN k.rules |-> IF Table(d) = cmd.table THEN <<>> ELSE k.rules[d]]
      BY <1>0, <1>3 DEF Obeyed, Exists
    <2>2. o.rules[c] = k.rules[c]
      BY <2>1, EmptySeq
    <2> HIDE DEF o
    <2> QED
      BY <1>0, <1>1, <2>1, <2>2 DEF Linked, Exists
  <1>4. CASE cmd.op = "-X"
    <2>1. o.rules = [d \in { e \in DOMAIN k.rules : Table(e) = cmd.table => e \in BuiltinChains } |->
                        k.rules[d]]
      BY <1>0, <1>4 DEF Obeyed, Exists
    <2>2. c \in DOMAIN k.rules /\ o.rules[c] = k.rules[c]
      BY <2>1
    <2>3. \A d \in DOMAIN k.rules \ BuiltinChains : Table(d) = cmd.table => k.rules[c][i].jump # d
      BY <1>4, <2>2 DEF Accepted, Unused, Exists
    <2> HIDE DEF o
    <2>4. JumpOK(k, c, k.rules[c][i].jump)
      BY <1>0, <2>2 DEF Linked, Exists
    <2> QED
      BY <2>1, <2>2, <2>3, <2>4 DEF JumpOK, Exists
  <1>5. CASE cmd.op = "-N"
    <2>1. o.rules = [d \in DOMAIN k.rules \union {cmd.chain} |->
                        IF d = cmd.chain THEN <<>> ELSE k.rules[d]]
      BY <1>0, <1>5 DEF Obeyed, Exists
    <2>2. c \in DOMAIN k.rules /\ o.rules[c] = k.rules[c]
      BY <2>1, EmptySeq
    <2> HIDE DEF o
    <2> QED
      BY <1>0, <1>1, <2>1, <2>2 DEF Linked, Exists
  <1>6. CASE cmd.op \in {"-A", "-I"}
    <2>1. /\ cmd.chain \in DOMAIN k.rules /\ JumpOK(k, cmd.chain, cmd.rule.jump)
          /\ cmd.rule \in Rule
      BY <1>6 DEF Accepted, Exists, Command
    <2>2. PICK r : /\ o.rules = [k.rules EXCEPT ![cmd.chain] = r]
                   /\ r = Append(k.rules[cmd.chain], cmd.rule) \/ r = <<cmd.rule>> \o k.rules[cmd.chain]
      BY <1>0, <1>6, <2>1 DEF Obeyed
    <2> HIDE DEF o
    <2>3. DOMAIN o.rules = DOMAIN k.rules
      BY <1>0, <2>2
    <2>4. CASE c # cmd.chain
      BY <1>0, <1>1, <2>2, <2>3, <2>4 DEF Linked, Exists
    <2>5. CASE c = cmd.chain
      <3>1. /\ o.rules[c] = r /\ k.rules[c] \in Seq(Rule) /\ i \in 1..Len(r)
            /\ cmd.rule \in Rule
            /\ r = Append(k.rules[c], cmd.rule) \/ r = <<cmd.rule>> \o k.rules[c]
        BY <1>0, <2>1, <2>2, <2>5
      <3>2. r[i] = cmd.rule \/ \E j \in 1..Len(k.rules[c]) : r[i] = k.rules[c][j]
        <4> DEFINE t == k.rules[c]
                   x == cmd.rule
        <4>1. /\ t \in Seq(Rule) /\ x \in Rule /\ i \in 1..Len(r)
              /\ r = Append(t, x) \/ r = <<x>> \o t
          BY <3>1
        <4> HIDE DEF t, x
        <4>2. r[i] = x \/ \E j \in 1..Len(t) : r[i] = t[j]
          BY <4>1, OneMore
        <4> QED
          BY <4>2 DEF t, x
      <3> QED
        BY <1>0, <1>1, <2>1, <2>3, <2>5, <3>1, <3>2 DEF Linked, Exists
    <2> QED
      BY <2>4, <2>5
  <1> QED
    BY <1>2, <1>3, <1>4, <1>5, <1>6 DEF Command

(* Every line leaves a kernel.                                             *)
LEMMA AfterIsKernel ==
    ASSUME NEW k, IsKernel(k), NEW cmd \in Line
    PROVE  IsKernel(After(k, cmd))
  <1> SUFFICES ASSUME Accepted(k, cmd)
               PROVE  IsKernel(Obeyed(k, cmd))
    BY DEF After
  <1>1. cmd \in Command
    BY DEF Line, Accepted
  <1> QED
    BY <1>1, ObeyedParts, ObeyedLinked DEF IsKernel

-----------------------------------------------------------------------------
(***************************************************************************)
(* Commands in a row                                                       *)
(***************************************************************************)
Kernel ==
    { k \in [policy : [Builtin -> Verdict],
             rules  : UNION { [D -> Seq(Rule)] : D \in SUBSET Chain }] : IsKernel(k) }

(* The kernels make a set, as the recursion over commands wants one.       *)
LEMMA KernelSet ==
    ASSUME NEW k, IsKernel(k)
    PROVE  k \in Kernel
  <1>1. /\ k = [policy |-> k.policy, rules |-> k.rules]
        /\ k.policy \in [Builtin -> Verdict]
        /\ Exists(k) \in SUBSET Chain /\ k.rules \in [Exists(k) -> Seq(Rule)]
    BY DEF IsKernel
  <1>2. k.rules \in UNION { [D -> Seq(Rule)] : D \in SUBSET Chain }
    BY <1>1
  <1> QED
    BY <1>1, <1>2 DEF Kernel

(* What holds after i lines.                                               *)
Stage(k, s, i) == CHOOSE x \in Stages(k, s)[i] : TRUE

(* The recursion that defines Stages.                                      *)
LEMMA StagesUnfold ==
    ASSUME NEW k, IsKernel(k), NEW s \in Seq(Line)
    PROVE  /\ Stages(k, s)[0] = {k}
           /\ \A i \in 1..Len(s) :
                Stages(k, s)[i] =
                    { x \in { After(y, s[i]) : y \in Stages(k, s)[i - 1] } : IsKernel(x) }
  <1> DEFINE N == Len(s)
             Once(A, c) == { x \in { After(y, c) : y \in A } : IsKernel(x) }
             Solves(f) == f = [i \in 0..N |-> IF i = 0 THEN {k} ELSE Once(f[i - 1], s[i])]
             step == [i \in 1..N |-> [A \in SUBSET Kernel |-> Once(A, s[i])]]
  <1>1. N \in Nat
    BY LenProperties
  <1>2. \A A, c : Once(A, c) \in SUBSET Kernel
    BY KernelSet
  <1>3. {k} \in SUBSET Kernel
    BY KernelSet
  <1>4. step \in [1..N -> [SUBSET Kernel -> SUBSET Kernel]]
    BY <1>2
  <1> HIDE DEF Once
  <1>5. PICK f \in [0..N -> SUBSET Kernel] :
          f[0] = {k} /\ \A i \in 1..N : f[i] = step[i][f[i - 1]]
    <2> DEFINE S == SUBSET Kernel
               x == {k}
    <2>1. Iterable(S, x, N, step)
      BY <1>1, <1>3, <1>4 DEF Iterable
    <2> HIDE DEF step, N, S, x
    <2>2. \E f : Iteration(f, S, x, N, step)
      BY <2>1, Recursion
    <2> QED
      BY <2>2 DEF S, x, Iteration
  <1>6. \A i \in 1..N : f[i] = Once(f[i - 1], s[i])
    <2> TAKE i \in 1..N
    <2>1. f[i - 1] \in SUBSET Kernel
      BY <1>1, <1>5
    <2> QED
      BY <1>5, <2>1
  <1>7. Solves(f)
    <2>1. \A i \in 0..N : f[i] = IF i = 0 THEN {k} ELSE Once(f[i - 1], s[i])
      BY <1>1, <1>5, <1>6
    <2> HIDE DEF step, N
    <2> QED
      BY <1>5, <2>1
  <1>8. Stages(k, s) = CHOOSE g : Solves(g)
    BY DEF Stages, Once
  <1>9. Solves(Stages(k, s))
    <2> HIDE DEF Solves
    <2> QED
      BY <1>7, <1>8
  <1> DEFINE g == Stages(k, s)
  <1>10. \A i \in 0..N : g[i] = IF i = 0 THEN {k} ELSE Once(g[i - 1], s[i])
    <2> HIDE DEF N
    <2>1. g = [i \in 0..N |-> IF i = 0 THEN {k} ELSE Once(g[i - 1], s[i])]
      BY <1>9
    <2> HIDE DEF g
    <2> QED
      BY <2>1
  <1>11. g[0] = {k} /\ \A i \in 1..N : g[i] = Once(g[i - 1], s[i])
    <2> HIDE DEF g, N
    <2> QED
      BY <1>1, <1>10
  <1> QED
    BY <1>11 DEF Once

(* One after the other.                                                    *)
LEMMA StageSteps ==
    ASSUME NEW k, IsKernel(k), NEW s \in Seq(Line)
    PROVE  /\ Stage(k, s, 0) = k
           /\ \A i \in 0..Len(s) : IsKernel(Stage(k, s, i))
           /\ \A i \in 1..Len(s) : Stage(k, s, i) = After(Stage(k, s, i - 1), s[i])
           /\ Effect(k, s) = Stage(k, s, Len(s))
           /\ IsKernel(Effect(k, s))
  <1> DEFINE N == Len(s)
             g == Stages(k, s)
             One(n) == \E x : IsKernel(x) /\ g[n] = {x}
             P == { n \in Nat : n <= N => One(n) }
  <1>1. N \in Nat /\ \A i \in 1..N : s[i] \in Line
    BY LenProperties
  <1>2. /\ g[0] = {k}
        /\ \A i \in 1..N : g[i] = { x \in { After(y, s[i]) : y \in g[i - 1] } : IsKernel(x) }
    BY StagesUnfold
  <1>3. \A i : Stage(k, s, i) = CHOOSE x \in g[i] : TRUE
    BY DEF Stage
  <1>4. ASSUME NEW i \in 1..N, NEW x, IsKernel(x), g[i - 1] = {x}
        PROVE  IsKernel(After(x, s[i])) /\ g[i] = {After(x, s[i])}
    <2>1. IsKernel(After(x, s[i]))
      BY <1>1, <1>4, AfterIsKernel
    <2> HIDE DEF g, N
    <2> QED
      BY <1>2, <1>4, <2>1
  <1> HIDE DEF g, N
  <1>5. \A n \in 0..N : One(n)
    <2>1. 0 \in P
      BY <1>2
    <2>2. ASSUME NEW n \in P
          PROVE  n + 1 \in P
      <3> SUFFICES ASSUME n + 1 <= N
                   PROVE  One(n + 1)
        BY <2>2
      <3>1. PICK x : IsKernel(x) /\ g[n] = {x}
        BY <1>1, <2>2
      <3>2. n + 1 \in 1..N /\ (n + 1) - 1 = n
        BY <1>1, <2>2
      <3> QED
        BY <1>4, <3>1, <3>2
    <2>3. P \in SUBSET Nat
      OBVIOUS
    <2> HIDE DEF P
    <2>4. P = Nat
      BY <2>1, <2>2, <2>3, Induction
    <2> QED
      BY <1>1, <2>4 DEF P
  <1>6. \A n, x : g[n] = {x} => Stage(k, s, n) = x
    BY <1>3
  <1>7. Stage(k, s, 0) = k
    BY <1>2, <1>6
  <1>8. \A i \in 0..N : IsKernel(Stage(k, s, i)) /\ g[i] = {Stage(k, s, i)}
    BY <1>5, <1>6
  <1>9. \A i \in 1..N : Stage(k, s, i) = After(Stage(k, s, i - 1), s[i])
    <2> TAKE i \in 1..N
    <2>1. i - 1 \in 0..N
      BY <1>1
    <2> QED
      BY <1>4, <1>6, <1>8, <2>1
  <1>10. Effect(k, s) = Stage(k, s, N)
    BY DEF Effect, Stage, N
  <1> QED
    BY <1>1, <1>7, <1>8, <1>9, <1>10 DEF N

(* What holds after i lines is a matter of these i lines.                  *)
LEMMA StageOfPrefix ==
    ASSUME NEW k, IsKernel(k), NEW s \in Seq(Line), NEW t \in Seq(Line),
           NEW n \in Nat, n <= Len(s), n <= Len(t), \A i \in 1..n : s[i] = t[i]
    PROVE  Stage(k, s, n) = Stage(k, t, n)
  <1> DEFINE P == { i \in Nat : i <= n => Stage(k, s, i) = Stage(k, t, i) }
  <1>1. Len(s) \in Nat /\ Len(t) \in Nat
    BY LenProperties
  <1>2. /\ Stage(k, s, 0) = k /\ Stage(k, t, 0) = k
        /\ \A i \in 1..Len(s) : Stage(k, s, i) = After(Stage(k, s, i - 1), s[i])
        /\ \A i \in 1..Len(t) : Stage(k, t, i) = After(Stage(k, t, i - 1), t[i])
    BY StageSteps
  <1>3. 0 \in P
    BY <1>2
  <1>4. ASSUME NEW i \in P
        PROVE  i + 1 \in P
    <2> SUFFICES ASSUME i + 1 <= n
                 PROVE  Stage(k, s, i + 1) = Stage(k, t, i + 1)
      BY <1>4
    <2>1. i + 1 \in 1..Len(s) /\ i + 1 \in 1..Len(t) /\ i + 1 \in 1..n /\ (i + 1) - 1 = i
      BY <1>1, <1>4
    <2>2. Stage(k, s, i) = Stage(k, t, i)
      BY <1>4
    <2> QED
      BY <1>2, <2>1, <2>2
  <1>5. P \in SUBSET Nat
    OBVIOUS
  <1> HIDE DEF P
  <1>6. P = Nat
    BY <1>3, <1>4, <1>5, Induction
  <1> QED
    BY <1>6 DEF P

(* Lines after lines.                                                      *)
LEMMA StageBeyond ==
    ASSUME NEW k, IsKernel(k), NEW s \in Seq(Line), NEW t \in Seq(Line)
    PROVE  /\ s \o t \in Seq(Line)
           /\ \A i \in 0..Len(s) : Stage(k, s \o t, i) = Stage(k, s, i)
           /\ \A i \in 0..Len(t) : Stage(k, s \o t, Len(s) + i) = Stage(Effect(k, s), t, i)
           /\ Effect(k, s \o t) = Effect(Effect(k, s), t)
  <1> DEFINE u == s \o t
             m == Len(s)
             n == Len(t)
             e == Effect(k, s)
             P == { i \in Nat : i <= n => Stage(k, u, m + i) = Stage(e, t, i) }
  <1>1. m \in Nat /\ n \in Nat
    BY LenProperties
  <1>2. /\ Len(u) = m + n
        /\ \A i \in 1..(m + n) : u[i] = IF i <= m THEN s[i] ELSE t[i - m]
    BY ConcatProperties
  <1>u. u \in Seq(Line)
    BY ConcatProperties
  <1>3. IsKernel(e) /\ e = Stage(k, s, m)
    BY StageSteps
  <1> HIDE DEF u, e
  <1>4. /\ \A i \in 1..Len(u) : Stage(k, u, i) = After(Stage(k, u, i - 1), u[i])
        /\ Effect(k, u) = Stage(k, u, Len(u))
    BY <1>u, StageSteps
  <1>5. /\ Stage(e, t, 0) = e
        /\ \A i \in 1..n : Stage(e, t, i) = After(Stage(e, t, i - 1), t[i])
        /\ Effect(e, t) = Stage(e, t, n)
    BY <1>3, StageSteps
  <1>6. ASSUME NEW i \in 0..m
        PROVE  Stage(k, u, i) = Stage(k, s, i)
    <2>1. i \in Nat /\ i <= Len(u) /\ i <= Len(s) /\ \A j \in 1..i : u[j] = s[j]
      BY <1>1, <1>2
    <2> QED
      BY <1>u, <2>1, StageOfPrefix
  <1>7. 0 \in P
    BY <1>1, <1>3, <1>5, <1>6
  <1>8. ASSUME NEW i \in P
        PROVE  i + 1 \in P
    <2> SUFFICES ASSUME i + 1 <= n
                 PROVE  Stage(k, u, m + (i + 1)) = Stage(e, t, i + 1)
      BY <1>8
    <2>1. Stage(k, u, m + i) = Stage(e, t, i)
      BY <1>1, <1>8
    <2>2. /\ m + (i + 1) \in 1..Len(u) /\ m + (i + 1) - 1 = m + i
          /\ u[m + (i + 1)] = t[i + 1]
          /\ i + 1 \in 1..n /\ (i + 1) - 1 = i
      <3> HIDE DEF m, n
      <3>1. i \in Nat
        BY <1>8
      <3>2. m + (i + 1) \in 1..(m + n) /\ ~(m + (i + 1) <= m) /\ m + (i + 1) - m = i + 1
        BY <1>1, <3>1
      <3> QED
        BY <1>1, <1>2, <3>1, <3>2
    <2> QED
      BY <1>4, <1>5, <2>1, <2>2
  <1>9. P \in SUBSET Nat
    OBVIOUS
  <1> HIDE DEF P
  <1>10. P = Nat
    BY <1>7, <1>8, <1>9, Induction
  <1>11. \A i \in 0..n : Stage(k, u, m + i) = Stage(e, t, i)
    BY <1>10 DEF P
  <1>12. Effect(k, u) = Effect(e, t)
    BY <1>1, <1>2, <1>4, <1>5, <1>11
  <1> QED
    BY <1>u, <1>6, <1>11, <1>12 DEF u, e

-----------------------------------------------------------------------------
(***************************************************************************)
(* Nothing to refuse.  Each line is accepted in its turn, but for those    *)
(* that may be refused: the members of X.                                  *)
(***************************************************************************)
AllAccepted(k, s, X) == \A i \in 1..Len(s) : s[i] \in X \/ Accepted(Stage(k, s, i - 1), s[i])

(* One script after another: both have to be accepted.                     *)
LEMMA AcceptedBeyond ==
    ASSUME NEW k, IsKernel(k), NEW s \in Seq(Line), NEW t \in Seq(Line), NEW X
    PROVE  AllAccepted(k, s \o t, X) <=> AllAccepted(k, s, X) /\ AllAccepted(Effect(k, s), t, X)
  <1> DEFINE u == s \o t
             m == Len(s)
             n == Len(t)
             e == Effect(k, s)
             Fine(i) == u[i] \in X \/ Accepted(Stage(k, u, i - 1), u[i])
  <1>1. /\ \A i \in 0..m : Stage(k, u, i) = Stage(k, s, i)
        /\ \A i \in 0..n : Stage(k, u, m + i) = Stage(e, t, i)
    BY StageBeyond
  <1>2. /\ Len(u) = m + n
        /\ \A i \in 1..(m + n) : u[i] = IF i <= m THEN s[i] ELSE t[i - m]
    BY ConcatProperties
  <1>3. m \in Nat /\ n \in Nat
    BY LenProperties
  <1> HIDE DEF u, e, m, n
  <1>4. ASSUME NEW i \in 1..m
        PROVE  u[i] = s[i] /\ Stage(k, u, i - 1) = Stage(k, s, i - 1)
    BY <1>1, <1>2, <1>3
  <1>5. ASSUME NEW i \in 1..n
        PROVE  u[m + i] = t[i] /\ Stage(k, u, (m + i) - 1) = Stage(e, t, i - 1)
    <2>1. /\ m + i \in 1..(m + n) /\ ~(m + i <= m) /\ (m + i) - m = i
          /\ (m + i) - 1 = m + (i - 1) /\ i - 1 \in 0..n
      BY <1>3
    <2> QED
      BY <1>1, <1>2, <2>1
  <1>6. AllAccepted(k, u, X) <=> \A i \in 1..(m + n) : Fine(i)
    BY <1>2 DEF AllAccepted
  <1>7. AllAccepted(k, s, X) <=> \A i \in 1..m : Fine(i)
    BY <1>4 DEF AllAccepted, m
  <1>8. AllAccepted(e, t, X) <=> \A i \in 1..n : Fine(m + i)
    BY <1>5 DEF AllAccepted, n
  <1> HIDE DEF Fine
  <1>9. \A i \in 1..(m + n) : i \in 1..m \/ (i - m \in 1..n /\ m + (i - m) = i)
    BY <1>3
  <1>10. /\ \A i \in 1..m : i \in 1..(m + n)
         /\ \A i \in 1..n : m + i \in 1..(m + n)
    BY <1>3
  <1> QED
    BY <1>6, <1>7, <1>8, <1>9, <1>10 DEF u, e

(* A script of one line,                                                   *)
LEMMA OneLine ==
    ASSUME NEW k, IsKernel(k), NEW c \in Line, NEW X
    PROVE  /\ <<c>> \in Seq(Line)
           /\ Effect(k, <<c>>) = After(k, c)
           /\ AllAccepted(k, <<c>>, X) <=> c \in X \/ Accepted(k, c)
  <1> DEFINE s == <<c>>
  <1>1. s \in Seq(Line) /\ Len(s) = 1 /\ s[1] = c
    OBVIOUS
  <1> HIDE DEF s
  <1>2. Stage(k, s, 0) = k /\ Stage(k, s, 1) = After(k, c) /\ Effect(k, s) = Stage(k, s, 1)
    <2>1. /\ Stage(k, s, 0) = k
          /\ \A i \in 1..Len(s) : Stage(k, s, i) = After(Stage(k, s, i - 1), s[i])
          /\ Effect(k, s) = Stage(k, s, Len(s))
      BY <1>1, StageSteps
    <2> QED
      BY <1>1, <2>1
  <1>3. AllAccepted(k, s, X) <=> \A i \in 1..1 : s[i] \in X \/ Accepted(Stage(k, s, i - 1), s[i])
    BY <1>1 DEF AllAccepted
  <1> QED
    BY <1>1, <1>2, <1>3 DEF s

(* and of none.                                                            *)
LEMMA NoLine ==
    ASSUME NEW k, IsKernel(k), NEW X
    PROVE  /\ <<>> \in Seq(Line)
           /\ Effect(k, <<>>) = k
           /\ AllAccepted(k, <<>>, X)
  <1> DEFINE s == <<>>
  <1>1. s \in Seq(Line) /\ Len(s) = 0
    BY EmptySeq
  <1> HIDE DEF s
  <1>2. Effect(k, s) = k
    BY <1>1, StageSteps
  <1> QED
    BY <1>1, <1>2 DEF AllAccepted, s

(* The first line of several, as it is executed.                           *)
LEMMA FirstLine ==
    ASSUME NEW k, IsKernel(k), NEW s \in Seq(Line), s # <<>>, NEW X
    PROVE  /\ Head(s) \in Line /\ Tail(s) \in Seq(Line)
           /\ Effect(k, s) = Effect(After(k, Head(s)), Tail(s))
           /\ AllAccepted(k, s, X) <=>
                 /\ Head(s) \in X \/ Accepted(k, Head(s))
                 /\ AllAccepted(After(k, Head(s)), Tail(s), X)
  <1> DEFINE c == Head(s)
             t == Tail(s)
  <1>1. c \in Line /\ t \in Seq(Line) /\ s = <<c>> \o t
    <2>1. s # <<>>
      OBVIOUS
    <2> QED
      BY <2>1, HeadTailProperties, HeadAndTail
  <1> DEFINE h == <<c>>
  <1> HIDE DEF c, t
  <1>2. h \in Seq(Line) /\ Effect(k, h) = After(k, c)
        /\ (AllAccepted(k, h, X) <=> c \in X \/ Accepted(k, c))
    BY <1>1, OneLine
  <1> HIDE DEF h
  <1>3. Effect(k, h \o t) = Effect(After(k, c), t)
    BY <1>1, <1>2, StageBeyond
  <1>4. AllAccepted(k, h \o t, X) <=>
            (c \in X \/ Accepted(k, c)) /\ AllAccepted(After(k, c), t, X)
    BY <1>1, <1>2, AcceptedBeyond
  <1> QED
    BY <1>1, <1>3, <1>4 DEF c, t, h

(***************************************************************************)
(* Lines that find the chains C in the filter table, and leave D.          *)
(***************************************************************************)
FilterChains(k) == { c \in Exists(k) : Table(c) = "filter" }

Leads(C, s, D, X) ==
    /\ s \in Seq(Line)
    /\ \A k : IsKernel(k) /\ FilterChains(k) = C =>
                 AllAccepted(k, s, X) /\ FilterChains(Effect(k, s)) = D

(* Two scripts that fit each other,                                        *)
LEMMA LeadsOn ==
    ASSUME NEW B, NEW C, NEW D, NEW X, NEW s, NEW t, Leads(B, s, C, X), Leads(C, t, D, X)
    PROVE  Leads(B, s \o t, D, X)
  <1>1. s \in Seq(Line) /\ t \in Seq(Line) /\ s \o t \in Seq(Line)
    BY ConcatProperties DEF Leads
  <1>2. ASSUME NEW k, IsKernel(k), FilterChains(k) = B
        PROVE  AllAccepted(k, s \o t, X) /\ FilterChains(Effect(k, s \o t)) = D
    <2>1. AllAccepted(k, s, X) /\ FilterChains(Effect(k, s)) = C
      BY <1>2 DEF Leads
    <2>2. IsKernel(Effect(k, s)) /\ Effect(k, s \o t) = Effect(Effect(k, s), t)
      BY <1>1, <1>2, StageSteps, StageBeyond
    <2>3. AllAccepted(Effect(k, s), t, X) /\ FilterChains(Effect(Effect(k, s), t)) = D
      BY <2>1, <2>2 DEF Leads
    <2> QED
      BY <1>1, <1>2, <2>1, <2>2, <2>3, AcceptedBeyond
  <1> QED
    BY <1>1, <1>2 DEF Leads

(* one line,                                                               *)
LEMMA LeadsOne ==
    ASSUME NEW C, NEW D, NEW X, NEW c \in Line,
           \A k : IsKernel(k) /\ FilterChains(k) = C =>
                     (c \in X \/ Accepted(k, c)) /\ FilterChains(After(k, c)) = D
    PROVE  Leads(C, <<c>>, D, X)
  <1>1. <<c>> \in Seq(Line)
    OBVIOUS
  <1>2. ASSUME NEW k, IsKernel(k), FilterChains(k) = C
        PROVE  AllAccepted(k, <<c>>, X) /\ FilterChains(Effect(k, <<c>>)) = D
    <2>1. Effect(k, <<c>>) = After(k, c)
          /\ (AllAccepted(k, <<c>>, X) <=> c \in X \/ Accepted(k, c))
      BY <1>2, OneLine
    <2>2. (c \in X \/ Accepted(k, c)) /\ FilterChains(After(k, c)) = D
      BY <1>2
    <2> QED
      BY <2>1, <2>2
  <1> QED
    BY <1>1, <1>2 DEF Leads

(* no line,                                                                *)
LEMMA LeadsNowhere ==
    ASSUME NEW C, NEW X
    PROVE  Leads(C, <<>>, C, X)
  <1>1. <<>> \in Seq(Line)
    BY EmptySeq
  <1> QED
    BY <1>1, NoLine DEF Leads

(* and lines that depend on a condition.                                   *)
LEMMA LeadsIf ==
    ASSUME NEW C, NEW X, NEW condition, NEW s, condition => Leads(C, s, C, X)
    PROVE  Leads(C, If(condition, s), C, X)
  BY LeadsNowhere DEF If

(* The chains after each command.                                          *)
LEMMA ChainsAfter ==
    ASSUME NEW k, IsKernel(k), NEW cmd \in Line
    PROVE  /\ cmd.op \in {"-P", "-F", "-A", "-I", "*", "COMMIT"} => Exists(After(k, cmd)) = Exists(k)
           /\ cmd.op = "-N" => Exists(After(k, cmd)) = Exists(k) \union {cmd.chain}
           /\ cmd.op = "-X" /\ Accepted(k, cmd) =>
                Exists(After(k, cmd)) = { d \in Exists(k) : Table(d) = cmd.table => d \in BuiltinChains }
  <1>0. k = [policy |-> k.policy, rules |-> k.rules] /\ k.rules \in [DOMAIN k.rules -> Seq(Rule)]
    BY DEF IsKernel, Exists
  <1>1. CASE cmd.op \in {"*", "COMMIT"} \/ ~Accepted(k, cmd)
    <2>1. After(k, cmd) = k
      BY <1>1 DEF After, Accepted
    <2>2. cmd.op = "-N" => cmd.chain \in Exists(k)
      BY <1>1 DEF Accepted
    <2> QED
      BY <1>1, <2>1, <2>2
  <1>2. CASE Accepted(k, cmd)
    <2>1. After(k, cmd) = Obeyed(k, cmd)
      BY <1>2 DEF After
    <2>2. CASE cmd.op = "-P"
      BY <1>0, <2>1, <2>2 DEF Obeyed, Exists
    <2>3. CASE cmd.op = "-F"
      BY <1>0, <2>1, <2>3 DEF Obeyed, Exists
    <2>4. CASE cmd.op \in {"-A", "-I"}
      BY <1>0, <2>1, <2>4 DEF Obeyed, Exists
    <2>5. CASE cmd.op = "-N"
      BY <1>0, <2>1, <2>5 DEF Obeyed, Exists
    <2>6. CASE cmd.op = "-X"
      BY <1>0, <2>1, <2>6 DEF Obeyed, Exists
    <2> QED
      BY <1>1, <2>2, <2>3, <2>4, <2>5, <2>6
  <1> QED
    BY <1>1, <1>2

(* A table can be emptied: once it is flushed, no chain of it is in use.   *)
LEMMA Flushed ==
    ASSUME NEW k, IsKernel(k), NEW t \in {"filter", "nat"}
    PROVE  LET f == [op |-> "-F", table |-> t]
               x == [op |-> "-X", table |-> t]
               n == After(k, f)
           IN  /\ f \in Line /\ x \in Line
               /\ Accepted(k, f) /\ Accepted(n, x) /\ IsKernel(n) /\ IsKernel(After(n, x))
               /\ Exists(After(n, x)) = { d \in Exists(k) : Table(d) = t => d \in BuiltinChains }
  <1> DEFINE f == [op |-> "-F", table |-> t]
             x == [op |-> "-X", table |-> t]
             n == After(k, f)
  <1>1. f \in Line /\ x \in Line /\ Accepted(k, f) /\ f.op = "-F" /\ x.op = "-X" /\ x.table = t
    BY DEF Line, Command, Accepted
  <1>2. IsKernel(n) /\ Exists(n) = Exists(k)
    BY <1>1, AfterIsKernel, ChainsAfter
  <1>3. \A c \in Exists(k) : Table(c) = t => n.rules[c] = <<>>
    BY <1>1 DEF After, Obeyed, IsKernel
  <1> HIDE DEF f, x, n
  <1>4. Accepted(n, x)
    <2> SUFFICES ASSUME NEW c \in Exists(n) \ BuiltinChains, Table(c) = t
                 PROVE  Unused(n, c)
      BY <1>1 DEF Accepted
    <2>1. n.rules[c] = <<>>
      BY <1>2, <1>3
    <2>2. ASSUME NEW d \in Exists(n), NEW i \in 1..Len(n.rules[d]), n.rules[d][i].jump = c
          PROVE  FALSE
      <3>1. JumpOK(n, d, c)
        BY <1>2, <2>2 DEF IsKernel, Linked
      <3>2. c \in Chain
        BY <1>2 DEF IsKernel
      <3>3. Table(d) = t
        BY <3>1, <3>2 DEF JumpOK, Chain, FilterBase, Builtin, NatBase, Verdict, Alteration
      <3>4. Len(n.rules[d]) = 0
        BY <1>2, <1>3, <3>3, EmptySeq
      <3> QED
        BY <3>4
    <2> QED
      BY <2>1, <2>2 DEF Unused
  <1>5. IsKernel(After(n, x))
    BY <1>1, <1>2, AfterIsKernel
  <1>6. Exists(After(n, x)) = { d \in Exists(n) : Table(d) = t => d \in BuiltinChains }
    BY <1>1, <1>2, <1>4, ChainsAfter
  <1> QED
    BY <1>1, <1>2, <1>4, <1>5, <1>6 DEF f, x, n

BuiltinFilter == { Base(b) : b \in Builtin }

(* No kernel lacks a builtin chain.                                        *)
LEMMA BuiltinInFilter ==
    ASSUME NEW k, IsKernel(k)
    PROVE  /\ BuiltinFilter = { c \in BuiltinChains : Table(c) = "filter" }
           /\ BuiltinFilter \subseteq FilterChains(k)
  <1>1. \A b \in Builtin \union NatBase : Table(Base(b)) = IF b \in NatBase THEN "nat" ELSE "filter"
    BY DEF Table, Base
  <1>2. \A b \in Builtin : b \notin NatBase
    BY DEF Builtin, NatBase
  <1>3. BuiltinFilter = { c \in BuiltinChains : Table(c) = "filter" }
    BY <1>1, <1>2 DEF BuiltinFilter, BuiltinChains
  <1> QED
    BY <1>3 DEF FilterChains, IsKernel

(* The flush of a table.                                                   *)
LEMMA LeadsTable ==
    ASSUME NEW C, NEW X, NEW t \in {"filter", "nat"}
    PROVE  Leads(C, FlushTable(t), IF t = "filter" THEN BuiltinFilter ELSE C, X)
  <1> DEFINE f == [op |-> "-F", table |-> t]
             x == [op |-> "-X", table |-> t]
             s == FlushTable(t)
             u == <<x>>
             D == IF t = "filter" THEN BuiltinFilter ELSE C
  <1>1. f \in Line /\ x \in Line
    BY DEF Line, Command
  <1>2. s \in Seq(Line) /\ s # <<>> /\ Head(s) = f /\ Tail(s) = u
    BY <1>1 DEF FlushTable
  <1>3. ASSUME NEW k, IsKernel(k), FilterChains(k) = C
        PROVE  AllAccepted(k, s, X) /\ FilterChains(Effect(k, s)) = D
    <2> DEFINE n == After(k, f)
    <2>1. /\ Accepted(k, f) /\ Accepted(n, x) /\ IsKernel(n) /\ IsKernel(After(n, x))
          /\ Exists(After(n, x)) = { d \in Exists(k) : Table(d) = t => d \in BuiltinChains }
      BY <1>3, Flushed
    <2> HIDE DEF f, x, s, u
    <2>2. Effect(n, u) = After(n, x) /\ AllAccepted(n, u, X)
      BY <1>1, <2>1, OneLine DEF u
    <2>3. Effect(k, s) = After(n, x) /\ AllAccepted(k, s, X)
      BY <1>2, <1>3, <2>1, <2>2, FirstLine
    <2>4. FilterChains(After(n, x)) = D
      <3>1. BuiltinFilter = { c \in BuiltinChains : Table(c) = "filter" }
            /\ BuiltinFilter \subseteq FilterChains(k)
        BY <1>3, BuiltinInFilter
      <3>2. \A c : Table(c) = "filter" => Table(c) # "nat"
        OBVIOUS
      <3> QED
        BY <1>3, <2>1, <3>1, <3>2 DEF FilterChains
    <2> QED
      BY <2>3, <2>4
  <1> HIDE DEF s, D
  <1> QED
    BY <1>2, <1>3 DEF Leads, s, D

(* A policy that iptables accepts.                                         *)
LEMMA LeadsPolicies ==
    ASSUME NEW C, NEW X, NEW v \in {"ACCEPT", "DROP"}
    PROVE  Leads(C, SetPolicy(v), C, X)
  <1> DEFINE p(i) == [op |-> "-P", chain |-> Base(Chains[i]), jump |-> Base(v)]
  <1>1. ASSUME NEW i \in 1..3
        PROVE  Leads(C, <<p(i)>>, C, X)
    <2>1. Chains[i] \in Builtin /\ Base(v) \in Jump /\ Base(v).base = v
      BY DEF Chains, Builtin, Base, Jump, Verdict, Group
    <2>2. p(i) \in Line /\ p(i).op = "-P" /\ \A k : Accepted(k, p(i))
      BY <2>1 DEF Line, Command, Accepted
    <2> HIDE DEF p
    <2>3. \A k : IsKernel(k) => Exists(After(k, p(i))) = Exists(k)
      BY <2>2, ChainsAfter
    <2> QED
      BY <2>2, <2>3, LeadsOne DEF FilterChains
  <1>2. SetPolicy(v) = <<p(1)>> \o <<p(2)>> \o <<p(3)>>
    BY DEF SetPolicy
  <1> HIDE DEF p
  <1>3. Leads(C, <<p(1)>>, C, X) /\ Leads(C, <<p(2)>>, C, X) /\ Leads(C, <<p(3)>>, C, X)
    BY <1>1
  <1>4. Leads(C, <<p(1)>> \o <<p(2)>>, C, X)
    BY <1>3, LeadsOn
  <1> QED
    BY <1>2, <1>3, <1>4, LeadsOn

(* A rule in a chain that is there, with a target that is there.           *)
LEMMA LeadsPut ==
    ASSUME NEW C, NEW X, NEW op \in {"-A", "-I"}, NEW chain \in Chain, NEW tests \in SUBSET Test,
           NEW jump \in Jump, chain \in C \union BuiltinChains,
           jump.base \in Verdict \union Alteration \/ (jump \in C /\ chain \in C)
    PROVE  Leads(C, Put(op, chain, tests, jump), C, X)
  <1> DEFINE cmd == [op |-> op, chain |-> chain, rule |-> [tests |-> tests, jump |-> jump]]
  <1>1. cmd \in Line
    BY DEF Line, Command, Rule
  <1>2. ASSUME NEW k, IsKernel(k), FilterChains(k) = C
        PROVE  Accepted(k, cmd) /\ FilterChains(After(k, cmd)) = C
    <2>1. C \subseteq Exists(k) /\ BuiltinChains \subseteq Exists(k)
      BY <1>2 DEF FilterChains, IsKernel
    <2>2. chain \in Exists(k) /\ JumpOK(k, chain, jump)
      BY <1>2, <2>1 DEF JumpOK, FilterChains
    <2>3. Accepted(k, cmd)
      BY <2>2 DEF Accepted
    <2>4. Exists(After(k, cmd)) = Exists(k)
      BY <1>1, <1>2, ChainsAfter
    <2> QED
      BY <1>2, <2>3, <2>4 DEF FilterChains
  <1>3. Put(op, chain, tests, jump) = <<cmd>>
    BY DEF Put
  <1> HIDE DEF cmd
  <1>4. Leads(C, <<cmd>>, C, X)
    BY <1>1, <1>2, LeadsOne
  <1> QED
    BY <1>3, <1>4

(* A chain that is not there yet, or that may be refused.                  *)
LEMMA LeadsNew ==
    ASSUME NEW C, NEW X, NEW c \in Chain, Table(c) = "filter", c \notin C \/ NewChain(c) \in X
    PROVE  Leads(C, <<NewChain(c)>>, C \union {c}, X)
  <1>1. NewChain(c) \in Line /\ NewChain(c).op = "-N" /\ NewChain(c).chain = c
    BY DEF NewChain, Line, Command
  <1>2. ASSUME NEW k, IsKernel(k), FilterChains(k) = C
        PROVE  /\ NewChain(c) \in X \/ Accepted(k, NewChain(c))
               /\ FilterChains(After(k, NewChain(c))) = C \union {c}
    <2>1. Exists(After(k, NewChain(c))) = Exists(k) \union {c}
      BY <1>1, <1>2, ChainsAfter
    <2>2. c \notin C => Accepted(k, NewChain(c))
      BY <1>1, <1>2 DEF Accepted, FilterChains
    <2> QED
      BY <1>2, <2>1, <2>2 DEF FilterChains
  <1> QED
    BY <1>1, <1>2, LeadsOne

-----------------------------------------------------------------------------
(***************************************************************************)
(* What the callbacks print                                                *)
(***************************************************************************)
Ground == { Base(b) : b \in FilterBase }

GroupBase == {"INPUT", "OUTPUT", "FORWARD", "FORW_OUT"}

(* The chains of a group; without a group, those of the skeleton.          *)
ChainsOf(g) == { [group |-> g, base |-> b] : b \in GroupBase }

(* What a rule may do with a packet: decide, alter, or pass it on to a     *)
(* chain of the skeleton or of the group it jumps to.                      *)
Aims(ent, jump) ==
    /\ jump \in Jump
    /\ \/ jump.base \in Verdict \union Alteration
       \/ jump \in Ground
       \/ Jumps(ent) /\ jump \in ChainsOf(ent.m["SUBGROUP"])

(* The tests of a rule and of its return rule are tests of iptables.       *)
LEMMA TestsTyped ==
    ASSUME NEW ent \in Ent, ent.dir \in Direction
    PROVE  /\ RuleTests(ent) \in SUBSET Test
           /\ NatTests(ent) \in SUBSET Test
           /\ ReturnTests(ent) \in SUBSET Test
  <1>1. ent.m \in [FieldType -> Value \union {NULL}]
    BY DEF Ent
  <1>2. /\ DOMAIN Flags(ent.dir) \subseteq FieldType
        /\ \A t \in DOMAIN Flags(ent.dir) : Flags(ent.dir)[t] \in Flag
    BY DEF Flags, IfaceFlag, Flag, FieldType, LeafType
  <1>3. /\ DOMAIN ReturnFlags(ent.dir) \subseteq FieldType
        /\ \A t \in DOMAIN ReturnFlags(ent.dir) : ReturnFlags(ent.dir)[t] \in Flag
    BY DEF ReturnFlags, IfaceFlag, Flag, FieldType, LeafType
  <1>4. ASSUME NEW flags, DOMAIN flags \subseteq FieldType,
               \A t \in DOMAIN flags : flags[t] \in Flag
        PROVE  FieldTests(ent, flags) \in SUBSET Test
    <2>1. ASSUME NEW t \in DOMAIN flags, Tested(ent, t)
          PROVE  [flag |-> flags[t], vals |-> {ent.m[t]}, neg |-> t \in ent.neg] \in Test
      <3>1. ent.m[t] \in Value
        BY <1>1, <1>4, <2>1 DEF Tested
      <3> QED
        BY <1>4, <2>1, <3>1 DEF Test
    <2> QED
      BY <2>1 DEF FieldTests
  <1>5. "PROTO" \in FieldType
    BY DEF FieldType, LeafType
  <1>6. ProtoTests(ent) \in SUBSET Test
    BY <1>1, <1>5 DEF ProtoTests, Only, Test, Flag
  <1>7. StateTests(ent) \in SUBSET Test
    BY DEF StateTests, Test, Flag, State
  <1>8. ReturnStateTests(ent) \in SUBSET Test
    <2>1. Only("--ctstate", "ESTABLISHED") \in Test
      BY DEF Only, Test, Flag, State
    <2>2. [flag |-> "--syn", vals |-> {"yes"}, neg |-> TRUE] \in Test
      BY DEF Test, Flag
    <2> QED
      BY <2>1, <2>2 DEF ReturnStateTests
  <1>9. FieldTests(ent, Flags(ent.dir)) \in SUBSET Test
        /\ FieldTests(ent, ReturnFlags(ent.dir)) \in SUBSET Test
    BY <1>2, <1>3, <1>4
  <1> QED
    BY <1>6, <1>7, <1>8, <1>9 DEF RuleTests, NatTests, ReturnTests

(* The chains and targets of a rule that is not refused.  A chain for      *)
(* packets on their way in never gets a rule that accepts.                 *)
LEMMA RuleParts ==
    ASSUME NEW ent \in Ent, NEW f \in Family, ~Refused(ent, f)
    PROVE  /\ ent.dir \in {"INPUT", "OUTPUT"} /\ Opposite(ent.dir) \in {"INPUT", "OUTPUT"}
           /\ {ent.dir, Opposite(ent.dir), Forwarding(ent.dir), Forwarding(Opposite(ent.dir))}
                  \subseteq GroupBase
           /\ {Forwarding(ent.dir), Forwarding(Opposite(ent.dir))} \subseteq {"FORWARD", "FORW_OUT"}
           /\ NatChain(ent.dir) \in NatBase
           /\ \A b \in GroupBase \union NatBase :
                  SubChain(ent, b) \in Chain /\ SubChain(ent, b).base = b
           /\ \A b \in FilterBase : Base(b) \in Chain /\ Base(b).base = b
           /\ RuleTests(ent) \in SUBSET Test /\ NatTests(ent) \in SUBSET Test
           /\ ReturnTests(ent) \in SUBSET Test
           /\ Aims(ent, RuleTarget(ent)) /\ Aims(ent, ReturnTarget(ent))
           /\ Aims(ent, ForwardTarget(ent)) /\ Aims(ent, ForwardReturnTarget(ent))
           /\ Denies(ent) => Aims(ent, Denial(ent)) /\ Denial(ent) # Base("ACCEPT")
           /\ Forwarding(ent.dir) = "FORWARD" => ForwardTarget(ent) # Base("ACCEPT")
           /\ Forwarding(Opposite(ent.dir)) = "FORWARD" => ForwardReturnTarget(ent) # Base("ACCEPT")
           /\ NatTarget(ent) \in Jump /\ NatTarget(ent).base \in Alteration
           /\ Base("LOG") \in Jump /\ Base("LOG").base \in Alteration /\ Base("LOG") # Base("ACCEPT")
  <1>1. ent.dir \in Direction /\ (Permits(ent) \/ Denies(ent) \/ Jumps(ent))
    BY DEF Refused
  <1>2. ent.dir \in {"INPUT", "OUTPUT"}
    BY <1>1 DEF Direction
  <1>3. ent.group \in Group /\ ent.m["SUBGROUP"] \in Group /\ NULL \in Group
    BY DEF Ent, Group, FieldType
  <1>4. /\ Opposite(ent.dir) \in {"INPUT", "OUTPUT"}
        /\ Forwarding(ent.dir) \in {"FORWARD", "FORW_OUT"}
        /\ Forwarding(Opposite(ent.dir)) \in {"FORWARD", "FORW_OUT"}
        /\ NatChain(ent.dir) \in NatBase
    BY DEF Opposite, Forwarding, NatChain, NatBase
  <1>5. GroupBase \subseteq FilterBase
    BY DEF GroupBase, FilterBase, Builtin
  <1>6. /\ \A b \in GroupBase \union NatBase : SubChain(ent, b) \in Chain /\ SubChain(ent, b).base = b
        /\ \A b \in FilterBase : Base(b) \in Chain /\ Base(b).base = b
    BY <1>3, <1>5 DEF SubChain, Base, Chain
  <1>7. /\ RuleTests(ent) \in SUBSET Test /\ NatTests(ent) \in SUBSET Test
        /\ ReturnTests(ent) \in SUBSET Test
    BY <1>1, TestsTyped
  <1>8. \A b \in GroupBase : Jumps(ent) => Aims(ent, InGroup(ent, b)) /\ InGroup(ent, b).base = b
    BY <1>3, <1>5 DEF Aims, InGroup, Jump, ChainsOf
  <1>9. /\ \A v \in Verdict \union Alteration \union FilterBase :
             Base(v) \in Jump /\ Aims(ent, Base(v)) /\ Base(v).base = v
        /\ {"ACCEPT", "DROP", "REJECT"} \subseteq Verdict
        /\ {"LOG", "MASQUERADE", "REDIRECT"} \subseteq Alteration /\ "FORW_OUT" \in FilterBase
        /\ "ACCEPT" \notin GroupBase /\ "ACCEPT" \notin Alteration
    BY DEF Base, Aims, Jump, Group, Verdict, Alteration, Ground, FilterBase, GroupBase
  <1>10. Denies(ent) => Aims(ent, Denial(ent)) /\ Denial(ent) # Base("ACCEPT")
    <2> HAVE Denies(ent)
    <2>1. ent.m["TARGET"] \in {"DROP", "REJECT"}
      BY DEF Denies
    <2>2. ent.m["TARGET"] \in Verdict /\ Base(ent.m["TARGET"]).base # "ACCEPT"
      BY <1>9, <2>1
    <2> QED
      BY <1>9, <2>2 DEF Denial
  <1>11. /\ {"INPUT", "OUTPUT", "FORWARD", "FORW_OUT"} = GroupBase
         /\ \A b \in GroupBase : InGroup(ent, b) # Base("ACCEPT")
         /\ Base("FORW_OUT") # Base("ACCEPT")
    BY <1>9 DEF GroupBase, InGroup, Base
  <1>12. Aims(ent, RuleTarget(ent)) /\ Aims(ent, ReturnTarget(ent))
    BY <1>2, <1>4, <1>8, <1>9, <1>10, <1>11 DEF RuleTarget, ReturnTarget
  <1>13. /\ Aims(ent, ForwardTarget(ent))
         /\ Forwarding(ent.dir) = "FORWARD" => ForwardTarget(ent) # Base("ACCEPT")
    BY <1>2, <1>4, <1>8, <1>9, <1>10, <1>11 DEF ForwardTarget, Forwarding
  <1>14. /\ Aims(ent, ForwardReturnTarget(ent))
         /\ Forwarding(Opposite(ent.dir)) = "FORWARD" => ForwardReturnTarget(ent) # Base("ACCEPT")
    BY <1>2, <1>4, <1>8, <1>9, <1>11 DEF ForwardReturnTarget, Forwarding, Opposite
  <1>15. NatTarget(ent) \in Jump /\ NatTarget(ent).base \in Alteration
    BY <1>9 DEF NatTarget
  <1>16. /\ Base("LOG") \in Jump /\ Base("LOG").base \in Alteration /\ Base("LOG") # Base("ACCEPT")
    BY <1>9
  <1>17. /\ {ent.dir, Opposite(ent.dir), Forwarding(ent.dir), Forwarding(Opposite(ent.dir))}
                  \subseteq GroupBase
    BY <1>2, <1>4, <1>11
  <1> QED
    BY <1>2, <1>4, <1>6, <1>7, <1>10, <1>12, <1>13, <1>14, <1>15, <1>16, <1>17

(* The chains of a group, one after the other.                             *)
LEMMA LeadsGroup ==
    ASSUME NEW C, NEW X, NEW name \in Group,
           \A c \in ChainsOf(name) : c \notin C \/ NewChain(c) \in X
    PROVE  Leads(C, GroupCommands(name), C \union ChainsOf(name), X)
  <1> DEFINE c(b) == [group |-> name, base |-> b]
             s(b) == <<NewChain(c(b))>>
  <1>1. ASSUME NEW b \in GroupBase, NEW D, C \subseteq D, c(b) \notin D \ C
        PROVE  Leads(D, s(b), D \union {c(b)}, X)
    <2>1. c(b) \in Chain /\ Table(c(b)) = "filter" /\ c(b) \in ChainsOf(name)
      BY DEF GroupBase, Chain, FilterBase, Builtin, Table, NatBase, ChainsOf
    <2>2. c(b) \notin D \/ NewChain(c(b)) \in X
      BY <1>1, <2>1
    <2> HIDE DEF c
    <2> QED
      BY <2>1, <2>2, LeadsNew
  <1>2. GroupCommands(name) = s("INPUT") \o s("OUTPUT") \o s("FORWARD") \o s("FORW_OUT")
    BY DEF GroupCommands
  <1>3. /\ GroupBase = {"INPUT", "OUTPUT", "FORWARD", "FORW_OUT"}
        /\ \A a, b : c(a) = c(b) => a = b
        /\ C \union ChainsOf(name) =
             C \union {c("INPUT")} \union {c("OUTPUT")} \union {c("FORWARD")} \union {c("FORW_OUT")}
    BY DEF GroupBase, ChainsOf
  <1> DEFINE C1 == C \union {c("INPUT")}
             C2 == C1 \union {c("OUTPUT")}
             C3 == C2 \union {c("FORWARD")}
             C4 == C3 \union {c("FORW_OUT")}
  <1> HIDE DEF c, s
  <1>4. Leads(C, s("INPUT"), C1, X)
    BY <1>1, <1>3
  <1>5. Leads(C1, s("OUTPUT"), C2, X)
    <2>1. C \subseteq C1 /\ c("OUTPUT") \notin C1 \ C
      BY <1>3
    <2> QED
      BY <1>1, <1>3, <2>1
  <1>6. Leads(C2, s("FORWARD"), C3, X)
    <2>1. C \subseteq C2 /\ c("FORWARD") \notin C2 \ C
      BY <1>3
    <2> QED
      BY <1>1, <1>3, <2>1
  <1>7. Leads(C3, s("FORW_OUT"), C4, X)
    <2>1. C \subseteq C3 /\ c("FORW_OUT") \notin C3 \ C
      BY <1>3
    <2> QED
      BY <1>1, <1>3, <2>1
  <1> HIDE DEF C1, C2, C3, C4
  <1>8. Leads(C, s("INPUT") \o s("OUTPUT") \o s("FORWARD") \o s("FORW_OUT"), C4, X)
    <2>1. Leads(C, s("INPUT") \o s("OUTPUT"), C2, X)
      BY <1>4, <1>5, LeadsOn
    <2>2. Leads(C, s("INPUT") \o s("OUTPUT") \o s("FORWARD"), C3, X)
      BY <2>1, <1>6, LeadsOn
    <2> QED
      BY <2>2, <1>7, LeadsOn
  <1> QED
    BY <1>2, <1>3, <1>8 DEF C1, C2, C3, C4

(* A rule: its own group and the one it jumps to are there.  The nat table *)
(* has no chains for groups.                                               *)
Placed(ent, C) ==
    /\ Ground \subseteq C
    /\ ChainsOf(ent.group) \subseteq C
    /\ Jumps(ent) => ChainsOf(ent.m["SUBGROUP"]) \subseteq C

(* The lines for a text of a rule, in its chain or in its group's.         *)
LEMMA LeadsPlaced ==
    ASSUME NEW C, NEW X, NEW ent \in Ent, NEW f \in Family, ~Refused(ent, f), Placed(ent, C),
           NEW op \in {"-A", "-I"}, NEW b \in GroupBase, NEW tests \in SUBSET Test, NEW jump,
           Aims(ent, jump)
    PROVE  /\ Leads(C, Put(op, SubChain(ent, b), tests, jump), C, X)
           /\ Leads(C, Put(op, Base(b), tests, jump), C, X)
  <1>1. SubChain(ent, b) \in C /\ Base(b) \in C
    BY DEF Placed, SubChain, ChainsOf, Ground, GroupBase, FilterBase, Builtin
  <1>2. jump \in Jump /\ (jump.base \in Verdict \union Alteration \/ jump \in C)
    BY DEF Placed, Aims
  <1>3. SubChain(ent, b) \in Chain /\ Base(b) \in Chain
    <2>1. b \in FilterBase /\ b \in GroupBase
      BY DEF GroupBase, FilterBase, Builtin
    <2> QED
      BY <2>1, RuleParts
  <1> QED
    BY <1>1, <1>2, <1>3, LeadsPut

(* What a rule in a group asks of the nat table; there is no such chain.   *)
Homeless(ent, c) ==
    c \in Command /\ c.op = "-A" /\ ent.group # NULL /\ NeedsNat(ent)
      /\ c.chain = SubChain(ent, NatChain(ent.dir))

(* A rule whose chains are there is accepted, and makes no chain.          *)
LEMMA LeadsRule ==
    ASSUME NEW C, NEW X, NEW ent \in Ent, NEW f \in Family, ~Refused(ent, f), Placed(ent, C),
           \A c : Homeless(ent, c) => c \in X
    PROVE  Leads(C, RuleCommands(ent), C, X)
  <1>1. /\ {ent.dir, Opposite(ent.dir), Forwarding(ent.dir), Forwarding(Opposite(ent.dir))}
                  \subseteq GroupBase
        /\ NatChain(ent.dir) \in NatBase
        /\ RuleTests(ent) \in SUBSET Test /\ NatTests(ent) \in SUBSET Test
        /\ ReturnTests(ent) \in SUBSET Test
        /\ Aims(ent, RuleTarget(ent)) /\ Aims(ent, ReturnTarget(ent))
        /\ Aims(ent, ForwardTarget(ent)) /\ Aims(ent, ForwardReturnTarget(ent))
        /\ NatTarget(ent) \in Jump /\ NatTarget(ent).base \in Alteration
        /\ SubChain(ent, NatChain(ent.dir)) \in Chain
        /\ Base("LOG") \in Jump /\ Base("LOG").base \in Alteration
    BY RuleParts
  <1>2. Aims(ent, Base("LOG"))
    BY <1>1 DEF Aims
  <1>3. Leads(C, LogCommands(ent), C, X)
    <2>1. /\ Leads(C, Put("-A", Base(ent.dir), RuleTests(ent), Base("LOG")), C, X)
          /\ Leads(C, Put("-A", Base(Forwarding(ent.dir)), RuleTests(ent), Base("LOG")), C, X)
      BY <1>1, <1>2, LeadsPlaced
    <2> QED
      BY <2>1, LeadsIf, LeadsOn DEF LogCommands
  <1>4. NeedsNat(ent) =>
          Leads(C, Put("-A", SubChain(ent, NatChain(ent.dir)), NatTests(ent), NatTarget(ent)), C, X)
    <2> HAVE NeedsNat(ent)
    <2>1. CASE ent.group = NULL
      <3>1. SubChain(ent, NatChain(ent.dir)) \in BuiltinChains
        BY <1>1, <2>1 DEF SubChain, BuiltinChains, Base
      <3> QED
        BY <1>1, <3>1, LeadsPut
    <2>2. CASE ent.group # NULL
      <3> DEFINE chain == SubChain(ent, NatChain(ent.dir))
                 cmd == [op |-> "-A", chain |-> chain,
                         rule |-> [tests |-> NatTests(ent), jump |-> NatTarget(ent)]]
      <3>1. cmd \in Command /\ cmd \in Line /\ cmd.op = "-A" /\ cmd.chain = chain
        BY <1>1 DEF Line, Command, Rule
      <3>2. Put("-A", chain, NatTests(ent), NatTarget(ent)) = <<cmd>>
        BY DEF Put
      <3> HIDE DEF cmd
      <3>3. cmd \in X
        BY <2>2, <3>1 DEF Homeless
      <3>4. ASSUME NEW k, IsKernel(k), FilterChains(k) = C
            PROVE  FilterChains(After(k, cmd)) = C
        BY <3>1, <3>4, ChainsAfter DEF FilterChains
      <3>5. Leads(C, <<cmd>>, C, X)
        BY <3>1, <3>3, <3>4, LeadsOne
      <3> QED
        BY <3>2, <3>5
    <2> QED
      BY <2>1, <2>2
  <1>5. Leads(C, Put("-A", SubChain(ent, ent.dir), RuleTests(ent), RuleTarget(ent)), C, X)
    BY <1>1, LeadsPlaced
  <1>6. Leads(C, Put("-I", SubChain(ent, Opposite(ent.dir)), ReturnTests(ent), ReturnTarget(ent)), C, X)
    BY <1>1, LeadsPlaced
  <1>7. Leads(C, Put("-A", SubChain(ent, Forwarding(ent.dir)), RuleTests(ent), ForwardTarget(ent)), C, X)
    BY <1>1, LeadsPlaced
  <1>8. Leads(C, Put("-I", SubChain(ent, Forwarding(Opposite(ent.dir))), ReturnTests(ent),
                     ForwardReturnTarget(ent)), C, X)
    BY <1>1, LeadsPlaced
  <1> QED
    BY <1>3, <1>4, <1>5, <1>6, <1>7, <1>8, LeadsIf, LeadsOn DEF RuleCommands

(* The skeleton's own chains, and what is in them.                         *)
LEMMA LeadsGround ==
    ASSUME NEW C, NEW X, NEW s, Leads(C, s, BuiltinFilter, X)
    PROVE  Leads(C, s \o << NewChain(Base("FORW_OUT")), NewChain(Base("INVALID")) >>
                      \o Put("-A", Base("INVALID"), {}, Base("DROP"))
                      \o Put("-I", Base("INPUT"), InvalidTests, Base("INVALID"))
                      \o Put("-I", Base("OUTPUT"), InvalidTests, Base("INVALID"))
                      \o Put("-I", Base("FORWARD"), InvalidTests, Base("INVALID")), Ground, X)
  <1> DEFINE B1 == BuiltinFilter \union {Base("FORW_OUT")}
             B2 == B1 \union {Base("INVALID")}
             n1 == <<NewChain(Base("FORW_OUT"))>>
             n2 == <<NewChain(Base("INVALID"))>>
  <1>1. /\ \A b \in FilterBase : Base(b) \in Chain /\ Base(b).base = b /\ Table(Base(b)) = "filter"
                                 /\ Base(b) \in Jump
        /\ Base("DROP") \in Jump /\ Base("DROP").base \in Verdict
        /\ {"INPUT", "OUTPUT", "FORWARD", "FORW_OUT", "INVALID"} = FilterBase
        /\ InvalidTests \in SUBSET Test /\ {} \in SUBSET Test
    BY DEF Base, Chain, Group, Table, NatBase, FilterBase, Builtin, Jump, Verdict, InvalidTests,
           Only, Test, Flag, State
  <1>2. Base("FORW_OUT") \notin BuiltinFilter /\ Base("INVALID") \notin B1
    BY DEF BuiltinFilter, Builtin, Base
  <1>3. Leads(BuiltinFilter, n1, B1, X) /\ Leads(B1, n2, B2, X)
    BY <1>1, <1>2, LeadsNew
  <1>4. B2 = Ground
    BY DEF BuiltinFilter, Ground, FilterBase
  <1>5. << NewChain(Base("FORW_OUT")), NewChain(Base("INVALID")) >> = n1 \o n2
    OBVIOUS
  <1> HIDE DEF B1, B2, n1, n2
  <1>6. Leads(BuiltinFilter, n1 \o n2, Ground, X)
    BY <1>3, <1>4, LeadsOn
  <1>7. \A b \in FilterBase : Base(b) \in Ground
    BY DEF Ground
  <1>8. Leads(Ground, Put("-A", Base("INVALID"), {}, Base("DROP")), Ground, X)
    BY <1>1, <1>7, LeadsPut
  <1>9. \A b \in Builtin :
          Leads(Ground, Put("-I", Base(b), InvalidTests, Base("INVALID")), Ground, X)
    <2> TAKE b \in Builtin
    <2>1. b \in FilterBase
      BY DEF FilterBase
    <2> QED
      BY <1>1, <1>7, <2>1, LeadsPut
  <1> QED
    BY <1>5, <1>6, <1>8, <1>9, LeadsOn DEF Builtin

(* A flush leaves the builtin chains, whatever there was.                  *)
LEMMA LeadsFlush ==
    ASSUME NEW C, NEW X, NEW f \in Family, NEW v \in {"ACCEPT", "DROP"}
    PROVE  Leads(C, FlushCommands(v, f), BuiltinFilter, X)
  <1>1. Leads(C, SetPolicy(v), C, X)
    BY LeadsPolicies
  <1>2. Leads(C, FlushTable("filter"), BuiltinFilter, X)
    BY LeadsTable
  <1>3. Leads(BuiltinFilter, FlushTable("nat"), BuiltinFilter, X)
    BY LeadsTable
  <1> QED
    BY <1>1, <1>2, <1>3, LeadsIf, LeadsOn DEF FlushCommands

(* The skeleton makes the chains that rules outside of groups need.        *)
LEMMA LeadsSkeleton ==
    ASSUME NEW C, NEW X, NEW f \in Family
    PROVE  Leads(C, Skeleton(f), Ground, X)
  BY LeadsFlush, LeadsGround DEF Skeleton


-----------------------------------------------------------------------------
(***************************************************************************)
(* Call by call.  After n calls there are the chains of the skeleton and   *)
(* those of the groups announced so far; the one thing iptables may refuse *)
(* is a group announced again.                                             *)
(***************************************************************************)
Built(calls, n) == Ground \union UNION { ChainsOf(g) : g \in Announced(calls, n) }

Twice(calls, name) ==
    \E i, j \in 1..Len(calls) :
        i < j /\ calls[i].k = "group" /\ calls[j].k = "group"
              /\ calls[i].group = name /\ calls[j].group = name

Again(calls) == { NewChain(c) : c \in { d \in Chain : Twice(calls, d.group) } }

(* What the next call adds to them.                                        *)
LEMMA BuiltNext ==
    ASSUME NEW calls, NEW n \in Nat
    PROVE  Built(calls, n + 1) = IF calls[n + 1].k = "group"
                         THEN Built(calls, n) \union ChainsOf(calls[n + 1].group) ELSE Built(calls, n)
  <1>1. 1..(n + 1) = 1..n \union {n + 1}
    OBVIOUS
  <1>2. Announced(calls, n + 1) = IF calls[n + 1].k = "group"
                                    THEN Announced(calls, n) \union {calls[n + 1].group}
                                    ELSE Announced(calls, n)
    BY <1>1 DEF Announced
  <1> QED
    BY <1>2 DEF Built

(* A chain of a group that is there already is one of the group announced  *)
(* again.                                                                  *)
LEMMA BuiltOnce ==
    ASSUME NEW calls, NEW n \in Nat, n + 1 \in 1..Len(calls), calls[n + 1].k = "group",
           NEW name \in Value, calls[n + 1].group = name,
           NEW c \in ChainsOf(name), c \in Built(calls, n)
    PROVE  NewChain(c) \in Again(calls)
  <1>1. PICK b \in GroupBase : c = [group |-> name, base |-> b]
    BY DEF ChainsOf
  <1>2. c.group = name /\ name # NULL /\ c \in Chain
    BY <1>1, ValueAssumption DEF Chain, Group, GroupBase, FilterBase, Builtin
  <1>3. c \notin Ground
    BY <1>2 DEF Ground, Base
  <1>4. PICK g \in Announced(calls, n) : c \in ChainsOf(g)
    BY <1>3 DEF Built
  <1>5. g = name
    BY <1>2, <1>4 DEF ChainsOf
  <1>6. PICK i \in 1..n : calls[i].k = "group" /\ calls[i].group = name
    BY <1>4, <1>5 DEF Announced
  <1>7. i \in 1..Len(calls) /\ i < n + 1
    BY <1>6
  <1>8. Twice(calls, name)
    BY <1>6, <1>7 DEF Twice
  <1> QED
    BY <1>2, <1>8 DEF Again

(* A rule finds the chains of its groups.                                  *)
LEMMA BuiltBefore ==
    ASSUME NEW calls, NEW n \in Nat, NEW ent, GroupsOf(ent) \subseteq Announced(calls, n)
    PROVE  Placed(ent, Built(calls, n))
  <1>1. ASSUME NEW g, g = NULL \/ g \in Announced(calls, n)
        PROVE  ChainsOf(g) \subseteq Built(calls, n)
    BY <1>1 DEF Built, ChainsOf, Ground, GroupBase, FilterBase, Builtin, Base
  <1>2. \A g \in {ent.group, ent.m["SUBGROUP"]} : g = NULL \/ g \in Announced(calls, n)
    BY DEF GroupsOf
  <1>3. Ground \subseteq Built(calls, n)
    BY DEF Built
  <1> QED
    BY <1>1, <1>2, <1>3 DEF Placed
=============================================================================
