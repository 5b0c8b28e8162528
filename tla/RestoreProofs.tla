---------------------------- MODULE RestoreProofs ----------------------------
(***************************************************************************)
(* Proofs about the iptables-restore backend: for all programs without     *)
(* rules for the nat table, and all rules in force before, a load replaces *)
(* the rules once or not at all (AtomicLoad), and no line is refused.      *)
(*                                                                         *)
(* First what the callbacks write, then the script as a whole, then the    *)
(* steps of filtergen and iptables-restore.                                *)
(***************************************************************************)
EXTENDS IptablesRestore, FirewallProofs

(* Lines of the script, and edits of the filter table.                     *)
Edits == { c \in Command : IsEdit(c) }

(* A rule put into a chain of the filter table is an edit of it.           *)
LEMMA PutLines ==
    ASSUME NEW op \in {"-A", "-I"}, NEW chain \in Chain, NEW tests \in SUBSET Test, NEW jump \in Jump
    PROVE  /\ Put(op, chain, tests, jump) \in Seq(Line)
           /\ Table(chain) = "filter" => Put(op, chain, tests, jump) \in Seq(Edits)
  <1> DEFINE cmd == [op |-> op, chain |-> chain, rule |-> [tests |-> tests, jump |-> jump]]
  <1>1. cmd \in Command /\ cmd.op = op /\ cmd.chain = chain
    BY DEF Command, Rule
  <1>2. cmd \in Line
    BY <1>1 DEF Line
  <1>3. Table(chain) = "filter" => cmd \in Edits
    BY <1>1 DEF Edits, IsEdit
  <1>4. Put(op, chain, tests, jump) = <<cmd>>
    BY DEF Put
  <1> HIDE DEF cmd
  <1> QED
    BY <1>2, <1>3, <1>4

(* Lines, one after the other,                                             *)
LEMMA ConcatLines ==
    ASSUME NEW S, NEW s \in Seq(S), NEW t \in Seq(S)
    PROVE  s \o t \in Seq(S)
  BY ConcatProperties

(* and lines that depend on a condition.                                   *)
LEMMA IfLines ==
    ASSUME NEW S, NEW condition, NEW s, condition => s \in Seq(S)
    PROVE  If(condition, s) \in Seq(S)
  BY EmptySeq DEF If

(* The lines of the skeleton, and of what opens and ends a section.        *)
LEMMA GroupLines ==
    ASSUME NEW name \in Group
    PROVE  RestoreGroup(name) \in Seq(Edits)
  <1> DEFINE c(i) == [group |-> name, base |-> <<"INPUT", "OUTPUT", "FORWARD", "FORW_OUT">>[i]]
  <1>1. \A i \in 1..4 : NewChain(c(i)) \in Edits
    <2> TAKE i \in 1..4
    <2>1. c(i) \in Chain /\ Table(c(i)) = "filter"
      BY DEF Chain, FilterBase, Builtin, Table, NatBase
    <2> HIDE DEF c
    <2> QED
      BY <2>1 DEF NewChain, Edits, IsEdit, Command
  <1>2. RestoreGroup(name) = [i \in 1..4 |-> NewChain(c(i))]
    BY DEF RestoreGroup, GroupCommands
  <1> HIDE DEF c
  <1> QED
    BY <1>1, <1>2

(* The policies.                                                           *)
LEMMA PolicyLines == SetPolicy("DROP") \in Seq(Edits)
  <1> DEFINE p(i) == [op |-> "-P", chain |-> Base(Chains[i]), jump |-> Base("DROP")]
  <1>1. \A i \in 1..3 : p(i) \in Edits
    <2> TAKE i \in 1..3
    <2>1. Chains[i] \in Builtin /\ Base("DROP") \in Jump
      BY DEF Chains, Builtin, Base, Jump, Verdict, Group
    <2> QED
      BY <2>1 DEF Edits, IsEdit, Command
  <1> DEFINE s == [i \in 1..3 |-> p(i)]
  <1>2. SetPolicy("DROP") = s
    BY DEF SetPolicy
  <1> HIDE DEF p
  <1>3. s \in Seq(Edits)
    BY <1>1
  <1> QED
    BY <1>2, <1>3

(* cb_iptrestore_rule.                                                     *)
LEMMA RestoreParts ==
    ASSUME NEW ent \in Ent, NEW f \in Family, ~RestoreRefused(ent, f)
    PROVE  /\ Texts(ent).rule = RuleTests(ent) /\ Texts(ent).back = ReturnTests(ent)
           /\ Texts(ent).nat = NatTests(ent)
           /\ Aims(ent, RestoreForwardTarget(ent))
  <1>1. ~Refused(ent, f)
    BY DEF RestoreRefused
  <1>2. Aims(ent, ForwardTarget(ent)) /\ (Denies(ent) => Aims(ent, Denial(ent)))
    BY <1>1, RuleParts
  <1> QED
    BY <1>2 DEF Texts, RestoreForwardTarget

(* The lines of a rule: edits, unless it needs the nat table.              *)
LEMMA RuleLines ==
    ASSUME NEW ent \in Ent, NEW f \in Family, ~RestoreRefused(ent, f)
    PROVE  /\ RestoreRule(ent) \in Seq(Line)
           /\ ~NeedsNat(ent) => RestoreRule(ent) \in Seq(Edits)
  <1>0. ~Refused(ent, f)
    BY DEF RestoreRefused
  <1>1. /\ {ent.dir, Opposite(ent.dir), Forwarding(ent.dir), Forwarding(Opposite(ent.dir))}
               \subseteq GroupBase
        /\ NatChain(ent.dir) \in NatBase
        /\ \A b \in GroupBase \union NatBase : SubChain(ent, b) \in Chain /\ SubChain(ent, b).base = b
        /\ \A b \in FilterBase : Base(b) \in Chain /\ Base(b).base = b
        /\ RuleTests(ent) \in SUBSET Test /\ NatTests(ent) \in SUBSET Test
        /\ ReturnTests(ent) \in SUBSET Test
        /\ NatTarget(ent) \in Jump /\ Base("LOG") \in Jump
    BY <1>0, RuleParts
  <1>2. /\ RuleTarget(ent) \in Jump /\ ReturnTarget(ent) \in Jump /\ ForwardReturnTarget(ent) \in Jump
        /\ RestoreForwardTarget(ent) \in Jump
    BY <1>0, RuleParts, RestoreParts DEF Aims
  <1>3. \A b \in GroupBase : b \in FilterBase /\ b \notin NatBase
    BY DEF GroupBase, FilterBase, Builtin, NatBase
  <1> DEFINE Suits(s) == s \in Seq(Line) /\ s \in Seq(Edits)
  <1>4. ASSUME NEW op \in {"-A", "-I"}, NEW b \in GroupBase, NEW tests \in SUBSET Test, NEW jump \in Jump
        PROVE  Suits(Put(op, SubChain(ent, b), tests, jump)) /\ Suits(Put(op, Base(b), tests, jump))
    <2>1. Table(SubChain(ent, b)) = "filter" /\ Table(Base(b)) = "filter"
      BY <1>1, <1>3 DEF Table
    <2>2. SubChain(ent, b) \in Chain /\ Base(b) \in Chain
      BY <1>1, <1>3
    <2> QED
      BY <2>1, <2>2, PutLines
  <1>5. ASSUME NEW s, NEW t, Suits(s), Suits(t)
        PROVE  Suits(s \o t)
    BY <1>5, ConcatLines
  <1>6. ASSUME NEW condition, NEW s, condition => Suits(s)
        PROVE  Suits(If(condition, s))
    BY <1>6, IfLines
  <1> HIDE DEF Suits
  <1> DEFINE l1 == RestoreLog(ent)
             n1 == Put("-A", SubChain(ent, NatChain(ent.dir)), Texts(ent).nat, NatTarget(ent))
             n2 == If(NeedsNat(ent), COMMIT \o OpenTable("nat") \o n1 \o COMMIT \o OpenTable("filter"))
             r1 == If(IsLocal(ent), Put("-A", SubChain(ent, ent.dir), Texts(ent).rule, RuleTarget(ent)))
             r2 == If(NeedsReturn(ent), Put("-I", SubChain(ent, Opposite(ent.dir)), Texts(ent).back,
                                            ReturnTarget(ent)))
             r3 == If(IsForward(ent),
                      Put("-A", SubChain(ent, Forwarding(ent.dir)), Texts(ent).rule,
                          RestoreForwardTarget(ent))
                      \o If(NeedsReturn(ent),
                            Put("-I", SubChain(ent, Forwarding(Opposite(ent.dir))), Texts(ent).back,
                                ForwardReturnTarget(ent))))
  <1>7. RestoreRule(ent) = l1 \o n2 \o r1 \o r2 \o r3
    BY DEF RestoreRule
  <1>8. Suits(l1)
    <2>1. /\ Suits(Put("-A", Base(ent.dir), Texts(ent).rule, Base("LOG")))
          /\ Suits(Put("-A", Base(Forwarding(ent.dir)), Texts(ent).rule, Base("LOG")))
      BY <1>1, <1>4, RestoreParts
    <2> QED
      BY <1>5, <1>6, <2>1 DEF RestoreLog
  <1>9. Suits(r1) /\ Suits(r2)
    BY <1>1, <1>2, <1>4, <1>6, RestoreParts
  <1>10. Suits(r3)
    <2>1. /\ Suits(Put("-A", SubChain(ent, Forwarding(ent.dir)), Texts(ent).rule, RestoreForwardTarget(ent)))
          /\ Suits(Put("-I", SubChain(ent, Forwarding(Opposite(ent.dir))), Texts(ent).back,
                      ForwardReturnTarget(ent)))
      BY <1>1, <1>2, <1>4, RestoreParts
    <2> QED
      BY <1>5, <1>6, <2>1
  <1>11. n2 \in Seq(Line)
    <2>1. n1 \in Seq(Line)
      BY <1>1, PutLines, RestoreParts
    <2>2. COMMIT \in Seq(Line) /\ OpenTable("nat") \in Seq(Line) /\ OpenTable("filter") \in Seq(Line)
      BY DEF COMMIT, OpenTable, Line
    <2> HIDE DEF n1
    <2> QED
      BY <2>1, <2>2, ConcatLines, IfLines
  <1>12. ~NeedsNat(ent) => Suits(n2)
    BY <1>6
  <1> HIDE DEF l1, n1, n2, r1, r2, r3
  <1>13. l1 \o n2 \o r1 \o r2 \o r3 \in Seq(Line)
    BY <1>8, <1>9, <1>10, <1>11, ConcatLines DEF Suits
  <1>14. ~NeedsNat(ent) => l1 \o n2 \o r1 \o r2 \o r3 \in Seq(Edits)
    BY <1>8, <1>9, <1>10, <1>12, ConcatLines DEF Suits
  <1> QED
    BY <1>7, <1>13, <1>14

(* A section that goes on: the line that opens it, and edits.              *)
Section(s) ==
    /\ s \in Seq(Line) /\ Len(s) >= 1
    /\ s[1] = OpenTable("filter")[1]
    /\ \A i \in 2..Len(s) : s[i] \in Edits

(* Edits are lines of iptables-restore.                                    *)
LEMMA EditsAreLines == Edits \subseteq Line /\ Seq(Edits) \subseteq Seq(Line)
  <1>1. Edits \subseteq Line
    BY DEF Edits, Line
  <1> QED
    BY <1>1, SeqMonotonic

(* A section opens,                                                        *)
LEMMA SectionOpens == Section(OpenTable("filter"))
  BY DEF Section, OpenTable, Line

(* goes on with edits,                                                     *)
LEMMA SectionGoesOn ==
    ASSUME NEW s, Section(s), NEW t \in Seq(Edits)
    PROVE  Section(s \o t)
  <1>1. s \in Seq(Line) /\ t \in Seq(Line) /\ Len(s) \in Nat /\ Len(t) \in Nat
    BY EditsAreLines, LenProperties DEF Section
  <1>2. /\ s \o t \in Seq(Line) /\ Len(s \o t) = Len(s) + Len(t)
        /\ \A i \in 1..(Len(s) + Len(t)) : (s \o t)[i] = IF i <= Len(s) THEN s[i] ELSE t[i - Len(s)]
    BY <1>1, ConcatProperties
  <1>3. \A i \in 1..Len(t) : t[i] \in Edits
    OBVIOUS
  <1>4. ASSUME NEW i \in 2..Len(s \o t)
        PROVE  (s \o t)[i] \in Edits
    <2>1. i \in 1..(Len(s) + Len(t)) /\ i \in Nat /\ (i <= Len(s) => i \in 2..Len(s))
          /\ (~(i <= Len(s)) => i - Len(s) \in 1..Len(t))
      BY <1>1, <1>2
    <2> QED
      BY <1>2, <1>3, <2>1 DEF Section
  <1>5. Len(s \o t) >= 1 /\ (s \o t)[1] = s[1]
    <2>1. 1 \in 1..(Len(s) + Len(t)) /\ 1 <= Len(s)
      BY <1>1 DEF Section
    <2> QED
      BY <1>1, <1>2, <2>1
  <1> QED
    BY <1>2, <1>4, <1>5 DEF Section

(* and its skeleton leaves it open.                                        *)
LEMMA SkeletonSection ==
    ASSUME NEW fam
    PROVE  Section(RestoreSkeleton(fam))
  <1>1. /\ \A b \in FilterBase : Base(b) \in Chain /\ Table(Base(b)) = "filter" /\ Base(b) \in Jump
        /\ {"INPUT", "OUTPUT", "FORWARD", "FORW_OUT", "INVALID"} = FilterBase
        /\ Base("DROP") \in Jump /\ InvalidTests \in SUBSET Test /\ {} \in SUBSET Test
    BY DEF Base, Chain, Group, Table, NatBase, FilterBase, Builtin, Jump, Verdict, InvalidTests,
           Only, Test, Flag, State
  <1> DEFINE n == << NewChain(Base("FORW_OUT")), NewChain(Base("INVALID")) >>
             p0 == Put("-A", Base("INVALID"), {}, Base("DROP"))
             p(b) == Put("-I", Base(b), InvalidTests, Base("INVALID"))
  <1>2. n \in Seq(Edits)
    <2>1. NewChain(Base("FORW_OUT")) \in Edits /\ NewChain(Base("INVALID")) \in Edits
      BY <1>1 DEF NewChain, Edits, IsEdit, Command
    <2> QED
      BY <2>1
  <1>3. p0 \in Seq(Edits) /\ \A b \in FilterBase : p(b) \in Seq(Edits)
    BY <1>1, PutLines
  <1>4. RestoreSkeleton(fam) = OpenTable("filter") \o SetPolicy("DROP") \o n \o p0
                               \o p("INPUT") \o p("OUTPUT") \o p("FORWARD")
    BY DEF RestoreSkeleton
  <1> HIDE DEF n, p0, p
  <1>5. p("INPUT") \in Seq(Edits) /\ p("OUTPUT") \in Seq(Edits) /\ p("FORWARD") \in Seq(Edits)
    BY <1>1, <1>3
  <1> QED
    BY <1>2, <1>3, <1>4, <1>5, PolicyLines, SectionOpens, SectionGoesOn

(* A rule that needs no nat table, or none that can be had.                *)
Plain(call, fam) ==
    call.k = "rule" /\ NeedsNat(call.ent) => RestoreRefused(call.ent, fam)

(* What a callback writes.                                                 *)
LEMMA CallWrites ==
    ASSUME NEW call \in Call, NEW fam \in Family
    PROVE  /\ CallLines(call, fam) \in Seq(Line)
           /\ Plain(call, fam) => CallLines(call, fam) \in Seq(Edits)
  <1>1. call.group \in Group /\ call.ent \in Ent /\ call.k \in {"group", "rule"}
    BY DEF Call
  <1>2. CASE call.k = "group"
    BY <1>1, <1>2, GroupLines, EditsAreLines DEF CallLines
  <1>3. CASE call.k = "rule"
    <2>1. ~RestoreRefused(call.ent, fam) =>
            /\ RestoreRule(call.ent) \in Seq(Line)
            /\ ~NeedsNat(call.ent) => RestoreRule(call.ent) \in Seq(Edits)
      BY <1>1, RuleLines
    <2>2. If(~RestoreRefused(call.ent, fam), RestoreRule(call.ent)) \in Seq(Line)
      BY <2>1, IfLines
    <2>3. Plain(call, fam) =>
            If(~RestoreRefused(call.ent, fam), RestoreRule(call.ent)) \in Seq(Edits)
      BY <1>3, <2>1, IfLines DEF Plain
    <2> QED
      BY <1>3, <2>2, <2>3 DEF CallLines
  <1> QED
    BY <1>1, <1>2, <1>3

(* The recursion that defines Written.                                     *)
LEMMA WrittenUnfold ==
    ASSUME NEW calls \in Seq(Call), NEW fam \in Family
    PROVE  /\ Written(calls, fam)[0] = RestoreSkeleton(fam)
           /\ \A i \in 1..Len(calls) :
                Written(calls, fam)[i] = Written(calls, fam)[i - 1] \o CallLines(calls[i], fam)
           /\ \A i \in 0..Len(calls) : Written(calls, fam)[i] \in Seq(Line)
  <1> DEFINE N == Len(calls)
             S == Seq(Line)
             x == RestoreSkeleton(fam)
             c(i) == CallLines(calls[i], fam)
             step == [i \in 1..N |-> [s \in S |-> s \o c(i)]]
             Solves(f) == f = [i \in 0..N |-> IF i = 0 THEN x ELSE f[i - 1] \o c(i)]
  <1>1. N \in Nat /\ \A i \in 1..N : calls[i] \in Call
    BY LenProperties
  <1>2. x \in S
    BY SkeletonSection DEF Section
  <1>3. \A i \in 1..N : c(i) \in S
    BY <1>1, CallWrites
  <1> HIDE DEF c, x
  <1>4. \A i \in 1..N : \A s \in S : s \o c(i) \in S
    BY <1>3, ConcatLines
  <1>5. PICK f : Iteration(f, S, x, N, step)
    <2> HIDE DEF N, S
    <2>1. step \in [1..N -> [S -> S]]
      BY <1>4
    <2>2. Iterable(S, x, N, step)
      BY <1>1, <1>2, <2>1 DEF Iterable
    <2> HIDE DEF step
    <2> QED
      BY <2>2, Recursion
  <1> HIDE DEF N, S
  <1>6. f \in [0..N -> S] /\ f[0] = x /\ \A i \in 1..N : f[i] = f[i - 1] \o c(i)
    <2>1. f \in [0..N -> S] /\ f[0] = x /\ \A i \in 1..N : f[i] = step[i][f[i - 1]]
      BY <1>5 DEF Iteration
    <2>2. \A i \in 1..N : f[i - 1] \in S
      BY <1>1, <2>1
    <2> QED
      BY <2>1, <2>2
  <1>7. Solves(f)
    <2>1. \A i \in 0..N : f[i] = IF i = 0 THEN x ELSE f[i - 1] \o c(i)
      BY <1>1, <1>6
    <2> QED
      BY <1>6, <2>1
  <1>8. Written(calls, fam) = CHOOSE g : Solves(g)
    BY DEF Written, N, x, c
  <1> DEFINE g == Written(calls, fam)
  <1>9. Solves(g)
    <2> HIDE DEF Solves
    <2> QED
      BY <1>7, <1>8
  <1> DEFINE Once(a, i) == a \o c(i)
  <1>10. \A i \in 0..N : g[i] = IF i = 0 THEN x ELSE Once(g[i - 1], i)
    <2>1. g = [i \in 0..N |-> IF i = 0 THEN x ELSE Once(g[i - 1], i)]
      BY <1>9
    <2> HIDE DEF g, Once
    <2> QED
      BY <2>1
  <1>11. g[0] = x /\ \A i \in 1..N : g[i] = g[i - 1] \o c(i)
    <2> HIDE DEF g, Once
    <2>1. g[0] = x /\ \A i \in 1..N : g[i] = Once(g[i - 1], i)
      BY <1>1, <1>10
    <2> QED
      BY <2>1 DEF Once
  <1> HIDE DEF g
  <1> DEFINE P == { i \in Nat : i <= N => g[i] \in S }
  <1>12. 0 \in P
    BY <1>2, <1>11
  <1>13. ASSUME NEW i \in P
         PROVE  i + 1 \in P
    <2> SUFFICES ASSUME i + 1 <= N
                 PROVE  g[i + 1] \in S
      BY <1>13
    <2>1. i + 1 \in 1..N /\ (i + 1) - 1 = i /\ g[i] \in S
      BY <1>1, <1>13
    <2>2. g[i + 1] = g[i] \o c(i + 1)
      BY <1>11, <2>1
    <2> QED
      BY <1>4, <2>1, <2>2
  <1>14. P \in SUBSET Nat
    OBVIOUS
  <1> HIDE DEF P
  <1>15. P = Nat
    BY <1>12, <1>13, <1>14, Induction
  <1>16. \A i \in 0..N : g[i] \in S
    BY <1>1, <1>15 DEF P
  <1>17. /\ g[0] = x
         /\ \A i \in 1..N : g[i] = g[i - 1] \o CallLines(calls[i], fam)
         /\ \A i \in 0..N : g[i] \in S
    BY <1>11, <1>16 DEF c
  <1> HIDE DEF c
  <1> QED
    BY <1>17 DEF g, N, S, x

(* Without rules for the nat table, one section is all that is written.    *)
LEMMA WrittenSection ==
    ASSUME NEW calls \in Seq(Call), NEW fam \in Family, \A i \in 1..Len(calls) : Plain(calls[i], fam)
    PROVE  \A i \in 0..Len(calls) : Section(Written(calls, fam)[i])
  <1> DEFINE N == Len(calls)
             w == Written(calls, fam)
             P == { i \in Nat : i <= N => Section(w[i]) }
  <1>1. N \in Nat
    BY LenProperties
  <1>2. /\ w[0] = RestoreSkeleton(fam)
        /\ \A i \in 1..N : w[i] = w[i - 1] \o CallLines(calls[i], fam)
    BY WrittenUnfold
  <1>3. \A i \in 1..N : CallLines(calls[i], fam) \in Seq(Edits)
    BY CallWrites
  <1> HIDE DEF w, N
  <1>4. 0 \in P
    BY <1>2, SkeletonSection
  <1>5. ASSUME NEW i \in P
        PROVE  i + 1 \in P
    <2> SUFFICES ASSUME i + 1 <= N
                 PROVE  Section(w[i + 1])
      BY <1>5
    <2>1. i + 1 \in 1..N /\ (i + 1) - 1 = i /\ Section(w[i])
      BY <1>1, <1>5
    <2>2. w[i + 1] = w[i] \o CallLines(calls[i + 1], fam)
      BY <1>2, <2>1
    <2> QED
      BY <1>3, <2>1, <2>2, SectionGoesOn
  <1>6. P \in SUBSET Nat
    OBVIOUS
  <1> HIDE DEF P
  <1>7. P = Nat
    BY <1>4, <1>5, <1>6, Induction
  <1>8. \A i \in 0..N : Section(w[i])
    BY <1>1, <1>7 DEF P
  <1> QED
    BY <1>8 DEF w, N

(* The script from its first line to its last.                             *)
LEMMA ScriptShape ==
    ASSUME NEW w, Section(w)
    PROVE  LET s == w \o COMMIT
           IN  /\ s \in Seq(Line) /\ Len(s) >= 2 /\ s[1] = OpenTable("filter")[1]
               /\ \A i \in 2..Len(s) : s[i] \in Edits \/ (i = Len(s) /\ s[i] = COMMIT[1])
               /\ s[Len(s)] = COMMIT[1]
  <1> DEFINE c == COMMIT
             s == w \o c
  <1>1. c \in Seq(Line) /\ Len(c) = 1
    BY DEF COMMIT, Line
  <1> HIDE DEF c
  <1>2. w \in Seq(Line) /\ Len(w) \in Nat /\ Len(w) >= 1
    BY LenProperties DEF Section
  <1>3. /\ s \in Seq(Line) /\ Len(s) = Len(w) + 1
        /\ \A i \in 1..(Len(w) + 1) : s[i] = IF i <= Len(w) THEN w[i] ELSE c[i - Len(w)]
    <2>1. /\ s \in Seq(Line) /\ Len(s) = Len(w) + Len(c)
          /\ \A i \in 1..(Len(w) + Len(c)) : s[i] = IF i <= Len(w) THEN w[i] ELSE c[i - Len(w)]
      BY <1>1, <1>2, ConcatProperties
    <2> HIDE DEF s
    <2> QED
      BY <1>1, <2>1
  <1>4. \A i \in 2..(Len(w) + 1) : (i \in 2..Len(w) /\ s[i] = w[i]) \/ (i = Len(w) + 1 /\ s[i] = c[1])
    <2> TAKE i \in 2..(Len(w) + 1)
    <2>1. i \in 1..(Len(w) + 1)
          /\ IF i <= Len(w) THEN i \in 2..Len(w) ELSE i = Len(w) + 1 /\ i - Len(w) = 1
      BY <1>2
    <2> QED
      BY <1>3, <2>1
  <1>5. s[1] = w[1] /\ Len(w) + 1 >= 2 /\ Len(w) + 1 \in 2..(Len(w) + 1) /\ Len(w) + 1 \notin 2..Len(w)
    BY <1>2, <1>3
  <1> HIDE DEF s
  <1>6. \A i \in 2..Len(s) : s[i] \in Edits \/ (i = Len(s) /\ s[i] = c[1])
    <2>1. \A i \in 2..Len(w) : w[i] \in Edits
      BY DEF Section
    <2>2. Len(s) = Len(w) + 1
      BY <1>3
    <2> QED
      BY <1>4, <2>1, <2>2
  <1>7. s[Len(s)] = c[1]
    BY <1>3, <1>4, <1>5
  <1>8. /\ s \in Seq(Line) /\ Len(s) >= 2 /\ s[1] = OpenTable("filter")[1]
        /\ \A i \in 2..Len(s) : s[i] \in Edits \/ (i = Len(s) /\ s[i] = c[1])
        /\ s[Len(s)] = c[1]
    BY <1>3, <1>5, <1>6, <1>7 DEF Section
  <1> QED
    BY <1>8 DEF s, c

(* To begin with, the draft has the builtin chains and no others.          *)
LEMMA EmptiedKernel ==
    ASSUME NEW k, IsKernel(k), NEW t \in {"filter", "nat"}
    PROVE  IsKernel(Emptied(k, t)) /\ (t = "filter" => FilterChains(Emptied(k, t)) = BuiltinFilter)
  <1> DEFINE f == [op |-> "-F", table |-> t]
             x == [op |-> "-X", table |-> t]
             n == After(k, f)
  <1>1. /\ Accepted(k, f) /\ Accepted(n, x) /\ IsKernel(After(n, x))
        /\ Exists(After(n, x)) = { d \in Exists(k) : Table(d) = t => d \in BuiltinChains }
    BY Flushed
  <1>2. Emptied(k, t) = After(n, x)
    <2> HIDE DEF f, x
    <2>1. After(k, f) = Obeyed(k, f) /\ After(n, x) = Obeyed(n, x)
      BY <1>1 DEF After
    <2> QED
      BY <2>1 DEF Emptied, f, x
  <1>3. BuiltinFilter = { c \in BuiltinChains : Table(c) = "filter" } /\ BuiltinFilter \subseteq FilterChains(k)
    BY BuiltinInFilter
  <1> HIDE DEF f, x, n
  <1> QED
    BY <1>1, <1>2, <1>3 DEF FilterChains

(* What a whole script stands for is a kernel.                             *)
LEMMA CompleteKernel ==
    ASSUME NEW k, IsKernel(k), NEW s \in Seq(Line)
    PROVE  IsKernel(Complete(k, s))
  <1>1. IsKernel(Emptied(k, "filter")) /\ IsKernel(Emptied(Emptied(k, "filter"), "nat"))
    BY EmptiedKernel
  <1>2. IsKernel(Effect(Emptied(k, "filter"), s))
        /\ IsKernel(Effect(Emptied(Emptied(k, "filter"), "nat"), s))
    BY <1>1, StageSteps
  <1> QED
    BY <1>2 DEF Complete

(* What a script of one section stands for.                                *)
LEMMA CompleteSection ==
    ASSUME NEW k, NEW s, \A i \in 2..Len(s) : s[i] \in Edits \/ s[i] = COMMIT[1],
           Len(s) \in Nat, s[1] = OpenTable("filter")[1]
    PROVE  Complete(k, s) = Effect(Emptied(k, "filter"), s)
  <1> DEFINE tables == { s[i].table : i \in { j \in 1..Len(s) : s[j].op = "*" } }
  <1>1. \A e \in Edits : e.op # "*"
    BY DEF Edits, IsEdit
  <1>2. COMMIT[1].op # "*" /\ OpenTable("filter")[1].table = "filter"
    BY DEF COMMIT, OpenTable
  <1>3. ASSUME NEW i \in 1..Len(s), s[i].op = "*"
        PROVE  s[i].table # "nat"
    <2>1. i = 1 \/ i \in 2..Len(s)
      OBVIOUS
    <2> QED
      BY <1>1, <1>2, <1>3, <2>1
  <1>4. "nat" \notin tables
    BY <1>3
  <1> HIDE DEF tables
  <1> QED
    BY <1>4 DEF Complete, tables


-----------------------------------------------------------------------------
(***************************************************************************)
(* Types                                                                   *)
(***************************************************************************)

(* The calls made, and those still to be made.                             *)
LEMMA CallsLeft ==
    ASSUME TypeOK
    PROVE  /\ program \in Seq(Call) /\ Calls \in 0..Len(program)
           /\ todo = <<>> => Calls = Len(program)
           /\ todo # <<>> =>
                /\ Calls + 1 \in 1..Len(program)
                /\ Head(todo) = program[Calls + 1] /\ Head(todo) \in Call
                /\ Len(program) - Len(Tail(todo)) = Calls + 1
                /\ \E m \in 0..Len(program) : Tail(todo) = SubSeq(program, m + 1, Len(program))
  <1>1. program \in Seq(Call) /\ Len(program) \in Nat
    BY RestoreAssumption, LenProperties DEF TypeOK
  <1>2. PICK n \in 0..Len(program) : todo = SubSeq(program, n + 1, Len(program))
    BY DEF TypeOK
  <1> DEFINE S == Call
             t == todo
             s == program
  <1>3. s \in Seq(S) /\ n \in Nat /\ n <= Len(s) /\ t = SubSeq(s, n + 1, Len(s))
    BY <1>1, <1>2
  <1> HIDE DEF S, t, s
  <1>4. Left(S, s, t, n)
    BY <1>3, StillToCome
  <1>5. /\ Len(program) - Len(todo) = n
        /\ todo = <<>> => n = Len(program)
        /\ todo # <<>> =>
             /\ n + 1 \in 1..Len(program)
             /\ Head(todo) = program[n + 1] /\ Head(todo) \in Call
             /\ Tail(todo) = SubSeq(program, n + 2, Len(program))
             /\ Len(program) - Len(Tail(todo)) = n + 1
    BY <1>4 DEF Left, S, s, t
  <1>6. todo # <<>> => \E m \in 0..Len(program) : Tail(todo) = SubSeq(program, m + 1, Len(program))
    <2> HAVE todo # <<>>
    <2>1. n + 1 \in 0..Len(program) /\ n + 2 = (n + 1) + 1
      BY <1>5
    <2> QED
      BY <1>5, <2>1
  <1> QED
    BY <1>1, <1>5, <1>6 DEF Calls

(* A line that iptables-restore can use leaves a kernel.                   *)
LEMMA EditTyped ==
    ASSUME TypeOK, Edit
    PROVE  draft' = After(draft, Head(script)) /\ IsKernel(draft') /\ script' = Tail(script)
           /\ script \in Seq(Line) /\ script # <<>> /\ Head(script) \in Line
           /\ Head(script).op \notin {"*", "COMMIT"} /\ Usable(Head(script))
           /\ UNCHANGED <<constants, todo, writer, restore, table, kernel>> /\ restore = "running"
  <1>1. /\ draft' = Obeyed(draft, Head(script)) /\ script' = Tail(script) /\ script # <<>>
        /\ Head(script).op \notin {"*", "COMMIT"} /\ Usable(Head(script))
        /\ UNCHANGED <<constants, todo, writer, restore, table, kernel>> /\ restore = "running"
    BY DEF Edit, Consume
  <1>2. script \in Seq(Line) /\ Head(script) \in Line
    BY <1>1, HeadTailProperties DEF TypeOK
  <1>3. Accepted(draft, Head(script))
    BY <1>1 DEF Usable
  <1>4. draft' = After(draft, Head(script))
    BY <1>1, <1>3 DEF After
  <1> QED
    BY <1>1, <1>2, <1>4, AfterIsKernel DEF TypeOK

(* Types, at first                                                         *)
LEMMA RestoreTyped ==
    ASSUME Init
    PROVE  TypeOK
  <1>1. /\ program \in Programs /\ program \in Seq(Call) /\ family \in Family /\ old \in OldRules
        /\ IsKernel(old) /\ todo = program /\ script = <<>> /\ table = NULL /\ draft = old /\ kernel = old
        /\ whole = Complete(old, RestoreScript(program, family))
    BY RestoreAssumption DEF Init
  <1>2. todo = SubSeq(program, 0 + 1, Len(program)) /\ 0 \in 0..Len(program)
    BY <1>1, SubSeqFull, LenProperties
  <1>3. RestoreScript(program, family) \in Seq(Line)
    <2>1. Written(program, family)[Len(program)] \in Seq(Line)
      <3>1. Len(program) \in 0..Len(program)
        BY <1>1, LenProperties
      <3> QED
        BY <1>1, <3>1, WrittenUnfold
    <2>2. COMMIT \in Seq(Line)
      BY DEF COMMIT, Line
    <2> QED
      BY <2>1, <2>2, ConcatLines DEF RestoreScript
  <1>4. IsKernel(whole)
    BY <1>1, <1>3, CompleteKernel
  <1>5. script \in Seq(Line)
    BY <1>1, EmptySeq
  <1> QED
    BY <1>1, <1>2, <1>4, <1>5 DEF Init, TypeOK

(* and after a step.                                                       *)
LEMMA RestoreTypeStep ==
    ASSUME TypeOK, [Next]_vars
    PROVE  TypeOK'
  <1> USE DEF constants, writing, reading
  <1>0. program \in Seq(Call) /\ script \in Seq(Line) /\ family \in Family
    BY CallsLeft DEF TypeOK
  <1>1. ASSUME NEW lines \in Seq(Line), script' = script \o lines, UNCHANGED <<constants, reading>>,
               writer' \in {"rules", "done"},
               todo' = todo \/ (todo # <<>> /\ todo' = Tail(todo))
        PROVE  TypeOK'
    <2>1. script' \in Seq(Line)
      BY <1>0, <1>1, ConcatLines
    <2>2. \E n \in 0..Len(program) : todo' = SubSeq(program, n + 1, Len(program))
      BY <1>1, CallsLeft DEF TypeOK
    <2> QED
      BY <1>1, <2>1, <2>2 DEF TypeOK
  <1>2. CASE WriteSkeleton
    BY <1>1, <1>2, SkeletonSection DEF WriteSkeleton, Write, Section
  <1>3. CASE WriteGroup
    <2>1. RestoreGroup(Head(todo).group) \in Seq(Line)
      <3>1. Head(todo).group \in Group
        BY <1>3, CallsLeft DEF WriteGroup, Call
      <3> QED
        BY <3>1, GroupLines, EditsAreLines
    <2> QED
      BY <1>1, <1>3, <2>1 DEF WriteGroup, Write
  <1>4. CASE WriteRule
    <2>1. RestoreRule(Head(todo).ent) \in Seq(Line)
      <3>1. Head(todo).ent \in Ent
        BY <1>4, CallsLeft DEF WriteRule, Call
      <3> QED
        BY <1>0, <1>4, <3>1, RuleLines DEF WriteRule
    <2> QED
      BY <1>1, <1>4, <2>1 DEF WriteRule, Write
  <1>5. CASE WriteEnd
    <2>1. COMMIT \in Seq(Line)
      BY DEF COMMIT, Line
    <2> QED
      BY <1>1, <1>5, <2>1 DEF WriteEnd, Write
  <1>6. CASE RuleRefused \/ Interrupted
    BY <1>6 DEF RuleRefused, Interrupted, TypeOK
  <1>7. CASE StartRestore \/ LineRefused \/ EndOfScript \/ RestoreKilled
    BY <1>7 DEF StartRestore, LineRefused, EndOfScript, RestoreKilled, TypeOK
  <1>8. ASSUME script # <<>>
        PROVE  Tail(script) \in Seq(Line) /\ Head(script) \in Line
    BY <1>0, <1>8, HeadTailProperties
  <1>9. CASE BeginTable
    <2>1. /\ script # <<>> /\ script' = Tail(script) /\ Head(script).op = "*"
          /\ table' = Head(script).table /\ draft' = Emptied(kernel, table')
          /\ UNCHANGED <<constants, todo, writer, restore, kernel>>
      BY <1>9 DEF BeginTable, Next_is, Consume
    <2>2. table' \in {"filter", "nat"}
      BY <1>8, <2>1 DEF Line, Command
    <2>3. IsKernel(draft')
      BY <2>1, <2>2, EmptiedKernel DEF TypeOK
    <2> QED
      BY <1>8, <2>1, <2>2, <2>3 DEF TypeOK
  <1>10. CASE Commit
    BY <1>8, <1>10 DEF Commit, Next_is, Consume, TypeOK
  <1>11. CASE Edit
    BY <1>8, <1>11, EditTyped DEF TypeOK
  <1>12. CASE UNCHANGED vars
    BY <1>12 DEF vars, TypeOK
  <1> QED
    BY <1>2, <1>3, <1>4, <1>5, <1>6, <1>7, <1>9, <1>10, <1>11, <1>12
       DEF Next, Filtergen, Reader

(* Whoever is killed and whatever is refused: only lines of iptables are   *)
(* written, and the draft and the rules in force are always a kernel with  *)
(* its builtin chains and no jump that leads nowhere.                      *)
THEOREM RestoreTypes == Spec => []TypeOK
  BY RestoreTyped, RestoreTypeStep, PTL DEF Spec


-----------------------------------------------------------------------------
(***************************************************************************)
(* The inductive invariant                                                 *)
(***************************************************************************)
LEMMA SectionUnended ==
    ASSUME NEW s, Section(s)
    PROVE  s # <<>> /\ s[1] = OpenTable("filter")[1] /\ OneSection(s, 2, FALSE)
  <1>1. s # <<>>
    <2>1. Len(s) # 0 /\ s \in Seq(Line)
      BY LenProperties DEF Section
    <2> QED
      BY <2>1, EmptySeq
  <1>2. \A i \in 2..Len(s) : IsEdit(s[i])
    BY DEF Section, Edits
  <1> QED
    BY <1>1, <1>2 DEF Section, OneSection

(* COMMIT ends the section.                                                *)
LEMMA SectionEnded ==
    ASSUME NEW w, Section(w)
    PROVE  LET s == w \o COMMIT
           IN  s # <<>> /\ s[1] = OpenTable("filter")[1] /\ OneSection(s, 2, TRUE)
  <1> DEFINE s == w \o COMMIT
  <1>1. /\ s \in Seq(Line) /\ Len(s) >= 2 /\ s[1] = OpenTable("filter")[1]
        /\ \A i \in 2..Len(s) : s[i] \in Edits \/ (i = Len(s) /\ s[i] = COMMIT[1])
        /\ s[Len(s)] = COMMIT[1]
    BY ScriptShape
  <1> HIDE DEF s
  <1>2. s # <<>>
    <2>1. Len(s) # 0
      BY <1>1, LenProperties
    <2> QED
      BY <2>1, EmptySeq
  <1>3. OneSection(s, 2, TRUE)
    BY <1>1 DEF OneSection, Edits
  <1> QED
    BY <1>1, <1>2, <1>3 DEF s

(* What is read, line by line.                                             *)
LEMMA SectionRead ==
    ASSUME NEW s \in Seq(Line), s # <<>>, NEW ended \in BOOLEAN
    PROVE  /\ Head(s) = s[1]
           /\ OneSection(s, 2, ended) => OneSection(Tail(s), 1, ended)
           /\ OneSection(s, 1, ended) =>
                IF Head(s).op = "COMMIT" THEN ended /\ s = COMMIT /\ Tail(s) = <<>>
                ELSE IsEdit(Head(s)) /\ OneSection(Tail(s), 1, ended)
  <1> DEFINE l == Len(s)
             t == Tail(s)
             m == Len(t)
  <1>1. /\ l \in Nat /\ l >= 1 /\ m = l - 1 /\ m \in Nat /\ t \in Seq(Line)
        /\ \A i \in 1..m : t[i] = s[i + 1]
        /\ Head(s) = s[1]
    <2>1. t \in Seq(Line) /\ Len(t) = Len(s) - 1 /\ \A i \in 1..Len(t) : t[i] = s[i + 1]
      BY HeadTailProperties
    <2>2. l \in Nat /\ m \in Nat
      BY <2>1, LenProperties
    <2>3. Head(s) = s[1]
      BY HeadTailProperties
    <2> HIDE DEF t
    <2> QED
      BY <2>1, <2>2, <2>3
  <1>2. \A i \in 1..m : i + 1 \in 2..l /\ (i + 1 = l <=> i = m)
    BY <1>1
  <1> HIDE DEF l, t, m
  <1>3. OneSection(s, 2, ended) => OneSection(t, 1, ended)
    <2> HAVE OneSection(s, 2, ended)
    <2>1. /\ \A i \in 2..l : IsEdit(s[i]) \/ (ended /\ i = l /\ s[i] = COMMIT[1])
          /\ ended => l >= 2 /\ s[l] = COMMIT[1]
      BY DEF OneSection, l
    <2>2. \A i \in 1..m : IsEdit(t[i]) \/ (ended /\ i = m /\ t[i] = COMMIT[1])
      BY <1>1, <1>2, <2>1
    <2>3. ended => m >= 1 /\ t[m] = COMMIT[1]
      <3> HAVE ended
      <3>1. l >= 2 /\ s[l] = COMMIT[1]
        BY <2>1
      <3>2. m \in 1..m /\ m >= 1 /\ m + 1 = l
        BY <1>1, <3>1
      <3> QED
        BY <1>1, <3>1, <3>2
    <2> QED
      BY <2>2, <2>3 DEF OneSection, m
  <1>4. OneSection(s, 1, ended) => OneSection(s, 2, ended) \/ (ended /\ l = 1 /\ s[1] = COMMIT[1])
    <2> HAVE OneSection(s, 1, ended)
    <2>1. /\ \A i \in 1..l : IsEdit(s[i]) \/ (ended /\ i = l /\ s[i] = COMMIT[1])
          /\ ended => s[l] = COMMIT[1]
      BY DEF OneSection, l
    <2>2. l = 1 \/ l >= 2
      BY <1>1
    <2> QED
      BY <2>1, <2>2 DEF OneSection, l
  <1>5. OneSection(s, 1, ended) => IsEdit(s[1]) \/ (ended /\ l = 1 /\ s[1] = COMMIT[1])
    <2>1. 1 \in 1..l
      BY <1>1
    <2> QED
      BY <2>1 DEF OneSection, l
  <1>6. COMMIT[1].op = "COMMIT" /\ \A e : IsEdit(e) => e.op # "COMMIT"
    BY DEF COMMIT, IsEdit
  <1>7. l = 1 /\ s[1] = COMMIT[1] => s = COMMIT /\ t = <<>>
    <2> HAVE l = 1 /\ s[1] = COMMIT[1]
    <2>1. m = 0
      BY <1>1
    <2>2. t = <<>>
      BY <1>1, <2>1, EmptySeq DEF m
    <2>3. s = <<Head(s)>> \o t
      BY HeadAndTail DEF t
    <2>4. <<Head(s)>> = COMMIT
      BY <1>1 DEF COMMIT
    <2>5. COMMIT \in Seq(Line)
      BY DEF COMMIT, Line
    <2>6. COMMIT \o <<>> = COMMIT
      BY <2>5, ConcatEmptySeq
    <2> QED
      BY <2>2, <2>3, <2>4, <2>6
  <1>8. OneSection(s, 1, ended) =>
          IF s[1].op = "COMMIT" THEN ended /\ s = COMMIT /\ t = <<>>
          ELSE IsEdit(s[1]) /\ OneSection(t, 1, ended)
    BY <1>3, <1>4, <1>5, <1>6, <1>7
  <1> QED
    BY <1>1, <1>3, <1>8 DEF t


(* What the whole script stands for, as Init says.                         *)
WholeMeant == whole = Complete(old, RestoreScript(program, family))

(* What filtergen has written after some of the calls, and after all.      *)
LEMMA WrittenSoFar ==
    ASSUME TypeOK, NatFree
    PROVE  \A n \in 0..Len(program) :
             LET w == Written(program, family)[n]
             IN  Section(w) /\ w # <<>> /\ w[1] = OpenTable("filter")[1] /\ OneSection(w, 2, FALSE)
  <1>1. program \in Seq(Call) /\ family \in Family
    BY CallsLeft DEF TypeOK
  <1>2. \A i \in 1..Len(program) : Plain(program[i], family)
    BY DEF NatFree, Plain
  <1>3. \A n \in 0..Len(program) : Section(Written(program, family)[n])
    BY <1>1, <1>2, WrittenSection
  <1> QED
    BY <1>3, SectionUnended

(* The whole script, read from its first line, makes the whole kernel.     *)
LEMMA WholeScript ==
    ASSUME TypeOK, NatFree, WholeMeant
    PROVE  LET s == RestoreScript(program, family)
           IN  /\ s # <<>> /\ s[1] = OpenTable("filter")[1] /\ OneSection(s, 2, TRUE)
               /\ Effect(Emptied(old, "filter"), s) = whole
  <1> DEFINE w == Written(program, family)[Len(program)]
             s == w \o COMMIT
  <1>1. Section(w)
    <2>1. Len(program) \in 0..Len(program)
      BY CallsLeft, LenProperties
    <2> QED
      BY <2>1, WrittenSoFar
  <1>2. s = RestoreScript(program, family)
    BY DEF RestoreScript
  <1> HIDE DEF w
  <1>3. s # <<>> /\ s[1] = OpenTable("filter")[1] /\ OneSection(s, 2, TRUE)
    BY <1>1, SectionEnded
  <1>4. /\ s \in Seq(Line) /\ s[1] = OpenTable("filter")[1]
        /\ \A i \in 2..Len(s) : s[i] \in Edits \/ s[i] = COMMIT[1]
    BY <1>1, ScriptShape
  <1> HIDE DEF s
  <1>5. Complete(old, s) = Effect(Emptied(old, "filter"), s)
    BY <1>4, CompleteSection, LenProperties
  <1> QED
    BY <1>2, <1>3, <1>5 DEF WholeMeant

(* filtergen writes while the shell waits.                                 *)
LEMMA UnreadGrows ==
    ASSUME TypeOK, NatFree, WholeMeant, Unread, Filtergen \/ Interrupted
    PROVE  Unread'
  <1> USE DEF constants, writing, reading
  <1>1. /\ program \in Seq(Call) /\ family \in Family /\ script \in Seq(Line)
        /\ Calls \in 0..Len(program) /\ Len(program) \in Nat
    BY CallsLeft, LenProperties DEF TypeOK
  <1>2. /\ Written(program, family)[0] = RestoreSkeleton(family)
        /\ \A i \in 1..Len(program) :
             Written(program, family)[i] = Written(program, family)[i - 1] \o CallLines(program[i], family)
    BY <1>1, WrittenUnfold
  <1>3. kernel = old /\ table = NULL
    BY DEF Unread
  <1>4. ASSUME NEW n \in 0..Len(program), script' = Written(program, family)[n], Calls' = n,
               writer' = "rules", UNCHANGED <<constants, reading>>
        PROVE  Unread'
    BY <1>3, <1>4, WrittenSoFar DEF Unread
  <1>5. CASE WriteSkeleton
    <2>1. script = <<>> /\ Calls = 0
      BY <1>5 DEF WriteSkeleton, Unread
    <2>2. script' = RestoreSkeleton(family)
      <3>1. RestoreSkeleton(family) \in Seq(Line)
        BY SkeletonSection DEF Section
      <3> QED
        BY <1>5, <2>1, <3>1, ConcatEmptySeq DEF WriteSkeleton, Write
    <2>3. Calls' = 0
      BY <1>5, <2>1 DEF WriteSkeleton, Write, Calls
    <2>4. 0 \in 0..Len(program) /\ writer' = "rules" /\ UNCHANGED <<constants, reading>>
      BY <1>1, <1>5 DEF WriteSkeleton, Write
    <2> QED
      BY <1>2, <1>4, <2>2, <2>3, <2>4
  <1>6. ASSUME todo # <<>>, writer = "rules", todo' = Tail(todo), UNCHANGED <<writer, constants, reading>>,
               script' = script \o CallLines(Head(todo), family)
        PROVE  Unread'
    <2>1. /\ Calls + 1 \in 1..Len(program) /\ Head(todo) = program[Calls + 1]
          /\ Len(program) - Len(Tail(todo)) = Calls + 1
      BY <1>6, CallsLeft
    <2>2. (Calls + 1) - 1 = Calls /\ Calls + 1 \in 0..Len(program)
      BY <1>1, <2>1
    <2>3. script = Written(program, family)[Calls]
      BY <1>6 DEF Unread
    <2>4. script' = Written(program, family)[Calls + 1]
      BY <1>2, <1>6, <2>1, <2>2, <2>3
    <2>5. Calls' = Calls + 1
      BY <1>6, <2>1 DEF Calls
    <2> QED
      BY <1>4, <1>6, <2>2, <2>4, <2>5
  <1>7. CASE WriteGroup
    <2>1. CallLines(Head(todo), family) = RestoreGroup(Head(todo).group)
      BY <1>7 DEF WriteGroup, CallLines
    <2> QED
      BY <1>6, <1>7, <2>1 DEF WriteGroup, Write
  <1>8. CASE WriteRule
    <2>1. CallLines(Head(todo), family) = RestoreRule(Head(todo).ent)
      BY <1>8 DEF WriteRule, CallLines, If
    <2> QED
      BY <1>6, <1>8, <2>1 DEF WriteRule, Write
  <1>9. CASE WriteEnd
    <2>1. script' = RestoreScript(program, family)
      <3>1. Calls = Len(program)
        BY <1>9, CallsLeft DEF WriteEnd
      <3>2. script = Written(program, family)[Calls]
        BY <1>9 DEF WriteEnd, Unread
      <3> QED
        BY <1>9, <3>1, <3>2 DEF WriteEnd, Write, RestoreScript
    <2>2. writer' = "done" /\ UNCHANGED <<constants, reading>>
      BY <1>9 DEF WriteEnd, Write
    <2> QED
      BY <1>3, <2>1, <2>2, WholeScript DEF Unread
  <1>10. CASE RuleRefused \/ Interrupted
    <2>1. writer \in {"skeleton", "rules"} /\ writer' = "failed" /\ UNCHANGED <<constants, todo, script, reading>>
      BY <1>10 DEF RuleRefused, Interrupted
    <2> QED
      BY <1>3, <2>1 DEF Unread
  <1> QED
    BY <1>5, <1>7, <1>8, <1>9, <1>10 DEF Filtergen


(* iptables-restore reads: "*filter" first,                                *)
LEMMA ReadsOpening ==
    ASSUME TypeOK, Unread, BeginTable
    PROVE  Reading'
  <1> USE DEF constants
  <1>1. /\ script \in Seq(Line) /\ script # <<>> /\ script' = Tail(script)
        /\ table' = Head(script).table /\ draft' = Emptied(kernel, table')
        /\ UNCHANGED <<constants, writer, kernel>>
    BY DEF BeginTable, Next_is, Consume, TypeOK
  <1>2. kernel = old /\ Head(script) = OpenTable("filter")[1] /\ OneSection(script, 2, writer = "done")
    BY <1>1, HeadTailProperties DEF Unread
  <1>3. table' = "filter" /\ Head(script).op = "*" /\ Head(script) \in Line
    BY <1>1, <1>2 DEF OpenTable, Line
  <1>4. OneSection(script', 1, writer' = "done")
    <2> DEFINE e == writer = "done"
    <2>1. e \in BOOLEAN
      OBVIOUS
    <2>2. OneSection(script, 2, e)
      BY <1>2
    <2> HIDE DEF e
    <2>3. OneSection(Tail(script), 1, e)
      BY <1>1, <2>1, <2>2, SectionRead
    <2> QED
      BY <1>1, <2>3 DEF e
  <1>5. IsKernel(Emptied(old, "filter"))
    BY EmptiedKernel, RestoreAssumption DEF TypeOK
  <1>6. Effect(Emptied(old, "filter"), script) = Effect(draft', script')
    <2> DEFINE k == Emptied(old, "filter")
    <2>1. After(k, Head(script)) = k
      BY <1>3 DEF After, Accepted
    <2>2. Effect(k, script) = Effect(After(k, Head(script)), Tail(script))
      BY <1>1, <1>5, FirstLine
    <2> HIDE DEF k
    <2>3. Effect(k, script) = Effect(k, Tail(script))
      BY <2>1, <2>2
    <2> QED
      BY <1>1, <1>2, <1>3, <2>3 DEF k
  <1>7. writer' = "done" => Effect(draft', script') = whole'
    BY <1>1, <1>6 DEF Unread
  <1> QED
    BY <1>1, <1>2, <1>3, <1>4, <1>7 DEF Reading

(* then the edits of the filter table,                                     *)
LEMMA ReadsEdit ==
    ASSUME TypeOK, Reading, Edit
    PROVE  Reading'
  <1> USE DEF constants
  <1>1. /\ draft' = After(draft, Head(script)) /\ IsKernel(draft') /\ script' = Tail(script)
        /\ script \in Seq(Line) /\ script # <<>> /\ Head(script).op # "COMMIT"
        /\ UNCHANGED <<constants, writer, table, kernel>>
    BY EditTyped
  <1>2. OneSection(script', 1, writer' = "done")
    <2> DEFINE e == writer = "done"
    <2>1. e \in BOOLEAN
      OBVIOUS
    <2>2. OneSection(script, 1, e)
      BY DEF Reading
    <2> HIDE DEF e
    <2>3. OneSection(Tail(script), 1, e)
      BY <1>1, <2>1, <2>2, SectionRead
    <2> QED
      BY <1>1, <2>3 DEF e
  <1>3. Effect(draft, script) = Effect(draft', script')
    <2>1. IsKernel(draft)
      BY DEF TypeOK
    <2> QED
      BY <1>1, <2>1, FirstLine
  <1> QED
    BY <1>1, <1>2, <1>3 DEF Reading

(* and COMMIT, which is the last line of a script that is complete.        *)
LEMMA ReadsCommit ==
    ASSUME TypeOK, Reading, Commit
    PROVE  Committed' /\ kernel = old /\ UNCHANGED whole
  <1> USE DEF constants
  <1>1. /\ script \in Seq(Line) /\ script # <<>> /\ Head(script).op = "COMMIT"
        /\ script' = Tail(script) /\ kernel' = draft /\ table' = NULL /\ UNCHANGED constants
    BY DEF Commit, Next_is, Consume, TypeOK
  <1>2. writer = "done" /\ script = COMMIT /\ Tail(script) = <<>>
    <2> DEFINE e == writer = "done"
    <2>1. e \in BOOLEAN
      OBVIOUS
    <2>2. OneSection(script, 1, e)
      BY DEF Reading
    <2> HIDE DEF e
    <2>3. e /\ script = COMMIT /\ Tail(script) = <<>>
      BY <1>1, <2>1, <2>2, SectionRead
    <2> QED
      BY <2>3 DEF e
  <1>3. Effect(draft, COMMIT) = draft
    <2> DEFINE c == COMMIT[1]
    <2>1. c \in Line /\ COMMIT = <<c>> /\ After(draft, c) = draft
      BY DEF COMMIT, Line, After, Accepted
    <2>2. IsKernel(draft)
      BY DEF TypeOK
    <2> HIDE DEF c
    <2> QED
      BY <2>1, <2>2, OneLine
  <1>4. draft = whole
    BY <1>2, <1>3 DEF Reading
  <1> QED
    BY <1>1, <1>2, <1>4 DEF Committed, Reading

(* The invariant, after every step of either process,                      *)
LEMMA RestoreInvStep ==
    ASSUME RestoreInv, WholeMeant, NatFree, [Next]_vars
    PROVE  RestoreInv' /\ WholeMeant'
  <1> USE DEF constants, writing, reading
  <1>1. TypeOK /\ TypeOK'
    BY RestoreTypeStep DEF RestoreInv
  <1>2. UNCHANGED constants
    BY DEF Next, vars, Filtergen, Reader, WriteSkeleton, WriteGroup, WriteRule, WriteEnd, Write, RuleRefused,
           Interrupted, StartRestore, BeginTable, Commit, Edit, Consume, LineRefused, EndOfScript, RestoreKilled
  <1>3. WholeMeant'
    BY <1>2 DEF WholeMeant
  <1>4. NULL # "filter" /\ NULL # "nat"
    BY RestoreAssumption
  <1>5. CASE Filtergen \/ Interrupted
    <2>1. restore' = restore /\ writer \in {"skeleton", "rules"}
      BY <1>5 DEF Filtergen, WriteSkeleton, WriteGroup, WriteRule, WriteEnd, Write, RuleRefused, Interrupted
    <2>2. restore # "running"
      BY <2>1 DEF RestoreInv
    <2>3. restore = "waiting" => Unread'
      BY <1>1, <1>5, UnreadGrows DEF RestoreInv
    <2> QED
      BY <1>1, <1>3, <2>1, <2>2, <2>3 DEF RestoreInv
  <1>6. CASE StartRestore
    <2>1. Unread' /\ writer' \in {"done", "failed"} /\ restore' = "running"
      BY <1>6 DEF StartRestore, RestoreInv, Unread, Calls
    <2> QED
      BY <1>1, <1>3, <2>1 DEF RestoreInv
  <1>7. CASE BeginTable
    <2>1. /\ restore = "running" /\ restore' = "running" /\ table = NULL /\ script # <<>>
          /\ writer' = writer
      BY <1>7 DEF BeginTable, Next_is, Consume
    <2>2. Unread /\ writer \in {"done", "failed"}
      BY <1>4, <2>1 DEF RestoreInv, Reading, Committed
    <2> QED
      BY <1>1, <1>3, <1>7, <2>1, <2>2, ReadsOpening DEF RestoreInv
  <1>8. CASE Commit
    <2>1. /\ restore = "running" /\ restore' = "running" /\ table # NULL /\ writer' = writer
      BY <1>8 DEF Commit, Next_is, Consume
    <2>2. Reading /\ writer \in {"done", "failed"}
      BY <2>1 DEF RestoreInv, Unread, Committed
    <2> QED
      BY <1>1, <1>3, <1>8, <2>1, <2>2, ReadsCommit DEF RestoreInv
  <1>9. CASE Edit
    <2>1. restore = "running" /\ restore' = "running" /\ writer' = writer /\ script # <<>>
          /\ Head(script).op \notin {"*", "COMMIT"} /\ Usable(Head(script))
      BY <1>1, <1>9, EditTyped
    <2>2. table # NULL
      BY <1>4, <2>1 DEF Usable, Table
    <2>3. Reading /\ writer \in {"done", "failed"}
      BY <2>1, <2>2 DEF RestoreInv, Unread, Committed
    <2> QED
      BY <1>1, <1>3, <1>9, <2>1, <2>3, ReadsEdit DEF RestoreInv
  <1>10. CASE LineRefused \/ EndOfScript \/ RestoreKilled
    <2>1. restore' \in {"done", "failed", "killed"}
      BY <1>10 DEF LineRefused, EndOfScript, RestoreKilled
    <2> QED
      BY <1>1, <1>3, <2>1 DEF RestoreInv
  <1>11. CASE UNCHANGED vars
    BY <1>1, <1>3, <1>11 DEF vars, RestoreInv, Unread, Reading, Committed, Calls
  <1> QED
    BY <1>5, <1>6, <1>7, <1>8, <1>9, <1>10, <1>11 DEF Next, Reader

(* and at first.                                                           *)
LEMMA RestoreInvInit ==
    ASSUME Init
    PROVE  RestoreInv /\ WholeMeant
  <1>1. TypeOK
    BY RestoreTyped
  <1>2. Calls = 0
    BY <1>1, CallsLeft, LenProperties DEF Init, Calls
  <1> QED
    BY <1>1, <1>2 DEF Init, RestoreInv, Unread, WholeMeant

(* A program without rules for the nat table: while nothing of the script  *)
(* is in force, what is still to be read makes the draft what the whole    *)
(* script stands for; a script that breaks off has no COMMIT.              *)
THEOREM RestoreInvariance == Spec => [](NatFree => RestoreInv)
  <1> DEFINE I == NatFree => RestoreInv /\ WholeMeant
  <1>1. Init => I
    BY RestoreInvInit
  <1>2. I /\ [Next]_vars => I'
    <2> SUFFICES ASSUME I, [Next]_vars, NatFree'
                 PROVE  (RestoreInv /\ WholeMeant)'
      OBVIOUS
    <2>1. UNCHANGED constants
      BY DEF Next, vars, Filtergen, Reader, WriteSkeleton, WriteGroup, WriteRule, WriteEnd, Write, RuleRefused,
             Interrupted, StartRestore, BeginTable, Commit, Edit, Consume, LineRefused, EndOfScript, RestoreKilled
    <2>2. NatFree
      BY <2>1 DEF NatFree, constants
    <2> QED
      BY <2>2, RestoreInvStep
  <1>3. I => (NatFree => RestoreInv)
    OBVIOUS
  <1> QED
    BY <1>1, <1>2, <1>3, PTL DEF Spec


(***************************************************************************)
(* The refinement.  Only Commit changes the rules in force, and only from  *)
(* the old ones; what settles the load otherwise gives it up.              *)
(***************************************************************************)
LEMMA RestoreImplements ==
    ASSUME RestoreInv, WholeMeant, NatFree, [Next]_vars
    PROVE  [Atomic!Next]_(Atomic!loadState)
  <1> USE DEF constants, writing, reading
  <1>1. UNCHANGED constants
    BY DEF Next, vars, Filtergen, Reader, WriteSkeleton, WriteGroup, WriteRule, WriteEnd, Write, RuleRefused,
           Interrupted, StartRestore, BeginTable, Commit, Edit, Consume, LineRefused, EndOfScript, RestoreKilled
  <1>2. ASSUME UNCHANGED <<kernel, restore>>
        PROVE  UNCHANGED Atomic!loadState
    BY <1>1, <1>2 DEF Atomic!loadState, Settled
  <1>3. CASE Filtergen \/ Interrupted \/ BeginTable \/ Edit \/ UNCHANGED vars
    BY <1>2, <1>3 DEF Filtergen, WriteSkeleton, WriteGroup, WriteRule, WriteEnd, Write, RuleRefused,
                      Interrupted, BeginTable, Edit, Consume, vars
  <1>4. CASE StartRestore
    BY <1>1, <1>4 DEF StartRestore, Atomic!loadState, Settled
  <1>5. CASE Commit
    <2>1. restore = "running" /\ restore' = restore /\ table # NULL
      BY <1>5 DEF Commit, Next_is
    <2>2. TypeOK /\ Reading
      BY <2>1 DEF RestoreInv, Unread, Committed
    <2>3. kernel = old /\ kernel' = whole
      BY <1>1, <1>5, <2>2, ReadsCommit DEF Committed
    <2>4. ~Settled /\ ~Settled'
      BY <2>1 DEF Settled
    <2>5. CASE whole = old
      BY <1>2, <2>1, <2>3, <2>5
    <2>6. CASE whole # old
      BY <1>1, <2>3, <2>4, <2>6 DEF Atomic!Next, Atomic!Replace
    <2> QED
      BY <2>5, <2>6
  <1>6. CASE LineRefused \/ EndOfScript \/ RestoreKilled
    <2>1. kernel' = kernel /\ Settled'
      BY <1>6 DEF LineRefused, EndOfScript, RestoreKilled, Settled
    <2>2. CASE kernel = old
      <3>1. ~Settled
        BY <1>6 DEF LineRefused, EndOfScript, RestoreKilled, Settled
      <3> QED
        BY <1>1, <2>1, <2>2, <3>1 DEF Atomic!Next, Atomic!GiveUp
    <2>3. CASE kernel # old
      BY <1>1, <2>1, <2>3 DEF Atomic!loadState
    <2> QED
      BY <2>2, <2>3
  <1> QED
    BY <1>3, <1>4, <1>5, <1>6 DEF Next, Reader

(* Whoever is killed, whatever is refused, and wherever the script breaks  *)
(* off: the rules in force are replaced once, by those of the whole        *)
(* script, or not at all (filter_backends.7:20, "loaded atomically"),      *)
(* unless a rule has its own section for the nat table.                    *)
THEOREM RestoresAtomically == Spec /\ NatFree => LoadsAtomically
  <1> DEFINE J == RestoreInv /\ WholeMeant /\ NatFree
  <1>1. Init /\ NatFree => J
    BY RestoreInvInit
  <1>2. Init => ~(kernel # old \/ Settled)
    BY DEF Init, Settled
  <1>3. J /\ [Next]_vars => J'
    <2> SUFFICES ASSUME J, [Next]_vars
                 PROVE  J'
      OBVIOUS
    <2>1. UNCHANGED <<program, family>>
      BY DEF Next, vars, constants, writing, reading, Filtergen, Reader, WriteSkeleton, WriteGroup, WriteRule,
             WriteEnd, Write, RuleRefused, Interrupted, StartRestore, BeginTable, Commit, Edit, Consume,
             LineRefused, EndOfScript, RestoreKilled
    <2>2. NatFree'
      BY <2>1 DEF NatFree
    <2> QED
      BY <2>2, RestoreInvStep
  <1>4. J /\ [Next]_vars => [Atomic!Next]_(Atomic!loadState)
    BY RestoreImplements
  <1> QED
    BY <1>1, <1>2, <1>3, <1>4, PTL DEF Spec, LoadsAtomically, Atomic!Spec


-----------------------------------------------------------------------------
(***************************************************************************)
(* No line is refused.  The draft begins with the builtin chains, the      *)
(* script creates the others before it names them, and only a group that   *)
(* is announced again is in the way.                                       *)
(***************************************************************************)

(* The lines that AllAccepted does not speak of: groups announced again,   *)
(* and the two lines that are not commands.                                *)
Skipped(calls) == Again(calls) \union {OpenTable("filter")[1], COMMIT[1]}

(* The rules as cb_iptrestore_rule places them.                            *)
LEMMA LeadsRestoreRule ==
    ASSUME NEW C, NEW X, NEW ent \in Ent, NEW f \in Family, ~RestoreRefused(ent, f), Placed(ent, C),
           ~NeedsNat(ent)
    PROVE  Leads(C, RestoreRule(ent), C, X)
  <1>0. ~Refused(ent, f)
    BY DEF RestoreRefused
  <1>1. /\ {ent.dir, Opposite(ent.dir), Forwarding(ent.dir), Forwarding(Opposite(ent.dir))}
                  \subseteq GroupBase
        /\ RuleTests(ent) \in SUBSET Test /\ ReturnTests(ent) \in SUBSET Test
        /\ Aims(ent, RuleTarget(ent)) /\ Aims(ent, ReturnTarget(ent))
        /\ Aims(ent, ForwardReturnTarget(ent))
        /\ Base("LOG") \in Jump /\ Base("LOG").base \in Alteration
    BY <1>0, RuleParts
  <1>2. /\ Texts(ent).rule = RuleTests(ent) /\ Texts(ent).back = ReturnTests(ent)
        /\ Aims(ent, RestoreForwardTarget(ent))
    BY RestoreParts
  <1>3. Aims(ent, Base("LOG"))
    BY <1>1 DEF Aims
  <1>4. ASSUME NEW op \in {"-A", "-I"}, NEW b \in GroupBase, NEW tests \in SUBSET Test, NEW jump,
               Aims(ent, jump)
        PROVE  /\ Leads(C, Put(op, SubChain(ent, b), tests, jump), C, X)
               /\ Leads(C, Put(op, Base(b), tests, jump), C, X)
    BY <1>0, <1>4, LeadsPlaced
  <1>5. Leads(C, RestoreLog(ent), C, X)
    <2>1. /\ Leads(C, Put("-A", Base(ent.dir), Texts(ent).rule, Base("LOG")), C, X)
          /\ Leads(C, Put("-A", Base(Forwarding(ent.dir)), Texts(ent).rule, Base("LOG")), C, X)
      BY <1>1, <1>2, <1>3, <1>4
    <2> QED
      BY <2>1, LeadsIf, LeadsOn DEF RestoreLog
  <1>6. Leads(C, Put("-A", SubChain(ent, ent.dir), Texts(ent).rule, RuleTarget(ent)), C, X)
    BY <1>1, <1>2, <1>4
  <1>7. Leads(C, Put("-I", SubChain(ent, Opposite(ent.dir)), Texts(ent).back, ReturnTarget(ent)), C, X)
    BY <1>1, <1>2, <1>4
  <1>8. Leads(C, Put("-A", SubChain(ent, Forwarding(ent.dir)), Texts(ent).rule,
                     RestoreForwardTarget(ent)), C, X)
    BY <1>1, <1>2, <1>4
  <1>9. Leads(C, Put("-I", SubChain(ent, Forwarding(Opposite(ent.dir))), Texts(ent).back,
                     ForwardReturnTarget(ent)), C, X)
    BY <1>1, <1>2, <1>4
  <1>10. \A s : Leads(C, If(NeedsNat(ent), s), C, X)
    BY LeadsIf
  <1> QED
    BY <1>5, <1>6, <1>7, <1>8, <1>9, <1>10, LeadsIf, LeadsOn DEF RestoreRule

(* The skeleton on a table that is empty.                                  *)
LEMMA LeadsRestoreSkeleton ==
    ASSUME NEW X, OpenTable("filter")[1] \in X, NEW f
    PROVE  Leads(BuiltinFilter, RestoreSkeleton(f), Ground, X)
  <1> DEFINE c == OpenTable("filter")[1]
             o == OpenTable("filter")
             s == o \o SetPolicy("DROP")
  <1>1. c \in Line /\ o = <<c>> /\ c \in X /\ \A k : After(k, c) = k
    BY DEF OpenTable, Line, After, Accepted
  <1> HIDE DEF c
  <1>2. Leads(BuiltinFilter, <<c>>, BuiltinFilter, X)
    BY <1>1, LeadsOne
  <1>3. Leads(BuiltinFilter, SetPolicy("DROP"), BuiltinFilter, X)
    BY LeadsPolicies
  <1>4. Leads(BuiltinFilter, s, BuiltinFilter, X)
    BY <1>1, <1>2, <1>3, LeadsOn
  <1>5. RestoreSkeleton(f) =
          s \o << NewChain(Base("FORW_OUT")), NewChain(Base("INVALID")) >>
            \o Put("-A", Base("INVALID"), {}, Base("DROP"))
            \o Put("-I", Base("INPUT"), InvalidTests, Base("INVALID"))
            \o Put("-I", Base("OUTPUT"), InvalidTests, Base("INVALID"))
            \o Put("-I", Base("FORWARD"), InvalidTests, Base("INVALID"))
    BY DEF RestoreSkeleton
  <1> HIDE DEF s
  <1> QED
    BY <1>4, <1>5, LeadsGround

(* One call after others.                                                  *)
LEMMA LeadsCall ==
    ASSUME NEW calls \in Seq(Call), NEW fam \in Family, Grouped(calls), NEW n \in Nat, n + 1 \in 1..Len(calls),
           Plain(calls[n + 1], fam)
    PROVE  Leads(Built(calls, n), CallLines(calls[n + 1], fam), Built(calls, n + 1), Skipped(calls))
  <1> DEFINE call == calls[n + 1]
             C == Built(calls, n)
             X == Skipped(calls)
  <1>0. call \in Call
    OBVIOUS
  <1>1. call.k \in {"group", "rule"} /\ call.group \in Group /\ call.ent \in Ent
    BY <1>0 DEF Call
  <1>2. Built(calls, n + 1) = IF call.k = "group" THEN C \union ChainsOf(call.group) ELSE C
    BY BuiltNext
  <1>3. CASE call.k = "group"
    <2>1. call.group \in Value
      <3>1. call.group # NULL
        BY <1>3 DEF Grouped
      <3> QED
        BY <1>1, <3>1 DEF Group
    <2>2. \A c \in ChainsOf(call.group) : c \notin C \/ NewChain(c) \in X
      <3> TAKE c \in ChainsOf(call.group)
      <3>1. c \in C => NewChain(c) \in Again(calls)
        BY <1>3, <2>1, BuiltOnce
      <3> QED
        BY <3>1 DEF Skipped
    <2>3. CallLines(call, fam) = GroupCommands(call.group)
      BY <1>3 DEF CallLines, RestoreGroup
    <2> HIDE DEF call, C, X
    <2>4. Leads(C, GroupCommands(call.group), C \union ChainsOf(call.group), X)
      BY <1>1, <2>2, LeadsGroup
    <2> QED
      BY <1>2, <1>3, <2>3, <2>4 DEF call, C, X
  <1>4. CASE call.k = "rule"
    <2>1. CallLines(call, fam) = If(~RestoreRefused(call.ent, fam), RestoreRule(call.ent))
      BY <1>4 DEF CallLines
    <2>2. GroupsOf(call.ent) \subseteq Announced(calls, n)
      <3>1. GroupsOf(call.ent) \subseteq Announced(calls, n + 1)
        BY <1>4 DEF Grouped
      <3>2. 1..(n + 1) = 1..n \union {n + 1}
        OBVIOUS
      <3>3. Announced(calls, n + 1) = Announced(calls, n)
        BY <1>4, <3>2 DEF Announced
      <3> QED
        BY <3>1, <3>3
    <2>3. Placed(call.ent, C)
      BY <2>2, BuiltBefore
    <2>4. ~RestoreRefused(call.ent, fam) => ~NeedsNat(call.ent)
      BY <1>4 DEF Plain
    <2> HIDE DEF call, C, X
    <2>5. ~RestoreRefused(call.ent, fam) => Leads(C, RestoreRule(call.ent), C, X)
      BY <1>1, <2>3, <2>4, LeadsRestoreRule
    <2>6. Leads(C, CallLines(call, fam), C, X)
      BY <2>1, <2>5, LeadsIf
    <2> QED
      BY <1>2, <1>4, <2>6 DEF call, C, X
  <1> QED
    BY <1>1, <1>3, <1>4

(* All of them.                                                            *)
LEMMA LeadsWritten ==
    ASSUME NEW calls \in Seq(Call), NEW fam \in Family, Grouped(calls),
           \A i \in 1..Len(calls) : Plain(calls[i], fam)
    PROVE  \A n \in 0..Len(calls) :
             Leads(BuiltinFilter, Written(calls, fam)[n], Built(calls, n), Skipped(calls))
  <1> DEFINE N == Len(calls)
             w == Written(calls, fam)
             X == Skipped(calls)
             P == { i \in Nat : i <= N => Leads(BuiltinFilter, w[i], Built(calls, i), X) }
  <1>1. N \in Nat
    BY LenProperties
  <1>2. /\ w[0] = RestoreSkeleton(fam)
        /\ \A i \in 1..N : w[i] = w[i - 1] \o CallLines(calls[i], fam)
    BY WrittenUnfold
  <1>3. \A i \in Nat : i + 1 \in 1..N =>
          Leads(Built(calls, i), CallLines(calls[i + 1], fam), Built(calls, i + 1), X)
    BY LeadsCall
  <1>4. Leads(BuiltinFilter, w[0], Built(calls, 0), X)
    <2>1. OpenTable("filter")[1] \in X
      BY DEF Skipped
    <2>2. Built(calls, 0) = Ground
      BY DEF Built, Announced
    <2> HIDE DEF w, X
    <2> QED
      BY <1>2, <2>1, <2>2, LeadsRestoreSkeleton
  <1> HIDE DEF w, N, X
  <1>5. 0 \in P
    BY <1>4
  <1>6. ASSUME NEW i \in P
        PROVE  i + 1 \in P
    <2> SUFFICES ASSUME i + 1 <= N
                 PROVE  Leads(BuiltinFilter, w[i + 1], Built(calls, i + 1), X)
      BY <1>6
    <2>1. i \in Nat /\ i + 1 \in 1..N /\ (i + 1) - 1 = i /\ Leads(BuiltinFilter, w[i], Built(calls, i), X)
      BY <1>1, <1>6
    <2>2. w[i + 1] = w[i] \o CallLines(calls[i + 1], fam)
      BY <1>2, <2>1
    <2> QED
      BY <1>3, <2>1, <2>2, LeadsOn
  <1>7. P \in SUBSET Nat
    OBVIOUS
  <1> HIDE DEF P
  <1>8. P = Nat
    BY <1>5, <1>6, <1>7, Induction
  <1>9. \A n \in 0..N : Leads(BuiltinFilter, w[n], Built(calls, n), X)
    BY <1>1, <1>8 DEF P
  <1> QED
    BY <1>9 DEF w, N, X


(* The script that is complete.                                            *)
LEMMA WholeAccepted ==
    ASSUME TypeOK, NatFree, Grouped(program)
    PROVE  AllAccepted(Emptied(old, "filter"), RestoreScript(program, family), Skipped(program))
  <1> DEFINE w == Written(program, family)[Len(program)]
             k == Emptied(old, "filter")
             X == Skipped(program)
             c == COMMIT[1]
  <1>1. IsKernel(k) /\ FilterChains(k) = BuiltinFilter
    BY EmptiedKernel, RestoreAssumption DEF TypeOK
  <1>2. Leads(BuiltinFilter, w, Built(program, Len(program)), X)
    <2>1. program \in Seq(Call) /\ family \in Family /\ Len(program) \in 0..Len(program)
      BY CallsLeft, LenProperties DEF TypeOK
    <2>2. \A i \in 1..Len(program) : Plain(program[i], family)
      BY DEF NatFree, Plain
    <2> QED
      BY <2>1, <2>2, LeadsWritten
  <1>3. c \in Line /\ c \in X /\ COMMIT = <<c>>
    BY DEF COMMIT, Line, Skipped
  <1>4. RestoreScript(program, family) = w \o COMMIT
    BY DEF RestoreScript
  <1> HIDE DEF w, k, X, c
  <1>5. AllAccepted(k, w, X) /\ w \in Seq(Line)
    BY <1>1, <1>2 DEF Leads
  <1>6. IsKernel(Effect(k, w))
    BY <1>1, <1>5, StageSteps
  <1>7. COMMIT \in Seq(Line) /\ AllAccepted(Effect(k, w), COMMIT, X)
    BY <1>3, <1>6, OneLine
  <1>8. AllAccepted(k, w \o COMMIT, X)
    BY <1>1, <1>5, <1>7, AcceptedBeyond
  <1> QED
    BY <1>4, <1>8 DEF k, X

(* The invariant: what is left of a complete script will be accepted.      *)
AcceptInv ==
    /\ FailsForAReason
    /\ writer = "done" /\ restore \in {"waiting", "running"} =>
         /\ Unread => AllAccepted(Emptied(old, "filter"), script, Skipped(program))
         /\ Reading => AllAccepted(draft, script, Skipped(program))

(* Every step of either process keeps what is unread acceptable.           *)
LEMMA AcceptStep ==
    ASSUME RestoreInv, RestoreInv', WholeMeant, NatFree, Grouped(program), AcceptInv, [Next]_vars
    PROVE  AcceptInv'
  <1> USE DEF constants, writing, reading
  <1> DEFINE X == Skipped(program)
  <1>1. UNCHANGED constants
    BY DEF Next, vars, Filtergen, Reader, WriteSkeleton, WriteGroup, WriteRule, WriteEnd, Write, RuleRefused,
           Interrupted, StartRestore, BeginTable, Commit, Edit, Consume, LineRefused, EndOfScript, RestoreKilled
  <1>2. X' = X /\ Redeclared' = Redeclared
    BY <1>1 DEF Skipped, Again, Twice, Redeclared
  <1>3. TypeOK /\ NULL # "filter" /\ NULL # "nat"
    BY RestoreAssumption DEF RestoreInv
  <1> HIDE DEF X
  <1>4. ASSUME restore' # "failed", ~(writer' = "done" /\ restore' \in {"waiting", "running"})
        PROVE  AcceptInv'
    BY <1>4 DEF AcceptInv, FailsForAReason
  <1>5. CASE WriteSkeleton \/ WriteGroup \/ WriteRule \/ RuleRefused \/ Interrupted
    <2>1. writer \in {"skeleton", "rules"} /\ writer' # "done" /\ restore' = restore
      BY <1>5 DEF WriteSkeleton, WriteGroup, WriteRule, RuleRefused, Interrupted, Write
    <2>2. CASE restore # "failed"
      BY <1>4, <2>1, <2>2
    <2>3. CASE restore = "failed"
      <3>1. Redeclared
        BY <2>1, <2>3 DEF AcceptInv, FailsForAReason
      <3> QED
        BY <1>2, <2>1, <2>3, <3>1 DEF AcceptInv, FailsForAReason
    <2> QED
      BY <2>2, <2>3
  <1>6. CASE WriteEnd
    <2>1. /\ writer = "rules" /\ writer' = "done" /\ script' = script \o COMMIT /\ todo = <<>>
          /\ UNCHANGED <<restore, table, kernel>>
      BY <1>6 DEF WriteEnd, Write
    <2>2. restore # "running"
      BY <2>1 DEF RestoreInv
    <2>3. FailsForAReason'
      BY <1>2, <2>1 DEF AcceptInv, FailsForAReason
    <2>4. CASE restore = "waiting"
      <3>1. script = Written(program, family)[Len(program)] /\ table = NULL
        <4>1. Calls = Len(program)
          BY <1>3, <2>1, CallsLeft
        <4> QED
          BY <2>1, <2>4, <4>1 DEF RestoreInv, Unread
      <3>2. script' = RestoreScript(program, family)
        BY <2>1, <3>1 DEF RestoreScript
      <3>3. AllAccepted(Emptied(old, "filter"), script', X)
        BY <1>3, <3>2, WholeAccepted DEF X
      <3>4. ~Reading'
        BY <1>3, <2>1, <3>1 DEF Reading
      <3>5. AllAccepted(Emptied(old, "filter"), script, Skipped(program))'
        BY <1>1, <1>2, <3>3 DEF X
      <3> QED
        BY <2>3, <3>4, <3>5 DEF AcceptInv
    <2>5. CASE restore # "waiting"
      BY <2>1, <2>2, <2>3, <2>5 DEF AcceptInv
    <2> QED
      BY <2>4, <2>5
  <1>7. ASSUME UNCHANGED <<writer, script, table, draft, kernel, todo>>,
               restore' = restore \/ (restore = "waiting" /\ restore' = "running")
        PROVE  AcceptInv'
    <2>1. Unread' = Unread /\ Reading' = Reading
      BY <1>1, <1>7 DEF Unread, Reading, Calls
    <2>2. /\ AllAccepted(Emptied(old, "filter"), script, Skipped(program))'
               = AllAccepted(Emptied(old, "filter"), script, X)
          /\ AllAccepted(draft, script, Skipped(program))' = AllAccepted(draft, script, X)
      BY <1>1, <1>2, <1>7 DEF X
    <2>3. FailsForAReason'
      BY <1>2, <1>7 DEF AcceptInv, FailsForAReason
    <2> QED
      BY <1>7, <2>1, <2>2, <2>3 DEF AcceptInv, X
  <1>8. CASE StartRestore \/ UNCHANGED vars
    BY <1>7, <1>8 DEF StartRestore, vars
  <1>9. CASE RestoreKilled
    BY <1>4, <1>9 DEF RestoreKilled
  <1>10. CASE Commit
    <2>1. restore = "running" /\ restore' = restore /\ writer' = writer /\ script' = Tail(script) /\ table # NULL
      BY <1>10 DEF Commit, Next_is, Consume
    <2>2. Reading
      BY <2>1 DEF RestoreInv, Unread, Committed
    <2>3. Committed'
      BY <1>3, <1>10, <2>2, ReadsCommit
    <2>4. ~Reading' /\ (writer' = "done" => ~Unread')
      BY <1>3, <2>3 DEF Committed, Reading, Unread
    <2> QED
      BY <2>1, <2>4 DEF AcceptInv, FailsForAReason
  <1>11. CASE BeginTable
    <2>1. /\ restore = "running" /\ restore' = restore /\ writer' = writer /\ script' = Tail(script)
          /\ script # <<>> /\ script \in Seq(Line) /\ Head(script).op = "*" /\ table = NULL
          /\ table' = Head(script).table /\ draft' = Emptied(kernel, table')
      BY <1>3, <1>11 DEF BeginTable, Next_is, Consume, TypeOK
    <2>2. Unread /\ kernel = old
      BY <1>3, <2>1 DEF RestoreInv, Reading, Committed, Unread
    <2>3. table' = "filter"
      BY <2>1, <2>2, HeadTailProperties DEF Unread, OpenTable
    <2>4. ~Unread'
      BY <1>3, <2>3 DEF Unread
    <2>5. writer = "done" => AllAccepted(draft', script', X)
      <3> DEFINE k == Emptied(old, "filter")
      <3>1. IsKernel(k) /\ draft' = k /\ After(k, Head(script)) = k
        BY <1>3, <2>1, <2>2, <2>3, EmptiedKernel, RestoreAssumption DEF TypeOK, After, Accepted
      <3>2. writer = "done" => AllAccepted(k, script, X)
        BY <2>1, <2>2 DEF AcceptInv, X
      <3> HIDE DEF k
      <3> QED
        BY <2>1, <3>1, <3>2, FirstLine
    <2>6. writer' = "done" => AllAccepted(draft, script, Skipped(program))'
      BY <1>2, <2>1, <2>5 DEF X
    <2> QED
      BY <2>1, <2>4, <2>6 DEF AcceptInv, FailsForAReason
  <1>12. CASE Edit
    <2>1. /\ draft' = After(draft, Head(script)) /\ script' = Tail(script) /\ IsKernel(draft)
          /\ script \in Seq(Line) /\ script # <<>> /\ Usable(Head(script)) /\ Head(script).op \notin {"*", "COMMIT"}
          /\ UNCHANGED <<constants, writer, table, kernel, restore>> /\ restore = "running"
      BY <1>3, <1>12, EditTyped DEF TypeOK
    <2>2. table # NULL
      BY <1>3, <2>1 DEF Usable, Table
    <2>3. Reading /\ ~Unread'
      BY <2>1, <2>2 DEF RestoreInv, Unread, Committed
    <2>4. writer = "done" => AllAccepted(draft', script', X)
      <3>1. writer = "done" => AllAccepted(draft, script, X)
        BY <2>1, <2>3 DEF AcceptInv, X
      <3> QED
        BY <2>1, <3>1, FirstLine
    <2>5. writer' = "done" => AllAccepted(draft, script, Skipped(program))'
      BY <1>2, <2>1, <2>4 DEF X
    <2> QED
      BY <2>1, <2>3, <2>5 DEF AcceptInv, FailsForAReason
  <1>13. CASE LineRefused
    <2>1. /\ restore = "running" /\ restore' = "failed" /\ script # <<>> /\ ~Usable(Head(script))
          /\ writer' = writer /\ script \in Seq(Line)
      BY <1>3, <1>13 DEF LineRefused, TypeOK
    <2>2. ~Committed /\ writer \in {"done", "failed"}
      BY <2>1 DEF Committed, RestoreInv
    <2>3. ~Unread
      <3> SUFFICES ASSUME Unread
                   PROVE  FALSE
        OBVIOUS
      <3>1. Head(script) = OpenTable("filter")[1] /\ table = NULL
        BY <2>1, HeadTailProperties DEF Unread
      <3> QED
        BY <2>1, <3>1 DEF Usable, OpenTable
    <2>4. Reading
      BY <2>1, <2>2, <2>3 DEF RestoreInv
    <2>5. writer = "done" => Redeclared
      <3> HAVE writer = "done"
      <3>1. AllAccepted(draft, script, X)
        BY <2>1, <2>4 DEF AcceptInv, X
      <3>2. Head(script) \in X \/ Accepted(draft, Head(script))
        BY <1>3, <2>1, <3>1, FirstLine DEF TypeOK
      <3>3. IsEdit(Head(script))
        <4>1. OneSection(script, 1, TRUE) /\ table = "filter"
          BY <2>4 DEF Reading
        <4>2. Head(script).op # "COMMIT"
          BY <1>3, <2>1, <4>1 DEF Usable
        <4> QED
          BY <2>1, <4>1, <4>2, SectionRead
      <3>4. ~Accepted(draft, Head(script))
        BY <2>1, <2>4, <3>3 DEF Usable, IsEdit, Reading
      <3>5. Head(script) \in Again(program)
        BY <3>2, <3>3, <3>4 DEF X, Skipped, OpenTable, COMMIT, IsEdit
      <3>6. PICK name : Twice(program, name)
        BY <3>5 DEF Again
      <3> QED
        BY <3>6 DEF Twice, Redeclared
    <2> QED
      BY <1>2, <2>1, <2>2, <2>5 DEF AcceptInv, FailsForAReason
  <1>14. CASE EndOfScript
    <2>1. /\ restore = "running" /\ script = <<>> /\ writer' = writer
          /\ restore' = IF table = NULL THEN "done" ELSE "failed"
      BY <1>14 DEF EndOfScript
    <2>2. restore' = "failed" => writer # "done"
      <3> SUFFICES ASSUME table # NULL, writer = "done"
                   PROVE  FALSE
        BY <2>1
      <3>1. Reading
        BY <2>1 DEF RestoreInv, Unread, Committed
      <3>2. Len(script) >= 1
        BY <3>1 DEF Reading, OneSection
      <3> QED
        BY <2>1, <3>2
    <2>3. writer \in {"done", "failed"}
      BY <2>1 DEF RestoreInv
    <2> QED
      BY <2>1, <2>2, <2>3 DEF AcceptInv, FailsForAReason
  <1> QED
    BY <1>5, <1>6, <1>8, <1>9, <1>10, <1>11, <1>12, <1>13, <1>14 DEF Next, Filtergen, Reader

(* One refused line would lose the whole load.  For the calls that         *)
(* filtergen_cprod makes (GroupedCalls of GenProofs), without a rule for   *)
(* the nat table, there is none: the load fails only if filtergen has, or  *)
(* if a group is announced twice, wherever the two processes are cut       *)
(* short.                                                                  *)
THEOREM RestoreAccepted == Spec => [](NatFree /\ Grouped(program) => FailsForAReason)
  <1> DEFINE I == NatFree => RestoreInv /\ WholeMeant
             J == NatFree /\ Grouped(program) => AcceptInv
  <1>1. Init => I /\ J
    BY RestoreInvInit DEF Init, AcceptInv, FailsForAReason
  <1>2. I /\ J /\ [Next]_vars => I' /\ J'
    <2> SUFFICES ASSUME I, J, [Next]_vars
                 PROVE  I' /\ J'
      OBVIOUS
    <2>1. UNCHANGED constants
      BY DEF Next, vars, writing, reading, Filtergen, Reader, WriteSkeleton, WriteGroup, WriteRule, WriteEnd, Write,
             RuleRefused, Interrupted, StartRestore, BeginTable, Commit, Edit, Consume, LineRefused, EndOfScript,
             RestoreKilled, constants
    <2>2. NatFree' = NatFree /\ Grouped(program)' = Grouped(program)
      BY <2>1 DEF NatFree, constants
    <2>3. I'
      BY <2>2, RestoreInvStep
    <2>4. ASSUME NatFree', Grouped(program)'
          PROVE  AcceptInv'
      BY <2>2, <2>3, <2>4, AcceptStep
    <2> QED
      BY <2>3, <2>4
  <1>3. J => (NatFree /\ Grouped(program) => FailsForAReason)
    BY DEF AcceptInv
  <1> QED
    BY <1>1, <1>2, <1>3, PTL DEF Spec


-----------------------------------------------------------------------------
(***************************************************************************)
(* What gets through.  The rules that the whole of the script stands for   *)
(* are built up as those of the iptables backend are; only the way begins  *)
(* with tables that are empty, and nobody sees it.                         *)
(***************************************************************************)

(* The chains of an emptied table are empty.                               *)
LEMMA EmptiedEmpty ==
    ASSUME NEW k, IsKernel(k), NEW c \in BuiltinFilter
    PROVE  Emptied(k, "filter").rules[c] = <<>>
  <1> DEFINE f == [op |-> "-F", table |-> "filter"]
             x == [op |-> "-X", table |-> "filter"]
             R == [d \in Exists(k) |-> IF Table(d) = "filter" THEN <<>> ELSE k.rules[d]]
             n == [k EXCEPT !.rules = R]
             D == { d \in Exists(n) : Table(d) = "filter" => d \in BuiltinChains }
             Q == [d \in D |-> n.rules[d]]
             e == [n EXCEPT !.rules = Q]
  <1>1. /\ k = [policy |-> k.policy, rules |-> k.rules]
        /\ BuiltinChains \subseteq Exists(k)
    BY DEF IsKernel
  <1>2. Obeyed(k, f) = n
    BY DEF Obeyed
  <1>3. Obeyed(n, x) = e
    <2> HIDE DEF n
    <2> QED
      BY DEF Obeyed
  <1>4. c \in BuiltinChains /\ Table(c) = "filter"
    BY BuiltinInFilter
  <1>5. n.rules = R /\ n = [policy |-> n.policy, rules |-> n.rules]
    <2> HIDE DEF R
    <2> QED
      BY <1>1
  <1> HIDE DEF n
  <1>6. e.rules = Q
    <2> HIDE DEF Q
    <2> QED
      BY <1>5
  <1>7. c \in Exists(n)
    BY <1>1, <1>4, <1>5 DEF Exists
  <1>8. c \in D
    BY <1>4, <1>7
  <1>9. Q[c] = n.rules[c]
    BY <1>8
  <1>10. n.rules[c] = <<>>
    BY <1>1, <1>4, <1>5
  <1>11. Emptied(k, "filter") = e
    BY <1>2, <1>3 DEF Emptied
  <1> QED
    BY <1>6, <1>9, <1>10, <1>11

(* A line that is no command of iptables changes no rule.                  *)
LEMMA NotACommand ==
    ASSUME NEW c, c.op \in {"*", "COMMIT"}, NEW k
    PROVE  After(k, c) = k
  BY DEF After, Accepted

(* The draft begins without rules, and with the policies it had; once      *)
(* these are set it is as bare as after a flush.                           *)
LEMMA BareThrough ==
    ASSUME NEW k, IsKernel(k), NEW e, e = Emptied(k, "filter")
    PROVE  /\ e \in Halfway(e, {})
           /\ Through(Halfway(e, {}), OpenTable("filter") \o SetPolicy("DROP"),
                      Rising(BuiltinFilter, FALSE, {}), Waning(e))
  <1> DEFINE A == Halfway(e, {})
             I == Waning(e)
             B == Halfway(e, Builtin)
             c == OpenTable("filter")[1]
  <1>1. IsKernel(e) /\ FilterChains(e) = BuiltinFilter
    BY EmptiedKernel
  <1>2. \A a \in BuiltinFilter : e.rules[a] = <<>>
    BY EmptiedEmpty
  <1>3. e \in A
    BY <1>1, KernelSet DEF Halfway
  <1>4. c \in Line /\ OpenTable("filter") = <<c>> /\ c.op = "*"
    BY DEF OpenTable, Line
  <1> HIDE DEF c
  <1>5. \A j \in A : IsKernel(j) /\ j \in I /\ After(j, c) \in A /\ After(j, c) \in I
    <2> TAKE j \in A
    <2>1. IsKernel(j)
      BY DEF Halfway, Kernel
    <2>2. j \in I
      BY <2>1, WaningIs
    <2>3. After(j, c) = j
      BY <1>4, NotACommand
    <2> QED
      BY <2>1, <2>2, <2>3
  <1>6. Through(A, SetPolicy("DROP"), B, I)
    BY PoliciesThrough
  <1>7. B \subseteq Rising(BuiltinFilter, FALSE, {})
    <2> DEFINE C == BuiltinFilter
               no == FALSE
               G == {}
    <2> SUFFICES ASSUME NEW j \in B
                 PROVE  j \in Rising(C, no, G)
      OBVIOUS
    <2>1. IsKernel(j) /\ j.rules = e.rules /\ \A b \in Builtin : j.policy[b] = "DROP"
      BY DEF Halfway, Kernel
    <2>2. FilterChains(j) = C
      BY <1>1, <2>1 DEF FilterChains, Exists
    <2>3. \A a \in C : j.rules[a] = Laid(no, G, a)
      BY <1>2, <2>1 DEF Laid, If
    <2> HIDE DEF C, no, G
    <2> QED
      BY <2>1, <2>2, <2>3, RisingMade
  <1> HIDE DEF A, B, I
  <1>8. Through(A, <<c>>, A, I)
    BY <1>4, <1>5, ThroughOne
  <1>9. Through(A, <<c>> \o SetPolicy("DROP"), B, I)
    BY <1>6, <1>8, ThroughOn
  <1>10. Through(A, <<c>> \o SetPolicy("DROP"), Rising(BuiltinFilter, FALSE, {}), I)
    <2> DEFINE R == Rising(BuiltinFilter, FALSE, {})
               s == <<c>> \o SetPolicy("DROP")
    <2>1. B \subseteq R /\ A \subseteq A /\ I \subseteq I /\ Through(A, s, B, I)
      BY <1>7, <1>9
    <2> HIDE DEF R, s
    <2>2. Through(A, s, R, I)
      BY <2>1, ThroughWider
    <2> QED
      BY <2>2 DEF R, s
  <1> QED
    BY <1>3, <1>4, <1>10 DEF A, I

(* The skeleton (fg_iptrestore).                                           *)
LEMMA RestoreSkeletonThrough ==
    ASSUME NEW calls, NEW rank, Course(calls, rank), NEW final \in BOOLEAN,
           NEW k, IsKernel(k), NEW e, e = Emptied(k, "filter"), NEW f
    PROVE  Through(Halfway(e, {}), RestoreSkeleton(f),
                   Having(final, calls, Evenly(0), Built(calls, 0)), Waning(e))
  <1> DEFINE s == OpenTable("filter") \o SetPolicy("DROP")
             A == Halfway(e, {})
  <1>1. Through(A, s, Rising(BuiltinFilter, FALSE, {}), Waning(e))
    BY BareThrough
  <1> HIDE DEF s, A
  <1>2. Through(A, s \o << NewChain(Base("FORW_OUT")), NewChain(Base("INVALID")) >>
                     \o Put("-A", Base("INVALID"), {}, Base("DROP"))
                     \o Put("-I", Base("INPUT"), InvalidTests, Base("INVALID"))
                     \o Put("-I", Base("OUTPUT"), InvalidTests, Base("INVALID"))
                     \o Put("-I", Base("FORWARD"), InvalidTests, Base("INVALID")),
                Having(final, calls, Evenly(0), Built(calls, 0)), Waning(e))
    BY <1>1, GroundThrough
  <1> QED
    BY <1>2 DEF RestoreSkeleton, s, A

(* A rule, as cb_iptrestore_rule prints it: a denial on the way in is      *)
(* final.                                                                  *)
LEMMA RestoreRuleThrough ==
    ASSUME NEW calls, NEW rank, Course(calls, rank),
           NEW m \in RuleCalls(calls), NEW f \in Family, ~RestoreRefused(calls[m].ent, f),
           ~NeedsNat(calls[m].ent), NEW C, Placed(calls[m].ent, C), NEW final, final = TRUE
    PROVE  Through(Having(final, calls, Evenly(m - 1), C), RestoreRule(calls[m].ent),
                   Having(final, calls, Evenly(m), C), Telling(final, calls))
  <1> DEFINE e == calls[m].ent
             s == Evenly(m - 1)
             A == Having(final, calls, s, C)
             text == RuleTexts(final, e)
             logs == LogCommands(e)
  <1>0. final \in BOOLEAN
    OBVIOUS
  <1>1. e \in Ent /\ ~Refused(e, f)
    <2>1. calls \in Seq(Call) /\ m \in 1..Len(calls)
      BY DEF Course, RuleCalls
    <2> QED
      BY <2>1, RuleCallIs DEF RestoreRefused
  <1>2. Through(A, logs, A, Telling(final, calls))
    <2> HIDE DEF s, e
    <2>1. Through(Having(final, calls, s, C), LogCommands(e), Having(final, calls, s, C), Telling(final, calls))
      BY <1>0, <1>1, LogsThrough
    <2> QED
      BY <2>1
  <1>3. RestoreRule(e) = logs \o text[1] \o text[2] \o If(IsForward(e), text[3] \o text[4])
    <2>1. RestoreLog(e) = logs
      BY DEF RestoreLog, LogCommands, Texts
    <2>2. logs \in Seq(Line)
      BY <1>2 DEF Through
    <2> HIDE DEF logs
    <2>3. logs \o <<>> = logs
      BY <2>2, ConcatEmptySeq
    <2> DEFINE a == If(IsLocal(e), Put("-A", SubChain(e, e.dir), RuleTests(e), RuleTarget(e)))
               b == If(NeedsReturn(e), Put("-I", SubChain(e, Opposite(e.dir)), ReturnTests(e), ReturnTarget(e)))
               c == Put("-A", SubChain(e, Forwarding(e.dir)), RuleTests(e), RestoreForwardTarget(e))
               d == If(NeedsReturn(e), Put("-I", SubChain(e, Forwarding(Opposite(e.dir))), ReturnTests(e),
                                           ForwardReturnTarget(e)))
    <2>4. text = <<a, b, c, d>>
      BY DEF RuleTexts, RestoreForwardTarget
    <2>5. RestoreRule(e) = logs \o <<>> \o a \o b \o If(IsForward(e), c \o d)
      <3>1. ~NeedsNat(e)
        OBVIOUS
      <3> HIDE DEF e
      <3> QED
        BY <2>1, <3>1 DEF RestoreRule, If, Texts
    <2> HIDE DEF a, b, c, d, text
    <2>6. text[1] = a /\ text[2] = b /\ text[3] = c /\ text[4] = d
      BY <2>4
    <2> QED
      BY <2>3, <2>5, <2>6
  <1> HIDE DEF logs, text
  <1>4. Through(Having(final, calls, Evenly(m - 1), C),
                logs \o text[1] \o text[2] \o If(IsForward(e), text[3] \o text[4]),
                Having(final, calls, Evenly(m), C), Telling(final, calls))
    BY <1>0, <1>1, <1>2, RuleThrough DEF text
  <1> QED
    BY <1>3, <1>4


(* A call after others.                                                    *)
LEMMA RestoreCallThrough ==
    ASSUME NEW calls, NEW rank, Course(calls, rank), NEW f \in Family,
           NEW n \in Nat, NEW m \in 1..Len(calls), m = n + 1,
           Plain(calls[m], f), calls[m].k = "rule" => ~RestoreRefused(calls[m].ent, f),
           NEW final, final = TRUE
    PROVE  Through(Having(final, calls, Evenly(n), Built(calls, n)), CallLines(calls[m], f),
                   Having(final, calls, Evenly(m), Built(calls, m)), Telling(final, calls))
  <1>1. calls \in Seq(Call) /\ Grouped(calls) /\ m - 1 = n /\ m \in Nat /\ final \in BOOLEAN
    BY DEF Course, Regular
  <1>2. calls[m].k \in {"group", "rule"}
    <2>1. calls[m] \in Call
      BY <1>1
    <2> QED
      BY <2>1 DEF Call
  <1>3. CASE calls[m].k = "group"
    <2>1. CallLines(calls[m], f) = GroupCommands(calls[m].group)
      BY <1>3 DEF CallLines, RestoreGroup
    <2>2. Through(Having(final, calls, Evenly(m - 1), Built(calls, m - 1)), GroupCommands(calls[m].group),
                  Having(final, calls, Evenly(m), Built(calls, m)), Telling(final, calls))
      BY <1>1, <1>3, GroupThrough
    <2> QED
      BY <1>1, <2>1, <2>2
  <1>4. CASE calls[m].k = "rule"
    <2> DEFINE C == Built(calls, m)
    <2>1. ~RestoreRefused(calls[m].ent, f) /\ ~NeedsNat(calls[m].ent) /\ m \in RuleCalls(calls)
      BY <1>4 DEF Plain, RuleCalls
    <2>2. CallLines(calls[m], f) = RestoreRule(calls[m].ent)
      BY <1>4, <2>1 DEF CallLines, If
    <2>3. GroupsOf(calls[m].ent) \subseteq Announced(calls, m)
      BY <1>1, <1>4 DEF Grouped
    <2>4. Placed(calls[m].ent, C)
      BY <1>1, <2>3, BuiltBefore
    <2>5. C = Built(calls, n)
      <3>1. Built(calls, n + 1) = Built(calls, n)
        BY <1>4, BuiltNext
      <3> QED
        BY <3>1
    <2> HIDE DEF C
    <2>6. Through(Having(final, calls, Evenly(m - 1), C), RestoreRule(calls[m].ent),
                  Having(final, calls, Evenly(m), C), Telling(final, calls))
      BY <2>1, <2>4, RestoreRuleThrough
    <2> QED
      BY <1>1, <2>2, <2>5, <2>6 DEF C
  <1> QED
    BY <1>2, <1>3, <1>4

(* All of them: what a complete script makes of tables that are empty.     *)
LEMMA WrittenThrough ==
    ASSUME NEW calls, NEW rank, Course(calls, rank), NEW f \in Family,
           \A i \in 1..Len(calls) :
               Plain(calls[i], f) /\ (calls[i].k = "rule" => ~RestoreRefused(calls[i].ent, f)),
           NEW k, IsKernel(k), NEW e, e = Emptied(k, "filter"), NEW final, final = TRUE
    PROVE  \A n \in 0..Len(calls) :
             Through(Halfway(e, {}), Written(calls, f)[n],
                     Having(final, calls, Evenly(n), Built(calls, n)),
                     Waning(e) \union Telling(final, calls))
  <1> DEFINE N == Len(calls)
             A == Halfway(e, {})
             I == Waning(e) \union Telling(final, calls)
             H(n) == Having(final, calls, Evenly(n), Built(calls, n))
             w == Written(calls, f)
             P == { i \in Nat : i <= N => Through(A, w[i], H(i), I) }
  <1>1. calls \in Seq(Call) /\ N \in Nat /\ final \in BOOLEAN
    BY LenProperties DEF Course
  <1>2. /\ w[0] = RestoreSkeleton(f)
        /\ \A i \in 1..N : w[i] = w[i - 1] \o CallLines(calls[i], f)
    BY <1>1, WrittenUnfold
  <1>3. Through(A, w[0], H(0), I)
    <2> DEFINE s == RestoreSkeleton(f)
               B == H(0)
               J == Waning(e)
    <2>1. Through(A, s, B, J)
      BY <1>1, RestoreSkeletonThrough
    <2>2. A \subseteq A /\ B \subseteq B /\ J \subseteq I /\ s = w[0]
      BY <1>2
    <2> HIDE DEF A, B, I, J, s, w
    <2>3. Through(A, s, B, I)
      BY <2>1, <2>2, ThroughWider
    <2> QED
      BY <2>2, <2>3 DEF B
  <1>4. ASSUME NEW n \in Nat, NEW m \in 1..N, m = n + 1
        PROVE  Through(H(n), CallLines(calls[m], f), H(m), I)
    <2> DEFINE s == CallLines(calls[m], f)
               B == H(n)
               D == H(m)
               J == Telling(final, calls)
    <2>1. Through(B, s, D, J)
      BY <1>4, RestoreCallThrough
    <2>2. D \subseteq D /\ B \subseteq B /\ J \subseteq I
      OBVIOUS
    <2> HIDE DEF B, D, I, J, s
    <2>3. Through(B, s, D, I)
      BY <2>1, <2>2, ThroughWider
    <2> QED
      BY <2>3 DEF B, D, s
  <1> HIDE DEF A, I, H, w, N
  <1>5. 0 \in P
    BY <1>3
  <1>6. ASSUME NEW i \in P
        PROVE  i + 1 \in P
    <2> SUFFICES ASSUME i + 1 <= N
                 PROVE  Through(A, w[i + 1], H(i + 1), I)
      BY <1>6
    <2> DEFINE m == i + 1
    <2>1. i \in Nat /\ m \in 1..N /\ m - 1 = i /\ m = i + 1 /\ Through(A, w[i], H(i), I)
      BY <1>1, <1>6
    <2> HIDE DEF m
    <2>2. w[m] = w[i] \o CallLines(calls[m], f)
      BY <1>2, <2>1
    <2>3. Through(H(i), CallLines(calls[m], f), H(m), I)
      BY <1>4, <2>1
    <2>4. Through(A, w[i] \o CallLines(calls[m], f), H(m), I)
      BY <2>1, <2>3, ThroughOn
    <2> QED
      BY <2>2, <2>4 DEF m
  <1>7. P \in SUBSET Nat
    OBVIOUS
  <1> HIDE DEF P
  <1>8. P = Nat
    BY <1>5, <1>6, <1>7, Induction
  <1>9. \A n \in 0..N : Through(A, w[n], H(n), I)
    BY <1>1, <1>8 DEF P
  <1> QED
    BY <1>9 DEF A, w, H, I, N

(* filtergen has come to the end of the calls without one being refused.   *)
Unrefused ==
    /\ writer = "done" => todo = <<>>
    /\ \A i \in 1..Calls : program[i].k = "rule" => ~RestoreRefused(program[i].ent, family)

(* The invariant: the rules in force are the old ones, or those of the     *)
(* whole of a script that is complete.                                     *)
ReplacedInv ==
    /\ Unrefused
    /\ kernel = old \/ (kernel = whole /\ writer = "done")

(* A call is made only if it is not refused.                               *)
LEMMA UnrefusedStep ==
    ASSUME TypeOK, Unrefused, [Next]_vars, UNCHANGED constants
    PROVE  Unrefused'
  <1> USE DEF constants, writing, reading
  <1>1. program' = program /\ family' = family
    OBVIOUS
  <1>2. CASE WriteGroup \/ WriteRule
    <2>1. /\ writer = "rules" /\ writer' = writer /\ todo # <<>> /\ todo' = Tail(todo)
          /\ Head(todo).k = "rule" => ~RestoreRefused(Head(todo).ent, family)
      BY <1>2 DEF WriteGroup, WriteRule, Write
    <2>2. Head(todo) = program[Calls + 1] /\ Calls' = Calls + 1 /\ Calls \in Nat
      <3>1. /\ Head(todo) = program[Calls + 1] /\ Len(program) - Len(Tail(todo)) = Calls + 1
            /\ Calls \in 0..Len(program) /\ Len(program) \in Nat
        BY <2>1, CallsLeft, LenProperties
      <3> QED
        BY <1>1, <2>1, <3>1 DEF Calls
    <2>3. \A i \in 1..(Calls + 1) : i \in 1..Calls \/ i = Calls + 1
      BY <2>2
    <2> QED
      BY <1>1, <2>1, <2>2, <2>3 DEF Unrefused
  <1>3. ASSUME todo' = todo, writer' = "done" => writer = "done" \/ todo = <<>>
        PROVE  Unrefused'
    BY <1>1, <1>3 DEF Unrefused, Calls
  <1>4. CASE WriteSkeleton \/ RuleRefused \/ WriteEnd \/ Interrupted
    BY <1>3, <1>4 DEF WriteSkeleton, RuleRefused, WriteEnd, Interrupted, Write
  <1>5. CASE Reader \/ RestoreKilled \/ UNCHANGED vars
    BY <1>3, <1>5 DEF Reader, StartRestore, BeginTable, Commit, Edit, Consume, LineRefused, EndOfScript,
                      RestoreKilled, vars
  <1> QED
    BY <1>2, <1>4, <1>5 DEF Next, Filtergen

(* COMMIT is there only if filtergen has come to its end.                  *)
LEMMA CommitDone ==
    ASSUME TypeOK, Reading, Commit
    PROVE  writer = "done"
  <1> DEFINE e == writer = "done"
  <1>1. script \in Seq(Line) /\ script # <<>> /\ Head(script).op = "COMMIT"
    BY DEF Commit, Next_is, TypeOK
  <1>2. e \in BOOLEAN
    OBVIOUS
  <1>3. OneSection(script, 1, e)
    BY DEF Reading
  <1> HIDE DEF e
  <1>4. e
    BY <1>1, <1>2, <1>3, SectionRead
  <1> QED
    BY <1>4 DEF e

(* Only a COMMIT replaces the rules, and it ends a script that is          *)
(* complete.                                                               *)
LEMMA ReplacedStep ==
    ASSUME RestoreInv, ReplacedInv, NatFree, [Next]_vars, UNCHANGED constants
    PROVE  ReplacedInv'
  <1> USE DEF constants, writing, reading
  <1>0. TypeOK /\ NULL # "filter"
    BY RestoreAssumption DEF RestoreInv
  <1>1. Unrefused'
    BY <1>0, UnrefusedStep DEF ReplacedInv
  <1>2. CASE Commit
    <2>1. restore = "running" /\ writer' = writer /\ table # NULL
      BY <1>2 DEF Commit, Next_is, Consume
    <2>2. Reading
      BY <2>1 DEF RestoreInv, Unread, Committed
    <2>3. Committed' /\ writer = "done"
      BY <1>0, <1>2, <2>2, ReadsCommit, CommitDone
    <2> QED
      BY <1>1, <2>1, <2>3 DEF ReplacedInv, Committed
  <1>3. ASSUME kernel' = kernel, writer = "done" => writer' = "done"
        PROVE  ReplacedInv'
    BY <1>1, <1>3 DEF ReplacedInv
  <1>4. CASE Filtergen \/ Interrupted
    BY <1>3, <1>4 DEF Filtergen, WriteSkeleton, WriteGroup, WriteRule, RuleRefused, WriteEnd, Interrupted, Write
  <1>5. CASE StartRestore \/ BeginTable \/ Edit \/ LineRefused \/ EndOfScript \/ RestoreKilled \/ UNCHANGED vars
    BY <1>3, <1>5 DEF StartRestore, BeginTable, Edit, Consume, LineRefused, EndOfScript, RestoreKilled, vars
  <1> QED
    BY <1>2, <1>4, <1>5 DEF Next, Reader

(* The rules of a complete script let through what the policy allows and   *)
(* no rule for input denies.                                               *)
LEMMA WholeKeeps ==
    ASSUME TypeOK, NatFree, WholeMeant, Orderly(program), Unrefused, writer = "done",
           NEW p \in Heeded(program)
    PROVE  LetsThrough(whole, p) <=> Allowed(program, p) /\ ~DeniedOnInput(program, p)
  <1> DEFINE final == TRUE
             N == Len(program)
             e == Emptied(old, "filter")
             w == Written(program, family)[N]
             c == COMMIT[1]
             s == Evenly(N)
             H == Having(final, program, s, Built(program, N))
  <1>0. final = TRUE /\ final \in BOOLEAN /\ IsKernel(old) /\ e = Emptied(old, "filter")
        /\ family \in Family /\ program \in Seq(Call) /\ N \in Nat
    BY CallsLeft, LenProperties, RestoreAssumption DEF TypeOK
  <1>1. PICK rank : Course(program, rank)
    BY <1>0 DEF Orderly, Course
  <1>2. \A i \in 1..N : Plain(program[i], family)
                         /\ (program[i].k = "rule" => ~RestoreRefused(program[i].ent, family))
    <2>1. Calls = N
      BY CallsLeft DEF Unrefused
    <2> QED
      BY <2>1 DEF Unrefused, NatFree, Plain
  <1>3. whole = Effect(e, w \o COMMIT)
    BY WholeScript DEF RestoreScript
  <1>4. c \in Line /\ COMMIT = <<c>> /\ c.op = "COMMIT"
    BY DEF COMMIT, Line
  <1> HIDE DEF final, e
  <1>5. \A n \in 0..Len(program) :
          Through(Halfway(e, {}), Written(program, family)[n],
                  Having(final, program, Evenly(n), Built(program, n)),
                  Waning(e) \union Telling(final, program))
    BY <1>0, <1>1, <1>2, WrittenThrough
  <1>6. Through(Halfway(e, {}), w, H, Waning(e) \union Telling(final, program))
    <2>1. N \in 0..Len(program)
      BY <1>0
    <2> HIDE DEF N
    <2>2. Through(Halfway(e, {}), Written(program, family)[N],
                  Having(final, program, Evenly(N), Built(program, N)),
                  Waning(e) \union Telling(final, program))
      BY ONLY <1>5, <2>1
    <2> QED
      BY <2>2
  <1>7. e \in Halfway(e, {}) /\ IsKernel(e)
    BY <1>0, BareThrough, EmptiedKernel
  <1>8. w \in Seq(Line) /\ Effect(e, w) \in H
    BY <1>6, <1>7 DEF Through
  <1>9. IsKernel(Effect(e, w)) /\ Shaped(final, program, s, Effect(e, w))
    BY <1>8 DEF Having, Kernel
  <1> HIDE DEF w, c, s, H
  <1>10. whole = Effect(e, w)
    <2> DEFINE d == Effect(e, w)
    <2>1. Effect(e, w \o <<c>>) = Effect(d, <<c>>)
      <3> DEFINE t == <<c>>
      <3>1. t \in Seq(Line)
        BY <1>4
      <3> HIDE DEF t
      <3>2. Effect(e, w \o t) = Effect(Effect(e, w), t)
        BY <1>7, <1>8, <3>1, StageBeyond
      <3> QED
        BY <3>2 DEF t
    <2>2. IsKernel(d)
      BY <1>9
    <2> HIDE DEF d
    <2>3. Effect(d, <<c>>) = After(d, c) /\ After(d, c) = d
      BY <1>4, <2>2, OneLine, NotACommand
    <2> QED
      BY <1>3, <1>4, <2>1, <2>3 DEF d
  <1>11. \A b \in GroupBase : s[b] = Len(program)
    BY DEF s, Evenly
  <1>12. /\ LetsThrough(whole, p) => Due(final, program, p)
         /\ (\A b \in GroupBase : s[b] = Len(program)) /\ Due(final, program, p) => LetsThrough(whole, p)
    BY <1>0, <1>1, <1>9, <1>10, ShapedKeeps
  <1>13. Due(final, program, p) <=> Allowed(program, p) /\ ~DeniedOnInput(program, p)
    BY <1>0 DEF Due
  <1> QED
    BY <1>11, <1>12, <1>13

(* As soon as the rules are replaced, they let through nothing but what    *)
(* the policy allows, and all of that but the forwarded packets that a     *)
(* rule for input denies (cb_iptrestore_rule).  For all old rules, all     *)
(* packets but the related ones that a denial or a jump is overlooked for, *)
(* and every program without rules for the nat table that is Orderly:      *)
(* groups are nested and used in one direction, no protocol is negated,    *)
(* and no rule that is for forwarded packets only has a return rule.       *)
(* Whoever is killed and wherever the script breaks off.                   *)
THEOREM RestoredRules == Spec => [](NatFree /\ Orderly(program) => RestoredPolicy)
  <1> DEFINE I == NatFree => RestoreInv /\ WholeMeant
             J == NatFree => ReplacedInv
  <1>1. Init => I /\ J
    <2> SUFFICES ASSUME Init
                 PROVE  RestoreInv /\ WholeMeant /\ ReplacedInv
      OBVIOUS
    <2>1. RestoreInv /\ WholeMeant
      BY RestoreInvInit
    <2>2. todo = program /\ writer = "skeleton" /\ kernel = old
      BY DEF Init
    <2>3. Len(program) \in Nat
      BY <2>1, CallsLeft, LenProperties DEF RestoreInv
    <2>4. Calls = 0
      BY <2>2, <2>3 DEF Calls
    <2> QED
      BY <2>1, <2>2, <2>4 DEF ReplacedInv, Unrefused
  <1>2. I /\ J /\ [Next]_vars => I' /\ J'
    <2> SUFFICES ASSUME I, J, [Next]_vars
                 PROVE  I' /\ J'
      OBVIOUS
    <2>1. UNCHANGED constants
      BY DEF Next, vars, writing, reading, Filtergen, Reader, WriteSkeleton, WriteGroup, WriteRule, WriteEnd, Write,
             RuleRefused, Interrupted, StartRestore, BeginTable, Commit, Edit, Consume, LineRefused, EndOfScript,
             RestoreKilled, constants
    <2>2. NatFree' = NatFree
      BY <2>1 DEF NatFree, constants
    <2>3. I'
      BY <2>2, RestoreInvStep
    <2>4. ASSUME NatFree'
          PROVE  ReplacedInv'
      BY <2>1, <2>2, <2>4, ReplacedStep
    <2> QED
      BY <2>3, <2>4
  <1>3. I /\ J => (NatFree /\ Orderly(program) => RestoredPolicy)
    <2> SUFFICES ASSUME RestoreInv, WholeMeant, ReplacedInv, NatFree, Orderly(program),
                        kernel.rules # old.rules, NEW p \in Heeded(program)
                 PROVE  LetsThrough(kernel, p) <=> Allowed(program, p) /\ ~DeniedOnInput(program, p)
      BY DEF RestoredPolicy, Heeded
    <2>1. kernel = whole /\ writer = "done" /\ Unrefused /\ TypeOK
      BY DEF ReplacedInv, RestoreInv
    <2> QED
      BY <2>1, WholeKeeps
  <1> QED
    BY <1>1, <1>2, <1>3, PTL DEF Spec
=============================================================================
