----------------------------- MODULE FgadmProofs -----------------------------
(***************************************************************************)
(* Proofs about fgadm, for all texts, all rules in force, any number of    *)
(* commands and any combination of troubles.  The inductive invariants are *)
(* AdminInv and PipeInv.                                                   *)
(***************************************************************************)
EXTENDS Fgadm, NetfilterProofs

(* A step of main() on the command line of a test keeps what the exit      *)
(* status will tell.                                                       *)
LEMMA MainTells ==
    ASSUME AdminInv, stage = "test", Main, texts' = texts
    PROVE  StatusTells' /\ args' = args
  <1> USE DEF At, Goto, Quit, InPasses, Makes
  <1>0. /\ StatusTells /\ args = TestArgs
        /\ text \in texts /\ texts \subseteq Text
    BY DEF AdminInv
  <1>1. args.info = FALSE /\ args.flush = NULL /\ args.to = "null"
    BY <1>0 DEF TestArgs, Plain
  <1>2. \A t \in texts : Compiled[t].outcome \in {"rules", "error", "exit", "abort"}
    BY <1>0, DriverAssumption DEF Compilation
  <1>3. CASE ReadOptions
    BY <1>0, <1>1, <1>3 DEF ReadOptions, StatusTells
  <1>4. CASE OpenOutput
    BY <1>0, <1>4 DEF OpenOutput, StatusTells
  <1>5. CASE OutputFails
    BY <1>1, <1>5 DEF OutputFails
  <1>6. CASE LookUp
    BY <1>0, <1>1, <1>6 DEF LookUp, StatusTells
  <1>7. CASE Flush \/ NoFlusher
    BY <1>0, <1>7 DEF Flush, NoFlusher, StatusTells
  <1>8. CASE Parse
    BY <1>0, <1>8 DEF Parse, StatusTells
  <1>9. CASE PassesFail
    BY <1>0, <1>9 DEF PassesFail, StatusTells
  <1>10. CASE WriteSkeleton
    BY <1>0, <1>10 DEF WriteSkeleton, StatusTells
  <1>11. CASE WriteRules
    BY <1>0, <1>11 DEF WriteRules, StatusTells
  <1>12. CASE RulesEnd
    BY <1>0, <1>2, <1>12 DEF RulesEnd, StatusTells
  <1>13. CASE CloseOutput
    BY <1>0, <1>13 DEF CloseOutput, StatusTells
  <1>14. CASE BrokenPipe
    BY <1>1, <1>14 DEF BrokenPipe
  <1> QED
    BY <1>3, <1>4, <1>5, <1>6, <1>7, <1>8, <1>9, <1>10, <1>11, <1>12, <1>13, <1>14 DEF Main

(* A pipe is written and a shell started only by a command; main() does    *)
(* neither.                                                                *)
LEMMA MainKeeps ==
    ASSUME Main
    PROVE  text' = text /\ shell' = shell
  BY DEF Main, ReadOptions, OpenOutput, OutputFails, LookUp, Flush, NoFlusher, Parse,
         PassesFail, WriteSkeleton, WriteRules, RulesEnd, CloseOutput, BrokenPipe,
         Elsewhere, Write

-----------------------------------------------------------------------------

(* At first nothing runs and nothing has been loaded.                      *)
LEMMA InitAdmin == Init => AdminInv
  BY DEF Init, NotStarted, AdminInv, ErrorsKeepRules, Alone

(* A new command: nothing executes commands at first, and a test begins    *)
(* with nothing parsed.                                                    *)
LEMMA GiveAdmin ==
    ASSUME AdminInv, NEW c, NEW first, NEW a, Give(c, first, a), text \in Text,
           first = "test" => c = "reload" /\ a = TestArgs,
           a.to = "pipe" => first = "pipeline",
           c = "reload" => first # "pipeline"
    PROVE  AdminInv'
  <1>1. /\ text' = text /\ texts' = {text} /\ job' = job /\ trouble' = trouble
        /\ command' = c /\ stage' = first /\ kernel' = kernel /\ before'.kernel = kernel
        /\ args' = a /\ pc' = "options" /\ status' = "running"
        /\ shell' = IF a.to = "pipe" THEN "running" ELSE "done"
    BY DEF Give, Start
  <1>2. StatusTells'
    BY <1>1 DEF StatusTells
  <1> QED
    BY <1>1, <1>2 DEF AdminInv, ErrorsKeepRules, Alone

(* Everything that is neither a new command nor a step of a test.          *)
LEMMA StepAdmin ==
    ASSUME AdminInv, [Next]_vars
    PROVE  AdminInv'
  <1>0. /\ text \in texts /\ texts \subseteq Text
        /\ stage = "test" => command = "reload" /\ args = TestArgs /\ StatusTells
        /\ shell = "running" => stage = "pipeline"
        /\ job # <<>> => ~Alone
        /\ ErrorsKeepRules
        /\ command = "reload" /\ stage = "pipeline" => \E t \in texts : Makes(t)
    BY DEF AdminInv
  <1>1. CASE Check \/ Compile \/ Reload \/ Stop
    <2>1. TestArgs.to = "null" /\ \A a \in ByHand : a.to = "file"
      BY FgadmAssumption DEF TestArgs, Plain
    <2>2. CASE Check
      BY <1>0, <2>1, <2>2, GiveAdmin DEF Check
    <2>3. CASE Compile
      <3>1. PICK a \in ByHand : Give("compile", "alone", a)
        BY <2>3 DEF Compile
      <3> QED
        BY <1>0, <2>1, <3>1, GiveAdmin
    <2>4. CASE Reload
      BY <1>0, <2>1, <2>4, GiveAdmin DEF Reload
    <2>5. CASE Stop
      BY <1>0, <2>5, GiveAdmin DEF Stop
    <2> QED
      BY <1>1, <2>2, <2>3, <2>4, <2>5
  <1>2. CASE TestPassed
    <2>1. /\ stage = "test" /\ status = "success" /\ stage' = "pipeline"
          /\ UNCHANGED <<text, texts, command, kernel, before, trouble, job>>
      BY <1>2 DEF TestPassed, Ended, Start, Proceed
    <2>2. \E t \in texts : Makes(t)
      BY <1>0, <2>1 DEF StatusTells
    <2>3. (\E t \in texts : Makes(t))'
      BY <2>1, <2>2 DEF Makes
    <2> QED
      BY <1>0, <2>1, <2>2, <2>3 DEF AdminInv, ErrorsKeepRules, Alone, Makes
  <1>3. CASE TestFailed
    BY <1>0, <1>3 DEF TestFailed, Ended, Proceed, driverVars, mainVars, AdminInv,
                      ErrorsKeepRules, Alone, Makes
  <1>4. CASE CommandEnds
    BY <1>0, <1>4 DEF CommandEnds, Ended, Proceed, driverVars, mainVars, AdminInv,
                      ErrorsKeepRules, Alone, Makes
  <1>5. CASE Filtergen
    <2>1. /\ UNCHANGED <<command, stage, before, texts, kernel, trouble, job>>
          /\ UNCHANGED <<text, shell>>
      BY <1>5, MainKeeps DEF Filtergen, adminVars
    <2>2. stage = "test" => StatusTells' /\ args' = args
      BY <1>5, <2>1, MainTells DEF Filtergen
    <2> QED
      BY <1>0, <2>1, <2>2 DEF AdminInv, ErrorsKeepRules, Alone, Makes
  <1>6. CASE Execute
    <2>1. /\ shell = "running"
          /\ UNCHANGED <<text, shell, command, stage, texts, trouble, job>>
      BY <1>6 DEF Execute, adminVars
    <2>2. stage = "pipeline"
      BY <1>0, <2>1
    <2>3. command = "reload" => \E t \in texts : Makes(t)
      BY <1>0, <2>2
    <2> QED
      BY <1>0, <2>1, <2>2, <2>3 DEF AdminInv, ErrorsKeepRules, Alone, Makes
  <1>7. CASE EndOfFile
    BY <1>0, <1>7 DEF EndOfFile, adminVars, mainVars, AdminInv, ErrorsKeepRules, Alone,
                      Makes, StatusTells
  <1>8. CASE Edit
    <2>1. /\ text' \in Text /\ texts' = texts \union {text'}
          /\ trouble' = trouble \union {"edit"}
          /\ UNCHANGED <<mainVars, shell, command, stage, before, kernel, job>>
      BY <1>8 DEF Edit, Strikes
    <2>2. stage = "test" => StatusTells'
      BY <1>0, <2>1 DEF mainVars, StatusTells, Makes
    <2>3. Alone' <=> Alone
      BY <2>1 DEF Alone
    <2> QED
      BY <1>0, <2>1, <2>2, <2>3 DEF mainVars, AdminInv, ErrorsKeepRules, Makes
  <1>9. CASE FiltergenKilled
    <2>1. /\ pc' = "exited" /\ status' = "killed" /\ args' = args
          /\ trouble' = trouble \union {"filtergen"}
          /\ UNCHANGED <<text, shell, command, stage, before, texts, kernel, job>>
      BY <1>9 DEF FiltergenKilled, Strikes, Killed, Quit, adminVars
    <2>2. StatusTells'
      BY <2>1 DEF StatusTells
    <2>3. Alone' <=> Alone
      BY <2>1 DEF Alone
    <2> QED
      BY <1>0, <2>1, <2>2, <2>3 DEF AdminInv, ErrorsKeepRules, Makes
  <1>10. CASE ShellKilled
    <2>1. /\ shell' = "killed" /\ trouble' = trouble \union {"shell"}
          /\ UNCHANGED <<text, mainVars, command, stage, before, texts, kernel, job>>
      BY <1>10 DEF ShellKilled, Strikes, adminVars
    <2>2. stage = "test" => StatusTells'
      BY <1>0, <2>1 DEF mainVars, StatusTells, Makes
    <2>3. Alone' <=> Alone
      BY <2>1 DEF Alone
    <2> QED
      BY <1>0, <2>1, <2>2, <2>3 DEF mainVars, AdminInv, ErrorsKeepRules, Makes
  <1>11. CASE JobBegins \/ JobExecutes
    <2>1. /\ ~Alone'
          /\ UNCHANGED <<text, mainVars, shell, command, stage, texts>>
      BY <1>0, <1>11 DEF JobBegins, JobExecutes, Strikes, Alone, driverVars, adminVars
    <2>2. stage = "test" => StatusTells'
      BY <1>0, <2>1 DEF mainVars, StatusTells, Makes
    <2> QED
      BY <1>0, <2>1, <2>2 DEF mainVars, AdminInv, ErrorsKeepRules, Makes
  <1>12. CASE UNCHANGED vars
    BY <1>0, <1>12 DEF vars, driverVars, mainVars, adminVars, AdminInv, ErrorsKeepRules,
                       Alone, Makes, StatusTells
  <1> QED
    BY <1>1, <1>2, <1>3, <1>4, <1>5, <1>6, <1>7, <1>8, <1>9, <1>10, <1>11, <1>12
    DEF Next, Fgadm, Shell

-----------------------------------------------------------------------------
(* What the exit status of a test tells, and who can touch the rules in    *)
(* force, whatever is edited or killed.                                    *)
THEOREM AdminInvariance == Spec => []AdminInv
  BY InitAdmin, StepAdmin, PTL DEF Spec

(* A reload that finds no text of which filtergen makes rules leaves the   *)
(* rules in force alone (fgadm.in:36).                                     *)
THEOREM RulesKept == Spec => []ErrorsKeepRules
  <1>1. AdminInv => ErrorsKeepRules
    BY DEF AdminInv
  <1> QED
    BY <1>1, AdminInvariance, PTL


-----------------------------------------------------------------------------
(***************************************************************************)
(* Scripts                                                                 *)
(***************************************************************************)
LEMMA BeginningsStart ==
    ASSUME NEW s
    PROVE  Beginnings(s) = Starts(s)
  BY DEF Beginnings, Starts

(* Scripts joined are a script, and filtergen's commands are lines that a  *)
(* kernel can be told.                                                     *)
LEMMA JoinCommands ==
    /\ \A s, t \in Seq(Command) : s \o t \in Seq(Command)
    /\ <<>> \in Seq(Command)
    /\ \A s : s \in Seq(Command) => s \in Seq(Line)
  <1>1. \A s, t \in Seq(Command) : s \o t \in Seq(Command)
    BY ConcatProperties
  <1>2. Command \subseteq Line
    BY DEF Line
  <1> HIDE DEF Command, Line
  <1>3. \A s : s \in Seq(Command) => s \in Seq(Line)
    BY <1>2
  <1> QED
    BY <1>1, <1>3, EmptySeq

(* What the parts of the scripts are made of.                              *)
LEMMA PutTyped ==
    ASSUME NEW op \in {"-A", "-I"}, NEW chain \in Chain, NEW tests \in SUBSET Test, NEW jump \in Jump
    PROVE  Put(op, chain, tests, jump) \in Seq(Command)
  <1> DEFINE cmd == [op |-> op, chain |-> chain, rule |-> [tests |-> tests, jump |-> jump]]
  <1>1. cmd \in Command
    BY DEF Command, Rule
  <1> HIDE DEF cmd
  <1>2. <<cmd>> \in Seq(Command)
    BY <1>1
  <1> QED
    BY <1>2 DEF Put, cmd

(* A flush, as fgadm stop has it.                                          *)
LEMMA FlushTyped ==
    ASSUME NEW v \in Verdict, NEW f
    PROVE  FlushCommands(v, f) \in Seq(Command)
  <1> DEFINE p(i) == [op |-> "-P", chain |-> Base(Chains[i]), jump |-> Base(v)]
             F(t) == [op |-> "-F", table |-> t]
             X(t) == [op |-> "-X", table |-> t]
  <1>1. \A i \in 1..3 : p(i) \in Command
    BY DEF Command, Chains, Builtin, Base, Jump, Group
  <1>2. \A t \in {"filter", "nat"} : F(t) \in Command /\ X(t) \in Command
    BY DEF Command
  <1> HIDE DEF p, F, X
  <1>3. [i \in 1..3 |-> p(i)] \in Seq(Command)
    BY <1>1
  <1>4. \A t \in {"filter", "nat"} : <<F(t), X(t)>> \in Seq(Command)
    BY <1>2
  <1>5. SetPolicy(v) \in Seq(Command)
    BY <1>3 DEF SetPolicy, p
  <1>6. \A t \in {"filter", "nat"} : FlushTable(t) \in Seq(Command)
    BY <1>4 DEF FlushTable, F, X
  <1>7. If(f = "AF_INET", FlushTable("nat")) \in Seq(Command)
    BY <1>6, JoinCommands DEF If
  <1> QED
    BY <1>5, <1>6, <1>7, JoinCommands DEF FlushCommands

(* What the rules are written behind.                                      *)
LEMMA SkeletonTyped ==
    ASSUME NEW f
    PROVE  Skeleton(f) \in Seq(Command)
  <1> DEFINE n == << NewChain(Base("FORW_OUT")), NewChain(Base("INVALID")) >>
  <1>1. \A b \in FilterBase : Base(b) \in Chain /\ Base(b) \in Jump
    BY DEF Base, Chain, Jump, Group
  <1>2. Base("DROP") \in Jump
    BY DEF Base, Jump, Group, Verdict
  <1>3. InvalidTests \in SUBSET Test /\ {} \in SUBSET Test
    BY DEF InvalidTests, Only, Test, Flag, State
  <1>4. {"INPUT", "OUTPUT", "FORWARD", "FORW_OUT", "INVALID"} \subseteq FilterBase
    BY DEF FilterBase, Builtin
  <1>5. n \in Seq(Command)
    <2>1. NewChain(Base("FORW_OUT")) \in Command /\ NewChain(Base("INVALID")) \in Command
      BY <1>1, <1>4 DEF NewChain, Command
    <2> QED
      BY <2>1
  <1>6. FlushCommands("DROP", f) \in Seq(Command)
    BY FlushTyped DEF Verdict
  <1>7. /\ Put("-A", Base("INVALID"), {}, Base("DROP")) \in Seq(Command)
        /\ \A b \in {"INPUT", "OUTPUT", "FORWARD"} :
              Put("-I", Base(b), InvalidTests, Base("INVALID")) \in Seq(Command)
    BY <1>1, <1>2, <1>3, <1>4, PutTyped
  <1> HIDE DEF n
  <1> QED
    BY <1>5, <1>6, <1>7, JoinCommands DEF Skeleton, n

(* What the callbacks have written, from the first chunk to the last.      *)
LEMMA PrintedSteps ==
    ASSUME NEW a, NEW t \in Text
    PROVE  LET N == Len(Compiled[t].chunks)
               p == Printed(a, t)
           IN  /\ N \in Nat /\ \A i \in 1..N : Compiled[t].chunks[i] \in Seq(Command)
               /\ p[0] = Prologue(a)
               /\ \A i \in 1..N : p[i] = p[i - 1] \o Compiled[t].chunks[i]
               /\ \A i \in 0..N : p[i] \in Seq(Command)
  <1> DEFINE c == Compiled[t].chunks
             N == Len(c)
             S == Command
             x == Prologue(a)
             g == Printed(a, t)
  <1>1. c \in Seq(Seq(S))
    BY DriverAssumption DEF Compilation
  <1>2. N \in Nat /\ \A i \in 1..N : c[i] \in Seq(S)
    BY <1>1
  <1>3. x \in Seq(S)
    BY SkeletonTyped, JoinCommands DEF Prologue
  <1>4. g = Joined(x, c, N)
    BY DEF Printed, Joined
  <1> HIDE DEF c, N, S, x, g
  <1>5. /\ g[0] = x
        /\ \A i \in 1..N : g[i] = g[i - 1] \o c[i]
        /\ \A i \in 0..N : g[i] \in Seq(S)
    <2>1. Joins(S, x, c, N, g)
      BY <1>2, <1>3, <1>4 DEF Joins
    <2> QED
      BY <2>1, Joining
  <1> QED
    BY <1>2, <1>5 DEF c, N, S, x, g

(* What has been written is a beginning of what will be.                   *)
LEMMA PrintedBegins ==
    ASSUME NEW a, NEW t \in Text, NEW k \in 0..Len(Compiled[t].chunks)
    PROVE  Printed(a, t)[k] \in Beginnings(Printed(a, t)[Len(Compiled[t].chunks)])
  <1> DEFINE N == Len(Compiled[t].chunks)
             p == Printed(a, t)
             P == { i \in Nat : i <= N => \A j \in 0..i : p[j] \in Starts(p[i]) }
  <1>1. /\ N \in Nat /\ \A i \in 1..N : Compiled[t].chunks[i] \in Seq(Command)
        /\ \A i \in 1..N : p[i] = p[i - 1] \o Compiled[t].chunks[i]
        /\ \A i \in 0..N : p[i] \in Seq(Command)
    BY PrintedSteps
  <1> HIDE DEF N, p
  <1>2. \A i \in 0..N : p[i] \in Starts(p[i])
    BY <1>1, StartsOf
  <1>3. ASSUME NEW i \in 1..N
        PROVE  p[i - 1] \in Starts(p[i])
    <2>1. i - 1 \in 0..N /\ i \in 0..N
      BY <1>1
    <2> DEFINE u == p[i - 1]
               v == Compiled[t].chunks[i]
               s == p[i]
    <2>2. u \in Seq(Command) /\ v \in Seq(Command) /\ s \in Seq(Command) /\ s = u \o v
      BY <1>1, <2>1
    <2> HIDE DEF u, v, s
    <2>3. u \in Starts(s)
      BY <2>2, StartIs
    <2> QED
      BY <2>3 DEF u, s
  <1>4. 0 \in P
    BY <1>1, <1>2
  <1>5. ASSUME NEW i \in P
        PROVE  i + 1 \in P
    <2> SUFFICES ASSUME i + 1 <= N, NEW j \in 0..(i + 1)
                 PROVE  p[j] \in Starts(p[i + 1])
      BY <1>5
    <2>1. i + 1 \in 1..N /\ (i + 1) - 1 = i /\ i \in 0..N /\ i + 1 \in 0..N /\ j \in 0..N
      BY <1>1, <1>5
    <2>2. CASE j = i + 1
      BY <1>2, <2>1, <2>2
    <2>3. CASE j # i + 1
      <3>1. j \in 0..i
        BY <1>5, <2>3
      <3>2. p[j] \in Starts(p[i]) /\ p[i] \in Starts(p[i + 1])
        BY <1>3, <1>5, <2>1, <3>1
      <3>3. p[j] \in Seq(Command) /\ p[i] \in Seq(Command) /\ p[i + 1] \in Seq(Command)
        BY <1>1, <2>1
      <3> QED
        BY <3>2, <3>3, StartsOf
    <2> QED
      BY <2>2, <2>3
  <1>6. P \in SUBSET Nat
    OBVIOUS
  <1> HIDE DEF P
  <1>7. P = Nat
    BY <1>4, <1>5, <1>6, Induction
  <1>8. k \in 0..N
    BY DEF N
  <1>9. p[k] \in Starts(p[N])
    BY <1>1, <1>7, <1>8 DEF P
  <1> QED
    BY <1>9, BeginningsStart DEF N, p

(* A script is one.                                                        *)
LEMMA ScriptTyped ==
    ASSUME NEW a \in CommandLine, NEW t, a.flush = NULL => t \in Text, a.flush # "unknown"
    PROVE  Script(a, t) \in Seq(Command)
  <1>1. CASE a.flush = NULL
    <2>1. Len(Compiled[t].chunks) \in 0..Len(Compiled[t].chunks)
      BY <1>1, PrintedSteps
    <2> QED
      BY <1>1, <2>1, PrintedSteps DEF Script
  <1>2. CASE a.flush # NULL
    <2>1. a.flush \in Verdict
      BY <1>2 DEF CommandLine, Verdict
    <2> QED
      BY <1>2, <2>1, FlushTyped DEF Script, FlushScript
  <1> QED
    BY <1>1, <1>2


-----------------------------------------------------------------------------
(***************************************************************************)
(* The script of fgadm stop                                                *)
(***************************************************************************)
(* After the first three commands of a flush the policies are set.         *)
LEMMA PoliciesSet ==
    ASSUME NEW k, IsKernel(k), NEW v \in {"ACCEPT", "DROP"}
    PROVE  LET e == Effect(k, SetPolicy(v))
           IN  IsKernel(e) /\ \A b \in Builtin : e.policy[b] = v
  <1> DEFINE s == SetPolicy(v)
             p(i) == [op |-> "-P", chain |-> Base(Chains[i]), jump |-> Base(v)]
  <1>1. s \in Seq(Line) /\ Len(s) = 3
    <2>1. s \in Seq(Line)
      BY LeadsPolicies DEF Leads
    <2> QED
      BY <2>1 DEF SetPolicy
  <1>2. \A i \in 1..3 : s[i] = p(i)
    BY DEF SetPolicy
  <1>3. \A i \in 1..3 : p(i).op = "-P" /\ p(i).chain.base = Chains[i] /\ p(i).jump.base = v
    BY DEF Base
  <1> HIDE DEF s, p
  <1>4. /\ \A i \in 0..Len(s) : IsKernel(Stage(k, s, i))
        /\ \A i \in 1..Len(s) : Stage(k, s, i) = After(Stage(k, s, i - 1), s[i])
        /\ Effect(k, s) = Stage(k, s, Len(s)) /\ IsKernel(Effect(k, s))
    BY <1>1, StageSteps
  <1>5. ASSUME NEW x, IsKernel(x), NEW i \in 1..3
        PROVE  LET y == After(x, p(i))
               IN  \A b \in Builtin : y.policy[b] = IF b = Chains[i] THEN v ELSE x.policy[b]
    <2>1. After(x, p(i)) = [x EXCEPT !.policy[Chains[i]] = v]
      BY <1>3 DEF After, Accepted, Obeyed
    <2>2. x = [policy |-> x.policy, rules |-> x.rules] /\ x.policy \in [Builtin -> Verdict]
      BY <1>5 DEF IsKernel
    <2> QED
      BY <2>1, <2>2
  <1> DEFINE S(i) == Stage(k, s, i)
  <1>6. /\ IsKernel(S(0)) /\ IsKernel(S(1)) /\ IsKernel(S(2))
        /\ S(1) = After(S(0), p(1)) /\ S(2) = After(S(1), p(2)) /\ S(3) = After(S(2), p(3))
    BY <1>1, <1>2, <1>4
  <1> HIDE DEF S
  <1>7. \A b \in Builtin : S(1).policy[b] = IF b = Chains[1] THEN v ELSE S(0).policy[b]
    BY <1>5, <1>6
  <1>8. \A b \in Builtin : S(2).policy[b] = IF b = Chains[2] THEN v ELSE S(1).policy[b]
    BY <1>5, <1>6
  <1>9. \A b \in Builtin : S(3).policy[b] = IF b = Chains[3] THEN v ELSE S(2).policy[b]
    BY <1>5, <1>6
  <1>10. Builtin = {Chains[1], Chains[2], Chains[3]}
    BY DEF Builtin, Chains
  <1>11. \A b \in Builtin : S(3).policy[b] = v
    BY <1>7, <1>8, <1>9, <1>10
  <1>12. Effect(k, s) = S(3)
    BY <1>1, <1>4 DEF S
  <1> QED
    BY <1>4, <1>11, <1>12 DEF s

(* A table that is flushed has no rules, and of chains only the builtin.   *)
LEMMA TableFlushed ==
    ASSUME NEW k, IsKernel(k), NEW t \in {"filter", "nat"}
    PROVE  LET e == Effect(k, FlushTable(t))
           IN  /\ IsKernel(e) /\ e.policy = k.policy
               /\ Exists(e) = { d \in Exists(k) : Table(d) = t => d \in BuiltinChains }
               /\ \A c \in Exists(e) : e.rules[c] = IF Table(c) = t THEN <<>> ELSE k.rules[c]
  <1> DEFINE f == [op |-> "-F", table |-> t]
             x == [op |-> "-X", table |-> t]
             n == After(k, f)
             e == After(n, x)
             s == FlushTable(t)
             u == <<x>>
  <1>1. /\ f \in Line /\ x \in Line
        /\ Accepted(k, f) /\ Accepted(n, x) /\ IsKernel(n) /\ IsKernel(e)
        /\ Exists(e) = { d \in Exists(k) : Table(d) = t => d \in BuiltinChains }
    BY Flushed
  <1>2. s \in Seq(Line) /\ s # <<>> /\ Head(s) = f /\ Tail(s) = u
    BY <1>1 DEF FlushTable
  <1>3. f.op = "-F" /\ f.table = t /\ x.op = "-X" /\ x.table = t
    OBVIOUS
  <1>4. k = [policy |-> k.policy, rules |-> k.rules]
    BY DEF IsKernel
  <1> HIDE DEF f, x, s, u
  <1>5. /\ n.policy = k.policy /\ Exists(n) = Exists(k)
        /\ n = [policy |-> n.policy, rules |-> n.rules]
        /\ \A c \in Exists(k) : n.rules[c] = IF Table(c) = t THEN <<>> ELSE k.rules[c]
    <2>1. n = [k EXCEPT !.rules = [c \in Exists(k) |-> IF Table(c) = t THEN <<>> ELSE k.rules[c]]]
      BY <1>1, <1>3 DEF After, Obeyed
    <2> HIDE DEF n
    <2> QED
      BY <1>4, <2>1 DEF Exists
  <1> HIDE DEF n
  <1>6. e.policy = n.policy /\ \A c \in Exists(e) : e.rules[c] = n.rules[c]
    <2>1. e = [n EXCEPT !.rules = [c \in { d \in Exists(n) : Table(d) = t => d \in BuiltinChains } |->
                                      n.rules[c]]]
      BY <1>1, <1>3 DEF After, Obeyed
    <2> HIDE DEF e
    <2> QED
      BY <1>5, <2>1 DEF Exists
  <1>7. Effect(k, s) = e
    <2>1. Effect(n, u) = After(n, x)
      BY <1>1, OneLine DEF u
    <2>2. Effect(k, s) = Effect(n, u)
      BY <1>2, FirstLine DEF n
    <2> QED
      BY <2>1, <2>2
  <1> HIDE DEF e
  <1>8. \A c \in Exists(e) : e.rules[c] = IF Table(c) = t THEN <<>> ELSE k.rules[c]
    <2>1. \A c \in Exists(e) : c \in Exists(k)
      BY <1>1 DEF e
    <2> QED
      BY <1>5, <1>6, <2>1
  <1> QED
    BY <1>1, <1>5, <1>6, <1>7, <1>8 DEF s

(* The live packet filter flushed, and in a default accept mode.           *)
LEMMA FlushOpens ==
    ASSUME NEW k, IsKernel(k)
    PROVE  IsOpen(Effect(k, FlushCommands("ACCEPT", "AF_INET")))
  <1> DEFINE s1 == SetPolicy("ACCEPT")
             s2 == FlushTable("filter")
             s3 == FlushTable("nat")
             e1 == Effect(k, s1)
             e2 == Effect(e1, s2)
             e3 == Effect(e2, s3)
  <1>1. s1 \in Seq(Line) /\ s2 \in Seq(Line) /\ s3 \in Seq(Line)
    BY LeadsPolicies, LeadsTable DEF Leads
  <1>2. FlushCommands("ACCEPT", "AF_INET") = (s1 \o s2) \o s3
    BY DEF FlushCommands, If
  <1>3. IsKernel(e1) /\ \A b \in Builtin : e1.policy[b] = "ACCEPT"
    BY PoliciesSet
  <1>4. /\ IsKernel(e2) /\ e2.policy = e1.policy
        /\ Exists(e2) = { d \in Exists(e1) : Table(d) = "filter" => d \in BuiltinChains }
        /\ \A c \in Exists(e2) : e2.rules[c] = IF Table(c) = "filter" THEN <<>> ELSE e1.rules[c]
    <2> HIDE DEF e1
    <2> QED
      BY <1>3, TableFlushed
  <1>5. /\ IsKernel(e3) /\ e3.policy = e2.policy
        /\ Exists(e3) = { d \in Exists(e2) : Table(d) = "nat" => d \in BuiltinChains }
        /\ \A c \in Exists(e3) : e3.rules[c] = IF Table(c) = "nat" THEN <<>> ELSE e2.rules[c]
    <2> HIDE DEF e2
    <2> QED
      BY <1>4, TableFlushed
  <1>6. Effect(k, (s1 \o s2) \o s3) = e3
    <2> HIDE DEF s1, s2, s3
    <2>1. s1 \o s2 \in Seq(Line) /\ Effect(k, s1 \o s2) = e2
      BY <1>1, StageBeyond
    <2> DEFINE u == s1 \o s2
    <2>2. u \in Seq(Line)
      BY <2>1
    <2> HIDE DEF u
    <2>3. Effect(k, u \o s3) = Effect(Effect(k, u), s3)
      BY <1>1, <2>2, StageBeyond
    <2> QED
      BY <2>1, <2>3 DEF u
  <1> HIDE DEF e1, e2, e3, s1, s2, s3
  <1>7. Exists(e3) = BuiltinChains
    <2>1. BuiltinChains \subseteq Exists(e1)
      BY <1>3 DEF IsKernel
    <2>2. \A d : Table(d) \in {"filter", "nat"}
      BY DEF Table
    <2> QED
      BY <1>4, <1>5, <2>1, <2>2
  <1>8. \A c \in Exists(e3) : e3.rules[c] = <<>>
    <2> TAKE c \in Exists(e3)
    <2>1. c \in Exists(e2) /\ Table(c) \in {"filter", "nat"}
      BY <1>5 DEF Table
    <2> QED
      BY <1>4, <1>5, <2>1
  <1> QED
    BY <1>2, <1>3, <1>4, <1>5, <1>6, <1>7, <1>8 DEF IsOpen


-----------------------------------------------------------------------------
(***************************************************************************)
(* A process and its file                                                  *)
(***************************************************************************)
(* Every step of main() takes what there is to write from the front.       *)
LEMMA RestLeft ==
    ASSUME TypeOK, source # NULL
    PROVE  LET c == Compiled[source].chunks
               k == Len(c) - Len(rest)
           IN  /\ k \in 0..Len(c)
               /\ rest = c => k = 0
               /\ rest = <<>> => k = Len(c)
               /\ rest # <<>> =>
                     /\ k + 1 \in 1..Len(c) /\ Head(rest) = c[k + 1]
                     /\ Tail(rest) = SubSeq(c, k + 2, Len(c))
                     /\ Len(c) - Len(Tail(rest)) = k + 1
  <1> DEFINE c == Compiled[source].chunks
             S == Seq(Command)
  <1>1. c \in Seq(S)
    BY DriverAssumption DEF TypeOK, Compilation
  <1>2. PICK n \in 0..Len(c) : rest = SubSeq(c, n + 1, Len(c))
    BY DEF TypeOK
  <1> HIDE DEF c, S
  <1>3. Len(c) \in Nat
    BY <1>1, LenProperties
  <1>4. n \in Nat /\ n <= Len(c)
    BY <1>3
  <1>5. Left(S, c, rest, n)
    BY <1>1, <1>2, <1>4, StillToCome
  <1>6. rest = c => Len(c) - Len(rest) = 0
    BY <1>3
  <1> QED
    BY <1>3, <1>4, <1>5, <1>6 DEF Left, c

(* What has been written, step by step.                                    *)
LEMMA SoFarSteps ==
    ASSUME TypeOK, source # NULL
    PROVE  /\ SoFar \in Seq(Command) /\ Prologue(args) \in Seq(Command)
           /\ rest = Compiled[source].chunks => SoFar = Prologue(args)
           /\ rest = <<>> /\ args.flush = NULL => SoFar = Script(args, source)
           /\ args.flush = NULL => SoFar \in Beginnings(Script(args, source))
           /\ rest # <<>> =>
                 /\ Head(rest) \in Seq(Command)
                 /\ rest' = Tail(rest) /\ UNCHANGED <<args, source>> => SoFar' = SoFar \o Head(rest)
  <1> DEFINE c == Compiled[source].chunks
             N == Len(c)
             k == N - Len(rest)
             p == Printed(args, source)
  <1>0. source \in Text
    BY DEF TypeOK
  <1>1. /\ k \in 0..N
        /\ rest = c => k = 0
        /\ rest = <<>> => k = N
        /\ rest # <<>> => k + 1 \in 1..N /\ Head(rest) = c[k + 1] /\ N - Len(Tail(rest)) = k + 1
    BY RestLeft
  <1>2. /\ N \in Nat /\ \A i \in 1..N : c[i] \in Seq(Command)
        /\ p[0] = Prologue(args)
        /\ \A i \in 1..N : p[i] = p[i - 1] \o c[i]
        /\ \A i \in 0..N : p[i] \in Seq(Command)
    BY <1>0, PrintedSteps
  <1>3. p[k] \in Beginnings(p[N])
    BY <1>0, <1>1, PrintedBegins
  <1>4. SoFar = p[k] /\ (args.flush = NULL => Script(args, source) = p[N])
    BY DEF SoFar, Script
  <1>5. rest' = Tail(rest) /\ UNCHANGED <<args, source>> => SoFar' = p[N - Len(Tail(rest))]
    BY DEF SoFar
  <1> HIDE DEF c, N, k, p
  <1>6. k + 1 - 1 = k
    BY <1>1, <1>2
  <1>7. rest # <<>> =>
          Head(rest) \in Seq(Command) /\ p[N - Len(Tail(rest))] = p[k] \o Head(rest)
    <2> SUFFICES ASSUME rest # <<>>
                 PROVE  Head(rest) \in Seq(Command) /\ p[N - Len(Tail(rest))] = p[k] \o Head(rest)
      OBVIOUS
    <2> DEFINE m == k + 1
               h == Head(rest)
               q == N - Len(Tail(rest))
    <2>1. m \in 1..N /\ h = c[m] /\ q = m /\ m - 1 = k
      BY <1>1, <1>6
    <2> HIDE DEF m, h, q
    <2>2. p[m] = p[m - 1] \o c[m] /\ c[m] \in Seq(Command)
      BY <1>2, <2>1
    <2>3. h \in Seq(Command) /\ p[q] = p[k] \o h
      BY <2>1, <2>2
    <2> QED
      BY <2>3 DEF h, q
  <1>8. SoFar \in Seq(Command) /\ Prologue(args) \in Seq(Command)
    <2>1. 0 \in 0..N
      BY <1>2
    <2> QED
      BY <1>1, <1>2, <1>4, <2>1
  <1>9. /\ rest = Compiled[source].chunks => SoFar = Prologue(args)
        /\ rest = <<>> /\ args.flush = NULL => SoFar = Script(args, source)
        /\ args.flush = NULL => SoFar \in Beginnings(Script(args, source))
    BY <1>1, <1>2, <1>3, <1>4 DEF c
  <1>10. rest # <<>> /\ rest' = Tail(rest) /\ UNCHANGED <<args, source>> => SoFar' = SoFar \o Head(rest)
    BY <1>4, <1>5, <1>7
  <1> QED
    BY <1>7, <1>8, <1>9, <1>10

Process ==
    /\ TypeOK /\ Parsed /\ Filed /\ FileWhole
    /\ args.to = "file" => command = "compile"

(* What a step of main() has to see to.                                    *)
LEMMA StepTyped ==
    ASSUME TypeOK, UNCHANGED <<text, texts, args, shell, command, stage, kernel, job>>,
           pc' \in {"output", "tables", "flush", "parse", "unroll", "rules", "close", "exited"},
           status' \in {"running", "success", "failure", "killed"},
           l' \in {0, -1}, said' \in BOOLEAN, pc' = "exited" <=> status' # "running",
           \/ UNCHANGED <<source, rest>>
           \/ source # NULL /\ source' = source /\ rest # <<>> /\ rest' = Tail(rest)
           \/ source' = text /\ rest' = Compiled[text].chunks,
           status' = "success" => rest' = <<>>,
           file' \in [exists : BOOLEAN, lines : Seq(Command)], ~file'.exists => file' = NoFile,
           pipe' \in Seq(Command)
    PROVE  TypeOK'
  <1> DEFINE From(s, r) == \E n \in 0..Len(Compiled[s].chunks) :
                              r = SubSeq(Compiled[s].chunks, n + 1, Len(Compiled[s].chunks))
  <1>1. /\ source' \in Text \union {NULL}
        /\ source' = NULL => rest' = <<>>
        /\ source' # NULL => From(source', rest')
    <2>1. source # NULL => From(source, rest)
      BY DEF TypeOK
    <2>2. ASSUME source # NULL, rest # <<>>
          PROVE  From(source, Tail(rest))
      <3> DEFINE c == Compiled[source].chunks
                 k == Len(c) - Len(rest)
      <3>1. k + 1 \in 1..Len(c) /\ Tail(rest) = SubSeq(c, (k + 1) + 1, Len(c))
        <4>1. k \in 0..Len(c) /\ k + 1 \in 1..Len(c) /\ Tail(rest) = SubSeq(c, k + 2, Len(c))
          BY <2>2, RestLeft
        <4> HIDE DEF k
        <4>2. (k + 1) + 1 = k + 2
          BY <4>1
        <4> QED
          BY <4>1, <4>2
      <3>2. k + 1 \in 0..Len(c)
        BY <3>1
      <3> HIDE DEF k
      <3> QED
        BY <3>1, <3>2
    <2>3. From(text, Compiled[text].chunks)
      <3> DEFINE c == Compiled[text].chunks
      <3>1. c \in Seq(Seq(Command))
        BY DriverAssumption DEF TypeOK, Compilation
      <3>2. c = SubSeq(c, 0 + 1, Len(c)) /\ 0 \in 0..Len(c)
        BY <3>1, SubSeqFull, LenProperties
      <3> QED
        BY <3>2
    <2> HIDE DEF From
    <2>4. text \in Text /\ text # NULL
      BY DriverAssumption DEF TypeOK
    <2>5. source \in Text \union {NULL} /\ (source = NULL => rest = <<>>)
      BY DEF TypeOK
    <2> QED
      BY <2>1, <2>2, <2>3, <2>4, <2>5
  <1> HIDE DEF From
  <1>2. source' # NULL => \E n \in 0..Len(Compiled[source'].chunks) :
            rest' = SubSeq(Compiled[source'].chunks, n + 1, Len(Compiled[source'].chunks))
    BY <1>1 DEF From
  <1> QED
    BY <1>1, <1>2 DEF TypeOK


(* A write goes to the end of the file, or of the pipe.                    *)
LEMMA WriteDoes ==
    ASSUME TypeOK, NEW s \in Seq(Command), Write(s), args.to = "file" => file.exists
    PROVE  /\ text' = text /\ shell' = shell
           /\ file' = IF args.to = "file" THEN Holding(file.lines \o s) ELSE file
           /\ pipe' = IF args.to = "pipe" THEN pipe \o s ELSE pipe
           /\ file' \in [exists : BOOLEAN, lines : Seq(Command)] /\ (~file'.exists => file' = NoFile)
           /\ pipe' \in Seq(Command)
  <1>1. /\ file \in [exists : BOOLEAN, lines : Seq(Command)] /\ (~file.exists => file = NoFile)
        /\ pipe \in Seq(Command)
    BY DEF TypeOK
  <1>2. file.lines \o s \in Seq(Command) /\ pipe \o s \in Seq(Command)
    BY <1>1, JoinCommands
  <1> DEFINE u == file.lines \o s
             v == pipe \o s
  <1>3. /\ file' = IF args.to = "file" THEN [file EXCEPT !.lines = u] ELSE file
        /\ pipe' = IF args.to = "pipe" THEN v ELSE pipe
        /\ text' = text /\ shell' = shell
    BY DEF Write
  <1> HIDE DEF u, v
  <1>4. args.to = "file" => [file EXCEPT !.lines = u] = Holding(u)
    <2>1. args.to = "file" => file.exists = TRUE
      BY <1>1
    <2>2. [file EXCEPT !.lines = u] = [exists |-> file.exists, lines |-> u]
      BY <1>1
    <2> QED
      BY <2>1, <2>2 DEF Holding
  <1>5. u \in Seq(Command) /\ v \in Seq(Command)
    BY <1>2 DEF u, v
  <1>6. Holding(u) \in [exists : BOOLEAN, lines : Seq(Command)] /\ Holding(u).exists
    BY <1>5 DEF Holding
  <1>7. /\ file' = IF args.to = "file" THEN Holding(u) ELSE file
        /\ file' \in [exists : BOOLEAN, lines : Seq(Command)] /\ (~file'.exists => file' = NoFile)
        /\ pipe' \in Seq(Command)
    BY <1>1, <1>3, <1>4, <1>5, <1>6
  <1> QED
    BY <1>3, <1>7 DEF u, v

(* A step of main() that writes nothing.                                   *)
LEMMA QuietProcess ==
    ASSUME Process, UNCHANGED <<command, stage, before, texts, kernel, job>>,
           ReadOptions \/ OpenOutput \/ OutputFails \/ LookUp \/ NoFlusher \/ Parse \/ PassesFail
           \/ RulesEnd \/ CloseOutput \/ BrokenPipe
    PROVE  Process'
  <1> USE DEF At, Goto, Quit, Elsewhere
  <1>0. /\ TypeOK /\ Parsed /\ Filed /\ FileWhole
        /\ args.to = "file" => command = "compile"
    BY DEF Process
  <1>1. /\ args \in CommandLine /\ said \in BOOLEAN /\ l \in {0, -1} /\ text \in Text
        /\ source \in Text \union {NULL} /\ (source = NULL => rest = <<>>)
        /\ file \in [exists : BOOLEAN, lines : Seq(Command)] /\ (~file.exists => file = NoFile)
        /\ pipe \in Seq(Command)
    BY <1>0 DEF TypeOK
  <1>2. CASE ReadOptions
    <2>1. TypeOK'
      BY <1>0, <1>1, <1>2, StepTyped DEF ReadOptions, Parsed
    <2>2. Parsed'
      BY <1>0, <1>1, <1>2 DEF ReadOptions, Parsed, WrongUsage
    <2>3. Filed' /\ FileWhole'
      BY <1>0, <1>1, <1>2 DEF ReadOptions, Filed, FileWhole
    <2> QED
      BY <1>0, <1>2, <2>1, <2>2, <2>3 DEF Process, ReadOptions
  <1>3. CASE OpenOutput
    <2>1. TypeOK'
      <3>1. Holding(<<>>) \in [exists : BOOLEAN, lines : Seq(Command)] /\ Holding(<<>>).exists
        BY JoinCommands DEF Holding
      <3> QED
        BY <1>0, <1>1, <1>3, <3>1, StepTyped DEF OpenOutput
    <2>2. Parsed'
      BY <1>0, <1>1, <1>3 DEF OpenOutput, Parsed, WrongUsage
    <2>3. Filed' /\ FileWhole'
      BY <1>0, <1>1, <1>3 DEF OpenOutput, Filed, FileWhole
    <2> QED
      BY <1>0, <1>3, <2>1, <2>2, <2>3 DEF Process, OpenOutput
  <1>4. CASE OutputFails
    <2>1. TypeOK'
      BY <1>0, <1>1, <1>4, StepTyped DEF OutputFails
    <2>2. Parsed'
      BY <1>0, <1>1, <1>4 DEF OutputFails, Parsed, WrongUsage
    <2>3. Filed' /\ FileWhole'
      BY <1>0, <1>1, <1>4 DEF OutputFails, Filed, FileWhole
    <2> QED
      BY <1>0, <1>4, <2>1, <2>2, <2>3 DEF Process, OutputFails
  <1>5. CASE LookUp
    <2>1. TypeOK'
      BY <1>0, <1>1, <1>5, StepTyped DEF LookUp
    <2>2. Parsed'
      BY <1>0, <1>1, <1>5 DEF LookUp, Parsed, WrongUsage
    <2>3. Filed' /\ FileWhole'
      BY <1>0, <1>1, <1>5 DEF LookUp, Filed, FileWhole
    <2> QED
      BY <1>0, <1>5, <2>1, <2>2, <2>3 DEF Process, LookUp
  <1>6. CASE NoFlusher
    <2>1. TypeOK'
      BY <1>0, <1>1, <1>6, StepTyped DEF NoFlusher
    <2>2. Parsed'
      BY <1>0, <1>1, <1>6 DEF NoFlusher, Parsed, WrongUsage
    <2>3. Filed' /\ FileWhole'
      BY <1>0, <1>1, <1>6 DEF NoFlusher, Filed, FileWhole
    <2> QED
      BY <1>0, <1>6, <2>1, <2>2, <2>3 DEF Process, NoFlusher
  <1>7. CASE Parse
    <2>1. TypeOK'
      BY <1>0, <1>1, <1>7, StepTyped DEF Parse
    <2>2. Parsed'
      BY <1>0, <1>1, <1>7, DriverAssumption DEF Parse, Parsed, WrongUsage
    <2>3. Filed' /\ FileWhole'
      BY <1>0, <1>1, <1>7 DEF Parse, Filed, FileWhole
    <2> QED
      BY <1>0, <1>7, <2>1, <2>2, <2>3 DEF Process, Parse
  <1>8. CASE PassesFail
    <2>1. TypeOK'
      BY <1>0, <1>1, <1>8, StepTyped DEF PassesFail
    <2>2. Parsed'
      BY <1>0, <1>1, <1>8 DEF PassesFail, Parsed, WrongUsage
    <2>3. Filed' /\ FileWhole'
      BY <1>0, <1>1, <1>8 DEF PassesFail, Filed, FileWhole
    <2> QED
      BY <1>0, <1>8, <2>1, <2>2, <2>3 DEF Process, PassesFail
  <1>9. CASE RulesEnd
    <2>1. TypeOK'
      BY <1>0, <1>1, <1>9, StepTyped DEF RulesEnd
    <2>2. Parsed'
      BY <1>0, <1>1, <1>9 DEF RulesEnd, Parsed, WrongUsage
    <2>3. SoFar = Script(args, source)
      BY <1>0, <1>9, SoFarSteps DEF RulesEnd, Parsed
    <2>4. Filed' /\ FileWhole'
      BY <1>0, <1>1, <1>9, <2>3 DEF RulesEnd, Filed, FileWhole
    <2> QED
      BY <1>0, <1>9, <2>1, <2>2, <2>4 DEF Process, RulesEnd
  <1>10. CASE CloseOutput
    <2>1. TypeOK'
      <3>1. NoFile \in [exists : BOOLEAN, lines : Seq(Command)]
        BY JoinCommands DEF NoFile
      <3>2. rest = <<>>
        BY <1>0, <1>1, <1>10 DEF CloseOutput, Parsed
      <3> QED
        BY <1>0, <1>1, <1>10, <3>1, <3>2, StepTyped DEF CloseOutput
    <2>2. Parsed'
      BY <1>0, <1>1, <1>10 DEF CloseOutput, Parsed, WrongUsage
    <2>3. Filed' /\ FileWhole'
      BY <1>0, <1>1, <1>10 DEF CloseOutput, Filed, FileWhole
    <2> QED
      BY <1>0, <1>10, <2>1, <2>2, <2>3 DEF Process, CloseOutput
  <1>11. CASE BrokenPipe
    <2>1. TypeOK'
      BY <1>0, <1>1, <1>11, StepTyped DEF BrokenPipe
    <2>2. Parsed'
      BY <1>0, <1>1, <1>11 DEF BrokenPipe, Parsed, WrongUsage
    <2>3. Filed' /\ FileWhole'
      BY <1>0, <1>1, <1>11 DEF BrokenPipe, Filed, FileWhole
    <2> QED
      BY <1>0, <1>11, <2>1, <2>2, <2>3 DEF Process, BrokenPipe
  <1> QED
    BY <1>2, <1>3, <1>4, <1>5, <1>6, <1>7, <1>8, <1>9, <1>10, <1>11


(* A step of main() that writes.                                           *)
LEMMA WriteProcess ==
    ASSUME Process, UNCHANGED <<command, stage, before, texts, kernel, job>>,
           Flush \/ WriteSkeleton \/ WriteRules
    PROVE  Process'
  <1> USE DEF At, Goto
  <1>0. /\ TypeOK /\ Parsed /\ Filed /\ FileWhole
        /\ args.to = "file" => command = "compile"
    BY DEF Process
  <1>1. /\ args \in CommandLine /\ said \in BOOLEAN /\ l \in {0, -1} /\ text \in Text
        /\ source \in Text \union {NULL} /\ (source = NULL => rest = <<>>)
        /\ file \in [exists : BOOLEAN, lines : Seq(Command)] /\ (~file.exists => file = NoFile)
        /\ pipe \in Seq(Command)
    BY <1>0 DEF TypeOK
  <1>2. \A s \in Seq(Command) : <<>> \o s = s
    BY ConcatEmptySeq
  <1>3. CASE Flush
    <2> DEFINE s == FlushScript(args)
    <2>1. s = Script(args, source) /\ s \in Seq(Command)
      <3>1. args.flush # NULL /\ args.flush # "unknown"
        BY <1>0, <1>3 DEF Flush, Parsed, WrongUsage
      <3> QED
        BY <1>1, <3>1, ScriptTyped DEF Script
    <2>2. args.to = "file" => file = Holding(<<>>) /\ file.lines = <<>> /\ file.exists
      BY <1>0, <1>3 DEF Flush, Filed, Holding
    <2>3. Write(s)
      BY <1>3 DEF Flush
    <2> HIDE DEF s
    <2>4. /\ text' = text /\ shell' = shell
          /\ file' = IF args.to = "file" THEN Holding(file.lines \o s) ELSE file
          /\ file' \in [exists : BOOLEAN, lines : Seq(Command)] /\ (~file'.exists => file' = NoFile)
          /\ pipe' \in Seq(Command)
      BY <1>0, <2>1, <2>2, <2>3, WriteDoes
    <2>5. args.to = "file" => file' = Holding(Script(args, source))
      BY <1>2, <2>1, <2>2, <2>4
    <2>6. TypeOK'
      BY <1>0, <1>1, <1>3, <2>4, StepTyped DEF Flush
    <2>7. Parsed'
      BY <1>0, <1>1, <1>3 DEF Flush, Parsed, WrongUsage
    <2>8. Filed' /\ FileWhole'
      BY <1>0, <1>1, <1>3, <2>5 DEF Flush, Filed, FileWhole
    <2> QED
      BY <1>0, <1>3, <2>6, <2>7, <2>8 DEF Process, Flush
  <1>4. CASE WriteSkeleton
    <2> DEFINE s == Prologue(args)
    <2>1. s = SoFar /\ s \in Seq(Command)
      BY <1>0, <1>4, SoFarSteps DEF WriteSkeleton, Parsed
    <2>2. args.to = "file" => file = Holding(<<>>) /\ file.lines = <<>> /\ file.exists
      BY <1>0, <1>4 DEF WriteSkeleton, Filed, Holding
    <2>3. Write(s)
      BY <1>4 DEF WriteSkeleton
    <2> HIDE DEF s
    <2>4. /\ text' = text /\ shell' = shell
          /\ file' = IF args.to = "file" THEN Holding(file.lines \o s) ELSE file
          /\ file' \in [exists : BOOLEAN, lines : Seq(Command)] /\ (~file'.exists => file' = NoFile)
          /\ pipe' \in Seq(Command)
      BY <1>0, <2>1, <2>2, <2>3, WriteDoes
    <2>5. (args.to = "file" => file' = Holding(SoFar)) /\ SoFar' = SoFar
      BY <1>2, <1>4, <2>1, <2>2, <2>4 DEF WriteSkeleton, SoFar
    <2>6. TypeOK'
      BY <1>0, <1>1, <1>4, <2>4, StepTyped DEF WriteSkeleton
    <2>7. Parsed'
      BY <1>0, <1>1, <1>4 DEF WriteSkeleton, Parsed, WrongUsage
    <2>8. Filed' /\ FileWhole'
      BY <1>0, <1>1, <1>4, <2>5 DEF WriteSkeleton, Filed, FileWhole
    <2> QED
      BY <1>0, <1>4, <2>6, <2>7, <2>8 DEF Process, WriteSkeleton
  <1>5. CASE WriteRules
    <2> DEFINE s == Head(rest)
    <2>0. source # NULL /\ rest # <<>>
      BY <1>0, <1>5 DEF WriteRules, Parsed
    <2>1. SoFar' = SoFar \o s /\ s \in Seq(Command)
      BY <1>0, <1>5, <2>0, SoFarSteps DEF WriteRules
    <2>2. args.to = "file" => file = Holding(SoFar) /\ file.lines = SoFar /\ file.exists
      BY <1>0, <1>5 DEF WriteRules, Filed, Holding
    <2>3. Write(s)
      BY <1>5 DEF WriteRules
    <2> HIDE DEF s
    <2>4. /\ text' = text /\ shell' = shell
          /\ file' = IF args.to = "file" THEN Holding(file.lines \o s) ELSE file
          /\ file' \in [exists : BOOLEAN, lines : Seq(Command)] /\ (~file'.exists => file' = NoFile)
          /\ pipe' \in Seq(Command)
      BY <1>0, <2>1, <2>2, <2>3, WriteDoes
    <2>5. args.to = "file" => file' = Holding(SoFar')
      BY <2>1, <2>2, <2>4
    <2>6. TypeOK'
      BY <1>0, <1>1, <1>5, <2>0, <2>4, StepTyped DEF WriteRules
    <2>7. Parsed'
      BY <1>0, <1>1, <1>5 DEF WriteRules, Parsed, WrongUsage
    <2>8. Filed' /\ FileWhole'
      BY <1>0, <1>1, <1>5, <2>5 DEF WriteRules, Filed, FileWhole
    <2> QED
      BY <1>0, <1>5, <2>6, <2>7, <2>8 DEF Process, WriteRules
  <1> QED
    BY <1>3, <1>4, <1>5

(* Killed, with what is in the buffers lost.                               *)
LEMMA KilledProcess ==
    ASSUME Process, UNCHANGED <<command, stage, before, texts, kernel, job>>, Killed
    PROVE  Process'
  <1>0. /\ TypeOK /\ Parsed /\ Filed /\ FileWhole
        /\ args.to = "file" => command = "compile"
    BY DEF Process
  <1>1. /\ file \in [exists : BOOLEAN, lines : Seq(Command)] /\ (~file.exists => file = NoFile)
        /\ pipe \in Seq(Command) /\ status = "running" /\ said \in BOOLEAN /\ l \in {0, -1}
    BY <1>0 DEF TypeOK, Killed
  <1>2. /\ pc' = "exited" /\ status' = "killed" /\ said' = said
        /\ UNCHANGED <<args, source, rest, l, text, shell>>
    BY <1>1 DEF Killed, Quit
  <1>3. \A s \in Seq(Command) : \A n \in 0..Len(s) : SubSeq(s, 1, n) \in Seq(Command)
    BY StartIs DEF Starts
  <1>4. file' \in [exists : BOOLEAN, lines : Seq(Command)] /\ (~file'.exists => file' = NoFile)
    <2>1. PICK n \in 0..Len(file.lines) :
            file' = IF Opened THEN Holding(SubSeq(file.lines, 1, n)) ELSE file
      BY DEF Killed
    <2>2. SubSeq(file.lines, 1, n) \in Seq(Command)
      BY <1>1, <1>3
    <2> QED
      BY <1>1, <2>1, <2>2 DEF Holding
  <1>5. pipe' \in Seq(Command)
    BY <1>1, <1>3 DEF Killed
  <1>6. TypeOK'
    BY <1>0, <1>1, <1>2, <1>4, <1>5, StepTyped
  <1>7. Parsed'
    BY <1>0, <1>1, <1>2 DEF Parsed, WrongUsage
  <1>8. Filed' /\ FileWhole'
    BY <1>2 DEF Filed, FileWhole
  <1> QED
    BY <1>0, <1>2, <1>6, <1>7, <1>8 DEF Process

(* A new process.                                                          *)
LEMMA StartProcess ==
    ASSUME Process, NEW a \in CommandLine, Start(a), UNCHANGED <<kernel, job>>,
           command' \in {"none", "check", "compile", "reload", "stop"},
           stage' \in {"idle", "alone", "test", "pipeline"},
           texts' \subseteq Text, text \in texts',
           a.to = "file" => command' = "compile" /\ before'.file = file
    PROVE  Process'
  <1>0. TypeOK
    BY DEF Process
  <1>1. /\ args' = a /\ pc' = "options" /\ status' = "running"
        /\ source' = NULL /\ rest' = <<>> /\ l' = 0 /\ said' = FALSE /\ pipe' = <<>>
        /\ shell' \in {"running", "done"} /\ text' = text /\ file' = file
    BY DEF Start
  <1>2. TypeOK'
    BY <1>0, <1>1, JoinCommands DEF TypeOK
  <1>3. Parsed' /\ Filed' /\ FileWhole'
    BY <1>1 DEF Parsed, Filed, FileWhole
  <1> QED
    BY <1>1, <1>2, <1>3 DEF Process


-----------------------------------------------------------------------------
(***************************************************************************)
(* A process and its shell                                                 *)
(***************************************************************************)
(* A command line of filtergen with a shell to execute what it writes.     *)
ForShell(a) == a \in {LoadArgs, StopArgs}

(* The shell has executed u.                                               *)
PipedBy(u) ==
    /\ u \in Beginnings(Meant)
    /\ kernel = Effect(before.kernel, u)
    /\ pc \in BeforeRules => u \o pipe = <<>>
    /\ pc = "rules" => u \o pipe = SoFar
    /\ pc = "close" \/ status = "success" => u \o pipe = Meant
    /\ pc = "exited" => u \o pipe \in Beginnings(Meant)

(* What fgadm runs in front of a shell.                                    *)
LEMMA ForShellArgs ==
    /\ \A a : ForShell(a) =>
          /\ a \in CommandLine /\ a.to = "pipe" /\ ~a.info /\ a.source # "unknown"
          /\ a.target = "iptables" /\ a.flush \in {NULL, "ACCEPT"} /\ a.flush # "unknown"
          /\ a.flush = NULL => a.infile
    /\ ForShell(LoadArgs) /\ LoadArgs.flush = NULL
    /\ ForShell(StopArgs) /\ StopArgs.flush # NULL
  <1>1. "ACCEPT" # NULL /\ "unknown" # NULL
    BY DriverAssumption
  <1>2. /\ Plain \in CommandLine /\ Plain.flush = NULL /\ Plain.infile /\ Plain.to = "pipe"
        /\ ~Plain.info /\ Plain.source = "filtergen" /\ Plain.target = "iptables"
    BY DEF Plain, CommandLine, Target
  <1> DEFINE Opens(a) == [a EXCEPT !.flush = "ACCEPT", !.infile = FALSE]
  <1>3. ASSUME NEW a \in CommandLine
        PROVE  /\ Opens(a) \in CommandLine
               /\ Opens(a).flush = "ACCEPT" /\ Opens(a).to = a.to /\ Opens(a).info = a.info
               /\ Opens(a).source = a.source /\ Opens(a).target = a.target
    BY DEF CommandLine
  <1>4. LoadArgs = Plain /\ StopArgs = Opens(Plain)
    BY DEF LoadArgs, StopArgs
  <1> HIDE DEF Opens
  <1>5. ASSUME NEW a, a = LoadArgs \/ a = StopArgs
        PROVE  /\ a.to = "pipe" /\ ~a.info /\ a.source # "unknown" /\ a.target = "iptables"
               /\ a.flush \in {NULL, "ACCEPT"} /\ a.flush # "unknown"
               /\ a.flush = NULL => a.infile
    BY <1>1, <1>2, <1>3, <1>4, <1>5
  <1> QED
    BY <1>1, <1>2, <1>3, <1>4, <1>5 DEF ForShell

(* What has been executed and what is in the pipe is a beginning of what   *)
(* filtergen is about to write.                                            *)
LEMMA PipedParts ==
    ASSUME TypeOK, Parsed, ForShell(args), NEW u, PipedBy(u)
    PROVE  /\ Meant \in Seq(Command) /\ u \in Seq(Command) /\ pipe \in Seq(Command)
           /\ <<>> \in Beginnings(Meant) /\ Meant \in Beginnings(Meant)
           /\ \A v, w \in Seq(Command) : v \o w \in Beginnings(Meant) => v \in Beginnings(Meant)
           /\ u \o pipe \in Beginnings(Meant)
           /\ u \o pipe \in Seq(Command)
  <1> DEFINE m == Meant
  <1>1. m \in Seq(Command)
    <2>1. CASE args.flush = NULL /\ source = NULL
      BY <2>1, JoinCommands DEF Meant
    <2>2. CASE args.flush # NULL \/ source # NULL
      <3>1. args.flush = NULL => source \in Text
        BY <2>2 DEF TypeOK
      <3>2. args \in CommandLine /\ args.flush # "unknown"
        BY ForShellArgs
      <3> QED
        BY <2>2, <3>1, <3>2, ScriptTyped DEF Meant
    <2> QED
      BY <2>1, <2>2
  <1>2. u \in Beginnings(m) /\ pipe \in Seq(Command)
    BY DEF PipedBy, TypeOK
  <1>3. pc = "rules" => SoFar \in Beginnings(m)
    <2> SUFFICES ASSUME pc = "rules"
                 PROVE  SoFar \in Beginnings(m)
      OBVIOUS
    <2>1. args.flush = NULL /\ source # NULL
      BY DEF Parsed
    <2> QED
      BY <2>1, SoFarSteps DEF Meant
  <1> HIDE DEF m
  <1>4. <<>> \in Beginnings(m) /\ m \in Beginnings(m)
        /\ \A v, w \in Seq(Command) : v \o w \in Beginnings(m) => v \in Beginnings(m)
    BY <1>1, StartsOf, BeginningsStart
  <1>5. u \in Seq(Command)
    BY <1>1, <1>2, StartIs, BeginningsStart
  <1>6. u \o pipe \in Beginnings(m)
    <2>1. pc \in BeforeRules \union {"rules", "close", "exited"}
      BY DEF TypeOK, BeforeRules
    <2> DEFINE q == u \o pipe
    <2>2. /\ pc \in BeforeRules => q = <<>>
          /\ pc = "rules" => q = SoFar
          /\ pc = "close" => q = m
          /\ pc = "exited" => q \in Beginnings(m)
      BY DEF PipedBy, m
    <2> HIDE DEF q
    <2>3. q \in Beginnings(m)
      BY <1>3, <1>4, <2>1, <2>2
    <2> QED
      BY <2>3 DEF q
  <1>7. u \o pipe \in Seq(Command)
    BY <1>2, <1>5, JoinCommands
  <1> QED
    BY <1>1, <1>2, <1>4, <1>5, <1>6, <1>7 DEF m

(* main() writes at the end of the pipe what it has to write next.         *)
LEMMA MainPipes ==
    ASSUME Process, Main, ForShell(args), NEW u, PipedBy(u), UNCHANGED <<before, kernel>>
    PROVE  PipedBy(u)'
  <1> USE DEF At, Goto, Quit, Elsewhere
  <1>0. TypeOK /\ Parsed
    BY DEF Process
  <1>1. /\ Meant \in Seq(Command) /\ u \in Seq(Command) /\ pipe \in Seq(Command)
        /\ <<>> \in Beginnings(Meant) /\ Meant \in Beginnings(Meant)
        /\ u \o pipe \in Beginnings(Meant) /\ u \o pipe \in Seq(Command)
    BY <1>0, PipedParts
  <1>2. /\ args \in CommandLine /\ args.to = "pipe" /\ ~args.info /\ args.source # "unknown"
        /\ args.target = "iptables" /\ args.flush # "unknown" /\ ~WrongUsage
    BY ForShellArgs DEF WrongUsage
  <1>3. /\ u \in Beginnings(Meant) /\ kernel = Effect(before.kernel, u)
        /\ pc \in BeforeRules => u \o pipe = <<>>
        /\ pc = "rules" => u \o pipe = SoFar
        /\ pc = "close" \/ status = "success" => u \o pipe = Meant
        /\ pc = "exited" => u \o pipe \in Beginnings(Meant)
    BY DEF PipedBy
  <1>4. ASSUME args' = args, source' = source
        PROVE  Meant' = Meant
    BY <1>4 DEF Meant
  <1>5. ASSUME NEW s \in Seq(Command), Write(s)
        PROVE  pipe' = pipe \o s /\ u \o pipe' = (u \o pipe) \o s
    <2>1. pipe' = pipe \o s
      BY <1>2, <1>5 DEF Write
    <2>2. (u \o pipe) \o s = u \o (pipe \o s)
      BY <1>1, InAnyOrder
    <2> QED
      BY <2>1, <2>2
  <1>6. \A s \in Seq(Command) : <<>> \o s = s
    BY ConcatEmptySeq
  <1>7. CASE ReadOptions \/ OpenOutput \/ OutputFails \/ LookUp \/ NoFlusher \/ PassesFail \/ BrokenPipe
    <2> DEFINE q == u \o pipe
    <2>1. UNCHANGED <<args, source, pipe, rest>> /\ Meant' = Meant
      BY <1>4, <1>7 DEF ReadOptions, OpenOutput, OutputFails, LookUp, NoFlusher, PassesFail, BrokenPipe
    <2>2. \/ pc \in BeforeRules /\ pc' \in BeforeRules /\ status' = "running"
          \/ pc' = "exited" /\ status' # "success"
      BY <1>2, <1>7 DEF ReadOptions, OpenOutput, OutputFails, LookUp, NoFlusher, PassesFail, BrokenPipe,
                        BeforeRules
    <2>3. (u \o pipe)' = q
      BY <2>1
    <2> HIDE DEF q
    <2>4. q \in Beginnings(Meant) /\ (pc \in BeforeRules => q = <<>>)
      BY <1>1, <1>3 DEF q
    <2> QED
      BY <1>3, <2>1, <2>2, <2>3, <2>4 DEF PipedBy, BeforeRules
  <1>8. CASE Parse
    <2>1. u \o pipe = <<>> /\ pc' = "unroll" /\ pipe' = pipe /\ status' = "running"
      BY <1>3, <1>8 DEF Parse, BeforeRules
    <2>2. Meant = <<>>
      BY <1>0, <1>8 DEF Parse, Parsed, Meant
    <2>3. u = <<>>
      BY <1>1, <2>1, ConcatSimplifications
    <2>4. <<>> \in Beginnings(Meant')
      BY DEF Beginnings
    <2> QED
      BY <1>3, <2>1, <2>3, <2>4 DEF PipedBy, BeforeRules
  <1>9. CASE Flush
    <2> DEFINE s == FlushScript(args)
    <2>1. args.flush # NULL /\ u \o pipe = <<>> /\ Write(s) /\ pc' = "close" /\ status' = "running"
          /\ UNCHANGED <<args, source, rest>>
      BY <1>0, <1>3, <1>9 DEF Flush, Parsed, BeforeRules
    <2>2. s = Meant
      BY <2>1 DEF Meant, Script
    <2> HIDE DEF s
    <2>3. s \in Seq(Command)
      BY <1>1, <2>2
    <2>4. u \o pipe' = s
      BY <1>5, <1>6, <2>1, <2>3
    <2> QED
      BY <1>3, <1>4, <2>1, <2>2, <2>4 DEF PipedBy, BeforeRules
  <1>10. CASE WriteSkeleton
    <2> DEFINE s == Prologue(args)
    <2>1. /\ u \o pipe = <<>> /\ Write(s) /\ pc' = "rules" /\ status' = "running"
          /\ UNCHANGED <<args, source, rest>>
      BY <1>0, <1>3, <1>10 DEF WriteSkeleton, BeforeRules
    <2>2. s = SoFar /\ s \in Seq(Command)
      BY <1>0, <1>10, SoFarSteps DEF WriteSkeleton, Parsed
    <2> HIDE DEF s
    <2>3. u \o pipe' = s /\ SoFar' = SoFar
      BY <1>5, <1>6, <2>1, <2>2 DEF SoFar
    <2> QED
      BY <1>3, <1>4, <2>1, <2>2, <2>3 DEF PipedBy, BeforeRules
  <1>11. CASE WriteRules
    <2> DEFINE s == Head(rest)
    <2>1. /\ u \o pipe = SoFar /\ Write(s) /\ pc' = "rules" /\ status' = "running"
          /\ UNCHANGED <<args, source>> /\ rest' = Tail(rest) /\ rest # <<>>
      BY <1>0, <1>3, <1>11 DEF WriteRules, TypeOK
    <2>2. SoFar' = SoFar \o s /\ s \in Seq(Command)
      BY <1>0, <1>11, <2>1, SoFarSteps DEF WriteRules, Parsed
    <2> HIDE DEF s
    <2>3. u \o pipe' = SoFar'
      BY <1>5, <2>1, <2>2
    <2> QED
      BY <1>3, <1>4, <2>1, <2>3 DEF PipedBy, BeforeRules
  <1>12. CASE RulesEnd
    <2>1. /\ u \o pipe = SoFar /\ pc' = "close" /\ status' = "running"
          /\ UNCHANGED <<args, source, rest, pipe>> /\ rest = <<>>
      BY <1>3, <1>12 DEF RulesEnd
    <2>2. SoFar = Script(args, source) /\ source # NULL
      BY <1>0, <1>12, SoFarSteps DEF RulesEnd, Parsed
    <2>3. u \o pipe' = Meant
      BY <2>1, <2>2 DEF Meant
    <2> QED
      BY <1>3, <1>4, <2>1, <2>3 DEF PipedBy, BeforeRules
  <1>13. CASE CloseOutput
    <2>1. u \o pipe = Meant /\ pc' = "exited" /\ UNCHANGED <<args, source, rest, pipe>>
      BY <1>3, <1>13 DEF CloseOutput
    <2>2. u \o pipe' = Meant
      BY <2>1
    <2> QED
      BY <1>1, <1>3, <1>4, <2>1, <2>2 DEF PipedBy, BeforeRules
  <1> QED
    BY <1>7, <1>8, <1>9, <1>10, <1>11, <1>12, <1>13 DEF Main


(* The shell executes what comes first out of the pipe.                    *)
LEMMA ExecutePipes ==
    ASSUME TypeOK, Parsed, ForShell(args), IsKernel(before.kernel), NEW u, PipedBy(u), Execute
    PROVE  \E v : PipedBy(v)'
  <1> DEFINE h == Head(pipe)
             t == Tail(pipe)
             o == <<h>>
             v == u \o o
  <1>1. /\ u \in Seq(Command) /\ pipe \in Seq(Command) /\ pipe # <<>>
        /\ u \o pipe \in Beginnings(Meant)
        /\ \A x, y \in Seq(Command) : x \o y \in Beginnings(Meant) => x \in Beginnings(Meant)
    BY PipedParts DEF Execute
  <1>2. /\ kernel' = After(kernel, h) /\ pipe' = t
        /\ UNCHANGED <<text, mainVars, file, shell, before>>
    BY DEF Execute, adminVars
  <1>3. h \in Command /\ t \in Seq(Command) /\ pipe = o \o t
    BY <1>1, HeadTailProperties, HeadAndTail
  <1> HIDE DEF h, t
  <1>4. o \in Seq(Command)
    BY <1>3
  <1>5. u \in Seq(Line) /\ h \in Line
    BY <1>1, <1>3, JoinCommands DEF Line
  <1>6. o \in Seq(Line) /\ Effect(kernel, o) = After(kernel, h)
    <2>1. kernel = Effect(before.kernel, u) /\ IsKernel(kernel)
      BY DEF PipedBy, TypeOK
    <2> QED
      BY <1>5, <2>1, OneLine
  <1> HIDE DEF o
  <1>7. v \in Seq(Command)
    BY <1>1, <1>4, JoinCommands
  <1>8. v \o t = u \o pipe
    <2>1. (u \o o) \o t = u \o (o \o t)
      BY <1>1, <1>3, <1>4, InAnyOrder
    <2> QED
      BY <1>3, <2>1
  <1>9. kernel' = Effect(before.kernel, v)
    <2>1. Effect(before.kernel, u \o o) = Effect(Effect(before.kernel, u), o)
      BY <1>5, <1>6, StageBeyond
    <2> QED
      BY <1>2, <1>6, <2>1 DEF PipedBy
  <1> HIDE DEF v
  <1>10. v \in Beginnings(Meant)
    BY <1>1, <1>3, <1>7, <1>8
  <1>11. PICK w : w = v
    OBVIOUS
  <1>12. w \o pipe' = u \o pipe /\ kernel' = Effect(before.kernel, w) /\ w \in Beginnings(Meant)
    BY <1>2, <1>8, <1>9, <1>10, <1>11
  <1>13. Meant' = Meant /\ SoFar' = SoFar /\ pc' = pc /\ status' = status /\ before' = before
    BY <1>2 DEF mainVars, Meant, SoFar
  <1>14. PipedBy(w)'
    BY <1>12, <1>13 DEF PipedBy
  <1> QED
    BY <1>14

(* What is still in the buffer of stdout is lost.                          *)
LEMMA KilledPipes ==
    ASSUME TypeOK, Parsed, ForShell(args), NEW u, PipedBy(u), Killed, UNCHANGED <<before, kernel>>
    PROVE  PipedBy(u)'
  <1>1. /\ Meant \in Seq(Command) /\ u \in Seq(Command) /\ pipe \in Seq(Command)
        /\ u \o pipe \in Beginnings(Meant)
    BY PipedParts
  <1>2. pc' = "exited" /\ status' = "killed" /\ UNCHANGED <<args, source, rest>>
    BY DEF Killed, Quit
  <1>3. pipe' \in Starts(pipe)
    BY DEF Killed, Starts
  <1>4. u \o pipe' \in Beginnings(Meant)
    BY <1>1, <1>3, StartsCut, BeginningsStart
  <1>5. Meant' = Meant
    BY <1>2 DEF Meant
  <1> QED
    BY <1>2, <1>4, <1>5 DEF PipedBy, BeforeRules

(* At first nothing is executed and nothing is in the pipe.                *)
LEMMA StartPipes ==
    ASSUME NEW a, ForShell(a), Start(a), IsKernel(kernel), kernel' = kernel, before'.kernel = kernel
    PROVE  Piped'
  <1> DEFINE e == <<>>
             m == IF a.flush = NULL THEN <<>> ELSE Script(a, NULL)
  <1>1. m \in Seq(Command)
    BY ForShellArgs, ScriptTyped, JoinCommands
  <1>2. Meant' = m
    BY DEF Start, Meant
  <1> HIDE DEF m
  <1>3. e \in Beginnings(m)
    BY <1>1, StartsOf, BeginningsStart
  <1>4. e \o e = e
    BY ConcatEmptySeq, JoinCommands
  <1>5. Effect(kernel, e) = kernel
    BY NoLine
  <1> HIDE DEF e
  <1>6. pipe' = e /\ pc' = "options" /\ status' = "running"
    BY DEF Start, e
  <1>7. kernel' = Effect(before'.kernel, e)
    BY <1>5
  <1>8. PipedBy(e)'
    BY <1>2, <1>3, <1>4, <1>6, <1>7 DEF PipedBy, BeforeRules, e
  <1> QED
    BY <1>8 DEF PipedBy, Piped

(* PipedBy(u) says what Piped says there is.                               *)
LEMMA PipedByIs == Piped <=> \E u : PipedBy(u)
  BY DEF PipedBy, Piped


-----------------------------------------------------------------------------
(***************************************************************************)
(* Commands                                                                *)
(***************************************************************************)
(* The rules in force are what the beginning of one script makes of those  *)
(* that were.                                                              *)
OfOneText(k, b, T) ==
    \E t \in T : \E n \in 0..Len(Script(Plain, t)) : k = Effect(b, SubSeq(Script(Plain, t), 1, n))

(* The beginning of a script has been executed,                            *)
LEMMA OneTextLoaded ==
    ASSUME NEW b, NEW T \in SUBSET Text, NEW t \in T, NEW u \in Beginnings(Script(Plain, t))
    PROVE  OfOneText(Effect(b, u), b, T)
  BY DEF OfOneText, Beginnings

(* or none of it.                                                          *)
LEMMA NothingLoaded ==
    ASSUME NEW b, IsKernel(b), NEW T \in SUBSET Text, T # {}
    PROVE  OfOneText(b, b, T)
  <1>1. PICK t \in T : TRUE
    OBVIOUS
  <1> DEFINE s == Script(Plain, t)
             e == <<>>
  <1>2. s \in Seq(Command)
    <2>1. Plain \in CommandLine /\ Plain.flush # "unknown"
      BY ForShellArgs DEF LoadArgs
    <2>2. t \in Text
      OBVIOUS
    <2> QED
      BY <2>1, <2>2, ScriptTyped
  <1> HIDE DEF s
  <1>3. e \in Beginnings(s)
    BY <1>2, StartsOf, BeginningsStart
  <1>4. Effect(b, e) = b
    BY NoLine
  <1> HIDE DEF e
  <1>5. OfOneText(Effect(b, e), b, T)
    BY <1>1, <1>3, OneTextLoaded DEF s
  <1> QED
    BY <1>4, <1>5

(* OneText, by name.                                                       *)
LEMMA OneTextIs == OneText <=> (command = "reload" /\ Alone => OfOneText(kernel, before.kernel, texts))
  BY DEF OneText, OfOneText

(* What a reload has loaded when it has executed the beginning of what its *)
(* filtergen means to write.                                               *)
LEMMA LoadedOneText ==
    ASSUME NEW b, IsKernel(b), NEW T \in SUBSET Text, T # {}, NEW s \in T \union {NULL},
           NEW u \in Beginnings(IF s = NULL THEN <<>> ELSE Script(Plain, s))
    PROVE  OfOneText(Effect(b, u), b, T)
  <1>1. CASE s = NULL
    <2> DEFINE e == <<>>
    <2>1. u \in Beginnings(e) /\ Len(e) = 0
      BY <1>1
    <2> HIDE DEF e
    <2>2. PICK n \in 0..Len(e) : u = SubSeq(e, 1, n)
      BY <2>1 DEF Beginnings
    <2>3. u = <<>>
      BY <2>1, <2>2 DEF e
    <2>4. Effect(b, u) = b
      BY <2>3, NoLine
    <2> QED
      BY <2>4, NothingLoaded
  <1>2. CASE s # NULL
    BY <1>2, OneTextLoaded
  <1> QED
    BY <1>1, <1>2

(* A pipeline that has come to its end has executed everything.            *)
LEMMA PipedAll ==
    ASSUME Process, Loads, Piped, status = "success", shell = "done"
    PROVE  kernel = Effect(before.kernel, Meant)
  <1>1. TypeOK /\ Parsed /\ ForShell(args) /\ pipe = <<>>
    BY DEF Process, Loads, ForShell
  <1>2. PICK u : PipedBy(u)
    BY PipedByIs
  <1>3. u \in Seq(Command) /\ u \o pipe = Meant /\ kernel = Effect(before.kernel, u)
    BY <1>1, <1>2, PipedParts DEF PipedBy
  <1>4. u \o pipe = u
    BY <1>1, <1>3, ConcatEmptySeq
  <1> QED
    BY <1>3, <1>4

(* Why a filtergen of fgadm's fails: its shell is gone, or it is of no use *)
(* to go on with the text.                                                 *)
LEMMA WhyItFails ==
    ASSUME TypeOK, Parsed, Main, ~args.info, ~WrongUsage, args.to # "file",
           args.source # "unknown", args.target = "iptables", status' \in {"failure", "killed"}
    PROVE  (args.to = "pipe" /\ shell # "running") \/ (source # NULL /\ ~Makes(source))
  <1> USE DEF At, Goto, Quit, Makes, InPasses
  <1>1. status = "running"
    BY DEF Main, ReadOptions, OpenOutput, OutputFails, LookUp, Flush, NoFlusher, Parse, PassesFail,
           WriteSkeleton, WriteRules, RulesEnd, CloseOutput, BrokenPipe
  <1>2. CASE PassesFail
    BY <1>1, <1>2 DEF PassesFail, Parsed
  <1>3. CASE CloseOutput
    BY <1>1, <1>3 DEF CloseOutput, Parsed
  <1>4. CASE BrokenPipe
    BY <1>4 DEF BrokenPipe
  <1>5. ~NoFlusher
    BY DEF NoFlusher, HasFlusher
  <1>6. CASE ReadOptions \/ OpenOutput \/ OutputFails \/ LookUp \/ Flush \/ Parse
             \/ WriteSkeleton \/ WriteRules \/ RulesEnd
    BY <1>1, <1>6 DEF ReadOptions, OpenOutput, OutputFails, LookUp, Flush, Parse, WriteSkeleton,
                      WriteRules, RulesEnd
  <1> QED
    BY <1>2, <1>3, <1>4, <1>5, <1>6 DEF Main

(* What any step of main() leaves alone.                                   *)
LEMMA MainSteps ==
    ASSUME Parsed, Main
    PROVE  /\ status = "running" /\ args' = args
           /\ source' = source \/ (source' = text /\ args.flush = NULL)
           /\ status' \in {"running", "success", "failure", "killed"}
  BY DEF Parsed, Main, ReadOptions, OpenOutput, OutputFails, LookUp, Flush, NoFlusher, Parse, PassesFail,
         WriteSkeleton, WriteRules, RulesEnd, CloseOutput, BrokenPipe, At, Goto, Quit


-----------------------------------------------------------------------------
(***************************************************************************)
(* PipeInv                                                                 *)
(***************************************************************************)
(* OneText of the state after a step.                                    *)
LEMMA OneTextNext ==
    OneText' <=> (command' = "reload" /\ Alone' => OfOneText(kernel', before'.kernel, texts'))
  BY DEF OneText, OfOneText

(* At first no command has been given, and the output file is what it was. *)
LEMMA InitPipe == Init => PipeInv
  <1> SUFFICES ASSUME Init PROVE PipeInv
    OBVIOUS
  <1> USE DEF Init, NotStarted
  <1>1. IsKernel(kernel) /\ before.kernel = kernel
    BY FgadmAssumption
  <1>2. file \in [exists : BOOLEAN, lines : Seq(Command)] /\ (~file.exists => file = NoFile)
    <2>1. CASE file = NoFile
      BY <2>1, JoinCommands DEF NoFile
    <2>2. CASE file = Holding(file.lines) /\ file.lines \in Seq(Command)
      <3>1. PICK x : x = file.lines
        OBVIOUS
      <3>2. x \in Seq(Command) /\ file = [exists |-> TRUE, lines |-> x]
        BY <2>2, <3>1 DEF Holding
      <3> HIDE DEF Init, NotStarted
      <3>3. \A y \in Seq(Command) : [exists |-> TRUE, lines |-> y] \in [exists : BOOLEAN, lines : Seq(Command)]
        OBVIOUS
      <3>4. file.exists
        BY <3>2
      <3> QED
        BY <3>2, <3>3, <3>4
    <2> QED
      BY <2>1, <2>2, FgadmAssumption
  <1>3. TypeOK
    BY <1>1, <1>2, JoinCommands DEF TypeOK, CommandLine, Target
  <1>4. Parsed /\ Filed /\ FileWhole
    BY DEF Parsed, Filed, FileWhole
  <1>5. ReloadWhole /\ OneText /\ StopOpens
    BY DEF ReloadWhole, OneText, StopOpens, Idle
  <1> QED
    BY <1>1, <1>3, <1>4, <1>5 DEF PipeInv

(* A command starts: nothing has been executed of it.                      *)
LEMMA GivePipe ==
    ASSUME PipeInv, NEW c, NEW first, NEW a \in CommandLine, Give(c, first, a),
           \/ c \in {"check", "compile"} /\ first = "alone" /\ a.to # "pipe"
           \/ c = "reload" /\ first = "test" /\ a = TestArgs
           \/ c = "stop" /\ first = "pipeline" /\ a = StopArgs,
           a.to = "file" => c = "compile"
    PROVE  PipeInv'
  <1>1. /\ TypeOK /\ Process /\ IsKernel(kernel) /\ text \in Text
        /\ job # <<>> => ~Alone
    BY DEF PipeInv, Process, TypeOK
  <1>2. /\ command' = c /\ stage' = first /\ texts' = {text} /\ disturbed' = (job # <<>>)
        /\ before' = [kernel |-> kernel, file |-> file] /\ Start(a)
        /\ UNCHANGED <<kernel, trouble, job>>
    BY DEF Give
  <1>3. /\ text' = text /\ args' = a /\ source' = NULL /\ status' = "running"
        /\ shell' = IF a.to = "pipe" THEN "running" ELSE "done"
    BY <1>2 DEF Start
  <1>4. before'.kernel = kernel /\ before'.file = file
    BY <1>2
  <1>5. Process'
    BY <1>1, <1>2, <1>4, StartProcess
  <1>6. IsKernel(before'.kernel)
    BY <1>1, <1>4
  <1>7. /\ ~disturbed' => job' = <<>> /\ texts' = {text'}
        /\ job' # <<>> => ~Alone'
    BY <1>1, <1>2, <1>3 DEF Alone
  <1>8. TestArgs.to = "null" /\ StopArgs.to = "pipe"
    BY DEF TestArgs, StopArgs, Plain
  <1>9. /\ shell' = "running" => stage' = "pipeline"
        /\ stage' = "alone" => command' \in {"check", "compile"}
    BY <1>2, <1>3, <1>8
  <1>10. stage' = "test" => Tests'
    BY <1>2, <1>3, <1>4 DEF Tests
  <1>11. stage' = "pipeline" => Loads'
    <2> SUFFICES ASSUME c = "stop" /\ a = StopArgs PROVE Loads'
      BY <1>2
    <2>1. Piped'
      BY <1>1, <1>2, <1>4, ForShellArgs, StartPipes
    <2> QED
      BY <1>2, <1>3, <1>8, <2>1 DEF Loads
  <1>12. ReloadWhole' /\ StopOpens'
    BY <1>2 DEF ReloadWhole, StopOpens, Idle
  <1>13. OneText'
    BY <1>1, <1>2, <1>4, NothingLoaded, OneTextNext
  <1> QED
    BY <1>5, <1>6, <1>7, <1>9, <1>10, <1>11, <1>12, <1>13 DEF PipeInv, Process


(* filtergen goes on.  Without trouble it does not fail: a test has found  *)
(* that it can go on with the text, and its shell is there.                *)
LEMMA FiltergenPipe ==
    ASSUME PipeInv, Filtergen
    PROVE  PipeInv'
  <1>1. Process /\ TypeOK /\ Parsed /\ IsKernel(before.kernel)
    BY DEF PipeInv, Process
  <1>2. Main /\ UNCHANGED <<command, stage, given, before, texts, kernel, disturbed, trouble, job>>
    BY DEF Filtergen, adminVars
  <1>3. Process'
    BY <1>1, <1>2, QuietProcess, WriteProcess DEF Main
  <1>4. text' = text /\ shell' = shell
    BY <1>2, MainKeeps
  <1>5. /\ status = "running" /\ args' = args
        /\ source' = source \/ (source' = text /\ args.flush = NULL)
        /\ status' \in {"running", "success", "failure", "killed"}
    BY <1>1, <1>2, MainSteps
  <1>6. ASSUME args = TestArgs \/ ForShell(args), args.to = "pipe" => shell = "running",
               status' \in {"failure", "killed"}
        PROVE  source # NULL /\ ~Makes(source)
    <2>1. ForShell(Plain) /\ Plain.flush = NULL
      BY ForShellArgs DEF LoadArgs
    <2>2. Plain \in CommandLine /\ ~Plain.info /\ Plain.source # "unknown"
          /\ Plain.target = "iptables" /\ Plain.infile
      BY <2>1, ForShellArgs
    <2>3. /\ ~TestArgs.info /\ TestArgs.flush = NULL /\ TestArgs.infile /\ TestArgs.to = "null"
          /\ TestArgs.source # "unknown" /\ TestArgs.target = "iptables"
      BY <2>1, <2>2 DEF TestArgs, Plain
    <2>4. /\ ~args.info /\ args.flush # "unknown" /\ (args.flush = NULL => args.infile)
          /\ args.to # "file" /\ args.source # "unknown" /\ args.target = "iptables"
      BY <1>6, <2>3, ForShellArgs, DriverAssumption
    <2>5. ~WrongUsage
      BY <2>4 DEF WrongUsage
    <2> QED
      BY <1>1, <1>2, <1>6, <2>4, <2>5, WhyItFails
  <1>7. ~disturbed => texts = {text}
    BY DEF PipeInv
  <1>8. ASSUME stage = "test" PROVE Tests'
    <2>1. Tests /\ args.to = "null"
      BY <1>8 DEF PipeInv, Tests, TestArgs, Plain
    <2>2. ~disturbed /\ status' \in {"failure", "killed"} => ~Makes(text)
      <3> SUFFICES ASSUME ~disturbed, status' \in {"failure", "killed"}
                   PROVE  ~Makes(text)
        OBVIOUS
      <3>1. source # NULL /\ ~Makes(source)
        BY <1>6, <2>1 DEF Tests
      <3> QED
        BY <1>7, <2>1, <3>1 DEF Tests
    <2>3. source' # NULL => source' \in texts
      BY <1>1, <1>5, <2>1 DEF Tests, TypeOK
    <2> QED
      BY <1>2, <1>4, <1>5, <2>1, <2>2, <2>3 DEF Tests, Quiet, Alone, Makes
  <1>9. ASSUME stage = "pipeline" PROVE Loads'
    <2>1. Loads /\ ForShell(args)
      BY <1>9 DEF PipeInv, Loads, ForShell
    <2>2. shell # "done"
      BY <1>5, <2>1 DEF Loads
    <2>3. Quiet' => Piped'
      <3> SUFFICES ASSUME Quiet PROVE Piped'
        BY <1>2 DEF Quiet, Alone
      <3>1. PICK u : PipedBy(u)
        BY <2>1, PipedByIs DEF Loads
      <3>2. PipedBy(u)'
        BY <1>1, <1>2, <2>1, <3>1, MainPipes
      <3> QED
        BY <3>2 DEF PipedBy, Piped
    <2>4. ~disturbed => status' \in {"running", "success"}
      <3> SUFFICES ASSUME ~disturbed, status' \in {"failure", "killed"} PROVE FALSE
        BY <1>5
      <3>1. shell = "running"
        BY <1>1, <2>1, <2>2 DEF Loads, TypeOK
      <3>2. source # NULL /\ ~Makes(source)
        BY <1>6, <2>1, <3>1
      <3>3. Makes(text) /\ source \in texts
        BY <2>1, <3>2 DEF Loads
      <3> QED
        BY <1>7, <3>2, <3>3
    <2>5. /\ source' # NULL => source' \in texts
          /\ command = "stop" => source' = NULL
      BY <1>1, <1>5, <2>1, ForShellArgs DEF Loads, TypeOK
    <2> QED
      BY <1>2, <1>4, <1>5, <2>1, <2>2, <2>3, <2>4, <2>5 DEF Loads, Makes
  <1>10. /\ stage' = "test" => Tests'
         /\ stage' = "pipeline" => Loads'
         /\ stage' = "alone" => command' \in {"check", "compile"}
    BY <1>2, <1>8, <1>9 DEF PipeInv
  <1>11. ReloadWhole' /\ OneText' /\ StopOpens'
    BY <1>2, <1>4 DEF PipeInv, ReloadWhole, OneText, StopOpens, Idle, Alone, Makes
  <1> QED
    BY <1>1, <1>2, <1>3, <1>4, <1>10, <1>11 DEF PipeInv, Process, Alone

(* The shell executes what filtergen means to write, from its beginning.   *)
LEMMA ShellPipe ==
    ASSUME PipeInv, Execute \/ EndOfFile
    PROVE  PipeInv'
  <1>1. /\ TypeOK /\ Parsed /\ Filed /\ FileWhole /\ IsKernel(before.kernel)
        /\ shell = "running" /\ stage = "pipeline" /\ Loads /\ ForShell(args)
    BY DEF PipeInv, Loads, ForShell, Execute, EndOfFile
  <1>2. UNCHANGED <<text, mainVars, file, command, stage, given, before, texts, disturbed, trouble, job>>
    BY DEF Execute, EndOfFile, adminVars
  <1>3. TypeOK' /\ (Quiet => Piped') /\ (shell' = "done" => status # "running" /\ pipe' = <<>>)
        /\ shell' \in {"running", "done"} /\ (kernel' = kernel \/ Quiet \/ ~Alone)
    <2>1. CASE Execute
      <3>1. Head(pipe) \in Command /\ Tail(pipe) \in Seq(Command)
        BY <1>1, <2>1, HeadTailProperties DEF Execute, TypeOK
      <3>2. IsKernel(kernel')
        BY <1>1, <2>1, <3>1, AfterIsKernel DEF Execute, TypeOK, Line
      <3>3. TypeOK'
        BY <1>1, <1>2, <2>1, <3>1, <3>2 DEF Execute, TypeOK, mainVars
      <3>4. Quiet => Piped'
        <4> SUFFICES ASSUME Quiet PROVE Piped'
          OBVIOUS
        <4>1. PICK u : PipedBy(u)
          BY <1>1, PipedByIs DEF Loads
        <4>2. \E v : PipedBy(v)'
          BY <1>1, <2>1, <4>1, ExecutePipes
        <4> QED
          BY <4>2 DEF PipedBy, Piped
      <3> QED
        BY <1>1, <2>1, <3>3, <3>4 DEF Execute, Quiet
    <2>2. CASE EndOfFile
      <3>1. UNCHANGED <<kernel, pipe>> /\ shell' = "done" /\ pipe = <<>> /\ status # "running"
        BY <2>2 DEF EndOfFile
      <3>2. TypeOK'
        BY <1>1, <1>2, <3>1 DEF TypeOK, mainVars
      <3>3. Piped' <=> Piped
        BY <1>2, <3>1 DEF Piped, Meant, SoFar, mainVars
      <3> QED
        BY <1>1, <3>1, <3>2, <3>3 DEF Loads
    <2> QED
      BY <2>1, <2>2
  <1>4. Loads' /\ (Quiet' <=> Quiet) /\ (Alone' <=> Alone)
    BY <1>1, <1>2, <1>3 DEF Loads, Quiet, Alone, Makes, mainVars
  <1>5. OneText'
    <2> SUFFICES ASSUME command = "reload", Alone
                 PROVE  OfOneText(kernel', before.kernel, texts)
      BY <1>2, <1>4, OneTextNext
    <2>1. Piped'
      BY <1>3 DEF Quiet
    <2>2. PICK u : u \in Beginnings(Meant') /\ kernel' = Effect(before.kernel, u)
      BY <1>2, <2>1 DEF Piped
    <2>3. args = Plain /\ source \in texts \union {NULL} /\ texts \in SUBSET Text /\ texts # {}
      BY <1>1 DEF Loads, LoadArgs, TypeOK
    <2>4. Meant' = IF source = NULL THEN <<>> ELSE Script(Plain, source)
      BY <1>2, <2>3, ForShellArgs DEF Meant, mainVars, LoadArgs
    <2> QED
      BY <1>1, <2>2, <2>3, <2>4, LoadedOneText
  <1>6. Parsed' /\ Filed' /\ FileWhole'
    BY <1>1, <1>2 DEF Parsed, Filed, FileWhole, SoFar, WrongUsage, mainVars
  <1>7. ReloadWhole' /\ StopOpens'
    BY <1>1, <1>2 DEF ReloadWhole, StopOpens, Idle
  <1> QED
    BY <1>1, <1>2, <1>3, <1>4, <1>5, <1>6, <1>7 DEF PipeInv, mainVars


(* fgadm goes on when a process has come to its end, with what the exit    *)
(* status tells.                                                           *)
LEMMA TestPassedPipe ==
    ASSUME PipeInv, AdminInv, TestPassed
    PROVE  PipeInv'
  <1>1. /\ Process /\ TypeOK /\ IsKernel(kernel) /\ IsKernel(before.kernel)
        /\ stage = "test" /\ Tests
        /\ text \in Text /\ texts \subseteq Text /\ text \in texts
        /\ (~disturbed => job = <<>> /\ texts = {text})
        /\ (job # <<>> => ~Alone) /\ OneText
    BY DEF PipeInv, Process, TypeOK, TestPassed, Ended
  <1>2. source \in texts /\ Makes(source)
    BY <1>1 DEF AdminInv, StatusTells, TestPassed
  <1>3. /\ Start(LoadArgs) /\ stage' = "pipeline"
        /\ UNCHANGED <<command, given, before, texts, kernel, disturbed, trouble, job>>
    BY DEF TestPassed, Proceed
  <1>4. ForShell(LoadArgs) /\ LoadArgs \in CommandLine /\ LoadArgs.to = "pipe"
    BY ForShellArgs
  <1>5. /\ text' = text /\ args' = LoadArgs /\ source' = NULL /\ status' = "running"
        /\ shell' = "running"
    BY <1>3, <1>4 DEF Start
  <1>6. Process'
    BY <1>1, <1>3, <1>4, StartProcess DEF TypeOK
  <1>7. Quiet' => Piped'
    <2> SUFFICES ASSUME Quiet PROVE Piped'
      BY <1>3 DEF Quiet, Alone
    <2>1. before'.kernel = kernel
      BY <1>1, <1>3 DEF Tests
    <2> QED
      BY <1>1, <1>3, <1>4, <2>1, StartPipes
  <1>8. ~disturbed => Makes(text)
    BY <1>1, <1>2
  <1>9. Loads'
    BY <1>1, <1>3, <1>5, <1>7, <1>8 DEF Loads, Tests, Makes
  <1>10. ReloadWhole' /\ StopOpens' /\ OneText'
    BY <1>1, <1>3 DEF ReloadWhole, StopOpens, Idle, OneText, Alone
  <1> QED
    BY <1>1, <1>3, <1>5, <1>6, <1>9, <1>10 DEF PipeInv, Process, Alone

(* A test that fails undisturbed has found that the text makes no rules.   *)
LEMMA TestFailedPipe ==
    ASSUME PipeInv, TestFailed
    PROVE  PipeInv'
  <1>1. /\ TypeOK /\ Parsed /\ Filed /\ FileWhole /\ Tests /\ stage = "test"
        /\ status \in {"failure", "killed"}
    BY DEF PipeInv, TestFailed, Ended, TypeOK
  <1>2. stage' = "idle" /\ UNCHANGED driverVars
        /\ UNCHANGED <<command, given, before, texts, kernel, disturbed, trouble, job>>
    BY DEF TestFailed, Proceed
  <1>3. TypeOK'
    BY <1>1, <1>2 DEF TypeOK, driverVars, mainVars
  <1>4. Parsed' /\ Filed' /\ FileWhole'
    BY <1>1, <1>2 DEF Parsed, Filed, FileWhole, SoFar, WrongUsage, driverVars, mainVars
  <1>5. ReloadWhole' /\ StopOpens' /\ OneText'
    BY <1>1, <1>2 DEF ReloadWhole, StopOpens, Idle, Tests, Quiet, PipeInv, OneText, Alone,
                      driverVars, Makes
  <1> QED
    BY <1>1, <1>2, <1>3, <1>4, <1>5 DEF PipeInv, Alone, driverVars, mainVars

(* A command that has come to its end without trouble has executed the     *)
(* whole script.                                                           *)
LEMMA CommandEndsPipe ==
    ASSUME PipeInv, CommandEnds
    PROVE  PipeInv'
  <1>1. /\ TypeOK /\ Parsed /\ Filed /\ FileWhole /\ Process /\ IsKernel(before.kernel)
        /\ status # "running"
    BY DEF PipeInv, Process, CommandEnds, Ended
  <1>2. stage' = "idle" /\ UNCHANGED driverVars
        /\ UNCHANGED <<command, given, before, texts, kernel, disturbed, trouble, job>>
    BY DEF CommandEnds, Proceed
  <1>3. TypeOK'
    BY <1>1, <1>2 DEF TypeOK, driverVars, mainVars
  <1>4. Parsed' /\ Filed' /\ FileWhole'
    BY <1>1, <1>2 DEF Parsed, Filed, FileWhole, SoFar, WrongUsage, driverVars, mainVars
  <1>5. OneText'
    BY <1>2 DEF OneText, Alone, PipeInv
  <1>6. shell # "running"
    BY DEF PipeInv, CommandEnds, Ended
  <1>7. ASSUME command \in {"reload", "stop"}, ~disturbed
        PROVE  /\ Loads /\ texts = {text} /\ status = "success"
               /\ kernel = Effect(before.kernel, Meant)
    <2>1. stage = "pipeline" /\ Loads /\ texts = {text}
      BY <1>7 DEF PipeInv, CommandEnds, Ended
    <2>2. status = "success" /\ shell = "done" /\ Piped
      BY <1>1, <1>6, <1>7, <2>1 DEF Loads, TypeOK, Quiet
    <2> QED
      BY <1>1, <2>1, <2>2, PipedAll
  <1>8. ReloadWhole'
    <2> SUFFICES ASSUME command = "reload", ~disturbed
                 PROVE  Makes(text) /\ kernel = Effect(before.kernel, Script(Plain, text))
      BY <1>2 DEF ReloadWhole, Idle, Makes, driverVars
    <2>1. args = Plain /\ Plain.flush = NULL /\ ~Plain.info
      BY <1>7, ForShellArgs DEF Loads, LoadArgs
    <2>2. source = text
      BY <1>1, <1>7, <2>1 DEF Loads, Parsed
    <2>3. source # NULL
      BY <1>1, <1>7, <2>1 DEF Parsed
    <2>4. Meant = Script(Plain, text)
      BY <2>1, <2>2, <2>3 DEF Meant
    <2> QED
      BY <1>7, <2>4 DEF Loads
  <1>9. StopOpens'
    <2> SUFFICES ASSUME command = "stop", ~disturbed PROVE IsOpen(kernel)
      BY <1>2 DEF StopOpens, Idle, IsOpen
    <2>1. args = StopArgs /\ StopArgs.flush # NULL
      BY <1>7, ForShellArgs DEF Loads
    <2>2. StopArgs.flush = "ACCEPT"
      BY <2>1, ForShellArgs
    <2>3. Meant = FlushCommands("ACCEPT", "AF_INET")
      BY <2>1, <2>2 DEF Meant, Script, FlushScript
    <2> QED
      BY <1>1, <1>7, <2>3, FlushOpens
  <1> QED
    BY <1>1, <1>2, <1>3, <1>4, <1>5, <1>6, <1>8, <1>9 DEF PipeInv, Alone, driverVars, mainVars

(* Trouble: what is claimed of undisturbed commands is claimed no longer.  *)
(* A text that is edited is one more that may be loaded.                   *)
LEMMA EditPipe ==
    ASSUME PipeInv, Edit
    PROVE  PipeInv'
  <1>1. /\ TypeOK /\ Parsed /\ Filed /\ FileWhole
        /\ texts \in SUBSET Text
    BY DEF PipeInv, TypeOK
  <1>2. /\ disturbed' = TRUE /\ text' \in Text /\ texts' = texts \union {text'}
        /\ trouble' = trouble \union {"edit"}
        /\ UNCHANGED <<mainVars, file, pipe, shell, command, stage, given, before, kernel, job>>
    BY DEF Edit, Strikes
  <1>3. (Alone' <=> Alone) /\ (Quiet' => Quiet)
    BY <1>2 DEF Alone, Quiet
  <1>4. TypeOK'
    BY <1>1, <1>2 DEF TypeOK, mainVars
  <1>5. Parsed' /\ Filed' /\ FileWhole'
    BY <1>1, <1>2 DEF Parsed, Filed, FileWhole, SoFar, WrongUsage, mainVars
  <1>6. Piped' <=> Piped
    BY <1>2 DEF Piped, Meant, SoFar, mainVars
  <1>7. /\ stage' = "test" => Tests'
        /\ stage' = "pipeline" => Loads'
    BY <1>2, <1>3, <1>6 DEF PipeInv, Tests, Loads, mainVars
  <1>8. ReloadWhole' /\ StopOpens'
    BY <1>2 DEF ReloadWhole, StopOpens
  <1>9. OneText'
    BY <1>1, <1>2, <1>3, OneTextIs, OneTextNext DEF PipeInv, OfOneText
  <1> QED
    BY <1>2, <1>3, <1>4, <1>5, <1>7, <1>8, <1>9 DEF PipeInv, mainVars

(* Killed: what has been written or executed is still a beginning.         *)
LEMMA KillPipe ==
    ASSUME PipeInv, FiltergenKilled \/ ShellKilled
    PROVE  PipeInv'
  <1>1. /\ Process /\ TypeOK /\ Parsed /\ Filed /\ FileWhole /\ IsKernel(before.kernel)
    BY DEF PipeInv, Process
  <1>2. /\ disturbed' = TRUE /\ (Alone' <=> Alone)
        /\ UNCHANGED <<text, args, source, command, stage, given, before, texts, kernel, job>>
    BY DEF FiltergenKilled, ShellKilled, Strikes, Alone, Killed, Quit, adminVars, mainVars
  <1>3. Quiet' => Quiet
    BY <1>2 DEF Quiet
  <1>4. /\ Process' /\ (shell' = "running" => shell = "running")
        /\ (stage = "pipeline" =>
              /\ Quiet => Piped'
              /\ shell' = "done" => status' # "running" /\ pipe' = <<>>)
    <2>1. CASE FiltergenKilled
      <3>1. Killed /\ UNCHANGED <<command, stage, before, texts, kernel, job>>
        BY <2>1 DEF FiltergenKilled, adminVars
      <3>2. Process'
        BY <1>1, <3>1, KilledProcess
      <3>3. status = "running" /\ shell' = shell
        BY <3>1 DEF Killed
      <3>4. ASSUME stage = "pipeline" PROVE shell # "done" /\ (Quiet => Piped')
        <4>1. Loads /\ ForShell(args)
          BY <3>4 DEF PipeInv, Loads, ForShell
        <4>2. Quiet => Piped'
          <5> SUFFICES ASSUME Quiet PROVE Piped'
            OBVIOUS
          <5>1. PICK u : PipedBy(u)
            BY <4>1, PipedByIs DEF Loads
          <5>2. PipedBy(u)'
            BY <1>1, <3>1, <4>1, <5>1, KilledPipes
          <5> QED
            BY <5>2 DEF PipedBy, Piped
        <4> QED
          BY <3>3, <4>1, <4>2 DEF Loads
      <3> QED
        BY <3>2, <3>3, <3>4
    <2>2. CASE ShellKilled
      <3>1. UNCHANGED <<text, mainVars, file, pipe, adminVars, kernel, job>> /\ shell' = "killed"
        BY <2>2 DEF ShellKilled
      <3>2. TypeOK'
        BY <1>1, <3>1 DEF TypeOK, mainVars, adminVars
      <3>3. Process'
        BY <1>1, <3>1, <3>2 DEF Process, Parsed, Filed, FileWhole, SoFar, WrongUsage, mainVars, adminVars
      <3>4. Piped' <=> Piped
        BY <3>1 DEF Piped, Meant, SoFar, mainVars, adminVars
      <3> QED
        BY <3>1, <3>3, <3>4 DEF PipeInv, Loads
    <2> QED
      BY <2>1, <2>2
  <1>5. /\ stage' = "test" => Tests'
        /\ stage' = "pipeline" => Loads'
    BY <1>2, <1>3, <1>4 DEF PipeInv, Tests, Loads
  <1>6. ReloadWhole' /\ StopOpens' /\ OneText'
    BY <1>2 DEF ReloadWhole, StopOpens, OneText, PipeInv
  <1> QED
    BY <1>1, <1>2, <1>4, <1>5, <1>6 DEF PipeInv, Process

(* A job: nothing is claimed any more of the rules in force.               *)
LEMMA JobPipe ==
    ASSUME PipeInv, JobBegins \/ JobExecutes
    PROVE  PipeInv'
  <1>1. /\ TypeOK /\ Parsed /\ Filed /\ FileWhole /\ IsKernel(before.kernel)
    BY DEF PipeInv
  <1>2. UNCHANGED <<driverVars, adminVars>>
    BY DEF JobBegins, JobExecutes
  <1>3. disturbed' /\ ~Alone' /\ IsKernel(kernel') /\ job' \in Seq(Command)
    <2>1. CASE JobBegins
      <3>1. StopArgs.flush = "ACCEPT"
        BY ForShellArgs
      <3>2. job' = FlushCommands("ACCEPT", "AF_INET")
        BY <2>1, <3>1 DEF JobBegins, FlushScript
      <3>3. job' \in Seq(Command)
        BY <3>2, FlushTyped DEF Verdict
      <3> QED
        BY <1>1, <2>1, <3>3 DEF JobBegins, Strikes, Alone, TypeOK
    <2>2. CASE JobExecutes
      <3>1. job # <<>> /\ job \in Seq(Command) /\ IsKernel(kernel)
        BY <1>1, <2>2 DEF JobExecutes, TypeOK
      <3>2. Head(job) \in Command /\ Tail(job) \in Seq(Command)
        BY <3>1, HeadTailProperties
      <3>3. IsKernel(kernel')
        BY <2>2, <3>1, <3>2, AfterIsKernel DEF JobExecutes, Line
      <3> QED
        BY <2>2, <3>1, <3>2, <3>3 DEF JobExecutes, PipeInv, Alone
    <2> QED
      BY <2>1, <2>2
  <1>4. TypeOK'
    BY <1>1, <1>2, <1>3 DEF TypeOK, driverVars, mainVars, adminVars
  <1>5. Parsed' /\ Filed' /\ FileWhole'
    BY <1>1, <1>2 DEF Parsed, Filed, FileWhole, SoFar, WrongUsage, driverVars, mainVars, adminVars
  <1>6. /\ stage' = "test" => Tests'
        /\ stage' = "pipeline" => Loads'
    BY <1>2, <1>3 DEF PipeInv, Tests, Loads, Quiet, driverVars, mainVars, adminVars
  <1>7. ReloadWhole' /\ StopOpens' /\ OneText'
    BY <1>3 DEF ReloadWhole, StopOpens, OneText
  <1> QED
    BY <1>1, <1>2, <1>3, <1>4, <1>5, <1>6, <1>7 DEF PipeInv, driverVars, mainVars, adminVars


(* Every step, of whichever process.                                       *)
LEMMA StepPipe ==
    ASSUME PipeInv, AdminInv, [Next]_vars
    PROVE  PipeInv'
  <1>1. TestArgs \in CommandLine /\ TestArgs.to = "null"
    BY DEF TestArgs, Plain, CommandLine, Target
  <1>2. StopArgs \in CommandLine /\ StopArgs.to = "pipe"
    BY ForShellArgs
  <1>3. CASE Check
    BY <1>1, <1>3, GivePipe DEF Check
  <1>4. CASE Compile
    <2>1. PICK a \in ByHand : Give("compile", "alone", a)
      BY <1>4 DEF Compile
    <2>2. a \in CommandLine /\ a.to = "file"
      BY FgadmAssumption
    <2> QED
      BY <2>1, <2>2, GivePipe
  <1>5. CASE Reload
    BY <1>1, <1>5, GivePipe DEF Reload
  <1>6. CASE Stop
    BY <1>2, <1>6, GivePipe DEF Stop
  <1>7. CASE Fgadm
    BY <1>7, TestPassedPipe, TestFailedPipe, CommandEndsPipe DEF Fgadm
  <1>8. CASE Filtergen
    BY <1>8, FiltergenPipe
  <1>9. CASE Shell
    BY <1>9, ShellPipe DEF Shell
  <1>10. CASE Edit
    BY <1>10, EditPipe
  <1>11. CASE FiltergenKilled \/ ShellKilled
    BY <1>11, KillPipe
  <1>12. CASE JobBegins \/ JobExecutes
    BY <1>12, JobPipe
  <1>13. CASE UNCHANGED vars
    <2>1. UNCHANGED <<text, args, pc, source, rest, l, status, said, file, pipe, shell, command,
                      stage, given, before, texts, kernel, job, trouble, disturbed>>
      BY <1>13 DEF vars, driverVars, mainVars, adminVars
    <2>2. TypeOK' <=> TypeOK
      BY <2>1 DEF TypeOK
    <2>3. (Parsed' <=> Parsed) /\ (Filed' <=> Filed) /\ (FileWhole' <=> FileWhole)
      BY <2>1 DEF Parsed, Filed, FileWhole, SoFar, WrongUsage
    <2>4. Piped' <=> Piped
      BY <2>1 DEF Piped, Meant, SoFar
    <2>5. (Tests' <=> Tests) /\ (Loads' <=> Loads)
      BY <2>1, <2>4 DEF Tests, Loads, Quiet, Alone, Makes
    <2>6. (ReloadWhole' <=> ReloadWhole) /\ (OneText' <=> OneText) /\ (StopOpens' <=> StopOpens)
      BY <2>1 DEF ReloadWhole, OneText, StopOpens, Idle, IsOpen, Alone, Makes
    <2> QED
      BY <2>1, <2>2, <2>3, <2>5, <2>6 DEF PipeInv, Alone
  <1> QED
    BY <1>3, <1>4, <1>5, <1>6, <1>7, <1>8, <1>9, <1>10, <1>11, <1>12, <1>13 DEF Next

(* PipeInv: what a shell has executed of a script, what is in the pipe and *)
(* what filtergen has still to write are one after the other the script    *)
(* of one text, and an output file holds what has been written, through    *)
(* any number of commands, edits, kills and jobs (fgadm.in, filtergen.c).  *)
THEOREM PipeInvariance == Spec => []PipeInv
  <1>1. PipeInv /\ AdminInv /\ [Next]_vars => PipeInv'
    BY StepPipe
  <1> QED
    BY <1>1, InitPipe, AdminInvariance, PTL DEF Spec

(* FileWhole: filtergen -o leaves the whole script of one text if it exits *)
(* 0, and if it exits 1 no part of a script, whatever is edited meanwhile  *)
(* and whatever the file has held (filtergen.c:219-284).                   *)
THEOREM FilesWhole == Spec => []FileWhole
  <1>1. PipeInv => FileWhole
    BY DEF PipeInv
  <1> QED
    BY <1>1, PipeInvariance, PTL

(* ReloadWhole: a reload that nothing disturbs replaces the rules in force *)
(* by all of the script of the text, or leaves them as they were if the    *)
(* text makes no sense (fgadm.in:30-41).                                   *)
THEOREM ReloadsWhole == Spec => []ReloadWhole
  <1>1. PipeInv => ReloadWhole
    BY DEF PipeInv
  <1> QED
    BY <1>1, PipeInvariance, PTL

(* OneText: whatever is edited or killed during a reload, and whenever,    *)
(* what is loaded is the beginning of the script of one text that has been *)
(* in the rules file, never a mixture of two (fgadm.in:30-41).             *)
THEOREM LoadsOneText == Spec => []OneText
  <1>1. PipeInv => OneText
    BY DEF PipeInv
  <1> QED
    BY <1>1, PipeInvariance, PTL

(* StopOpens: a stop that nothing disturbs leaves every chain empty and    *)
(* every policy at ACCEPT, whatever rules and chains were in force before  *)
(* (fgadm.in:70-77, flush_iptables).                                       *)
THEOREM StopsOpen == Spec => []StopOpens
  <1>1. PipeInv => StopOpens
    BY DEF PipeInv
  <1> QED
    BY <1>1, PipeInvariance, PTL


-----------------------------------------------------------------------------
(***************************************************************************)
(* A script that sets the policies first                                   *)
(***************************************************************************)
(* Commands that set no policy.                                            *)
Tame == { c \in Command : c.op # "-P" }

Shuts(s) == \E r \in Seq(Tame) : s = SetPolicy("DROP") \o r

ShutAfter(k, e) == e.rules = k.rules \/ \A b \in Builtin : e.policy[b] = "DROP"

(* They leave the policies as they are, however many of them are executed. *)
LEMMA TamePolicies ==
    ASSUME NEW k, IsKernel(k), NEW r \in Seq(Tame)
    PROVE  \A i \in 0..Len(r) : Stage(k, r, i).policy = k.policy
  <1> DEFINE P == { i \in Nat : i <= Len(r) => Stage(k, r, i).policy = k.policy }
  <1>1. Len(r) \in Nat /\ r \in Seq(Line) /\ \A i \in 1..Len(r) : r[i] \in Tame
    <2>1. Tame \subseteq Line
      BY DEF Tame, Line
    <2> QED
      BY <2>1, SeqMonotonic
  <1>2. /\ Stage(k, r, 0) = k
        /\ \A i \in 0..Len(r) : IsKernel(Stage(k, r, i))
        /\ \A i \in 1..Len(r) : Stage(k, r, i) = After(Stage(k, r, i - 1), r[i])
    BY <1>1, StageSteps
  <1>3. ASSUME NEW x, IsKernel(x), NEW c \in Tame
        PROVE  After(x, c).policy = x.policy
    <2>1. x = [policy |-> x.policy, rules |-> x.rules] /\ c.op # "-P"
      BY <1>3 DEF IsKernel, Tame
    <2>2. \A f : [x EXCEPT !.rules = f].policy = x.policy
      BY <2>1
    <2>3. c.op \in {"-F", "-X", "-N", "-A", "-I"}
      BY DEF Tame, Command
    <2>4. c.op \in {"-A", "-I"} => Obeyed(x, c).policy = x.policy
      BY <2>1, <2>2 DEF Obeyed
    <2>5. c.op \in {"-F", "-X", "-N"} => Obeyed(x, c).policy = x.policy
      BY <2>1, <2>2 DEF Obeyed
    <2> QED
      BY <2>3, <2>4, <2>5 DEF After
  <1>4. 0 \in P
    BY <1>2
  <1>5. ASSUME NEW i \in P
        PROVE  i + 1 \in P
    <2> SUFFICES ASSUME i + 1 <= Len(r)
                 PROVE  Stage(k, r, i + 1).policy = k.policy
      BY <1>5
    <2>1. i + 1 \in 1..Len(r) /\ (i + 1) - 1 = i /\ i \in 0..Len(r)
      BY <1>1, <1>5
    <2>2. Stage(k, r, i + 1) = After(Stage(k, r, i), r[i + 1])
      BY <1>2, <2>1
    <2> QED
      BY <1>1, <1>2, <1>3, <1>5, <2>1, <2>2
  <1>6. P \in SUBSET Nat
    OBVIOUS
  <1> HIDE DEF P
  <1>7. P = Nat
    BY <1>4, <1>5, <1>6, Induction
  <1> QED
    BY <1>1, <1>7 DEF P

(* While the policies are set the rules stay.                              *)
LEMMA PoliciesKeepRules ==
    ASSUME NEW k, IsKernel(k)
    PROVE  \A i \in 0..3 : Stage(k, SetPolicy("DROP"), i).rules = k.rules
  <1> DEFINE s == SetPolicy("DROP")
  <1>1. s \in Seq(Line) /\ Len(s) = 3
    <2>1. s \in Seq(Line)
      BY LeadsPolicies DEF Leads
    <2> QED
      BY <2>1 DEF SetPolicy
  <1>2. \A i \in 1..3 : s[i].op = "-P"
    BY DEF SetPolicy
  <1> HIDE DEF s
  <1>3. /\ Stage(k, s, 0) = k
        /\ \A i \in 0..3 : IsKernel(Stage(k, s, i))
        /\ \A i \in 1..3 : Stage(k, s, i) = After(Stage(k, s, i - 1), s[i])
    <2>1. s \in Seq(Line)
      BY <1>1
    <2>2. Stage(k, s, 0) = k
      BY <2>1, StageSteps
    <2>3. \A i \in 0..Len(s) : IsKernel(Stage(k, s, i))
      BY <2>1, StageSteps
    <2>4. \A i \in 1..Len(s) : Stage(k, s, i) = After(Stage(k, s, i - 1), s[i])
      BY <2>1, StageSteps
    <2> QED
      BY <1>1, <2>2, <2>3, <2>4
  <1>4. ASSUME NEW x, IsKernel(x), NEW c, c.op = "-P"
        PROVE  After(x, c).rules = x.rules
    <2>1. x = [policy |-> x.policy, rules |-> x.rules]
      BY <1>4 DEF IsKernel
    <2>2. Obeyed(x, c).rules = x.rules
      BY <1>4, <2>1 DEF Obeyed
    <2> QED
      BY <2>2 DEF After
  <1> DEFINE S(i) == Stage(k, s, i)
  <1>5. /\ S(0) = k /\ IsKernel(S(0)) /\ IsKernel(S(1)) /\ IsKernel(S(2))
        /\ S(1) = After(S(0), s[1]) /\ S(2) = After(S(1), s[2]) /\ S(3) = After(S(2), s[3])
    BY <1>3
  <1>6. s[1].op = "-P" /\ s[2].op = "-P" /\ s[3].op = "-P"
    BY <1>2
  <1> HIDE DEF S
  <1>7. S(1).rules = S(0).rules /\ S(2).rules = S(1).rules /\ S(3).rules = S(2).rules
    BY <1>4, <1>5, <1>6
  <1>8. \A i \in 0..3 : S(i).rules = k.rules
    BY <1>5, <1>7
  <1> QED
    BY <1>8 DEF S, s

(* Wherever such a script is cut short: the old rules, or DROP.            *)
LEMMA BeginningShuts ==
    ASSUME NEW k, IsKernel(k), NEW s, Shuts(s), NEW u \in Beginnings(s)
    PROVE  ShutAfter(k, Effect(k, u))
  <1> DEFINE p == SetPolicy("DROP")
             e == Effect(k, p)
  <1>1. PICK r \in Seq(Tame) : s = p \o r
    BY DEF Shuts
  <1>2. p \in Seq(Line) /\ Len(p) = 3 /\ r \in Seq(Line) /\ Len(r) \in Nat
    <2>1. p \in Seq(Line)
      BY LeadsPolicies DEF Leads
    <2>2. Tame \subseteq Line
      BY DEF Tame, Line
    <2> QED
      BY <2>1, <2>2, SeqMonotonic DEF SetPolicy
  <1>3. IsKernel(e) /\ \A b \in Builtin : e.policy[b] = "DROP"
    BY PoliciesSet
  <1>4. \A i \in 0..3 : Stage(k, p, i).rules = k.rules
    BY PoliciesKeepRules
  <1> HIDE DEF p, e
  <1>5. /\ s \in Seq(Line) /\ Len(s) = 3 + Len(r)
        /\ \A i \in 0..3 : Stage(k, s, i) = Stage(k, p, i)
        /\ \A i \in 0..Len(r) : Stage(k, s, 3 + i) = Stage(e, r, i)
    <2>1. Len(s) = Len(p) + Len(r)
      BY <1>1, <1>2, ConcatProperties
    <2> QED
      BY <1>1, <1>2, <2>1, StageBeyond DEF e
  <1>6. PICK n \in 0..Len(s) : u = SubSeq(s, 1, n)
    BY DEF Beginnings
  <1>7. /\ u \in Seq(Line) /\ Len(u) = n /\ \A i \in 1..n : u[i] = s[i]
    BY <1>5, <1>6
  <1>8. Effect(k, u) = Stage(k, s, n)
    <2>1. Effect(k, u) = Stage(k, u, n)
      BY <1>7, StageSteps
    <2>2. n \in Nat /\ n <= Len(s) /\ n <= Len(u)
      BY <1>5, <1>7
    <2> QED
      BY <1>5, <1>7, <2>1, <2>2, StageOfPrefix
  <1>9. CASE n <= 3
    <2>1. n \in 0..3
      BY <1>5, <1>9
    <2> QED
      BY <1>4, <1>5, <1>8, <2>1 DEF ShutAfter
  <1>10. CASE ~(n <= 3)
    <2> DEFINE i == n - 3
    <2>1. i \in 0..Len(r) /\ n = 3 + i
      BY <1>2, <1>5, <1>10
    <2> HIDE DEF i
    <2>2. Effect(k, u) = Stage(e, r, i)
      BY <1>5, <1>8, <2>1
    <2>3. Stage(e, r, i).policy = e.policy
      BY <1>3, <2>1, TamePolicies
    <2> QED
      BY <1>3, <2>2, <2>3 DEF ShutAfter
  <1> QED
    BY <1>9, <1>10

(* What sets the policies is a script.                                     *)
LEMMA PolicyTyped ==
    ASSUME NEW v \in Verdict
    PROVE  SetPolicy(v) \in Seq(Command)
  <1> DEFINE p(i) == [op |-> "-P", chain |-> Base(Chains[i]), jump |-> Base(v)]
  <1>1. \A i \in 1..3 : p(i) \in Command
    BY DEF Command, Chains, Builtin, Base, Jump, Group
  <1> HIDE DEF p
  <1>2. [i \in 1..3 |-> p(i)] \in Seq(Command)
    BY <1>1
  <1> QED
    BY <1>2 DEF SetPolicy, p

(* Such a script may be continued.                                         *)
LEMMA ShutsOn ==
    ASSUME NEW s, Shuts(s), NEW t \in Seq(Tame)
    PROVE  Shuts(s \o t)
  <1> DEFINE p == SetPolicy("DROP")
  <1>1. PICK r \in Seq(Tame) : s = p \o r
    BY DEF Shuts
  <1>2. p \in Seq(Command) /\ Seq(Tame) \subseteq Seq(Command)
    <2>1. Tame \subseteq Command
      BY DEF Tame
    <2>2. p \in Seq(Command)
      BY PolicyTyped DEF Verdict
    <2> QED
      BY <2>1, <2>2, SeqMonotonic
  <1> HIDE DEF p
  <1>3. r \o t \in Seq(Tame)
    BY ConcatProperties
  <1>4. (p \o r) \o t = p \o (r \o t)
    BY <1>2, InAnyOrder
  <1> QED
    BY <1>1, <1>3, <1>4 DEF Shuts, p

(* The parts of a skeleton after the policies.                             *)
LEMMA TameParts ==
    /\ \A t \in {"filter", "nat"} : FlushTable(t) \in Seq(Tame)
    /\ <<>> \in Seq(Tame)
    /\ \A b, d \in FilterBase : << NewChain(Base(b)), NewChain(Base(d)) >> \in Seq(Tame)
    /\ \A op \in {"-A", "-I"}, b \in FilterBase, tests \in SUBSET Test, jump \in Jump :
          Put(op, Base(b), tests, jump) \in Seq(Tame)
  <1> DEFINE F(t) == [op |-> "-F", table |-> t]
             X(t) == [op |-> "-X", table |-> t]
             N(b) == NewChain(Base(b))
             R(op, b, tests, jump) == [op |-> op, chain |-> Base(b), rule |-> [tests |-> tests, jump |-> jump]]
  <1>1. \A t \in {"filter", "nat"} : F(t) \in Tame /\ X(t) \in Tame
    BY DEF Tame, Command
  <1>2. \A b \in FilterBase : Base(b) \in Chain
    BY DEF Base, Chain, Group
  <1>3. \A b \in FilterBase : N(b) \in Tame
    BY <1>2 DEF NewChain, Tame, Command
  <1>4. ASSUME NEW op \in {"-A", "-I"}, NEW b \in FilterBase, NEW tests \in SUBSET Test, NEW jump \in Jump
        PROVE  R(op, b, tests, jump) \in Tame
    BY <1>2 DEF Tame, Command, Rule
  <1> HIDE DEF F, X, N, R
  <1>5. \A t \in {"filter", "nat"} : <<F(t), X(t)>> \in Seq(Tame)
    BY <1>1
  <1>6. \A b, d \in FilterBase : <<N(b), N(d)>> \in Seq(Tame)
    BY <1>3
  <1>7. ASSUME NEW op \in {"-A", "-I"}, NEW b \in FilterBase, NEW tests \in SUBSET Test, NEW jump \in Jump
        PROVE  Put(op, Base(b), tests, jump) \in Seq(Tame)
    <2>1. R(op, b, tests, jump) \in Tame
      BY <1>4
    <2>2. << R(op, b, tests, jump) >> \in Seq(Tame)
      BY <2>1
    <2> QED
      BY <2>2 DEF Put, R
  <1> QED
    BY <1>5, <1>6, <1>7, EmptySeq DEF FlushTable, F, X, N


(* The skeleton sets the policies first.                                   *)
LEMMA SkeletonShuts ==
    ASSUME NEW f
    PROVE  Shuts(Skeleton(f))
  <1> DEFINE p == SetPolicy("DROP")
             ff == FlushTable("filter")
             fn == If(f = "AF_INET", FlushTable("nat"))
             n == << NewChain(Base("FORW_OUT")), NewChain(Base("INVALID")) >>
             a == Put("-A", Base("INVALID"), {}, Base("DROP"))
             i(b) == Put("-I", Base(b), InvalidTests, Base("INVALID"))
             i1 == i("INPUT")
             i2 == i("OUTPUT")
             i3 == i("FORWARD")
  <1>1. p \in Seq(Command)
    BY PolicyTyped DEF Verdict
  <1>2. ff \in Seq(Tame) /\ fn \in Seq(Tame)
    BY TameParts DEF If
  <1>3. n \in Seq(Tame)
    BY TameParts DEF FilterBase
  <1>4. Base("INVALID") \in Jump /\ Base("DROP") \in Jump
    BY DEF Base, Jump, Group, Verdict, FilterBase
  <1>5. InvalidTests \in SUBSET Test
    BY DEF InvalidTests, Only, Test, Flag, State
  <1>6. a \in Seq(Tame)
    BY <1>4, TameParts DEF FilterBase
  <1>7. \A b \in {"INPUT", "OUTPUT", "FORWARD"} : i(b) \in Seq(Tame)
    <2>1. \A b \in {"INPUT", "OUTPUT", "FORWARD"} : b \in FilterBase
      BY DEF FilterBase, Builtin
    <2> HIDE DEF i
    <2>2. \A b \in FilterBase : i(b) \in Seq(Tame)
      BY <1>4, <1>5, TameParts DEF i
    <2> QED
      BY <2>1, <2>2
  <1>8. i1 \in Seq(Tame) /\ i2 \in Seq(Tame) /\ i3 \in Seq(Tame)
    BY <1>7
  <1>9. Skeleton(f) = ((((((p \o ff) \o fn) \o n) \o a) \o i1) \o i2) \o i3
    BY DEF Skeleton, FlushCommands
  <1>10. Shuts(p)
    <2>1. <<>> \in Seq(Tame) /\ p \o <<>> = p
      BY <1>1, EmptySeq, ConcatEmptySeq
    <2> QED
      BY <2>1 DEF Shuts
  <1> HIDE DEF p, ff, fn, n, a, i, i1, i2, i3
  <1> DEFINE q1 == p \o ff
             q2 == q1 \o fn
             q3 == q2 \o n
             q4 == q3 \o a
             q5 == q4 \o i1
             q6 == q5 \o i2
             q7 == q6 \o i3
  <1>11. Skeleton(f) = q7
    BY <1>9
  <1>12. Shuts(q1)
    BY <1>2, <1>10, ShutsOn
  <1> HIDE DEF q1
  <1>13. Shuts(q2)
    BY <1>2, <1>12, ShutsOn
  <1> HIDE DEF q2
  <1>14. Shuts(q3)
    BY <1>3, <1>13, ShutsOn
  <1> HIDE DEF q3
  <1>15. Shuts(q4)
    BY <1>6, <1>14, ShutsOn
  <1> HIDE DEF q4
  <1>16. Shuts(q5)
    BY <1>8, <1>15, ShutsOn
  <1> HIDE DEF q5
  <1>17. Shuts(q6)
    BY <1>8, <1>16, ShutsOn
  <1> HIDE DEF q6
  <1>18. Shuts(q7)
    BY <1>8, <1>17, ShutsOn
  <1> HIDE DEF q7
  <1> QED
    BY <1>11, <1>18

(* So does every script that a reload pipes into the shell.                *)
LEMMA ScriptShuts ==
    ASSUME NEW t \in Text
    PROVE  Shuts(Script(Plain, t))
  <1> DEFINE c == Compiled[t].chunks
             N == Len(c)
             p == Printed(Plain, t)
             P == { i \in Nat : i <= N => Shuts(p[i]) }
  <1>1. /\ N \in Nat
        /\ p[0] = Skeleton(FamilyOf("iptables"))
        /\ \A i \in 1..N : p[i] = p[i - 1] \o c[i]
    <2>1. Plain.compile = FALSE /\ Plain.target = "iptables"
      BY DEF Plain
    <2> QED
      BY <2>1, PrintedSteps DEF Prologue
  <1>2. \A i \in 1..N : c[i] \in Seq(Tame)
    <2> SUFFICES ASSUME NEW i \in 1..N
                 PROVE  c[i] \in Seq(Tame)
      OBVIOUS
    <2> DEFINE s == c[i]
    <2>1. s \in Seq(Command)
      BY PrintedSteps
    <2>2. \A j \in 1..Len(s) : s[j].op \in {"-N", "-A", "-I"}
      BY CallbackAssumption
    <2> HIDE DEF s
    <2>3. \A j \in 1..Len(s) : s[j] \in Tame
      BY <2>1, <2>2 DEF Tame
    <2>4. s \in Seq(Tame)
      BY <2>1, <2>3
    <2> QED
      BY <2>4 DEF s
  <1>3. Script(Plain, t) = p[N]
    BY DEF Script, Plain
  <1> HIDE DEF c, N, p
  <1>4. 0 \in P
    BY <1>1, SkeletonShuts
  <1>5. ASSUME NEW i \in P
        PROVE  i + 1 \in P
    <2> SUFFICES ASSUME i + 1 <= N
                 PROVE  Shuts(p[i + 1])
      BY <1>5
    <2> DEFINE u == p[i]
               v == c[i + 1]
    <2>1. i + 1 \in 1..N /\ (i + 1) - 1 = i /\ Shuts(u)
      BY <1>1, <1>5
    <2>2. p[i + 1] = u \o v /\ v \in Seq(Tame)
      BY <1>1, <1>2, <2>1
    <2> HIDE DEF u, v
    <2> QED
      BY <2>1, <2>2, ShutsOn
  <1>6. P \in SUBSET Nat
    OBVIOUS
  <1> HIDE DEF P
  <1>7. P = Nat
    BY <1>4, <1>5, <1>6, Induction
  <1> QED
    BY <1>1, <1>3, <1>7 DEF P

(* ReloadNeverOpen: at no moment of a reload, whatever is edited or killed *)
(* and whenever, are the old rules gone and the policies not DROP          *)
(* (fgadm.in:30-41; fg-iptables.c:436-440 sets the policies before it      *)
(* flushes, and the callbacks set none).                                   *)
THEOREM ReloadsNeverOpen == Spec => []ReloadNeverOpen
  <1>1. ASSUME PipeInv
        PROVE  ReloadNeverOpen
    <2> SUFFICES ASSUME command = "reload", Alone
                 PROVE  ShutAfter(before.kernel, kernel)
      BY DEF ReloadNeverOpen, ShutAfter
    <2>1. /\ texts \subseteq Text /\ IsKernel(before.kernel) /\ OneText
      BY <1>1 DEF PipeInv, TypeOK
    <2>2. PICK t \in texts : \E n \in 0..Len(Script(Plain, t)) :
                 kernel = Effect(before.kernel, SubSeq(Script(Plain, t), 1, n))
      BY <2>1 DEF OneText
    <2> DEFINE s == Script(Plain, t)
               k == before.kernel
    <2>3. Shuts(s) /\ IsKernel(k)
      BY <2>1, <2>2, ScriptShuts
    <2> HIDE DEF s, k
    <2>4. PICK n \in 0..Len(s) : kernel = Effect(k, SubSeq(s, 1, n))
      BY <2>2 DEF s, k
    <2> DEFINE u == SubSeq(s, 1, n)
    <2>5. u \in Beginnings(s)
      BY DEF Beginnings
    <2>6. kernel = Effect(k, u)
      BY <2>4
    <2> HIDE DEF u
    <2> QED
      BY <2>3, <2>5, <2>6, BeginningShuts DEF k
  <1> QED
    BY <1>1, PipeInvariance, PTL
=============================================================================
