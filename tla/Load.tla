-------------------------------- MODULE Load --------------------------------
(***************************************************************************)
(* filtergen -t iptables rules | sh: the backend writes its script into a  *)
(* pipe while a shell executes it, one command at a time, on the rules in  *)
(* force (fg_iptables_common; fgadm.in, reload).  Either of the two may be *)
(* killed between any two commands.                                        *)
(***************************************************************************)
EXTENDS Firewall

CONSTANTS
    Programs,   \* the calls that filtergen_cprod makes, per program
    OldRules,   \* the rules that may be in force when the load begins
    PipeBound   \* how many commands filtergen may be ahead of the shell

ASSUME LoadAssumption ==
    /\ Programs \subseteq Seq(Call)
    /\ \A k \in OldRules : IsKernel(k)
    /\ PipeBound \in Nat

VARIABLES
    program,    \* constant: all the calls
    family,     \* constant: iptables or ip6tables
    old,        \* constant: the rules in force before
    todo,       \* the calls filtergen_cprod has still to make
    writer,     \* filtergen
    pipe,       \* commands written and not yet executed
    shell,      \* sh
    kernel,     \* the rules in force
    refused     \* history: the commands that iptables refused

loadVars == <<program, family, old, todo, writer, pipe, shell, kernel, refused>>

constants == <<program, family, old>>

-----------------------------------------------------------------------------
Init ==
    /\ program \in Programs
    /\ family \in Family
    /\ old \in OldRules
    /\ todo = program
    /\ writer = "skeleton"
    /\ pipe = <<>>
    /\ shell = "running"
    /\ kernel = old
    /\ refused = {}

Room == Len(pipe) <= PipeBound

Write(commands) ==
    /\ Room
    /\ pipe' = pipe \o commands
    /\ UNCHANGED <<constants, shell, kernel, refused>>

WriteSkeleton ==
    /\ writer = "skeleton"
    /\ Write(Skeleton(family))
    /\ writer' = "rules"
    /\ UNCHANGED todo

(* cb->group and cb->rule, as filtergen_cprod comes to them                *)
WriteGroup ==
    /\ writer = "rules" /\ todo # <<>>
    /\ Head(todo).k = "group"
    /\ Write(GroupCommands(Head(todo).group))
    /\ todo' = Tail(todo)
    /\ UNCHANGED writer

WriteRule ==
    /\ writer = "rules" /\ todo # <<>>
    /\ Head(todo).k = "rule"
    /\ ~Refused(Head(todo).ent, family)
    /\ Write(RuleCommands(Head(todo).ent))
    /\ todo' = Tail(todo)
    /\ UNCHANGED writer

(* The callback returns -1; what has been written stays written.           *)
RuleRefused ==
    /\ writer = "rules" /\ todo # <<>>
    /\ Head(todo).k = "rule"
    /\ Refused(Head(todo).ent, family)
    /\ writer' = "failed"
    /\ UNCHANGED <<constants, todo, pipe, shell, kernel, refused>>

Written ==
    /\ writer = "rules" /\ todo = <<>>
    /\ writer' = "done"
    /\ UNCHANGED <<constants, todo, pipe, shell, kernel, refused>>

(* filtergen_cprod reports an error of a later rule, or filtergen is       *)
(* killed.                                                                 *)
Interrupted ==
    /\ writer \in {"skeleton", "rules"}
    /\ writer' = "failed"
    /\ UNCHANGED <<constants, todo, pipe, shell, kernel, refused>>

Execute ==
    /\ shell = "running"
    /\ pipe # <<>>
    /\ kernel' = After(kernel, Head(pipe))
    /\ refused' = IF Accepted(kernel, Head(pipe)) THEN refused ELSE refused \union {Head(pipe)}
    /\ pipe' = Tail(pipe)
    /\ UNCHANGED <<constants, todo, writer, shell>>

ShellKilled ==
    /\ shell = "running"
    /\ shell' = "killed"
    /\ UNCHANGED <<constants, todo, writer, pipe, kernel, refused>>

Next ==
    \/ WriteSkeleton \/ WriteGroup \/ WriteRule \/ RuleRefused \/ Written
    \/ Interrupted \/ Execute \/ ShellKilled

Spec == Init /\ [][Next]_loadVars

-----------------------------------------------------------------------------
(***************************************************************************)
(* Properties                                                              *)
(***************************************************************************)

Loaded == writer = "done" /\ pipe = <<>>

(* Type invariant.                                                         *)
TypeOK ==
    /\ program \in Programs
    /\ family \in Family
    /\ old \in OldRules
    /\ \E n \in 0..Len(program) : todo = SubSeq(program, n + 1, Len(program))
    /\ writer \in {"skeleton", "rules", "done", "failed"}
    /\ pipe \in Seq(Command)
    /\ shell \in {"running", "killed"}
    /\ IsKernel(kernel)
    /\ refused \subseteq Command

(* However the load is interleaved or cut short, there is no moment at     *)
(* which the old rules are no longer in force and a packet that no rule    *)
(* decides gets through: the policies are set before anything is flushed.  *)
Closed(k) == \A b \in Builtin : k.policy[b] = "DROP"

NeverOpen == kernel.rules = old.rules \/ Closed(kernel)

(* Once the old rules are gone, no rule that forwarded packets meet on     *)
(* their way in accepts them, in a group or out of it: "forwarded packets  *)
(* will pass through both" (filter_syntax.5:36), and only the rules for    *)
(* output let them go.                                                     *)
NoneAccepts(k, base) ==
    \A c \in Exists(k) :
        c.base = base =>
            \A i \in 1..Len(k.rules[c]) : k.rules[c][i].jump # Base("ACCEPT")

BothSides == kernel.rules = old.rules \/ NoneAccepts(kernel, "FORWARD")

(* iptables refuses no command: chains are created after the old ones are  *)
(* gone, before they are used, and once.  Two cases are the exception: a   *)
(* group that filtergen itself declares again (a list in front of it leads *)
(* there twice), and a rule for the nat table in a group, for which no     *)
(* chain is created there (fg-iptables.c:372, 406); of these, no more than *)
(* that one command.                                                       *)
Redeclared(name) ==
    \E i, j \in 1..Len(program) :
        i < j /\ {program[i].k, program[j].k} = {"group"}
              /\ program[i].group = name /\ program[j].group = name

Translates(name) ==
    \E i \in 1..Len(program) :
        program[i].k = "rule" /\ program[i].ent.group = name /\ NeedsNat(program[i].ent)

NothingRefused ==
    \A c \in refused :
        \/ c.op = "-N" /\ Redeclared(c.chain.group)
        \/ /\ c.op = "-A" /\ Table(c.chain) = "nat" /\ c.chain.group # NULL
           /\ Translates(c.chain.group)

(* At every moment of a load, whatever is killed, what gets through is     *)
(* what the old rules let through, as long as they are in force, and then  *)
(* nothing but what the new policy allows: no packet slips in while only   *)
(* half of the rules are there.  Except for related packets that the code  *)
(* overlooks a denial or a jump for (Overlooked; DenialsHold below).       *)
FailClosed ==
    \A p \in Packets :
        LetsThrough(kernel, p) =>
            IF kernel.rules = old.rules THEN LetsThrough(old, p)
            ELSE Allowed(program, p) \/ Overlooked(program, p)

(* A load that comes to its end leaves rules that let through exactly what *)
(* the policy allows: first match, groups, return packets, both sides of   *)
(* a forwarded packet.  The same packets are the exception.                *)
LoadedPolicy ==
    Loaded =>
        \A p \in Packets :
            Overlooked(program, p) \/ (LetsThrough(kernel, p) <=> Allowed(program, p))

(* "Allow rules include state.  Deny rules don't" (fg-iptables.c:29-30):   *)
(* whatever its state, no packet gets through rules that have been loaded  *)
(* which the policy does not allow.  It does not hold (run related).       *)
DenialsHold ==
    Loaded => \A p \in Packets : LetsThrough(kernel, p) => Allowed(program, p)

(***************************************************************************)
(* The inductive invariant.  A load has four steps to take before the new  *)
(* rules may be built: one policy per builtin chain, and the flush.  What  *)
(* needs a step to be over comes after it in the pipe, unless it is over.  *)
(***************************************************************************)
Step == Builtin \union {"flush"}

Over(k, step) ==
    IF step = "flush" THEN NoneAccepts(k, "FORWARD") ELSE k.policy[step] = "DROP"

Takes(cmd, step) ==
    IF step = "flush" THEN cmd.op = "-F" /\ cmd.table = "filter"
    ELSE cmd.op = "-P" /\ cmd.chain = Base(step)

Needs(cmd) ==
    CASE cmd.op = "-P" -> {}
      [] cmd.op = "-F" -> IF cmd.table = "filter" THEN Builtin ELSE Step
      [] OTHER -> Step

(* No command undoes a step.                                               *)
Harmless(cmd) ==
    /\ cmd.op = "-P" => cmd.jump = Base("DROP")
    /\ cmd.op \in {"-A", "-I"} /\ cmd.chain.base = "FORWARD" => cmd.rule.jump # Base("ACCEPT")

InOrder ==
    \A i \in 1..Len(pipe) : \A step \in Needs(pipe[i]) :
        Over(kernel, step) \/ \E j \in 1..Len(pipe) : j < i /\ Takes(pipe[j], step)

Prepared ==
    /\ writer = "skeleton" => pipe = <<>>
    /\ writer = "rules" =>
        \A step \in Step : Over(kernel, step) \/ \E j \in 1..Len(pipe) : Takes(pipe[j], step)

(* Whatever is killed, what is still in the pipe may go on: each command   *)
(* finds the steps it needs behind it, and none undoes one.                *)
LoadInv ==
    /\ TypeOK
    /\ NeverOpen
    /\ BothSides
    /\ \A i \in 1..Len(pipe) : Harmless(pipe[i])
    /\ InOrder
    /\ Prepared
=============================================================================
