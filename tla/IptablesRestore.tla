--------------------------- MODULE IptablesRestore ---------------------------
(***************************************************************************)
(* filtergen -t iptables-restore rules | sh (fg-iptablesrestore.c): the    *)
(* backend prints a here-document for iptables-restore, which edits a      *)
(* draft of a table and puts it in force at COMMIT.                        *)
(*                                                                         *)
(* The shell collects the document while filtergen writes it, and starts   *)
(* iptables-restore when it has come to the line EOF, or to the end of     *)
(* what a filtergen that has failed left behind.  iptables-restore itself  *)
(* is not filtergen's code.                                                *)
(***************************************************************************)
EXTENDS Firewall

CONSTANTS
    Programs,   \* the calls that filtergen_cprod makes, per program
    OldRules    \* the rules that may be in force when the load begins

ASSUME RestoreAssumption ==
    /\ Programs \subseteq Seq(Call)
    /\ \A k \in OldRules : IsKernel(k)
    /\ NULL \notin {"filter", "nat"}

VARIABLES
    program,    \* constant: all the calls
    family,     \* constant: iptables-restore or ip6tables-restore
    old,        \* constant: the rules in force before
    whole,      \* history: the rules that the whole of the script stands for
    todo,       \* the calls filtergen_cprod has still to make
    writer,     \* filtergen
    script,     \* lines written and not yet read by iptables-restore
    restore,    \* iptables-restore
    table,      \* the table it has a draft of, or NULL
    draft,      \* the rules as they would be after a COMMIT
    kernel      \* the rules in force

constants == <<program, family, old, whole>>

writing == <<todo, writer, script>>

reading == <<restore, table, draft, kernel>>

vars == <<constants, writing, reading>>

-----------------------------------------------------------------------------
(***************************************************************************)
(* The lines.  ":INPUT DROP [0:0]" is written -P.                          *)
(***************************************************************************)
OpenTable(t) == << [op |-> "*", table |-> t] >>

COMMIT == << [op |-> "COMMIT"] >>

(* The three texts rule, rule_r and natrule: fg-iptables.c, repeated.      *)
Texts(ent) == [rule |-> RuleTests(ent), back |-> ReturnTests(ent), nat |-> NatTests(ent)]

RestoreRefused(ent, fam) == Refused(ent, fam)

(* A wrong variant: the rule for input has the last word.                  *)
RestoreTargetDirect(ent) ==
    IF Jumps(ent) THEN InGroup(ent, Forwarding(ent.dir)) ELSE RuleTarget(ent)

(* Unlike the iptables backend, a denial on input is final for forwarded   *)
(* packets: fortarget stays DROP or REJECT.                                *)
RestoreForwardTarget(ent) ==
    IF Denies(ent) THEN Denial(ent) ELSE ForwardTarget(ent)

RestoreLog(ent) ==
    If("LOG" \in ent.set,
       If(IsLocal(ent), Put("-A", Base(ent.dir), Texts(ent).rule, Base("LOG")))
       \o If(IsForward(ent),
             Put("-A", Base(Forwarding(ent.dir)), Texts(ent).rule, Base("LOG"))))

RestoreRule(ent) ==
    RestoreLog(ent)
    \o If(NeedsNat(ent),
          COMMIT \o OpenTable("nat")
          \o Put("-A", SubChain(ent, NatChain(ent.dir)), Texts(ent).nat, NatTarget(ent))
          \o COMMIT \o OpenTable("filter"))
    \o If(IsLocal(ent),
          Put("-A", SubChain(ent, ent.dir), Texts(ent).rule, RuleTarget(ent)))
    \o If(NeedsReturn(ent),
          Put("-I", SubChain(ent, Opposite(ent.dir)), Texts(ent).back, ReturnTarget(ent)))
    \o If(IsForward(ent),
          Put("-A", SubChain(ent, Forwarding(ent.dir)), Texts(ent).rule,
              RestoreForwardTarget(ent))
          \o If(NeedsReturn(ent),
                Put("-I", SubChain(ent, Forwarding(Opposite(ent.dir))), Texts(ent).back,
                    ForwardReturnTarget(ent))))

(* A wrong variant: no chain for forwarded packets going out.              *)
RestoreGroupThree(name) == GroupCommandsThree(name)

RestoreGroup(name) == GroupCommands(name)

(* A wrong variant: the policies in a section of their own.                *)
RestoreSkeletonSplit(fam) ==
    OpenTable("filter") \o SetPolicy("DROP") \o COMMIT \o OpenTable("filter")
    \o << NewChain(Base("FORW_OUT")), NewChain(Base("INVALID")) >>

RestoreSkeleton(fam) ==
    OpenTable("filter") \o SetPolicy("DROP")
    \o << NewChain(Base("FORW_OUT")), NewChain(Base("INVALID")) >>
    \o Put("-A", Base("INVALID"), {}, Base("DROP"))
    \o Put("-I", Base("INPUT"), InvalidTests, Base("INVALID"))
    \o Put("-I", Base("OUTPUT"), InvalidTests, Base("INVALID"))
    \o Put("-I", Base("FORWARD"), InvalidTests, Base("INVALID"))

(* What a call writes, and all of it; a rule that is refused writes        *)
(* nothing.                                                                *)
CallLines(call, fam) ==
    IF call.k = "group" THEN RestoreGroup(call.group)
    ELSE If(~RestoreRefused(call.ent, fam), RestoreRule(call.ent))

Written(calls, fam) ==
    LET upto[n \in 0..Len(calls)] ==
            IF n = 0 THEN RestoreSkeleton(fam) ELSE upto[n - 1] \o CallLines(calls[n], fam)
    IN  upto

RestoreScript(calls, fam) == Written(calls, fam)[Len(calls)] \o COMMIT

(***************************************************************************)
(* What the whole script stands for: its commands, without the sections it *)
(* is cut into (to Effect a line that is no command changes nothing), on   *)
(* tables that are empty at first.                                         *)
(***************************************************************************)
(* The draft of a table begins without rules and without the chains that   *)
(* are not builtin; the policies stay what they are.                       *)
Emptied(k, t) == Obeyed(Obeyed(k, [op |-> "-F", table |-> t]), [op |-> "-X", table |-> t])

Complete(k, lines) ==
    LET tables == { lines[i].table : i \in { j \in 1..Len(lines) : lines[j].op = "*" } }
        start  == IF "nat" \in tables THEN Emptied(Emptied(k, "filter"), "nat")
                  ELSE Emptied(k, "filter")
    IN  Effect(start, lines)

-----------------------------------------------------------------------------
(* filtergen                                                               *)
Init ==
    /\ program \in Programs /\ family \in Family /\ old \in OldRules
    /\ todo = program /\ writer = "skeleton" /\ script = <<>>
    /\ restore = "waiting" /\ table = NULL /\ draft = old /\ kernel = old
    /\ whole = Complete(old, RestoreScript(program, family))

Write(lines) == script' = script \o lines /\ UNCHANGED <<constants, reading>>

WriteSkeleton ==
    /\ writer = "skeleton" /\ writer' = "rules"
    /\ Write(RestoreSkeleton(family))
    /\ UNCHANGED todo

WriteGroup ==
    /\ writer = "rules" /\ todo # <<>> /\ Head(todo).k = "group"
    /\ Write(RestoreGroup(Head(todo).group))
    /\ todo' = Tail(todo) /\ UNCHANGED writer

WriteRule ==
    /\ writer = "rules" /\ todo # <<>> /\ Head(todo).k = "rule"
    /\ ~RestoreRefused(Head(todo).ent, family)
    /\ Write(RestoreRule(Head(todo).ent))
    /\ todo' = Tail(todo) /\ UNCHANGED writer

(* A wrong variant: the error is not passed on.                            *)
RuleRefusedAgain ==
    /\ writer = "rules" /\ todo # <<>> /\ Head(todo).k = "rule"
    /\ RestoreRefused(Head(todo).ent, family)
    /\ UNCHANGED vars

(* A wrong variant: COMMIT all the same.                                   *)
RuleRefusedCommitted ==
    /\ writer = "rules" /\ todo # <<>> /\ Head(todo).k = "rule"
    /\ RestoreRefused(Head(todo).ent, family)
    /\ writer' = "failed"
    /\ Write(COMMIT)
    /\ UNCHANGED todo

(* return r, before COMMIT and EOF                                         *)
RuleRefused ==
    /\ writer = "rules" /\ todo # <<>> /\ Head(todo).k = "rule"
    /\ RestoreRefused(Head(todo).ent, family)
    /\ writer' = "failed"
    /\ UNCHANGED <<constants, todo, script, reading>>

WriteEnd ==
    /\ writer = "rules" /\ todo = <<>> /\ writer' = "done"
    /\ Write(COMMIT)
    /\ UNCHANGED todo

(* filtergen_cprod reports an error of a later rule, or filtergen is       *)
(* killed.                                                                 *)
Interrupted ==
    /\ writer \in {"skeleton", "rules"} /\ writer' = "failed"
    /\ UNCHANGED <<constants, todo, script, reading>>

-----------------------------------------------------------------------------
(* sh, and iptables-restore                                                *)
StartRestore ==
    /\ restore = "waiting" /\ writer \in {"done", "failed"}
    /\ restore' = "running"
    /\ UNCHANGED <<constants, writing, table, draft, kernel>>

Next_is(op) == restore = "running" /\ script # <<>> /\ Head(script).op = op

Consume == script' = Tail(script) /\ UNCHANGED <<constants, todo, writer>>

BeginTable ==
    /\ Next_is("*") /\ table = NULL
    /\ table' = Head(script).table /\ draft' = Emptied(kernel, table')
    /\ Consume /\ UNCHANGED <<restore, kernel>>

Commit ==
    /\ Next_is("COMMIT") /\ table # NULL
    /\ kernel' = draft /\ table' = NULL
    /\ Consume /\ UNCHANGED <<restore, draft>>

(* A line for another table than the open one, or that iptables refuses.   *)
Usable(line) ==
    CASE line.op = "*"      -> table = NULL
      [] line.op = "COMMIT" -> table # NULL
      [] line.op = "-P"     -> table = "filter" /\ Accepted(draft, line)
      [] OTHER              -> table = Table(line.chain) /\ Accepted(draft, line)

Edit ==
    /\ restore = "running" /\ script # <<>>
    /\ Head(script).op \notin {"*", "COMMIT"} /\ Usable(Head(script))
    /\ draft' = Obeyed(draft, Head(script))
    /\ Consume /\ UNCHANGED <<restore, table, kernel>>

(* "line N failed", and the draft is lost                                  *)
LineRefused ==
    /\ restore = "running" /\ script # <<>> /\ ~Usable(Head(script))
    /\ restore' = "failed"
    /\ UNCHANGED <<constants, writing, table, draft, kernel>>

(* "COMMIT expected"                                                       *)
EndOfScript ==
    /\ restore = "running" /\ script = <<>>
    /\ restore' = IF table = NULL THEN "done" ELSE "failed"
    /\ UNCHANGED <<constants, writing, table, draft, kernel>>

RestoreKilled ==
    /\ restore \in {"waiting", "running"}
    /\ restore' = "killed"
    /\ UNCHANGED <<constants, writing, table, draft, kernel>>

Filtergen ==
    WriteSkeleton \/ WriteGroup \/ WriteRule \/ RuleRefused \/ WriteEnd

Reader == StartRestore \/ BeginTable \/ Commit \/ Edit \/ LineRefused \/ EndOfScript

Next == Filtergen \/ Interrupted \/ Reader \/ RestoreKilled

(* Both processes run on as long as they can; nobody has to kill one.      *)
Spec == Init /\ [][Next]_vars /\ WF_vars(Filtergen) /\ WF_vars(Reader)

-----------------------------------------------------------------------------
(***************************************************************************)
(* Properties                                                              *)
(***************************************************************************)

(* Type invariant.                                                         *)
TypeOK ==
    /\ program \in Programs /\ family \in Family /\ old \in OldRules
    /\ \E n \in 0..Len(program) : todo = SubSeq(program, n + 1, Len(program))
    /\ writer \in {"skeleton", "rules", "done", "failed"}
    /\ script \in Seq(Line)
    /\ restore \in {"waiting", "running", "done", "failed", "killed"}
    /\ table \in {NULL, "filter", "nat"}
    /\ IsKernel(draft) /\ IsKernel(kernel) /\ IsKernel(whole)

Settled == restore \in {"done", "failed", "killed"}

(* filter_backends.7:20: the ruleset "is loaded atomically".  Whoever is   *)
(* killed, whatever is refused, and wherever the script breaks off, the    *)
(* rules in force are the old ones or those of the whole script, changed   *)
(* once.                                                                   *)
Atomic == INSTANCE AtomicLoad WITH
    force <- kernel,
    new   <- whole,
    over  <- kernel # old \/ Settled

LoadsAtomically == Atomic!Spec

(* Every load ends, although iptables-restore waits for the shell, and the *)
(* shell for a filtergen that may have been killed before it wrote EOF.    *)
LoadEnds == <>Settled

(* One refused line loses the whole load, and so must not occur: a load    *)
(* fails only if filtergen has failed, or has declared a group twice (a    *)
(* list in front of it leads there twice).                                 *)
Redeclared ==
    \E i, j \in 1..Len(program) :
        i < j /\ {program[i].k, program[j].k} = {"group"} /\ program[i].group = program[j].group

FailsForAReason == restore = "failed" => writer = "failed" \/ Redeclared

(* As soon as the rules are replaced, nothing gets through but what the    *)
(* policy allows, and all of that does; except for forwarded packets that  *)
(* a rule for input denies, which are dropped (ForwardedPass below), and   *)
(* for the related packets that both backends overlook a denial for.       *)
RestoredPolicy ==
    kernel.rules # old.rules =>
        \A p \in Packets :
            ~Overlooked(program, p) =>
                /\ LetsThrough(kernel, p) => Allowed(program, p)
                /\ Allowed(program, p) => LetsThrough(kernel, p) \/ DeniedOnInput(program, p)

(* "Forwarded packets that shouldn't get dropped" are not "dropped before  *)
(* they're accepted" (examples/forward-drop-test.filter:1-4): as soon as   *)
(* the rules are replaced, the forwarded packets that the policy allows    *)
(* get through.  It does not hold here (run forward_drop).                 *)
ForwardedPass ==
    kernel.rules # old.rules =>
        \A p \in Packets :
            p.path = "FORWARD" /\ Allowed(program, p) => LetsThrough(kernel, p)

(***************************************************************************)
(* The inductive invariant.  A script without rules for the nat table is   *)
(* one section: "*filter", edits of that table, and COMMIT at the end of   *)
(* it, if filtergen came to its end.  Nothing of it is in force before     *)
(* COMMIT, and what is still to be read makes the draft what the whole     *)
(* script stands for.                                                      *)
(***************************************************************************)
NatFree ==
    \A i \in 1..Len(program) :
        program[i].k = "rule" /\ NeedsNat(program[i].ent) => RestoreRefused(program[i].ent, family)

IsEdit(line) ==
    /\ line \in Command
    /\ line.op = "-P" \/ (line.op \in {"-N", "-A", "-I"} /\ Table(line.chain) = "filter")

OneSection(lines, first, ended) ==
    /\ \A i \in first..Len(lines) :
        IsEdit(lines[i]) \/ (ended /\ i = Len(lines) /\ lines[i] = COMMIT[1])
    /\ ended => Len(lines) >= first /\ lines[Len(lines)] = COMMIT[1]

Calls == Len(program) - Len(todo)

Unread ==
    /\ kernel = old /\ table = NULL
    /\ script # <<>> => script[1] = OpenTable("filter")[1] /\ OneSection(script, 2, writer = "done")
    /\ writer = "skeleton" => script = <<>> /\ Calls = 0
    /\ writer = "rules" => script = Written(program, family)[Calls]
    /\ writer = "done" => script # <<>> /\ Effect(Emptied(old, "filter"), script) = whole

Reading ==
    /\ kernel = old /\ table = "filter"
    /\ OneSection(script, 1, writer = "done")
    /\ writer = "done" => Effect(draft, script) = whole

Committed == script = <<>> /\ table = NULL /\ kernel = whole

RestoreInv ==
    /\ TypeOK
    /\ restore = "waiting" => Unread
    /\ restore = "running" => writer \in {"done", "failed"} /\ (Unread \/ Reading \/ Committed)
=============================================================================
