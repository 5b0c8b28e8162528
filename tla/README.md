# A TLA+ model of filtergen

filtergen compiles a packet filter policy, written in its own language
(`filter_syntax.5`), into commands for iptables, ip6tables, iptables-restore,
ipchains, ipfilter or Cisco access lists.  `fgadm` is the shell script that
compiles and loads it.

Everything here is translated from the C sources.  The manual page is used only
for the abstract specification, that is for what a program is supposed to mean.

## 1. Inventory

| part | state it keeps | operations | what makes it correct |
|---|---|---|---|
| driver, `filtergen.c`, `oputs.c` | options, output file, exit status | parse options, open output, call source parser and backend, unlink on error | the output file is complete or absent; the exit status says so |
| include stack, `input/sourcefile.c`, `input/filtergen/include.c`, `scanner.l` | stack of open sources, depth | push (file, directory, glob), pop at end of file | files are read in order, each once; the limit catches recursion and only that |
| scanner, parser | flex and bison tables | | (generated) |
| resolver, `resolver.c` | the syntax tree, rewritten in place | replace the names of hosts, services, protocols and ICMP types by numbers; insert an argument for each further address of a host | every address has its argument, with the mask that is written; what is not found stays |
| conversion, `input/filtergen/glue.c` | the filter nodes; a static counter that names anonymous groups | one `convert_*` function per kind of syntax node | every rule, subrule and argument is kept, in source order |
| tree passes, `filter.c` | the same nodes, rewired in place | `filter_nogroup`, `__filter_neg_expand`, `__filter_unroll`, `__filter_targets_to_end`, all over `filter_append` | no node has two ways out, no cycle, same paths in the same order |
| cross product, `gen.c` | one `struct filterent` per activation | `filtergen_cprod` and its three mutually recursive functions | one rule per path, with that path's matches only; groups announced first; errors final |
| backends, `output/*` | features seen so far, text written | a `rule` and a `group` callback, a skeleton before and after, a flusher | the packets that pass are those of the policy, at every moment of the load |
| `fgadm` | the loaded rule set, a saved copy | check, reload, stop, save | a policy that does not compile is never loaded |
| iptables-save reader, new IR, factoriser, Rust port | | | stubs and prototypes, not used by a compilation |

The compiler is one thread.  The driver calls the source parser, which fills a
syntax tree and converts it; it hands the tree to a backend, which runs the
passes and then `filtergen_cprod`; that calls the backend back, rule by rule and
group by group, and the backend writes as it is called.  There is no buffering
between the two: an error half way leaves what has been written.

What is hard in it:

* *sharing and mutation*: the passes work in place on nodes that several
  branches share (`filter_append` appends the same tail to every member of a
  list), in recursions whose order matters;
* *one integer for three things*: an error, a number of rules, and "go on";
* *partial failure*: NULL conversions, refused rules, and a crash, each with
  rules before and after it;
* *order*: first match wins, so the rules have to arrive in source order, and a
  group has to exist before a rule of it or a jump to it;
* *a scanner that switches files*: positions, start conditions and a depth that
  have to survive files opened inside files, some of which cannot be opened;
* *a firewall replaced while it works*: commands take effect one at a time, in
  two processes that may die between any two, and packets arrive in between;
* *a firewall replaced at once*: iptables-restore loads a table whole or not at
  all, so that one refused line loses everything, and a script of several
  sections is several loads;
* *a script that trusts an exit status*: `fgadm` compiles twice while the rules
  may be edited, either of its processes may die, and a second `fgadm` may run.

`PROJECT.json` lists the hazards at the lines where they bite.

## 2. Modules

```
FilterIR                  struct filter, struct filterent
  Gen                     gen.c
    GenProofs             theorems about it
    MCGen                 ... and its instances
  Unroll                  the passes of filter.c
  Glue                    glue.c, and the node constructors of filter.c
    Resolver              resolver.c
      Meaning             what a program stands for
        Policy            abstract specification of a compilation
    Emit                  emit.c: a rule printed in filtergen's own language
Compiler                  Gen + Unroll + Meaning + Emit: a whole compilation
  MCCompiler              ... and its instances
IncludeStack              scanner.l, include.c, sourcefile.c
  IncludeProofs           theorems about it
  MCInclude               ... and its instances
Netfilter                 the kernel's packet filter (external)
  NetfilterProofs         facts about it that the other proofs share
  Iptables                fg-iptables.c: the commands of a rule, a group, a flush
    Firewall              the fate of a packet: by the commands, by the policy
      FirewallProofs      the two agree, call by call and command by command
      Load                the script written into a pipe and executed from it
        LoadProofs        theorems about it (with FirewallProofs)
      IptablesRestore     fg-iptablesrestore.c: a script that is loaded at once
        RestoreProofs     theorems about it (with FirewallProofs)
      MCRules             rule sets and packets
        MCLoad            ... and the instances of Load
        MCRestore         ... and those of IptablesRestore
    Driver                filtergen.c, oputs.c: a filtergen process
      Fgadm               fgadm.in: check, reload, stop, and what disturbs them
        FgadmProofs       theorems about it
        MCFgadm           ... and its instances
AtomicLoad                abstract specification of an iptables-restore load
SeqLemmas                 facts about sequences, and induction over Nat
```

**FilterIR.**  A heap is a sequence of nodes and a pointer an index into it.
The three pointers of the union in `struct filter` are one field `list`; names,
addresses and ports are values that are looked into only by the resolver.
`HeapOK` is what the constructors guarantee: pointers in range, no empty sibling
list or group, and a value in every leaf but a log.

**Glue.**  A program is a sequence of rules, a rule a sequence of specifiers.
Every `convert_*` function is an operator from (memory, syntax) to (memory,
pointer), with the NULL result where the code has one.  The recursion over
left-recursive lists is `LinkList`: an element that converts to NULL is skipped,
but a NULL *first* element makes the list NULL, in every list except the list of
rules (`LinkRules`).  A host argument is a record of a name or address and a
mask; the node has them as one text (`HostText`).  `NodeValue` is what the
constructor makes of an argument: NULL for a mask that cannot be parsed, and the
protocol's *name*, whether name or number was written, if there is one.

**Resolver.**  Names are replaced by what three tables say (`Addresses`,
`Services`, `IcmpCodes`; a range of ports is one name of the second).  A host
with several addresses becomes several arguments.  The inserted ones are
allocated without being cleared, and their mask is written only if there is one:
`stale` is what was there, a null pointer or a mask, and `Compiler!Resolve`
chooses it from the constant `StaleMask`.

**Emit** is the backend that prints a program again.  Its output is modelled by
the syntax tree that the parser would make of it, so that `Meaning` can read
both.

**Unroll.**  A pass maps a memory to a memory.  The order of the recursive calls
is that of the code, because they mutate shared nodes.  `abort` and `exit` are
states of the memory.

**Gen.**  The recursion of `__fg_apply`, `__fg_applylist` and `__fg_applyone` is
a machine with a stack.  A frame is an activation of `__fg_applylist`, `cur` the
activation of `__fg_apply` that is running (its tail call reuses it), `ret` what
the last function returned; `out` collects the calls to the backend.  One action
per call, return or callback:

| action | code |
|---|---|
| `Start`, `Finish` | `filtergen_cprod` |
| `ListCall`, `ListNext`, `ListError`, `ListEnd` | the loop of `__fg_applylist` |
| `ApplyLeaf`, `ApplyError` | `__fg_applyone` on a match: set it, or "already defined" / "invalid filter type" |
| `ApplySiblings`, `SiblingsReturn` | `F_SIBLINGLIST`, and `if (r) return r` |
| `ApplySubgroup`, `SubgroupReturn` | `F_SUBGROUP`: `cb->group`, the group's rules, then the rest of the path |
| `ComposeSubgroups` | a second group on a path; its diagnostic passes a bit mask to `%s`, so the action ends in an error *or* a crash |
| `EmitRule`, `IncompleteRule` | end of a path: `applydefaults`, `checkmatch`, `cb->rule` |

`path` is a history variable inside an entry: the nodes written into it since it
was zeroed.  No guard reads it.  A test of `ESET` is modelled with `whats_set`,
a test of a field with the field, as in the code: `F_DPORT` therefore tests the
source port range.

**Compiler** runs `Resolve` (not with `-R`), `Convert`, the passes and `Gen` in
sequence, with the two choices of every compilation: groups out of line or, for
the backends that call `filter_nogroup`, in place; names resolved or not.  A
pass is one step: nothing runs beside it.  `Convert` frees the syntax tree; what
was written survives in the constant `source`, for the properties only.

**Meaning, Policy** know nothing of trees.  `Meaning` reads a program and lists
the calls it stands for: a compound is its subrules, each continued by the rest
of the rule; a group is its rules and a jump; a name is an alternative for each of
its numbers (`Alternatives`, which reads the tables and not the resolver).
`Policy` is the specification of a compilation: send the next call of that list,
or fail if one that is still to come makes no sense (`Sensible`: two sources,
ports without tcp or udp, no target, ...), or because the backend refused a
rule, or succeed when all are sent.

**IncludeStack.**  A text is a sequence of lexemes: what the start conditions of
`scanner.l` tell apart (`include`, the two comment brackets, a newline, a name,
white space, any other token).  The file system says what a name is: a file, one
that cannot be read, a directory, a glob, nothing.  `stack` is the list of open
sources, `depth` is `srcfile_depth`, and `todo` the part of `include_file`
that is not over: the entries that its loops over a directory or a glob have
still to visit.  `out` collects what the parser and the user see.  One action
per pattern of the scanner, per branch of `include_file` and per outcome of
`sourcefile_push`.  `TooManyNested`, `PushRefused` and `PushFailed` are its
failures: the depth goes up before the test and does not come down again.
`StatFailed`, `GlobFailed` and `DirectoryRefused` (`scandir` fails, or the
directory is `/`) are those of `include_file`.  `Scan` counts lines as flex does:
a newline that one of the scanner's rules matches is counted, one after `include`,
which only the default rule matches (`scanner.l:135-136`), is not.
Left out: columns; comments to the end of a line, which flex drops in one match,
and `#` after `include`, where it is a file name; `-` for standard input; a
main program that cannot be opened (the driver's business).

**Netfilter** is not filtergen's: it is what `fg-iptables.c` relies on.  A chain
has a list of rules, a rule a set of tests and a target; `Accepted` says which
commands iptables refuses (`-N` of a chain that is there, a jump to one that is
not, ...), `Obeyed` what the others do.

**Iptables** is the text of `cb_iptables_rule_common`, as the set of tests each
of the three texts `rule`, `rule_r` and `natrule` holds and the targets that
depend on direction, action and routing type; `RuleCommands` puts the printfs in
their order.  `Skeleton` and `FlushCommands` are the two scripts (the skeleton
begins with the same commands that `flush_iptables_common` prints).

**Load.**  `filtergen -t iptables rules | sh`, the line 37 of `fgadm.in`.  The
writer prints a skeleton, then one callback's commands after the other, as
`filtergen_cprod` makes the calls of `program`; the shell executes the first
command in the pipe, whenever it gets to run.  A callback may return -1, `gen.c`
may report an error, either process may be killed, and the other goes on with
what there is.  `refused` is a history variable.

| action | code |
|---|---|
| `WriteSkeleton` | `fg_iptables_common` before `filtergen_cprod` |
| `WriteGroup`, `WriteRule` | the two callbacks |
| `RuleRefused`, `Interrupted` | a negative return of a callback, of `filtergen_cprod`; a signal |
| `Written` | `fg_iptables_common` returns |
| `Execute`, `ShellKilled` | `/bin/sh` |

**IptablesRestore.**  `filtergen -t iptables-restore rules | sh`.  The backend
prints a here-document, so the shell starts iptables-restore only when it has
come to its end, or to the end of what a filtergen that has failed left behind.
iptables-restore edits a draft of one table and puts it in force at COMMIT.
The texts of a rule are those of `fg-iptables.c` (the file repeats them, and
`Texts` says so); the targets of a forwarded packet and the sections are its
own.  `whole` is a history variable: what the complete script stands for, without
the sections it is cut into.

| action | code |
|---|---|
| `WriteSkeleton`, `WriteEnd` | `fg_iptrestore_common` before and after `filtergen_cprod` |
| `WriteGroup`, `WriteRule` | the two callbacks |
| `RuleRefused`, `Interrupted` | a negative return of a callback, of `filtergen_cprod`; a signal |
| `StartRestore` | `sh` at the end of the document |
| `BeginTable`, `Edit`, `Commit` | iptables-restore: `*table`, a command, `COMMIT` |
| `LineRefused`, `EndOfScript`, `RestoreKilled` | ... a line it refuses, the end, a signal |

**AtomicLoad** is the sentence of `filter_backends.7` about this backend: one
step from the old rules to the new ones, or none.  It states no fairness, because
a load may be killed; that every load ends is `LoadEnds`, of `IptablesRestore`.

**Driver** is a filtergen process from its options to its exit status, one
action per step of `main`, with the three places its output may go.  Of a text
it knows what the modules above compute: whether it parses, what the callbacks
write (`chunks`, one callback's commands each), and whether the compilation ends
in rules, in an error (-1, and the file is removed), in `exit(1)` or in
`abort()` (and it is not).  A text that does not parse, or a file that cannot be
opened, compiles to nothing, without an error.

**Fgadm** runs these processes.  `stage` says how far the command has got: a
filtergen for its exit status ("test"), a filtergen with a shell behind it
("pipeline"), or one of neither kind ("alone").  `trouble` is what the world
does: an edit of the rules file, a signal to filtergen (part of the output is
lost with the buffer of `outfile`) or to the shell, and an `at` job that runs
`fgadm stop` next to it all.

| action | code |
|---|---|
| `Check`, `Reload`, `Stop` | the three functions of `fgadm.in` |
| `TestPassed`, `TestFailed` | `if $FILTERGEN ... > /dev/null` |
| `Execute`, `EndOfFile` | `/bin/sh` at the end of the pipe |
| `ReadOptions` .. `CloseOutput` | `main` |
| `PassesFail`, `NoFlusher`, `BrokenPipe`, `Killed` | `exit` and `abort` in the passes, a null function pointer, signals |

**Firewall** is the abstract specification of a load, on packets.  `LetsThrough`
runs a packet through the chains.  `Allowed` runs it through the calls of
`filtergen_cprod` and knows no chains: the first rule of a direction that fits
decides, a group decides by its rules, an answer belongs to what it answers
(unless the rule is `oneway`), and a forwarded packet passes both directions.
That a drop on input leaves a forwarded packet to the rules for output is how
`examples/forward-drop-test.filter` reads and how the backend has it.  (The
comment at `fg-iptables.c:33`, that rejects go into FORWARD as well, is out of
date: for input that rule jumps to FORW_OUT.)

`ByRule` is the one place where the policy is taken from a comment as well as
from the code: permits test the state of a connection, denials do not
(`fg-iptables.c:27-30`).  The code has a test in both (`RuleTests`), and two
operators, kept apart from the policy, say which packets it treats otherwise:
`Overlooked`, RELATED packets that such a test lets pass a denial or a jump, and
`DeniedOnInput`, forwarded packets that iptables-restore is told to drop on their
way in.  The properties about packets name them as exceptions, and the runs
`related` and `forward_drop` show that each is needed.

`Packets` is the set of packets that may arrive, any subset of `Packet`, and
`JumpLimit` how far the kernel follows jumps.  Both recursions are functions:
`Decision` goes from jump to jump (what the chains decide with n jumps, from what
they decide with n - 1), `Heard` from call to call (what each group has said
after n calls).  The last part says for which programs the backends keep to the
policy (`Orderly`); section 5 says where each of its conditions comes from.

## 3. Runs

| run | module, cfg | states | shows |
|---|---|---|---|
| `walk` | `MCGen` | 125 000 | `gen.c` on all graphs of a family |
| `compile` | `MCCompiler` | 96 000 | 624 programs, from syntax to backend calls |
| `read` | `MCInclude` | 23 000 | 1134 file systems, from lexemes to tokens |
| `load` | `MCLoad` | 54 000 | 227 rule sets loaded over two older ones, packet by packet |
| `admin` | `MCFgadm` | 74 000 | every command of fgadm, with everything that may go wrong around it |
| `restore` | `MCRestore` | 75 000 | rule sets loaded through iptables-restore |
| `target_first` | `MCTargetFirst.cfg` | | finding 1 |
| `syntax_error` | `MCSyntaxError.cfg` | | finding 2 |
| `stale_mask` | `MCStaleMask.cfg` | | finding 3 |
| `restore_nat` | `MCNat.cfg` | | finding 4 |
| `related` | `MCRelated.cfg` | | finding 5 |
| `forward_drop` | `MCForward.cfg` | | finding 6 |

**walk.**  Graphs of five nodes: a direction, three nodes that are a match, a
negated log, a sibling list or a group, linked in every acyclic way in which all
are used, and a target; 3920 graphs and the empty one.  They have shared tails,
lists in lists, groups in groups, groups on several paths, two groups on one
path, incomplete rules and duplicate matches.  The callback returns -1 or 2 (a
rule and its return rule), so every prefix of a compilation can fail.  Five
nodes are enough for each pair of the node kinds to be nested, in sequence and
shared.  Checked: `NoMatchLost` and `NegFaithful` (an emitted rule has the
matches of its path, the last of a type, and only those), `CountNeverZero` (the
overloaded return value), `ChainDeclaredFirst`, `ErrorIsFinal`, the types, and
`GenInv`, the inductive invariant of the proofs.

**compile.**  Each rule has a direction with one or two interfaces, two
specifiers of a pool of nine (lists, negations, a negated compound, compounds
with targets, compounds in compounds, log with and without text, options, port
and icmp matches) or a group of a pool of three (with compounds, anonymous, with
a group inside), and a target, in three orders; plus programs of two and three
rules, an empty rule, an empty subrule and the empty program.  Every pair of
specifiers occurs together, the senseless ones too.  Among the values are a host
name with two addresses (under a netmask) and one that is its own address, hosts
that are not found, two port names, and protocols and an ICMP type by name; each
program is compiled with and without resolving, and with groups in and out of
line.  Checked:

* `ImplementsPolicy`: the calls the backend receives are those of `Policy`, in
  order, whatever sharing the passes have created; a compilation fails only if
  a rule still to come makes no sense, or was refused;
* `SinglePathOut`, `Acyclic`, `PassesSucceed`: what the passes promise `gen.c`;
* `ReprintsProgram`: what the filtergen backend prints, read again, stands for
  the same rules in the same order.  It has no words for a negation, a log
  message, `local` and `forward`, and address translation (`HasWords`); rules
  with one of these are passed over;
* `Terminates`: `filtergen_cprod` returns.  The only fairness is `WF(Generate)`:
  the compiler is one thread that nothing blocks.

The family leaves out programs on which code and policy are known to differ or
for which the manual gives no meaning: a target as the first element of a rule,
`oneway`, a source port range with a destination port, two destination ports, a
negated compound of several specifiers, a negated name of several addresses, a
name of several addresses without a mask, a mask that cannot be parsed (section
4); a target and a group in one rule, where `gen.c` lets the jump
win; an empty first subrule, which drops its specifier with a warning; two
anonymous groups.
Glue, Resolver, Unroll and Gen model all of these.

**read.**  A main program, two files and a directory, with texts that include
each other, themselves, the directory and a glob in every combination, put the
file name on the next line, open comments and leave them open, and end in
`include`; names that are missing, hidden, unreadable or empty, a directory that
cannot be read, the root directory, a pattern that nothing matches.  The limit is 3
instead of 100, which lets recursion reach it and leaves room for includes that
do not recurse.  Checked: `ReadsLiterally` (the parser sees the expansion of the
program, an include read as the text it names, with nothing missing unless an
error was printed), `LinesRight` (no token has a line further down than its own,
and one further up only by newlines between an `include` and its name, further up
in the same file, that flex has not counted), `OpenFilesBounded`, `Terminates` and
the inductive invariant `IncludeInv`. `Terminates` assumes `WF(Next)`: one thread,
which the parser keeps calling. Texts in which a file ends in `include` and the
next thing is a comment are left out, as what they mean is anyone's guess.

**load.**  A program is one or two of fifteen items: rules with every target,
direction, routing option and kind of match, negated or not, with and without a
log, a group, a group that masquerades, and a group inside a group; a pair of equal
items is what a list in front of a group compiles to.  One more program is
`examples/forward-drop-test.filter`.  The rules in force before are those of an
earlier load, or rules that let pass what they do not drop.  208 packets tell
the rules apart: for this host, from it, or forwarded between two interfaces,
with three protocols and the states of a connection, RELATED among them.  Checked:

* `FailClosed`: at every moment, whatever has been killed, a packet gets through
  only if the old rules are in force and let it through, or the new policy
  allows it, or it is `Overlooked`;
* `LoadedPolicy`: at the end, exactly what the policy allows gets through, but for
  packets that are `Overlooked`;
* `NothingRefused`: iptables refuses no command but the second `-N` of a group
  that filtergen declares twice, and the `-A` of a NAT rule to the chain of its
  group, which the nat table does not have;
* `NeverOpen`, `BothSides` and the inductive invariant `LoadInv`, which begins
  with the types (section 5).

The assumption `ProgramsAreOrderly` shows that all these programs are of the kind
that the theorems about packets are proved for, so that their hypotheses exclude
none of what is in the run; `MCRank` is the depth of the groups, and the deepest
needs `JumpLimit`, 6.

`PipeBound` is 0 (the writer waits for the shell): the writer never reads the
kernel, so how far it is ahead changes no state of the kernel, only the number
of states; the proofs hold for every bound.  Deadlock is not checked: a load
ends, and a shell that has been killed executes nothing.  Of the rules that the
backend writes differently from what they say (section 4), negated protocols, a
forward-only permit of tcp, whose return rule is written for local packets as
well, and groups used in both directions are left out.  The nat table alters packets
and decides nothing, so the runs see it only through `NothingRefused`.

**admin.**  One command, from an output file left by an earlier one and the
rules of an earlier load, after a stop that was cut short (so that some policies
are ACCEPT and some DROP): check, reload, stop, or `filtergen -o` with one of nine
command lines (help, bad policy, no file, another family, a flush, a target
without a flusher, an unknown source or target).  Six texts: two that compile, one
that does not parse, one that fails after it has written a rule, one that aborts,
one that exits.  Any of an edit, a signal to filtergen and a signal to the shell
may come at any moment, each once; or else an `at` job.  (The job with one of the
others has too many orders for a run, and the properties are not about it.)
Checked:

* `FileWhole`: a `filtergen -o` that exits 0 leaves the whole script of the text
  it has parsed, one that exits 1 no part of a script;
* `ReloadWhole`, `StopOpens`: what an undisturbed reload or stop leaves;
* `ErrorsKeepRules`: the rules in force stay if no text of the file has made
  rules, whatever is edited or killed;
* `OneText`: what a disturbed reload leaves is the beginning of one script;
* `ReloadNeverOpen`: at no moment of a reload, disturbed or not, are the old rules
  gone and a policy not DROP;
* `AdminInv` and `PipeInv`, the inductive invariants (section 5);
* `CommandsEnd`: every command ends.  Fairness: each process runs on if it can.
  Nobody has to give commands, edit or kill.

Deadlock is not checked, because the model ends when its command has.
`PipeBound` is 0 as above.

**restore.**  Of the fifteen items of `load` those without NAT, in pairs, and
each of them before a rule that masquerades, and the program of
`forward-drop-test.filter`, over the same two older rule sets.  A rule with NAT is
given to ip6tables-restore, for which the backend refuses it, or in a direction
that both refuse; with iptables-restore it is finding 4.  filtergen may fail or be
killed between any two writes, and iptables-restore between any two lines.
Checked:

* `LoadsAtomically`: the load implements `AtomicLoad`;
* `RestoredPolicy`: as soon as the rules are replaced, nothing gets through but
  what the policy allows, and all of it does, but for forwarded packets that a
  rule for input denies (`DeniedOnInput`, `fg-iptablesrestore.c:307-315`: finding
  6); packets that are `Overlooked` are excepted, as in `load`;
* `FailsForAReason`: iptables-restore refuses no line unless filtergen has
  failed, or has declared a group twice;
* `RestoreInv`, the inductive invariant (section 5);
* `LoadEnds`: every load ends.  Fairness: filtergen runs on, and so do the shell
  and iptables-restore behind it; nobody has to kill one.

Deadlock is not checked, because a load ends.

No run uses symmetry: names such as "tcp" or "eth0" mean something to
`checkmatch`, or to the packets.

## 4. Findings

1. `EveryRuleCompiled`.  "The elements of the rule can be placed in any order"
   (`filter_syntax.5:25`).  If the target comes first and is not a list,
   `__filter_targets_to_end` puts the rest of the rule in its place and the rest
   of the *program*, which hung on the target's `next`, is lost.  filtergen
   exits 0.
2. `TestedForErrors`.  "The script will be tested for errors before reloading"
   (`fgadm.8:31`), but filtergen exits 0 for a file that does not parse, having
   written the skeleton.  The reload then replaces the firewall by one that
   drops everything.
3. `TestsKept` on a name with two addresses and no mask: `resolver.c:224` tests
   the mask of the argument it copies, and leaves the one of the copy as malloc
   returned it.  `glue.c` reads it.
4. `LoadsAtomically` on a rule that masquerades, after another.
   `filter_backends.7:20` says the ruleset "is loaded atomically".  The backend
   closes the filter table, writes the nat table and opens the filter table again
   (`fg-iptablesrestore.c:348`).  The first COMMIT puts the rules before that in
   force.  iptables-restore empties a table when it is opened, so the chain FORW_OUT
   is gone, the next line appends to it, and iptables-restore gives up there: the
   first part of the rules stays in force, and the rest is never loaded.
5. `DenialsHold` on a rule that rejects tcp, before one that accepts everything.
   "Allow rules include state.  Deny rules don't" (`fg-iptables.c:29-30`), but the
   backend tests NEW,ESTABLISHED in every rule for tcp or udp (`fg-iptables.c:192`),
   so that a RELATED packet, which the first rule should turn away, is accepted by
   the second.
6. `ForwardedPass` on the program of `examples/forward-drop-test.filter`.  Its
   comment (lines 1-4) wants the DROP out of FORWARD, "otherwise packets for the
   second block will get dropped before they're accepted".  The iptables backend
   does as it says; the one for iptables-restore, which "supports all of the
   features of the iptables driver" (`filter_backends.7:20-21`), puts DROP and
   REJECT into FORWARD (`fg-iptablesrestore.c:307-315`).

Finding 1 was reproduced with the C functions themselves.

Differences without a run of their own, met while modelling:

* `gen.c:165` tests `u.ports.src.maxstr` where it means the destination port, so
  the example of the GROUPING section of `filter_syntax.5`, which has
  `sport 1:1023 dport ssh`, is refused, and a duplicate destination port is not
  (reproduced with the C functions);
* `new_filter_host` (`filter.c:158`) reports a mask that it cannot parse and returns
  NULL; the list goes on without the node, and filtergen exits 0 with a rule that
  has lost its test, although the matches "decide if this rule will be used"
  (`filter_syntax.5:63-65`);
* after `include`, a newline and the name, the rest of that file is reported one
  line too far up: flex counts no newline that only its default rule matches;
* a NAT rule inside a group goes to a chain of the nat table that nobody creates
  (`fg-iptables.c:372`, 406), and iptables refuses it;
* `oneway` becomes a routing type (`glue.c:485`); the backends look at
  `e->oneway`, which nothing sets (`filter_syntax.5:88`);
* `! { source foo dest bar } drop` (`t/tneg.filter:17`): the negation pass appends
  the target to a list that still has a child, and `filter_append` aborts
  (`filter.c:303`);
* a negated list, or a negated name with several addresses, becomes alternatives
  of negations, which between them fit every packet;
* `proto !tcp` (`filter_syntax.5:75`): the protocol is the one match that is
  printed without its negation (`fg-iptables.c:176`), so the rule fits tcp only;
* a group that is used in both directions,
  `{input eth0 source a; output eth1 source b} group ...`, has the rules of one
  direction and the return rules of the other in the same chain.  The return jump
  of the first tests no state if there is no protocol to give it one
  (`fg-iptables.c:355`), so that a new packet to `a` on its way out gets to the
  rules that were meant for `b` (the man page has no such group);
* `fgadm.8:57-65` has `at` run `fgadm stop` next to a reload, "useful to abort
  firewalls in an emergency".  If it comes while the reload is loading, the two
  scripts alternate, and what is left may be policies of one and a flush of the
  other (`fgadm.in:76`);
* the files of a directory are all pushed before the first is read, and the
  limit of `sourcefile.c:31` against infinite recursion counts them, so that of
  more than a hundred files "under there" (`filter_syntax.5:234`) some are
  skipped;
* a permit for forwarded packets alone has a return rule that is written for local
  packets as well (`fg-iptables.c:377`);
* the reload of fgadm pipes the script of this backend into `iptables-restore`
  (`fgadm.in:53-54`), but the script is one for `sh`, with a here-document in
  it: its first line is no input of iptables-restore, and the reload never
  loads.  What `flush_iptrestore` prints is neither;
* `filtergen -F reject` prints `-P chain REJECT` (`fg-iptables.c:513`), which
  iptables refuses;
* the filtergen backend leaves out, without a word, `!`, `masq` and `redirect`,
  `local` and `forward`, and the text of a log.

## 5. Proofs

Every `Spec => []...` below holds for all values of the constants that satisfy
the assumptions named with it, and has been proved to the last step.

TLAPS has no induction over data here, because the library's induction theorems
take an operator as a parameter.  What is needed of it is induction over Nat as
a statement about sets, `Induction` in `SeqLemmas`, which follows from `Least`.
With it the proofs speak of texts that are joined (`Joining`) and of scripts that
are executed command by command (`Stage` in `NetfilterProofs`: the rules after
the first i commands), however long they are.

### The cross product

`GenProofs` proves, for every heap (cyclic ones included), every backend whose
`rule` callback never returns 0, and every default routing type:

| theorem | statement |
|---|---|
| `TypeCorrect` | `GenSpec => []GenTypeOK` |
| `Invariance` | `GenSpec => []GenInv` |
| `MatchesKept` | `GenSpec => []NoMatchLost` |
| `NegationsKept` | `GenSpec => []NegFaithful` |
| `ListsCount` | `GenSpec => []CountNeverZero` |
| `GroupsFirst` | `GenSpec => []ChainDeclaredFirst` |
| `ErrorsFinal` | `GenSpec => ErrorIsFinal` |
| `GroupedCalls` | `GenSpec => []Grouped(CallsMade)`: every group has a name and comes before the rules and groups that need it |
| `CheckedCalls` | `GenSpec => []Checked(CallsMade)`: no rule is without what `checkmatch` wants of it |

Assumptions: `ValueAssumption` (NULL is not a value), `GenAssumption` (callbacks
return a positive count or a negative error, as all of `output/*` do), and
`HeapOK` of the initial heap, which `Compiler!TypeOK` checks of the heaps that
the passes leave.

`NoMatchLost` speaks of emitted rules only and is not inductive.  `GenInv` says
the same of every entry that is suspended on the stack or running (`CtxInv`),
because each of them will be copied into a rule; it adds that a field which may
be set only once still holds what the path has set it to (so that the test for a
duplicate is a test for a second node of the type), that every group an entry
names has been announced, that the count of a list that has been entered is
positive, and that a negative value exists only while it is being returned.
Each action touches one entry or one frame; `ExtendPath` is the step along a
path, `Later` and `Emitted` say that a call to the backend disturbs nothing.

`GroupedCalls` is the promise of `gen.c` on which the two iptables backends rely:
`NoneRefused` and `RestoreAccepted` below ask `Grouped` of a program.
`CheckedCalls` is another: the theorems about packets ask of a rule what
`checkmatch` has seen to.

### The include stack

`IncludeProofs` proves, for every file system and every limit:

| theorem | statement |
|---|---|
| `IncludeTypes` | `Spec => []TypeOK` |
| `IncludeInvariance` | `Spec => []IncludeInv` |
| `OpenFiles` | `Spec => []OpenFilesBounded` |
| `Positions` | `Spec => []LinesRight` |

`OpenFilesBounded` cannot be seen from the stack alone: `srcfile_depth` counts
failed pushes too.  `IncludeInv` says how much: the depth is the number of open
sources and of the pushes that came to nothing, so a bound on the depth is one
on the stack.  For `LinesRight` it says of the global line number, and of the one
that every suspended source remembers, what `Told` says of a token's: it is the
line the scanner is at in that file, or further up by no more than the newlines
there that flex has left uncounted (`Uncounted`).

### The load

`LoadProofs` proves, for all programs, all rules in force before and every
capacity of the pipe, with both processes liable to stop anywhere:

| theorem | statement |
|---|---|
| `LoadInvariance` | `Spec => []LoadInv` |
| `FailsClosed` | `Spec => []NeverOpen`: the old rules, or DROP as every policy |
| `ForwardedPassBoth` | `Spec => []BothSides`: no chain that packets meet on their way in accepts a forwarded one |
| `LoadTypes` | `Spec => []TypeOK` |
| `NoneRefused` | `Spec => [](Grouped(program) => NothingRefused)`: iptables refuses nothing but a group announced again, and a NAT rule inside a group |
| `LoadFailsClosed` | `Spec => [](Orderly(program) => FailClosed)`: what gets through at any moment, the old rules let through while they are in force, and the policy allows after, `Overlooked` packets apart |
| `LoadedRules` | `Spec => [](Orderly(program) => LoadedPolicy)`: at the end, exactly what the policy allows gets through, `Overlooked` packets apart |

Assumptions: `ValueAssumption`, `FirewallAssumption` for the last two (packets
are packets, only tcp has SYN, NULL is none of tcp, udp and icmp), and
`LoadAssumption`: the calls are of the type `gen.c` makes them, and the old rules
are a rule set.  `Grouped` is no restriction: `GroupedCalls` proves it of the
calls of `filtergen_cprod`.  `Orderly` is one, see "The fate of a packet" below.

`NeverOpen` and `BothSides` speak of the kernel, and what threatens them is in
the pipe.  A load has four steps to take before it builds: a policy for each
builtin chain, and the flush.  `LoadInv` says that whatever a command in the
pipe needs of these is over or ahead of it (`InOrder`), that the same holds of
what will be written next (`Prepared`), and that no command undoes a step
(`Harmless`).  `StepStays` and `StepTaken` are about the kernel, `RuleSafe`,
`GroupSafe` and `SkeletonCloses` about what is written, `PipeGrows` and
`Executed` about the two ends of the pipe.

`NothingRefused` speaks of the commands that have been executed.  `RefusalInv`
(in `LoadProofs`) adds those to come: from the rules in force, every command in
the pipe will be accepted in its turn, and when all have been executed the chains
are those of the calls made so far (`Built`).  So the next rule finds its chains,
and the next group is new or announced again.

`FailClosed` and `LoadedPolicy` are about packets; their proofs are the subject
of "The fate of a packet" below.

### iptables-restore

`RestoreProofs` proves, for all programs, both families and all rules in force
before, with filtergen and iptables-restore liable to stop anywhere:

| theorem | statement |
|---|---|
| `RestoreTypes` | `Spec => []TypeOK` |
| `RestoreInvariance` | `Spec => [](NatFree => RestoreInv)` |
| `RestoresAtomically` | `Spec /\ NatFree => LoadsAtomically`: the load implements `AtomicLoad` |
| `RestoreAccepted` | `Spec => [](NatFree /\ Grouped(program) => FailsForAReason)` |
| `RestoredRules` | `Spec => [](NatFree /\ Orderly(program) => RestoredPolicy)`: once the rules are replaced, nothing gets through but what the policy allows, and all of that but what is `DeniedOnInput`, `Overlooked` packets apart |

Assumptions: `ValueAssumption`, `FirewallAssumption` for the last, and
`RestoreAssumption` (the calls are of the type `gen.c` makes them, the old rules
are a rule set, no table is called NULL). `NatFree` says that a rule which needs
the nat table is one that the backend refuses.  Without it the theorems are false:
that is finding 4.

The refinement maps `force` to `kernel` and `new` to `whole`; a load is over when
the rules are not the old ones any more, or when iptables-restore has ended.  Two
kinds of steps are not stutters: the `Commit`, which has to be a `Replace` (or to
change nothing), and an end without one, which is a `GiveUp`.  That `Commit` puts
`whole` in force cannot be seen from the draft, which is anything at all half way.
`RestoreInv` says of what is still to be read that it is one section
(`OneSection`: no second table is opened, and COMMIT is its last line or, if
filtergen has failed, is missing) and that obeying it makes the draft what the
whole script stands for. While the shell still waits, the same is said of the
emptied old table, and `WholeMeant` of the constant `whole`.  `AcceptInv` is
`RefusalInv` again: each line that is unread will be accepted, unless it announces
a group twice.

### The fate of a packet

`FirewallProofs` relates what chains decide to what the calls say, for every
program, every kernel, every packet that is not `Overlooked` (`Heeded`), and both
backends (`final` tells them apart: for iptables-restore a denial on the way in is
final).  `Due` is what should get through: what is `Allowed` and, for
iptables-restore, not `DeniedOnInput`.  The argument goes in four stages.

*One rule.*  `RuleAdmits`: the tests of a rule admit exactly the packets that it
fits, in the states that a rule for tcp or udp asks for (`Asked`).
`ReturnAdmits`: those of a return rule admit the answers, and, where there is no
state to test, other packets too, for which it must then lead nowhere.

*One chain.*  A chain jumps to others, so what it decides depends on what they
do.  `Ideal` says of any function from chains to verdicts that it is what the
finished chains should decide, and `Told` that a chain decides, *if the others are
ideal*, what the first s calls say of its group and direction (`Meets`).  `MeetsRule`
is the step from one call to the next: the text of a rule goes to the end of a
chain, and that of a return rule to its head, which is sound because an answer
denies nothing (`AnswersPermit`).  A group to which a rule jumps has said all
that it will ever say (`HeardSettled`).

*All chains.*  `Led` says where chains go on to, and `Height` how many jumps it takes
until one has decided: groups are nested, forwarded packets go from FORWARD to
FORW_OUT, and both to INVALID.  `ChainsDecide` is the induction on the jumps: with
as many jumps as its height, a chain decides what it should.  `ShapedKeeps` draws
the conclusion for packets: chains that are `Shaped` (told, led, DROP as policies)
by the calls made so far let through only what is `Due` by the whole program, and
all of it if no call is missing.

*All commands.*  `Through(A, s, B, I)` says that the commands s, one by one, take
any kernel in A to one in B, and through I all the while.  `RuleThrough`,
`GroupThrough` and `GroundThrough` say this of the output of each callback and
of the skeleton.  While the rules give way, the kernel is `Waning`: the old rules
under policies that are partly DROP, then chains that accept nothing
(`BarrenStops`).

For `Load`, `PolicyInv` says that every stage of the pipe, from the rules in force
to those when all that is in it has been executed, is waning or shaped, and that
the last of them has the texts of the calls made so far.  A process that is killed
removes nothing from this.  For `IptablesRestore`, `ReplacedInv` says that the
rules in force, if they are not the old ones, are `whole`, that filtergen has then
come to its end, and that no call it has made was one that the callback refuses
(`Unrefused`); `WrittenThrough` leads from the empty tables through the script to
chains that are shaped.  `PolicyInv` is not one of the runs' invariants: `Told`
quantifies over everything that other chains might decide.  What it implies is
checked by `load`.

`Orderly` asks of a program:

* `Grouped`, which `GroupedCalls` proves of the calls of `filtergen_cprod`;
* of each rule (`Rendered`), that ports come with tcp or udp and types with icmp,
  which `CheckedCalls` proves of the same calls (`checkmatch`, `gen.c:56-66`), and
  a jump with the name of a group; that
  the protocol is not negated, which the backends do not print (section 4); and
  that a rule with a return rule is not for forwarded packets only, because the
  return rule is written for local ones as well;
* `FilledFirst` and `Nested`: a group has its rules before the first jump to it, no
  group jumps to itself, and the kernel can follow.  A group is walked right
  before the jump (`gen.c`, `F_SUBGROUP`), and its depth is that of the source
  text;
* `OneWay`: a group is used in one direction only.  This is where the backends
  differ from any policy (section 4).

The programs of both runs satisfy all of it, and between them use every other kind
of rule; TLC checks that when it evaluates `ProgramsAreOrderly`.  RELATED packets
are not excluded by `Orderly` but, where a rule overlooks them, by name in the
properties; for rules that test no state (icmp, or no protocol) and for permits
they are covered like all others.

### fgadm

`FgadmProofs` proves, for all texts and what becomes of them, all rules in force,
any number of commands, every combination of troubles and every capacity of the
pipe:

| theorem | statement |
|---|---|
| `AdminInvariance` | `Spec => []AdminInv` |
| `RulesKept` | `Spec => []ErrorsKeepRules`: a reload that finds no text of which filtergen makes rules leaves the rules in force alone |
| `PipeInvariance` | `Spec => []PipeInv` |
| `FilesWhole` | `Spec => []FileWhole`: `filtergen -o` leaves a whole script if it exits 0, and no part of one if it exits 1 |
| `ReloadsWhole` | `Spec => []ReloadWhole`: an undisturbed reload loads all of the script, or nothing if the text makes no sense |
| `LoadsOneText` | `Spec => []OneText`: whatever disturbs a reload, it has loaded the beginning of the script of one text |
| `ReloadsNeverOpen` | `Spec => []ReloadNeverOpen` |
| `StopsOpen` | `Spec => []StopOpens`: an undisturbed stop leaves every builtin chain empty, at ACCEPT, and no other |

Assumptions: `DriverAssumption` (a compilation ends in one of four ways, a text
that does not parse makes no rules, and the null pointer is neither a text nor a
policy), `CallbackAssumption` (the callbacks create chains and write rules, and
print no policy and no flush, as one sees of `RuleCommands` and `GroupCommands`)
and `FgadmAssumption` (a filtergen run by hand writes to a file, and the old rules
and the old file are of their types).

The danger is an exit status of 0 from a test that has made no rules, or a shell
left over from an earlier command.  `AdminInv` follows a test through `main()`
(`StatusTells`: the text that has been parsed has been in the file, an error of
the compiler is still in `l`, and 0 is returned only without one), says that a
shell runs only behind a command that has got past its test, and that an edit
only adds to the texts that have been in the file.  `MainTells` is the step of
`main()`, `GiveAdmin` that of a new command.  "Makes rules" is what the exit
status says, not what the reader may hope: finding 2 is about a text that makes
rules and does not parse.

`PipeInv` is about whole scripts.  What the shell has executed, what is in the
pipe and what filtergen has still to write are one after the other the script of
one text (`Piped`); an output file holds what has been written (`Filed`).
`SoFar` is what a run has written at each place of `main()`, `Parsed` ties it to
the chunks that are left.  A signal cuts the pipe or the file short and ends the
writer, so what is there stays a beginning.  `Tests` and `Loads` carry this, and
what an undisturbed command can rely on, from stage to stage.  The invariant
holds next to `AdminInv`, which says that a shell has a test behind it.  For
`StopOpens` there is `FlushOpens`: a flush executed from the first command to the
last empties the filter table whatever is in it.  For `ReloadNeverOpen`,
`ScriptShuts` says that a script sets the policies first and never again, and
`BeginningShuts` that every beginning of such a script has changed no rule or
has set them all.  Both invariants have also been checked by TLC for two
commands in a row, which has too many states for a run of the project.

An `at` job that runs next to a command is excluded in each of these theorems
(`Alone`, `~disturbed`): section 4 says what it can do.

### Only model-checked

* Liveness (`Terminates`, `CommandsEnd`, `LoadEnds`), which needs ENABLED.
* Everything about `Glue`, `Resolver`, `Unroll`, `Emit` and `Meaning`, and with it
  the properties of `Compiler`: its types, `SinglePathOut`, `Acyclic`,
  `PassesSucceed`, `ReprintsProgram` and the refinement `ImplementsPolicy`.  These
  are recursions over trees and over a heap that they rewire, written with
  RECURSIVE operators as the code is; the provers cannot unfold those.
* The expansion in `ReadsLiterally`, for the same reason: files that include
  files are a tree.

## 6. Plan

What is left, in this order:

1. `BothSides` for the reloads of fgadm: it needs `Harmless` of the chunks, and a
   lemma that it holds at every stage of a script.
2. `Load` and `IptablesRestore` for the calls of a `Gen` that runs in front of
   them, so that `Grouped` and `Orderly` are asked of a tree and not of a list of
   calls.
3. The packets of a group that both directions use: what the chains then decide,
   instead of `OneWay`.
4. The operations of `Compiler` that are not recursive (`HeapOK` of what the
   constructors return), as lemmas on `FilterIR`.

### Not modelled

* *The scanner's tables and the parser* are generated.  What the start
  conditions of the scanner do is in `IncludeStack`.
* *ipchains* has no states and answers by `! -y`; the fate of a packet would need
  a kernel of its own, and the one property that is not about that kernel
  (order, groups) is `ImplementsPolicy`.
* *ipfilter and cisco* write one line per rule and keep no state between two
  calls.  What differs is the wording.  That they call `filter_nogroup` is in
  `Compiler`.
* *Of the iptables-restore backend*: the flusher, and the branch of fgadm
  (section 4), which never loads anything.
* *Of both iptables backends*: the option that leaves out the skeleton, and
  lightweight state matching, whose flag the driver never sets.
* *The iptables-save reader*, the new IR, the factoriser, the expression and
  diff stubs and the Rust prototype are not part of a compilation, and several
  of their functions are empty.
* *Write errors*: `oputs.c` and `filtergen.c` look at no return value of
  `fprintf` or `fclose`, so that a full disk leaves part of a file and exit
  status 0.  The file in `Driver` has room.
