-------------------------------- MODULE Fgadm --------------------------------
(***************************************************************************)
(* fgadm, for the backends that it loads with a shell, and filtergen run   *)
(* by hand.  One command at a time, but for a job that at runs; the rules  *)
(* file may be edited and processes killed at any time.                    *)
(*                                                                         *)
(* reload runs filtergen twice: once for its exit status, and if that is 0 *)
(* once more into a shell.                                                 *)
(***************************************************************************)
EXTENDS Driver

CONSTANTS
    OldRules,       \* the rules that may be in force at first
    OldFiles,       \* what the output file may hold at first
    ByHand,         \* command lines of filtergen run by hand
    Commands,       \* how many commands are given
    Troubles        \* which kinds of trouble may come together, each once

ASSUME FgadmAssumption ==
    /\ \A k \in OldRules : IsKernel(k)
    /\ \A f \in OldFiles : f = NoFile \/ (f = Holding(f.lines) /\ f.lines \in Seq(Command))
    /\ ByHand \subseteq { a \in CommandLine : a.to = "file" }
    /\ Commands \in Nat
    /\ Troubles \subseteq SUBSET {"edit", "filtergen", "shell", "job"}

VARIABLES
    command,        \* the last command given
    stage,          \* how far it has got
    kernel,         \* the rules in force
    job,            \* what a job started by at has still to execute
    given,          \* how many commands have been
    trouble,        \* what kinds of trouble have been
    before,         \* history: the rules in force and the file at its start
    texts,          \* history: what the rules file has held since
    disturbed       \* history: has there been trouble since

adminVars == <<command, stage, given, before, texts>>

vars == <<driverVars, adminVars, kernel, job, trouble, disturbed>>

(* What fgadm runs.                                                        *)
Plain == [info |-> FALSE, compile |-> FALSE, flush |-> NULL, infile |-> TRUE,
          to |-> "pipe", source |-> "filtergen", target |-> "iptables"]

TestArgs == [Plain EXCEPT !.to = "null"]

(* A wrong variant: rules without the skeleton.                            *)
LoadArgsCompileOnly == [Plain EXCEPT !.compile = TRUE]

LoadArgs == Plain

(* A wrong variant: what fgadm stop is not for.                            *)
StopArgsDrop == [Plain EXCEPT !.flush = "DROP", !.infile = FALSE]

StopArgs == [Plain EXCEPT !.flush = "ACCEPT", !.infile = FALSE]

-----------------------------------------------------------------------------
Init ==
    /\ NotStarted
    /\ command = "none" /\ stage = "idle"
    /\ kernel \in OldRules /\ file \in OldFiles
    /\ given = 0 /\ trouble = {}
    /\ job = <<>>
    /\ before = [kernel |-> kernel, file |-> file]
    /\ texts = {text}
    /\ disturbed = FALSE

(* check, reload, stop; and a filtergen that fgadm has no part in          *)
Give(c, first, a) ==
    /\ stage = "idle" /\ given < Commands
    /\ command' = c /\ stage' = first
    /\ given' = given + 1
    /\ before' = [kernel |-> kernel, file |-> file]
    /\ texts' = {text} /\ disturbed' = (job # <<>>)
    /\ Start(a)
    /\ UNCHANGED <<kernel, trouble, job>>

Check == Give("check", "alone", TestArgs)

Compile == \E a \in ByHand : Give("compile", "alone", a)

Reload == Give("reload", "test", TestArgs)

Stop == Give("stop", "pipeline", StopArgs)

Ended(s) == stage = s /\ status # "running"

Proceed(s) ==
    /\ stage' = s
    /\ UNCHANGED <<command, given, before, texts, kernel, disturbed, trouble, job>>

(* A wrong variant: whatever the test says.                                *)
TestPassedAnyway ==
    /\ Ended("test")
    /\ Start(LoadArgs)
    /\ Proceed("pipeline")

TestPassed ==
    /\ Ended("test") /\ status = "success"
    /\ Start(LoadArgs)
    /\ Proceed("pipeline")

TestFailed ==
    /\ Ended("test") /\ status # "success"
    /\ Proceed("idle")
    /\ UNCHANGED driverVars

CommandEnds ==
    /\ Ended("alone") \/ (Ended("pipeline") /\ shell # "running")
    /\ Proceed("idle")
    /\ UNCHANGED driverVars

(* The shell at the end of the pipe.                                       *)
Execute ==
    /\ shell = "running" /\ pipe # <<>>
    /\ kernel' = After(kernel, Head(pipe))
    /\ pipe' = Tail(pipe)
    /\ UNCHANGED <<text, mainVars, file, shell, adminVars, disturbed, trouble, job>>

EndOfFile ==
    /\ shell = "running" /\ pipe = <<>> /\ status # "running"
    /\ shell' = "done"
    /\ UNCHANGED <<text, mainVars, file, pipe, adminVars, kernel, disturbed, trouble, job>>

Filtergen == Main /\ UNCHANGED <<adminVars, kernel, disturbed, trouble, job>>

(* Trouble, which may come at any time.                                    *)
Strikes(kind) ==
    /\ kind \notin trouble
    /\ trouble' = trouble \union {kind} /\ trouble' \in Troubles
    /\ disturbed' = TRUE

Edit ==
    /\ Strikes("edit")
    /\ text' \in Text \ {text}
    /\ texts' = texts \union {text'}
    /\ UNCHANGED <<mainVars, file, pipe, shell, command, stage, given, before, kernel, job>>

FiltergenKilled ==
    /\ Strikes("filtergen")
    /\ Killed
    /\ UNCHANGED <<adminVars, kernel, job>>

ShellKilled ==
    /\ Strikes("shell")
    /\ shell = "running"
    /\ shell' = "killed"
    /\ UNCHANGED <<text, mainVars, file, pipe, adminVars, kernel, job>>

(* at> fgadm stop                                                          *)
JobBegins ==
    /\ Strikes("job")
    /\ job' = FlushScript(StopArgs)
    /\ UNCHANGED <<driverVars, adminVars, kernel>>

JobExecutes ==
    /\ job # <<>>
    /\ kernel' = After(kernel, Head(job))
    /\ job' = Tail(job)
    /\ UNCHANGED <<driverVars, adminVars, trouble, disturbed>>

Fgadm == TestPassed \/ TestFailed \/ CommandEnds

Shell == Execute \/ EndOfFile

Next ==
    \/ Check \/ Compile \/ Reload \/ Stop
    \/ Fgadm \/ Filtergen \/ Shell
    \/ Edit \/ FiltergenKilled \/ ShellKilled \/ JobBegins \/ JobExecutes

(* The scheduler lets every process run; nobody has to give a command, to  *)
(* edit or to kill.                                                        *)
Spec ==
    /\ Init /\ [][Next]_vars
    /\ WF_vars(Fgadm) /\ WF_vars(Filtergen) /\ WF_vars(Shell) /\ WF_vars(JobExecutes)

-----------------------------------------------------------------------------
(***************************************************************************)
(* Properties                                                              *)
(***************************************************************************)

(* Type invariant.                                                         *)
TypeOK ==
    /\ text \in Text /\ texts \subseteq Text /\ text \in texts
    /\ args \in CommandLine
    /\ pc \in {"options", "output", "tables", "flush", "parse", "unroll", "rules", "close", "exited"}
    /\ status \in {"running", "success", "failure", "killed"} /\ l \in {0, -1} /\ said \in BOOLEAN
    /\ pc = "exited" <=> status # "running"
    /\ source \in Text \union {NULL}
    /\ source = NULL => rest = <<>>
    /\ source # NULL =>
        \E n \in 0..Len(Compiled[source].chunks) :
            rest = SubSeq(Compiled[source].chunks, n + 1, Len(Compiled[source].chunks))
    /\ status = "success" => rest = <<>>
    /\ file \in [exists : BOOLEAN, lines : Seq(Command)]
    /\ ~file.exists => file = NoFile
    /\ pipe \in Seq(Command) /\ job \in Seq(Command)
    /\ shell \in {"running", "done", "killed"}
    /\ command \in {"none", "check", "compile", "reload", "stop"}
    /\ stage \in {"idle", "alone", "test", "pipeline"}
    /\ IsKernel(kernel)

(* A filtergen -o that exits 0 leaves the whole script of the text it has  *)
(* parsed; one that exits 1 leaves no part of a script: the file is gone,  *)
(* empty, or what it was.  Edits and earlier runs make no difference.      *)
FileWhole ==
    args.to = "file" /\ command = "compile" =>
        /\ status = "success" /\ ~args.info => file = Holding(Script(args, source))
        /\ status = "failure" => file \in {NoFile, Holding(<<>>), before.file}

Idle(c) == command = c /\ stage = "idle"

Makes(t) == Compiled[t].outcome = "rules"

(* A reload that nothing disturbs replaces the rules in force by all of    *)
(* the script, or leaves them alone if the text makes no sense.            *)
ReloadWhole ==
    Idle("reload") /\ ~disturbed =>
        kernel = IF Makes(text) THEN Effect(before.kernel, Script(Plain, text))
                 ELSE before.kernel

(* Whatever is edited or killed, and whenever: as long as no text of which *)
(* filtergen makes rules has been in the file since the reload was given,  *)
(* the rules in force stay.                                                *)
Alone == "job" \notin trouble

ErrorsKeepRules ==
    command = "reload" /\ Alone /\ (\A t \in texts : ~Makes(t)) => kernel = before.kernel

(* A reload that is cut short or overtaken by an edit may not load what it *)
(* has tested, but what it loads is the beginning of one script, and never *)
(* a mixture of two.                                                       *)
OneText ==
    command = "reload" /\ Alone =>
        \E t \in texts : \E n \in 0..Len(Script(Plain, t)) :
            kernel = Effect(before.kernel, SubSeq(Script(Plain, t), 1, n))

(* Nor is there a moment of a reload, however it is cut short, at which    *)
(* the old rules are gone and a packet that no rule decides gets through.  *)
ReloadNeverOpen ==
    command = "reload" /\ Alone =>
        kernel.rules = before.kernel.rules \/ \A b \in Builtin : kernel.policy[b] = "DROP"

(* "This command will flush the current live packet filter out and put it  *)
(* in a default accept mode" (fgadm.8:43), whatever has been loaded.       *)
IsOpen(k) ==
    /\ \A b \in Builtin : k.policy[b] = "ACCEPT"
    /\ Exists(k) = BuiltinChains
    /\ \A c \in Exists(k) : k.rules[c] = <<>>

StopOpens == Idle("stop") /\ ~disturbed => IsOpen(kernel)

(* Every command ends: filtergen or the shell may be killed while the      *)
(* other waits for it, and neither waits for ever.                         *)
CommandsEnd == stage # "idle" ~> stage = "idle"

-----------------------------------------------------------------------------
(***************************************************************************)
(* The inductive invariant: what the exit status of a test says, and who   *)
(* can touch the rules in force.                                           *)
(***************************************************************************)
StatusTells ==
    /\ pc # "flush"
    /\ pc \in {"unroll", "rules", "close"} => source \in texts
    /\ pc = "rules" => Compiled[source].outcome \notin InPasses
    /\ pc = "close" /\ ~(l < 0) => Makes(source)
    /\ status = "success" => source \in texts /\ Makes(source)

(* While a reload tests, the exit status will only be 0 if a text that has *)
(* been in the file makes rules; nothing executes commands but the shell   *)
(* of a command that has got past its test, and the job.                   *)
AdminInv ==
    /\ text \in texts /\ texts \subseteq Text
    /\ stage = "test" => command = "reload" /\ args = TestArgs /\ StatusTells
    /\ shell = "running" => stage = "pipeline"
    /\ job # <<>> => ~Alone
    /\ ErrorsKeepRules
    /\ command = "reload" /\ stage = "pipeline" => \E t \in texts : Makes(t)

-----------------------------------------------------------------------------
(***************************************************************************)
(* The inductive invariant of what is written and executed.  The commands  *)
(* that a shell has executed and those in the pipe are, one after the      *)
(* other, what filtergen has written so far; a file holds just that.       *)
(***************************************************************************)
Beginnings(s) == { SubSeq(s, 1, n) : n \in 0..Len(s) }

(* The script that filtergen is about to write, once it knows.             *)
Meant == IF args.flush = NULL /\ source = NULL THEN <<>> ELSE Script(args, source)

SoFar == Printed(args, source)[Len(Compiled[source].chunks) - Len(rest)]

BeforeRules == {"options", "output", "tables", "flush", "parse", "unroll"}

(* No job interferes.                                                      *)
Quiet == Alone \/ ~disturbed

Parsed ==
    /\ pc \notin {"options", "exited"} => ~args.info /\ ~WrongUsage
    /\ pc = "flush" => args.flush # NULL
    /\ pc = "parse" => args.flush = NULL
    /\ pc \in {"unroll", "rules"} => args.flush = NULL /\ source # NULL
    /\ pc \in {"options", "output", "tables", "parse"} \/ args.flush # NULL => source = NULL
    /\ status = "success" /\ args.flush = NULL /\ ~args.info => source # NULL
    /\ pc = "unroll" => rest = Compiled[source].chunks
    /\ pc \in {"rules", "close"} /\ args.flush = NULL => Compiled[source].outcome \notin InPasses
    /\ pc = "close" /\ args.flush = NULL =>
          source # NULL /\ rest = <<>> /\ (l < 0 <=> Compiled[source].outcome = "error")
    /\ pc \notin {"close", "exited"} \/ args.flush # NULL => l = 0

Filed ==
    args.to = "file" /\ command = "compile" =>
        /\ pc \in {"options", "output"} => file = before.file
        /\ pc \in {"tables", "flush", "parse", "unroll"} => file = Holding(<<>>)
        /\ pc = "rules" => file = Holding(SoFar)
        /\ pc = "close" => file = Holding(Script(args, source))

Piped ==
    \E u \in Beginnings(Meant) :
        /\ kernel = Effect(before.kernel, u)
        /\ pc \in BeforeRules => u \o pipe = <<>>
        /\ pc = "rules" => u \o pipe = SoFar
        /\ pc = "close" \/ status = "success" => u \o pipe = Meant
        /\ pc = "exited" => u \o pipe \in Beginnings(Meant)

Tests ==
    /\ command = "reload" /\ args = TestArgs
    /\ Quiet => kernel = before.kernel
    /\ source # NULL => source \in texts
    /\ ~disturbed /\ status \in {"failure", "killed"} => ~Makes(text)

Loads ==
    /\ command \in {"reload", "stop"}
    /\ args = IF command = "reload" THEN LoadArgs ELSE StopArgs
    /\ source # NULL => source \in texts
    /\ command = "stop" => source = NULL
    /\ Quiet => Piped
    /\ shell = "done" => status # "running" /\ pipe = <<>>
    /\ ~disturbed =>
          /\ shell # "killed" /\ status \in {"running", "success"}
          /\ command = "reload" => Makes(text)

PipeInv ==
    /\ TypeOK
    /\ IsKernel(before.kernel)
    /\ ~disturbed => job = <<>> /\ texts = {text}
    /\ job # <<>> => ~Alone
    /\ shell = "running" => stage = "pipeline"
    /\ Parsed /\ Filed /\ FileWhole
    /\ args.to = "file" => command = "compile"
    /\ stage = "test" => Tests
    /\ stage = "pipeline" => Loads
    /\ stage = "alone" => command \in {"check", "compile"}
    /\ ReloadWhole /\ OneText /\ StopOpens

-----------------------------------------------------------------------------
(* "The script will be tested for errors before reloading" (fgadm.8:31): a *)
(* reload gets past its test only if filtergen has found no error.         *)
TestedForErrors == [][stage = "test" /\ stage' = "pipeline" => ~said]_vars
=============================================================================
