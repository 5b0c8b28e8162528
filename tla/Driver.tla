------------------------------- MODULE Driver -------------------------------
(***************************************************************************)
(* A filtergen process: main() of filtergen.c, with the output it writes   *)
(* to a file, to a pipe with a shell at its end, or to nowhere.            *)
(*                                                                         *)
(* Of a text only what becomes of it is known: whether it parses, what the *)
(* callbacks of the backend write for it, and how the compilation ends: in *)
(* rules, in an error of filtergen_cprod, or in the passes before it, by   *)
(* exit(1) or abort().  Of cisco only that it has no flusher.              *)
(***************************************************************************)
EXTENDS Iptables

CONSTANTS
    Text,       \* the texts a rules file may hold
    Compiled,   \* what becomes of each
    PipeBound   \* how many commands filtergen may be ahead of the shell

Compilation ==
    [parses : BOOLEAN, chunks : Seq(Seq(Command)), outcome : {"rules", "error", "exit", "abort"}]

ASSUME DriverAssumption ==
    /\ Compiled \in [Text -> Compilation]
    /\ \A t \in Text : ~Compiled[t].parses => Compiled[t].chunks = <<>> /\ Compiled[t].outcome = "rules"
    /\ NULL \notin Text \union {"ACCEPT", "DROP", "REJECT", "unknown"}
    /\ PipeBound \in Nat

(* The callbacks write chains and rules, and nothing else.                 *)
ASSUME CallbackAssumption ==
    \A t \in Text : \A i \in 1..Len(Compiled[t].chunks) :
        LET chunk == Compiled[t].chunks[i]
        IN  \A j \in 1..Len(chunk) : chunk[j].op \in {"-N", "-A", "-I"}

Target == {"iptables", "ip6tables", "cisco", "unknown"}

CommandLine ==
    [info : BOOLEAN,                                            \* -h, -V
     compile : BOOLEAN,                                         \* -c
     flush : {NULL, "ACCEPT", "DROP", "REJECT", "unknown"},     \* -F
     infile : BOOLEAN, to : {"file", "null", "pipe"},           \* -o, or stdout
     source : {"filtergen", "unknown"}, target : Target]        \* -s, -t

VARIABLES
    text,       \* what the rules file holds
    args,       \* the command line
    pc,         \* where main() is
    source,     \* history: the text that has been parsed
    rest,       \* what the callbacks have still to write
    l,          \* the return value of the compiler or the flusher
    status,     \* exit status: 0 is success, 1 failure
    said,       \* history: an error has been reported on stderr
    file,       \* the output file
    pipe,       \* commands written and not yet executed
    shell       \* the shell at the other end

mainVars == <<args, pc, source, rest, l, status, said>>

driverVars == <<text, mainVars, file, pipe, shell>>

NoFile == [exists |-> FALSE, lines |-> <<>>]
Holding(lines) == [exists |-> TRUE, lines |-> lines]

FamilyOf(target) == IF target = "ip6tables" THEN "AF_INET6" ELSE "AF_INET"

HasFlusher(target) == target \in {"iptables", "ip6tables"}

(* Both pass AF_INET, flush_ip6tables as well.                             *)
FlushScript(a) == FlushCommands(a.flush, "AF_INET")

Prologue(a) == IF a.compile THEN <<>> ELSE Skeleton(FamilyOf(a.target))

-----------------------------------------------------------------------------
NotStarted ==
    /\ text \in Text
    /\ args = [info |-> TRUE, compile |-> FALSE, flush |-> NULL, infile |-> FALSE,
               to |-> "null", source |-> "filtergen", target |-> "iptables"]
    /\ pc = "exited" /\ status = "success"
    /\ source = NULL /\ rest = <<>> /\ l = 0 /\ said = FALSE
    /\ pipe = <<>> /\ shell = "done"

(* exec; a pipe has a new shell at its end.                                *)
Start(a) ==
    /\ args' = a
    /\ pc' = "options" /\ status' = "running"
    /\ source' = NULL /\ rest' = <<>> /\ l' = 0 /\ said' = FALSE
    /\ pipe' = <<>>
    /\ shell' = IF a.to = "pipe" THEN "running" ELSE "done"
    /\ UNCHANGED <<text, file>>

At(place) == status = "running" /\ pc = place

Goto(place) == pc' = place /\ UNCHANGED <<args, source, rest, l, status, said>>

Quit(code) ==
    /\ pc' = "exited" /\ status' = code
    /\ said' = (said \/ code = "failure")
    /\ UNCHANGED <<args, source, rest, l>>

Elsewhere == UNCHANGED <<text, file, pipe, shell>>

Room == Len(pipe) <= PipeBound

(* A wrong variant: what finds no room is lost.                            *)
WriteLossy(commands) ==
    /\ args.to = "pipe" => shell = "running"
    /\ file' = IF args.to = "file" THEN [file EXCEPT !.lines = @ \o commands] ELSE file
    /\ pipe' = IF args.to = "pipe" /\ Room THEN pipe \o commands ELSE pipe
    /\ UNCHANGED <<text, shell>>

Write(commands) ==
    /\ args.to = "pipe" => Room /\ shell = "running"
    /\ file' = IF args.to = "file" THEN [file EXCEPT !.lines = @ \o commands] ELSE file
    /\ pipe' = IF args.to = "pipe" THEN pipe \o commands ELSE pipe
    /\ UNCHANGED <<text, shell>>

-----------------------------------------------------------------------------
(***************************************************************************)
(* main()                                                                  *)
(***************************************************************************)
WrongUsage ==
    \/ args.flush = "unknown"
    \/ args.flush = NULL /\ ~args.infile /\ ~args.info

(* -h, -V and a wrong -F end it as soon as they are met.                   *)
ReadOptions ==
    /\ At("options")
    /\ \/ args.info /\ Quit("success")
       \/ WrongUsage /\ Quit("failure")
       \/ ~args.info /\ ~WrongUsage /\ Goto("output")
    /\ Elsewhere

OpenOutput ==
    /\ At("output")
    /\ file' = IF args.to = "file" THEN Holding(<<>>) ELSE file
    /\ Goto("tables")
    /\ UNCHANGED <<text, pipe, shell>>

OutputFails ==
    /\ At("output") /\ args.to = "file"
    /\ Quit("failure")
    /\ Elsewhere

(* source_parsers and filter_types                                         *)
LookUp ==
    /\ At("tables")
    /\ IF "unknown" \in {args.source, args.target} THEN Quit("failure")
       ELSE Goto(IF args.flush = NULL THEN "parse" ELSE "flush")
    /\ Elsewhere

Flush ==
    /\ At("flush") /\ HasFlusher(args.target)
    /\ Write(FlushScript(args))
    /\ Goto("close")

(* The pointer in filter_types is null.                                    *)
NoFlusher ==
    /\ At("flush") /\ ~HasFlusher(args.target)
    /\ Quit("killed")
    /\ Elsewhere

(* A text that does not parse is reported and makes a null filter.         *)
Parse ==
    /\ At("parse")
    /\ source' = text
    /\ rest' = Compiled[text].chunks
    /\ said' = (said \/ ~Compiled[text].parses)
    /\ pc' = "unroll"
    /\ UNCHANGED <<args, l, status>>
    /\ Elsewhere

InPasses == {"exit", "abort"}

(* filter_unroll gives up; nobody removes the output file.                 *)
PassesFail ==
    /\ At("unroll") /\ Compiled[source].outcome \in InPasses
    /\ Quit(IF Compiled[source].outcome = "exit" THEN "failure" ELSE "killed")
    /\ Elsewhere

WriteSkeleton ==
    /\ At("unroll") /\ Compiled[source].outcome \notin InPasses
    /\ Write(Prologue(args))
    /\ Goto("rules")

WriteRules ==
    /\ At("rules") /\ rest # <<>>
    /\ Write(Head(rest))
    /\ rest' = Tail(rest)
    /\ UNCHANGED <<args, pc, source, l, status, said>>

(* A wrong variant: the first chunk is also the last.                      *)
RulesEndEarly ==
    /\ At("rules")
    /\ l' = IF Compiled[source].outcome = "error" THEN -1 ELSE 0
    /\ pc' = "close"
    /\ UNCHANGED <<args, source, rest, status, said>>
    /\ Elsewhere

(* A wrong variant: the error of a callback is not passed on.              *)
RulesEndRegardless ==
    /\ At("rules") /\ rest = <<>>
    /\ l' = 0
    /\ pc' = "close"
    /\ UNCHANGED <<args, source, rest, status, said>>
    /\ Elsewhere

RulesEnd ==
    /\ At("rules") /\ rest = <<>>
    /\ l' = IF Compiled[source].outcome = "error" THEN -1 ELSE 0
    /\ pc' = "close"
    /\ UNCHANGED <<args, source, rest, status, said>>
    /\ Elsewhere

(* A wrong variant: what has been written stays.                           *)
CloseOutputOnly ==
    /\ At("close")
    /\ IF l < 0 THEN Quit("failure") ELSE Quit("success")
    /\ Elsewhere

(* close_outfile, and unlink after an error                                *)
CloseOutput ==
    /\ At("close")
    /\ IF l < 0 THEN Quit("failure") ELSE Quit("success")
    /\ file' = IF l < 0 /\ args.to = "file" THEN NoFile ELSE file
    /\ UNCHANGED <<text, pipe, shell>>

(* A wrong variant: a filtergen that ignores SIGPIPE and tries again.      *)
BrokenPipeIgnored == FALSE /\ UNCHANGED driverVars

(* Writing to a shell that is gone: SIGPIPE.                               *)
BrokenPipe ==
    /\ At("flush") \/ (At("unroll") /\ Compiled[source].outcome \notin InPasses)
       \/ (At("rules") /\ rest # <<>>)
    /\ args.to = "pipe" /\ shell # "running"
    /\ Quit("killed")
    /\ Elsewhere

Opened == args.to = "file" /\ pc \notin {"options", "output"}

(* What is in the buffer of outfile is lost.                               *)
Killed ==
    /\ status = "running"
    /\ Quit("killed")
    /\ \E n \in 0..Len(file.lines) :
          file' = IF Opened THEN Holding(SubSeq(file.lines, 1, n)) ELSE file
    /\ \E n \in 0..Len(pipe) : pipe' = SubSeq(pipe, 1, n)
    /\ UNCHANGED <<text, shell>>

Main ==
    \/ ReadOptions \/ OpenOutput \/ OutputFails \/ LookUp \/ Flush \/ NoFlusher
    \/ Parse \/ PassesFail \/ WriteSkeleton \/ WriteRules \/ RulesEnd
    \/ CloseOutput \/ BrokenPipe

(* What the callbacks have written after some of the chunks, and           *)
(* everything that a run writes that ends well.                            *)
Printed(a, t) ==
    LET upto[n \in 0..Len(Compiled[t].chunks)] ==
            IF n = 0 THEN Prologue(a) ELSE upto[n - 1] \o Compiled[t].chunks[n]
    IN  upto

Script(a, t) ==
    IF a.flush # NULL THEN FlushScript(a) ELSE Printed(a, t)[Len(Compiled[t].chunks)]
=============================================================================
