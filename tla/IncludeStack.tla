---------------------------- MODULE IncludeStack ----------------------------
(***************************************************************************)
(* How the source of a program is read: scanner.l, include.c, sourcefile.c *)
(* An include pushes a file on the stack of open sources, or every file of *)
(* a directory or glob at once; the end of a file pops it.                 *)
(*                                                                         *)
(* A text is a sequence of lexemes.  Those the scanner only passes on are  *)
(* words; of the others, the ones that change its start condition, or that *)
(* one of its start conditions treats differently, are kept.               *)
(***************************************************************************)
EXTENDS Integers, Sequences, FiniteSets

CONSTANTS
    Word,                 \* what yields a token, and the names of files
    MAX_SRCFILE_DEPTH

Special == {"include", "newline", "semicolon", "open", "close"}

Lexeme == Word \union Special

ASSUME IncludeAssumption ==
    /\ Word \intersect Special = {}
    /\ "main" \in Word
    /\ MAX_SRCFILE_DEPTH \in Nat

(* What stat, glob, scandir and fopen find under a name.  A "locked"       *)
(* directory is one that scandir cannot read, "root" the directory "/".    *)
Kind == {"file", "unreadable", "directory", "locked", "root", "glob", "missing"}

FileSystem ==
    [kind    : [Lexeme -> Kind],
     text    : [Lexeme -> Seq(Lexeme)],
     members : [Lexeme -> Seq(Lexeme)],      \* sorted
     hidden  : SUBSET Lexeme]                \* names that begin with a dot

VARIABLES
    fs,        \* constant while the program is read
    stack,     \* the struct sourcefiles; the last is current_srcfile
    depth,     \* srcfile_depth
    todo,      \* what include_file has still to visit; the last is next
    start,     \* the scanner's start condition
    lineno,    \* yylineno
    pc,
    out        \* tokens for the parser, messages, and text echoed to stdout

vars == <<fs, stack, depth, todo, start, lineno, pc, out>>

(* "at" is the next lexeme of the buffer.                                  *)
SourceFile == [name : Lexeme, at : Nat \ {0}, lineno : Nat \ {0}]

(* "by" tells how a name has come up: in an include, as an entry of a      *)
(* directory, or as a match of a glob.                                     *)
Visit == [name : Lexeme, by : {"include", "directory", "glob"}]

Failure == {"depth", "fopen", "stat", "glob", "scandir", "root", "comment"}

Event ==
    [k : {"token", "echo"}, word : Lexeme, file : Lexeme, at : Nat, line : Nat]
    \union [k : {"error"}, what : Failure, name : Lexeme]

Top == stack[Len(stack)]
Item == todo[Len(todo)]
Rest == SubSeq(todo, 1, Len(todo) - 1)

AtEnd == Top.at > Len(fs.text[Top.name])
Here == fs.text[Top.name][Top.at]

Opened(name) == [name |-> name, at |-> 1, lineno |-> 1]

Onward(source, line) ==
    [name |-> source.name, at |-> source.at + 1, lineno |-> line]

(* A wrong variant: the list is taken in the order it was found in.        *)
VisitsForward(names, by) ==
    [i \in 1..Len(names) |-> [name |-> names[Len(names) + 1 - i], by |-> by]]

Visits(names, by) ==
    [i \in 1..Len(names) |-> [name |-> names[i], by |-> by]]

Error(what, name) ==
    Append(out, [k |-> "error", what |-> what, name |-> name])

Emit(k) ==
    Append(out, [k |-> k, word |-> Here, file |-> Top.name, at |-> Top.at, line |-> lineno])

-----------------------------------------------------------------------------
(* filtergen_source_parser opens the main file and starts to parse; if it  *)
(* cannot be opened nothing is read.                                       *)
Begin ==
    /\ stack = <<Opened("main")>>
    /\ depth = 1
    /\ todo = <<>>
    /\ start = "INITIAL"
    /\ lineno = 1
    /\ pc = "scan"
    /\ out = <<>>

Init ==
    /\ fs \in FileSystem
    /\ fs.kind["main"] = "file"
    /\ Begin

(* YY_USER_ACTION: the line is remembered in the current source, which is  *)
(* where the end of an included file finds it again.  yylineno has counted *)
(* the newline by then, but not one after "include": only the default rule *)
(* matches that one, and flex counts for the rules of the scanner alone.   *)
Scan(condition, lexemes) ==
    /\ pc = "scan" /\ todo = <<>>
    /\ start = condition
    /\ ~AtEnd
    /\ Here \in lexemes
    /\ lineno' = IF Here = "newline" /\ condition # "include" THEN lineno + 1 ELSE lineno
    /\ stack' = [stack EXCEPT ![Len(stack)] = Onward(Top, lineno')]
    /\ UNCHANGED <<fs, depth, pc>>

(* A token for the parser.  (A stray end of comment is two of them.)       *)
Token ==
    /\ Scan("INITIAL", Word \union {"semicolon", "close"})
    /\ out' = Emit("token")
    /\ UNCHANGED <<todo, start>>

(* \n, "include" and the beginning of a comment.                           *)
Newline ==
    /\ Scan("INITIAL", {"newline"})
    /\ UNCHANGED <<todo, start, out>>

IncludeWord ==
    /\ Scan("INITIAL", {"include"})
    /\ start' = "include"
    /\ UNCHANGED <<todo, out>>

OpenComment ==
    /\ Scan("INITIAL", {"open"})
    /\ start' = "comment"
    /\ UNCHANGED <<todo, out>>

(* In a comment nothing but its end counts.                                *)
InComment ==
    /\ Scan("comment", Lexeme \ {"close"})
    /\ UNCHANGED <<todo, start, out>>

CloseComment ==
    /\ Scan("comment", {"close"})
    /\ start' = "INITIAL"
    /\ UNCHANGED <<todo, out>>

(* After "include": no rule matches a newline or a semicolon, and flex     *)
(* copies them to standard output.  Anything else is a file name.          *)
Echo ==
    /\ Scan("include", {"newline", "semicolon"})
    /\ out' = Emit("echo")
    /\ UNCHANGED <<todo, start>>

IncludeName ==
    /\ Scan("include", Lexeme \ {"newline", "semicolon"})
    /\ todo' = Visits(<<Here>>, "include")
    /\ start' = "INITIAL"
    /\ UNCHANGED out

(* Wrong variants: the line of the including file is not restored; the     *)
(* last pop goes unnoticed; the depth is not taken down.                   *)
EndOfFileSameLine ==
    /\ pc = "scan" /\ todo = <<>>
    /\ AtEnd
    /\ start # "comment"
    /\ depth' = depth - 1
    /\ stack' = SubSeq(stack, 1, Len(stack) - 1)
    /\ pc' = IF Len(stack) = 1 THEN "done" ELSE "scan"
    /\ UNCHANGED <<fs, todo, start, lineno, out>>

EndOfFileUnnoticed ==
    /\ pc = "scan" /\ todo = <<>>
    /\ stack # <<>> /\ AtEnd
    /\ start # "comment"
    /\ depth' = depth - 1
    /\ stack' = SubSeq(stack, 1, Len(stack) - 1)
    /\ lineno' = IF Len(stack) = 1 THEN 1 ELSE stack[Len(stack) - 1].lineno
    /\ UNCHANGED <<fs, todo, start, pc, out>>

EndOfFileUncounted ==
    /\ pc = "scan" /\ todo = <<>>
    /\ AtEnd
    /\ start # "comment"
    /\ stack' = SubSeq(stack, 1, Len(stack) - 1)
    /\ IF Len(stack) = 1
       THEN pc' = "done" /\ UNCHANGED lineno
       ELSE lineno' = stack[Len(stack) - 1].lineno /\ UNCHANGED pc
    /\ UNCHANGED <<fs, depth, todo, start, out>>

(* The end of a buffer, whatever the start condition but a comment:        *)
(* sourcefile_pop, and back to the including file at its line.             *)
EndOfFile ==
    /\ pc = "scan" /\ todo = <<>>
    /\ AtEnd
    /\ start # "comment"
    /\ depth' = depth - 1
    /\ stack' = SubSeq(stack, 1, Len(stack) - 1)
    /\ IF Len(stack) = 1
       THEN pc' = "done" /\ UNCHANGED lineno
       ELSE lineno' = stack[Len(stack) - 1].lineno /\ UNCHANGED pc
    /\ UNCHANGED <<fs, todo, start, out>>

(* In a comment: yyterminate, and nothing more of any file is read.        *)
CommentReachedEnd ==
    /\ pc = "scan" /\ todo = <<>>
    /\ AtEnd
    /\ start = "comment"
    /\ pc' = "done"
    /\ out' = Error("comment", Top.name)
    /\ UNCHANGED <<fs, stack, depth, todo, start, lineno>>

-----------------------------------------------------------------------------
(* include_file.  A directory and a glob are walked from the last name to  *)
(* the first, and a directory recursively, so that the file that is to be  *)
(* read first ends up on top of the stack.                                 *)
Visiting == pc = "scan" /\ todo # <<>>

Hidden == Item.by = "directory" /\ Item.name \in fs.hidden

IsDirectory(name) == fs.kind[name] \in {"directory", "locked", "root"}

(* A wrong variant: a hidden entry stays the next to be visited.           *)
LeftOutForGood ==
    /\ Visiting
    /\ Hidden \/ (Item.by = "glob" /\ IsDirectory(Item.name))
    /\ UNCHANGED vars

(* Left out: an entry of a directory that begins with a dot, a directory   *)
(* that a glob has matched.                                                *)
LeftOut ==
    /\ Visiting
    /\ Hidden \/ (Item.by = "glob" /\ IsDirectory(Item.name))
    /\ todo' = Rest
    /\ UNCHANGED <<fs, stack, depth, start, lineno, pc, out>>

StatFailed ==
    /\ Visiting /\ ~Hidden
    /\ \/ fs.kind[Item.name] = "missing"
       \/ fs.kind[Item.name] = "glob" /\ Item.by = "glob"
    /\ todo' = Rest
    /\ out' = Error("stat", Item.name)
    /\ UNCHANGED <<fs, stack, depth, start, lineno, pc>>

(* A pattern that nothing matches is an error of glob.                     *)
GlobFailed ==
    /\ Visiting /\ ~Hidden
    /\ fs.kind[Item.name] = "glob" /\ Item.by # "glob"
    /\ fs.members[Item.name] = <<>>
    /\ todo' = Rest
    /\ out' = Error("glob", Item.name)
    /\ UNCHANGED <<fs, stack, depth, start, lineno, pc>>

IncludeGlob ==
    /\ Visiting /\ ~Hidden
    /\ fs.kind[Item.name] = "glob" /\ Item.by # "glob"
    /\ fs.members[Item.name] # <<>>
    /\ todo' = Rest \o Visits(fs.members[Item.name], "glob")
    /\ UNCHANGED <<fs, stack, depth, start, lineno, pc, out>>

DirectoryRefused ==
    /\ Visiting /\ ~Hidden
    /\ fs.kind[Item.name] \in {"locked", "root"} /\ Item.by # "glob"
    /\ todo' = Rest
    /\ out' = Error(IF fs.kind[Item.name] = "root" THEN "root" ELSE "scandir", Item.name)
    /\ UNCHANGED <<fs, stack, depth, start, lineno, pc>>

IncludeDirectory ==
    /\ Visiting /\ ~Hidden
    /\ fs.kind[Item.name] = "directory" /\ Item.by # "glob"
    /\ todo' = Rest \o Visits(fs.members[Item.name], "directory")
    /\ UNCHANGED <<fs, stack, depth, start, lineno, pc, out>>

(* sourcefile_push.  The counter goes up before the test and in every      *)
(* case; only a pop of what has been pushed takes it down again.           *)
Pushing ==
    /\ Visiting /\ ~Hidden
    /\ fs.kind[Item.name] \in {"file", "unreadable"}
    /\ todo' = Rest
    /\ depth' = depth + 1
    /\ UNCHANGED <<fs, start, pc>>

(* A wrong variant: one file more, where the counter comes after the test. *)
TooManyNestedLate == depth > MAX_SRCFILE_DEPTH + 1

TooManyNested == depth > MAX_SRCFILE_DEPTH

PushRefused ==
    /\ Pushing
    /\ TooManyNested
    /\ out' = Error("depth", Item.name)
    /\ UNCHANGED <<stack, lineno>>

PushFailed ==
    /\ Pushing
    /\ ~TooManyNested
    /\ fs.kind[Item.name] = "unreadable"
    /\ out' = Error("fopen", Item.name)
    /\ UNCHANGED <<stack, lineno>>

Push ==
    /\ Pushing
    /\ ~TooManyNested
    /\ fs.kind[Item.name] = "file"
    /\ stack' = Append(stack, Opened(Item.name))
    /\ lineno' = 1
    /\ UNCHANGED out

Next ==
    \/ Token \/ Newline \/ IncludeWord \/ OpenComment \/ InComment \/ CloseComment
    \/ Echo \/ IncludeName \/ EndOfFile \/ CommentReachedEnd
    \/ LeftOut \/ StatFailed \/ GlobFailed \/ IncludeGlob
    \/ DirectoryRefused \/ IncludeDirectory
    \/ PushRefused \/ PushFailed \/ Push

Spec == Init /\ [][Next]_vars

-----------------------------------------------------------------------------
(***************************************************************************)
(* Properties                                                              *)
(***************************************************************************)

(* Type invariant: the scanner has a current source until it is done, and  *)
(* no source is read past its end.                                         *)
TypeOK ==
    /\ fs \in FileSystem
    /\ stack \in Seq(SourceFile)
    /\ \A i \in 1..Len(stack) : stack[i].at <= Len(fs.text[stack[i].name]) + 1
    /\ depth \in Int
    /\ todo \in Seq(Visit)
    /\ start \in {"INITIAL", "include", "comment"}
    /\ lineno \in Nat \ {0}
    /\ pc \in {"scan", "done"}
    /\ out \in Seq(Event)
    /\ pc = "scan" => stack # <<>>

(* However includes are nested, and however often a file or a directory    *)
(* includes itself, sourcefile_push keeps the number of open files within  *)
(* a fixed bound.                                                          *)
OpenFilesBounded == Len(stack) <= MAX_SRCFILE_DEPTH + 1

(* The line a lexeme is on.                                                *)
LineOf(name, at) == 1 + Cardinality({ i \in 1..(at - 1) : fs.text[name][i] = "newline" })

(* The newlines before a lexeme that were copied to standard output, after *)
(* an "include" and before its name.                                       *)
Uncounted(o, name, at) ==
    { p \in 1..(at - 1) : \E i \in 1..Len(o) :
        o[i].k = "echo" /\ o[i].word = "newline" /\ o[i].file = name /\ o[i].at = p }

(* The line of a lexeme, or behind it by newlines that went uncounted.     *)
Told(line, name, at) ==
    LineOf(name, at) - line \in 0..Cardinality(Uncounted(out, name, at))

(* The position handed to the parser with a token is its line in its own   *)
(* file, also after an include on the same line or further up.  It is      *)
(* behind only where "include" and its name are on lines of their own, and *)
(* by no more than the newlines between such pairs in the same file.       *)
LinesRight ==
    \A i \in 1..Len(out) :
        out[i].k = "token" => Told(out[i].line, out[i].file, out[i].at)

-----------------------------------------------------------------------------
(* The inductive invariant.  srcfile_depth counts the open files and every *)
(* push that came to nothing; a suspended source remembers the line it is  *)
(* to go on with.                                                          *)
LostIn(o) == { i \in 1..Len(o) : o[i].k = "error" /\ o[i].what \in {"depth", "fopen"} }

DepthAccounted == depth = Len(stack) + Cardinality(LostIn(out))

LinesKept ==
    /\ \A i \in 1..Len(stack) : Told(stack[i].lineno, stack[i].name, stack[i].at)
    /\ pc = "scan" => lineno = Top.lineno

IncludeInv ==
    TypeOK /\ OpenFilesBounded /\ DepthAccounted /\ LinesKept /\ LinesRight
=============================================================================
