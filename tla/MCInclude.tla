----------------------------- MODULE MCInclude -----------------------------
(***************************************************************************)
(* Small file systems for IncludeStack, and what the manual page says an   *)
(* include means.                                                          *)
(***************************************************************************)
EXTENDS IncludeStack, SequencesExt

MCWord == {"main", "a", "b", "d", "e", "g", "u", "l", "/", "x", "h", "t", "p", "r"}

MCKind ==
    [n \in MCWord \union Special |->
        CASE n \in {"main", "a", "b", "h"} -> "file"
          [] n \in {"d", "e"} -> "directory"
          [] n = "g" -> "glob"
          [] n = "u" -> "unreadable"
          [] n = "l" -> "locked"
          [] n = "/" -> "root"
          [] OTHER -> "missing"]

(* The texts of the main file, of "a" and of "b" that are tried together;  *)
(* an include is two lexemes.                                              *)
MainTexts ==
    { <<"t", "newline", "include", "a", "semicolon", "newline", "t">>,
      <<"include", "d", "newline", "t", "include", "b", "t">>,
      <<"newline", "include", "g", "t">>,
      <<"include", "main", "newline", "t">>,
      <<"open", "include", "newline", "a", "close", "t", "include", "b", "close">>,
      <<"include", "newline", "semicolon", "a", "t", "include">>,
      <<"include", "u", "newline", "include", "x", "include", "/", "include", "a", "t">> }

ATexts ==
    { <<>>,
      <<"p", "newline", "p">>,
      <<"newline", "include", "b", "newline", "p">>,
      <<"p", "include", "a", "newline", "include", "a", "p">>,
      <<"include", "d", "p">>,
      <<"p", "open", "newline">>,
      <<"newline", "p", "include">> }

BTexts == { <<"r">>, <<"newline", "r", "newline">>, <<"include", "a", "r">>, <<"open", "r">> }

(* A file that ends in "include" leaves the scanner waiting for a name,    *)
(* which a comment at the start of the next file would then be taken for.  *)
Sensible(a, b) == ~(a # <<>> /\ Last(a) = "include" /\ b[1] = "open")

(* A directory with a hidden file and a directory in it, a directory of    *)
(* files, and what a glob may match.                                       *)
Listings == { <<"a", "e", "h">>, <<"a", "b", "x">> }
Matches == { <<>>, <<"a", "b">>, <<"b", "e", "g">> }

FileSystems ==
    { [kind |-> MCKind,
       text |-> [n \in MCWord \union Special |->
                    CASE n = "main" -> m [] n = "a" -> a [] n = "b" -> b [] OTHER -> <<>>],
       members |-> [n \in MCWord \union Special |->
                    CASE n = "d" -> d [] n = "e" -> <<"b", "l", "u">> [] n = "g" -> g [] OTHER -> <<>>],
       hidden |-> {"h"}] :
      m \in MainTexts, a \in ATexts, b \in BTexts, d \in Listings, g \in Matches }

SensibleFileSystems == { f \in FileSystems : Sensible(f.text["a"], f.text["b"]) }

(* The scanner has returned 0 for the last time.                           *)
Finished == pc = "done" /\ UNCHANGED vars

MCNext == Next \/ Finished

MCInit == fs \in SensibleFileSystems /\ Begin

MCSpec == MCInit /\ [][MCNext]_vars /\ WF_vars(Next)

-----------------------------------------------------------------------------
(***************************************************************************)
(* An include "acts as if you literally read the included file into the    *)
(* position" (filter_syntax.5:185): what is left of a text without its     *)
(* comments, with each include replaced by the text of what it names.      *)
(***************************************************************************)
Commented(text, i) ==
    \E o \in 1..i : text[o] = "open" /\ \A c \in (o + 1)..(i - 1) : text[c] # "close"

Uncommented(name) ==
    LET text == fs.text[name]
        Kept(i) == ~Commented(text, i)
    IN  [i \in 1..Len(SelectSeq([j \in 1..Len(text) |-> j], Kept)) |->
            LET at == SelectSeq([j \in 1..Len(text) |-> j], Kept)[i]
            IN  [word |-> text[at], file |-> name, at |-> at]]

RECURSIVE Contents(_, _)
Contents(name, depthLeft) ==
    LET Visible(n) == n \notin fs.hidden
        IsFile(n) == fs.kind[n] = "file"
        Of(n) == Contents(n, depthLeft - 1)
    IN  CASE fs.kind[name] = "file" -> Uncommented(name)
          [] fs.kind[name] = "directory" /\ depthLeft > 0 ->
                FlattenSeq([i \in 1..Len(SelectSeq(fs.members[name], Visible)) |->
                                Of(SelectSeq(fs.members[name], Visible)[i])])
          [] fs.kind[name] = "glob" ->
                FlattenSeq([i \in 1..Len(SelectSeq(fs.members[name], IsFile)) |->
                                Of(SelectSeq(fs.members[name], IsFile)[i])])
          [] OTHER -> <<>>

(* The words of a text, with at most "includes" includes replaced in it.   *)
RECURSIVE Literally(_, _)
Literally(text, includes) ==
    IF text = <<>> THEN <<>>
    ELSE IF text[1].word = "newline" THEN Literally(Tail(text), includes)
    ELSE IF text[1].word # "include" THEN <<text[1]>> \o Literally(Tail(text), includes)
    ELSE LET names == { i \in 2..Len(text) : text[i].word \notin {"newline", "semicolon"} }
             n == CHOOSE i \in names : \A j \in names : i <= j
         IN  IF names = {} \/ includes = 0 THEN <<>>
             ELSE Literally(Contents(text[n].word, 2) \o SubSeq(text, n + 1, Len(text)),
                            includes - 1)

Includes == 12

Program == Literally(Uncommented("main"), Includes)

IsToken(e) == e.k = "token"

Tokens ==
    LET read == SelectSeq(out, IsToken)
    IN  [i \in 1..Len(read) |-> [word |-> read[i].word, file |-> read[i].file, at |-> read[i].at]]

Failed(what) == \E i \in 1..Len(out) : out[i].k = "error" /\ out[i].what = what

(* The parser sees the literal expansion of the program, in order: files   *)
(* of a directory or a glob as sorted, each between what is before and     *)
(* what is after the include.  Only an include that was refused as too     *)
(* deep is missing, and what follows an unterminated comment.              *)
ReadsLiterally ==
    ~Failed("depth") =>
        /\ IsPrefix(Tokens, Program)
        /\ pc = "done" /\ ~Failed("comment") => Tokens = Program

(* The scanner comes to an end on every file system, recursive or not.     *)
Terminates == <>(pc = "done")

=============================================================================
