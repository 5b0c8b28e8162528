--------------------------- MODULE IncludeProofs ---------------------------
(***************************************************************************)
(* Proofs about the stack of open sources.  The inductive invariant is     *)
(* IncludeInv: the bound on open files rests on what srcfile_depth counts, *)
(* the positions of tokens on the line each suspended source remembers and *)
(* on the newlines that went uncounted, which only ever become more.       *)
(*                                                                         *)
(* The steps fall into three kinds, and so do the lemmas: those that scan  *)
(* a lexeme (Scanned), those that visit a name without opening it          *)
(* (Messages), and the push and the pop.                                   *)
(***************************************************************************)
EXTENDS IncludeStack, SeqLemmas, FiniteSetTheorems, SequenceTheorems, TLAPS

(* While the program is read, the current source is the last of the stack. *)
LEMMA TopOfStack ==
    ASSUME TypeOK, pc = "scan"
    PROVE  /\ Len(stack) \in Nat /\ Len(stack) >= 1 /\ Len(stack) \in 1..Len(stack)
           /\ Top \in SourceFile
           /\ Top.at <= Len(fs.text[Top.name]) + 1
           /\ fs.text[Top.name] \in Seq(Lexeme)
           /\ Len(fs.text[Top.name]) \in Nat
  <1>1. stack \in Seq(SourceFile) /\ stack # <<>>
    BY DEF TypeOK
  <1>2. Len(stack) \in Nat /\ Len(stack) >= 1 /\ Len(stack) \in 1..Len(stack)
    BY <1>1, EmptySeq, LenProperties
  <1>3. Top \in SourceFile
    BY <1>1, <1>2 DEF Top
  <1>4. fs.text[Top.name] \in Seq(Lexeme)
    BY <1>3 DEF TypeOK, FileSystem, SourceFile
  <1>5. Top.at <= Len(fs.text[Top.name]) + 1
    BY <1>2 DEF TypeOK, Top
  <1> QED
    BY <1>2, <1>3, <1>4, <1>5, LenProperties

(* The lines before a lexeme are finitely many ...                         *)
LEMMA LinesFinite ==
    ASSUME NEW name, NEW at \in Nat
    PROVE  LET S == { i \in 1..(at - 1) : fs.text[name][i] = "newline" }
           IN  IsFiniteSet(S) /\ Cardinality(S) \in Nat
  <1>1. IsFiniteSet(1..(at - 1))
    BY FS_Interval
  <1> QED
    BY <1>1, FS_Subset, FS_CardinalityType

LEMMA LineType ==
    ASSUME NEW name, NEW at \in Nat
    PROVE  LineOf(name, at) \in Nat
  <1> DEFINE S == { i \in 1..(at - 1) : fs.text[name][i] = "newline" }
  <1>1. Cardinality(S) \in Nat
    BY LinesFinite
  <1> QED
    BY <1>1 DEF LineOf

(* ... a text starts on its line 1 ...                                     *)
LEMMA FirstLine ==
    ASSUME NEW name
    PROVE  LineOf(name, 1) = 1
  <1>1. { i \in 1..(1 - 1) : fs.text[name][i] = "newline" } = {}
    OBVIOUS
  <1> QED
    BY <1>1, FS_EmptySet DEF LineOf

(* ... and a newline is what begins the next.                              *)
LEMMA NextLine ==
    ASSUME NEW name, NEW at \in Nat \ {0}
    PROVE  LineOf(name, at + 1) =
             IF fs.text[name][at] = "newline" THEN LineOf(name, at) + 1 ELSE LineOf(name, at)
  <1> DEFINE S == { i \in 1..(at - 1) : fs.text[name][i] = "newline" }
             T == { i \in 1..(at + 1 - 1) : fs.text[name][i] = "newline" }
  <1>1. IsFiniteSet(S) /\ Cardinality(S) \in Nat
    BY LinesFinite
  <1>2. CASE fs.text[name][at] = "newline"
    <2>1. T = S \union {at} /\ at \notin S
      BY <1>2
    <2>2. Cardinality(T) = Cardinality(S) + 1
      BY <1>1, <2>1, FS_AddElement
    <2> QED
      BY <1>1, <1>2, <2>2 DEF LineOf
  <1>3. CASE fs.text[name][at] # "newline"
    <2>1. T = S
      BY <1>3
    <2> QED
      BY <1>3, <2>1 DEF LineOf
  <1> QED
    BY <1>2, <1>3

(* The pushes that came to nothing, before and after one more event.       *)
LEMMA LostFinite ==
    ASSUME NEW o \in Seq(Event)
    PROVE  IsFiniteSet(LostIn(o)) /\ Cardinality(LostIn(o)) \in Nat
  <1>1. IsFiniteSet(1..Len(o))
    BY FS_Interval
  <1> QED
    BY <1>1, FS_Subset, FS_CardinalityType DEF LostIn

(* An event counts as a lost push if it reports one.                       *)
LEMMA LostAppend ==
    ASSUME NEW o \in Seq(Event), NEW e \in Event
    PROVE  /\ Append(o, e) \in Seq(Event)
           /\ (e.k = "error" /\ e.what \in {"depth", "fopen"})
                => Cardinality(LostIn(Append(o, e))) = Cardinality(LostIn(o)) + 1
           /\ ~(e.k = "error" /\ e.what \in {"depth", "fopen"})
                => Cardinality(LostIn(Append(o, e))) = Cardinality(LostIn(o))
  <1> DEFINE p == Append(o, e)
             n == Len(o) + 1
  <1>1. p \in Seq(Event) /\ Len(o) \in Nat /\ Len(p) = n /\ p[n] = e
        /\ \A i \in 1..Len(o) : p[i] = o[i]
    BY AppendProperties, LenProperties
  <1>2. 1..n = 1..Len(o) \union {n} /\ n \notin 1..Len(o)
    BY <1>1
  <1> HIDE DEF p, n
  <1>3. CASE e.k = "error" /\ e.what \in {"depth", "fopen"}
    <2>1. LostIn(p) = LostIn(o) \union {n} /\ n \notin LostIn(o)
      BY <1>1, <1>2, <1>3 DEF LostIn
    <2>2. Cardinality(LostIn(p)) = Cardinality(LostIn(o)) + 1
      BY <2>1, LostFinite, FS_AddElement
    <2> QED
      BY <1>1, <1>3, <2>2 DEF p
  <1>4. CASE ~(e.k = "error" /\ e.what \in {"depth", "fopen"})
    <2>1. LostIn(p) = LostIn(o)
      BY <1>1, <1>2, <1>4 DEF LostIn
    <2> QED
      BY <1>1, <1>4, <2>1 DEF p
  <1> QED
    BY <1>3, <1>4

(* The newlines of a file that went uncounted, as events are added and as  *)
(* the file is read on: they become no fewer, and one more with its echo.  *)
LEMMA UncountedFinite ==
    ASSUME NEW o, NEW name, NEW at \in Nat
    PROVE  IsFiniteSet(Uncounted(o, name, at)) /\ Cardinality(Uncounted(o, name, at)) \in Nat
  <1>1. IsFiniteSet(1..(at - 1))
    BY FS_Interval
  <1> QED
    BY <1>1, FS_Subset, FS_CardinalityType DEF Uncounted

LEMMA UncountedGrows ==
    ASSUME NEW o \in Seq(Event), NEW e \in Event, NEW name, NEW at \in Nat
    PROVE  Cardinality(Uncounted(o, name, at)) <= Cardinality(Uncounted(Append(o, e), name, at))
  <1> DEFINE q == Append(o, e)
  <1>1. Len(o) \in Nat /\ Len(q) = Len(o) + 1 /\ \A i \in 1..Len(o) : q[i] = o[i]
    BY AppendProperties, LenProperties
  <1>2. \A i \in 1..Len(o) : i \in 1..Len(q)
    BY <1>1
  <1> HIDE DEF q
  <1>3. Uncounted(o, name, at) \subseteq Uncounted(q, name, at)
    BY <1>1, <1>2 DEF Uncounted
  <1>4. Cardinality(Uncounted(o, name, at)) <= Cardinality(Uncounted(q, name, at))
    BY <1>3, UncountedFinite, FS_Subset
  <1> QED
    BY <1>4 DEF q

LEMMA UncountedKept ==
    ASSUME NEW o \in Seq(Event), NEW q, q = o \/ (\E e \in Event : q = Append(o, e)),
           NEW name, NEW at \in Nat
    PROVE  Cardinality(Uncounted(o, name, at)) <= Cardinality(Uncounted(q, name, at))
  <1>1. Cardinality(Uncounted(o, name, at)) \in Nat
    BY UncountedFinite
  <1>2. CASE q = o
    BY <1>1, <1>2
  <1>3. CASE \E e \in Event : q = Append(o, e)
    BY <1>3, UncountedGrows
  <1> QED
    BY <1>2, <1>3

LEMMA UncountedOnward ==
    ASSUME NEW o, NEW name, NEW at \in Nat \ {0}
    PROVE  Cardinality(Uncounted(o, name, at)) <= Cardinality(Uncounted(o, name, at + 1))
  <1>1. \A p \in 1..(at - 1) : p \in 1..(at + 1 - 1)
    OBVIOUS
  <1>2. Uncounted(o, name, at) \subseteq Uncounted(o, name, at + 1)
    BY <1>1 DEF Uncounted
  <1> QED
    BY <1>2, UncountedFinite, FS_Subset

LEMMA UncountedEcho ==
    ASSUME NEW o \in Seq(Event), NEW e \in Event, NEW name, NEW at \in Nat \ {0},
           e.k = "echo", e.word = "newline", e.file = name, e.at = at
    PROVE  Cardinality(Uncounted(o, name, at)) + 1
             <= Cardinality(Uncounted(Append(o, e), name, at + 1))
  <1> DEFINE q == Append(o, e)
             S == Uncounted(o, name, at)
  <1>1. /\ Len(o) \in Nat /\ Len(q) = Len(o) + 1 /\ q[Len(o) + 1] = e
        /\ \A i \in 1..Len(o) : q[i] = o[i]
    BY AppendProperties, LenProperties
  <1>2. /\ Len(o) + 1 \in 1..Len(q)
        /\ \A i \in 1..Len(o) : i \in 1..Len(q)
    BY <1>1
  <1>3. \A p \in 1..(at - 1) : p \in 1..(at + 1 - 1) /\ p # at
    OBVIOUS
  <1>4. at \in 1..(at + 1 - 1)
    OBVIOUS
  <1> HIDE DEF q
  <1>5. at \in Uncounted(q, name, at + 1)
    BY <1>1, <1>2, <1>4 DEF Uncounted
  <1>6. S \subseteq Uncounted(q, name, at + 1) /\ at \notin S
    BY <1>1, <1>2, <1>3 DEF Uncounted
  <1>7. IsFiniteSet(S) /\ Cardinality(S) \in Nat
    BY UncountedFinite
  <1> HIDE DEF S
  <1>8. Cardinality(S \union {at}) = Cardinality(S) + 1
    BY <1>6, <1>7, FS_AddElement
  <1>9. S \union {at} \subseteq Uncounted(q, name, at + 1)
    BY <1>5, <1>6
  <1>10. Cardinality(S \union {at}) <= Cardinality(Uncounted(q, name, at + 1))
    BY <1>9, UncountedFinite, FS_Subset
  <1> QED
    BY <1>8, <1>10 DEF q, S

(* The first line is told right.                                           *)
LEMMA FirstLineTold ==
    ASSUME NEW name
    PROVE  Told(1, name, 1)
  <1>1. LineOf(name, 1) - 1 = 0
    BY FirstLine
  <1>2. Cardinality(Uncounted(out, name, 1)) \in Nat
    BY UncountedFinite
  <1> QED
    BY <1>1, <1>2 DEF Told

(* What has been said of a line stands when an event is added.             *)
LEMMA ToldStands ==
    ASSUME IncludeInv, UNCHANGED fs,
           out' = out \/ (\E e \in Event : out' = Append(out, e)),
           NEW line \in Nat, NEW name, NEW at \in Nat, Told(line, name, at)
    PROVE  Told(line, name, at)'
  <1>1. out \in Seq(Event)
    BY DEF IncludeInv, TypeOK
  <1>2. /\ Cardinality(Uncounted(out, name, at)) \in Nat
        /\ Cardinality(Uncounted(out', name, at)) \in Nat
    BY UncountedFinite
  <1>3. Cardinality(Uncounted(out, name, at)) <= Cardinality(Uncounted(out', name, at))
    BY <1>1, UncountedKept
  <1>4. LineOf(name, at)' = LineOf(name, at)
    BY DEF LineOf
  <1>5. LineOf(name, at) - line \in 0..Cardinality(Uncounted(out', name, at))
    <2>1. LineOf(name, at) - line \in 0..Cardinality(Uncounted(out, name, at))
      BY DEF Told
    <2> QED
      BY <1>2, <1>3, <2>1
  <1> QED
    BY <1>4, <1>5 DEF Told, Uncounted

(* One more event keeps what is known of the earlier ones.                 *)
LEMMA EventAppended ==
    ASSUME IncludeInv, NEW e \in Event,
           e.k = "token" => Told(e.line, e.file, e.at),
           UNCHANGED fs, out' = Append(out, e)
    PROVE  out' \in Seq(Event) /\ LinesRight'
  <1>1. out \in Seq(Event) /\ Len(out) \in Nat
    BY LenProperties DEF IncludeInv, TypeOK
  <1>2. out' \in Seq(Event) /\ Len(out') = Len(out) + 1 /\ out'[Len(out) + 1] = e
        /\ \A i \in 1..Len(out) : out'[i] = out[i]
    BY <1>1, AppendProperties
  <1>3. \A i \in 1..Len(out') : i \in 1..Len(out) \/ i = Len(out) + 1
    BY <1>1, <1>2
  <1>4. \A d \in Event : d.k = "token" => d.line \in Nat /\ d.at \in Nat
    BY DEF Event
  <1>5. \A i \in 1..Len(out') :
            out'[i].k = "token" => /\ out'[i] \in Event
                                   /\ Told(out'[i].line, out'[i].file, out'[i].at)
    BY <1>1, <1>2, <1>3, ElementOfSeq DEF IncludeInv, LinesRight
  <1>6. \A i \in 1..Len(out') : out'[i].k = "token" => Told(out[i].line, out[i].file, out[i].at)'
    <2> SUFFICES ASSUME NEW i \in 1..Len(out'), out'[i].k = "token"
                 PROVE  Told(out[i].line, out[i].file, out[i].at)'
      OBVIOUS
    <2> PICK d : d = out'[i]
      OBVIOUS
    <2>1. d.line \in Nat /\ d.at \in Nat /\ Told(d.line, d.file, d.at)
      BY <1>4, <1>5
    <2>2. Told(d.line, d.file, d.at)'
      BY <2>1, ToldStands
    <2> QED
      BY <2>2 DEF Told
  <1> QED
    BY <1>2, <1>6 DEF LinesRight

(* A source one lexeme further on.                                         *)
LEMMA OnwardType ==
    ASSUME NEW g \in SourceFile, NEW l \in Nat \ {0}
    PROVE  /\ Onward(g, l) \in SourceFile
           /\ Onward(g, l).at = g.at + 1 /\ Onward(g, l).lineno = l /\ Onward(g, l).name = g.name
  BY DEF Onward, SourceFile

(* What the invariant says of the line of an open source.                  *)
LEMMA SourceTold ==
    ASSUME IncludeInv, NEW i \in 1..Len(stack), NEW g, g = stack[i]
    PROVE  g.lineno \in Nat /\ g.at \in Nat /\ Told(g.lineno, g.name, g.at)
  <1>1. stack \in Seq(SourceFile)
    BY DEF IncludeInv, TypeOK
  <1>2. g \in SourceFile
    BY <1>1, ElementOfSeq
  <1>3. g.lineno \in Nat /\ g.at \in Nat
    BY <1>2 DEF SourceFile
  <1>4. Told(g.lineno, g.name, g.at)
    BY DEF IncludeInv, LinesKept
  <1> QED
    BY <1>3, <1>4

(* What is known of the lines of the open sources, when an event is added  *)
(* and no source is opened, closed or read on.                             *)
LEMMA LinesStand ==
    ASSUME IncludeInv, UNCHANGED <<fs, stack, lineno>>, pc' \in {pc, "done"},
           out' = out \/ (\E e \in Event : out' = Append(out, e))
    PROVE  LinesKept'
  <1>1. stack \in Seq(SourceFile)
    BY DEF IncludeInv, TypeOK
  <1>2. \A i \in 1..Len(stack) : Told(stack[i].lineno, stack[i].name, stack[i].at)'
    <2> SUFFICES ASSUME NEW i \in 1..Len(stack)
                 PROVE  Told(stack[i].lineno, stack[i].name, stack[i].at)'
      OBVIOUS
    <2> PICK g : g = stack[i]
      OBVIOUS
    <2>1. g.lineno \in Nat /\ g.at \in Nat /\ Told(g.lineno, g.name, g.at)
      BY SourceTold
    <2>2. Told(g.lineno, g.name, g.at)'
      BY <2>1, ToldStands
    <2> QED
      BY <2>2 DEF Told
  <1>3. pc' = "scan" => (lineno = Top.lineno)'
    BY DEF IncludeInv, LinesKept, Top
  <1> QED
    BY <1>2, <1>3 DEF LinesKept

(* Scanning a lexeme: the current source moves on by one.                  *)
LEMMA Scanned ==
    ASSUME IncludeInv, NEW condition, NEW X, Scan(condition, X)
    PROVE  /\ pc = "scan" /\ UNCHANGED <<fs, depth, pc>> /\ Here \in X
           /\ stack' \in Seq(SourceFile) /\ Len(stack') = Len(stack) /\ stack' # <<>>
           /\ \A i \in 1..Len(stack') : stack'[i].at <= Len(fs.text[stack'[i].name]) + 1
           /\ lineno' \in Nat \ {0}
           /\ Here \in Lexeme
           /\ Top \in SourceFile
           /\ lineno \in Nat \ {0} /\ lineno = Top.lineno
           /\ Told(lineno, Top.name, Top.at)
           /\ stack'[Len(stack)] = Onward(Top, lineno')
           /\ \A i \in 1..Len(stack) : i # Len(stack) => stack'[i] = stack[i]
  <1> DEFINE f == Onward(Top, lineno')
             n == Len(stack)
             s == [stack EXCEPT ![n] = f]
  <1>1. pc = "scan" /\ UNCHANGED <<fs, depth, pc>> /\ Here \in X /\ ~AtEnd /\ stack' = s
        /\ lineno' \in {lineno, lineno + 1}
    BY DEF Scan
  <1>2. /\ n \in Nat /\ n >= 1 /\ n \in 1..n
        /\ Top \in SourceFile /\ Top.at \in Nat \ {0} /\ Top.name \in Lexeme
        /\ fs.text[Top.name] \in Seq(Lexeme)
        /\ Len(fs.text[Top.name]) \in Nat
    BY <1>1, TopOfStack DEF IncludeInv, SourceFile
  <1>3. Top.at \in 1..Len(fs.text[Top.name])
    BY <1>1, <1>2 DEF AtEnd
  <1>4. Here \in Lexeme
    BY <1>2, <1>3, ElementOfSeq DEF Here
  <1>5. lineno \in Nat \ {0} /\ lineno = Top.lineno /\ Told(lineno, Top.name, Top.at)
    BY <1>1, <1>2 DEF IncludeInv, TypeOK, LinesKept, Top
  <1>6. lineno' \in Nat \ {0}
    BY <1>1, <1>5
  <1>7. f \in SourceFile /\ f.at = Top.at + 1 /\ f.lineno = lineno' /\ f.name = Top.name
    BY <1>2, <1>6, OnwardType
  <1> HIDE DEF f
  <1>8. stack \in Seq(SourceFile)
    BY DEF IncludeInv, TypeOK
  <1>9. s \in Seq(SourceFile) /\ Len(s) = n /\ s[n] = f /\ \A i \in 1..n : i # n => s[i] = stack[i]
    BY <1>2, <1>7, <1>8, LastReplaced
  <1> HIDE DEF s
  <1>10. \A i \in 1..Len(stack') : stack'[i].at <= Len(fs.text[stack'[i].name]) + 1
    <2> SUFFICES ASSUME NEW i \in 1..n
                 PROVE  s[i].at <= Len(fs.text[s[i].name]) + 1
      BY <1>1, <1>9
    <2>1. CASE i = n
      BY <1>2, <1>3, <1>7, <1>9, <2>1
    <2>2. CASE i # n
      BY <1>9, <2>2 DEF IncludeInv, TypeOK
    <2> QED
      BY <2>1, <2>2
  <1>12. stack' # <<>>
    BY <1>1, <1>2, <1>9, EmptySeq
  <1> QED
    BY <1>1, <1>2, <1>4, <1>5, <1>6, <1>9, <1>10, <1>12 DEF f

(* The line of the current source goes with it: a newline is counted, or   *)
(* echoed and from then on among those that were not.                      *)
LEMMA LineOnward ==
    ASSUME IncludeInv, NEW condition, NEW X, Scan(condition, X),
           out' = out \/ (\E e \in Event : out' = Append(out, e)),
           Here = "newline" /\ condition = "include" => out' = Emit("echo")
    PROVE  LineOf(Top.name, Top.at + 1) - lineno'
             \in 0..Cardinality(Uncounted(out', Top.name, Top.at + 1))
  <1> DEFINE name == Top.name
             at == Top.at
             now == Cardinality(Uncounted(out, name, at))
             then == Cardinality(Uncounted(out', name, at + 1))
  <1>1. /\ at \in Nat \ {0} /\ lineno \in Nat \ {0} /\ UNCHANGED fs
        /\ name \in Lexeme /\ Here \in Lexeme
        /\ Told(lineno, name, at)
    BY Scanned DEF SourceFile
  <1>2. lineno' = IF Here = "newline" /\ condition # "include" THEN lineno + 1 ELSE lineno
    BY DEF Scan
  <1>3. LineOf(name, at + 1) =
          IF Here = "newline" THEN LineOf(name, at) + 1 ELSE LineOf(name, at)
    BY <1>1, NextLine DEF Here
  <1>4. out \in Seq(Event)
    BY DEF IncludeInv, TypeOK
  <1>5. LineOf(name, at) - lineno \in 0..now /\ LineOf(name, at) \in Int
    <2>1. LineOf(name, at) - lineno \in 0..now
      BY <1>1 DEF Told
    <2> HIDE DEF name, at, now
    <2>2. LineOf(name, at) \in Int
      BY <1>1, LineType
    <2> QED
      BY <2>1, <2>2
  <1>6. now \in Nat /\ then \in Nat
    BY <1>1, UncountedFinite
  <1>7. now <= then
    <2>1. Cardinality(Uncounted(out, name, at)) <= Cardinality(Uncounted(out', name, at))
      BY <1>1, <1>4, UncountedKept
    <2>2. Cardinality(Uncounted(out', name, at)) <= then
      BY <1>1, UncountedOnward
    <2>3. Cardinality(Uncounted(out', name, at)) \in Nat
      BY <1>1, UncountedFinite
    <2> QED
      BY <1>6, <2>1, <2>2, <2>3
  <1>8. CASE Here = "newline" /\ condition = "include"
    <2> DEFINE e == [k |-> "echo", word |-> Here, file |-> name, at |-> at, line |-> lineno]
    <2>1. e \in Event /\ e.k = "echo" /\ e.word = "newline" /\ e.file = name /\ e.at = at
      BY <1>1, <1>8 DEF Event
    <2>2. out' = Append(out, e)
      BY <1>8 DEF Emit
    <2> HIDE DEF e
    <2>3. now + 1 <= then
      BY <1>1, <1>4, <2>1, <2>2, UncountedEcho
    <2> HIDE DEF name, at, now, then
    <2>4. LineOf(name, at + 1) - lineno' \in 0..then
      BY <1>1, <1>2, <1>3, <1>5, <1>6, <1>8, <2>3
    <2> QED
      BY <2>4 DEF name, at, then
  <1>9. CASE ~(Here = "newline" /\ condition = "include")
    <2> HIDE DEF name, at, now, then
    <2>1. LineOf(name, at + 1) - lineno' = LineOf(name, at) - lineno
      BY <1>1, <1>2, <1>3, <1>5, <1>9
    <2>2. LineOf(name, at + 1) - lineno' \in 0..then
      BY <1>5, <1>6, <1>7, <2>1
    <2> QED
      BY <2>2 DEF name, at, then
  <1> QED
    BY <1>8, <1>9

(* What a step of the scanner leaves of the invariant to show.             *)
LEMMA ScanKeeps ==
    ASSUME IncludeInv, NEW condition, NEW X, Scan(condition, X),
           todo' \in Seq(Visit), start' \in {"INITIAL", "include", "comment"},
           out' = out \/ (\E e \in Event : out' = Append(out, e)),
           Here = "newline" /\ condition = "include" => out' = Emit("echo"),
           out' \in Seq(Event), LinesRight',
           Cardinality(LostIn(out')) = Cardinality(LostIn(out))
    PROVE  IncludeInv'
  <1>1. TypeOK'
    BY Scanned DEF IncludeInv, TypeOK
  <1>2. OpenFilesBounded'
    BY Scanned DEF IncludeInv, OpenFilesBounded
  <1>3. DepthAccounted'
    BY Scanned DEF IncludeInv, DepthAccounted, LostIn
  <1>4. LinesKept'
    <2> DEFINE n == Len(stack)
    <2>1. /\ stack \in Seq(SourceFile) /\ stack' \in Seq(SourceFile) /\ Len(stack') = n
          /\ n \in 1..n
          /\ Top \in SourceFile /\ lineno' \in Nat \ {0} /\ UNCHANGED fs
          /\ stack'[n] = Onward(Top, lineno')
          /\ \A i \in 1..n : i # n => stack'[i] = stack[i]
      BY Scanned, TopOfStack DEF IncludeInv, TypeOK
    <2>2. /\ stack'[n].name = Top.name /\ stack'[n].at = Top.at + 1
          /\ stack'[n].lineno = lineno'
      BY <2>1, OnwardType
    <2>4. \A i \in 1..Len(stack') :
              Told(stack[i].lineno, stack[i].name, stack[i].at)'
      <3> SUFFICES ASSUME NEW i \in 1..n
                   PROVE  Told(stack[i].lineno, stack[i].name, stack[i].at)'
        BY <2>1
      <3>1. CASE i = n
        <4> PICK name, at : name = Top.name /\ at = Top.at + 1
          OBVIOUS
        <4>1. LineOf(name, at) - lineno' \in 0..Cardinality(Uncounted(out', name, at))
          BY LineOnward
        <4>2. LineOf(name, at)' = LineOf(name, at)
          BY <2>1 DEF LineOf
        <4>3. Told(lineno, name, at)'
          BY <4>1, <4>2 DEF Told
        <4> QED
          BY <2>2, <3>1, <4>3 DEF Told
      <3>2. CASE i # n
        <4> PICK g : g = stack[i]
          OBVIOUS
        <4>1. /\ stack'[i] = g
              /\ g.lineno \in Nat /\ g.at \in Nat /\ Told(g.lineno, g.name, g.at)
          BY <2>1, <3>2, SourceTold
        <4>2. Told(g.lineno, g.name, g.at)'
          BY <2>1, <4>1, ToldStands
        <4> QED
          BY <4>1, <4>2 DEF Told
      <3> QED
        BY <3>1, <3>2
    <2>5. lineno' = stack'[Len(stack')].lineno
      BY <2>1, <2>2
    <2> QED
      BY <2>4, <2>5 DEF LinesKept, Top
  <1> QED
    BY <1>1, <1>2, <1>3, <1>4 DEF IncludeInv

(* What the open files remember stands while nothing is written.           *)
LEMMA SourcesStand ==
    ASSUME UNCHANGED <<fs, out>>, NEW s, stack' = s,
           \A i \in 1..Len(s) : Told(s[i].lineno, s[i].name, s[i].at),
           pc' = "scan" => lineno' = s[Len(s)].lineno
    PROVE  LinesKept'
  <1>1. \A line, name, at : Told(line, name, at)' <=> Told(line, name, at)
    BY DEF Told, LineOf, Uncounted
  <1>2. (\A i \in 1..Len(stack) : Told(stack[i].lineno, stack[i].name, stack[i].at))'
    <2> SUFFICES ASSUME NEW i \in 1..Len(s)
                 PROVE  Told(s[i].lineno, s[i].name, s[i].at)'
      BY DEF Told
    <2> QED
      BY <1>1 DEF Told
  <1>3. (pc = "scan" => lineno = Top.lineno)'
    BY DEF Top
  <1> QED
    BY <1>2, <1>3 DEF LinesKept

(* Nothing that has been read or written changes.                          *)
LEMMA OutUnchanged ==
    ASSUME IncludeInv, UNCHANGED <<fs, out>>
    PROVE  /\ out' \in Seq(Event) /\ LinesRight'
           /\ Cardinality(LostIn(out')) = Cardinality(LostIn(out))
  <1>1. \A line, name, at : Told(line, name, at)' <=> Told(line, name, at)
    BY DEF Told, LineOf, Uncounted
  <1> QED
    BY <1>1 DEF IncludeInv, TypeOK, LinesRight, Told

(* A token, or what is echoed, is written with the line told for it.       *)
LEMMA Emitted ==
    ASSUME IncludeInv, NEW condition, NEW X, Scan(condition, X),
           NEW k \in {"token", "echo"}, out' = Emit(k)
    PROVE  /\ \E e \in Event : out' = Append(out, e)
           /\ out' \in Seq(Event) /\ LinesRight'
           /\ Cardinality(LostIn(out')) = Cardinality(LostIn(out))
  <1> DEFINE e == [k |-> k, word |-> Here, file |-> Top.name, at |-> Top.at, line |-> lineno]
  <1>1. /\ Here \in Lexeme /\ Top.name \in Lexeme /\ Top.at \in Nat /\ lineno \in Nat
        /\ Told(lineno, Top.name, Top.at)
        /\ UNCHANGED fs
    BY Scanned DEF SourceFile, IncludeInv, TypeOK
  <1>2. e \in Event /\ e.k # "error" /\ Told(e.line, e.file, e.at)
    BY <1>1 DEF Event
  <1>3. out' = Append(out, e) /\ out \in Seq(Event)
    BY DEF Emit, IncludeInv, TypeOK
  <1> HIDE DEF e
  <1> QED
    BY <1>1, <1>2, <1>3, EventAppended, LostAppend

(* The next name include_file visits.                                      *)
LEMMA ItemAndRest ==
    ASSUME TypeOK, todo # <<>>
    PROVE  Item \in Visit /\ Rest \in Seq(Visit)
  <1>1. todo \in Seq(Visit) /\ Len(todo) \in Nat /\ Len(todo) >= 1
    BY EmptySeq, LenProperties DEF TypeOK
  <1>2. Rest \in Seq(Visit)
    BY <1>1, FrontOfSeq, Zenon DEF Rest
  <1>3. Item \in Visit
    BY <1>1 DEF Item
  <1> QED
    BY <1>2, <1>3

(* The names of a directory or a glob become names to visit.               *)
LEMMA VisitsType ==
    ASSUME NEW names \in Seq(Lexeme), NEW by \in {"include", "directory", "glob"}
    PROVE  Visits(names, by) \in Seq(Visit)
  <1>1. \A i \in 1..Len(names) : names[i] \in Lexeme
    BY ElementOfSeq
  <1> QED
    BY <1>1, LenProperties DEF Visits, Visit

(* What a message adds.                                                    *)
LEMMA Reported ==
    ASSUME IncludeInv, UNCHANGED fs,
           NEW what \in Failure, NEW name \in Lexeme,
           out' = Error(what, name)
    PROVE  /\ \E e \in Event : out' = Append(out, e)
           /\ out' \in Seq(Event) /\ LinesRight'
           /\ Cardinality(LostIn(out')) = Cardinality(LostIn(out))
                 + (IF what \in {"depth", "fopen"} THEN 1 ELSE 0)
  <1> DEFINE e == [k |-> "error", what |-> what, name |-> name]
  <1>1. e \in Event /\ e.k = "error" /\ e.what = what
    BY DEF Event
  <1>2. out' = Append(out, e) /\ out \in Seq(Event)
    BY DEF Error, IncludeInv, TypeOK
  <1> HIDE DEF e
  <1>3. Cardinality(LostIn(out)) \in Nat
    BY <1>2, LostFinite
  <1> QED
    BY <1>1, <1>2, <1>3, EventAppended, LostAppend

(* srcfile_depth goes up with the pushes that come to nothing.             *)
LEMMA StillAccounted ==
    ASSUME IncludeInv, UNCHANGED stack, NEW m \in {0, 1},
           depth' = depth + m,
           Cardinality(LostIn(out')) = Cardinality(LostIn(out)) + m
    PROVE  DepthAccounted' /\ depth' \in Int
  <1>1. depth \in Int /\ out \in Seq(Event)
    BY DEF IncludeInv, TypeOK
  <1>2. Len(stack) \in Nat
    BY LenProperties DEF IncludeInv, TypeOK
  <1>3. Cardinality(LostIn(out)) \in Nat
    BY <1>1, LostFinite
  <1>4. depth = Len(stack) + Cardinality(LostIn(out))
    BY DEF IncludeInv, DepthAccounted
  <1>5. depth' = Len(stack) + Cardinality(LostIn(out'))
    BY <1>2, <1>3, <1>4
  <1> QED
    BY <1>1, <1>5 DEF DepthAccounted, LostIn

(* include_file decides what to visit next; no source is opened.           *)
LEMMA Visited ==
    ASSUME IncludeInv, Visiting,
           UNCHANGED <<fs, stack, start, lineno, pc>>, todo' \in Seq(Visit),
           out' = out \/ (\E e \in Event : out' = Append(out, e)),
           out' \in Seq(Event), LinesRight', DepthAccounted', depth' \in Int
    PROVE  IncludeInv'
  <1>1. TypeOK'
    BY DEF IncludeInv, TypeOK
  <1>2. OpenFilesBounded'
    BY DEF IncludeInv, OpenFilesBounded
  <1>3. LinesKept'
    BY LinesStand
  <1> QED
    BY <1>1, <1>2, <1>3 DEF IncludeInv

(* At first the main program is the only open source.                      *)
LEMMA IncludeInit == Init => IncludeInv
  <1> SUFFICES ASSUME Init PROVE IncludeInv
    OBVIOUS
  <1> USE DEF Init, Begin
  <1> DEFINE f == Opened("main")
  <1>1. f \in SourceFile /\ f.at = 1 /\ f.lineno = 1 /\ f.name = "main"
    BY IncludeAssumption DEF Opened, SourceFile, Lexeme
  <1> HIDE DEF f
  <1>2. stack = <<f>> /\ stack \in Seq(SourceFile) /\ Len(stack) = 1 /\ stack[1] = f
        /\ \A i \in 1..Len(stack) : i = 1
    BY <1>1 DEF f
  <1>3. Len(fs.text["main"]) \in Nat
    BY <1>1, LenProperties DEF FileSystem, SourceFile
  <1>4. TypeOK
    BY <1>1, <1>2, <1>3 DEF TypeOK, FileSystem
  <1>5. OpenFilesBounded
    BY <1>2, IncludeAssumption DEF OpenFilesBounded
  <1>6. DepthAccounted
    <2>1. LostIn(out) = {}
      BY DEF LostIn
    <2>2. Cardinality(LostIn(out)) = 0
      BY <2>1, FS_EmptySet
    <2>3. depth = 1
      OBVIOUS
    <2> QED
      BY <1>2, <2>2, <2>3 DEF DepthAccounted
  <1>7. LinesKept
    <2>1. Told(1, "main", 1)
      BY FirstLineTold
    <2> QED
      BY <1>1, <1>2, <2>1 DEF LinesKept, Top
  <1>8. LinesRight
    BY DEF LinesRight
  <1> QED
    BY <1>4, <1>5, <1>6, <1>7, <1>8 DEF IncludeInv

(* The end of a file goes back to the source below, and to its line.       *)
LEMMA Popped ==
    ASSUME IncludeInv, EndOfFile
    PROVE  IncludeInv'
  <1> DEFINE n == Len(stack)
             s == SubSeq(stack, 1, n - 1)
  <1>1. /\ pc = "scan" /\ stack' = s /\ depth' = depth - 1
        /\ UNCHANGED <<fs, todo, start, out>>
        /\ n = 1 => pc' = "done" /\ lineno' = lineno
        /\ n # 1 => pc' = pc /\ lineno' = stack[n - 1].lineno
    BY DEF EndOfFile
  <1>2. n \in Nat /\ n >= 1 /\ stack \in Seq(SourceFile)
    BY <1>1, TopOfStack DEF IncludeInv, TypeOK
  <1>3. s \in Seq(SourceFile) /\ Len(s) = n - 1
        /\ \A i \in 1..Len(s) : i \in 1..n /\ s[i] = stack[i]
    BY <1>2, FrontOfSeq, Zenon
  <1> HIDE DEF s
  <1>4. lineno' \in Nat \ {0}
    <2>1. CASE n = 1
      BY <1>1, <2>1 DEF IncludeInv, TypeOK
    <2>2. CASE n # 1
      <3> HIDE DEF n
      <3>0. n - 1 \in 1..n
        BY <1>2, <2>2
      <3> USE DEF n
      <3>1. stack[n - 1] \in SourceFile
        BY <1>2, <3>0, ElementOfSeq
      <3> QED
        BY <1>1, <2>2, <3>1 DEF SourceFile
    <2> QED
      BY <2>1, <2>2
  <1>5. pc' \in {"scan", "done"} /\ (pc' = "scan" => n # 1 /\ s # <<>>)
    BY <1>1, <1>2, <1>3, EmptySeq
  <1>6. \A i \in 1..Len(s) : s[i].at <= Len(fs.text[s[i].name]) + 1
    BY <1>3 DEF IncludeInv, TypeOK
  <1>7. TypeOK'
    BY <1>1, <1>3, <1>4, <1>5, <1>6 DEF IncludeInv, TypeOK
  <1>8. OpenFilesBounded'
    BY <1>1, <1>2, <1>3, IncludeAssumption DEF IncludeInv, OpenFilesBounded
  <1>9. DepthAccounted'
    <2>1. Cardinality(LostIn(out)) \in Nat
      BY LostFinite DEF IncludeInv, TypeOK
    <2> QED
      BY <1>1, <1>2, <1>3, <2>1 DEF IncludeInv, DepthAccounted, LostIn
  <1>10. LinesKept'
    <2>1. \A i \in 1..Len(s) : Told(s[i].lineno, s[i].name, s[i].at)
      BY <1>3 DEF IncludeInv, LinesKept
    <2>2. pc' = "scan" => lineno' = s[Len(s)].lineno
      BY <1>1, <1>2, <1>3, <1>5
    <2> QED
      BY <1>1, <2>1, <2>2, SourcesStand
  <1>11. LinesRight'
    BY <1>1, OutUnchanged
  <1> QED
    BY <1>7, <1>8, <1>9, <1>10, <1>11 DEF IncludeInv

(* A new source: the test of the counter bounds the stack, since the       *)
(* counter is never less than its length.                                  *)
LEMMA Pushed ==
    ASSUME IncludeInv, Push
    PROVE  IncludeInv'
  <1> DEFINE f == Opened(Item.name)
             n == Len(stack)
             s == Append(stack, f)
  <1>1. /\ pc = "scan" /\ todo # <<>> /\ todo' = Rest /\ depth' = depth + 1
        /\ UNCHANGED <<fs, start, pc, out>>
        /\ depth <= MAX_SRCFILE_DEPTH
        /\ stack' = s /\ lineno' = 1
    <2>1. depth \in Int
      BY DEF IncludeInv, TypeOK
    <2> QED
      BY <2>1, IncludeAssumption DEF Push, Pushing, Visiting, TooManyNested
  <1>2. Item \in Visit /\ Rest \in Seq(Visit)
    BY <1>1, ItemAndRest DEF IncludeInv
  <1>3. f \in SourceFile /\ f.at = 1 /\ f.lineno = 1
    BY <1>2 DEF Opened, SourceFile, Visit
  <1>4. n \in Nat /\ n >= 1 /\ stack \in Seq(SourceFile)
    BY <1>1, TopOfStack DEF IncludeInv, TypeOK
  <1> HIDE DEF f
  <1>5. s \in Seq(SourceFile) /\ Len(s) = n + 1 /\ s[n + 1] = f
        /\ \A i \in 1..Len(s) : i = n + 1 \/ (i \in 1..n /\ s[i] = stack[i])
    BY <1>3, <1>4, AppendProperties
  <1> HIDE DEF s
  <1>6. \A i \in 1..Len(s) : s[i].at <= Len(fs.text[s[i].name]) + 1
    <2> SUFFICES ASSUME NEW i \in 1..Len(s)
                 PROVE  s[i].at <= Len(fs.text[s[i].name]) + 1
      OBVIOUS
    <2>1. CASE i = n + 1
      <3>1. Len(fs.text[f.name]) \in Nat
        BY <1>3, LenProperties DEF IncludeInv, TypeOK, FileSystem, SourceFile
      <3> QED
        BY <1>3, <1>5, <2>1, <3>1
    <2>2. CASE i \in 1..n /\ s[i] = stack[i]
      BY <2>2 DEF IncludeInv, TypeOK
    <2> QED
      BY <1>5, <2>1, <2>2
  <1>7. TypeOK'
    <2>1. s # <<>>
      BY <1>4, <1>5, EmptySeq
    <2> QED
      BY <1>1, <1>2, <1>5, <1>6, <2>1 DEF IncludeInv, TypeOK
  <1>8. Cardinality(LostIn(out)) \in Nat /\ depth = n + Cardinality(LostIn(out))
    BY LostFinite DEF IncludeInv, TypeOK, DepthAccounted
  <1>9. OpenFilesBounded'
    BY <1>1, <1>4, <1>5, <1>8, IncludeAssumption DEF OpenFilesBounded
  <1>10. DepthAccounted'
    BY <1>1, <1>4, <1>5, <1>8 DEF DepthAccounted, LostIn
  <1>11. LinesKept'
    <2>1. \A i \in 1..Len(s) : Told(s[i].lineno, s[i].name, s[i].at)
      BY <1>3, <1>5, FirstLineTold DEF IncludeInv, LinesKept
    <2>2. lineno' = s[Len(s)].lineno
      BY <1>1, <1>3, <1>5
    <2> QED
      BY <1>1, <2>1, <2>2, SourcesStand
  <1>12. LinesRight'
    BY <1>1, OutUnchanged
  <1> QED
    BY <1>7, <1>9, <1>10, <1>11, <1>12 DEF IncludeInv

-----------------------------------------------------------------------------
(* Every step of the scanner and of include_file keeps the invariant.      *)
LEMMA IncludeStep == IncludeInv /\ [Next]_vars => IncludeInv'
  <1> SUFFICES ASSUME IncludeInv, [Next]_vars PROVE IncludeInv'
    OBVIOUS
  <1>t. /\ todo \in Seq(Visit) /\ start \in {"INITIAL", "include", "comment"}
        /\ out \in Seq(Event) /\ depth \in Int
    BY DEF IncludeInv, TypeOK
  <1>1. CASE Token
    <2>1. Scan("INITIAL", Word \union {"semicolon", "close"}) /\ UNCHANGED <<todo, start>>
          /\ out' = Emit("token")
      BY <1>1 DEF Token
    <2> QED
      BY <1>t, <2>1, Emitted, Scanned, ScanKeeps
  <1>2. CASE Newline
    <2>1. Scan("INITIAL", {"newline"}) /\ UNCHANGED <<todo, start, out>>
      BY <1>2 DEF Newline
    <2> QED
      BY <1>t, <2>1, Scanned, OutUnchanged, ScanKeeps
  <1>3. CASE IncludeWord
    <2>1. Scan("INITIAL", {"include"}) /\ start' = "include" /\ UNCHANGED <<todo, out>>
      BY <1>3 DEF IncludeWord
    <2> QED
      BY <1>t, <2>1, Scanned, OutUnchanged, ScanKeeps
  <1>4. CASE OpenComment
    <2>1. Scan("INITIAL", {"open"}) /\ start' = "comment" /\ UNCHANGED <<todo, out>>
      BY <1>4 DEF OpenComment
    <2> QED
      BY <1>t, <2>1, Scanned, OutUnchanged, ScanKeeps
  <1>5. CASE InComment
    <2>1. Scan("comment", Lexeme \ {"close"}) /\ UNCHANGED <<todo, start, out>>
      BY <1>5 DEF InComment
    <2> QED
      BY <1>t, <2>1, Scanned, OutUnchanged, ScanKeeps
  <1>6. CASE CloseComment
    <2>1. Scan("comment", {"close"}) /\ start' = "INITIAL" /\ UNCHANGED <<todo, out>>
      BY <1>6 DEF CloseComment
    <2> QED
      BY <1>t, <2>1, Scanned, OutUnchanged, ScanKeeps
  <1>7. CASE Echo
    <2>1. Scan("include", {"newline", "semicolon"}) /\ UNCHANGED <<todo, start>>
          /\ out' = Emit("echo")
      BY <1>7 DEF Echo
    <2> QED
      BY <1>t, <2>1, Emitted, ScanKeeps
  <1>8. CASE IncludeName
    <2>1. Scan("include", Lexeme \ {"newline", "semicolon"}) /\ start' = "INITIAL"
          /\ UNCHANGED out /\ todo' = Visits(<<Here>>, "include")
      BY <1>8 DEF IncludeName
    <2>2. Here \in Lexeme 
      BY <2>1, Scanned DEF SourceFile
    <2>3. <<Here>> \in Seq(Lexeme)
      BY <2>2
    <2>4. todo' \in Seq(Visit)
      BY <2>1, <2>2, <2>3, VisitsType
    <2> QED
      BY <2>1, <2>4, Scanned, OutUnchanged, ScanKeeps
  <1>9. CASE EndOfFile
    BY <1>9, Popped
  <1>10. CASE CommentReachedEnd
    <2>1. /\ pc = "scan" /\ pc' = "done" /\ out' = Error("comment", Top.name)
          /\ UNCHANGED <<fs, stack, depth, todo, start, lineno>>
      BY <1>10 DEF CommentReachedEnd
    <2>2. Top.name \in Lexeme 
      BY <2>1, TopOfStack DEF IncludeInv, SourceFile
    <2>3. /\ \E e \in Event : out' = Append(out, e)
          /\ out' \in Seq(Event) /\ LinesRight'
          /\ Cardinality(LostIn(out')) = Cardinality(LostIn(out)) + 0
      BY <2>1, <2>2, Reported DEF Failure
    <2>4. Cardinality(LostIn(out)) \in Nat
      BY <1>t, LostFinite
    <2>5. TypeOK'
      BY <2>1, <2>3 DEF IncludeInv, TypeOK
    <2>6. OpenFilesBounded' /\ LinesKept'
      BY <2>1, <2>3, LinesStand DEF IncludeInv, OpenFilesBounded
    <2>7. DepthAccounted'
      BY <2>1, <2>3, <2>4 DEF IncludeInv, DepthAccounted, LostIn
    <2> QED
      BY <2>3, <2>5, <2>6, <2>7 DEF IncludeInv
  <1>i. Visiting => /\ Item \in Visit /\ Rest \in Seq(Visit) /\ Item.name \in Lexeme
                    /\ fs.members[Item.name] \in Seq(Lexeme)
    <2> SUFFICES ASSUME Visiting
                 PROVE  /\ Item \in Visit /\ Rest \in Seq(Visit) /\ Item.name \in Lexeme
                        /\ fs.members[Item.name] \in Seq(Lexeme)
      OBVIOUS
    <2>1. Item \in Visit /\ Rest \in Seq(Visit)
      BY ItemAndRest DEF IncludeInv, Visiting
    <2> QED
      BY <2>1 DEF Visit, IncludeInv, TypeOK, FileSystem
  <1>c. Cardinality(LostIn(out)) \in Nat
    BY <1>t, LostFinite
  <1>11. CASE StatFailed
    <2>1. /\ Visiting /\ todo' = Rest /\ out' = Error("stat", Item.name)
          /\ UNCHANGED <<fs, stack, depth, start, lineno, pc>>
      BY <1>11 DEF StatFailed
    <2>2. /\ \E e \in Event : out' = Append(out, e)
          /\ out' \in Seq(Event) /\ LinesRight'
          /\ Cardinality(LostIn(out')) = Cardinality(LostIn(out)) + 0
      BY <1>i, <2>1, Reported DEF Failure
    <2>3. DepthAccounted' /\ depth' \in Int
      <3>1. depth' = depth + 0 /\ Cardinality(LostIn(out')) = Cardinality(LostIn(out)) + 0
        BY <1>t, <1>c, <2>1, <2>2
      <3> QED
        BY <2>1, <3>1, StillAccounted
    <2> QED
      BY <1>i, <2>1, <2>2, <2>3, Visited
  <1>12. CASE IncludeGlob
    <2>1. /\ Visiting /\ UNCHANGED <<fs, stack, depth, start, lineno, pc, out>>
          /\ todo' = Rest \o Visits(fs.members[Item.name], "glob")
      BY <1>12 DEF IncludeGlob
    <2>2. Visits(fs.members[Item.name], "glob") \in Seq(Visit)
      BY <1>i, <2>1, VisitsType
    <2>3. todo' \in Seq(Visit)
      BY <1>i, <2>1, <2>2, ConcatProperties
    <2>4. DepthAccounted' /\ depth' \in Int
      <3>1. depth' = depth + 0 /\ Cardinality(LostIn(out')) = Cardinality(LostIn(out)) + 0
        BY <1>t, <1>c, <2>1
      <3> QED
        BY <2>1, <3>1, StillAccounted
    <2> QED
      BY <2>1, <2>3, <2>4, OutUnchanged, Visited
  <1>13. CASE IncludeDirectory
    <2>1. /\ Visiting /\ UNCHANGED <<fs, stack, depth, start, lineno, pc, out>>
          /\ todo' = Rest \o Visits(fs.members[Item.name], "directory")
      BY <1>13 DEF IncludeDirectory
    <2>3. Visits(fs.members[Item.name], "directory") \in Seq(Visit)
      BY <1>i, <2>1, VisitsType
    <2>4. todo' \in Seq(Visit)
      BY <1>i, <2>1, <2>3, ConcatProperties
    <2>5. DepthAccounted' /\ depth' \in Int
      <3>1. depth' = depth + 0 /\ Cardinality(LostIn(out')) = Cardinality(LostIn(out)) + 0
        BY <1>t, <1>c, <2>1
      <3> QED
        BY <2>1, <3>1, StillAccounted
    <2> QED
      BY <2>1, <2>4, <2>5, OutUnchanged, Visited
  <1>14. CASE PushRefused
    <2>1. /\ Visiting /\ todo' = Rest /\ depth' = depth + 1
          /\ out' = Error("depth", Item.name)
          /\ UNCHANGED <<fs, stack, start, lineno, pc>>
      BY <1>14 DEF PushRefused, Pushing
    <2>2. /\ \E e \in Event : out' = Append(out, e)
          /\ out' \in Seq(Event) /\ LinesRight'
          /\ Cardinality(LostIn(out')) = Cardinality(LostIn(out)) + 1
      BY <1>i, <2>1, Reported DEF Failure
    <2>3. DepthAccounted' /\ depth' \in Int
      <3>1. depth' = depth + 1 /\ Cardinality(LostIn(out')) = Cardinality(LostIn(out)) + 1
        BY <1>t, <1>c, <2>1, <2>2
      <3> QED
        BY <2>1, <3>1, StillAccounted
    <2> QED
      BY <1>i, <2>1, <2>2, <2>3, Visited
  <1>15. CASE PushFailed
    <2>1. /\ Visiting /\ todo' = Rest /\ depth' = depth + 1
          /\ out' = Error("fopen", Item.name)
          /\ UNCHANGED <<fs, stack, start, lineno, pc>>
      BY <1>15 DEF PushFailed, Pushing
    <2>2. /\ \E e \in Event : out' = Append(out, e)
          /\ out' \in Seq(Event) /\ LinesRight'
          /\ Cardinality(LostIn(out')) = Cardinality(LostIn(out)) + 1
      BY <1>i, <2>1, Reported DEF Failure
    <2>3. DepthAccounted' /\ depth' \in Int
      <3>1. depth' = depth + 1 /\ Cardinality(LostIn(out')) = Cardinality(LostIn(out)) + 1
        BY <1>t, <1>c, <2>1, <2>2
      <3> QED
        BY <2>1, <3>1, StillAccounted
    <2> QED
      BY <1>i, <2>1, <2>2, <2>3, Visited
  <1>16. CASE Push
    BY <1>16, Pushed
  <1>18. CASE LeftOut
    <2>1. Visiting /\ UNCHANGED <<fs, stack, depth, start, lineno, pc, out>> /\ todo' = Rest
      BY <1>18 DEF LeftOut
    <2>2. DepthAccounted' /\ depth' \in Int
      <3>1. depth' = depth + 0 /\ Cardinality(LostIn(out')) = Cardinality(LostIn(out)) + 0
        BY <1>t, <1>c, <2>1
      <3> QED
        BY <2>1, <3>1, StillAccounted
    <2> QED
      BY <1>i, <2>1, <2>2, OutUnchanged, Visited
  <1>19. CASE GlobFailed
    <2> DEFINE what == "glob"
    <2>1. /\ Visiting /\ todo' = Rest /\ what \in Failure \ {"depth", "fopen"}
          /\ out' = Error(what, Item.name)
          /\ UNCHANGED <<fs, stack, depth, start, lineno, pc>>
      BY <1>19 DEF GlobFailed, Failure
    <2> HIDE DEF what
    <2>2. /\ \E e \in Event : out' = Append(out, e)
          /\ out' \in Seq(Event) /\ LinesRight'
          /\ Cardinality(LostIn(out')) = Cardinality(LostIn(out)) + 0
      BY <1>i, <2>1, Reported
    <2>3. DepthAccounted' /\ depth' \in Int
      <3>1. depth' = depth + 0 /\ Cardinality(LostIn(out')) = Cardinality(LostIn(out)) + 0
        BY <1>t, <1>c, <2>1, <2>2
      <3> QED
        BY <2>1, <3>1, StillAccounted
    <2> QED
      BY <1>i, <2>1, <2>2, <2>3, Visited
  <1>20. CASE DirectoryRefused
    <2> DEFINE what == IF fs.kind[Item.name] = "root" THEN "root" ELSE "scandir"
    <2>1. /\ Visiting /\ todo' = Rest /\ what \in Failure \ {"depth", "fopen"}
          /\ out' = Error(what, Item.name)
          /\ UNCHANGED <<fs, stack, depth, start, lineno, pc>>
      BY <1>20 DEF DirectoryRefused, Failure
    <2> HIDE DEF what
    <2>2. /\ \E e \in Event : out' = Append(out, e)
          /\ out' \in Seq(Event) /\ LinesRight'
          /\ Cardinality(LostIn(out')) = Cardinality(LostIn(out)) + 0
      BY <1>i, <2>1, Reported
    <2>3. DepthAccounted' /\ depth' \in Int
      <3>1. depth' = depth + 0 /\ Cardinality(LostIn(out')) = Cardinality(LostIn(out)) + 0
        BY <1>t, <1>c, <2>1, <2>2
      <3> QED
        BY <2>1, <3>1, StillAccounted
    <2> QED
      BY <1>i, <2>1, <2>2, <2>3, Visited
  <1>17. CASE UNCHANGED vars
    <2>1. UNCHANGED <<fs, stack, depth, todo, start, lineno, pc, out>>
      BY <1>17 DEF vars
    <2>2. TypeOK'
      BY <2>1 DEF IncludeInv, TypeOK
    <2>3. OpenFilesBounded' /\ LinesKept' /\ LinesRight'
      BY <2>1, LinesStand, OutUnchanged DEF IncludeInv, OpenFilesBounded
    <2>4. DepthAccounted'
      BY <2>1 DEF IncludeInv, DepthAccounted, LostIn
    <2> QED
      BY <2>2, <2>3, <2>4 DEF IncludeInv
  <1> QED
    BY <1>1, <1>2, <1>3, <1>4, <1>5, <1>6, <1>7, <1>8, <1>9, <1>10, <1>11, <1>12,
       <1>13, <1>14, <1>15, <1>16, <1>17, <1>18, <1>19, <1>20 DEF Next

-----------------------------------------------------------------------------
(* The inductive invariant holds of every program that is read: the count  *)
(* of sourcefile_push is that of the open files and of the pushes that     *)
(* came to nothing, and every open file goes on with the line it has told. *)
THEOREM IncludeInvariance == Spec => []IncludeInv
  BY IncludeInit, IncludeStep, PTL DEF Spec

(* sourcefile.c never has more than MAX_SRCFILE_DEPTH + 1 files open,      *)
(* whatever includes what.                                                 *)
THEOREM OpenFiles == Spec => []OpenFilesBounded
  <1>1. IncludeInv => OpenFilesBounded
    BY DEF IncludeInv
  <1> QED
    BY <1>1, IncludeInvariance, PTL

(* A token's line is its line in its own file, across any includes: what   *)
(* YY_USER_ACTION saves is what the end of an included file restores.  It  *)
(* is behind only by newlines of that file that stand between an "include" *)
(* and its name, which the scanner echoes and yylineno does not count.     *)
THEOREM Positions == Spec => []LinesRight
  <1>1. IncludeInv => LinesRight
    BY DEF IncludeInv
  <1> QED
    BY <1>1, IncludeInvariance, PTL


(* TypeOK: the scanner has a current source until it is done, and reads no *)
(* source past its end (sourcefile.c, filter_lex).                         *)
THEOREM IncludeTypes == Spec => []TypeOK
  <1>1. IncludeInv => TypeOK
    BY DEF IncludeInv
  <1> QED
    BY <1>1, IncludeInvariance, PTL
=============================================================================
