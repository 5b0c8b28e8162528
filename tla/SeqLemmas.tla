----------------------------- MODULE SeqLemmas -----------------------------
(***************************************************************************)
(* Facts about the sequences that the models use as stacks, and induction  *)
(* over a set of numbers, in the form in which the provers can use it: no  *)
(* operator is a parameter of it.                                          *)
(***************************************************************************)
EXTENDS Integers, Sequences, SequenceTheorems, WellFoundedInduction, TLAPS

(* Every set of natural numbers that is not empty has a least element.     *)
LEMMA Least ==
    ASSUME NEW T \in SUBSET Nat, T # {}
    PROVE  \E m \in T : \A n \in T : m <= n
  <1> DEFINE R == {ss \in Nat \X Nat : ss[1] < ss[2]}
  <1>1. IsWellFoundedOn(R, Nat)
    BY NatLessThanWellFounded DEF OpToRel
  <1>2. \A m, n \in Nat : <<n, m>> \notin R => m <= n
    OBVIOUS
  <1> HIDE DEF R
  <1>3. \E m \in T : \A n \in T : <<n, m>> \notin R
    BY <1>1, WFMin
  <1> QED
    BY <1>2, <1>3

(* A set with 0, and with every successor of a member, has all of them.    *)
LEMMA Induction ==
    ASSUME NEW P \in SUBSET Nat, 0 \in P, \A n \in P : n + 1 \in P
    PROVE  P = Nat
  <1> SUFFICES ASSUME Nat \ P # {}
               PROVE  FALSE
    OBVIOUS
  <1>1. PICK m \in Nat \ P : \A n \in Nat \ P : m <= n
    BY Least
  <1>2. m - 1 \in P
    BY <1>1
  <1> QED
    BY <1>1, <1>2

(* x, and what the steps make of it one after the other.                   *)
Iterable(S, x, N, step) == x \in S /\ N \in Nat /\ step \in [1..N -> [S -> S]]

Iteration(f, S, x, N, step) ==
    /\ f \in [0..N -> S]
    /\ f[0] = x
    /\ \A i \in 1..N : f[i] = step[i][f[i - 1]]

(* A recursion over the numbers up to N has a solution.                    *)
LEMMA Recursion ==
    ASSUME NEW S, NEW x, NEW N, NEW step, Iterable(S, x, N, step)
    PROVE  \E f : Iteration(f, S, x, N, step)
  <1> DEFINE P == { n \in Nat : n <= N => \E f : Iteration(f, S, x, n, step) }
  <1>0. x \in S /\ N \in Nat /\ step \in [1..N -> [S -> S]]
    BY DEF Iterable
  <1>1. 0 \in P
    <2>1. Iteration([i \in 0..0 |-> x], S, x, 0, step)
      BY <1>0 DEF Iteration
    <2> QED
      BY <2>1
  <1>2. ASSUME NEW n \in P
        PROVE  n + 1 \in P
    <2> SUFFICES ASSUME n + 1 <= N
                 PROVE  \E f : Iteration(f, S, x, n + 1, step)
      BY <1>2
    <2>1. PICK f : Iteration(f, S, x, n, step)
      BY <1>0, <1>2
    <2> DEFINE g == [i \in 0..(n + 1) |-> IF i = n + 1 THEN step[n + 1][f[n]] ELSE f[i]]
    <2>2. step[n + 1][f[n]] \in S
      BY <1>0, <2>1 DEF Iteration
    <2>3. Iteration(g, S, x, n + 1, step)
      BY <2>1, <2>2 DEF Iteration
    <2> QED
      BY <2>3
  <1> HIDE DEF P
  <1>3. P = Nat
    <2>1. P \in SUBSET Nat
      BY DEF P
    <2> QED
      BY <1>1, <1>2, <2>1, Induction
  <1>4. N \in P
    BY <1>0, <1>3
  <1> QED
    BY <1>0, <1>4 DEF P

(* The order in which sequences are joined makes no difference.            *)
LEMMA InAnyOrder ==
    ASSUME NEW S
    PROVE  \A a, b, c \in Seq(S) : (a \o b) \o c = a \o (b \o c)
  BY ConcatAssociative

(* A sequence is its first element and the rest.                           *)
LEMMA HeadAndTail ==
    ASSUME NEW S, NEW s \in Seq(S), s # <<>>
    PROVE  s = <<Head(s)>> \o Tail(s)
  <1> DEFINE h == <<Head(s)>>
             t == Tail(s)
             u == h \o t
  <1>1. /\ h \in Seq(S) /\ Len(h) = 1 /\ h[1] = s[1] /\ t \in Seq(S)
        /\ Len(t) = Len(s) - 1 /\ Len(s) \in Nat
        /\ \A i \in 1..Len(t) : t[i] = s[i + 1]
    <2>1. Head(s) \in S /\ Head(s) = s[1]
      BY HeadTailProperties
    <2>2. h \in Seq(S) /\ Len(h) = 1 /\ h[1] = s[1]
      BY <2>1
    <2>3. Len(s) \in Nat
      BY LenProperties
    <2>4. /\ t \in Seq(S) /\ Len(t) = Len(s) - 1
          /\ \A i \in 1..Len(t) : t[i] = s[i + 1]
      BY HeadTailProperties
    <2> QED
      BY <2>2, <2>3, <2>4
  <1> HIDE DEF h, t
  <1>2. /\ u \in Seq(S) /\ Len(u) = 1 + Len(t)
        /\ \A i \in 1..(1 + Len(t)) : u[i] = IF i <= 1 THEN h[i] ELSE t[i - 1]
    <2>0. h \in Seq(S) /\ t \in Seq(S)
      BY <1>1
    <2>1. /\ u \in Seq(S) /\ Len(u) = Len(h) + Len(t)
          /\ \A i \in 1..(Len(h) + Len(t)) : u[i] = IF i <= Len(h) THEN h[i] ELSE t[i - Len(h)]
      BY <2>0, ConcatProperties
    <2>2. Len(h) = 1 /\ Len(t) \in Int
      BY <1>1
    <2> QED
      BY <2>1, <2>2
  <1> HIDE DEF u
  <1>3. \A i \in 1..Len(s) : s[i] = u[i]
    BY <1>1, <1>2
  <1>4. s = u
    BY <1>1, <1>2, <1>3, SeqEqual
  <1> QED
    BY <1>4 DEF u, h, t

(* All but the last element of a sequence.                                 *)
LEMMA FrontOfSeq ==
    ASSUME NEW S, NEW s \in Seq(S), Len(s) >= 1
    PROVE  LET t == SubSeq(s, 1, Len(s) - 1)
           IN  /\ t \in Seq(S)
               /\ Len(t) = Len(s) - 1
               /\ \A i \in 1..Len(t) : i \in 1..Len(s) /\ t[i] = s[i]
  <1> DEFINE m == Len(s) - 1
             t == SubSeq(s, 1, m)
  <1>1. m \in Int /\ m >= 0 /\ 1 \in Int /\ \A i \in 1..m : s[i] \in S /\ i \in 1..Len(s)
    OBVIOUS
  <1> HIDE DEF m
  <1>2. /\ t \in Seq(S)
        /\ Len(t) = IF 1 <= m THEN m - 1 + 1 ELSE 0
        /\ \A i \in 1..(m - 1 + 1) : t[i] = s[1 + i - 1]
    BY <1>1, SubSeqProperties
  <1>3. Len(t) = m
    BY <1>1, <1>2
  <1>4. \A i \in 1..m : t[i] = s[i]
    BY <1>1, <1>2
  <1> QED
    BY <1>1, <1>2, <1>3, <1>4 DEF m

(* Replacing the last element of a sequence.                               *)
LEMMA LastReplaced ==
    ASSUME NEW S, NEW s \in Seq(S), Len(s) >= 1, NEW x \in S
    PROVE  LET t == [s EXCEPT ![Len(s)] = x]
           IN  /\ t \in Seq(S)
               /\ Len(t) = Len(s)
               /\ t[Len(s)] = x
               /\ \A i \in 1..Len(s) : i # Len(s) => t[i] = s[i]
  OBVIOUS

(* What is left, t, of a sequence after k of its elements.                 *)
Left(S, s, t, k) ==
    /\ Len(s) - Len(t) = k
    /\ t = <<>> => k = Len(s)
    /\ t # <<>> =>
         /\ k + 1 \in 1..Len(s)
         /\ Head(t) = s[k + 1] /\ Head(t) \in S
         /\ Tail(t) = SubSeq(s, k + 2, Len(s))
         /\ Len(s) - Len(Tail(t)) = k + 1

(* What is left of a sequence, from the next element on.                   *)
LEMMA StillToCome ==
    ASSUME NEW S, NEW s \in Seq(S), NEW t, NEW k \in Nat, k <= Len(s),
           t = SubSeq(s, k + 1, Len(s))
    PROVE  Left(S, s, t, k)
  <1> DEFINE l == Len(s)
  <1>1. l \in Nat
    BY LenProperties
  <1>2. \A m \in 0..l : Len(SubSeq(s, m + 1, l)) = l - m
    <2> TAKE m \in 0..l
    <2>1. m + 1 \in Int /\ l \in Int /\ \A i \in (m + 1)..l : s[i] \in S
      BY <1>1
    <2>2. Len(SubSeq(s, m + 1, l)) = IF m + 1 <= l THEN l - (m + 1) + 1 ELSE 0
      BY <2>1, SubSeqProperties
    <2> QED
      BY <1>1, <2>2
  <1>3. l - Len(t) = k /\ (t = <<>> => k = l)
    <2>1. Len(t) = l - k
      BY <1>2
    <2>2. t = <<>> => Len(t) = 0
      OBVIOUS
    <2> HIDE DEF l
    <2> QED
      BY <1>1, <2>1, <2>2 DEF l
  <1>4. ASSUME t # <<>>
        PROVE  /\ k + 1 \in 1..l /\ Head(t) = s[k + 1] /\ Head(t) \in S
               /\ Tail(t) = SubSeq(s, k + 2, l)
               /\ l - Len(Tail(t)) = k + 1
    <2>1. k + 1 \in 1..l
      BY <1>1, <1>4, SubSeqEmpty
    <2> DEFINE m == k + 1
    <2>2. Head(t) = s[m] /\ Tail(t) = SubSeq(s, m + 1, l)
      BY <1>1, <2>1, HeadTailOfSubSeq
    <2>3. Len(Tail(t)) = l - m
      <3>1. m \in 0..l
        BY <2>1
      <3> HIDE DEF l, m
      <3> QED
        BY <1>2, <2>2, <3>1
    <2>4. m + 1 = k + 2 /\ l - (l - m) = m
      BY <1>1
    <2>5. l - Len(Tail(t)) = m
      BY <2>3, <2>4
    <2>6. Tail(t) = SubSeq(s, k + 2, l)
      BY <2>2, <2>4
    <2>7. s[m] \in S
      BY <2>1
    <2> QED
      BY <2>1, <2>2, <2>5, <2>6, <2>7
  <1> QED
    BY <1>3, <1>4 DEF Left


(* Sequences put one behind the other, as a recursion defines it.          *)
Joined(x, c, N) == CHOOSE f : f = [i \in 0..N |-> IF i = 0 THEN x ELSE f[i - 1] \o c[i]]

Joins(S, x, c, N, g) ==
    /\ x \in Seq(S) /\ N \in Nat /\ \A i \in 1..N : c[i] \in Seq(S)
    /\ g = Joined(x, c, N)

(* The recursion has a solution.                                           *)
LEMMA Joining ==
    ASSUME NEW S, NEW x, NEW c, NEW N, NEW g, Joins(S, x, c, N, g)
    PROVE  /\ g[0] = x
           /\ \A i \in 1..N : g[i] = g[i - 1] \o c[i]
           /\ \A i \in 0..N : g[i] \in Seq(S)
  <1> DEFINE T == Seq(S)
             Once(a, i) == a \o c[i]
             step == [i \in 1..N |-> [s \in T |-> Once(s, i)]]
             Solves(f) == f = [i \in 0..N |-> IF i = 0 THEN x ELSE Once(f[i - 1], i)]
             P == { i \in Nat : i <= N => g[i] \in T }
  <1>0. x \in T /\ N \in Nat /\ \A i \in 1..N : c[i] \in T
    BY DEF Joins
  <1>1. \A i \in 1..N : \A s \in T : Once(s, i) \in T
    BY <1>0, ConcatProperties
  <1>2. x \in T /\ N \in Nat
    BY <1>0
  <1>3. g = CHOOSE f : Solves(f)
    BY DEF Joins, Joined
  <1> HIDE DEF T, Once
  <1>4. PICK f : Iteration(f, T, x, N, step)
    <2>1. step \in [1..N -> [T -> T]]
      BY <1>1
    <2>2. Iterable(T, x, N, step)
      BY <1>2, <2>1 DEF Iterable
    <2> HIDE DEF step
    <2> QED
      BY <2>2, Recursion
  <1>5. f \in [0..N -> T] /\ f[0] = x /\ \A i \in 1..N : f[i] = Once(f[i - 1], i)
    <2>1. f \in [0..N -> T] /\ f[0] = x /\ \A i \in 1..N : f[i] = step[i][f[i - 1]]
      BY <1>4 DEF Iteration
    <2>2. \A i \in 1..N : f[i - 1] \in T
      BY <1>2, <2>1
    <2> QED
      BY <1>1, <1>2, <2>1, <2>2
  <1>6. Solves(f)
    <2>1. \A i \in 0..N : f[i] = IF i = 0 THEN x ELSE Once(f[i - 1], i)
      BY <1>2, <1>5
    <2> QED
      BY <1>5, <2>1
  <1>7. Solves(g)
    <2> HIDE DEF Solves
    <2> QED
      BY <1>3, <1>6
  <1>8. \A i \in 0..N : g[i] = IF i = 0 THEN x ELSE Once(g[i - 1], i)
    BY <1>7
  <1>9. g[0] = x /\ \A i \in 1..N : g[i] = Once(g[i - 1], i)
    BY <1>2, <1>8
  <1>10. 0 \in P
    BY <1>2, <1>9
  <1>11. ASSUME NEW i \in P
         PROVE  i + 1 \in P
    <2> SUFFICES ASSUME i + 1 <= N
                 PROVE  g[i + 1] \in T
      BY <1>11
    <2>1. i + 1 \in 1..N /\ (i + 1) - 1 = i /\ g[i] \in T
      BY <1>2, <1>11
    <2> QED
      BY <1>1, <1>9, <2>1
  <1>12. P \in SUBSET Nat
    OBVIOUS
  <1> HIDE DEF P
  <1>13. P = Nat
    BY <1>10, <1>11, <1>12, Induction
  <1>14. \A i \in 0..N : g[i] \in T
    BY <1>2, <1>13 DEF P
  <1> QED
    BY <1>9, <1>14 DEF T, Once

(* The beginnings of a sequence: what something can follow on.             *)
Starts(s) == { SubSeq(s, 1, n) : n \in 0..Len(s) }

(* A beginning is what can be followed up to the whole.                    *)
LEMMA StartIs ==
    ASSUME NEW S, NEW s \in Seq(S), NEW u
    PROVE  u \in Starts(s) <=> u \in Seq(S) /\ \E r \in Seq(S) : u \o r = s
  <1>1. Len(s) \in Nat /\ \A i \in 1..Len(s) : s[i] \in S
    BY LenProperties
  <1>2. ASSUME u \in Starts(s)
        PROVE  u \in Seq(S) /\ \E r \in Seq(S) : u \o r = s
    <2>1. PICK n \in 0..Len(s) : u = SubSeq(s, 1, n)
      BY <1>2 DEF Starts
    <2> DEFINE m == Len(s)
               r == SubSeq(s, n + 1, m)
    <2>2. m \in Nat /\ n \in 0..m /\ \A i \in 1..m : s[i] \in S
      BY <1>1
    <2>3. u \in Seq(S)
      <3>1. \A i \in 1..n : s[i] \in S
        BY <2>2
      <3> QED
        BY <2>1, <2>2, <3>1, SubSeqProperties
    <2>4. r \in Seq(S)
      <3>1. \A i \in (n + 1)..m : s[i] \in S
        BY <2>2
      <3>2. n + 1 \in Int /\ m \in Int
        BY <2>2
      <3> QED
        BY <3>1, <3>2, SubSeqProperties
    <2>5. u \o r = SubSeq(s, 1, m)
      <3>1. 1 \in 1..(Len(s) + 1) /\ n \in (1 - 1)..Len(s) /\ m \in n..Len(s)
        BY <2>2
      <3> HIDE DEF m
      <3> QED
        BY <2>1, <3>1, ConcatAdjacentSubSeq
    <2> QED
      BY <2>3, <2>4, <2>5, SubSeqFull
  <1>3. ASSUME u \in Seq(S), NEW r \in Seq(S), u \o r = s
        PROVE  u \in Starts(s)
    <2>1. Len(u) \in Nat /\ Len(r) \in Nat
      BY <1>3, LenProperties
    <2>2. Len(s) = Len(u) + Len(r)
      BY <1>3, ConcatProperties
    <2>3. Len(u) \in 0..Len(s)
      BY <2>1, <2>2
    <2>4. SubSeq(s, 1, Len(u)) = u
      <3>1. CASE Len(u) = 0
        <4>1. u = <<>>
          BY <1>3, <3>1, EmptySeq
        <4>2. SubSeq(s, 1, 0) = <<>>
          BY SubSeqEmpty
        <4> QED
          BY <3>1, <4>1, <4>2
      <3>2. CASE Len(u) # 0
        <4>1. 1 \in 1..Len(u) /\ Len(u) \in 1..Len(u)
          BY <2>1, <3>2
        <4>2. SubSeq(u \o r, 1, Len(u)) = SubSeq(u, 1, Len(u))
          BY <1>3, <4>1, SubSeqOfConcat1
        <4> QED
          BY <1>3, <4>2, SubSeqFull
      <3> QED
        BY <3>1, <3>2
    <2> QED
      BY <2>3, <2>4 DEF Starts
  <1> QED
    BY <1>2, <1>3

(* Nothing, all of it, and what a beginning begins with.                   *)
LEMMA StartsOf ==
    ASSUME NEW S, NEW s \in Seq(S)
    PROVE  /\ <<>> \in Starts(s) /\ s \in Starts(s)
           /\ \A u, v \in Seq(S) : u \o v \in Starts(s) => u \in Starts(s)
           /\ \A u, v \in Seq(S) : u \in Starts(s) /\ v \in Starts(u) => v \in Starts(s)
  <1> DEFINE e == <<>>
  <1>0. e \in Seq(S) /\ e \o s = s /\ s \o e = s
    BY EmptySeq, ConcatEmptySeq
  <1> HIDE DEF e
  <1>1. e \in Starts(s) /\ s \in Starts(s)
    BY <1>0, StartIs
  <1>2. ASSUME NEW u \in Seq(S), NEW v \in Seq(S), u \o v \in Starts(s)
        PROVE  u \in Starts(s)
    <2>1. PICK r \in Seq(S) : (u \o v) \o r = s
      BY <1>2, StartIs
    <2>2. v \o r \in Seq(S)
      BY <2>1, ConcatProperties
    <2>3. u \o (v \o r) = s
      <3>1. (u \o v) \o r = u \o (v \o r)
        BY ConcatAssociative
      <3> QED
        BY <2>1, <3>1
    <2> DEFINE q == v \o r
    <2> HIDE DEF q
    <2>4. q \in Seq(S) /\ u \o q = s
      BY <2>2, <2>3 DEF q
    <2> QED
      BY <2>4, StartIs
  <1>3. ASSUME NEW u \in Seq(S), NEW v \in Seq(S), u \in Starts(s), v \in Starts(u)
        PROVE  v \in Starts(s)
    <2>1. PICK r \in Seq(S) : v \o r = u
      BY <1>3, StartIs
    <2> QED
      BY <1>2, <1>3, <2>1
  <1> QED
    BY <1>1, <1>2, <1>3 DEF e

(* What is left when the end of the second of two is lost.                 *)
LEMMA StartsCut ==
    ASSUME NEW S, NEW s \in Seq(S), NEW u \in Seq(S), NEW v \in Seq(S)
    PROVE  u \o v \in Starts(s) =>
               \A w \in Starts(v) : w \in Seq(S) /\ u \o w \in Starts(s)
  <1>1. \A w \in Starts(v) : w \in Seq(S) /\ \E r \in Seq(S) : w \o r = v
    BY StartIs
  <1>2. ASSUME NEW a \in Seq(S), NEW r \in Seq(S), a \o r = v, u \o v \in Starts(s)
        PROVE  u \o a \in Starts(s)
    <2>1. (u \o a) \o r = u \o (a \o r)
      BY InAnyOrder
    <2> DEFINE q == u \o a
    <2>2. q \in Seq(S)
      BY ConcatProperties
    <2>3. q \o r \in Starts(s)
      BY <1>2, <2>1
    <2> HIDE DEF q
    <2>4. q \in Starts(s)
      BY <2>2, <2>3, StartsOf
    <2> QED
      BY <2>4 DEF q
  <1> QED
    BY <1>1, <1>2
=============================================================================
