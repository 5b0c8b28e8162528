--------------------------- MODULE FirewallProofs ---------------------------
(***************************************************************************)
(* Proofs about the fate of packets, for every program, kernel and packet: *)
(* chains that hold what the calls made so far have put into them decide   *)
(* what the policy of these calls decides, and every command of a callback *)
(* takes the chains from one call to the next.                             *)
(***************************************************************************)
EXTENDS Firewall, NetfilterProofs

-----------------------------------------------------------------------------
(***************************************************************************)
(* The first verdict of a list                                             *)
(***************************************************************************)
Outcome == Verdict \union {"RETURN"}

Then(a, b) == IF a # "RETURN" THEN a ELSE b

(* It is the one that has none before it.                                  *)
LEMMA FirstIs ==
    ASSUME NEW n \in Nat, NEW v, DOMAIN v = 1..n
    PROVE  /\ (\A i \in 1..n : v[i] = "RETURN") => First(v) = "RETURN"
           /\ \A i \in 1..n : v[i] # "RETURN" /\ (\A j \in 1..n : j < i => v[j] = "RETURN") => First(v) = v[i]
           /\ (\A i \in 1..n : v[i] = "RETURN")
              \/ \E i \in 1..n : v[i] # "RETURN" /\ \A j \in 1..n : j < i => v[j] = "RETURN"
  <1> DEFINE D == { i \in DOMAIN v : v[i] # "RETURN" }
  <1>1. First(v) = IF D = {} THEN "RETURN" ELSE v[CHOOSE i \in D : \A j \in D : i <= j]
    BY DEF First
  <1>2. ASSUME NEW i \in 1..n, v[i] # "RETURN", \A j \in 1..n : j < i => v[j] = "RETURN"
        PROVE  First(v) = v[i]
    <2>1. i \in D /\ \A j \in D : i <= j
      BY <1>2
    <2>2. \A m \in D : (\A j \in D : m <= j) => m = i
      BY <2>1
    <2>3. (CHOOSE m \in D : \A j \in D : m <= j) = i
      BY <2>1, <2>2
    <2> QED
      BY <1>1, <2>1, <2>3
  <1>3. (\A i \in 1..n : v[i] = "RETURN") => First(v) = "RETURN"
    BY <1>1
  <1>4. ASSUME ~ \A i \in 1..n : v[i] = "RETURN"
        PROVE  \E i \in 1..n : v[i] # "RETURN" /\ \A j \in 1..n : j < i => v[j] = "RETURN"
    <2>1. D \in SUBSET Nat /\ D # {}
      BY <1>4
    <2>2. PICK m \in D : \A j \in D : m <= j
      BY <2>1, Least
    <2> QED
      BY <2>2
  <1> QED
    BY <1>2, <1>3, <1>4

(* An empty list,                                                          *)
LEMMA FirstOfNone ==
    ASSUME NEW v, DOMAIN v = 1..0
    PROVE  First(v) = "RETURN"
  <1>1. \A i \in 1..0 : v[i] = "RETURN"
    OBVIOUS
  <1> QED
    BY <1>1, FirstIs

(* a list with one more at its end,                                        *)
LEMMA FirstAppended ==
    ASSUME NEW n \in Nat, NEW v, DOMAIN v = 1..n, NEW w, DOMAIN w = 1..(n + 1),
           \A i \in 1..n : w[i] = v[i]
    PROVE  First(w) = Then(First(v), w[n + 1])
  <1>1. CASE \A i \in 1..n : v[i] = "RETURN"
    <2>1. First(v) = "RETURN"
      BY <1>1, FirstIs
    <2>2. CASE w[n + 1] = "RETURN"
      <3>1. \A i \in 1..(n + 1) : w[i] = "RETURN"
        BY <1>1, <2>2
      <3> QED
        BY <2>1, <2>2, <3>1, FirstIs DEF Then
    <2>3. CASE w[n + 1] # "RETURN"
      <3>1. \A j \in 1..(n + 1) : j < n + 1 => w[j] = "RETURN"
        BY <1>1
      <3>2. First(w) = w[n + 1]
        BY <2>3, <3>1, FirstIs
      <3> QED
        BY <2>1, <3>2 DEF Then
    <2> QED
      BY <2>2, <2>3
  <1>2. CASE \E i \in 1..n : v[i] # "RETURN" /\ \A j \in 1..n : j < i => v[j] = "RETURN"
    <2>1. PICK i \in 1..n : v[i] # "RETURN" /\ \A j \in 1..n : j < i => v[j] = "RETURN"
      BY <1>2
    <2>2. First(v) = v[i]
      BY <2>1, FirstIs
    <2>3. i \in 1..(n + 1) /\ w[i] # "RETURN" /\ \A j \in 1..(n + 1) : j < i => w[j] = "RETURN"
      BY <2>1
    <2>4. First(w) = w[i]
      BY <2>3, FirstIs
    <2> QED
      BY <2>1, <2>2, <2>4 DEF Then
  <1> QED
    BY <1>1, <1>2, FirstIs

(* and one with one more at its head.                                      *)
LEMMA FirstInserted ==
    ASSUME NEW n \in Nat, NEW v, DOMAIN v = 1..n, NEW w, DOMAIN w = 1..(n + 1),
           \A i \in 1..n : w[i + 1] = v[i]
    PROVE  First(w) = Then(w[1], First(v))
  <1>1. CASE w[1] # "RETURN"
    <2>1. 1 \in 1..(n + 1) /\ \A j \in 1..(n + 1) : j < 1 => w[j] = "RETURN"
      OBVIOUS
    <2>2. First(w) = w[1]
      BY <1>1, <2>1, FirstIs
    <2> QED
      BY <1>1, <2>2 DEF Then
  <1>2. CASE w[1] = "RETURN" /\ \A i \in 1..n : v[i] = "RETURN"
    <2>1. \A i \in 1..(n + 1) : w[i] = "RETURN"
      <3> TAKE i \in 1..(n + 1)
      <3>1. i # 1 => i - 1 \in 1..n /\ w[(i - 1) + 1] = v[i - 1]
        OBVIOUS
      <3> QED
        BY <1>2, <3>1
    <2> QED
      BY <1>2, <2>1, FirstIs DEF Then
  <1>3. CASE w[1] = "RETURN" /\ \E i \in 1..n : v[i] # "RETURN" /\ \A j \in 1..n : j < i => v[j] = "RETURN"
    <2>1. PICK i \in 1..n : v[i] # "RETURN" /\ \A j \in 1..n : j < i => v[j] = "RETURN"
      BY <1>3
    <2>2. First(v) = v[i]
      BY <2>1, FirstIs
    <2>3. ASSUME NEW j \in 1..(n + 1), j < i + 1
          PROVE  w[j] = "RETURN"
      <3>1. j # 1 => j - 1 \in 1..n /\ j - 1 < i /\ w[(j - 1) + 1] = v[j - 1]
        BY <2>3
      <3> QED
        BY <1>3, <2>1, <3>1
    <2>4. i + 1 \in 1..(n + 1) /\ w[i + 1] # "RETURN"
      BY <2>1
    <2>5. First(w) = w[i + 1]
      BY <2>3, <2>4, FirstIs
    <2> QED
      BY <1>3, <2>1, <2>2, <2>5 DEF Then
  <1> QED
    BY <1>1, <1>2, <1>3, FirstIs

(* It is one of the list, or none.                                         *)
LEMMA FirstTyped ==
    ASSUME NEW n \in Nat, NEW v, DOMAIN v = 1..n, NEW S, \A i \in 1..n : v[i] \in S, "RETURN" \in S
    PROVE  First(v) \in S
  BY FirstIs

-----------------------------------------------------------------------------
(***************************************************************************)
(* Unfolding the two recursions                                            *)
(***************************************************************************)

(* A chain decides something, or nothing, if those it jumps to do.         *)
LEMMA InChainTyped ==
    ASSUME NEW k, IsKernel(k), NEW c \in Exists(k), NEW p, NEW sub \in [Exists(k) -> Outcome]
    PROVE  InChain(k, c, p, sub) \in Outcome
  <1> DEFINE n == Len(k.rules[c])
             v == [i \in 1..n |-> ByTarget(k.rules[c][i], p, sub)]
  <1>1. n \in Nat /\ k.rules[c] \in Seq(Rule)
    BY LenProperties DEF IsKernel
  <1>2. \A i \in 1..n : v[i] \in Outcome
    <2> TAKE i \in 1..n
    <2>1. JumpOK(k, c, k.rules[c][i].jump)
      BY <1>1 DEF IsKernel, Linked
    <2> DEFINE r == k.rules[c][i]
    <2>2. r.jump.base \in Verdict \union Alteration \/ r.jump \in Exists(k)
      BY <2>1 DEF JumpOK
    <2> HIDE DEF r
    <2>3. ByTarget(r, p, sub) \in Outcome
      BY <2>2 DEF ByTarget, Outcome
    <2> QED
      BY <2>3 DEF r
  <1>3. InChain(k, c, p, sub) = First(v)
    BY DEF InChain
  <1> HIDE DEF v
  <1>4. "RETURN" \in Outcome /\ DOMAIN v = 1..n
    BY DEF Outcome, v
  <1> HIDE DEF n
  <1> QED
    BY <1>1, <1>2, <1>3, <1>4, FirstTyped

(* What the chains decide, jump by jump.                                   *)
LEMMA DecisionUnfolds ==
    ASSUME NEW k, IsKernel(k), NEW p
    PROVE  /\ JumpLimit \in Nat
           /\ \A n \in 0..JumpLimit : Decision(k, p)[n] \in [Exists(k) -> Outcome]
           /\ \A c \in Exists(k) : Decision(k, p)[0][c] = "RETURN"
           /\ \A n \in 1..JumpLimit : \A c \in Exists(k) :
                Decision(k, p)[n][c] = InChain(k, c, p, Decision(k, p)[n - 1])
  <1> DEFINE N == JumpLimit
             S == [Exists(k) -> Outcome]
             x == [c \in Exists(k) |-> "RETURN"]
             On(d) == [c \in Exists(k) |-> InChain(k, c, p, d)]
             At(n, d) == [c \in Exists(k) |-> IF n = 0 THEN "RETURN" ELSE InChain(k, c, p, d)]
             Solves(f) == f = [n \in 0..N |-> At(n, f[n - 1])]
             step == [i \in 1..N |-> [d \in S |-> On(d)]]
  <1>1. N \in Nat
    BY FirewallAssumption
  <1>2. x \in S /\ \A d \in S : On(d) \in S
    BY InChainTyped DEF Outcome
  <1>3. step \in [1..N -> [S -> S]]
    BY <1>2
  <1>0. (\A d : At(0, d) = x) /\ \A n \in Nat \ {0} : \A d : At(n, d) = On(d)
    OBVIOUS
  <1> HIDE DEF N, S, At
  <1>4. PICK f \in [0..N -> S] : f[0] = x /\ \A i \in 1..N : f[i] = step[i][f[i - 1]]
    <2>1. Iterable(S, x, N, step)
      BY <1>1, <1>2, <1>3 DEF Iterable
    <2> HIDE DEF step, x
    <2>2. \E f : Iteration(f, S, x, N, step)
      BY <2>1, Recursion
    <2> QED
      BY <2>2 DEF Iteration
  <1>5. \A i \in 1..N : f[i] = On(f[i - 1])
    <2> TAKE i \in 1..N
    <2>1. f[i - 1] \in S
      BY <1>1, <1>4
    <2> QED
      BY <1>4, <2>1
  <1>6. Solves(f)
    <2> HIDE DEF step, x, On
    <2>1. \A n \in 0..N : f[n] = At(n, f[n - 1])
      BY <1>0, <1>1, <1>4, <1>5
    <2> QED
      BY <1>4, <2>1
  <1>7. Decision(k, p) = CHOOSE g : Solves(g)
    BY DEF Decision, N, At
  <1>8. Solves(Decision(k, p))
    <2> HIDE DEF Solves
    <2> QED
      BY <1>6, <1>7
  <1> DEFINE g == Decision(k, p)
  <1>9. \A n \in 0..N : g[n] = At(n, g[n - 1])
    <2>1. g = [n \in 0..N |-> At(n, g[n - 1])]
      BY <1>8
    <2> HIDE DEF g
    <2> QED
      BY <2>1
  <1> HIDE DEF g
  <1>10. g[0] = x /\ \A n \in 1..N : g[n] = On(g[n - 1])
    BY <1>0, <1>1, <1>9
  <1>11. \A n \in 0..N : g[n] \in S
    <2> DEFINE P == { n \in Nat : n <= N => g[n] \in S }
    <2>1. 0 \in P
      BY <1>2, <1>10
    <2>2. ASSUME NEW n \in P
          PROVE  n + 1 \in P
      <3>1. n + 1 <= N => g[n] \in S /\ g[n + 1] = On(g[n])
        BY <1>1, <1>10
      <3> QED
        BY <1>2, <3>1
    <2>3. P \in SUBSET Nat
      OBVIOUS
    <2> HIDE DEF P
    <2>4. P = Nat
      BY <2>1, <2>2, <2>3, Induction
    <2> QED
      BY <1>1, <2>4 DEF P
  <1> QED
    BY <1>1, <1>10, <1>11 DEF g, N, S

(* A rule says something, or nothing, if the groups do.                    *)
LEMMA SaysTyped ==
    ASSUME NEW voice, NEW e \in Ent, NEW dir, NEW p, NEW sub \in [Group -> Outcome]
    PROVE  Says(voice, e, dir, p, sub) \in Outcome
  <1>1. e.m["SUBGROUP"] \in Group
    BY DEF Ent, FieldType, Group
  <1>2. Denies(e) => e.m["TARGET"] \in Outcome
    BY DEF Denies, Outcome, Verdict
  <1>3. "RETURN" \in Outcome /\ "ACCEPT" \in Outcome
    BY DEF Outcome, Verdict
  <1>4. sub[e.m["SUBGROUP"]] \in Outcome
    BY <1>1
  <1> QED
    BY <1>2, <1>3, <1>4 DEF Says, ByRule, ByAnswer

(* What call i adds to what a group has said before it.                    *)
Adds(voice, calls, i, g, dir, p, sub) ==
    IF calls[i].k = "group" \/ calls[i].ent.group # g THEN "RETURN"
    ELSE Says(voice, calls[i].ent, dir, p, sub)

(* What the groups say, call by call.                                      *)
ByAndBy(voice, calls, dir, p, h) ==
    /\ \A n \in 0..Len(calls) : h[n] \in [Group -> Outcome]
    /\ \A g \in Group : h[0][g] = "RETURN"
    /\ \A n \in 1..Len(calls) : \A g \in Group :
         h[n][g] = Then(h[n - 1][g], Adds(voice, calls, n, g, dir, p, h[n - 1]))

LEMMA HeardUnfolds ==
    ASSUME NEW voice, NEW calls \in Seq(Call), NEW dir, NEW p
    PROVE  ByAndBy(voice, calls, dir, p, Heard(voice, calls, dir, p))
  <1> DEFINE N == Len(calls)
             S == [Group -> Outcome]
             x == [g \in Group |-> "RETURN"]
             More(n, d, g) == IF d[g] # "RETURN" \/ calls[n].k = "group" \/ calls[n].ent.group # g
                              THEN d[g] ELSE Says(voice, calls[n].ent, dir, p, d)
             On(n, d) == [g \in Group |-> More(n, d, g)]
             At(n, d) == [g \in Group |-> IF n = 0 THEN "RETURN" ELSE More(n, d, g)]
             Solves(f) == f = [n \in 0..N |-> At(n, f[n - 1])]
             step == [i \in 1..N |-> [d \in S |-> On(i, d)]]
  <1>1. N \in Nat
    BY LenProperties
  <1>2. x \in S
    BY DEF Outcome
  <1>3. \A n \in 1..N : \A d \in S : On(n, d) \in S
    <2> TAKE n \in 1..N
    <2> TAKE d \in S
    <2>1. calls[n] \in Call
      BY LenProperties
    <2>2. calls[n].ent \in Ent
      BY <2>1 DEF Call
    <2>3. Says(voice, calls[n].ent, dir, p, d) \in Outcome
      BY <2>2, SaysTyped
    <2> QED
      BY <2>3
  <1>4. \A n, d, g : More(n, d, g) = Then(d[g], Adds(voice, calls, n, g, dir, p, d))
    BY DEF Then, Adds
  <1>0. (\A d : At(0, d) = x) /\ \A n \in Nat \ {0} : \A d : At(n, d) = On(n, d)
    OBVIOUS
  <1>5. Heard(voice, calls, dir, p) = CHOOSE g : Solves(g)
    BY DEF Heard
  <1>6. step \in [1..N -> [S -> S]]
    BY <1>3
  <1> HIDE DEF N, S, At
  <1>7. PICK f \in [0..N -> S] : f[0] = x /\ \A i \in 1..N : f[i] = step[i][f[i - 1]]
    <2>1. Iterable(S, x, N, step)
      BY <1>1, <1>2, <1>6 DEF Iterable
    <2> HIDE DEF step, x
    <2>2. \E f : Iteration(f, S, x, N, step)
      BY <2>1, Recursion
    <2> QED
      BY <2>2 DEF Iteration
  <1> HIDE DEF On
  <1>8. \A i \in 1..N : f[i] = On(i, f[i - 1])
    <2> TAKE i \in 1..N
    <2>1. f[i - 1] \in S
      BY <1>1, <1>7
    <2> QED
      BY <1>7, <2>1
  <1>9. Solves(f)
    <2> HIDE DEF step, x
    <2>1. \A n \in 0..N : f[n] = At(n, f[n - 1])
      BY <1>0, <1>1, <1>7, <1>8
    <2> QED
      BY <1>7, <2>1
  <1>10. Solves(Heard(voice, calls, dir, p))
    <2> HIDE DEF Solves
    <2> QED
      BY <1>5, <1>9
  <1> DEFINE h == Heard(voice, calls, dir, p)
  <1>11. \A n \in 0..N : h[n] = At(n, h[n - 1])
    <2>1. h = [n \in 0..N |-> At(n, h[n - 1])]
      BY <1>10
    <2> HIDE DEF h
    <2> QED
      BY <2>1
  <1> HIDE DEF h
  <1>12. h[0] = x /\ \A n \in 1..N : h[n] = On(n, h[n - 1])
    BY <1>0, <1>1, <1>11
  <1>13. \A n \in 0..N : h[n] \in S
    <2> DEFINE P == { n \in Nat : n <= N => h[n] \in S }
    <2>1. 0 \in P
      BY <1>2, <1>12
    <2>2. ASSUME NEW n \in P
          PROVE  n + 1 \in P
      <3>1. n + 1 <= N => n + 1 \in 1..N /\ h[n] \in S /\ h[n + 1] = On(n + 1, h[n])
        BY <1>1, <1>12
      <3> QED
        BY <1>3, <3>1
    <2>3. P \in SUBSET Nat
      OBVIOUS
    <2> HIDE DEF P
    <2>4. P = Nat
      BY <2>1, <2>2, <2>3, Induction
    <2> QED
      BY <1>1, <2>4 DEF P
  <1>14. \A n \in 1..N : \A g \in Group : h[n][g] = More(n, h[n - 1], g)
    <2> HIDE DEF More
    <2> QED
      BY <1>12 DEF On
  <1>15. \A n \in 1..N : \A g \in Group :
            h[n][g] = Then(h[n - 1][g], Adds(voice, calls, n, g, dir, p, h[n - 1]))
    <2> HIDE DEF More
    <2> QED
      BY <1>4, <1>14
  <1> QED
    BY <1>12, <1>13, <1>15 DEF h, N, S, ByAndBy

-----------------------------------------------------------------------------
(***************************************************************************)
(* What the groups say                                                     *)
(***************************************************************************)

(* Once a group has decided, it does not change its mind.                  *)
Settling(h, n) ==
    \A g \in Group : \A i, j \in 0..n :
        i <= j /\ h[i][g] # "RETURN" => h[j][g] = h[i][g]

(* Before the first call nobody has said anything.                         *)
LEMMA HeardAtFirst ==
    ASSUME NEW voice, NEW calls \in Seq(Call), NEW dir, NEW p, NEW g \in Group
    PROVE  Heard(voice, calls, dir, p)[0][g] = "RETURN"
  <1> DEFINE h == Heard(voice, calls, dir, p)
  <1>1. ByAndBy(voice, calls, dir, p, h)
    BY HeardUnfolds
  <1> HIDE DEF h
  <1>2. h[0][g] = "RETURN"
    BY <1>1 DEF ByAndBy
  <1> QED
    BY <1>2 DEF h

LEMMA HeardKept ==
    ASSUME NEW voice, NEW calls \in Seq(Call), NEW dir, NEW p
    PROVE  Settling(Heard(voice, calls, dir, p), Len(calls))
  <1> SUFFICES ASSUME NEW g \in Group, NEW m \in 0..Len(calls), NEW n \in 0..Len(calls), m <= n,
                      Heard(voice, calls, dir, p)[m][g] # "RETURN"
               PROVE  Heard(voice, calls, dir, p)[n][g] = Heard(voice, calls, dir, p)[m][g]
    BY Zenon DEF Settling
  <1> DEFINE h == Heard(voice, calls, dir, p)
             N == Len(calls)
             P == { i \in Nat : m + i <= N => h[m + i][g] = h[m][g] }
  <1>1. \A i \in 1..N : \A f \in Group :
            h[i][f] = Then(h[i - 1][f], Adds(voice, calls, i, f, dir, p, h[i - 1]))
    <2>1. ByAndBy(voice, calls, dir, p, h)
      BY HeardUnfolds
    <2> QED
      BY <2>1 DEF ByAndBy
  <1>2. N \in Nat
    BY LenProperties
  <1> HIDE DEF h, N
  <1>3. 0 \in P
    BY <1>2
  <1>4. ASSUME NEW i \in P
        PROVE  i + 1 \in P
    <2> SUFFICES ASSUME m + (i + 1) <= N
                 PROVE  h[m + (i + 1)][g] = h[m][g]
      BY <1>4
    <2>1. m + (i + 1) \in 1..N /\ m + (i + 1) - 1 = m + i /\ h[m + i][g] = h[m][g]
      BY <1>2, <1>4
    <2>2. h[m + (i + 1)][g] =
             Then(h[m + i][g], Adds(voice, calls, m + (i + 1), g, dir, p, h[m + i]))
      BY <1>1, <2>1
    <2> QED
      BY <2>1, <2>2 DEF Then, h
  <1>5. P \in SUBSET Nat
    OBVIOUS
  <1> HIDE DEF P
  <1>6. P = Nat
    BY <1>3, <1>4, <1>5, Induction
  <1>7. n - m \in P /\ m + (n - m) = n /\ n <= N
    BY <1>2, <1>6 DEF N
  <1> QED
    BY <1>7 DEF P, h

(* A group of which no call adds anything is silent.                       *)
LEMMA HeardNothing ==
    ASSUME NEW voice, NEW calls \in Seq(Call), NEW dir, NEW p, NEW g \in Group,
           NEW n \in 0..Len(calls),
           \A i \in 1..n : \A sub : Adds(voice, calls, i, g, dir, p, sub) = "RETURN"
    PROVE  Heard(voice, calls, dir, p)[n][g] = "RETURN"
  <1> DEFINE h == Heard(voice, calls, dir, p)
             N == Len(calls)
             P == { i \in Nat : i <= n => h[i][g] = "RETURN" }
  <1>1. /\ h[0][g] = "RETURN"
        /\ \A i \in 1..N :
            h[i][g] = Then(h[i - 1][g], Adds(voice, calls, i, g, dir, p, h[i - 1]))
    <2>1. ByAndBy(voice, calls, dir, p, h)
      BY HeardUnfolds
    <2> QED
      BY <2>1 DEF ByAndBy
  <1>2. N \in Nat
    BY LenProperties
  <1> HIDE DEF h
  <1>3. 0 \in P
    BY <1>1
  <1>4. ASSUME NEW i \in P
        PROVE  i + 1 \in P
    <2> SUFFICES ASSUME i + 1 <= n
                 PROVE  h[i + 1][g] = "RETURN"
      BY <1>4
    <2>1. i + 1 \in 1..N /\ i + 1 \in 1..n /\ (i + 1) - 1 = i /\ h[i][g] = "RETURN"
      BY <1>2, <1>4
    <2> QED
      BY <1>1, <2>1 DEF Then
  <1>5. P \in SUBSET Nat
    OBVIOUS
  <1> HIDE DEF P
  <1>6. P = Nat
    BY <1>3, <1>4, <1>5, Induction
  <1> QED
    BY <1>6 DEF P, h

(* A rule belongs to its call.                                             *)
LEMMA RuleCallIs ==
    ASSUME NEW calls \in Seq(Call), NEW i \in 1..Len(calls)
    PROVE  /\ calls[i] \in Call /\ calls[i].ent \in Ent
           /\ calls[i].ent.group \in Group /\ calls[i].ent.m["SUBGROUP"] \in Group
           /\ calls[i].k # "group" <=> i \in RuleCalls(calls)
  <1>1. calls[i] \in Call
    BY LenProperties
  <1>2. calls[i].ent \in Ent /\ calls[i].k \in {"group", "rule"}
    BY <1>1 DEF Call
  <1> DEFINE e == calls[i].ent
  <1> HIDE DEF e
  <1>3. e \in Ent => e.group \in Group /\ e.m["SUBGROUP"] \in Group
    BY DEF Ent, Group, FieldType
  <1> QED
    BY <1>1, <1>2, <1>3 DEF RuleCalls, e

(* Answers permit, or say nothing, and only to packets of a connection     *)
(* that is under way.                                                      *)
Answering(p) == p.state = "ESTABLISHED" /\ p.syn # "yes" /\ p.proto \in Connection

LEMMA AnswersPermit ==
    ASSUME NEW calls \in Seq(Call), Regular(calls), NEW dir, NEW p \in Packet, NEW g \in Group,
           NEW n \in 0..Len(calls)
    PROVE  \/ Heard("answer", calls, dir, p)[n][g] = "RETURN"
           \/ Heard("answer", calls, dir, p)[n][g] = "ACCEPT" /\ Answering(p)
  <1> DEFINE h == Heard("answer", calls, dir, p)
             N == Len(calls)
             OK(v) == v = "RETURN" \/ (v = "ACCEPT" /\ Answering(p))
             P == { i \in Nat : i <= N => \A f \in Group : OK(h[i][f]) }
  <1>1. /\ \A f \in Group : h[0][f] = "RETURN"
        /\ \A i \in 1..N : \A f \in Group :
            h[i][f] = Then(h[i - 1][f], Adds("answer", calls, i, f, dir, p, h[i - 1]))
    <2>1. ByAndBy("answer", calls, dir, p, h)
      BY HeardUnfolds
    <2> QED
      BY <2>1 DEF ByAndBy
  <1>2. N \in Nat
    BY LenProperties
  <1>3. ASSUME NEW e, NEW sub, Rendered(e), OK(sub[e.m["SUBGROUP"]])
        PROVE  OK(ByAnswer(e, dir, p, sub))
    <2>1. Fits(e, Answered(p)) => Agrees(e, "PROTO", Answered(p).proto)
      BY DEF Fits
    <2>2. Agrees(e, "PROTO", Answered(p).proto) =>
             e.m["PROTO"] = NULL \/ e.m["PROTO"] = Answered(p).proto
      BY <1>3 DEF Agrees, Rendered
    <2>3. Fits(e, Answered(p)) /\ HasState(e) => p.proto \in Connection
      <3>1. Answered(p).proto = p.proto
        BY DEF Answered, Packet
      <3>2. HasState(e) => e.m["PROTO"] # NULL
        BY FirewallAssumption DEF HasState
      <3> QED
        BY <2>1, <2>2, <3>1, <3>2 DEF HasState
    <2> QED
      BY <1>3, <2>3 DEF ByAnswer, Answering
  <1> HIDE DEF h, OK
  <1>4. 0 \in P
    BY <1>1 DEF OK
  <1>5. ASSUME NEW i \in P
        PROVE  i + 1 \in P
    <2> SUFFICES ASSUME i + 1 <= N, NEW f \in Group
                 PROVE  OK(h[i + 1][f])
      BY <1>5
    <2>1. i + 1 \in 1..N /\ (i + 1) - 1 = i /\ \A b \in Group : OK(h[i][b])
      BY <1>2, <1>5
    <2> DEFINE e == calls[i + 1].ent
    <2>2. e.m["SUBGROUP"] \in Group /\ (calls[i + 1].k # "group" => Rendered(e))
      BY <2>1, RuleCallIs DEF Regular
    <2> HIDE DEF e
    <2>3. Rendered(e) => OK(Says("answer", e, dir, p, h[i]))
      BY <1>3, <2>1, <2>2 DEF Says
    <2>4. OK(Adds("answer", calls, i + 1, f, dir, p, h[i]))
      BY <2>2, <2>3 DEF Adds, OK, e
    <2>5. h[i + 1][f] = Then(h[i][f], Adds("answer", calls, i + 1, f, dir, p, h[i]))
      BY <1>1, <2>1
    <2> QED
      BY <2>1, <2>4, <2>5 DEF Then, OK
  <1>6. P \in SUBSET Nat
    OBVIOUS
  <1> HIDE DEF P
  <1>7. P = Nat
    BY <1>4, <1>5, <1>6, Induction
  <1>8. n \in P /\ n <= N
    BY <1>2, <1>7
  <1>9. OK(h[n][g])
    BY <1>8 DEF P
  <1> QED
    BY <1>9 DEF OK, h

(* Calls for which there is something to prove, and the group to which one *)
(* of them jumps.                                                          *)
Course(calls, rank) ==
    calls \in Seq(Call) /\ Regular(calls) /\ rank \in [Group -> Nat] /\ Nested(calls, rank)

Sub(calls, m) == calls[m].ent.m["SUBGROUP"]

(* A group to which a rule jumps has said by then all that it will ever    *)
(* say: its rules come first, and those that come again add nothing.       *)
SaidAll(calls, h) ==
    \A m \in RuleCalls(calls) : \A n \in (m - 1)..Len(calls) :
        Jumps(calls[m].ent) => h[n][Sub(calls, m)] = h[m - 1][Sub(calls, m)]

LEMMA HeardSettled ==
    ASSUME NEW calls, NEW rank, Course(calls, rank), NEW voice, NEW dir, NEW p
    PROVE  SaidAll(calls, Heard(voice, calls, dir, p))
  <1> DEFINE h == Heard(voice, calls, dir, p)
             N == Len(calls)
  <1> USE DEF Course
  <1> SUFFICES ASSUME NEW m \in RuleCalls(calls), NEW n \in (m - 1)..N, Jumps(calls[m].ent)
               PROVE  h[n][Sub(calls, m)] = h[m - 1][Sub(calls, m)]
    BY DEF SaidAll
  <1> USE DEF Sub
  <1> DEFINE P == { i \in Nat : i <= N => \A j \in RuleCalls(calls) :
                    Jumps(calls[j].ent) /\ j - 1 <= i => h[i][Sub(calls, j)] = h[j - 1][Sub(calls, j)] }
  <1>1. /\ \A f \in Group : h[0][f] = "RETURN"
        /\ \A i \in 1..N : \A f \in Group :
            h[i][f] = Then(h[i - 1][f], Adds(voice, calls, i, f, dir, p, h[i - 1]))
    <2>1. ByAndBy(voice, calls, dir, p, h)
      BY HeardUnfolds
    <2> QED
      BY <2>1 DEF ByAndBy
  <1>2. N \in Nat /\ RuleCalls(calls) \subseteq 1..N
    BY LenProperties DEF RuleCalls
  <1>3. \A e, a, b : (Jumps(e) => a[e.m["SUBGROUP"]] = b[e.m["SUBGROUP"]]) =>
            Says(voice, e, dir, p, a) = Says(voice, e, dir, p, b)
    BY DEF Says, ByRule, ByAnswer
  <1>4. Settling(h, N)
    BY HeardKept
  <1> HIDE DEF h
  <1>5. 0 \in P
    BY <1>2
  <1>6. ASSUME NEW i \in P
        PROVE  i + 1 \in P
    <2> SUFFICES ASSUME i + 1 <= N, NEW j \in RuleCalls(calls), Jumps(calls[j].ent), j - 1 <= i + 1
                 PROVE  h[i + 1][Sub(calls, j)] = h[j - 1][Sub(calls, j)]
      BY <1>6
    <2> DEFINE g == Sub(calls, j)
               e == calls[i + 1].ent
    <2>1. CASE j - 1 = i + 1
      BY <2>1
    <2>2. CASE j - 1 <= i
      <3>1. i \in Nat /\ j \in 1..N /\ i + 1 \in 1..N /\ (i + 1) - 1 = i
        BY <1>2, <1>6
      <3>2. g \in Group /\ h[i][g] = h[j - 1][g]
        BY <1>6, <2>2, <3>1, RuleCallIs
      <3>3. h[i + 1][g] = Then(h[i][g], Adds(voice, calls, i + 1, g, dir, p, h[i]))
        BY <1>1, <3>1, <3>2
      <3>4. ASSUME h[i][g] = "RETURN", calls[i + 1].k # "group", e.group = g
            PROVE  Says(voice, e, dir, p, h[i]) = "RETURN"
        <4>1. i + 1 \in RuleCalls(calls)
          BY <3>1, <3>4, RuleCallIs
        <4>2. rank[g] < rank[calls[j].ent.group]
          BY DEF Nested
        <4>3. j # i + 1
          <5>1. rank[g] \in Nat
            BY <3>2
          <5> QED
            BY <3>4, <4>2, <5>1
        <4>4. PICK l \in RuleCalls(calls) : l < j /\ calls[l].ent = e
          <5>1. j < i + 1
            BY <2>2, <3>1, <4>3
          <5> QED
            BY <3>4, <4>1, <5>1 DEF Regular, FilledFirst
        <4>5. l \in 1..N /\ l \in 0..N /\ j - 1 \in 0..N /\ l <= j - 1 /\ l - 1 <= i
          BY <1>2, <2>2, <3>1, <4>4
        <4>6. h[l][g] = "RETURN"
          BY <1>4, <3>2, <3>4, <4>5 DEF Settling
        <4>7. Says(voice, e, dir, p, h[l - 1]) = "RETURN"
          <5>1. h[l][g] = Then(h[l - 1][g], Adds(voice, calls, l, g, dir, p, h[l - 1]))
            BY <1>1, <3>2, <4>5
          <5>2. calls[l].k # "group"
            BY <4>4, <4>5, RuleCallIs
          <5>3. Adds(voice, calls, l, g, dir, p, h[l - 1]) = Says(voice, e, dir, p, h[l - 1])
            BY <3>4, <4>4, <5>2 DEF Adds
          <5> QED
            BY <4>6, <5>1, <5>3 DEF Then
        <4>8. Jumps(e) => h[i][Sub(calls, i + 1)] = h[l - 1][e.m["SUBGROUP"]]
          BY <1>6, <3>1, <4>4, <4>5
        <4> QED
          BY <1>3, <4>7, <4>8
      <3> QED
        BY <3>2, <3>3, <3>4 DEF Then, Adds
    <2> QED
      BY <1>2, <1>6, <2>1, <2>2
  <1>7. P \in SUBSET Nat
    OBVIOUS
  <1> HIDE DEF P
  <1>8. P = Nat
    BY <1>5, <1>6, <1>7, Induction
  <1>9. n \in P /\ n <= N /\ m - 1 <= n
    BY <1>2, <1>8
  <1>10. h[n][Sub(calls, m)] = h[m - 1][Sub(calls, m)]
    BY <1>9 DEF P
  <1> QED
    BY <1>10 DEF h

(* A group has rules of one direction, and those that jump to it have the  *)
(* same: it speaks as a rule in this direction, and answers in the other.  *)
LEMMA HeardOneWay ==
    ASSUME NEW calls \in Seq(Call), Regular(calls), NEW g \in Group, g # NULL,
           NEW i \in RuleCalls(calls), g \in GroupsOf(calls[i].ent),
           NEW dir, NEW p, NEW n \in 0..Len(calls)
    PROVE  /\ dir = calls[i].ent.dir => Heard("answer", calls, dir, p)[n][g] = "RETURN"
           /\ dir # calls[i].ent.dir => Heard("rule", calls, dir, p)[n][g] = "RETURN"
  <1>1. \A j \in RuleCalls(calls) : calls[j].ent.group = g => calls[j].ent.dir = calls[i].ent.dir
    BY DEF Regular, OneWay, GroupsOf
  <1>2. \A j \in 1..n : j \in 1..Len(calls)
    BY LenProperties
  <1>3. ASSUME NEW voice \in Voice, dir = calls[i].ent.dir <=> voice = "answer"
        PROVE  Heard(voice, calls, dir, p)[n][g] = "RETURN"
    <2>1. ASSUME NEW j \in 1..n, NEW sub
          PROVE  Adds(voice, calls, j, g, dir, p, sub) = "RETURN"
      <3>1. CASE calls[j].k # "group" /\ calls[j].ent.group = g
        <4>1. calls[j].ent.dir = calls[i].ent.dir
          BY <1>1, <1>2, <3>1, RuleCallIs
        <4>2. Says(voice, calls[j].ent, dir, p, sub) = "RETURN"
          BY <1>3, <4>1 DEF Says, ByRule, ByAnswer, Voice
        <4> QED
          BY <3>1, <4>2 DEF Adds
      <3> QED
        BY <3>1 DEF Adds
    <2> QED
      BY <2>1, HeardNothing
  <1> QED
    BY <1>3 DEF Voice

-----------------------------------------------------------------------------
(***************************************************************************)
(* The tests of a rule, and what it says                                   *)
(***************************************************************************)
Admits(tests, p) == \A t \in tests : (FlagOf(p, t.flag) \in t.vals) # t.neg

(* Tests of fields say of these fields what the policy says of them.       *)
LEMMA FieldsAdmit ==
    ASSUME NEW e, NEW flags, NEW p
    PROVE  Admits(FieldTests(e, flags), p) <=>
             \A t \in DOMAIN flags : Tested(e, t) =>
                (IF t \in e.neg THEN FlagOf(p, flags[t]) # e.m[t] ELSE FlagOf(p, flags[t]) = e.m[t])
  <1> DEFINE x(t) == [flag |-> flags[t], vals |-> {e.m[t]}, neg |-> t \in e.neg]
             U == { u \in DOMAIN flags : Tested(e, u) }
  <1>1. ASSUME NEW t
        PROVE  (FlagOf(p, x(t).flag) \in x(t).vals) # x(t).neg <=>
                (IF t \in e.neg THEN FlagOf(p, flags[t]) # e.m[t] ELSE FlagOf(p, flags[t]) = e.m[t])
    <2> DEFINE y == FlagOf(p, flags[t])
    <2>1. x(t).flag = flags[t] /\ (y \in x(t).vals <=> y = e.m[t]) /\ x(t).neg = (t \in e.neg)
      OBVIOUS
    <2> HIDE DEF x
    <2>2. CASE t \in e.neg
      <3>1. x(t).neg = TRUE
        BY <2>1, <2>2
      <3> QED
        BY <2>1, <2>2, <3>1
    <2>3. CASE t \notin e.neg
      <3>1. x(t).neg = FALSE
        <4>1. (t \in e.neg) = FALSE
          BY <2>3
        <4> QED
          BY <2>1, <4>1
      <3> QED
        BY <2>1, <2>3, <3>1
    <2> QED
      BY <2>2, <2>3
  <1>2. FieldTests(e, flags) = { x(t) : t \in U }
    BY DEF FieldTests
  <1> HIDE DEF x
  <1> QED
    BY <1>1, <1>2 DEF Admits

(* Tests of two kinds.                                                     *)
LEMMA BothAdmit ==
    ASSUME NEW A, NEW B, NEW p
    PROVE  /\ Admits(A \union B, p) <=> Admits(A, p) /\ Admits(B, p)
           /\ Admits({}, p)
  BY DEF Admits

(* One test for one value.                                                 *)
LEMMA OneAdmits ==
    ASSUME NEW flag, NEW val, NEW p
    PROVE  /\ Admits({Only(flag, val)}, p) <=> FlagOf(p, flag) = val
           /\ Admits({[flag |-> flag, vals |-> {val}, neg |-> TRUE]}, p) <=> FlagOf(p, flag) # val
  <1>1. ASSUME NEW t, t.vals = {val}, t.flag = flag, t.neg = FALSE
        PROVE  Admits({t}, p) <=> FlagOf(p, flag) = val
    <2> DEFINE in == FlagOf(p, t.flag) \in t.vals
    <2>1. Admits({t}, p) <=> in # t.neg
      BY DEF Admits
    <2>2. in <=> FlagOf(p, flag) = val
      BY <1>1
    <2>3. CASE in
      <3>1. in = TRUE
        BY <2>3
      <3> HIDE DEF in
      <3> QED
        BY <1>1, <2>1, <2>2, <3>1
    <2>4. CASE ~in
      <3>1. in = FALSE
        BY <2>4
      <3> HIDE DEF in
      <3> QED
        BY <1>1, <2>1, <2>2, <3>1
    <2> QED
      BY <2>3, <2>4
  <1>2. ASSUME NEW t, t.vals = {val}, t.flag = flag, t.neg = TRUE
        PROVE  Admits({t}, p) <=> FlagOf(p, flag) # val
    BY <1>2 DEF Admits
  <1>3. Admits({Only(flag, val)}, p) <=> FlagOf(p, flag) = val
    <2> DEFINE t == Only(flag, val)
    <2>1. t.vals = {val} /\ t.flag = flag /\ t.neg = FALSE
      BY DEF Only
    <2> HIDE DEF t
    <2> QED
      BY <1>1, <2>1 DEF t
  <1>4. Admits({[flag |-> flag, vals |-> {val}, neg |-> TRUE]}, p) <=> FlagOf(p, flag) # val
    <2> DEFINE t == [flag |-> flag, vals |-> {val}, neg |-> TRUE]
    <2>1. t.vals = {val} /\ t.flag = flag /\ t.neg = TRUE
      OBVIOUS
    <2> HIDE DEF t
    <2> QED
      BY <1>2, <2>1 DEF t
  <1> QED
    BY <1>3, <1>4

(* A field that is not tested does not matter to the policy either.        *)
LEMMA FieldAgrees ==
    ASSUME NEW e, Rendered(e), NEW v,
           NEW t \in {"DIRECTION", "SOURCE", "DEST", "SPORT", "DPORT", "ICMPTYPE"}
    PROVE  (Tested(e, t) => (IF t \in e.neg THEN v # e.m[t] ELSE v = e.m[t])) <=> Agrees(e, t, v)
  <1>1. Tested(e, t) <=> e.m[t] # NULL /\ (t = "DIRECTION" => e.m[t] # "*")
    BY DEF Tested, Rendered
  <1>2. Agrees(e, t, v) <=>
            \/ e.m[t] = NULL
            \/ t = "DIRECTION" /\ e.m[t] = "*"
            \/ (IF t \in e.neg THEN v # e.m[t] ELSE v = e.m[t])
    BY DEF Agrees
  <1> QED
    BY <1>1, <1>2

(* The protocol, which is never negated.                                   *)
LEMMA ProtoAgrees ==
    ASSUME NEW e, Rendered(e), NEW p
    PROVE  Admits(ProtoTests(e), p) <=> Agrees(e, "PROTO", p.proto)
  <1>1. FlagOf(p, "-p") = p.proto
    BY DEF FlagOf
  <1>2. Agrees(e, "PROTO", p.proto) <=> e.m["PROTO"] = NULL \/ e.m["PROTO"] = p.proto
    BY DEF Agrees, Rendered
  <1>3. e.m["PROTO"] # NULL => (Admits(ProtoTests(e), p) <=> p.proto = e.m["PROTO"])
    BY <1>1, OneAdmits DEF ProtoTests
  <1>4. e.m["PROTO"] = NULL => Admits(ProtoTests(e), p)
    BY BothAdmit DEF ProtoTests
  <1> QED
    BY <1>2, <1>3, <1>4

(* The tests of a rule admit the packets that it fits, in the states that  *)
(* a rule for tcp or udp asks for.                                         *)
Asked(e, p) == HasState(e) => p.state \in {"NEW", "ESTABLISHED"}

LEMMA RuleAdmits ==
    ASSUME NEW e, Rendered(e), e.dir \in Direction, NEW p
    PROVE  Admits(RuleTests(e), p) <=> Fits(e, p) /\ Asked(e, p)
  <1> DEFINE flags == Flags(e.dir)
  <1>1. /\ DOMAIN flags = {"DIRECTION", "SOURCE", "DEST", "SPORT", "DPORT", "ICMPTYPE"}
        /\ FlagOf(p, flags["DIRECTION"]) = Iface(e.dir, p)
        /\ FlagOf(p, flags["SOURCE"]) = p.src /\ FlagOf(p, flags["DEST"]) = p.dst
        /\ FlagOf(p, flags["SPORT"]) = p.sport /\ FlagOf(p, flags["DPORT"]) = p.dport
        /\ FlagOf(p, flags["ICMPTYPE"]) = p.icmp
    BY DEF Flags, IfaceFlag, FlagOf, Iface, Direction
  <1> HIDE DEF flags
  <1>2. Admits(FieldTests(e, flags), p) <=>
           \A t \in DOMAIN flags : Agrees(e, t, FlagOf(p, flags[t]))
    BY <1>1, FieldsAdmit, FieldAgrees
  <1>3. Admits(FieldTests(e, flags), p) <=>
            /\ Agrees(e, "DIRECTION", Iface(e.dir, p))
            /\ Agrees(e, "SOURCE", p.src) /\ Agrees(e, "DEST", p.dst)
            /\ Agrees(e, "SPORT", p.sport) /\ Agrees(e, "DPORT", p.dport)
            /\ Agrees(e, "ICMPTYPE", p.icmp)
    BY <1>1, <1>2
  <1>4. Admits(StateTests(e), p) <=> Asked(e, p)
    <2> DEFINE x == [flag |-> "--ctstate", vals |-> {"NEW", "ESTABLISHED"}, neg |-> FALSE]
    <2>1. FlagOf(p, x.flag) = p.state /\ x.vals = {"NEW", "ESTABLISHED"} /\ x.neg = FALSE
      BY DEF FlagOf
    <2> HIDE DEF x
    <2>2. Admits({x}, p) <=> p.state \in {"NEW", "ESTABLISHED"}
      <3> DEFINE in == FlagOf(p, x.flag) \in x.vals
      <3>1. Admits({x}, p) <=> in # x.neg
        BY DEF Admits
      <3>2. in <=> p.state \in {"NEW", "ESTABLISHED"}
        BY <2>1
      <3>3. CASE in
        <4>1. in = TRUE
          BY <3>3
        <4> HIDE DEF in
        <4> QED
          BY <2>1, <3>1, <3>2, <4>1
      <3>4. CASE ~in
        <4>1. in = FALSE
          BY <3>4
        <4> HIDE DEF in
        <4> QED
          BY <2>1, <3>1, <3>2, <4>1
      <3> QED
        BY <3>3, <3>4
    <2>3. /\ HasState(e) => StateTests(e) = {x}
          /\ ~HasState(e) => StateTests(e) = {}
      BY DEF StateTests, x
    <2> QED
      BY <2>2, <2>3, BothAdmit DEF Asked
  <1>5. RuleTests(e) = FieldTests(e, flags) \union ProtoTests(e) \union StateTests(e)
    BY DEF RuleTests, NatTests, flags
  <1>6. Admits(RuleTests(e), p) <=>
            Admits(FieldTests(e, flags), p) /\ Admits(ProtoTests(e), p) /\ Admits(StateTests(e), p)
    <2> DEFINE A == FieldTests(e, flags)
               B == ProtoTests(e)
               C == StateTests(e)
    <2> HIDE DEF A, B, C
    <2>1. Admits(A \union B, p) <=> Admits(A, p) /\ Admits(B, p)
      BY BothAdmit
    <2>2. Admits((A \union B) \union C, p) <=> Admits(A \union B, p) /\ Admits(C, p)
      BY BothAdmit
    <2> QED
      BY <1>5, <2>1, <2>2 DEF A, B, C
  <1> QED
    BY <1>3, <1>4, <1>6, ProtoAgrees DEF Fits

(* The tests of a return rule admit the answers to the packets that the    *)
(* rule fits; without a state to test, other packets as well, and it does  *)
(* not look at the type of an icmp message.                                *)
LEMMA ReturnAdmits ==
    ASSUME NEW e, Rendered(e), e.dir \in Direction,
           NEW p \in Packet, p.syn = "yes" => p.proto = "tcp"
    PROVE  /\ Fits(e, Answered(p)) /\ p.state = "ESTABLISHED" /\ p.syn # "yes" =>
                Admits(ReturnTests(e), p)
           /\ Admits(ReturnTests(e), p) /\ HasState(e) =>
                Fits(e, Answered(p)) /\ p.state = "ESTABLISHED" /\ p.syn # "yes"
           /\ Admits(ReturnTests(e), p) /\ p.proto \in Connection => Fits(e, Answered(p))
  <1> DEFINE flags == ReturnFlags(e.dir)
             q == Answered(p)
  <1>1. /\ DOMAIN flags = {"DIRECTION", "SOURCE", "DEST", "SPORT", "DPORT"}
        /\ FlagOf(p, flags["DIRECTION"]) = Iface(e.dir, q)
        /\ FlagOf(p, flags["SOURCE"]) = q.src /\ FlagOf(p, flags["DEST"]) = q.dst
        /\ FlagOf(p, flags["SPORT"]) = q.sport /\ FlagOf(p, flags["DPORT"]) = q.dport
    <2>1. /\ q.in = p.out /\ q.out = p.in /\ q.src = p.dst /\ q.dst = p.src
          /\ q.sport = p.dport /\ q.dport = p.sport
      BY DEF Answered, Packet
    <2> HIDE DEF q
    <2>2. FlagOf(p, flags["DIRECTION"]) = Iface(e.dir, q)
      BY <2>1 DEF ReturnFlags, IfaceFlag, Opposite, FlagOf, Iface, Direction
    <2> QED
      BY <2>1, <2>2 DEF ReturnFlags, FlagOf
  <1>2. q.proto = p.proto
    BY DEF Answered, Packet
  <1> HIDE DEF flags, q
  <1>3. Admits(FieldTests(e, flags), p) <=>
           \A t \in DOMAIN flags : Agrees(e, t, FlagOf(p, flags[t]))
    BY <1>1, FieldsAdmit, FieldAgrees
  <1>4. Admits(FieldTests(e, flags), p) <=>
            /\ Agrees(e, "DIRECTION", Iface(e.dir, q))
            /\ Agrees(e, "SOURCE", q.src) /\ Agrees(e, "DEST", q.dst)
            /\ Agrees(e, "SPORT", q.sport) /\ Agrees(e, "DPORT", q.dport)
    BY <1>1, <1>3
  <1>5. Admits(ProtoTests(e), p) <=> Agrees(e, "PROTO", q.proto)
    BY <1>2, ProtoAgrees
  <1>6. Admits(ReturnStateTests(e), p) <=>
            /\ HasState(e) => p.state = "ESTABLISHED"
            /\ e.m["PROTO"] = "tcp" => p.syn # "yes"
    <2> DEFINE A == {Only("--ctstate", "ESTABLISHED")}
               B == {[flag |-> "--syn", vals |-> {"yes"}, neg |-> TRUE]}
    <2>0. FlagOf(p, "--ctstate") = p.state /\ FlagOf(p, "--syn") = p.syn
      BY DEF FlagOf
    <2>1. Admits(A, p) <=> p.state = "ESTABLISHED"
      <3>1. Admits(A, p) <=> FlagOf(p, "--ctstate") = "ESTABLISHED"
        BY OneAdmits
      <3> QED
        BY <2>0, <3>1
    <2>2. Admits(B, p) <=> p.syn # "yes"
      <3>1. Admits(B, p) <=> FlagOf(p, "--syn") # "yes"
        BY OneAdmits
      <3> QED
        BY <2>0, <3>1
    <2>3. ReturnStateTests(e) = (IF HasState(e) THEN A ELSE {})
                                \union (IF e.m["PROTO"] = "tcp" THEN B ELSE {})
      BY DEF ReturnStateTests
    <2> HIDE DEF A, B
    <2> QED
      BY <2>1, <2>2, <2>3 DEF Admits
  <1>7. Admits(ReturnTests(e), p) <=>
            /\ Admits(FieldTests(e, flags), p) /\ Admits(ProtoTests(e), p)
            /\ Admits(ReturnStateTests(e), p)
    <2> DEFINE A == FieldTests(e, flags)
               B == ProtoTests(e)
               C == ReturnStateTests(e)
    <2>1. ReturnTests(e) = (A \union B) \union C
      BY DEF ReturnTests, flags
    <2> HIDE DEF A, B, C
    <2>2. Admits(A \union B, p) <=> Admits(A, p) /\ Admits(B, p)
      BY BothAdmit
    <2>3. Admits((A \union B) \union C, p) <=> Admits(A \union B, p) /\ Admits(C, p)
      BY BothAdmit
    <2> QED
      BY <2>1, <2>2, <2>3 DEF A, B, C
  <1>8. Fits(e, q) <=>
            /\ Admits(FieldTests(e, flags), p) /\ Admits(ProtoTests(e), p)
            /\ Agrees(e, "ICMPTYPE", q.icmp)
    BY <1>4, <1>5 DEF Fits
  <1>9. Admits(ProtoTests(e), p) => e.m["PROTO"] = NULL \/ e.m["PROTO"] = p.proto
    BY <1>2, <1>5 DEF Agrees, Rendered
  <1>10. Admits(ProtoTests(e), p) /\ (HasState(e) \/ p.proto \in Connection) =>
            Agrees(e, "ICMPTYPE", q.icmp)
    <2>1. e.m["ICMPTYPE"] # NULL => e.m["PROTO"] = "icmp" /\ "icmp" \notin Connection
      BY DEF Rendered, Connection
    <2>2. e.m["ICMPTYPE"] = NULL => Agrees(e, "ICMPTYPE", q.icmp)
      BY DEF Agrees
    <2>3. ASSUME e.m["PROTO"] = "icmp", Admits(ProtoTests(e), p), p.proto \in Connection
          PROVE  FALSE
      <3>1. Admits({Only("-p", "icmp")}, p) <=> FlagOf(p, "-p") = "icmp"
        BY OneAdmits
      <3>2. p.proto = "icmp"
        <4>1. e.m["PROTO"] # NULL => ProtoTests(e) = {Only("-p", "icmp")}
          BY <2>3 DEF ProtoTests
        <4>2. CASE e.m["PROTO"] # NULL
          BY <2>3, <3>1, <4>1, <4>2 DEF FlagOf
        <4>3. CASE e.m["PROTO"] = NULL
          BY <2>3, <4>3, FirewallAssumption DEF Connection
        <4> QED
          BY <4>2, <4>3
      <3> QED
        BY <2>1, <2>3, <3>2 DEF Connection
    <2> QED
      BY <2>1, <2>2, <2>3 DEF HasState
  <1>11. Admits(ReturnTests(e), p) /\ HasState(e) => p.syn # "yes"
    <2>1. HasState(e) => e.m["PROTO"] \in {"tcp", "udp"} /\ e.m["PROTO"] # NULL
      BY FirewallAssumption DEF HasState, Connection
    <2> QED
      BY <1>6, <1>7, <1>9, <2>1
  <1> QED
    BY <1>6, <1>7, <1>8, <1>10, <1>11 DEF q

-----------------------------------------------------------------------------
(***************************************************************************)
(* What a chain should decide.  In the chains of one direction of a group  *)
(* are its own rules of this direction, and the return rules of those of   *)
(* the other.  final: is a denial on the way in final, as in               *)
(* fg-iptablesrestore.c.                                                   *)
(***************************************************************************)
Way(b) == IF b \in {"INPUT", "FORWARD"} THEN "INPUT" ELSE "OUTPUT"

Path(b) == IF b \in {"INPUT", "OUTPUT"} THEN b ELSE "FORWARD"

(* The two texts of a rule, where they are printed and where they lead.    *)
ForThis(e, b) == IF b \in {"INPUT", "OUTPUT"} THEN IsLocal(e) ELSE IsForward(e)

MainIn(e, b) == e.dir = Way(b) /\ ForThis(e, b)

BackIn(e, b) == e.dir # Way(b) /\ NeedsReturn(e) /\ ForThis(e, b)

MainTarget(final, e, b) ==
    IF b \in {"INPUT", "OUTPUT"} THEN RuleTarget(e)
    ELSE IF final /\ Denies(e) THEN Denial(e) ELSE ForwardTarget(e)

BackTarget(e, b) == IF b \in {"INPUT", "OUTPUT"} THEN ReturnTarget(e) ELSE ForwardReturnTarget(e)

Main(final, e, b) == [tests |-> RuleTests(e), jump |-> MainTarget(final, e, b)]

Back(e, b) == [tests |-> ReturnTests(e), jump |-> BackTarget(e, b)]

(* What the first n calls say of the packets of a direction.               *)
SideAt(calls, n, g, dir, p) ==
    Then(Heard("answer", calls, dir, p)[n][g], Heard("rule", calls, dir, p)[n][g])

(* What a chain makes of it.  Those for forwarded packets on their way in  *)
(* let them go on to the others, which decide x.                           *)
Passed(final, y) == IF ~final /\ y # "RETURN" THEN "ACCEPT" ELSE y

Renders(final, b, x, y, v) ==
    IF b # "FORWARD" THEN v = y
    ELSE IF x = "ACCEPT" THEN v = Passed(final, y) ELSE v # "ACCEPT"

(* A packet that belongs nowhere is dropped by the chains that it meets    *)
(* first; before, it may pass through return rules, which do not decide.   *)
BackOnly(calls, c) ==
    /\ c.group # NULL
    /\ \A i \in RuleCalls(calls) : c.group \in GroupsOf(calls[i].ent) => calls[i].ent.dir # Way(c.base)

Concerned(calls, c, p) ==
    /\ c.base \in GroupBase /\ Path(c.base) = p.path
    /\ p.state = "INVALID" => BackOnly(calls, c) \/ (c.group = NULL /\ c.base \in Builtin)

Meets(final, calls, n, c, p, x, v) ==
    IF p.state = "INVALID" THEN v = (IF c.group = NULL THEN "DROP" ELSE "RETURN")
    ELSE Renders(final, c.base, x, SideAt(calls, n, c.group, Way(c.base), p), v)

(* The packets for which no denial or jump is overlooked.                  *)
Heeded(calls) == { p \in Packets : ~Overlooked(calls, p) }

(* The other chains decide what they should in the end.                    *)
Ideal(final, calls, p, E) ==
    /\ E[Base("INVALID")] = "DROP"
    /\ \A c \in Chain : Concerned(calls, c, p) /\ c # Base("FORW_OUT") =>
            Meets(final, calls, Len(calls), c, p, E[Base("FORW_OUT")], E[c])

(* A rule that is not refused.                                             *)
Sensible(e) == e \in Ent /\ e.dir \in Direction /\ (Permits(e) \/ Denies(e) \/ Jumps(e))

(* Lists of verdicts do what their parts do.                               *)
LEMMA RendersThen ==
    ASSUME NEW final \in BOOLEAN, NEW b, NEW x, NEW y, NEW z, NEW v, NEW w,
           Renders(final, b, x, y, v), Renders(final, b, x, z, w)
    PROVE  Renders(final, b, x, Then(y, z), Then(v, w))
  BY DEF Renders, Passed, Then

(* A packet meets the chains that are there for it.                        *)
LEMMA ConcernsPath ==
    ASSUME NEW e, NEW b \in GroupBase, NEW p, p.path = Path(b)
    PROVE  Concerns(e, p) <=> ForThis(e, b)
  BY DEF Concerns, ForThis, IsLocal, IsForward, Path, GroupBase

(* The chains of a group of another than this direction only have return   *)
(* rules.                                                                  *)
LEMMA OtherDirection ==
    ASSUME NEW calls, OneWay(calls), NEW i \in RuleCalls(calls),
           NEW c, c.group \in GroupsOf(calls[i].ent), calls[i].ent.dir # Way(c.base)
    PROVE  BackOnly(calls, c)
  BY DEF BackOnly, OneWay, GroupsOf

VoiceOf(e, dir) == IF e.dir = dir THEN "rule" ELSE "answer"

LEMMA SubgroupSays ==
    ASSUME NEW calls, NEW rank, Course(calls, rank), NEW m \in RuleCalls(calls),
           Jumps(calls[m].ent), NEW dir, NEW p
    PROVE  /\ Sub(calls, m) \in Group /\ Sub(calls, m) # NULL
           /\ Sub(calls, m) \in GroupsOf(calls[m].ent)
           /\ \A n \in (m - 1)..Len(calls) :
                SideAt(calls, n, Sub(calls, m), dir, p) =
                    Heard(VoiceOf(calls[m].ent, dir), calls, dir, p)[m - 1][Sub(calls, m)]
  <1> DEFINE g == Sub(calls, m)
             a == Heard("answer", calls, dir, p)
             r == Heard("rule", calls, dir, p)
  <1>0. calls \in Seq(Call) /\ Regular(calls) /\ rank \in [Group -> Nat] /\ Nested(calls, rank)
    BY DEF Course
  <1>1. m \in 1..Len(calls) /\ Len(calls) \in Nat
    BY <1>0, LenProperties DEF RuleCalls
  <1>2. g \in Group /\ g # NULL /\ g \in GroupsOf(calls[m].ent)
    BY <1>0, <1>1, RuleCallIs DEF Regular, Rendered, GroupsOf, Sub
  <1>3. ASSUME NEW n \in (m - 1)..Len(calls), NEW voice
        PROVE  Heard(voice, calls, dir, p)[n][g] = Heard(voice, calls, dir, p)[m - 1][g]
    <2>1. SaidAll(calls, Heard(voice, calls, dir, p))
      BY HeardSettled
    <2> QED
      BY <2>1 DEF SaidAll
  <1> HIDE DEF g
  <1>4. ASSUME NEW n \in (m - 1)..Len(calls)
        PROVE  /\ calls[m].ent.dir = dir => a[n][g] = "RETURN"
               /\ calls[m].ent.dir # dir => r[n][g] = "RETURN"
    <2>1. n \in 0..Len(calls)
      BY <1>1
    <2>2. calls[m].ent.dir = dir => a[n][g] = "RETURN"
      BY <1>0, <1>2, <2>1, HeardOneWay
    <2>3. calls[m].ent.dir # dir => r[n][g] = "RETURN"
      BY <1>0, <1>2, <2>1, HeardOneWay
    <2> QED
      BY <2>2, <2>3
  <1>5. ASSUME NEW n \in (m - 1)..Len(calls)
        PROVE  SideAt(calls, n, g, dir, p) =
                 Heard(VoiceOf(calls[m].ent, dir), calls, dir, p)[m - 1][g]
    <2>1. SideAt(calls, n, g, dir, p) = Then(a[n][g], r[n][g])
      BY DEF SideAt
    <2> HIDE DEF a, r
    <2>2. Then(a[n][g], r[n][g]) = IF calls[m].ent.dir = dir THEN r[n][g] ELSE a[n][g]
      BY <1>4 DEF Then
    <2>3. a[n][g] = a[m - 1][g] /\ r[n][g] = r[m - 1][g]
      BY <1>3 DEF a, r
    <2> QED
      BY <2>1, <2>2, <2>3 DEF a, r, VoiceOf
  <1> QED
    BY <1>2, <1>5 DEF g

(* Where the two texts of a rule lead.                                     *)
LEMMA TargetIs ==
    ASSUME NEW final \in BOOLEAN, NEW e, Sensible(e), NEW b \in GroupBase
    PROVE  /\ MainIn(e, b) /\ Jumps(e) => MainTarget(final, e, b) = InGroup(e, b)
           /\ MainIn(e, b) /\ ~Jumps(e) /\ Denies(e) =>
                MainTarget(final, e, b) =
                    (IF b = "FORWARD" /\ ~final THEN Base("FORW_OUT") ELSE Denial(e))
           /\ MainIn(e, b) /\ ~Jumps(e) /\ ~Denies(e) =>
                MainTarget(final, e, b) =
                    (IF b = "FORWARD" THEN Base("FORW_OUT") ELSE Base("ACCEPT"))
           /\ BackIn(e, b) /\ Jumps(e) => BackTarget(e, b) = InGroup(e, b)
           /\ BackIn(e, b) /\ ~Jumps(e) =>
                BackTarget(e, b) = (IF b = "FORWARD" THEN Base("FORW_OUT") ELSE Base("ACCEPT"))
  <1>1. Jumps(e) => ~Denies(e)
    BY DEF Jumps, Denies
  <1>2. e.dir \in Direction
    BY DEF Sensible
  <1>3. ASSUME MainIn(e, b)
        PROVE  /\ Way(b) = e.dir
               /\ b \in {"INPUT", "OUTPUT"} => b = e.dir
               /\ b \notin {"INPUT", "OUTPUT"} => b = Forwarding(e.dir) /\ (e.dir = "INPUT" <=> b = "FORWARD")
    BY <1>2, <1>3 DEF MainIn, Way, Forwarding, Direction, GroupBase
  <1>4. ASSUME BackIn(e, b)
        PROVE  /\ b \in {"INPUT", "OUTPUT"} => b = Opposite(e.dir)
               /\ b \notin {"INPUT", "OUTPUT"} =>
                    b = Forwarding(Opposite(e.dir)) /\ (e.dir = "OUTPUT" <=> b = "FORWARD")
    BY <1>2, <1>4 DEF BackIn, Way, Forwarding, Opposite, Direction, GroupBase
  <1>5. ASSUME MainIn(e, b)
        PROVE  MainTarget(final, e, b) =
                 (IF Jumps(e) THEN InGroup(e, b)
                  ELSE IF Denies(e)
                       THEN IF b = "FORWARD" /\ ~final THEN Base("FORW_OUT") ELSE Denial(e)
                       ELSE IF b = "FORWARD" THEN Base("FORW_OUT") ELSE Base("ACCEPT"))
    BY <1>1, <1>3, <1>5 DEF MainTarget, RuleTarget, ForwardTarget
  <1>6. ASSUME BackIn(e, b)
        PROVE  BackTarget(e, b) =
                 (IF Jumps(e) THEN InGroup(e, b)
                  ELSE IF b = "FORWARD" THEN Base("FORW_OUT") ELSE Base("ACCEPT"))
    BY <1>1, <1>4, <1>6 DEF BackTarget, ReturnTarget, ForwardReturnTarget
  <1> QED
    BY <1>1, <1>5, <1>6

(* What a rule makes of a packet.                                          *)
LEMMA TargetSays ==
    ASSUME NEW tests, NEW c, NEW p, NEW E
    PROVE  /\ ~Admits(tests, p) => ByTarget([tests |-> tests, jump |-> c], p, E) = "RETURN"
           /\ c.base \in Alteration => ByTarget([tests |-> tests, jump |-> c], p, E) = "RETURN"
           /\ Admits(tests, p) /\ c.base \in Verdict =>
                ByTarget([tests |-> tests, jump |-> c], p, E) = c.base
           /\ Admits(tests, p) /\ c.base \in FilterBase =>
                ByTarget([tests |-> tests, jump |-> c], p, E) = E[c]
  <1> DEFINE r == [tests |-> tests, jump |-> c]
  <1>1. r.tests = tests /\ r.jump = c
    OBVIOUS
  <1> HIDE DEF r
  <1>2. Passes(r, p) <=> Admits(tests, p)
    BY <1>1 DEF Passes, Admits
  <1>3. c.base \in Alteration => c.base \notin Verdict \union FilterBase
    BY DEF Alteration, Verdict, FilterBase, Builtin
  <1>4. c.base \in Verdict => c.base \notin Alteration \union FilterBase
    BY DEF Alteration, Verdict, FilterBase, Builtin
  <1>5. ByTarget(r, p, E) = IF ~Admits(tests, p) \/ c.base \in Alteration THEN "RETURN"
                            ELSE IF c.base \in Verdict THEN c.base ELSE E[c]
    BY <1>1, <1>2 DEF ByTarget
  <1>6. /\ ~Admits(tests, p) => ByTarget(r, p, E) = "RETURN"
        /\ c.base \in Alteration => ByTarget(r, p, E) = "RETURN"
        /\ Admits(tests, p) /\ c.base \in Verdict => ByTarget(r, p, E) = c.base
        /\ Admits(tests, p) /\ c.base \in FilterBase => ByTarget(r, p, E) = E[c]
    BY <1>3, <1>4, <1>5
  <1> QED
    BY <1>6 DEF r

(* Where a rule jumps to a group: the chain there says what the group has  *)
(* said, or nothing if the packet is to be dropped elsewhere.              *)
LEMMA SubgroupMeets ==
    ASSUME NEW calls, NEW rank, Course(calls, rank), NEW final \in BOOLEAN,
           NEW m \in RuleCalls(calls), Jumps(calls[m].ent), NEW b \in GroupBase,
           NEW p, Path(b) = p.path, NEW E, Ideal(final, calls, p, E)
    PROVE  /\ p.state # "INVALID" =>
                Renders(final, b, E[Base("FORW_OUT")],
                        Heard(VoiceOf(calls[m].ent, Way(b)), calls, Way(b), p)[m - 1][Sub(calls, m)],
                        E[InGroup(calls[m].ent, b)])
           /\ p.state = "INVALID" /\ calls[m].ent.dir # Way(b) =>
                E[InGroup(calls[m].ent, b)] = "RETURN"
  <1> DEFINE c == InGroup(calls[m].ent, b)
             g == Sub(calls, m)
             N == Len(calls)
  <1>1. /\ g \in Group /\ g # NULL /\ g \in GroupsOf(calls[m].ent)
        /\ \A n \in (m - 1)..N :
                SideAt(calls, n, g, Way(b), p) =
                    Heard(VoiceOf(calls[m].ent, Way(b)), calls, Way(b), p)[m - 1][g]
    BY SubgroupSays
  <1>2. N \in (m - 1)..N
    BY LenProperties DEF Course, RuleCalls
  <1>3. SideAt(calls, N, g, Way(b), p) =
            Heard(VoiceOf(calls[m].ent, Way(b)), calls, Way(b), p)[m - 1][g]
    BY <1>1, <1>2
  <1>4. c.group = g /\ c.base = b /\ c \in Chain /\ c # Base("FORW_OUT")
    BY <1>1 DEF InGroup, Sub, Chain, Base, GroupBase, FilterBase, Builtin
  <1> HIDE DEF c, g
  <1>5. calls[m].ent.dir # Way(b) => BackOnly(calls, c)
    BY <1>1, <1>4, OtherDirection DEF Course, Regular
  <1>6. Concerned(calls, c, p) => Meets(final, calls, N, c, p, E[Base("FORW_OUT")], E[c])
    BY <1>4 DEF Ideal
  <1>7. p.state # "INVALID" => Concerned(calls, c, p)
    BY <1>4 DEF Concerned
  <1>8. p.state = "INVALID" /\ calls[m].ent.dir # Way(b) => Concerned(calls, c, p)
    BY <1>4, <1>5 DEF Concerned
  <1>9. p.state # "INVALID" => Renders(final, b, E[Base("FORW_OUT")],
                                 SideAt(calls, N, g, Way(b), p), E[c])
    BY <1>4, <1>6, <1>7 DEF Meets
  <1>10. p.state = "INVALID" /\ calls[m].ent.dir # Way(b) => E[c] = "RETURN"
    BY <1>1, <1>4, <1>6, <1>8 DEF Meets
  <1> QED
    BY <1>3, <1>9, <1>10 DEF c, g

(* The text of a rule for the packets of its direction.                    *)
LEMMA MainSays ==
    ASSUME NEW calls, NEW rank, Course(calls, rank), NEW final \in BOOLEAN,
           NEW m \in RuleCalls(calls), Sensible(calls[m].ent), NEW b \in GroupBase,
           NEW p \in Heeded(calls), p.state # "INVALID", Path(b) = p.path, NEW E, Ideal(final, calls, p, E),
           MainIn(calls[m].ent, b)
    PROVE  Renders(final, b, E[Base("FORW_OUT")],
                   ByRule(calls[m].ent, Way(b), p, Heard("rule", calls, Way(b), p)[m - 1]),
                   ByTarget(Main(final, calls[m].ent, b), p, E))
  <1> DEFINE e == calls[m].ent
             h == Heard("rule", calls, Way(b), p)[m - 1]
             x == E[Base("FORW_OUT")]
             y == ByRule(e, Way(b), p, h)
             t == MainTarget(final, e, b)
             v == ByTarget(Main(final, e, b), p, E)
  <1>0. Rendered(e) /\ e.dir = Way(b) /\ e.dir \in Direction
    BY DEF Course, Regular, MainIn, Sensible
  <1>1. Fits(e, p) /\ ~Permits(e) => Asked(e, p)
    <2>1. p.state \in {"NEW", "ESTABLISHED", "RELATED"}
      BY FirewallAssumption DEF Heeded, Packet, State
    <2>2. Concerns(e, p) /\ p.path \in {e.dir, "FORWARD"}
      <3>1. Concerns(e, p)
        BY ConcernsPath DEF MainIn
      <3>2. Path(b) \in {Way(b), "FORWARD"}
        BY DEF Path, Way, GroupBase
      <3> QED
        BY <1>0, <3>1, <3>2
    <2>3. m \in 1..Len(calls) /\ calls[m].k = "rule"
      BY DEF RuleCalls
    <2>4. ~Overlooked(calls, p)
      BY DEF Heeded
    <2> QED
      BY <2>1, <2>2, <2>3, <2>4 DEF Overlooked, Asked
  <1>2. Admits(RuleTests(e), p) <=> Fits(e, p) /\ Asked(e, p)
    BY <1>0, RuleAdmits
  <1>3. Concerns(e, p)
    BY ConcernsPath DEF MainIn
  <1>4. y = IF ~Fits(e, p) THEN "RETURN"
            ELSE IF Jumps(e) THEN h[Sub(calls, m)]
            ELSE IF Denies(e) THEN e.m["TARGET"]
            ELSE IF Asked(e, p) THEN "ACCEPT" ELSE "RETURN"
    BY <1>0, <1>3 DEF ByRule, Sub, Asked
  <1>5. /\ ~(Fits(e, p) /\ Asked(e, p)) => v = "RETURN"
        /\ Fits(e, p) /\ Asked(e, p) /\ t.base \in Verdict => v = t.base
        /\ Fits(e, p) /\ Asked(e, p) /\ t.base \in FilterBase => v = E[t]
    BY <1>2, TargetSays DEF Main
  <1>6. /\ Jumps(e) => t = InGroup(e, b)
        /\ ~Jumps(e) /\ Denies(e) =>
              t = (IF b = "FORWARD" /\ ~final THEN Base("FORW_OUT") ELSE Denial(e))
        /\ ~Jumps(e) /\ ~Denies(e) => t = (IF b = "FORWARD" THEN Base("FORW_OUT") ELSE Base("ACCEPT"))
    BY TargetIs
  <1>7. Jumps(e) => Renders(final, b, x, h[Sub(calls, m)], E[InGroup(e, b)])
    <2>1. VoiceOf(e, Way(b)) = "rule"
      BY <1>0 DEF VoiceOf
    <2> QED
      BY <2>1, SubgroupMeets
  <1>8. /\ InGroup(e, b).base \in FilterBase /\ Base("FORW_OUT").base \in FilterBase
        /\ Base("ACCEPT").base = "ACCEPT" /\ "ACCEPT" \in Verdict
        /\ Denies(e) => Denial(e).base = e.m["TARGET"] /\ e.m["TARGET"] \in Verdict
                        /\ e.m["TARGET"] \notin {"ACCEPT", "RETURN"}
    BY DEF InGroup, Base, Denial, Denies, Verdict, FilterBase, Builtin, GroupBase
  <1>13. Permits(e) => ~Jumps(e) /\ ~Denies(e)
    BY DEF Permits, Jumps, Denies
  <1> HIDE DEF e, h, x, y, t, v
  <1>9. CASE ~(Fits(e, p) /\ Asked(e, p))
    <2>1. y = "RETURN" /\ v = "RETURN"
      BY <1>1, <1>4, <1>5, <1>9, <1>13
    <2> QED
      BY <2>1 DEF Renders, Passed, e, x, y, v, h
  <1>10. CASE Fits(e, p) /\ Asked(e, p) /\ Jumps(e)
    <2>1. y = h[Sub(calls, m)] /\ v = E[InGroup(e, b)]
      BY <1>4, <1>5, <1>6, <1>8, <1>10
    <2>2. Renders(final, b, x, y, v)
      BY <1>7, <1>10, <2>1
    <2> QED
      BY <2>2 DEF e, h, x, y, v
  <1>11. CASE Fits(e, p) /\ Asked(e, p) /\ ~Jumps(e) /\ Denies(e)
    <2>1. y = e.m["TARGET"] /\ v = IF b = "FORWARD" /\ ~final THEN x ELSE e.m["TARGET"]
      <3>1. CASE b = "FORWARD" /\ ~final
        BY <1>4, <1>5, <1>6, <1>8, <1>11, <3>1 DEF x
      <3>2. CASE ~(b = "FORWARD" /\ ~final)
        BY <1>4, <1>5, <1>6, <1>8, <1>11, <3>2
      <3> QED
        BY <3>1, <3>2
    <2>2. Renders(final, b, x, y, v)
      BY <1>8, <1>11, <2>1 DEF Renders, Passed
    <2> QED
      BY <2>2 DEF e, h, x, y, v
  <1>12. CASE Fits(e, p) /\ Asked(e, p) /\ ~Jumps(e) /\ ~Denies(e)
    <2>1. y = "ACCEPT" /\ v = IF b = "FORWARD" THEN x ELSE "ACCEPT"
      <3>1. CASE b = "FORWARD"
        BY <1>4, <1>5, <1>6, <1>8, <1>12, <3>1 DEF x
      <3>2. CASE b # "FORWARD"
        BY <1>4, <1>5, <1>6, <1>8, <1>12, <3>2
      <3> QED
        BY <3>1, <3>2
    <2>2. Renders(final, b, x, y, v)
      BY <2>1 DEF Renders, Passed
    <2> QED
      BY <2>2 DEF e, h, x, y, v
  <1> QED
    BY <1>9, <1>10, <1>11, <1>12

(* The text of a return rule, for the answers to the packets of the other  *)
(* direction.                                                              *)
LEMMA BackSays ==
    ASSUME NEW calls, NEW rank, Course(calls, rank), NEW final \in BOOLEAN,
           NEW m \in RuleCalls(calls), Sensible(calls[m].ent), NEW b \in GroupBase,
           NEW p \in Packets, Path(b) = p.path, NEW E, Ideal(final, calls, p, E),
           BackIn(calls[m].ent, b)
    PROVE  /\ p.state # "INVALID" =>
                Renders(final, b, E[Base("FORW_OUT")],
                        ByAnswer(calls[m].ent, Way(b), p, Heard("answer", calls, Way(b), p)[m - 1]),
                        ByTarget(Back(calls[m].ent, b), p, E))
           /\ p.state = "INVALID" => ByTarget(Back(calls[m].ent, b), p, E) = "RETURN"
  <1> DEFINE e == calls[m].ent
             h == Heard("answer", calls, Way(b), p)[m - 1]
             x == E[Base("FORW_OUT")]
             y == ByAnswer(e, Way(b), p, h)
             t == BackTarget(e, b)
             v == ByTarget(Back(e, b), p, E)
             Fit == p.state = "ESTABLISHED" /\ p.syn # "yes" /\ Fits(e, Answered(p))
  <1>0. /\ Rendered(e) /\ e.dir # Way(b) /\ e.dir \in Direction
        /\ Jumps(e) \/ HasState(e)
        /\ ~Denies(e) /\ e.m["ONEWAY"] = NULL
        /\ ~Jumps(e) => Permits(e)
    BY DEF Course, Regular, BackIn, NeedsReturn, Sensible
  <1>1. /\ Fit => Admits(ReturnTests(e), p)
        /\ Admits(ReturnTests(e), p) /\ HasState(e) => Fit
        /\ Admits(ReturnTests(e), p) /\ p.proto \in Connection => Fits(e, Answered(p))
    <2>1. p \in Packet /\ (p.syn = "yes" => p.proto = "tcp")
      BY FirewallAssumption
    <2> QED
      BY <1>0, <2>1, ReturnAdmits
  <1>2. Concerns(e, p)
    BY ConcernsPath DEF BackIn
  <1>3. y = IF ~Fit THEN "RETURN"
            ELSE IF Jumps(e) THEN h[Sub(calls, m)]
            ELSE IF Permits(e) /\ HasState(e) THEN "ACCEPT" ELSE "RETURN"
    BY <1>0, <1>2 DEF ByAnswer, Sub
  <1>4. /\ ~Admits(ReturnTests(e), p) => v = "RETURN"
        /\ Admits(ReturnTests(e), p) /\ t.base \in Verdict => v = t.base
        /\ Admits(ReturnTests(e), p) /\ t.base \in FilterBase => v = E[t]
    BY TargetSays DEF Back
  <1>5. /\ Jumps(e) => t = InGroup(e, b)
        /\ ~Jumps(e) => t = (IF b = "FORWARD" THEN Base("FORW_OUT") ELSE Base("ACCEPT"))
    BY TargetIs
  <1>6. /\ Jumps(e) /\ p.state # "INVALID" => Renders(final, b, x, h[Sub(calls, m)], E[InGroup(e, b)])
        /\ Jumps(e) /\ p.state = "INVALID" => E[InGroup(e, b)] = "RETURN"
    <2>1. VoiceOf(e, Way(b)) = "answer"
      BY <1>0 DEF VoiceOf
    <2> QED
      BY <1>0, <2>1, SubgroupMeets
  <1>7. /\ InGroup(e, b).base \in FilterBase /\ Base("FORW_OUT").base \in FilterBase
        /\ Base("ACCEPT").base = "ACCEPT" /\ "ACCEPT" \in Verdict
    BY DEF InGroup, Base, Verdict, FilterBase, Builtin, GroupBase
  <1>8. Jumps(e) => h[Sub(calls, m)] = "RETURN" \/ Answering(p)
    <2>1. ASSUME Jumps(e)
          PROVE  Sub(calls, m) \in Group /\ m - 1 \in 0..Len(calls) /\ calls \in Seq(Call)
                 /\ Regular(calls) /\ p \in Packet
      <3>1. Sub(calls, m) \in Group
        BY <2>1, SubgroupSays
      <3>2. m - 1 \in 0..Len(calls)
        BY LenProperties DEF RuleCalls, Course
      <3> QED
        BY <3>1, <3>2, FirewallAssumption DEF Course
    <2>2. ASSUME Jumps(e)
          PROVE  h[Sub(calls, m)] = "RETURN" \/ Answering(p)
      BY <2>1, <2>2, AnswersPermit
    <2> QED
      BY <2>2
  <1>9. p.state = "INVALID" => ~Fit /\ ~Answering(p)
    BY DEF Answering
  <1>10. Admits(ReturnTests(e), p) /\ Answering(p) => Fit
    BY <1>1 DEF Answering
  <1> HIDE DEF e, h, x, y, t, v, Fit
  <1>11. CASE ~Admits(ReturnTests(e), p)
    <2>1. v = "RETURN" /\ y = "RETURN"
      BY <1>1, <1>3, <1>4, <1>11
    <2>2. Renders(final, b, x, y, v)
      BY <2>1 DEF Renders, Passed
    <2> QED
      BY <2>1, <2>2 DEF e, h, x, y, v
  <1>12. CASE Admits(ReturnTests(e), p) /\ Jumps(e)
    <2>1. v = E[InGroup(e, b)]
      BY <1>4, <1>5, <1>7, <1>12
    <2>2. y = h[Sub(calls, m)]
      BY <1>3, <1>8, <1>10, <1>12
    <2>3. p.state # "INVALID" => Renders(final, b, x, y, v)
      BY <1>6, <1>12, <2>1, <2>2
    <2>4. p.state = "INVALID" => v = "RETURN"
      BY <1>6, <1>12, <2>1
    <2> QED
      BY <2>3, <2>4 DEF e, h, x, y, v
  <1>13. CASE Admits(ReturnTests(e), p) /\ ~Jumps(e)
    <2>1. HasState(e) /\ Fit /\ Permits(e)
      BY <1>0, <1>1, <1>13
    <2>2. y = "ACCEPT"
      BY <1>3, <1>13, <2>1
    <2>3. v = IF b = "FORWARD" THEN x ELSE "ACCEPT"
      <3>1. CASE b = "FORWARD"
        BY <1>4, <1>5, <1>7, <1>13, <3>1 DEF x
      <3>2. CASE b # "FORWARD"
        BY <1>4, <1>5, <1>7, <1>13, <3>2
      <3> QED
        BY <3>1, <3>2
    <2>4. Renders(final, b, x, y, v)
      BY <2>2, <2>3 DEF Renders, Passed
    <2>5. p.state # "INVALID"
      BY <1>9, <2>1
    <2> QED
      BY <2>4, <2>5 DEF e, h, x, y, v
  <1> QED
    BY <1>11, <1>12, <1>13

-----------------------------------------------------------------------------
(***************************************************************************)
(* Call by call                                                            *)
(***************************************************************************)

(* What one more call adds to what is said of a direction.  An answer may  *)
(* come first, for no answer denies.                                       *)
LEMMA SideStep ==
    ASSUME NEW calls, NEW rank, Course(calls, rank), NEW m \in 1..Len(calls), NEW g \in Group,
           NEW p \in Packets, NEW dir
    PROVE  /\ m \notin RuleCalls(calls) \/ calls[m].ent.group # g =>
                SideAt(calls, m, g, dir, p) = SideAt(calls, m - 1, g, dir, p)
           /\ m \in RuleCalls(calls) /\ calls[m].ent.group = g /\ calls[m].ent.dir = dir =>
                SideAt(calls, m, g, dir, p) =
                    Then(SideAt(calls, m - 1, g, dir, p),
                         ByRule(calls[m].ent, dir, p, Heard("rule", calls, dir, p)[m - 1]))
           /\ m \in RuleCalls(calls) /\ calls[m].ent.group = g /\ calls[m].ent.dir # dir =>
                SideAt(calls, m, g, dir, p) =
                    Then(ByAnswer(calls[m].ent, dir, p, Heard("answer", calls, dir, p)[m - 1]),
                         SideAt(calls, m - 1, g, dir, p))
  <1> DEFINE e == calls[m].ent
             a == Heard("answer", calls, dir, p)
             r == Heard("rule", calls, dir, p)
             y == ByRule(e, dir, p, r[m - 1])
             z == ByAnswer(e, dir, p, a[m - 1])
  <1>0. calls \in Seq(Call) /\ Regular(calls) /\ p \in Packet
    BY FirewallAssumption DEF Course
  <1>1. a[m][g] = Then(a[m - 1][g], Adds("answer", calls, m, g, dir, p, a[m - 1]))
    <2>1. ByAndBy("answer", calls, dir, p, a)
      BY <1>0, HeardUnfolds
    <2> QED
      BY <2>1 DEF ByAndBy
  <1>2. r[m][g] = Then(r[m - 1][g], Adds("rule", calls, m, g, dir, p, r[m - 1]))
    <2>1. ByAndBy("rule", calls, dir, p, r)
      BY <1>0, HeardUnfolds
    <2> QED
      BY <2>1 DEF ByAndBy
  <1>3. m \in RuleCalls(calls) <=> calls[m].k # "group"
    BY <1>0, RuleCallIs
  <1>4. /\ m \notin RuleCalls(calls) \/ e.group # g =>
                /\ Adds("rule", calls, m, g, dir, p, r[m - 1]) = "RETURN"
                /\ Adds("answer", calls, m, g, dir, p, a[m - 1]) = "RETURN"
        /\ m \in RuleCalls(calls) /\ e.group = g =>
                /\ Adds("rule", calls, m, g, dir, p, r[m - 1]) = y
                /\ Adds("answer", calls, m, g, dir, p, a[m - 1]) = z
    BY <1>3 DEF Adds, Says
  <1>5. /\ e.dir = dir => z = "RETURN"
        /\ e.dir # dir => y = "RETURN"
    BY DEF ByRule, ByAnswer
  <1>6. ASSUME NEW n \in 0..Len(calls)
        PROVE  a[n][g] \in {"RETURN", "ACCEPT"}
    BY <1>0, AnswersPermit
  <1>7. /\ m - 1 \in 0..Len(calls) /\ m \in 0..Len(calls)
    BY <1>0, LenProperties
  <1>8. a[m - 1][g] \in {"RETURN", "ACCEPT"} /\ a[m][g] \in {"RETURN", "ACCEPT"}
    BY <1>6, <1>7
  <1>9. /\ SideAt(calls, m, g, dir, p) = Then(a[m][g], r[m][g])
        /\ SideAt(calls, m - 1, g, dir, p) = Then(a[m - 1][g], r[m - 1][g])
    BY DEF SideAt
  <1> HIDE DEF e, a, r, y, z
  <1>10. CASE m \notin RuleCalls(calls) \/ e.group # g
    BY <1>1, <1>2, <1>4, <1>9, <1>10 DEF Then, e
  <1>11. CASE m \in RuleCalls(calls) /\ e.group = g /\ e.dir = dir
    <2>1. SideAt(calls, m, g, dir, p) = Then(SideAt(calls, m - 1, g, dir, p), y)
      BY <1>1, <1>2, <1>4, <1>5, <1>9, <1>11 DEF Then
    <2> QED
      BY <1>11, <2>1 DEF e, r, y
  <1>12. CASE m \in RuleCalls(calls) /\ e.group = g /\ e.dir # dir
    <2>1. SideAt(calls, m, g, dir, p) = Then(z, SideAt(calls, m - 1, g, dir, p))
      <3>1. a[m][g] = Then(a[m - 1][g], z) /\ r[m][g] = r[m - 1][g]
        BY <1>1, <1>2, <1>4, <1>5, <1>12 DEF Then
      <3>2. z = "RETURN" \/ (a[m - 1][g] = "RETURN" /\ a[m][g] = z) \/ a[m - 1][g] = "ACCEPT"
        BY <1>8, <3>1 DEF Then
      <3>3. z \in {"RETURN", "ACCEPT"} \/ a[m - 1][g] = "ACCEPT"
        BY <1>8, <3>1 DEF Then
      <3>4. z \in {"RETURN", "ACCEPT"}
        <4>1. e \in Ent /\ (Jumps(e) => e.m["SUBGROUP"] \in Group)
          BY <1>0, RuleCallIs DEF e
        <4>2. z = "RETURN" \/ z = "ACCEPT" \/ (Jumps(e) /\ z = a[m - 1][e.m["SUBGROUP"]])
          BY DEF z, ByAnswer
        <4>3. Jumps(e) => a[m - 1][e.m["SUBGROUP"]] \in {"RETURN", "ACCEPT"}
          <5> HIDE DEF z
          <5>1. \A f \in Group : a[m - 1][f] \in {"RETURN", "ACCEPT"}
            BY <1>0, <1>7, AnswersPermit DEF a
          <5> QED
            BY <4>1, <5>1
        <4> QED
          BY <4>2, <4>3
      <3> QED
        BY <1>8, <1>9, <3>1, <3>4 DEF Then
    <2> QED
      BY <1>12, <2>1 DEF e, a, z
  <1> QED
    BY <1>10, <1>11, <1>12 DEF e

(* A call that a chain has no text of.                                     *)
LEMMA SaysNothing ==
    ASSUME NEW calls, NEW rank, Course(calls, rank), NEW m \in RuleCalls(calls),
           Sensible(calls[m].ent), NEW b \in GroupBase, NEW p, Path(b) = p.path, NEW sub,
           ~MainIn(calls[m].ent, b), ~BackIn(calls[m].ent, b)
    PROVE  /\ calls[m].ent.dir = Way(b) => ByRule(calls[m].ent, Way(b), p, sub) = "RETURN"
           /\ calls[m].ent.dir # Way(b) => ByAnswer(calls[m].ent, Way(b), p, sub) = "RETURN"
  <1> DEFINE e == calls[m].ent
  <1>1. Concerns(e, p) <=> ForThis(e, b)
    BY ConcernsPath
  <1>2. e.dir = Way(b) => ~Concerns(e, p)
    BY <1>1 DEF MainIn
  <1>3. e.dir # Way(b) => ~Concerns(e, p) \/ ~NeedsReturn(e)
    BY <1>1 DEF BackIn
  <1>4. ~NeedsReturn(e) => e.m["ONEWAY"] # NULL \/ (~Jumps(e) /\ ~(Permits(e) /\ HasState(e)))
    BY DEF NeedsReturn, Jumps, Denies, Permits
  <1> HIDE DEF e
  <1>5. ~Concerns(e, p) => ByRule(e, Way(b), p, sub) = "RETURN" /\ ByAnswer(e, Way(b), p, sub) = "RETURN"
    BY DEF ByRule, ByAnswer
  <1>6. ~NeedsReturn(e) => ByAnswer(e, Way(b), p, sub) = "RETURN"
    BY <1>4 DEF ByAnswer
  <1> QED
    BY <1>2, <1>3, <1>5, <1>6 DEF e

(* A chain of another group, or a group announced.                         *)
LEMMA MeetsOther ==
    ASSUME NEW calls, NEW rank, Course(calls, rank), NEW final, NEW m \in 1..Len(calls),
           NEW c \in Chain, NEW p \in Packets, NEW x, NEW v,
           m \notin RuleCalls(calls) \/ calls[m].ent.group # c.group,
           Meets(final, calls, m - 1, c, p, x, v)
    PROVE  Meets(final, calls, m, c, p, x, v)
  <1>1. c.group \in Group
    BY DEF Chain
  <1>2. SideAt(calls, m, c.group, Way(c.base), p) = SideAt(calls, m - 1, c.group, Way(c.base), p)
    BY <1>1, SideStep
  <1> QED
    BY <1>2 DEF Meets

(* A chain of the group that the rule belongs to: the text of the rule at  *)
(* its end, or that of the return rule at its head, or neither.            *)
LEMMA MeetsRule ==
    ASSUME NEW calls, NEW rank, Course(calls, rank), NEW final \in BOOLEAN,
           NEW m \in RuleCalls(calls), Sensible(calls[m].ent),
           NEW c \in Chain, c.group = calls[m].ent.group, NEW p \in Heeded(calls), Concerned(calls, c, p),
           NEW E, Ideal(final, calls, p, E), NEW v,
           Meets(final, calls, m - 1, c, p, E[Base("FORW_OUT")], v)
    PROVE  /\ MainIn(calls[m].ent, c.base) =>
                Meets(final, calls, m, c, p, E[Base("FORW_OUT")],
                      Then(v, ByTarget(Main(final, calls[m].ent, c.base), p, E)))
           /\ BackIn(calls[m].ent, c.base) =>
                Meets(final, calls, m, c, p, E[Base("FORW_OUT")],
                      Then(ByTarget(Back(calls[m].ent, c.base), p, E), v))
           /\ ~MainIn(calls[m].ent, c.base) /\ ~BackIn(calls[m].ent, c.base) =>
                Meets(final, calls, m, c, p, E[Base("FORW_OUT")], v)
  <1> DEFINE e == calls[m].ent
             b == c.base
             dir == Way(b)
             x == E[Base("FORW_OUT")]
             y == ByRule(e, dir, p, Heard("rule", calls, dir, p)[m - 1])
             z == ByAnswer(e, dir, p, Heard("answer", calls, dir, p)[m - 1])
             s == SideAt(calls, m - 1, c.group, dir, p)
             t == SideAt(calls, m, c.group, dir, p)
             main == ByTarget(Main(final, e, b), p, E)
             back == ByTarget(Back(e, b), p, E)
  <1>1. b \in GroupBase /\ Path(b) = p.path /\ p \in Packets
    BY DEF Concerned, Heeded
  <1>2. m \in 1..Len(calls) /\ c.group \in Group
    BY DEF RuleCalls, Chain
  <1>3. /\ e.dir = dir => t = Then(s, y)
        /\ e.dir # dir => t = Then(z, s)
    BY <1>1, <1>2, SideStep
  <1>4. MainIn(e, b) => e.dir = dir
    BY DEF MainIn
  <1>5. BackIn(e, b) => e.dir # dir
    BY DEF BackIn
  <1>6. p.state # "INVALID" /\ MainIn(e, b) => Renders(final, b, x, y, main)
    BY <1>1, MainSays
  <1>7. BackIn(e, b) =>
            /\ p.state # "INVALID" => Renders(final, b, x, z, back)
            /\ p.state = "INVALID" => back = "RETURN"
    BY <1>1, BackSays
  <1>8. ~MainIn(e, b) /\ ~BackIn(e, b) =>
            /\ e.dir = dir => y = "RETURN"
            /\ e.dir # dir => z = "RETURN"
    BY <1>1, SaysNothing
  <1>9. p.state = "INVALID" /\ c.group # NULL => e.dir # dir
    <2>1. c.group # NULL => c.group \in GroupsOf(e)
      BY DEF GroupsOf
    <2> QED
      BY <2>1 DEF Concerned, BackOnly
  <1>10. /\ p.state = "INVALID" => v = (IF c.group = NULL THEN "DROP" ELSE "RETURN")
         /\ p.state # "INVALID" => Renders(final, b, x, s, v)
    BY DEF Meets
  <1>11. ASSUME NEW w,
                p.state = "INVALID" => w = (IF c.group = NULL THEN "DROP" ELSE "RETURN"),
                p.state # "INVALID" => Renders(final, b, x, t, w)
         PROVE  Meets(final, calls, m, c, p, x, w)
    BY <1>11 DEF Meets
  <1> HIDE DEF e, b, dir, x, y, z, s, t, main, back
  <1>12. ASSUME MainIn(e, b)
         PROVE  Meets(final, calls, m, c, p, x, Then(v, main))
    <2>1. p.state = "INVALID" => Then(v, main) = (IF c.group = NULL THEN "DROP" ELSE "RETURN")
      BY <1>4, <1>9, <1>10, <1>12 DEF Then
    <2>2. p.state # "INVALID" => Renders(final, b, x, t, Then(v, main))
      BY <1>3, <1>4, <1>6, <1>10, <1>12, RendersThen
    <2> QED
      BY <1>11, <2>1, <2>2
  <1>13. ASSUME BackIn(e, b)
         PROVE  Meets(final, calls, m, c, p, x, Then(back, v))
    <2>1. p.state = "INVALID" => Then(back, v) = (IF c.group = NULL THEN "DROP" ELSE "RETURN")
      BY <1>7, <1>10, <1>13 DEF Then
    <2>2. p.state # "INVALID" => Renders(final, b, x, t, Then(back, v))
      BY <1>3, <1>5, <1>7, <1>10, <1>13, RendersThen
    <2> QED
      BY <1>11, <2>1, <2>2
  <1>14. ASSUME ~MainIn(e, b), ~BackIn(e, b)
         PROVE  Meets(final, calls, m, c, p, x, v)
    <2>1. t = s
      BY <1>3, <1>8, <1>14 DEF Then
    <2> QED
      BY <1>10, <1>11, <2>1
  <1> QED
    BY <1>12, <1>13, <1>14 DEF e, b, x, main, back

-----------------------------------------------------------------------------
(***************************************************************************)
(* Chains that say what the policy says                                    *)
(*                                                                         *)
(* The texts of the first s[b] calls are in the chains with base b.        *)
(***************************************************************************)

(* A chain of group c.group goes on to the chain for packets that belong   *)
(* nowhere, to that for forwarded packets, or to one of a subgroup.        *)
GoesTo(calls, s, c, jump) ==
    \/ jump.base \in Verdict \union Alteration
    \/ jump = Base("INVALID") /\ c.group = NULL /\ c.base \in Builtin
    \/ jump = Base("FORW_OUT") /\ c.base = "FORWARD"
    \/ \E m \in RuleCalls(calls) :
          /\ m <= s[c.base] /\ Jumps(calls[m].ent)
          /\ calls[m].ent.group = c.group /\ jump = InGroup(calls[m].ent, c.base)

Told(final, calls, s, k) ==
    \A p \in Heeded(calls) : \A E : Ideal(final, calls, p, E) =>
        \A c \in Exists(k) : Concerned(calls, c, p) =>
            Meets(final, calls, s[c.base], c, p, E[Base("FORW_OUT")], InChain(k, c, p, E))

Led(calls, s, k) ==
    \A c \in Exists(k) : c.base \in GroupBase =>
        \A i \in 1..Len(k.rules[c]) : GoesTo(calls, s, c, k.rules[c][i].jump)

Shaped(final, calls, s, k) ==
    /\ s \in [GroupBase -> 0..Len(calls)]
    /\ IsKernel(k)
    /\ \A b \in Builtin : k.policy[b] = "DROP"
    /\ {Base("FORW_OUT"), Base("INVALID")} \subseteq Exists(k)
    /\ k.rules[Base("INVALID")] = << [tests |-> {}, jump |-> Base("DROP")] >>
    /\ Told(final, calls, s, k)
    /\ Led(calls, s, k)

(* How many jumps it takes at most until a chain has decided.              *)
Height(rank, c) ==
    CASE c.base = "INVALID" -> 1
      [] c.base = "FORW_OUT" -> rank[c.group] + 1
      [] c.base = "FORWARD" -> rank[c.group] + rank[NULL] + 2
      [] OTHER -> rank[c.group] + 2

(* It decides no sooner than those to which it leads.                      *)
LEMMA LowerHeight ==
    ASSUME NEW calls, NEW rank, Course(calls, rank), NEW s \in [GroupBase -> 0..Len(calls)],
           NEW c \in Chain, c.base \in GroupBase, NEW jump \in Chain, GoesTo(calls, s, c, jump)
    PROVE  Height(rank, jump) < Height(rank, c)
  <1>0. rank \in [Group -> Nat] /\ NULL \in Group /\ Nested(calls, rank) /\ calls \in Seq(Call)
    BY DEF Course, Group
  <1>1. c.group \in Group /\ rank[c.group] \in Nat /\ rank[NULL] \in Nat
    BY <1>0 DEF Chain
  <1>2. jump.base \notin Verdict \union Alteration
    BY DEF Chain, Verdict, Alteration, FilterBase, Builtin, NatBase
  <1>3. CASE jump = Base("INVALID")
    <2>1. Height(rank, jump) = 1
      BY <1>3 DEF Height, Base
    <2>2. Height(rank, c) \in Nat /\ (c.base # "FORW_OUT" => Height(rank, c) > 1)
      <3> DEFINE u == rank[c.group]
                 w == rank[NULL]
      <3>1. Height(rank, c) = IF c.base = "FORW_OUT" THEN u + 1
                              ELSE IF c.base = "FORWARD" THEN u + w + 2 ELSE u + 2
        BY DEF Height, GroupBase
      <3>2. u \in Nat /\ w \in Nat
        BY <1>1
      <3> HIDE DEF u, w
      <3> QED
        BY <3>1, <3>2
    <2>3. CASE c.base # "FORW_OUT"
      BY <2>1, <2>2, <2>3
    <2>4. CASE c.base = "FORW_OUT"
      <3>1. jump.group = NULL /\ jump.base = "INVALID"
        BY <1>3 DEF Base
      <3> QED
        BY <1>2, <2>4, <3>1 DEF GoesTo, Base, Builtin, InGroup
    <2> QED
      BY <2>3, <2>4
  <1>4. CASE jump = Base("FORW_OUT") /\ c.base = "FORWARD"
    BY <1>1, <1>4 DEF Height, Base
  <1>5. CASE \E m \in RuleCalls(calls) : /\ Jumps(calls[m].ent) /\ calls[m].ent.group = c.group
                                         /\ jump = InGroup(calls[m].ent, c.base)
    <2>1. PICK m \in RuleCalls(calls) : /\ Jumps(calls[m].ent) /\ calls[m].ent.group = c.group
                                        /\ jump = InGroup(calls[m].ent, c.base)
      BY <1>5
    <2>2. jump.base = c.base /\ jump.group = Sub(calls, m)
      BY <2>1 DEF InGroup, Sub
    <2>3. rank[jump.group] < rank[c.group]
      BY <1>0, <2>1, <2>2 DEF Nested, Sub
    <2>4. jump.group \in Group /\ rank[jump.group] \in Nat
      BY <1>0 DEF Chain
    <2> DEFINE u == rank[jump.group]
               v == rank[c.group]
               w == rank[NULL]
               Above(x) == IF c.base = "FORW_OUT" THEN x + 1
                           ELSE IF c.base = "FORWARD" THEN x + w + 2 ELSE x + 2
    <2>5. Height(rank, jump) = Above(u)
      BY <2>2 DEF Height, GroupBase
    <2>6. Height(rank, c) = Above(v)
      BY DEF Height, GroupBase
    <2>7. u \in Nat /\ v \in Nat /\ w \in Nat /\ u < v
      BY <1>1, <2>3, <2>4
    <2> HIDE DEF u, v, w
    <2>8. Above(u) < Above(v)
      BY <2>7
    <2> QED
      BY <2>5, <2>6, <2>8
  <1> QED
    BY <1>2, <1>3, <1>4, <1>5 DEF GoesTo

(* It decides as its jumps are decided.                                    *)
LEMMA InChainDepends ==
    ASSUME NEW k, IsKernel(k), NEW c \in Exists(k), NEW p, NEW A, NEW B,
           \A i \in 1..Len(k.rules[c]) :
                k.rules[c][i].jump.base \notin Verdict \union Alteration =>
                    A[k.rules[c][i].jump] = B[k.rules[c][i].jump]
    PROVE  InChain(k, c, p, A) = InChain(k, c, p, B)
  <1>1. \A i \in 1..Len(k.rules[c]) :
            ByTarget(k.rules[c][i], p, A) = ByTarget(k.rules[c][i], p, B)
    BY DEF ByTarget
  <1>2. [i \in 1..Len(k.rules[c]) |-> ByTarget(k.rules[c][i], p, A)]
            = [i \in 1..Len(k.rules[c]) |-> ByTarget(k.rules[c][i], p, B)]
    BY <1>1
  <1> QED
    BY <1>2 DEF InChain

(* There always is something for a chain to decide.                        *)
Sample(final, calls, c, p, x) ==
    IF p.state = "INVALID" THEN IF c.group = NULL THEN "DROP" ELSE "RETURN"
    ELSE LET y == SideAt(calls, Len(calls), c.group, Way(c.base), p)
         IN  IF c.base # "FORWARD" THEN y ELSE IF x = "ACCEPT" THEN Passed(final, y) ELSE "RETURN"

LEMMA SampleMeets ==
    ASSUME NEW final, NEW calls, NEW c, NEW p, NEW x
    PROVE  Meets(final, calls, Len(calls), c, p, x, Sample(final, calls, c, p, x))
  BY DEF Meets, Sample, Renders

LEMMA HeightIs ==
    ASSUME NEW rank \in [Group -> Nat], NEW c \in Chain
    PROVE  Height(rank, c) \in Nat /\ Height(rank, c) >= 1
  <1> DEFINE u == rank[c.group]
             w == rank[NULL]
  <1>1. u \in Nat /\ w \in Nat
    BY DEF Chain, Group
  <1>2. Height(rank, c) \in {1, u + 1, u + w + 2, u + 2}
    BY DEF Height
  <1> HIDE DEF u, w
  <1> QED
    BY <1>1, <1>2

(* The chain for packets that belong nowhere.                              *)
LEMMA InvalidDrops ==
    ASSUME NEW k, k.rules[Base("INVALID")] = << [tests |-> {}, jump |-> Base("DROP")] >>,
           NEW p, NEW A
    PROVE  InChain(k, Base("INVALID"), p, A) = "DROP"
  <1> DEFINE r == [tests |-> {}, jump |-> Base("DROP")]
             v == [i \in 1..Len(k.rules[Base("INVALID")]) |->
                        ByTarget(k.rules[Base("INVALID")][i], p, A)]
  <1>1. Base("DROP").base = "DROP" /\ "DROP" \in Verdict
    BY DEF Base, Verdict
  <1>2. ByTarget(r, p, A) = "DROP"
    BY <1>1, BothAdmit, TargetSays
  <1> HIDE DEF r
  <1>3. k.rules[Base("INVALID")] = <<r>>
    BY DEF r
  <1>4. DOMAIN v = 1..1 /\ v[1] = "DROP"
    BY <1>2, <1>3
  <1> HIDE DEF v
  <1>5. First(v) = "DROP"
    <2> DEFINE n == 1
    <2>1. n \in Nat /\ DOMAIN v = 1..n /\ n \in 1..n /\ v[n] # "RETURN"
          /\ \A j \in 1..n : j < n => v[j] = "RETURN"
      BY <1>4
    <2> HIDE DEF n
    <2>2. First(v) = v[n]
      BY <2>1, FirstIs
    <2> QED
      BY <1>4, <2>2 DEF n
  <1> QED
    BY <1>5 DEF InChain, v

(* One jump further.                                                       *)
LEMMA OneFurther ==
    ASSUME NEW calls, NEW rank, Course(calls, rank), NEW final \in BOOLEAN, NEW s, NEW k,
           Shaped(final, calls, s, k), NEW p \in Heeded(calls), NEW X,
           p.path = "FORWARD" => X = SideAt(calls, s["FORW_OUT"], NULL, "OUTPUT", p),
           NEW D, NEW n \in Nat, n >= 1 => D[Base("INVALID")] = "DROP",
           \A c \in Exists(k) : Concerned(calls, c, p) /\ Height(rank, c) <= n =>
                Meets(final, calls, s[c.base], c, p, X, D[c]),
           NEW c \in Exists(k), Concerned(calls, c, p), Height(rank, c) <= n + 1
    PROVE  Meets(final, calls, s[c.base], c, p, X, InChain(k, c, p, D))
  <1> DEFINE out == Base("FORW_OUT")
             x == IF p.state = "INVALID" THEN D[out] ELSE X
             J == { j \in Exists(k) :
                      /\ Height(rank, j) <= n /\ j.base = c.base
                      /\ \E m \in RuleCalls(calls) : m <= s[c.base] /\ Jumps(calls[m].ent)
                                                       /\ j = InGroup(calls[m].ent, c.base) }
             Z(j) == IF j = Base("INVALID") THEN "DROP" ELSE IF j = out THEN x
                     ELSE IF j \in J THEN D[j] ELSE Sample(final, calls, j, p, x)
             E == [j \in Chain |-> Z(j)]
  <1>0. /\ IsKernel(k) /\ Exists(k) \subseteq Chain /\ s \in [GroupBase -> 0..Len(calls)]
        /\ calls \in Seq(Call) /\ rank \in [Group -> Nat] /\ c \in Chain /\ c.base \in GroupBase
        /\ Path(c.base) = p.path
    BY DEF Shaped, IsKernel, Course, Concerned
  <1>1. Base("INVALID") \in Chain /\ out \in Chain /\ out # Base("INVALID")
    BY DEF Base, Chain, Group, FilterBase
  <1>2. /\ E[Base("INVALID")] = "DROP" /\ E[out] = x
        /\ \A j \in Chain : j \notin {out, Base("INVALID")} =>
              E[j] = IF j \in J THEN D[j] ELSE Sample(final, calls, j, p, x)
    BY <1>1
  <1> HIDE DEF E
  <1>3. ASSUME NEW m \in Nat, NEW d \in Chain, NEW v, Meets(final, calls, m, d, p, X, v)
        PROVE  Meets(final, calls, m, d, p, x, v)
    BY <1>3 DEF Meets
  <1>4. ASSUME NEW m \in Nat, NEW d \in Chain, NEW v, Meets(final, calls, m, d, p, x, v)
        PROVE  Meets(final, calls, m, d, p, X, v)
    BY <1>4 DEF Meets
  <1>5. s[c.base] \in Nat /\ s[c.base] \in 0..Len(calls) /\ Len(calls) \in Nat
    BY <1>0, LenProperties
  <1> HIDE DEF x
  <1>6. ASSUME NEW j \in J, Concerned(calls, j, p)
        PROVE  Meets(final, calls, Len(calls), j, p, x, D[j])
    <2>1. PICK m \in RuleCalls(calls) : m <= s[c.base] /\ Jumps(calls[m].ent)
                                          /\ j = InGroup(calls[m].ent, c.base)
      OBVIOUS
    <2>2. j \in Exists(k) /\ j \in Chain /\ Height(rank, j) <= n /\ j.base = c.base
      BY <1>0
    <2>3. Meets(final, calls, s[c.base], j, p, x, D[j])
      BY <1>3, <1>5, <1>6, <2>2
    <2>4. j.group = Sub(calls, m)
      BY <2>1 DEF InGroup, Sub
    <2>5. s[c.base] \in (m - 1)..Len(calls) /\ Len(calls) \in (m - 1)..Len(calls)
      BY <1>5, <2>1 DEF RuleCalls
    <2>6. SideAt(calls, s[c.base], j.group, Way(j.base), p)
            = SideAt(calls, Len(calls), j.group, Way(j.base), p)
      <3>1. \A i \in (m - 1)..Len(calls) :
                SideAt(calls, i, Sub(calls, m), Way(j.base), p) =
                    Heard(VoiceOf(calls[m].ent, Way(j.base)), calls, Way(j.base), p)[m - 1][Sub(calls, m)]
        BY <2>1, SubgroupSays
      <3> QED
        BY <2>4, <2>5, <3>1
    <2> QED
      BY <2>3, <2>6 DEF Meets
  <1>7. Ideal(final, calls, p, E)
    <2>1. ASSUME NEW j \in Chain, Concerned(calls, j, p), j # out
          PROVE  Meets(final, calls, Len(calls), j, p, x, E[j])
      <3>1. j # Base("INVALID")
        BY <2>1 DEF Concerned, Base, GroupBase
      <3>2. E[j] = IF j \in J THEN D[j] ELSE Sample(final, calls, j, p, x)
        BY <1>2, <2>1, <3>1
      <3>3. CASE j \in J
        BY <1>6, <2>1, <3>2, <3>3
      <3>4. CASE j \notin J
        BY <3>2, <3>4, SampleMeets
      <3> QED
        BY <3>3, <3>4
    <2> QED
      BY <1>2, <2>1 DEF Ideal
  <1>8. InChain(k, c, p, E) = InChain(k, c, p, D)
    <2>1. ASSUME NEW i \in 1..Len(k.rules[c]), NEW t, t = k.rules[c][i].jump,
                 t.base \notin Verdict \union Alteration
          PROVE  E[t] = D[t]
      <3>1. t \in Exists(k) /\ t \in Chain
        BY <1>0, <2>1 DEF IsKernel, Linked, JumpOK
      <3>2. GoesTo(calls, s, c, t)
        BY <1>0, <2>1 DEF Shaped, Led
      <3>3. Height(rank, t) < Height(rank, c)
        BY <1>0, <3>1, <3>2, LowerHeight
      <3>4. /\ Height(rank, t) \in Nat /\ Height(rank, t) >= 1
            /\ Height(rank, c) \in Nat
        BY <1>0, <3>1, HeightIs
      <3>5. n >= 1 /\ Height(rank, t) <= n
        BY <3>3, <3>4
      <3>6. CASE t = Base("INVALID")
        BY <1>2, <3>5, <3>6
      <3>7. CASE t = out /\ c.base = "FORWARD"
        <4>1. CASE p.state = "INVALID"
          BY <1>2, <3>7, <4>1 DEF x
        <4>2. CASE p.state # "INVALID"
          <5>1. out.base = "FORW_OUT" /\ out.group = NULL /\ Way("FORW_OUT") = "OUTPUT"
                /\ Path("FORW_OUT") = "FORWARD" /\ Path("FORWARD") = "FORWARD"
                /\ "FORW_OUT" \in GroupBase
            BY DEF Base, Way, Path, GroupBase
          <5>2. Concerned(calls, t, p)
            BY <1>0, <3>7, <4>2, <5>1 DEF Concerned
          <5>3. Meets(final, calls, s["FORW_OUT"], t, p, X, D[t])
            BY <3>1, <3>5, <3>7, <5>1, <5>2
          <5>4. D[t] = SideAt(calls, s["FORW_OUT"], NULL, "OUTPUT", p)
            BY <3>7, <4>2, <5>1, <5>3 DEF Meets, Renders
          <5>5. p.path = "FORWARD"
            BY <1>0, <3>7, <5>1
          <5> QED
            BY <1>2, <3>7, <4>2, <5>4, <5>5 DEF x
        <4> QED
          BY <4>1, <4>2
      <3>8. CASE \E m \in RuleCalls(calls) : m <= s[c.base] /\ Jumps(calls[m].ent)
                                              /\ t = InGroup(calls[m].ent, c.base)
        <4>1. PICK m \in RuleCalls(calls) : m <= s[c.base] /\ Jumps(calls[m].ent)
                                              /\ t = InGroup(calls[m].ent, c.base)
          BY <3>8
        <4>2. t.base = c.base /\ t.group = Sub(calls, m)
          BY <4>1 DEF InGroup, Sub
        <4>3. t.group # NULL
          BY <4>1, <4>2, SubgroupSays
        <4>4. t \notin {out, Base("INVALID")}
          BY <4>3 DEF Base
        <4>5. t \in J
          BY <3>1, <3>5, <3>8, <4>2
        <4> QED
          BY <1>2, <3>1, <4>4, <4>5
      <3> QED
        BY <2>1, <3>2, <3>6, <3>7, <3>8 DEF GoesTo
    <2> QED
      BY <1>0, <2>1, InChainDepends
  <1>9. Meets(final, calls, s[c.base], c, p, x, InChain(k, c, p, E))
    BY <1>2, <1>7 DEF Shaped, Told
  <1> QED
    BY <1>0, <1>4, <1>5, <1>8, <1>9

(* Jump by jump.                                                           *)
LEMMA ChainsDecide ==
    ASSUME NEW calls, NEW rank, Course(calls, rank), NEW final \in BOOLEAN, NEW s, NEW k,
           Shaped(final, calls, s, k), NEW p \in Heeded(calls), NEW X,
           p.path = "FORWARD" => X = SideAt(calls, s["FORW_OUT"], NULL, "OUTPUT", p),
           NEW c \in Exists(k), Concerned(calls, c, p), Height(rank, c) <= JumpLimit
    PROVE  Meets(final, calls, s[c.base], c, p, X, Decision(k, p)[JumpLimit][c])
  <1> DEFINE D == Decision(k, p)
             Until(n) == /\ n >= 1 => D[n][Base("INVALID")] = "DROP"
                         /\ \A d \in Exists(k) : Concerned(calls, d, p) /\ Height(rank, d) <= n =>
                                Meets(final, calls, s[d.base], d, p, X, D[n][d])
             P == { n \in Nat : n <= JumpLimit => Until(n) }
  <1>1. /\ IsKernel(k) /\ Exists(k) \subseteq Chain /\ Base("INVALID") \in Exists(k)
        /\ k.rules[Base("INVALID")] = << [tests |-> {}, jump |-> Base("DROP")] >>
        /\ rank \in [Group -> Nat] /\ JumpLimit \in Nat
    BY FirewallAssumption DEF Shaped, IsKernel, Course
  <1>2. \A n \in 1..JumpLimit : \A d \in Exists(k) : D[n][d] = InChain(k, d, p, D[n - 1])
    BY <1>1, DecisionUnfolds
  <1>3. \A d \in Exists(k) : Height(rank, d) \in Nat /\ Height(rank, d) >= 1
    BY <1>1, HeightIs
  <1> HIDE DEF D
  <1>4. 0 \in P
    BY <1>3
  <1>5. ASSUME NEW n \in P
        PROVE  n + 1 \in P
    <2> SUFFICES ASSUME n + 1 <= JumpLimit
                 PROVE  Until(n + 1)
      BY <1>5
    <2>1. n \in Nat /\ n + 1 \in 1..JumpLimit /\ (n + 1) - 1 = n /\ Until(n)
      BY <1>1, <1>5
    <2>2. D[n + 1][Base("INVALID")] = "DROP"
      <3>1. InChain(k, Base("INVALID"), p, D[n]) = "DROP"
        BY <1>1, InvalidDrops
      <3> QED
        BY <1>1, <1>2, <2>1, <3>1
    <2>3. ASSUME NEW d \in Exists(k), Concerned(calls, d, p), Height(rank, d) <= n + 1
          PROVE  Meets(final, calls, s[d.base], d, p, X, D[n + 1][d])
      <3>1. D[n + 1][d] = InChain(k, d, p, D[n])
        BY <1>2, <2>1
      <3>2. n >= 1 => D[n][Base("INVALID")] = "DROP"
        BY <2>1
      <3>3. \A j \in Exists(k) : Concerned(calls, j, p) /\ Height(rank, j) <= n =>
                Meets(final, calls, s[j.base], j, p, X, D[n][j])
        BY <2>1
      <3>4. Meets(final, calls, s[d.base], d, p, X, InChain(k, d, p, D[n]))
        BY <2>1, <2>3, <3>2, <3>3, OneFurther
      <3> QED
        BY <3>1, <3>4
    <2> QED
      BY <2>2, <2>3
  <1>6. P \in SUBSET Nat
    OBVIOUS
  <1> HIDE DEF P
  <1>7. JumpLimit \in P
    BY <1>1, <1>4, <1>5, <1>6, Induction
  <1>8. Until(JumpLimit)
    BY <1>1, <1>7 DEF P
  <1> QED
    BY <1>8 DEF D

(* What has been said of a direction stands.                               *)
LEMMA SideStands ==
    ASSUME NEW calls, NEW rank, Course(calls, rank), NEW p \in Packets, NEW dir,
           NEW n \in 0..Len(calls)
    PROVE  /\ SideAt(calls, n, NULL, dir, p) = "ACCEPT" => Side(calls, dir, p) = "ACCEPT"
           /\ SideAt(calls, n, NULL, dir, p) # "RETURN" => Side(calls, dir, p) # "RETURN"
           /\ Side(calls, dir, p) = SideAt(calls, Len(calls), NULL, dir, p)
  <1> DEFINE N == Len(calls)
             a == Heard("answer", calls, dir, p)
             r == Heard("rule", calls, dir, p)
  <1>0. calls \in Seq(Call) /\ Regular(calls) /\ p \in Packet /\ NULL \in Group
    BY FirewallAssumption DEF Course, Group
  <1>1. N \in Nat /\ N \in 0..N /\ n <= N
    BY <1>0, LenProperties
  <1>2. a[n][NULL] \in {"RETURN", "ACCEPT"} /\ a[N][NULL] \in {"RETURN", "ACCEPT"}
    BY <1>0, <1>1, AnswersPermit
  <1>3. Settling(a, N) /\ Settling(r, N) /\ NULL \in Group /\ n \in 0..N
    BY <1>0, HeardKept
  <1>4. a[n][NULL] # "RETURN" => a[N][NULL] = a[n][NULL]
    BY <1>1, <1>3 DEF Settling
  <1>5. r[n][NULL] # "RETURN" => r[N][NULL] = r[n][NULL]
    BY <1>1, <1>3 DEF Settling
  <1>6. Side(calls, dir, p) = Then(a[N][NULL], r[N][NULL])
    BY DEF Side, Then
  <1>7. /\ SideAt(calls, n, NULL, dir, p) = Then(a[n][NULL], r[n][NULL])
        /\ SideAt(calls, N, NULL, dir, p) = Then(a[N][NULL], r[N][NULL])
    BY DEF SideAt
  <1> HIDE DEF a, r
  <1> QED
    BY <1>2, <1>4, <1>5, <1>6, <1>7 DEF Then

(* What the rules in force let through the policy allows; and they let     *)
(* through all of it when the texts of every call are there -- but for     *)
(* what is denied on the way in, if denials there are final.               *)
Due(final, calls, p) == Allowed(calls, p) /\ (final => ~DeniedOnInput(calls, p))

LEMMA ShapedKeeps ==
    ASSUME NEW calls, NEW rank, Course(calls, rank), NEW final \in BOOLEAN, NEW s, NEW k,
           Shaped(final, calls, s, k), NEW p \in Heeded(calls)
    PROVE  /\ LetsThrough(k, p) => Due(final, calls, p)
           /\ (\A b \in GroupBase : s[b] = Len(calls)) /\ Due(final, calls, p) => LetsThrough(k, p)
  <1> DEFINE c == Base(p.path)
             d == Decision(k, p)[JumpLimit][c]
             X == SideAt(calls, s["FORW_OUT"], NULL, "OUTPUT", p)
             At(b) == SideAt(calls, s[b], NULL, Way(b), p)
             All == \A b \in GroupBase : s[b] = Len(calls)
  <1>1. p.path \in Builtin /\ p.state \in State
    BY FirewallAssumption DEF Heeded, Packet
  <1>2. /\ c.group = NULL /\ c.base = p.path /\ p.path \in GroupBase /\ Path(p.path) = p.path
    BY <1>1 DEF Base, Builtin, GroupBase, Path
  <1>3. c \in Exists(k) /\ k.policy[p.path] = "DROP" /\ s \in [GroupBase -> 0..Len(calls)]
    BY <1>1 DEF Shaped, IsKernel, BuiltinChains
  <1>4. Concerned(calls, c, p)
    BY <1>1, <1>2 DEF Concerned
  <1>5. Height(rank, c) <= JumpLimit
    <2> DEFINE u == rank[NULL]
    <2>1. u \in Nat /\ JumpLimit \in Nat /\ 2 * u + 2 <= JumpLimit
      BY FirewallAssumption DEF Course, Nested, Group
    <2>2. Height(rank, c) = IF p.path = "FORWARD" THEN u + u + 2 ELSE u + 2
      BY <1>1, <1>2 DEF Height, Builtin
    <2> HIDE DEF u
    <2> QED
      BY <2>1, <2>2
  <1>6. Meets(final, calls, s[p.path], c, p, X, d)
    BY <1>2, <1>3, <1>4, <1>5, ChainsDecide
  <1>7. LetsThrough(k, p) <=> d = "ACCEPT"
    BY <1>3 DEF LetsThrough
  <1>8. \A b \in GroupBase :
            /\ At(b) = "ACCEPT" => Side(calls, Way(b), p) = "ACCEPT"
            /\ At(b) # "RETURN" => Side(calls, Way(b), p) # "RETURN"
            /\ All => At(b) = Side(calls, Way(b), p)
    <2> TAKE b \in GroupBase
    <2>1. s[b] \in 0..Len(calls) /\ p \in Packets
      BY <1>3 DEF Heeded
    <2>2. /\ At(b) = "ACCEPT" => Side(calls, Way(b), p) = "ACCEPT"
          /\ At(b) # "RETURN" => Side(calls, Way(b), p) # "RETURN"
          /\ Side(calls, Way(b), p) = SideAt(calls, Len(calls), NULL, Way(b), p)
      BY <2>1, SideStands
    <2> QED
      BY <2>2
  <1>9. /\ Way("INPUT") = "INPUT" /\ Way("OUTPUT") = "OUTPUT" /\ Way("FORWARD") = "INPUT"
        /\ Way("FORW_OUT") = "OUTPUT" /\ {"FORWARD", "FORW_OUT", "INPUT", "OUTPUT"} \subseteq GroupBase
    BY DEF Way, GroupBase
  <1>10. X = At("FORW_OUT")
    BY <1>9
  <1>11. CASE p.state = "INVALID"
    <2>1. d = "DROP"
      BY <1>2, <1>6, <1>11 DEF Meets
    <2> QED
      BY <1>7, <1>11, <2>1 DEF Due, DeniedOnInput, Allowed
  <1>12. CASE p.state # "INVALID" /\ p.path # "FORWARD"
    <2>1. d = At(p.path)
      BY <1>2, <1>6, <1>12 DEF Meets, Renders
    <2>2. Way(p.path) = p.path
      BY <1>1, <1>9, <1>12 DEF Builtin
    <2>3. Due(final, calls, p) <=> Side(calls, p.path, p) = "ACCEPT"
      BY <1>12 DEF Due, DeniedOnInput, Allowed
    <2> HIDE DEF d, At, All
    <2>4. /\ d = "ACCEPT" => Side(calls, p.path, p) = "ACCEPT"
          /\ All => d = Side(calls, p.path, p)
      BY <1>2, <1>8, <2>1, <2>2
    <2> QED
      BY <1>7, <2>3, <2>4 DEF All
  <1>13. CASE p.state # "INVALID" /\ p.path = "FORWARD"
    <2>1. IF X = "ACCEPT" THEN d = Passed(final, At("FORWARD")) ELSE d # "ACCEPT"
      BY <1>2, <1>6, <1>13 DEF Meets, Renders
    <2>2. Due(final, calls, p) <=>
            /\ Side(calls, "OUTPUT", p) = "ACCEPT"
            /\ IF final THEN Side(calls, "INPUT", p) = "ACCEPT" ELSE Side(calls, "INPUT", p) # "RETURN"
      BY <1>13 DEF Due, DeniedOnInput, Allowed
    <2>3. d = "ACCEPT" <=> /\ At("FORW_OUT") = "ACCEPT"
                           /\ IF final THEN At("FORWARD") = "ACCEPT" ELSE At("FORWARD") # "RETURN"
      <3> HIDE DEF d, At, X
      <3> QED
        BY <1>10, <2>1 DEF Passed
    <2> HIDE DEF d, At, All, X
    <2>4. /\ At("FORW_OUT") = "ACCEPT" => Side(calls, "OUTPUT", p) = "ACCEPT"
          /\ At("FORWARD") = "ACCEPT" => Side(calls, "INPUT", p) = "ACCEPT"
          /\ At("FORWARD") # "RETURN" => Side(calls, "INPUT", p) # "RETURN"
          /\ All => At("FORW_OUT") = Side(calls, "OUTPUT", p) /\ At("FORWARD") = Side(calls, "INPUT", p)
      BY <1>8, <1>9
    <2>5. d = "ACCEPT" => Due(final, calls, p)
      BY <2>2, <2>3, <2>4
    <2>6. All /\ Due(final, calls, p) => d = "ACCEPT"
      BY <2>2, <2>3, <2>4
    <2> QED
      BY <1>7, <2>5, <2>6 DEF All
  <1> QED
    BY <1>11, <1>12, <1>13

-----------------------------------------------------------------------------
(***************************************************************************)
(* Lines that find a kernel in A, leave one in B, and have one in I all    *)
(* the while                                                               *)
(***************************************************************************)
Through(A, s, B, I) ==
    /\ s \in Seq(Line)
    /\ \A k \in A : /\ IsKernel(k)
                    /\ Effect(k, s) \in B
                    /\ \A i \in 0..Len(s) : Stage(k, s, i) \in I

(* Two scripts that fit each other,                                        *)
LEMMA ThroughOn ==
    ASSUME NEW A, NEW B, NEW D, NEW I, NEW s, NEW t, Through(A, s, B, I), Through(B, t, D, I)
    PROVE  Through(A, s \o t, D, I)
  <1> DEFINE u == s \o t
  <1>1. s \in Seq(Line) /\ t \in Seq(Line)
    BY DEF Through
  <1>2. u \in Seq(Line) /\ Len(u) = Len(s) + Len(t) /\ Len(s) \in Nat /\ Len(t) \in Nat
    BY <1>1, ConcatProperties, LenProperties
  <1> HIDE DEF u
  <1>3. ASSUME NEW k \in A
        PROVE  IsKernel(k) /\ Effect(k, u) \in D /\ \A i \in 0..Len(u) : Stage(k, u, i) \in I
    <2>1. /\ IsKernel(k) /\ Effect(k, s) \in B
          /\ \A i \in 0..Len(s) : Stage(k, s, i) \in I
      BY DEF Through
    <2>2. /\ \A i \in 0..Len(s) : Stage(k, u, i) = Stage(k, s, i)
          /\ \A i \in 0..Len(t) : Stage(k, u, Len(s) + i) = Stage(Effect(k, s), t, i)
          /\ Effect(k, u) = Effect(Effect(k, s), t)
      BY <1>1, <2>1, StageBeyond DEF u
    <2>3. /\ Effect(Effect(k, s), t) \in D
          /\ \A i \in 0..Len(t) : Stage(Effect(k, s), t, i) \in I
      BY <2>1 DEF Through
    <2>4. ASSUME NEW i \in 0..Len(u)
          PROVE  Stage(k, u, i) \in I
      <3>1. CASE i <= Len(s)
        BY <1>2, <2>1, <2>2, <3>1
      <3>2. CASE i > Len(s)
        <4>1. i - Len(s) \in 0..Len(t) /\ Len(s) + (i - Len(s)) = i
          BY <1>2, <3>2
        <4> QED
          BY <2>2, <2>3, <4>1
      <3> QED
        BY <1>2, <3>1, <3>2
    <2> QED
      BY <2>1, <2>2, <2>3, <2>4
  <1> QED
    BY <1>2, <1>3 DEF Through, u

(* one line,                                                               *)
LEMMA ThroughOne ==
    ASSUME NEW A, NEW B, NEW I, NEW c \in Line,
           \A k \in A : IsKernel(k) /\ k \in I /\ After(k, c) \in B /\ After(k, c) \in I
    PROVE  Through(A, <<c>>, B, I)
  <1> DEFINE s == <<c>>
  <1>1. s \in Seq(Line) /\ Len(s) = 1
    OBVIOUS
  <1>2. ASSUME NEW k \in A
        PROVE  IsKernel(k) /\ Effect(k, s) \in B /\ \A i \in 0..Len(s) : Stage(k, s, i) \in I
    <2>1. IsKernel(k)
      OBVIOUS
    <2>2. Effect(k, s) = After(k, c)
      BY <2>1, OneLine
    <2> HIDE DEF s
    <2>3. Stage(k, s, 0) = k /\ Effect(k, s) = Stage(k, s, Len(s))
      BY <1>1, <2>1, StageSteps
    <2>4. \A i \in 0..Len(s) : i = 0 \/ i = 1
      BY <1>1
    <2> QED
      BY <1>1, <2>1, <2>2, <2>3, <2>4
  <1> HIDE DEF s
  <1>3. Through(A, s, B, I)
    BY <1>1, <1>2 DEF Through
  <1> QED
    BY <1>3 DEF s

(* no line,                                                                *)
LEMMA ThroughNone ==
    ASSUME NEW A, NEW B, NEW I, \A k \in A : IsKernel(k) /\ k \in B /\ k \in I
    PROVE  Through(A, <<>>, B, I)
  <1> DEFINE s == <<>>
  <1>1. s \in Seq(Line) /\ Len(s) = 0
    BY EmptySeq
  <1>2. ASSUME NEW k \in A
        PROVE  IsKernel(k) /\ Effect(k, s) \in B /\ \A i \in 0..Len(s) : Stage(k, s, i) \in I
    <2> HIDE DEF s
    <2>1. Stage(k, s, 0) = k /\ Effect(k, s) = Stage(k, s, 0)
      BY <1>1, StageSteps
    <2> QED
      BY <1>1, <2>1
  <1> HIDE DEF s
  <1>3. Through(A, s, B, I)
    BY <1>1, <1>2 DEF Through
  <1> QED
    BY <1>3 DEF s

(* and lines that depend on a condition.                                   *)
LEMMA ThroughIf ==
    ASSUME NEW A, NEW B, NEW I, NEW condition, NEW s, condition => Through(A, s, B, I),
           ~condition => \A k \in A : IsKernel(k) /\ k \in B /\ k \in I
    PROVE  Through(A, If(condition, s), B, I)
  <1>1. CASE condition
    BY <1>1 DEF If
  <1>2. CASE ~condition
    <2>1. If(condition, s) = <<>>
      BY <1>2 DEF If
    <2>2. Through(A, <<>>, B, I)
      BY <1>2, ThroughNone
    <2> QED
      BY <2>1, <2>2
  <1> QED
    BY <1>1, <1>2

(* Fewer to begin with, more to end with.                                  *)
LEMMA ThroughWider ==
    ASSUME NEW A, NEW B, NEW I, NEW s, Through(A, s, B, I),
           NEW C, NEW D, NEW J, C \subseteq A, B \subseteq D, I \subseteq J
    PROVE  Through(C, s, D, J)
  BY DEF Through

-----------------------------------------------------------------------------
(***************************************************************************)
(* One line                                                                *)
(***************************************************************************)

(* n is k with one rule more, at the end of chain c or at its head.        *)
Gains(k, n, op, c, r) ==
    /\ IsKernel(n) /\ n.policy = k.policy /\ Exists(n) = Exists(k)
    /\ \A d \in Exists(k) : d # c => n.rules[d] = k.rules[d]
    /\ n.rules[c] = IF op = "-A" THEN Append(k.rules[c], r) ELSE <<r>> \o k.rules[c]

LEMMA PutGains ==
    ASSUME NEW k, IsKernel(k), NEW op \in {"-A", "-I"}, NEW c \in Exists(k), NEW r \in Rule,
           JumpOK(k, c, r.jump), NEW cmd \in Line, cmd = [op |-> op, chain |-> c, rule |-> r]
    PROVE  Gains(k, After(k, cmd), op, c, r)
  <1> DEFINE n == After(k, cmd)
  <1>1. cmd.op = op /\ cmd.chain = c /\ cmd.rule = r
    OBVIOUS
  <1>2. IsKernel(n) /\ Exists(n) = Exists(k)
    BY <1>1, AfterIsKernel, ChainsAfter
  <1>3. n = Obeyed(k, cmd)
    BY <1>1 DEF After, Accepted
  <1>4. n = IF op = "-A" THEN [k EXCEPT !.rules[c] = Append(@, r)]
            ELSE [k EXCEPT !.rules[c] = <<r>> \o @]
    BY <1>1, <1>3 DEF Obeyed
  <1>5. k = [policy |-> k.policy, rules |-> k.rules] /\ k.rules \in [Exists(k) -> Seq(Rule)]
    BY DEF IsKernel
  <1>6. n.policy = k.policy /\ n.rules = [k.rules EXCEPT ![c] = IF op = "-A" THEN Append(k.rules[c], r)
                                                               ELSE <<r>> \o k.rules[c]]
    BY <1>4, <1>5
  <1> HIDE DEF n
  <1>7. /\ \A d \in Exists(k) : d # c => n.rules[d] = k.rules[d]
        /\ n.rules[c] = IF op = "-A" THEN Append(k.rules[c], r) ELSE <<r>> \o k.rules[c]
    BY <1>5, <1>6
  <1> QED
    BY <1>2, <1>6, <1>7 DEF Gains, n

(* What its chains say.                                                    *)
Resounds(k, n, op, c, r, p, E) ==
    /\ \A d \in Exists(k) : d # c => InChain(n, d, p, E) = InChain(k, d, p, E)
    /\ op = "-A" => InChain(n, c, p, E) = Then(InChain(k, c, p, E), ByTarget(r, p, E))
    /\ op = "-I" => InChain(n, c, p, E) = Then(ByTarget(r, p, E), InChain(k, c, p, E))

LEMMA GainsSay ==
    ASSUME NEW k, IsKernel(k), NEW n, NEW op \in {"-A", "-I"}, NEW c \in Exists(k), NEW r,
           Gains(k, n, op, c, r), NEW p, NEW E
    PROVE  Resounds(k, n, op, c, r, p, E)
  <1> DEFINE v == [i \in 1..Len(k.rules[c]) |-> ByTarget(k.rules[c][i], p, E)]
             w == [i \in 1..Len(n.rules[c]) |-> ByTarget(n.rules[c][i], p, E)]
             l == Len(k.rules[c])
  <1>1. \A d \in Exists(k) : d # c => InChain(n, d, p, E) = InChain(k, d, p, E)
    BY DEF Gains, InChain
  <1>2. k.rules[c] \in Seq(Rule) /\ l \in Nat
    BY LenProperties DEF IsKernel
  <1>3. DOMAIN v = 1..l /\ \A i \in 1..l : v[i] = ByTarget(k.rules[c][i], p, E)
    OBVIOUS
  <1>4. ASSUME op = "-A"
        PROVE  First(w) = Then(First(v), ByTarget(r, p, E))
    <2>1. n.rules[c] = Append(k.rules[c], r)
      BY <1>4 DEF Gains
    <2>2. Len(n.rules[c]) = l + 1 /\ n.rules[c][l + 1] = r /\ \A i \in 1..l : n.rules[c][i] = k.rules[c][i]
      <3>1. k.rules[c] \in Seq(Rule \union {r}) /\ r \in Rule \union {r}
        BY <1>2
      <3> QED
        BY <2>1, <3>1, AppendProperties
    <2>3. DOMAIN w = 1..(l + 1) /\ w[l + 1] = ByTarget(r, p, E) /\ \A i \in 1..l : w[i] = v[i]
      <3>1. DOMAIN w = 1..(l + 1) /\ l + 1 \in 1..(l + 1) /\ \A i \in 1..l : i \in 1..(l + 1)
        BY <1>2, <2>2
      <3>2. \A i \in 1..(l + 1) : w[i] = ByTarget(n.rules[c][i], p, E)
        BY <2>2
      <3> HIDE DEF v, w, l
      <3> QED
        BY <1>3, <2>2, <3>1, <3>2
    <2> HIDE DEF v, w, l
    <2>4. First(w) = Then(First(v), w[l + 1])
      BY <1>2, <1>3, <2>3, FirstAppended
    <2> QED
      BY <2>3, <2>4
  <1>5. ASSUME op = "-I"
        PROVE  First(w) = Then(ByTarget(r, p, E), First(v))
    <2>1. n.rules[c] = <<r>> \o k.rules[c]
      BY <1>5 DEF Gains
    <2>2. Len(n.rules[c]) = l + 1 /\ n.rules[c][1] = r /\ \A i \in 1..l : n.rules[c][i + 1] = k.rules[c][i]
      BY <1>2, <2>1
    <2>3. DOMAIN w = 1..(l + 1) /\ w[1] = ByTarget(r, p, E) /\ \A i \in 1..l : w[i + 1] = v[i]
      <3>1. DOMAIN w = 1..(l + 1) /\ 1 \in 1..(l + 1) /\ \A i \in 1..l : i + 1 \in 1..(l + 1)
        BY <1>2, <2>2
      <3>2. \A i \in 1..(l + 1) : w[i] = ByTarget(n.rules[c][i], p, E)
        BY <2>2
      <3> HIDE DEF v, w, l
      <3> QED
        BY <1>3, <2>2, <3>1, <3>2
    <2> HIDE DEF v, w, l
    <2>4. First(w) = Then(w[1], First(v))
      BY <1>2, <1>3, <2>3, FirstInserted
    <2> QED
      BY <2>3, <2>4
  <1> QED
    BY <1>1, <1>4, <1>5 DEF InChain, Resounds

(* Where they lead.                                                        *)
LEMMA GainsLead ==
    ASSUME NEW k, IsKernel(k), NEW n, NEW op \in {"-A", "-I"}, NEW c \in Exists(k), NEW r,
           Gains(k, n, op, c, r), NEW d \in Exists(k), NEW i \in 1..Len(n.rules[d])
    PROVE  \/ d = c /\ n.rules[d][i] = r
           \/ \E j \in 1..Len(k.rules[d]) : n.rules[d][i] = k.rules[d][j]
  <1>1. CASE d # c
    BY <1>1 DEF Gains
  <1>2. CASE d = c
    <2> DEFINE S == Rule \union {r}
    <2>1. k.rules[c] \in Seq(S) /\ r \in S
      BY DEF IsKernel
    <2>2. n.rules[c] = Append(k.rules[c], r) \/ n.rules[c] = <<r>> \o k.rules[c]
      BY DEF Gains
    <2> DEFINE x == k.rules[c]
               y == n.rules[c]
    <2>3. x \in Seq(S) /\ (y = Append(x, r) \/ y = <<r>> \o x) /\ i \in 1..Len(y)
      BY <1>2, <2>1, <2>2
    <2> HIDE DEF S, x, y
    <2>4. y[i] = r \/ \E j \in 1..Len(x) : y[i] = x[j]
      BY <2>1, <2>3, OneMore
    <2> QED
      BY <1>2, <2>4 DEF x, y
  <1> QED
    BY <1>1, <1>2

(* The chains go from s to t.                                              *)
Follows(final, calls, s, t, k, n) ==
    \A p \in Heeded(calls) : \A E : Ideal(final, calls, p, E) =>
        \A c \in Exists(k) :
            /\ Concerned(calls, c, p)
            /\ Meets(final, calls, s[c.base], c, p, E[Base("FORW_OUT")], InChain(k, c, p, E))
            => Meets(final, calls, t[c.base], c, p, E[Base("FORW_OUT")], InChain(n, c, p, E))

LEMMA GoesFurther ==
    ASSUME NEW calls, NEW s, NEW t, NEW c, s[c.base] \in Int, t[c.base] \in Int,
           s[c.base] <= t[c.base], calls \in Seq(Call), NEW jump, GoesTo(calls, s, c, jump)
    PROVE  GoesTo(calls, t, c, jump)
  <1>1. \A m \in RuleCalls(calls) : m \in Int
    BY LenProperties DEF RuleCalls
  <1> QED
    BY <1>1 DEF GoesTo

LEMMA ShapedMore ==
    ASSUME NEW calls, NEW rank, Course(calls, rank), NEW final, NEW s, NEW k,
           Shaped(final, calls, s, k), NEW t \in [GroupBase -> 0..Len(calls)],
           \A b \in GroupBase : s[b] <= t[b],
           NEW op \in {"-A", "-I"}, NEW c \in Exists(k), c # Base("INVALID"), NEW r, NEW n,
           Gains(k, n, op, c, r), Follows(final, calls, s, t, k, n),
           c.base \in GroupBase => GoesTo(calls, t, c, r.jump)
    PROVE  Shaped(final, calls, t, n)
  <1>1. /\ s \in [GroupBase -> 0..Len(calls)] /\ IsKernel(k) /\ Told(final, calls, s, k)
        /\ Led(calls, s, k) /\ \A b \in Builtin : k.policy[b] = "DROP"
        /\ {Base("FORW_OUT"), Base("INVALID")} \subseteq Exists(k)
        /\ k.rules[Base("INVALID")] = << [tests |-> {}, jump |-> Base("DROP")] >>
    BY DEF Shaped
  <1>2. IsKernel(n) /\ Exists(n) = Exists(k) /\ n.policy = k.policy
        /\ n.rules[Base("INVALID")] = << [tests |-> {}, jump |-> Base("DROP")] >>
    BY <1>1 DEF Gains
  <1>3. Told(final, calls, t, n)
    BY <1>1, <1>2 DEF Told, Follows
  <1>4. Led(calls, t, n)
    <2> SUFFICES ASSUME NEW d \in Exists(k), d.base \in GroupBase, NEW i \in 1..Len(n.rules[d])
                 PROVE  GoesTo(calls, t, d, n.rules[d][i].jump)
      BY <1>2 DEF Led
    <2>1. CASE d = c /\ n.rules[d][i] = r
      BY <2>1
    <2>2. CASE \E j \in 1..Len(k.rules[d]) : n.rules[d][i] = k.rules[d][j]
      <3>1. PICK j \in 1..Len(k.rules[d]) : n.rules[d][i] = k.rules[d][j]
        BY <2>2
      <3>2. GoesTo(calls, s, d, k.rules[d][j].jump)
        BY <1>1 DEF Led
      <3>3. s[d.base] \in Int /\ t[d.base] \in Int /\ s[d.base] <= t[d.base] /\ calls \in Seq(Call)
        BY <1>1 DEF Course
      <3>4. GoesTo(calls, t, d, k.rules[d][j].jump)
        BY <3>2, <3>3, GoesFurther
      <3> QED
        BY <3>1, <3>4
    <2>3. \/ d = c /\ n.rules[d][i] = r
          \/ \E j \in 1..Len(k.rules[d]) : n.rules[d][i] = k.rules[d][j]
      <3>1. IsKernel(k)
        BY <1>1
      <3> QED
        BY <3>1, GainsLead
    <2> QED
      BY <2>1, <2>2, <2>3
  <1> QED
    BY <1>1, <1>2, <1>3, <1>4 DEF Shaped

(* A log, or a rule of the nat table, decides nothing.                     *)
LEMMA ShapedAlters ==
    ASSUME NEW calls, NEW rank, Course(calls, rank), NEW final, NEW s, NEW k,
           Shaped(final, calls, s, k), NEW c \in Exists(k), c # Base("INVALID"),
           NEW r, r.jump.base \in Alteration, NEW n, Gains(k, n, "-A", c, r)
    PROVE  Shaped(final, calls, s, n)
  <1> DEFINE op == "-A"
  <1>1. s \in [GroupBase -> 0..Len(calls)] /\ IsKernel(k)
    BY DEF Shaped
  <1>2. \A b \in GroupBase : s[b] <= s[b]
    BY <1>1
  <1>3. op \in {"-A", "-I"} /\ Gains(k, n, op, c, r)
    OBVIOUS
  <1> HIDE DEF op
  <1>4. ASSUME NEW d \in Exists(k), NEW p, NEW E
        PROVE  InChain(n, d, p, E) = InChain(k, d, p, E)
    <2>1. ByTarget(r, p, E) = "RETURN"
      BY DEF ByTarget
    <2>2. Resounds(k, n, op, c, r, p, E)
      BY <1>1, <1>3, GainsSay
    <2> QED
      BY <2>1, <2>2 DEF Then, Resounds, op
  <1>5. Follows(final, calls, s, s, k, n)
    BY <1>4 DEF Follows
  <1>6. GoesTo(calls, s, c, r.jump)
    BY DEF GoesTo
  <1> QED
    BY <1>1, <1>2, <1>5, <1>6, <1>3, ShapedMore

(* What a rule has in the chains with base b: one text, or none.           *)
OneUp(s, b) == [s EXCEPT ![b] = @ + 1]

LEMMA ShapedText ==
    ASSUME NEW calls, NEW rank, Course(calls, rank), NEW final \in BOOLEAN, NEW s, NEW k,
           Shaped(final, calls, s, k), NEW b \in GroupBase, NEW m \in RuleCalls(calls),
           m = s[b] + 1, Sensible(calls[m].ent), SubChain(calls[m].ent, b) \in Exists(k),
           NEW op \in {"-A", "-I"}, NEW r, NEW n, Gains(k, n, op, SubChain(calls[m].ent, b), r),
           \/ op = "-A" /\ MainIn(calls[m].ent, b) /\ r = Main(final, calls[m].ent, b)
           \/ op = "-I" /\ BackIn(calls[m].ent, b) /\ r = Back(calls[m].ent, b)
    PROVE  Shaped(final, calls, OneUp(s, b), n)
  <1> DEFINE e == calls[m].ent
             c == SubChain(e, b)
             t == OneUp(s, b)
             out == Base("FORW_OUT")
  <1>0. Gains(k, n, op, c, r)
    OBVIOUS
  <1>1. /\ s \in [GroupBase -> 0..Len(calls)] /\ IsKernel(k) /\ Exists(k) \subseteq Chain
        /\ calls \in Seq(Call)
    BY DEF Shaped, Course, IsKernel
  <1>2. m \in 1..Len(calls) /\ Len(calls) \in Nat /\ s[b] = m - 1 /\ m \in 0..Len(calls)
    BY <1>1, LenProperties DEF RuleCalls
  <1>3. /\ t \in [GroupBase -> 0..Len(calls)] /\ t[b] = m
        /\ \A d \in GroupBase : d # b => t[d] = s[d]
    BY <1>1, <1>2 DEF OneUp
  <1>4. \A d \in GroupBase : s[d] <= t[d]
    BY <1>1, <1>2, <1>3
  <1>5. c.group = e.group /\ c.base = b /\ c \in Exists(k) /\ c \in Chain /\ c # Base("INVALID")
    BY <1>1 DEF SubChain, Base, GroupBase
  <1> HIDE DEF t, c, e
  <1>6. GoesTo(calls, t, c, r.jump)
    <2>1. \/ r.jump.base \in Verdict
          \/ (b = "FORWARD" /\ r.jump = out)
          \/ (Jumps(e) /\ r.jump = InGroup(e, b))
      <3>1. Base("ACCEPT").base \in Verdict /\ (Denies(e) => Denial(e).base \in Verdict)
        BY DEF Base, Verdict, Denial, Denies
      <3>2. ASSUME MainIn(e, b)
            PROVE  \/ MainTarget(final, e, b).base \in Verdict
                   \/ (b = "FORWARD" /\ MainTarget(final, e, b) = out)
                   \/ (Jumps(e) /\ MainTarget(final, e, b) = InGroup(e, b))
        BY <3>1, <3>2, TargetIs DEF e
      <3>3. ASSUME BackIn(e, b)
            PROVE  \/ BackTarget(e, b).base \in Verdict
                   \/ (b = "FORWARD" /\ BackTarget(e, b) = out)
                   \/ (Jumps(e) /\ BackTarget(e, b) = InGroup(e, b))
        BY <3>1, <3>3, TargetIs DEF e
      <3> QED
        BY <3>2, <3>3 DEF Main, Back, e
    <2>2. CASE Jumps(e) /\ r.jump = InGroup(e, b)
      <3>1. m <= t[c.base]
        BY <1>2, <1>3, <1>5
      <3> QED
        BY <1>5, <2>2, <3>1 DEF GoesTo, e
    <2> QED
      BY <1>5, <2>1, <2>2 DEF GoesTo
  <1>7. Follows(final, calls, s, t, k, n)
    <2> SUFFICES ASSUME NEW p \in Heeded(calls), NEW E, Ideal(final, calls, p, E),
                        NEW d \in Exists(k), Concerned(calls, d, p),
                        Meets(final, calls, s[d.base], d, p, E[out], InChain(k, d, p, E))
                 PROVE  Meets(final, calls, t[d.base], d, p, E[out], InChain(n, d, p, E))
      BY DEF Follows
    <2>1. d \in Chain /\ d.base \in GroupBase
      BY <1>1 DEF Concerned
    <2>2. /\ d # c => InChain(n, d, p, E) = InChain(k, d, p, E)
          /\ op = "-A" => InChain(n, c, p, E) = Then(InChain(k, c, p, E), ByTarget(r, p, E))
          /\ op = "-I" => InChain(n, c, p, E) = Then(ByTarget(r, p, E), InChain(k, c, p, E))
      <3>1. IsKernel(k) /\ c \in Exists(k)
        BY <1>1, <1>5
      <3>2. Resounds(k, n, op, c, r, p, E)
        BY <1>0, <3>1, GainsSay
      <3> QED
        BY <3>2 DEF Resounds
    <2>3. CASE d.base # b
      <3>1. d # c
        BY <1>5, <2>3
      <3> QED
        BY <1>3, <2>1, <2>2, <2>3, <3>1
    <2>4. CASE d.base = b /\ d # c
      <3>1. d.group # e.group
        BY <1>5, <2>1, <2>4 DEF Chain
      <3>2. Meets(final, calls, m - 1, d, p, E[out], InChain(k, d, p, E))
        BY <1>2, <2>4
      <3>3. Meets(final, calls, m, d, p, E[out], InChain(k, d, p, E))
        BY <1>2, <2>1, <3>1, <3>2, MeetsOther DEF e, Heeded
      <3> QED
        BY <1>3, <2>2, <2>4, <3>3
    <2>5. CASE d = c
      <3>1. Meets(final, calls, m - 1, c, p, E[out], InChain(k, c, p, E))
        BY <1>2, <1>5, <2>5
      <3>2. /\ MainIn(e, b) =>
                Meets(final, calls, m, c, p, E[out],
                      Then(InChain(k, c, p, E), ByTarget(Main(final, e, b), p, E)))
            /\ BackIn(e, b) =>
                Meets(final, calls, m, c, p, E[out],
                      Then(ByTarget(Back(e, b), p, E), InChain(k, c, p, E)))
        BY <1>5, <2>5, <3>1, MeetsRule DEF e
      <3>3. Meets(final, calls, m, c, p, E[out], InChain(n, c, p, E))
        BY <2>2, <3>2 DEF e
      <3> QED
        BY <1>3, <1>5, <2>5, <3>3
    <2> QED
      BY <2>3, <2>4, <2>5
  <1>8. Shaped(final, calls, t, n)
    BY <1>0, <1>3, <1>4, <1>5, <1>6, <1>7, ShapedMore
  <1> QED
    BY <1>8 DEF t

(* The chains with base b have no text of a call.                          *)
LEMMA ShapedSkip ==
    ASSUME NEW calls, NEW rank, Course(calls, rank), NEW final \in BOOLEAN, NEW s, NEW k,
           Shaped(final, calls, s, k), NEW b \in GroupBase, NEW m \in 1..Len(calls), m = s[b] + 1,
           m \in RuleCalls(calls) =>
                Sensible(calls[m].ent) /\ ~MainIn(calls[m].ent, b) /\ ~BackIn(calls[m].ent, b)
    PROVE  Shaped(final, calls, OneUp(s, b), k)
  <1> DEFINE t == OneUp(s, b)
             out == Base("FORW_OUT")
  <1>1. /\ s \in [GroupBase -> 0..Len(calls)] /\ IsKernel(k) /\ Exists(k) \subseteq Chain
        /\ calls \in Seq(Call) /\ Told(final, calls, s, k) /\ Led(calls, s, k)
    BY DEF Shaped, Course, IsKernel
  <1>2. Len(calls) \in Nat /\ s[b] = m - 1 /\ m \in 0..Len(calls)
    BY <1>1, LenProperties
  <1>3. /\ t \in [GroupBase -> 0..Len(calls)] /\ t[b] = m
        /\ \A d \in GroupBase : d # b => t[d] = s[d]
    BY <1>1, <1>2 DEF OneUp
  <1>4. \A d \in GroupBase : s[d] \in Int /\ t[d] \in Int /\ s[d] <= t[d]
    BY <1>1, <1>2, <1>3
  <1> HIDE DEF t
  <1>5. Told(final, calls, t, k)
    <2> SUFFICES ASSUME NEW p \in Heeded(calls), NEW E, Ideal(final, calls, p, E),
                        NEW d \in Exists(k), Concerned(calls, d, p)
                 PROVE  Meets(final, calls, t[d.base], d, p, E[out], InChain(k, d, p, E))
      BY DEF Told
    <2>1. d \in Chain /\ d.base \in GroupBase
      BY <1>1 DEF Concerned
    <2>2. Meets(final, calls, s[d.base], d, p, E[out], InChain(k, d, p, E))
      BY <1>1 DEF Told
    <2>3. CASE d.base # b
      BY <1>3, <2>1, <2>2, <2>3
    <2>4. CASE d.base = b
      <3>1. Meets(final, calls, m - 1, d, p, E[out], InChain(k, d, p, E))
        BY <1>2, <2>2, <2>4
      <3>2. CASE m \notin RuleCalls(calls) \/ calls[m].ent.group # d.group
        BY <1>3, <2>1, <2>4, <3>1, <3>2, MeetsOther DEF Heeded
      <3>3. CASE m \in RuleCalls(calls) /\ calls[m].ent.group = d.group
        <4>1. Meets(final, calls, m, d, p, E[out], InChain(k, d, p, E))
          BY <2>1, <2>4, <3>1, <3>3, MeetsRule
        <4> QED
          BY <1>3, <2>4, <4>1
      <3> QED
        BY <3>2, <3>3
    <2> QED
      BY <2>3, <2>4
  <1>6. Led(calls, t, k)
    <2> SUFFICES ASSUME NEW d \in Exists(k), d.base \in GroupBase, NEW i \in 1..Len(k.rules[d])
                 PROVE  GoesTo(calls, t, d, k.rules[d][i].jump)
      BY DEF Led
    <2>1. GoesTo(calls, s, d, k.rules[d][i].jump)
      BY <1>1 DEF Led
    <2>2. s[d.base] \in Int /\ t[d.base] \in Int /\ s[d.base] <= t[d.base]
      BY <1>4
    <2> QED
      BY <1>1, <2>1, <2>2, GoesFurther
  <1> QED
    BY <1>3, <1>5, <1>6 DEF Shaped, t

(* A group that has not been announced before says nothing.                *)
LEMMA SaidNothing ==
    ASSUME NEW calls, NEW rank, Course(calls, rank), NEW m \in 1..Len(calls), calls[m].k = "group",
           calls[m].group \notin Announced(calls, m - 1), NEW dir, NEW p
    PROVE  SideAt(calls, m, calls[m].group, dir, p) = "RETURN"
  <1> DEFINE g == calls[m].group
  <1>1. calls \in Seq(Call) /\ Grouped(calls)
    BY DEF Course, Regular
  <1>2. g \in Group /\ g # NULL /\ m \in 0..Len(calls) /\ m \in Nat /\ Len(calls) \in Nat
    <2>1. calls[m] \in Call /\ Len(calls) \in Nat
      BY <1>1, LenProperties
    <2> QED
      BY <1>1, <2>1 DEF Grouped, Call
  <1>3. ASSUME NEW i \in 1..m, calls[i].k # "group"
        PROVE  calls[i].ent.group # g
    <2>1. i < m /\ i \in 1..Len(calls)
      BY <1>2, <1>3
    <2>2. GroupsOf(calls[i].ent) \subseteq Announced(calls, i)
      BY <1>1, <1>3, <2>1 DEF Grouped
    <2>3. Announced(calls, i) \subseteq Announced(calls, m - 1)
      BY <1>2, <2>1 DEF Announced
    <2> QED
      BY <1>2, <2>2, <2>3 DEF GroupsOf
  <1>4. ASSUME NEW voice
        PROVE  Heard(voice, calls, dir, p)[m][g] = "RETURN"
    <2>1. ASSUME NEW i \in 1..m, NEW sub
          PROVE  Adds(voice, calls, i, g, dir, p, sub) = "RETURN"
      BY <1>3 DEF Adds
    <2> HIDE DEF g
    <2> QED
      BY <1>1, <1>2, <2>1, HeardNothing
  <1> QED
    BY <1>4 DEF SideAt, Then

(* A chain for a group that is announced.                                  *)
LEMMA ShapedNew ==
    ASSUME NEW calls, NEW rank, Course(calls, rank), NEW final \in BOOLEAN, NEW s, NEW k,
           Shaped(final, calls, s, k), NEW m \in 1..Len(calls), \A b \in GroupBase : s[b] = m,
           calls[m].k = "group", NEW c \in ChainsOf(calls[m].group), c \notin Exists(k),
           Built(calls, m - 1) \subseteq Exists(k), NewChain(c) \in Line
    PROVE  Shaped(final, calls, s, After(k, NewChain(c)))
  <1> DEFINE cmd == NewChain(c)
             n == After(k, cmd)
             out == Base("FORW_OUT")
  <1>1. /\ IsKernel(k) /\ Told(final, calls, s, k) /\ Led(calls, s, k)
    BY DEF Shaped
  <1>2. cmd.op = "-N" /\ cmd.chain = c
    BY DEF NewChain
  <1>3. n = [k EXCEPT !.rules = [d \in Exists(k) \union {c} |-> IF d = c THEN <<>> ELSE k.rules[d]]]
    BY <1>2 DEF After, Accepted, Obeyed
  <1>4. IsKernel(n)
    BY <1>1, AfterIsKernel
  <1>5. /\ n.policy = k.policy /\ Exists(n) = Exists(k) \union {c} /\ n.rules[c] = <<>>
        /\ \A d \in Exists(k) : n.rules[d] = k.rules[d]
    <2> DEFINE S == Exists(k) \union {c}
               R == [d \in S |-> IF d = c THEN <<>> ELSE k.rules[d]]
    <2>1. k = [policy |-> k.policy, rules |-> k.rules]
      BY <1>1 DEF IsKernel
    <2>2. n = [k EXCEPT !.rules = R]
      BY <1>3
    <2>3. DOMAIN R = S /\ R[c] = <<>> /\ \A d \in Exists(k) : R[d] = k.rules[d]
      OBVIOUS
    <2> HIDE DEF R, n
    <2>4. n.policy = k.policy /\ n.rules = R
      BY <2>1, <2>2
    <2> QED
      BY <2>3, <2>4 DEF Exists
  <1>6. c.group = calls[m].group /\ c.base \in GroupBase
    BY DEF ChainsOf
  <1>7. calls[m].group # NULL /\ calls[m].group \notin Announced(calls, m - 1)
    <2>1. calls[m].group # NULL
      BY DEF Course, Regular, Grouped
    <2> QED
      BY <2>1 DEF Built
  <1> HIDE DEF n, cmd
  <1>8. ASSUME NEW p, NEW E
        PROVE  /\ \A d \in Exists(k) : InChain(n, d, p, E) = InChain(k, d, p, E)
               /\ InChain(n, c, p, E) = "RETURN"
    <2>1. \A d \in Exists(k) : InChain(n, d, p, E) = InChain(k, d, p, E)
      BY <1>5 DEF InChain
    <2>2. DOMAIN [i \in 1..Len(n.rules[c]) |-> ByTarget(n.rules[c][i], p, E)] = 1..0
      BY <1>5
    <2>3. First([i \in 1..Len(n.rules[c]) |-> ByTarget(n.rules[c][i], p, E)]) = "RETURN"
      BY <2>2, FirstOfNone
    <2> QED
      BY <2>1, <2>3 DEF InChain
  <1>9. Told(final, calls, s, n)
    <2> SUFFICES ASSUME NEW p \in Heeded(calls), NEW E, Ideal(final, calls, p, E),
                        NEW d \in Exists(n), Concerned(calls, d, p)
                 PROVE  Meets(final, calls, s[d.base], d, p, E[out], InChain(n, d, p, E))
      BY DEF Told
    <2>1. CASE d \in Exists(k)
      BY <1>1, <1>8, <2>1 DEF Told
    <2>2. CASE d = c
      <3>1. SideAt(calls, m, calls[m].group, Way(c.base), p) = "RETURN"
        BY <1>7, SaidNothing
      <3>2. InChain(n, c, p, E) = "RETURN"
        BY <1>8
      <3>3. Meets(final, calls, m, c, p, E[out], "RETURN")
        BY <1>6, <1>7, <3>1 DEF Meets, Renders, Passed
      <3> QED
        BY <1>6, <2>2, <3>2, <3>3
    <2> QED
      BY <1>5, <2>1, <2>2
  <1>10. Led(calls, s, n)
    BY <1>1, <1>5 DEF Led
  <1> QED
    BY <1>4, <1>5, <1>9, <1>10 DEF Shaped, n, cmd, Base, ChainsOf, GroupBase

-----------------------------------------------------------------------------
(***************************************************************************)
(* What a call prints                                                      *)
(***************************************************************************)
Having(final, calls, s, C) ==
    { k \in Kernel : Shaped(final, calls, s, k) /\ FilterChains(k) = C }

Telling(final, calls) == { k \in Kernel : \E s : Shaped(final, calls, s, k) }

LEMMA HavingIs ==
    ASSUME NEW final, NEW calls, NEW s, NEW C, NEW k
    PROVE  /\ Shaped(final, calls, s, k) => k \in Telling(final, calls)
           /\ Shaped(final, calls, s, k) /\ FilterChains(k) = C => k \in Having(final, calls, s, C)
           /\ k \in Having(final, calls, s, C) =>
                IsKernel(k) /\ Shaped(final, calls, s, k) /\ FilterChains(k) = C
  <1>1. Shaped(final, calls, s, k) => k \in Kernel
    BY KernelSet DEF Shaped
  <1> QED
    BY <1>1 DEF Having, Telling, Kernel

(* A rule whose chain and target are there.                                *)
LEMMA PlacedPut ==
    ASSUME NEW k, IsKernel(k), NEW C, FilterChains(k) = C, NEW op \in {"-A", "-I"}, NEW c \in Chain,
           NEW r \in Rule, NEW cmd, cmd = [op |-> op, chain |-> c, rule |-> r],
           Leads(C, <<cmd>>, C, {})
    PROVE  /\ c \in Exists(k)
           /\ Gains(k, After(k, cmd), op, c, r)
           /\ FilterChains(After(k, cmd)) = C
  <1>1. cmd \in Line
    BY DEF Line, Command
  <1>2. AllAccepted(k, <<cmd>>, {}) /\ FilterChains(Effect(k, <<cmd>>)) = C
    BY DEF Leads
  <1>3. Accepted(k, cmd) /\ FilterChains(After(k, cmd)) = C
    <2> DEFINE X == {}
    <2>1. /\ Effect(k, <<cmd>>) = After(k, cmd)
          /\ AllAccepted(k, <<cmd>>, X) <=> cmd \in X \/ Accepted(k, cmd)
      BY <1>1, OneLine
    <2> QED
      BY <1>2, <2>1
  <1>4. c \in Exists(k) /\ JumpOK(k, c, r.jump)
    BY <1>3 DEF Accepted
  <1>5. Gains(k, After(k, cmd), op, c, r)
    BY <1>1, <1>4, PutGains
  <1> QED
    BY <1>3, <1>4, <1>5

(* A text of the rule, if it has one for the chains with base b.           *)
LEMMA TextThrough ==
    ASSUME NEW calls, NEW rank, Course(calls, rank), NEW final \in BOOLEAN,
           NEW m \in RuleCalls(calls), NEW e, e = calls[m].ent,
           NEW f \in Family, ~Refused(e, f), NEW C, Placed(e, C),
           NEW s, NEW b \in GroupBase, m = s[b] + 1
    PROVE  /\ e.dir = Way(b) =>
                Through(Having(final, calls, s, C),
                        If(ForThis(e, b), Put("-A", SubChain(e, b), RuleTests(e), MainTarget(final, e, b))),
                        Having(final, calls, OneUp(s, b), C), Telling(final, calls))
           /\ e.dir # Way(b) =>
                Through(Having(final, calls, s, C),
                        If(NeedsReturn(e) /\ ForThis(e, b),
                           Put("-I", SubChain(e, b), ReturnTests(e), BackTarget(e, b))),
                        Having(final, calls, OneUp(s, b), C), Telling(final, calls))
  <1> DEFINE A == Having(final, calls, s, C)
             B == Having(final, calls, OneUp(s, b), C)
             I == Telling(final, calls)
             c == SubChain(e, b)
  <1>1. m \in 1..Len(calls) /\ e \in Ent
    <2>1. calls \in Seq(Call) /\ m \in 1..Len(calls)
      BY DEF Course, RuleCalls
    <2> QED
      BY <2>1, RuleCallIs
  <1>2. Sensible(e)
    BY <1>1 DEF Sensible, Refused
  <1>3. \A k \in A : IsKernel(k) /\ Shaped(final, calls, s, k) /\ FilterChains(k) = C /\ k \in I
    BY HavingIs
  <1>4. ASSUME NEW k, Shaped(final, calls, OneUp(s, b), k), FilterChains(k) = C
        PROVE  k \in B /\ k \in I
    BY <1>4, HavingIs
  <1>5. c \in Chain /\ c.base = b
    BY <1>1, RuleParts
  <1>6. ASSUME ~MainIn(e, b), ~BackIn(e, b)
        PROVE  \A k \in A : IsKernel(k) /\ k \in B /\ k \in I
    BY <1>1, <1>2, <1>3, <1>4, <1>6, ShapedSkip
  <1>7. ASSUME NEW op \in {"-A", "-I"}, NEW tests \in SUBSET Test, NEW jump, Aims(e, jump),
               \/ op = "-A" /\ MainIn(e, b) /\ [tests |-> tests, jump |-> jump] = Main(final, e, b)
               \/ op = "-I" /\ BackIn(e, b) /\ [tests |-> tests, jump |-> jump] = Back(e, b)
        PROVE  Through(A, Put(op, c, tests, jump), B, I)
    <2> DEFINE r == [tests |-> tests, jump |-> jump]
               cmd == [op |-> op, chain |-> c, rule |-> r]
    <2>1. Put(op, c, tests, jump) = <<cmd>>
      BY DEF Put
    <2>2. r \in Rule
      BY <1>7 DEF Rule, Aims
    <2>3. cmd \in Line
      BY <1>5, <2>2 DEF Line, Command
    <2>4. Leads(C, Put(op, c, tests, jump), C, {})
      BY <1>1, <1>7, LeadsPlaced
    <2>5. Leads(C, <<cmd>>, C, {})
      BY <2>1, <2>4
    <2>6. \/ op = "-A" /\ MainIn(e, b) /\ r = Main(final, e, b)
          \/ op = "-I" /\ BackIn(e, b) /\ r = Back(e, b)
      BY <1>7
    <2>7. cmd = [op |-> op, chain |-> c, rule |-> r]
      OBVIOUS
    <2> HIDE DEF r, cmd, A, B, I
    <2>8. ASSUME NEW k \in A
          PROVE  IsKernel(k) /\ k \in I /\ After(k, cmd) \in B /\ After(k, cmd) \in I
      <3>1. IsKernel(k) /\ Shaped(final, calls, s, k) /\ FilterChains(k) = C /\ k \in I
        BY <1>3
      <3>2. /\ c \in Exists(k)
            /\ Gains(k, After(k, cmd), op, c, r)
            /\ FilterChains(After(k, cmd)) = C
        <4> HIDE DEF c
        <4> QED
          BY <1>5, <2>2, <2>5, <2>7, <3>1, PlacedPut
      <3>3. Shaped(final, calls, OneUp(s, b), After(k, cmd))
        BY <1>2, <2>6, <3>1, <3>2, ShapedText
      <3> QED
        BY <1>4, <3>1, <3>2, <3>3
    <2>9. Through(A, <<cmd>>, B, I)
      BY <2>3, <2>8, ThroughOne
    <2> QED
      BY <2>1, <2>9
  <1>8. RuleTests(e) \in SUBSET Test /\ ReturnTests(e) \in SUBSET Test
    BY <1>1, RuleParts
  <1>9. Aims(e, MainTarget(final, e, b)) /\ Aims(e, BackTarget(e, b))
    <2>1. /\ Aims(e, RuleTarget(e)) /\ Aims(e, ReturnTarget(e))
          /\ Aims(e, ForwardTarget(e)) /\ Aims(e, ForwardReturnTarget(e))
          /\ Denies(e) => Aims(e, Denial(e))
      BY <1>1, RuleParts
    <2> QED
      BY <2>1 DEF MainTarget, BackTarget
  <1> HIDE DEF A, B, I, c
  <1>10. ASSUME e.dir = Way(b)
         PROVE  Through(A, If(ForThis(e, b), Put("-A", c, RuleTests(e), MainTarget(final, e, b))), B, I)
    <2>1. ForThis(e, b) => Through(A, Put("-A", c, RuleTests(e), MainTarget(final, e, b)), B, I)
      BY <1>7, <1>8, <1>9, <1>10 DEF MainIn, Main
    <2>2. ~ForThis(e, b) => \A k \in A : IsKernel(k) /\ k \in B /\ k \in I
      BY <1>6, <1>10 DEF MainIn, BackIn
    <2> QED
      BY <2>1, <2>2, ThroughIf
  <1>11. ASSUME e.dir # Way(b)
         PROVE  Through(A, If(NeedsReturn(e) /\ ForThis(e, b),
                              Put("-I", c, ReturnTests(e), BackTarget(e, b))), B, I)
    <2>1. NeedsReturn(e) /\ ForThis(e, b) => Through(A, Put("-I", c, ReturnTests(e), BackTarget(e, b)), B, I)
      BY <1>7, <1>8, <1>9, <1>11 DEF BackIn, Back
    <2>2. ~(NeedsReturn(e) /\ ForThis(e, b)) => \A k \in A : IsKernel(k) /\ k \in B /\ k \in I
      BY <1>6, <1>11 DEF MainIn, BackIn
    <2> QED
      BY <2>1, <2>2, ThroughIf
  <1> QED
    BY <1>10, <1>11 DEF A, B, I, c


(* A log, or a rule of the nat table: where there is no such chain, it is  *)
(* refused.                                                                *)
LEMMA AltersThrough ==
    ASSUME NEW calls, NEW rank, Course(calls, rank), NEW final \in BOOLEAN, NEW s, NEW C,
           NEW c \in Chain, c # Base("INVALID"), NEW tests \in SUBSET Test,
           NEW jump \in Jump, jump.base \in Alteration
    PROVE  Through(Having(final, calls, s, C), Put("-A", c, tests, jump),
                   Having(final, calls, s, C), Telling(final, calls))
  <1> DEFINE A == Having(final, calls, s, C)
             I == Telling(final, calls)
             op == "-A"
             r == [tests |-> tests, jump |-> jump]
             cmd == [op |-> op, chain |-> c, rule |-> r]
  <1>1. Put("-A", c, tests, jump) = <<cmd>>
    BY DEF Put
  <1>2. r \in Rule /\ r.jump.base \in Alteration
    BY DEF Rule
  <1>3. cmd \in Line /\ cmd.op = op /\ op \in {"-A", "-I"} /\ op = "-A"
    BY <1>2 DEF Line, Command
  <1>4. cmd = [op |-> op, chain |-> c, rule |-> r]
    OBVIOUS
  <1> HIDE DEF A, I, op, r, cmd
  <1>5. ASSUME NEW k \in A
        PROVE  IsKernel(k) /\ k \in I /\ After(k, cmd) \in A /\ After(k, cmd) \in I
    <2>1. IsKernel(k) /\ Shaped(final, calls, s, k) /\ FilterChains(k) = C /\ k \in I
      BY HavingIs DEF A, I
    <2>2. Exists(After(k, cmd)) = Exists(k)
      BY <1>3, <2>1, ChainsAfter
    <2>3. FilterChains(After(k, cmd)) = C
      BY <2>1, <2>2 DEF FilterChains
    <2>4. Shaped(final, calls, s, After(k, cmd))
      <3>1. CASE c \in Exists(k)
        <4>1. JumpOK(k, c, r.jump)
          BY <1>2 DEF JumpOK
        <4>2. Gains(k, After(k, cmd), op, c, r)
          BY <1>2, <1>3, <1>4, <2>1, <3>1, <4>1, PutGains
        <4>3. Gains(k, After(k, cmd), "-A", c, r)
          BY <1>3, <4>2
        <4> QED
          BY <1>2, <2>1, <3>1, <4>3, ShapedAlters
      <3>2. CASE c \notin Exists(k)
        <4>1. ~Accepted(k, cmd)
          BY <1>3, <1>4, <3>2 DEF Accepted
        <4> QED
          BY <2>1, <4>1 DEF After
      <3> QED
        BY <3>1, <3>2
    <2> QED
      BY <2>1, <2>3, <2>4, HavingIs DEF A, I
  <1>6. Through(A, <<cmd>>, A, I)
    BY <1>3, <1>5, ThroughOne
  <1> QED
    BY <1>1, <1>6 DEF A, I


(* All that a rule prints: the logs, what the nat table gets, and the four *)
(* texts.  For iptables-restore a denial on the way in is final.           *)
RuleTexts(final, e) ==
    << If(IsLocal(e), Put("-A", SubChain(e, e.dir), RuleTests(e), RuleTarget(e))),
       If(NeedsReturn(e), Put("-I", SubChain(e, Opposite(e.dir)), ReturnTests(e), ReturnTarget(e))),
       Put("-A", SubChain(e, Forwarding(e.dir)), RuleTests(e),
           IF final /\ Denies(e) THEN Denial(e) ELSE ForwardTarget(e)),
       If(NeedsReturn(e), Put("-I", SubChain(e, Forwarding(Opposite(e.dir))), ReturnTests(e),
                              ForwardReturnTarget(e))) >>

(* The calls before m, in the chains of every base.                        *)
Evenly(m) == [b \in GroupBase |-> m]

LEMMA RuleThrough ==
    ASSUME NEW calls, NEW rank, Course(calls, rank), NEW final \in BOOLEAN,
           NEW m \in RuleCalls(calls), NEW e, e = calls[m].ent,
           NEW f \in Family, ~Refused(e, f), NEW C, Placed(e, C), NEW logs,
           Through(Having(final, calls, Evenly(m - 1), C), logs,
                   Having(final, calls, Evenly(m - 1), C), Telling(final, calls)),
           NEW text, text = RuleTexts(final, e)
    PROVE  Through(Having(final, calls, Evenly(m - 1), C),
                   logs \o text[1] \o text[2] \o If(IsForward(e), text[3] \o text[4]),
                   Having(final, calls, Evenly(m), C), Telling(final, calls))
  <1> DEFINE I == Telling(final, calls)
             b1 == e.dir
             b2 == Opposite(e.dir)
             b3 == Forwarding(e.dir)
             b4 == Forwarding(Opposite(e.dir))
             s0 == Evenly(m - 1)
             s1 == OneUp(s0, b1)
             s2 == OneUp(s1, b2)
             s3 == OneUp(s2, b3)
             s4 == OneUp(s3, b4)
             x3 == Put("-A", SubChain(e, b3), RuleTests(e), MainTarget(final, e, b3))
             x4 == Put("-I", SubChain(e, b4), ReturnTests(e), BackTarget(e, b4))
  <1>1. m \in 1..Len(calls) /\ e \in Ent /\ Rendered(e) /\ m \in Int
    <2>1. calls \in Seq(Call) /\ m \in 1..Len(calls)
      BY DEF Course, RuleCalls
    <2>2. Rendered(e)
      BY DEF Course, Regular
    <2> QED
      BY <2>1, <2>2, RuleCallIs, LenProperties
  <1>2. e.dir \in {"INPUT", "OUTPUT"}
    BY <1>1, RuleParts
  <1>3. /\ {b1, b2, b3, b4} = GroupBase
        /\ b1 # b2 /\ b1 # b3 /\ b1 # b4 /\ b2 # b3 /\ b2 # b4 /\ b3 # b4
        /\ {b1, b2} = {"INPUT", "OUTPUT"} /\ b3 \notin {"INPUT", "OUTPUT"} /\ b4 \notin {"INPUT", "OUTPUT"}
        /\ e.dir = Way(b1) /\ e.dir # Way(b2) /\ e.dir = Way(b3) /\ e.dir # Way(b4)
    BY <1>2 DEF Opposite, Forwarding, GroupBase, Way
  <1>4. /\ ForThis(e, b1) = IsLocal(e) /\ ForThis(e, b2) = IsLocal(e)
        /\ ForThis(e, b3) = IsForward(e) /\ ForThis(e, b4) = IsForward(e)
        /\ MainTarget(final, e, b1) = RuleTarget(e) /\ BackTarget(e, b2) = ReturnTarget(e)
        /\ MainTarget(final, e, b3) = (IF final /\ Denies(e) THEN Denial(e) ELSE ForwardTarget(e))
        /\ BackTarget(e, b4) = ForwardReturnTarget(e)
    BY <1>3 DEF ForThis, MainTarget, BackTarget
  <1>5. /\ m = s0[b1] + 1 /\ m = s1[b2] + 1 /\ m = s2[b3] + 1 /\ m = s3[b4] + 1
        /\ s4 = Evenly(m)
    <2>1. {b1, b2, b3, b4} \subseteq GroupBase /\ \A b \in GroupBase : b \in {b1, b2, b3, b4}
      BY <1>3
    <2>2. s0 \in [GroupBase -> Int] /\ \A b \in GroupBase : s0[b] = m - 1
      BY <1>1 DEF Evenly
    <2>3. \A s \in [GroupBase -> Int] : \A b \in GroupBase :
             /\ OneUp(s, b) \in [GroupBase -> Int]
             /\ \A d \in GroupBase : OneUp(s, b)[d] = IF d = b THEN s[b] + 1 ELSE s[d]
      BY DEF OneUp
    <2> HIDE DEF s0
    <2>4. s1 \in [GroupBase -> Int] /\ \A b \in GroupBase : s1[b] = IF b = b1 THEN s0[b1] + 1 ELSE s0[b]
      BY <2>1, <2>2, <2>3
    <2> HIDE DEF s1
    <2>5. s2 \in [GroupBase -> Int] /\ \A b \in GroupBase : s2[b] = IF b = b2 THEN s1[b2] + 1 ELSE s1[b]
      BY <2>1, <2>3, <2>4
    <2> HIDE DEF s2
    <2>6. s3 \in [GroupBase -> Int] /\ \A b \in GroupBase : s3[b] = IF b = b3 THEN s2[b3] + 1 ELSE s2[b]
      BY <2>1, <2>3, <2>5
    <2> HIDE DEF s3
    <2>7. s4 \in [GroupBase -> Int] /\ \A b \in GroupBase : s4[b] = IF b = b4 THEN s3[b4] + 1 ELSE s3[b]
      BY <2>1, <2>3, <2>6
    <2> HIDE DEF s4
    <2> HIDE DEF b1, b2, b3, b4
    <2>8. /\ m = s0[b1] + 1 /\ m = s1[b2] + 1 /\ m = s2[b3] + 1 /\ m = s3[b4] + 1
      BY <1>1, <1>3, <2>1, <2>2, <2>4, <2>5, <2>6
    <2>9. \A b \in GroupBase : s4[b] = m
      BY <1>1, <1>3, <2>1, <2>2, <2>4, <2>5, <2>6, <2>7
    <2>10. Evenly(m) \in [GroupBase -> Int] /\ \A b \in GroupBase : Evenly(m)[b] = m
      BY <1>1 DEF Evenly
    <2>11. s4 = Evenly(m)
      BY <2>7, <2>9, <2>10
    <2> QED
      BY <2>8, <2>11
  <1> HIDE DEF b1, b2, b3, b4, s0, s1, s2, s3, s4, I
  <1>6. Through(Having(final, calls, s0, C), logs, Having(final, calls, s0, C), I)
    BY DEF s0, I
  <1>7. Through(Having(final, calls, s0, C), text[1], Having(final, calls, s1, C), I)
    <2>1. Through(Having(final, calls, s0, C),
                  If(ForThis(e, b1), Put("-A", SubChain(e, b1), RuleTests(e), MainTarget(final, e, b1))),
                  Having(final, calls, OneUp(s0, b1), C), Telling(final, calls))
      BY <1>3, <1>5, TextThrough
    <2> QED
      BY <1>4, <2>1 DEF RuleTexts, s1, I, b1
  <1>8. Through(Having(final, calls, s1, C), text[2], Having(final, calls, s2, C), I)
    <2>1. Through(Having(final, calls, s1, C),
                  If(NeedsReturn(e) /\ ForThis(e, b2),
                     Put("-I", SubChain(e, b2), ReturnTests(e), BackTarget(e, b2))),
                  Having(final, calls, OneUp(s1, b2), C), Telling(final, calls))
      BY <1>3, <1>5, TextThrough
    <2>2. NeedsReturn(e) /\ ForThis(e, b2) <=> NeedsReturn(e)
      BY <1>1, <1>4 DEF Rendered
    <2> QED
      BY <1>4, <2>1, <2>2 DEF RuleTexts, s2, I, b2, If
  <1>9. Through(Having(final, calls, s2, C), If(IsForward(e), x3), Having(final, calls, s3, C), I)
    <2>1. Through(Having(final, calls, s2, C),
                  If(ForThis(e, b3), Put("-A", SubChain(e, b3), RuleTests(e), MainTarget(final, e, b3))),
                  Having(final, calls, OneUp(s2, b3), C), Telling(final, calls))
      BY <1>3, <1>5, TextThrough
    <2> QED
      BY <1>4, <2>1 DEF s3, I
  <1>10. Through(Having(final, calls, s3, C), If(NeedsReturn(e) /\ IsForward(e), x4),
                 Having(final, calls, s4, C), I)
    <2>1. Through(Having(final, calls, s3, C),
                  If(NeedsReturn(e) /\ ForThis(e, b4),
                     Put("-I", SubChain(e, b4), ReturnTests(e), BackTarget(e, b4))),
                  Having(final, calls, OneUp(s3, b4), C), Telling(final, calls))
      BY <1>3, <1>5, TextThrough
    <2>2. NeedsReturn(e) /\ ForThis(e, b4) <=> NeedsReturn(e) /\ IsForward(e)
      BY <1>4
    <2> QED
      BY <2>1, <2>2 DEF s4, I, If
  <1>11. text[3] = x3 /\ text[4] = If(NeedsReturn(e), x4)
    BY <1>4 DEF RuleTexts, b3, b4
  <1> HIDE DEF x3, x4
  <1>12. Through(Having(final, calls, s2, C), If(IsForward(e), text[3] \o text[4]),
                 Having(final, calls, s4, C), I)
    <2>1. Through(Having(final, calls, s2, C), If(IsForward(e), x3) \o If(NeedsReturn(e) /\ IsForward(e), x4),
                  Having(final, calls, s4, C), I)
      BY <1>9, <1>10, ThroughOn
    <2>2. If(IsForward(e), x3) \o If(NeedsReturn(e) /\ IsForward(e), x4)
             = If(IsForward(e), text[3] \o text[4])
      <3>1. CASE IsForward(e)
        <4>1. (NeedsReturn(e) /\ IsForward(e)) = NeedsReturn(e)
          BY <3>1 DEF NeedsReturn
        <4>2. If(IsForward(e), x3) = x3 /\ If(NeedsReturn(e) /\ IsForward(e), x4) = text[4]
          BY <1>11, <3>1, <4>1 DEF If
        <4>3. If(IsForward(e), text[3] \o text[4]) = x3 \o text[4]
          BY <1>11, <3>1 DEF If
        <4> QED
          BY <4>2, <4>3
      <3>2. CASE ~IsForward(e)
        <4>1. If(IsForward(e), x3) = <<>> /\ If(NeedsReturn(e) /\ IsForward(e), x4) = <<>>
          BY <3>2 DEF If
        <4>2. If(IsForward(e), text[3] \o text[4]) = <<>>
          BY <3>2 DEF If
        <4>3. <<>> \o <<>> = <<>>
          OBVIOUS
        <4> QED
          BY <4>1, <4>2, <4>3
      <3> QED
        BY <3>1, <3>2
    <2> QED
      BY <2>1, <2>2
  <1>13. Through(Having(final, calls, s0, C), logs \o text[1], Having(final, calls, s1, C), I)
    BY <1>6, <1>7, ThroughOn
  <1>14. Through(Having(final, calls, s0, C), logs \o text[1] \o text[2], Having(final, calls, s2, C), I)
    BY <1>8, <1>13, ThroughOn
  <1>15. Through(Having(final, calls, s0, C),
                 logs \o text[1] \o text[2] \o If(IsForward(e), text[3] \o text[4]),
                 Having(final, calls, s4, C), I)
    BY <1>12, <1>14, ThroughOn
  <1> QED
    BY <1>5, <1>15 DEF s0, I


(* The logs of a rule,                                                     *)
LEMMA LogsThrough ==
    ASSUME NEW calls, NEW rank, Course(calls, rank), NEW final \in BOOLEAN, NEW s, NEW C,
           NEW e \in Ent, NEW f \in Family, ~Refused(e, f)
    PROVE  Through(Having(final, calls, s, C), LogCommands(e),
                   Having(final, calls, s, C), Telling(final, calls))
  <1> DEFINE A == Having(final, calls, s, C)
             I == Telling(final, calls)
             x == Put("-A", Base(e.dir), RuleTests(e), Base("LOG"))
             y == Put("-A", Base(Forwarding(e.dir)), RuleTests(e), Base("LOG"))
  <1>1. \A k \in A : IsKernel(k) /\ k \in A /\ k \in I
    BY HavingIs
  <1>2. ASSUME NEW b \in GroupBase
        PROVE  Through(A, Put("-A", Base(b), RuleTests(e), Base("LOG")), A, I)
    <2> DEFINE c == Base(b)
               jump == Base("LOG")
    <2>1. c \in Chain /\ c # Base("INVALID")
      BY DEF Base, Chain, GroupBase, FilterBase, Builtin, Group
    <2>2. RuleTests(e) \in SUBSET Test /\ jump \in Jump /\ jump.base \in Alteration
      BY RuleParts
    <2> HIDE DEF c, jump
    <2>3. Through(Having(final, calls, s, C), Put("-A", c, RuleTests(e), jump),
                  Having(final, calls, s, C), Telling(final, calls))
      BY <2>1, <2>2, AltersThrough
    <2> QED
      BY <2>3 DEF c, jump
  <1>3. e.dir \in GroupBase /\ Forwarding(e.dir) \in GroupBase
    BY RuleParts
  <1>4. Through(A, x, A, I) /\ Through(A, y, A, I)
    BY <1>2, <1>3
  <1>5. LogCommands(e) = If("LOG" \in e.set, If(IsLocal(e), x) \o If(IsForward(e), y))
    BY DEF LogCommands
  <1> HIDE DEF A, I, x, y
  <1>6. Through(A, If(IsLocal(e), x), A, I) /\ Through(A, If(IsForward(e), y), A, I)
    BY <1>1, <1>4, ThroughIf
  <1>7. Through(A, If(IsLocal(e), x) \o If(IsForward(e), y), A, I)
    BY <1>6, ThroughOn
  <1>8. Through(A, If("LOG" \in e.set, If(IsLocal(e), x) \o If(IsForward(e), y)), A, I)
    BY <1>1, <1>7, ThroughIf
  <1> QED
    BY <1>5, <1>8 DEF A, I

(* and a rule as the iptables backend prints it (cb_iptables_rule).        *)
LEMMA RuleCommandsThrough ==
    ASSUME NEW calls, NEW rank, Course(calls, rank),
           NEW m \in RuleCalls(calls), NEW f \in Family, ~Refused(calls[m].ent, f),
           NEW C, Placed(calls[m].ent, C), NEW final, final = FALSE
    PROVE  Through(Having(final, calls, Evenly(m - 1), C), RuleCommands(calls[m].ent),
                   Having(final, calls, Evenly(m), C), Telling(final, calls))
  <1> DEFINE e == calls[m].ent
             s == Evenly(m - 1)
             A == Having(final, calls, s, C)
             I == Telling(final, calls)
             c == SubChain(e, NatChain(e.dir))
             jump == NatTarget(e)
             x == Put("-A", c, NatTests(e), jump)
             text == RuleTexts(final, e)
             logs == LogCommands(e) \o If(NeedsNat(e), x)
  <1>0. final \in BOOLEAN
    OBVIOUS
  <1>1. e \in Ent
    <2>1. calls \in Seq(Call) /\ m \in 1..Len(calls)
      BY DEF Course, RuleCalls
    <2> QED
      BY <2>1, RuleCallIs
  <1>2. c \in Chain /\ c # Base("INVALID") /\ NatTests(e) \in SUBSET Test
        /\ jump \in Jump /\ jump.base \in Alteration
    <2>1. c \in Chain /\ c.base \in NatBase /\ NatTests(e) \in SUBSET Test
          /\ jump \in Jump /\ jump.base \in Alteration
      BY <1>1, RuleParts
    <2>2. c # Base("INVALID")
      BY <2>1 DEF NatBase, Base
    <2> QED
      BY <2>1, <2>2
  <1>3. RuleCommands(e) = logs \o text[1] \o text[2] \o If(IsForward(e), text[3] \o text[4])
    BY DEF RuleCommands, RuleTexts
  <1>4. \A k \in A : IsKernel(k) /\ k \in A /\ k \in I
    BY HavingIs
  <1>5. Through(Having(final, calls, s, C), LogCommands(e), Having(final, calls, s, C), Telling(final, calls))
    <2> HIDE DEF s, e
    <2> QED
      BY <1>0, <1>1, LogsThrough DEF e
  <1>6. Through(A, x, A, I)
    <2> HIDE DEF c, jump, s
    <2>1. Through(Having(final, calls, s, C), Put("-A", c, NatTests(e), jump),
                  Having(final, calls, s, C), Telling(final, calls))
      <3> DEFINE tests == NatTests(e)
      <3>1. tests \in SUBSET Test
        BY <1>2
      <3> HIDE DEF tests
      <3>2. Through(Having(final, calls, s, C), Put("-A", c, tests, jump),
                    Having(final, calls, s, C), Telling(final, calls))
        BY <1>0, <1>2, <3>1, AltersThrough
      <3> QED
        BY <3>2 DEF tests
    <2> QED
      BY <2>1
  <1>7. Through(A, logs, A, I)
    <2> HIDE DEF A, I, x
    <2>1. Through(A, If(NeedsNat(e), x), A, I)
      BY <1>4, <1>6, ThroughIf
    <2>2. Through(A, LogCommands(e), A, I)
      BY <1>5 DEF A, I
    <2> QED
      BY <2>1, <2>2, ThroughOn
  <1> HIDE DEF logs, text
  <1>8. Through(Having(final, calls, Evenly(m - 1), C),
                logs \o text[1] \o text[2] \o If(IsForward(e), text[3] \o text[4]),
                Having(final, calls, Evenly(m), C), Telling(final, calls))
    BY <1>0, <1>1, <1>7, RuleThrough DEF text
  <1> QED
    BY <1>3, <1>8


(* A call without a text leaves the chains as they are.                    *)
LEMMA GroupSkipped ==
    ASSUME NEW calls, NEW rank, Course(calls, rank), NEW final \in BOOLEAN,
           NEW m \in 1..Len(calls), m \notin RuleCalls(calls), NEW k,
           Shaped(final, calls, Evenly(m - 1), k)
    PROVE  Shaped(final, calls, Evenly(m), k)
  <1> DEFINE s0 == Evenly(m - 1)
             s1 == OneUp(s0, "INPUT")
             s2 == OneUp(s1, "OUTPUT")
             s3 == OneUp(s2, "FORWARD")
             s4 == OneUp(s3, "FORW_OUT")
  <1>1. ASSUME NEW s, NEW b \in GroupBase, Shaped(final, calls, s, k), m = s[b] + 1
        PROVE  Shaped(final, calls, OneUp(s, b), k)
    BY <1>1, ShapedSkip
  <1>2. {"INPUT", "OUTPUT", "FORWARD", "FORW_OUT"} = GroupBase /\ m \in Int
    BY DEF GroupBase
  <1>3. /\ m = s0["INPUT"] + 1 /\ m = s1["OUTPUT"] + 1 /\ m = s2["FORWARD"] + 1 /\ m = s3["FORW_OUT"] + 1
        /\ s4 = Evenly(m)
    BY <1>2 DEF OneUp, Evenly
  <1> HIDE DEF s0, s1, s2, s3, s4
  <1>4. Shaped(final, calls, s1, k)
    BY <1>1, <1>2, <1>3 DEF s0, s1
  <1>5. Shaped(final, calls, s2, k)
    BY <1>1, <1>2, <1>3, <1>4 DEF s2
  <1>6. Shaped(final, calls, s3, k)
    BY <1>1, <1>2, <1>3, <1>5 DEF s3
  <1>7. Shaped(final, calls, s4, k)
    BY <1>1, <1>2, <1>3, <1>6 DEF s4
  <1> QED
    BY <1>3, <1>7

(* A chain of a group is made, or is there from an earlier announcement.   *)
LEMMA NewThrough ==
    ASSUME NEW calls, NEW rank, Course(calls, rank), NEW final \in BOOLEAN,
           NEW m \in 1..Len(calls), calls[m].k = "group", NEW c \in ChainsOf(calls[m].group),
           NEW C, Built(calls, m - 1) \subseteq C
    PROVE  Through(Having(final, calls, Evenly(m), C), << NewChain(c) >>,
                   Having(final, calls, Evenly(m), C \union {c}), Telling(final, calls))
  <1> DEFINE s == Evenly(m)
             A == Having(final, calls, s, C)
             B == Having(final, calls, s, C \union {c})
             I == Telling(final, calls)
             cmd == NewChain(c)
  <1>1. c \in Chain /\ Table(c) = "filter"
    <2>1. calls[m] \in Call
      BY RuleCallIs DEF Course
    <2>2. calls[m].group \in Group
      BY <2>1 DEF Call
    <2> QED
      BY <2>2 DEF ChainsOf, GroupBase, Chain, FilterBase, Builtin, Table, NatBase
  <1>2. cmd \in Line /\ cmd.op = "-N" /\ cmd.chain = c
    BY <1>1 DEF NewChain, Line, Command
  <1>3. \A b \in GroupBase : s[b] = m
    BY DEF Evenly
  <1> HIDE DEF s, A, B, I
  <1>4. ASSUME NEW k \in A
        PROVE  IsKernel(k) /\ k \in I /\ After(k, cmd) \in B /\ After(k, cmd) \in I
    <2>1. IsKernel(k) /\ Shaped(final, calls, s, k) /\ FilterChains(k) = C /\ k \in I
      BY HavingIs DEF A, I
    <2>2. Exists(After(k, cmd)) = Exists(k) \union {c}
      BY <1>2, <2>1, ChainsAfter
    <2>3. FilterChains(After(k, cmd)) = C \union {c}
      BY <1>1, <2>1, <2>2 DEF FilterChains
    <2>4. Shaped(final, calls, s, After(k, cmd))
      <3>1. CASE c \in Exists(k)
        <4>1. ~Accepted(k, cmd)
          BY <1>2, <3>1 DEF Accepted
        <4> QED
          BY <2>1, <4>1 DEF After
      <3>2. CASE c \notin Exists(k)
        <4>1. Built(calls, m - 1) \subseteq Exists(k)
          BY <2>1 DEF FilterChains
        <4> QED
          BY <1>2, <1>3, <2>1, <3>2, <4>1, ShapedNew
      <3> QED
        BY <3>1, <3>2
    <2> QED
      BY <2>1, <2>3, <2>4, HavingIs DEF B, I
  <1> HIDE DEF cmd
  <1>5. Through(A, <<cmd>>, B, I)
    BY <1>2, <1>4, ThroughOne
  <1> QED
    BY <1>5 DEF A, B, I, s, cmd

(* A group that is announced (cb_iptables_group).                          *)
LEMMA GroupThrough ==
    ASSUME NEW calls, NEW rank, Course(calls, rank), NEW final \in BOOLEAN,
           NEW m \in 1..Len(calls), calls[m].k = "group"
    PROVE  Through(Having(final, calls, Evenly(m - 1), Built(calls, m - 1)),
                   GroupCommands(calls[m].group),
                   Having(final, calls, Evenly(m), Built(calls, m)), Telling(final, calls))
  <1> DEFINE name == calls[m].group
             C == Built(calls, m - 1)
             c(b) == [group |-> name, base |-> b]
             s(b) == <<NewChain(c(b))>>
             A(D) == Having(final, calls, Evenly(m), D)
             A0 == Having(final, calls, Evenly(m - 1), C)
             I == Telling(final, calls)
             C1 == C \union {c("INPUT")}
             C2 == C1 \union {c("OUTPUT")}
             C3 == C2 \union {c("FORWARD")}
             C4 == C3 \union {c("FORW_OUT")}
  <1>1. ASSUME NEW b \in GroupBase, NEW D, C \subseteq D
        PROVE  Through(A(D), s(b), A(D \union {c(b)}), I)
    <2>1. c(b) \in ChainsOf(calls[m].group)
      BY DEF ChainsOf
    <2> HIDE DEF c
    <2> QED
      BY <1>1, <2>1, NewThrough
  <1>2. GroupCommands(name) = s("INPUT") \o s("OUTPUT") \o s("FORWARD") \o s("FORW_OUT")
    BY DEF GroupCommands
  <1>3. GroupBase = {"INPUT", "OUTPUT", "FORWARD", "FORW_OUT"}
    BY DEF GroupBase
  <1>4. C4 = Built(calls, m)
    <2> DEFINE n == m - 1
    <2>1. n \in Nat /\ n + 1 = m
      OBVIOUS
    <2> HIDE DEF n
    <2>2. Built(calls, n + 1) = Built(calls, n) \union ChainsOf(calls[n + 1].group)
      BY <2>1, BuiltNext
    <2>3. Built(calls, m) = C \union ChainsOf(name)
      BY <2>1, <2>2 DEF n
    <2> QED
      BY <1>3, <2>3 DEF ChainsOf
  <1> HIDE DEF c, s, C
  <1>5. A0 \subseteq A(C)
    <2>1. ASSUME NEW k \in A0
          PROVE  k \in A(C)
      <3>1. Shaped(final, calls, Evenly(m - 1), k) /\ FilterChains(k) = C
        BY HavingIs
      <3>2. m \notin RuleCalls(calls)
        BY DEF RuleCalls, Call
      <3>3. Shaped(final, calls, Evenly(m), k)
        BY <3>1, <3>2, GroupSkipped
      <3> QED
        BY <3>1, <3>3, HavingIs
    <2> QED
      BY <2>1
  <1>6. Through(A(C), s("INPUT"), A(C1), I)
    BY <1>1, <1>3
  <1>7. Through(A(C1), s("OUTPUT"), A(C2), I)
    BY <1>1, <1>3
  <1>8. Through(A(C2), s("FORWARD"), A(C3), I)
    BY <1>1, <1>3
  <1>9. Through(A(C3), s("FORW_OUT"), A(C4), I)
    BY <1>1, <1>3
  <1> HIDE DEF C1, C2, C3, C4, A, I
  <1>10. Through(A(C), s("INPUT") \o s("OUTPUT"), A(C2), I)
    BY <1>6, <1>7, ThroughOn
  <1>11. Through(A(C), s("INPUT") \o s("OUTPUT") \o s("FORWARD"), A(C3), I)
    BY <1>8, <1>10, ThroughOn
  <1>12. Through(A(C), s("INPUT") \o s("OUTPUT") \o s("FORWARD") \o s("FORW_OUT"), A(C4), I)
    BY <1>9, <1>11, ThroughOn
  <1>13. Through(A0, s("INPUT") \o s("OUTPUT") \o s("FORWARD") \o s("FORW_OUT"), A(C4), I)
    <2> HIDE DEF A0
    <2> QED
      BY <1>5, <1>12, ThroughWider
  <1> QED
    BY <1>2, <1>4, <1>13 DEF A, I, C


-----------------------------------------------------------------------------
(***************************************************************************)
(* The rules give way.  The policies come first; once there is nothing in  *)
(* the filter table that accepts, nothing gets through.                    *)
(***************************************************************************)
Barren(k) ==
    /\ \A b \in Builtin : k.policy[b] = "DROP"
    /\ \A c \in FilterChains(k) : \A i \in 1..Len(k.rules[c]) : k.rules[c][i].jump.base # "ACCEPT"

LEMMA BarrenStops ==
    ASSUME NEW k, IsKernel(k), Barren(k), NEW p \in Packets
    PROVE  ~LetsThrough(k, p)
  <1> DEFINE N == JumpLimit
             d == Decision(k, p)
             O == Outcome \ {"ACCEPT"}
             P == { n \in Nat : n <= N => \A c \in FilterChains(k) : d[n][c] # "ACCEPT" }
  <1>1. /\ N \in Nat /\ \A n \in 0..N : d[n] \in [Exists(k) -> Outcome]
        /\ \A c \in Exists(k) : d[0][c] = "RETURN"
        /\ \A n \in 1..N : \A c \in Exists(k) : d[n][c] = InChain(k, c, p, d[n - 1])
    BY DecisionUnfolds
  <1> HIDE DEF d, N
  <1>2. FilterChains(k) \subseteq Exists(k) /\ "RETURN" \in O
    BY DEF FilterChains, Outcome
  <1>3. 0 \in P
    BY <1>1, <1>2
  <1>4. ASSUME NEW n \in P
        PROVE  n + 1 \in P
    <2> SUFFICES ASSUME n + 1 <= N, NEW c \in FilterChains(k)
                 PROVE  d[n + 1][c] # "ACCEPT"
      OBVIOUS
    <2>1. /\ n \in Nat /\ n \in 0..N /\ n + 1 \in 1..N /\ (n + 1) - 1 = n
          /\ \A e \in FilterChains(k) : d[n][e] # "ACCEPT"
      BY <1>1
    <2>2. d[n + 1][c] = InChain(k, c, p, d[n])
      BY <1>1, <1>2, <2>1
    <2> DEFINE m == Len(k.rules[c])
               v == [i \in 1..m |-> ByTarget(k.rules[c][i], p, d[n])]
    <2>3. m \in Nat
      BY <1>2, LenProperties DEF IsKernel
    <2>4. ASSUME NEW i \in 1..m
          PROVE  ByTarget(k.rules[c][i], p, d[n]) \in O
      <3> DEFINE r == k.rules[c][i]
      <3>1. JumpOK(k, c, r.jump) /\ r.jump.base # "ACCEPT" /\ Table(c) = "filter"
        BY <1>2, <2>3 DEF IsKernel, Linked, Barren, FilterChains
      <3>2. r.jump.base \in Verdict \union Alteration \/ r.jump \in FilterChains(k)
        BY <3>1 DEF JumpOK, FilterChains
      <3> HIDE DEF r
      <3>3. r.jump \in FilterChains(k) => d[n][r.jump] \in O
        BY <1>1, <1>2, <2>1
      <3>4. "RETURN" \in O /\ (r.jump.base \in Verdict => r.jump.base \in O)
        BY <1>2, <3>1 DEF Outcome
      <3>5. ByTarget(r, p, d[n]) \in O
        <4> HIDE DEF O
        <4> QED
          BY <3>2, <3>3, <3>4 DEF ByTarget
      <3> QED
        BY <3>5 DEF r
    <2>5. \A i \in 1..m : v[i] \in O
      BY <2>4
    <2>6. InChain(k, c, p, d[n]) = First(v)
      BY DEF InChain
    <2>7. DOMAIN v = 1..m
      OBVIOUS
    <2> HIDE DEF v, m, O
    <2>8. First(v) \in O
      BY <1>2, <2>3, <2>5, <2>7, FirstTyped
    <2> QED
      BY <2>2, <2>6, <2>8 DEF O
  <1>5. P \in SUBSET Nat
    OBVIOUS
  <1> HIDE DEF P
  <1>6. P = Nat
    BY <1>3, <1>4, <1>5, Induction
  <1>7. \A c \in FilterChains(k) : d[N][c] # "ACCEPT"
    BY <1>1, <1>6 DEF P
  <1>8. p.path \in Builtin
    BY FirewallAssumption DEF Packet
  <1>9. Base(p.path) \in FilterChains(k)
    BY <1>8, BuiltinInFilter DEF BuiltinFilter
  <1> QED
    BY <1>7, <1>8, <1>9 DEF LetsThrough, d, N, Barren

(* Policies are set one by one, while the rules stay.                      *)
Halfway(old, B) ==
    { k \in Kernel : /\ k.rules = old.rules
                     /\ \A b \in Builtin : k.policy[b] = IF b \in B THEN "DROP" ELSE old.policy[b] }

(* Then they go.                                                           *)
Waning(old) ==
    { k \in Kernel : /\ \A b \in Builtin : k.policy[b] \in {old.policy[b], "DROP"}
                     /\ k.rules = old.rules \/ Barren(k) }

LEMMA WaningIs ==
    ASSUME NEW old, NEW k, IsKernel(k)
    PROVE  /\ \A B : k \in Halfway(old, B) => k \in Waning(old)
           /\ Barren(k) => k \in Waning(old)
  <1>1. k \in Kernel
    BY KernelSet
  <1> QED
    BY <1>1 DEF Halfway, Waning, Barren

(* One policy,                                                             *)
LEMMA PolicyThrough ==
    ASSUME NEW old, NEW B, NEW b \in Builtin, NEW cmd,
           cmd = [op |-> "-P", chain |-> Base(b), jump |-> Base("DROP")]
    PROVE  Through(Halfway(old, B), <<cmd>>, Halfway(old, B \union {b}), Waning(old))
  <1>1. cmd \in Line /\ cmd.op = "-P" /\ cmd.chain.base = b /\ cmd.jump.base = "DROP"
    BY DEF Line, Command, Base, Jump, Group, Verdict
  <1>2. ASSUME NEW k \in Halfway(old, B)
        PROVE  /\ IsKernel(k) /\ k \in Waning(old)
               /\ After(k, cmd) \in Halfway(old, B \union {b}) /\ After(k, cmd) \in Waning(old)
    <2> DEFINE n == After(k, cmd)
    <2>1. IsKernel(k) /\ k.rules = old.rules
          /\ \A a \in Builtin : k.policy[a] = IF a \in B THEN "DROP" ELSE old.policy[a]
      BY DEF Halfway, Kernel
    <2>2. n = [k EXCEPT !.policy[b] = "DROP"]
      BY <1>1 DEF After, Accepted, Obeyed
    <2>3. k = [policy |-> k.policy, rules |-> k.rules] /\ k.policy \in [Builtin -> Verdict]
      BY <2>1 DEF IsKernel
    <2>4. n.rules = k.rules /\ \A a \in Builtin : n.policy[a] = IF a = b THEN "DROP" ELSE k.policy[a]
      BY <2>2, <2>3
    <2>5. IsKernel(n)
      BY <1>1, <2>1, AfterIsKernel
    <2> HIDE DEF n
    <2>6. n \in Kernel
      BY <2>5, KernelSet
    <2>7. n \in Halfway(old, B \union {b})
      BY <2>1, <2>4, <2>6 DEF Halfway
    <2> QED
      BY <2>1, <2>5, <2>7, WaningIs DEF n
  <1> QED
    BY <1>1, <1>2, ThroughOne

(* all of them,                                                            *)
LEMMA PoliciesThrough ==
    ASSUME NEW old
    PROVE  Through(Halfway(old, {}), SetPolicy("DROP"), Halfway(old, Builtin), Waning(old))
  <1> DEFINE p(i) == [op |-> "-P", chain |-> Base(Chains[i]), jump |-> Base("DROP")]
             B1 == {} \union {Chains[1]}
             B2 == B1 \union {Chains[2]}
             B3 == B2 \union {Chains[3]}
  <1>1. Chains[1] \in Builtin /\ Chains[2] \in Builtin /\ Chains[3] \in Builtin /\ B3 = Builtin
    BY DEF Chains, Builtin
  <1>2. SetPolicy("DROP") = <<p(1)>> \o <<p(2)>> \o <<p(3)>>
    BY DEF SetPolicy
  <1>3. ASSUME NEW i \in 1..3, NEW B
        PROVE  Through(Halfway(old, B), <<p(i)>>, Halfway(old, B \union {Chains[i]}), Waning(old))
    <2> DEFINE b == Chains[i]
    <2>1. b \in Builtin /\ p(i) = [op |-> "-P", chain |-> Base(b), jump |-> Base("DROP")]
      BY <1>1
    <2> HIDE DEF b, p
    <2>2. Through(Halfway(old, B), <<p(i)>>, Halfway(old, B \union {b}), Waning(old))
      BY <2>1, PolicyThrough
    <2> QED
      BY <2>2 DEF b
  <1> HIDE DEF p
  <1>4. /\ Through(Halfway(old, {}), <<p(1)>>, Halfway(old, B1), Waning(old))
        /\ Through(Halfway(old, B1), <<p(2)>>, Halfway(old, B2), Waning(old))
        /\ Through(Halfway(old, B2), <<p(3)>>, Halfway(old, B3), Waning(old))
    BY <1>3
  <1> HIDE DEF B1, B2, B3
  <1>5. Through(Halfway(old, {}), <<p(1)>> \o <<p(2)>>, Halfway(old, B2), Waning(old))
    BY <1>4, ThroughOn
  <1>6. Through(Halfway(old, {}), <<p(1)>> \o <<p(2)>> \o <<p(3)>>, Halfway(old, B3), Waning(old))
    BY <1>4, <1>5, ThroughOn
  <1> QED
    BY <1>1, <1>2, <1>6


(* and then the rules.  After that the filter table has the chains C: d,   *)
(* does the one for packets that belong nowhere have its rule; G, which    *)
(* builtin chains have theirs.                                             *)
DropAll == [tests |-> {}, jump |-> Base("DROP")]

Guard == [tests |-> InvalidTests, jump |-> Base("INVALID")]

Laid(d, G, c) == IF c = Base("INVALID") THEN If(d, <<DropAll>>) ELSE If(c.base \in G, <<Guard>>)

Rising(C, d, G) ==
    { k \in Kernel : /\ \A b \in Builtin : k.policy[b] = "DROP"
                     /\ FilterChains(k) = C
                     /\ \A c \in C : k.rules[c] = Laid(d, G, c) }

LEMMA RisingIs ==
    ASSUME NEW C, NEW d, NEW G, NEW k
    PROVE  k \in Rising(C, d, G) <=>
             /\ IsKernel(k) /\ FilterChains(k) = C /\ \A b \in Builtin : k.policy[b] = "DROP"
             /\ \A c \in C : k.rules[c] = Laid(d, G, c)
  <1>1. k \in Kernel <=> IsKernel(k)
    BY KernelSet DEF Kernel
  <1> QED
    BY <1>1 DEF Rising

LEMMA RisingMade ==
    ASSUME NEW k, IsKernel(k), NEW C, FilterChains(k) = C, \A b \in Builtin : k.policy[b] = "DROP",
           NEW d, NEW G, \A c \in C : k.rules[c] = Laid(d, G, c)
    PROVE  k \in Rising(C, d, G)
  BY RisingIs

(* None of it accepts.                                                     *)
LEMMA RisingBarren ==
    ASSUME NEW C, NEW d, NEW G, NEW k \in Rising(C, d, G), NEW old
    PROVE  Barren(k) /\ k \in Waning(old) /\ IsKernel(k)
  <1>1. /\ IsKernel(k) /\ FilterChains(k) = C /\ \A b \in Builtin : k.policy[b] = "DROP"
        /\ \A c \in C : k.rules[c] = Laid(d, G, c)
    BY RisingIs
  <1>2. DropAll.jump.base # "ACCEPT" /\ Guard.jump.base # "ACCEPT"
    BY DEF DropAll, Guard, Base
  <1>3. ASSUME NEW c \in C, NEW i \in 1..Len(k.rules[c])
        PROVE  k.rules[c][i].jump.base # "ACCEPT"
    <2>1. k.rules[c] = <<>> \/ k.rules[c] = <<DropAll>> \/ k.rules[c] = <<Guard>>
      BY <1>1 DEF Laid, If
    <2> HIDE DEF DropAll, Guard
    <2> QED
      BY <1>2, <2>1
  <1>4. Barren(k)
    BY <1>1, <1>3 DEF Barren
  <1> QED
    BY <1>1, <1>4, WaningIs

(* A line that leaves the policies alone and makes C, d and G of it.       *)
LEMMA RisingThrough ==
    ASSUME NEW A, NEW C, NEW d, NEW G, NEW cmd \in Line, NEW old,
           \A k \in A : /\ IsKernel(k) /\ k \in Waning(old)
                        /\ After(k, cmd) \in Rising(C, d, G)
    PROVE  Through(A, <<cmd>>, Rising(C, d, G), Waning(old))
  <1>1. \A k \in A : After(k, cmd) \in Waning(old)
    BY RisingBarren
  <1> QED
    BY <1>1, ThroughOne

(* The filter table is flushed.                                            *)
LEMMA SweptThrough ==
    ASSUME NEW old
    PROVE  Through(Halfway(old, Builtin), FlushTable("filter"),
                   Rising(BuiltinFilter, FALSE, {}), Waning(old))
  <1> DEFINE f == [op |-> "-F", table |-> "filter"]
             x == [op |-> "-X", table |-> "filter"]
             A == Halfway(old, Builtin)
             B == { n \in Kernel : /\ \A b \in Builtin : n.policy[b] = "DROP"
                                   /\ \A c \in FilterChains(n) : n.rules[c] = <<>>
                                   /\ Accepted(n, x) }
             D == Rising(BuiltinFilter, FALSE, {})
             I == Waning(old)
  <1>0. FlushTable("filter") = <<f>> \o <<x>>
    BY DEF FlushTable
  <1>1. /\ f \in Line /\ f.op = "-F" /\ f.table = "filter"
        /\ x \in Line /\ x.op = "-X" /\ x.table = "filter"
    BY DEF Line, Command
  <1>2. ASSUME NEW n, IsKernel(n), Accepted(n, x), \A b \in Builtin : n.policy[b] = "DROP",
               \A c \in FilterChains(n) : n.rules[c] = <<>>
        PROVE  n \in B /\ n \in I
    <2>1. Barren(n)
      BY <1>2 DEF Barren
    <2> QED
      BY <1>2, <2>1, KernelSet, WaningIs
  <1>3. \A n \in B : /\ IsKernel(n) /\ Accepted(n, x) /\ \A b \in Builtin : n.policy[b] = "DROP"
                     /\ \A c \in FilterChains(n) : n.rules[c] = <<>>
    BY DEF Kernel
  <1> HIDE DEF B, D, I
  <1>4. ASSUME NEW k \in A
        PROVE  IsKernel(k) /\ k \in I /\ After(k, f) \in B /\ After(k, f) \in I
    <2> DEFINE n == After(k, f)
               R == [c \in Exists(k) |-> IF Table(c) = "filter" THEN <<>> ELSE k.rules[c]]
    <2>1. IsKernel(k) /\ \A b \in Builtin : k.policy[b] = "DROP"
      BY DEF Halfway, Kernel
    <2>2. IsKernel(n) /\ Accepted(n, x)
      BY <2>1, Flushed
    <2>3. n = [k EXCEPT !.rules = R]
      BY <1>1 DEF After, Accepted, Obeyed
    <2>4. k = [policy |-> k.policy, rules |-> k.rules]
      BY <2>1 DEF IsKernel
    <2>5. DOMAIN R = Exists(k) /\ \A c \in Exists(k) : Table(c) = "filter" => R[c] = <<>>
      OBVIOUS
    <2> HIDE DEF R, n, f, x
    <2>6. n.policy = k.policy /\ n.rules = R
      BY <2>3, <2>4
    <2>7. \A c \in FilterChains(n) : n.rules[c] = <<>>
      BY <2>5, <2>6 DEF FilterChains, Exists
    <2>8. n \in B /\ n \in I
      BY <1>2, <2>1, <2>2, <2>6, <2>7
    <2>9. k \in I
      BY <2>1, WaningIs DEF I
    <2> QED
      BY <2>1, <2>8, <2>9 DEF n
  <1>5. ASSUME NEW k \in B
        PROVE  IsKernel(k) /\ k \in I /\ After(k, x) \in D
    <2> DEFINE n == After(k, x)
               S == { c \in Exists(k) : Table(c) = "filter" => c \in BuiltinChains }
               R == [c \in S |-> k.rules[c]]
    <2>1. /\ IsKernel(k) /\ Accepted(k, x) /\ \A b \in Builtin : k.policy[b] = "DROP"
          /\ \A c \in FilterChains(k) : k.rules[c] = <<>>
      BY <1>3
    <2>2. IsKernel(n)
      BY <1>1, <2>1, AfterIsKernel
    <2>3. n = [k EXCEPT !.rules = R]
      BY <1>1, <2>1 DEF After, Obeyed
    <2>4. k = [policy |-> k.policy, rules |-> k.rules]
      BY <2>1 DEF IsKernel
    <2>5. DOMAIN R = S /\ \A c \in S : R[c] = k.rules[c]
      OBVIOUS
    <2>6. \A c \in S : c \in Exists(k) /\ (Table(c) = "filter" => c \in BuiltinChains)
      OBVIOUS
    <2>7. \A c \in Exists(k) : Table(c) = "filter" /\ c \in BuiltinChains => c \in S
      OBVIOUS
    <2> HIDE DEF R, S, n, f, x
    <2>8. n.policy = k.policy /\ n.rules = R
      BY <2>3, <2>4
    <2>9. FilterChains(n) = BuiltinFilter
      <3>1. BuiltinFilter = { c \in BuiltinChains : Table(c) = "filter" }
            /\ BuiltinFilter \subseteq FilterChains(k)
        BY <2>1, BuiltinInFilter
      <3> QED
        BY <2>5, <2>6, <2>7, <2>8, <3>1 DEF FilterChains, Exists
    <2>10. \A c \in BuiltinFilter : n.rules[c] = Laid(FALSE, {}, c)
      <3>1. ASSUME NEW c \in BuiltinFilter
            PROVE  n.rules[c] = <<>>
        <4>1. c \in FilterChains(n)
          BY <2>9
        <4>2. c \in S /\ c \in FilterChains(k)
          BY <2>5, <2>6, <2>8, <4>1 DEF FilterChains, Exists
        <4> QED
          BY <2>1, <2>5, <2>8, <4>2
      <3> QED
        BY <3>1 DEF Laid, If
    <2>11. n \in D
      BY <2>1, <2>2, <2>8, <2>9, <2>10, RisingIs DEF D
    <2>12. k \in I
      BY <1>2, <2>1
    <2> QED
      BY <2>1, <2>11, <2>12 DEF n
  <1> HIDE DEF A, f, x
  <1>6. Through(A, <<f>>, B, I)
    BY <1>1, <1>4, ThroughOne
  <1>7. Through(B, <<x>>, D, I)
    BY <1>1, <1>5, RisingThrough DEF D, I
  <1> QED
    BY <1>0, <1>6, <1>7, ThroughOn DEF A, D, I


(* A flush of the nat table does not touch it.                             *)
LEMMA NatFlushThrough ==
    ASSUME NEW old, NEW C, NEW d, NEW G
    PROVE  Through(Rising(C, d, G), FlushTable("nat"), Rising(C, d, G), Waning(old))
  <1> DEFINE f == [op |-> "-F", table |-> "nat"]
             x == [op |-> "-X", table |-> "nat"]
             A == Rising(C, d, G)
  <1>0. FlushTable("nat") = <<f>> \o <<x>>
    BY DEF FlushTable
  <1>1. /\ f \in Line /\ f.op = "-F" /\ f.table = "nat"
        /\ x \in Line /\ x.op = "-X" /\ x.table = "nat"
    BY DEF Line, Command
  <1>2. ASSUME NEW k \in A
        PROVE  /\ IsKernel(k) /\ k \in Waning(old)
               /\ k = [policy |-> k.policy, rules |-> k.rules]
    BY RisingBarren DEF IsKernel
  <1>3. ASSUME NEW k \in A, NEW n, IsKernel(n), NEW R, n = [k EXCEPT !.rules = R],
               \A c : Table(c) = "filter" => (c \in DOMAIN R <=> c \in Exists(k)),
               \A c \in Exists(k) : Table(c) = "filter" => R[c] = k.rules[c]
        PROVE  n \in A
    <2>1. /\ IsKernel(k) /\ FilterChains(k) = C /\ \A b \in Builtin : k.policy[b] = "DROP"
          /\ \A c \in C : k.rules[c] = Laid(d, G, c)
      BY RisingIs
    <2>2. n.policy = k.policy /\ n.rules = R
      BY <1>2, <1>3
    <2>3. FilterChains(n) = FilterChains(k)
      BY <1>3, <2>2 DEF FilterChains, Exists
    <2>4. \A c \in C : n.rules[c] = Laid(d, G, c)
      BY <1>3, <2>1, <2>2 DEF FilterChains
    <2>5. IsKernel(n) /\ FilterChains(n) = C /\ \A b \in Builtin : n.policy[b] = "DROP"
      BY <1>3, <2>1, <2>2, <2>3
    <2> QED
      BY <2>4, <2>5, RisingMade
  <1>4. ASSUME NEW k \in A
        PROVE  After(k, f) \in A /\ After(k, x) \in A
    <2> DEFINE R == [c \in Exists(k) |-> IF Table(c) = "nat" THEN <<>> ELSE k.rules[c]]
               S == { c \in Exists(k) : Table(c) = "nat" => c \in BuiltinChains }
               T == [c \in S |-> k.rules[c]]
    <2>1. IsKernel(After(k, f)) /\ IsKernel(After(k, x))
      BY <1>1, <1>2, AfterIsKernel
    <2>2. After(k, f) = [k EXCEPT !.rules = R]
      BY <1>1 DEF After, Accepted, Obeyed
    <2>3. After(k, x) = [k EXCEPT !.rules = T] \/ After(k, x) = k
      BY <1>1 DEF After, Obeyed
    <2>4. /\ \A c : Table(c) = "filter" => (c \in DOMAIN R <=> c \in Exists(k))
          /\ \A c \in Exists(k) : Table(c) = "filter" => R[c] = k.rules[c]
      OBVIOUS
    <2>5. /\ \A c : Table(c) = "filter" => (c \in DOMAIN T <=> c \in Exists(k))
          /\ \A c \in Exists(k) : Table(c) = "filter" => T[c] = k.rules[c]
      OBVIOUS
    <2> HIDE DEF R, T, f, x, A
    <2>6. After(k, f) \in A
      BY <1>3, <2>1, <2>2, <2>4
    <2>7. After(k, x) \in A
      BY <1>3, <2>1, <2>3, <2>5
    <2> QED
      BY <2>6, <2>7
  <1> HIDE DEF A, f, x
  <1>5. Through(A, <<f>>, A, Waning(old)) /\ Through(A, <<x>>, A, Waning(old))
    BY <1>1, <1>2, <1>4, RisingThrough DEF A
  <1>6. Through(A, <<f>> \o <<x>>, A, Waning(old))
    BY <1>5, ThroughOn
  <1> QED
    BY <1>0, <1>6 DEF A

(* A chain of the skeleton,                                                *)
LEMMA GroundNew ==
    ASSUME NEW old, NEW C, NEW c \in Chain, Table(c) = "filter", c \notin C
    PROVE  Through(Rising(C, FALSE, {}), << NewChain(c) >>, Rising(C \union {c}, FALSE, {}), Waning(old))
  <1> DEFINE cmd == NewChain(c)
             d == FALSE
             G == {}
             D == C \union {c}
             A == Rising(C, d, G)
             B == Rising(D, d, G)
  <1>1. cmd \in Line /\ cmd.op = "-N" /\ cmd.chain = c
    BY DEF NewChain, Line, Command
  <1>2. \A e : Laid(d, G, e) = <<>>
    BY DEF Laid, If
  <1> HIDE DEF d, G, D
  <1>3. ASSUME NEW k \in A
        PROVE  IsKernel(k) /\ k \in Waning(old) /\ After(k, cmd) \in B
    <2> DEFINE n == After(k, cmd)
               S == Exists(k) \union {c}
               R == [a \in S |-> IF a = c THEN <<>> ELSE k.rules[a]]
    <2>1. /\ IsKernel(k) /\ FilterChains(k) = C /\ \A b \in Builtin : k.policy[b] = "DROP"
          /\ \A a \in C : k.rules[a] = Laid(d, G, a)
      BY RisingIs
    <2>2. c \notin Exists(k)
      BY <2>1 DEF FilterChains
    <2>3. n = [k EXCEPT !.rules = R]
      BY <1>1, <2>2 DEF After, Accepted, Obeyed
    <2>4. IsKernel(n)
      BY <1>1, <2>1, AfterIsKernel
    <2>5. k = [policy |-> k.policy, rules |-> k.rules]
      BY <2>1 DEF IsKernel
    <2>6. DOMAIN R = S /\ R[c] = <<>> /\ \A a \in Exists(k) : a # c => R[a] = k.rules[a]
      OBVIOUS
    <2> HIDE DEF R, n, cmd
    <2>7. n.policy = k.policy /\ n.rules = R
      BY <2>3, <2>5
    <2>8. FilterChains(n) = D
      BY <2>1, <2>6, <2>7 DEF FilterChains, Exists, D
    <2>9. \A a \in D : n.rules[a] = Laid(d, G, a)
      BY <1>2, <2>1, <2>2, <2>6, <2>7 DEF FilterChains, D
    <2>10. n \in B
      BY <2>1, <2>4, <2>7, <2>8, <2>9, RisingMade
    <2> QED
      BY <2>1, <2>10, RisingBarren DEF n
  <1> HIDE DEF cmd
  <1>4. Through(A, <<cmd>>, B, Waning(old))
    BY <1>1, <1>3, RisingThrough
  <1> QED
    BY <1>4 DEF cmd, d, G, D

(* and a rule of it.                                                       *)
LEMMA GroundPut ==
    ASSUME NEW old, NEW op \in {"-A", "-I"}, NEW c \in Ground, NEW tests \in SUBSET Test,
           NEW jump, jump \in Ground \union {Base("DROP")}, NEW d, NEW G, NEW e, NEW H,
           Laid(d, G, c) = <<>>, Laid(e, H, c) = << [tests |-> tests, jump |-> jump] >>,
           \A a \in Ground : a # c => Laid(e, H, a) = Laid(d, G, a)
    PROVE  Through(Rising(Ground, d, G), Put(op, c, tests, jump), Rising(Ground, e, H), Waning(old))
  <1> DEFINE r == [tests |-> tests, jump |-> jump]
             cmd == [op |-> op, chain |-> c, rule |-> r]
             A == Rising(Ground, d, G)
             B == Rising(Ground, e, H)
  <1>1. Put(op, c, tests, jump) = <<cmd>>
    BY DEF Put
  <1>2. c \in Chain /\ Table(c) = "filter" /\ r \in Rule /\ r.jump = jump
    <2>1. \A b \in FilterBase : Base(b) \in Chain /\ Table(Base(b)) = "filter" /\ Base(b) \in Jump
      BY DEF FilterBase, Builtin, Chain, Base, Group, Table, NatBase, Jump
    <2>2. Base("DROP") \in Jump
      BY DEF Base, Jump, Verdict, Group
    <2> QED
      BY <2>1, <2>2 DEF Ground, Rule
  <1>3. cmd \in Line /\ cmd = [op |-> op, chain |-> c, rule |-> r]
    BY <1>2 DEF Line, Command
  <1> HIDE DEF cmd
  <1>4. ASSUME NEW k \in A
        PROVE  IsKernel(k) /\ k \in Waning(old) /\ After(k, cmd) \in B
    <2> DEFINE n == After(k, cmd)
    <2>1. /\ IsKernel(k) /\ FilterChains(k) = Ground /\ \A b \in Builtin : k.policy[b] = "DROP"
          /\ \A a \in Ground : k.rules[a] = Laid(d, G, a)
      BY RisingIs
    <2>2. Ground \subseteq Exists(k) /\ \A a \in Ground : Table(a) = "filter"
      BY <2>1 DEF FilterChains
    <2>3. JumpOK(k, c, r.jump)
      <3>1. Base("DROP").base \in Verdict
        BY DEF Base, Verdict
      <3> QED
        BY <1>2, <2>2, <3>1 DEF JumpOK
    <2>4. Gains(k, n, op, c, r)
      <3> HIDE DEF r
      <3> QED
        BY <1>2, <1>3, <2>1, <2>2, <2>3, PutGains
    <2> HIDE DEF n, r
    <2>5. IsKernel(n) /\ n.policy = k.policy /\ Exists(n) = Exists(k)
          /\ \A a \in Exists(k) : a # c => n.rules[a] = k.rules[a]
      BY <2>4 DEF Gains
    <2>6. n.rules[c] = <<r>>
      <3>1. k.rules[c] = <<>>
        BY <2>1
      <3>2. Append(<<>>, r) = <<r>> /\ <<r>> \o <<>> = <<r>>
        OBVIOUS
      <3>3. n.rules[c] = IF op = "-A" THEN Append(k.rules[c], r) ELSE <<r>> \o k.rules[c]
        BY <2>4 DEF Gains
      <3> QED
        BY <3>1, <3>2, <3>3
    <2>7. FilterChains(n) = Ground
      BY <2>1, <2>5 DEF FilterChains
    <2>8. \A a \in Ground : n.rules[a] = Laid(e, H, a)
      BY <2>1, <2>2, <2>5, <2>6 DEF r
    <2>9. n \in B
      BY <2>1, <2>5, <2>7, <2>8, RisingIs
    <2> QED
      BY <2>1, <2>9, RisingBarren DEF n
  <1>5. Through(A, <<cmd>>, B, Waning(old))
    BY <1>3, <1>4, RisingThrough
  <1> QED
    BY <1>1, <1>5


(* A chain with one rule, and one without.                                 *)
LEMMA OneRule ==
    ASSUME NEW k, NEW c, NEW r, NEW p, NEW E
    PROVE  /\ k.rules[c] = <<r>> => InChain(k, c, p, E) = ByTarget(r, p, E)
           /\ k.rules[c] = <<>> => InChain(k, c, p, E) = "RETURN"
  <1> DEFINE m == Len(k.rules[c])
             v == [i \in 1..m |-> ByTarget(k.rules[c][i], p, E)]
  <1>0. InChain(k, c, p, E) = First(v)
    BY DEF InChain
  <1>1. ASSUME k.rules[c] = <<r>>
        PROVE  First(v) = ByTarget(r, p, E)
    <2> DEFINE n == 1
               x == ByTarget(r, p, E)
    <2>1. n \in Nat /\ DOMAIN v = 1..n /\ v[n] = x /\ n \in 1..n /\ \A i \in 1..n : i = n
      BY <1>1
    <2> HIDE DEF n, v, x
    <2>2. x = "RETURN" => First(v) = "RETURN"
      <3>1. x = "RETURN" => \A i \in 1..n : v[i] = "RETURN"
        BY <2>1
      <3> QED
        BY <2>1, <3>1, FirstIs
    <2>3. x # "RETURN" => First(v) = v[n]
      <3>1. \A j \in 1..n : j < n => v[j] = "RETURN"
        BY <2>1
      <3> QED
        BY <2>1, <3>1, FirstIs
    <2> QED
      BY <2>1, <2>2, <2>3 DEF x
  <1>2. ASSUME k.rules[c] = <<>>
        PROVE  First(v) = "RETURN"
    <2>1. DOMAIN v = 1..0
      BY <1>2
    <2> HIDE DEF v
    <2> QED
      BY <2>1, FirstOfNone
  <1> QED
    BY <1>0, <1>1, <1>2

(* The skeleton holds what no call has added to.                           *)
LEMMA RisingShaped ==
    ASSUME NEW calls, NEW rank, Course(calls, rank), NEW final \in BOOLEAN, NEW s, s = Evenly(0),
           NEW d, d = TRUE, NEW k \in Rising(Ground, d, Builtin)
    PROVE  Shaped(final, calls, s, k)
  <1> DEFINE out == Base("FORW_OUT")
             inv == Base("INVALID")
  <1>1. /\ IsKernel(k) /\ FilterChains(k) = Ground /\ \A b \in Builtin : k.policy[b] = "DROP"
        /\ \A c \in Ground : k.rules[c] = Laid(d, Builtin, c)
    BY DEF Rising, Kernel
  <1>2. calls \in Seq(Call) /\ Len(calls) \in Nat
    BY LenProperties DEF Course
  <1>3. s \in [GroupBase -> 0..Len(calls)] /\ \A b \in GroupBase : s[b] = 0
    BY <1>2 DEF Evenly
  <1>4. out \in Ground /\ inv \in Ground /\ inv \in Exists(k) /\ out \in Exists(k)
    BY <1>1 DEF Ground, FilterBase, FilterChains
  <1>5. k.rules[inv] = << [tests |-> {}, jump |-> Base("DROP")] >>
    BY <1>1, <1>4 DEF Laid, If, DropAll
  <1>6. ASSUME NEW c \in Exists(k), c.base \in GroupBase
        PROVE  /\ c = Base(c.base) /\ c.group = NULL
               /\ c.base \in Builtin => k.rules[c] = <<Guard>>
               /\ c.base \notin Builtin => k.rules[c] = <<>>
    <2>1. Table(c) = "filter"
      BY <1>6 DEF Table, NatBase, GroupBase
    <2>2. c \in Ground
      BY <1>1, <2>1 DEF FilterChains
    <2>3. c = Base(c.base) /\ c.group = NULL
      BY <2>2 DEF Ground, Base
    <2>4. c # inv
      BY <1>6 DEF Base, GroupBase
    <2> QED
      BY <1>1, <2>2, <2>3, <2>4 DEF Laid, If
  <1>7. Told(final, calls, s, k)
    <2> SUFFICES ASSUME NEW p \in Heeded(calls), NEW E, Ideal(final, calls, p, E),
                        NEW c \in Exists(k), Concerned(calls, c, p)
                 PROVE  Meets(final, calls, s[c.base], c, p, E[out], InChain(k, c, p, E))
      BY DEF Told
    <2>1. c.base \in GroupBase /\ c.group = NULL /\ s[c.base] = 0
      BY <1>3, <1>6 DEF Concerned
    <2>2. E[inv] = "DROP"
      BY DEF Ideal
    <2>3. Admits(InvalidTests, p) <=> p.state = "INVALID"
      <3> DEFINE flag == "--ctstate"
                 val == "INVALID"
      <3>1. FlagOf(p, flag) = p.state
        BY DEF FlagOf
      <3>2. InvalidTests = {Only(flag, val)}
        BY DEF InvalidTests
      <3> HIDE DEF flag, val
      <3>3. Admits({Only(flag, val)}, p) <=> FlagOf(p, flag) = val
        BY OneAdmits
      <3> QED
        BY <3>1, <3>2, <3>3 DEF val
    <2>4. ByTarget(Guard, p, E) = IF p.state = "INVALID" THEN "DROP" ELSE "RETURN"
      <3> DEFINE tests == InvalidTests
      <3>1. inv.base \in FilterBase
        BY DEF Base, FilterBase
      <3>2. Guard = [tests |-> tests, jump |-> inv]
        BY DEF Guard
      <3> HIDE DEF tests, inv
      <3>3. /\ ~Admits(tests, p) => ByTarget([tests |-> tests, jump |-> inv], p, E) = "RETURN"
            /\ Admits(tests, p) => ByTarget([tests |-> tests, jump |-> inv], p, E) = E[inv]
        BY <3>1, TargetSays
      <3> QED
        BY <2>2, <2>3, <3>2, <3>3 DEF tests
    <2>5. CASE p.state = "INVALID"
      <3>1. c.base \in Builtin
        BY <2>1, <2>5 DEF Concerned, BackOnly
      <3>2. InChain(k, c, p, E) = "DROP"
        BY <1>6, <2>1, <2>4, <2>5, <3>1, OneRule
      <3> QED
        BY <2>1, <2>5, <3>2 DEF Meets
    <2>6. CASE p.state # "INVALID"
      <3>1. InChain(k, c, p, E) = "RETURN"
        BY <1>6, <2>1, <2>4, <2>6, OneRule
      <3>2. SideAt(calls, 0, c.group, Way(c.base), p) = "RETURN"
        <4> DEFINE g == c.group
                   dir == Way(c.base)
        <4>1. g \in Group
          BY <2>1 DEF Group
        <4> HIDE DEF g, dir
        <4>2. /\ Heard("answer", calls, dir, p)[0][g] = "RETURN"
              /\ Heard("rule", calls, dir, p)[0][g] = "RETURN"
          BY <1>2, <4>1, HeardAtFirst
        <4>3. SideAt(calls, 0, g, dir, p) = "RETURN"
          BY <4>2 DEF SideAt, Then
        <4> QED
          BY <4>3 DEF g, dir
      <3> QED
        BY <2>1, <2>6, <3>1, <3>2 DEF Meets, Renders, Passed
    <2> QED
      BY <2>5, <2>6
  <1>8. Led(calls, s, k)
    <2> SUFFICES ASSUME NEW c \in Exists(k), c.base \in GroupBase, NEW i \in 1..Len(k.rules[c])
                 PROVE  GoesTo(calls, s, c, k.rules[c][i].jump)
      BY DEF Led
    <2>1. c.base \in Builtin /\ k.rules[c] = <<Guard>> /\ c.group = NULL
      BY <1>6
    <2>2. k.rules[c][i] = Guard
      <3> HIDE DEF Guard
      <3> QED
        BY <2>1
    <2> QED
      BY <2>1, <2>2 DEF GoesTo, Guard
  <1> QED
    BY <1>1, <1>3, <1>4, <1>5, <1>7, <1>8 DEF Shaped

(* The skeleton's own chains, and what is in them.                         *)
LEMMA GroundThrough ==
    ASSUME NEW calls, NEW rank, Course(calls, rank), NEW final \in BOOLEAN, NEW A, NEW old,
           NEW s, Through(A, s, Rising(BuiltinFilter, FALSE, {}), Waning(old))
    PROVE  Through(A, s \o << NewChain(Base("FORW_OUT")), NewChain(Base("INVALID")) >>
                        \o Put("-A", Base("INVALID"), {}, Base("DROP"))
                        \o Put("-I", Base("INPUT"), InvalidTests, Base("INVALID"))
                        \o Put("-I", Base("OUTPUT"), InvalidTests, Base("INVALID"))
                        \o Put("-I", Base("FORWARD"), InvalidTests, Base("INVALID")),
                   Having(final, calls, Evenly(0), Built(calls, 0)), Waning(old))
  <1> DEFINE out == Base("FORW_OUT")
             inv == Base("INVALID")
             I == Waning(old)
             no == FALSE
             yes == TRUE
             G0 == {}
             G1 == G0 \union {"INPUT"}
             G2 == G1 \union {"OUTPUT"}
             G3 == G2 \union {"FORWARD"}
             C0 == BuiltinFilter
             C1 == C0 \union {out}
             C2 == C1 \union {inv}
             n1 == << NewChain(out) >>
             n2 == << NewChain(inv) >>
             p0 == Put("-A", inv, {}, Base("DROP"))
             p1 == Put("-I", Base("INPUT"), InvalidTests, inv)
             p2 == Put("-I", Base("OUTPUT"), InvalidTests, inv)
             p3 == Put("-I", Base("FORWARD"), InvalidTests, inv)
             B3 == Rising(Ground, yes, G3)
             D == Having(final, calls, Evenly(0), Built(calls, 0))
  <1>1. /\ out \in Chain /\ Table(out) = "filter" /\ out \notin C0
        /\ inv \in Chain /\ Table(inv) = "filter" /\ inv \notin C1
        /\ C2 = Ground /\ G3 = Builtin
    BY DEF Base, Chain, Group, Table, NatBase, FilterBase, BuiltinFilter, Builtin, Ground
  <1>2. << NewChain(out), NewChain(inv) >> = n1 \o n2
    OBVIOUS
  <1>3. Through(Rising(C0, no, G0), n1, Rising(C1, no, G0), I)
    <2> HIDE DEF out, C0
    <2> QED
      BY <1>1, GroundNew
  <1>4. Through(Rising(C1, no, G0), n2, Rising(C2, no, G0), I)
    <2> HIDE DEF inv, C1
    <2> QED
      BY <1>1, GroundNew
  <1>5. Through(Rising(Ground, no, G0), p0, Rising(Ground, yes, G0), I)
    <2> DEFINE op == "-A"
               tests == {}
               jump == Base("DROP")
    <2>1. /\ op \in {"-A", "-I"} /\ inv \in Ground /\ tests \in SUBSET Test
          /\ jump \in Ground \union {Base("DROP")}
      BY DEF Ground, FilterBase
    <2>2. Laid(no, G0, inv) = <<>> /\ Laid(yes, G0, inv) = << [tests |-> tests, jump |-> jump] >>
      BY DEF Laid, If, DropAll
    <2>3. \A a \in Ground : a # inv => Laid(yes, G0, a) = Laid(no, G0, a)
      BY DEF Laid
    <2> HIDE DEF op, tests, jump, inv, no, yes, G0
    <2>4. Through(Rising(Ground, no, G0), Put(op, inv, tests, jump), Rising(Ground, yes, G0), Waning(old))
      BY <2>1, <2>2, <2>3, GroundPut
    <2> QED
      BY <2>4 DEF op, tests, jump
  <1>6. ASSUME NEW b \in Builtin, NEW G, b \notin G
        PROVE  Through(Rising(Ground, yes, G), Put("-I", Base(b), InvalidTests, inv),
                       Rising(Ground, yes, G \union {b}), I)
    <2> DEFINE op == "-I"
               tests == InvalidTests
               c == Base(b)
               H == G \union {b}
    <2>1. /\ op \in {"-A", "-I"} /\ c \in Ground /\ c.base = b /\ c # inv
          /\ inv \in Ground \union {Base("DROP")}
          /\ \A a \in Ground : a # c => a.base # b
      BY DEF Ground, FilterBase, Base, Builtin
    <2>2. tests \in SUBSET Test
      BY DEF InvalidTests, Only, Test, Flag, State
    <2>3. Laid(yes, G, c) = <<>> /\ Laid(yes, H, c) = << [tests |-> tests, jump |-> inv] >>
      BY <1>6, <2>1 DEF Laid, If, Guard
    <2>4. \A a \in Ground : a # c => Laid(yes, H, a) = Laid(yes, G, a)
      BY <2>1 DEF Laid, If
    <2> HIDE DEF op, tests, c, inv, yes, H
    <2>5. Through(Rising(Ground, yes, G), Put(op, c, tests, inv), Rising(Ground, yes, H), Waning(old))
      BY <2>1, <2>2, <2>3, <2>4, GroundPut
    <2> QED
      BY <2>5 DEF op, tests, c, H
  <1>7. /\ Through(Rising(Ground, yes, G0), p1, Rising(Ground, yes, G1), I)
        /\ Through(Rising(Ground, yes, G1), p2, Rising(Ground, yes, G2), I)
        /\ Through(Rising(Ground, yes, G2), p3, Rising(Ground, yes, G3), I)
    <2>1. /\ "INPUT" \in Builtin /\ "INPUT" \notin G0
          /\ "OUTPUT" \in Builtin /\ "OUTPUT" \notin G1
          /\ "FORWARD" \in Builtin /\ "FORWARD" \notin G2
      BY DEF Builtin
    <2> HIDE DEF yes, inv, I, G0
    <2> QED
      BY <1>6, <2>1
  <1>8. B3 \subseteq D
    <2>1. Built(calls, 0) = Ground
      BY DEF Built, Announced
    <2>2. ASSUME NEW k \in B3
          PROVE  k \in D
      <3> DEFINE t == Evenly(0)
      <3>1. FilterChains(k) = Ground
        BY DEF Rising
      <3>2. t = Evenly(0) /\ yes = TRUE /\ k \in Rising(Ground, yes, Builtin)
        BY <1>1
      <3> HIDE DEF t, yes
      <3>3. Shaped(final, calls, t, k)
        BY <3>2, RisingShaped
      <3> QED
        BY <2>1, <3>1, <3>3, HavingIs DEF t
    <2> QED
      BY <2>2
  <1>9. Through(A, s, Rising(C0, no, G0), I)
    OBVIOUS
  <1> HIDE DEF n1, n2, p0, p1, p2, p3, no, yes, G0, G1, G2, G3, C0, C1, I
  <1>10. Through(Rising(C0, no, G0), n1 \o n2, Rising(Ground, no, G0), I)
    BY <1>1, <1>3, <1>4, ThroughOn
  <1>11. Through(A, s \o (n1 \o n2), Rising(Ground, no, G0), I)
    BY <1>9, <1>10, ThroughOn
  <1>12. Through(A, s \o (n1 \o n2) \o p0, Rising(Ground, yes, G0), I)
    BY <1>5, <1>11, ThroughOn
  <1>13. Through(A, s \o (n1 \o n2) \o p0 \o p1, Rising(Ground, yes, G1), I)
    BY <1>7, <1>12, ThroughOn
  <1>14. Through(A, s \o (n1 \o n2) \o p0 \o p1 \o p2, Rising(Ground, yes, G2), I)
    BY <1>7, <1>13, ThroughOn
  <1>15. Through(A, s \o (n1 \o n2) \o p0 \o p1 \o p2 \o p3, B3, I)
    BY <1>7, <1>14, ThroughOn
  <1> HIDE DEF B3, D
  <1>16. Through(A, s \o (n1 \o n2) \o p0 \o p1 \o p2 \o p3, D, I)
    BY <1>8, <1>15, ThroughWider
  <1> QED
    BY <1>2, <1>16 DEF D, I, p0, p1, p2, p3


(* The skeleton of the iptables backend (fg_iptables_common).              *)
LEMMA SkeletonThrough ==
    ASSUME NEW calls, NEW rank, Course(calls, rank), NEW final \in BOOLEAN, NEW old, NEW f
    PROVE  Through(Halfway(old, {}), Skeleton(f),
                   Having(final, calls, Evenly(0), Built(calls, 0)), Waning(old))
  <1> DEFINE A == Halfway(old, {})
             I == Waning(old)
             B == Rising(BuiltinFilter, FALSE, {})
             s == FlushCommands("DROP", f)
             x == FlushTable("nat")
             inet == f = "AF_INET"
  <1>1. Through(A, SetPolicy("DROP"), Halfway(old, Builtin), I)
    BY PoliciesThrough
  <1>2. Through(Halfway(old, Builtin), FlushTable("filter"), B, I)
    BY SweptThrough
  <1>3. Through(B, If(inet, x), B, I)
    <2> DEFINE no == FALSE
               G == {}
               C == BuiltinFilter
               R == Rising(C, no, G)
    <2> HIDE DEF no, G, C
    <2>1. Through(R, x, R, I)
      BY NatFlushThrough
    <2>2. \A k \in R : IsKernel(k) /\ k \in R /\ k \in I
      BY RisingBarren
    <2> HIDE DEF R, I, x, inet
    <2>3. Through(R, If(inet, x), R, I)
      BY <2>1, <2>2, ThroughIf
    <2> QED
      BY <2>3 DEF R, no, G, C
  <1>4. s = SetPolicy("DROP") \o FlushTable("filter") \o If(inet, x)
    BY DEF FlushCommands
  <1> HIDE DEF A, B, I, inet, x
  <1>5. Through(A, SetPolicy("DROP") \o FlushTable("filter"), B, I)
    BY <1>1, <1>2, ThroughOn
  <1>6. Through(A, SetPolicy("DROP") \o FlushTable("filter") \o If(inet, x), B, I)
    BY <1>3, <1>5, ThroughOn
  <1>7. Through(A, s, Rising(BuiltinFilter, FALSE, {}), Waning(old))
    BY <1>4, <1>6 DEF B, I
  <1> HIDE DEF s
  <1>8. Through(A, s \o << NewChain(Base("FORW_OUT")), NewChain(Base("INVALID")) >>
                     \o Put("-A", Base("INVALID"), {}, Base("DROP"))
                     \o Put("-I", Base("INPUT"), InvalidTests, Base("INVALID"))
                     \o Put("-I", Base("OUTPUT"), InvalidTests, Base("INVALID"))
                     \o Put("-I", Base("FORWARD"), InvalidTests, Base("INVALID")),
                Having(final, calls, Evenly(0), Built(calls, 0)), Waning(old))
    BY <1>7, GroundThrough
  <1> QED
    BY <1>8 DEF Skeleton, s, A
=============================================================================
