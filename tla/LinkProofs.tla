------------------------------ MODULE LinkProofs --------------------------------
(***************************************************************************)
(* Proofs about Link, for every build: what the rules make of the targets, *)
(* what each package is compiled against, and what the linker gets.        *)
(***************************************************************************)
EXTENDS Link, FiniteSetTheorems, SequenceTheorems, WellFoundedInduction, TLAPS

-----------------------------------------------------------------------------
(* Sequences *)

IsSeq(s) == Len(s) \in Nat /\ s = [n \in 1..Len(s) |-> s[n]]

\* What is known of a sequence.
LEMMA SeqFacts ==
    ASSUME NEW s, IsSeq(s)
    PROVE  /\ s \in Seq(Range(s)) /\ Len(s) \in Nat /\ DOMAIN s = 1..Len(s)
           /\ \A n \in 1..Len(s) : s[n] \in Range(s)
  BY DEF IsSeq, Range

\* Induction over an interval, for a set that is closed under its successor.
LEMMA SetInduction ==
    ASSUME NEW N \in Nat, NEW S, 0 \in S,
           \A n \in 0..N : n # N /\ n \in S => n + 1 \in S
    PROVE  0..N \subseteq S
  <1> SUFFICES ASSUME (0..N) \ S # {} PROVE FALSE
    OBVIOUS
  <1> DEFINE R == OpToRel(<, Nat)
             T == (0..N) \ S
  <1>1. IsWellFoundedOn(R, Nat) BY NatLessThanWellFounded
  <1>2. T \subseteq Nat /\ T # {} OBVIOUS
  <1>3. \E x \in T : \A y \in T : ~(<<y, x>> \in R)
    <2> HIDE DEF R, T
    <2> QED BY <1>1, <1>2, WFMin
  <1>4. PICK x \in T : \A y \in T : ~(<<y, x>> \in R) BY <1>3
  <1>5. x \in 0..N /\ x \notin S /\ x # 0 OBVIOUS
  <1>6. x - 1 \in 0..N /\ <<x - 1, x>> \in R BY <1>5 DEF OpToRel
  <1>7. x - 1 \in S BY <1>4, <1>6
  <1>8. x - 1 # N /\ (x - 1) + 1 = x BY <1>5
  <1> HIDE DEF R, T
  <1> QED BY <1>5, <1>6, <1>7, <1>8

\* A set of places has a first and a last one.
LEMMA FirstLast ==
    ASSUME NEW N \in Nat, NEW S, S \subseteq 1..N, S # {}
    PROVE  (\E m \in S : \A n \in S : m <= n) /\ (\E m \in S : \A n \in S : n <= m)
  <1> DEFINE R == OpToRel(<, Nat)
             T == {N - n : n \in S}
  <1>1. IsWellFoundedOn(R, Nat) BY NatLessThanWellFounded
  <1>2. S \subseteq Nat OBVIOUS
  <1>3. T \subseteq Nat /\ T # {}
    <2>1. \A n \in S : N - n \in Nat OBVIOUS
    <2>2. T # {} OBVIOUS
    <2> QED BY <2>1, <2>2
  <1>4. \E x \in S : \A y \in S : ~(<<y, x>> \in R)
    <2> HIDE DEF R
    <2> QED BY <1>1, <1>2, WFMin
  <1>5. \E x \in T : \A y \in T : ~(<<y, x>> \in R)
    <2> HIDE DEF R, T
    <2> QED BY <1>1, <1>3, WFMin
  <1>6. \A x, y \in Nat : ~(<<y, x>> \in R) => x <= y BY DEF OpToRel
  <1>7. PICK x \in T : \A y \in T : ~(<<y, x>> \in R) BY <1>5
  <1>8. PICK m \in S : x = N - m OBVIOUS
  <1> HIDE DEF R
  <1>9. \A n \in S : n <= m
    <2> TAKE n \in S
    <2>1. N - n \in T /\ N - n \in Nat /\ x \in Nat OBVIOUS
    <2>2. x <= N - n BY <1>6, <1>7, <2>1
    <2>3. n \in Nat /\ m \in Nat OBVIOUS
    <2> QED BY <1>8, <2>2, <2>3
  <1> QED BY <1>2, <1>4, <1>6, <1>9

\* A loop of m rounds has a result.
Looped(S, a, m, F) == \E h \in [0..m -> S] : \A q \in 0..m : h[q] = IF q = 0 THEN a ELSE F[q][h[q - 1]]
LEMMA Rounds ==
    ASSUME NEW S, NEW a \in S, NEW m \in Nat, NEW F \in [1..m -> [S -> S]]
    PROVE  Looped(S, a, m, F)
  <1> DEFINE Is(h, k) == \A q \in 0..k : h[q] = IF q = 0 THEN a ELSE F[q][h[q - 1]]
             G == {k \in 0..m : \E h \in [0..k -> S] : Is(h, k)}
  <1>1. 0 \in G
    <2> DEFINE j == [q \in 0..0 |-> a]
    <2>1. j \in [0..0 -> S] /\ Is(j, 0) /\ 0 \in 0..m OBVIOUS
    <2> HIDE DEF j, Is
    <2> QED BY <2>1
  <1>2. ASSUME NEW l \in 0..m, l # m, l \in G PROVE l + 1 \in G
    <2> DEFINE k == l + 1
    <2>1. PICK h \in [0..l -> S] : Is(h, l) BY <1>2
    <2> DEFINE j == [q \in 0..k |-> IF q = k THEN F[k][h[l]] ELSE h[q]]
    <2>2. k \in 1..m /\ k - 1 = l /\ l \in 0..l /\ \A q \in 0..k : q = k \/ q \in 0..l BY <1>2
    <2>3. F[k][h[l]] \in S
      <3>1. h[l] \in S /\ F[k] \in [S -> S] BY <2>2
      <3> QED BY <3>1
    <2>4. j \in [0..k -> S] BY <2>2, <2>3
    <2>5. \A q \in 0..k : j[q] = IF q = 0 THEN a ELSE F[q][j[q - 1]]
      <3> TAKE q \in 0..k
      <3>1. CASE q = k
        <4>1. k # 0 /\ k - 1 # k /\ k - 1 \in 0..k BY <2>2
        <4> QED BY <2>2, <3>1, <4>1
      <3>2. CASE q # k
        <4>1. q \in 0..l /\ (q # 0 => q - 1 \in 0..k /\ q - 1 # k) BY <2>2, <3>2
        <4> QED BY <3>2, <4>1, <2>1
      <3> QED BY <3>1, <3>2
    <2> HIDE DEF j
    <2>6. k \in 0..m /\ Is(j, k) BY <2>2, <2>5
    <2> HIDE DEF Is, k
    <2>7. k \in G BY <2>4, <2>6
    <2> QED BY <2>7 DEF k
  <1> HIDE DEF G
  <1>3. 0..m \subseteq G BY <1>1, <1>2, SetInduction
  <1>4. m \in 0..m OBVIOUS
  <1> QED BY <1>3, <1>4 DEF G, Looped

\* Kept(s, P) has the elements of s at the places in P: each place in P is the origin of one of its
\* elements, and each of its elements has one origin.
LEMMA KeptIs ==
    ASSUME NEW T, NEW s \in Seq(T), NEW P, P \subseteq DOMAIN s
    PROVE  /\ Kept(s, P) \in Seq(T)
           /\ \E o \in [DOMAIN Kept(s, P) -> P] :
                 /\ \A i \in DOMAIN Kept(s, P) : Kept(s, P)[i] = s[o[i]]
                 /\ \A i, j \in DOMAIN Kept(s, P) : o[i] = o[j] => i = j
                 /\ \A n \in P : \E i \in DOMAIN Kept(s, P) : o[i] = n
  <1> DEFINE N == Len(s)
             F == [n \in 1..N |-> [k \in Seq(T) |-> IF n \in P THEN Append(k, s[n]) ELSE k]]
             Def(f) == f = [n \in 0..N |-> IF n = 0 THEN <<>> ELSE IF n \in P THEN Append(f[n - 1], s[n]) ELSE f[n - 1]]
  <1>1. N \in Nat /\ DOMAIN s = 1..N /\ \A n \in 1..N : s[n] \in T OBVIOUS
  <1>2. F \in [1..N -> [Seq(T) -> Seq(T)]] BY <1>1
  <1>3. <<>> \in Seq(T) OBVIOUS
  <1>4. PICK h \in [0..N -> Seq(T)] : \A q \in 0..N : h[q] = IF q = 0 THEN <<>> ELSE F[q][h[q - 1]]
    <2> DEFINE S == Seq(T)
               e == <<>>
    <2>1. e \in S /\ N \in Nat BY <1>3
    <2>2. F \in [1..N -> [S -> S]] BY <1>2
    <2> HIDE DEF F, S, e, N, Def
    <2>3. Looped(S, e, N, F) BY <2>1, <2>2, Rounds
    <2> QED BY <2>3 DEF S, e, Looped
  <1>5. Def(h)
    <2>1. h = [n \in 0..N |-> h[n]] OBVIOUS
    <2>2. ASSUME NEW n \in 0..N
          PROVE  h[n] = IF n = 0 THEN <<>> ELSE IF n \in P THEN Append(h[n - 1], s[n]) ELSE h[n - 1]
      <3>1. n # 0 => n \in 1..N /\ h[n - 1] \in Seq(T) BY <1>1
      <3> QED BY <1>4, <3>1
    <2> QED BY <2>1, <2>2
  <1> DEFINE k == CHOOSE f : Def(f)
  <1>6. Def(k)
    <2> HIDE DEF Def
    <2> QED BY <1>5
  <1>7. Kept(s, P) = k[N] BY DEF Kept
  <1> HIDE DEF k, F
  <1> DEFINE Origin(n, o) ==
                 /\ o \in [1..Len(k[n]) -> P \cap 1..n]
                 /\ \A i \in 1..Len(k[n]) : k[n][i] = s[o[i]]
                 /\ \A i, j \in 1..Len(k[n]) : o[i] = o[j] => i = j
                 /\ \A m \in P \cap 1..n : \E i \in 1..Len(k[n]) : o[i] = m
             Good == {n \in 0..N : k[n] \in Seq(T) /\ \E o : Origin(n, o)}
  <1>8. 0 \in Good
    <2>1. k[0] = <<>> /\ 0 \in 0..N BY <1>1, <1>6
    <2>2. Len(k[0]) = 0 /\ 1..0 = {} /\ k[0] \in Seq(T) BY <2>1
    <2> DEFINE o == [i \in {} |-> 0]
    <2>3. o \in [1..Len(k[0]) -> P \cap 1..0] BY <2>2
    <2>4. Origin(0, o) BY <2>2, <2>3
    <2> HIDE DEF Origin
    <2> QED BY <2>1, <2>2, <2>4
  <1>9. ASSUME NEW n \in 0..N, n # N, n \in Good PROVE n + 1 \in Good
    <2>1. n + 1 \in 1..N /\ n + 1 \in 0..N /\ n \in Nat /\ s[n + 1] \in T /\ (n + 1) - 1 = n /\ n + 1 # 0
      BY <1>1, <1>9
    <2>2. k[n + 1] = IF n + 1 \in P THEN Append(k[n], s[n + 1]) ELSE k[n] BY <1>6, <2>1
    <2>3. k[n] \in Seq(T) /\ Len(k[n]) \in Nat BY <1>9
    <2>4. PICK o : Origin(n, o) BY <1>9
    <2>5. CASE n + 1 \notin P
      <3>1. P \cap 1..(n + 1) = P \cap 1..n BY <2>1, <2>5
      <3>2. Origin(n + 1, o) BY <2>2, <2>4, <2>5, <3>1
      <3> HIDE DEF Origin
      <3> QED BY <2>1, <2>2, <2>3, <2>5, <3>2
    <2>6. CASE n + 1 \in P
      <3> DEFINE L == Len(k[n])
                 l == Append(k[n], s[n + 1])
                 p == [i \in 1..(L + 1) |-> IF i = L + 1 THEN n + 1 ELSE o[i]]
      <3>1. l \in Seq(T) /\ Len(l) = L + 1 /\ l[L + 1] = s[n + 1] /\ \A i \in 1..L : l[i] = k[n][i]
        BY <2>1, <2>3
      <3>2. \A i \in 1..(L + 1) : i = L + 1 \/ i \in 1..L BY <2>3
      <3>3. \A i \in 1..L : i # L + 1 /\ p[i] = o[i] /\ o[i] \in P \cap 1..n /\ i \in 1..(L + 1)
        <4> TAKE i \in 1..L
        <4>1. i # L + 1 /\ i \in 1..(L + 1) BY <2>3
        <4>2. o[i] \in P \cap 1..n BY <2>4
        <4> QED BY <4>1, <4>2
      <3>4. p[L + 1] = n + 1 /\ L + 1 \in 1..(L + 1) BY <2>3
      <3>5. P \cap 1..(n + 1) = (P \cap 1..n) \cup {n + 1} /\ n + 1 \notin 1..n BY <2>1, <2>6
      <3>6. p \in [1..(L + 1) -> P \cap 1..(n + 1)] BY <3>2, <3>3, <3>4, <3>5
      <3> HIDE DEF p, l, L
      <3>7. \A i \in 1..(L + 1) : l[i] = s[p[i]] BY <2>4, <3>1, <3>2, <3>3, <3>4 DEF L
      <3>8. \A i, j \in 1..(L + 1) : p[i] = p[j] => i = j
        <4> TAKE i, j \in 1..(L + 1)
        <4>1. CASE i = L + 1 /\ j # L + 1 BY <3>2, <3>3, <3>4, <3>5, <4>1
        <4>2. CASE i # L + 1 /\ j = L + 1 BY <3>2, <3>3, <3>4, <3>5, <4>2
        <4>3. CASE i # L + 1 /\ j # L + 1
          <5>1. i \in 1..L /\ j \in 1..L BY <3>2, <4>3
          <5> QED BY <2>4, <3>3, <5>1 DEF L
        <4> QED BY <4>1, <4>2, <4>3
      <3>9. \A m \in P \cap 1..(n + 1) : \E i \in 1..(L + 1) : p[i] = m
        <4> TAKE m \in P \cap 1..(n + 1)
        <4>1. CASE m = n + 1 BY <3>4, <4>1
        <4>2. CASE m # n + 1
          <5>1. PICK i \in 1..L : o[i] = m BY <2>4, <3>5, <4>2 DEF L
          <5> QED BY <3>3, <5>1
        <4> QED BY <4>1, <4>2
      <3>10. k[n + 1] = l BY <2>2, <2>6 DEF l
      <3>11. Origin(n + 1, p) BY <3>1, <3>6, <3>7, <3>8, <3>9, <3>10
      <3> HIDE DEF Origin
      <3> QED BY <2>1, <3>1, <3>10, <3>11
    <2> QED BY <2>5, <2>6
  <1>10. N \in Good
    <2>1. 0..N \subseteq Good
      <3> HIDE DEF Good
      <3> QED BY <1>1, <1>8, <1>9, SetInduction
    <2>2. N \in 0..N BY <1>1
    <2> HIDE DEF Good, N
    <2> QED BY <2>1, <2>2
  <1>11. PICK o : Origin(N, o) BY <1>10
  <1>12. k[N] \in Seq(T) /\ DOMAIN k[N] = 1..Len(k[N]) BY <1>10
  <1>13. P \cap 1..N = P BY <1>1
  <1> DEFINE K == Kept(s, P)
  <1>14. K = k[N] /\ DOMAIN K = 1..Len(k[N]) BY <1>7, <1>12
  <1> HIDE DEF K
  <1>15. /\ o \in [DOMAIN K -> P]
         /\ \A i \in DOMAIN K : K[i] = s[o[i]]
         /\ \A i, j \in DOMAIN K : o[i] = o[j] => i = j
         /\ \A n \in P : \E i \in DOMAIN K : o[i] = n
    BY <1>11, <1>13, <1>14
  <1>16. K \in Seq(T) BY <1>12, <1>14
  <1> QED BY <1>15, <1>16 DEF K

\* The elements of Kept(s, P) are those of s at P, and no more often than at P.
Picked(K, s, P, T) ==
    /\ K \in Seq(T) /\ Range(K) = {s[n] : n \in P}
    /\ \A i, j \in DOMAIN K : i # j => \E m, n \in P : m # n /\ K[i] = s[m] /\ K[j] = s[n]
LEMMA KeptRange ==
    ASSUME NEW T, NEW s \in Seq(T), NEW P, P \subseteq DOMAIN s
    PROVE  Picked(Kept(s, P), s, P, T)
  <1> DEFINE K == Kept(s, P)
  <1>1. PICK o \in [DOMAIN K -> P] :
                 /\ \A i \in DOMAIN K : K[i] = s[o[i]]
                 /\ \A i, j \in DOMAIN K : o[i] = o[j] => i = j
                 /\ \A n \in P : \E i \in DOMAIN K : o[i] = n
    BY KeptIs
  <1>2. K \in Seq(T) BY KeptIs
  <1> HIDE DEF K
  <1>3. Range(K) = {s[n] : n \in P}
    <2>1. \A i \in DOMAIN K : K[i] \in {s[n] : n \in P} BY <1>1
    <2>2. \A n \in P : s[n] \in Range(K) BY <1>1 DEF Range
    <2> QED BY <2>1, <2>2 DEF Range
  <1>4. \A i, j \in DOMAIN K : i # j => \E m, n \in P : m # n /\ K[i] = s[m] /\ K[j] = s[n]
    BY <1>1
  <1> QED BY <1>2, <1>3, <1>4 DEF K, Picked

\* A set of targets as a sequence in the order of their numbers.
LEMMA SortedIs ==
    ASSUME Main \in Nat, NEW S, S \subseteq 1..Main
    PROVE  /\ SortedSeq(S) \in Seq(1..Main)
           /\ Range(SortedSeq(S)) = S
           /\ \A i, j \in DOMAIN SortedSeq(S) : i # j => SortedSeq(S)[i] # SortedSeq(S)[j]
  <1> DEFINE N == Main
             s == [n \in 1..N |-> n]
             T == 1..N
  <1>1. s \in Seq(T) /\ S \subseteq DOMAIN s OBVIOUS
  <1>2. \A n \in S : s[n] = n OBVIOUS
  <1>3. SortedSeq(S) = Kept(s, S) BY DEF SortedSeq
  <1> HIDE DEF s, N, T
  <1>4. Picked(Kept(s, S), s, S, T) BY <1>1, KeptRange
  <1>5. {s[n] : n \in S} = S BY <1>2
  <1> DEFINE K == SortedSeq(S)
  <1>6. Picked(K, s, S, T) BY <1>3, <1>4
  <1> HIDE DEF K
  <1>7. K \in Seq(T) /\ Range(K) = S BY <1>5, <1>6 DEF Picked
  <1>8. \A i, j \in DOMAIN K : i # j => K[i] # K[j] BY <1>2, <1>6 DEF Picked
  <1> QED BY <1>7, <1>8 DEF T, N, K

\* Of archives with one path the first is kept.
LEMMA DedupIs ==
    ASSUME NEW T, NEW deps \in Seq(T), NEW pathOf
    PROVE  LET d == dedup_archives(deps, pathOf) IN
           /\ d \in Seq(T)
           /\ Range(d) \subseteq Range(deps)
           /\ \A i, j \in DOMAIN d : i # j => pathOf[d[i]] # pathOf[d[j]]
           /\ \A n \in DOMAIN deps : (\A m \in 1..(n - 1) : pathOf[deps[m]] # pathOf[deps[n]]) => deps[n] \in Range(d)
           /\ (\A m, n \in DOMAIN deps : m # n => pathOf[deps[m]] # pathOf[deps[n]]) => Range(d) = Range(deps)
  <1> DEFINE P == {n \in DOMAIN deps : \A m \in 1..(n - 1) : pathOf[deps[m]] # pathOf[deps[n]]}
             d == Kept(deps, P)
  <1>1. d = dedup_archives(deps, pathOf) BY DEF dedup_archives
  <1>2. P \subseteq DOMAIN deps OBVIOUS
  <1>3. DOMAIN deps = 1..Len(deps) /\ Len(deps) \in Nat OBVIOUS
  <1>4. \A m, n \in P : m # n => pathOf[deps[m]] # pathOf[deps[n]]
    <2> TAKE m, n \in P
    <2> HAVE m # n
    <2>1. m \in Nat /\ n \in Nat /\ m >= 1 /\ n >= 1 BY <1>3
    <2>2. CASE m < n
      <3>1. m \in 1..(n - 1) BY <2>1, <2>2
      <3> QED BY <3>1
    <2>3. CASE n < m
      <3>1. n \in 1..(m - 1) BY <2>1, <2>3
      <3> QED BY <3>1
    <2> QED BY <2>1, <2>2, <2>3
  <1> HIDE DEF P
  <1>5. /\ d \in Seq(T)
        /\ Range(d) = {deps[n] : n \in P}
        /\ \A i, j \in DOMAIN d : i # j => \E m, n \in P : m # n /\ d[i] = deps[m] /\ d[j] = deps[n]
    BY <1>2, KeptRange DEF Picked
  <1> HIDE DEF d
  <1>6. Range(d) \subseteq Range(deps) BY <1>2, <1>5 DEF Range
  <1>7. \A i, j \in DOMAIN d : i # j => pathOf[d[i]] # pathOf[d[j]] BY <1>4, <1>5
  <1>8. \A n \in DOMAIN deps : (\A m \in 1..(n - 1) : pathOf[deps[m]] # pathOf[deps[n]]) => deps[n] \in Range(d)
    BY <1>5 DEF P
  <1>9. ASSUME \A m, n \in DOMAIN deps : m # n => pathOf[deps[m]] # pathOf[deps[n]]
        PROVE  Range(d) = Range(deps)
    <2>1. ASSUME NEW n \in DOMAIN deps PROVE deps[n] \in Range(d)
      <3>1. \A m \in 1..(n - 1) : m \in DOMAIN deps /\ m # n BY <1>3
      <3> QED BY <1>8, <1>9, <3>1
    <2> QED BY <1>6, <2>1 DEF Range
  <1> QED BY <1>1, <1>5, <1>6, <1>7, <1>8, <1>9

\* SetToSeq lists a finite set.
LEMMA ListIs ==
    ASSUME NEW S, IsFiniteSet(S)
    PROVE  SetToSeq(S) \in Seq(S) /\ Range(SetToSeq(S)) = S
  <1> DEFINE n == Cardinality(S)
             s == SetToSeq(S)
  <1>1. n \in Nat /\ ExistsBijection(1..n, S) BY FS_CardinalityType
  <1>2. PICK f \in Bijection(1..n, S) : TRUE BY <1>1 DEF ExistsBijection
  <1>3. f \in [1..n -> S] /\ IsInjective(f) BY <1>2 DEF Bijection, Injection, IsInjective
  <1>4. s \in [1..n -> S] /\ IsInjective(s) BY <1>3 DEF SetToSeq
  <1> HIDE DEF s, n
  <1>5. s \in Injection(1..n, S) BY <1>4 DEF Injection, IsInjective
  <1>6. IsFiniteSet(1..n) /\ Cardinality(1..n) = n BY <1>1, FS_Interval
  <1>7. s \in Surjection(1..n, S) BY <1>5, <1>6, FS_Injection DEF n
  <1>8. s \in Seq(S) BY <1>1, <1>4
  <1>9. Range(s) = S
    <2>1. \A x \in S : \E i \in 1..n : s[i] = x BY <1>7 DEF Surjection
    <2> QED BY <1>4, <2>1 DEF Range
  <1> QED BY <1>8, <1>9 DEF s

\* The dependencies of a target come first in what is merged with those of the embedded ones.
LEMMA MergedIs ==
    ASSUME NEW T, NEW deps \in Seq(T), NEW embeds, Len(embeds) \in Nat,
           \A n \in 1..Len(embeds) : embeds[n].deps \in Seq(T)
    PROVE  /\ MergedDeps(deps, embeds) \in Seq(T)
           /\ Len(deps) <= Len(MergedDeps(deps, embeds))
           /\ \A n \in 1..Len(deps) : MergedDeps(deps, embeds)[n] = deps[n]
  <1> DEFINE N == Len(embeds)
             S == Seq(T)
             F == [n \in 1..N |-> [k \in S |-> k \o embeds[n].deps]]
             Def(f) == f = [n \in 0..N |-> IF n = 0 THEN deps ELSE f[n - 1] \o embeds[n].deps]
  <1>1. F \in [1..N -> [S -> S]] OBVIOUS
  <1>2. PICK h \in [0..N -> S] : \A q \in 0..N : h[q] = IF q = 0 THEN deps ELSE F[q][h[q - 1]]
    <2>1. deps \in S /\ N \in Nat OBVIOUS
    <2> HIDE DEF F, S, N, Def
    <2>2. Looped(S, deps, N, F) BY <1>1, <2>1, Rounds
    <2> QED BY <2>2 DEF Looped
  <1>3. Def(h)
    <2>1. h = [n \in 0..N |-> h[n]] OBVIOUS
    <2>2. ASSUME NEW n \in 0..N PROVE h[n] = IF n = 0 THEN deps ELSE h[n - 1] \o embeds[n].deps
      <3> HIDE DEF S
      <3>1. n # 0 => n \in 1..N /\ n - 1 \in 0..N OBVIOUS
      <3>2. n # 0 => h[n - 1] \in S BY <3>1
      <3> QED BY <1>2, <3>1, <3>2 DEF S
    <2> QED BY <2>1, <2>2
  <1> DEFINE k == CHOOSE f : Def(f)
  <1>4. Def(k)
    <2> HIDE DEF Def
    <2> QED BY <1>3
  <1>5. MergedDeps(deps, embeds) = k[N] BY DEF MergedDeps
  <1> HIDE DEF k, F
  <1> DEFINE Good == {n \in 0..N : /\ k[n] \in S /\ Len(deps) <= Len(k[n])
                                  /\ \A i \in 1..Len(deps) : k[n][i] = deps[i]}
  <1>6. 0 \in Good
    <2>1. 0 \in 0..N /\ k[0] = deps BY <1>4
    <2> QED BY <2>1
  <1>7. ASSUME NEW n \in 0..N, n # N, n \in Good PROVE n + 1 \in Good
    <2>1. n + 1 \in 1..N /\ n + 1 \in 0..N /\ (n + 1) - 1 = n /\ n + 1 # 0 BY <1>7
    <2> DEFINE x == k[n]
               y == embeds[n + 1].deps
    <2>2. k[n + 1] = x \o y BY <1>4, <2>1
    <2>3. x \in Seq(T) /\ y \in Seq(T) /\ Len(deps) <= Len(x) /\ \A i \in 1..Len(deps) : x[i] = deps[i]
      BY <1>7, <2>1
    <2> HIDE DEF x, y
    <2>4. x \o y \in Seq(T) /\ Len(x \o y) = Len(x) + Len(y) /\ \A i \in 1..Len(x) : (x \o y)[i] = x[i]
      BY <2>3
    <2>5. Len(x) \in Nat /\ Len(y) \in Nat /\ Len(deps) \in Nat BY <2>3
    <2>6. Len(deps) <= Len(x \o y) BY <2>3, <2>4, <2>5
    <2>7. \A i \in 1..Len(deps) : i \in 1..Len(x) BY <2>3, <2>5
    <2>8. \A i \in 1..Len(deps) : (x \o y)[i] = deps[i] BY <2>3, <2>4, <2>7
    <2> DEFINE z == x \o y
    <2> HIDE DEF z
    <2>9. k[n + 1] = z /\ z \in S /\ Len(deps) <= Len(z) /\ \A i \in 1..Len(deps) : z[i] = deps[i]
      BY <2>2, <2>4, <2>6, <2>8 DEF z
    <2> QED BY <2>1, <2>9
  <1>8. N \in Good
    <2> HIDE DEF Good
    <2>1. 0..N \subseteq Good BY <1>6, <1>7, SetInduction
    <2>2. N \in 0..N OBVIOUS
    <2> HIDE DEF N
    <2> QED BY <2>1, <2>2
  <1> QED BY <1>5, <1>8

\* The last definition of a variable decides.
LEMMA UpdatedLast ==
    ASSUME NEW definitions, NEW N \in Nat, DOMAIN definitions = 1..N, N # 0, NEW v \in DOMAIN definitions[N]
    PROVE  v \in DOMAIN Updated(definitions) /\ Updated(definitions)[v] = definitions[N][v]
  <1> DEFINE Is(n) == n \in DOMAIN definitions /\ v \in DOMAIN definitions[n]
                      /\ \A m \in DOMAIN definitions : v \in DOMAIN definitions[m] => m <= n
             Latest(w) == CHOOSE n \in DOMAIN definitions :
                       /\ w \in DOMAIN definitions[n]
                       /\ \A m \in DOMAIN definitions : w \in DOMAIN definitions[m] => m <= n
             D == UNION {DOMAIN definitions[n] : n \in DOMAIN definitions}
  <1>1. N \in DOMAIN definitions OBVIOUS
  <1>2. Is(N) BY <1>1
  <1>3. \A n : Is(n) => n = N
    <2> TAKE n
    <2> HAVE Is(n)
    <2>1. n \in Nat /\ n <= N /\ N <= n BY <1>1
    <2> QED BY <2>1
  <1>4. Latest(v) = N
    <2>1. Is(Latest(v)) BY <1>2
    <2> HIDE DEF Is, Latest
    <2> QED BY <1>3, <2>1
  <1>5. v \in D BY <1>1
  <1>6. Updated(definitions) = [w \in D |-> definitions[Latest(w)][w]] BY DEF Updated
  <1> HIDE DEF D, Latest
  <1> QED BY <1>4, <1>5, <1>6

-----------------------------------------------------------------------------
(* What the rules make of the targets *)

Prefix(a, k) == [m \in 1..k |-> a[m]]
Embedded(t, made) == [e \in DOMAIN t.embed |-> made[t.embed[e]].info]
PathOf(made) == [d \in DOMAIN made |-> made[d].info.importpath]
ArchiveOf(made, t) ==
    emit_archive(Len(made) + 1, new_go_info(t, Embedded(t, made), PathOf(made)), made)

LEMMA AnalyseIs == \A made, t : Analyse(made, t) = Append(made, ArchiveOf(made, t))
  BY DEF Analyse, ArchiveOf, Embedded, PathOf

\* Targets name earlier ones only.
Ordered(targets) ==
    /\ Len(targets) \in Nat
    /\ \A n \in 1..Len(targets) : targets[n].deps \in Seq(1..(n - 1)) /\ targets[n].embed \in Seq(1..(n - 1))

\* A sequence with one more element, as a function.
LEMMA AppendIs ==
    ASSUME NEW S, NEW x \in Seq(S), NEW y, NEW z, DOMAIN z = 1..(Len(x) + 1), z = [m \in DOMAIN z |-> z[m]],
           z[Len(x) + 1] = y, \A m \in 1..Len(x) : z[m] = x[m]
    PROVE  Append(x, y) = z
  <1> DEFINE w == Append(x, y)
             n == Len(x)
  <1>1. x \in Seq(S \cup {y}) /\ y \in S \cup {y} /\ n \in Nat OBVIOUS
  <1>2. w \in Seq(S \cup {y}) /\ Len(w) = n + 1 /\ w[n + 1] = y /\ \A m \in 1..n : w[m] = x[m] BY <1>1
  <1>3. DOMAIN w = 1..(n + 1) /\ w = [m \in DOMAIN w |-> w[m]]
    <2> HIDE DEF w, n
    <2> QED BY <1>2
  <1>4. \A m \in 1..(n + 1) : m = n + 1 \/ m \in 1..n BY <1>1
  <1> HIDE DEF w
  <1>5. \A m \in 1..(n + 1) : w[m] = z[m] BY <1>2, <1>4
  <1>6. w = [m \in 1..(n + 1) |-> w[m]] /\ z = [m \in 1..(n + 1) |-> z[m]] BY <1>3
  <1> HIDE DEF n
  <1>7. w = z BY <1>5, <1>6
  <1> QED BY <1>7 DEF w

\* Each archive is made of its target and of the archives before it.
LEMMA AnalysedRaw ==
    ASSUME NEW targets, Ordered(targets)
    PROVE  LET a == Analysed(targets) IN
           /\ a = Prefix(a, Len(targets)) /\ DOMAIN a = 1..Len(targets)
           /\ \A n \in 1..Len(targets) :
                 a[n] = emit_archive(n, new_go_info(targets[n], Embedded(targets[n], Prefix(a, n - 1)),
                                                    PathOf(Prefix(a, n - 1))), Prefix(a, n - 1))
  <1> DEFINE N == Len(targets)
             Step1(f, n) == IF n = 0 THEN <<>> ELSE Analyse(f[n - 1], targets[n])
             Upto(f, m) == f = [n \in 0..m |-> Step1(f, n)]
             Built == {m \in 0..N : \E f : Upto(f, m)}
  <1>1. N \in Nat BY DEF Ordered
  <1>2. 0 \in Built
    <2>1. Upto([n \in 0..0 |-> <<>>], 0) OBVIOUS
    <2>2. 0 \in 0..N BY <1>1
    <2> HIDE DEF Upto
    <2> QED BY <2>1, <2>2
  <1>3. ASSUME NEW m \in 0..N, m # N, m \in Built PROVE m + 1 \in Built
    <2>1. PICK f : Upto(f, m) BY <1>3
    <2> DEFINE g == [n \in 0..(m + 1) |-> IF n = m + 1 THEN Step1(f, n) ELSE f[n]]
    <2>2. ASSUME NEW n \in 0..(m + 1) PROVE g[n] = Step1(g, n)
      <3>1. CASE n = m + 1
        <4>1. n # 0 /\ n - 1 \in 0..(m + 1) /\ n - 1 # m + 1 BY <1>1, <3>1
        <4>2. g[n - 1] = f[n - 1] BY <4>1
        <4>3. g[n] = Step1(f, n) BY <3>1
        <4> HIDE DEF g
        <4> QED BY <4>2, <4>3
      <3>2. CASE n # m + 1
        <4>1. n \in 0..m BY <1>1, <3>2
        <4>2. g[n] = f[n] /\ f[n] = Step1(f, n) BY <2>1, <3>2, <4>1
        <4>3. n # 0 => g[n - 1] = f[n - 1] BY <1>1, <4>1
        <4> HIDE DEF g
        <4> QED BY <4>2, <4>3
      <3> QED BY <3>1, <3>2
    <2>3. g = [n \in 0..(m + 1) |-> g[n]] OBVIOUS
    <2>4. Upto(g, m + 1)
      <3> HIDE DEF g
      <3> QED BY <2>2, <2>3
    <2>5. m + 1 \in 0..N BY <1>1, <1>3
    <2> HIDE DEF Upto, g
    <2> QED BY <2>4, <2>5
  <1>4. N \in Built
    <2>1. N \in 0..N BY <1>1
    <2> HIDE DEF Built
    <2>2. 0..N \subseteq Built BY <1>1, <1>2, <1>3, SetInduction
    <2> HIDE DEF N
    <2> QED BY <2>1, <2>2
  <1> DEFINE made == CHOOSE f : Upto(f, N)
  <1>5. Upto(made, N)
    <2>1. \E f : Upto(f, N) BY <1>4
    <2> HIDE DEF Upto
    <2> QED BY <2>1
  <1> DEFINE a == Analysed(targets)
             el(n) == ArchiveOf(made[n - 1], targets[n])
  <1>6. a = made[N] BY DEF Analysed
  <1> HIDE DEF made, a
  <1> DEFINE Good == {n \in 0..N : made[n] = [m \in 1..n |-> el(m)]}
  <1>7. 0 \in Good
    <2>1. made[0] = <<>> /\ 0 \in 0..N BY <1>1, <1>5
    <2>2. made[0] = [m \in 1..0 |-> el(m)] BY <2>1
    <2> QED BY <2>1, <2>2
  <1>8. ASSUME NEW n \in 0..N, n # N, n \in Good PROVE n + 1 \in Good
    <2>1. n + 1 \in 1..N /\ n + 1 \in 0..N /\ (n + 1) - 1 = n /\ n + 1 # 0 BY <1>1, <1>8
    <2>2. made[n + 1] = Analyse(made[n], targets[n + 1]) BY <1>5, <2>1
    <2>3. made[n + 1] = Append(made[n], el(n + 1)) BY <2>1, <2>2, AnalyseIs
    <2>4. made[n] = [m \in 1..n |-> el(m)] BY <1>8
    <2> DEFINE x == made[n]
               y == el(n + 1)
               z == [m \in 1..(n + 1) |-> el(m)]
    <2>5. \A m \in 1..n : x[m] = el(m) BY <2>4
    <2>6. x = [m \in 1..n |-> x[m]] BY <2>4
    <2>7. DOMAIN z = 1..(n + 1) /\ z[n + 1] = y /\ (\A m \in 1..n : z[m] = x[m]) /\ z = [m \in 1..(n + 1) |-> z[m]]
      BY <2>1, <2>5
    <2> HIDE DEF x, y, z, el
    <2>8. n \in Nat BY <1>1, <1>8
    <2>9. Append(x, y) = z
      <3>1. x \in Seq(Range(x)) /\ Len(x) = n BY <2>6, <2>8 DEF Range
      <3>2. DOMAIN z = 1..(Len(x) + 1) /\ z = [m \in DOMAIN z |-> z[m]] /\ z[Len(x) + 1] = y BY <2>7, <3>1
      <3>3. \A m \in 1..Len(x) : z[m] = x[m] BY <2>7, <3>1
      <3> DEFINE S == Range(x)
      <3>4. x \in Seq(S) BY <3>1
      <3> HIDE DEF S
      <3> QED BY <3>2, <3>3, <3>4, AppendIs
    <2>10. made[n + 1] = z BY <2>3, <2>9 DEF x, y
    <2> QED BY <2>1, <2>10 DEF z
  <1>9. 0..N \subseteq Good
    <2> HIDE DEF Good
    <2> QED BY <1>1, <1>7, <1>8, SetInduction
  <1> HIDE DEF el
  <1>10. \A n \in 0..N : made[n] = [m \in 1..n |-> el(m)] BY <1>9
  <1>11. N \in 0..N BY <1>1
  <1>12. a = [m \in 1..N |-> el(m)] BY <1>6, <1>10, <1>11
  <1>13. a = Prefix(a, N) /\ DOMAIN a = 1..N BY <1>12 DEF Prefix
  <1>14. ASSUME NEW n \in 1..N
         PROVE  a[n] = emit_archive(n, new_go_info(targets[n], Embedded(targets[n], Prefix(a, n - 1)),
                                                    PathOf(Prefix(a, n - 1))), Prefix(a, n - 1))
    <2>1. n - 1 \in 0..N /\ \A m \in 1..(n - 1) : m \in 1..N BY <1>1
    <2>2. made[n - 1] = [m \in 1..(n - 1) |-> el(m)] BY <1>10, <2>1
    <2>3. \A m \in 1..(n - 1) : a[m] = el(m) BY <1>12, <2>1
    <2>4. made[n - 1] = Prefix(a, n - 1) BY <2>2, <2>3 DEF Prefix
    <2>5. a[n] = ArchiveOf(Prefix(a, n - 1), targets[n]) BY <1>12, <2>4 DEF el
    <2>6. Len(Prefix(a, n - 1)) + 1 = n
      <3>1. n - 1 \in Nat BY <1>1
      <3>2. Len(Prefix(a, n - 1)) = n - 1 BY <3>1 DEF Prefix
      <3> QED BY <1>1, <3>2
    <2> QED BY <2>5, <2>6 DEF ArchiveOf
  <1> QED BY <1>13, <1>14 DEF a

\* What the archive of a target says, in terms of those of the targets that it names.
Emitted(targets, a, n) ==
    /\ a[n].info = new_go_info(targets[n], Embedded(targets[n], a), PathOf(Prefix(a, n - 1)))
    /\ a[n].direct = a[n].info.deps
    /\ a[n].transitive = {n} \cup UNION {a[d].transitive : d \in Range(a[n].direct)}
    /\ a[n].x_defs = Updated([d \in DOMAIN a[n].direct |-> a[a[n].direct[d]].x_defs] \o <<a[n].info.x_defs>>)

\* The dependencies of a target: the first of those with one import path, its own before those
\* of the targets that it embeds.
DirectFrom(targets, a, n) ==
    LET t == targets[n]
        direct == a[n].direct
    IN  /\ direct \in Seq(1..(n - 1))
        /\ \A i, j \in DOMAIN direct : i # j => a[direct[i]].info.importpath # a[direct[j]].info.importpath
        /\ \A k \in DOMAIN t.deps :
              (\A j \in 1..(k - 1) : a[t.deps[j]].info.importpath # a[t.deps[k]].info.importpath)
              => t.deps[k] \in Range(direct)

IsInfo(info, t, embeds, pathOf) ==
    /\ info.importpath = infer(t, embeds).importpath /\ info.importmap = infer(t, embeds).importmap
    /\ info.aliases = t.aliases
    /\ info.deps = dedup_archives(MergedDeps(t.deps, embeds), pathOf)
    /\ info.imports = t.imports \cup UNION {embeds[e].imports : e \in DOMAIN embeds}
    /\ info.metadata = FirstOf(<<t.metadata>> \o [e \in DOMAIN embeds |-> embeds[e].metadata])
LEMMA InfoIs == \A t, embeds, pathOf : IsInfo(new_go_info(t, embeds, pathOf), t, embeds, pathOf)
  BY DEF new_go_info, IsInfo

IsArchive(archive, n, info, made) ==
    /\ archive.info = info /\ archive.direct = info.deps
    /\ archive.transitive = {n} \cup UNION {made[d].transitive : d \in {info.deps[k] : k \in DOMAIN info.deps}}
    /\ archive.x_defs = Updated([d \in DOMAIN info.deps |-> made[info.deps[d]].x_defs] \o <<info.x_defs>>)
LEMMA EmitIs == \A n, info, made : IsArchive(emit_archive(n, info, made), n, info, made)
  BY DEF emit_archive, IsArchive

LEMMA AnalysedFacts ==
    ASSUME NEW targets, Ordered(targets), NEW n \in 1..Len(targets)
    PROVE  Emitted(targets, Analysed(targets), n) /\ DirectFrom(targets, Analysed(targets), n)
  <1> DEFINE N == Len(targets)
             a == Analysed(targets)
             t(m) == targets[m]
             embeds(m) == Embedded(t(m), a)
             pathOf(m) == PathOf(Prefix(a, m - 1))
             Typed(m) == a[m].info.deps \in Seq(1..(m - 1))
  <1>1. N \in Nat /\ \A m \in 1..N : t(m).deps \in Seq(1..(m - 1)) /\ t(m).embed \in Seq(1..(m - 1)) BY DEF Ordered
  <1>2. \A m \in 1..N : a[m] = emit_archive(m, new_go_info(t(m), Embedded(t(m), Prefix(a, m - 1)), pathOf(m)), Prefix(a, m - 1))
    BY AnalysedRaw
  <1> HIDE DEF a
  <1>3. \A m : \A d \in 1..(m - 1) : Prefix(a, m - 1)[d] = a[d] BY DEF Prefix
  <1>4. ASSUME NEW m \in 1..N PROVE Embedded(t(m), Prefix(a, m - 1)) = embeds(m)
    <2>1. \A e \in DOMAIN t(m).embed : t(m).embed[e] \in 1..(m - 1)
      <3> DEFINE T == 1..(m - 1)
                 s == t(m).embed
      <3>1. s \in Seq(T) BY <1>1
      <3> HIDE DEF T, s
      <3>2. \A e \in DOMAIN s : s[e] \in T BY <3>1
      <3> QED BY <3>2 DEF T, s
    <2>3. \A d \in 1..(m - 1) : Prefix(a, m - 1)[d] = a[d] BY <1>3
    <2>2. \A e \in DOMAIN t(m).embed : Prefix(a, m - 1)[t(m).embed[e]] = a[t(m).embed[e]] BY <2>1, <2>3
    <2> QED BY <2>2 DEF Embedded
  <1>5. \A m \in 1..N : a[m] = emit_archive(m, new_go_info(t(m), embeds(m), pathOf(m)), Prefix(a, m - 1))
    BY <1>2, <1>4
  <1>6. \A m \in 1..N : a[m].info = new_go_info(t(m), embeds(m), pathOf(m)) /\ a[m].direct = a[m].info.deps
    <2> TAKE m \in 1..N
    <2> DEFINE info == new_go_info(t(m), embeds(m), pathOf(m))
               p == Prefix(a, m - 1)
    <2>1. a[m] = emit_archive(m, info, p) BY <1>5
    <2> HIDE DEF info, p
    <2>2. IsArchive(a[m], m, info, p) BY <2>1, EmitIs
    <2>3. a[m].info = info /\ a[m].direct = info.deps BY <2>2 DEF IsArchive
    <2> QED BY <2>3 DEF info
  <1>7. \A m \in 1..N : a[m].info.deps = dedup_archives(MergedDeps(t(m).deps, embeds(m)), pathOf(m))
    <2> TAKE m \in 1..N
    <2> DEFINE E == embeds(m)
               P == pathOf(m)
               T == t(m)
    <2>1. a[m].info = new_go_info(T, E, P) BY <1>6
    <2> HIDE DEF E, P, T
    <2>2. IsInfo(a[m].info, T, E, P) BY <2>1, InfoIs
    <2> QED BY <2>2 DEF E, P, T, IsInfo
  <1>8. \A m \in 1..N : Len(embeds(m)) = Len(t(m).embed) /\ Len(embeds(m)) \in Nat
                        /\ \A e \in 1..Len(embeds(m)) : embeds(m)[e] = a[t(m).embed[e]].info /\ t(m).embed[e] \in 1..(m - 1)
    <2> TAKE m \in 1..N
    <2>1. t(m).embed \in Seq(1..(m - 1)) BY <1>1
    <2> QED BY <2>1 DEF Embedded
  <1> HIDE DEF embeds
  <1>9. ASSUME NEW m \in 1..N, \A d \in 1..(m - 1) : Typed(d)
        PROVE  /\ MergedDeps(t(m).deps, embeds(m)) \in Seq(1..(m - 1))
               /\ Len(t(m).deps) <= Len(MergedDeps(t(m).deps, embeds(m)))
               /\ \A k \in 1..Len(t(m).deps) : MergedDeps(t(m).deps, embeds(m))[k] = t(m).deps[k]
    <2> DEFINE T == 1..(m - 1)
    <2>1. t(m).deps \in Seq(T) BY <1>1
    <2>2. ASSUME NEW e \in 1..Len(embeds(m)) PROVE embeds(m)[e].deps \in Seq(T)
      <3> DEFINE d == t(m).embed[e]
      <3>1. d \in 1..(m - 1) /\ embeds(m)[e] = a[d].info BY <1>8
      <3> HIDE DEF d
      <3>2. embeds(m)[e].deps \in Seq(1..(d - 1)) BY <1>9, <3>1
      <3>3. 1..(d - 1) \subseteq T BY <3>1
      <3> DEFINE q == embeds(m)[e].deps
                 U == 1..(d - 1)
      <3>4. q \in Seq(U) /\ U \subseteq T BY <3>2, <3>3
      <3> HIDE DEF T, U, q
      <3>5. q \in Seq(T) BY <3>4
      <3> QED BY <3>5 DEF q
    <2>3. Len(embeds(m)) \in Nat BY <1>8
    <2> DEFINE D == t(m).deps
               E == embeds(m)
    <2>4. D \in Seq(T) /\ Len(E) \in Nat /\ \A e \in 1..Len(E) : E[e].deps \in Seq(T) BY <2>1, <2>2, <2>3
    <2> HIDE DEF D, E, T
    <2>5. /\ MergedDeps(D, E) \in Seq(T) /\ Len(D) <= Len(MergedDeps(D, E))
          /\ \A k \in 1..Len(D) : MergedDeps(D, E)[k] = D[k]
      BY <2>4, MergedIs
    <2> QED BY <2>5 DEF D, E, T
  <1>10. ASSUME NEW m \in 1..N, \A d \in 1..(m - 1) : Typed(d)
         PROVE  Typed(m)
    <2>1. MergedDeps(t(m).deps, embeds(m)) \in Seq(1..(m - 1)) BY <1>9, <1>10
    <2>2. dedup_archives(MergedDeps(t(m).deps, embeds(m)), pathOf(m)) \in Seq(1..(m - 1)) BY <2>1, DedupIs
    <2> QED BY <1>7, <2>2
  <1>11. \A m \in 1..N : Typed(m)
    <2> DEFINE Good == {k \in 0..N : \A m \in 1..k : Typed(m)}
    <2> HIDE DEF Typed
    <2>1. 0 \in Good BY <1>1
    <2>2. ASSUME NEW k \in 0..N, k # N, k \in Good PROVE k + 1 \in Good
      <3>1. k + 1 \in 1..N /\ k + 1 \in 0..N /\ \A m \in 1..(k + 1) : m = k + 1 \/ m \in 1..k BY <1>1, <2>2
      <3>2. (k + 1) - 1 = k BY <1>1
      <3>3. Typed(k + 1) BY <1>10, <2>2, <3>1, <3>2
      <3> QED BY <2>2, <3>1, <3>3
    <2>3. 0..N \subseteq Good
      <3> HIDE DEF Good
      <3> QED BY <1>1, <2>1, <2>2, SetInduction
    <2>4. N \in 0..N BY <1>1
    <2> QED BY <2>3, <2>4
  <1> DEFINE D == t(n).deps
             E == embeds(n)
             M == MergedDeps(D, E)
             P == pathOf(n)
             direct == a[n].direct
  <1>12. direct \in Seq(1..(n - 1)) /\ direct = dedup_archives(M, P) BY <1>6, <1>7, <1>11
  <1>13. \A d \in 1..(n - 1) : P[d] = a[d].info.importpath
    <2>1. DOMAIN Prefix(a, n - 1) = 1..(n - 1) BY DEF Prefix
    <2> QED BY <1>3, <2>1 DEF PathOf
  <1>14. \A d \in 1..(n - 1) : Typed(d)
    <2>1. \A d \in 1..(n - 1) : d \in 1..N BY <1>1
    <2> HIDE DEF Typed
    <2> QED BY <1>11, <2>1
  <1>15. D \in Seq(1..(n - 1)) /\ M \in Seq(1..(n - 1)) /\ Len(D) <= Len(M) /\ \A k \in 1..Len(D) : M[k] = D[k]
    BY <1>1, <1>9, <1>14
  <1>16. /\ \A i, j \in DOMAIN direct : i # j => P[direct[i]] # P[direct[j]]
         /\ \A k \in DOMAIN M : (\A m \in 1..(k - 1) : P[M[m]] # P[M[k]]) => M[k] \in Range(direct)
    <2> DEFINE T == 1..(n - 1)
    <2>1. M \in Seq(T) BY <1>15
    <2> HIDE DEF M, P, T, direct
    <2> QED BY <1>12, <2>1, DedupIs
  <1> HIDE DEF M, P
  <1>17. DirectFrom(targets, a, n)
    <2>1. \A i \in DOMAIN direct : direct[i] \in 1..(n - 1) BY <1>12
    <2>2. \A i, j \in DOMAIN direct : i # j => a[direct[i]].info.importpath # a[direct[j]].info.importpath
      BY <1>13, <1>16, <2>1
    <2>3. ASSUME NEW k \in DOMAIN D, \A j \in 1..(k - 1) : a[D[j]].info.importpath # a[D[k]].info.importpath
          PROVE  D[k] \in Range(direct)
      <3>1. k \in 1..Len(D) /\ \A j \in 1..(k - 1) : j \in 1..Len(D)
        <4> DEFINE T == 1..(n - 1)
        <4>1. D \in Seq(T) BY <1>15
        <4> HIDE DEF T, D
        <4>2. DOMAIN D = 1..Len(D) /\ Len(D) \in Nat BY <4>1
        <4> QED BY <2>3, <4>2
      <3>2. k \in DOMAIN M BY <1>15, <3>1
      <3>3. \A j \in 1..Len(D) : M[j] = D[j] /\ D[j] \in 1..(n - 1)
        <4> DEFINE T == 1..(n - 1)
        <4>1. D \in Seq(T) BY <1>15
        <4> HIDE DEF T, D
        <4>2. \A j \in 1..Len(D) : D[j] \in T BY <4>1
        <4> QED BY <1>15, <4>2 DEF T
      <3> HIDE DEF D
      <3>4. ASSUME NEW j \in 1..(k - 1) PROVE P[M[j]] # P[M[k]]
        <4>1. j \in 1..Len(D) BY <3>1
        <4>2. M[j] = D[j] /\ D[j] \in 1..(n - 1) /\ M[k] = D[k] /\ D[k] \in 1..(n - 1) BY <3>1, <3>3, <4>1
        <4>3. P[D[j]] = a[D[j]].info.importpath /\ P[D[k]] = a[D[k]].info.importpath BY <1>13, <4>2
        <4>4. a[D[j]].info.importpath # a[D[k]].info.importpath BY <2>3
        <4> QED BY <4>2, <4>3, <4>4
      <3> QED BY <1>16, <3>1, <3>2, <3>3, <3>4
    <2> HIDE DEF D, direct
    <2> QED BY <1>12, <2>2, <2>3 DEF DirectFrom, D, direct, t
  <1>18. Emitted(targets, a, n)
    <2>1. a[n].info = new_go_info(targets[n], Embedded(targets[n], a), PathOf(Prefix(a, n - 1))) /\ direct = a[n].info.deps
      BY <1>6 DEF embeds
    <2> DEFINE p == Prefix(a, n - 1)
               info == a[n].info
    <2>2. a[n] = emit_archive(n, info, p) BY <1>5, <1>6
    <2> HIDE DEF p, info
    <2>3. /\ a[n].transitive = {n} \cup UNION {p[d].transitive : d \in {info.deps[k] : k \in DOMAIN info.deps}}
          /\ a[n].x_defs = Updated([d \in DOMAIN info.deps |-> p[info.deps[d]].x_defs] \o <<info.x_defs>>)
      <3>1. IsArchive(a[n], n, info, p) BY <2>2, EmitIs
      <3> QED BY <3>1 DEF IsArchive
    <2>4. info.deps = direct BY <2>1 DEF info
    <2> HIDE DEF direct
    <2>5. \A k \in DOMAIN direct : direct[k] \in 1..(n - 1) BY <1>12
    <2>11. \A d \in 1..(n - 1) : p[d] = a[d] BY <1>3 DEF p
    <2>6. \A k \in DOMAIN direct : p[direct[k]] = a[direct[k]] BY <2>5, <2>11
    <2>7. [d \in DOMAIN direct |-> p[direct[d]].x_defs] = [d \in DOMAIN direct |-> a[direct[d]].x_defs] BY <2>6
    <2>8. {p[d].transitive : d \in {direct[k] : k \in DOMAIN direct}} = {a[d].transitive : d \in Range(direct)}
      <3>1. {direct[k] : k \in DOMAIN direct} = Range(direct) BY DEF Range
      <3>2. \A d \in Range(direct) : p[d] = a[d] BY <2>6 DEF Range
      <3> QED BY <3>1, <3>2
    <2>9. a[n].x_defs = Updated([d \in DOMAIN direct |-> a[direct[d]].x_defs] \o <<a[n].info.x_defs>>)
      BY <2>3, <2>4, <2>7 DEF info
    <2>10. a[n].transitive = {n} \cup UNION {a[d].transitive : d \in Range(direct)}
      <3> DEFINE X == {p[d].transitive : d \in {direct[k] : k \in DOMAIN direct}}
                 Y == {a[d].transitive : d \in Range(direct)}
      <3>1. a[n].transitive = {n} \cup UNION X BY <2>3, <2>4
      <3>2. X = Y BY <2>8
      <3> HIDE DEF X, Y
      <3>3. a[n].transitive = {n} \cup UNION Y BY <3>1, <3>2
      <3> QED BY <3>3 DEF Y
    <2> QED BY <2>1, <2>9, <2>10 DEF Emitted, direct
  <1> QED BY <1>17, <1>18 DEF a

\* What a target is made of: itself and earlier targets, each with what it depends on.
Made(a, n) ==
    /\ n \in a[n].transitive /\ a[n].transitive \subseteq 1..n
    /\ \A m \in a[n].transitive : Range(a[m].direct) \subseteq a[n].transitive
LEMMA TransitiveIs ==
    ASSUME NEW targets, Ordered(targets), NEW n \in 1..Len(targets)
    PROVE  Made(Analysed(targets), n)
  <1> DEFINE N == Len(targets)
             a == Analysed(targets)
             Good == {k \in 0..N : \A m \in 1..k : Made(a, m)}
  <1>1. N \in Nat BY DEF Ordered
  <1>2. \A m \in 1..N : Emitted(targets, a, m) /\ DirectFrom(targets, a, m) BY AnalysedFacts
  <1> HIDE DEF a
  <1>3. 0 \in Good BY <1>1
  <1>4. ASSUME NEW k \in 0..N, k # N, k \in Good PROVE k + 1 \in Good
    <2> DEFINE m == k + 1
    <2>1. m \in 1..N /\ m \in 0..N /\ m - 1 = k /\ (\A i \in 1..m : i = m \/ i \in 1..k) /\ k \in Nat BY <1>1, <1>4
    <2> HIDE DEF m
    <2>2. a[m].transitive = {m} \cup UNION {a[d].transitive : d \in Range(a[m].direct)} BY <1>2, <2>1 DEF Emitted
    <2>3. a[m].direct \in Seq(1..k) BY <1>2, <2>1 DEF DirectFrom
    <2>4. Range(a[m].direct) \subseteq 1..k BY <2>3 DEF Range
    <2>5. \A d \in 1..k : Made(a, d) BY <1>4
    <2>6. ASSUME NEW d \in Range(a[m].direct) PROVE a[d].transitive \subseteq a[m].transitive /\ d \in a[d].transitive
      <3>1. Made(a, d) BY <2>4, <2>5
      <3> QED BY <2>2, <3>1 DEF Made
    <2>7. a[m].transitive \subseteq 1..m
      <3> SUFFICES ASSUME NEW x \in a[m].transitive, x # m PROVE x \in 1..m
        BY <2>1
      <3>1. PICK d \in Range(a[m].direct) : x \in a[d].transitive BY <2>2
      <3>2. d \in 1..k /\ x \in 1..d BY <2>4, <2>5, <3>1 DEF Made
      <3> QED BY <2>1, <3>2
    <2>8. ASSUME NEW x \in a[m].transitive PROVE Range(a[x].direct) \subseteq a[m].transitive
      <3>1. CASE x = m BY <2>6, <3>1
      <3>2. CASE x # m
        <4>1. PICK d \in Range(a[m].direct) : x \in a[d].transitive BY <2>2, <3>2
        <4>2. Range(a[x].direct) \subseteq a[d].transitive BY <2>4, <2>5, <4>1 DEF Made
        <4> QED BY <2>6, <4>1, <4>2
      <3> QED BY <3>1, <3>2
    <2>9. Made(a, m) BY <2>2, <2>7, <2>8 DEF Made
    <2> QED BY <2>1, <2>5, <2>9 DEF m
  <1>5. 0..N \subseteq Good
    <2> HIDE DEF Good
    <2> QED BY <1>1, <1>3, <1>4, SetInduction
  <1>6. N \in 0..N BY <1>1
  <1> QED BY <1>5, <1>6 DEF a

\* A target that names no others has its own imports and metadata only.
LEMMA LeafIs ==
    ASSUME NEW targets, Ordered(targets), NEW n \in 1..Len(targets),
           targets[n].deps = <<>>, targets[n].embed = <<>>
    PROVE  LET a == Analysed(targets)[n] IN
           /\ Range(a.direct) = {} /\ a.info.imports = targets[n].imports
           /\ targets[n].metadata = {} => a.info.metadata = {}
  <1> DEFINE a == Analysed(targets)
             t == targets[n]
             E == Embedded(t, a)
             P == PathOf(Prefix(a, n - 1))
             info == a[n].info
  <1>1. info = new_go_info(t, E, P) /\ a[n].direct = info.deps BY AnalysedFacts DEF Emitted
  <1>2. E = <<>> /\ Len(E) = 0 BY DEF Embedded
  <1> HIDE DEF E, P, t, a, info
  <1>3. IsInfo(info, t, E, P) BY <1>1, InfoIs
  <1>4. Range(info.deps) = {}
    <2> DEFINE T == {}
               M == MergedDeps(t.deps, E)
    <2>1. t.deps \in Seq(T) BY DEF t
    <2>2. Len(E) \in Nat /\ \A e \in 1..Len(E) : E[e].deps \in Seq(T) BY <1>2
    <2> HIDE DEF T
    <2>3. M \in Seq(T) BY <2>1, <2>2, MergedIs
    <2> HIDE DEF M
    <2>4. dedup_archives(M, P) \in Seq(T) BY <2>3, DedupIs
    <2>5. info.deps \in Seq({}) BY <1>3, <2>4 DEF IsInfo, M, T
    <2> QED BY <2>5 DEF Range
  <1>5. info.imports = t.imports BY <1>2, <1>3 DEF IsInfo
  <1>6. ASSUME t.metadata = {} PROVE info.metadata = {}
    <2> DEFINE sets == <<t.metadata>> \o [e \in DOMAIN E |-> E[e].metadata]
    <2>1. sets = <<{}>> BY <1>2, <1>6
    <2> HIDE DEF sets
    <2>2. {m \in DOMAIN sets : sets[m] # {}} = {} BY <2>1
    <2>3. FirstOf(sets) = {} BY <2>2 DEF FirstOf
    <2>4. info.metadata = FirstOf(sets) BY <1>3 DEF IsInfo, sets
    <2> QED BY <2>3, <2>4
  <1> QED BY <1>1, <1>4, <1>5, <1>6 DEF a, t, info

-----------------------------------------------------------------------------
(* The targets of the build *)

BuildInv == build \in Builds /\ archives = Analysed(build.targets)

Path(n) == archives[n].info.importmap

\* A target of the build, the targets that it names, and those that the build needs.
TargetFacts ==
    /\ Main \in Nat /\ DOMAIN archives = 1..Main /\ Coverdata \in 1..Main /\ Coverdata # Main
    /\ \A n \in 1..Main : Emitted(build.targets, archives, n) /\ DirectFrom(build.targets, archives, n) /\ Arc(n) # Nil
    /\ AllArchives \subseteq Needed /\ Needed \subseteq 1..Main /\ Main \in AllArchives
    /\ Needed \ {Coverdata} \subseteq AllArchives
    /\ \A n \in 1..Main : Arc(n).importPath = Arc(Coverdata).importPath => n = Coverdata
    /\ \A n \in Needed \ {Main} : Path(n) \notin Std /\ Path(n) # Path(Main)

DirectFacts ==
    \A n \in Needed :
        /\ Len(DirectOf(n)) \in Nat /\ DOMAIN DirectOf(n) = 1..Len(DirectOf(n))
        /\ \A k \in DOMAIN DirectOf(n) : DirectOf(n)[k] \in Needed \ {Main}
        /\ \A k \in DOMAIN DirectOf(n) : DirectOf(n)[k] \in Range(archives[n].direct)
                                         \/ (DirectOf(n)[k] = Coverdata /\ Instrumented(n))
        /\ Range(archives[n].direct) \subseteq Range(DirectOf(n))

LEMMA TheTargets == BuildInv => TargetFacts
  <1> SUFFICES ASSUME BuildInv PROVE TargetFacts
    OBVIOUS
  <1> DEFINE T == build.targets
             a == archives
  <1>1. IsBuild(build) /\ a = Analysed(T) BY BuildAssumption DEF BuildInv
  <1>2. Main \in Nat /\ Coverdata \in 1..(Main - 1) /\ Ordered(T) BY <1>1 DEF IsBuild, Ordered, Main
  <1>3. \A n \in 1..Len(T) : Emitted(T, a, n) /\ DirectFrom(T, a, n) /\ Made(a, n)
    BY <1>1, <1>2, AnalysedFacts, TransitiveIs
  <1>4. DOMAIN a = 1..Len(T) BY <1>1, <1>2, AnalysedRaw
  <1>5. Coverdata \in 1..Main /\ Coverdata # Main /\ Main \in 1..Main BY <1>2
  <1>6. Made(a, Main) BY <1>3, <1>5 DEF Main
  <1>7. /\ AllArchives \subseteq Needed /\ Needed \subseteq 1..Main /\ Main \in AllArchives
        /\ Needed \ {Coverdata} \subseteq AllArchives
    BY <1>5, <1>6 DEF Made, Needed, AllArchives
  <1>8. \A n \in 1..Main : ArcOf(a[n], n) # Nil BY <1>1 DEF IsBuild, Main
  <1>9. \A n \in 1..Main : a[n].info.importpath = a[Coverdata].info.importpath => n = Coverdata
    BY <1>1 DEF IsBuild, Main
  <1>10. \A n \in (AllArchives \cup {Coverdata}) \ {Main} : Path(n) \notin Std /\ Path(n) # Path(Main)
    BY <1>1 DEF IsBuild, Main, AllArchives, Path
  <1>11. \A n : Arc(n) = ArcOf(a[n], n) /\ Arc(n).importPath = a[n].info.importpath BY DEF Arc, ArcOf
  <1>12. \A n \in Needed \ {Main} : n \in (AllArchives \cup {Coverdata}) \ {Main} BY <1>7
  <1> HIDE DEF a, T
  <1>13. \A n \in 1..Main : Emitted(T, a, n) /\ DirectFrom(T, a, n) /\ Arc(n) # Nil BY <1>3, <1>8, <1>11 DEF Main, T
  <1>14. \A n \in 1..Main : Arc(n).importPath = Arc(Coverdata).importPath => n = Coverdata BY <1>9, <1>11
  <1>15. DOMAIN a = 1..Main BY <1>4 DEF Main, T
  <1> QED BY <1>2, <1>5, <1>7, <1>10, <1>12, <1>13, <1>14, <1>15 DEF TargetFacts, T, a

\* The package coverdata imports the standard library only, and has no metadata.
LEMMA TheCoverdata ==
    BuildInv => /\ Range(archives[Coverdata].direct) = {} /\ archives[Coverdata].info.imports \subseteq Std
                /\ archives[Coverdata].info.metadata = {}
  <1> SUFFICES ASSUME BuildInv
               PROVE  /\ Range(archives[Coverdata].direct) = {} /\ archives[Coverdata].info.imports \subseteq Std
                      /\ archives[Coverdata].info.metadata = {}
    OBVIOUS
  <1> DEFINE T == build.targets
             cover == T[Coverdata]
  <1>1. IsBuild(build) /\ archives = Analysed(T) BY BuildAssumption DEF BuildInv
  <1>2. Len(T) \in Nat /\ Coverdata \in 1..(Len(T) - 1) /\ Ordered(T) BY <1>1 DEF IsBuild, Ordered
  <1>3. cover.deps = <<>> /\ cover.embed = <<>> /\ cover.imports \subseteq Std /\ cover.metadata = {}
    BY <1>1 DEF IsBuild
  <1>4. Coverdata \in 1..Len(T) BY <1>2
  <1> HIDE DEF T
  <1> QED BY <1>1, <1>2, <1>3, <1>4, LeafIs

\* What a target names is part of the binary, and is not the main package.
LEMMA TheDirect == BuildInv => DirectFacts
  <1> SUFFICES ASSUME BuildInv, NEW n \in Needed
               PROVE  /\ Len(DirectOf(n)) \in Nat /\ DOMAIN DirectOf(n) = 1..Len(DirectOf(n))
                      /\ \A k \in DOMAIN DirectOf(n) : DirectOf(n)[k] \in Needed \ {Main}
                      /\ \A k \in DOMAIN DirectOf(n) : DirectOf(n)[k] \in Range(archives[n].direct)
                                                       \/ (DirectOf(n)[k] = Coverdata /\ Instrumented(n))
                      /\ Range(archives[n].direct) \subseteq Range(DirectOf(n))
    BY DEF DirectFacts
  <1> DEFINE own == archives[n].direct
             cover == IF Instrumented(n) THEN <<Coverdata>> ELSE <<>>
             T == 1..Main
  <1>1. TargetFacts BY TheTargets
  <1>2. n \in 1..Main /\ Main \in Nat BY <1>1 DEF TargetFacts
  <1>3. own \in Seq(1..(n - 1)) BY <1>1, <1>2 DEF TargetFacts, DirectFrom
  <1>4. \A k \in DOMAIN own : own[k] \in 1..(n - 1) /\ own[k] \in Range(own)
    <2> DEFINE U == 1..(n - 1)
    <2>1. own \in Seq(U) BY <1>3
    <2> HIDE DEF own, U
    <2>2. \A k \in DOMAIN own : own[k] \in U BY <2>1
    <2>3. \A k \in DOMAIN own : own[k] \in Range(own) BY DEF Range
    <2> QED BY <2>2, <2>3 DEF U
  <1>5. Range(own) \subseteq Needed
    <2>1. CASE n = Coverdata BY <2>1, TheCoverdata
    <2>2. CASE n # Coverdata
      <3>1. n \in archives[Main].transitive BY <1>1, <2>2 DEF TargetFacts, AllArchives
      <3>2. Made(archives, Main)
        <4>1. IsBuild(build) /\ archives = Analysed(build.targets) BY BuildAssumption DEF BuildInv
        <4>2. Ordered(build.targets) BY <4>1 DEF IsBuild, Ordered
        <4>3. Main \in 1..Main BY <1>1 DEF TargetFacts
        <4> QED BY <4>1, <4>2, <4>3, TransitiveIs DEF Main
      <3>3. Range(own) \subseteq AllArchives BY <3>1, <3>2 DEF Made, AllArchives
      <3> QED BY <1>1, <3>3 DEF TargetFacts
    <2> QED BY <2>1, <2>2
  <1>6. \A k \in DOMAIN own : own[k] # Main BY <1>2, <1>4
  <1>7. Instrumented(n) => Coverdata \in Needed \ {Main} BY <1>1 DEF Instrumented, Needed, TargetFacts
  <1>8. DirectOf(n) = own \o cover BY DEF DirectOf
  <1>9. own \in Seq(T) /\ cover \in Seq(T)
    <2>1. Coverdata \in T BY <1>1 DEF TargetFacts
    <2>2. cover \in Seq(T)
      <3>1. <<Coverdata>> \in Seq(T) BY <2>1
      <3>2. <<>> \in Seq(T) OBVIOUS
      <3> QED BY <3>1, <3>2
    <2> DEFINE U == 1..(n - 1)
    <2>3. own \in Seq(U) /\ U \subseteq T BY <1>2, <1>3
    <2> HIDE DEF T, U, own, cover
    <2> QED BY <2>2, <2>3
  <1>10. Len(cover) = (IF Instrumented(n) THEN 1 ELSE 0) /\ (Instrumented(n) => cover[1] = Coverdata) OBVIOUS
  <1> DEFINE d == own \o cover
  <1>11. /\ Len(d) \in Nat /\ DOMAIN d = 1..Len(d) /\ Len(d) = Len(own) + Len(cover)
         /\ \A k \in 1..Len(own) : d[k] = own[k]
         /\ \A k \in 1..Len(d) : k \in 1..Len(own) \/ (k - Len(own) \in 1..Len(cover) /\ d[k] = cover[k - Len(own)])
    <2> HIDE DEF own, cover, T
    <2> QED BY <1>9
  <1>12. DOMAIN own = 1..Len(own) /\ Len(own) \in Nat BY <1>9
  <1> HIDE DEF d, own, cover, T
  <1>13. ASSUME NEW k \in 1..Len(d)
         PROVE  d[k] \in Range(own) \/ (d[k] = Coverdata /\ Instrumented(n))
    <2>1. CASE k \in 1..Len(own) BY <1>4, <1>11, <1>12, <2>1
    <2>2. CASE k \notin 1..Len(own)
      <3>1. k - Len(own) \in 1..Len(cover) /\ d[k] = cover[k - Len(own)] BY <1>11, <2>2
      <3>2. Instrumented(n) /\ k - Len(own) = 1 BY <1>10, <1>12, <3>1
      <3> QED BY <1>10, <3>1, <3>2
    <2> QED BY <2>1, <2>2
  <1>14. \A x \in Range(own) : x \in Needed \ {Main}
    <2>1. \A x \in Range(own) : \E k \in DOMAIN own : x = own[k] BY DEF Range
    <2> QED BY <1>5, <1>6, <2>1
  <1>15. Range(own) \subseteq Range(d)
    <2>1. \A k \in 1..Len(own) : k \in 1..Len(d) /\ d[k] = own[k]
      <3>1. Len(cover) \in Nat BY <1>10
      <3> QED BY <1>11, <1>12, <3>1
    <2> QED BY <1>11, <1>12, <2>1 DEF Range
  <1>16. DirectOf(n) = d BY <1>8 DEF d
  <1> QED BY <1>7, <1>11, <1>13, <1>14, <1>15, <1>16 DEF own

-----------------------------------------------------------------------------
(* What a package is compiled against *)

\* An import that is known resolves to the standard library, or to the last archive of that
\* import path, or of that alias if there is none of that path.
Resolves(arcs, p, a) ==
    IF p \in Std THEN a = Nil
    ELSE \E n \in DOMAIN arcs :
            /\ a = arcs[n]
            /\ p = arcs[n].importPath \/ (p \in arcs[n].aliases /\ Named(arcs, p) = {})

LEMMA ResolveIs ==
    ASSUME NEW arcs, NEW N \in Nat, DOMAIN arcs = 1..N, NEW p, Known(arcs, p)
    PROVE  Resolves(arcs, p, ResolveImport(arcs, p))
  <1>2. ASSUME NEW S, S \subseteq DOMAIN arcs, S # {}
        PROVE  \E n \in S : LastOf(arcs, S) = arcs[n]
    <2>1. \E m \in S : \A n \in S : n <= m BY <1>2, FirstLast
    <2> DEFINE m == CHOOSE n \in S : \A k \in S : k <= n
    <2>2. m \in S BY <2>1
    <2> QED BY <2>2 DEF LastOf
  <1>3. CASE p \in Std BY <1>3 DEF Resolves, ResolveImport
  <1>4. CASE p \notin Std /\ Named(arcs, p) # {}
    <2>1. PICK n \in Named(arcs, p) : LastOf(arcs, Named(arcs, p)) = arcs[n]
      BY <1>2, <1>4 DEF Named
    <2> QED BY <1>4, <2>1 DEF Resolves, ResolveImport, Named
  <1>5. CASE p \notin Std /\ Named(arcs, p) = {}
    <2>1. Aliased(arcs, p) # {} BY <1>5 DEF Known
    <2>2. PICK n \in Aliased(arcs, p) : LastOf(arcs, Aliased(arcs, p)) = arcs[n]
      BY <1>2, <2>1 DEF Aliased
    <2> QED BY <1>5, <2>2 DEF Resolves, ResolveImport, Aliased
  <1> QED BY <1>3, <1>4, <1>5

\* Imports that pass the check are all resolved.
LEMMA CheckIs ==
    ASSUME NEW imported, NEW arcs, NEW N \in Nat, DOMAIN arcs = 1..N,
           checkImports(imported, arcs, {}).err = "none"
    PROVE  LET imports == checkImports(imported, arcs, {}).imports IN
           /\ DOMAIN imports = imported \ ({"C"} \cup IsRelative)
           /\ \A p \in DOMAIN imports : Resolves(arcs, p, imports[p])
  <1> DEFINE paths == imported \ ({"C"} \cup IsRelative)
             found == {p \in paths : Known(arcs, p)}
             checked == checkImports(imported, arcs, {})
  <1>1. /\ checked.err = IF paths \cap {} # {} THEN "cycle"
                         ELSE IF found # paths THEN "missing" ELSE "none"
        /\ checked.imports = [p \in found |-> ResolveImport(arcs, p)]
    BY DEF checkImports
  <1>2. checked.err = "none" OBVIOUS
  <1> HIDE DEF checked
  <1>3. found = paths BY <1>1, <1>2
  <1>4. \A p \in found : Resolves(arcs, p, ResolveImport(arcs, p)) BY ResolveIs
  <1>5. DOMAIN checked.imports = paths /\ \A p \in paths : checked.imports[p] = ResolveImport(arcs, p)
    BY <1>1, <1>3
  <1> QED BY <1>3, <1>4, <1>5 DEF checked

\* The targets that the imports of n resolve to.
Resolved(n) == Checked(n).imports
Uses(n) == {m \in Needed \ {Main} : \E p \in DOMAIN Resolved(n) : Resolved(n)[p] = Arc(m)}

Imports(n) ==
    /\ DOMAIN Resolved(n) = ImportsOf(n) \ ({"C"} \cup IsRelative)
    /\ \A p \in DOMAIN Resolved(n) :
          IF p \in Std THEN Resolved(n)[p] = Nil
          ELSE \E m \in Uses(n) :
                  /\ Resolved(n)[p] = Arc(m) /\ m \in Range(DirectOf(n))
                  /\ \A d \in Range(DirectOf(n)) : Arc(d).importPath = p => Arc(m).importPath = p

LEMMA TheImports ==
    ASSUME BuildInv, NEW n \in Needed, Checked(n).err = "none"
    PROVE  Imports(n)
  <1> DEFINE D == DirectOf(n)
             arcs == [d \in DOMAIN D |-> Arc(D[d])]
             R == Resolved(n)
  <1>1. TargetFacts /\ DirectFacts BY TheTargets, TheDirect
  <1>2. Len(D) \in Nat /\ DOMAIN D = 1..Len(D) /\ \A k \in DOMAIN D : D[k] \in Needed \ {Main} BY <1>1 DEF DirectFacts
  <1>3. Checked(n) = checkImports(ImportsOf(n), arcs, {}) BY DEF Checked
  <1>4. DOMAIN arcs = 1..Len(D) /\ \A k \in 1..Len(D) : arcs[k] = Arc(D[k]) BY <1>2
  <1> HIDE DEF D, arcs
  <1>5. DOMAIN R = ImportsOf(n) \ ({"C"} \cup IsRelative) /\ \A p \in DOMAIN R : Resolves(arcs, p, R[p])
    BY <1>2, <1>3, <1>4, CheckIs DEF Resolved
  <1> HIDE DEF R
  <1>6. ASSUME NEW p \in DOMAIN R, p \notin Std
        PROVE  \E m \in Uses(n) : /\ R[p] = Arc(m) /\ m \in Range(D)
                                  /\ \A d \in Range(D) : Arc(d).importPath = p => Arc(m).importPath = p
    <2>1. PICK k \in DOMAIN arcs : R[p] = arcs[k]
                   /\ (p = arcs[k].importPath \/ (p \in arcs[k].aliases /\ Named(arcs, p) = {}))
      BY <1>5, <1>6 DEF Resolves
    <2> DEFINE m == D[k]
    <2>2. arcs[k] = Arc(m) /\ m \in Needed \ {Main} /\ m \in Range(D) BY <1>2, <1>4 DEF Range
    <2>3. m \in Uses(n) BY <2>1, <2>2 DEF Uses, R
    <2>4. ASSUME NEW d \in Range(D), Arc(d).importPath = p PROVE Arc(m).importPath = p
      <3>1. PICK j \in DOMAIN D : D[j] = d BY DEF Range
      <3>2. j \in DOMAIN arcs /\ arcs[j] = Arc(d) BY <1>2, <1>4, <3>1
      <3>3. j \in Named(arcs, p) BY <2>4, <3>2 DEF Named
      <3> QED BY <2>1, <2>2, <3>3
    <2> HIDE DEF m
    <2> QED BY <2>1, <2>2, <2>3, <2>4
  <1>7. \A p \in DOMAIN R : p \in Std => R[p] = Nil BY <1>5 DEF Resolves
  <1> QED BY <1>5, <1>6, <1>7 DEF Imports, R, D

\* An archive belongs to one target.
LEMMA ArcIs == \A m : Arc(m).file = ExportFile(m) /\ Arc(m).packagePath = Path(m) /\ Arc(m).importPath = archives[m].info.importpath
  BY DEF Arc, ArcOf, Path

LEMMA OneArc == \A m, k : (Arc(m) = Arc(k) => m = k) /\ (ExportFile(m) = ExportFile(k) => m = k)
  BY ArcIs DEF ExportFile

\* What the compiler finds in its importcfg file, and what the builder writes to the imports file.
Cfg(n) == CompiledAs(n).importcfg
Compiled(n) ==
    /\ \A p \in DOMAIN Resolved(n) : \A m \in Uses(n) :
          Resolved(n)[p] = Arc(m) => Mapped(Cfg(n), p) = Path(m) /\ ExportFile(m) \in FilesOf(Cfg(n), Path(m))
    /\ \A q : \A f \in FilesOf(Cfg(n), q) :
          (q \in Std /\ f = StdFile(q)) \/ \E m \in Uses(n) : f = ExportFile(m) /\ q = Path(m)
    /\ CompiledAs(n).imports = {Path(m) : m \in Uses(n)}

LEMMA TheCompiled ==
    ASSUME BuildInv, NEW n \in Needed, Checked(n).err = "none"
    PROVE  Compiled(n)
  <1> DEFINE R == Resolved(n)
             cfg == Cfg(n)
             std == {p \in DOMAIN R : R[p] = Nil}
             own == DOMAIN R \ std
  <1>1. Imports(n) /\ TargetFacts BY TheImports, TheTargets
  <1>2. cfg = {PackageFile(p, StdFile(p)) : p \in std}
              \cup {ImportMap(p, R[p].packagePath) : p \in {q \in own : R[q].packagePath # q}}
              \cup {PackageFile(R[p].packagePath, R[p].file) : p \in own}
    BY DEF CompiledAs, Cfg, buildImportcfgFileForCompile, Resolved
  <1>3. CompiledAs(n).imports = {R[p].packagePath : p \in own} BY DEF CompiledAs, Resolved
  <1>4. \A p \in DOMAIN R : p \in std <=> p \in Std
    <2> TAKE p \in DOMAIN R
    <2>1. p \in Std => R[p] = Nil BY <1>1 DEF Imports
    <2>2. ASSUME p \notin Std PROVE R[p] # Nil
      <3>1. PICK m \in Uses(n) : R[p] = Arc(m) BY <1>1, <2>2 DEF Imports
      <3>2. m \in 1..Main BY <1>1 DEF Uses, TargetFacts
      <3> QED BY <1>1, <3>1, <3>2 DEF TargetFacts
    <2> QED BY <2>1, <2>2
  <1>5. \A p \in own : \E m \in Uses(n) : R[p] = Arc(m) BY <1>1, <1>4 DEF Imports
  <1>6. \A m \in Uses(n) : \E p \in own : R[p] = Arc(m)
    <2> TAKE m \in Uses(n)
    <2>1. PICK p \in DOMAIN R : R[p] = Arc(m) BY DEF Uses
    <2>2. m \in 1..Main BY <1>1 DEF Uses, TargetFacts
    <2>3. p \notin std BY <1>1, <2>1, <2>2 DEF TargetFacts
    <2> QED BY <2>1, <2>3
  <1> HIDE DEF R, cfg, std, own
  <1>7. CompiledAs(n).imports = {Path(m) : m \in Uses(n)}
    <2>1. \A p \in own : \E m \in Uses(n) : R[p].packagePath = Path(m) BY <1>5, ArcIs
    <2>2. \A m \in Uses(n) : \E p \in own : R[p].packagePath = Path(m) BY <1>6, ArcIs
    <2> QED BY <1>3, <2>1, <2>2
  <1>8. \A q, f : PackageFile(q, f).verb = "packagefile" /\ PackageFile(q, f).path = q /\ PackageFile(q, f).to = f
    BY DEF PackageFile
  <1>9. \A q, f : ImportMap(q, f).verb = "importmap" /\ ImportMap(q, f).path = q /\ ImportMap(q, f).to = f
    BY DEF ImportMap
  <1>10. ASSUME NEW p \in DOMAIN R, NEW m \in Uses(n), R[p] = Arc(m)
         PROVE  Mapped(cfg, p) = Path(m) /\ ExportFile(m) \in FilesOf(cfg, Path(m))
    <2>1. m \in 1..Main BY <1>1 DEF Uses, TargetFacts
    <2>2. p \in own BY <1>1, <1>10, <2>1 DEF TargetFacts, own, std
    <2>3. R[p].packagePath = Path(m) /\ R[p].file = ExportFile(m) BY <1>10, ArcIs
    <2>4. \A l \in cfg : l.verb = "importmap" /\ l.path = p => l.to = Path(m) /\ Path(m) # p
      BY <1>2, <1>8, <1>9, <2>3
    <2>5. Path(m) # p => \E l \in cfg : l.verb = "importmap" /\ l.path = p BY <1>2, <1>9, <2>2, <2>3
    <2>6. Mapped(cfg, p) = Path(m)
      <3>1. CASE \E l \in cfg : l.verb = "importmap" /\ l.path = p
        <4> DEFINE l == CHOOSE k \in cfg : k.verb = "importmap" /\ k.path = p
        <4>1. l \in cfg /\ l.verb = "importmap" /\ l.path = p BY <3>1
        <4>2. Mapped(cfg, p) = l.to BY <3>1 DEF Mapped
        <4> HIDE DEF l
        <4> QED BY <2>4, <4>1, <4>2
      <3>2. CASE ~\E l \in cfg : l.verb = "importmap" /\ l.path = p
        <4>1. Mapped(cfg, p) = p BY <3>2 DEF Mapped
        <4> QED BY <2>5, <3>2, <4>1
      <3> QED BY <3>1, <3>2
    <2>7. PackageFile(Path(m), ExportFile(m)) \in cfg BY <1>2, <2>2, <2>3
    <2>8. ExportFile(m) \in FilesOf(cfg, Path(m)) BY <1>8, <2>7 DEF FilesOf
    <2> QED BY <2>6, <2>8
  <1>11. ASSUME NEW q, NEW f \in FilesOf(cfg, q)
         PROVE  (q \in Std /\ f = StdFile(q)) \/ \E m \in Uses(n) : f = ExportFile(m) /\ q = Path(m)
    <2>1. PICK l \in cfg : l.verb = "packagefile" /\ l.path = q /\ l.to = f BY <1>11 DEF FilesOf
    <2>2. CASE \E p \in std : l = PackageFile(p, StdFile(p))
      <3>1. PICK p \in std : l = PackageFile(p, StdFile(p)) BY <2>2
      <3>2. p = q /\ f = StdFile(q) BY <1>8, <2>1, <3>1
      <3>3. p \in DOMAIN R BY DEF std
      <3> QED BY <1>4, <3>2, <3>3
    <2>3. CASE \E p \in own : l = PackageFile(R[p].packagePath, R[p].file)
      <3>1. PICK p \in own : l = PackageFile(R[p].packagePath, R[p].file) BY <2>3
      <3>2. PICK m \in Uses(n) : R[p] = Arc(m) BY <1>5
      <3> QED BY <1>8, <2>1, <3>1, <3>2, ArcIs
    <2>4. ~\E p \in own : l = ImportMap(p, R[p].packagePath) BY <1>9, <2>1
    <2> QED BY <1>2, <2>2, <2>3, <2>4
  <1> QED BY <1>7, <1>10, <1>11 DEF Compiled, R, cfg

-----------------------------------------------------------------------------
(* What the linker gets *)

LinkArcs == [n \in DOMAIN LinkedArchives |-> LinkArc(LinkedArchives[n])]

\* The archives of a link are those of the targets that the binary needs, but the main one.
Linked ==
    /\ \E N \in Nat : DOMAIN LinkedArchives = 1..N
    /\ Range(LinkedArchives) \subseteq Needed \ {Main}
    /\ ~build.coverage \/ ~Conflicting => Range(LinkedArchives) = Needed \ {Main}
    /\ ~build.coverage => \A i, j \in DOMAIN LinkedArchives : i # j => LinkedArchives[i] # LinkedArchives[j]
    /\ build.coverage \/ ~Conflicting =>
          \A i, j \in DOMAIN LinkedArchives : i # j => Path(LinkedArchives[i]) # Path(LinkedArchives[j])

LEMMA TheLinked == BuildInv => Linked
  <1> SUFFICES ASSUME BuildInv PROVE Linked
    OBVIOUS
  <1> DEFINE T == 1..Main
             L == LinkedArchives
             pathOf == [n \in DOMAIN archives |-> archives[n].info.importmap]
  <1>1. TargetFacts BY TheTargets
  <1>2. \A n \in T : pathOf[n] = Path(n) BY <1>1 DEF TargetFacts, Path
  <1>3. Needed \ {Main} \subseteq T BY <1>1 DEF TargetFacts
  <1>4. \A s : s \in Seq(T) => \E N \in Nat : DOMAIN s = 1..N
    <2> TAKE s
    <2> HAVE s \in Seq(T)
    <2>1. Len(s) \in Nat /\ DOMAIN s = 1..Len(s) OBVIOUS
    <2> QED BY <2>1
  <1>5. Main \in Nat BY <1>1 DEF TargetFacts
  <1>6. CASE ~build.coverage
    <2> DEFINE S == AllArchives \ {Main}
    <2>1. Needed = AllArchives BY <1>6 DEF Needed, AllArchives
    <2>2. L = SortedSeq(S) BY <1>6 DEF LinkedArchives, AllArchives
    <2>3. S \subseteq T BY <1>3, <2>1
    <2> HIDE DEF S, L, T
    <2>4. L \in Seq(T) /\ Range(L) = S /\ \A i, j \in DOMAIN L : i # j => L[i] # L[j]
      BY <1>5, <2>2, <2>3, SortedIs DEF T
    <2>5. S = Needed \ {Main} BY <2>1 DEF S
    <2>6. ~Conflicting => \A i, j \in DOMAIN L : i # j => Path(L[i]) # Path(L[j])
      <3> SUFFICES ASSUME NEW i \in DOMAIN L, NEW j \in DOMAIN L, i # j, Path(L[i]) = Path(L[j]) PROVE Conflicting
        OBVIOUS
      <3>1. L[i] \in Needed \ {Main} /\ L[j] \in Needed \ {Main} BY <2>4, <2>5 DEF Range
      <3> QED BY <2>4, <3>1 DEF Conflicting, Path
    <2> QED BY <1>4, <1>6, <2>4, <2>5, <2>6 DEF Linked, L
  <1>7. CASE build.coverage
    <2> DEFINE S == (AllArchives \ {Main}) \cup {Coverdata}
               s == SortedSeq(S)
    <2>1. S = Needed \ {Main} BY <1>1, <1>7 DEF Needed, AllArchives, TargetFacts
    <2>2. L = dedup_archives(s, pathOf) BY <1>7 DEF LinkedArchives, AllArchives
    <2>3. S \subseteq T BY <1>3, <2>1
    <2> HIDE DEF S
    <2>4. s \in Seq(T) /\ Range(s) = S /\ \A i, j \in DOMAIN s : i # j => s[i] # s[j]
      <3> HIDE DEF T
      <3> QED BY <1>5, <2>3, SortedIs DEF T
    <2> HIDE DEF s, L, T, pathOf
    <2>5. /\ L \in Seq(T) /\ Range(L) \subseteq Range(s)
          /\ \A i, j \in DOMAIN L : i # j => pathOf[L[i]] # pathOf[L[j]]
          /\ (\A m, n \in DOMAIN s : m # n => pathOf[s[m]] # pathOf[s[n]]) => Range(L) = Range(s)
      BY <2>2, <2>4, DedupIs
    <2>6. \A i \in DOMAIN L : L[i] \in T BY <2>5
    <2>7. \A i, j \in DOMAIN L : i # j => Path(L[i]) # Path(L[j]) BY <1>2, <2>5, <2>6
    <2>8. ASSUME ~Conflicting PROVE Range(L) = Range(s)
      <3> SUFFICES ASSUME NEW i \in DOMAIN s, NEW j \in DOMAIN s, i # j PROVE pathOf[s[i]] # pathOf[s[j]]
        BY <2>5
      <3>1. s[i] # s[j] /\ s[i] \in S /\ s[j] \in S BY <2>4 DEF Range
      <3>2. Path(s[i]) # Path(s[j]) BY <2>1, <2>8, <3>1 DEF Conflicting, Path
      <3>3. s[i] \in T /\ s[j] \in T BY <2>3, <3>1
      <3> QED BY <1>2, <3>2, <3>3
    <2> QED BY <1>4, <1>7, <2>1, <2>4, <2>5, <2>7, <2>8 DEF Linked, L
  <1> QED BY <1>6, <1>7

\* Without coverage the linker's importcfg has a conflict exactly if packages conflict; with it
\* there is none.
LEMMA ConflictIs ==
    BuildInv => /\ ~build.coverage => (Conflict(LinkArcs) <=> Conflicting)
                /\ ~Conflicting => ~Conflict(LinkArcs)
  <1> SUFFICES ASSUME BuildInv
               PROVE  /\ ~build.coverage => (Conflict(LinkArcs) <=> Conflicting)
                      /\ ~Conflicting => ~Conflict(LinkArcs)
    OBVIOUS
  <1> DEFINE L == LinkedArchives
  <1>1. Linked BY TheLinked
  <1>2. DOMAIN LinkArcs = DOMAIN L /\ \A i \in DOMAIN L : LinkArcs[i].packagePath = Path(L[i])
    BY DEF LinkArcs, LinkArc, Path
  <1>3. Conflict(LinkArcs) <=> \E i, j \in DOMAIN L : i # j /\ Path(L[i]) = Path(L[j]) BY <1>2 DEF Conflict
  <1>4. ASSUME ~build.coverage, Conflicting PROVE Conflict(LinkArcs)
    <2>1. PICK m \in Needed \ {Main}, n \in Needed \ {Main} : m # n /\ Path(m) = Path(n) BY <1>4 DEF Conflicting, Path
    <2>2. m \in Range(L) /\ n \in Range(L) BY <1>1, <1>4, <2>1 DEF Linked
    <2>3. PICK i \in DOMAIN L : L[i] = m BY <2>2 DEF Range
    <2>4. PICK j \in DOMAIN L : L[j] = n BY <2>2 DEF Range
    <2> QED BY <1>3, <2>1, <2>3, <2>4
  <1>5. ~Conflicting => ~Conflict(LinkArcs) BY <1>1, <1>3 DEF Linked
  <1> QED BY <1>4, <1>5

\* The linker gets one file for the package path of a target, its own.
LEMMA LinkFiles ==
    ASSUME BuildInv, ~Conflicting, NEW d \in Needed \ {Main}
    PROVE  FilesOf(buildImportcfgFileForLink(LinkArcs), Path(d)) = {<<"lib", d>>}
  <1> DEFINE L == LinkedArchives
             cfg == buildImportcfgFileForLink(LinkArcs)
  <1>1. Linked /\ TargetFacts BY TheLinked, TheTargets
  <1>2. DOMAIN LinkArcs = DOMAIN L
        /\ \A i \in DOMAIN L : LinkArcs[i].packagePath = Path(L[i]) /\ LinkArcs[i].file = <<"lib", L[i]>>
    BY DEF LinkArcs, LinkArc, Path
  <1>3. cfg = {PackageFile(p, StdFile(p)) : p \in Std}
              \cup {PackageFile(LinkArcs[n].packagePath, LinkArcs[n].file) : n \in DOMAIN LinkArcs}
    BY DEF buildImportcfgFileForLink
  <1> HIDE DEF cfg, L
  <1>4. \A q, f : PackageFile(q, f).verb = "packagefile" /\ PackageFile(q, f).path = q /\ PackageFile(q, f).to = f
    BY DEF PackageFile
  <1>5. Path(d) \notin Std BY <1>1 DEF TargetFacts
  <1>6. Range(L) = Needed \ {Main} BY <1>1 DEF Linked, L
  <1>7. PICK i \in DOMAIN L : L[i] = d BY <1>6 DEF Range
  <1>8. PackageFile(Path(d), <<"lib", d>>) \in cfg BY <1>2, <1>3, <1>7
  <1>9. ASSUME NEW l \in cfg, l.verb = "packagefile", l.path = Path(d) PROVE l.to = <<"lib", d>>
    <2>1. ~\E p \in Std : l = PackageFile(p, StdFile(p)) BY <1>4, <1>5, <1>9
    <2>2. PICK j \in DOMAIN L : l = PackageFile(Path(L[j]), <<"lib", L[j]>>) BY <1>2, <1>3, <2>1
    <2>3. Path(L[j]) = Path(d) /\ l.to = <<"lib", L[j]>> BY <1>4, <1>9, <2>2
    <2>4. L[j] \in Needed \ {Main} BY <1>6 DEF Range
    <2>5. L[j] = d BY <2>3, <2>4 DEF Conflicting, Path
    <2> QED BY <2>3, <2>5
  <1>10. \A f : f \in FilesOf(cfg, Path(d)) <=> \E l \in cfg : l.verb = "packagefile" /\ l.path = Path(d) /\ l.to = f
    BY DEF FilesOf
  <1>11. \A f : f \in FilesOf(cfg, Path(d)) <=> f = <<"lib", d>> BY <1>4, <1>8, <1>9, <1>10
  <1> QED BY <1>11 DEF cfg

-----------------------------------------------------------------------------
(* The invariant *)

CompiledInv ==
    /\ DOMAIN compiled \subseteq Needed
    /\ \A n \in DOMAIN compiled : compiled[n] = CompiledAs(n) /\ Checked(n).err = "none"

StampsNow == {k \in build.status : IF k \in StableKeys THEN "info" \in StampFiles ELSE "version" \in StampFiles}
Renamed(v) == IF v[1] = Path(Main) THEN <<"main", v[2]>> ELSE v
DefsNow ==
    {<<Renamed(v), archives[Main].x_defs[v]>> :
        v \in {w \in DOMAIN archives[Main].x_defs : archives[Main].x_defs[w] \subseteq stamps}}

StageInv ==
    /\ pc \in {"compile", "reach", "importcfg", "link", "done"}
    /\ pc # "done" => result = "running"
    /\ linkcfg # {} => pc \in {"link", "done"}
    /\ pc \in {"reach", "importcfg", "link"} \/ linkcfg # {} => DOMAIN compiled = Needed /\ stamps = StampsNow

LinkInv ==
    /\ linkcfg # {} => /\ ~Conflict(LinkArcs) /\ linkcfg = buildImportcfgFileForLink(LinkArcs)
                       /\ defs = DefsNow
    /\ result = "package conflict" => linkcfg = {} /\ Conflict(LinkArcs)

LEMMA LinkInit == Init => BuildInv /\ CompiledInv /\ StageInv /\ LinkInv
  BY DEF Init, BuildInv, CompiledInv, StageInv, LinkInv

\* The build and what the rules made of its targets do not change.
LEMMA SameBuild == [Next]_vars => build' = build /\ archives' = archives
  BY DEF Next, vars, Compile, Stamp, Reach, Modules, Importcfg, Linker

LEMMA BuildStep == BuildInv /\ [Next]_vars => BuildInv'
  BY SameBuild DEF BuildInv

\* What depends on the build and on the archives only.
LEMMA SameFacts ==
    ASSUME build' = build, archives' = archives
    PROVE  /\ Needed' = Needed /\ Main' = Main /\ StampFiles' = StampFiles /\ StampsNow' = StampsNow
           /\ \A n : Checked(n)' = Checked(n) /\ CompiledAs(n)' = CompiledAs(n) /\ Path(n)' = Path(n) /\ Uses(n)' = Uses(n)
           /\ LinkArcs' = LinkArcs /\ (Conflicting' <=> Conflicting)
  <1>1. Main' = Main BY DEF Main
  <1>2. Needed' = Needed BY <1>1 DEF Needed
  <1>3. StampFiles' = StampFiles BY <1>1 DEF StampFiles
  <1>4. StampsNow' = StampsNow BY <1>3 DEF StampsNow
  <1>5. \A n : DirectOf(n)' = DirectOf(n) /\ ImportsOf(n)' = ImportsOf(n) BY DEF DirectOf, ImportsOf, Instrumented
  <1>6. \A n : Arc(n)' = Arc(n) /\ Path(n)' = Path(n) BY DEF Arc, Path
  <1>7. \A n : Checked(n)' = Checked(n)
    <2> TAKE n
    <2> QED BY <1>5, <1>6 DEF Checked
  <1>8. \A n : CompiledAs(n)' = CompiledAs(n) BY <1>7 DEF CompiledAs
  <1>9. \A n : Uses(n)' = Uses(n) BY <1>1, <1>2, <1>6, <1>7 DEF Uses, Resolved
  <1>10. \A S : SortedSeq(S)' = SortedSeq(S) BY <1>1 DEF SortedSeq
  <1>11. LinkedArchives' = LinkedArchives BY <1>1, <1>10 DEF LinkedArchives
  <1>12. LinkArcs' = LinkArcs BY <1>11 DEF LinkArcs, LinkArc
  <1>13. Conflicting' <=> Conflicting BY <1>1, <1>2 DEF Conflicting
  <1> QED BY <1>2, <1>1, <1>3, <1>4, <1>6, <1>7, <1>8, <1>9, <1>12, <1>13

\* A package is compiled once, and stays as it is.
LEMMA CompiledStep == CompiledInv /\ [Next]_vars => CompiledInv'
  <1> SUFFICES ASSUME CompiledInv, [Next]_vars PROVE CompiledInv'
    OBVIOUS
  <1>1. build' = build /\ archives' = archives BY SameBuild
  <1>2. Needed' = Needed /\ \A n : Checked(n)' = Checked(n) /\ CompiledAs(n)' = CompiledAs(n) BY <1>1, SameFacts
  <1>3. CASE compiled' = compiled BY <1>2, <1>3 DEF CompiledInv
  <1>4. ASSUME NEW n \in DOMAIN archives, Compile(n) PROVE CompiledInv'
    <2>1. CASE compiled' = compiled BY <1>3, <2>1
    <2>2. CASE compiled' # compiled
      <3>1. /\ n \in Needed /\ Checked(n).err = "none"
            /\ compiled' = [m \in DOMAIN compiled \cup {n} |-> IF m = n THEN CompiledAs(n) ELSE compiled[m]]
        BY <1>4, <2>2 DEF Compile
      <3>2. DOMAIN compiled' = DOMAIN compiled \cup {n} BY <3>1
      <3>3. \A m \in DOMAIN compiled' : compiled'[m] = CompiledAs(m) /\ Checked(m).err = "none"
        BY <3>1 DEF CompiledInv
      <3> QED BY <1>2, <3>1, <3>2, <3>3 DEF CompiledInv
    <2> QED BY <2>1, <2>2
  <1>5. (\E n \in DOMAIN archives : Compile(n)) \/ compiled' = compiled
    BY DEF Next, vars, Stamp, Reach, Modules, Importcfg, Linker
  <1> QED BY <1>3, <1>4, <1>5

LEMMA StageStep == StageInv /\ [Next]_vars => StageInv'
  <1> SUFFICES ASSUME StageInv, [Next]_vars PROVE StageInv'
    OBVIOUS
  <1>1. build' = build /\ archives' = archives BY SameBuild
  <1>2. Needed' = Needed /\ StampsNow' = StampsNow BY <1>1, SameFacts
  <1>3. ASSUME NEW n \in DOMAIN archives, Compile(n) PROVE StageInv'
    <2>1. /\ pc = "compile" /\ linkcfg' = linkcfg /\ stamps' = stamps
          /\ (pc' = "done" \/ (pc' = pc /\ result' = result))
      BY <1>3 DEF Compile
    <2> QED BY <1>2, <2>1 DEF StageInv
  <1>4. CASE Stamp
    <2>1. /\ pc = "compile" /\ DOMAIN compiled = Needed /\ compiled' = compiled /\ stamps' = StampsNow
          /\ linkcfg' = linkcfg /\ result' = result /\ pc' \in {"reach", "importcfg"}
      BY <1>4 DEF Stamp, StampsNow
    <2> QED BY <1>2, <2>1 DEF StageInv
  <1>5. CASE Reach
    <2>1. /\ pc = "reach" /\ pc' = pc /\ compiled' = compiled /\ stamps' = stamps /\ linkcfg' = linkcfg /\ result' = result
      BY <1>5 DEF Reach
    <2> QED BY <1>2, <2>1 DEF StageInv
  <1>6. CASE Modules
    <2>1. /\ pc = "reach" /\ compiled' = compiled /\ stamps' = stamps /\ linkcfg' = linkcfg
          /\ (pc' = "done" \/ (pc' = "importcfg" /\ result' = result))
      BY <1>6 DEF Modules, Fail
    <2> QED BY <1>2, <2>1 DEF StageInv
  <1>7. CASE Importcfg
    <2>1. /\ pc = "importcfg" /\ compiled' = compiled /\ stamps' = stamps
          /\ ((pc' = "done" /\ linkcfg' = linkcfg) \/ (pc' = "link" /\ result' = result))
      BY <1>7 DEF Importcfg, Fail
    <2> QED BY <1>2, <2>1 DEF StageInv
  <1>8. CASE Linker
    <2>1. pc = "link" /\ pc' = "done" /\ compiled' = compiled /\ stamps' = stamps /\ linkcfg' = linkcfg
      BY <1>8 DEF Linker
    <2> QED BY <1>2, <2>1 DEF StageInv
  <1>9. CASE UNCHANGED vars BY <1>2, <1>9 DEF StageInv, vars
  <1> QED BY <1>3, <1>4, <1>5, <1>6, <1>7, <1>8, <1>9 DEF Next

\* Only the step that writes the linker's importcfg finds a conflict.
LEMMA LinkStep == StageInv /\ LinkInv /\ [Next]_vars => LinkInv'
  <1> SUFFICES ASSUME StageInv, LinkInv, [Next]_vars PROVE LinkInv'
    OBVIOUS
  <1>1. build' = build /\ archives' = archives BY SameBuild
  <1>2. LinkArcs' = LinkArcs /\ Main' = Main /\ \A n : Path(n)' = Path(n) BY <1>1, SameFacts
  <1>3. \A v : Renamed(v)' = Renamed(v)
    <2> TAKE v
    <2>1. Path(Main)' = Path(Main) BY <1>1, <1>2 DEF Path
    <2> QED BY <2>1 DEF Renamed
  <1>4. stamps' = stamps => DefsNow' = DefsNow BY <1>1, <1>2, <1>3 DEF DefsNow
  <1>5. CASE linkcfg' = linkcfg /\ defs' = defs /\ (linkcfg = {} \/ stamps' = stamps)
             /\ (result' = result \/ result' # "package conflict")
    BY <1>2, <1>4, <1>5 DEF LinkInv
  <1>6. CASE Importcfg
    <2>1. pc = "importcfg" /\ linkcfg = {} /\ stamps' = stamps /\ result = "running" BY <1>6 DEF Importcfg, StageInv
    <2>2. \/ Conflict(LinkArcs) /\ linkcfg' = linkcfg
          \/ /\ ~Conflict(LinkArcs) /\ linkcfg' = buildImportcfgFileForLink(LinkArcs) /\ result' = result
             /\ defs' = DefsNow
      BY <1>6 DEF Importcfg, LinkArcs, DefsNow, Renamed, Path, Fail
    <2>3. DefsNow' = DefsNow BY <1>4, <2>1
    <2> QED BY <1>2, <2>1, <2>2, <2>3 DEF LinkInv
  <1>7. ASSUME NEW n \in DOMAIN archives, Compile(n)
        PROVE  linkcfg' = linkcfg /\ defs' = defs /\ stamps' = stamps /\ (result' = result \/ result' # "package conflict")
    <2>1. Checked(n).err \in {"cycle", "missing", "none"} BY DEF Checked, checkImports
    <2> QED BY <1>7, <2>1 DEF Compile
  <1>8. CASE Stamp
    <2>1. linkcfg = {} BY <1>8 DEF Stamp, StageInv
    <2> QED BY <1>5, <1>8, <2>1 DEF Stamp
  <1>9. Reach \/ Modules \/ Linker \/ UNCHANGED vars =>
           linkcfg' = linkcfg /\ defs' = defs /\ stamps' = stamps /\ (result' = result \/ result' # "package conflict")
    BY DEF Reach, Modules, Linker, vars, Fail
  <1> QED BY <1>5, <1>6, <1>7, <1>8, <1>9 DEF Next

-----------------------------------------------------------------------------
(* What follows from it *)

LEMMA FindsConflicts == BuildInv /\ LinkInv => ConflictsFound
  BY ConflictIs DEF LinkInv, ConflictsFound

\* No file of the compiler or of the linker has conflicts where one is used.
LEMMA NoConflict ==
    BuildInv /\ LinkInv /\ linkcfg # {} /\ ~(build.coverage /\ Conflicting) => ~Conflicting
  BY ConflictIs DEF LinkInv

LEMMA LinksAsCompiled == BuildInv /\ CompiledInv /\ LinkInv => LinkedAsCompiled
  <1> SUFFICES ASSUME BuildInv, CompiledInv, LinkInv, linkcfg # {}, ~(build.coverage /\ Conflicting),
                      NEW n \in DOMAIN compiled, NEW p \in ImportsOf(n) \ ({"C"} \cup IsRelative \cup Std)
               PROVE  LET cfg == compiled[n].importcfg
                          path == Mapped(cfg, p)
                      IN  /\ Target(FilesOf(cfg, path)) = Target(FilesOf(linkcfg, path))
                          /\ Cardinality(FilesOf(linkcfg, path)) = 1
    BY DEF LinkedAsCompiled
  <1>1. n \in Needed /\ Checked(n).err = "none" /\ compiled[n].importcfg = Cfg(n) BY DEF CompiledInv, Cfg
  <1>2. ~Conflicting BY NoConflict
  <1>3. Imports(n) /\ Compiled(n) /\ TargetFacts BY <1>1, TheImports, TheCompiled, TheTargets
  <1>4. p \in DOMAIN Resolved(n) /\ p \notin Std BY <1>3 DEF Imports
  <1>5. PICK d \in Uses(n) : Resolved(n)[p] = Arc(d) BY <1>3, <1>4 DEF Imports
  <1>6. Mapped(Cfg(n), p) = Path(d) /\ ExportFile(d) \in FilesOf(Cfg(n), Path(d)) BY <1>3, <1>4, <1>5 DEF Compiled
  <1>7. d \in Needed \ {Main} /\ Uses(n) \subseteq Needed \ {Main} BY DEF Uses
  <1>8. FilesOf(linkcfg, Path(d)) = {<<"lib", d>>} BY <1>2, <1>7, LinkFiles DEF LinkInv
  <1>9. FilesOf(Cfg(n), Path(d)) = {ExportFile(d)}
    <2>1. ASSUME NEW f \in FilesOf(Cfg(n), Path(d)) PROVE f = ExportFile(d)
      <3>1. Path(d) \notin Std BY <1>3, <1>7 DEF TargetFacts
      <3>2. PICK m \in Uses(n) : f = ExportFile(m) /\ Path(d) = Path(m) BY <1>3, <3>1 DEF Compiled
      <3>3. m = d BY <1>2, <1>7, <3>2 DEF Conflicting, Path
      <3> QED BY <3>2, <3>3
    <2> QED BY <1>6, <2>1
  <1>10. Target({ExportFile(d)}) = {d} /\ Target({<<"lib", d>>}) = {d}
    <2>1. \A x : x \in {"export", "lib"} => Target({<<x, d>>}) = {d}
      <3> TAKE x
      <3> HAVE x \in {"export", "lib"}
      <3>1. {g \in {<<x, d>>} : g[1] \in {"export", "lib"}} = {<<x, d>>} OBVIOUS
      <3>2. {f[2] : f \in {<<x, d>>}} = {d} OBVIOUS
      <3> QED BY <3>1, <3>2 DEF Target
    <2> QED BY <2>1 DEF ExportFile
  <1>11. Cardinality({<<"lib", d>>}) = 1 BY FS_Singleton
  <1> QED BY <1>1, <1>6, <1>8, <1>9, <1>10, <1>11

LEMMA TheEmbedderDecides == BuildInv /\ CompiledInv => EmbedderDecides
  <1> SUFFICES ASSUME BuildInv, CompiledInv, NEW n \in DOMAIN compiled, NEW p \in build.targets[n].imports,
                      p \notin {"C"} \cup IsRelative \cup Std, NEW c \in Chosen(n, p)
               PROVE  ExportFile(c) \in FilesOf(compiled[n].importcfg, Mapped(compiled[n].importcfg, p))
    BY DEF EmbedderDecides
  <1> DEFINE t == build.targets[n]
             deps == t.deps
             own == {k \in DOMAIN deps : archives[deps[k]].info.importpath = p}
  <1>1. n \in Needed /\ Checked(n).err = "none" /\ compiled[n].importcfg = Cfg(n) BY DEF CompiledInv, Cfg
  <1>2. Imports(n) /\ Compiled(n) /\ TargetFacts /\ DirectFacts BY <1>1, TheImports, TheCompiled, TheTargets, TheDirect
  <1>3. n \in 1..Main /\ Main \in Nat BY <1>1, <1>2 DEF TargetFacts
  <1>4. Emitted(build.targets, archives, n) /\ DirectFrom(build.targets, archives, n) BY <1>2, <1>3 DEF TargetFacts
  <1>5. p \in ImportsOf(n)
    <2> DEFINE info == archives[n].info
               E == Embedded(t, archives)
               P == PathOf(Prefix(archives, n - 1))
    <2>1. info = new_go_info(t, E, P) BY <1>4 DEF Emitted
    <2> HIDE DEF info, E, P, t
    <2>2. IsInfo(info, t, E, P) BY <2>1, InfoIs
    <2>3. t.imports \subseteq info.imports BY <2>2 DEF IsInfo
    <2> QED BY <2>3 DEF ImportsOf, info, t
  <1>6. p \in DOMAIN Resolved(n) /\ p \notin Std BY <1>2, <1>5 DEF Imports
  <1>7. PICK k \in own : c = deps[k] /\ \A i \in own : k <= i BY DEF Chosen
  <1>8. deps \in Seq(1..(n - 1))
    <2>1. IsBuild(build) BY BuildAssumption DEF BuildInv
    <2> QED BY <1>3, <2>1 DEF IsBuild, Main
  <1>9. c \in Range(archives[n].direct)
    <2>1. ASSUME NEW j \in 1..(k - 1) PROVE archives[deps[j]].info.importpath # archives[deps[k]].info.importpath
      <3>1. k \in DOMAIN deps /\ archives[deps[k]].info.importpath = p BY <1>7
      <3>2. DOMAIN deps = 1..Len(deps) /\ Len(deps) \in Nat
        <4> DEFINE T == 1..(n - 1)
        <4>1. deps \in Seq(T) BY <1>8
        <4> HIDE DEF T, deps
        <4> QED BY <4>1
      <3>3. j \in DOMAIN deps /\ ~(k <= j) BY <3>1, <3>2
      <3>4. j \notin own BY <1>7, <3>3
      <3> QED BY <3>1, <3>3, <3>4
    <2>2. k \in DOMAIN deps BY <1>7
    <2> QED BY <1>4, <1>7, <2>1, <2>2 DEF DirectFrom
  <1>10. c \in Range(DirectOf(n)) /\ Arc(c).importPath = p
    <2>1. archives[c].info.importpath = p BY <1>7
    <2> QED BY <1>1, <1>2, <1>9, <2>1, ArcIs DEF DirectFacts
  <1>11. PICK m \in Uses(n) : /\ Resolved(n)[p] = Arc(m) /\ m \in Range(DirectOf(n))
                              /\ \A d \in Range(DirectOf(n)) : Arc(d).importPath = p => Arc(m).importPath = p
    BY <1>2, <1>6 DEF Imports
  <1>12. Arc(m).importPath = p BY <1>10, <1>11
  <1>13. m = c
    <2>1. CASE m \in Range(archives[n].direct)
      <3>1. PICK i \in DOMAIN archives[n].direct : archives[n].direct[i] = m BY <2>1 DEF Range
      <3>2. PICK j \in DOMAIN archives[n].direct : archives[n].direct[j] = c BY <1>9 DEF Range
      <3>3. archives[m].info.importpath = p /\ archives[c].info.importpath = p BY <1>10, <1>12, ArcIs
      <3>4. i = j BY <1>4, <3>1, <3>2, <3>3 DEF DirectFrom
      <3> QED BY <3>1, <3>2, <3>4
    <2>2. CASE m \notin Range(archives[n].direct)
      <3>1. m = Coverdata
        <4>1. PICK i \in DOMAIN DirectOf(n) : DirectOf(n)[i] = m BY <1>11 DEF Range
        <4> QED BY <1>1, <1>2, <2>2, <4>1 DEF DirectFacts
      <3>2. c \in 1..Main
        <4>1. PICK i \in DOMAIN DirectOf(n) : DirectOf(n)[i] = c BY <1>10 DEF Range
        <4>2. c \in Needed BY <1>1, <1>2, <4>1 DEF DirectFacts
        <4> QED BY <1>2, <4>2 DEF TargetFacts
      <3>3. Arc(c).importPath = Arc(Coverdata).importPath BY <1>10, <1>12, <3>1
      <3> QED BY <1>2, <3>1, <3>2, <3>3 DEF TargetFacts
    <2> QED BY <2>1, <2>2
  <1>14. Mapped(Cfg(n), p) = Path(m) /\ ExportFile(m) \in FilesOf(Cfg(n), Path(m)) BY <1>2, <1>6, <1>11 DEF Compiled
  <1> QED BY <1>1, <1>13, <1>14

\* A value is stamped if the status has all its keys, and none has to be read that it has.
LEMMA StampedIs ==
    ASSUME NEW v \in DOMAIN archives[Main].x_defs, stamps = StampsNow
    PROVE  LET keys == archives[Main].x_defs[v] IN
           keys \subseteq stamps <=> (keys = {} \/ (build.stamp /\ keys \subseteq build.status))
  <1> DEFINE keys == archives[Main].x_defs[v]
             values == {archives[Main].x_defs[w] : w \in DOMAIN archives[Main].x_defs}
  <1>1. keys \in values OBVIOUS
  <1>2. StampFiles = {f \in {"info", "version"} : build.stamp /\ \E k \in values :
            IF f = "info" THEN k \cap StableKeys # {} ELSE k \ StableKeys # {}}
    BY DEF StampFiles
  <1> HIDE DEF keys, values
  <1>3. "info" \in StampFiles <=> build.stamp /\ \E k \in values : k \cap StableKeys # {} BY <1>2
  <1>4. "version" \in StampFiles <=> build.stamp /\ \E k \in values : k \ StableKeys # {} BY <1>2
  <1>5. \A k : k \in stamps <=> k \in build.status /\ IF k \in StableKeys THEN "info" \in StampFiles ELSE "version" \in StampFiles
    BY DEF StampsNow
  <1>6. ASSUME keys # {}, keys \subseteq stamps PROVE build.stamp /\ keys \subseteq build.status
    <2>1. PICK k \in keys : TRUE BY <1>6
    <2>2. build.stamp BY <1>3, <1>4, <1>5, <1>6, <2>1
    <2> QED BY <1>5, <1>6, <2>2
  <1>7. ASSUME build.stamp, keys \subseteq build.status, NEW k \in keys PROVE k \in stamps
    <2>1. CASE k \in StableKeys
      <3>1. keys \cap StableKeys # {} BY <2>1
      <3>2. "info" \in StampFiles BY <1>1, <1>3, <1>7, <3>1
      <3> QED BY <1>5, <1>7, <2>1, <3>2
    <2>2. CASE k \notin StableKeys
      <3>1. keys \ StableKeys # {} BY <2>2
      <3>2. "version" \in StampFiles BY <1>1, <1>4, <1>7, <3>1
      <3> QED BY <1>5, <1>7, <2>2, <3>2
    <2> QED BY <2>1, <2>2
  <1>8. (keys = {} \/ (build.stamp /\ keys \subseteq build.status)) => keys \subseteq stamps
    <2>1. build.stamp /\ keys \subseteq build.status => keys \subseteq stamps BY <1>7
    <2> QED BY <2>1
  <1> QED BY <1>6, <1>8 DEF keys

\* A definition that comes last decides.
LEMMA DecidesLast ==
    ASSUME NEW s, NEW N \in Nat, s = [i \in 1..N |-> s[i]], NEW x, NEW v \in DOMAIN x
    PROVE  v \in DOMAIN Updated(s \o <<x>>) /\ Updated(s \o <<x>>)[v] = x[v]
  <1> DEFINE S == Range(s) \cup {x}
             u == s \o <<x>>
  <1>1. s \in Seq(S) /\ Len(s) = N /\ <<x>> \in Seq(S) BY DEF Range
  <1>2. DOMAIN u = 1..(N + 1) /\ u[N + 1] = x
    <2> HIDE DEF S
    <2>1. Len(<<x>>) = 1 /\ <<x>>[1] = x OBVIOUS
    <2>2. Len(s \o <<x>>) = N + 1 /\ (s \o <<x>>)[N + 1] = x BY <1>1, <2>1
    <2> QED BY <1>1, <2>2
  <1> HIDE DEF u
  <1>3. N + 1 \in Nat /\ N + 1 # 0 OBVIOUS
  <1> DEFINE M == N + 1
  <1>4. M \in Nat /\ M # 0 /\ DOMAIN u = 1..M /\ v \in DOMAIN u[M] BY <1>2, <1>3
  <1> HIDE DEF M
  <1>5. v \in DOMAIN Updated(u) /\ Updated(u)[v] = u[M][v] BY <1>4, UpdatedLast
  <1>6. u[M][v] = x[v] BY <1>2 DEF M
  <1> QED BY <1>5, <1>6 DEF u

\* The definitions of a target itself, with the package path in them.
Own(t, path) ==
    [v \in {IF w[1] = None THEN <<path, w[2]>> ELSE w : w \in DOMAIN t.x_defs} |->
        IF v \in DOMAIN t.x_defs THEN t.x_defs[v] ELSE t.x_defs[<<None, v[2]>>]]

LEMMA OwnIs ==
    ASSUME NEW t, NEW embeds, NEW pathOf
    PROVE  new_go_info(t, embeds, pathOf).x_defs =
              Updated([e \in DOMAIN embeds |-> embeds[e].x_defs] \o <<Own(t, infer(t, embeds).importmap)>>)
  BY DEF new_go_info, Own

\* The definitions of the main target decide over those of the targets it embeds and of its
\* dependencies.
LEMMA OwnDecides ==
    ASSUME BuildInv, NEW v \in DOMAIN build.targets[Main].x_defs, v[1] = None
    PROVE  /\ <<Path(Main), v[2]>> \in DOMAIN archives[Main].x_defs
           /\ archives[Main].x_defs[<<Path(Main), v[2]>>] = build.targets[Main].x_defs[v]
  <1> DEFINE t == build.targets[Main]
             E == Embedded(t, archives)
             P == PathOf(Prefix(archives, Main - 1))
             a == archives[Main]
             w == <<Path(Main), v[2]>>
             own == Own(t, Path(Main))
             D == a.direct
  <1>1. TargetFacts /\ IsBuild(build) BY TheTargets, BuildAssumption DEF BuildInv
  <1>2. Main \in 1..Main BY <1>1 DEF TargetFacts
  <1>3. Emitted(build.targets, archives, Main) /\ DirectFrom(build.targets, archives, Main) BY <1>1, <1>2 DEF TargetFacts
  <1>4. /\ a.info = new_go_info(t, E, P)
        /\ a.x_defs = Updated([d \in DOMAIN D |-> archives[D[d]].x_defs] \o <<a.info.x_defs>>)
    BY <1>3 DEF Emitted
  <1>5. Path(Main) = infer(t, E).importmap
    <2>1. Path(Main) = a.info.importmap BY DEF Path
    <2> HIDE DEF t, E, P, a
    <2>2. IsInfo(a.info, t, E, P) BY <1>4, InfoIs
    <2> QED BY <2>1, <2>2 DEF IsInfo
  <1>6. v = <<v[1], v[2]>> /\ <<Path(Main), v[2]>> \notin DOMAIN t.x_defs
    <2>1. Path(Main) = Analysed(build.targets)[Main].info.importmap BY DEF Path, BuildInv
    <2> QED BY <1>1, <2>1 DEF IsBuild, Main
  <1>7. w \in DOMAIN own /\ own[w] = t.x_defs[v]
    <2>1. v = <<None, w[2]>> BY <1>6
    <2>2. w \in {IF x[1] = None THEN <<Path(Main), x[2]>> ELSE x : x \in DOMAIN t.x_defs} OBVIOUS
    <2>3. w \notin DOMAIN t.x_defs BY <1>6
    <2> QED BY <2>1, <2>2, <2>3 DEF Own
  <1>8. a.info.x_defs = Updated([e \in DOMAIN E |-> E[e].x_defs] \o <<own>>) BY <1>4, <1>5, OwnIs
  <1>9. \E N \in Nat : DOMAIN E = 1..N
    <2>1. t.embed \in Seq(1..(Main - 1)) BY <1>1, <1>2 DEF IsBuild, Main
    <2>2. DOMAIN E = 1..Len(t.embed) /\ Len(t.embed) \in Nat BY <2>1 DEF Embedded
    <2> QED BY <2>2
  <1>10. \E N \in Nat : DOMAIN D = 1..N
    <2>1. D \in Seq(1..(Main - 1)) BY <1>3 DEF DirectFrom
    <2>2. DOMAIN D = 1..Len(D) /\ Len(D) \in Nat BY <2>1
    <2> QED BY <2>2
  <1> HIDE DEF t, E, P, a, w, own, D
  <1>11. w \in DOMAIN a.info.x_defs /\ a.info.x_defs[w] = own[w]
    <2>1. PICK N \in Nat : DOMAIN E = 1..N BY <1>9
    <2> DEFINE s == [e \in DOMAIN E |-> E[e].x_defs]
    <2>2. s = [i \in 1..N |-> s[i]] BY <2>1
    <2> HIDE DEF s
    <2>3. w \in DOMAIN Updated(s \o <<own>>) /\ Updated(s \o <<own>>)[w] = own[w] BY <1>7, <2>2, DecidesLast
    <2> QED BY <1>8, <2>3 DEF s
  <1>12. w \in DOMAIN a.x_defs /\ a.x_defs[w] = a.info.x_defs[w]
    <2>1. PICK N \in Nat : DOMAIN D = 1..N BY <1>10
    <2> DEFINE s == [d \in DOMAIN D |-> archives[D[d]].x_defs]
               x == a.info.x_defs
    <2>2. s = [i \in 1..N |-> s[i]] BY <2>1
    <2>3. w \in DOMAIN x BY <1>11
    <2> HIDE DEF s, x
    <2>4. w \in DOMAIN Updated(s \o <<x>>) /\ Updated(s \o <<x>>)[w] = x[w] BY <2>2, <2>3, DecidesLast
    <2> QED BY <1>4, <2>4 DEF s, x
  <1> QED BY <1>7, <1>11, <1>12 DEF a, w, t

LEMMA TheDefsExact == BuildInv /\ StageInv /\ LinkInv => DefsExact
  <1> SUFFICES ASSUME BuildInv, StageInv, LinkInv, linkcfg # {} PROVE DefsExact
    BY DEF DefsExact
  <1> DEFINE x == archives[Main].x_defs
             t == build.targets[Main]
             Given(keys) == keys = {} \/ (build.stamp /\ keys \subseteq build.status)
  <1>1. defs = {<<Renamed(v), x[v]>> : v \in {w \in DOMAIN x : x[w] \subseteq stamps}} /\ stamps = StampsNow
    BY DEF LinkInv, StageInv, DefsNow
  <1>2. \A v \in DOMAIN x : x[v] \subseteq stamps <=> Given(x[v]) BY <1>1, StampedIs
  <1>3. \A v \in DOMAIN x : v = <<v[1], v[2]>>
                            /\ (v[1] = Path(Main) /\ Path(Main) # "main" => <<"main", v[2]>> \notin DOMAIN x)
    <2>1. IsBuild(build) /\ archives = Analysed(build.targets) BY BuildAssumption DEF BuildInv
    <2> QED BY <2>1 DEF IsBuild, Main, Path
  <1>4. \A v, w \in DOMAIN x : Renamed(v) = Renamed(w) => v = w
    <2> TAKE v \in DOMAIN x, w \in DOMAIN x
    <2> HAVE Renamed(v) = Renamed(w)
    <2>1. v = <<v[1], v[2]>> /\ w = <<w[1], w[2]>> BY <1>3
    <2>2. CASE v[1] = Path(Main) /\ w[1] = Path(Main)
      <3>1. <<"main", v[2]>> = <<"main", w[2]>> BY <2>2 DEF Renamed
      <3>2. v[2] = w[2] BY <3>1
      <3> QED BY <2>1, <2>2, <3>2
    <2>3. CASE v[1] = Path(Main) /\ w[1] # Path(Main)
      <3>1. w = <<"main", v[2]>> BY <2>3 DEF Renamed
      <3>2. Path(Main) = "main" BY <1>3, <2>3, <3>1
      <3>3. w[1] = "main" BY <3>1
      <3> QED BY <2>3, <3>2, <3>3
    <2>4. CASE v[1] # Path(Main) /\ w[1] = Path(Main)
      <3>1. v = <<"main", w[2]>> BY <2>4 DEF Renamed
      <3>2. Path(Main) = "main" BY <1>3, <2>4, <3>1
      <3>3. v[1] = "main" BY <3>1
      <3> QED BY <2>4, <3>2, <3>3
    <2>5. CASE v[1] # Path(Main) /\ w[1] # Path(Main) BY <2>5 DEF Renamed
    <2> QED BY <2>2, <2>3, <2>4, <2>5
  <1> HIDE DEF x, Given
  <1>5. ASSUME NEW v \in DOMAIN x
        PROVE  {d[2] : d \in {e \in defs : e[1] = Renamed(v)}} = {k \in {x[v]} : Given(k)}
    <2> DEFINE S == {d[2] : d \in {e \in defs : e[1] = Renamed(v)}}
    <2>1. \A k : k \in S <=> \E d \in defs : d[1] = Renamed(v) /\ d[2] = k OBVIOUS
    <2>2. \A d : d \in defs <=> \E w \in DOMAIN x : x[w] \subseteq stamps /\ d = <<Renamed(w), x[w]>> BY <1>1
    <2> HIDE DEF S, Renamed
    <2>3. ASSUME NEW k \in S PROVE k = x[v] /\ Given(x[v])
      <3>1. PICK d \in defs : d[1] = Renamed(v) /\ d[2] = k BY <2>1
      <3>2. PICK w \in DOMAIN x : x[w] \subseteq stamps /\ d = <<Renamed(w), x[w]>> BY <2>2
      <3>3. Renamed(w) = Renamed(v) /\ x[w] = k BY <3>1, <3>2
      <3>4. w = v BY <1>4, <3>3
      <3> QED BY <1>2, <3>2, <3>3, <3>4
    <2>4. ASSUME Given(x[v]) PROVE x[v] \in S
      <3> DEFINE d == <<Renamed(v), x[v]>>
      <3>1. d \in defs BY <1>2, <2>2, <2>4
      <3>2. d[1] = Renamed(v) /\ d[2] = x[v] OBVIOUS
      <3> HIDE DEF d
      <3> QED BY <2>1, <3>1, <3>2
    <2>5. S = {k \in {x[v]} : Given(k)} BY <2>3, <2>4
    <2> QED BY <2>5 DEF S
  <1>6. ASSUME NEW v \in DOMAIN t.x_defs, v[1] = None, Given(t.x_defs[v])
        PROVE  <<<<"main", v[2]>>, t.x_defs[v]>> \in defs
    <2> DEFINE w == <<Path(Main), v[2]>>
    <2>1. w \in DOMAIN x /\ x[w] = t.x_defs[v] BY <1>6, OwnDecides DEF x
    <2>2. Renamed(w) = <<"main", v[2]>> BY DEF Renamed
    <2> HIDE DEF w
    <2>3. x[w] \subseteq stamps BY <1>2, <1>6, <2>1
    <2>4. <<Renamed(w), x[w]>> \in defs BY <1>1, <2>1, <2>3
    <2> QED BY <2>1, <2>2, <2>4
  <1>7. "version" \in StampFiles => \E v \in DOMAIN x : x[v] \ StableKeys # {}
    <2>1. "version" \in StampFiles => \E keys \in {x[v] : v \in DOMAIN x} : keys \ StableKeys # {}
      BY DEF StampFiles, x
    <2> QED BY <2>1
  <1>8. \A v : Renamed(v) = IF v[1] = archives[Main].info.importmap THEN <<"main", v[2]>> ELSE v
    BY DEF Renamed, Path
  <1> QED BY <1>5, <1>6, <1>7, <1>8 DEF DefsExact, x, Given

-----------------------------------------------------------------------------
(* The modules of the build information *)

Paths(S) == {Path(n) : n \in S}

\* The targets that the main package imports, directly or through others: what the builder's
\* search of the imports files must find.
ClosedUses(S) == Uses(Main) \subseteq S /\ \A m \in S : Uses(m) \subseteq S
Followed == {n \in Needed : \A S \in SUBSET Needed : ClosedUses(S) => n \in S}

LEMMA TheFollowed ==
    ASSUME BuildInv
    PROVE  /\ Followed \subseteq Needed \ {Main} /\ ClosedUses(Followed)
           /\ \A S \in SUBSET Needed : ClosedUses(S) => Followed \subseteq S
  <1>1. TargetFacts BY TheTargets
  <1>2. \A n : Uses(n) \subseteq Needed \ {Main} BY DEF Uses
  <1>3. ClosedUses(Needed \ {Main}) BY <1>2 DEF ClosedUses
  <1>4. \A S \in SUBSET Needed : ClosedUses(S) => Followed \subseteq S BY DEF Followed
  <1>5. Followed \subseteq Needed \ {Main} BY <1>3, <1>4
  <1>6. Uses(Main) \subseteq Followed BY <1>2 DEF Followed, ClosedUses
  <1>7. ASSUME NEW m \in Followed, NEW n \in Uses(m) PROVE n \in Followed
    <2>1. \A S \in SUBSET Needed : ClosedUses(S) => n \in S BY <1>7 DEF Followed, ClosedUses
    <2> QED BY <1>2, <1>7, <2>1 DEF Followed
  <1> QED BY <1>4, <1>5, <1>6, <1>7 DEF ClosedUses

\* When all is compiled, what the compiler was given for the imports of a package are the targets
\* that they resolve to.
LEMMA StepIs ==
    ASSUME BuildInv, CompiledInv, NEW n \in DOMAIN compiled
    PROVE  Step(n) = Uses(n)
  <1>1. n \in Needed /\ Checked(n).err = "none" /\ compiled[n].importcfg = Cfg(n) BY DEF CompiledInv, Cfg
  <1>2. Imports(n) /\ Compiled(n) BY <1>1, TheImports, TheCompiled
  <1>3. ASSUME NEW m \in Step(n) PROVE m \in Uses(n)
    <2>1. PICK p \in ImportsOf(n) : ExportFile(m) \in FilesOf(Cfg(n), Mapped(Cfg(n), p)) BY <1>1 DEF Step
    <2>2. \A q : ExportFile(m) # StdFile(q) BY DEF ExportFile, StdFile
    <2>3. PICK k \in Uses(n) : ExportFile(m) = ExportFile(k) BY <1>2, <2>1, <2>2 DEF Compiled
    <2> QED BY <2>3, OneArc
  <1>4. ASSUME NEW m \in Uses(n) PROVE m \in Step(n)
    <2>1. PICK p \in DOMAIN Resolved(n) : Resolved(n)[p] = Arc(m) BY DEF Uses
    <2>2. ExportFile(m) \in FilesOf(Cfg(n), Mapped(Cfg(n), p)) BY <1>2, <2>1 DEF Compiled
    <2>3. p \in ImportsOf(n) /\ m \in Needed BY <1>2 DEF Imports, Uses
    <2> QED BY <1>1, <2>2, <2>3 DEF Step
  <1> QED BY <1>3, <1>4

LEMMA ImportedIs ==
    ASSUME BuildInv, CompiledInv, DOMAIN compiled = Needed
    PROVE  Imported = Followed
  <1>1. \A n \in Needed : Step(n) = Uses(n) BY StepIs
  <1>2. Main \in Needed BY TheTargets DEF TargetFacts
  <1>3. \A S \in SUBSET Needed : (Closed(S) /\ Step(Main) \subseteq S) <=> ClosedUses(S)
    BY <1>1, <1>2 DEF Closed, ClosedUses
  <1> DEFINE closed == {S \in SUBSET Needed : Closed(S) /\ Step(Main) \subseteq S}
  <1>4. closed = {S \in SUBSET Needed : ClosedUses(S)} BY <1>3
  <1>5. Imported = {n \in Needed : \A S \in closed : n \in S} BY DEF Imported
  <1> HIDE DEF closed
  <1> QED BY <1>4, <1>5 DEF Followed

\* Without a conflict a package path stands for one target.
LEMMA OnePath ==
    ASSUME BuildInv, ~Conflicting, NEW m \in Needed, NEW n \in Needed, Path(m) = Path(n)
    PROVE  m = n
  <1>1. TargetFacts BY TheTargets
  <1>2. \A k \in Needed \ {Main} : Path(k) # Path(Main) BY <1>1 DEF TargetFacts
  <1>3. \A j, k \in Needed \ {Main} : j # k => Path(j) # Path(k) BY DEF Conflicting, Path
  <1> QED BY <1>2, <1>3

LEMMA KeyedIs ==
    ASSUME BuildInv, ~Conflicting, NEW S, S \subseteq Needed
    PROVE  DOMAIN KeyedPaths(S) = Paths(S) /\ \A n \in S : KeyedPaths(S)[Path(n)] = n
  <1> DEFINE Is(p, n) == Path(n) = p /\ \A m \in S : Path(m) = p => m <= n
  <1>1. KeyedPaths(S) = [p \in Paths(S) |-> CHOOSE n \in S : Is(p, n)] BY DEF KeyedPaths, Paths, Path
  <1>2. Needed \subseteq Nat
    <2>1. TargetFacts BY TheTargets
    <2> QED BY <2>1 DEF TargetFacts
  <1>3. ASSUME NEW n \in S PROVE Path(n) \in Paths(S) /\ (CHOOSE m \in S : Is(Path(n), m)) = n
    <2>1. \A m \in S : Path(m) = Path(n) => m = n BY OnePath
    <2>2. Is(Path(n), n) BY <1>2, <2>1
    <2>3. \A m \in S : Is(Path(n), m) => m = n BY <2>1
    <2> HIDE DEF Is
    <2> QED BY <2>2, <2>3 DEF Paths
  <1> HIDE DEF Is
  <1> QED BY <1>1, <1>3

\* What follows a package path in the search.
LEMMA NextPaths ==
    ASSUME BuildInv, CompiledInv, ~Conflicting, DOMAIN compiled = Needed, NEW n \in Followed
    PROVE  IF Path(n) \in DOMAIN ImportsByPackage
           THEN compiled[ImportsByPackage[Path(n)]].imports = Paths(Uses(n))
           ELSE Uses(n) = {}
  <1>1. TargetFacts /\ n \in Needed \ {Main} BY TheTargets, TheFollowed
  <1> DEFINE S == AllArchives \ {Main}
  <1>2. S \subseteq Needed BY <1>1 DEF TargetFacts
  <1>3. ImportsByPackage = KeyedPaths(S) BY DEF ImportsByPackage
  <1> HIDE DEF S
  <1>4. DOMAIN ImportsByPackage = Paths(S) /\ \A k \in S : ImportsByPackage[Path(k)] = k BY <1>2, <1>3, KeyedIs
  <1>5. CASE n \in S
    <2>1. Path(n) \in Paths(S) BY <1>5 DEF Paths
    <2>2. compiled[n] = CompiledAs(n) /\ Checked(n).err = "none" BY <1>1 DEF CompiledInv
    <2>3. Compiled(n) BY <1>1, <2>2, TheCompiled
    <2> QED BY <1>4, <1>5, <2>1, <2>2, <2>3 DEF Compiled, Paths
  <1>6. CASE n \notin S
    <2>1. n = Coverdata BY <1>1, <1>6 DEF S, TargetFacts
    <2>2. Path(n) \notin Paths(S)
      <3> SUFFICES ASSUME NEW k \in S, Path(k) = Path(n) PROVE FALSE
        BY DEF Paths
      <3>1. k = n BY <1>1, <1>2, OnePath
      <3> QED BY <1>6, <3>1
    <2>3. Uses(n) = {}
      <3>1. Checked(n).err = "none" BY <1>1 DEF CompiledInv
      <3>2. Imports(n) BY <1>1, <3>1, TheImports
      <3>3. ImportsOf(n) \subseteq Std BY <2>1, TheCoverdata DEF ImportsOf, Instrumented
      <3>4. \A p \in DOMAIN Resolved(n) : Resolved(n)[p] = Nil BY <3>2, <3>3 DEF Imports
      <3>5. \A m \in Needed : Arc(m) # Nil BY <1>1 DEF TargetFacts
      <3> QED BY <3>4, <3>5 DEF Uses
    <2> QED BY <1>4, <2>2, <2>3
  <1> QED BY <1>5, <1>6

LEMMA FinitePaths == ASSUME BuildInv, NEW n PROVE IsFiniteSet(Paths(Uses(n)))
  <1> DEFINE U == Uses(n)
             f == [m \in U |-> Path(m)]
  <1>1. TargetFacts BY TheTargets
  <1>2. U \in SUBSET (1..Main) /\ Main \in Nat BY <1>1 DEF Uses, TargetFacts
  <1>3. IsFiniteSet(1..Main) BY <1>2, FS_Interval
  <1> HIDE DEF U
  <1>4. IsFiniteSet(U) BY <1>2, <1>3, FS_Subset
  <1>5. f \in Surjection(U, Paths(U)) BY DEF Surjection, Paths
  <1> HIDE DEF f
  <1>6. IsFiniteSet(Paths(U)) BY <1>4, <1>5, FS_Surjection
  <1> QED BY <1>6 DEF U

\* A sequence is its front and its last element.
LEMMA FrontLast ==
    ASSUME NEW T, NEW q \in Seq(T), q # <<>>
    PROVE  Front(q) \in Seq(T) /\ Last(q) \in T /\ Range(q) = Range(Front(q)) \cup {Last(q)}
  <1> DEFINE N == Len(q)
             f == Front(q)
  <1>1. N \in Nat /\ N # 0 /\ DOMAIN q = 1..N BY EmptySeq
  <1>2. f = SubSeq(q, 1, N - 1) /\ Last(q) = q[N] BY DEF Front, Last
  <1>3. f \in Seq(T) /\ DOMAIN f = 1..(N - 1) /\ \A i \in 1..(N - 1) : f[i] = q[i]
    <2>1. f = [i \in 1..(N - 1) |-> q[i]] BY <1>1, <1>2
    <2>2. N - 1 \in Nat /\ \A i \in 1..(N - 1) : q[i] \in T BY <1>1
    <2> HIDE DEF N
    <2> QED BY <2>1, <2>2
  <1> HIDE DEF N, f
  <1>4. \A i \in 1..N : i = N \/ i \in 1..(N - 1) BY <1>1
  <1>5. N \in 1..N /\ \A i \in 1..(N - 1) : i \in 1..N BY <1>1
  <1>6. Range(q) = Range(f) \cup {q[N]}
    <2>1. \A x : x \in Range(q) <=> \E i \in 1..N : x = q[i] BY <1>1 DEF Range
    <2>2. \A x : x \in Range(f) <=> \E i \in 1..(N - 1) : x = q[i] BY <1>3 DEF Range
    <2> QED BY <1>4, <1>5, <2>1, <2>2
  <1>7. q[N] \in T BY <1>1, <1>5
  <1> QED BY <1>2, <1>3, <1>6, <1>7 DEF f

LEMMA JoinedRange ==
    ASSUME NEW T, NEW s \in Seq(T), NEW u \in Seq(T)
    PROVE  s \o u \in Seq(T) /\ Range(s \o u) = Range(s) \cup Range(u)
  <1> DEFINE M == Len(s)
             N == Len(u)
             j == s \o u
  <1>1. M \in Nat /\ N \in Nat /\ DOMAIN s = 1..M /\ DOMAIN u = 1..N OBVIOUS
  <1>2. j \in Seq(T) /\ DOMAIN j = 1..(M + N) OBVIOUS
  <1>3. \A i \in 1..M : i \in 1..(M + N) /\ j[i] = s[i] OBVIOUS
  <1>4. \A i \in 1..N : M + i \in 1..(M + N) /\ j[M + i] = u[i] OBVIOUS
  <1>5. \A i \in 1..(M + N) : i \in 1..M \/ \E k \in 1..N : i = M + k
    <2> TAKE i \in 1..(M + N)
    <2>1. i \notin 1..M => i - M \in 1..N /\ i = M + (i - M) BY <1>1
    <2> QED BY <2>1
  <1> HIDE DEF j, M, N
  <1>6. \A x : x \in Range(j) <=> \E i \in 1..(M + N) : x = j[i] BY <1>2 DEF Range
  <1>7. \A x : x \in Range(s) <=> \E i \in 1..M : x = s[i] BY <1>1 DEF Range
  <1>8. \A x : x \in Range(u) <=> \E i \in 1..N : x = u[i] BY <1>1 DEF Range
  <1>9. Range(j) = Range(s) \cup Range(u) BY <1>3, <1>4, <1>5, <1>6, <1>7, <1>8
  <1> QED BY <1>2, <1>9 DEF j

StartInv ==
    /\ pc = "compile" => reachable = {} /\ modules = {}
    /\ pc = "reach" => shouldEmitBuildInfo /\ modules = {}

\* The search has followed what it has followed, and has the rest in its queue.
Searched(q, r) ==
    /\ q \in Seq(Paths(Followed)) /\ r \subseteq Paths(Followed)
    /\ Paths(Uses(Main)) \subseteq r \cup Range(q)
    /\ \A n \in Followed : Path(n) \in r => Paths(Uses(n)) \subseteq r \cup Range(q)

Found == UNION {PurlsOf(n) : n \in Followed}
ModulesNow ==
    IF shouldEmitBuildInfo
    THEN {moduleFromPURL(p) : p \in {q \in Found : \A main \in PurlsOf(Main) : q.path # main.path}}
    ELSE {}

SearchInv ==
    ~Conflicting => /\ pc = "reach" => Searched(queue, reachable)
                    /\ pc \in {"importcfg", "link"} \/ linkcfg # {} => modules = ModulesNow

LEMMA SearchInit == Init => StartInv /\ SearchInv
  BY DEF Init, StartInv, SearchInv

LEMMA SameSearch ==
    ASSUME build' = build, archives' = archives
    PROVE  /\ Followed' = Followed /\ \A S : Paths(S)' = Paths(S)
           /\ ModulesNow' = ModulesNow /\ \A q, r : Searched(q, r)' <=> Searched(q, r)
  <1>1. /\ Needed' = Needed /\ Main' = Main /\ \A n : Path(n)' = Path(n) /\ Uses(n)' = Uses(n)
    BY SameFacts
  <1>2. \A S : ClosedUses(S)' <=> ClosedUses(S)
    <2> TAKE S
    <2>1. Uses(Main)' = Uses(Main) BY <1>1 DEF Uses, Resolved, Checked, Main, Needed, Arc, DirectOf, ImportsOf, Instrumented
    <2> QED BY <1>1, <2>1 DEF ClosedUses
  <1>3. Followed' = Followed BY <1>1, <1>2 DEF Followed
  <1>4. \A S : Paths(S)' = Paths(S) BY <1>1 DEF Paths
  <1>5. \A n : PurlsOf(n)' = PurlsOf(n) BY DEF PurlsOf
  <1>6. Found' = Found BY <1>3, <1>5 DEF Found
  <1>7. PurlsOf(Main)' = PurlsOf(Main) BY <1>1 DEF PurlsOf
  <1>8. shouldEmitBuildInfo' <=> shouldEmitBuildInfo BY DEF shouldEmitBuildInfo
  <1>9. ModulesNow' = ModulesNow BY <1>6, <1>7, <1>8 DEF ModulesNow, moduleFromPURL, isUnprefixedSemver
  <1>10. Paths(Followed)' = Paths(Followed) BY <1>1, <1>3 DEF Paths
  <1>11. \A n : Paths(Uses(n))' = Paths(Uses(n)) BY <1>1 DEF Paths
  <1>12. Paths(Uses(Main))' = Paths(Uses(Main))
    <2>1. Uses(Main)' = Uses(Main) BY <1>1 DEF Uses, Resolved, Checked, Main, Needed, Arc, DirectOf, ImportsOf, Instrumented
    <2> QED BY <1>1, <2>1 DEF Paths
  <1>13. \A q, r : Searched(q, r)' <=> Searched(q, r)
    <2> TAKE q, r
    <2> QED BY <1>1, <1>3, <1>10, <1>11, <1>12 DEF Searched
  <1> QED BY <1>3, <1>4, <1>9, <1>13

\* The search begins with what the main package imports.
LEMMA SearchStarts ==
    ASSUME BuildInv, CompiledInv, DOMAIN compiled = Needed
    PROVE  Searched(SetToSeq(compiled[Main].imports), {})
  <1>1. TargetFacts BY TheTargets
  <1>2. compiled[Main] = CompiledAs(Main) /\ Checked(Main).err = "none" /\ Main \in Needed
    BY <1>1 DEF CompiledInv, TargetFacts
  <1>3. compiled[Main].imports = Paths(Uses(Main)) BY <1>2, TheCompiled DEF Compiled, Paths
  <1> DEFINE I == Paths(Uses(Main))
             q == SetToSeq(I)
             T == Paths(Followed)
  <1>4. IsFiniteSet(I) BY FinitePaths
  <1>5. Uses(Main) \subseteq Followed BY TheFollowed DEF ClosedUses
  <1>6. I \subseteq T BY <1>5 DEF Paths
  <1> HIDE DEF I, T
  <1>7. q \in Seq(I) /\ Range(q) = I BY <1>4, ListIs
  <1> HIDE DEF q
  <1>8. q \in Seq(T) BY <1>6, <1>7
  <1>9. Searched(q, {})
    BY <1>7, <1>8 DEF Searched, I, T
  <1> QED BY <1>3, <1>9 DEF q, I

\* The search goes on with what a package imports that it had not followed.
LEMMA SearchGoesOn ==
    ASSUME BuildInv, CompiledInv, ~Conflicting, DOMAIN compiled = Needed, Searched(queue, reachable), queue # <<>>
    PROVE  IF Last(queue) \in reachable
           THEN Searched(Front(queue), reachable)
           ELSE Searched(Follow(Last(queue)), reachable \cup {Last(queue)})
  <1> DEFINE T == Paths(Followed)
             path == Last(queue)
             front == Front(queue)
             r == reachable
  <1>1. queue \in Seq(T) /\ r \subseteq T BY DEF Searched
  <1>2. front \in Seq(T) /\ path \in T /\ Range(queue) = Range(front) \cup {path}
    <2> HIDE DEF T
    <2> QED BY <1>1, FrontLast
  <1>3. /\ Paths(Uses(Main)) \subseteq r \cup Range(queue)
        /\ \A n \in Followed : Path(n) \in r => Paths(Uses(n)) \subseteq r \cup Range(queue)
    BY DEF Searched
  <1>4. CASE path \in r
    <2>1. r \cup Range(queue) = r \cup Range(front) BY <1>2, <1>4
    <2>2. Searched(front, r) BY <1>1, <1>2, <1>3, <2>1 DEF Searched
    <2> QED BY <1>4, <2>2
  <1>5. CASE path \notin r
    <2>1. PICK n \in Followed : path = Path(n) BY <1>2 DEF Paths
    <2> DEFINE u == IF path \in DOMAIN ImportsByPackage THEN SetToSeq(compiled[ImportsByPackage[path]].imports) ELSE <<>>
               U == Paths(Uses(n))
               s == r \cup {path}
    <2>2. Follow(path) = front \o u BY DEF Follow
    <2>3. u \in Seq(T) /\ Range(u) = U
      <3>1. IF path \in DOMAIN ImportsByPackage THEN compiled[ImportsByPackage[path]].imports = U ELSE Uses(n) = {}
        BY <2>1, NextPaths
      <3>2. CASE path \in DOMAIN ImportsByPackage
        <4>1. IsFiniteSet(U) BY FinitePaths
        <4>2. Uses(n) \subseteq Followed BY TheFollowed DEF ClosedUses
        <4>3. U \subseteq T BY <4>2 DEF Paths
        <4>4. u = SetToSeq(U) BY <3>1, <3>2
        <4> HIDE DEF u, U, T
        <4>5. u \in Seq(U) /\ Range(u) = U BY <4>1, <4>4, ListIs
        <4> QED BY <4>3, <4>5
      <3>3. CASE path \notin DOMAIN ImportsByPackage
        <4>1. U = {} BY <3>1, <3>3 DEF Paths
        <4>2. u = <<>> BY <3>3
        <4> HIDE DEF u, U, T
        <4>3. <<>> \in Seq(T) /\ Range(<<>>) = {} BY DEF Range
        <4> QED BY <4>1, <4>2, <4>3
      <3> QED BY <3>2, <3>3
    <2> HIDE DEF u
    <2>4. front \o u \in Seq(T) /\ Range(front \o u) = Range(front) \cup U
      <3> HIDE DEF front, T, U
      <3> QED BY <1>2, <2>3, JoinedRange
    <2> DEFINE q == front \o u
    <2>5. q \in Seq(T) /\ Range(q) = Range(front) \cup U BY <2>4
    <2> HIDE DEF q, U, front
    <2>6. s \cup Range(q) = (r \cup Range(queue)) \cup U BY <1>2, <2>5
    <2>7. s \subseteq T BY <1>1, <1>2
    <2>8. Paths(Uses(Main)) \subseteq s \cup Range(q) BY <1>3, <2>6
    <2>9. ASSUME NEW m \in Followed, Path(m) \in s PROVE Paths(Uses(m)) \subseteq s \cup Range(q)
      <3>1. CASE Path(m) \in r BY <1>3, <2>6, <3>1
      <3>2. CASE Path(m) = path
        <4>1. m = n BY <2>1, <3>2, OnePath, TheFollowed
        <4> QED BY <2>6, <4>1 DEF U
      <3> QED BY <2>9, <3>1, <3>2
    <2>10. Searched(q, s)
      <3> HIDE DEF s
      <3> QED BY <2>5, <2>7, <2>8, <2>9 DEF Searched
    <2> QED BY <1>5, <2>2, <2>10 DEF q, front
  <1> QED BY <1>4, <1>5

\* When nothing is left to follow, what was followed is what the main package imports.
LEMMA SearchEnds ==
    ASSUME BuildInv, ~Conflicting, Searched(<<>>, reachable)
    PROVE  reachable = Paths(Followed)
  <1> DEFINE S == {n \in Followed : Path(n) \in reachable}
  <1>1. Range(<<>>) = {} BY DEF Range
  <1>2. /\ reachable \subseteq Paths(Followed) /\ Paths(Uses(Main)) \subseteq reachable
        /\ \A n \in Followed : Path(n) \in reachable => Paths(Uses(n)) \subseteq reachable
    BY <1>1 DEF Searched
  <1>3. ClosedUses(Followed) /\ Followed \subseteq Needed BY TheFollowed
  <1>4. ClosedUses(S) BY <1>2, <1>3 DEF ClosedUses, Paths
  <1>5. Followed \subseteq S BY <1>3, <1>4, TheFollowed
  <1>6. Paths(Followed) \subseteq reachable BY <1>5 DEF Paths
  <1> QED BY <1>2, <1>6

\* The packages that were followed have the metadata that the build information must have.
LEMMA FoundIs ==
    ASSUME BuildInv, ~Conflicting, reachable = Paths(Followed)
    PROVE  UNION {archives[MetadataByPackage[p]].info.metadata : p \in reachable \cap DOMAIN MetadataByPackage} =
           UNION {archives[n].info.metadata : n \in Followed}
  <1> DEFINE S == {n \in AllArchives : archives[n].info.metadata # {}}
             M == MetadataByPackage
             meta(n) == archives[n].info.metadata
             L == {meta(M[p]) : p \in reachable \cap DOMAIN M}
             R == {meta(n) : n \in Followed}
  <1>1. TargetFacts /\ Followed \subseteq Needed \ {Main} BY TheTargets, TheFollowed
  <1>2. S \subseteq Needed /\ S \subseteq AllArchives BY <1>1 DEF TargetFacts
  <1>3. M = KeyedPaths(S) BY DEF MetadataByPackage
  <1>4. \A n \in AllArchives : n \in S <=> meta(n) # {} OBVIOUS
  <1> HIDE DEF S, M, meta
  <1>5. DOMAIN M = Paths(S) /\ \A n \in S : M[Path(n)] = n BY <1>2, <1>3, KeyedIs
  <1>6. ASSUME NEW p \in reachable \cap DOMAIN M PROVE \E n \in Followed : meta(M[p]) = meta(n)
    <2>1. PICK n \in Followed : p = Path(n) BY <1>6 DEF Paths
    <2>2. PICK k \in S : p = Path(k) BY <1>5, <1>6 DEF Paths
    <2>3. k = n BY <1>1, <1>2, <2>1, <2>2, OnePath
    <2> QED BY <1>5, <2>1, <2>2, <2>3
  <1>7. ASSUME NEW n \in Followed, meta(n) # {} PROVE \E p \in reachable \cap DOMAIN M : meta(M[p]) = meta(n)
    <2>1. n # Coverdata BY <1>7, TheCoverdata DEF meta
    <2>2. n \in AllArchives BY <1>1, <2>1 DEF TargetFacts
    <2>3. n \in S BY <1>4, <1>7, <2>2
    <2>4. Path(n) \in reachable /\ Path(n) \in DOMAIN M BY <1>5, <2>3 DEF Paths
    <2> QED BY <1>5, <2>3, <2>4
  <1>8. UNION L = UNION R
    <2>1. \A x \in UNION L : x \in UNION R
      <3> TAKE x \in UNION L
      <3>1. PICK p \in reachable \cap DOMAIN M : x \in meta(M[p]) OBVIOUS
      <3>2. PICK n \in Followed : meta(M[p]) = meta(n) BY <1>6
      <3> QED BY <3>1, <3>2
    <2>2. \A x \in UNION R : x \in UNION L
      <3> TAKE x \in UNION R
      <3>1. PICK n \in Followed : x \in meta(n) OBVIOUS
      <3>2. PICK p \in reachable \cap DOMAIN M : meta(M[p]) = meta(n) BY <1>7, <3>1
      <3> QED BY <3>1, <3>2
    <2> QED BY <2>1, <2>2
  <1> QED BY <1>8 DEF L, R, M, meta

LEMMA ModulesAre ==
    ASSUME BuildInv, ~Conflicting, shouldEmitBuildInfo, Searched(<<>>, reachable), Modules, pc' = "importcfg"
    PROVE  modules' = ModulesNow
  <1> DEFINE found == UNION {archives[MetadataByPackage[p]].info.metadata : p \in reachable \cap DOMAIN MetadataByPackage}
             meta == UNION {archives[n].info.metadata : n \in Followed}
             main == archives[Main].info.metadata
             new == buildInfoDeps(modulesFromPackageMetadataFiles(found), modulesFromPackageMetadataFiles(main))
  <1>1. modules' = new BY DEF Modules, Fail
  <1>2. found = meta BY SearchEnds, FoundIs
  <1>3. PurlsOf(Main) = {p \in main : p.golang} BY DEF PurlsOf
  <1>4. Found = {p \in meta : p.golang}
    <2>1. \A x : x \in Found <=> \E n \in Followed : x \in archives[n].info.metadata /\ x.golang BY DEF Found, PurlsOf
    <2>2. \A x : x \in meta <=> \E n \in Followed : x \in archives[n].info.metadata OBVIOUS
    <2> HIDE DEF meta
    <2> QED BY <2>1, <2>2
  <1> HIDE DEF found, meta, main
  <1>5. \A p : moduleFromPURL(p).path = p.path BY DEF moduleFromPURL
  <1>6. new = {m \in {moduleFromPURL(p) : p \in Found} : \A k \in {moduleFromPURL(p) : p \in PurlsOf(Main)} : m.path # k.path}
    BY <1>2, <1>3, <1>4 DEF buildInfoDeps, modulesFromPackageMetadataFiles
  <1> HIDE DEF new
  <1> DEFINE Mod(p) == moduleFromPURL(p)
  <1>7. new = {Mod(p) : p \in {q \in Found : \A k \in PurlsOf(Main) : q.path # k.path}}
    <2>1. \A p : Mod(p).path = p.path BY <1>5
    <2>2. \A m : m \in new <=> (\E p \in Found : m = Mod(p)) /\ \A k \in PurlsOf(Main) : m.path # Mod(k).path BY <1>6
    <2> HIDE DEF Mod
    <2>3. \A m : m \in new <=> \E p \in Found : m = Mod(p) /\ \A k \in PurlsOf(Main) : p.path # k.path BY <2>1, <2>2
    <2> QED BY <2>3
  <1> QED BY <1>1, <1>7 DEF ModulesNow

LEMMA StartStep == StartInv /\ [Next]_vars => StartInv'
  <1> SUFFICES ASSUME StartInv, [Next]_vars PROVE StartInv'
    OBVIOUS
  <1>1. shouldEmitBuildInfo' <=> shouldEmitBuildInfo BY SameBuild DEF shouldEmitBuildInfo
  <1>2. ASSUME NEW n \in DOMAIN archives, Compile(n) PROVE StartInv'
    <2>1. pc = "compile" /\ pc' \in {"compile", "done"} /\ reachable' = reachable /\ modules' = modules
      BY <1>2 DEF Compile
    <2> QED BY <2>1 DEF StartInv
  <1>3. CASE Stamp
    <2>1. pc = "compile" /\ pc' # "compile" /\ modules' = modules /\ (pc' = "reach" => shouldEmitBuildInfo)
      BY <1>3 DEF Stamp
    <2> QED BY <1>1, <2>1 DEF StartInv
  <1>4. CASE Reach
    <2>1. pc = "reach" /\ pc' = pc /\ modules' = modules BY <1>4 DEF Reach
    <2> QED BY <1>1, <2>1 DEF StartInv
  <1>5. CASE Modules \/ Importcfg \/ Linker
    <2>1. pc' \notin {"compile", "reach"} BY <1>5 DEF Modules, Importcfg, Linker, Fail
    <2> QED BY <2>1 DEF StartInv
  <1>6. CASE UNCHANGED vars BY <1>1, <1>6 DEF StartInv, vars
  <1> QED BY <1>2, <1>3, <1>4, <1>5, <1>6 DEF Next

LEMMA SearchStep ==
    BuildInv /\ CompiledInv /\ StageInv /\ StartInv /\ SearchInv /\ [Next]_vars => SearchInv'
  <1> SUFFICES ASSUME BuildInv, CompiledInv, StageInv, StartInv, SearchInv, [Next]_vars, ~Conflicting
               PROVE  SearchInv'
    BY SameBuild, SameFacts DEF SearchInv
  <1>1. build' = build /\ archives' = archives BY SameBuild
  <1>2. ModulesNow' = ModulesNow /\ \A q, r : Searched(q, r)' <=> Searched(q, r) BY <1>1, SameSearch
  <1>3. SUFFICES /\ pc' = "reach" => Searched(queue', reachable')
                 /\ pc' \in {"importcfg", "link"} \/ linkcfg' # {} => modules' = ModulesNow
    <2>1. Searched(queue', reachable') => Searched(queue, reachable)'
      BY <1>1, <1>2 DEF Searched
    <2> QED BY <1>2, <1>3, <2>1 DEF SearchInv
  <1>4. ASSUME NEW n \in DOMAIN archives, Compile(n)
        PROVE  pc' \in {"compile", "done"} /\ linkcfg' = {}
    <2>1. pc = "compile" /\ linkcfg' = linkcfg BY <1>4 DEF Compile
    <2> QED BY <1>4, <2>1 DEF StageInv, Compile
  <1>5. CASE Stamp
    <2>1. pc = "compile" /\ DOMAIN compiled = Needed /\ linkcfg' = linkcfg /\ linkcfg = {} /\ reachable' = {} /\ modules' = {}
      BY <1>5 DEF Stamp, StageInv, StartInv
    <2>2. CASE shouldEmitBuildInfo
      <3>1. pc' = "reach" /\ queue' = SetToSeq(compiled[Main].imports) BY <1>5, <2>2 DEF Stamp
      <3>2. Searched(SetToSeq(compiled[Main].imports), {}) BY <2>1, SearchStarts
      <3> QED BY <2>1, <3>1, <3>2
    <2>3. CASE ~shouldEmitBuildInfo
      <3>1. pc' = "importcfg" BY <1>5, <2>3 DEF Stamp
      <3> QED BY <2>1, <2>3, <3>1 DEF ModulesNow
    <2> QED BY <2>2, <2>3
  <1>6. CASE Reach
    <2>1. pc = "reach" /\ pc' = pc /\ queue # <<>> /\ linkcfg' = linkcfg /\ linkcfg = {} /\ DOMAIN compiled = Needed
      BY <1>6 DEF Reach, StageInv
    <2>2. Searched(queue, reachable) BY <2>1 DEF SearchInv
    <2>3. IF Last(queue) \in reachable
          THEN queue' = Front(queue) /\ reachable' = reachable
          ELSE queue' = Follow(Last(queue)) /\ reachable' = reachable \cup {Last(queue)}
      BY <1>6 DEF Reach
    <2>4. IF Last(queue) \in reachable
          THEN Searched(Front(queue), reachable)
          ELSE Searched(Follow(Last(queue)), reachable \cup {Last(queue)})
      BY <2>1, <2>2, SearchGoesOn
    <2> QED BY <2>1, <2>3, <2>4
  <1>7. CASE Modules
    <2>1. pc = "reach" /\ queue = <<>> /\ linkcfg' = linkcfg /\ linkcfg = {} /\ pc' \in {"done", "importcfg"}
      BY <1>7 DEF Modules, Fail, StageInv
    <2>2. Searched(<<>>, reachable) /\ shouldEmitBuildInfo BY <2>1 DEF SearchInv, StartInv
    <2>3. pc' = "importcfg" => modules' = ModulesNow BY <1>7, <2>2, ModulesAre
    <2> QED BY <2>1, <2>3
  <1>8. CASE Importcfg
    <2>1. pc = "importcfg" /\ modules' = modules /\ pc' # "reach" BY <1>8 DEF Importcfg, Fail
    <2> QED BY <2>1 DEF SearchInv
  <1>9. CASE Linker
    <2>1. pc = "link" /\ modules' = modules /\ pc' # "reach" BY <1>9 DEF Linker
    <2> QED BY <2>1 DEF SearchInv
  <1>10. CASE UNCHANGED vars BY <1>10 DEF SearchInv, vars
  <1> QED BY <1>4, <1>5, <1>6, <1>7, <1>8, <1>9, <1>10 DEF Next

LEMMA TheModulesExact == BuildInv /\ CompiledInv /\ StageInv /\ SearchInv => ModulesExact
  <1> SUFFICES ASSUME BuildInv, CompiledInv, StageInv, SearchInv, linkcfg # {}, ~Conflicting
               PROVE  modules = IF shouldEmitBuildInfo
                  THEN {moduleFromPURL(p) : p \in {q \in UNION {PurlsOf(n) : n \in Imported} :
                                                     \A main \in PurlsOf(Main) : q.path # main.path}}
                  ELSE {}
    BY DEF ModulesExact
  <1>1. Imported = Followed BY ImportedIs DEF StageInv
  <1>2. modules = ModulesNow BY DEF SearchInv
  <1> QED BY <1>1, <1>2 DEF ModulesNow, Found

-----------------------------------------------------------------------------
(* The theorems *)

LinkIInv == BuildInv /\ CompiledInv /\ StageInv /\ LinkInv /\ StartInv /\ SearchInv

\* What the linker's builder knows of a binary at each stage: the invariant is inductive.
THEOREM LinkInductive == Spec => []LinkIInv
  <1>1. Init => LinkIInv BY LinkInit, SearchInit DEF LinkIInv
  <1>2. LinkIInv /\ [Next]_vars => LinkIInv'
    BY BuildStep, CompiledStep, StageStep, LinkStep, StartStep, SearchStep DEF LinkIInv
  <1> QED BY <1>1, <1>2, PTL DEF Spec

\* Without coverage the link fails on packages of one path and on no others (buildImportcfgFileForLink).
THEOREM ConflictsFoundHolds == Spec => []ConflictsFound
  <1>1. LinkIInv => ConflictsFound BY FindsConflicts DEF LinkIInv
  <1> QED BY <1>1, LinkInductive, PTL

\* What the linker gets for an import is the archive whose export file the compiler was given for
\* it, in every package of the binary, but for builds with coverage in which two targets have one package
\* path (checkImports, emit_link, buildImportcfgFileForLink).
THEOREM LinkedAsCompiledHolds == Spec => []LinkedAsCompiled
  <1>1. LinkIInv => LinkedAsCompiled BY LinksAsCompiled DEF LinkIInv
  <1> QED BY <1>1, LinkInductive, PTL

\* A target that embeds another decides on the dependency that an import stands for (_merge_embed,
\* dedup_archives, checkImports).
THEOREM EmbedderDecidesHolds == Spec => []EmbedderDecides
  <1>1. LinkIInv => EmbedderDecides BY TheEmbedderDecides DEF LinkIInv
  <1> QED BY <1>1, LinkInductive, PTL

\* The build information names the modules of the packages that the main package imports, directly
\* or through others, and no more (reachableModules, buildInfoDeps).
THEOREM ModulesExactHolds == Spec => []ModulesExact
  <1>1. LinkIInv => ModulesExact BY TheModulesExact DEF LinkIInv
  <1> QED BY <1>1, LinkInductive, PTL

\* The -X flags are the definitions with every key in the status, the main target's own among them
\* (emit_link, link).
THEOREM DefsExactHolds == Spec => []DefsExact
  <1>1. LinkIInv => DefsExact BY TheDefsExact DEF LinkIInv
  <1> QED BY <1>1, LinkInductive, PTL
=============================================================================
