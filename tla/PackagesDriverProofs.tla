---------------------------- MODULE PackagesDriverProofs ----------------------------
(***************************************************************************)
(* Proofs about PackagesDriver, for every workspace and every order in     *)
(* which the loop over the map comes to its packages.                      *)
(***************************************************************************)
EXTENDS PackagesDriver, FiniteSetTheorems, SequenceTheorems, WellFoundedInduction, TLAPS

-----------------------------------------------------------------------------
(* Sequences *)

\* Induction over an interval, for a set that is closed under its successor.
LEMMA SetInduction ==
    ASSUME NEW N \in Nat, NEW S, 0 \in S,
           \A n \in 0..N : n # N /\ n \in S => n + 1 \in S
    PROVE  0..N \subseteq S
  <1> SUFFICES ASSUME (0..N) \ S # {} PROVE FALSE
    OBVIOUS
  <1> DEFINE R == OpToRel(<, Nat)
             T == (0..N) \ S
  <1>1. IsWellFoundedOn(R, Nat) BY NatLessThanWellFounded
  <1>2. T \subseteq Nat /\ T # {} OBVIOUS
  <1>3. \E x \in T : \A y \in T : ~(<<y, x>> \in R)
    <2> HIDE DEF R, T
    <2> QED BY <1>1, <1>2, WFMin
  <1>4. PICK x \in T : \A y \in T : ~(<<y, x>> \in R) BY <1>3
  <1>5. x \in 0..N /\ x \notin S /\ x # 0 OBVIOUS
  <1>6. x - 1 \in 0..N /\ <<x - 1, x>> \in R BY <1>5 DEF OpToRel
  <1>7. x - 1 \in S BY <1>4, <1>6
  <1>8. x - 1 # N /\ (x - 1) + 1 = x BY <1>5
  <1> HIDE DEF R, T
  <1> QED BY <1>5, <1>6, <1>7, <1>8

\* A loop of m rounds has a result.
Looped(S, a, m, F) == \E h \in [0..m -> S] : \A q \in 0..m : h[q] = IF q = 0 THEN a ELSE F[q][h[q - 1]]
LEMMA Rounds ==
    ASSUME NEW S, NEW a \in S, NEW m \in Nat, NEW F \in [1..m -> [S -> S]]
    PROVE  Looped(S, a, m, F)
  <1> DEFINE Is(h, k) == \A q \in 0..k : h[q] = IF q = 0 THEN a ELSE F[q][h[q - 1]]
             G == {k \in 0..m : \E h \in [0..k -> S] : Is(h, k)}
  <1>1. 0 \in G
    <2> DEFINE j == [q \in 0..0 |-> a]
    <2>1. j \in [0..0 -> S] /\ Is(j, 0) /\ 0 \in 0..m OBVIOUS
    <2> HIDE DEF j, Is
    <2> QED BY <2>1
  <1>2. ASSUME NEW l \in 0..m, l # m, l \in G PROVE l + 1 \in G
    <2> DEFINE k == l + 1
    <2>1. PICK h \in [0..l -> S] : Is(h, l) BY <1>2
    <2> DEFINE j == [q \in 0..k |-> IF q = k THEN F[k][h[l]] ELSE h[q]]
    <2>2. k \in 1..m /\ k - 1 = l /\ l \in 0..l /\ \A q \in 0..k : q = k \/ q \in 0..l BY <1>2
    <2>3. F[k][h[l]] \in S
      <3>1. h[l] \in S /\ F[k] \in [S -> S] BY <2>2
      <3> QED BY <3>1
    <2>4. j \in [0..k -> S] BY <2>2, <2>3
    <2>5. \A q \in 0..k : j[q] = IF q = 0 THEN a ELSE F[q][j[q - 1]]
      <3> TAKE q \in 0..k
      <3>1. CASE q = k
        <4>1. k # 0 /\ k - 1 # k /\ k - 1 \in 0..k BY <2>2
        <4> QED BY <2>2, <3>1, <4>1
      <3>2. CASE q # k
        <4>1. q \in 0..l /\ (q # 0 => q - 1 \in 0..k /\ q - 1 # k) BY <2>2, <3>2
        <4> QED BY <3>2, <4>1, <2>1
      <3> QED BY <3>1, <3>2
    <2> HIDE DEF j
    <2>6. k \in 0..m /\ Is(j, k) BY <2>2, <2>5
    <2> HIDE DEF Is, k
    <2>7. k \in G BY <2>4, <2>6
    <2> QED BY <2>7 DEF k
  <1> HIDE DEF G
  <1>3. 0..m \subseteq G BY <1>1, <1>2, SetInduction
  <1>4. m \in 0..m OBVIOUS
  <1> QED BY <1>3, <1>4 DEF G, Looped

\* SetToSeq lists a finite set.
LEMMA ListIs ==
    ASSUME NEW S, IsFiniteSet(S)
    PROVE  SetToSeq(S) \in Seq(S) /\ Range(SetToSeq(S)) = S
  <1> DEFINE n == Cardinality(S)
             s == SetToSeq(S)
  <1>1. n \in Nat /\ ExistsBijection(1..n, S) BY FS_CardinalityType
  <1>2. PICK f \in Bijection(1..n, S) : TRUE BY <1>1 DEF ExistsBijection
  <1>3. f \in [1..n -> S] /\ IsInjective(f) BY <1>2 DEF Bijection, Injection, IsInjective
  <1>4. s \in [1..n -> S] /\ IsInjective(s) BY <1>3 DEF SetToSeq
  <1> HIDE DEF s, n
  <1>5. s \in Injection(1..n, S) BY <1>4 DEF Injection, IsInjective
  <1>6. IsFiniteSet(1..n) /\ Cardinality(1..n) = n BY <1>1, FS_Interval
  <1>7. s \in Surjection(1..n, S) BY <1>5, <1>6, FS_Injection DEF n
  <1>8. s \in Seq(S) BY <1>1, <1>4
  <1>9. Range(s) = S
    <2>1. \A x \in S : \E i \in 1..n : s[i] = x BY <1>7 DEF Surjection
    <2> QED BY <1>4, <2>1 DEF Range
  <1> QED BY <1>8, <1>9 DEF s

\* Two sequences one after the other.
LEMMA ConcatIs ==
    ASSUME NEW T, NEW s \in Seq(T), NEW t \in Seq(T)
    PROVE  s \o t \in Seq(T) /\ Range(s \o t) = Range(s) \cup Range(t)
  <1>1. /\ s \o t \in Seq(T) /\ Len(s \o t) = Len(s) + Len(t)
        /\ \A i \in 1..Len(s) : (s \o t)[i] = s[i]
        /\ \A i \in 1..Len(t) : (s \o t)[Len(s) + i] = t[i]
    BY ConcatProperties
  <1>2. Len(s) \in Nat /\ Len(t) \in Nat /\ DOMAIN s = 1..Len(s) /\ DOMAIN t = 1..Len(t) OBVIOUS
  <1> DEFINE u == s \o t
  <1>3. DOMAIN u = 1..(Len(s) + Len(t)) BY <1>1
  <1>4. \A i \in DOMAIN u : i \in 1..Len(s) \/ \E j \in 1..Len(t) : i = Len(s) + j
    <2> TAKE i \in DOMAIN u
    <2>1. CASE i <= Len(s) BY <1>2, <1>3, <2>1
    <2>2. CASE ~(i <= Len(s))
      <3>1. i - Len(s) \in 1..Len(t) /\ i = Len(s) + (i - Len(s)) BY <1>2, <1>3, <2>2
      <3> QED BY <3>1
    <2> QED BY <2>1, <2>2
  <1>5. (\A i \in 1..Len(s) : i \in DOMAIN u) /\ \A j \in 1..Len(t) : Len(s) + j \in DOMAIN u BY <1>2, <1>3
  <1> HIDE DEF u
  <1>6. Range(u) = Range(s) \cup Range(t)
    <2>1. \A i \in DOMAIN u : u[i] \in Range(s) \cup Range(t) BY <1>1, <1>2, <1>4 DEF u, Range
    <2>2. \A i \in DOMAIN s : s[i] \in Range(u) BY <1>1, <1>2, <1>5 DEF u, Range
    <2>3. \A j \in DOMAIN t : t[j] \in Range(u) BY <1>1, <1>2, <1>5 DEF u, Range
    <2> QED BY <2>1, <2>2, <2>3 DEF Range
  <1> QED BY <1>1, <1>6 DEF u

\* Filtered keeps the elements that are among some.
LEMMA FilteredIs ==
    ASSUME NEW T, NEW s \in Seq(T), NEW S
    PROVE  Filtered(s, S) \in Seq(T) /\ Range(Filtered(s, S)) = Range(s) \cap S
  <1> DEFINE N == Len(s)
             F == [n \in 1..N |-> [k \in Seq(T) |-> IF s[n] \in S THEN Append(k, s[n]) ELSE k]]
             Def(f) == f = [n \in 0..N |-> IF n = 0 THEN <<>> ELSE IF s[n] \in S THEN Append(f[n - 1], s[n]) ELSE f[n - 1]]
  <1>1. N \in Nat /\ DOMAIN s = 1..N /\ \A n \in 1..N : s[n] \in T OBVIOUS
  <1>2. F \in [1..N -> [Seq(T) -> Seq(T)]] BY <1>1
  <1>3. <<>> \in Seq(T) OBVIOUS
  <1>4. PICK h \in [0..N -> Seq(T)] : \A q \in 0..N : h[q] = IF q = 0 THEN <<>> ELSE F[q][h[q - 1]]
    <2> DEFINE U == Seq(T)
               e == <<>>
    <2>1. e \in U /\ N \in Nat BY <1>3
    <2>2. F \in [1..N -> [U -> U]] BY <1>2
    <2> HIDE DEF F, U, e, N, Def
    <2>3. Looped(U, e, N, F) BY <2>1, <2>2, Rounds
    <2> QED BY <2>3 DEF U, e, Looped
  <1>5. Def(h)
    <2>1. h = [n \in 0..N |-> h[n]] OBVIOUS
    <2>2. ASSUME NEW n \in 0..N
          PROVE  h[n] = IF n = 0 THEN <<>> ELSE IF s[n] \in S THEN Append(h[n - 1], s[n]) ELSE h[n - 1]
      <3>1. n # 0 => n \in 1..N /\ h[n - 1] \in Seq(T) BY <1>1
      <3> QED BY <1>4, <3>1
    <2> QED BY <2>1, <2>2
  <1> DEFINE k == CHOOSE f : Def(f)
  <1>6. Def(k)
    <2> HIDE DEF Def
    <2> QED BY <1>5
  <1>7. Filtered(s, S) = k[N] BY DEF Filtered
  <1> HIDE DEF k, F
  <1> DEFINE Good == {n \in 0..N : k[n] \in Seq(T) /\ Range(k[n]) = {s[i] : i \in 1..n} \cap S}
  <1>8. 0 \in Good
    <2>1. k[0] = <<>> /\ 0 \in 0..N BY <1>1, <1>6
    <2>2. Range(<<>>) = {} /\ {s[i] : i \in 1..0} = {} BY DEF Range
    <2> QED BY <2>1, <2>2, <1>3
  <1>9. ASSUME NEW n \in 0..N, n # N, n \in Good PROVE n + 1 \in Good
    <2>1. n + 1 \in 1..N /\ n + 1 \in 0..N /\ n \in Nat /\ s[n + 1] \in T /\ (n + 1) - 1 = n /\ n + 1 # 0
      <3>1. n + 1 \in 1..N /\ n + 1 \in 0..N /\ n \in Nat /\ (n + 1) - 1 = n /\ n + 1 # 0
        <4> HIDE DEF Good, N
        <4> QED BY <1>1, <1>9
      <3> QED BY <1>1, <3>1
    <2>2. k[n + 1] = IF s[n + 1] \in S THEN Append(k[n], s[n + 1]) ELSE k[n] BY <1>6, <2>1
    <2>3. k[n] \in Seq(T) /\ Range(k[n]) = {s[i] : i \in 1..n} \cap S BY <1>9
    <2>4. {s[i] : i \in 1..(n + 1)} = {s[i] : i \in 1..n} \cup {s[n + 1]}
      <3>1. 1..(n + 1) = 1..n \cup {n + 1} BY <2>1
      <3> QED BY <3>1
    <2>5. CASE s[n + 1] \notin S BY <2>1, <2>2, <2>3, <2>4, <2>5
    <2>6. CASE s[n + 1] \in S
      <3> DEFINE x == k[n]
                 e == s[n + 1]
      <3>1. x \in Seq(T) /\ e \in T BY <2>1, <2>3
      <3> HIDE DEF x, e
      <3>2. Append(x, e) \in Seq(T) BY <3>1
      <3>3. Append(x, e) = x \o <<e>> /\ <<e>> \in Seq(T) BY <3>1
      <3>4. Range(<<e>>) = {e} BY DEF Range
      <3>5. Range(Append(x, e)) = Range(x) \cup {e}
        <4> DEFINE t == <<e>>
        <4>1. t \in Seq(T) /\ Range(t) = {e} /\ Append(x, e) = x \o t BY <3>3, <3>4
        <4> HIDE DEF t
        <4>2. Range(x \o t) = Range(x) \cup Range(t) BY <3>1, <4>1, ConcatIs
        <4> QED BY <4>1, <4>2
      <3>6. k[n + 1] = Append(x, e) BY <2>2, <2>6 DEF x, e
      <3> QED BY <2>1, <2>3, <2>4, <2>6, <3>2, <3>5, <3>6 DEF x, e
    <2> QED BY <2>5, <2>6
  <1>10. N \in Good
    <2>1. 0..N \subseteq Good
      <3> HIDE DEF Good
      <3> QED BY <1>1, <1>8, <1>9, SetInduction
    <2>2. N \in 0..N BY <1>1
    <2> HIDE DEF Good, N
    <2> QED BY <2>1, <2>2
  <1>11. {s[i] : i \in 1..N} = Range(s) BY <1>1 DEF Range
  <1> QED BY <1>7, <1>10, <1>11

-----------------------------------------------------------------------------
(* Packages *)

\* What is compiled has the form of a source.
Source == [name : STRING \cup {TestMain.name}, test : BOOLEAN, pkg : {0, 1}, imports : SUBSET (STRING \cup TestMain.imports),
           cgo : BOOLEAN, generated : BOOLEAN, match : BOOLEAN]
AnyFile == Source \cup {Generated(f) : f \in Source} \cup {CgoFile("_cgo_gotypes.go"), CgoFile("_cgo_imports.go")}

\* Files are what the model says.
LEMMA FileIs ==
    /\ \A f \in AnyFile : f.pkg \in {0, 1} /\ f.test \in BOOLEAN
    /\ \A f \in Source : /\ Generated(f).name = f.name \o ".cgo1.go" /\ ~Generated(f).test /\ Generated(f).pkg = f.pkg
                        /\ Generated(f).match /\ Generated(f) \in AnyFile
  <1>1. ASSUME NEW f \in Source
        PROVE  /\ Generated(f).name = f.name \o ".cgo1.go" /\ ~Generated(f).test /\ Generated(f).pkg = f.pkg
               /\ Generated(f).match
    <2>1. f = [name |-> f.name, test |-> f.test, pkg |-> f.pkg, imports |-> f.imports, cgo |-> f.cgo,
               generated |-> f.generated, match |-> f.match]
      BY DEF Source
    <2> DEFINE name == f.name \o ".cgo1.go"
               imports == f.imports \ {"C"}
    <2>2. Generated(f) = [f EXCEPT !.name = name, !.test = FALSE, !.cgo = FALSE, !.match = TRUE, !.imports = imports]
      BY DEF Generated
    <2> HIDE DEF name, imports
    <2>3. /\ Generated(f).name = name /\ Generated(f).test = FALSE /\ Generated(f).pkg = f.pkg
          /\ Generated(f).match = TRUE
      BY <2>1, <2>2
    <2> QED BY <2>3 DEF name
  <1>2. \A f \in Source : f.pkg \in {0, 1} /\ f.test \in BOOLEAN BY DEF Source
  <1>4. \A f \in Source : Generated(f) \in AnyFile BY DEF AnyFile
  <1>5. ASSUME NEW f \in AnyFile PROVE f.pkg \in {0, 1} /\ f.test \in BOOLEAN
    <2>1. f \in Source \/ (\E g \in Source : f = Generated(g)) \/ \E name : f = CgoFile(name) BY DEF AnyFile
    <2>2. \A g \in Source : Generated(g).test = FALSE
      <3> TAKE g \in Source
      <3>1. g = [name |-> g.name, test |-> g.test, pkg |-> g.pkg, imports |-> g.imports, cgo |-> g.cgo,
                 generated |-> g.generated, match |-> g.match]
        BY DEF Source
      <3> QED BY <3>1 DEF Generated
    <2>3. CASE f \in Source BY <1>2, <2>3
    <2>5. CASE \E name : f = CgoFile(name) BY <2>5 DEF CgoFile
    <2>4. CASE \E g \in Source : f = Generated(g)
      <3>1. PICK g \in Source : f = Generated(g) BY <2>4
      <3>2. g.pkg \in {0, 1} BY <1>2
      <3>3. f.pkg = g.pkg BY <1>1, <3>1
      <3>4. f.test = FALSE BY <2>2, <3>1
      <3> QED BY <3>2, <3>3, <3>4
    <2> QED BY <2>1, <2>3, <2>4, <2>5
  <1> QED BY <1>1, <1>4, <1>5

\* What cgo leaves of the sources of a target.
Written(t) ==
    IF t.gotypes
    THEN {CgoFile("_cgo_gotypes.go"), CgoFile("_cgo_imports.go")}
         \cup {Generated(f) : f \in {g \in Range(t.srcs) : g.cgo /\ g.generated}}
    ELSE {}
LEMMA ProcessedIs ==
    ASSUME NEW t, t.srcs \in Seq(Source)
    PROVE  /\ processCgoFiles(t) \in Seq(AnyFile)
           /\ Range(processCgoFiles(t)) = {f \in Range(t.srcs) : ~f.cgo} \cup Written(t)
  <1> DEFINE src == t.srcs
             cgo == {f \in Range(src) : f.cgo /\ f.generated}
             plain == {f \in Range(src) : ~f.cgo}
             generated == Filtered(src, cgo)
             kept == Filtered(src, plain)
             two == <<CgoFile("_cgo_gotypes.go"), CgoFile("_cgo_imports.go")>>
             made == [n \in DOMAIN generated |-> Generated(generated[n])]
  <1>1. src \in Seq(Source) OBVIOUS
  <1>2. Range(src) \cap cgo = cgo /\ Range(src) \cap plain = plain OBVIOUS
  <1>3. processCgoFiles(t) = kept \o (IF t.gotypes THEN two \o made ELSE <<>>) BY DEF processCgoFiles
  <1>4. Written(t) = IF t.gotypes THEN {two[1], two[2]} \cup {Generated(f) : f \in cgo} ELSE {} BY DEF Written
  <1>5. two \in Seq(AnyFile) /\ Range(two) = {two[1], two[2]}
    <2> DEFINE a == CgoFile("_cgo_gotypes.go")
               b == CgoFile("_cgo_imports.go")
    <2>3. a \in AnyFile /\ b \in AnyFile BY DEF AnyFile
    <2> HIDE DEF a, b
    <2>4. <<a, b>> \in Seq(AnyFile) BY <2>3
    <2>5. Range(<<a, b>>) = {a, b} BY DEF Range
    <2> QED BY <2>4, <2>5 DEF a, b
  <1> HIDE DEF src, cgo, plain, two
  <1>6. generated \in Seq(Source) /\ Range(generated) = cgo
    <2>1. Filtered(src, cgo) \in Seq(Source) /\ Range(Filtered(src, cgo)) = Range(src) \cap cgo BY <1>1, FilteredIs
    <2> QED BY <1>2, <2>1
  <1>7. kept \in Seq(Source) /\ Range(kept) = plain
    <2>1. Filtered(src, plain) \in Seq(Source) /\ Range(Filtered(src, plain)) = Range(src) \cap plain BY <1>1, FilteredIs
    <2> QED BY <1>2, <2>1
  <1> HIDE DEF generated, kept
  <1>8. made \in Seq(AnyFile) /\ Range(made) = {Generated(f) : f \in cgo}
    <2>1. DOMAIN generated = 1..Len(generated) /\ Len(generated) \in Nat /\ \A n \in 1..Len(generated) : generated[n] \in Source
      BY <1>6
    <2>2. \A n \in 1..Len(generated) : Generated(generated[n]) \in AnyFile BY <2>1, FileIs
    <2>3. made \in [1..Len(generated) -> AnyFile] BY <2>1, <2>2
    <2>4. made \in Seq(AnyFile) BY <2>1, <2>3
    <2>5. Range(made) = {Generated(f) : f \in Range(generated)} BY DEF Range
    <2> QED BY <1>6, <2>4, <2>5
  <1> HIDE DEF made
  <1>9. kept \in Seq(AnyFile)
    <2>1. Source \subseteq AnyFile BY DEF AnyFile
    <2> HIDE DEF kept
    <2>2. \A n \in 1..Len(kept) : kept[n] \in AnyFile BY <1>7, <2>1
    <2> QED BY <1>7, <2>2
  <1>10. CASE t.gotypes
    <2> DEFINE x == two \o made
    <2>1. x \in Seq(AnyFile) /\ Range(x) = Range(two) \cup Range(made)
      <3> HIDE DEF x
      <3>1. two \o made \in Seq(AnyFile) /\ Range(two \o made) = Range(two) \cup Range(made) BY <1>5, <1>8, ConcatIs
      <3> QED BY <3>1 DEF x
    <2>2. processCgoFiles(t) = kept \o x BY <1>3, <1>10
    <2> HIDE DEF x
    <2>3. kept \o x \in Seq(AnyFile) /\ Range(kept \o x) = Range(kept) \cup Range(x) BY <1>9, <2>1, ConcatIs
    <2>4. Written(t) = Range(x) BY <1>4, <1>5, <1>8, <1>10, <2>1
    <2> QED BY <1>7, <2>2, <2>3, <2>4 DEF plain, src
  <1>11. CASE ~t.gotypes
    <2>1. processCgoFiles(t) = kept BY <1>3, <1>9, <1>11
    <2>2. Written(t) = {} BY <1>11 DEF Written
    <2> QED BY <1>7, <1>9, <2>1, <2>2 DEF plain, src
  <1> QED BY <1>10, <1>11

\* A package of the registry.
Record(p) ==
    [id |-> p.id, name |-> p.name, path |-> p.path, goFiles |-> p.goFiles, compiled |-> p.compiled,
     imports |-> p.imports, std |-> p.std]
IsPkg(p) == p = Record(p) /\ p.goFiles \in Seq(AnyFile) /\ p.compiled \in Seq(AnyFile)

\* The files that stay in a package, and those that are moved.
Stays(files, name) == {f \in Range(files) : f.test => f.pkg = name}
Goes(files, name) == {f \in Range(files) : IsXTest(f, name)}
LEMMA SplitIs ==
    ASSUME NEW files \in Seq(AnyFile), NEW name
    PROVE  /\ Internal(files, name) \in Seq(AnyFile) /\ Range(Internal(files, name)) = Stays(files, name)
           /\ External(files, name) \in Seq(AnyFile) /\ Range(External(files, name)) = Goes(files, name)
  <1> DEFINE a == {f \in Range(files) : ~f.test}
             b == {f \in Range(files) : f.test /\ f.pkg = name}
             c == {f \in Range(files) : IsXTest(f, name)}
             s == Filtered(files, a)
             u == Filtered(files, b)
  <1>1. Range(files) \cap a = a /\ Range(files) \cap b = b /\ Range(files) \cap c = c OBVIOUS
  <1>2. Stays(files, name) = a \cup b BY DEF Stays
  <1>3. Internal(files, name) = s \o u /\ External(files, name) = Filtered(files, c) BY DEF Internal, External
  <1>4. c = Goes(files, name) BY DEF Goes
  <1> HIDE DEF a, b, c
  <1>5. s \in Seq(AnyFile) /\ Range(s) = a
    <2>1. s \in Seq(AnyFile) /\ Range(s) = Range(files) \cap a BY FilteredIs
    <2> QED BY <1>1, <2>1
  <1>6. u \in Seq(AnyFile) /\ Range(u) = b
    <2>1. u \in Seq(AnyFile) /\ Range(u) = Range(files) \cap b BY FilteredIs
    <2> QED BY <1>1, <2>1
  <1>7. Filtered(files, c) \in Seq(AnyFile) /\ Range(Filtered(files, c)) = c
    <2>1. Filtered(files, c) \in Seq(AnyFile) /\ Range(Filtered(files, c)) = Range(files) \cap c BY FilteredIs
    <2> QED BY <1>1, <2>1
  <1> HIDE DEF s, u
  <1>8. s \o u \in Seq(AnyFile) /\ Range(s \o u) = Range(s) \cup Range(u) BY <1>5, <1>6, ConcatIs
  <1> QED BY <1>2, <1>3, <1>4, <1>5, <1>6, <1>7, <1>8

\* What is left of a package without its external tests.
LEMMA RestIs ==
    ASSUME NEW p, IsPkg(p)
    PROVE  /\ IsPkg(Rest(p)) /\ Rest(p).id = p.id /\ Rest(p).name = p.name /\ Rest(p).imports = p.imports
           /\ Range(Rest(p).goFiles) = Stays(p.goFiles, p.name) /\ Range(Rest(p).compiled) = Stays(p.compiled, p.name)
  <1> DEFINE g == Internal(p.goFiles, p.name)
             c == Internal(p.compiled, p.name)
  <1>1. /\ g \in Seq(AnyFile) /\ Range(g) = Stays(p.goFiles, p.name)
        /\ c \in Seq(AnyFile) /\ Range(c) = Stays(p.compiled, p.name)
    BY SplitIs DEF IsPkg
  <1>2. Rest(p) = [id |-> p.id, name |-> p.name, path |-> p.path, goFiles |-> g, compiled |-> c,
                   imports |-> p.imports, std |-> p.std]
    <2>1. Rest(p) = [p EXCEPT !.goFiles = g, !.compiled = c] BY DEF Rest
    <2> HIDE DEF g, c
    <2> QED BY <2>1 DEF IsPkg, Record
  <1> HIDE DEF g, c
  <1> QED BY <1>1, <1>2 DEF IsPkg, Record

\* The package of the external tests.
LEMMA XTestIs ==
    ASSUME NEW p, IsPkg(p)
    PROVE  /\ IsPkg(XTest(p)) /\ XTest(p).name = p.name + 1 /\ XTest(p).imports = Put(p.imports, p.path, p.id)
           /\ XTest(p).id = XTestID(p.id)
           /\ Range(XTest(p).goFiles) = Goes(p.goFiles, p.name) /\ Range(XTest(p).compiled) = Goes(p.compiled, p.name)
  <1> DEFINE g == External(p.goFiles, p.name)
             c == External(p.compiled, p.name)
             path == p.path \o "_test"
             put == Put(p.imports, p.path, p.id)
             id == XTestID(p.id)
             name == p.name + 1
  <1>1. /\ g \in Seq(AnyFile) /\ Range(g) = Goes(p.goFiles, p.name)
        /\ c \in Seq(AnyFile) /\ Range(c) = Goes(p.compiled, p.name)
    BY SplitIs DEF IsPkg
  <1>2. XTest(p) = [id |-> id, name |-> name, path |-> path, goFiles |-> g, compiled |-> c, imports |-> put, std |-> p.std]
    <2>1. XTest(p) = [p EXCEPT !.id = id, !.name = name, !.path = path, !.imports = put, !.goFiles = g, !.compiled = c]
      BY DEF XTest
    <2> HIDE DEF g, c, path, put, id, name
    <2> QED BY <2>1 DEF IsPkg, Record
  <1> HIDE DEF g, c, path, put, id, name
  <1>3. IsPkg(XTest(p)) /\ XTest(p).goFiles = g /\ XTest(p).compiled = c /\ XTest(p).name = name /\ XTest(p).imports = put
        /\ XTest(p).id = id
    BY <1>1, <1>2 DEF IsPkg, Record
  <1> QED BY <1>1, <1>3 DEF name, put, id

\* A package with its name and its imports.
NameOf(p) == IF p.name = NoName /\ p.compiled # <<>> THEN Head(p.compiled).pkg ELSE p.name
Imported(p) == (UNION {Overlaid(f).imports : f \in Range(p.compiled)}) \ {"C"}
LEMMA ResolvedIs ==
    ASSUME NEW p, IsPkg(p)
    PROVE  /\ IsPkg(Resolved(p)) /\ Resolved(p).name = NameOf(p) /\ Resolved(p).id = p.id /\ Resolved(p).path = p.path
           /\ Resolved(p).goFiles = p.goFiles /\ Resolved(p).compiled = p.compiled
           /\ DOMAIN Resolved(p).imports =
                  DOMAIN p.imports \cup ((Imported(p) \ DOMAIN p.imports) \cap DOMAIN stdlib)
           /\ \A q \in DOMAIN Resolved(p).imports :
                  Resolved(p).imports[q] = IF q \in DOMAIN p.imports THEN p.imports[q] ELSE stdlib[q]
  <1> DEFINE new == (Imported(p) \ DOMAIN p.imports) \cap DOMAIN stdlib
             found == [q \in DOMAIN p.imports \cup new |-> IF q \in DOMAIN p.imports THEN p.imports[q] ELSE stdlib[q]]
             name == NameOf(p)
  <1>1. Resolved(p) = [p EXCEPT !.name = name, !.imports = found] BY DEF Resolved, NameOf, Imported
  <1> HIDE DEF name
  <1>2. Resolved(p) = [id |-> p.id, name |-> name, path |-> p.path, goFiles |-> p.goFiles, compiled |-> p.compiled,
                       imports |-> found, std |-> p.std]
    <2> HIDE DEF found
    <2> QED BY <1>1 DEF IsPkg, Record
  <1>3. DOMAIN found = DOMAIN p.imports \cup new
        /\ \A q \in DOMAIN found : found[q] = IF q \in DOMAIN p.imports THEN p.imports[q] ELSE stdlib[q]
    OBVIOUS
  <1> HIDE DEF found
  <1>4. IsPkg(Resolved(p)) /\ Resolved(p).name = name /\ Resolved(p).id = p.id /\ Resolved(p).path = p.path
        /\ Resolved(p).goFiles = p.goFiles /\ Resolved(p).compiled = p.compiled /\ Resolved(p).imports = found
    BY <1>2 DEF IsPkg, Record
  <1> QED BY <1>3, <1>4 DEF name

-----------------------------------------------------------------------------
(* What is built *)

\* All that is in the files.
Known == Read \cup StdRead

\* What is reported of a target is closed under dependencies.
LEMMA DepsIs ==
    ASSUME input \in Inputs, NEW S, S \subseteq DOMAIN input.targets
    PROVE  /\ S \subseteq Deps(S) /\ Deps(S) \subseteq DOMAIN input.targets
           /\ \A n \in Deps(S) : input.targets[n].deps \subseteq Deps(S)
           /\ S = {} => Deps(S) = {}
           /\ IsFiniteSet(Deps(S))
  <1> DEFINE next == [n \in DOMAIN input.targets |-> input.targets[n].deps \cup input.targets[n].embed]
             D == DOMAIN input.targets
  <1>1. Deps(S) = {n \in D : \A T \in SUBSET D : S \subseteq T /\ (\A m \in T : next[m] \subseteq T) => n \in T}
    BY DEF Deps, Closure
  <1>2. S \subseteq Deps(S) /\ Deps(S) \subseteq D BY <1>1
  <1>3. ASSUME NEW n \in Deps(S), NEW d \in input.targets[n].deps PROVE d \in Deps(S)
    <2>1. IsTarget(input.targets[n], input.targets) BY <1>2, InputAssumption
    <2>2. d \in D /\ d \in next[n] BY <1>2, <2>1 DEF IsTarget
    <2> HIDE DEF next, D
    <2>3. ASSUME NEW T \in SUBSET D, S \subseteq T, \A m \in T : next[m] \subseteq T PROVE d \in T
      <3>1. n \in T BY <1>1, <2>3
      <3> QED BY <2>2, <2>3, <3>1
    <2> QED BY <1>1, <2>2, <2>3
  <1>4. ASSUME S = {} PROVE Deps(S) = {}
    <2>1. {} \in SUBSET D /\ S \subseteq {} BY <1>4
    <2> HIDE DEF next, D
    <2> QED BY <1>1, <2>1
  <1>5. IsFiniteSet(Deps(S)) BY <1>2, InputAssumption, FS_Subset
  <1> QED BY <1>2, <1>3, <1>4, <1>5

\* A target has a file if its sources were compiled.
LEMMA HasPkgs ==
    ASSUME NEW n, "package" \in input.targets[n].written PROVE PkgsOf(n) # <<>>
  <1> DEFINE a == ToPkg(n, MainArchive(input.targets[n]))
             b == ToPkg(n, InternalArchive(input.targets[n]))
  <1>1. PkgsOf(n) = (IF input.targets[n].rule = "go_test" /\ "main" \in input.targets[n].written THEN <<a>> ELSE <<>>) \o <<b>>
    BY DEF PkgsOf
  <1> HIDE DEF a, b
  <1>2. <<a>> \o <<b>> # <<>> /\ <<>> \o <<b>> # <<>> OBVIOUS
  <1> QED BY <1>1, <1>2

LEMMA KnownIs ==
    ASSUME input \in Inputs
    PROVE  /\ Read \subseteq DOMAIN input.targets /\ Reported \subseteq DOMAIN input.targets
           /\ \A n \in Reported : PkgsOf(n) # <<>> => n \in Read
           /\ \A n \in Read : PkgsOf(n) # <<>> /\ \A d \in input.targets[n].deps : PkgsOf(d) # <<>> => d \in Read
           /\ IsFiniteSet(Read) /\ IsFiniteSet(StdRead) /\ StdRead \subseteq DOMAIN input.std
           /\ Read # {} => StdRead = DOMAIN input.std
           /\ DOMAIN input.targets \cap StdRead = {} /\ Stdlib \notin DOMAIN input.targets
           /\ \A n \in Read : IsTarget(input.targets[n], input.targets)
  <1>1. Reported \subseteq DOMAIN input.targets BY DEF Reported, Built
  <1>2. /\ Reported \subseteq Deps(Reported) /\ Deps(Reported) \subseteq DOMAIN input.targets
        /\ \A n \in Deps(Reported) : input.targets[n].deps \subseteq Deps(Reported)
        /\ Reported = {} => Deps(Reported) = {}
        /\ IsFiniteSet(Deps(Reported))
    <2> DEFINE S == Reported
    <2>1. S \subseteq DOMAIN input.targets BY <1>1
    <2> HIDE DEF S
    <2>2. /\ S \subseteq Deps(S) /\ Deps(S) \subseteq DOMAIN input.targets
          /\ \A n \in Deps(S) : input.targets[n].deps \subseteq Deps(S)
          /\ S = {} => Deps(S) = {}
          /\ IsFiniteSet(Deps(S))
      BY <2>1, DepsIs
    <2> QED BY <2>2 DEF S
  <1>3. Read \subseteq Deps(Reported) BY DEF Read
  <1>4. IsFiniteSet(Read) BY <1>2, <1>3, FS_Subset
  <1>5. StdRead \subseteq DOMAIN input.std /\ (Reported # {} => StdRead = DOMAIN input.std) BY DEF StdRead
  <1>6. IsFiniteSet(StdRead) BY <1>5, InputAssumption, FS_Subset
  <1>7. /\ \A n \in Reported : PkgsOf(n) # <<>> => n \in Read
        /\ \A n \in Read : PkgsOf(n) # <<>> /\ \A d \in input.targets[n].deps : PkgsOf(d) # <<>> => d \in Read
    BY <1>2 DEF Read
  <1>8. Read \subseteq DOMAIN input.targets BY <1>2, <1>3
  <1>9. Read # {} => StdRead = DOMAIN input.std BY <1>2, <1>3, <1>5
  <1>10. /\ DOMAIN input.targets \cap StdRead = {} /\ Stdlib \notin DOMAIN input.targets
         /\ \A n \in Read : IsTarget(input.targets[n], input.targets)
    BY <1>5, <1>8, InputAssumption
  <1> QED BY <1>1, <1>4, <1>5, <1>6, <1>7, <1>8, <1>9, <1>10

\* The package that counts of a name, as it is in the file, in the registry, after ResolvePaths
\* and with its name and imports.
Counts(t) == IF "package" \in t.written THEN InternalArchive(t) ELSE MainArchive(t)
Final(n) == IF n \in DOMAIN input.targets THEN ToPkg(n, Counts(input.targets[n])) ELSE StdPkg(n)
Filled(p) == IF p.compiled = <<>> THEN [p EXCEPT !.compiled = p.goFiles] ELSE p
Tagged(p) == [p EXCEPT !.compiled = filterSourceFilesForTags(p.compiled)]
Pre(n) == Tagged(Filled(Final(n)))
Named(n) == Resolved(Pre(n))

\* A sequence without elements is empty.
LEMMA EmptyIs ==
    ASSUME NEW T, NEW s \in Seq(T) PROVE Range(s) = {} <=> s = <<>>
  <1>1. CASE Len(s) = 0
    <2>1. s = <<>> BY <1>1
    <2> QED BY <2>1 DEF Range
  <1>2. CASE Len(s) # 0
    <2>1. 1 \in DOMAIN s /\ s # <<>> BY <1>2
    <2> QED BY <2>1 DEF Range
  <1> QED BY <1>1, <1>2

\* The sources of a target.
LEMMA SourcesIs ==
    ASSUME NEW t, NEW targets, IsTarget(t, targets)
    PROVE  t.srcs \in Seq(Source) /\ t.srcs \in Seq(AnyFile)
  <1> DEFINE src == t.srcs
             N == Len(src)
  <1>0. File \subseteq Source BY DEF File, Source
  <1>1. src = [n \in 1..N |-> src[n]] /\ N \in Nat /\ Range(src) \subseteq Source BY <1>0 DEF IsTarget
  <1>2. DOMAIN src = 1..N BY <1>1
  <1>3. \A n \in 1..N : src[n] \in Source BY <1>1, <1>2 DEF Range
  <1>4. Source \subseteq AnyFile BY DEF AnyFile
  <1> HIDE DEF src, N
  <1>5. src \in [1..N -> Source] BY <1>1, <1>3
  <1>6. src \in Seq(Source) BY <1>1, <1>5
  <1>7. src \in [1..N -> AnyFile] BY <1>1, <1>3, <1>4
  <1>8. src \in Seq(AnyFile) BY <1>1, <1>7
  <1> QED BY <1>6, <1>8 DEF src

\* The archive that counts of a target.
LEMMA CountsIs ==
    ASSUME NEW t, IsTarget(t, input.targets)
    PROVE  /\ Counts(t).srcs \in Seq(Source) /\ Counts(t).deps \subseteq t.deps
           /\ "package" \in t.written =>
                  /\ IsTarget(InternalArchive(t), input.targets) /\ Counts(t) = InternalArchive(t)
                  /\ InternalArchive(t).path = t.path
  <1>1. t.srcs \in Seq(Source) BY SourcesIs
  <1> DEFINE kept == {d \in t.deps : ~need_recompile(d, t.embed)}
             one == <<TestMain>>
  <1>2. InternalArchive(t) = (IF t.rule = "go_test" THEN [t EXCEPT !.deps = kept] ELSE t)
        /\ MainArchive(t) = [t EXCEPT !.path = "testmain", !.srcs = one, !.gotypes = FALSE]
    BY DEF InternalArchive, MainArchive
  <1>3. one \in Seq(Source)
    <2>1. TestMain \in Source BY DEF TestMain, Source
    <2> HIDE DEF Source
    <2> QED BY <2>1
  <1>4. kept \subseteq t.deps OBVIOUS
  <1> HIDE DEF kept, one
  <1> DEFINE A == InternalArchive(t)
             M == MainArchive(t)
  <1>5. /\ A.srcs = t.srcs /\ A.deps \subseteq t.deps /\ A.path = t.path /\ A.gotypes = t.gotypes
        /\ A.embed = t.embed /\ A.written = t.written
    BY <1>2, <1>4
  <1>6. M.srcs \in Seq(Source) /\ M.deps \subseteq t.deps BY <1>2, <1>3
  <1> HIDE DEF A, M
  <1>7. Counts(t) = IF "package" \in t.written THEN A ELSE M BY DEF Counts, A, M
  <1>8. IsTarget(A, input.targets)
    <2>1. IsTarget(t, input.targets) OBVIOUS
    <2> QED BY <1>5, <2>1 DEF IsTarget
  <1> QED BY <1>1, <1>5, <1>6, <1>7, <1>8 DEF A

LEMMA FinalIs ==
    ASSUME input \in Inputs, NEW n \in Known
    PROVE  /\ IsPkg(Final(n)) /\ Final(n).id = Id(n)
           /\ n \in Read => Final(n) = ToPkg(n, Counts(input.targets[n]))
           /\ n \in StdRead => Final(n) = StdPkg(n)
  <1>1. CASE n \in Read
    <2> DEFINE t == Counts(input.targets[n])
               c == processCgoFiles(t)
               src == t.srcs
               im == [p \in {input.targets[d].path : d \in t.deps} |->
                         Id(CHOOSE d \in t.deps : input.targets[d].path = p)]
    <2>1. n \in DOMAIN input.targets /\ n \notin StdRead BY <1>1, KnownIs
    <2>2. Final(n) = ToPkg(n, t) BY <2>1 DEF Final
    <2>3. src \in Seq(Source) BY <1>1, KnownIs, CountsIs
    <2>4. src \in Seq(AnyFile) /\ src \in Seq(Source)
      <3>1. Source \subseteq AnyFile BY DEF AnyFile
      <3> HIDE DEF src
      <3>2. \A i \in 1..Len(src) : src[i] \in AnyFile BY <2>3, <3>1
      <3> QED BY <2>3, <3>2
    <2>5. c \in Seq(AnyFile) BY <2>4, ProcessedIs
    <2>6. Final(n) = [id |-> Id(n), name |-> NoName, path |-> t.path, goFiles |-> src, compiled |-> c, imports |-> im,
                      std |-> FALSE]
      BY <2>2 DEF ToPkg
    <2>7. IsPkg(Final(n)) /\ Final(n).id = Id(n)
      <3> HIDE DEF t, c, src, im
      <3> QED BY <2>4, <2>5, <2>6 DEF IsPkg, Record
    <2> QED BY <2>1, <2>2, <2>7
  <1>2. CASE n \notin Read
    <2>1. n \in StdRead /\ n \notin DOMAIN input.targets BY <1>2, KnownIs DEF Known
    <2>2. Final(n) = StdPkg(n) BY <2>1 DEF Final
    <2> DEFINE im == [q \in input.std[n] |-> Id(q)]
               e == <<>>
    <2>3. Final(n) = [id |-> Id(n), name |-> 0, path |-> n, goFiles |-> e, compiled |-> e, imports |-> im, std |-> TRUE]
      BY <2>2 DEF StdPkg
    <2>4. e \in Seq(AnyFile) OBVIOUS
    <2>5. IsPkg(Final(n)) /\ Final(n).id = Id(n)
      <3> HIDE DEF im, e
      <3> QED BY <2>3, <2>4 DEF IsPkg, Record
    <2> QED BY <1>2, <2>2, <2>5
  <1> QED BY <1>1, <1>2

\* A package in the registry, and what ResolvePaths makes of it.
LEMMA TaggedIs ==
    ASSUME NEW p, IsPkg(p)
    PROVE  /\ IsPkg(Tagged(p)) /\ Tagged(p).id = p.id /\ Tagged(p).name = p.name /\ Tagged(p).path = p.path
           /\ Tagged(p).goFiles = p.goFiles /\ Tagged(p).imports = p.imports
           /\ Tagged(p).compiled = filterSourceFilesForTags(p.compiled)
           /\ Range(Tagged(p).compiled) = {f \in Range(p.compiled) : f.match}
  <1> DEFINE c == filterSourceFilesForTags(p.compiled)
             m == {f \in Range(p.compiled) : f.match}
             q == p.compiled
  <1>1. q \in Seq(AnyFile) /\ c = Filtered(q, m) /\ Range(q) \cap m = m BY DEF IsPkg, filterSourceFilesForTags
  <1>2. c \in Seq(AnyFile) /\ Range(c) = m
    <2> HIDE DEF c, m, q
    <2>1. Filtered(q, m) \in Seq(AnyFile) /\ Range(Filtered(q, m)) = Range(q) \cap m BY <1>1, FilteredIs
    <2> QED BY <1>1, <2>1
  <1>3. Tagged(p) = [p EXCEPT !.compiled = c] BY DEF Tagged
  <1> HIDE DEF c, m
  <1>4. /\ IsPkg(Tagged(p)) /\ Tagged(p).id = p.id /\ Tagged(p).name = p.name /\ Tagged(p).path = p.path
        /\ Tagged(p).goFiles = p.goFiles /\ Tagged(p).imports = p.imports /\ Tagged(p).compiled = c
    BY <1>2, <1>3 DEF IsPkg, Record
  <1> QED BY <1>2, <1>4 DEF c, m

LEMMA FilledIs ==
    ASSUME NEW p, IsPkg(p)
    PROVE  /\ IsPkg(Filled(p)) /\ Filled(p).id = p.id /\ Filled(p).name = p.name /\ Filled(p).path = p.path
           /\ Filled(p).goFiles = p.goFiles /\ Filled(p).imports = p.imports
           /\ Filled(p).compiled = IF p.compiled = <<>> THEN p.goFiles ELSE p.compiled
  BY DEF Filled, IsPkg, Record

\* The packages that ResolveImports begins with.
LEMMA PreIs ==
    ASSUME input \in Inputs, NEW n \in Known
    PROVE  /\ IsPkg(Pre(n)) /\ Pre(n).id = Id(n) /\ Pre(n).name = Final(n).name /\ Pre(n).path = Final(n).path
           /\ Pre(n).goFiles = Final(n).goFiles /\ Pre(n).imports = Final(n).imports
           /\ Pre(n).compiled =
                  filterSourceFilesForTags(IF Final(n).compiled = <<>> THEN Final(n).goFiles ELSE Final(n).compiled)
           /\ Range(Pre(n).compiled) =
                  {f \in Range(IF Final(n).compiled = <<>> THEN Final(n).goFiles ELSE Final(n).compiled) : f.match}
  <1> DEFINE p == Final(n)
             q == Filled(p)
  <1>1. IsPkg(p) /\ p.id = Id(n) BY FinalIs
  <1>2. Pre(n) = Tagged(q) BY DEF Pre
  <1> HIDE DEF p
  <1>3. /\ IsPkg(q) /\ q.id = p.id /\ q.name = p.name /\ q.path = p.path
        /\ q.goFiles = p.goFiles /\ q.imports = p.imports
        /\ q.compiled = IF p.compiled = <<>> THEN p.goFiles ELSE p.compiled
    BY <1>1, FilledIs
  <1> HIDE DEF q
  <1>4. /\ IsPkg(Tagged(q)) /\ Tagged(q).id = q.id /\ Tagged(q).name = q.name /\ Tagged(q).path = q.path
        /\ Tagged(q).goFiles = q.goFiles /\ Tagged(q).imports = q.imports
        /\ Tagged(q).compiled = filterSourceFilesForTags(q.compiled)
        /\ Range(Tagged(q).compiled) = {f \in Range(q.compiled) : f.match}
    BY <1>3, TaggedIs
  <1> QED BY <1>1, <1>2, <1>3, <1>4 DEF p

-----------------------------------------------------------------------------
(* The files in the order they are read *)

\* What is in the files.
Pkgs == (UNION {Range(PkgsOf(n)) : n \in Read}) \cup {StdPkg(p) : p \in StdRead}

\* In a sequence, the last package of a name is the one that counts.
After(s, n) ==
    \E k \in DOMAIN s : s[k] = Final(n) /\ \A j \in DOMAIN s : j > k /\ s[j].id = Id(n) => s[j] = Final(n)

LEMMA IdIs == \A n, m : /\ Id(n) = Id(m) => n = m
                        /\ Id(n).name = n /\ Id(n).x = 0 /\ Id(n).at = At
  BY DEF Id

LEMMA PairIs ==
    ASSUME NEW a, NEW b PROVE <<a>> \o <<b>> = <<a, b>>
  <1>1. <<a>> \in Seq({a, b}) /\ <<b>> \in Seq({a, b}) /\ <<a, b>> \in Seq({a, b}) OBVIOUS
  <1> DEFINE s == <<a>> \o <<b>>
             u == <<a, b>>
  <1>2. s \in Seq({a, b}) /\ Len(s) = 2 /\ s[1] = a /\ s[2] = b BY <1>1
  <1>3. u \in Seq({a, b}) /\ Len(u) = 2 /\ u[1] = a /\ u[2] = b BY <1>1
  <1> HIDE DEF s, u
  <1>4. \A i \in 1..2 : s[i] = u[i]
    <2>1. \A i \in 1..2 : i = 1 \/ i = 2 OBVIOUS
    <2> QED BY <1>2, <1>3, <2>1
  <1>5. s = u BY <1>2, <1>3, <1>4, SeqEqual
  <1> QED BY <1>5 DEF s, u

\* The packages of one target: the last has its sources.
LEMMA PkgsOfIs ==
    ASSUME input \in Inputs, NEW n \in Read
    PROVE  /\ PkgsOf(n) \in Seq(Pkgs) /\ After(PkgsOf(n), n)
           /\ \A j \in DOMAIN PkgsOf(n) : PkgsOf(n)[j] = Record(PkgsOf(n)[j]) /\ PkgsOf(n)[j].id = Id(n) /\ ~PkgsOf(n)[j].std
  <1> DEFINE t == input.targets[n]
             a == ToPkg(n, MainArchive(t))
             b == ToPkg(n, InternalArchive(t))
             s == PkgsOf(n)
  <1>1. (s = <<a, b>> /\ b = Final(n)) \/ (s = <<b>> /\ b = Final(n)) \/ (s = <<a>> /\ a = Final(n))
    <2>1. s # <<>> BY KnownIs
    <2>2. s = (IF t.rule = "go_test" /\ "main" \in t.written THEN <<a>> ELSE <<>>)
              \o (IF "package" \in t.written THEN <<b>> ELSE <<>>)
      BY DEF PkgsOf
    <2>3. Final(n) = IF "package" \in t.written THEN b ELSE a BY FinalIs DEF Known, Counts
    <2> HIDE DEF a, b, s, t
    <2>4. <<a>> \o <<b>> = <<a, b>> BY PairIs
    <2>5. <<>> \o <<b>> = <<b>> OBVIOUS
    <2>6. <<a>> \o <<>> = <<a>> OBVIOUS
    <2>7. <<>> \o <<>> = <<>> OBVIOUS
    <2> QED BY <2>1, <2>2, <2>3, <2>4, <2>5, <2>6, <2>7
  <1>2. a = Record(a) /\ a.id = Id(n) /\ ~a.std BY DEF ToPkg, Record
  <1>3. b = Record(b) /\ b.id = Id(n) /\ ~b.std BY DEF ToPkg, Record
  <1>5. Range(s) \subseteq Pkgs BY DEF Pkgs
  <1> HIDE DEF a, b, s, t
  <1>6. CASE s = <<a, b>> /\ b = Final(n)
    <2>1. DOMAIN s = {1, 2} /\ s[1] = a /\ s[2] = b BY <1>6
    <2>2. a \in Pkgs /\ b \in Pkgs BY <1>5, <2>1 DEF Range
    <2>3. s \in Seq(Pkgs) BY <1>6, <2>2
    <2>4. After(s, n) BY <1>6, <2>1 DEF After
    <2> QED BY <1>2, <1>3, <2>1, <2>3, <2>4 DEF s
  <1>7. CASE s = <<b>> /\ b = Final(n)
    <2>1. DOMAIN s = {1} /\ s[1] = b BY <1>7
    <2>2. b \in Pkgs BY <1>5, <2>1 DEF Range
    <2>3. s \in Seq(Pkgs) BY <1>7, <2>2
    <2>4. After(s, n) BY <1>7, <2>1 DEF After
    <2> QED BY <1>3, <2>1, <2>3, <2>4 DEF s
  <1>8. CASE s = <<a>> /\ a = Final(n)
    <2>1. DOMAIN s = {1} /\ s[1] = a BY <1>8
    <2>2. a \in Pkgs BY <1>5, <2>1 DEF Range
    <2>3. s \in Seq(Pkgs) BY <1>8, <2>2
    <2>4. After(s, n) BY <1>8, <2>1 DEF After
    <2> QED BY <1>2, <2>1, <2>3, <2>4 DEF s
  <1> QED BY <1>1, <1>6, <1>7, <1>8

LEMMA PkgsAre ==
    ASSUME input \in Inputs, NEW p \in Pkgs
    PROVE  /\ p = Record(p) /\ \E n \in Known : p.id = Id(n)
           /\ p.std => \E q \in StdRead : p = StdPkg(q)
  <1>1. CASE \E n \in Read : p \in Range(PkgsOf(n))
    <2>1. PICK n \in Read : p \in Range(PkgsOf(n)) BY <1>1
    <2>2. PICK j \in DOMAIN PkgsOf(n) : p = PkgsOf(n)[j] BY <2>1 DEF Range
    <2>3. p = Record(p) /\ p.id = Id(n) /\ ~p.std BY <2>2, PkgsOfIs
    <2> QED BY <2>3 DEF Known
  <1>2. CASE \E q \in StdRead : p = StdPkg(q)
    <2>1. PICK q \in StdRead : p = StdPkg(q) BY <1>2
    <2>2. p = Record(p) /\ p.id = Id(q) BY <2>1 DEF StdPkg, Record
    <2> QED BY <2>1, <2>2 DEF Known
  <1> QED BY <1>1, <1>2 DEF Pkgs

\* What comes behind counts, and what has another name does not.
Follows(t, n) == \A j \in DOMAIN t : t[j].id # Id(n)
LEMMA AfterConcat ==
    ASSUME NEW s \in Seq(Pkgs), NEW t \in Seq(Pkgs), NEW n, After(t, n) \/ (After(s, n) /\ Follows(t, n))
    PROVE  After(s \o t, n)
  <1> DEFINE u == s \o t
             F == Final(n)
             I == Id(n)
  <1>1. /\ Len(s \o t) = Len(s) + Len(t)
        /\ \A i \in 1..Len(s) : (s \o t)[i] = s[i]
        /\ \A i \in 1..Len(t) : (s \o t)[Len(s) + i] = t[i]
    BY ConcatProperties
  <1>2. Len(s) \in Nat /\ Len(t) \in Nat /\ DOMAIN s = 1..Len(s) /\ DOMAIN t = 1..Len(t) OBVIOUS
  <1>3. s \o t \in Seq(Pkgs) BY ConcatProperties
  <1>4. DOMAIN (s \o t) = 1..(Len(s) + Len(t)) BY <1>1, <1>3
  <1>5. DOMAIN u = 1..(Len(s) + Len(t)) /\ (\A i \in 1..Len(s) : u[i] = s[i]) /\ \A i \in 1..Len(t) : u[Len(s) + i] = t[i]
    BY <1>1, <1>4
  <1> HIDE DEF u, F, I
  <1>6. CASE After(t, n)
    <2>1. PICK k \in 1..Len(t) : t[k] = F /\ \A j \in 1..Len(t) : j > k /\ t[j].id = I => t[j] = F
      BY <1>2, <1>6 DEF After, F, I
    <2>2. Len(s) + k \in DOMAIN u /\ u[Len(s) + k] = F BY <1>2, <1>5, <2>1
    <2>3. ASSUME NEW j \in DOMAIN u, j > Len(s) + k, u[j].id = I PROVE u[j] = F
      <3>1. j - Len(s) \in 1..Len(t) /\ j - Len(s) > k /\ j = Len(s) + (j - Len(s)) BY <1>2, <1>5, <2>1, <2>3
      <3>2. u[j] = t[j - Len(s)] BY <1>5, <3>1
      <3> QED BY <2>1, <2>3, <3>1, <3>2
    <2> QED BY <2>2, <2>3 DEF After, F, I, u
  <1>7. CASE After(s, n) /\ Follows(t, n)
    <2>1. PICK k \in 1..Len(s) : s[k] = F /\ \A j \in 1..Len(s) : j > k /\ s[j].id = I => s[j] = F
      BY <1>2, <1>7 DEF After, F, I
    <2>2. k \in DOMAIN u /\ u[k] = F BY <1>2, <1>5, <2>1
    <2>3. ASSUME NEW j \in DOMAIN u, j > k, u[j].id = I PROVE u[j] = F
      <3>1. CASE j <= Len(s)
        <4>1. j \in 1..Len(s) /\ u[j] = s[j] BY <1>2, <1>5, <3>1
        <4> QED BY <2>1, <2>3, <4>1
      <3>2. CASE ~(j <= Len(s))
        <4>1. j - Len(s) \in 1..Len(t) /\ j = Len(s) + (j - Len(s)) BY <1>2, <1>5, <3>2
        <4>2. u[j] = t[j - Len(s)] BY <1>5, <4>1
        <4>3. t[j - Len(s)].id # I BY <1>2, <1>7, <4>1 DEF Follows, I
        <4> QED BY <2>3, <4>2, <4>3
      <3> QED BY <3>1, <3>2
    <2> QED BY <2>2, <2>3 DEF After, F, I, u
  <1> QED BY <1>6, <1>7

\* The files that Build reads.
LEMMA PkgFilesIs ==
    ASSUME input \in Inputs, NEW std \in Seq(StdRead), Range(std) = StdRead,
           NEW targets \in Seq(Read), Range(targets) = Read
    PROVE  PkgFiles(std, targets) \in Seq(Pkgs) /\ \A n \in Known : After(PkgFiles(std, targets), n)
  <1> DEFINE N == Len(targets)
             S == Seq(Pkgs)
             first == [m \in DOMAIN std |-> StdPkg(std[m])]
             F == [n \in 1..N |-> [k \in S |-> k \o PkgsOf(targets[n])]]
             Def(f) == f = [n \in 0..N |-> IF n = 0 THEN first ELSE f[n - 1] \o PkgsOf(targets[n])]
  <1>1. N \in Nat /\ DOMAIN targets = 1..N /\ \A n \in 1..N : targets[n] \in Read OBVIOUS
  <1>2. \A n \in 1..N : PkgsOf(targets[n]) \in S BY <1>1, PkgsOfIs
  <1>3. first \in S
    <2>1. \A m \in DOMAIN std : StdPkg(std[m]) \in Pkgs BY DEF Pkgs
    <2>2. DOMAIN std = 1..Len(std) /\ Len(std) \in Nat OBVIOUS
    <2>3. first \in [1..Len(std) -> Pkgs] BY <2>1, <2>2
    <2> HIDE DEF first
    <2> QED BY <2>2, <2>3
  <1>4. F \in [1..N -> [S -> S]]
    <2>1. ASSUME NEW n \in 1..N, NEW k \in S PROVE k \o PkgsOf(targets[n]) \in S
      <3> DEFINE t == PkgsOf(targets[n])
      <3>1. t \in S BY <1>2
      <3> HIDE DEF t
      <3>2. k \o t \in S BY <3>1, ConcatIs
      <3> QED BY <3>2 DEF t
    <2> HIDE DEF S, N
    <2> QED BY <2>1
  <1>5. PICK h \in [0..N -> S] : \A q \in 0..N : h[q] = IF q = 0 THEN first ELSE F[q][h[q - 1]]
    <2> HIDE DEF F, S, N, Def, first
    <2>1. Looped(S, first, N, F) BY <1>1, <1>3, <1>4, Rounds
    <2> QED BY <2>1 DEF Looped
  <1>6. Def(h)
    <2>1. h = [n \in 0..N |-> h[n]] OBVIOUS
    <2>2. ASSUME NEW n \in 0..N PROVE h[n] = IF n = 0 THEN first ELSE h[n - 1] \o PkgsOf(targets[n])
      <3> HIDE DEF first, S
      <3>1. n # 0 => n \in 1..N /\ h[n - 1] \in S BY <1>1
      <3> QED BY <1>5, <3>1
    <2> HIDE DEF first
    <2> QED BY <2>1, <2>2
  <1> DEFINE k == CHOOSE f : Def(f)
  <1>7. Def(k)
    <2> HIDE DEF Def
    <2> QED BY <1>6
  <1>8. PkgFiles(std, targets) = k[N] BY DEF PkgFiles
  <1>9. \A p \in StdRead : After(first, p)
    <2> TAKE p \in StdRead
    <2>1. PICK m \in DOMAIN std : std[m] = p BY DEF Range
    <2>2. \A j \in DOMAIN std : StdPkg(std[j]).id = Id(p) => std[j] = p BY IdIs DEF StdPkg
    <2>3. Final(p) = StdPkg(p) BY FinalIs DEF Known
    <2>4. DOMAIN first = DOMAIN std /\ \A j \in DOMAIN std : first[j] = StdPkg(std[j]) OBVIOUS
    <2> HIDE DEF first
    <2> QED BY <2>1, <2>2, <2>3, <2>4 DEF After
  <1> HIDE DEF k, F, first
  <1> DEFINE Good == {n \in 0..N : /\ k[n] \in S /\ \A p \in StdRead : After(k[n], p)
                                   /\ \A m \in 1..n : After(k[n], targets[m])}
  <1>10. 0 \in Good
    <2>1. k[0] = first /\ 0 \in 0..N BY <1>1, <1>7
    <2> HIDE DEF S
    <2> QED BY <1>3, <1>9, <2>1
  <1>11. ASSUME NEW n \in 0..N, n # N, n \in Good PROVE n + 1 \in Good
    <2> DEFINE t == PkgsOf(targets[n + 1])
    <2>1. n + 1 \in 1..N /\ n + 1 \in 0..N /\ n \in Nat /\ (n + 1) - 1 = n /\ n + 1 # 0
      <3> HIDE DEF Good, N
      <3> QED BY <1>1, <1>11
    <2>2. k[n + 1] = k[n] \o t BY <1>7, <2>1
    <2>3. targets[n + 1] \in Read BY <1>1, <2>1
    <2>4. t \in S /\ After(t, targets[n + 1]) /\ \A j \in DOMAIN t : t[j].id = Id(targets[n + 1]) BY <2>3, PkgsOfIs
    <2> DEFINE u == k[n]
    <2>5. u \in S /\ (\A p \in StdRead : After(u, p)) /\ \A m \in 1..n : After(u, targets[m]) BY <1>11
    <2> HIDE DEF t, u
    <2>6. u \o t \in S BY <2>4, <2>5, ConcatIs
    <2>7. ASSUME NEW m, After(u, m) \/ m = targets[n + 1] PROVE After(u \o t, m)
      <3>1. CASE m = targets[n + 1] BY <2>4, <2>5, <3>1, AfterConcat
      <3>2. CASE m # targets[n + 1]
        <4>1. Follows(t, m) BY <2>4, <3>2, IdIs DEF Follows
        <4> QED BY <2>4, <2>5, <2>7, <3>2, <4>1, AfterConcat
      <3> QED BY <3>1, <3>2
    <2>8. \A m \in 1..(n + 1) : m \in 1..n \/ m = n + 1 BY <2>1
    <2> HIDE DEF S
    <2>9. k[n + 1] = u \o t BY <2>2 DEF u
    <2> QED BY <2>1, <2>5, <2>6, <2>7, <2>8, <2>9
  <1>12. N \in Good
    <2>1. 0..N \subseteq Good
      <3> HIDE DEF Good
      <3> QED BY <1>1, <1>10, <1>11, SetInduction
    <2>2. N \in 0..N BY <1>1
    <2> HIDE DEF Good, N
    <2> QED BY <2>1, <2>2
  <1>13. \A n \in Known : n \in StdRead \/ \E m \in 1..N : targets[m] = n BY <1>1 DEF Known, Range
  <1> HIDE DEF N
  <1> QED BY <1>8, <1>12, <1>13

-----------------------------------------------------------------------------
(* The invariant, until the walk *)

IdX(n, k) == [at |-> At, name |-> n, x |-> k]
LEMMA IdXIs ==
    /\ \A n : IdX(n, 0) = Id(n) /\ XTestID(Id(n)) = IdX(n, 1)
    /\ \A n, k : XTestID(IdX(n, k)) = IdX(n, k + 1) /\ IdX(n, k).name = n /\ IdX(n, k).x = k
                 /\ IdX(n, k).at = At
    /\ \A n, k, m, l : IdX(n, k) = IdX(m, l) => n = m /\ k = l
  BY DEF IdX, Id, XTestID

\* A package has external tests; they are moved, and may be looked at again.
Moves(p) == \E f \in Range(p.goFiles) \cup Range(p.compiled) : IsXTest(f, p.name)
Split(n) == XTest(Named(n))
Again(n) == Rest(Resolved(Split(n)))

LabelInv == \A l \in labels : l = Printed(l.name) \/ (l.name = Stdlib /\ l = [Id(Stdlib) EXCEPT !.at = "@"])

EmptyInv ==
    /\ pc \in {"query", "build"} => packagesByID = <<>> /\ stdlib = <<>>
    /\ pc \notin {"walk", "response"} => rootsLeft = {} /\ stack = <<>> /\ acc = {}

\* While the packages are added: of each name, the package that counts is there or still to come.
Added(n) ==
    /\ Id(n) \in DOMAIN packagesByID /\ packagesByID[Id(n)] = Filled(Final(n))
    /\ \A j \in DOMAIN jsonFiles : jsonFiles[j].id = Id(n) => jsonFiles[j] = Final(n)
AddInv ==
    pc = "add" =>
        /\ jsonFiles \in Seq(Pkgs)
        /\ \A i \in DOMAIN packagesByID : \E n \in Known : i = Id(n)
        /\ \A n \in Known : After(jsonFiles, n) \/ Added(n)
        /\ \A p \in DOMAIN stdlib : p \in StdRead /\ stdlib[p] = Id(p)
        /\ \A p \in StdRead : p \in DOMAIN stdlib \/ StdPkg(p) \in Range(jsonFiles)

\* While the loop over the map goes on: a package that is to be visited is as it was added, one that
\* was visited has lost its external tests to one beside it, which may itself have been visited.
StdlibIs == DOMAIN stdlib = StdRead /\ \A p \in StdRead : stdlib[p] = Id(p)
IdsAre ==
    \A i \in DOMAIN packagesByID : \E n \in Known, k \in Nat : i = IdX(n, k) /\ (k # 0 => n \in Read)
BaseIs(n) ==
    /\ Id(n) \in DOMAIN packagesByID
    /\ Id(n) \in todo => packagesByID[Id(n)] = Pre(n)
    /\ Id(n) \notin todo =>
           packagesByID[Id(n)] = Rest(Named(n)) /\ (Moves(Named(n)) => IdX(n, 1) \in DOMAIN packagesByID)
BesideIs(n) ==
    IdX(n, 1) \in DOMAIN packagesByID =>
        /\ Id(n) \notin todo /\ Moves(Named(n))
        /\ \/ packagesByID[IdX(n, 1)] = Split(n)
           \/ IdX(n, 1) \notin todo /\ packagesByID[IdX(n, 1)] = Again(n)
VisitInv ==
    pc \in {"imports", "walk", "response"} =>
        /\ StdlibIs /\ IdsAre /\ todo \subseteq DOMAIN packagesByID
        /\ \A n \in Known : BaseIs(n) /\ BesideIs(n)

\* What depends on nothing that the loop changes.
LEMMA Same ==
    ASSUME input' = input, labels' = labels
    PROVE  /\ Known' = Known /\ Read' = Read /\ StdRead' = StdRead /\ Reported' = Reported /\ Pkgs' = Pkgs
           /\ \A n : /\ Id(n)' = Id(n) /\ Final(n)' = Final(n) /\ Pre(n)' = Pre(n)
                     /\ StdPkg(n)' = StdPkg(n) /\ PkgsOf(n)' = PkgsOf(n)
           /\ \A n, k : IdX(n, k)' = IdX(n, k)
  <1>0. At' = At BY DEF At, isAtLeast
  <1>1. \A n : Id(n)' = Id(n) BY <1>0 DEF Id
  <1>2. \A n, k : IdX(n, k)' = IdX(n, k) BY <1>0 DEF IdX
  <1>3. \A n, t : ToPkg(n, t)' = ToPkg(n, t) BY <1>0 DEF ToPkg, Id
  <1>12. \A t : InternalArchive(t)' = InternalArchive(t) BY DEF InternalArchive, need_recompile
  <1>4. \A n : StdPkg(n)' = StdPkg(n) BY <1>1 DEF StdPkg
  <1>5. \A n : PkgsOf(n)' = PkgsOf(n) BY <1>3, <1>12 DEF PkgsOf
  <1>6. \A n : Final(n)' = Final(n) BY <1>3, <1>4, <1>12 DEF Final, Counts
  <1>7. \A n : Pre(n)' = Pre(n) BY <1>6 DEF Pre
  <1>8. \A S : Deps(S)' = Deps(S) BY DEF Deps
  <1>9. Reported' = Reported BY <1>8 DEF Reported, Built
  <1>13. StdRead' = StdRead BY <1>9 DEF StdRead
  <1>10. Read' = Read /\ Known' = Known BY <1>5, <1>8, <1>9, <1>13 DEF Read, Known
  <1>11. Pkgs' = Pkgs BY <1>4, <1>5, <1>10, <1>13 DEF Pkgs
  <1> QED BY <1>1, <1>2, <1>4, <1>5, <1>6, <1>7, <1>9, <1>10, <1>11, <1>13

LEMMA SameNamed ==
    ASSUME input' = input, labels' = labels, stdlib' = stdlib
    PROVE  \A n : Named(n)' = Named(n) /\ Split(n)' = Split(n) /\ Again(n)' = Again(n)
  <1>1. \A p : Resolved(p)' = Resolved(p) BY DEF Resolved, Overlaid
  <1>2. \A n : Named(n)' = Named(n) BY <1>1, Same DEF Named
  <1>3. \A n : Split(n)' = Split(n) BY <1>2 DEF Split
  <1>4. \A n : Again(n)' = Again(n) BY <1>1, <1>3 DEF Again
  <1> QED BY <1>2, <1>3, <1>4

\* Build reads files in which of each name one package counts.
LEMMA BuildAdds ==
    ASSUME input \in Inputs, EmptyInv, Build PROVE AddInv'
  <1>1. CASE pc' = "error" BY <1>1 DEF AddInv
  <1>2. CASE pc' # "error"
    <2> DEFINE std == SetToSeq(StdRead)
               targets == SetToSeq(Read)
    <2>1. jsonFiles' = PkgFiles(std, targets) BY <1>2 DEF Build
    <2>2. std \in Seq(StdRead) /\ Range(std) = StdRead BY KnownIs, ListIs
    <2>3. targets \in Seq(Read) /\ Range(targets) = Read BY KnownIs, ListIs
    <2> HIDE DEF std, targets
    <2>4. PkgFiles(std, targets) \in Seq(Pkgs) /\ \A n \in Known : After(PkgFiles(std, targets), n)
      BY <2>2, <2>3, PkgFilesIs
    <2>5. packagesByID' = <<>> /\ stdlib' = <<>> /\ input' = input /\ labels' = labels BY DEF Build, EmptyInv
    <2> DEFINE files == PkgFiles(std, targets)
    <2> HIDE DEF files
    <2>6. jsonFiles' = files /\ files \in Seq(Pkgs) /\ \A n \in Known : After(files, n) BY <2>1, <2>4 DEF files
    <2>7. \A n \in Known : After(jsonFiles, n)'
      <3> TAKE n \in Known
      <3>1. After(files, n) /\ Id(n)' = Id(n) /\ Final(n)' = Final(n) BY <2>5, <2>6, Same
      <3> QED BY <2>6, <3>1 DEF After
    <2>8. \A p \in StdRead : StdPkg(p) \in Range(files)
      <3> TAKE p \in StdRead
      <3>1. p \in Known /\ Final(p) = StdPkg(p) BY FinalIs DEF Known
      <3>2. PICK k \in DOMAIN files : files[k] = Final(p) BY <2>6, <3>1 DEF After
      <3> QED BY <3>1, <3>2 DEF Range
    <2>9. Known' = Known /\ StdRead' = StdRead /\ Pkgs' = Pkgs /\ \A p : StdPkg(p)' = StdPkg(p) BY <2>5, Same
    <2>10. DOMAIN packagesByID' = {} /\ DOMAIN stdlib' = {} BY <2>5
    <2> QED BY <2>5, <2>6, <2>7, <2>8, <2>9, <2>10 DEF AddInv
  <1> QED BY <1>1, <1>2

\* The package at the front is added, in place of an earlier one of its name.
LEMMA AddAdds ==
    ASSUME input \in Inputs, AddInv, Add PROVE AddInv'
  <1> DEFINE s == jsonFiles
             t == Tail(s)
             p == Head(s)
             f == Filled(p)
  <1>1. /\ s \in Seq(Pkgs) /\ \A i \in DOMAIN packagesByID : \E n \in Known : i = Id(n)
        /\ \A n \in Known : After(s, n) \/ Added(n)
        /\ \A q \in DOMAIN stdlib : q \in StdRead /\ stdlib[q] = Id(q)
        /\ \A q \in StdRead : q \in DOMAIN stdlib \/ StdPkg(q) \in Range(s)
    BY DEF AddInv, Add
  <1>2. /\ s # <<>> /\ jsonFiles' = t /\ packagesByID' = Put(packagesByID, f.id, f)
        /\ stdlib' = IF f.std THEN Put(stdlib, f.path, f.id) ELSE stdlib
        /\ input' = input /\ labels' = labels
    BY DEF Add, Filled
  <1>3. t \in Seq(Pkgs) /\ Len(s) \in Nat /\ Len(s) > 0 /\ Len(t) = Len(s) - 1 /\ DOMAIN t = 1..(Len(s) - 1)
        /\ DOMAIN s = 1..Len(s) /\ (\A j \in 1..(Len(s) - 1) : t[j] = s[j + 1]) /\ p = s[1]
    BY <1>1, <1>2
  <1>4. p \in Pkgs BY <1>1, <1>3
  <1>5. p = Record(p) /\ (\E n \in Known : p.id = Id(n)) /\ (p.std => \E q \in StdRead : p = StdPkg(q))
    BY <1>4, PkgsAre
  <1> HIDE DEF s, t, p
  <1>6. f.id = p.id /\ f.std = p.std /\ f.path = p.path BY <1>5 DEF Record, Filled
  <1> HIDE DEF f
  <1>7. DOMAIN packagesByID' = DOMAIN packagesByID \cup {p.id} /\ packagesByID'[p.id] = f
        /\ \A i \in DOMAIN packagesByID : i # p.id => packagesByID'[i] = packagesByID[i]
    BY <1>2, <1>6 DEF Put
  <1>8. \A n : Id(n)' = Id(n) /\ Final(n)' = Final(n) /\ StdPkg(n)' = StdPkg(n) BY <1>2, Same
  <1>9. Known' = Known /\ Pkgs' = Pkgs BY <1>2, Same
  <1>10. \A n \in Known : (After(jsonFiles, n) \/ Added(n))'
    <2> TAKE n \in Known
    <2> DEFINE F == Final(n)
               I == Id(n)
    <2>1. I' = I /\ F' = F BY <1>8
    <2> HIDE DEF F, I
    <2>2. SUFFICES \/ \E k \in DOMAIN t : t[k] = F /\ \A j \in DOMAIN t : j > k /\ t[j].id = I => t[j] = F
                   \/ /\ I \in DOMAIN packagesByID' /\ packagesByID'[I] = Filled(F)
                      /\ \A j \in DOMAIN t : t[j].id = I => t[j] = F
      BY <1>2, <2>1 DEF After, Added, F, I
    <2>3. F.id = I BY FinalIs DEF F, I
    <2>4. CASE After(s, n)
      <3>1. PICK k \in DOMAIN s : s[k] = F /\ \A j \in DOMAIN s : j > k /\ s[j].id = I => s[j] = F
        BY <2>4 DEF After, F, I
      <3>2. CASE k = 1
        <4>1. f = Filled(F) /\ p.id = I BY <1>3, <2>3, <3>1, <3>2 DEF f
        <4>2. ASSUME NEW j \in DOMAIN t, t[j].id = I PROVE t[j] = F
          <5>1. j + 1 \in DOMAIN s /\ j + 1 > k /\ t[j] = s[j + 1] BY <1>3, <3>2, <4>2
          <5> QED BY <3>1, <4>2, <5>1
        <4> QED BY <1>7, <4>1, <4>2
      <3>3. CASE k # 1
        <4>1. k - 1 \in DOMAIN t /\ t[k - 1] = F
          <5>1. k - 1 \in 1..(Len(s) - 1) /\ (k - 1) + 1 = k BY <1>3, <3>3
          <5>2. t[k - 1] = s[(k - 1) + 1] BY <1>3, <5>1
          <5> QED BY <1>3, <3>1, <5>1, <5>2
        <4>2. ASSUME NEW j \in DOMAIN t, j > k - 1, t[j].id = I PROVE t[j] = F
          <5>1. j + 1 \in DOMAIN s /\ j + 1 > k /\ t[j] = s[j + 1] BY <1>3, <4>2
          <5> QED BY <3>1, <4>2, <5>1
        <4> QED BY <4>1, <4>2
      <3> QED BY <3>2, <3>3
    <2>5. CASE Added(n)
      <3>1. /\ I \in DOMAIN packagesByID /\ packagesByID[I] = Filled(F)
            /\ \A j \in DOMAIN s : s[j].id = I => s[j] = F
        BY <2>5 DEF Added, F, I, s
      <3>2. ASSUME NEW j \in DOMAIN t, t[j].id = I PROVE t[j] = F
        <4>1. j + 1 \in DOMAIN s /\ t[j] = s[j + 1] BY <1>3, <3>2
        <4> QED BY <3>1, <3>2, <4>1
      <3>3. 1 \in DOMAIN s BY <1>3
      <3>4. p.id = I => f = Filled(F) BY <1>3, <3>1, <3>3 DEF f
      <3> QED BY <1>7, <3>1, <3>2, <3>4
    <2> QED BY <1>1, <2>4, <2>5
  <1>11. \A q \in DOMAIN stdlib' : q \in StdRead /\ stdlib'[q] = Id(q)
    <2>1. CASE ~p.std BY <1>1, <1>2, <1>6, <2>1
    <2>2. CASE p.std
      <3>1. PICK q \in StdRead : p = StdPkg(q) BY <1>5, <2>2
      <3>2. p.path = q /\ p.id = Id(q) BY <3>1 DEF StdPkg
      <3>3. stdlib' = Put(stdlib, q, Id(q)) BY <1>2, <1>6, <2>2, <3>2
      <3> QED BY <1>1, <3>3 DEF Put
    <2> QED BY <2>1, <2>2
  <1>12. \A q \in StdRead : q \in DOMAIN stdlib' \/ StdPkg(q) \in Range(t)
    <2> TAKE q \in StdRead
    <2>1. DOMAIN stdlib \subseteq DOMAIN stdlib' BY <1>2 DEF Put
    <2>2. CASE q \in DOMAIN stdlib BY <2>1, <2>2
    <2>3. CASE StdPkg(q) \in Range(s)
      <3>1. PICK j \in DOMAIN s : s[j] = StdPkg(q) BY <2>3 DEF Range
      <3>2. CASE j = 1
        <4>1. p = StdPkg(q) BY <1>3, <3>1, <3>2
        <4>2. p.std /\ p.path = q BY <4>1 DEF StdPkg
        <4> QED BY <1>2, <1>6, <4>2 DEF Put
      <3>3. CASE j # 1
        <4>1. j - 1 \in DOMAIN t /\ t[j - 1] = StdPkg(q)
          <5>1. j - 1 \in 1..(Len(s) - 1) /\ (j - 1) + 1 = j BY <1>3, <3>3
          <5>2. t[j - 1] = s[(j - 1) + 1] BY <1>3, <5>1
          <5> QED BY <1>3, <3>1, <5>1, <5>2
        <4> QED BY <4>1 DEF Range
      <3> QED BY <3>2, <3>3
    <2> QED BY <1>1, <2>2, <2>3
  <1>13. \A i \in DOMAIN packagesByID' : \E n \in Known : i = Id(n) BY <1>1, <1>5, <1>7
  <1>14. StdRead' = StdRead /\ t \in Seq(Pkgs) BY <1>2, <1>3, Same
  <1> QED BY <1>2, <1>8, <1>9, <1>10, <1>11, <1>12, <1>13, <1>14 DEF AddInv

\* When all packages are added, those that count are there.
LEMMA ResolvePathsVisits ==
    ASSUME input \in Inputs, AddInv, ResolvePaths PROVE VisitInv'
  <1>1. /\ jsonFiles = <<>> /\ \A i \in DOMAIN packagesByID : \E n \in Known : i = Id(n)
        /\ \A n \in Known : After(jsonFiles, n) \/ Added(n)
        /\ \A q \in DOMAIN stdlib : q \in StdRead /\ stdlib[q] = Id(q)
        /\ \A q \in StdRead : q \in DOMAIN stdlib \/ StdPkg(q) \in Range(jsonFiles)
    BY DEF AddInv, ResolvePaths
  <1>2. /\ packagesByID' = [i \in DOMAIN packagesByID |-> Tagged(packagesByID[i])]
        /\ todo' = DOMAIN packagesByID /\ input' = input /\ labels' = labels /\ stdlib' = stdlib
    BY DEF ResolvePaths, Tagged
  <1>3. \A n \in Known : Added(n)
    <2> TAKE n \in Known
    <2>1. ~After(jsonFiles, n) BY <1>1 DEF After
    <2> QED BY <1>1, <2>1
  <1>4. Range(jsonFiles) = {} BY <1>1 DEF Range
  <1>5. StdlibIs BY <1>1, <1>4 DEF StdlibIs
  <1>6. Known' = Known /\ Read' = Read /\ (\A n : Id(n)' = Id(n) /\ Pre(n)' = Pre(n)) /\ \A n, k : IdX(n, k)' = IdX(n, k)
    BY <1>2, Same
  <1>7. StdlibIs' BY <1>2, <1>5, <1>6, Same DEF StdlibIs
  <1>8. DOMAIN packagesByID' = DOMAIN packagesByID /\ todo' = DOMAIN packagesByID BY <1>2
  <1>9. IdsAre'
    <2>1. ASSUME NEW i \in DOMAIN packagesByID PROVE \E n \in Known, k \in Nat : i = IdX(n, k) /\ (k # 0 => n \in Read)
      <3>1. PICK n \in Known : i = Id(n) BY <1>1
      <3>2. i = IdX(n, 0) /\ 0 \in Nat BY <3>1, IdXIs
      <3> QED BY <3>2
    <2> QED BY <1>6, <1>8, <2>1 DEF IdsAre
  <1>10. \A n \in Known : BaseIs(n)'
    <2> TAKE n \in Known
    <2>1. Id(n) \in DOMAIN packagesByID /\ packagesByID[Id(n)] = Filled(Final(n)) BY <1>3 DEF Added
    <2>2. packagesByID'[Id(n)] = Pre(n) BY <1>2, <2>1 DEF Pre
    <2> QED BY <1>6, <1>8, <2>1, <2>2 DEF BaseIs
  <1>11. \A n \in Known : BesideIs(n)'
    <2> TAKE n \in Known
    <2>1. IdX(n, 1) \notin DOMAIN packagesByID
      <3>1. ASSUME IdX(n, 1) \in DOMAIN packagesByID PROVE FALSE
        <4>1. PICK m \in Known : IdX(n, 1) = Id(m) BY <1>1, <3>1
        <4>2. IdX(n, 1) = IdX(m, 0) BY <4>1, IdXIs
        <4> QED BY <4>2, IdXIs
      <3> QED BY <3>1
    <2> QED BY <1>6, <1>8, <2>1 DEF BesideIs
  <1> QED BY <1>6, <1>7, <1>8, <1>9, <1>10, <1>11 DEF VisitInv

\* A package of the standard library has no files, and so no tests to move.
LEMMA OnlyTargetsMove ==
    ASSUME input \in Inputs, NEW n \in Known, Moves(Named(n)) PROVE n \in Read
  <1>1. CASE n \in StdRead
    <2>1. Final(n) = StdPkg(n) BY <1>1, FinalIs
    <2>2. Final(n).goFiles = <<>> /\ Final(n).compiled = <<>> BY <2>1 DEF StdPkg
    <2> DEFINE p == Pre(n)
    <2>3. IsPkg(p) /\ p.goFiles = Final(n).goFiles
          /\ Range(p.compiled) = {f \in Range(IF Final(n).compiled = <<>> THEN Final(n).goFiles ELSE Final(n).compiled) : f.match}
      BY PreIs
    <2>4. Range(<<>>) = {} BY DEF Range
    <2>5. Range(p.goFiles) = {} /\ Range(p.compiled) = {} BY <2>2, <2>3, <2>4
    <2> HIDE DEF p
    <2>6. Resolved(p).goFiles = p.goFiles /\ Resolved(p).compiled = p.compiled BY <2>3, ResolvedIs
    <2>7. ~Moves(Resolved(p)) BY <2>5, <2>6 DEF Moves
    <2> QED BY <2>7 DEF Named, p
  <1>2. CASE n \notin StdRead BY <1>2 DEF Known
  <1> QED BY <1>1, <1>2

\* The loop, whichever package it comes to.
LEMMA VisitVisits ==
    ASSUME input \in Inputs, VisitInv, Visit PROVE VisitInv'
  <1>1. /\ pc = "imports" /\ input' = input /\ labels' = labels /\ stdlib' = stdlib
    BY DEF Visit
  <1>2. /\ StdlibIs /\ IdsAre /\ todo \subseteq DOMAIN packagesByID
        /\ \A n \in Known : BaseIs(n) /\ BesideIs(n)
    BY <1>1 DEF VisitInv
  <1>3. PICK id \in todo :
          LET pkg == Resolved(packagesByID[id])
              moved == \E f \in Range(pkg.goFiles) \cup Range(pkg.compiled) : IsXTest(f, pkg.name)
          IN  IF \E f \in Range(pkg.compiled) : f.name \in input.misspelt
              THEN pc' = "error" /\ UNCHANGED <<packagesByID, todo>>
              ELSE /\ packagesByID' = IF moved THEN Put(Put(packagesByID, id, Rest(pkg)), XTestID(id), XTest(pkg))
                                      ELSE Put(packagesByID, id, Rest(pkg))
                   /\ \/ todo' = todo \ {id}
                      \/ moved /\ id.x < MaxXTest /\ todo' = (todo \ {id}) \cup {XTestID(id)}
                   /\ UNCHANGED pc
    BY DEF Visit
  <1> DEFINE pkg == Resolved(packagesByID[id])
             next == XTestID(id)
  <1>4. CASE pc' = "error" BY <1>4 DEF VisitInv
  <1>5. CASE pc' # "error"
    <2>1. /\ packagesByID' = IF Moves(pkg) THEN Put(Put(packagesByID, id, Rest(pkg)), next, XTest(pkg))
                             ELSE Put(packagesByID, id, Rest(pkg))
          /\ todo' = todo \ {id} \/ (Moves(pkg) /\ todo' = (todo \ {id}) \cup {next})
      BY <1>3, <1>5 DEF Moves
    <2>2. id \in todo /\ id \in DOMAIN packagesByID BY <1>2, <1>3
    <2>3. PICK n \in Known, k \in Nat : id = IdX(n, k) /\ (k # 0 => n \in Read) BY <1>2, <2>2 DEF IdsAre
    <2>4. next = IdX(n, k + 1) /\ k + 1 # 0 /\ next # id BY <2>3, IdXIs
    <2>5. Known' = Known /\ Read' = Read
          /\ \A m : /\ Id(m)' = Id(m) /\ Pre(m)' = Pre(m) /\ Named(m)' = Named(m) /\ Split(m)' = Split(m)
                    /\ Again(m)' = Again(m) /\ IdX(m, 1)' = IdX(m, 1)
      BY <1>1, Same, SameNamed
    <2>6. \A m, l : IdX(m, l)' = IdX(m, l) BY <1>1, Same
    <2> HIDE DEF pkg, next
    <2>7. /\ DOMAIN packagesByID' = DOMAIN packagesByID \cup (IF Moves(pkg) THEN {next} ELSE {})
          /\ packagesByID'[id] = Rest(pkg)
          /\ Moves(pkg) => packagesByID'[next] = XTest(pkg)
          /\ \A i \in DOMAIN packagesByID : i # id /\ i # next => packagesByID'[i] = packagesByID[i]
      BY <2>1, <2>2, <2>4 DEF Put
    <2>8. /\ id \notin todo' /\ todo' \subseteq DOMAIN packagesByID'
          /\ \A i : i # id /\ i # next => (i \in todo' <=> i \in todo)
      BY <1>2, <2>1, <2>4, <2>7
    <2>9. CASE k = 0
      <3>1. id = Id(n) /\ next = IdX(n, 1) BY <2>3, <2>4, <2>9, IdXIs
      <3>2. packagesByID[id] = Pre(n) BY <1>2, <2>2, <3>1 DEF BaseIs
      <3>3. pkg = Named(n) BY <3>2 DEF pkg, Named
      <3>4. Moves(pkg) => n \in Read BY <3>3, OnlyTargetsMove
      <3>5. next \notin DOMAIN packagesByID BY <1>2, <2>2, <3>1 DEF BesideIs
      <3>6. IdsAre'
        <4>1. ASSUME NEW i \in DOMAIN packagesByID' PROVE \E m \in Known, l \in Nat : i = IdX(m, l) /\ (l # 0 => m \in Read)
          <5>1. CASE i \in DOMAIN packagesByID BY <1>2, <5>1 DEF IdsAre
          <5>2. CASE i = next /\ Moves(pkg) BY <3>1, <3>4, <5>2
          <5> QED BY <2>7, <4>1, <5>1, <5>2
        <4> QED BY <2>5, <2>6, <4>1 DEF IdsAre
      <3>7. ASSUME NEW m \in Known PROVE BaseIs(m)' /\ BesideIs(m)'
        <4>1. BaseIs(m) /\ BesideIs(m) BY <1>2
        <4>2. CASE m = n
          <5>1. Id(m) \notin todo' /\ packagesByID'[Id(m)] = Rest(Named(m)) /\ Id(m) \in DOMAIN packagesByID'
            BY <2>2, <2>7, <2>8, <3>1, <3>3, <4>2
          <5>2. Moves(Named(m)) => IdX(m, 1) \in DOMAIN packagesByID' BY <2>7, <3>1, <3>3, <4>2
          <5>3. IdX(m, 1) \in DOMAIN packagesByID' => Moves(Named(m)) /\ packagesByID'[IdX(m, 1)] = Split(m)
            BY <2>7, <3>1, <3>3, <3>5, <4>2 DEF Split
          <5> QED BY <2>5, <5>1, <5>2, <5>3 DEF BaseIs, BesideIs
        <4>3. CASE m # n
          <5>1. Id(m) # id /\ Id(m) # next /\ IdX(m, 1) # id /\ IdX(m, 1) # next
            BY <2>3, <2>4, <4>3, IdXIs
          <5>2. /\ Id(m) \in todo' <=> Id(m) \in todo
                /\ IdX(m, 1) \in todo' <=> IdX(m, 1) \in todo
                /\ IdX(m, 1) \in DOMAIN packagesByID' <=> IdX(m, 1) \in DOMAIN packagesByID
                /\ IdX(m, 1) \in DOMAIN packagesByID => packagesByID'[IdX(m, 1)] = packagesByID[IdX(m, 1)]
                /\ Id(m) \in DOMAIN packagesByID' /\ packagesByID'[Id(m)] = packagesByID[Id(m)]
            BY <2>7, <2>8, <4>1, <5>1 DEF BaseIs
          <5> QED BY <2>5, <4>1, <5>2 DEF BaseIs, BesideIs
        <4> QED BY <4>2, <4>3
      <3>8. StdlibIs' BY <1>1, <1>2, <2>5, Same DEF StdlibIs
      <3> QED BY <2>5, <2>8, <3>6, <3>7, <3>8 DEF VisitInv
    <2>10. CASE k # 0
      <3>1. n \in Read BY <2>3, <2>10
      <3>2. IdsAre'
        <4>1. ASSUME NEW i \in DOMAIN packagesByID' PROVE \E m \in Known, l \in Nat : i = IdX(m, l) /\ (l # 0 => m \in Read)
          <5>1. CASE i \in DOMAIN packagesByID BY <1>2, <5>1 DEF IdsAre
          <5>2. CASE i = next BY <2>4, <3>1, <5>2
          <5> QED BY <2>7, <4>1, <5>1, <5>2
        <4> QED BY <2>5, <2>6, <4>1 DEF IdsAre
      <3>3. ASSUME NEW m \in Known PROVE BaseIs(m)' /\ BesideIs(m)'
        <4>1. BaseIs(m) /\ BesideIs(m) BY <1>2
        <4>2. Id(m) # id /\ Id(m) # next BY <2>3, <2>4, <2>10, IdXIs
        <4>3. IdX(m, 1) # next
          <5>1. k + 1 # 1 BY <2>10
          <5> QED BY <2>4, <5>1, IdXIs
        <4>4. /\ Id(m) \in todo' <=> Id(m) \in todo
              /\ Id(m) \in DOMAIN packagesByID' /\ packagesByID'[Id(m)] = packagesByID[Id(m)]
              /\ IdX(m, 1) \in DOMAIN packagesByID' <=> IdX(m, 1) \in DOMAIN packagesByID
          BY <2>7, <2>8, <4>1, <4>2, <4>3 DEF BaseIs
        <4>5. BaseIs(m)' BY <2>5, <4>1, <4>4 DEF BaseIs
        <4>6. CASE IdX(m, 1) # id
          <5>1. /\ IdX(m, 1) \in todo' <=> IdX(m, 1) \in todo
                /\ IdX(m, 1) \in DOMAIN packagesByID => packagesByID'[IdX(m, 1)] = packagesByID[IdX(m, 1)]
            BY <2>7, <2>8, <4>3, <4>6
          <5> QED BY <2>5, <4>1, <4>4, <4>5, <5>1 DEF BesideIs
        <4>7. CASE IdX(m, 1) = id
          <5>1. packagesByID[id] = Split(m) /\ Id(m) \notin todo /\ Moves(Named(m)) BY <2>2, <4>1, <4>7 DEF BesideIs
          <5>2. Rest(pkg) = Again(m) BY <5>1 DEF pkg, Again
          <5>3. IdX(m, 1) \notin todo' /\ packagesByID'[IdX(m, 1)] = Again(m) BY <2>7, <2>8, <4>7, <5>2
          <5> QED BY <2>5, <4>4, <4>5, <5>1, <5>3 DEF BesideIs
        <4> QED BY <4>6, <4>7
      <3>4. StdlibIs' BY <1>1, <1>2, <2>5, Same DEF StdlibIs
      <3> QED BY <2>5, <2>8, <3>2, <3>3, <3>4 DEF VisitInv
    <2> QED BY <2>9, <2>10
  <1> QED BY <1>4, <1>5

-----------------------------------------------------------------------------
(* The registry after the loop *)

Settled ==
    /\ StdlibIs /\ IdsAre /\ todo = {}
    /\ \A n \in Known : BaseIs(n) /\ BesideIs(n)

\* The name that a package gets.
NameFor(n) == NameOf(Pre(n))

LEMMA NamedIs ==
    ASSUME input \in Inputs, StdlibIs, NEW n \in Known
    PROVE  /\ IsPkg(Named(n)) /\ Named(n).id = Id(n) /\ Named(n).path = Final(n).path /\ Named(n).name = NameFor(n)
           /\ Named(n).goFiles = Final(n).goFiles /\ Named(n).compiled = Pre(n).compiled
           /\ DOMAIN Named(n).imports =
                  DOMAIN Final(n).imports \cup ((Imported(Pre(n)) \ DOMAIN Final(n).imports) \cap StdRead)
           /\ \A q \in DOMAIN Named(n).imports :
                  Named(n).imports[q] = IF q \in DOMAIN Final(n).imports THEN Final(n).imports[q] ELSE Id(q)
  <1> DEFINE p == Pre(n)
             f == Final(n)
  <1>1. IsPkg(p) /\ p.id = Id(n) /\ p.path = f.path /\ p.goFiles = f.goFiles /\ p.imports = f.imports BY PreIs
  <1>2. Named(n) = Resolved(p) /\ NameFor(n) = NameOf(p) BY DEF Named, NameFor
  <1> HIDE DEF p, f
  <1>3. /\ IsPkg(Resolved(p)) /\ Resolved(p).name = NameOf(p) /\ Resolved(p).id = p.id /\ Resolved(p).path = p.path
        /\ Resolved(p).goFiles = p.goFiles /\ Resolved(p).compiled = p.compiled
        /\ DOMAIN Resolved(p).imports = DOMAIN p.imports \cup ((Imported(p) \ DOMAIN p.imports) \cap DOMAIN stdlib)
        /\ \A q \in DOMAIN Resolved(p).imports :
               Resolved(p).imports[q] = IF q \in DOMAIN p.imports THEN p.imports[q] ELSE stdlib[q]
    BY <1>1, ResolvedIs
  <1>4. DOMAIN stdlib = StdRead /\ \A q \in StdRead : stdlib[q] = Id(q) BY DEF StdlibIs
  <1>5. \A q \in DOMAIN Resolved(p).imports :
            Resolved(p).imports[q] = IF q \in DOMAIN f.imports THEN f.imports[q] ELSE Id(q)
    BY <1>1, <1>3, <1>4
  <1>6. DOMAIN Resolved(p).imports = DOMAIN f.imports \cup ((Imported(p) \ DOMAIN f.imports) \cap StdRead)
    BY <1>1, <1>3, <1>4
  <1> QED BY <1>1, <1>2, <1>3, <1>5, <1>6 DEF f, p

\* The imports of a package before any are resolved.
LEMMA FinalImports ==
    ASSUME input \in Inputs, NEW n \in Known
    PROVE  /\ \A q \in DOMAIN Final(n).imports : \E m : Final(n).imports[q] = Id(m)
           /\ n \in Read =>
                  /\ DOMAIN Final(n).imports = {input.targets[d].path : d \in Counts(input.targets[n]).deps}
                  /\ \A q \in DOMAIN Final(n).imports :
                         \E d \in Counts(input.targets[n]).deps : input.targets[d].path = q /\ Final(n).imports[q] = Id(d)
  <1>1. CASE n \in Read
    <2> DEFINE t == Counts(input.targets[n])
    <2>1. Final(n) = ToPkg(n, t) BY <1>1, FinalIs
    <2>2. Final(n).imports = [p \in {input.targets[d].path : d \in t.deps} |->
                                 Id(CHOOSE d \in t.deps : input.targets[d].path = p)]
      BY <2>1 DEF ToPkg
    <2>3. ASSUME NEW q \in DOMAIN Final(n).imports
          PROVE  \E d \in t.deps : input.targets[d].path = q /\ Final(n).imports[q] = Id(d)
      <3>1. \E d \in t.deps : input.targets[d].path = q BY <2>2
      <3> DEFINE e == CHOOSE d \in t.deps : input.targets[d].path = q
      <3>2. e \in t.deps /\ input.targets[e].path = q BY <3>1
      <3>3. Final(n).imports[q] = Id(e) BY <2>2
      <3> HIDE DEF e
      <3> QED BY <3>2, <3>3
    <2>4. DOMAIN Final(n).imports = {input.targets[d].path : d \in t.deps} BY <2>2
    <2> QED BY <1>1, <2>3, <2>4
  <1>2. CASE n \notin Read
    <2>1. Final(n) = StdPkg(n) BY <1>2, FinalIs DEF Known
    <2>2. Final(n).imports = [q \in input.std[n] |-> Id(q)] BY <2>1 DEF StdPkg
    <2> QED BY <1>2, <2>2
  <1> QED BY <1>1, <1>2

LEMMA NamedImports ==
    ASSUME input \in Inputs, StdlibIs, NEW n \in Known, NEW q \in DOMAIN Named(n).imports
    PROVE  \E m : Named(n).imports[q] = Id(m)
  <1>1. Named(n).imports[q] = IF q \in DOMAIN Final(n).imports THEN Final(n).imports[q] ELSE Id(q) BY NamedIs
  <1> QED BY <1>1, FinalImports

\* A package after the loop.
LEMMA BaseValue ==
    ASSUME input \in Inputs, Settled, NEW n \in Known
    PROVE  LET p == packagesByID[Id(n)] IN
           /\ Id(n) \in DOMAIN packagesByID /\ p.imports = Named(n).imports
           /\ Range(p.goFiles) = Stays(Final(n).goFiles, NameFor(n))
           /\ Range(p.compiled) = Stays(Pre(n).compiled, NameFor(n))
           /\ Moves(Named(n)) => IdX(n, 1) \in DOMAIN packagesByID
  <1> DEFINE q == Named(n)
  <1>1. StdlibIs /\ Id(n) \notin todo /\ BaseIs(n) BY DEF Settled
  <1>2. /\ Id(n) \in DOMAIN packagesByID /\ packagesByID[Id(n)] = Rest(q)
        /\ Moves(q) => IdX(n, 1) \in DOMAIN packagesByID
    BY <1>1 DEF BaseIs
  <1>3. IsPkg(q) /\ q.name = NameFor(n) /\ q.goFiles = Final(n).goFiles /\ q.compiled = Pre(n).compiled
    BY <1>1, NamedIs
  <1> HIDE DEF q
  <1>4. Rest(q).imports = q.imports /\ Range(Rest(q).goFiles) = Stays(q.goFiles, q.name)
        /\ Range(Rest(q).compiled) = Stays(q.compiled, q.name)
    BY <1>3, RestIs
  <1> QED BY <1>2, <1>3, <1>4 DEF q

\* The package with the external tests, visited or not.
LEMMA SplitFacts ==
    ASSUME input \in Inputs, StdlibIs, NEW n \in Known
    PROVE  /\ IsPkg(Split(n)) /\ Split(n).name = NameFor(n) + 1
           /\ Split(n).imports = Put(Named(n).imports, Final(n).path, Id(n))
           /\ Range(Split(n).goFiles) = Goes(Final(n).goFiles, NameFor(n))
           /\ Range(Split(n).compiled) = Goes(Pre(n).compiled, NameFor(n))
  <1> DEFINE q == Named(n)
  <1>1. /\ IsPkg(q) /\ q.id = Id(n) /\ q.path = Final(n).path /\ q.name = NameFor(n)
        /\ q.goFiles = Final(n).goFiles /\ q.compiled = Pre(n).compiled
    BY NamedIs
  <1> HIDE DEF q
  <1>2. /\ IsPkg(XTest(q)) /\ XTest(q).name = q.name + 1 /\ XTest(q).imports = Put(q.imports, q.path, q.id)
        /\ Range(XTest(q).goFiles) = Goes(q.goFiles, q.name) /\ Range(XTest(q).compiled) = Goes(q.compiled, q.name)
    BY <1>1, XTestIs
  <1> QED BY <1>1, <1>2 DEF q, Split

LEMMA BesideValue ==
    ASSUME input \in Inputs, Settled, NEW n \in Known, IdX(n, 1) \in DOMAIN packagesByID
    PROVE  LET p == packagesByID[IdX(n, 1)] IN
           /\ Moves(Named(n))
           /\ DOMAIN Split(n).imports \subseteq DOMAIN p.imports
           /\ \A q \in DOMAIN Split(n).imports : p.imports[q] = Split(n).imports[q]
           /\ \A q \in DOMAIN p.imports : \E m : p.imports[q] = Id(m)
           /\ Range(p.compiled) \subseteq Goes(Pre(n).compiled, NameFor(n))
           /\ NameFor(n) = 0 => /\ Range(p.goFiles) = Goes(Final(n).goFiles, 0)
                                /\ Range(p.compiled) = Goes(Pre(n).compiled, 0)
  <1> DEFINE s == Split(n)
             N == NameFor(n)
  <1>1. StdlibIs /\ BesideIs(n) BY DEF Settled
  <1>2. Moves(Named(n)) /\ (packagesByID[IdX(n, 1)] = s \/ packagesByID[IdX(n, 1)] = Again(n)) BY <1>1 DEF BesideIs
  <1>3. /\ IsPkg(s) /\ s.name = N + 1
        /\ s.imports = Put(Named(n).imports, Final(n).path, Id(n))
        /\ Range(s.goFiles) = Goes(Final(n).goFiles, N)
        /\ Range(s.compiled) = Goes(Pre(n).compiled, N)
    BY <1>1, SplitFacts
  <1>4. \A q \in DOMAIN s.imports : \E m : s.imports[q] = Id(m)
    <2> TAKE q \in DOMAIN s.imports
    <2>1. q = Final(n).path \/ q \in DOMAIN Named(n).imports BY <1>3 DEF Put
    <2>2. CASE q = Final(n).path BY <1>3, <2>2 DEF Put
    <2>3. CASE q # Final(n).path /\ q \in DOMAIN Named(n).imports
      <3>1. s.imports[q] = Named(n).imports[q] BY <1>3, <2>3 DEF Put
      <3> QED BY <1>1, <2>3, <3>1, NamedImports
    <2> QED BY <2>1, <2>2, <2>3
  <1>5. CASE packagesByID[IdX(n, 1)] = s
    <2> HIDE DEF s, N
    <2> QED BY <1>2, <1>3, <1>4, <1>5 DEF s, N
  <1>6. CASE packagesByID[IdX(n, 1)] = Again(n)
    <2> DEFINE r == Resolved(s)
    <2>0. packagesByID[IdX(n, 1)] = Rest(r) BY <1>6 DEF Again
    <2> HIDE DEF s
    <2>1. /\ IsPkg(r) /\ r.name = NameOf(s) /\ r.goFiles = s.goFiles /\ r.compiled = s.compiled
          /\ DOMAIN r.imports = DOMAIN s.imports \cup ((Imported(s) \ DOMAIN s.imports) \cap DOMAIN stdlib)
          /\ \A q \in DOMAIN r.imports : r.imports[q] = IF q \in DOMAIN s.imports THEN s.imports[q] ELSE stdlib[q]
      BY <1>3, ResolvedIs
    <2> HIDE DEF r
    <2>2. /\ Rest(r).imports = r.imports /\ Range(Rest(r).goFiles) = Stays(r.goFiles, r.name)
          /\ Range(Rest(r).compiled) = Stays(r.compiled, r.name)
      BY <2>1, RestIs
    <2>3. \A q \in DOMAIN r.imports : \E m : r.imports[q] = Id(m)
      <3> TAKE q \in DOMAIN r.imports
      <3>1. CASE q \in DOMAIN s.imports BY <1>4, <2>1, <3>1
      <3>2. CASE q \notin DOMAIN s.imports BY <1>1, <2>1, <3>2 DEF StdlibIs
      <3> QED BY <3>1, <3>2
    <2>4. Range(Rest(r).compiled) \subseteq Goes(Pre(n).compiled, N) BY <1>3, <2>1, <2>2 DEF Stays
    <2>5. ASSUME N = 0
          PROVE  Range(Rest(r).goFiles) = Range(s.goFiles) /\ Range(Rest(r).compiled) = Range(s.compiled)
      <3>1. r.name = 1 BY <1>3, <2>1, <2>5 DEF NameOf, NoName
      <3>2. ASSUME NEW files, files \in Seq(AnyFile), NEW from, Range(files) = Goes(from, 0)
            PROVE  Stays(files, 1) = Range(files)
        <4>1. ASSUME NEW f \in Range(files) PROVE f.pkg = 1
          <5>1. f \in AnyFile
            <6>1. \A i \in DOMAIN files : files[i] \in AnyFile BY <3>2
            <6> QED BY <6>1 DEF Range
          <5>2. f.pkg \in {0, 1} BY <5>1, FileIs
          <5>3. f.pkg # 0 BY <3>2 DEF Goes, IsXTest
          <5> QED BY <5>2, <5>3
        <4> QED BY <4>1 DEF Stays
      <3>3. s.goFiles \in Seq(AnyFile) /\ s.compiled \in Seq(AnyFile) BY <1>3 DEF IsPkg
      <3>4. Stays(s.goFiles, 1) = Range(s.goFiles) BY <1>3, <2>5, <3>2, <3>3
      <3>5. Stays(s.compiled, 1) = Range(s.compiled) BY <1>3, <2>5, <3>2, <3>3
      <3> QED BY <2>1, <2>2, <3>1, <3>4, <3>5
    <2>6. \A q \in DOMAIN s.imports : q \in DOMAIN r.imports /\ r.imports[q] = s.imports[q] BY <2>1
    <2> QED BY <1>2, <1>3, <2>0, <2>2, <2>3, <2>4, <2>5, <2>6 DEF s
  <1> QED BY <1>2, <1>5, <1>6

-----------------------------------------------------------------------------
(* The walk *)

LEMMA FlatIs ==
    ASSUME input \in Inputs, Settled, NEW a \in DOMAIN packagesByID, a.x \in {0, 1},
           NEW i \in Range(packagesByID[a].imports)
    PROVE  i.x = 0
  <1>1. PICK n \in Known, k \in Nat : a = IdX(n, k) BY DEF Settled, IdsAre
  <1>2. a.x = k BY <1>1, IdXIs
  <1>3. PICK q \in DOMAIN packagesByID[a].imports : i = packagesByID[a].imports[q] BY DEF Range
  <1>4. CASE k = 0
    <2>1. a = Id(n) BY <1>1, <1>4, IdXIs
    <2>2. packagesByID[a].imports = Named(n).imports BY <2>1, BaseValue
    <2>3. \E m : i = Id(m) BY <1>3, <2>2, NamedImports DEF Settled
    <2> QED BY <2>3, IdIs
  <1>5. CASE k = 1
    <2>1. \E m : i = Id(m) BY <1>1, <1>3, <1>5, BesideValue
    <2> QED BY <2>1, IdIs
  <1> QED BY <1>2, <1>4, <1>5

\* Calls of walk, with imports that are no external tests.
Flat == {i \in UNION {Range(packagesByID[a].imports) : a \in DOMAIN packagesByID} : i.x = 0}
Frames == [id : DOMAIN packagesByID, left : SUBSET Flat]

\* Every import of a package walked to is walked to, or still to be looked at.
Waiting(a, i) == \E k \in DOMAIN stack : stack[k].id = a /\ i \in stack[k].left
Followed == \A a \in acc : \A i \in Range(packagesByID[a].imports) \cap DOMAIN packagesByID : i \in acc \/ Waiting(a, i)
WalkInv ==
    pc \in {"walk", "response"} =>
        /\ todo = {} /\ roots \subseteq acc \cup rootsLeft
        /\ \A i \in roots \cup acc : i \in DOMAIN packagesByID /\ i.x \in {0, 1}
        /\ rootsLeft \subseteq roots /\ stack \in Seq(Frames) /\ Followed
        /\ pc = "response" => rootsLeft = {} /\ stack = <<>>

\* Every package that was asked for is a root, with its external tests.
RootsInv ==
    pc \in {"walk", "response"} =>
        /\ LabelsAgree =>
               \A l \in labels : l.name \in Reported /\ "package" \in input.targets[l.name].written => Id(l.name) \in roots
        /\ \A i \in DOMAIN packagesByID : i.x = 1 /\ [i EXCEPT !.x = 0] \in roots => i \in roots

\* What prints labels as they are in the files also writes them with "@".
LEMMA AtLeastIs ==
    ASSUME input \in Inputs, isAtLeast(<<6, 4, 0>>) PROVE isAtLeast(<<6, 0, 0>>)
  <1> DEFINE v == input.version
  <1>1. v \in Nat \X Nat \X Nat BY InputAssumption
  <1>2. v[1] \in Nat /\ v[2] \in Nat /\ v[3] \in Nat BY <1>1
  <1> DEFINE Least(w) == \A n \in 1..3 : (\A m \in 1..(n - 1) : v[m] = w[m]) => v[n] >= w[n]
  <1>3. \A w : isAtLeast(w) <=> (v = <<0, 0, 0>> \/ Least(w)) BY DEF isAtLeast
  <1> HIDE DEF v
  <1>4. ASSUME NEW w, Least(w)
        PROVE  v[1] >= w[1] /\ (v[1] = w[1] => v[2] >= w[2]) /\ (v[1] = w[1] /\ v[2] = w[2] => v[3] >= w[3])
    <2>1. 1..(1 - 1) = {} /\ 1..(2 - 1) = {1} /\ 1..(3 - 1) = {1, 2} OBVIOUS
    <2>2. 1 \in 1..3 /\ 2 \in 1..3 /\ 3 \in 1..3 OBVIOUS
    <2>3. (\A m \in 1..(1 - 1) : v[m] = w[m]) => v[1] >= w[1] BY <1>4, <2>2
    <2>4. (\A m \in 1..(2 - 1) : v[m] = w[m]) => v[2] >= w[2] BY <1>4, <2>2
    <2>5. (\A m \in 1..(3 - 1) : v[m] = w[m]) => v[3] >= w[3] BY <1>4, <2>2
    <2> QED BY <2>1, <2>3, <2>4, <2>5
  <1>5. Least(<<6, 4, 0>>) => Least(<<6, 0, 0>>)
    <2> SUFFICES ASSUME Least(<<6, 4, 0>>), NEW n \in 1..3, \A m \in 1..(n - 1) : v[m] = <<6, 0, 0>>[m]
                 PROVE  v[n] >= <<6, 0, 0>>[n]
      OBVIOUS
    <2>1. v[1] >= 6 /\ (v[1] = 6 => v[2] >= 4) BY <1>4
    <2>2. CASE n = 1 BY <2>1, <2>2
    <2>3. CASE n = 2 BY <1>2, <2>3
    <2>4. CASE n = 3 BY <1>2, <2>4
    <2> QED BY <2>2, <2>3, <2>4
  <1> QED BY <1>3, <1>5

LEMMA Successor == \A q \in Nat : q + 1 # 0
  OBVIOUS

\* Labels, and with "@" before them.
LabelOf(at, name) == [at |-> at, name |-> name, x |-> 0]
LEMMA AtIs ==
    \A at, name : /\ LabelOf(at, name).x = 0 /\ LabelOf(at, name).name = name /\ LabelOf(at, name).at = at
                  /\ [LabelOf(at, name) EXCEPT !.at = "@"] = LabelOf("@", name)
  BY DEF LabelOf

LEMMA MatchWalks ==
    ASSUME input \in Inputs, LabelInv, EmptyInv, VisitInv, Match PROVE WalkInv' /\ RootsInv'
  <1> DEFINE six == isAtLeast(<<6, 0, 0>>)
             spelled == {IF six /\ l.at = "" THEN [l EXCEPT !.at = "@"] ELSE l : l \in labels}
             std == IF \E l \in spelled : l.name = Stdlib THEN Range(stdlib) ELSE {}
             known == spelled \cap DOMAIN packagesByID
             xtests == {XTestID(l) : l \in known} \cap DOMAIN packagesByID
  <1>1. /\ pc = "imports" /\ todo = {} /\ pc' = "walk" /\ roots' = std \cup known \cup xtests /\ rootsLeft' = roots'
        /\ UNCHANGED <<input, labels, jsonFiles, packagesByID, stdlib, todo, stack, acc>>
    BY DEF Match
  <1>2. Settled BY <1>1 DEF VisitInv, Settled
  <1>3. stack = <<>> /\ acc = {} BY <1>1 DEF EmptyInv
  <1>4. \A l \in spelled : l.x = 0
    <2> TAKE l \in spelled
    <2>1. PICK m \in labels : l = IF six /\ m.at = "" THEN [m EXCEPT !.at = "@"] ELSE m OBVIOUS
    <2>2. \E at, name : m = LabelOf(at, name)
      <3>1. CASE m = Printed(m.name)
        <4>1. \E at : m = LabelOf(at, m.name) BY <3>1 DEF Printed, LabelOf
        <4> QED BY <4>1
      <3>2. CASE m = [Id(Stdlib) EXCEPT !.at = "@"]
        <4>1. Id(Stdlib) = LabelOf(At, Stdlib) BY DEF Id, LabelOf
        <4>2. m = LabelOf("@", Stdlib) BY <3>2, <4>1, AtIs
        <4> QED BY <4>2
      <3> QED BY <3>1, <3>2 DEF LabelInv
    <2>3. PICK at, name : m = LabelOf(at, name) BY <2>2
    <2>4. l = LabelOf(at, name) \/ l = LabelOf("@", name)
      <3> HIDE DEF six
      <3> QED BY <2>1, <2>3, AtIs
    <2>5. LabelOf(at, name).x = 0 /\ LabelOf("@", name).x = 0 BY AtIs
    <2>6. CASE l = LabelOf(at, name) BY <2>5, <2>6
    <2>7. CASE l = LabelOf("@", name) BY <2>5, <2>7
    <2> QED BY <2>4, <2>6, <2>7
  <1>5. \A i \in std : \E p \in StdRead : i = Id(p) BY <1>2 DEF Settled, StdlibIs, Range
  <1>6. ASSUME NEW l \in labels, l.name \in Reported, "package" \in input.targets[l.name].written, LabelsAgree
        PROVE  Id(l.name) \in known
    <2>1. l.name \in Read BY <1>6, HasPkgs, KnownIs
    <2>2. l.name \in DOMAIN input.targets /\ l.name \in Known /\ l.name # Stdlib BY <2>1, KnownIs DEF Known
    <2>3. l = Printed(l.name) BY <2>2 DEF LabelInv
    <2>4. Id(l.name) \in DOMAIN packagesByID BY <1>2, <2>2 DEF Settled, BaseIs
    <2>5. Id(l.name) = IF six /\ l.at = "" THEN [l EXCEPT !.at = "@"] ELSE l
      <3> DEFINE n == l.name
                 b == isAtLeast(<<6, 4, 0>>)
                 at == input.at
      <3>1. l = [at |-> IF b THEN At ELSE "", name |-> n, x |-> 0] BY <2>3 DEF Printed
      <3>2. Id(n) = [at |-> At, name |-> n, x |-> 0] /\ At = (IF six THEN at ELSE "") BY DEF Id, At
      <3>3. (b => six) /\ at \in {"@", "@@"} /\ (six /\ ~b => at = "@")
        BY <1>6, AtLeastIs, InputAssumption DEF LabelsAgree
      <3> HIDE DEF n, six, b, at
      <3>4. CASE b
        <4>1. At = at /\ l.at = at /\ at # "" BY <3>1, <3>2, <3>3, <3>4
        <4> QED BY <3>1, <3>2, <3>4, <4>1 DEF n
      <3>5. CASE ~b /\ six
        <4>1. l.at = "" /\ At = "@" BY <3>1, <3>2, <3>3, <3>5
        <4>2. l = LabelOf("", n) BY <3>1, <3>5 DEF LabelOf
        <4>3. [l EXCEPT !.at = "@"] = LabelOf("@", n) BY <4>2, AtIs
        <4>4. Id(n) = LabelOf("@", n) BY <3>2, <4>1 DEF LabelOf
        <4> QED BY <3>5, <4>1, <4>3, <4>4 DEF n
      <3>6. CASE ~b /\ ~six BY <3>1, <3>2, <3>6 DEF n
      <3> QED BY <3>4, <3>5, <3>6
    <2> QED BY <2>4, <2>5
  <1>7. \A i \in roots' : i \in DOMAIN packagesByID /\ i.x \in {0, 1}
    <2>1. ASSUME NEW i \in std PROVE i \in DOMAIN packagesByID /\ i.x = 0
      <3> HIDE DEF std
      <3>1. PICK p \in StdRead : i = Id(p) BY <1>5
      <3>2. p \in Known BY DEF Known
      <3>3. Id(p) \in DOMAIN packagesByID BY <1>2, <3>2 DEF Settled, BaseIs
      <3> QED BY <3>1, <3>3, IdIs
    <2>2. \A i \in xtests : i.x = 1
      <3> TAKE i \in xtests
      <3>1. PICK l \in known : i = XTestID(l) OBVIOUS
      <3>2. l \in DOMAIN packagesByID /\ l.x = 0 BY <1>4
      <3>3. PICK n \in Known, k \in Nat : l = IdX(n, k) BY <1>2, <3>2 DEF Settled, IdsAre
      <3>4. k = 0 BY <3>2, <3>3, IdXIs
      <3>5. i = IdX(n, 1) BY <3>1, <3>3, <3>4, IdXIs
      <3> QED BY <3>5, IdXIs
    <2> HIDE DEF std, xtests, spelled
    <2> QED BY <1>1, <1>4, <2>1, <2>2 DEF xtests
  <1>8. ASSUME NEW i \in DOMAIN packagesByID, i.x = 1, [i EXCEPT !.x = 0] \in roots' PROVE i \in roots'
    <2>1. PICK n \in Known, k \in Nat : i = IdX(n, k) /\ (k # 0 => n \in Read) BY <1>2 DEF Settled, IdsAre
    <2>2. k = 1 /\ n \in Read BY <1>8, <2>1, IdXIs
    <2>3. [i EXCEPT !.x = 0] = Id(n) BY <2>1, <2>2 DEF IdX, Id
    <2>4. Id(n) \notin std
      <3>1. n \notin StdRead BY <2>2, KnownIs
      <3> HIDE DEF std
      <3> QED BY <1>5, <3>1, IdIs
    <2>5. Id(n) \notin xtests
      <3>1. Id(n) = IdX(n, 0) BY IdXIs
      <3>2. ASSUME NEW l \in known, Id(n) = XTestID(l) PROVE FALSE
        <4>1. PICK m \in Known, j \in Nat : l = IdX(m, j) BY <1>2 DEF Settled, IdsAre
        <4>2. IdX(n, 0) = IdX(m, j + 1) BY <3>1, <3>2, <4>1, IdXIs
        <4>3. IdX(n, 0).x = 0 /\ IdX(m, j + 1).x = j + 1 BY IdXIs
        <4> QED BY <4>1, <4>2, <4>3, Successor
      <3> QED BY <3>2
    <2>6. Id(n) \in known BY <1>1, <1>8, <2>3, <2>4, <2>5
    <2>7. i = XTestID(Id(n)) BY <2>1, <2>2, IdXIs
    <2>8. i \in xtests BY <2>6, <2>7
    <2> HIDE DEF xtests
    <2> QED BY <1>1, <2>8
  <1> HIDE DEF std, known, xtests, spelled, six
  <1>9. RootsInv'
    <2>1. Reported' = Reported /\ LabelsAgree' = LabelsAgree BY <1>1, Same DEF LabelsAgree, isAtLeast
    <2>2. \A n : Id(n)' = Id(n) BY <1>1, Same
    <2>3. ASSUME LabelsAgree, NEW l \in labels, l.name \in Reported, "package" \in input.targets[l.name].written
          PROVE  Id(l.name) \in roots'
      BY <1>1, <1>6, <2>3
    <2> QED BY <1>1, <1>8, <2>1, <2>2, <2>3 DEF RootsInv
  <1>10. WalkInv'
    <2>1. <<>> \in Seq(Frames') OBVIOUS
    <2>2. Followed' BY <1>1, <1>3 DEF Followed
    <2> QED BY <1>1, <1>3, <1>7, <2>1, <2>2 DEF WalkInv
  <1> QED BY <1>9, <1>10

\* The calls of walk with another one at the end, or another state of the last.
LEMMA TopIs ==
    ASSUME NEW T, NEW s \in Seq(T), s # <<>>
    PROVE  /\ Front(s) \in Seq(T) /\ Len(s) \in Nat /\ Len(s) > 0 /\ DOMAIN s = 1..Len(s)
           /\ Last(s) = s[Len(s)] /\ Last(s) \in T
           /\ DOMAIN Front(s) = 1..(Len(s) - 1) /\ \A k \in 1..(Len(s) - 1) : Front(s)[k] = s[k]
           /\ \A e \in T : /\ Append(Front(s), e) \in Seq(T) /\ DOMAIN Append(Front(s), e) = 1..Len(s)
                           /\ Append(Front(s), e)[Len(s)] = e
                           /\ \A k \in 1..(Len(s) - 1) : Append(Front(s), e)[k] = s[k]
  <1>1. Len(s) \in Nat /\ Len(s) > 0 /\ DOMAIN s = 1..Len(s) OBVIOUS
  <1>2. Last(s) = s[Len(s)] /\ s[Len(s)] \in T BY <1>1 DEF Last
  <1> DEFINE f == Front(s)
  <1>3. f \in Seq(T) /\ Len(f) = Len(s) - 1 /\ \A k \in 1..(Len(s) - 1) : f[k] = s[k] BY <1>1 DEF Front
  <1> HIDE DEF f
  <1>4. ASSUME NEW e \in T
        PROVE  /\ Append(f, e) \in Seq(T) /\ DOMAIN Append(f, e) = 1..Len(s) /\ Append(f, e)[Len(s)] = e
               /\ \A k \in 1..(Len(s) - 1) : Append(f, e)[k] = s[k]
    <2>1. Len(f) + 1 = Len(s) BY <1>1, <1>3
    <2>2. Append(f, e) \in Seq(T) /\ Len(Append(f, e)) = Len(s) BY <1>3, <2>1
    <2>3. Append(f, e)[Len(s)] = e BY <1>3, <2>1
    <2>4. \A k \in 1..(Len(s) - 1) : Append(f, e)[k] = f[k] BY <1>1, <1>3
    <2>5. DOMAIN Append(f, e) = 1..Len(s) BY <2>2
    <2> QED BY <1>3, <2>2, <2>3, <2>4, <2>5
  <1>5. DOMAIN f = 1..(Len(s) - 1) BY <1>3
  <1> DEFINE n == Len(s)
             l == Last(s)
  <1> HIDE DEF n, l
  <1>6. /\ f \in Seq(T) /\ n \in Nat /\ n > 0 /\ DOMAIN s = 1..n /\ l = s[n] /\ l \in T /\ DOMAIN f = 1..(n - 1)
        /\ (\A k \in 1..(n - 1) : f[k] = s[k])
        /\ \A e \in T : /\ Append(f, e) \in Seq(T) /\ DOMAIN Append(f, e) = 1..n /\ Append(f, e)[n] = e
                        /\ \A k \in 1..(n - 1) : Append(f, e)[k] = s[k]
    BY <1>1, <1>2, <1>3, <1>4, <1>5 DEF n, l
  <1> QED BY <1>6 DEF f, n, l

LEMMA AppendIs ==
    ASSUME NEW T, NEW s \in Seq(T), NEW e \in T
    PROVE  /\ Append(s, e) \in Seq(T) /\ DOMAIN s = 1..Len(s) /\ Len(s) \in Nat /\ DOMAIN Append(s, e) = 1..(Len(s) + 1)
           /\ Append(s, e)[Len(s) + 1] = e /\ \A k \in 1..Len(s) : Append(s, e)[k] = s[k]
  OBVIOUS

\* A call of walk has before it what the package imports.
LEMMA FrameIs ==
    ASSUME input \in Inputs, Settled, NEW a \in DOMAIN packagesByID, a.x \in {0, 1}
    PROVE  /\ Frame(a) \in Frames /\ Frame(a).id = a /\ Frame(a).left = Range(packagesByID[a].imports)
  <1>1. Range(packagesByID[a].imports) \subseteq Flat BY FlatIs DEF Flat
  <1> DEFINE R == Range(packagesByID[a].imports)
  <1>2. Frame(a) = [id |-> a, left |-> R] BY DEF Frame
  <1> HIDE DEF R
  <1> QED BY <1>1, <1>2 DEF Frames, R

LEMMA WalkRootWalks ==
    ASSUME input \in Inputs, VisitInv, WalkInv, WalkRoot PROVE WalkInv'
  <1>1. PICK id \in rootsLeft : rootsLeft' = rootsLeft \ {id} /\ acc' = acc \cup {id} /\ stack' = <<Frame(id)>>
    BY DEF WalkRoot
  <1>2. /\ pc = "walk" /\ stack = <<>> /\ pc' = pc /\ packagesByID' = packagesByID /\ todo' = todo /\ roots' = roots
    BY DEF WalkRoot
  <1>3. /\ todo = {} /\ roots \subseteq acc \cup rootsLeft
        /\ \A i \in roots \cup acc : i \in DOMAIN packagesByID /\ i.x \in {0, 1}
        /\ rootsLeft \subseteq roots /\ stack \in Seq(Frames) /\ Followed
    BY <1>2 DEF WalkInv
  <1>4. Settled BY <1>2, <1>3 DEF Settled, VisitInv
  <1>5. id \in DOMAIN packagesByID /\ id.x \in {0, 1} BY <1>1, <1>3
  <1>6. Frame(id) \in Frames /\ Frame(id).id = id /\ Frame(id).left = Range(packagesByID[id].imports)
    BY <1>4, <1>5, FrameIs
  <1> DEFINE f == Frame(id)
  <1> HIDE DEF f
  <1>7. stack' = <<f>> /\ f \in Frames /\ f.id = id /\ f.left = Range(packagesByID[id].imports) BY <1>1, <1>6 DEF f
  <1>8. Frames' = Frames BY <1>2 DEF Frames, Flat
  <1>9. stack' \in Seq(Frames') /\ DOMAIN stack' = {1} /\ stack'[1] = f BY <1>7, <1>8
  <1>10. Followed'
    <2>1. ASSUME NEW a \in acc', NEW i \in Range(packagesByID[a].imports) \cap DOMAIN packagesByID
          PROVE  i \in acc' \/ \E k \in DOMAIN stack' : stack'[k].id = a /\ i \in stack'[k].left
      <3>1. CASE a \in acc
        <4>1. i \in acc \/ Waiting(a, i) BY <1>3, <2>1, <3>1 DEF Followed
        <4>2. ~Waiting(a, i) BY <1>2 DEF Waiting
        <4> QED BY <1>1, <4>1, <4>2
      <3>2. CASE a = id BY <1>7, <1>9, <2>1, <3>2
      <3> QED BY <1>1, <2>1, <3>1, <3>2
    <2> QED BY <1>2, <2>1 DEF Followed, Waiting
  <1> QED BY <1>1, <1>2, <1>3, <1>5, <1>9, <1>10 DEF WalkInv

\* Each turn of the loop over the imports.
LEMMA WalkWalks ==
    ASSUME input \in Inputs, EmptyInv, VisitInv, WalkInv, Walk PROVE WalkInv'
  <1> DEFINE s == stack
             top == Last(s)
             N == Len(s)
  <1>1. /\ s # <<>> /\ pc' = pc /\ packagesByID' = packagesByID /\ todo' = todo /\ roots' = roots /\ rootsLeft' = rootsLeft
    BY DEF Walk
  <1>2. pc = "walk" BY <1>1 DEF EmptyInv, WalkInv
  <1>3. /\ todo = {} /\ roots \subseteq acc \cup rootsLeft
        /\ \A i \in roots \cup acc : i \in DOMAIN packagesByID /\ i.x \in {0, 1}
        /\ rootsLeft \subseteq roots /\ s \in Seq(Frames) /\ Followed
    BY <1>2 DEF WalkInv
  <1>4. Settled BY <1>2, <1>3 DEF Settled, VisitInv
  <1>5. Frames' = Frames BY <1>1 DEF Frames, Flat
  <1>6. \/ top.left = {} /\ stack' = Front(s) /\ acc' = acc
        \/ \E i \in top.left :
              LET next == Append(Front(s), [top EXCEPT !.left = @ \ {i}]) IN
              IF i \in acc \/ i \notin DOMAIN packagesByID THEN stack' = next /\ acc' = acc
              ELSE stack' = Append(next, Frame(i)) /\ acc' = acc \cup {i}
    BY DEF Walk
  <1>7. /\ Front(s) \in Seq(Frames) /\ N \in Nat /\ N > 0 /\ DOMAIN s = 1..N /\ top = s[N] /\ top \in Frames
        /\ DOMAIN Front(s) = 1..(N - 1) /\ \A k \in 1..(N - 1) : Front(s)[k] = s[k]
    BY <1>1, <1>3, TopIs
  <1>8. \A a, i : Waiting(a, i) <=> \E k \in 1..N : s[k].id = a /\ i \in s[k].left BY <1>7 DEF Waiting
  <1>9. \A a \in acc : \A i \in Range(packagesByID[a].imports) \cap DOMAIN packagesByID : i \in acc \/ Waiting(a, i)
    BY <1>3 DEF Followed
  <1>10. SUFFICES /\ roots \subseteq acc' \cup rootsLeft
                  /\ \A i \in acc' : i \in DOMAIN packagesByID /\ i.x \in {0, 1}
                  /\ stack' \in Seq(Frames)
                  /\ \A a \in acc' : \A i \in Range(packagesByID[a].imports) \cap DOMAIN packagesByID :
                         i \in acc' \/ \E k \in DOMAIN stack' : stack'[k].id = a /\ i \in stack'[k].left
    <2>1. Followed'
      BY <1>1, <1>10 DEF Followed, Waiting
    <2> QED BY <1>1, <1>2, <1>3, <1>5, <1>10, <2>1 DEF WalkInv
  <1>11. CASE top.left = {} /\ stack' = Front(s) /\ acc' = acc
    <2>1. ASSUME NEW a, NEW i, Waiting(a, i) PROVE \E k \in DOMAIN stack' : stack'[k].id = a /\ i \in stack'[k].left
      <3>1. PICK k \in 1..N : s[k].id = a /\ i \in s[k].left BY <1>8, <2>1
      <3>2. k # N BY <1>7, <1>11, <3>1
      <3>3. k \in 1..(N - 1) BY <1>7, <3>1, <3>2
      <3> QED BY <1>7, <1>11, <3>1, <3>3
    <2> QED BY <1>3, <1>7, <1>9, <1>11, <2>1
  <1>12. CASE \E i \in top.left :
              LET next == Append(Front(s), [top EXCEPT !.left = @ \ {i}]) IN
              IF i \in acc \/ i \notin DOMAIN packagesByID THEN stack' = next /\ acc' = acc
              ELSE stack' = Append(next, Frame(i)) /\ acc' = acc \cup {i}
    <2>1. PICK i \in top.left :
              LET next == Append(Front(s), [top EXCEPT !.left = @ \ {i}]) IN
              IF i \in acc \/ i \notin DOMAIN packagesByID THEN stack' = next /\ acc' = acc
              ELSE stack' = Append(next, Frame(i)) /\ acc' = acc \cup {i}
      BY <1>12
    <2> DEFINE e == [top EXCEPT !.left = top.left \ {i}]
               next == Append(Front(s), e)
    <2>2. IF i \in acc \/ i \notin DOMAIN packagesByID THEN stack' = next /\ acc' = acc
          ELSE stack' = Append(next, Frame(i)) /\ acc' = acc \cup {i}
      BY <2>1
    <2>3. e \in Frames /\ e.id = top.id /\ e.left = top.left \ {i}
      <3> HIDE DEF s, top
      <3> QED BY <1>7 DEF Frames
    <2> HIDE DEF e
    <2>4. next \in Seq(Frames) /\ DOMAIN next = 1..N /\ next[N] = e /\ \A k \in 1..(N - 1) : next[k] = s[k]
      BY <1>1, <1>3, <2>3, TopIs
    <2> HIDE DEF next
    <2>5. ASSUME NEW a, NEW j, Waiting(a, j), j # i PROVE \E k \in 1..N : next[k].id = a /\ j \in next[k].left
      <3>1. PICK k \in 1..N : s[k].id = a /\ j \in s[k].left BY <1>8, <2>5
      <3>2. CASE k = N BY <1>7, <2>3, <2>4, <2>5, <3>1, <3>2
      <3>3. CASE k # N
        <4>1. k \in 1..(N - 1)
          <5>1. N \in Nat BY <1>7
          <5> HIDE DEF N
          <5> QED BY <3>3, <5>1
        <4> QED BY <2>4, <3>1, <4>1
      <3> QED BY <3>2, <3>3
    <2>6. CASE i \in acc \/ i \notin DOMAIN packagesByID
      <3>1. stack' = next /\ acc' = acc BY <2>2, <2>6
      <3>2. ASSUME NEW a \in acc', NEW j \in Range(packagesByID[a].imports) \cap DOMAIN packagesByID
            PROVE  j \in acc' \/ \E k \in DOMAIN stack' : stack'[k].id = a /\ j \in stack'[k].left
        <4>1. CASE j = i BY <2>6, <3>1, <3>2, <4>1
        <4>2. CASE j # i
          <5>1. j \in acc \/ Waiting(a, j) BY <1>9, <3>1, <3>2
          <5> QED BY <2>4, <2>5, <3>1, <4>2, <5>1
        <4> QED BY <4>1, <4>2
      <3> QED BY <1>3, <2>4, <3>1, <3>2
    <2>7. CASE ~(i \in acc \/ i \notin DOMAIN packagesByID)
      <3> DEFINE f == Frame(i)
      <3>1. stack' = Append(next, f) /\ acc' = acc \cup {i} BY <2>2, <2>7
      <3>2. i.x = 0
        <4>1. i \in Flat
          <5> HIDE DEF top
          <5> QED BY <1>7, <2>1 DEF Frames
        <4> QED BY <4>1 DEF Flat
      <3>3. f \in Frames /\ f.id = i /\ f.left = Range(packagesByID[i].imports) BY <1>4, <2>7, <3>2, FrameIs
      <3> HIDE DEF f
      <3>4. /\ Append(next, f) \in Seq(Frames) /\ Len(next) = N /\ DOMAIN Append(next, f) = 1..(N + 1)
            /\ Append(next, f)[N + 1] = f /\ \A k \in 1..N : Append(next, f)[k] = next[k]
        <4>1. Len(next) = N BY <1>7, <2>4
        <4>2. /\ Append(next, f) \in Seq(Frames) /\ DOMAIN Append(next, f) = 1..(Len(next) + 1)
              /\ Append(next, f)[Len(next) + 1] = f /\ \A k \in 1..Len(next) : Append(next, f)[k] = next[k]
          BY <2>4, <3>3, AppendIs
        <4> QED BY <4>1, <4>2
      <3>5. ASSUME NEW a \in acc', NEW j \in Range(packagesByID[a].imports) \cap DOMAIN packagesByID
            PROVE  j \in acc' \/ \E k \in DOMAIN stack' : stack'[k].id = a /\ j \in stack'[k].left
        <4>1. CASE j = i BY <3>1, <4>1
        <4>2. CASE a = i
          <5>1. N + 1 \in 1..(N + 1) BY <1>7
          <5> QED BY <3>1, <3>3, <3>4, <3>5, <4>2, <5>1
        <4>3. CASE j # i /\ a # i
          <5>1. a \in acc BY <3>1, <3>5, <4>3
          <5>2. j \in acc \/ Waiting(a, j) BY <1>9, <3>5, <5>1
          <5>3. CASE j \in acc BY <3>1, <5>3
          <5>4. CASE Waiting(a, j)
            <6>1. PICK k \in 1..N : next[k].id = a /\ j \in next[k].left BY <2>5, <4>3, <5>4
            <6>2. k \in 1..(N + 1) BY <1>7
            <6> QED BY <3>1, <3>4, <6>1, <6>2
          <5> QED BY <5>2, <5>3, <5>4
        <4> QED BY <4>1, <4>2, <4>3
      <3>6. \A j \in acc' : j \in DOMAIN packagesByID /\ j.x \in {0, 1} BY <1>3, <2>7, <3>1, <3>2
      <3> QED BY <1>3, <3>1, <3>4, <3>5, <3>6
    <2> QED BY <2>6, <2>7
  <1> QED BY <1>6, <1>11, <1>12

-----------------------------------------------------------------------------
(* The invariant *)

DriverInv ==
    input \in Inputs /\ LabelInv /\ EmptyInv /\ AddInv /\ VisitInv /\ WalkInv /\ RootsInv

LEMMA LabelStays ==
    ASSUME LabelInv, input' = input, labels' = labels PROVE LabelInv'
  <1>1. \A n : Printed(n)' = Printed(n) BY DEF Printed, At, isAtLeast
  <1>2. Id(Stdlib)' = Id(Stdlib) BY Same
  <1> QED BY <1>1, <1>2 DEF LabelInv

\* During the walk the registry stays as it is.
LEMMA RegistryStays ==
    ASSUME VisitInv, pc \in {"imports", "walk", "response"}, UNCHANGED <<input, labels, packagesByID, stdlib, todo>>
    PROVE  VisitInv'
  <1>1. StdlibIs /\ IdsAre /\ todo \subseteq DOMAIN packagesByID /\ \A n \in Known : BaseIs(n) /\ BesideIs(n) BY DEF VisitInv
  <1>2. /\ Known' = Known /\ Read' = Read /\ \A n, k : IdX(n, k)' = IdX(n, k)
        /\ \A n : Id(n)' = Id(n) /\ Pre(n)' = Pre(n)
    BY Same
  <1>3. \A n : Named(n)' = Named(n) /\ Split(n)' = Split(n) /\ Again(n)' = Again(n) BY SameNamed
  <1>4. StdlibIs'
    <2>1. StdRead' = StdRead BY Same
    <2> QED BY <1>1, <1>2, <2>1 DEF StdlibIs
  <1>5. IdsAre' BY <1>1, <1>2 DEF IdsAre
  <1>6. ASSUME NEW n \in Known PROVE BaseIs(n)' /\ BesideIs(n)'
    <2>1. BaseIs(n) /\ BesideIs(n) BY <1>1
    <2>2. BaseIs(n)' BY <1>2, <1>3, <2>1 DEF BaseIs
    <2>3. BesideIs(n)' BY <1>2, <1>3, <2>1 DEF BesideIs
    <2> QED BY <2>2, <2>3
  <1> QED BY <1>1, <1>2, <1>4, <1>5, <1>6 DEF VisitInv

LEMMA RootsStay ==
    ASSUME RootsInv, pc \in {"walk", "response"}, UNCHANGED <<input, labels, packagesByID, roots>>
    PROVE  RootsInv'
  <1>1. Reported' = Reported /\ LabelsAgree' = LabelsAgree BY Same DEF LabelsAgree, isAtLeast
  <1>2. \A n : Id(n)' = Id(n) BY Same
  <1> QED BY <1>1, <1>2 DEF RootsInv

LEMMA DriverInit == Init => DriverInv
  <1> SUFFICES ASSUME Init PROVE DriverInv
    OBVIOUS
  <1>1. input \in Inputs /\ LabelInv /\ EmptyInv BY DEF Init, LabelInv, EmptyInv
  <1>2. AddInv /\ VisitInv /\ WalkInv /\ RootsInv BY DEF Init, AddInv, VisitInv, WalkInv, RootsInv
  <1> QED BY <1>1, <1>2 DEF DriverInv

LEMMA DriverNext == DriverInv /\ [Next]_vars => DriverInv'
  <1> SUFFICES ASSUME DriverInv, [Next]_vars PROVE DriverInv'
    OBVIOUS
  <1>1. input \in Inputs /\ LabelInv /\ EmptyInv /\ AddInv /\ VisitInv /\ WalkInv /\ RootsInv BY DEF DriverInv
  <1>2. CASE Labels
    <2>1. /\ pc' \in {"error", "build"} /\ pc = "query"
          /\ UNCHANGED <<input, jsonFiles, packagesByID, stdlib, todo, roots, rootsLeft, stack, acc>>
      BY <1>2 DEF Labels
    <2>2. LabelInv'
      <3>0. At' = At BY <2>1 DEF At, isAtLeast
      <3>1. \A n : Printed(n)' = Printed(n) BY <2>1, <3>0 DEF Printed, isAtLeast
      <3>2. \A n : Id(n)' = Id(n) BY <3>0 DEF Id
      <3>3. CASE labels' = labels BY <1>1, <2>1, <3>3, LabelStays
      <3>4. CASE labels' # labels
        <4>1. ASSUME NEW l \in labels'
              PROVE  l = Printed(l.name) \/ (l.name = Stdlib /\ l = [Id(Stdlib) EXCEPT !.at = "@"])
          <5>1. PICK n : l = IF n = Stdlib THEN [Id(n) EXCEPT !.at = "@"] ELSE Printed(n)
            BY <1>2, <3>4, <4>1 DEF Labels
          <5> QED BY <5>1 DEF Printed, Id
        <4> QED BY <3>1, <3>2, <4>1 DEF LabelInv
      <3> QED BY <3>3, <3>4
    <2>3. EmptyInv' BY <1>1, <2>1 DEF EmptyInv
    <2>4. AddInv' /\ VisitInv' /\ WalkInv' /\ RootsInv' BY <2>1 DEF AddInv, VisitInv, WalkInv, RootsInv
    <2> QED BY <1>1, <2>1, <2>2, <2>3, <2>4 DEF DriverInv
  <1>3. CASE Build
    <2>1. /\ pc' \in {"error", "add"} /\ pc = "build"
          /\ UNCHANGED <<input, labels, packagesByID, stdlib, todo, roots, rootsLeft, stack, acc>>
      BY <1>3 DEF Build
    <2>2. AddInv' BY <1>1, <1>3, BuildAdds
    <2>3. EmptyInv' BY <1>1, <2>1 DEF EmptyInv
    <2>4. VisitInv' /\ WalkInv' /\ RootsInv' BY <2>1 DEF VisitInv, WalkInv, RootsInv
    <2> QED BY <1>1, <2>1, <2>2, <2>3, <2>4, LabelStays DEF DriverInv
  <1>4. CASE Add
    <2>1. pc' = "add" /\ pc = "add" /\ UNCHANGED <<input, labels, rootsLeft, stack, acc>>
      BY <1>4 DEF Add
    <2>2. AddInv' BY <1>1, <1>4, AddAdds
    <2>3. EmptyInv' BY <1>1, <2>1 DEF EmptyInv
    <2>4. VisitInv' /\ WalkInv' /\ RootsInv' BY <2>1 DEF VisitInv, WalkInv, RootsInv
    <2> QED BY <1>1, <2>1, <2>2, <2>3, <2>4, LabelStays DEF DriverInv
  <1>5. CASE ResolvePaths
    <2>1. pc' = "imports" /\ pc = "add" /\ UNCHANGED <<input, labels, rootsLeft, stack, acc>>
      BY <1>5 DEF ResolvePaths
    <2>2. VisitInv' BY <1>1, <1>5, ResolvePathsVisits
    <2>3. EmptyInv' BY <1>1, <2>1 DEF EmptyInv
    <2>4. AddInv' /\ WalkInv' /\ RootsInv' BY <2>1 DEF AddInv, WalkInv, RootsInv
    <2> QED BY <1>1, <2>1, <2>2, <2>3, <2>4, LabelStays DEF DriverInv
  <1>6. CASE Visit
    <2>1. pc' \in {"imports", "error"} /\ pc = "imports" /\ UNCHANGED <<input, labels, rootsLeft, stack, acc>>
      BY <1>6 DEF Visit
    <2>2. VisitInv' BY <1>1, <1>6, VisitVisits
    <2>3. EmptyInv' BY <1>1, <2>1 DEF EmptyInv
    <2>4. AddInv' /\ WalkInv' /\ RootsInv' BY <2>1 DEF AddInv, WalkInv, RootsInv
    <2> QED BY <1>1, <2>1, <2>2, <2>3, <2>4, LabelStays DEF DriverInv
  <1>7. CASE Match
    <2>1. pc' = "walk" /\ pc = "imports" /\ UNCHANGED <<input, labels, packagesByID, stdlib, todo>>
      BY <1>7 DEF Match
    <2>2. WalkInv' /\ RootsInv' BY <1>1, <1>7, MatchWalks
    <2>3. EmptyInv' BY <2>1 DEF EmptyInv
    <2>4. AddInv' BY <2>1 DEF AddInv
    <2>5. VisitInv' BY <1>1, <2>1, RegistryStays
    <2> QED BY <1>1, <2>1, <2>2, <2>3, <2>4, <2>5, LabelStays DEF DriverInv
  <1>8. CASE WalkRoot
    <2>1. pc' = "walk" /\ pc = "walk" /\ UNCHANGED <<input, labels, packagesByID, stdlib, todo, roots>>
      BY <1>8 DEF WalkRoot
    <2>2. WalkInv' BY <1>1, <1>8, WalkRootWalks
    <2>3. EmptyInv' BY <2>1 DEF EmptyInv
    <2>4. AddInv' BY <2>1 DEF AddInv
    <2>5. VisitInv' BY <1>1, <2>1, RegistryStays
    <2>6. RootsInv' BY <1>1, <2>1, RootsStay
    <2> QED BY <1>1, <2>1, <2>2, <2>3, <2>4, <2>5, <2>6, LabelStays DEF DriverInv
  <1>9. CASE Walk
    <2>1. pc' = pc /\ stack # <<>> /\ UNCHANGED <<input, labels, packagesByID, stdlib, todo, roots>>
      BY <1>9 DEF Walk
    <2>2. pc = "walk" BY <1>1, <2>1 DEF EmptyInv, WalkInv
    <2>3. WalkInv' BY <1>1, <1>9, WalkWalks
    <2>4. EmptyInv' BY <2>1, <2>2 DEF EmptyInv
    <2>5. AddInv' BY <2>1, <2>2 DEF AddInv
    <2>6. VisitInv' BY <1>1, <2>1, <2>2, RegistryStays
    <2>7. RootsInv' BY <1>1, <2>1, <2>2, RootsStay
    <2> QED BY <1>1, <2>1, <2>3, <2>4, <2>5, <2>6, <2>7, LabelStays DEF DriverInv
  <1>10. CASE Respond
    <2>1. /\ pc' = "response" /\ pc = "walk" /\ rootsLeft = {} /\ stack = <<>>
          /\ UNCHANGED <<input, labels, packagesByID, stdlib, todo, roots, rootsLeft, stack, acc>>
      BY <1>10 DEF Respond
    <2>2. EmptyInv' /\ AddInv' BY <2>1 DEF EmptyInv, AddInv
    <2>3. VisitInv' BY <1>1, <2>1, RegistryStays
    <2>4. RootsInv' BY <1>1, <2>1, RootsStay
    <2>5. WalkInv'
      <3>1. Frames' = Frames BY <2>1 DEF Frames, Flat
      <3>2. Followed' = Followed BY <2>1 DEF Followed, Waiting
      <3> QED BY <1>1, <2>1, <3>1, <3>2 DEF WalkInv
    <2> QED BY <1>1, <2>1, <2>2, <2>3, <2>4, <2>5, LabelStays DEF DriverInv
  <1>11. CASE UNCHANGED vars
    <2>1. UNCHANGED <<input, pc, labels, jsonFiles, packagesByID, stdlib, todo, roots, rootsLeft, stack, acc>>
      BY <1>11 DEF vars
    <2>2. EmptyInv' BY <1>1, <2>1 DEF EmptyInv
    <2>3. AddInv'
      <3>1. /\ Known' = Known /\ Pkgs' = Pkgs /\ StdRead' = StdRead
            /\ \A n : Id(n)' = Id(n) /\ Final(n)' = Final(n) /\ StdPkg(n)' = StdPkg(n)
        BY <2>1, Same
      <3>2. ASSUME NEW n PROVE After(jsonFiles, n)' = After(jsonFiles, n) /\ Added(n)' = Added(n)
        BY <2>1, <3>1 DEF After, Added
      <3> QED BY <1>1, <2>1, <3>1, <3>2 DEF AddInv
    <2>4. VisitInv'
      <3>1. CASE pc \in {"imports", "walk", "response"} BY <1>1, <2>1, <3>1, RegistryStays
      <3>2. CASE pc \notin {"imports", "walk", "response"} BY <2>1, <3>2 DEF VisitInv
      <3> QED BY <3>1, <3>2
    <2>5. RootsInv'
      <3>1. CASE pc \in {"walk", "response"} BY <1>1, <2>1, <3>1, RootsStay
      <3>2. CASE pc \notin {"walk", "response"} BY <2>1, <3>2 DEF RootsInv
      <3> QED BY <3>1, <3>2
    <2>6. WalkInv'
      <3>1. Frames' = Frames BY <2>1 DEF Frames, Flat
      <3>2. Followed' = Followed BY <2>1 DEF Followed, Waiting
      <3> QED BY <1>1, <2>1, <3>1, <3>2 DEF WalkInv
    <2> QED BY <1>1, <2>1, <2>2, <2>3, <2>4, <2>5, <2>6, LabelStays DEF DriverInv
  <1>12. CASE Exited BY <1>11, <1>12 DEF Exited
  <1> QED BY <1>2, <1>3, <1>4, <1>5, <1>6, <1>7, <1>8, <1>9, <1>10, <1>11, <1>12 DEF Next

\* The registry of a driver, from the files to the walk: of each name the package that counts is added,
\* visited once, and parted from its external tests; the walk leaves no import of what it has reached
\* unless it is still to be looked at.
THEOREM DriverInductive == Spec => []DriverInv
  <1>1. Init => DriverInv BY DriverInit
  <1>2. DriverInv /\ [Next]_vars => DriverInv' BY DriverNext
  <1> QED BY <1>1, <1>2, PTL DEF Spec

-----------------------------------------------------------------------------
(* What the response holds *)

\* A package of the response that is of a target.
LEMMA ReachedIs ==
    ASSUME DriverInv, pc = "response", NEW id \in acc, FromTarget(id)
    PROVE  LET n == id.name IN
           /\ Settled /\ id \in DOMAIN packagesByID /\ n \in Read /\ n \in Known
           /\ Final(n) = ToPkg(n, Target(id)) /\ IsTarget(Target(id), input.targets)
           /\ (id.x = 0 /\ id = Id(n)) \/ (id.x = 1 /\ id = IdX(n, 1))
           /\ XTestID(Id(n)) = IdX(n, 1)
  <1>1. Settled BY DEF DriverInv, VisitInv, WalkInv, Settled
  <1>2. id \in DOMAIN packagesByID /\ id.x \in {0, 1} BY DEF DriverInv, WalkInv
  <1>3. PICK m \in Known, k \in Nat : id = IdX(m, k) BY <1>1, <1>2 DEF Settled, IdsAre
  <1>4. id.name = m /\ id.x = k BY <1>3, IdXIs
  <1>5. m \in Read BY <1>4, KnownIs DEF FromTarget, Known, DriverInv
  <1>6. Final(m) = ToPkg(m, Target(id)) /\ IsTarget(Target(id), input.targets)
    <2>1. input \in Inputs /\ m \in Known /\ "package" \in input.targets[m].written BY <1>3, <1>4 DEF DriverInv, FromTarget
    <2>2. Final(m) = ToPkg(m, Counts(input.targets[m])) BY <1>5, <2>1, FinalIs
    <2>3. IsTarget(input.targets[m], input.targets) BY <1>5, <2>1, KnownIs
    <2>4. IsTarget(InternalArchive(input.targets[m]), input.targets) /\ Counts(input.targets[m]) = InternalArchive(input.targets[m])
      BY <2>1, <2>3, CountsIs
    <2> QED BY <1>4, <2>2, <2>4 DEF Target
  <1> QED BY <1>1, <1>2, <1>3, <1>4, <1>5, <1>6, IdXIs

\* The name of a package of which the first file is not of an external test: a library's, unless nothing
\* is compiled, and then there are no tests.
LEMMA NameIs ==
    ASSUME input \in Inputs, NEW n \in Read, NameFirst(Counts(input.targets[n]))
    PROVE  \/ NameFor(n) = 0
           \/ /\ Range(Pre(n).compiled) = {}
              /\ \A f \in Range(Counts(input.targets[n]).srcs) : ~f.test
  <1> DEFINE t == Counts(input.targets[n])
             c == Pre(n).compiled
  <1>1. n \in Known BY DEF Known
  <1>2. Final(n) = ToPkg(n, t) BY <1>1, FinalIs
  <1>3. Final(n).goFiles = t.srcs /\ Final(n).compiled = processCgoFiles(t) /\ Final(n).name = NoName BY <1>2 DEF ToPkg
  <1>4. c = filterSourceFilesForTags(IF processCgoFiles(t) = <<>> THEN t.srcs ELSE processCgoFiles(t))
        /\ Pre(n).name = NoName
    BY <1>1, <1>3, PreIs
  <1>5. IF c = <<>> THEN \A f \in Range(t.srcs) : ~f.test ELSE Head(c).pkg = 0
    <2> DEFINE d == filterSourceFilesForTags(IF processCgoFiles(t) = <<>> THEN t.srcs ELSE processCgoFiles(t))
    <2>1. IF d = <<>> THEN \A f \in Range(t.srcs) : ~f.test ELSE Head(d).pkg = 0 BY DEF NameFirst
    <2> HIDE DEF d, c, t
    <2>2. c = d BY <1>4 DEF d, t
    <2> QED BY <2>1, <2>2
  <1>6. NameFor(n) = IF c # <<>> THEN Head(c).pkg ELSE NoName BY <1>4 DEF NameFor, NameOf
  <1> HIDE DEF c
  <1>7. Range(<<>>) = {} BY DEF Range
  <1> QED BY <1>5, <1>6, <1>7 DEF c

\* The files compiled of a target, of which the constraints hold.
LEMMA CompiledIs ==
    ASSUME input \in Inputs, NEW n \in Read, "package" \in input.targets[n].written
    PROVE  LET t == Counts(input.targets[n])
               cgo == {f \in Range(t.srcs) : f.cgo}
           IN  /\ cgo = {} => Range(Pre(n).compiled) = {f \in Range(t.srcs) : f.match}
               /\ cgo # {} /\ t.gotypes =>
                      Range(Pre(n).compiled) = {f \in Range(t.srcs) : f.match /\ ~f.cgo} \cup Written(t)
  <1> DEFINE t == Counts(input.targets[n])
             srcs == t.srcs
             c == processCgoFiles(t)
             plain == {f \in Range(srcs) : ~f.cgo}
             cgo == {f \in Range(srcs) : f.cgo}
  <1>1. n \in Known BY DEF Known
  <1>2. Final(n) = ToPkg(n, t) BY <1>1, FinalIs
  <1>3. Final(n).goFiles = srcs /\ Final(n).compiled = c BY <1>2 DEF ToPkg
  <1>4. Range(Pre(n).compiled) = {f \in Range(IF c = <<>> THEN srcs ELSE c) : f.match} BY <1>1, <1>3, PreIs
  <1>5. IsTarget(t, input.targets)
    <2>1. IsTarget(input.targets[n], input.targets) BY KnownIs
    <2> QED BY <2>1, CountsIs
  <1>6. srcs \in Seq(Source) BY <1>5, SourcesIs
  <1>7. c \in Seq(AnyFile) /\ Range(c) = plain \cup Written(t) BY <1>6, ProcessedIs
  <1>8. t.gotypes => cgo # {} BY <1>5 DEF IsTarget
  <1>9. Range(<<>>) = {} BY DEF Range
  <1>10. cgo = {} => plain = Range(srcs) /\ Written(t) = {} BY <1>8 DEF Written
  <1>11. ASSUME t.gotypes PROVE CgoFile("_cgo_gotypes.go") \in Written(t) /\ \A f \in Written(t) : f.match
    <2>1. Written(t) = {CgoFile("_cgo_gotypes.go"), CgoFile("_cgo_imports.go")}
                       \cup {Generated(f) : f \in {g \in Range(srcs) : g.cgo /\ g.generated}}
      BY <1>11 DEF Written
    <2>2. \A f \in Range(srcs) : f \in Source
      <3>1. \A i \in DOMAIN srcs : srcs[i] \in Source BY <1>6
      <3> QED BY <3>1 DEF Range
    <2>3. \A f \in Source : Generated(f).match BY FileIs
    <2>4. \A name : CgoFile(name).match BY DEF CgoFile
    <2> QED BY <2>1, <2>2, <2>3, <2>4
  <1> HIDE DEF c, srcs, plain
  <1>12. CASE cgo = {}
    <2>1. Range(c) = Range(srcs) BY <1>7, <1>10, <1>12
    <2>2. Range(Pre(n).compiled) = {f \in Range(srcs) : f.match} BY <1>4, <2>1
    <2> QED BY <1>12, <2>2 DEF srcs
  <1>13. CASE cgo # {} /\ t.gotypes
    <2>1. c # <<>> BY <1>7, <1>9, <1>11, <1>13
    <2>2. Range(Pre(n).compiled) = {f \in plain \cup Written(t) : f.match} BY <1>4, <1>7, <2>1
    <2>3. Range(Pre(n).compiled) = {f \in Range(srcs) : f.match /\ ~f.cgo} \cup Written(t) BY <1>11, <1>13, <2>2 DEF plain
    <2> QED BY <1>13, <2>3 DEF srcs
  <1>14. CASE cgo # {} /\ ~t.gotypes BY <1>14 DEF srcs
  <1> QED BY <1>12, <1>13, <1>14

\* Whatever the order of the map and whether the loop comes to the packages it adds, every source is in the
\* target's package or in the one beside it, and no external test is left out (flatpackage.go, MoveTestFiles).
THEOREM FilesExactHolds == Spec => []FilesExact
  <1>1. ASSUME DriverInv PROVE FilesExact
    <2> SUFFICES ASSUME pc = "response", NEW id \in acc, FromTarget(id), NameFirst(Target(id))
                 PROVE  LET t == Target(id)
                            mine == {f \in Range(t.srcs) : (f.test /\ f.pkg = 1) = (id.x = 1)}
                            compiled == {f \in mine : f.match /\ ~f.cgo}
                            cgo == {f \in Range(t.srcs) : f.cgo}
                        IN  /\ id.x <= 1
                            /\ Names(Range(packagesByID[id].goFiles)) = Names(mine)
                            /\ id.x = 0 /\ (\E f \in Range(t.srcs) : f.test /\ f.pkg = 1) => XTestID(id) \in DOMAIN packagesByID
                            /\ (cgo = {} /\ \E f \in Range(t.srcs) : f.match) =>
                                   Names(Range(packagesByID[id].compiled)) = Names(compiled)
                            /\ id.x = 0 /\ cgo # {} /\ t.gotypes =>
                                   Names(Range(packagesByID[id].compiled)) =
                                       Names(compiled) \cup {"_cgo_gotypes.go", "_cgo_imports.go"}
                                           \cup {f.name \o ".cgo1.go" : f \in {c \in cgo : c.generated}}
      BY DEF FilesExact
    <2> DEFINE n == id.name
               t == Target(id)
               srcs == Range(t.srcs)
               p == packagesByID[id]
               mine == {f \in srcs : (f.test /\ f.pkg = 1) = (id.x = 1)}
               cgo == {f \in srcs : f.cgo}
               N == NameFor(n)
               made == Written(t)
               compiled == {f \in mine : f.match /\ ~f.cgo}
               names == {"_cgo_gotypes.go", "_cgo_imports.go"} \cup {f.name \o ".cgo1.go" : f \in {c \in cgo : c.generated}}
    <2>0. SUFFICES /\ id.x <= 1
                   /\ Names(Range(p.goFiles)) = Names(mine)
                   /\ id.x = 0 /\ (\E f \in srcs : f.test /\ f.pkg = 1) => XTestID(id) \in DOMAIN packagesByID
                   /\ cgo = {} => Names(Range(p.compiled)) = Names(compiled)
                   /\ id.x = 0 /\ cgo # {} /\ t.gotypes => Names(Range(p.compiled)) = Names(compiled) \cup names
      <3>1. Names(compiled) \cup names = Names(compiled) \cup {"_cgo_gotypes.go", "_cgo_imports.go"}
                                           \cup {f.name \o ".cgo1.go" : f \in {c \in cgo : c.generated}}
        <4> DEFINE a == Names(compiled)
                   b == {"_cgo_gotypes.go", "_cgo_imports.go"}
                   d == {f.name \o ".cgo1.go" : f \in {c \in cgo : c.generated}}
        <4>1. names = b \cup d OBVIOUS
        <4> HIDE DEF a, b, d, names
        <4>2. a \cup names = a \cup b \cup d BY <4>1
        <4> QED BY <4>2 DEF a, b, d
      <3> QED BY <2>0, <3>1
    <2>1. /\ Settled /\ id \in DOMAIN packagesByID /\ n \in Read /\ n \in Known
          /\ Final(n) = ToPkg(n, t) /\ IsTarget(t, input.targets)
          /\ (id.x = 0 /\ id = Id(n)) \/ (id.x = 1 /\ id = IdX(n, 1))
          /\ XTestID(Id(n)) = IdX(n, 1)
      BY <1>1, ReachedIs
    <2>2. input \in Inputs BY <1>1 DEF DriverInv
    <2>3. t = Counts(input.targets[n]) /\ "package" \in input.targets[n].written BY DEF Target, FromTarget, Counts
    <2>4. N = 0 \/ (Range(Pre(n).compiled) = {} /\ \A f \in srcs : ~f.test) BY <2>1, <2>2, <2>3, NameIs
    <2>5. /\ cgo = {} => Range(Pre(n).compiled) = {f \in srcs : f.match}
          /\ cgo # {} /\ t.gotypes => Range(Pre(n).compiled) = {f \in srcs : f.match /\ ~f.cgo} \cup made
      BY <2>1, <2>2, <2>3, CompiledIs
    <2>6. Final(n).goFiles = t.srcs BY <2>1 DEF ToPkg
    <2>7. \A f \in srcs : f \in Source /\ f.pkg \in {0, 1} /\ f.test \in BOOLEAN
      <3>1. t.srcs \in Seq(Source) BY <2>1, SourcesIs
      <3>2. \A i \in DOMAIN t.srcs : t.srcs[i] \in Source BY <3>1
      <3> QED BY <3>2 DEF Range, Source
    <2>8. ASSUME t.gotypes PROVE /\ \A f \in made : ~f.test
                                 /\ Names(made) = {"_cgo_gotypes.go", "_cgo_imports.go"}
                                       \cup {f.name \o ".cgo1.go" : f \in {c \in cgo : c.generated}}
      <3>1. made = {CgoFile("_cgo_gotypes.go"), CgoFile("_cgo_imports.go")}
                   \cup {Generated(f) : f \in {g \in srcs : g.cgo /\ g.generated}}
        BY <2>8 DEF Written
      <3>2. \A f \in srcs : Generated(f).name = f.name \o ".cgo1.go" /\ ~Generated(f).test BY <2>7, FileIs
      <3>3. \A name : CgoFile(name).name = name /\ ~CgoFile(name).test BY DEF CgoFile
      <3> HIDE DEF made, srcs
      <3>4. \A f \in made : ~f.test BY <3>1, <3>2, <3>3
      <3>5. Names(made) = {"_cgo_gotypes.go", "_cgo_imports.go"}
                          \cup {f.name \o ".cgo1.go" : f \in {g \in srcs : g.cgo /\ g.generated}}
        <4> DEFINE G == {g \in srcs : g.cgo /\ g.generated}
                   one == CgoFile("_cgo_gotypes.go")
                   two == CgoFile("_cgo_imports.go")
        <4>1. one.name = "_cgo_gotypes.go" /\ two.name = "_cgo_imports.go" BY <3>3
        <4>2. made = {one, two} \cup {Generated(f) : f \in G} BY <3>1
        <4>3. \A f \in G : Generated(f).name = f.name \o ".cgo1.go" BY <3>2
        <4> HIDE DEF G, one, two
        <4>4. Names(made) = {one.name, two.name} \cup {Generated(f).name : f \in G} BY <4>2 DEF Names
        <4>5. {Generated(f).name : f \in G} = {f.name \o ".cgo1.go" : f \in G} BY <4>3
        <4> QED BY <4>1, <4>4, <4>5 DEF G
      <3>6. {c \in cgo : c.generated} = {g \in srcs : g.cgo /\ g.generated} OBVIOUS
      <3> QED BY <3>4, <3>5, <3>6
    <2>9. CASE id.x = 0
      <3>1. id = Id(n) BY <2>1, <2>9
      <3>2. /\ Range(p.goFiles) = Stays(t.srcs, N) /\ Range(p.compiled) = Stays(Pre(n).compiled, N)
            /\ Moves(Named(n)) => IdX(n, 1) \in DOMAIN packagesByID
        BY <2>1, <2>2, <2>6, <3>1, BaseValue
      <3>3. mine = {f \in srcs : f.test => f.pkg = 0} BY <2>7, <2>9
      <3>4. Range(p.goFiles) = mine BY <2>4, <3>2, <3>3 DEF Stays
      <3>5. ASSUME NEW f \in srcs, f.test, f.pkg = 1 PROVE XTestID(id) \in DOMAIN packagesByID
        <4>1. N = 0 BY <2>4, <3>5
        <4>2. Named(n).goFiles = t.srcs /\ Named(n).name = 0 BY <2>1, <2>2, <2>6, <4>1, NamedIs DEF Settled
        <4>3. Moves(Named(n)) BY <3>5, <4>2 DEF Moves, IsXTest
        <4> QED BY <2>1, <3>1, <3>2, <4>3
      <3>6. ASSUME cgo = {} PROVE Range(p.compiled) = compiled
        <4>1. Range(p.compiled) = {f \in srcs : f.match /\ (f.test => f.pkg = N)} BY <2>5, <3>2, <3>6 DEF Stays
        <4> HIDE DEF mine, N
        <4> QED BY <2>4, <2>5, <3>3, <3>6, <4>1
      <3>7. ASSUME cgo # {}, t.gotypes PROVE Range(p.compiled) = compiled \cup made
        <4>1. Range(Pre(n).compiled) = {f \in srcs : f.match /\ ~f.cgo} \cup made BY <2>5, <3>7
        <4>2. N = 0 \/ \A f \in srcs : ~f.test BY <2>4
        <4>3. \A f \in made : ~f.test BY <2>8, <3>7
        <4> HIDE DEF mine, N, made, cgo
        <4> QED BY <3>2, <3>3, <4>1, <4>2, <4>3 DEF Stays
      <3>8. ASSUME cgo # {}, t.gotypes
            PROVE  Names(Range(p.compiled)) = Names(compiled) \cup Names(made)
        <4> HIDE DEF mine, made, p, cgo
        <4> QED BY <3>7, <3>8 DEF Names
      <3>9. cgo # {} /\ t.gotypes => Names(Range(p.compiled)) = Names(compiled) \cup names
        <4>1. t.gotypes => Names(made) = names BY <2>8
        <4>2. cgo # {} /\ t.gotypes => Names(Range(p.compiled)) = Names(compiled) \cup Names(made) BY <3>8
        <4> HIDE DEF names, compiled, made, p, cgo
        <4> QED BY <4>1, <4>2
      <3> HIDE DEF mine, cgo, p, names, compiled, srcs, t, n
      <3> QED BY <2>9, <3>4, <3>5, <3>6, <3>9
    <2>10. CASE id.x = 1
      <3>1. id = IdX(n, 1) BY <2>1, <2>10
      <3>2. /\ Moves(Named(n)) /\ N = 0 => /\ Range(p.goFiles) = Goes(t.srcs, 0)
                                           /\ Range(p.compiled) = Goes(Pre(n).compiled, 0)
            /\ Moves(Named(n))
        BY <2>1, <2>2, <2>6, <3>1, BesideValue
      <3>3. N = 0
        <4>1. ASSUME Range(Pre(n).compiled) = {}, \A f \in srcs : ~f.test PROVE FALSE
          <5>1. Named(n).goFiles = t.srcs /\ Named(n).compiled = Pre(n).compiled
            BY <2>1, <2>2, <2>6, NamedIs DEF Settled
          <5> QED BY <3>2, <4>1, <5>1 DEF Moves, IsXTest
        <4> QED BY <2>4, <4>1
      <3>4. mine = {f \in srcs : f.test /\ f.pkg # 0} BY <2>7, <2>10
      <3>5. Range(p.goFiles) = mine BY <3>2, <3>3, <3>4 DEF Goes, IsXTest
      <3>6. ASSUME cgo = {} PROVE Range(p.compiled) = compiled
        <4>1. Range(p.compiled) = {f \in srcs : f.match /\ f.test /\ f.pkg # 0} BY <2>5, <3>2, <3>3, <3>6 DEF Goes, IsXTest
        <4> QED BY <3>4, <3>6, <4>1
      <3> HIDE DEF mine, cgo, p, names, compiled, srcs, t, n
      <3> QED BY <2>10, <3>5, <3>6
    <2> QED BY <2>1, <2>9, <2>10
  <1> QED BY <1>1, DriverInductive, PTL

\* Where the imports of a target's files lead, before and after its tests are moved.
LEMMA ImportIs ==
    ASSUME DriverInv, pc = "response", NEW id \in acc, FromTarget(id),
           NEW p \in (UNION {Overlaid(f).imports : f \in Range(packagesByID[id].compiled)}) \ {"C"}
    PROVE  LET dep == {d \in Target(id).deps : input.targets[d].path = p}
               imports == packagesByID[id].imports
           IN  /\ id.name \in Known /\ StdRead = DOMAIN input.std
               /\ dep # {} => /\ p \in DOMAIN imports
                              /\ \E d \in dep : ("package" \in input.targets[d].written => d \in Known) /\ imports[p] = Id(d)
               /\ dep = {} => IF id.x = 1 /\ p = Target(id).path THEN p \in DOMAIN imports /\ imports[p] = Id(id.name)
                              ELSE p \in DOMAIN input.std => p \in DOMAIN imports /\ imports[p] = Id(p)
  <1> DEFINE n == id.name
             t == Target(id)
             dep == {d \in t.deps : input.targets[d].path = p}
             imports == packagesByID[id].imports
             named == Named(n).imports
             own == Final(n).imports
  <1>1. /\ Settled /\ id \in DOMAIN packagesByID /\ n \in Read /\ n \in Known
        /\ Final(n) = ToPkg(n, t) /\ IsTarget(t, input.targets)
        /\ (id.x = 0 /\ id = Id(n)) \/ (id.x = 1 /\ id = IdX(n, 1))
    BY ReachedIs
  <1>2. input \in Inputs /\ StdlibIs /\ t = Counts(input.targets[n]) BY <1>1 DEF DriverInv, Settled, Target, FromTarget, Counts
  <1>0. StdRead = DOMAIN input.std BY <1>1, <1>2, KnownIs
  <1>3. Range(packagesByID[id].compiled) \subseteq Range(Pre(n).compiled)
    <2>1. CASE id = Id(n) BY <1>1, <1>2, <2>1, BaseValue DEF Stays
    <2>2. CASE id = IdX(n, 1) BY <1>1, <1>2, <2>2, BesideValue DEF Goes
    <2> QED BY <1>1, <2>1, <2>2
  <1>4. p \in Imported(Pre(n)) BY <1>3 DEF Imported
  <1>5. /\ DOMAIN named = DOMAIN own \cup ((Imported(Pre(n)) \ DOMAIN own) \cap DOMAIN input.std)
        /\ \A q \in DOMAIN named : named[q] = IF q \in DOMAIN own THEN own[q] ELSE Id(q)
    BY <1>0, <1>1, <1>2, NamedIs
  <1>6. /\ DOMAIN own = {input.targets[d].path : d \in t.deps}
        /\ \A q \in DOMAIN own : \E d \in t.deps : input.targets[d].path = q /\ own[q] = Id(d)
    BY <1>1, <1>2, FinalImports
  <1>7. \A d \in t.deps : "package" \in input.targets[d].written => d \in Known
    <2>1. IsTarget(input.targets[n], input.targets) BY <1>1, <1>2, KnownIs
    <2>2. t.deps \subseteq input.targets[n].deps BY <1>2, <2>1, CountsIs
    <2> QED BY <1>1, <1>2, <2>2, HasPkgs, KnownIs DEF Known
  <1>8. Final(n).path = t.path BY <1>1 DEF ToPkg
  <1>9. \A d \in t.deps : input.targets[d].path # t.path BY <1>1 DEF IsTarget
  <1>10. \A q \in DOMAIN named : id.x = 0 \/ q # t.path => q \in DOMAIN imports /\ imports[q] = named[q]
    <2> TAKE q \in DOMAIN named
    <2>1. CASE id.x = 0
      <3>1. id = Id(n) BY <1>1, <2>1
      <3>2. imports = named BY <1>1, <1>2, <3>1, BaseValue
      <3> QED BY <3>2
    <2>2. CASE id.x = 1
      <3>1. id = IdX(n, 1) BY <1>1, <2>2
      <3>2. Split(n).imports = Put(named, t.path, Id(n)) BY <1>1, <1>2, <1>8, SplitFacts
      <3>3. DOMAIN Split(n).imports \subseteq DOMAIN imports /\ \A u \in DOMAIN Split(n).imports : imports[u] = Split(n).imports[u]
        BY <1>1, <1>2, <3>1, BesideValue
      <3>4. q # t.path => q \in DOMAIN Split(n).imports /\ Split(n).imports[q] = named[q] BY <3>2 DEF Put
      <3> QED BY <2>2, <3>3, <3>4
    <2> QED BY <1>1, <2>1, <2>2
  <1>11. id.x = 1 => t.path \in DOMAIN imports /\ imports[t.path] = Id(n)
    <2> SUFFICES ASSUME id.x = 1 PROVE t.path \in DOMAIN imports /\ imports[t.path] = Id(n)
      OBVIOUS
    <2>1. id = IdX(n, 1) BY <1>1
    <2>2. Split(n).imports = Put(named, t.path, Id(n)) BY <1>1, <1>2, <1>8, SplitFacts
    <2>3. DOMAIN Split(n).imports \subseteq DOMAIN imports /\ \A u \in DOMAIN Split(n).imports : imports[u] = Split(n).imports[u]
      BY <1>1, <1>2, <2>1, BesideValue
    <2>4. t.path \in DOMAIN Split(n).imports /\ Split(n).imports[t.path] = Id(n) BY <2>2 DEF Put
    <2> QED BY <2>3, <2>4
  <1> HIDE DEF named, own, imports, t
  <1>12. ASSUME dep # {}
         PROVE  /\ p \in DOMAIN imports
                /\ \E d \in dep : ("package" \in input.targets[d].written => d \in Known) /\ imports[p] = Id(d)
    <2>1. p \in DOMAIN own /\ p # t.path BY <1>6, <1>9, <1>12
    <2>2. p \in DOMAIN named /\ named[p] = own[p] BY <1>5, <2>1
    <2>3. PICK d \in t.deps : input.targets[d].path = p /\ own[p] = Id(d) BY <1>6, <2>1
    <2>4. d \in dep /\ ("package" \in input.targets[d].written => d \in Known) BY <1>7, <2>3
    <2> QED BY <1>10, <2>1, <2>2, <2>3, <2>4
  <1>13. ASSUME dep = {}, ~(id.x = 1 /\ p = t.path), p \in DOMAIN input.std PROVE p \in DOMAIN imports /\ imports[p] = Id(p)
    <2>1. p \notin DOMAIN own BY <1>6, <1>13
    <2>2. p \in DOMAIN named /\ named[p] = Id(p) BY <1>4, <1>5, <1>13, <2>1
    <2> QED BY <1>1, <1>10, <1>13, <2>2
  <1>14. ASSUME id.x = 1, p = t.path PROVE p \in DOMAIN imports /\ imports[p] = Id(n) BY <1>11, <1>14
  <1> HIDE DEF dep
  <1> QED BY <1>0, <1>1, <1>12, <1>13, <1>14 DEF dep, imports, t

\* Nothing that was asked for, and nothing that a package of the response imports from a dependency it was
\* compiled with, is missing from it, but for packages whose own .pkg.json could not be written
\* (packageregistry.go, Match and walk; test.bzl, _recompile_external_deps).
THEOREM ResponseCompleteHolds == Spec => []ResponseComplete
  <1>1. ASSUME DriverInv PROVE ResponseComplete
    <2> SUFFICES ASSUME pc = "response"
                 PROVE  /\ LabelsAgree => \A l \in labels :
                               l.name \in Reported /\ "package" \in input.targets[l.name].written => Id(l.name) \in roots
                        /\ roots \subseteq acc
                        /\ \A i \in DOMAIN packagesByID : i.x = 1 /\ [i EXCEPT !.x = 0] \in roots => i \in roots
                        /\ \A id \in acc : FromTarget(id) =>
                              \A p \in (UNION {Overlaid(f).imports : f \in Range(packagesByID[id].compiled)}) \ {"C"} :
                                 LET dep == {d \in Target(id).deps : input.targets[d].path = p} IN
                                 IF dep # {} THEN \E d \in dep : packagesByID[id].imports[p] = Id(d) /\ ("package" \in input.targets[d].written => Id(d) \in acc)
                                 ELSE IF id.x = 1 /\ p = Target(id).path
                                      THEN packagesByID[id].imports[p] = Id(id.name) /\ Id(id.name) \in acc
                                 ELSE p \in DOMAIN input.std => packagesByID[id].imports[p] = Id(p) /\ Id(p) \in acc
      BY DEF ResponseComplete
    <2>1. /\ LabelsAgree => \A l \in labels :
                 l.name \in Reported /\ "package" \in input.targets[l.name].written => Id(l.name) \in roots
          /\ \A i \in DOMAIN packagesByID : i.x = 1 /\ [i EXCEPT !.x = 0] \in roots => i \in roots
      BY <1>1 DEF DriverInv, RootsInv
    <2>2. roots \subseteq acc /\ stack = <<>> /\ Followed BY <1>1 DEF DriverInv, WalkInv
    <2>3. ASSUME NEW id \in acc, FromTarget(id),
                 NEW p \in (UNION {Overlaid(f).imports : f \in Range(packagesByID[id].compiled)}) \ {"C"}
          PROVE  LET dep == {d \in Target(id).deps : input.targets[d].path = p} IN
                 IF dep # {} THEN \E d \in dep : packagesByID[id].imports[p] = Id(d) /\ ("package" \in input.targets[d].written => Id(d) \in acc)
                 ELSE IF id.x = 1 /\ p = Target(id).path
                      THEN packagesByID[id].imports[p] = Id(id.name) /\ Id(id.name) \in acc
                 ELSE p \in DOMAIN input.std => packagesByID[id].imports[p] = Id(p) /\ Id(p) \in acc
      <3> DEFINE dep == {d \in Target(id).deps : input.targets[d].path = p}
                 imports == packagesByID[id].imports
      <3>1. /\ id.name \in Known /\ StdRead = DOMAIN input.std
            /\ dep # {} => /\ p \in DOMAIN imports
                           /\ \E d \in dep : ("package" \in input.targets[d].written => d \in Known) /\ imports[p] = Id(d)
            /\ dep = {} => IF id.x = 1 /\ p = Target(id).path THEN p \in DOMAIN imports /\ imports[p] = Id(id.name)
                           ELSE p \in DOMAIN input.std => p \in DOMAIN imports /\ imports[p] = Id(p)
        BY <1>1, <2>3, ImportIs
      <3>2. ASSUME p \in DOMAIN imports, NEW m \in Known, imports[p] = Id(m) PROVE Id(m) \in acc
        <4>1. Id(m) \in DOMAIN packagesByID BY <1>1 DEF DriverInv, VisitInv, BaseIs
        <4>2. Id(m) \in Range(imports) BY <3>2 DEF Range
        <4>3. ~Waiting(id, Id(m)) BY <2>2 DEF Waiting
        <4> QED BY <2>2, <4>1, <4>2, <4>3 DEF Followed
      <3>3. DOMAIN input.std \subseteq Known BY <3>1 DEF Known
      <3>4. CASE dep # {}
        <4>1. \E d \in dep : imports[p] = Id(d) /\ ("package" \in input.targets[d].written => Id(d) \in acc)
          BY <3>1, <3>2, <3>4
        <4> QED BY <3>4, <4>1
      <3>5. CASE dep = {}
        <4>1. IF id.x = 1 /\ p = Target(id).path THEN imports[p] = Id(id.name) /\ Id(id.name) \in acc
              ELSE p \in DOMAIN input.std => imports[p] = Id(p) /\ Id(p) \in acc
          BY <3>1, <3>2, <3>3, <3>5
        <4> QED BY <3>5, <4>1
      <3> QED BY <3>4, <3>5
    <2> QED BY <2>1, <2>2, <2>3
  <1> QED BY <1>1, DriverInductive, PTL
=============================================================================
