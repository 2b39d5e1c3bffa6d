-------------------------- MODULE RunfilesProofs -------------------------------
(***************************************************************************)
(* Proofs about the runfiles library, for any tree, repository mapping and *)
(* number of goroutines: Rlocation answers what the tree has               *)
(* (RlocationExact), and a goroutine that has the object for itself opens  *)
(* and lists what the tree has (OpenExact, ListExact). All rest on two     *)
(* facts about the data: the binary search in the repository mapping finds *)
(* the one prefix of a name, and a path lies below one link at most.       *)
(***************************************************************************)
EXTENDS Runfiles, FiniteSetTheorems, SequenceTheorems, WellFoundedInduction, TLAPS

-----------------------------------------------------------------------------
(* Paths *)

\* A set of places in a sequence has a last one.
LEMMA LastPlace ==
    ASSUME NEW N \in Nat, NEW P \in SUBSET (0..N), P # {}
    PROVE  \E m \in P : \A n \in P : n <= m
  <1> DEFINE R == OpToRel(<, Nat)
             T == {N - n : n \in P}
  <1>1. IsWellFoundedOn(R, Nat) BY NatLessThanWellFounded
  <1>2. T \subseteq Nat /\ T # {}
    <2>1. \A n \in P : N - n \in Nat OBVIOUS
    <2> QED BY <2>1
  <1>3. \E x \in T : \A y \in T : ~(<<y, x>> \in R)
    <2> HIDE DEF R, T
    <2> QED BY <1>1, <1>2, WFMin
  <1>4. PICK x \in T : \A y \in T : ~(<<y, x>> \in R) BY <1>3
  <1>5. \A y \in Nat : ~(<<y, x>> \in R) => x <= y BY <1>2 DEF OpToRel
  <1>6. PICK m \in P : x = N - m OBVIOUS
  <1> HIDE DEF R
  <1>7. \A n \in P : n <= m
    <2> TAKE n \in P
    <2>1. N - n \in T /\ N - n \in Nat OBVIOUS
    <2>2. x <= N - n BY <1>4, <1>5, <2>1
    <2>3. P \subseteq Nat OBVIOUS
    <2> QED BY <1>6, <2>2, <2>3
  <1> QED BY <1>7

\* The first n elements of a sequence.
LEMMA FirstOnes ==
    ASSUME NEW S, NEW p \in Seq(S), NEW n \in 0..Len(p)
    PROVE  /\ SubSeq(p, 1, n) \in Seq(S) /\ Len(SubSeq(p, 1, n)) = n
           /\ \A i \in 1..n : SubSeq(p, 1, n)[i] = p[i]
  OBVIOUS

\* Two paths agree as far as the second goes.
Agree(p, q) == Len(q) <= Len(p) /\ \A i \in 1..Len(q) : q[i] = p[i]

\* A path begins with another if they agree as far as the other goes.
LEMMA StartsAgree ==
    ASSUME NEW S, NEW p \in Seq(S), NEW q \in Seq(S)
    PROVE  Starts(p, q) <=> Agree(p, q)
  <1>1. Len(p) \in Nat /\ Len(q) \in Nat OBVIOUS
  <1>2. CASE Len(q) <= Len(p)
    <2> DEFINE r == SubSeq(p, 1, Len(q))
    <2>1. r \in Seq(S) /\ Len(r) = Len(q) /\ \A i \in 1..Len(q) : r[i] = p[i] BY <1>1, <1>2, FirstOnes
    <2> HIDE DEF r
    <2>2. r = q <=> \A i \in 1..Len(q) : q[i] = p[i] BY <2>1, SeqEqual
    <2> QED BY <1>2, <2>2 DEF Starts, Agree, r
  <1>3. CASE ~(Len(q) <= Len(p)) BY <1>3 DEF Starts, Agree
  <1> QED BY <1>2, <1>3

\* Two beginnings of one path: the shorter is a beginning of the other.
LEMMA Comparable ==
    ASSUME NEW S, NEW p \in Seq(S), NEW q \in Seq(S), NEW r \in Seq(S), Starts(p, q), Starts(p, r)
    PROVE  Starts(q, r) \/ Starts(r, q)
  <1>1. Agree(p, q) /\ Agree(p, r) BY StartsAgree
  <1>2. Agree(q, r) \/ Agree(r, q) BY <1>1 DEF Agree
  <1> QED BY <1>2, StartsAgree

\* The prefixes of a path are the nonempty paths it begins with.
LEMMA PrefixesFacts ==
    ASSUME NEW S, NEW p \in Seq(S), NEW q \in Seq(S)
    PROVE  q \in Prefixes(p) <=> q # <<>> /\ Starts(p, q)
  <1>1. ASSUME q \in Prefixes(p) PROVE q # <<>> /\ Starts(p, q)
    <2>1. PICK n \in 1..Len(p) : q = SubSeq(p, 1, n) BY <1>1 DEF Prefixes
    <2>2. Len(q) = n /\ n # 0 /\ n <= Len(p) BY <2>1, FirstOnes
    <2> QED BY <2>1, <2>2 DEF Starts
  <1>2. ASSUME q # <<>>, Starts(p, q) PROVE q \in Prefixes(p)
    <2>1. Len(q) \in 1..Len(p) BY <1>2 DEF Starts
    <2> QED BY <1>2, <2>1 DEF Starts, Prefixes
  <1> QED BY <1>1, <1>2

-----------------------------------------------------------------------------
(* The repository mapping *)

\* A mapping without bad lines, and a repository that calls are made from.
Mapping(source) ==
    /\ IsMapping(setup.lines, setup.sources) /\ setup.sources \subseteq Seq(Nat)
    /\ \A n \in DOMAIN setup.lines : setup.lines[n] # Nil
    /\ source \in setup.sources

\* The lines are well formed, their prefixes are no prefixes of each other, and no repository is
\* named like a prefix.
LEMMA LineFacts ==
    ASSUME NEW source, Mapping(source)
    PROVE  /\ Len(setup.lines) \in Nat /\ DOMAIN setup.lines = 1..Len(setup.lines)
           /\ \A n \in DOMAIN setup.lines :
                 /\ setup.lines[n].source \in Seq(Nat) /\ setup.lines[n].wild \in BOOLEAN
                 /\ setup.lines[n].dir # NoRepo
           /\ WildPrefixes \subseteq Seq(Nat)
           /\ \A p, q \in WildPrefixes : Starts(p, q) => p = q
           /\ source \in Seq(Nat) /\ source \notin WildPrefixes
  <1> DEFINE good == {setup.lines[n] : n \in DOMAIN setup.lines} \ {Nil}
             wild == {l \in good : l.wild}
  <1>1. /\ Len(setup.lines) \in Nat /\ setup.lines = [n \in 1..Len(setup.lines) |-> setup.lines[n]]
        /\ \A l \in good : l.source \in Seq(Nat) /\ l.wild \in BOOLEAN /\ l.dir # NoRepo
        /\ \A l, m \in wild : Starts(l.source, m.source) => l.source = m.source
        /\ \A l \in wild : l.source \notin setup.sources
    BY DEF Mapping, IsMapping
  <1>2. \A n \in DOMAIN setup.lines : setup.lines[n] \in good BY DEF Mapping
  <1> HIDE DEF good
  <1>3. \A p \in WildPrefixes : \E l \in wild : l.source = p BY <1>2 DEF WildPrefixes
  <1> HIDE DEF wild
  <1>4. DOMAIN setup.lines = 1..Len(setup.lines) BY <1>1
  <1>5. WildPrefixes \subseteq Seq(Nat) BY <1>1, <1>3 DEF wild
  <1>6. \A n \in DOMAIN setup.lines : /\ setup.lines[n].source \in Seq(Nat) /\ setup.lines[n].wild \in BOOLEAN
                                      /\ setup.lines[n].dir # NoRepo
    BY <1>1, <1>2
  <1>7. \A p, q \in WildPrefixes : Starts(p, q) => p = q BY <1>1, <1>3
  <1>8. source \in Seq(Nat) /\ source \in setup.sources BY DEF Mapping
  <1>9. source \notin WildPrefixes BY <1>1, <1>3, <1>8
  <1> QED BY <1>1, <1>4, <1>5, <1>6, <1>7, <1>8, <1>9

\* A name has no two prefixes, and the one before the place of the binary search is a prefix if any is.
LEMMA OnePrefix ==
    ASSUME NEW source, Mapping(source)
    PROVE  PrefixFor(source) = {p \in WildPrefixes : Starts(source, p)}
  <1> SUFFICES ASSUME NEW p \in WildPrefixes, Starts(source, p)
               PROVE  /\ Less(p, source)
                      /\ \A q \in WildPrefixes : Less(q, source) => q = p \/ Less(q, p)
    BY DEF PrefixFor
  <1>1. /\ WildPrefixes \subseteq Seq(Nat) /\ source \in Seq(Nat) /\ source \notin WildPrefixes
        /\ \A q, r \in WildPrefixes : Starts(q, r) => q = r
    BY LineFacts
  <1>2. p \in Seq(Nat) /\ Agree(source, p) /\ Len(p) \in Nat /\ Len(source) \in Nat BY <1>1, StartsAgree
  <1>3. Less(p, source)
    <2>1. Len(p) # Len(source)
      <3> SUFFICES ASSUME Len(p) = Len(source) PROVE p = source
        BY <1>1
      <3>1. \A i \in 1..Len(p) : p[i] = source[i] BY <1>2 DEF Agree
      <3> QED BY <1>1, <1>2, <3>1, SeqEqual
    <2>2. Len(p) < Len(source) BY <1>2, <2>1 DEF Agree
    <2>3. SubSeq(p, 1, Len(p)) = p BY <1>2
    <2>4. Starts(source, SubSeq(p, 1, Len(p))) BY <2>3
    <2>5. Len(p) \in 0..Len(p) BY <1>2
    <2> QED BY <2>2, <2>4, <2>5 DEF Less
  <1>4. ASSUME NEW q \in WildPrefixes, Less(q, source), q # p PROVE Less(q, p)
    <2>1. q \in Seq(Nat) /\ Len(q) \in Nat BY <1>1
    <2>2. PICK n \in 0..Len(q) :
             /\ Starts(source, SubSeq(q, 1, n))
             /\ IF n = Len(q) THEN n < Len(source) ELSE n < Len(source) /\ q[n + 1] < source[n + 1]
      BY <1>4 DEF Less
    <2> DEFINE r == SubSeq(q, 1, n)
    <2>3. r \in Seq(Nat) /\ Len(r) = n /\ \A i \in 1..n : r[i] = q[i] BY <2>1, FirstOnes
    <2> HIDE DEF r
    <2>4. Agree(source, r) BY <1>1, <2>2, <2>3, StartsAgree DEF r
    <2>5. \A i \in 1..n : q[i] = source[i] BY <2>3, <2>4 DEF Agree
    <2>6. n # Len(q)
      <3> SUFFICES ASSUME n = Len(q) PROVE FALSE
        OBVIOUS
      <3>1. Agree(source, q) BY <2>1, <2>2, <2>5 DEF Agree
      <3>2. Starts(source, q) BY <1>1, <2>1, <3>1, StartsAgree
      <3>3. Starts(p, q) \/ Starts(q, p) BY <1>1, <1>2, <2>1, <3>2, Comparable
      <3> QED BY <1>1, <1>4, <3>3
    <2>7. n < Len(p)
      <3> SUFFICES ASSUME Len(p) <= n PROVE FALSE
        BY <1>2
      <3>1. \A i \in 1..Len(p) : p[i] = q[i] BY <1>2, <2>5 DEF Agree
      <3>2. Agree(q, p) BY <1>2, <2>1, <3>1 DEF Agree
      <3>3. Starts(q, p) BY <1>2, <2>1, <3>2, StartsAgree
      <3> QED BY <1>1, <1>4, <3>3
    <2>8. q[n + 1] < p[n + 1]
      <3>1. n + 1 \in 1..Len(p) BY <1>2, <2>7
      <3>2. p[n + 1] = source[n + 1] BY <1>2, <3>1 DEF Agree
      <3> QED BY <2>2, <2>6, <3>2
    <2>9. Starts(p, r)
      <3>1. \A i \in 1..n : p[i] = source[i] BY <1>2, <2>7 DEF Agree
      <3>2. Agree(p, r) BY <1>2, <2>3, <2>5, <2>7, <3>1 DEF Agree
      <3> QED BY <1>2, <2>3, <3>2, StartsAgree
    <2> QED BY <2>2, <2>6, <2>7, <2>8, <2>9 DEF Less, r
  <1> QED BY <1>3, <1>4

\* The lookup in the repository mapping follows the lines.
LEMMA GetLeads ==
    ASSUME NEW source, Mapping(source), NEW to
    PROVE  Get(source, to) = Leads(source, to)
  <1> DEFINE L(n) == setup.lines[n]
             ns == {n \in DOMAIN setup.lines : Applies(setup.lines[n], source, to)}
             exact == {n \in ns : ~setup.lines[n].wild}
             few == UNION {LinesFor(TRUE, p, to) : p \in PrefixFor(source)}
  <1>1. /\ Len(setup.lines) \in Nat /\ DOMAIN setup.lines = 1..Len(setup.lines)
        /\ \A n \in DOMAIN setup.lines : setup.lines[n].wild \in BOOLEAN /\ setup.lines[n].dir # NoRepo
    BY LineFacts
  <1>2. exact = LinesFor(FALSE, source, to) BY <1>1 DEF LinesFor, Applies
  <1>3. exact # {} => DirOf(exact) # NoRepo
    <2> SUFFICES ASSUME exact # {} PROVE DirOf(exact) # NoRepo
      OBVIOUS
    <2>1. exact \in SUBSET (0..Len(setup.lines)) BY <1>1
    <2> HIDE DEF exact
    <2>2. \E m \in exact : \A n \in exact : n <= m BY <1>1, <2>1, LastPlace
    <2> DEFINE m == CHOOSE n \in exact : \A k \in exact : k <= n
    <2>3. m \in exact BY <2>2
    <2>4. DirOf(exact) = setup.lines[m].dir BY DEF DirOf
    <2>5. m \in DOMAIN setup.lines BY <2>3 DEF exact
    <2> HIDE DEF m
    <2> QED BY <1>1, <2>4, <2>5
  <1>4. ns = exact \cup few
    <2>1. PrefixFor(source) = {p \in WildPrefixes : Starts(source, p)} BY OnePrefix
    <2>2. \A n \in DOMAIN setup.lines :
             setup.lines[n].wild => (n \in ns <=> setup.lines[n].to = to /\ Starts(source, setup.lines[n].source))
      BY DEF Applies
    <2>3. \A n : n \in few <=> /\ n \in DOMAIN setup.lines /\ setup.lines[n].wild = TRUE /\ setup.lines[n].to = to
                               /\ setup.lines[n].source \in PrefixFor(source)
      BY DEF LinesFor
    <2>4. \A n \in DOMAIN setup.lines : setup.lines[n].wild => setup.lines[n].source \in WildPrefixes
      BY DEF WildPrefixes
    <2>5. \A n \in DOMAIN setup.lines : setup.lines[n].wild => (n \in ns <=> n \in few)
      <3> HIDE DEF ns, few
      <3> QED BY <1>1, <2>1, <2>2, <2>3, <2>4
    <2>6. \A n \in DOMAIN setup.lines : ~setup.lines[n].wild => (n \in ns <=> n \in exact) /\ n \notin few
      <3> HIDE DEF few
      <3> QED BY <2>3
    <2>7. ns \subseteq DOMAIN setup.lines /\ exact \subseteq ns /\ few \subseteq DOMAIN setup.lines
      <3> HIDE DEF few
      <3> QED BY <2>3
    <2>8. \A n \in exact : ~setup.lines[n].wild OBVIOUS
    <2> HIDE DEF ns, exact, few
    <2> QED BY <2>5, <2>6, <2>7
  <1>5. Leads(source, to) = DirOf(IF exact # {} THEN exact ELSE ns) BY DEF Leads
  <1>6. /\ ExactDir(source, to) = DirOf(exact) /\ PrefixDir(source, to) = DirOf(few) BY <1>2 DEF ExactDir, PrefixDir
  <1>7. DirOf({}) = NoRepo BY DEF DirOf
  <1> HIDE DEF ns, exact, few
  <1>8. CASE exact # {} BY <1>3, <1>5, <1>6, <1>8 DEF Get
  <1>9. CASE exact = {}
    <2>1. ns = few BY <1>4, <1>9
    <2> QED BY <1>5, <1>6, <1>7, <1>9, <2>1 DEF Get
  <1> QED BY <1>8, <1>9

\* Hence a path is mapped to the place in the tree that it leads to.
LEMMA MappedInTree ==
    ASSUME NEW source, Mapping(source), NEW p
    PROVE  Mapped(source, p) = InTree(source, p)
  BY GetLeads DEF Mapped, InTree

-----------------------------------------------------------------------------
(* The links of the tree *)

\* The keys of the manifest are paths, and none lies below another.
Links ==
    /\ DOMAIN setup.index \subseteq Path
    /\ \A j, k \in DOMAIN setup.index : Starts(j, k) => j = k

\* Every path begins with itself.
LEMMA StartsSelf ==
    ASSUME NEW S, NEW m \in Seq(S)
    PROVE  Starts(m, m)
  BY DEF Starts

\* The keys are sequences over whatever the segments belong to.
LEMMA KeyFacts ==
    ASSUME Links, NEW S, Segment \subseteq S, NEW k \in DOMAIN setup.index
    PROVE  k \in Seq(S) /\ k # <<>>
  <1>1. k \in Seq(Segment) /\ k # <<>> BY DEF Links, Path
  <1>2. Len(k) \in Nat /\ k = [i \in 1..Len(k) |-> k[i]] /\ \A i \in 1..Len(k) : k[i] \in Segment BY <1>1
  <1>3. k \in Seq(S) BY <1>2
  <1> QED BY <1>1, <1>3

\* A path begins with one key at most.
LEMMA OneLink ==
    ASSUME Links, NEW S, Segment \subseteq S, NEW m \in Seq(S),
           NEW k \in DOMAIN setup.index, Starts(m, k)
    PROVE  \A j \in DOMAIN setup.index : Starts(m, j) => j = k
  <1> SUFFICES ASSUME NEW j \in DOMAIN setup.index, Starts(m, j) PROVE j = k
    OBVIOUS
  <1>1. k \in Seq(S) /\ j \in Seq(S) BY KeyFacts
  <1>2. Starts(j, k) \/ Starts(k, j) BY <1>1, Comparable
  <1> QED BY <1>2 DEF Links

\* manifest.path answers the link a path lies below, if there is one.
LEMMA ManifestFacts ==
    ASSUME Links, NEW S, Segment \subseteq S, NEW m \in Seq(S)
    PROVE  /\ (\A k \in DOMAIN setup.index : ~Starts(m, k)) => ManifestPath(m) = <<NotExist>>
           /\ \A k \in DOMAIN setup.index : Starts(m, k) =>
                 ManifestPath(m) = IF k = m /\ setup.index[k] = Empty THEN <<"empty">>
                                   ELSE <<setup.index[k], Rest(m, k)>>
  <1>1. \A k \in DOMAIN setup.index : k \in Prefixes(m) <=> Starts(m, k)
    <2> TAKE k \in DOMAIN setup.index
    <2>1. k \in Seq(S) /\ k # <<>> BY KeyFacts
    <2> QED BY <2>1, PrefixesFacts
  <1>2. ASSUME \A k \in DOMAIN setup.index : ~Starts(m, k) PROVE ManifestPath(m) = <<NotExist>>
    <2>1. Listed(m) = {} BY <1>1, <1>2 DEF Listed
    <2> QED BY <2>1 DEF ManifestPath
  <1>3. ASSUME NEW k \in DOMAIN setup.index, Starts(m, k)
        PROVE  ManifestPath(m) = IF k = m /\ setup.index[k] = Empty THEN <<"empty">>
                                 ELSE <<setup.index[k], Rest(m, k)>>
    <2>1. \A j \in DOMAIN setup.index : Starts(m, j) => j = k BY <1>3, OneLink
    <2>2. DOMAIN setup.index \cap Prefixes(m) = {k} BY <1>1, <1>3, <2>1
    <2>3. Len(k) \in Nat
      <3>1. k \in Seq(S) BY KeyFacts
      <3> QED BY <3>1
    <2>4. Listed(m) = {k} BY <2>2, <2>3 DEF Listed
    <2>5. (CHOOSE x \in Listed(m) : TRUE) = k BY <2>4
    <2>6. Listed(m) # {} BY <2>4
    <2> HIDE DEF Listed, Rest, Starts, Prefixes
    <2> QED BY <2>5, <2>6 DEF ManifestPath
  <1> QED BY <1>2, <1>3

\* The nonempty paths that keys begin with: what the trie holds in the end.
Full == UNION {Prefixes(k) : k \in DOMAIN setup.index}

\* The tree has at a path what the link above it leads to, or a directory that keys lie below.
LEMMA TreeFacts ==
    ASSUME Links, NEW S, Segment \subseteq S, NEW m \in Seq(S)
    PROVE  /\ \A k \in DOMAIN setup.index : Starts(m, k) =>
                 TreeKind(m) = IF k = m /\ setup.index[k] = Empty THEN "file"
                               ELSE OSKind(setup.index[k], Rest(m, k))
           /\ m # <<>> /\ (\A k \in DOMAIN setup.index : ~Starts(m, k)) =>
                 TreeKind(m) = IF m \in Full THEN "dir" ELSE NotExist
  <1> DEFINE links == {k \in DOMAIN setup.index : Starts(m, k)}
  <1>0. Starts(m, m) BY StartsSelf
  <1>1. ASSUME NEW k \in DOMAIN setup.index, Starts(m, k)
        PROVE  TreeKind(m) = IF k = m /\ setup.index[k] = Empty THEN "file"
                             ELSE OSKind(setup.index[k], Rest(m, k))
    <2>1. \A j \in DOMAIN setup.index : Starts(m, j) => j = k BY <1>1, OneLink
    <2>2. links = {k} BY <1>1, <2>1
    <2>3. (CHOOSE x \in links : TRUE) = k BY <2>2
    <2>4. m \in DOMAIN setup.index => k = m BY <1>0, <2>1
    <2>5. links # {} BY <2>2
    <2>6. TreeKind(m) = IF m \in DOMAIN setup.index /\ setup.index[m] = Empty THEN "file"
                        ELSE IF links # {} THEN OSKind(setup.index[CHOOSE x \in links : TRUE],
                                                       Rest(m, CHOOSE x \in links : TRUE))
                        ELSE IF m = <<>> \/ \E j \in DOMAIN setup.index : Below(j, m) THEN "dir" ELSE NotExist
      BY DEF TreeKind
    <2> HIDE DEF links
    <2>7. TreeKind(m) = IF m \in DOMAIN setup.index /\ setup.index[m] = Empty THEN "file"
                        ELSE OSKind(setup.index[k], Rest(m, k))
      BY <2>3, <2>5, <2>6
    <2>8. m \in DOMAIN setup.index /\ setup.index[m] = Empty <=> k = m /\ setup.index[k] = Empty
      BY <1>1, <2>4
    <2> QED BY <2>7, <2>8
  <1>2. ASSUME m # <<>>, \A k \in DOMAIN setup.index : ~Starts(m, k)
        PROVE  TreeKind(m) = IF m \in Full THEN "dir" ELSE NotExist
    <2>1. links = {} BY <1>2
    <2>2. m \notin DOMAIN setup.index BY <1>0, <1>2
    <2>3. \A k \in DOMAIN setup.index : Below(k, m) <=> m \in Prefixes(k)
      <3> TAKE k \in DOMAIN setup.index
      <3>1. k \in Seq(S) BY KeyFacts
      <3>2. m \in Prefixes(k) <=> Starts(k, m) BY <1>2, <3>1, PrefixesFacts
      <3>3. ASSUME Starts(k, m) PROVE Len(k) > Len(m)
        <4>1. Len(m) <= Len(k) /\ SubSeq(k, 1, Len(m)) = m BY <3>3 DEF Starts
        <4>2. Len(k) \in Nat /\ Len(m) \in Nat BY <3>1
        <4>3. Len(k) # Len(m)
          <5> SUFFICES ASSUME Len(k) = Len(m) PROVE FALSE
            OBVIOUS
          <5>1. SubSeq(k, 1, Len(k)) = k BY <3>1
          <5>2. k = m BY <4>1, <5>1
          <5> QED BY <1>0, <1>2, <5>2
        <4> QED BY <4>1, <4>2, <4>3
      <3> QED BY <3>2, <3>3 DEF Below
    <2>4. m \in Full <=> \E k \in DOMAIN setup.index : Below(k, m) BY <2>3 DEF Full
    <2> QED BY <1>2, <2>1, <2>2, <2>4 DEF TreeKind
  <1> QED BY <1>1, <1>2

\* Where a path leads is a path, though the directory of a repository may be no segment of one.
LEMMA MappedPath ==
    ASSUME NEW source, NEW p \in Path
    PROVE  /\ InTree(source, p) \in Seq(Segment \cup {Leads(source, p[1])})
           /\ InTree(source, p) # <<>>
  <1> DEFINE d == Leads(source, p[1])
             S == Segment \cup {d}
  <1>1. p \in Seq(Segment) /\ p # <<>> BY DEF Path
  <1> HIDE DEF d
  <1>2. p \in Seq(S)
    <2>1. Len(p) \in Nat /\ p = [i \in 1..Len(p) |-> p[i]] /\ \A i \in 1..Len(p) : p[i] \in Segment BY <1>1
    <2> QED BY <2>1
  <1>3. Tail(p) \in Seq(S) BY <1>1, <1>2
  <1>4. <<d>> \in Seq(S) /\ Len(<<d>>) = 1 OBVIOUS
  <1>5. <<d>> \o Tail(p) \in Seq(S) /\ Len(<<d>> \o Tail(p)) = 1 + Len(Tail(p)) /\ Len(Tail(p)) \in Nat
    BY <1>3, <1>4
  <1>6. <<d>> \o Tail(p) # <<>> BY <1>5
  <1> QED BY <1>1, <1>2, <1>5, <1>6 DEF InTree, d

-----------------------------------------------------------------------------
(* The invariant *)

IsCall(c) ==
    c = [op |-> c.op, source |-> c.source, name |-> c.name, mapped |-> c.mapped, answer |-> c.answer]

TypeInv ==
    /\ setup \in Setups
    /\ DOMAIN call = Goroutine /\ DOMAIN pc = Goroutine /\ DOMAIN todo = Goroutine
    /\ \A g \in Goroutine : IsCall(call[g])

\* Calls are made once New has found an object, which has read the whole repository mapping.
ObjectInv ==
    /\ object \in {"new", "zero", "manifest", "directory", "error"}
    /\ object \in {"new", "error"} =>
          \A g \in Goroutine : call[g].op = "none" /\ pc[g] = "idle" /\ handle[g] = Nil
    /\ object = "new" => trie = Nil
    /\ object \in {"manifest", "directory"} => \A n \in DOMAIN setup.lines : setup.lines[n] # Nil

\* What Rlocation answered it would answer again.
RlocInv ==
    \A g \in Goroutine : call[g].op = "rlocation" =>
        \E s \in setup.sources, p \in setup.paths :
            call[g].source = s /\ call[g].name = p /\ call[g].answer = RlocationOf(s, p)

Found(s, n) == TreeKind(InTree(s, n))
NotListed(s, n) == \A k \in DOMAIN setup.index : ~Starts(InTree(s, n), k)

Alone(g) == setup.users = {g}

\* The trie of a single user is missing, complete, or complete but for the keys still to do.
TrieInv ==
    \A g \in Goroutine : Alone(g) =>
        /\ pc[g] \notin {"make", "build"} => trie \in {Nil, Full}
        /\ pc[g] = "build" => trie \cup UNION {Prefixes(k) : k \in todo[g]} = Full
        /\ pc[g] = "lookup" => trie = Full

\* What an open has answered is in the tree; one that looks at the trie has asked for a path
\* that the manifest does not list.
OpenInv ==
    \A g \in Goroutine : Alone(g) /\ call[g].op = "open" =>
        /\ call[g].answer # Nil /\ call[g].name # <<".">> /\ object # "zero" =>
              \E s \in setup.sources, n \in setup.names :
                  call[g].source = s /\ call[g].name = n /\ call[g].answer = Found(s, n)
        /\ pc[g] # "idle" =>
              /\ object = "manifest"
              /\ \E s \in setup.sources, n \in setup.names :
                    /\ call[g].source = s /\ call[g].name = n
                    /\ call[g].mapped = InTree(s, n) /\ NotListed(s, n)

Inv == TypeInv /\ ObjectInv /\ RlocInv /\ TrieInv /\ OpenInv

-----------------------------------------------------------------------------
(* Steps that leave the surroundings or a call alone *)

\* What a path leads to depends on the surroundings alone.
LEMMA SameTree ==
    ASSUME setup' = setup
    PROVE  /\ \A s, n : Found(s, n)' = Found(s, n)
           /\ \A s, n : InTree(s, n)' = InTree(s, n)
           /\ \A s, n : NotListed(s, n)' = NotListed(s, n)
           /\ Full' = Full
           /\ \A g : Alone(g)' = Alone(g)
  <1>1. \A s, n : InTree(s, n)' = InTree(s, n) BY DEF InTree, Leads, DirOf
  <1>2. \A s, n : Found(s, n)' = Found(s, n) BY DEF Found, TreeKind, OSKind, InTree, Leads, DirOf
  <1>3. \A s, n : NotListed(s, n)' = NotListed(s, n) BY DEF NotListed, InTree, Leads, DirOf
  <1>4. Full' = Full BY DEF Full
  <1>5. \A g : Alone(g)' = Alone(g) BY DEF Alone
  <1> QED BY <1>1, <1>2, <1>3, <1>4, <1>5

\* And on the kind of the object.
LEMMA SameAnswer ==
    ASSUME setup' = setup, object' = object
    PROVE  \A s, p : RlocationOf(s, p)' = RlocationOf(s, p)
  BY DEF RlocationOf, Locate, ManifestPath, Listed, DirectoryPath, Mapped, Get, ExactDir, PrefixDir, LinesFor,
         PrefixFor, WildPrefixes, DirOf

\* What the invariant says of one call while the object stays as it is.
CallInv(g) ==
    /\ call[g].op = "rlocation" => \E s \in setup.sources, p \in setup.paths :
          call[g].source = s /\ call[g].name = p /\ call[g].answer = RlocationOf(s, p)
    /\ Alone(g) /\ call[g].op = "open" =>
        /\ call[g].answer # Nil /\ call[g].name # <<".">> /\ object # "zero" =>
              \E s \in setup.sources, n \in setup.names :
                  call[g].source = s /\ call[g].name = n /\ call[g].answer = Found(s, n)
        /\ pc[g] # "idle" =>
              /\ object = "manifest"
              /\ \E s \in setup.sources, n \in setup.names :
                    /\ call[g].source = s /\ call[g].name = n
                    /\ call[g].mapped = InTree(s, n) /\ NotListed(s, n)

\* The invariant about calls is one about each of them.
LEMMA ByCall == (RlocInv /\ OpenInv) <=> \A g \in Goroutine : CallInv(g)
  BY DEF RlocInv, OpenInv, CallInv

\* A call that a step does not touch stays right.
LEMMA SameCall ==
    ASSUME NEW g, setup' = setup, object' = object, call[g]' = call[g],
           pc[g]' = pc[g] \/ pc[g] # "idle" \/ pc[g]' = "idle" \/ call[g].op # "open",
           CallInv(g)
    PROVE  CallInv(g)'
  <1>1. \A s, p : RlocationOf(s, p)' = RlocationOf(s, p) BY SameAnswer
  <1>2. /\ \A s, n : Found(s, n)' = Found(s, n)
        /\ \A s, n : InTree(s, n)' = InTree(s, n)
        /\ \A s, n : NotListed(s, n)' = NotListed(s, n)
        /\ Alone(g)' = Alone(g)
    BY SameTree
  <1> QED BY <1>1, <1>2 DEF CallInv

\* A setup of the model gives what the proofs use.
LEMMA SetupFacts ==
    ASSUME TypeInv
    PROVE  /\ Links /\ IsMapping(setup.lines, setup.sources) /\ setup.sources \subseteq Seq(Nat)
           /\ setup.users \subseteq Goroutine /\ IsFiniteSet(setup.users)
           /\ setup.names \subseteq Path /\ setup.paths \subseteq Path
  <1>1. IsSetup(setup) BY SetupAssumption DEF TypeInv
  <1> QED BY <1>1 DEF IsSetup, Links

\* Answering replaces the call of one goroutine.
LEMMA AnswerFacts ==
    ASSUME TypeInv, NEW g \in Goroutine, NEW op, NEW s, NEW n, NEW m, NEW a, Answer(g, op, s, n, m, a)
    PROVE  /\ DOMAIN call' = Goroutine
           /\ call'[g] = [op |-> op, source |-> s, name |-> n, mapped |-> m, answer |-> a]
           /\ IsCall(call'[g])
           /\ \A h \in Goroutine \ {g} : call'[h] = call[h]
  <1> DEFINE c == [op |-> op, source |-> s, name |-> n, mapped |-> m, answer |-> a]
  <1>1. call' = [call EXCEPT ![g] = c] BY DEF Answer
  <1>2. IsCall(c) BY DEF IsCall
  <1> HIDE DEF c
  <1>3. DOMAIN call' = Goroutine /\ call'[g] = c /\ \A h \in Goroutine \ {g} : call'[h] = call[h]
    BY <1>1 DEF TypeInv
  <1> QED BY <1>2, <1>3 DEF c

\* Answering later changes the answer only.
LEMMA AnsweredFacts ==
    ASSUME TypeInv, NEW g \in Goroutine, NEW a, Answered(g, a)
    PROVE  /\ DOMAIN call' = Goroutine
           /\ call'[g] = [op |-> call[g].op, source |-> call[g].source, name |-> call[g].name,
                          mapped |-> call[g].mapped, answer |-> a]
           /\ IsCall(call'[g])
           /\ \A h \in Goroutine \ {g} : call'[h] = call[h]
  <1>1. call' = [call EXCEPT ![g] = [call[g] EXCEPT !.answer = a]] BY DEF Answered
  <1>2. call[g] = [op |-> call[g].op, source |-> call[g].source, name |-> call[g].name,
                   mapped |-> call[g].mapped, answer |-> call[g].answer]
    BY DEF TypeInv, IsCall
  <1> DEFINE c == [op |-> call[g].op, source |-> call[g].source, name |-> call[g].name,
                   mapped |-> call[g].mapped, answer |-> a]
  <1>3. [call[g] EXCEPT !.answer = a] = c BY <1>2
  <1>4. IsCall(c) BY DEF IsCall
  <1> HIDE DEF c
  <1>5. DOMAIN call' = Goroutine /\ call'[g] = c /\ \A h \in Goroutine \ {g} : call'[h] = call[h]
    BY <1>1, <1>3 DEF TypeInv
  <1> QED BY <1>4, <1>5 DEF c

\* What a step of a goroutine leaves alone: the surroundings, the object and the calls of others.
Frame(g) ==
    /\ setup' = setup /\ object' = object
    /\ DOMAIN call' = Goroutine /\ DOMAIN pc' = Goroutine /\ DOMAIN todo' = Goroutine
    /\ IsCall(call'[g])
    /\ \A h \in Goroutine \ {g} : call'[h] = call[h] /\ pc'[h] = pc[h] /\ todo'[h] = todo[h]

\* Every step of a goroutine has that frame.
LEMMA OneMoves ==
    ASSUME TypeInv, NEW g \in Goroutine, Step(g)
    PROVE  Frame(g)
  <1> DEFINE Kept == /\ DOMAIN call' = Goroutine /\ IsCall(call'[g])
                     /\ \A h \in Goroutine \ {g} : call'[h] = call[h]
             Rest2 == /\ setup' = setup /\ object' = object
                      /\ DOMAIN pc' = Goroutine /\ DOMAIN todo' = Goroutine
                      /\ \A h \in Goroutine \ {g} : pc'[h] = pc[h] /\ todo'[h] = todo[h]
  <1>0. (call' = call) => Kept BY DEF TypeInv
  <1>1. CASE Rlocation(g)
    <2>1. Rest2 BY <1>1 DEF Rlocation, TypeInv
    <2>2. PICK s, p : Answer(g, "rlocation", s, p, p, RlocationOf(s, p)) BY <1>1 DEF Rlocation
    <2> DEFINE a == RlocationOf(s, p)
    <2>3. Answer(g, "rlocation", s, p, p, a) BY <2>2
    <2> HIDE DEF a
    <2>4. Kept BY <2>3, AnswerFacts
    <2> QED BY <2>1, <2>4 DEF Frame
  <1>2. CASE OpenRoot(g)
    <2>1. Rest2 BY <1>2 DEF OpenRoot, TypeInv
    <2>2. PICK s : Answer(g, "open", s, <<".">>, <<>>, "dir") BY <1>2 DEF OpenRoot
    <2>3. Kept BY <2>2, AnswerFacts
    <2> QED BY <2>1, <2>3 DEF Frame
  <1>3. CASE OpenZero(g)
    <2>1. Rest2 BY <1>3 DEF OpenZero, TypeInv
    <2>2. PICK s, n : Answer(g, "open", s, n, n, "panic") BY <1>3 DEF OpenZero
    <2>3. Kept BY <2>2, AnswerFacts
    <2> QED BY <2>1, <2>3 DEF Frame
  <1>4. CASE OpenInDirectory(g)
    <2>1. Rest2 BY <1>4 DEF OpenInDirectory, TypeInv
    <2>2. \E s, n, m, a : Answer(g, "open", s, n, m, a)
      <3> HIDE DEF Answer
      <3> QED BY <1>4 DEF OpenInDirectory
    <2>3. Kept BY <2>2, AnswerFacts
    <2> QED BY <2>1, <2>3 DEF Frame
  <1>5. CASE OpenInManifest(g)
    <2>0. \E s, n, m, a, t : Answer(g, "open", s, n, m, a) /\ pc' = [pc EXCEPT ![g] = t]
      BY <1>5 DEF OpenInManifest
    <2>1. Rest2 BY <1>5, <2>0 DEF OpenInManifest, TypeInv
    <2>3. Kept BY <2>0, AnswerFacts
    <2> QED BY <2>1, <2>3 DEF Frame
  <1>6. CASE ReadRoot(g)
    <2>0. \E s, n, m, a, t : Answer(g, "list", s, n, m, a) /\ pc' = [pc EXCEPT ![g] = t]
      BY <1>6 DEF ReadRoot
    <2>1. Rest2 BY <1>6, <2>0 DEF ReadRoot, TypeInv
    <2>3. Kept BY <2>0, AnswerFacts
    <2> QED BY <2>1, <2>3 DEF Frame
  <1>7. CASE CheckTrie(g)
    <2>1. Rest2 /\ call' = call BY <1>7 DEF CheckTrie, TypeInv
    <2> QED BY <1>0, <2>1 DEF Frame
  <1>8. CASE MakeTrie(g)
    <2>1. Rest2 /\ call' = call BY <1>8 DEF MakeTrie, TypeInv
    <2> QED BY <1>0, <2>1 DEF Frame
  <1>9. CASE InsertKey(g)
    <2>1. Rest2 /\ call' = call BY <1>9 DEF InsertKey, TypeInv
    <2> QED BY <1>0, <2>1 DEF Frame
  <1>10. CASE TrieBuilt(g)
    <2>1. Rest2 /\ call' = call BY <1>10 DEF TrieBuilt, TypeInv
    <2> QED BY <1>0, <2>1 DEF Frame
  <1>11. CASE LookupDir(g)
    <2>1. Rest2 BY <1>11 DEF LookupDir, TypeInv
    <2>2. \E a : Answered(g, a) BY <1>11 DEF LookupDir
    <2>3. Kept BY <2>2, AnsweredFacts
    <2> QED BY <2>1, <2>3 DEF Frame
  <1>12. CASE InitEntries(g)
    <2>1. setup' = setup /\ object' = object /\ todo' = todo BY <1>12 DEF InitEntries
    <2>2. \/ Answered(g, "error") /\ pc' = [pc EXCEPT ![g] = "idle"]
          \/ call' = call /\ pc' = [pc EXCEPT ![g] = "page"]
      BY <1>12 DEF InitEntries
    <2>3. Rest2 BY <2>1, <2>2 DEF TypeInv
    <2>4. Kept BY <1>0, <2>2, AnsweredFacts
    <2> QED BY <2>3, <2>4 DEF Frame
  <1>13. CASE ReadDir(g)
    <2>1. Rest2 BY <1>13 DEF ReadDir, TypeInv
    <2>2. \E s, n, m, a : Answer(g, "page", s, n, m, a) BY <1>13 DEF ReadDir
    <2>3. Kept BY <2>2, AnswerFacts
    <2> QED BY <2>1, <2>3 DEF Frame
  <1>14. CASE \E h \in setup.users : ConcurrentMapFault(g, h)
    <2>1. Rest2 /\ call' = call BY <1>14 DEF ConcurrentMapFault, TypeInv
    <2> QED BY <1>0, <2>1 DEF Frame
  <1> QED BY <1>1, <1>2, <1>3, <1>4, <1>5, <1>6, <1>7, <1>8, <1>9, <1>10, <1>11, <1>12, <1>13, <1>14 DEF Step

\* A step needs an object that New has found.
LEMMA StepNeedsObject ==
    ASSUME TypeInv, ObjectInv, NEW g \in Goroutine, Step(g)
    PROVE  object \in {"zero", "manifest", "directory"}
  <1> SUFFICES ASSUME object \in {"new", "error"} PROVE FALSE
    BY DEF ObjectInv
  <1>1. call[g].op = "none" /\ pc[g] = "idle" /\ handle[g] = Nil BY DEF ObjectInv
  <1>2. ~Idle(g) BY DEF Idle
  <1>3. ~Rlocation(g) /\ ~OpenRoot(g) /\ ~OpenZero(g) /\ ~OpenInDirectory(g) /\ ~OpenInManifest(g) /\ ~ReadRoot(g)
    BY <1>2 DEF Rlocation, OpenRoot, OpenZero, OpenInDirectory, OpenInManifest, ReadRoot
  <1>4. ~CheckTrie(g) /\ ~MakeTrie(g) /\ ~InsertKey(g) /\ ~TrieBuilt(g)
    BY <1>1 DEF CheckTrie, MakeTrie, InsertKey, TrieBuilt
  <1>5. ~LookupDir(g) /\ ~InitEntries(g)
    BY <1>1 DEF LookupDir, InitEntries
  <1>6. ~ReadDir(g) BY <1>1 DEF ReadDir
  <1>7. \A h : ~ConcurrentMapFault(g, h) BY <1>1 DEF ConcurrentMapFault
  <1> QED BY <1>3, <1>4, <1>5, <1>6, <1>7 DEF Step

\* Types, and what the object is, are kept.
LEMMA TypeObjectNext ==
    ASSUME TypeInv, ObjectInv, [Next]_vars
    PROVE  TypeInv' /\ ObjectInv'
  <1>1. CASE New
    <2>1. UNCHANGED <<setup, trie, pc, call, todo, handle>> /\ object = "new" BY <1>1 DEF New
    <2>2. TypeInv' BY <2>1 DEF TypeInv, IsCall
    <2>3. /\ object' \in {"error", "manifest", "directory"}
          /\ object' # "error" => \A n \in DOMAIN setup.lines : setup.lines[n] # Nil
      BY <1>1 DEF New
    <2>4. ObjectInv' BY <2>1, <2>3 DEF ObjectInv
    <2> QED BY <2>2, <2>4
  <1>2. ASSUME NEW g \in setup.users, Step(g) PROVE TypeInv' /\ ObjectInv'
    <2>0. g \in Goroutine BY SetupFacts
    <2>1. Frame(g) BY <1>2, <2>0, OneMoves
    <2>2. object \in {"zero", "manifest", "directory"} BY <1>2, <2>0, StepNeedsObject
    <2>3. \A h \in Goroutine : IsCall(call'[h])
      <3> TAKE h \in Goroutine
      <3>1. CASE h = g BY <2>1, <3>1 DEF Frame
      <3>2. CASE h # g
        <4>1. call'[h] = call[h] BY <2>1, <3>2 DEF Frame
        <4>2. IsCall(call[h]) BY DEF TypeInv
        <4> QED BY <4>1, <4>2
      <3> QED BY <3>1, <3>2
    <2>4. TypeInv'
      <3>1. setup' \in Setups /\ DOMAIN call' = Goroutine /\ DOMAIN pc' = Goroutine /\ DOMAIN todo' = Goroutine
        BY <2>1 DEF Frame, TypeInv
      <3> QED BY <2>3, <3>1 DEF TypeInv, IsCall
    <2>5. ObjectInv' BY <2>1, <2>2 DEF Frame, ObjectInv
    <2> QED BY <2>4, <2>5
  <1>3. CASE UNCHANGED vars BY <1>3 DEF vars, TypeInv, IsCall, ObjectInv
  <1> QED BY <1>1, <1>2, <1>3 DEF Next, Ended

\* The mapping of an object that answers has no bad lines.
LEMMA MappingFacts ==
    ASSUME TypeInv, ObjectInv, object \in {"manifest", "directory"}, NEW s \in setup.sources
    PROVE  Mapping(s)
  <1>1. IsMapping(setup.lines, setup.sources) /\ setup.sources \subseteq Seq(Nat) BY SetupFacts
  <1> HIDE DEF IsMapping
  <1> QED BY <1>1 DEF Mapping, ObjectInv

\* What an open of a manifest finds.
LEMMA OpenFinds ==
    ASSUME TypeInv, ObjectInv, object = "manifest",
           NEW s \in setup.sources, NEW n \in setup.names
    PROVE  LET m == Mapped(s, n)
               l == ManifestPath(m)
           IN  /\ m = InTree(s, n)
               /\ l = <<NotExist>> => NotListed(s, n)
               /\ l # <<NotExist>> =>
                     Found(s, n) = IF l = <<"empty">> THEN "file" ELSE OSKind(l[1], l[2])
  <1> DEFINE m == InTree(s, n)
             l == ManifestPath(m)
             S == Segment \cup {Leads(s, n[1])}
  <1>1. Mapped(s, n) = m BY MappingFacts, MappedInTree
  <1>2. Links /\ n \in Path BY SetupFacts
  <1>3. m \in Seq(S) /\ m # <<>> BY <1>2, MappedPath
  <1>4. Segment \subseteq S OBVIOUS
  <1> HIDE DEF m, S, Links
  <1>5. /\ (\A k \in DOMAIN setup.index : ~Starts(m, k)) => l = <<NotExist>>
        /\ \A k \in DOMAIN setup.index : Starts(m, k) =>
              l = IF k = m /\ setup.index[k] = Empty THEN <<"empty">> ELSE <<setup.index[k], Rest(m, k)>>
    BY <1>2, <1>3, <1>4, ManifestFacts
  <1>6. \A k \in DOMAIN setup.index : Starts(m, k) =>
           TreeKind(m) = IF k = m /\ setup.index[k] = Empty THEN "file" ELSE OSKind(setup.index[k], Rest(m, k))
    BY <1>2, <1>3, <1>4, TreeFacts
  <1> HIDE DEF l
  <1>7. ASSUME NEW k \in DOMAIN setup.index, Starts(m, k)
        PROVE  l # <<NotExist>> /\ TreeKind(m) = IF l = <<"empty">> THEN "file" ELSE OSKind(l[1], l[2])
    <2>1. CASE k = m /\ setup.index[k] = Empty
      <3>1. l = <<"empty">> /\ TreeKind(m) = "file" BY <1>5, <1>6, <1>7, <2>1
      <3>2. <<"empty">> # <<NotExist>> BY DEF NotExist
      <3> QED BY <3>1, <3>2
    <2>2. CASE ~(k = m /\ setup.index[k] = Empty)
      <3> DEFINE t == setup.index[k]
                 r == Rest(m, k)
      <3>1. l = <<t, r>> /\ TreeKind(m) = OSKind(t, r) BY <1>5, <1>6, <1>7, <2>2
      <3> HIDE DEF t, r
      <3>2. Len(<<t, r>>) = 2 /\ Len(<<NotExist>>) = 1 /\ Len(<<"empty">>) = 1 OBVIOUS
      <3>3. l[1] = t /\ l[2] = r BY <3>1
      <3>4. l # <<NotExist>> /\ l # <<"empty">> BY <3>1, <3>2
      <3> QED BY <3>1, <3>3, <3>4
    <2> QED BY <2>1, <2>2
  <1>8. ASSUME \A k \in DOMAIN setup.index : ~Starts(m, k) PROVE l = <<NotExist>> BY <1>5, <1>8
  <1>9. NotListed(s, n) <=> \A k \in DOMAIN setup.index : ~Starts(m, k) BY DEF NotListed, m
  <1>10. Found(s, n) = TreeKind(m) BY DEF Found, m
  <1>11. ManifestPath(Mapped(s, n)) = l BY <1>1 DEF l
  <1>12. /\ l = <<NotExist>> => NotListed(s, n)
         /\ l # <<NotExist>> => Found(s, n) = IF l = <<"empty">> THEN "file" ELSE OSKind(l[1], l[2])
    BY <1>7, <1>8, <1>9, <1>10
  <1> QED BY <1>1, <1>11, <1>12 DEF m

\* What the trie says of a path that is not listed is what the tree has there.
LEMMA TrieFinds ==
    ASSUME TypeInv, NEW s \in setup.sources, NEW n \in setup.names, NotListed(s, n)
    PROVE  Found(s, n) = IF InTree(s, n) \in Full THEN "dir" ELSE NotExist
  <1> DEFINE m == InTree(s, n)
             S == Segment \cup {Leads(s, n[1])}
  <1>1. Links /\ n \in Path BY SetupFacts
  <1>2. m \in Seq(S) /\ m # <<>> BY <1>1, MappedPath
  <1>3. Segment \subseteq S OBVIOUS
  <1>4. \A k \in DOMAIN setup.index : ~Starts(m, k) BY DEF NotListed
  <1>5. Found(s, n) = TreeKind(m) BY DEF Found
  <1> HIDE DEF m, S, Links, Full
  <1>6. TreeKind(m) = IF m \in Full THEN "dir" ELSE NotExist BY <1>1, <1>2, <1>3, <1>4, TreeFacts
  <1> QED BY <1>5, <1>6 DEF m


\* The calls are kept right by the goroutine that moves.
LEMMA MoverNext ==
    ASSUME TypeInv, ObjectInv, TrieInv, NEW g \in Goroutine, CallInv(g), Step(g)
    PROVE  CallInv(g)'
  <1>1. Frame(g) BY OneMoves
  <1>2. setup' = setup /\ object' = object BY <1>1 DEF Frame
  <1>3. \A s, p : RlocationOf(s, p)' = RlocationOf(s, p) BY <1>2, SameAnswer
  <1>4. /\ \A s, n : Found(s, n)' = Found(s, n)
        /\ \A s, n : InTree(s, n)' = InTree(s, n)
        /\ \A s, n : NotListed(s, n)' = NotListed(s, n)
        /\ Alone(g)' = Alone(g) /\ Full' = Full
    BY <1>2, SameTree
  <1>5. object \in {"zero", "manifest", "directory"} BY StepNeedsObject
  <1>6. ASSUME call'[g].op \notin {"rlocation", "open"} PROVE CallInv(g)'
    BY <1>6 DEF CallInv
  <1>7. ASSUME call' = call, pc[g] # "idle" \/ pc'[g] = pc[g] \/ call[g].op # "open" PROVE CallInv(g)'
    BY <1>2, <1>7, SameCall
  <1>8. ASSUME call'[g].op = "open", pc'[g] = "idle",
               call'[g].name = <<".">> \/ object = "zero"
               \/ \E s \in setup.sources, n \in setup.names :
                    call'[g].source = s /\ call'[g].name = n /\ call'[g].answer = Found(s, n)
        PROVE  CallInv(g)'
    BY <1>2, <1>4, <1>8 DEF CallInv
  <1>9. CASE Rlocation(g)
    <2>1. PICK s \in setup.sources, p \in setup.paths : Answer(g, "rlocation", s, p, p, RlocationOf(s, p))
      BY <1>9 DEF Rlocation
    <2> DEFINE a == RlocationOf(s, p)
    <2>2. Answer(g, "rlocation", s, p, p, a) BY <2>1
    <2>3. a = RlocationOf(s, p) OBVIOUS
    <2> HIDE DEF a
    <2>4. call'[g] = [op |-> "rlocation", source |-> s, name |-> p, mapped |-> p, answer |-> a]
      BY <2>2, AnswerFacts
    <2>5. call'[g].op = "rlocation" /\ call'[g].source = s /\ call'[g].name = p /\ call'[g].answer = a BY <2>4
    <2>6. RlocationOf(s, p)' = a BY <1>3, <2>3
    <2> QED BY <1>2, <2>5, <2>6 DEF CallInv
  <1>10. CASE OpenRoot(g)
    <2>1. PICK s \in setup.sources : Answer(g, "open", s, <<".">>, <<>>, "dir") BY <1>10 DEF OpenRoot
    <2> DEFINE c == [op |-> "open", source |-> s, name |-> <<".">>, mapped |-> <<>>, answer |-> "dir"]
    <2>4. call'[g] = c BY <2>1, AnswerFacts
    <2>2. call'[g].op = "open" /\ call'[g].name = <<".">> BY <2>4
    <2>3. pc'[g] = "idle" BY <1>10 DEF OpenRoot, Idle
    <2> QED BY <1>8, <2>2, <2>3
  <1>11. CASE OpenZero(g)
    <2>1. PICK s \in setup.sources, n \in setup.names : Answer(g, "open", s, n, n, "panic") BY <1>11 DEF OpenZero
    <2>4. call'[g] = [op |-> "open", source |-> s, name |-> n, mapped |-> n, answer |-> "panic"]
      BY <2>1, AnswerFacts
    <2>2. call'[g].op = "open" BY <2>4
    <2>3. pc'[g] = "idle" /\ object = "zero" BY <1>11 DEF OpenZero, Idle
    <2> QED BY <1>8, <2>2, <2>3
  <1>12. CASE OpenInDirectory(g)
    <2>1. PICK s \in setup.sources, n \in setup.names :
             Answer(g, "open", s, n, Mapped(s, n), TreeKind(Mapped(s, n)))
      BY <1>12 DEF OpenInDirectory
    <2>2. pc'[g] = "idle" /\ object = "directory" BY <1>12 DEF OpenInDirectory, Idle
    <2>3. Mapped(s, n) = InTree(s, n) BY <2>2, MappingFacts, MappedInTree
    <2> DEFINE m == Mapped(s, n)
               a == TreeKind(m)
    <2>4. a = Found(s, n) BY <2>3 DEF Found
    <2>5. Answer(g, "open", s, n, m, a) BY <2>1
    <2> HIDE DEF m, a
    <2>6. call'[g] = [op |-> "open", source |-> s, name |-> n, mapped |-> m, answer |-> a] BY <2>5, AnswerFacts
    <2>7. call'[g].op = "open" /\ call'[g].source = s /\ call'[g].name = n /\ call'[g].answer = a BY <2>6
    <2> QED BY <1>8, <2>2, <2>4, <2>7
  <1>13. CASE OpenInManifest(g)
    <2>1. PICK s \in setup.sources, n \in setup.names :
             LET m == Mapped(s, n)
                 l == ManifestPath(m)
             IN  /\ Answer(g, "open", s, n, m, IF l = <<NotExist>> THEN Nil ELSE IF l = <<"empty">> THEN "file"
                                               ELSE OSKind(l[1], l[2]))
                 /\ pc' = [pc EXCEPT ![g] = IF l = <<NotExist>> THEN "trie" ELSE "idle"]
      BY <1>13 DEF OpenInManifest
    <2>2. object = "manifest" BY <1>13 DEF OpenInManifest
    <2> DEFINE m == Mapped(s, n)
               l == ManifestPath(m)
               k == IF l = <<"empty">> THEN "file" ELSE OSKind(l[1], l[2])
               a == IF l = <<NotExist>> THEN Nil ELSE k
    <2>3. Answer(g, "open", s, n, m, a) /\ pc' = [pc EXCEPT ![g] = IF l = <<NotExist>> THEN "trie" ELSE "idle"]
      BY <2>1
    <2>4. /\ m = InTree(s, n)
          /\ l = <<NotExist>> => NotListed(s, n)
          /\ l # <<NotExist>> => Found(s, n) = k
      BY <2>2, OpenFinds
    <2>5. a = IF l = <<NotExist>> THEN Nil ELSE k OBVIOUS
    <2> HIDE DEF m, l, k, a
    <2>6. call'[g] = [op |-> "open", source |-> s, name |-> n, mapped |-> m, answer |-> a] BY <2>3, AnswerFacts
    <2>7. /\ call'[g].op = "open" /\ call'[g].source = s /\ call'[g].name = n /\ call'[g].mapped = m
          /\ call'[g].answer = a
      BY <2>6
    <2>8. pc'[g] = IF l = <<NotExist>> THEN "trie" ELSE "idle" BY <2>3 DEF TypeInv
    <2>9. CASE l # <<NotExist>> BY <1>8, <2>4, <2>5, <2>7, <2>8, <2>9
    <2>10. CASE l = <<NotExist>>
      <3>1. call'[g].answer = Nil /\ NotListed(s, n) /\ call'[g].mapped = InTree(s, n)
        BY <2>4, <2>5, <2>7, <2>10
      <3>2. NotListed(s, n)' /\ call'[g].mapped = InTree(s, n)' BY <1>4, <3>1
      <3> QED BY <1>2, <2>2, <2>7, <3>1, <3>2 DEF CallInv
    <2> QED BY <2>9, <2>10
  <1>14. CASE ReadRoot(g)
    <2>1. PICK s, n, m, a : Answer(g, "list", s, n, m, a) BY <1>14 DEF ReadRoot
    <2>3. call'[g] = [op |-> "list", source |-> s, name |-> n, mapped |-> m, answer |-> a] BY <2>1, AnswerFacts
    <2>2. call'[g].op = "list" BY <2>3
    <2> QED BY <1>6, <2>2
  <1>15. CASE CheckTrie(g) \/ MakeTrie(g) \/ InsertKey(g) \/ TrieBuilt(g)
    <2>1. call' = call /\ pc[g] # "idle" BY <1>15 DEF CheckTrie, MakeTrie, InsertKey, TrieBuilt
    <2> QED BY <1>7, <2>1
  <1>16. CASE LookupDir(g)
    <2>1. /\ pc[g] = "lookup" /\ call[g].op = "open" /\ pc'[g] = "idle"
          /\ Answered(g, IF call[g].mapped \in trie THEN "dir" ELSE NotExist)
      BY <1>16 DEF LookupDir, TypeInv
    <2> DEFINE a == IF call[g].mapped \in trie THEN "dir" ELSE NotExist
    <2>2. Answered(g, a) BY <2>1
    <2>3. a = IF call[g].mapped \in trie THEN "dir" ELSE NotExist OBVIOUS
    <2> HIDE DEF a
    <2>9. call'[g] = [op |-> call[g].op, source |-> call[g].source, name |-> call[g].name,
                      mapped |-> call[g].mapped, answer |-> a]
      BY <2>2, AnsweredFacts
    <2>4. /\ call'[g].op = "open" /\ call'[g].source = call[g].source /\ call'[g].name = call[g].name
          /\ call'[g].answer = a
      BY <2>1, <2>9
    <2>5. CASE ~Alone(g) BY <1>4, <2>4, <2>5 DEF CallInv
    <2>6. CASE Alone(g)
      <3>1. trie = Full BY <2>1, <2>6 DEF TrieInv
      <3>2. PICK s \in setup.sources, n \in setup.names :
               /\ call[g].source = s /\ call[g].name = n
               /\ call[g].mapped = InTree(s, n) /\ NotListed(s, n)
        BY <2>1, <2>6 DEF CallInv
      <3>3. Found(s, n) = IF InTree(s, n) \in Full THEN "dir" ELSE NotExist BY <3>2, TrieFinds
      <3>4. call'[g].source = s /\ call'[g].name = n /\ call'[g].answer = Found(s, n)
        BY <2>3, <2>4, <3>1, <3>2, <3>3
      <3> QED BY <1>8, <2>1, <2>4, <3>4
    <2> QED BY <2>5, <2>6
  <1>17. CASE InitEntries(g)
    <2>1. /\ call[g].op = "list"
          /\ (\E a : Answered(g, a)) \/ call' = call
      BY <1>17 DEF InitEntries
    <2>3. ASSUME NEW a, Answered(g, a) PROVE call'[g].op = "list"
      <3>1. call'[g] = [op |-> call[g].op, source |-> call[g].source, name |-> call[g].name,
                        mapped |-> call[g].mapped, answer |-> a]
        BY <2>3, AnsweredFacts
      <3> QED BY <2>1, <3>1
    <2>2. call'[g].op = "list" BY <2>1, <2>3
    <2> QED BY <1>6, <2>2
  <1>18. CASE ReadDir(g)
    <2>1. PICK s, n, m, a : Answer(g, "page", s, n, m, a) BY <1>18 DEF ReadDir
    <2>3. call'[g] = [op |-> "page", source |-> s, name |-> n, mapped |-> m, answer |-> a] BY <2>1, AnswerFacts
    <2>2. call'[g].op = "page" BY <2>3
    <2> QED BY <1>6, <2>2
  <1>19. CASE \E h \in setup.users : ConcurrentMapFault(g, h)
    <2>1. call' = call /\ pc' = pc BY <1>19 DEF ConcurrentMapFault
    <2> QED BY <1>7, <2>1
  <1> QED BY <1>9, <1>10, <1>11, <1>12, <1>13, <1>14, <1>15, <1>16, <1>17, <1>18, <1>19 DEF Step

\* A single user finds the trie missing or complete, whatever it has done before.
LEMMA TrieNext ==
    ASSUME TypeInv, TrieInv, NEW g \in Goroutine, Alone(g), Step(g)
    PROVE  /\ pc'[g] \notin {"make", "build"} => trie' \in {Nil, Full}
           /\ pc'[g] = "build" => trie' \cup UNION {Prefixes(k) : k \in todo'[g]} = Full
           /\ pc'[g] = "lookup" => trie' = Full
  <1> DEFINE Goal == /\ pc'[g] \notin {"make", "build"} => trie' \in {Nil, Full}
                     /\ pc'[g] = "build" => trie' \cup UNION {Prefixes(k) : k \in todo'[g]} = Full
                     /\ pc'[g] = "lookup" => trie' = Full
  <1>1. /\ pc[g] \notin {"make", "build"} => trie \in {Nil, Full}
        /\ pc[g] = "build" => trie \cup UNION {Prefixes(k) : k \in todo[g]} = Full
        /\ pc[g] = "lookup" => trie = Full
    BY DEF TrieInv
  <1>2. g \in DOMAIN pc /\ g \in DOMAIN todo BY DEF TypeInv
  <1>3. ASSUME trie' = trie, pc[g] \notin {"make", "build"}, pc'[g] \notin {"make", "build", "lookup"} PROVE Goal
    BY <1>1, <1>3
  <1>4. CASE Rlocation(g) \/ OpenRoot(g) \/ OpenZero(g) \/ OpenInDirectory(g)
    <2>1. trie' = trie /\ pc[g] = "idle" /\ pc' = pc
      BY <1>4 DEF Rlocation, OpenRoot, OpenZero, OpenInDirectory, Idle
    <2> QED BY <1>3, <2>1
  <1>5. CASE OpenInManifest(g)
    <2>1. trie' = trie /\ pc[g] = "idle" BY <1>5 DEF OpenInManifest, Idle
    <2>2. pc' = [pc EXCEPT ![g] = "trie"] \/ pc' = [pc EXCEPT ![g] = "idle"] BY <1>5 DEF OpenInManifest
    <2>3. pc'[g] \in {"trie", "idle"} BY <1>2, <2>2
    <2> QED BY <1>3, <2>1, <2>3
  <1>6. CASE ReadRoot(g)
    <2>1. trie' = trie /\ pc[g] = "idle" /\ object \in {"zero", "manifest", "directory"} BY <1>6 DEF ReadRoot, Idle
    <2> DEFINE t == CASE object = "zero" -> "idle" [] object = "manifest" -> "trie" [] object = "directory" -> "root"
    <2>2. t \in {"trie", "idle", "root"} BY <2>1
    <2>3. pc' = [pc EXCEPT ![g] = t] BY <1>6 DEF ReadRoot
    <2> HIDE DEF t
    <2>4. pc'[g] = t BY <1>2, <2>3
    <2> QED BY <1>3, <2>1, <2>2, <2>4
  <1>7. CASE CheckTrie(g)
    <2>1. /\ trie' = trie /\ pc[g] = "trie"
          /\ pc'[g] = IF trie = Nil THEN "make" ELSE "lookup"
      BY <1>2, <1>7 DEF CheckTrie
    <2> QED BY <1>1, <2>1
  <1>8. CASE MakeTrie(g)
    <2>1. trie' = {} /\ todo'[g] = DOMAIN setup.index /\ pc'[g] = "build" BY <1>2, <1>8 DEF MakeTrie
    <2> QED BY <2>1 DEF Full
  <1>9. CASE InsertKey(g)
    <2>1. PICK k \in todo[g] : trie' = trie \cup Prefixes(k) /\ todo' = [todo EXCEPT ![g] = @ \ {k}]
      BY <1>9 DEF InsertKey
    <2>2. todo'[g] = todo[g] \ {k} BY <1>2, <2>1
    <2>3. UNION {Prefixes(j) : j \in todo[g]} = Prefixes(k) \cup UNION {Prefixes(j) : j \in todo'[g]}
      <3> HIDE DEF Prefixes
      <3> QED BY <2>1, <2>2
    <2>4. pc'[g] = "build" /\ pc[g] = "build" BY <1>9 DEF InsertKey
    <2> HIDE DEF Prefixes, Full
    <2> QED BY <1>1, <2>1, <2>3, <2>4
  <1>10. CASE TrieBuilt(g)
    <2>1. trie' = trie /\ pc[g] = "build" /\ todo[g] = {} /\ pc'[g] = "lookup" BY <1>2, <1>10 DEF TrieBuilt
    <2>2. UNION {Prefixes(k) : k \in todo[g]} = {} BY <2>1
    <2> QED BY <1>1, <2>1, <2>2
  <1>11. CASE LookupDir(g)
    <2>1. trie' = trie /\ pc[g] = "lookup" /\ pc'[g] = "idle" BY <1>2, <1>11 DEF LookupDir
    <2> QED BY <1>3, <2>1
  <1>12. CASE InitEntries(g)
    <2>1. /\ trie' = trie /\ pc[g] \in {"lookup", "root"}
          /\ pc' = [pc EXCEPT ![g] = "idle"] \/ pc' = [pc EXCEPT ![g] = "page"]
      BY <1>12 DEF InitEntries
    <2>2. pc'[g] \in {"idle", "page"} BY <1>2, <2>1
    <2> QED BY <1>3, <2>1, <2>2
  <1>13. CASE ReadDir(g)
    <2>1. trie' = trie /\ pc[g] \in {"page", "idle"} /\ pc'[g] = "idle" BY <1>2, <1>13 DEF ReadDir
    <2> QED BY <1>3, <2>1
  <1>14. CASE \E h \in setup.users : ConcurrentMapFault(g, h)
    <2>1. trie' = trie /\ pc' = pc /\ todo' = todo BY <1>14 DEF ConcurrentMapFault
    <2> QED BY <1>1, <2>1
  <1> QED BY <1>4, <1>5, <1>6, <1>7, <1>8, <1>9, <1>10, <1>11, <1>12, <1>13, <1>14 DEF Step

-----------------------------------------------------------------------------
(* Theorems *)

\* The invariant: calls keep answers that are right of the tree, and the trie of a single user
\* is never seen half built.
THEOREM Inductive == Spec => []Inv
  <1>1. Init => Inv
    <2> SUFFICES ASSUME Init PROVE Inv
      OBVIOUS
    <2>1. \A g \in Goroutine : call[g] = NoCall /\ pc[g] = "idle" /\ handle[g] = Nil BY DEF Init
    <2>2. TypeInv BY DEF Init, TypeInv, IsCall, NoCall
    <2>3. ObjectInv BY <2>1 DEF Init, ObjectInv, NoCall
    <2>4. RlocInv /\ OpenInv BY <2>1 DEF RlocInv, OpenInv, NoCall
    <2>5. TrieInv BY <2>1 DEF Init, TrieInv
    <2> QED BY <2>2, <2>3, <2>4, <2>5 DEF Inv
  <1>2. Inv /\ [Next]_vars => Inv'
    <2> SUFFICES ASSUME Inv, [Next]_vars PROVE Inv'
      OBVIOUS
    <2>1. TypeInv /\ ObjectInv /\ TrieInv /\ \A g \in Goroutine : CallInv(g) BY ByCall DEF Inv
    <2>2. TypeInv' /\ ObjectInv' BY <2>1, TypeObjectNext
    <2>3. CASE New
      <3>1. UNCHANGED <<setup, trie, pc, call, todo>> /\ object = "new" BY <2>3 DEF New
      <3>2. \A g \in Goroutine : call[g].op = "none" /\ pc[g] = "idle" BY <2>1, <3>1 DEF ObjectInv
      <3>3. RlocInv' /\ OpenInv' BY <3>1, <3>2 DEF RlocInv, OpenInv
      <3>4. Full' = Full /\ \A g : Alone(g)' = Alone(g) BY <3>1, SameTree
      <3>5. TrieInv' BY <2>1, <3>1, <3>2, <3>4 DEF TrieInv, ObjectInv
      <3> QED BY <2>2, <3>3, <3>5 DEF Inv
    <2>4. ASSUME NEW g \in setup.users, Step(g) PROVE Inv'
      <3>0. g \in Goroutine BY <2>1, SetupFacts
      <3>1. Frame(g) BY <2>1, <2>4, <3>0, OneMoves
      <3>2. setup' = setup /\ object' = object BY <3>1 DEF Frame
      <3>3. \A h \in Goroutine : CallInv(h)'
        <4> TAKE h \in Goroutine
        <4>1. CASE h = g
          <5>1. CallInv(g) BY <2>1, <3>0
          <5>2. CallInv(g)' BY <2>1, <2>4, <3>0, <5>1, MoverNext
          <5> QED BY <4>1, <5>2
        <4>2. CASE h # g
          <5>1. call'[h] = call[h] /\ pc'[h] = pc[h] BY <3>1, <4>2 DEF Frame
          <5>2. CallInv(h) BY <2>1
          <5> QED BY <3>2, <5>1, <5>2, SameCall
        <4> QED BY <4>1, <4>2
      <3>4. RlocInv' /\ OpenInv' BY <3>3 DEF RlocInv, OpenInv, CallInv
      <3>5. Full' = Full /\ \A h : Alone(h)' = Alone(h) BY <3>2, SameTree
      <3>6. \A h \in Goroutine : Alone(h) => h = g BY <2>4 DEF Alone
      <3>7. Alone(g) => /\ pc'[g] \notin {"make", "build"} => trie' \in {Nil, Full}
                        /\ pc'[g] = "build" => trie' \cup UNION {Prefixes(k) : k \in todo'[g]} = Full
                        /\ pc'[g] = "lookup" => trie' = Full
        BY <2>1, <2>4, <3>0, TrieNext
      <3>8. TrieInv' BY <3>5, <3>6, <3>7 DEF TrieInv
      <3> QED BY <2>2, <3>4, <3>8 DEF Inv
    <2>5. CASE UNCHANGED vars
      <3>1. UNCHANGED <<setup, object, trie, pc, call, todo>> BY <2>5 DEF vars
      <3>2. \A g \in Goroutine : CallInv(g)' BY <2>1, <3>1, SameCall
      <3>3. RlocInv' /\ OpenInv' BY <3>2 DEF RlocInv, OpenInv, CallInv
      <3>4. Full' = Full /\ \A h : Alone(h)' = Alone(h) BY <3>1, SameTree
      <3>5. TrieInv' BY <2>1, <3>1, <3>4 DEF TrieInv
      <3> QED BY <2>2, <3>3, <3>5 DEF Inv
    <2> QED BY <2>3, <2>4, <2>5 DEF Next, Ended
  <1> QED BY <1>1, <1>2, PTL DEF Spec

\* RlocationExact, about Rlocation, repoMapping.Get and manifest.path: for any tree, any mapping
\* whose prefixes are no prefixes of each other and any number of goroutines, Rlocation finds
\* what the tree has under the path that the lines of the mapping lead to.
THEOREM RlocationExactHolds == Spec => []RlocationExact
  <1>1. Inv => RlocationExact
    <2> SUFFICES ASSUME Inv, NEW g \in Goroutine, call[g].op = "rlocation",
                        call[g].answer # <<Invalid>>, call[g].name[1] # ""
                 PROVE  LET c == call[g]
                            p == IF Len(c.name) >= 2 THEN InTree(c.source, c.name) ELSE c.name
                        IN  IF object = "directory" THEN c.answer = <<"tree", p>>
                            ELSE \/ c.answer = <<"empty">> /\ p \in DOMAIN setup.index /\ setup.index[p] = Empty
                                 \/ \E k \in DOMAIN setup.index :
                                       Starts(p, k) /\ c.answer = <<setup.index[k], Rest(p, k)>>
                                 \/ c.answer = <<NotExist>> /\ ~\E k \in DOMAIN setup.index : Starts(p, k)
      BY DEF RlocationExact
    <2>1. TypeInv /\ ObjectInv BY DEF Inv
    <2>2. PICK s \in setup.sources, n \in setup.paths :
             call[g].source = s /\ call[g].name = n /\ call[g].answer = RlocationOf(s, n)
      BY DEF Inv, RlocInv
    <2> DEFINE p == IF Len(n) >= 2 THEN InTree(s, n) ELSE n
               S == Segment \cup {Leads(s, n[1])}
               a == call[g].answer
    <2>3. object \in {"zero", "manifest", "directory"} BY <2>1 DEF ObjectInv
    <2>4. object # "zero" /\ a = Locate(IF Len(n) >= 2 THEN Mapped(s, n) ELSE n) BY <2>2 DEF RlocationOf
    <2>5. Mapped(s, n) = InTree(s, n) BY <2>1, <2>3, <2>4, MappingFacts, MappedInTree
    <2>6. a = Locate(p) BY <2>4, <2>5
    <2>7. p \in Seq(S) /\ Segment \subseteq S /\ Links
      <3>1. n \in Path /\ Links BY <2>1, SetupFacts
      <3>2. n \in Seq(Segment) BY <3>1 DEF Path
      <3>3. n \in Seq(S) BY <3>2, SeqMonotonic
      <3>4. InTree(s, n) \in Seq(S) BY <3>1, MappedPath
      <3> QED BY <3>1, <3>3, <3>4
    <2> HIDE DEF p, S, a, Links
    <2>8. CASE object = "directory" BY <2>2, <2>6, <2>8 DEF Locate, DirectoryPath, p, a
    <2>9. CASE object = "manifest"
      <3>1. a = ManifestPath(p) BY <2>6, <2>9 DEF Locate
      <3>2. /\ (\A k \in DOMAIN setup.index : ~Starts(p, k)) => ManifestPath(p) = <<NotExist>>
            /\ \A k \in DOMAIN setup.index : Starts(p, k) =>
                  ManifestPath(p) = IF k = p /\ setup.index[k] = Empty THEN <<"empty">>
                                    ELSE <<setup.index[k], Rest(p, k)>>
        BY <2>7, ManifestFacts
      <3>3. \/ a = <<"empty">> /\ p \in DOMAIN setup.index /\ setup.index[p] = Empty
            \/ \E k \in DOMAIN setup.index : Starts(p, k) /\ a = <<setup.index[k], Rest(p, k)>>
            \/ a = <<NotExist>> /\ ~\E k \in DOMAIN setup.index : Starts(p, k)
        <4> HIDE DEF Starts, Rest, ManifestPath
        <4> QED BY <3>1, <3>2
      <3> QED BY <2>2, <2>9, <3>3 DEF p, a
    <2> QED BY <2>3, <2>4, <2>8, <2>9
  <1> QED BY <1>1, Inductive, PTL

\* OpenExact, about manifest.open, the trie and Directory.open: "Runfiles implements fs.FS
\* regardless of the type of runfiles that backs it", for a goroutine that has the object for itself.
THEOREM OpenExactHolds == Spec => []OpenExact
  <1>1. Inv => OpenExact
    <2> SUFFICES ASSUME Inv, Cardinality(setup.users) = 1, NEW g \in setup.users PROVE OpenRight(call[g])
      BY DEF OpenExact
    <2>1. TypeInv BY DEF Inv
    <2>2. g \in Goroutine /\ IsFiniteSet(setup.users) BY <2>1, SetupFacts
    <2>3. \E h : setup.users = {h} BY <2>2, FS_Singleton
    <2>4. Alone(g) BY <2>3 DEF Alone
    <2>5. call[g].op = "open" /\ call[g].answer # Nil /\ call[g].name # <<".">> /\ object # "zero" =>
             \E s \in setup.sources, n \in setup.names :
                call[g].source = s /\ call[g].name = n /\ call[g].answer = Found(s, n)
      BY <2>2, <2>4 DEF Inv, OpenInv
    <2> QED BY <2>5 DEF OpenRight, Found
  <1> QED BY <1>1, Inductive, PTL

-----------------------------------------------------------------------------
(* Listing *)

RootNames == TreeNames(<<>>)
Line(n) == setup.lines[n]

\* The names Bazel gives. A source falls under exact lines or under a prefix, not both, for one
\* name; a name that is both apparent and that of a directory of the root (bazel_tools) leads to
\* that directory; and repositories are directories.
BazelNames ==
    /\ NoRepo \notin RootNames
    /\ \A n, o \in DOMAIN setup.lines :
          ~Line(n).wild /\ Line(o).wild /\ Line(n).to = Line(o).to => ~Starts(Line(n).source, Line(o).source)
    /\ \A n \in DOMAIN setup.lines : /\ Line(n).to \in RootNames => Line(n).dir = Line(n).to
                                     /\ <<Line(n).dir>> \notin DOMAIN setup.index

IsDir(h) == DOMAIN h = {"root", "source", "dir", "loaded", "left", "listed", "lost"}

\* What a single user has open: the root before its entries are known, or a directory whose
\* entries are split into those listed and those left, unless a page of them was lost.
DirInv(h) ==
    /\ IsDir(h)
    /\ ~h.loaded => h.root = TRUE /\ h.listed = {} /\ h.dir = <<>> /\ h.source \in setup.sources
    /\ h.loaded /\ ~h.lost => ListedRight(h.root, h.source, h.dir, h.left \cup h.listed)

DirOfUser(g) ==
    /\ \E h : handle[g] = h /\ (h # Nil => DirInv(h))
    /\ pc[g] \in {"trie", "make", "build", "lookup"} /\ call[g].op # "open" =>
          handle[g] # Nil /\ ~handle[g].loaded /\ object = "manifest"
    /\ pc[g] = "root" => handle[g] # Nil /\ ~handle[g].loaded /\ object = "directory"

ListInv ==
    /\ DOMAIN handle = Goroutine
    /\ BazelNames => \A g \in Goroutine : Alone(g) => DirOfUser(g)

\* Names depend on the surroundings alone.
LEMMA SameNames ==
    ASSUME setup' = setup
    PROVE  /\ BazelNames' = BazelNames
           /\ object' = object => \A h : DirInv(h)' = DirInv(h)
  <1>1. BazelNames' = BazelNames BY DEF BazelNames, RootNames, TreeNames, Line
  <1>2. ASSUME object' = object
        PROVE  \A root, s, dir, A : ListedRight(root, s, dir, A)' = ListedRight(root, s, dir, A)
    BY <1>2 DEF ListedRight, TreeNames, NamesFor, Leads, DirOf, InTree, TreeKind, OSKind, NamesOf, KindShown
  <1>3. object' = object => \A h : DirInv(h)' = DirInv(h) BY <1>2 DEF DirInv, IsDir
  <1> QED BY <1>1, <1>2, <1>3

\* A name that leads somewhere does so by a line.
LEMMA LeadsByLine ==
    ASSUME NEW s, Mapping(s), NEW to, Leads(s, to) # NoRepo
    PROVE  \E n \in DOMAIN setup.lines : Line(n).to = to /\ Line(n).dir = Leads(s, to)
  <1> DEFINE ns == {n \in DOMAIN setup.lines : Applies(setup.lines[n], s, to)}
             exact == {n \in ns : ~setup.lines[n].wild}
             found2 == IF exact # {} THEN exact ELSE ns
             m == CHOOSE n \in found2 : \A k \in found2 : k <= n
  <1>1. Len(setup.lines) \in Nat /\ DOMAIN setup.lines = 1..Len(setup.lines) BY LineFacts
  <1>2. Leads(s, to) = DirOf(found2) BY DEF Leads
  <1>3. found2 \subseteq ns OBVIOUS
  <1>4. found2 \in SUBSET (0..Len(setup.lines)) BY <1>1
  <1> HIDE DEF found2
  <1>5. found2 # {} BY <1>2 DEF DirOf
  <1>6. \E n \in found2 : \A k \in found2 : k <= n BY <1>1, <1>4, <1>5, LastPlace
  <1>7. m \in found2 BY <1>6
  <1>8. Leads(s, to) = setup.lines[m].dir BY <1>2, <1>5 DEF DirOf
  <1> HIDE DEF m
  <1>9. m \in DOMAIN setup.lines /\ setup.lines[m].to = to BY <1>3, <1>7 DEF Applies
  <1> QED BY <1>8, <1>9 DEF Line

\* repoMapping.ForEachVisible gives a directory the names that lead to it.
LEMMA ApparentNames ==
    ASSUME NEW s, Mapping(s), BazelNames, NEW d, d # NoRepo
    PROVE  Apparent(s, d) = NamesFor(s, d)
  <1> SUFFICES ASSUME NEW to \in Segment PROVE d \in {ExactDir(s, to), PrefixDir(s, to)} <=> Leads(s, to) = d
    BY DEF Apparent, NamesFor
  <1>1. Leads(s, to) = IF ExactDir(s, to) # NoRepo THEN ExactDir(s, to) ELSE PrefixDir(s, to)
    BY GetLeads DEF Get
  <1>2. ASSUME ExactDir(s, to) # NoRepo PROVE PrefixDir(s, to) = NoRepo
    <2> SUFFICES ASSUME PrefixDir(s, to) # NoRepo PROVE FALSE
      OBVIOUS
    <2>1. PICK n \in LinesFor(FALSE, s, to) : TRUE BY <1>2 DEF ExactDir, DirOf
    <2>0. PICK p \in PrefixFor(s) : LinesFor(TRUE, p, to) # {}
      <3>1. UNION {LinesFor(TRUE, p, to) : p \in PrefixFor(s)} # {} BY DEF PrefixDir, DirOf
      <3> QED BY <3>1
    <2>2. PICK o \in LinesFor(TRUE, p, to) : TRUE BY <2>0
    <2>3. n \in DOMAIN setup.lines /\ ~Line(n).wild /\ Line(n).source = s /\ Line(n).to = to
      BY <2>1 DEF LinesFor, Line
    <2>4. o \in DOMAIN setup.lines /\ Line(o).wild /\ Line(o).source = p /\ Line(o).to = to
      BY <2>2 DEF LinesFor, Line
    <2>5. Starts(s, p) BY <2>0 DEF PrefixFor
    <2> QED BY <2>3, <2>4, <2>5 DEF BazelNames
  <1> QED BY <1>1, <1>2

\* The trie lists what the tree lists.
LEMMA TrieIsTree ==
    ASSUME Links, trie = Full, NEW S, Segment \subseteq S, NEW m \in Seq(S)
    PROVE  TrieNames(m) = TreeNames(m)
  <1>0. Len(m) \in Nat OBVIOUS
  <1>1. ASSUME NEW k \in DOMAIN setup.index, Below(k, m)
        PROVE  /\ SubSeq(k, 1, Len(m) + 1) \in trie
               /\ Len(SubSeq(k, 1, Len(m) + 1)) = Len(m) + 1
               /\ Starts(SubSeq(k, 1, Len(m) + 1), m)
               /\ SubSeq(k, 1, Len(m) + 1)[Len(m) + 1] = k[Len(m) + 1]
    <2> DEFINE n == Len(m) + 1
               q == SubSeq(k, 1, n)
    <2>1. k \in Seq(S) BY KeyFacts
    <2>2. n \in 1..Len(k) BY <1>0, <1>1, <2>1 DEF Below
    <2>3. q \in Prefixes(k) BY <2>2 DEF Prefixes
    <2>4. q \in Seq(S) /\ Len(q) = n /\ \A i \in 1..n : q[i] = k[i] BY <2>1, <2>2, FirstOnes
    <2>5. Agree(k, m) BY <1>1, <2>1, StartsAgree DEF Below
    <2> HIDE DEF q
    <2>6. Agree(q, m) BY <1>0, <2>4, <2>5 DEF Agree
    <2>7. Starts(q, m) BY <2>4, <2>6, StartsAgree
    <2>8. n \in 1..n BY <1>0
    <2>9. q[n] = k[n] BY <2>4, <2>8
    <2> QED BY <2>3, <2>4, <2>7, <2>9 DEF Full, q
  <1>2. ASSUME NEW q \in trie, Len(q) = Len(m) + 1, Starts(q, m)
        PROVE  \E k \in DOMAIN setup.index : Below(k, m) /\ k[Len(m) + 1] = q[Len(q)]
    <2>1. PICK k \in DOMAIN setup.index : q \in Prefixes(k) BY DEF Full
    <2>2. k \in Seq(S) BY <2>1, KeyFacts
    <2>3. PICK n \in 1..Len(k) : q = SubSeq(k, 1, n) BY <2>1 DEF Prefixes
    <2>4. q \in Seq(S) /\ Len(q) = n /\ \A i \in 1..n : q[i] = k[i] BY <2>2, <2>3, FirstOnes
    <2>5. Agree(q, m) BY <1>2, <2>4, StartsAgree
    <2>6. n = Len(m) + 1 /\ n <= Len(k) /\ Len(k) \in Nat BY <1>2, <2>2, <2>4
    <2> HIDE DEF Prefixes
    <2>7. Agree(k, m) BY <1>0, <2>4, <2>5, <2>6 DEF Agree
    <2>8. Starts(k, m) /\ Len(k) > Len(m) BY <1>0, <2>2, <2>6, <2>7, StartsAgree
    <2>9. n \in 1..n BY <1>0, <2>6
    <2>10. k[n] = q[n] BY <2>4, <2>9
    <2> QED BY <2>4, <2>6, <2>8, <2>10 DEF Below
  <1>3. ASSUME NEW e \in TrieNames(m) PROVE e \in TreeNames(m)
    <2>1. PICK q \in trie : Len(q) = Len(m) + 1 /\ Starts(q, m) /\ e = q[Len(q)] BY <1>3 DEF TrieNames
    <2>2. \E k \in DOMAIN setup.index : Below(k, m) /\ k[Len(m) + 1] = q[Len(q)] BY <1>2, <2>1
    <2> QED BY <2>1, <2>2 DEF TreeNames
  <1>4. ASSUME NEW e \in TreeNames(m) PROVE e \in TrieNames(m)
    <2>1. PICK k \in DOMAIN setup.index : Below(k, m) /\ e = k[Len(m) + 1] BY <1>4 DEF TreeNames
    <2> DEFINE q == SubSeq(k, 1, Len(m) + 1)
    <2>2. q \in trie /\ Len(q) = Len(m) + 1 /\ Starts(q, m) /\ q[Len(m) + 1] = k[Len(m) + 1] BY <1>1, <2>1
    <2> HIDE DEF q
    <2> QED BY <2>1, <2>2 DEF TrieNames
  <1> QED BY <1>3, <1>4

\* What an entry is said to be: in a manifest, what has no target is a directory that keys lie below,
\* or an empty runfile.
LEMMA EntryShown ==
    ASSUME Links, NEW S, Segment \subseteq S, NEW m \in Seq(S), NEW e \in TreeNames(m)
    PROVE  /\ Append(m, e) \in Seq(S)
           /\ EntryKind(Append(m, e)) = KindShown(Append(m, e))
           /\ Append(m, e) \notin DOMAIN setup.index => TreeKind(Append(m, e)) = "dir"
  <1> DEFINE p == Append(m, e)
  <1>1. PICK k \in DOMAIN setup.index : Below(k, m) /\ e = k[Len(m) + 1] BY DEF TreeNames
  <1>2. k \in Seq(S) /\ Len(k) \in Nat /\ Len(m) \in Nat
    <2>1. k \in Seq(S) BY KeyFacts
    <2> QED BY <2>1
  <1>3. Starts(k, m) /\ Len(m) + 1 \in 1..Len(k) BY <1>1, <1>2 DEF Below
  <1>4. e \in S BY <1>1, <1>2, <1>3
  <1>5. p \in Seq(S) /\ Len(p) = Len(m) + 1 /\ p[Len(m) + 1] = e /\ \A i \in 1..Len(m) : p[i] = m[i] BY <1>4
  <1> HIDE DEF p
  <1>6. Agree(k, m) BY <1>2, <1>3, StartsAgree
  <1>7. Agree(k, p)
    <2> SUFFICES ASSUME NEW i \in 1..Len(p) PROVE p[i] = k[i]
      BY <1>2, <1>3, <1>5 DEF Agree
    <2>1. CASE i = Len(m) + 1 BY <1>1, <1>5, <2>1
    <2>2. CASE i # Len(m) + 1
      <3>1. i \in 1..Len(m) BY <1>2, <1>5, <2>2
      <3> QED BY <1>5, <1>6, <3>1 DEF Agree
    <2> QED BY <2>1, <2>2
  <1>8. Starts(k, p) /\ p # <<>> BY <1>2, <1>5, <1>7, StartsAgree
  <1>9. ASSUME p \notin DOMAIN setup.index PROVE TreeKind(p) = "dir"
    <2>1. ASSUME NEW j \in DOMAIN setup.index, Starts(p, j) PROVE FALSE
      <3>1. j \in Seq(S) /\ Len(j) \in Nat
        <4>1. j \in Seq(S) BY KeyFacts
        <4> QED BY <4>1
      <3>2. Agree(p, j) BY <1>5, <2>1, <3>1, StartsAgree
      <3>3. Agree(k, j) BY <1>2, <1>5, <1>7, <3>1, <3>2 DEF Agree
      <3>4. j = k
        <4>1. Starts(k, j) BY <1>2, <3>1, <3>3, StartsAgree
        <4> QED BY <4>1 DEF Links
      <3>5. Len(p) = Len(k) /\ \A i \in 1..Len(p) : p[i] = k[i] BY <1>2, <1>5, <1>7, <3>2, <3>4 DEF Agree
      <3>6. p = k BY <1>2, <1>5, <3>5, SeqEqual
      <3> QED BY <1>9, <3>6
    <2>2. p \in Full
      <3>1. p \in Prefixes(k) BY <1>2, <1>5, <1>8, PrefixesFacts
      <3> QED BY <3>1 DEF Full
    <2> HIDE DEF Links, Full
    <2>3. TreeKind(p) = IF p \in Full THEN "dir" ELSE NotExist BY <1>5, <1>8, <2>1, TreeFacts
    <2> QED BY <2>2, <2>3
  <1>10. EntryKind(p) = KindShown(p)
    <2>1. CASE object = "directory" BY <2>1 DEF EntryKind, KindShown
    <2>4. CASE object # "directory" /\ p \in DOMAIN setup.index /\ setup.index[p] = Empty
      BY <2>4 DEF EntryKind, KindShown
    <2>2. CASE object # "directory" /\ p \in DOMAIN setup.index /\ setup.index[p] # Empty
      <3>1. EntryKind(p) = OSKind(setup.index[p], <<>>) BY <2>2 DEF EntryKind
      <3>2. Starts(p, p) BY <1>5, StartsSelf
      <3>3. Rest(p, p) = <<>> BY <1>5 DEF Rest
      <3> HIDE DEF Links
      <3>4. TreeKind(p) = OSKind(setup.index[p], Rest(p, p)) BY <1>5, <2>2, <3>2, TreeFacts
      <3> QED BY <2>2, <3>1, <3>3, <3>4 DEF KindShown
    <2>3. CASE object # "directory" /\ p \notin DOMAIN setup.index BY <1>9, <2>3 DEF EntryKind, KindShown
    <2> QED BY <2>1, <2>2, <2>3, <2>4
  <1> QED BY <1>5, <1>9, <1>10 DEF p

\* The entries of a directory: one for each of its names.
LEMMA EntryFacts ==
    ASSUME NEW m, NEW N
    PROVE  /\ \A a \in Entries(m, N) : /\ a.name \in N /\ a.at = Append(m, a.name)
                                       /\ a.kind = EntryKind(Append(m, a.name))
                                       /\ a = [name |-> a.name, at |-> a.at, kind |-> a.kind]
           /\ \A d \in N : \E a \in Entries(m, N) : a.name = d
  <1> DEFINE Entry(d) == [name |-> d, at |-> Append(m, d), kind |-> EntryKind(Append(m, d))]
  <1>1. Entries(m, N) = {Entry(d) : d \in N} BY DEF Entries
  <1>2. \A d : Entry(d).name = d /\ Entry(d).at = Append(m, d) /\ Entry(d).kind = EntryKind(Append(m, d))
               /\ Entry(d) = [name |-> Entry(d).name, at |-> Entry(d).at, kind |-> Entry(d).kind]
    OBVIOUS
  <1> HIDE DEF Entry
  <1> QED BY <1>1, <1>2

\* A directory is listed as it is in the tree.
LEMMA PlainEntries ==
    ASSUME Links, NEW S, Segment \subseteq S, NEW m \in Seq(S), NEW s
    PROVE  ListedRight(FALSE, s, m, Entries(m, TreeNames(m)))
  <1> DEFINE A == Entries(m, TreeNames(m))
  <1>1. /\ \A a \in A : /\ a.name \in TreeNames(m) /\ a.at = Append(m, a.name)
                        /\ a.kind = EntryKind(Append(m, a.name))
        /\ \A d \in TreeNames(m) : \E a \in A : a.name = d
    BY EntryFacts
  <1> HIDE DEF A
  <1>2. ASSUME NEW d \in TreeNames(m) PROVE NamesOf(A, m, d) = {d}
    <2> HIDE DEF TreeNames
    <2>1. \A c \in TreeNames(m) : Append(m, c)[Len(m) + 1] = c
      <3>1. \A c : Append(m, c)[Len(m) + 1] = c OBVIOUS
      <3> QED BY <3>1
    <2>2. \A a \in A : a.at = Append(m, d) => a.name = d BY <1>1, <2>1
    <2> QED BY <1>1, <2>2 DEF NamesOf
  <1>3. ASSUME NEW a \in A
        PROVE  /\ \E d \in TreeNames(m) : a.at = Append(m, d)
               /\ a.kind = KindShown(Append(m, a.name))
    <2> DEFINE e == a.name
    <2>1. e \in TreeNames(m) /\ a.kind = EntryKind(Append(m, e)) /\ a.at = Append(m, e) BY <1>1
    <2> HIDE DEF e, Links
    <2>2. EntryKind(Append(m, e)) = KindShown(Append(m, e)) BY <2>1, EntryShown
    <2> HIDE DEF TreeNames
    <2> QED BY <2>1, <2>2 DEF e
  <1> HIDE DEF TreeNames
  <1>4. ListedRight(FALSE, s, m, A) BY <1>2, <1>3 DEF ListedRight
  <1> QED BY <1>4 DEF A

\* A root entry that no line speaks against is what it is called; a directory a line leads to is one.
LEMMA RootFacts ==
    ASSUME Links, BazelNames, NEW s, Mapping(s), NEW d \in RootNames
    PROVE  /\ EntryKind(<<d>>) = KindShown(<<d>>)
           /\ InTree(s, <<d>>) = <<d>>
           /\ d # NoRepo
           /\ \A to : Leads(s, to) = d =>
                 InTree(s, <<to>>) = <<d>> /\ EntryKind(<<d>>) = "dir"
  <1>0. \A x : Append(<<>>, x) = <<x>> /\ Tail(<<x>>) = <<>> /\ <<x>>[1] = x /\ <<x>> \o <<>> = <<x>> OBVIOUS
  <1>1. /\ EntryKind(<<d>>) = KindShown(<<d>>)
        /\ <<d>> \notin DOMAIN setup.index => TreeKind(<<d>>) = "dir"
    <2>1. <<>> \in Seq(Segment) /\ Segment \subseteq Segment OBVIOUS
    <2>2. d \in TreeNames(<<>>) BY DEF RootNames
    <2> HIDE DEF Links, TreeNames
    <2>3. /\ EntryKind(Append(<<>>, d)) = KindShown(Append(<<>>, d))
          /\ Append(<<>>, d) \notin DOMAIN setup.index => TreeKind(Append(<<>>, d)) = "dir"
      BY <2>1, <2>2, EntryShown
    <2> QED BY <1>0, <2>3
  <1>2. d # NoRepo BY DEF BazelNames
  <1>3. InTree(s, <<d>>) = <<d>>
    <2>1. CASE Leads(s, d) = NoRepo BY <1>0, <2>1 DEF InTree
    <2>2. CASE Leads(s, d) # NoRepo
      <3>1. PICK n \in DOMAIN setup.lines : Line(n).to = d /\ Line(n).dir = Leads(s, d) BY <2>2, LeadsByLine
      <3>2. Leads(s, d) = d BY <3>1 DEF BazelNames
      <3> QED BY <1>0, <2>2, <3>2 DEF InTree
    <2> QED BY <2>1, <2>2
  <1>4. ASSUME NEW to, Leads(s, to) = d
        PROVE  InTree(s, <<to>>) = <<d>> /\ EntryKind(<<d>>) = "dir"
    <2>1. PICK n \in DOMAIN setup.lines : Line(n).to = to /\ Line(n).dir = d BY <1>2, <1>4, LeadsByLine
    <2>2. <<d>> \notin DOMAIN setup.index BY <2>1 DEF BazelNames
    <2>3. InTree(s, <<to>>) = <<d>> BY <1>0, <1>2, <1>4 DEF InTree
    <2> QED BY <1>1, <2>2, <2>3 DEF KindShown
  <1> QED BY <1>1, <1>2, <1>3, <1>4

\* The root lists all that is in it, and each repository also by one of the names that lead to it.
LEMMA RootRight ==
    ASSUME Links, BazelNames, NEW s, Mapping(s), NEW all \in RootEntries(s, Entries(<<>>, RootNames))
    PROVE  ListedRight(TRUE, s, <<>>, all)
  <1> DEFINE real == Entries(<<>>, RootNames)
             dirs == {e \in real : e.kind = "dir" /\ Apparent(s, e.name) # {}}
  <1>0. \A x : Append(<<>>, x) = <<x>> OBVIOUS
  <1>1. /\ \A e \in real : /\ e.name \in RootNames /\ e.at = <<e.name>> /\ e.kind = EntryKind(<<e.name>>)
                           /\ e = [name |-> e.name, at |-> e.at, kind |-> e.kind]
        /\ \A d \in RootNames : \E e \in real : e.name = d
    <2>1. /\ \A e \in real : /\ e.name \in RootNames /\ e.at = Append(<<>>, e.name)
                             /\ e.kind = EntryKind(Append(<<>>, e.name))
                             /\ e = [name |-> e.name, at |-> e.at, kind |-> e.kind]
          /\ \A d \in RootNames : \E e \in real : e.name = d
      BY EntryFacts
    <2> HIDE DEF real
    <2> QED BY <1>0, <2>1
  <1>2. PICK x \in Renamed(s, real) : all = real \cup {y \in x : <<y.name>> # y.at} BY DEF RootEntries
  <1> HIDE DEF real
  <1>3. PICK f : x = {[e EXCEPT !.name = f[e]] : e \in dirs} /\ \A e \in dirs : f[e] \in Apparent(s, e.name)
    BY DEF Renamed
  <1>4. ASSUME NEW e \in dirs
        PROVE  LET y == [e EXCEPT !.name = f[e]]
               IN  /\ y.name = f[e] /\ y.at = <<e.name>> /\ y.kind = "dir"
                   /\ e.name \in RootNames /\ f[e] \in NamesFor(s, e.name)
    <2>1. e \in real /\ e.kind = "dir" OBVIOUS
    <2>2. e = [name |-> e.name, at |-> e.at, kind |-> e.kind] /\ e.name \in RootNames /\ e.at = <<e.name>>
      BY <1>1, <2>1
    <2> HIDE DEF dirs
    <2>3. e.name # NoRepo BY <2>2, RootFacts
    <2>4. Apparent(s, e.name) = NamesFor(s, e.name) BY <2>3, ApparentNames
    <2>5. f[e] \in NamesFor(s, e.name) BY <1>3, <2>4
    <2> QED BY <2>1, <2>2, <2>5
  <1>5. ASSUME NEW e \in dirs, NEW d \in RootNames, e.at = <<d>> PROVE e.name = d
    <2>1. e.at = <<e.name>> BY <1>1 DEF dirs
    <2> QED BY <1>5, <2>1
  <1>6. ASSUME NEW d \in RootNames
        PROVE  /\ NamesFor(s, d) = {} => NamesOf(all, <<>>, d) = {d}
               /\ NamesFor(s, d) # {} => \E to \in NamesFor(s, d) : NamesOf(all, <<>>, d) = {d, to}
    <2>1. PICK r \in real : r.name = d /\ r.at = <<d>> BY <1>1
    <2>2. \A e \in real : e.at = <<d>> => e.name = d /\ e = r
      <3> SUFFICES ASSUME NEW e \in real, e.at = <<d>> PROVE e.name = d /\ e = r
        OBVIOUS
      <3>1. e.name = d
        <4>1. e.at = <<e.name>> BY <1>1
        <4> QED BY <4>1
      <3>2. e.kind = EntryKind(<<d>>) /\ e.at = <<d>> /\ e = [name |-> e.name, at |-> e.at, kind |-> e.kind]
        BY <1>1, <3>1
      <3>3. r.kind = EntryKind(<<d>>) /\ r.at = <<d>> /\ r = [name |-> r.name, at |-> r.at, kind |-> r.kind]
        BY <1>1, <2>1
      <3>4. e = [name |-> d, at |-> <<d>>, kind |-> EntryKind(<<d>>)] BY <3>1, <3>2, Zenon
      <3>5. r = [name |-> d, at |-> <<d>>, kind |-> EntryKind(<<d>>)] BY <2>1, <3>3, Zenon
      <3> QED BY <3>1, <3>4, <3>5, Zenon
    <2>3. NamesOf(all, <<>>, d) = {d} \cup {y.name : y \in {z \in x : z.at = <<d>> /\ <<z.name>> # z.at}}
      BY <1>0, <1>2, <2>1, <2>2 DEF NamesOf
    <2>4. ASSUME NEW y \in x, y.at = <<d>> PROVE r \in dirs /\ y = [r EXCEPT !.name = f[r]]
      <3>1. PICK e \in dirs : y = [e EXCEPT !.name = f[e]] BY <1>3
      <3>2. e \in real /\ y.at = <<e.name>> /\ e.at = <<e.name>>
        <4>1. e \in real BY DEF dirs
        <4> QED BY <1>1, <1>4, <3>1, <4>1
      <3>3. e.at = <<d>> BY <2>4, <3>2
      <3>4. e = r BY <2>2, <3>2, <3>3
      <3> QED BY <3>1, <3>4
    <2>5. CASE NamesFor(s, d) = {}
      <3>1. r \notin dirs BY <1>4, <2>1, <2>5
      <3>2. {z \in x : z.at = <<d>> /\ <<z.name>> # z.at} = {} BY <2>4, <3>1
      <3> QED BY <2>3, <2>5, <3>2
    <2>6. CASE NamesFor(s, d) # {}
      <3>1. PICK to : Leads(s, to) = d BY <2>6 DEF NamesFor
      <3>2. EntryKind(<<d>>) = "dir" /\ d # NoRepo BY <3>1, RootFacts
      <3>3. Apparent(s, d) = NamesFor(s, d) BY <3>2, ApparentNames
      <3>4. r \in dirs
        <4>1. r.kind = "dir" BY <1>1, <2>1, <3>2
        <4> QED BY <2>1, <2>6, <3>3, <4>1 DEF dirs
      <3> DEFINE y == [r EXCEPT !.name = f[r]]
      <3>5. y \in x BY <1>3, <3>4
      <3>6. y.name = f[r] /\ y.at = <<d>> /\ f[r] \in NamesFor(s, d) BY <1>4, <2>1, <3>4
      <3> HIDE DEF y
      <3>7. \A z \in x : z.at = <<d>> => z = y BY <2>4 DEF y
      <3>8. {z.name : z \in {z \in x : z.at = <<d>> /\ <<z.name>> # z.at}} = IF <<f[r]>> # <<d>> THEN {f[r]} ELSE {}
        BY <3>5, <3>6, <3>7
      <3>9. NamesOf(all, <<>>, d) = {d, f[r]}
        <4>1. CASE <<f[r]>> # <<d>> BY <2>3, <3>8, <4>1
        <4>2. CASE <<f[r]>> = <<d>>
          <5>1. f[r] = d BY <4>2
          <5> QED BY <2>3, <3>8, <4>2, <5>1
        <4> QED BY <4>1, <4>2
      <3> QED BY <2>6, <3>6, <3>9
    <2> QED BY <2>5, <2>6
  <1>7. ASSUME NEW e \in all
        PROVE  /\ \E d \in RootNames : e.at = <<d>>
               /\ e.kind = KindShown(InTree(s, <<e.name>>))
    <2>1. CASE e \in real
      <3> DEFINE d == e.name
      <3>1. d \in RootNames /\ e.at = <<d>> /\ e.kind = EntryKind(<<d>>) BY <1>1, <2>1
      <3> HIDE DEF d
      <3>2. EntryKind(<<d>>) = KindShown(<<d>>) /\ InTree(s, <<d>>) = <<d>> BY <3>1, RootFacts
      <3> QED BY <3>1, <3>2 DEF d
    <2>2. CASE e \in x
      <3>1. PICK r \in dirs : e = [r EXCEPT !.name = f[r]] BY <1>3, <2>2
      <3> DEFINE d == r.name
                 to == e.name
      <3>2. d \in RootNames /\ e.at = <<d>> /\ e.kind = "dir" /\ to \in NamesFor(s, d) BY <1>4, <3>1
      <3> HIDE DEF d, to
      <3>3. Leads(s, to) = d BY <3>2 DEF NamesFor
      <3>4. InTree(s, <<to>>) = <<d>> /\ EntryKind(<<d>>) = "dir" /\ EntryKind(<<d>>) = KindShown(<<d>>)
        BY <3>2, <3>3, RootFacts
      <3> QED BY <3>2, <3>4 DEF to
    <2> QED BY <1>2, <2>1, <2>2
  <1> HIDE DEF dirs
  <1> QED BY <1>0, <1>6, <1>7 DEF ListedRight, RootNames

\* What a single user has open stays right of the tree when it moves.
LEMMA ListNext ==
    ASSUME TypeInv, ObjectInv, TrieInv, NEW g \in Goroutine, CallInv(g), Alone(g),
           DOMAIN handle = Goroutine, BazelNames, DirOfUser(g), Step(g)
    PROVE  DirOfUser(g)'
  <1>1. Frame(g) BY OneMoves
  <1>2. setup' = setup /\ object' = object /\ DOMAIN pc = Goroutine BY <1>1 DEF Frame, TypeInv
  <1>3. \A h : DirInv(h)' = DirInv(h) BY <1>2, SameNames
  <1>4. Links /\ setup.names \subseteq Path BY SetupFacts
  <1>5. PICK h : handle[g] = h /\ (h # Nil => DirInv(h)) BY DEF DirOfUser
  <1>6. \A s \in setup.sources : object \in {"manifest", "directory"} => Mapping(s) BY MappingFacts
  <1>7. ASSUME NEW k, handle' = [handle EXCEPT ![g] = k], k # Nil => DirInv(k), call'[g].op = "open", pc'[g] # "root"
        PROVE  DirOfUser(g)'
    <2>1. handle'[g] = k BY <1>7
    <2>2. \E x : handle'[g] = x /\ (x # Nil => DirInv(x)') BY <1>3, <1>7, <2>1
    <2> HIDE DEF DirInv
    <2> QED BY <1>7, <2>2 DEF DirOfUser
  <1>8. ASSUME handle' = handle, pc'[g] \notin {"trie", "make", "build", "lookup", "root"} PROVE DirOfUser(g)'
    <2>2. \E x : handle'[g] = x /\ (x # Nil => DirInv(x)') BY <1>3, <1>5, <1>8
    <2> HIDE DEF DirInv
    <2> QED BY <1>8, <2>2 DEF DirOfUser
  <1>9. ASSUME handle' = handle, call' = call, pc[g] \in {"trie", "make", "build", "lookup"},
               pc'[g] \in {"trie", "make", "build", "lookup"}
        PROVE  DirOfUser(g)'
    <2>2. \E x : handle'[g] = x /\ (x # Nil => DirInv(x)') BY <1>3, <1>5, <1>9
    <2>3. pc'[g] # "root" BY <1>9
    <2>4. call[g].op # "open" => handle[g] # Nil /\ ~handle[g].loaded /\ object = "manifest" BY <1>9 DEF DirOfUser
    <2> HIDE DEF DirInv
    <2> QED BY <1>2, <1>9, <2>2, <2>3, <2>4 DEF DirOfUser
  <1>10. ASSUME NEW s, NEW m, NEW A, ListedRight(FALSE, s, m, A) PROVE DirInv(Dir(FALSE, s, m, TRUE, A))
    <2> DEFINE k == Dir(FALSE, s, m, TRUE, A)
    <2>1. k = [root |-> FALSE, source |-> s, dir |-> m, loaded |-> TRUE, left |-> A, listed |-> {}, lost |-> FALSE]
      BY DEF Dir
    <2> HIDE DEF k
    <2>2. /\ IsDir(k) /\ k.root = FALSE /\ k.source = s /\ k.dir = m /\ k.loaded = TRUE /\ k.left = A
          /\ k.listed = {} /\ k.lost = FALSE
      BY <2>1 DEF IsDir
    <2>3. k.left \cup k.listed = A BY <2>2
    <2>4. ListedRight(k.root, k.source, k.dir, k.left \cup k.listed) BY <1>10, <2>2, <2>3
    <2>5. DirInv(k) BY <2>2, <2>4 DEF DirInv
    <2> QED BY <2>5 DEF k
  <1>11. CASE Rlocation(g) \/ OpenZero(g)
    <2>1. handle' = handle /\ pc'[g] = "idle" BY <1>11 DEF Rlocation, OpenZero, Idle
    <2> QED BY <1>8, <2>1
  <1>12. CASE OpenRoot(g)
    <2>1. PICK s \in setup.sources : /\ Answer(g, "open", s, <<".">>, <<>>, "dir")
                                     /\ handle' = [handle EXCEPT ![g] = Dir(TRUE, s, <<>>, FALSE, {})]
      BY <1>12 DEF OpenRoot
    <2> DEFINE c == [op |-> "open", source |-> s, name |-> <<".">>, mapped |-> <<>>, answer |-> "dir"]
               k == Dir(TRUE, s, <<>>, FALSE, {})
    <2>2. call'[g] = c BY <2>1, AnswerFacts
    <2>3. call'[g].op = "open" BY <2>2
    <2>4. pc'[g] = "idle" BY <1>12 DEF OpenRoot, Idle
    <2>5. k = [root |-> TRUE, source |-> s, dir |-> <<>>, loaded |-> FALSE, left |-> {}, listed |-> {},
               lost |-> FALSE]
      BY DEF Dir
    <2>6. handle' = [handle EXCEPT ![g] = k] BY <2>1
    <2> HIDE DEF k
    <2>7. /\ IsDir(k) /\ k.root = TRUE /\ k.source = s /\ k.dir = <<>> /\ k.loaded = FALSE /\ k.listed = {}
      BY <2>5 DEF IsDir
    <2>8. DirInv(k) BY <2>7 DEF DirInv
    <2> QED BY <1>7, <2>3, <2>4, <2>6, <2>8
  <1>13. CASE OpenInDirectory(g)
    <2>0. object = "directory" /\ pc'[g] = "idle" BY <1>13 DEF OpenInDirectory, Idle
    <2>1. PICK s \in setup.sources, n \in setup.names :
             /\ Answer(g, "open", s, n, Mapped(s, n), TreeKind(Mapped(s, n)))
             /\ handle' = [handle EXCEPT ![g] = IF TreeNames(Mapped(s, n)) = {} THEN Nil
                              ELSE Dir(FALSE, s, Mapped(s, n), TRUE, Entries(Mapped(s, n), TreeNames(Mapped(s, n))))]
      BY <1>13 DEF OpenInDirectory
    <2> DEFINE m == Mapped(s, n)
               a == TreeKind(m)
               A == Entries(m, TreeNames(m))
               k == IF TreeNames(m) = {} THEN Nil ELSE Dir(FALSE, s, m, TRUE, A)
               S == Segment \cup {Leads(s, n[1])}
    <2>2. m = InTree(s, n) BY <1>6, <2>0, MappedInTree
    <2>3. m \in Seq(S) BY <1>4, <2>2, MappedPath
    <2>4. Answer(g, "open", s, n, m, a) /\ handle' = [handle EXCEPT ![g] = k] BY <2>1
    <2> HIDE DEF m, a, S
    <2>5. call'[g] = [op |-> "open", source |-> s, name |-> n, mapped |-> m, answer |-> a] BY <2>4, AnswerFacts
    <2>6. call'[g].op = "open" BY <2>5
    <2>7. Segment \subseteq S BY DEF S
    <2> HIDE DEF Links, TreeNames
    <2>8. ListedRight(FALSE, s, m, A) BY <1>4, <2>3, <2>7, PlainEntries
    <2> HIDE DEF A
    <2>9. DirInv(Dir(FALSE, s, m, TRUE, A)) BY <1>10, <2>8
    <2>10. k # Nil => DirInv(k) BY <2>9
    <2> HIDE DEF k
    <2> QED BY <1>7, <2>0, <2>4, <2>6, <2>10
  <1>14. CASE OpenInManifest(g)
    <2>1. \E s, n, m, a, t : /\ Answer(g, "open", s, n, m, a) /\ pc' = [pc EXCEPT ![g] = t]
                             /\ t \in {"trie", "idle"}
      BY <1>14 DEF OpenInManifest
    <2>2. PICK s, n, m, a, t : /\ Answer(g, "open", s, n, m, a) /\ pc' = [pc EXCEPT ![g] = t]
                               /\ t \in {"trie", "idle"}
      BY <2>1
    <2>3. call'[g] = [op |-> "open", source |-> s, name |-> n, mapped |-> m, answer |-> a] BY <2>2, AnswerFacts
    <2>4. call'[g].op = "open" BY <2>3
    <2>5. pc'[g] # "root" BY <1>2, <2>2
    <2>6. handle' = [handle EXCEPT ![g] = Nil] BY <1>14 DEF OpenInManifest
    <2> QED BY <1>7, <2>4, <2>5, <2>6
  <1>15. CASE ReadRoot(g)
    <2>1. /\ handle' = handle /\ handle[g] # Nil /\ ~handle[g].loaded
          /\ object \in {"zero", "manifest", "directory"}
      BY <1>15 DEF ReadRoot, Idle
    <2> DEFINE t == CASE object = "zero" -> "idle" [] object = "manifest" -> "trie" [] object = "directory" -> "root"
    <2>2. /\ t \in {"idle", "trie", "root"}
          /\ t = "trie" => object = "manifest"
          /\ t = "root" => object = "directory"
      BY <2>1
    <2>3. pc' = [pc EXCEPT ![g] = t] BY <1>15 DEF ReadRoot
    <2> HIDE DEF t
    <2>4. pc'[g] = t BY <1>2, <2>3
    <2>5. \E x : handle'[g] = x /\ (x # Nil => DirInv(x)') BY <1>3, <1>5, <2>1
    <2> HIDE DEF DirInv
    <2> QED BY <1>2, <2>1, <2>2, <2>4, <2>5 DEF DirOfUser
  <1>16. CASE CheckTrie(g) \/ MakeTrie(g) \/ InsertKey(g) \/ TrieBuilt(g)
    <2>1. handle' = handle /\ call' = call /\ pc[g] \in {"trie", "make", "build", "lookup"}
      BY <1>16 DEF CheckTrie, MakeTrie, InsertKey, TrieBuilt
    <2>2. \/ pc' = [pc EXCEPT ![g] = "make"] \/ pc' = [pc EXCEPT ![g] = "build"]
          \/ pc' = [pc EXCEPT ![g] = "lookup"] \/ pc' = pc
      BY <1>16 DEF CheckTrie, MakeTrie, InsertKey, TrieBuilt
    <2>3. pc'[g] \in {"trie", "make", "build", "lookup"} BY <1>2, <2>1, <2>2
    <2> QED BY <1>9, <2>1, <2>3
  <1>17. CASE LookupDir(g)
    <2>1. /\ pc[g] = "lookup" /\ call[g].op = "open" /\ pc'[g] = "idle"
          /\ Answered(g, IF call[g].mapped \in trie THEN "dir" ELSE NotExist)
          /\ handle' = [handle EXCEPT ![g] =
                IF call[g].mapped \in trie
                THEN Dir(FALSE, call[g].source, call[g].mapped, TRUE,
                         Entries(call[g].mapped, TrieNames(call[g].mapped)))
                ELSE Nil]
      BY <1>2, <1>17 DEF LookupDir
    <2> DEFINE a == IF call[g].mapped \in trie THEN "dir" ELSE NotExist
    <2>2. Answered(g, a) BY <2>1
    <2> HIDE DEF a
    <2>3. call'[g] = [op |-> call[g].op, source |-> call[g].source, name |-> call[g].name,
                      mapped |-> call[g].mapped, answer |-> a]
      BY <2>2, AnsweredFacts
    <2>4. call'[g].op = "open" BY <2>1, <2>3
    <2>5. trie = Full BY <2>1 DEF TrieInv
    <2>6. PICK s \in setup.sources, n \in setup.names : call[g].source = s /\ call[g].mapped = InTree(s, n)
      BY <2>1 DEF CallInv
    <2> DEFINE m == InTree(s, n)
               A == Entries(m, TreeNames(m))
               k == IF m \in trie THEN Dir(FALSE, s, m, TRUE, Entries(m, TrieNames(m))) ELSE Nil
               S == Segment \cup {Leads(s, n[1])}
    <2>7. m \in Seq(S) BY <1>4, MappedPath
    <2>8. Segment \subseteq S OBVIOUS
    <2>9. handle' = [handle EXCEPT ![g] = k] BY <2>1, <2>6
    <2> HIDE DEF m, S, Links, Full, TreeNames, TrieNames
    <2>10. ListedRight(FALSE, s, m, A) BY <1>4, <2>7, <2>8, PlainEntries
    <2>11. TrieNames(m) = TreeNames(m) BY <1>4, <2>5, <2>7, <2>8, TrieIsTree
    <2>12. k = IF m \in trie THEN Dir(FALSE, s, m, TRUE, A) ELSE Nil BY <2>11
    <2> HIDE DEF A, k
    <2>13. DirInv(Dir(FALSE, s, m, TRUE, A)) BY <1>10, <2>10
    <2>14. k # Nil => DirInv(k) BY <2>12, <2>13
    <2> QED BY <1>7, <2>1, <2>4, <2>9, <2>14
  <1>18. CASE InitEntries(g)
    <2> DEFINE real == Entries(<<>>, IF object = "manifest" THEN TrieNames(<<>>) ELSE TreeNames(<<>>))
    <2>1. /\ call[g].op = "list" /\ pc[g] \in {"lookup", "root"}
          /\ \/ handle' = handle /\ pc' = [pc EXCEPT ![g] = "idle"]
             \/ /\ \E all \in RootEntries(handle[g].source, real) :
                      handle' = [handle EXCEPT ![g].loaded = TRUE, ![g].left = all]
                /\ pc' = [pc EXCEPT ![g] = "page"]
      BY <1>18 DEF InitEntries
    <2>2. CASE handle' = handle /\ pc' = [pc EXCEPT ![g] = "idle"]
      <3>1. pc'[g] = "idle" BY <1>2, <2>2
      <3> QED BY <1>8, <2>2, <3>1
    <2>3. CASE /\ \E all \in RootEntries(handle[g].source, real) :
                     handle' = [handle EXCEPT ![g].loaded = TRUE, ![g].left = all]
               /\ pc' = [pc EXCEPT ![g] = "page"]
      <3>1. pc'[g] = "page" BY <1>2, <2>3
      <3>2. h # Nil /\ ~h.loaded /\ object \in {"manifest", "directory"} BY <1>5, <2>1 DEF DirOfUser
      <3>3. IsDir(h) /\ h.root = TRUE /\ h.listed = {} /\ h.dir = <<>> /\ h.source \in setup.sources
        BY <1>5, <3>2 DEF DirInv
      <3>4. real = Entries(<<>>, TreeNames(<<>>))
        <4>1. CASE object # "manifest" BY <4>1
        <4>2. CASE object = "manifest"
          <5>1. pc[g] = "lookup" BY <2>1, <4>2 DEF DirOfUser
          <5>2. trie = Full BY <5>1 DEF TrieInv
          <5>3. <<>> \in Seq(Segment) /\ Segment \subseteq Segment OBVIOUS
          <5> HIDE DEF Links, Full
          <5>4. TrieNames(<<>>) = TreeNames(<<>>) BY <1>4, <5>2, <5>3, TrieIsTree
          <5> QED BY <4>2, <5>4
        <4> QED BY <4>1, <4>2
      <3> HIDE DEF real
      <3>5. PICK all \in RootEntries(h.source, real) :
               handle' = [handle EXCEPT ![g].loaded = TRUE, ![g].left = all]
        BY <1>5, <2>3
      <3> HIDE DEF Links, TreeNames, RootEntries
      <3>6. all \in RootEntries(h.source, Entries(<<>>, TreeNames(<<>>))) BY <3>4, <3>5
      <3>7. Mapping(h.source) BY <1>6, <3>2, <3>3
      <3>8. ListedRight(TRUE, h.source, <<>>, all) BY <1>4, <3>6, <3>7, RootRight DEF RootNames
      <3> DEFINE k == [h EXCEPT !.loaded = TRUE, !.left = all]
      <3>12. handle'[g] = k BY <1>5, <3>5
      <3>13. /\ DOMAIN k = DOMAIN h /\ k.root = h.root /\ k.source = h.source /\ k.dir = h.dir
             /\ k.loaded = TRUE /\ k.left = all /\ k.listed = h.listed
        BY <3>3 DEF IsDir
      <3> HIDE DEF k
      <3>14. /\ IsDir(k) /\ k.root = TRUE /\ k.source = h.source /\ k.dir = <<>> /\ k.loaded = TRUE
             /\ k.left = all /\ k.listed = {}
        BY <3>3, <3>13 DEF IsDir
      <3>15. k.left \cup k.listed = all BY <3>14
      <3>17. ListedRight(k.root, k.source, k.dir, k.left \cup k.listed) BY <3>8, <3>14, <3>15
      <3>18. DirInv(k) BY <3>14, <3>17 DEF DirInv
      <3>19. \E x : handle'[g] = x /\ (x # Nil => DirInv(x)') BY <1>3, <3>12, <3>18
      <3>20. pc'[g] \notin {"trie", "make", "build", "lookup", "root"} BY <3>1
      <3> HIDE DEF DirInv
      <3> QED BY <3>19, <3>20 DEF DirOfUser
    <2> QED BY <2>1, <2>2, <2>3
  <1>19. CASE ReadDir(g)
    <2>1. h # Nil /\ h.loaded /\ pc'[g] = "idle" BY <1>2, <1>5, <1>19 DEF ReadDir
    <2>2. \/ handle' = handle
          \/ \E page \in SUBSET h.left, bad \in BOOLEAN :
                handle' = [handle EXCEPT ![g].left = @ \ page, ![g].listed = IF bad THEN @ ELSE @ \cup page,
                                         ![g].lost = @ \/ bad]
      BY <1>5, <1>19 DEF ReadDir
    <2>3. CASE handle' = handle BY <1>8, <2>1, <2>3
    <2>4. ASSUME NEW page \in SUBSET h.left, NEW bad \in BOOLEAN,
                 handle' = [handle EXCEPT ![g].left = @ \ page, ![g].listed = IF bad THEN @ ELSE @ \cup page,
                                          ![g].lost = @ \/ bad]
          PROVE  DirOfUser(g)'
      <3> DEFINE f == h.left \ page
                 l == IF bad THEN h.listed ELSE h.listed \cup page
                 o == h.lost \/ bad
                 k == [h EXCEPT !.left = f, !.listed = l, !.lost = o]
      <3>1. IsDir(h) /\ (~h.lost => ListedRight(h.root, h.source, h.dir, h.left \cup h.listed)) BY <1>5, <2>1 DEF DirInv
      <3>2. handle'[g] = k BY <1>5, <2>4
      <3>3. f = h.left \ page /\ (l = IF bad THEN h.listed ELSE h.listed \cup page) /\ (o <=> h.lost \/ bad)
        OBVIOUS
      <3> HIDE DEF f, l, o
      <3>4. /\ DOMAIN k = DOMAIN h /\ k.root = h.root /\ k.source = h.source /\ k.dir = h.dir
            /\ k.loaded = h.loaded /\ k.left = f /\ k.listed = l /\ k.lost = o
        BY <3>1 DEF IsDir
      <3> HIDE DEF k
      <3>5. handle'[g] = k BY <3>2
      <3>6. /\ IsDir(k) /\ k.root = h.root /\ k.source = h.source /\ k.dir = h.dir /\ k.loaded = h.loaded
            /\ k.left = f /\ k.listed = l /\ k.lost = o
        BY <3>1, <3>4 DEF IsDir
      <3>8. ~k.lost => ~h.lost /\ k.left \cup k.listed = h.left \cup h.listed BY <3>3, <3>6
      <3>9. ~k.lost => ListedRight(k.root, k.source, k.dir, k.left \cup k.listed) BY <3>1, <3>6, <3>8
      <3>10. k.loaded BY <2>1, <3>6
      <3>11. DirInv(k) BY <3>6, <3>9, <3>10 DEF DirInv
      <3>12. \E x : handle'[g] = x /\ (x # Nil => DirInv(x)') BY <1>3, <3>5, <3>11
      <3>13. pc'[g] \notin {"trie", "make", "build", "lookup", "root"} BY <2>1
      <3> HIDE DEF DirInv
      <3> QED BY <3>12, <3>13 DEF DirOfUser
    <2> QED BY <2>2, <2>3, <2>4
  <1>20. CASE \E x \in setup.users : ConcurrentMapFault(g, x)
    <2>1. handle' = handle /\ call' = call /\ pc' = pc BY <1>20 DEF ConcurrentMapFault
    <2>2. \E x : handle'[g] = x /\ (x # Nil => DirInv(x)') BY <1>3, <1>5, <2>1
    <2>3. /\ pc[g] \in {"trie", "make", "build", "lookup"} /\ call[g].op # "open" =>
                handle[g] # Nil /\ ~handle[g].loaded /\ object = "manifest"
          /\ pc[g] = "root" => handle[g] # Nil /\ ~handle[g].loaded /\ object = "directory"
      BY DEF DirOfUser
    <2> HIDE DEF DirInv
    <2> QED BY <1>2, <2>1, <2>2, <2>3 DEF DirOfUser
  <1> QED BY <1>11, <1>12, <1>13, <1>14, <1>15, <1>16, <1>17, <1>18, <1>19, <1>20 DEF Step

\* A step replaces what one goroutine has open.
LEMMA SameHandles ==
    ASSUME DOMAIN handle = Goroutine, NEW g \in Goroutine, Step(g)
    PROVE  DOMAIN handle' = Goroutine
  <1>1. \/ handle' = handle
        \/ \E k : handle' = [handle EXCEPT ![g] = k]
        \/ \E all : handle' = [handle EXCEPT ![g].loaded = TRUE, ![g].left = all]
        \/ \E page, listed, lost : handle' = [handle EXCEPT ![g].left = page, ![g].listed = listed, ![g].lost = lost]
    <2>1. ASSUME ReadDir(g), handle' # handle
          PROVE  \E page, listed, lost :
                    handle' = [handle EXCEPT ![g].left = page, ![g].listed = listed, ![g].lost = lost]
      <3>1. \E page, bad : handle' = [handle EXCEPT ![g].left = @ \ page,
                                                    ![g].listed = IF bad THEN @ ELSE @ \cup page,
                                                    ![g].lost = @ \/ bad]
        BY <2>1 DEF ReadDir
      <3>2. PICK page, bad : handle' = [handle EXCEPT ![g].left = @ \ page,
                                                      ![g].listed = IF bad THEN @ ELSE @ \cup page,
                                                      ![g].lost = @ \/ bad]
        BY <3>1
      <3> DEFINE f == handle[g].left \ page
                 l == IF bad THEN handle[g].listed ELSE handle[g].listed \cup page
                 o == handle[g].lost \/ bad
      <3>3. handle' = [handle EXCEPT ![g].left = f, ![g].listed = l, ![g].lost = o] BY <3>2
      <3> HIDE DEF f, l, o
      <3> QED BY <3>3
    <2> QED BY <2>1 DEF Step, Rlocation, OpenRoot, OpenZero, OpenInDirectory, OpenInManifest, ReadRoot,
               CheckTrie, MakeTrie, InsertKey, TrieBuilt, LookupDir, InitEntries, ConcurrentMapFault
  <1> QED BY <1>1

\* A single user has a directory open that is right of the tree, split into what has been
\* listed and what is left.
THEOREM ListInductive == Spec => []ListInv
  <1>1. Init => ListInv
    <2> SUFFICES ASSUME Init PROVE ListInv
      OBVIOUS
    <2>1. DOMAIN handle = Goroutine /\ \A g \in Goroutine : handle[g] = Nil /\ pc[g] = "idle" BY DEF Init
    <2>2. \A g \in Goroutine : DirOfUser(g) BY <2>1 DEF DirOfUser
    <2> QED BY <2>1, <2>2 DEF ListInv
  <1>2. Inv /\ ListInv /\ [Next]_vars => ListInv'
    <2> SUFFICES ASSUME Inv, ListInv, [Next]_vars PROVE ListInv'
      OBVIOUS
    <2>1. TypeInv /\ ObjectInv /\ TrieInv /\ \A g \in Goroutine : CallInv(g) BY ByCall DEF Inv
    <2>2. DOMAIN handle = Goroutine /\ (BazelNames => \A g \in Goroutine : Alone(g) => DirOfUser(g)) BY DEF ListInv
    <2>3. CASE New
      <3>1. setup' = setup /\ handle' = handle /\ pc' = pc /\ call' = call /\ object = "new" BY <2>3 DEF New
      <3>2. \A g \in Goroutine : handle[g] = Nil /\ pc[g] = "idle" BY <2>1, <3>1 DEF ObjectInv
      <3>3. \A g \in Goroutine : DirOfUser(g)'
        <4> HIDE DEF DirInv
        <4> QED BY <3>1, <3>2 DEF DirOfUser
      <3> QED BY <2>2, <3>1, <3>3 DEF ListInv
    <2>4. ASSUME NEW g \in setup.users, Step(g) PROVE ListInv'
      <3>0. g \in Goroutine BY <2>1, SetupFacts
      <3>1. Frame(g) BY <2>1, <2>4, <3>0, OneMoves
      <3>2. setup' = setup /\ object' = object BY <3>1 DEF Frame
      <3>3. BazelNames' = BazelNames BY <3>2, SameNames
      <3>4. \A h : Alone(h)' = Alone(h) BY <3>2, SameTree
      <3>5. \A h \in Goroutine : Alone(h) => h = g BY <2>4 DEF Alone
      <3>6. DOMAIN handle' = Goroutine BY <2>1, <2>2, <2>4, <3>0, SameHandles
      <3>7. BazelNames /\ Alone(g) => DirOfUser(g)'
        <4> SUFFICES ASSUME BazelNames, Alone(g) PROVE DirOfUser(g)'
          OBVIOUS
        <4>1. CallInv(g) /\ DirOfUser(g) BY <2>1, <2>2, <3>0
        <4> QED BY <2>1, <2>2, <2>4, <3>0, <4>1, ListNext
      <3> QED BY <3>3, <3>4, <3>5, <3>6, <3>7 DEF ListInv
    <2>5. CASE UNCHANGED vars
      <3>1. UNCHANGED <<setup, object, handle, pc, call>> BY <2>5 DEF vars
      <3>2. BazelNames' = BazelNames /\ \A h : DirInv(h)' = DirInv(h) BY <3>1, SameNames
      <3>3. \A h : Alone(h)' = Alone(h) BY <3>1, SameTree
      <3>4. \A g \in Goroutine : DirOfUser(g) => DirOfUser(g)'
        <4> HIDE DEF DirInv
        <4> QED BY <3>1, <3>2 DEF DirOfUser
      <3> QED BY <2>2, <3>1, <3>2, <3>3, <3>4 DEF ListInv
    <2> QED BY <2>3, <2>4, <2>5 DEF Next, Ended
  <1> QED BY <1>1, <1>2, Inductive, PTL DEF Spec

\* ListExact, about rootDirFile.ReadDir and initEntries, manifestReadDirFile.ReadDir and
\* ForEachVisible: with the names Bazel gives, a directory read to its end has listed exactly what
\* the tree has there (empty runfiles of a manifest as directories), whatever the object is backed
\* by and however the reading was cut into pages; the root also one apparent name of each repository.
THEOREM ListExactHolds == Spec => [](BazelNames => ListExact)
  <1>1. Inv /\ ListInv => (BazelNames => ListExact)
    <2> SUFFICES ASSUME Inv, ListInv, BazelNames, Cardinality(setup.users) = 1, NEW g \in setup.users,
                        ReadToEnd(handle[g])
                 PROVE  LET h == handle[g] IN ListedRight(h.root, h.source, h.dir, h.listed)
      BY DEF ListExact
    <2>1. TypeInv BY DEF Inv
    <2>2. g \in Goroutine /\ IsFiniteSet(setup.users) BY <2>1, SetupFacts
    <2>3. \E h : setup.users = {h} BY <2>2, FS_Singleton
    <2>4. Alone(g) BY <2>3 DEF Alone
    <2>5. DirOfUser(g) BY <2>2, <2>4 DEF ListInv
    <2>6. PICK h : handle[g] = h /\ (h # Nil => DirInv(h)) BY <2>5 DEF DirOfUser
    <2>7. h # Nil /\ h.loaded /\ h.left = {} /\ ~h.lost BY <2>6 DEF ReadToEnd
    <2>8. ListedRight(h.root, h.source, h.dir, h.left \cup h.listed) BY <2>6, <2>7 DEF DirInv
    <2>9. h.left \cup h.listed = h.listed BY <2>7
    <2> QED BY <2>6, <2>8, <2>9
  <1> QED BY <1>1, Inductive, ListInductive, PTL
=============================================================================
