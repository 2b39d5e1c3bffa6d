-------------------------- MODULE CompilePkgProofs ------------------------------
(***************************************************************************)
(* Proofs about the action GoCompilePkg, for every library the rule may be *)
(* given: Clean, and the three properties of what the action makes,        *)
(* ArchiveExact, ImportsCovered and NogoSeesOriginals. The invariant says  *)
(* at each place of the builder which files its lists name and what those  *)
(* files hold: Exactly(held, X) holds of a list that has every element of  *)
(* X once and nothing else but files of the builder's own.                 *)
(* The last part is about buildEmbedcfgFile, which compilePkg calls: for   *)
(* any sources on any disk, FirstWins and FoundExactly.                    *)
(***************************************************************************)
EXTENDS CompilePkg, EmbedTree, FiniteSetTheorems, SequenceTheorems, WellFoundedInduction, TLAPS

-----------------------------------------------------------------------------
(* The files and what is known of them *)

\* No element twice.
Distinct(s) == \A m, n \in DOMAIN s : s[m] = s[n] => m = n
\* The element x at one place only.
JustOnce(s, x) == \E n \in DOMAIN s : s[n] = x /\ \A m \in DOMAIN s : s[m] = x => m = n
\* The names of the files in K, each once.
NamesOf(list, K) == IsSeq(list) /\ Distinct(list) /\ Range(list) = {f.name : f \in K}
\* A file of the builder's own; the one with the counters exists for coverage only.
Own(h) == h.src.dir = "none" /\ h.marks = {} /\ (h = Generated("covervars") => pkg.coverMode)
\* Every element of X once, and besides nothing but files of the builder's own.
Exactly(hs, X) ==
    /\ \A n \in DOMAIN hs : hs[n] \in X \/ Own(hs[n])
    /\ X \subseteq Range(hs)
    /\ \A m, n \in DOMAIN hs : hs[m] = hs[n] /\ hs[m].src.dir # "none" => m = n

\* A file can be renamed: its base name can be followed by a number.
Renamable(name) == IsSeq(name.base) /\ Len(name.base) > 0
GoFile(x) == x = [dir |-> x.dir, base |-> x.base, kind |-> "go"] /\ Renamable(x)
CgoDirs == {"cgo", "cgo/cgosrcs", "cgo_nogo", "cgo_nogo/cgosrcs"}
\* A list of Go files that cgo has not made.
Outside(list) == IsSeq(list) /\ \A n \in DOMAIN list : GoFile(list[n]) /\ list[n].dir \notin CgoDirs
\* A list of files that cgo has made.
FromCgo(w, list) == IsSeq(list) /\ \A n \in DOMAIN list : list[n] \in DOMAIN w /\ list[n].dir = "cgo"

GivenFiles == Range(pkg.unfilteredSrcs)
PlainFiles == {f \in GoSources : ~isCgo(f)}
CgoFiles == {f \in GoSources : isCgo(f)}
AsmFiles == IF ~pkg.cgoEnabled /\ \E f \in GivenFiles : isCgo(f) THEN {} ELSE Sources("s")

CoverMarks(f) == IF f.name \in pkg.coverSrcs THEN {"cover"} ELSE {}
\* What the files in K hold: as they were written, instrumented, processed by cgo as well, and
\* processed by cgo as they were written.
Raw(K) == {Holds(f, {}) : f \in K}
Instrumented(K) == {Holds(f, CoverMarks(f)) : f \in K}
Processed(K) == {Holds(f, CoverMarks(f) \cup {"cgo"}) : f \in K}
RawCgo(K) == {Holds(f, {"cgo"}) : f \in K}
All == {Holds(f, Marks(f)) : f \in GoSources}

-----------------------------------------------------------------------------
(* The invariant of the steps *)

PkgInv == \E lib \in Libs, mode \in Modes : pkg = emit_archive(lib, mode)

FilterInv ==
    pc \notin {"filter", "done"} =>
        /\ \A e \in Exts : IsSeq(srcs[e]) /\ Distinct(srcs[e])
        /\ Range(srcs["go"]) = GoSources
        /\ \A e \in CExts : Range(srcs[e]) = Sources(e)
        /\ Range(srcs["s"]) = AsmFiles

WorkInv ==
    /\ IsFiniteSet(DOMAIN work)
    /\ \A x \in DOMAIN work : x.dir \in OwnDirs \ {"none"}

\* The copy of the list of cgo sources is made before anything is done to them.
NogoListInv ==
    pc \notin {"filter", "prepare", "done"} =>
        NamesOf(cgoSrcsNogo, CgoFiles) /\ IsSeq(cgoSrcs) /\ Len(cgoSrcs) = Len(cgoSrcsNogo)

Listing == goSrcs # <<>> => IsSeq(goSrcs) /\ Exactly(HeldBy(work, goSrcs), All)

GoInv ==
    /\ pc = "cover" =>
          /\ cgoSrcs = cgoSrcsNogo
          /\ \/ NamesOf(goSrcs, PlainFiles)
             \/ /\ goSrcs = <<EmptyGo>> /\ GoSources = {}
                /\ EmptyGo \in DOMAIN work /\ work[EmptyGo] = Generated("empty")
    /\ pc = "cgo" =>
          /\ Outside(goSrcs) /\ Exactly(HeldBy(work, goSrcs), Instrumented(PlainFiles))
          /\ Outside(cgoSrcs) /\ Exactly(HeldBy(work, cgoSrcs), Instrumented(CgoFiles))
          /\ Range(HeldBy(work, cgoSrcs)) \subseteq Instrumented(CgoFiles)
          /\ Distinct(cgoSrcs)
    /\ pc = "cc" /\ genGoSrcs # <<>> =>
          /\ Outside(goSrcs) /\ Exactly(HeldBy(work, goSrcs), Instrumented(PlainFiles))
          /\ FromCgo(work, genGoSrcs) /\ Exactly(HeldBy(work, genGoSrcs), Processed(CgoFiles))
          /\ Len(genGoSrcs) = Len(cgoSrcsNogo) + 1
          /\ \A n \in DOMAIN genGoSrcs : genGoSrcs[n] # CgoImports
          /\ CgoFiles # {}
    /\ pc = "cc" /\ genGoSrcs = <<>> => goSrcs = <<>>
    /\ pc = "nogo" =>
          /\ FromCgo(work, goSrcs) /\ Exactly(HeldBy(work, goSrcs), All)
          /\ CgoImports \in DOMAIN work /\ work[CgoImports] = Generated("cgo")
          /\ CgoFiles # {}
    /\ pc \in {"imports", "embed", "symabis", "compile"} => Listing

NogoDone ==
    /\ \A f \in CgoFiles : JustOnce(nogoSrcs, Holds(f, {"cgo"}))
    /\ Len(nogoSrcs) = IF CgoFiles = {} THEN 0 ELSE Len(cgoSrcsNogo) + 2

NogoInv ==
    /\ pc \in {"filter", "prepare", "cover", "cgo", "cc", "nogo"} => nogoSrcs = <<>>
    /\ pc \in {"imports", "embed", "symabis", "compile", "asm"} /\ pkg.cgoGoSrcs =>
          goSrcs = <<>> \/ NogoDone

CObj(f) == [held |-> Holds(f, {}), by |-> "cc"]
AsmObj(f) == [held |-> Holds(f, {}), by |-> "asm"]
CWant == CSources \cup AsmFiles
\* What the C compiler makes of a list of files, and what the assembler makes of it.
Objects(v, q) == [n \in DOMAIN q |-> [held |-> HeldIn(v, q[n]), by |-> "cc"]]
Assembled(q) == [n \in DOMAIN q |-> [held |-> Original(q[n]), by |-> "asm"]]
CMade == \A f \in CWant : JustOnce(objFiles, CObj(f))

ObjInv ==
    /\ pc \in {"filter", "prepare", "cover", "cgo"} => objFiles = <<>>
    /\ pc = "cc" => /\ compilingWithCgo /\ IsSeq(objFiles) /\ IsSeq(queue)
                    /\ \A f \in CWant : JustOnce(objFiles \o Objects(work, queue), CObj(f))
    /\ pc \in {"nogo", "imports", "embed", "symabis", "compile"} =>
          IsSeq(objFiles) /\ IF compilingWithCgo THEN CMade ELSE objFiles = <<>>
    /\ pc = "asm" =>
          /\ IsSeq(objFiles) /\ IsSeq(queue)
          /\ compilingWithCgo => queue = <<>> /\ CMade
          /\ ~compilingWithCgo /\ haveCgo => queue = <<>> /\ objFiles = <<>>
          /\ ~haveCgo =>
                /\ \A f \in AsmFiles : JustOnce(objFiles \o Assembled(queue), AsmObj(f))
                /\ \A n \in DOMAIN (objFiles \o Assembled(queue)) :
                      \E f \in AsmFiles : (objFiles \o Assembled(queue))[n] = AsmObj(f)

\* The imports that the builder has resolved.
Resolved ==
    \E checked \in {checkImports(UNION {ImportsOf(f) : f \in GoSources}, pkg.deps, pkg.recompile)} :
        /\ checked.err = "none"
        /\ importcfg = buildImportcfgFileForCompile(AddedImports(checked.imports))
        /\ importsFile = writeImports(AddedImports(checked.imports))

ImportsInv == pc \in {"embed", "symabis", "compile", "asm"} => Resolved

ArchiveInv ==
    /\ pc \notin {"asm", "done"} => archive = Nil
    /\ pc = "asm" => /\ archive = [go |-> archive.go, objs |-> <<>>] /\ goSrcs # <<>>
                     /\ IsSeq(archive.go) /\ Exactly(archive.go, All)

DataInv ==
    /\ PkgInv /\ FilterInv /\ WorkInv /\ NogoListInv /\ GoInv /\ NogoInv /\ ObjInv /\ ImportsInv
    /\ ArchiveInv /\ ImportsCovered /\ ArchiveExact /\ NogoSeesOriginals

\* Induction over an interval, for a set that is closed under its successor.
LEMMA SetInduction ==
    ASSUME NEW N \in Nat, NEW S, 0 \in S,
           \A n \in 0..N : n # N /\ n \in S => n + 1 \in S
    PROVE  0..N \subseteq S
  <1> SUFFICES ASSUME (0..N) \ S # {} PROVE FALSE
    OBVIOUS
  <1> DEFINE R == OpToRel(<, Nat)
             T == (0..N) \ S
  <1>1. IsWellFoundedOn(R, Nat) BY NatLessThanWellFounded
  <1>2. T \subseteq Nat /\ T # {} OBVIOUS
  <1>3. \E x \in T : \A y \in T : ~(<<y, x>> \in R)
    <2> HIDE DEF R, T
    <2> QED BY <1>1, <1>2, WFMin
  <1>4. PICK x \in T : \A y \in T : ~(<<y, x>> \in R) BY <1>3
  <1>5. x \in 0..N /\ x \notin S /\ x # 0 OBVIOUS
  <1>6. x - 1 \in 0..N /\ <<x - 1, x>> \in R BY <1>5 DEF OpToRel
  <1>7. x - 1 \in S BY <1>4, <1>6
  <1>8. x - 1 # N /\ (x - 1) + 1 = x BY <1>5
  <1> HIDE DEF R, T
  <1> QED BY <1>5, <1>6, <1>7, <1>8

\* What is known of a sequence.
LEMMA SeqFacts ==
    ASSUME NEW s, IsSeq(s)
    PROVE  /\ s \in Seq(Range(s)) /\ Len(s) \in Nat /\ DOMAIN s = 1..Len(s)
           /\ \A n \in 1..Len(s) : s[n] \in Range(s)
  BY DEF IsSeq, Range

\* Every sequence is one in this sense.
LEMMA SeqIsSeq == ASSUME NEW T, NEW s \in Seq(T) PROVE IsSeq(s)
  BY DEF IsSeq

\* Only(S, s) is the sequence of the elements of s in S, each as often as in s.
LEMMA OnlyFacts ==
    ASSUME NEW S, NEW s, IsSeq(s)
    PROVE  /\ IsSeq(Only(S, s))
           /\ Range(Only(S, s)) = Range(s) \cap S
           /\ Distinct(s) => Distinct(Only(S, s))
  <1> DEFINE Step(f, n) == IF n = 0 THEN <<>> ELSE IF s[n] \in S THEN Append(f[n - 1], s[n]) ELSE f[n - 1]
             Upto(f, m) == f = [n \in 0..m |-> Step(f, n)]
             Built == {m \in 0..Len(s) : \E f : Upto(f, m)}
  <1>1. Len(s) \in Nat BY SeqFacts
  <1>2. 0 \in Built
    <2>1. Upto([n \in 0..0 |-> <<>>], 0) OBVIOUS
    <2>2. 0 \in 0..Len(s) BY <1>1
    <2> HIDE DEF Upto
    <2> QED BY <2>1, <2>2
  <1>3. ASSUME NEW m \in 0..Len(s), m # Len(s), m \in Built PROVE m + 1 \in Built
    <2>1. PICK f : Upto(f, m) BY <1>3
    <2> DEFINE g == [n \in 0..(m + 1) |-> IF n = m + 1 THEN Step(f, n) ELSE f[n]]
    <2>2. ASSUME NEW n \in 0..(m + 1) PROVE g[n] = Step(g, n)
      <3>1. CASE n = m + 1
        <4>1. n # 0 /\ n - 1 \in 0..(m + 1) /\ n - 1 # m + 1 BY <1>1, <3>1
        <4>2. g[n - 1] = f[n - 1] BY <4>1
        <4>3. g[n] = Step(f, n) BY <3>1
        <4> HIDE DEF g
        <4> QED BY <4>2, <4>3
      <3>2. CASE n # m + 1
        <4>1. n \in 0..m BY <1>1, <3>2
        <4>2. g[n] = f[n] /\ f[n] = Step(f, n) BY <2>1, <3>2, <4>1
        <4>3. n # 0 => g[n - 1] = f[n - 1] BY <1>1, <4>1
        <4> HIDE DEF g
        <4> QED BY <4>2, <4>3
      <3> QED BY <3>1, <3>2
    <2>3. g = [n \in 0..(m + 1) |-> g[n]] OBVIOUS
    <2>4. Upto(g, m + 1)
      <3> HIDE DEF g
      <3> QED BY <2>2, <2>3
    <2>5. m + 1 \in 0..Len(s) BY <1>1, <1>3
    <2> HIDE DEF Upto, g
    <2> QED BY <2>4, <2>5
  <1>4. Len(s) \in Built
    <2>1. Len(s) \in 0..Len(s) BY <1>1
    <2> HIDE DEF Built
    <2>2. 0..Len(s) \subseteq Built BY <1>1, <1>2, <1>3, SetInduction
    <2> QED BY <2>1, <2>2
  <1> DEFINE kept == CHOOSE f : Upto(f, Len(s))
  <1>5. Upto(kept, Len(s))
    <2>1. \E f : Upto(f, Len(s)) BY <1>4
    <2> HIDE DEF Upto
    <2> QED BY <2>1
  <1>6. Only(S, s) = kept[Len(s)] BY DEF Only
  <1> HIDE DEF kept
  <1> DEFINE K(n) == kept[n]
             Good == {n \in 0..Len(s) :
                 /\ kept[n] \in Seq(Range(s) \cap S)
                 /\ \A j \in 1..n : s[j] \in S => \E i \in 1..Len(kept[n]) : kept[n][i] = s[j]
                 /\ \A i \in 1..Len(kept[n]) : \E j \in 1..n : kept[n][i] = s[j]
                 /\ Distinct(s) => Distinct(kept[n])}
  <1>7. 0 \in Good
    <2>1. kept[0] = <<>> /\ 0 \in 0..Len(s) BY <1>1, <1>5
    <2>2. Distinct(kept[0]) BY <2>1 DEF Distinct
    <2>3. kept[0] \in Seq(Range(s) \cap S) /\ Len(kept[0]) = 0 BY <2>1
    <2>4. 1..0 = {} OBVIOUS
    <2>5. \A j \in 1..0 : s[j] \in S => \E i \in 1..Len(kept[0]) : kept[0][i] = s[j] BY <2>4
    <2>6. \A i \in 1..Len(kept[0]) : \E j \in 1..0 : kept[0][i] = s[j] BY <2>3, <2>4
    <2> QED BY <2>1, <2>2, <2>3, <2>5, <2>6
  <1>8. ASSUME NEW m \in 0..Len(s), m # Len(s), m \in Good PROVE m + 1 \in Good
    <2>1. kept[m + 1] = IF s[m + 1] \in S THEN Append(kept[m], s[m + 1]) ELSE kept[m]
      <3>1. m + 1 \in 0..Len(s) /\ m + 1 # 0 /\ (m + 1) - 1 = m BY <1>1, <1>8
      <3>2. kept[m + 1] = Step(kept, m + 1) BY <1>5, <3>1
      <3> QED BY <3>1, <3>2
    <2>2. m + 1 \in 1..Len(s) /\ s[m + 1] \in Range(s) /\ DOMAIN s = 1..Len(s) BY <1>1, <1>8, SeqFacts
    <2>3. CASE s[m + 1] \notin S
      <3>1. kept[m + 1] = kept[m] /\ m + 1 \in 0..Len(s) BY <2>1, <2>2, <2>3
      <3>2. \A j \in 1..(m + 1) : s[j] \in S => j \in 1..m BY <2>3
      <3>3. \A j \in 1..m : j \in 1..(m + 1) OBVIOUS
      <3> DEFINE k == kept[m]
      <3>4. /\ k \in Seq(Range(s) \cap S)
            /\ \A j \in 1..m : s[j] \in S => \E i \in 1..Len(k) : k[i] = s[j]
            /\ \A i \in 1..Len(k) : \E j \in 1..m : k[i] = s[j]
            /\ Distinct(s) => Distinct(k)
        BY <1>8
      <3>5. kept[m + 1] = k BY <3>1
      <3> HIDE DEF k
      <3>6. \A j \in 1..(m + 1) : s[j] \in S => \E i \in 1..Len(k) : k[i] = s[j] BY <3>2, <3>4
      <3>7. \A i \in 1..Len(k) : \E j \in 1..(m + 1) : k[i] = s[j] BY <3>3, <3>4
      <3> QED BY <3>1, <3>4, <3>5, <3>6, <3>7
    <2>4. CASE s[m + 1] \in S
      <3> DEFINE k == kept[m] x == s[m + 1]
      <3>1. k \in Seq(Range(s) \cap S) /\ Len(k) \in Nat BY <1>8
      <3>2. kept[m + 1] = Append(k, x) BY <2>1, <2>4
      <3>3. Append(k, x) \in Seq(Range(s) \cap S) BY <2>2, <2>4, <3>1
      <3>4. Len(Append(k, x)) = Len(k) + 1 /\ Append(k, x)[Len(k) + 1] = x
            /\ \A i \in 1..Len(k) : Append(k, x)[i] = k[i] BY <3>1
      <3>5. \A j \in 1..m : s[j] \in S => \E i \in 1..Len(k) : k[i] = s[j] BY <1>8
      <3>6. \A i \in 1..Len(k) : \E j \in 1..m : k[i] = s[j] BY <1>8
      <3>7. ASSUME Distinct(s) PROVE Distinct(Append(k, x))
        <4>1. ASSUME NEW i \in 1..Len(k), k[i] = x PROVE FALSE
          <5>1. PICK j \in 1..m : k[i] = s[j] BY <3>6
          <5>2. s[j] = s[m + 1] /\ j \in 1..Len(s) /\ j # m + 1 BY <2>2, <4>1, <5>1
          <5> QED BY <2>2, <3>7, <5>2 DEF Distinct
        <4>2. Distinct(k) /\ DOMAIN k = 1..Len(k) BY <1>8, <3>1, <3>7
        <4>3. DOMAIN Append(k, x) = 1..(Len(k) + 1) BY <3>1
        <4> HIDE DEF k, x
        <4> QED BY <3>1, <3>4, <4>1, <4>2, <4>3 DEF Distinct
      <3> HIDE DEF k, x
      <3>8. \A j \in 1..(m + 1) : s[j] \in S => \E i \in 1..(Len(k) + 1) : Append(k, x)[i] = s[j]
        <4> SUFFICES ASSUME NEW j \in 1..(m + 1), s[j] \in S
                     PROVE \E i \in 1..(Len(k) + 1) : Append(k, x)[i] = s[j]
          OBVIOUS
        <4>1. CASE j = m + 1 BY <3>1, <3>4, <4>1 DEF x
        <4>2. CASE j # m + 1
          <5>1. j \in 1..m BY <4>2
          <5>2. PICK i \in 1..Len(k) : k[i] = s[j] BY <3>5, <5>1
          <5> QED BY <3>1, <3>4, <5>2
        <4> QED BY <4>1, <4>2
      <3>9. \A i \in 1..(Len(k) + 1) : \E j \in 1..(m + 1) : Append(k, x)[i] = s[j]
        <4> SUFFICES ASSUME NEW i \in 1..(Len(k) + 1)
                     PROVE \E j \in 1..(m + 1) : Append(k, x)[i] = s[j]
          OBVIOUS
        <4>1. CASE i = Len(k) + 1 BY <3>1, <3>4, <4>1 DEF x
        <4>2. CASE i # Len(k) + 1 BY <3>1, <3>4, <3>6, <4>2
        <4> QED BY <4>1, <4>2
      <3>10. m + 1 \in 0..Len(s) /\ Len(kept[m + 1]) = Len(k) + 1 BY <2>2, <3>2, <3>4
      <3> QED BY <3>2, <3>3, <3>7, <3>8, <3>9, <3>10
    <2> QED BY <2>3, <2>4
  <1>9. Len(s) \in Good
    <2>1. Len(s) \in 0..Len(s) BY <1>1
    <2> HIDE DEF Good
    <2>2. 0..Len(s) \subseteq Good BY <1>1, <1>7, <1>8, SetInduction
    <2> QED BY <2>1, <2>2
  <1> DEFINE o == Only(S, s)
  <1>10. /\ o \in Seq(Range(s) \cap S)
         /\ \A j \in 1..Len(s) : s[j] \in S => \E i \in 1..Len(o) : o[i] = s[j]
         /\ Distinct(s) => Distinct(o)
    BY <1>6, <1>9
  <1> HIDE DEF o
  <1>11. IsSeq(o) /\ DOMAIN o = 1..Len(o) BY <1>10 DEF IsSeq
  <1>12. Range(o) = Range(s) \cap S
    <2>1. Range(o) \subseteq Range(s) \cap S BY <1>10, <1>11 DEF Range
    <2>2. DOMAIN s = 1..Len(s) BY SeqFacts
    <2>3. Range(s) \cap S \subseteq Range(o) BY <1>10, <1>11, <2>2 DEF Range
    <2> QED BY <2>1, <2>3
  <1> QED BY <1>10, <1>11, <1>12 DEF o
\* The name that gatherSrcs finds is free.
LEMMA UnusedFacts ==
    ASSUME NEW w, NEW dir, NEW name, IsFiniteSet(DOMAIN w), Renamable(name)
    PROVE  LET x == Unused(w, dir, name) IN
           /\ x \notin DOMAIN w
           /\ x = [dir |-> dir, base |-> x.base, kind |-> name.kind]
           /\ Renamable(x)
  <1> DEFINE C == Cardinality(DOMAIN w)
             Numbered(j) == WorkName(dir, IF j = 0 THEN name.base ELSE Append(name.base, j), name.kind)
             free == {j \in 0..(C + 1) : Numbered(j) \notin DOMAIN w}
             j0 == CHOOSE j \in free : \A i \in free : j <= i
  <1>1. C \in Nat BY FS_CardinalityType
  <1>2. name.base \in Seq(Range(name.base)) /\ Len(name.base) \in Nat BY SeqFacts DEF Renamable
  <1>3. \A j \in Nat : name.base \in Seq(Range(name.base) \cup {j})
    BY <1>2
  <1>4. ASSUME NEW i \in 0..(C + 1), NEW j \in 0..(C + 1), Numbered(i) = Numbered(j) PROVE i = j
    <2> DEFINE b == name.base
               Base(k) == IF k = 0 THEN b ELSE Append(b, k)
    <2>1. Base(i) = Base(j) BY <1>4 DEF WorkName
    <2>2. \A k \in Nat : Len(Append(b, k)) = Len(b) + 1 /\ Append(b, k)[Len(b) + 1] = k
      BY <1>2, <1>3
    <2> HIDE DEF b
    <2>3. CASE i = 0 \/ j = 0
      <3>1. Len(b) \in Nat BY <1>2 DEF b
      <3>2. i = 0 => Base(i) = b OBVIOUS
      <3>3. j = 0 => Base(j) = b OBVIOUS
      <3>4. i # 0 => Len(Base(i)) = Len(b) + 1 BY <1>1, <2>2
      <3>5. j # 0 => Len(Base(j)) = Len(b) + 1 BY <1>1, <2>2
      <3> HIDE DEF Base
      <3> QED BY <2>1, <2>3, <3>1, <3>2, <3>3, <3>4, <3>5
    <2>4. CASE i # 0 /\ j # 0 BY <1>1, <2>1, <2>2, <2>4
    <2> QED BY <2>3, <2>4
  <1>5. free # {}
    <2> SUFFICES ASSUME free = {} PROVE FALSE OBVIOUS
    <2> DEFINE f == [j \in 0..(C + 1) |-> Numbered(j)]
    <2>1. f \in [0..(C + 1) -> DOMAIN w] OBVIOUS
    <2>2. IsFiniteSet(0..(C + 1)) /\ Cardinality(0..(C + 1)) = C + 2 BY <1>1, FS_Interval
    <2>3. \E x, y \in 0..(C + 1) : x # y /\ f[x] = f[y]
      <3> HIDE DEF f
      <3>1. Cardinality(DOMAIN w) < Cardinality(0..(C + 1)) BY <1>1, <2>2
      <3> DEFINE S == 0..(C + 1)
                 T == DOMAIN w
      <3>2. IsFiniteSet(S) /\ IsFiniteSet(T) /\ Cardinality(T) < Cardinality(S) /\ f \in [S -> T]
        BY <2>1, <2>2, <3>1
      <3> HIDE DEF S, T
      <3>3. \E x, y \in S : x # y /\ f[x] = f[y] BY <3>2, FS_PigeonHole
      <3> QED BY <3>3 DEF S
    <2>4. \A x, y \in 0..(C + 1) : f[x] = f[y] => Numbered(x) = Numbered(y) OBVIOUS
    <2> HIDE DEF f, Numbered
    <2> QED BY <1>4, <2>3, <2>4
  <1>6. \E j \in free : \A i \in free : j <= i
    <2> DEFINE R == OpToRel(<, Nat)
    <2>1. free \subseteq Nat BY <1>1
    <2>2. IsWellFoundedOn(R, Nat) BY NatLessThanWellFounded
    <2>3. \E x \in free : \A y \in free : ~(<<y, x>> \in R)
      <3> HIDE DEF R, free
      <3> QED BY <1>5, <2>1, <2>2, WFMin
    <2>4. \A x, y \in free : ~(<<y, x>> \in R) => x <= y
      <3> HIDE DEF free
      <3> QED BY <2>1 DEF OpToRel
    <2> HIDE DEF R, free
    <2> QED BY <2>3, <2>4
  <1>7. j0 \in free
    <2> HIDE DEF free
    <2> QED BY <1>6
  <1>8. Unused(w, dir, name) = Numbered(j0) BY DEF Unused
  <1>9. j0 \in 0..(C + 1) /\ Numbered(j0) \notin DOMAIN w BY <1>7
  <1> HIDE DEF j0, free
  <1>10. j0 \in Nat BY <1>1, <1>9
  <1>11. Append(name.base, j0) \in Seq(Range(name.base) \cup {j0}) /\ Len(Append(name.base, j0)) = Len(name.base) + 1
    BY <1>2, <1>3, <1>10
  <1>12. IsSeq(Append(name.base, j0)) BY <1>11, SeqIsSeq
  <1>13. Renamable(Numbered(j0))
    BY <1>2, <1>11, <1>12 DEF Renamable, WorkName
  <1> QED BY <1>8, <1>9, <1>13 DEF WorkName

\* What the first n rounds of gatherSrcs have done: every file there was is kept, and each name
\* they return is new, lies in the directory and holds what the file of that number holds.
Gathered(w, dir, names, n, r) ==
    /\ IsFiniteSet(DOMAIN r.work)
    /\ DOMAIN w \subseteq DOMAIN r.work
    /\ \A x \in DOMAIN w : r.work[x] = w[x]
    /\ \A x \in DOMAIN r.work \ DOMAIN w : x.dir = dir
    /\ r.names \in Seq(DOMAIN r.work \ DOMAIN w) /\ Len(r.names) = n /\ Distinct(r.names)
    /\ \A j \in 1..n :
          /\ r.names[j] = [dir |-> dir, base |-> r.names[j].base, kind |-> names[j].kind]
          /\ Renamable(r.names[j])
          /\ r.work[r.names[j]] = HeldIn(w, names[j])

\* One round adds one file under a free name.
LEMMA GatherRound ==
    ASSUME NEW w, NEW dir, NEW names, NEW n \in Nat, NEW r, NEW new,
           Gathered(w, dir, names, n, r), new = Unused(r.work, dir, names[n + 1]),
           Renamable(names[n + 1]), names[n + 1].dir # dir
    PROVE  Gathered(w, dir, names, n + 1, [work |-> Put(r.work, new, HeldIn(r.work, names[n + 1])),
                                           names |-> Append(r.names, new)])
  <1> DEFINE h == HeldIn(r.work, names[n + 1])
             v == Put(r.work, new, h)
             ns == Append(r.names, new)
             D == DOMAIN r.work \ DOMAIN w
             E == DOMAIN v \ DOMAIN w
  <1>1. /\ IsFiniteSet(DOMAIN r.work)
        /\ DOMAIN w \subseteq DOMAIN r.work
        /\ \A x \in DOMAIN w : r.work[x] = w[x]
        /\ \A x \in DOMAIN r.work \ DOMAIN w : x.dir = dir
        /\ r.names \in Seq(D) /\ Len(r.names) = n /\ Distinct(r.names)
        /\ \A j \in 1..n :
              /\ r.names[j] = [dir |-> dir, base |-> r.names[j].base, kind |-> names[j].kind]
              /\ Renamable(r.names[j])
              /\ r.work[r.names[j]] = HeldIn(w, names[j])
    BY DEF Gathered
  <1>2. /\ new \notin DOMAIN r.work /\ Renamable(new)
        /\ new = [dir |-> dir, base |-> new.base, kind |-> names[n + 1].kind]
    BY <1>1, UnusedFacts
  <1>3. /\ DOMAIN v = DOMAIN r.work \cup {new} /\ v[new] = h
        /\ \A y \in DOMAIN r.work : v[y] = r.work[y]
    <2> HIDE DEF h
    <2>1. DOMAIN v = DOMAIN r.work \cup {new} BY DEF Put
    <2>2. v[new] = h BY DEF Put
    <2>3. \A y \in DOMAIN r.work \ {new} : v[y] = r.work[y] BY DEF Put
    <2> HIDE DEF v
    <2> QED BY <1>2, <2>1, <2>2, <2>3
  <1>4. h = HeldIn(w, names[n + 1])
    BY <1>1 DEF HeldIn
  <1> HIDE DEF h, v
  <1>5. IsFiniteSet(DOMAIN v) BY <1>1, <1>3, FS_AddElement
  <1>6. D \subseteq E /\ new \in E BY <1>1, <1>2, <1>3
  <1>7. new.dir = dir BY <1>2
  <1>8. \A x \in E : x.dir = dir BY <1>1, <1>3, <1>7
  <1> HIDE DEF D, E
  <1>9. r.names \in Seq(E) BY <1>1, <1>6
  <1>10. /\ ns \in Seq(E) /\ Len(ns) = n + 1 /\ ns[n + 1] = new
         /\ \A j \in 1..n : ns[j] = r.names[j]
    BY <1>1, <1>6, <1>9
  <1>11. \A j \in 1..n : r.names[j] \in DOMAIN r.work BY <1>1 DEF D
  <1>12. Distinct(ns)
    <2>1. DOMAIN ns = 1..(n + 1) /\ DOMAIN r.names = 1..n BY <1>1, <1>10
    <2>2. \A j \in 1..n : ns[j] # new BY <1>2, <1>10, <1>11
    <2> HIDE DEF ns
    <2> QED BY <1>1, <1>10, <2>1, <2>2 DEF Distinct
  <1> HIDE DEF ns
  <1>13. ASSUME NEW j \in 1..(n + 1)
         PROVE  /\ ns[j] = [dir |-> dir, base |-> ns[j].base, kind |-> names[j].kind]
                /\ Renamable(ns[j])
                /\ v[ns[j]] = HeldIn(w, names[j])
    <2>1. CASE j = n + 1 BY <1>2, <1>3, <1>4, <1>10, <2>1
    <2>2. CASE j # n + 1
      <3>1. j \in 1..n BY <2>2
      <3>2. ns[j] = r.names[j] /\ v[r.names[j]] = r.work[r.names[j]] BY <1>3, <1>10, <1>11, <3>1
      <3>3. /\ r.names[j] = [dir |-> dir, base |-> r.names[j].base, kind |-> names[j].kind]
            /\ Renamable(r.names[j]) /\ r.work[r.names[j]] = HeldIn(w, names[j])
        BY <1>1, <3>1
      <3> QED BY <3>2, <3>3
    <2> QED BY <2>1, <2>2
  <1>14. DOMAIN w \subseteq DOMAIN v /\ \A x \in DOMAIN w : v[x] = w[x] BY <1>1, <1>3
  <1> QED BY <1>5, <1>8, <1>10, <1>12, <1>13, <1>14 DEF Gathered, E, v, ns, h

\* What gatherSrcs does for files that do not lie in the directory yet.
LEMMA GatherFacts ==
    ASSUME NEW w, NEW dir, NEW names, IsSeq(names), IsFiniteSet(DOMAIN w),
           \A n \in 1..Len(names) : Renamable(names[n]) /\ names[n].dir # dir
    PROVE  Gathered(w, dir, names, Len(names), gatherSrcs(w, dir, names))
  <1> DEFINE N == Len(names)
             Round(s, n) == [work |-> Put(s.work, Unused(s.work, dir, names[n]), HeldIn(s.work, names[n])),
                             names |-> Append(s.names, Unused(s.work, dir, names[n]))]
             Start == [work |-> w, names |-> <<>>]
             Step(f, n) == IF n = 0 THEN Start ELSE Round(f[n - 1], n)
             Upto(f, m) == f = [n \in 0..m |-> Step(f, n)]
             Built == {m \in 0..N : \E f : Upto(f, m)}
  <1>1. N \in Nat BY SeqFacts
  <1>2. 0 \in Built
    <2>1. Upto([n \in 0..0 |-> Start], 0)
      <3> HIDE DEF Round, Start
      <3> QED OBVIOUS
    <2>2. 0 \in 0..N BY <1>1
    <2> HIDE DEF Upto
    <2> QED BY <2>1, <2>2
  <1>3. ASSUME NEW m \in 0..N, m # N, m \in Built PROVE m + 1 \in Built
    <2> HIDE DEF Round, Start
    <2>1. PICK f : Upto(f, m) BY <1>3
    <2> DEFINE g == [n \in 0..(m + 1) |-> IF n = m + 1 THEN Step(f, n) ELSE f[n]]
    <2>2. ASSUME NEW n \in 0..(m + 1) PROVE g[n] = Step(g, n)
      <3>1. CASE n = m + 1
        <4>1. n # 0 /\ n - 1 \in 0..(m + 1) /\ n - 1 # m + 1 BY <1>1, <3>1
        <4>2. g[n - 1] = f[n - 1] BY <4>1
        <4>3. g[n] = Step(f, n) BY <3>1
        <4> HIDE DEF g
        <4> QED BY <4>2, <4>3
      <3>2. CASE n # m + 1
        <4>1. n \in 0..m BY <1>1, <3>2
        <4>2. g[n] = f[n] /\ f[n] = Step(f, n) BY <2>1, <3>2, <4>1
        <4>3. n # 0 => g[n - 1] = f[n - 1] BY <1>1, <4>1
        <4> HIDE DEF g
        <4> QED BY <4>2, <4>3
      <3> QED BY <3>1, <3>2
    <2>3. g = [n \in 0..(m + 1) |-> g[n]] OBVIOUS
    <2>4. Upto(g, m + 1)
      <3> HIDE DEF g
      <3> QED BY <2>2, <2>3
    <2>5. m + 1 \in 0..N BY <1>1, <1>3
    <2> HIDE DEF Upto, g
    <2> QED BY <2>4, <2>5
  <1>4. N \in Built
    <2>1. N \in 0..N BY <1>1
    <2> HIDE DEF Built, N
    <2>2. 0..N \subseteq Built BY <1>1, <1>2, <1>3, SetInduction
    <2> QED BY <2>1, <2>2
  <1> DEFINE step == CHOOSE f : Upto(f, N)
  <1>5. Upto(step, N)
    <2>1. \E f : Upto(f, N) BY <1>4
    <2> HIDE DEF Upto
    <2> QED BY <2>1
  <1>6. gatherSrcs(w, dir, names) = step[N] BY DEF gatherSrcs
  <1> HIDE DEF step
  <1> DEFINE Good == {n \in 0..N : Gathered(w, dir, names, n, step[n])}
  <1>7. 0 \in Good
    <2>1. step[0] = Start /\ 0 \in 0..N BY <1>1, <1>5
    <2>2. Gathered(w, dir, names, 0, Start)
      <3>1. <<>> \in Seq(DOMAIN w \ DOMAIN w) /\ Len(<<>>) = 0 /\ Distinct(<<>>) BY DEF Distinct
      <3> QED BY <3>1 DEF Gathered
    <2> HIDE DEF Start
    <2> QED BY <2>1, <2>2
  <1>8. ASSUME NEW m \in 0..N, m # N, m \in Good PROVE m + 1 \in Good
    <2>1. m + 1 \in 0..N /\ m + 1 # 0 /\ (m + 1) - 1 = m /\ m + 1 \in 1..N /\ m \in Nat BY <1>1, <1>8
    <2>2. step[m + 1] = Round(step[m], m + 1)
      <3> HIDE DEF Round
      <3> QED BY <1>5, <2>1
    <2>3. Gathered(w, dir, names, m, step[m]) BY <1>8
    <2>4. Renamable(names[m + 1]) /\ names[m + 1].dir # dir BY <2>1
    <2>5. Gathered(w, dir, names, m + 1, Round(step[m], m + 1)) BY <2>1, <2>3, <2>4, GatherRound
    <2> HIDE DEF Round
    <2> QED BY <2>1, <2>2, <2>5
  <1>9. N \in Good
    <2>1. N \in 0..N BY <1>1
    <2> HIDE DEF Good, N
    <2>2. 0..N \subseteq Good BY <1>1, <1>7, <1>8, SetInduction
    <2> QED BY <2>1, <2>2
  <1> QED BY <1>6, <1>9
\* What is appended to two different sequences keeps them apart.
LEMMA AppendFacts ==
    ASSUME NEW a, NEW b, NEW c, IsSeq(a), IsSeq(b)
    PROVE  /\ Len(Append(a, c)) = Len(a) + 1
           /\ Append(a, c) = Append(b, c) => a = b
  <1> DEFINE S == Range(a) \cup Range(b) \cup {c}
  <1>1. a \in Seq(S) /\ b \in Seq(S) /\ c \in S /\ Len(a) \in Nat /\ Len(b) \in Nat BY SeqFacts
  <1>2. a = [i \in 1..Len(a) |-> a[i]] /\ b = [i \in 1..Len(b) |-> b[i]] BY DEF IsSeq
  <1> HIDE DEF S
  <1>3. Len(Append(a, c)) = Len(a) + 1 /\ Len(Append(b, c)) = Len(b) + 1 BY <1>1
  <1>4. /\ \A i \in 1..Len(a) : Append(a, c)[i] = a[i]
        /\ \A i \in 1..Len(b) : Append(b, c)[i] = b[i]
    BY <1>1
  <1>5. ASSUME Append(a, c) = Append(b, c) PROVE a = b
    <2>1. Len(a) = Len(b) BY <1>1, <1>3, <1>5
    <2>2. \A i \in 1..Len(a) : a[i] = b[i] BY <1>4, <1>5, <2>1
    <2> QED BY <1>2, <2>1, <2>2
  <1> QED BY <1>3, <1>5

\* What cgo makes of a list of files in work directory w: the names of the generated files are
\* new or lie in its own directory; the first of both lists is a file of cgo's own, and the
\* others hold the rewritten files.
Listed(w, subdir, names, v, list) ==
    /\ IsSeq(list) /\ Len(list) = Len(names) + 1
    /\ \A n \in 1..(Len(names) + 1) :
          /\ list[n] \in DOMAIN v /\ list[n].dir = subdir /\ list[n] # CgoImports
          /\ v[list[n]] = IF n = 1 THEN Generated("cgo") ELSE Mark(HeldIn(w, names[n - 1]), "cgo")

Rewritten(w, subdir, names, r) ==
    /\ IsFiniteSet(DOMAIN r.work)
    /\ DOMAIN w \subseteq DOMAIN r.work
    /\ \A x \in DOMAIN w : x.dir # subdir => r.work[x] = w[x]
    /\ \A x \in DOMAIN r.work \ DOMAIN w : x.dir \in {subdir, SrcDir[subdir]}
    /\ Listed(w, subdir, names, r.work, r.goSrcs)
    /\ Listed(w, subdir, names, r.work, r.cSrcs)

\* What cgo does with files that do not lie in its own directory yet.
LEMMA CgoFacts ==
    ASSUME NEW w, NEW subdir, NEW names, IsSeq(names), Distinct(names), IsFiniteSet(DOMAIN w),
           \A n \in 1..Len(names) : GoFile(names[n]) /\ names[n].dir # SrcDir[subdir]
    PROVE  Rewritten(w, subdir, names, generateCgoSources(w, subdir, names))
  <1> DEFINE N == Len(names)
             g == IF InSingleDir(names) THEN [work |-> w, names |-> names]
                  ELSE gatherSrcs(w, SrcDir[subdir], names)
             GoName(n) == WorkName(subdir, Append(g.names[n].base, 0), "go")
             CName(n) == WorkName(subdir, Append(g.names[n].base, 0), "c")
             new == {GoName(n) : n \in DOMAIN names} \cup {CName(n) : n \in DOMAIN names}
             From(x) == CHOOSE n \in DOMAIN names : x \in {GoName(n), CName(n)}
             gotypes == WorkName(subdir, <<"_cgo_gotypes">>, "go")
             export == WorkName(subdir, <<"_cgo_export">>, "c")
             v == [x \in DOMAIN g.work \cup new \cup {gotypes, export} |->
                      IF x \in new THEN Mark(HeldIn(g.work, g.names[From(x)]), "cgo")
                      ELSE IF x \in {gotypes, export} THEN Generated("cgo") ELSE g.work[x]]
             go == <<gotypes>> \o [n \in DOMAIN names |-> GoName(n)]
             c == <<export>> \o [n \in DOMAIN names |-> CName(n)]
  <1>1. N \in Nat /\ DOMAIN names = 1..N BY SeqFacts
  <1>2. \A n \in 1..N : GoFile(names[n]) /\ Renamable(names[n]) BY DEF GoFile
  <1>3. /\ IsFiniteSet(DOMAIN g.work) /\ DOMAIN w \subseteq DOMAIN g.work
        /\ \A x \in DOMAIN w : g.work[x] = w[x]
        /\ \A x \in DOMAIN g.work \ DOMAIN w : x.dir = SrcDir[subdir]
        /\ \A n \in 1..N : /\ Renamable(g.names[n])
                           /\ HeldIn(g.work, g.names[n]) = HeldIn(w, names[n])
        /\ \A m, n \in 1..N : g.names[m].base = g.names[n].base => m = n
    <2>1. CASE InSingleDir(names)
      <3>1. g = [work |-> w, names |-> names] BY <2>1
      <3>2. \A m, n \in 1..N : names[m].dir = names[n].dir
        BY <1>1, <2>1 DEF InSingleDir, Range
      <3>3. ASSUME NEW m \in 1..N, NEW n \in 1..N, names[m].base = names[n].base PROVE m = n
        <4>1. names[m].dir = names[n].dir BY <3>2
        <4>2. names[m] = names[n] BY <1>2, <3>3, <4>1 DEF GoFile
        <4> QED BY <1>1, <4>2 DEF Distinct
      <3> HIDE DEF g
      <3> QED BY <1>2, <3>1, <3>3
    <2>2. CASE ~InSingleDir(names)
      <3> DEFINE r == gatherSrcs(w, SrcDir[subdir], names)
      <3>1. g = r BY <2>2
      <3>2. Gathered(w, SrcDir[subdir], names, N, r) BY <1>2, GatherFacts
      <3> HIDE DEF g, r
      <3>3. /\ r.names \in Seq(DOMAIN r.work \ DOMAIN w) /\ Len(r.names) = N /\ Distinct(r.names)
            /\ DOMAIN r.names = 1..N
            /\ \A j \in 1..N :
                  /\ r.names[j] = [dir |-> SrcDir[subdir], base |-> r.names[j].base, kind |-> names[j].kind]
                  /\ Renamable(r.names[j])
                  /\ r.work[r.names[j]] = HeldIn(w, names[j])
        BY <3>2 DEF Gathered
      <3>4. \A n \in 1..N : names[n].kind = "go"
        <4> TAKE n \in 1..N
        <4>1. names[n] = [dir |-> names[n].dir, base |-> names[n].base, kind |-> "go"] BY <1>2 DEF GoFile
        <4> QED BY <4>1
      <3>5. ASSUME NEW m \in 1..N, NEW n \in 1..N, r.names[m].base = r.names[n].base PROVE m = n
        <4>1. r.names[m] = [dir |-> SrcDir[subdir], base |-> r.names[m].base, kind |-> "go"] BY <3>3, <3>4
        <4>2. r.names[n] = [dir |-> SrcDir[subdir], base |-> r.names[n].base, kind |-> "go"] BY <3>3, <3>4
        <4>3. r.names[m] = r.names[n] BY <3>5, <4>1, <4>2
        <4> QED BY <3>3, <4>3 DEF Distinct
      <3>6. \A n \in 1..N : HeldIn(r.work, r.names[n]) = HeldIn(w, names[n])
        <4> TAKE n \in 1..N
        <4>1. r.names[n] \in DOMAIN r.work BY <3>3
        <4> QED BY <3>3, <4>1 DEF HeldIn
      <3> QED BY <3>1, <3>2, <3>3, <3>5, <3>6 DEF Gathered
    <2> QED BY <2>1, <2>2
  <1>4. generateCgoSources(w, subdir, names) = [work |-> v, goSrcs |-> go, cSrcs |-> c]
    BY DEF generateCgoSources
  <1> HIDE DEF g
  <1> DEFINE Base(n) == Append(g.names[n].base, 0)
  <1>5. \A n \in 1..N : Len(Base(n)) > 1
    <2> TAKE n \in 1..N
    <2>1. IsSeq(g.names[n].base) /\ Len(g.names[n].base) > 0 BY <1>3 DEF Renamable
    <2>2. Len(g.names[n].base) \in Nat BY <2>1, SeqFacts
    <2>3. Len(Base(n)) = Len(g.names[n].base) + 1 BY <2>1, AppendFacts
    <2> QED BY <2>1, <2>2, <2>3
  <1>6. \A m, n \in 1..N : Base(m) = Base(n) => m = n
    <2> SUFFICES ASSUME NEW m \in 1..N, NEW n \in 1..N, Base(m) = Base(n) PROVE m = n
      OBVIOUS
    <2>1. IsSeq(g.names[m].base) /\ IsSeq(g.names[n].base) BY <1>3 DEF Renamable
    <2>2. g.names[m].base = g.names[n].base BY <2>1, AppendFacts
    <2> QED BY <1>3, <2>2
  <1>7. \A n \in 1..N : GoName(n) \in new /\ CName(n) \in new BY <1>1
  <1>8. \A m, n \in 1..N : /\ GoName(m) = GoName(n) => m = n
                           /\ CName(m) = CName(n) => m = n
                           /\ GoName(m) # CName(n)
    BY <1>6 DEF WorkName
  <1>9. \A n \in 1..N : From(GoName(n)) = n /\ From(CName(n)) = n
    <2> TAKE n \in 1..N
    <2> HIDE DEF GoName, CName
    <2>1. \A m \in DOMAIN names : GoName(n) \in {GoName(m), CName(m)} <=> m = n BY <1>1, <1>8
    <2>2. \A m \in DOMAIN names : CName(n) \in {GoName(m), CName(m)} <=> m = n BY <1>1, <1>8
    <2> QED BY <1>1, <2>1, <2>2
  <1>10. \A x \in new : Len(x.base) > 1 /\ x.dir = subdir
    BY <1>1, <1>5 DEF WorkName
  <1>11. /\ gotypes.base = <<"_cgo_gotypes">> /\ export.base = <<"_cgo_export">>
         /\ gotypes.dir = subdir /\ export.dir = subdir
         /\ Len(<<"_cgo_gotypes">>) = 1 /\ Len(<<"_cgo_export">>) = 1 /\ Len(<<"_cgo_imports">>) = 1
         /\ CgoImports.base = <<"_cgo_imports">>
    BY DEF WorkName, CgoImports
  <1>12. <<"_cgo_gotypes">> # <<"_cgo_imports">> /\ <<"_cgo_export">> # <<"_cgo_imports">> OBVIOUS
  <1>13. gotypes \notin new /\ export \notin new /\ CgoImports \notin new \cup {gotypes, export}
    <2> HIDE DEF new, gotypes, export
    <2>1. Len(gotypes.base) = 1 /\ Len(export.base) = 1 /\ Len(CgoImports.base) = 1 BY <1>11
    <2>2. gotypes # CgoImports /\ export # CgoImports BY <1>11, <1>12
    <2>3. \A x : Len(x.base) = 1 => x \notin new
      <3> SUFFICES ASSUME NEW x, Len(x.base) = 1, x \in new PROVE FALSE OBVIOUS
      <3>1. Len(x.base) > 1 BY <1>10
      <3> QED BY <3>1
    <2>4. gotypes \notin new /\ export \notin new /\ CgoImports \notin new BY <2>1, <2>3
    <2> QED BY <2>2, <2>4
  <1>14. IsFiniteSet(DOMAIN v)
    <2> DEFINE f == [n \in 1..N |-> GoName(n)]
               h == [n \in 1..N |-> CName(n)]
               A == {GoName(n) : n \in 1..N}
               B == {CName(n) : n \in 1..N}
    <2>1. IsFiniteSet(1..N) BY <1>1, FS_Interval
    <2>2. f \in Surjection(1..N, A) /\ h \in Surjection(1..N, B) BY DEF Surjection
    <2>3. IsFiniteSet(A) /\ IsFiniteSet(B)
      <3> HIDE DEF f, h, A, B
      <3> QED BY <2>1, <2>2, FS_Surjection
    <2>4. new = A \cup B BY <1>1
    <2>5. DOMAIN v = ((DOMAIN g.work \cup (A \cup B)) \cup {gotypes}) \cup {export} BY <2>4
    <2> HIDE DEF A, B, gotypes, export
    <2>6. IsFiniteSet(A \cup B) BY <2>3, FS_Union
    <2>7. IsFiniteSet(DOMAIN g.work \cup (A \cup B)) BY <1>3, <2>6, FS_Union
    <2>8. IsFiniteSet((DOMAIN g.work \cup (A \cup B)) \cup {gotypes}) BY <2>7, FS_AddElement
    <2>9. IsFiniteSet(((DOMAIN g.work \cup (A \cup B)) \cup {gotypes}) \cup {export}) BY <2>8, FS_AddElement
    <2> HIDE DEF v
    <2> QED BY <2>5, <2>9
  <1>15. \A n \in 1..N : v[GoName(n)] = Mark(HeldIn(w, names[n]), "cgo")
                         /\ v[CName(n)] = Mark(HeldIn(w, names[n]), "cgo")
    <2> TAKE n \in 1..N
    <2> HIDE DEF new, From, GoName, CName, gotypes, export
    <2> QED BY <1>3, <1>7, <1>9
  <1>16. v[gotypes] = Generated("cgo") /\ v[export] = Generated("cgo")
    <2> HIDE DEF new, From, gotypes, export
    <2> QED BY <1>13
  <1>17. \A x \in DOMAIN w : x.dir # subdir => v[x] = w[x]
    <2> TAKE x \in DOMAIN w
    <2> HAVE x.dir # subdir
    <2>1. x \notin new \cup {gotypes, export}
      <3> HIDE DEF new, gotypes, export
      <3> QED BY <1>10, <1>11
    <2> HIDE DEF new, gotypes, export, From
    <2> QED BY <1>3, <2>1
  <1>18. \A x \in DOMAIN v \ DOMAIN w : x.dir \in {subdir, SrcDir[subdir]}
    <2> TAKE x \in DOMAIN v \ DOMAIN w
    <2> HIDE DEF new, gotypes, export, From
    <2> QED BY <1>3, <1>10, <1>11
  <1>19. DOMAIN w \subseteq DOMAIN v BY <1>3
  <1>20. /\ \A n \in 1..N : GoName(n) \in DOMAIN v /\ CName(n) \in DOMAIN v
         /\ gotypes \in DOMAIN v /\ export \in DOMAIN v
    <2> HIDE DEF new, gotypes, export, From, GoName, CName
    <2> QED BY <1>7
  <1>21. /\ \A n \in 1..N : GoName(n).dir = subdir /\ CName(n).dir = subdir
         /\ \A n \in 1..N : GoName(n) # CgoImports /\ CName(n) # CgoImports
         /\ gotypes # CgoImports /\ export # CgoImports
    <2> HIDE DEF new, gotypes, export, GoName, CName
    <2> QED BY <1>7, <1>10, <1>13
  <1> HIDE DEF v
  <1>22. Listed(w, subdir, names, v, go)
    <2> DEFINE rest == [n \in DOMAIN names |-> GoName(n)]
    <2> HIDE DEF GoName, gotypes
    <2>1. rest \in Seq({GoName(n) : n \in 1..N}) /\ Len(rest) = N BY <1>1
    <2>2. /\ IsSeq(go) /\ Len(go) = N + 1 /\ go[1] = gotypes
          /\ \A n \in 1..(N + 1) : n # 1 => n - 1 \in 1..N /\ go[n] = GoName(n - 1)
      BY <1>1, <2>1 DEF IsSeq
    <2> HIDE DEF go
    <2> QED BY <1>11, <1>15, <1>16, <1>20, <1>21, <2>2 DEF Listed
  <1>23. Listed(w, subdir, names, v, c)
    <2> DEFINE rest == [n \in DOMAIN names |-> CName(n)]
    <2> HIDE DEF CName, export
    <2>1. rest \in Seq({CName(n) : n \in 1..N}) /\ Len(rest) = N BY <1>1
    <2>2. /\ IsSeq(c) /\ Len(c) = N + 1 /\ c[1] = export
          /\ \A n \in 1..(N + 1) : n # 1 => n - 1 \in 1..N /\ c[n] = CName(n - 1)
      BY <1>1, <2>1 DEF IsSeq
    <2> HIDE DEF c
    <2> QED BY <1>11, <1>15, <1>16, <1>20, <1>21, <2>2 DEF Listed
  <1> HIDE DEF go, c
  <1> QED BY <1>4, <1>14, <1>17, <1>18, <1>19, <1>22, <1>23 DEF Rewritten

-----------------------------------------------------------------------------
(* Temporary files and outputs *)

Early == {"filter", "prepare", "cover", "cgo"}
Middle == {"cc", "nogo", "imports"}
Late == {"embed", "symabis", "compile"}

\* What may be left: the lists of the cover tool and what -work asks to keep.
Kept == {"pkgcfg", "coveroutfiles"} \cup (IF pkg.work THEN {"workdir", "symabis"} ELSE {})
Header == IF pkg.cgoExportH THEN {"cgoexport"} ELSE {}

\* Every other file is deferred from the moment it exists.
TempsInv ==
    /\ pc \in {"filter", "prepare"} => temps = {}
    /\ temps \ deferred \subseteq Kept
    /\ pc = "done" => temps \subseteq Kept

\* The header is missing only where cgo was given C files and no Go files; the package then has
\* no Go files left, and the compiler refuses it.
OutputsInv ==
    /\ pc \in Early \cup Middle \cup Late \cup {"asm", "done"}
    /\ pc \in Early => outputs = {} /\ genGoSrcs = <<>>
    /\ pc \in Middle => outputs = Header \/ (goSrcs = <<>> /\ genGoSrcs = <<>>)
    /\ pc \in Late => outputs = {"imports"} \cup Header \/ goSrcs = <<>>
    /\ pc = "asm" => outputs = {"lib", "export", "imports"} \cup Header
    /\ result = "ok" => pc = "done"
    /\ pc = "done" /\ result = "ok" => outputs = {"lib", "export", "imports"} \cup Header

CleanInv == TempsInv /\ OutputsInv

\* The error that the import check reports is never "ok".
LEMMA ErrorNotOk ==
    ASSUME NEW i, NEW a, NEW r
    PROVE  checkImports(i, a, r).err \in {"cycle", "missing", "none"}
  BY DEF checkImports

\* Before the first step nothing has been made.
LEMMA InitClean == Init => CleanInv
  BY DEF Init, CleanInv, TempsInv, OutputsInv, Early, Middle, Late

\* Every step of the builder keeps the account of temporary files and outputs.
LEMMA NextClean == CleanInv /\ [Next]_vars => CleanInv'
  <1> SUFFICES ASSUME CleanInv, [Next]_vars PROVE CleanInv'
    OBVIOUS
  <1> USE DEF CleanInv, TempsInv, OutputsInv, Early, Middle, Late, Kept, Header, EndWith, EndFrom, GoTo
  <1>1. CASE Filter BY <1>1 DEF Filter
  <1>2. CASE Prepare BY <1>2 DEF Prepare
  <1>3. CASE Cover BY <1>3 DEF Cover
  <1>4. CASE NoCgo BY <1>4 DEF NoCgo
  <1>5. CASE NoCompiler BY <1>5 DEF NoCompiler
  <1>6. CASE COnly BY <1>6 DEF COnly
  <1>7. CASE Cgo BY <1>7 DEF Cgo
  <1>8. CASE CompileC BY <1>8 DEF CompileC
  <1>9. CASE CgoLink BY <1>9 DEF CgoLink
  <1>10. CASE CDone BY <1>10 DEF CDone
  <1>11. CASE Nogo BY <1>11 DEF Nogo
  <1>12. CASE Imports BY <1>12, ErrorNotOk DEF Imports
  <1>13. CASE Embed BY <1>13 DEF Embed
  <1>14. CASE Symabis BY <1>14 DEF Symabis, SymabisFails
  <1>15. CASE Compile BY <1>15 DEF Compile
  <1>16. CASE Assemble BY <1>16 DEF Assemble
  <1>17. CASE Pack BY <1>17 DEF Pack
  <1>18. CASE UNCHANGED vars BY <1>18 DEF vars
  <1> QED
    BY <1>1, <1>2, <1>3, <1>4, <1>5, <1>6, <1>7, <1>8, <1>9, <1>10, <1>11, <1>12, <1>13, <1>14,
       <1>15, <1>16, <1>17, <1>18 DEF Next

\* However the action ends, what it leaves behind is what it is meant to leave.
THEOREM CleanHolds == Spec => []Clean
  <1>1. CleanInv => Clean
    BY DEF Clean, CleanInv, TempsInv, OutputsInv, Early, Middle, Late, Kept, Header
  <1> QED BY <1>1, InitClean, NextClean, PTL DEF Spec

-----------------------------------------------------------------------------
(* The package *)

\* The flags of the builder, whatever the rule was given.
LEMMA PkgFacts ==
    ASSUME PkgInv
    PROVE  /\ IsSeq(pkg.unfilteredSrcs)
           /\ \A m, n \in DOMAIN pkg.unfilteredSrcs :
                 pkg.unfilteredSrcs[m].name = pkg.unfilteredSrcs[n].name => m = n
           /\ \A f \in GivenFiles : IsName(f.name) /\ (f.ext = "go" => f.name.kind = "go")
           /\ ~pkg.coverMode => pkg.coverSrcs = {}
           /\ pkg.coverSrcs \subseteq {f.name : f \in GivenFiles}
           /\ pkg.cgoGoSrcs => pkg.cgoEnabled
           /\ pkg.testFilter \in {"off", "only", "exclude"}
           /\ \A d, e \in Range(pkg.deps) \cup {Coverdata} :
                 /\ d # Nil /\ d.packagePath \notin Std
                 /\ d.packagePath = e.packagePath => d.file = e.file
           /\ IsSeq(pkg.deps)
           /\ pkg.coverMode => Coverdata \in Range(pkg.deps)
  <1>1. PICK lib \in Libs, mode \in Modes : pkg = emit_archive(lib, mode) BY DEF PkgInv
  <1> DEFINE names == {lib.srcs[n].name : n \in DOMAIN lib.srcs}
             coverSrcs == IF lib.instrumented THEN names \ lib.generated ELSE {}
             cover == coverSrcs # {} /\ mode.coverdata
             deps == IF cover THEN Append(lib.deps, Coverdata) ELSE lib.deps
  <1>2. IsLib(lib) BY LibAssumption
  <1>3. /\ pkg.unfilteredSrcs = lib.srcs /\ pkg.deps = deps /\ (pkg.coverMode <=> cover)
        /\ pkg.coverSrcs = IF cover THEN coverSrcs ELSE {}
        /\ pkg.cgoGoSrcs => pkg.cgoEnabled
        /\ pkg.testFilter = lib.testfilter
    BY <1>1 DEF emit_archive, emit_compilepkg
  <1>4. IsSeq(lib.deps) BY <1>2 DEF IsLib
  <1>5. IsSeq(deps) /\ Range(deps) \subseteq Range(lib.deps) \cup {Coverdata}
        /\ (cover => Coverdata \in Range(deps))
    <2>1. CASE ~cover BY <1>4, <2>1
    <2>2. CASE cover
      <3> DEFINE d == lib.deps
                 S == Range(d) \cup {Coverdata}
                 a == Append(d, Coverdata)
      <3>1. d \in Seq(S) /\ Len(d) \in Nat /\ Coverdata \in S BY <1>4, SeqFacts
      <3>2. deps = a BY <2>2
      <3> HIDE DEF S, d
      <3>3. a \in Seq(S) /\ Len(a) = Len(d) + 1 /\ a[Len(d) + 1] = Coverdata BY <3>1
      <3> HIDE DEF a
      <3>4. IsSeq(a) BY <3>3, SeqIsSeq
      <3>5. DOMAIN a = 1..(Len(d) + 1) BY <3>3
      <3>6. \A n \in 1..(Len(d) + 1) : a[n] \in S BY <3>3, <3>5
      <3>7. Range(a) \subseteq S /\ Coverdata \in Range(a) BY <3>1, <3>3, <3>5, <3>6 DEF Range
      <3> QED BY <3>2, <3>4, <3>7 DEF S, d
    <2> QED BY <2>1, <2>2
  <1>6. coverSrcs \subseteq names OBVIOUS
  <1> HIDE DEF deps, cover, coverSrcs
  <1>7. pkg.coverSrcs \subseteq {f.name : f \in GivenFiles} BY <1>3, <1>6 DEF GivenFiles, Range
  <1> HIDE DEF names
  <1> QED BY <1>2, <1>3, <1>5, <1>7 DEF IsLib, GivenFiles, Range

\* What it means for the files of the package.
LEMMA FileFacts ==
    ASSUME PkgInv
    PROVE  /\ \A f, g \in GivenFiles : f.name = g.name => f = g
           /\ \A f \in GivenFiles : f.name.dir \notin OwnDirs /\ Renamable(f.name)
           /\ \A f \in GivenFiles : f.ext = "go" => GoFile(f.name)
  <1>1. \A f, g \in GivenFiles : f.name = g.name => f = g
    <2>1. \A f \in GivenFiles : \E n \in DOMAIN pkg.unfilteredSrcs : f = pkg.unfilteredSrcs[n] BY DEF GivenFiles, Range
    <2> QED BY <2>1, PkgFacts
  <1>2. \A f \in GivenFiles : IsName(f.name) /\ (f.ext = "go" => f.name.kind = "go") BY PkgFacts
  <1>3. ASSUME NEW x, IsName(x) PROVE x.dir \notin OwnDirs /\ Renamable(x)
    <2>1. Len(x.base) # 0 BY <1>3 DEF IsName, IsSeq
    <2>2. IsSeq(x.base) /\ Len(x.base) \in Nat BY <1>3, SeqFacts DEF IsName
    <2> QED BY <1>3, <2>1, <2>2 DEF IsName, Renamable
  <1>4. ASSUME NEW x, IsName(x), x.kind = "go" PROVE GoFile(x)
    <2>1. x = [dir |-> x.dir, base |-> x.base, kind |-> "go"] BY <1>4 DEF IsName
    <2> QED BY <1>3, <1>4, <2>1 DEF GoFile
  <1> QED BY <1>1, <1>2, <1>3, <1>4

\* The sources are files; those of each kind have that extension.
LEMMA SourceFacts ==
    /\ \A e : Sources(e) \subseteq GivenFiles /\ \A f \in Sources(e) : f.ext = e
    /\ GoSources \subseteq Sources("go") /\ PlainFiles \subseteq GoSources /\ CgoFiles \subseteq GoSources
    /\ GoSources = PlainFiles \cup CgoFiles /\ PlainFiles \cap CgoFiles = {}
    /\ AsmFiles \subseteq Sources("s") /\ CSources \subseteq UNION {Sources(e) : e \in CExts}
  BY DEF Sources, GivenFiles, GoSources, PlainFiles, CgoFiles, AsmFiles, CSources

\* What depends on the package only stays what it is.
LEMMA SamePkg ==
    pkg' = pkg =>
        /\ PkgInv => PkgInv'
        /\ GivenFiles' = GivenFiles /\ GoSources' = GoSources /\ CSources' = CSources /\ (UsesC' <=> UsesC)
        /\ PlainFiles' = PlainFiles /\ CgoFiles' = CgoFiles /\ AsmFiles' = AsmFiles /\ CWant' = CWant
        /\ \A e : Sources(e)' = Sources(e)
  <1> SUFFICES ASSUME pkg' = pkg
      PROVE /\ PkgInv => PkgInv'
            /\ GivenFiles' = GivenFiles /\ GoSources' = GoSources /\ CSources' = CSources /\ (UsesC' <=> UsesC)
            /\ PlainFiles' = PlainFiles /\ CgoFiles' = CgoFiles /\ AsmFiles' = AsmFiles /\ CWant' = CWant
            /\ \A e : Sources(e)' = Sources(e)
    OBVIOUS
  <1>1. PkgInv => PkgInv' BY DEF PkgInv
  <1>2. GivenFiles' = GivenFiles BY DEF GivenFiles
  <1>3. \A e : Sources(e)' = Sources(e) BY DEF Sources
  <1>4. Sources("go")' = Sources("go") /\ Sources("s")' = Sources("s") BY DEF Sources
  <1>5. GoSources' = GoSources BY <1>4 DEF GoSources
  <1>6. CSources' = CSources BY DEF CSources, Sources
  <1>7. PlainFiles' = PlainFiles /\ CgoFiles' = CgoFiles BY <1>5 DEF PlainFiles, CgoFiles
  <1>8. AsmFiles' = AsmFiles BY <1>2, <1>4 DEF AsmFiles
  <1>9. CWant' = CWant BY <1>6, <1>8 DEF CWant
  <1>10. UsesC' <=> UsesC BY <1>5, <1>6 DEF UsesC
  <1> QED BY <1>1, <1>2, <1>3, <1>5, <1>6, <1>7, <1>8, <1>9, <1>10

\* What the files hold depends on the package and the files only.
LEMMA SameHeld ==
    pkg' = pkg =>
        /\ All' = All
        /\ Instrumented(PlainFiles)' = Instrumented(PlainFiles)
        /\ Instrumented(CgoFiles)' = Instrumented(CgoFiles)
        /\ Processed(CgoFiles)' = Processed(CgoFiles)
        /\ \A hs, X : Exactly(hs, X)' <=> Exactly(hs, X)
  <1> SUFFICES ASSUME pkg' = pkg
      PROVE /\ All' = All
            /\ Instrumented(PlainFiles)' = Instrumented(PlainFiles)
            /\ Instrumented(CgoFiles)' = Instrumented(CgoFiles)
            /\ Processed(CgoFiles)' = Processed(CgoFiles)
            /\ \A hs, X : Exactly(hs, X)' <=> Exactly(hs, X)
    OBVIOUS
  <1>1. PlainFiles' = PlainFiles /\ CgoFiles' = CgoFiles /\ GoSources' = GoSources BY SamePkg
  <1>2. All' = All BY <1>1 DEF All, Marks
  <1>3. Instrumented(PlainFiles)' = Instrumented(PlainFiles) BY <1>1 DEF Instrumented, CoverMarks
  <1>4. Instrumented(CgoFiles)' = Instrumented(CgoFiles) BY <1>1 DEF Instrumented, CoverMarks
  <1>5. Processed(CgoFiles)' = Processed(CgoFiles) BY <1>1 DEF Processed, CoverMarks
  <1>6. \A hs, X : Exactly(hs, X)' <=> Exactly(hs, X) BY DEF Exactly, Own
  <1> QED BY <1>2, <1>3, <1>4, <1>5, <1>6

\* Every step leaves the package alone.
LEMMA PkgStep == [Next]_vars => pkg' = pkg
  BY DEF Next, vars, Filter, Prepare, Cover, NoCgo, NoCompiler, COnly, Cgo, CompileC, CgoLink, CDone, Nogo,
         Imports, Embed, Symabis, Compile, Assemble, Pack

-----------------------------------------------------------------------------
(* Filtering *)

\* What filterAndSplitFiles and applyTestFilter leave.
LEMMA FilterFacts ==
    ASSUME PkgInv
    PROVE  LET r == applyTestFilter(filterAndSplitFiles(pkg.unfilteredSrcs)) IN
           /\ \A e \in Exts : IsSeq(r[e]) /\ Distinct(r[e])
           /\ Range(r["go"]) = GoSources
           /\ \A e \in CExts : Range(r[e]) = Sources(e)
           /\ Range(r["s"]) = AsmFiles
  <1> DEFINE files == pkg.unfilteredSrcs
             Chosen(e) == {f \in Range(files) : f.ext = e /\ Matched(f)}
             split == SplitFiles(files)
             mixed == \E f \in Range(files) : isCgo(f)
             drop == mixed /\ ~pkg.cgoEnabled
             r1 == filterAndSplitFiles(files)
             Tested(fs) == {f \in fs : pkg.testFilter # "off" => (PkgOf(f) \in TestPkgs <=> pkg.testFilter = "only")}
             r == applyTestFilter(r1)
  <1>1. IsSeq(files) /\ Distinct(files) /\ GivenFiles = Range(files) BY PkgFacts DEF Distinct, GivenFiles
  <1>2. split = [e \in Exts |-> Only(Chosen(e), files)] BY DEF SplitFiles
  <1>3. \A e \in Exts : IsSeq(split[e]) /\ Distinct(split[e]) /\ Range(split[e]) = Chosen(e)
    <2> TAKE e \in Exts
    <2> HIDE DEF files
    <2> DEFINE S == Chosen(e)
    <2>1. split[e] = Only(S, files) BY <1>2
    <2>2. S \subseteq Range(files) OBVIOUS
    <2> HIDE DEF S, split
    <2>3. /\ IsSeq(Only(S, files)) /\ Range(Only(S, files)) = Range(files) \cap S
          /\ Distinct(files) => Distinct(Only(S, files))
      BY <1>1, OnlyFacts
    <2>4. Range(split[e]) = S BY <2>1, <2>2, <2>3
    <2> QED BY <1>1, <2>1, <2>3, <2>4 DEF S
  <1>4. r1 = IF drop THEN [split EXCEPT !["s"] = <<>>] ELSE split BY DEF filterAndSplitFiles
  <1>5. "go" \in Exts /\ "s" \in Exts /\ "s" \notin CExts /\ "go" \notin CExts /\ CExts \subseteq Exts
    BY DEF Exts, CExts
  <1>6. DOMAIN r1 = Exts /\ DOMAIN split = Exts BY <1>2, <1>4
  <1> HIDE DEF split
  <1>7. /\ \A e \in Exts \ {"s"} : r1[e] = split[e]
        /\ r1["s"] = IF drop THEN <<>> ELSE split["s"]
    BY <1>4, <1>5, <1>6
  <1> HIDE DEF r1
  <1>8. r = [r1 EXCEPT !["go"] = Only(Tested(Range(r1["go"])), r1["go"])] BY DEF applyTestFilter
  <1>9. /\ \A e \in Exts \ {"go"} : r[e] = r1[e]
        /\ r["go"] = Only(Tested(Range(r1["go"])), r1["go"])
    BY <1>5, <1>6, <1>8
  <1> HIDE DEF r, drop
  <1>10. IsSeq(<<>>) /\ Distinct(<<>>) /\ Range(<<>>) = {} BY DEF IsSeq, Distinct, Range
  <1>11. \A e \in Exts : IsSeq(r1[e]) /\ Distinct(r1[e])
    BY <1>3, <1>7, <1>10
  <1>12. /\ IsSeq(r["go"]) /\ Distinct(r["go"])
         /\ Range(r["go"]) = Range(r1["go"]) \cap Tested(Range(r1["go"]))
    <2> DEFINE S == Tested(Range(r1["go"])) s == r1["go"]
    <2>1. IsSeq(s) /\ Distinct(s) BY <1>5, <1>11
    <2>2. r["go"] = Only(S, s) BY <1>9
    <2> HIDE DEF S, s
    <2>3. IsSeq(Only(S, s)) /\ Range(Only(S, s)) = Range(s) \cap S /\ Distinct(Only(S, s)) BY <2>1, OnlyFacts
    <2>4. IsSeq(r["go"]) /\ Distinct(r["go"]) /\ Range(r["go"]) = Range(s) \cap S BY <2>2, <2>3
    <2> QED BY <2>4 DEF S, s
  <1>13. \A e \in Exts : IsSeq(r[e]) /\ Distinct(r[e]) BY <1>9, <1>11, <1>12
  <1>14. Range(r["go"]) = GoSources
    <2>1. Range(r["go"]) = Tested(Chosen("go"))
      <3>1. Range(r1["go"]) = Chosen("go") BY <1>3, <1>5, <1>7
      <3> HIDE DEF Chosen
      <3> QED BY <1>12, <3>1
    <2>2. \A f : f.ext = "go" => /\ Matched(f) <=> f.constraint /\ (isCgo(f) => pkg.cgoEnabled)
                                 /\ PkgOf(f) \in TestPkgs <=> f.parses /\ f.pkg = "p_test"
      BY DEF Matched, PkgOf, TestPkgs
    <2>3. pkg.testFilter \in {"off", "only", "exclude"} BY PkgFacts
    <2>4. \A f : f \in Tested(Chosen("go")) <=> f \in GoSources
      <3> HIDE DEF files
      <3> QED BY <1>1, <2>2, <2>3 DEF GoSources, Sources, files
    <2> QED BY <2>1, <2>4
  <1>15. \A f : f.ext # "go" => (Matched(f) <=> f.constraint) BY DEF Matched, isCgo, ImportsOf
  <1>16. \A e \in Exts \ {"go"} : Chosen(e) = Sources(e)
    BY <1>15 DEF Sources
  <1>17. \A e \in CExts : Range(r[e]) = Sources(e)
    <2> TAKE e \in CExts
    <2>1. e \in Exts \ {"go", "s"} BY <1>5
    <2>2. r[e] = split[e] BY <1>7, <1>9, <2>1
    <2>3. Range(split[e]) = Sources(e) BY <1>3, <1>16, <2>1
    <2> QED BY <2>2, <2>3
  <1>18. Range(r["s"]) = AsmFiles
    <2>1. r["s"] = IF drop THEN <<>> ELSE split["s"] BY <1>5, <1>7, <1>9
    <2>2. Range(split["s"]) = Sources("s") BY <1>3, <1>5, <1>16
    <2>3. drop <=> ~pkg.cgoEnabled /\ \E f \in GivenFiles : isCgo(f) BY <1>1 DEF drop
    <2> QED BY <1>10, <2>1, <2>2, <2>3 DEF AsmFiles
  <1> QED BY <1>13, <1>14, <1>17, <1>18 DEF r, r1

\* Where the builder is before and after a step.
LEMMA PcStep ==
    [Next]_vars =>
        /\ pc' # "filter" => pc # "filter" \/ Filter
        /\ pc' = "filter" => UNCHANGED vars
        /\ pc = "done" => UNCHANGED vars
        /\ pc # "filter" => UNCHANGED srcs
        /\ pc = "filter" => Filter \/ UNCHANGED vars
  BY DEF Next, vars, GoTo, EndWith, EndFrom, Filter, Prepare, Cover, NoCgo, NoCompiler, COnly, Cgo, CompileC, CgoLink, CDone,
         Nogo, Imports, Embed, Symabis, SymabisFails, Compile, Assemble, Pack

\* The filtered sources are those that the package consists of.
LEMMA FilterStep == PkgInv /\ FilterInv /\ [Next]_vars => FilterInv'
  <1> SUFFICES ASSUME PkgInv, FilterInv, [Next]_vars PROVE FilterInv'
    OBVIOUS
  <1>1. pkg' = pkg BY PkgStep
  <1>2. GoSources' = GoSources /\ AsmFiles' = AsmFiles /\ \A e : Sources(e)' = Sources(e) BY <1>1, SamePkg
  <1>3. CASE pc \notin {"filter", "done"}
    <2>1. srcs' = srcs BY <1>3, PcStep
    <2> QED BY <1>2, <1>3, <2>1 DEF FilterInv
  <1>4. CASE UNCHANGED vars
    <2>1. srcs' = srcs /\ pc' = pc BY <1>4 DEF vars
    <2> QED BY <1>2, <2>1 DEF FilterInv
  <1>5. CASE Filter
    <2>1. pc' # "done" => srcs' = applyTestFilter(filterAndSplitFiles(pkg.unfilteredSrcs))
      BY <1>5 DEF Filter, EndWith, EndFrom
    <2> QED BY <1>2, <2>1, FilterFacts DEF FilterInv
  <1> QED BY <1>3, <1>4, <1>5, PcStep

-----------------------------------------------------------------------------
(* Lists of files *)

\* c is the concatenation of a and b, place by place.
Joined(a, b, c) ==
    /\ IsSeq(c) /\ Len(c) = Len(a) + Len(b) /\ DOMAIN c = 1..(Len(a) + Len(b))
    /\ \A n \in 1..Len(a) : n \in DOMAIN c /\ c[n] = a[n]
    /\ \A n \in 1..Len(b) : n + Len(a) \in DOMAIN c /\ c[n + Len(a)] = b[n]
    /\ \A n \in DOMAIN c : n \in 1..Len(a) \/ \E k \in 1..Len(b) : n = k + Len(a)
    /\ Range(c) = Range(a) \cup Range(b)

\* That is what the concatenation of two sequences is.
LEMMA ConcatFacts == ASSUME NEW a, NEW b, IsSeq(a), IsSeq(b) PROVE Joined(a, b, a \o b)
  <1> DEFINE S == Range(a) \cup Range(b)
             c == a \o b
  <1>1. a \in Seq(S) /\ b \in Seq(S) /\ Len(a) \in Nat /\ Len(b) \in Nat
        /\ DOMAIN a = 1..Len(a) /\ DOMAIN b = 1..Len(b) BY SeqFacts
  <1>2. \A n \in 1..Len(a) : a[n] \in Range(a) BY SeqFacts
  <1>3. \A n \in 1..Len(b) : b[n] \in Range(b) BY SeqFacts
  <1> HIDE DEF S
  <1>4. /\ c \in Seq(S) /\ Len(c) = Len(a) + Len(b) /\ DOMAIN c = 1..(Len(a) + Len(b))
        /\ \A n \in 1..Len(a) : c[n] = a[n]
    BY <1>1
  <1>5. \A n \in 1..Len(b) : c[n + Len(a)] = b[n] BY <1>1
  <1> HIDE DEF c
  <1>6. IsSeq(c) BY <1>4, SeqIsSeq
  <1>7. \A n \in 1..Len(a) : n \in DOMAIN c BY <1>1, <1>4
  <1>8. \A n \in 1..Len(b) : n + Len(a) \in DOMAIN c BY <1>1, <1>4
  <1>9. \A n \in DOMAIN c : n \in 1..Len(a) \/ \E k \in 1..Len(b) : n = k + Len(a)
    <2> TAKE n \in DOMAIN c
    <2>1. n \in 1..(Len(a) + Len(b)) BY <1>4
    <2>2. n \notin 1..Len(a) => n - Len(a) \in 1..Len(b) /\ n = (n - Len(a)) + Len(a) BY <1>1, <2>1
    <2> QED BY <2>2
  <1>10. Range(c) = Range(a) \cup Range(b)
    <2>1. Range(c) \subseteq Range(a) \cup Range(b) BY <1>2, <1>3, <1>4, <1>5, <1>9 DEF Range
    <2>2. Range(a) \subseteq Range(c) BY <1>1, <1>4, <1>7 DEF Range
    <2>3. Range(b) \subseteq Range(c) BY <1>1, <1>5, <1>8 DEF Range
    <2> QED BY <2>1, <2>2, <2>3
  <1> QED BY <1>4, <1>5, <1>6, <1>7, <1>8, <1>9, <1>10 DEF c, Joined

\* A list of one element.
LEMMA OneFacts ==
    ASSUME NEW x
    PROVE  IsSeq(<<x>>) /\ Len(<<x>>) = 1 /\ DOMAIN <<x>> = {1} /\ <<x>>[1] = x /\ Range(<<x>>) = {x}
  BY DEF IsSeq, Range

\* Two lists of different files make one.
LEMMA DistinctConcat ==
    ASSUME NEW a, NEW b, IsSeq(a), IsSeq(b), Distinct(a), Distinct(b), Range(a) \cap Range(b) = {}
    PROVE  Distinct(a \o b)
  <1> DEFINE c == a \o b
  <1>1. DOMAIN a = 1..Len(a) /\ DOMAIN b = 1..Len(b) BY SeqFacts
  <1>2. /\ \A n \in 1..Len(a) : c[n] = a[n] /\ a[n] \in Range(a)
        /\ \A n \in 1..Len(b) : c[n + Len(a)] = b[n] /\ b[n] \in Range(b)
        /\ \A n \in DOMAIN c : n \in 1..Len(a) \/ \E k \in 1..Len(b) : n = k + Len(a)
    <2>1. Joined(a, b, c) BY ConcatFacts
    <2>2. \A n \in 1..Len(a) : a[n] \in Range(a) BY SeqFacts
    <2>3. \A n \in 1..Len(b) : b[n] \in Range(b) BY SeqFacts
    <2>4. \A n \in 1..Len(a) : n \in DOMAIN c /\ c[n] = a[n] BY <2>1 DEF Joined
    <2>5. \A n \in 1..Len(b) : n + Len(a) \in DOMAIN c /\ c[n + Len(a)] = b[n] BY <2>1 DEF Joined
    <2>6. \A n \in DOMAIN c : n \in 1..Len(a) \/ \E k \in 1..Len(b) : n = k + Len(a) BY <2>1 DEF Joined
    <2> HIDE DEF c
    <2> QED BY <2>2, <2>3, <2>4, <2>5, <2>6
  <1> HIDE DEF c
  <1>3. SUFFICES ASSUME NEW m \in DOMAIN c, NEW n \in DOMAIN c, c[m] = c[n] PROVE m = n
    BY DEF Distinct, c
  <1>4. CASE m \in 1..Len(a) /\ n \in 1..Len(a) BY <1>1, <1>2, <1>3, <1>4 DEF Distinct
  <1>5. CASE \E k \in 1..Len(b) : m = k + Len(a)
    <2>1. PICK k \in 1..Len(b) : m = k + Len(a) BY <1>5
    <2>2. c[m] = b[k] /\ b[k] \in Range(b) BY <1>2, <2>1
    <2>3. n \notin 1..Len(a) BY <1>2, <1>3, <2>2
    <2>4. PICK l \in 1..Len(b) : n = l + Len(a) BY <1>2, <2>3
    <2>5. c[n] = b[l] BY <1>2, <2>4
    <2>6. k = l BY <1>1, <1>3, <2>2, <2>5 DEF Distinct
    <2> QED BY <2>1, <2>4, <2>6
  <1>6. CASE \E l \in 1..Len(b) : n = l + Len(a)
    <2>1. PICK l \in 1..Len(b) : n = l + Len(a) BY <1>6
    <2>2. c[n] = b[l] /\ b[l] \in Range(b) BY <1>2, <2>1
    <2>3. m \notin 1..Len(a) BY <1>2, <1>3, <2>2
    <2> QED BY <1>2, <1>5, <2>3
  <1> QED BY <1>2, <1>4, <1>5, <1>6

\* Two lists that name the files of two sets, no name in both, name those of both together.
LEMMA NamesConcat ==
    ASSUME NEW a, NEW b, NEW K, NEW L, NamesOf(a, K), NamesOf(b, L),
           \A f \in K, g \in L : f.name # g.name
    PROVE  NamesOf(a \o b, K \cup L)
  <1>1. Range(a) \cap Range(b) = {} BY DEF NamesOf
  <1>2. Range(a) \cup Range(b) = {f.name : f \in K \cup L} BY DEF NamesOf
  <1>3. Distinct(a \o b) BY <1>1, DistinctConcat DEF NamesOf
  <1>4. IsSeq(a \o b) /\ Range(a \o b) = Range(a) \cup Range(b) BY ConcatFacts DEF NamesOf, Joined
  <1> QED BY <1>2, <1>3, <1>4 DEF NamesOf

\* Two lists that hold the files of two sets without a common one.
LEMMA ExactlyConcat ==
    ASSUME NEW a, NEW b, NEW X, NEW Y, IsSeq(a), IsSeq(b), Exactly(a, X), Exactly(b, Y), X \cap Y = {}
    PROVE  Exactly(a \o b, X \cup Y)
  <1> DEFINE c == a \o b
  <1>1. DOMAIN a = 1..Len(a) /\ DOMAIN b = 1..Len(b) BY SeqFacts
  <1>2. /\ \A n \in 1..Len(a) : c[n] = a[n]
        /\ \A n \in 1..Len(b) : c[n + Len(a)] = b[n]
        /\ \A n \in DOMAIN c : n \in 1..Len(a) \/ \E k \in 1..Len(b) : n = k + Len(a)
        /\ Range(c) = Range(a) \cup Range(b)
    BY ConcatFacts DEF Joined
  <1> HIDE DEF c
  <1>3. \A n \in 1..Len(a) : a[n] \in X \/ Own(a[n]) BY <1>1 DEF Exactly
  <1>4. \A n \in 1..Len(b) : b[n] \in Y \/ Own(b[n]) BY <1>1 DEF Exactly
  <1>5. \A n \in DOMAIN c : c[n] \in X \cup Y \/ Own(c[n])
    <2> QED BY <1>2, <1>3, <1>4
  <1>6. X \cup Y \subseteq Range(c) BY <1>2 DEF Exactly
  <1>7. ASSUME NEW m \in DOMAIN c, NEW n \in DOMAIN c, c[m] = c[n], c[m].src.dir # "none" PROVE m = n
    <2>1. ASSUME NEW p \in DOMAIN c, NEW q \in DOMAIN c, p \in 1..Len(a), c[p] = c[q], c[p].src.dir # "none"
          PROVE  q \in 1..Len(a)
      <3>1. c[p] \in X BY <1>2, <1>3, <2>1 DEF Own
      <3>2. SUFFICES ASSUME NEW l \in 1..Len(b), q = l + Len(a) PROVE FALSE BY <1>2
      <3>3. c[q] = b[l] BY <1>2, <3>2
      <3>4. c[q] \in Y BY <1>4, <2>1, <3>3 DEF Own
      <3> QED BY <2>1, <3>1, <3>4
    <2>2. CASE m \in 1..Len(a)
      <3>1. n \in 1..Len(a) BY <1>7, <2>1, <2>2
      <3>2. a[m] = a[n] /\ a[m].src.dir # "none" BY <1>2, <1>7, <2>2, <3>1
      <3> QED BY <1>1, <2>2, <3>1, <3>2 DEF Exactly
    <2>3. CASE m \notin 1..Len(a)
      <3>1. n \notin 1..Len(a) BY <1>7, <2>1, <2>3
      <3>2. PICK k \in 1..Len(b) : m = k + Len(a) BY <1>2, <2>3
      <3>3. PICK l \in 1..Len(b) : n = l + Len(a) BY <1>2, <3>1
      <3>4. b[k] = b[l] /\ b[k].src.dir # "none" BY <1>2, <1>7, <3>2, <3>3
      <3>5. k = l BY <1>1, <3>4 DEF Exactly
      <3> QED BY <3>2, <3>3, <3>5
    <2> QED BY <2>2, <2>3
  <1> QED BY <1>5, <1>6, <1>7 DEF Exactly, c

\* A file of the builder's own more or less makes no difference.
LEMMA ExactlyOwn ==
    ASSUME NEW h, Own(h) PROVE Exactly(<<h>>, {})
  BY OneFacts DEF Exactly

\* What two lists hold, one after the other.
LEMMA HeldByConcat ==
    ASSUME NEW w, NEW a, NEW b, IsSeq(a), IsSeq(b)
    PROVE  /\ HeldBy(w, a \o b) = HeldBy(w, a) \o HeldBy(w, b)
           /\ IsSeq(HeldBy(w, a)) /\ IsSeq(HeldBy(w, b))
  <1> DEFINE c == a \o b
             p == HeldBy(w, a)
             q == HeldBy(w, b)
             r == HeldBy(w, c)
  <1>1. DOMAIN a = 1..Len(a) /\ DOMAIN b = 1..Len(b) /\ Len(a) \in Nat /\ Len(b) \in Nat BY SeqFacts
  <1>2. p = [n \in 1..Len(a) |-> HeldIn(w, a[n])] /\ q = [n \in 1..Len(b) |-> HeldIn(w, b[n])]
    BY <1>1 DEF HeldBy
  <1>3. p \in Seq(Range(p)) /\ q \in Seq(Range(q)) /\ Len(p) = Len(a) /\ Len(q) = Len(b)
    BY <1>1, <1>2 DEF Range
  <1>4. IsSeq(p) /\ IsSeq(q) BY <1>3, SeqIsSeq
  <1>5. /\ DOMAIN c = 1..(Len(a) + Len(b))
        /\ \A n \in 1..Len(a) : c[n] = a[n]
        /\ \A n \in 1..Len(b) : c[n + Len(a)] = b[n]
        /\ \A n \in DOMAIN c : n \in 1..Len(a) \/ \E k \in 1..Len(b) : n = k + Len(a)
    <2>1. Joined(a, b, c) BY ConcatFacts
    <2>2. \A n \in 1..Len(a) : c[n] = a[n] BY <2>1 DEF Joined
    <2>3. \A n \in 1..Len(b) : c[n + Len(a)] = b[n] BY <2>1 DEF Joined
    <2>4. \A n \in DOMAIN c : n \in 1..Len(a) \/ \E k \in 1..Len(b) : n = k + Len(a) BY <2>1 DEF Joined
    <2>5. DOMAIN c = 1..(Len(a) + Len(b)) BY <2>1 DEF Joined
    <2> HIDE DEF c
    <2> QED BY <2>2, <2>3, <2>4, <2>5
  <1> DEFINE d == p \o q
  <1>6. /\ IsSeq(d) /\ Len(d) = Len(a) + Len(b)
        /\ \A n \in 1..Len(a) : d[n] = p[n]
        /\ \A n \in 1..Len(b) : d[n + Len(a)] = q[n]
    BY <1>3, <1>4, ConcatFacts DEF Joined
  <1>7. r = [n \in 1..(Len(a) + Len(b)) |-> HeldIn(w, c[n])] BY <1>5 DEF HeldBy
  <1>8. d = [n \in 1..(Len(a) + Len(b)) |-> d[n]] BY <1>6 DEF IsSeq
  <1> HIDE DEF c, d
  <1>9. ASSUME NEW n \in 1..(Len(a) + Len(b)) PROVE HeldIn(w, c[n]) = d[n]
    <2> HIDE DEF p, q
    <2>1. CASE n \in 1..Len(a) BY <1>2, <1>5, <1>6, <2>1
    <2>2. CASE n \notin 1..Len(a)
      <3>1. PICK k \in 1..Len(b) : n = k + Len(a) BY <1>5, <2>2
      <3>2. c[n] = b[k] /\ d[n] = q[k] BY <1>5, <1>6, <3>1
      <3> QED BY <1>2, <3>2
    <2> QED BY <2>1, <2>2
  <1>10. r = d
    <2> HIDE DEF r
    <2> QED BY <1>7, <1>8, <1>9
  <1> QED BY <1>4, <1>10 DEF c, d

\* Each name of a list holds what it held.
LEMMA HeldBySame ==
    ASSUME NEW v, NEW w, NEW list, \A n \in DOMAIN list : HeldIn(v, list[n]) = HeldIn(w, list[n])
    PROVE  HeldBy(v, list) = HeldBy(w, list)
  BY DEF HeldBy

\* What occurs once in one list and not in the other occurs once in both together.
LEMMA OnceConcat ==
    ASSUME NEW a, NEW b, NEW x, IsSeq(a), IsSeq(b)
    PROVE  /\ JustOnce(b, x) /\ x \notin Range(a) => JustOnce(a \o b, x)
           /\ JustOnce(a, x) /\ x \notin Range(b) => JustOnce(a \o b, x)
  <1> DEFINE c == a \o b
  <1>1. DOMAIN a = 1..Len(a) /\ DOMAIN b = 1..Len(b) BY SeqFacts
  <1>2. /\ \A n \in 1..Len(a) : n \in DOMAIN c /\ c[n] = a[n] /\ a[n] \in Range(a)
        /\ \A n \in 1..Len(b) : n + Len(a) \in DOMAIN c /\ c[n + Len(a)] = b[n] /\ b[n] \in Range(b)
        /\ \A n \in DOMAIN c : n \in 1..Len(a) \/ \E k \in 1..Len(b) : n = k + Len(a)
    <2>1. Joined(a, b, c) BY ConcatFacts
    <2>2. \A n \in 1..Len(a) : a[n] \in Range(a) BY SeqFacts
    <2>3. \A n \in 1..Len(b) : b[n] \in Range(b) BY SeqFacts
    <2>4. \A n \in 1..Len(a) : n \in DOMAIN c /\ c[n] = a[n] BY <2>1 DEF Joined
    <2>5. \A n \in 1..Len(b) : n + Len(a) \in DOMAIN c /\ c[n + Len(a)] = b[n] BY <2>1 DEF Joined
    <2>6. \A n \in DOMAIN c : n \in 1..Len(a) \/ \E k \in 1..Len(b) : n = k + Len(a) BY <2>1 DEF Joined
    <2> HIDE DEF c
    <2> QED BY <2>2, <2>3, <2>4, <2>5, <2>6
  <1> HIDE DEF c
  <1>3. ASSUME JustOnce(b, x), x \notin Range(a) PROVE JustOnce(c, x)
    <2>1. PICK n \in 1..Len(b) : b[n] = x /\ \A m \in 1..Len(b) : b[m] = x => m = n
      BY <1>1, <1>3 DEF JustOnce
    <2>2. c[n + Len(a)] = x /\ n + Len(a) \in DOMAIN c BY <1>2, <2>1
    <2>3. \A m \in DOMAIN c : c[m] = x => m = n + Len(a)
      <3> TAKE m \in DOMAIN c
      <3> HAVE c[m] = x
      <3>1. m \notin 1..Len(a) BY <1>2, <1>3
      <3>2. PICK k \in 1..Len(b) : m = k + Len(a) BY <1>2, <3>1
      <3>3. k = n BY <1>2, <2>1, <3>2
      <3> QED BY <3>2, <3>3
    <2> QED BY <2>2, <2>3 DEF JustOnce
  <1>4. ASSUME JustOnce(a, x), x \notin Range(b) PROVE JustOnce(c, x)
    <2>1. PICK n \in 1..Len(a) : a[n] = x /\ \A m \in 1..Len(a) : a[m] = x => m = n
      BY <1>1, <1>4 DEF JustOnce
    <2>2. c[n] = x /\ n \in DOMAIN c BY <1>2, <2>1
    <2>3. \A m \in DOMAIN c : c[m] = x => m = n BY <1>2, <1>4, <2>1
    <2> QED BY <2>2, <2>3 DEF JustOnce
  <1> QED BY <1>3, <1>4 DEF c

-----------------------------------------------------------------------------
(* Counting *)

\* An element at one place only is counted once.
LEMMA OnceFacts == ASSUME NEW s, NEW x, JustOnce(s, x) PROVE Once(s, x)
  <1>1. PICK n \in DOMAIN s : s[n] = x /\ \A m \in DOMAIN s : s[m] = x => m = n BY DEF JustOnce
  <1>2. {m \in DOMAIN s : s[m] = x} = {n} BY <1>1
  <1>3. Cardinality({n}) = 1 BY FS_Singleton
  <1> QED BY <1>2, <1>3 DEF Once

\* Every file is held at one place only.
LEMMA ExactlyOnce ==
    ASSUME NEW hs, NEW X, NEW x \in X, Exactly(hs, X), x.src.dir # "none"
    PROVE  JustOnce(hs, x)
  <1>1. PICK n \in DOMAIN hs : hs[n] = x BY DEF Exactly, Range
  <1>2. \A m \in DOMAIN hs : hs[m] = x => m = n BY <1>1 DEF Exactly
  <1> QED BY <1>1, <1>2 DEF JustOnce

\* A list holds as many files of the package as there are.
LEMMA ExactlyCount ==
    ASSUME NEW hs, NEW X, IsSeq(hs), Exactly(hs, X), \A x \in X : x.src.dir # "none"
    PROVE  IsFiniteSet(X) /\ Cardinality(OwnFiles(hs)) = Cardinality(X)
  <1> DEFINE O == OwnFiles(hs)
             f == [n \in O |-> hs[n]]
  <1>1. IsFiniteSet(DOMAIN hs)
    <2>1. DOMAIN hs = 1..Len(hs) /\ Len(hs) \in Nat BY SeqFacts
    <2>2. IsFiniteSet(1..Len(hs)) BY <2>1, FS_Interval
    <2> QED BY <2>1, <2>2
  <1>2. IsFiniteSet(O) BY <1>1, FS_Subset DEF OwnFiles
  <1>3. \A n \in O : n \in DOMAIN hs /\ hs[n].src.dir # "none" /\ hs[n] \in X BY DEF OwnFiles, Exactly, Own
  <1>4. f \in Injection(O, X) BY <1>3 DEF Injection, IsInjective, Exactly
  <1>5. f \in Surjection(O, X)
    <2>1. f \in [O -> X] BY <1>3
    <2>2. \A x \in X : \E n \in O : hs[n] = x BY DEF Exactly, Range, OwnFiles
    <2> QED BY <2>1, <2>2 DEF Surjection
  <1>6. ExistsBijection(O, X) BY <1>4, <1>5 DEF ExistsBijection, Bijection
  <1> HIDE DEF O
  <1> QED BY <1>2, <1>6, FS_Bijection DEF O

\* There are finitely many files.
LEMMA FilesFinite == PkgInv => IsFiniteSet(GivenFiles)
  <1> SUFFICES ASSUME PkgInv PROVE IsFiniteSet(GivenFiles) OBVIOUS
  <1> DEFINE s == pkg.unfilteredSrcs
             f == [n \in 1..Len(s) |-> s[n]]
  <1>1. DOMAIN s = 1..Len(s) /\ Len(s) \in Nat BY PkgFacts, SeqFacts
  <1>2. IsFiniteSet(1..Len(s)) BY <1>1, FS_Interval
  <1>3. f \in Surjection(1..Len(s), GivenFiles) BY <1>1 DEF Surjection, GivenFiles, Range
  <1> HIDE DEF f, s
  <1> QED BY <1>2, <1>3, FS_Surjection

\* Files that hold different things, or have different names, are as many as what they hold.
LEMMA AllCount ==
    ASSUME PkgInv
    PROVE  Cardinality(All) = Cardinality(GoSources) /\ \A x \in All : x.src.dir # "none"
  <1> DEFINE f == [g \in GoSources |-> Holds(g, Marks(g))]
  <1>1. GoSources \subseteq GivenFiles BY SourceFacts
  <1>2. IsFiniteSet(GoSources) BY <1>1, FilesFinite, FS_Subset
  <1>3. \A g, h \in GoSources : Holds(g, Marks(g)) = Holds(h, Marks(h)) => g = h
    BY <1>1, FileFacts DEF Holds
  <1>4. f \in Injection(GoSources, All) BY <1>3 DEF Injection, IsInjective, All
  <1>5. f \in Surjection(GoSources, All) BY DEF Surjection, All
  <1>6. ExistsBijection(GoSources, All) BY <1>4, <1>5 DEF ExistsBijection, Bijection
  <1>7. Cardinality(All) = Cardinality(GoSources) BY <1>2, <1>6, FS_Bijection
  <1>8. \A x \in All : x.src.dir # "none" BY <1>1, FileFacts DEF All, Holds, OwnDirs
  <1> QED BY <1>7, <1>8

\* A list of the names of files is as long as there are files.
LEMMA NamesCount ==
    ASSUME PkgInv, NEW K, K \subseteq GivenFiles, NEW list, NamesOf(list, K)
    PROVE  Len(list) \in Nat /\ Len(list) = Cardinality(K) /\ (Len(list) = 0 <=> K = {})
  <1> DEFINE f == [g \in K |-> CHOOSE n \in 1..Len(list) : list[n] = g.name]
  <1>1. DOMAIN list = 1..Len(list) /\ Len(list) \in Nat BY SeqFacts DEF NamesOf
  <1>2. IsFiniteSet(K) BY FilesFinite, FS_Subset
  <1>3. \A g \in K : \E n \in 1..Len(list) : list[n] = g.name BY <1>1 DEF NamesOf, Range
  <1>4. \A g \in K : f[g] \in 1..Len(list) /\ list[f[g]] = g.name BY <1>3
  <1>5. \A n \in 1..Len(list) : \E g \in K : list[n] = g.name BY <1>1 DEF NamesOf, Range
  <1>6. \A m, n \in 1..Len(list) : list[m] = list[n] => m = n BY <1>1 DEF NamesOf, Distinct
  <1>7. f \in [K -> 1..Len(list)]
    <2>1. f = [g \in K |-> f[g]] OBVIOUS
    <2> HIDE DEF f
    <2> QED BY <1>4, <2>1
  <1> HIDE DEF f
  <1>8. f \in Injection(K, 1..Len(list)) BY <1>4, <1>7, FileFacts DEF Injection, IsInjective
  <1>9. f \in Surjection(K, 1..Len(list))
    <2>1. \A n \in 1..Len(list) : \E g \in K : f[g] = n BY <1>4, <1>5, <1>6
    <2> QED BY <1>7, <2>1 DEF Surjection
  <1>10. ExistsBijection(K, 1..Len(list)) BY <1>8, <1>9 DEF ExistsBijection, Bijection
  <1>11. Cardinality(1..Len(list)) = Cardinality(K) BY <1>2, <1>10, FS_Bijection
  <1>12. Cardinality(1..Len(list)) = Len(list)
    <2> DEFINE n == Len(list)
    <2>1. n \in Nat BY <1>1
    <2> HIDE DEF n
    <2>2. Cardinality(1..n) = IF 1 > n THEN 0 ELSE n - 1 + 1 BY <2>1, FS_Interval
    <2>3. Cardinality(1..n) = n BY <2>1, <2>2
    <2> QED BY <2>3 DEF n
  <1>13. Len(list) = 0 <=> K = {} BY <1>1, <1>3, <1>5
  <1> QED BY <1>1, <1>11, <1>12, <1>13

\* Files that nobody has touched hold what was written.
LEMMA RawHeld ==
    ASSUME PkgInv, NEW w, \A x \in DOMAIN w : x.dir \in OwnDirs
    PROVE  \A f \in GivenFiles : HeldIn(w, f.name) = Holds(f, {})
  BY FileFacts DEF HeldIn, Original, Holds

\* A list that names them once holds each of them once.
LEMMA RawExactly ==
    ASSUME PkgInv, NEW w, \A x \in DOMAIN w : x.dir \in OwnDirs,
           NEW K, K \subseteq GivenFiles, NEW list, NamesOf(list, K)
    PROVE  /\ Exactly(HeldBy(w, list), Raw(K))
           /\ \A f \in K : JustOnce(HeldBy(w, list), Holds(f, {}))
  <1> DEFINE hs == HeldBy(w, list)
  <1>1. DOMAIN hs = DOMAIN list /\ \A n \in DOMAIN list : hs[n] = HeldIn(w, list[n]) BY DEF HeldBy
  <1>2. \A n \in DOMAIN list : \E f \in K : list[n] = f.name /\ hs[n] = Holds(f, {})
    BY <1>1, RawHeld DEF NamesOf, Range
  <1>3. \A f \in K : \E n \in DOMAIN list : list[n] = f.name /\ hs[n] = Holds(f, {})
    BY <1>1, RawHeld DEF NamesOf, Range
  <1> HIDE DEF hs
  <1>4. \A n \in DOMAIN hs : hs[n] \in Raw(K) BY <1>1, <1>2 DEF Raw
  <1>5. Raw(K) \subseteq Range(hs) BY <1>1, <1>3 DEF Raw, Range
  <1>6. ASSUME NEW m \in DOMAIN hs, NEW n \in DOMAIN hs, hs[m] = hs[n] PROVE m = n
    <2>1. PICK f \in K : list[m] = f.name /\ hs[m] = Holds(f, {}) BY <1>1, <1>2
    <2>2. PICK g \in K : list[n] = g.name /\ hs[n] = Holds(g, {}) BY <1>1, <1>2
    <2>3. hs[m].src = f.name BY <2>1 DEF Holds
    <2>4. hs[n].src = g.name BY <2>2 DEF Holds
    <2>5. f.name = g.name BY <1>6, <2>3, <2>4
    <2> QED BY <1>1, <2>1, <2>2, <2>5 DEF NamesOf, Distinct
  <1>7. Exactly(hs, Raw(K)) BY <1>4, <1>5, <1>6 DEF Exactly
  <1>8. ASSUME NEW f \in K PROVE JustOnce(hs, Holds(f, {}))
    <2>1. Holds(f, {}) \in Raw(K) /\ Holds(f, {}).src.dir # "none"
      BY FileFacts DEF Raw, Holds, OwnDirs
    <2> QED BY <1>7, <2>1, ExactlyOnce
  <1> QED BY <1>7, <1>8 DEF hs

-----------------------------------------------------------------------------
(* Preparation *)

\* The names of a list of files.
LEMMA NameList ==
    ASSUME NEW s, IsSeq(s), Distinct(s), NEW K, Range(s) = K, \A f, g \in K : f.name = g.name => f = g
    PROVE  NamesOf([n \in DOMAIN s |-> s[n].name], K)
  <1> DEFINE l == [n \in DOMAIN s |-> s[n].name]
  <1>1. DOMAIN s = 1..Len(s) /\ Len(s) \in Nat /\ \A n \in 1..Len(s) : s[n] \in K BY SeqFacts
  <1>2. l = [n \in 1..Len(s) |-> s[n].name] BY <1>1
  <1>3. DOMAIN l = 1..Len(s) /\ \A n \in 1..Len(s) : l[n] = s[n].name BY <1>2
  <1>4. IsSeq(l)
    <2>1. l \in Seq({f.name : f \in K}) BY <1>1, <1>2
    <2> HIDE DEF l
    <2> QED BY <2>1, SeqIsSeq
  <1> HIDE DEF l
  <1>5. Distinct(l) BY <1>1, <1>3 DEF Distinct
  <1>6. Range(l) = {f.name : f \in K}
    <2>1. \A f \in K : \E n \in 1..Len(s) : s[n] = f BY <1>1 DEF Range
    <2>2. \A n \in 1..Len(s) : l[n] \in {f.name : f \in K} BY <1>1, <1>3
    <2>3. \A f \in K : f.name \in Range(l) BY <1>3, <2>1 DEF Range
    <2> QED BY <1>3, <2>2, <2>3 DEF Range
  <1> QED BY <1>4, <1>5, <1>6 DEF NamesOf, l

\* The names of the C and the assembly files.
LEMMA CNames ==
    ASSUME PkgInv, FilterInv, pc \notin {"filter", "done"}
    PROVE  /\ NamesOf(CFiles, CSources) /\ NamesOf(Names("s"), AsmFiles)
           /\ NamesOf(CFiles \o Names("s"), CWant)
  <1>1. \A e : Sources(e) \subseteq GivenFiles /\ \A f \in Sources(e) : f.ext = e BY SourceFacts
  <1>2. AsmFiles \subseteq Sources("s") BY SourceFacts
  <1>3. \A f, g \in GivenFiles : f.name = g.name => f = g BY FileFacts
  <1>4. {"c", "cxx", "objc", "objcxx"} \subseteq CExts /\ "s" \in Exts /\ CExts \subseteq Exts BY DEF CExts, Exts
  <1>5. ASSUME NEW e \in CExts PROVE NamesOf(Names(e), Sources(e))
    <2>1. IsSeq(srcs[e]) /\ Distinct(srcs[e]) /\ Range(srcs[e]) = Sources(e) BY <1>4, <1>5 DEF FilterInv
    <2>2. \A f, g \in Sources(e) : f.name = g.name => f = g BY <1>1, <1>3
    <2> QED BY <2>1, <2>2, NameList DEF Names
  <1>6. NamesOf(Names("s"), AsmFiles)
    <2>1. IsSeq(srcs["s"]) /\ Distinct(srcs["s"]) /\ Range(srcs["s"]) = AsmFiles BY <1>4 DEF FilterInv
    <2>2. \A f, g \in AsmFiles : f.name = g.name => f = g BY <1>1, <1>2, <1>3
    <2> QED BY <2>1, <2>2, NameList DEF Names
  <1>7. \A e, d : e # d => \A f \in Sources(e), g \in Sources(d) : f.name # g.name BY <1>1, <1>3
  <1> DEFINE A == Sources("c") B == Sources("cxx") C == Sources("objc") D == Sources("objcxx")
             a == Names("c") b == Names("cxx") c == Names("objc") d == Names("objcxx")
  <1>8. NamesOf(a, A) /\ NamesOf(b, B) /\ NamesOf(c, C) /\ NamesOf(d, D) BY <1>4, <1>5
  <1>9. /\ \A f \in A, g \in B : f.name # g.name
        /\ \A f \in A \cup B, g \in C : f.name # g.name
        /\ \A f \in (A \cup B) \cup C, g \in D : f.name # g.name
        /\ \A f \in ((A \cup B) \cup C) \cup D, g \in AsmFiles : f.name # g.name
    BY <1>2, <1>7
  <1>10. CSources = ((A \cup B) \cup C) \cup D BY DEF CSources, CExts
  <1>11. CFiles = ((a \o b) \o c) \o d
    <2>1. IsSeq(a) /\ IsSeq(b) /\ IsSeq(c) /\ IsSeq(d) BY <1>8 DEF NamesOf
    <2> QED BY DEF CFiles
  <1> HIDE DEF A, B, C, D, a, b, c, d
  <1>12. NamesOf(a \o b, A \cup B) BY <1>8, <1>9, NamesConcat
  <1>13. NamesOf((a \o b) \o c, (A \cup B) \cup C) BY <1>8, <1>9, <1>12, NamesConcat
  <1>14. NamesOf(((a \o b) \o c) \o d, ((A \cup B) \cup C) \cup D) BY <1>8, <1>9, <1>13, NamesConcat
  <1>15. NamesOf(CFiles, CSources) BY <1>10, <1>11, <1>14
  <1>16. \A f \in CSources, g \in AsmFiles : f.name # g.name BY <1>9, <1>10
  <1>17. NamesOf(CFiles \o Names("s"), CSources \cup AsmFiles) BY <1>6, <1>15, <1>16, NamesConcat
  <1> QED BY <1>6, <1>15, <1>17 DEF CWant

\* There is work for cgo exactly if the package uses C.
LEMMA HaveCgo ==
    ASSUME PkgInv, FilterInv, NogoListInv, pc \notin {"filter", "prepare", "done"}
    PROVE  /\ haveCgo <=> UsesC
           /\ compilingWithCgo <=> UsesC /\ pkg.cgoEnabled
           /\ cgoSrcs = <<>> <=> CgoFiles = {}
           /\ Len(cgoSrcs) \in Nat /\ Len(cgoSrcs) = Cardinality(CgoFiles)
  <1>1. CgoFiles \subseteq GivenFiles BY SourceFacts
  <1>2. CSources \subseteq GivenFiles BY SourceFacts
  <1>3. /\ Len(cgoSrcsNogo) \in Nat /\ Len(cgoSrcsNogo) = Cardinality(CgoFiles)
        /\ Len(cgoSrcsNogo) = 0 <=> CgoFiles = {}
    BY <1>1, NamesCount DEF NogoListInv
  <1>4. Len(CFiles) \in Nat /\ (Len(CFiles) = 0 <=> CSources = {}) BY <1>2, CNames, NamesCount
  <1>5. Len(cgoSrcs) = Len(cgoSrcsNogo) /\ IsSeq(cgoSrcs) BY DEF NogoListInv
  <1>6. haveCgo <=> Len(cgoSrcs) # 0 \/ Len(CFiles) # 0 BY <1>3, <1>4, <1>5 DEF haveCgo
  <1>7. UsesC <=> CSources # {} \/ CgoFiles # {} BY DEF UsesC, CgoFiles
  <1>8. cgoSrcs = <<>> <=> Len(cgoSrcs) = 0
    <2>1. cgoSrcs \in Seq(Range(cgoSrcs)) BY <1>5, SeqFacts
    <2> QED BY <2>1
  <1>9. haveCgo <=> UsesC BY <1>3, <1>4, <1>5, <1>6, <1>7
  <1>10. compilingWithCgo <=> UsesC /\ pkg.cgoEnabled BY <1>9 DEF compilingWithCgo
  <1>11. cgoSrcs = <<>> <=> CgoFiles = {} BY <1>3, <1>5, <1>8
  <1> QED BY <1>3, <1>5, <1>9, <1>10, <1>11

\* After the preparation the lists name the plain and the cgo sources, each once.
LEMMA PrepareFacts ==
    ASSUME PkgInv, FilterInv, WorkInv, Prepare
    PROVE  /\ IsFiniteSet(DOMAIN work') /\ \A x \in DOMAIN work' : x.dir \in OwnDirs \ {"none"}
           /\ NamesOf(cgoSrcsNogo', CgoFiles) /\ IsSeq(cgoSrcs') /\ Len(cgoSrcs') = Len(cgoSrcsNogo')
           /\ cgoSrcs' = cgoSrcsNogo'
           /\ \/ NamesOf(goSrcs', PlainFiles)
              \/ /\ goSrcs' = <<EmptyGo>> /\ GoSources = {}
                 /\ EmptyGo \in DOMAIN work' /\ work'[EmptyGo] = Generated("empty")
  <1> DEFINE s == srcs["go"]
             Plain(cgo) == Only({f \in Range(s) : isCgo(f) = cgo}, s)
             List(files) == [n \in DOMAIN files |-> files[n].name]
             isEmpty == s = <<>>
  <1>1. /\ pc = "prepare"
        /\ goSrcs' = IF isEmpty THEN <<EmptyGo>> ELSE List(Plain(FALSE))
        /\ cgoSrcs' = List(Plain(TRUE)) /\ cgoSrcsNogo' = List(Plain(TRUE))
        /\ work' = IF isEmpty THEN Put(work, EmptyGo, Generated("empty")) ELSE work
    BY DEF Prepare
  <1>2. "go" \in Exts BY DEF Exts
  <1>3. IsSeq(s) /\ Distinct(s) /\ Range(s) = GoSources BY <1>1, <1>2 DEF FilterInv
  <1>4. isEmpty => GoSources = {} BY <1>3 DEF Range
  <1>5. \A f, g \in GoSources : f.name = g.name => f = g BY SourceFacts, FileFacts
  <1> HIDE DEF s
  <1>6. NamesOf(List(Plain(FALSE)), PlainFiles)
    <2> DEFINE S == {f \in Range(s) : isCgo(f) = FALSE}
    <2>1. Range(s) \cap S = PlainFiles BY <1>3 DEF PlainFiles
    <2> DEFINE p == Only(S, s)
    <2> HIDE DEF S
    <2>2. IsSeq(p) /\ Distinct(p) /\ Range(p) = PlainFiles BY <1>3, <2>1, OnlyFacts
    <2>3. \A f, g \in PlainFiles : f.name = g.name => f = g BY <1>5, SourceFacts
    <2> HIDE DEF p
    <2>4. NamesOf(List(p), PlainFiles) BY <2>2, <2>3, NameList
    <2> QED BY <2>4 DEF p, S
  <1>7. NamesOf(List(Plain(TRUE)), CgoFiles)
    <2> DEFINE S == {f \in Range(s) : isCgo(f) = TRUE}
    <2>1. Range(s) \cap S = CgoFiles BY <1>3 DEF CgoFiles
    <2> DEFINE p == Only(S, s)
    <2> HIDE DEF S
    <2>2. IsSeq(p) /\ Distinct(p) /\ Range(p) = CgoFiles BY <1>3, <2>1, OnlyFacts
    <2>3. \A f, g \in CgoFiles : f.name = g.name => f = g BY <1>5, SourceFacts
    <2> HIDE DEF p
    <2>4. NamesOf(List(p), CgoFiles) BY <2>2, <2>3, NameList
    <2> QED BY <2>4 DEF p, S
  <1> HIDE DEF List, Plain
  <1>8. /\ DOMAIN Put(work, EmptyGo, Generated("empty")) = DOMAIN work \cup {EmptyGo}
        /\ Put(work, EmptyGo, Generated("empty"))[EmptyGo] = Generated("empty")
    BY DEF Put
  <1>9. EmptyGo.dir = "out" /\ "out" \in OwnDirs \ {"none"} BY DEF EmptyGo, WorkName, OwnDirs
  <1>10. IsFiniteSet(DOMAIN work') /\ \A x \in DOMAIN work' : x.dir \in OwnDirs \ {"none"}
    BY <1>1, <1>8, <1>9, FS_AddElement DEF WorkInv
  <1>11. IsSeq(cgoSrcs') BY <1>1, <1>7 DEF NamesOf
  <1> QED BY <1>1, <1>4, <1>6, <1>7, <1>8, <1>10, <1>11

-----------------------------------------------------------------------------
(* Coverage *)

\* A file is marked.
LEMMA MarkFacts ==
    ASSUME NEW s, NEW ms, NEW m PROVE Mark([src |-> s, marks |-> ms], m) = [src |-> s, marks |-> ms \cup {m}]
  BY DEF Mark

\* The list new is list with the files to be covered replaced by instrumented ones.
Replaced(w, list, v, new) ==
    /\ IsSeq(new) /\ Len(new) = Len(list)
    /\ \A n \in 1..Len(list) :
          IF list[n] \in pkg.coverSrcs
          THEN HeldIn(v, new[n]) = Mark(Original(list[n]), "cover") /\ GoFile(new[n]) /\ new[n].dir \notin CgoDirs
          ELSE new[n] = list[n] /\ HeldIn(v, new[n]) = HeldIn(w, list[n])

\* A list of files, some of them replaced by instrumented ones.
LEMMA CoverList ==
    ASSUME PkgInv, NEW w, \A x \in DOMAIN w : x.dir \in OwnDirs,
           NEW K, K \subseteq GoSources, NEW list, NamesOf(list, K),
           NEW v, NEW new, Replaced(w, list, v, new)
    PROVE  /\ Outside(new) /\ Distinct(new)
           /\ Exactly(HeldBy(v, new), Instrumented(K)) /\ Range(HeldBy(v, new)) \subseteq Instrumented(K)
  <1> DEFINE hs == HeldBy(v, new)
  <1>1. K \subseteq GivenFiles /\ \A f \in K : f.ext = "go" BY SourceFacts
  <1>2. /\ DOMAIN list = 1..Len(list) /\ DOMAIN new = 1..Len(list)
        /\ Distinct(list) /\ Range(list) = {f.name : f \in K}
    BY SeqFacts DEF NamesOf, Replaced
  <1>3. DOMAIN hs = 1..Len(list) /\ \A n \in 1..Len(list) : hs[n] = HeldIn(v, new[n])
    BY <1>2 DEF HeldBy
  <1>4. ASSUME NEW f \in K PROVE Mark(Original(f.name), "cover") = Holds(f, {"cover"})
    <2>1. {} \cup {"cover"} = {"cover"} OBVIOUS
    <2> QED BY <2>1, MarkFacts DEF Original, Holds
  <1>5. \A f \in K : HeldIn(w, f.name) = Holds(f, {}) BY <1>1, RawHeld
  <1>6. \A f \in K : GoFile(f.name) /\ f.name.dir \notin CgoDirs
    BY <1>1, FileFacts DEF OwnDirs, CgoDirs
  <1> HIDE DEF hs
  <1>7. ASSUME NEW n \in 1..Len(list), NEW f \in K, list[n] = f.name
        PROVE  hs[n] = Holds(f, CoverMarks(f)) /\ GoFile(new[n]) /\ new[n].dir \notin CgoDirs
    <2>1. CASE f.name \in pkg.coverSrcs BY <1>3, <1>4, <1>7, <2>1 DEF CoverMarks, Replaced
    <2>2. CASE f.name \notin pkg.coverSrcs BY <1>3, <1>5, <1>6, <1>7, <2>2 DEF CoverMarks, Replaced
    <2> QED BY <2>1, <2>2
  <1>8. \A n \in 1..Len(list) : \E f \in K : list[n] = f.name BY <1>2 DEF Range
  <1>9. \A f \in K : \E n \in 1..Len(list) : list[n] = f.name BY <1>2 DEF Range
  <1>10. IsSeq(new) /\ Outside(new) BY <1>2, <1>7, <1>8 DEF Outside, Replaced
  <1>11. \A n \in DOMAIN hs : hs[n] \in Instrumented(K) BY <1>3, <1>7, <1>8 DEF Instrumented
  <1>12. Instrumented(K) \subseteq Range(hs) BY <1>3, <1>7, <1>9 DEF Instrumented, Range
  <1>13. ASSUME NEW m \in DOMAIN hs, NEW n \in DOMAIN hs, hs[m] = hs[n] PROVE m = n
    <2>1. PICK f \in K : list[m] = f.name BY <1>3, <1>8
    <2>2. PICK g \in K : list[n] = g.name BY <1>3, <1>8
    <2>3. hs[m].src = f.name BY <1>3, <1>7, <2>1 DEF Holds
    <2>4. hs[n].src = g.name BY <1>3, <1>7, <2>2 DEF Holds
    <2>5. list[m] = list[n] BY <1>13, <2>1, <2>2, <2>3, <2>4
    <2> QED BY <1>2, <1>3, <2>5 DEF Distinct
  <1>14. Distinct(new) BY <1>2, <1>3, <1>13 DEF Distinct
  <1>15. Range(hs) \subseteq Instrumented(K) BY <1>11 DEF Range
  <1>16. Exactly(hs, Instrumented(K)) BY <1>11, <1>12, <1>13 DEF Exactly
  <1> QED BY <1>10, <1>14, <1>15, <1>16 DEF hs

\* The empty file that stands for an empty package.
LEMMA EmptyFacts ==
    /\ EmptyGo.dir = "out" /\ Outside(<<EmptyGo>>)
    /\ \A w : EmptyGo \in DOMAIN w /\ w[EmptyGo] = Generated("empty") => Exactly(HeldBy(w, <<EmptyGo>>), {})
  <1>1. EmptyGo = [dir |-> "out", base |-> <<"empty">>, kind |-> "go"] BY DEF EmptyGo, WorkName
  <1>2. IsSeq(<<"empty">>) /\ Len(<<"empty">>) = 1 BY OneFacts
  <1>3. GoFile(EmptyGo) BY <1>1, <1>2 DEF GoFile, Renamable
  <1>4. EmptyGo.dir = "out" /\ "out" \notin CgoDirs BY <1>1 DEF CgoDirs
  <1>5. Outside(<<EmptyGo>>) BY <1>3, <1>4, OneFacts DEF Outside
  <1>6. ASSUME NEW w, EmptyGo \in DOMAIN w, w[EmptyGo] = Generated("empty")
        PROVE  Exactly(HeldBy(w, <<EmptyGo>>), {})
    <2> DEFINE l == <<EmptyGo>>
    <2>1. DOMAIN l = {1} /\ l[1] = EmptyGo BY OneFacts
    <2> HIDE DEF l
    <2>2. DOMAIN HeldBy(w, l) = {1} /\ HeldBy(w, l)[1] = Generated("empty") BY <1>6, <2>1 DEF HeldBy, HeldIn
    <2>3. Own(Generated("empty"))
      <3>1. <<"empty">> # <<"covervars">> BY OneFacts
      <3> QED BY <3>1 DEF Own, Generated
    <2>4. Exactly(HeldBy(w, l), {}) BY <2>2, <2>3 DEF Exactly
    <2> QED BY <2>4 DEF l
  <1> QED BY <1>4, <1>5, <1>6

\* A function on an interval is a list.
LEMMA ListFacts ==
    ASSUME NEW N \in Nat, NEW f, f = [n \in 1..N |-> f[n]]
    PROVE  IsSeq(f) /\ Len(f) = N /\ DOMAIN f = 1..N
  <1> DEFINE S == {f[n] : n \in 1..N}
  <1>1. f \in [1..N -> S] OBVIOUS
  <1>2. f \in Seq(S) BY <1>1
  <1>3. DOMAIN f = 1..N BY <1>1
  <1>4. Len(f) = N BY <1>2, <1>3
  <1> HIDE DEF S
  <1> QED BY <1>2, <1>3, <1>4, SeqIsSeq

\* A part of a list.
Part(s, m, n, t) ==
    /\ IsSeq(t) /\ Len(t) = n - m + 1 /\ DOMAIN t = 1..(n - m + 1)
    /\ \A k \in 1..(n - m + 1) : t[k] = s[k + m - 1]

\* That is what SubSeq gives.
LEMMA PartFacts ==
    ASSUME NEW s, IsSeq(s), NEW m \in Nat, NEW n \in Nat, 1 <= m, m <= n + 1, n <= Len(s)
    PROVE  Part(s, m, n, SubSeq(s, m, n))
  <1> DEFINE t == SubSeq(s, m, n)
             N == n - m + 1
  <1>1. N \in Nat OBVIOUS
  <1>2. t = [k \in 1..N |-> s[k + m - 1]] BY DEF IsSeq
  <1>3. \A k \in 1..N : t[k] = s[k + m - 1] BY <1>2
  <1>4. t = [k \in 1..N |-> t[k]] BY <1>2
  <1> HIDE DEF t, N
  <1>5. IsSeq(t) /\ Len(t) = N /\ DOMAIN t = 1..N BY <1>1, <1>4, ListFacts
  <1> QED BY <1>3, <1>5 DEF t, N, Part

\* The files that the cover tool makes, for the places in C of a list.
CoverFiles(w, C, list) ==
    LET made == {CoverName(n) : n \in C} \cup {CoverVars}
        Held(x) == IF x = CoverVars THEN Generated("covervars") ELSE Mark(Original(list[x.base[2]]), "cover")
    IN  [x \in DOMAIN w \cup made |-> IF x \in made THEN Held(x) ELSE w[x]]

CoverMade(w, N, C, list, v) ==
    /\ IsFiniteSet(DOMAIN v)
    /\ \A x \in DOMAIN v : x \in DOMAIN w \/ x.dir = "work"
    /\ \A n \in C : HeldIn(v, CoverName(n)) = Mark(Original(list[n]), "cover")
    /\ HeldIn(v, CoverVars) = Generated("covervars")
    /\ \A n \in 1..N : GoFile(CoverName(n)) /\ CoverName(n).dir = "work"
    /\ GoFile(CoverVars) /\ CoverVars.dir = "work"

\* That is what the cover tool does.
LEMMA CoverFilesFacts ==
    ASSUME NEW w, IsFiniteSet(DOMAIN w), NEW N \in Nat, NEW C \in SUBSET (1..N), NEW list
    PROVE  CoverMade(w, N, C, list, CoverFiles(w, C, list))
  <1> DEFINE made == {CoverName(n) : n \in C} \cup {CoverVars}
             v == CoverFiles(w, C, list)
  <1>1. /\ DOMAIN v = DOMAIN w \cup made
        /\ \A x \in made : v[x] = IF x = CoverVars THEN Generated("covervars")
                                  ELSE Mark(Original(list[x.base[2]]), "cover")
    BY DEF CoverFiles
  <1>2. CoverVars = [dir |-> "work", base |-> <<"covervars">>, kind |-> "go"] BY DEF CoverVars, WorkName
  <1>3. \A n \in 1..N : CoverName(n) = [dir |-> "work", base |-> <<"cover", n>>, kind |-> "go"]
    BY DEF CoverName, WorkName
  <1>4. IsSeq(<<"covervars">>) /\ Len(<<"covervars">>) = 1 BY OneFacts
  <1>5. ASSUME NEW n \in 1..N PROVE IsSeq(<<"cover", n>>) /\ Len(<<"cover", n>>) = 2
    BY DEF IsSeq
  <1>6. ASSUME NEW n \in 1..N
        PROVE  CoverName(n) # CoverVars /\ CoverName(n).base[2] = n /\ GoFile(CoverName(n)) /\ CoverName(n).dir = "work"
    <2>1. CoverName(n).base = <<"cover", n>> /\ CoverVars.base = <<"covervars">> BY <1>2, <1>3
    <2>2. <<"cover", n>> # <<"covervars">> BY <1>4, <1>5
    <2>3. CoverName(n) # CoverVars BY <2>1, <2>2
    <2>4. CoverName(n).base[2] = n BY <2>1
    <2>5. Renamable(CoverName(n)) BY <1>5, <2>1 DEF Renamable
    <2>6. CoverName(n).dir = "work" /\ CoverName(n) = [dir |-> CoverName(n).dir, base |-> CoverName(n).base, kind |-> "go"]
      BY <1>3
    <2> QED BY <2>3, <2>4, <2>5, <2>6 DEF GoFile
  <1>7. GoFile(CoverVars) /\ CoverVars.dir = "work"
    <2>1. Renamable(CoverVars) BY <1>2, <1>4 DEF Renamable
    <2> QED BY <1>2, <2>1 DEF GoFile
  <1>8. IsFiniteSet({CoverName(n) : n \in C})
    <2> DEFINE F == [n \in C |-> CoverName(n)]
    <2>1. IsFiniteSet(1..N) BY FS_Interval
    <2>3. IsFiniteSet(C) BY <2>1, FS_Subset
    <2>2. F \in Surjection(C, {CoverName(n) : n \in C}) BY DEF Surjection
    <2> QED BY <2>2, <2>3, FS_Surjection
  <1>9. IsFiniteSet(made) BY <1>8, FS_AddElement
  <1>10. IsFiniteSet(DOMAIN v) BY <1>1, <1>9, FS_Union
  <1>11. \A x \in made : x.dir = "work" BY <1>6, <1>7
  <1>12. ASSUME NEW n \in C PROVE HeldIn(v, CoverName(n)) = Mark(Original(list[n]), "cover")
    <2>1. CoverName(n) \in made /\ n \in 1..N OBVIOUS
    <2> HIDE DEF made, v
    <2>2. v[CoverName(n)] = Mark(Original(list[n]), "cover") BY <1>1, <1>6, <2>1
    <2> QED BY <1>1, <2>1, <2>2 DEF HeldIn
  <1>13. HeldIn(v, CoverVars) = Generated("covervars")
    <2>1. CoverVars \in made OBVIOUS
    <2> HIDE DEF made, v
    <2> QED BY <1>1, <2>1 DEF HeldIn
  <1> HIDE DEF v, made
  <1>14. \A x \in DOMAIN v : x \in DOMAIN w \/ x.dir = "work" BY <1>1, <1>11
  <1> QED BY <1>6, <1>7, <1>10, <1>12, <1>13, <1>14 DEF v, CoverMade

\* After the cover tool the lists hold each source once, instrumented where that was asked for.
LEMMA CoverFacts ==
    ASSUME PkgInv, FilterInv, WorkInv, NogoListInv, GoInv, Cover, pc' = "cgo"
    PROVE  /\ IsFiniteSet(DOMAIN work') /\ \A x \in DOMAIN work' : x.dir \in OwnDirs \ {"none"}
           /\ Outside(goSrcs') /\ Exactly(HeldBy(work', goSrcs'), Instrumented(PlainFiles))
           /\ Outside(cgoSrcs') /\ Exactly(HeldBy(work', cgoSrcs'), Instrumented(CgoFiles))
           /\ Range(HeldBy(work', cgoSrcs')) \subseteq Instrumented(CgoFiles)
           /\ Distinct(cgoSrcs') /\ Len(cgoSrcs') = Len(cgoSrcs)
  <1>1. /\ pc = "cover" /\ cgoSrcs = cgoSrcsNogo
        /\ \/ NamesOf(goSrcs, PlainFiles)
           \/ /\ goSrcs = <<EmptyGo>> /\ GoSources = {}
              /\ EmptyGo \in DOMAIN work /\ work[EmptyGo] = Generated("empty")
    BY DEF Cover, GoInv
  <1>2. NamesOf(cgoSrcs, CgoFiles) BY <1>1 DEF NogoListInv
  <1>3. PlainFiles \subseteq GoSources /\ CgoFiles \subseteq GoSources /\ GoSources \subseteq GivenFiles BY SourceFacts
  <1>4. IsFiniteSet(DOMAIN work) /\ \A x \in DOMAIN work : x.dir \in OwnDirs /\ x.dir # "none" BY DEF WorkInv
  <1>5. IsSeq(goSrcs) /\ IsSeq(cgoSrcs) BY <1>1, <1>2, OneFacts DEF NamesOf
  <1> DEFINE a == goSrcs b == cgoSrcs
             combined == a \o b
             new == [n \in DOMAIN combined |-> IF n \in Covered THEN CoverName(n) ELSE combined[n]]
             v == CoverFiles(work, Covered, combined)
  <1>6. \/ (~pkg.coverMode \/ Covered = {}) /\ UNCHANGED <<goSrcs, cgoSrcs, work>>
        \/ /\ pkg.coverMode /\ Covered # {}
           /\ goSrcs' = Append(SubSeq(new, 1, Len(a)), CoverVars)
           /\ cgoSrcs' = SubSeq(new, Len(a) + 1, Len(new))
           /\ work' = v
    BY DEF Cover, EndFrom, CoverFiles
  <1>7. Joined(a, b, combined) BY <1>5, ConcatFacts
  <1>8. Len(a) \in Nat /\ Len(b) \in Nat /\ DOMAIN a = 1..Len(a) /\ DOMAIN b = 1..Len(b) BY <1>5, SeqFacts
  <1>9. Covered = {n \in 1..Len(combined) : combined[n] \in pkg.coverSrcs} BY DEF Covered
  <1> HIDE DEF combined
  <1>10. CASE (~pkg.coverMode \/ Covered = {}) /\ UNCHANGED <<goSrcs, cgoSrcs, work>>
    <2>1. /\ \A n \in 1..Len(a) : a[n] \notin pkg.coverSrcs
          /\ \A n \in 1..Len(b) : b[n] \notin pkg.coverSrcs
      <3>1. CASE ~pkg.coverMode BY <3>1, PkgFacts
      <3>2. CASE Covered = {} BY <1>7, <1>8, <1>9, <3>2 DEF Joined
      <3> QED BY <1>10, <3>1, <3>2
    <2>2. /\ Outside(b) /\ Exactly(HeldBy(work, b), Instrumented(CgoFiles))
          /\ Range(HeldBy(work, b)) \subseteq Instrumented(CgoFiles)
      <3>1. Replaced(work, b, work, b) BY <1>5, <2>1 DEF Replaced
      <3> QED BY <1>2, <1>3, <1>4, <3>1, CoverList
    <2>3. Outside(a) /\ Exactly(HeldBy(work, a), Instrumented(PlainFiles))
      <3>1. CASE NamesOf(goSrcs, PlainFiles)
        <4>1. Replaced(work, a, work, a) BY <1>5, <2>1 DEF Replaced
        <4> QED BY <1>3, <1>4, <3>1, <4>1, CoverList
      <3>2. CASE ~NamesOf(goSrcs, PlainFiles)
        <4>1. Instrumented(PlainFiles) = {} BY <1>1, <1>3, <3>2 DEF Instrumented
        <4> QED BY <1>1, <3>2, <4>1, EmptyFacts
      <3> QED BY <3>1, <3>2
    <2>4. Distinct(b) BY <1>2 DEF NamesOf
    <2> QED BY <1>4, <1>10, <2>2, <2>3, <2>4
  <1>11. CASE /\ pkg.coverMode /\ Covered # {}
              /\ goSrcs' = Append(SubSeq(new, 1, Len(a)), CoverVars)
              /\ cgoSrcs' = SubSeq(new, Len(a) + 1, Len(new))
              /\ work' = v
    <2> DEFINE N == Len(a) + Len(b)
               x == SubSeq(new, 1, Len(a))
               y == SubSeq(new, Len(a) + 1, Len(new))
    <2>1. /\ Len(combined) = N /\ N \in Nat /\ DOMAIN combined = 1..N
          /\ \A n \in 1..Len(a) : n \in 1..N /\ combined[n] = a[n]
          /\ \A n \in 1..Len(b) : n + Len(a) \in 1..N /\ combined[n + Len(a)] = b[n]
      BY <1>7, <1>8 DEF Joined
    <2>2. new = [n \in 1..N |-> new[n]] BY <2>1
    <2>3. Covered \in SUBSET (1..N) BY <1>9, <2>1
    <2>4. \A n \in 1..N : new[n] = IF combined[n] \in pkg.coverSrcs THEN CoverName(n) ELSE combined[n]
      BY <1>9, <2>1
    <2> HIDE DEF new, v, N
    <2>5. IsSeq(new) /\ Len(new) = N BY <2>1, <2>2, ListFacts
    <2>6. Part(new, 1, Len(a), x)
      <3>1. Len(a) <= N /\ 1 <= Len(a) + 1 /\ 1 <= 1 /\ 1 \in Nat BY <1>8 DEF N
      <3> QED BY <1>8, <2>5, <3>1, PartFacts
    <2>7. Part(new, Len(a) + 1, Len(new), y)
      <3>1. Len(a) + 1 \in Nat /\ 1 <= Len(a) + 1 /\ Len(a) + 1 <= N + 1 /\ N <= N BY <1>8 DEF N
      <3> QED BY <1>8, <2>1, <2>5, <3>1, PartFacts
    <2>8. /\ IsSeq(x) /\ Len(x) = Len(a)
          /\ \A n \in 1..Len(a) : x[n] = new[n]
      BY <1>8, <2>6 DEF Part
    <2>9. /\ IsSeq(y) /\ Len(y) = Len(b)
          /\ \A n \in 1..Len(b) : y[n] = new[n + Len(a)]
      <3>1. Len(new) - (Len(a) + 1) + 1 = Len(b) BY <1>8, <2>5 DEF N
      <3>2. \A n \in 1..Len(b) : n + (Len(a) + 1) - 1 = n + Len(a) BY <1>8
      <3> QED BY <2>7, <3>1, <3>2 DEF Part
    <2> HIDE DEF x, y
    <2>10. /\ IsFiniteSet(DOMAIN v)
           /\ \A z \in DOMAIN v : z \in DOMAIN work \/ z.dir = "work"
           /\ \A n \in Covered : HeldIn(v, CoverName(n)) = Mark(Original(combined[n]), "cover")
           /\ HeldIn(v, CoverVars) = Generated("covervars")
           /\ \A n \in 1..N : GoFile(CoverName(n)) /\ CoverName(n).dir = "work"
           /\ GoFile(CoverVars) /\ CoverVars.dir = "work"
      <3>1. CoverMade(work, N, Covered, combined, v) BY <1>4, <2>1, <2>3, CoverFilesFacts DEF v
      <3> QED BY <3>1 DEF CoverMade
    <2>11. "work" \in OwnDirs \ {"none"} /\ "work" \notin CgoDirs BY DEF OwnDirs, CgoDirs
    <2>12. \A z \in DOMAIN v : z.dir \in OwnDirs \ {"none"} BY <1>4, <2>10, <2>11
    <2>13. \A f \in GivenFiles : HeldIn(v, f.name) = Holds(f, {}) BY <2>12, RawHeld
    <2>14. \A f \in GivenFiles : HeldIn(work, f.name) = Holds(f, {}) BY <1>4, RawHeld
    <2>15. NamesOf(a, PlainFiles)
      <3>1. ASSUME a = <<EmptyGo>>, GoSources = {} PROVE FALSE
        <4>1. CgoFiles = {} BY <1>3, <3>1
        <4>2. Len(a) = 1 /\ a[1] = EmptyGo BY <3>1, OneFacts
        <4>3. Len(b) = 0 BY <1>2, <1>3, <4>1, NamesCount
        <4>4. PICK n \in 1..N : combined[n] \in pkg.coverSrcs BY <1>9, <1>11, <2>1
        <4>5. n = 1 BY <4>2, <4>3 DEF N
        <4>6. EmptyGo \in pkg.coverSrcs BY <2>1, <4>2, <4>4, <4>5
        <4>7. \E f \in GivenFiles : f.name = EmptyGo BY <4>6, PkgFacts
        <4>8. EmptyGo.dir = "out" BY EmptyFacts
        <4> QED BY <4>7, <4>8, FileFacts DEF OwnDirs
      <3> QED BY <1>1, <3>1
    <2>16. \A n \in 1..Len(a) : \E f \in GivenFiles : a[n] = f.name BY <1>3, <1>8, <2>15 DEF NamesOf, Range
    <2>17. \A n \in 1..Len(b) : \E f \in GivenFiles : b[n] = f.name BY <1>2, <1>3, <1>8 DEF NamesOf, Range
    <2>18. Replaced(work, a, v, x)
      <3> SUFFICES ASSUME NEW n \in 1..Len(a)
                   PROVE  IF a[n] \in pkg.coverSrcs
                          THEN HeldIn(v, x[n]) = Mark(Original(a[n]), "cover") /\ GoFile(x[n]) /\ x[n].dir \notin CgoDirs
                          ELSE x[n] = a[n] /\ HeldIn(v, x[n]) = HeldIn(work, a[n])
        BY <2>8 DEF Replaced
      <3>1. n \in 1..N /\ combined[n] = a[n] /\ x[n] = new[n] BY <2>1, <2>8
      <3>2. CASE a[n] \in pkg.coverSrcs
        <4>1. n \in Covered /\ x[n] = CoverName(n) BY <1>9, <2>1, <2>4, <3>1, <3>2
        <4> QED BY <2>10, <2>11, <3>1, <3>2, <4>1
      <3>3. CASE a[n] \notin pkg.coverSrcs
        <4>1. x[n] = a[n] BY <2>4, <3>1, <3>3
        <4> QED BY <2>13, <2>14, <2>16, <3>3, <4>1
      <3> QED BY <3>2, <3>3
    <2>19. Replaced(work, b, v, y)
      <3> SUFFICES ASSUME NEW n \in 1..Len(b)
                   PROVE  IF b[n] \in pkg.coverSrcs
                          THEN HeldIn(v, y[n]) = Mark(Original(b[n]), "cover") /\ GoFile(y[n]) /\ y[n].dir \notin CgoDirs
                          ELSE y[n] = b[n] /\ HeldIn(v, y[n]) = HeldIn(work, b[n])
        BY <2>9 DEF Replaced
      <3>1. n + Len(a) \in 1..N /\ combined[n + Len(a)] = b[n] /\ y[n] = new[n + Len(a)] BY <2>1, <2>9
      <3>2. CASE b[n] \in pkg.coverSrcs
        <4>1. n + Len(a) \in Covered /\ y[n] = CoverName(n + Len(a)) BY <1>9, <2>1, <2>4, <3>1, <3>2
        <4> QED BY <2>10, <2>11, <3>1, <3>2, <4>1
      <3>3. CASE b[n] \notin pkg.coverSrcs
        <4>1. y[n] = b[n] BY <2>4, <3>1, <3>3
        <4> QED BY <2>13, <2>14, <2>17, <3>3, <4>1
      <3> QED BY <3>2, <3>3
    <2>20. Outside(x) /\ Exactly(HeldBy(v, x), Instrumented(PlainFiles))
      BY <1>3, <1>4, <2>15, <2>18, CoverList
    <2>21. /\ Outside(y) /\ Exactly(HeldBy(v, y), Instrumented(CgoFiles)) /\ Distinct(y)
           /\ Range(HeldBy(v, y)) \subseteq Instrumented(CgoFiles)
      <3>1. \A z \in DOMAIN work : z.dir \in OwnDirs BY <1>4
      <3> QED BY <1>2, <1>3, <2>19, <3>1, CoverList
    <2>22. goSrcs' = x \o <<CoverVars>>
      <3>1. x \in Seq(Range(x)) BY <2>8, SeqFacts
      <3>2. goSrcs' = Append(x, CoverVars) BY <1>11 DEF x
      <3> QED BY <3>1, <3>2
    <2>23. Joined(x, <<CoverVars>>, goSrcs') BY <2>8, <2>22, OneFacts, ConcatFacts
    <2>24. Outside(goSrcs')
      <3>1. \A n \in 1..Len(x) : GoFile(x[n]) /\ x[n].dir \notin CgoDirs BY <2>8, <2>20, SeqFacts DEF Outside
      <3>2. \A n \in DOMAIN goSrcs' : (n \in 1..Len(x) /\ goSrcs'[n] = x[n]) \/ goSrcs'[n] = CoverVars
        BY <2>23, OneFacts DEF Joined
      <3>3. IsSeq(goSrcs') BY <2>23 DEF Joined
      <3> QED BY <2>10, <2>11, <3>1, <3>2, <3>3 DEF Outside
    <2>25. Exactly(HeldBy(v, goSrcs'), Instrumented(PlainFiles))
      <3>1. /\ HeldBy(v, goSrcs') = HeldBy(v, x) \o HeldBy(v, <<CoverVars>>)
            /\ IsSeq(HeldBy(v, x)) /\ IsSeq(HeldBy(v, <<CoverVars>>))
        BY <2>8, <2>22, OneFacts, HeldByConcat
      <3>2. HeldBy(v, <<CoverVars>>) = <<Generated("covervars")>> BY <2>10 DEF HeldBy
      <3>3. Own(Generated("covervars")) BY <1>11 DEF Own, Generated
      <3>4. Exactly(HeldBy(v, <<CoverVars>>), {}) BY <3>2, <3>3, ExactlyOwn
      <3>5. Instrumented(PlainFiles) \cap {} = {} /\ Instrumented(PlainFiles) \cup {} = Instrumented(PlainFiles) OBVIOUS
      <3> QED BY <2>20, <3>1, <3>4, <3>5, ExactlyConcat
    <2> QED BY <1>11, <2>9, <2>10, <2>12, <2>21, <2>24, <2>25 DEF y
  <1> QED BY <1>6, <1>10, <1>11

-----------------------------------------------------------------------------
(* cgo *)

\* The files that cgo adds hold nothing of the package.
LEMMA CgoOwn == Own(Generated("cgo"))
  <1>1. <<"cgo">> # <<"covervars">> BY OneFacts
  <1> QED BY <1>1 DEF Own, Generated

\* The files that cgo generates hold what the files it was given hold, each once.
LEMMA MarkedFacts ==
    ASSUME NEW w, NEW subdir, NEW names, IsSeq(names), NEW v, NEW list, Listed(w, subdir, names, v, list),
           NEW X, Exactly(HeldBy(w, names), X), Range(HeldBy(w, names)) \subseteq X,
           \A x \in X : x.src.dir # "none",
           NEW Y, Y = {Mark(x, "cgo") : x \in X},
           \A x \in X : Mark(x, "cgo").src = x.src, \A x, y \in X : x.src = y.src => x = y
    PROVE  Exactly(HeldBy(v, list), Y)
  <1> DEFINE h == HeldBy(w, names)
             g == HeldBy(v, list)
             N == Len(names)
  <1>1. DOMAIN names = 1..N /\ N \in Nat BY SeqFacts
  <1>2. DOMAIN h = 1..N /\ \A n \in 1..N : h[n] = HeldIn(w, names[n]) /\ h[n] \in X
    <2>1. DOMAIN h = 1..N /\ \A n \in 1..N : h[n] = HeldIn(w, names[n]) BY <1>1 DEF HeldBy
    <2> HIDE DEF h
    <2>2. Range(h) \subseteq X BY DEF h
    <2> QED BY <2>1, <2>2 DEF Range
  <1>3. IsSeq(list) /\ DOMAIN list = 1..(N + 1) BY SeqFacts DEF Listed
  <1>4. \A n \in 1..(N + 1) :
           /\ list[n] \in DOMAIN v
           /\ v[list[n]] = IF n = 1 THEN Generated("cgo") ELSE Mark(HeldIn(w, names[n - 1]), "cgo")
    BY DEF Listed
  <1>5. DOMAIN g = 1..(N + 1) /\ \A n \in 1..(N + 1) : g[n] = v[list[n]] BY <1>3, <1>4 DEF HeldBy, HeldIn
  <1> HIDE DEF g, h
  <1>6. 1 \in 1..(N + 1) /\ g[1] = Generated("cgo") BY <1>1, <1>4, <1>5
  <1>7. Own(Generated("cgo")) /\ Generated("cgo").src.dir = "none" BY CgoOwn DEF Own
  <1>8. \A n \in 1..(N + 1) : n # 1 => n - 1 \in 1..N /\ g[n] = Mark(h[n - 1], "cgo")
    <2> TAKE n \in 1..(N + 1)
    <2>1. n # 1 => n - 1 \in 1..N BY <1>1
    <2> QED BY <1>2, <1>4, <1>5, <2>1
  <1>9. \A n \in 1..N : n + 1 \in 1..(N + 1) /\ g[n + 1] = Mark(h[n], "cgo")
    <2> TAKE n \in 1..N
    <2>1. n + 1 \in 1..(N + 1) /\ n + 1 # 1 /\ (n + 1) - 1 = n BY <1>1
    <2> QED BY <1>8, <2>1
  <1>10. \A n \in DOMAIN g : g[n] \in Y \/ Own(g[n])
    BY <1>2, <1>5, <1>6, <1>7, <1>8
  <1>11. \A n \in DOMAIN h : h[n] \in X BY <1>2
  <1>12. ASSUME NEW y \in Y PROVE y \in Range(g)
    <2>1. PICK x \in X : y = Mark(x, "cgo") OBVIOUS
    <2>2. x \in Range(h) BY DEF Exactly, h
    <2>3. PICK n \in 1..N : h[n] = x BY <1>2, <2>2 DEF Range
    <2> QED BY <1>5, <1>9, <2>1, <2>3 DEF Range
  <1>13. ASSUME NEW m \in DOMAIN g, NEW n \in DOMAIN g, g[m] = g[n], g[m].src.dir # "none" PROVE m = n
    <2>1. m # 1 /\ n # 1 BY <1>6, <1>7, <1>13
    <2>2. m - 1 \in 1..N /\ n - 1 \in 1..N /\ g[m] = Mark(h[m - 1], "cgo") /\ g[n] = Mark(h[n - 1], "cgo")
      BY <1>5, <1>8, <2>1
    <2>3. h[m - 1] \in X /\ h[n - 1] \in X BY <1>2, <2>2
    <2>4. h[m - 1].src = h[n - 1].src
      <3>1. g[m].src = h[m - 1].src /\ g[n].src = h[n - 1].src BY <2>2, <2>3
      <3> QED BY <1>13, <3>1
    <2>5. h[m - 1] = h[n - 1] BY <2>3, <2>4
    <2>6. h[m - 1].src.dir # "none" BY <2>3
    <2>7. m - 1 = n - 1 BY <1>2, <2>2, <2>5, <2>6 DEF Exactly, h
    <2> QED BY <1>1, <1>5, <2>7
  <1>14. Exactly(g, Y) BY <1>10, <1>12, <1>13 DEF Exactly
  <1> QED BY <1>14 DEF g

\* In particular the instrumented files, and the original ones.
LEMMA ProcessedFacts ==
    ASSUME PkgInv, NEW w, NEW subdir, NEW names, IsSeq(names), NEW v, NEW list, Listed(w, subdir, names, v, list)
    PROVE  /\ Exactly(HeldBy(w, names), Instrumented(CgoFiles)) /\ Range(HeldBy(w, names)) \subseteq Instrumented(CgoFiles)
                 => Exactly(HeldBy(v, list), Processed(CgoFiles))
           /\ Exactly(HeldBy(w, names), Raw(CgoFiles)) /\ Range(HeldBy(w, names)) \subseteq Raw(CgoFiles)
                 => Exactly(HeldBy(v, list), RawCgo(CgoFiles))
  <1>1. \A f, ms : Mark(Holds(f, ms), "cgo") = Holds(f, ms \cup {"cgo"}) BY MarkFacts DEF Holds
  <1>2. \A f, ms : Holds(f, ms).src = f.name BY DEF Holds
  <1>3. \A f \in CgoFiles : f.name.dir # "none" BY SourceFacts, FileFacts DEF OwnDirs
  <1>4. \A f, g \in CgoFiles : f.name = g.name => f = g BY SourceFacts, FileFacts
  <1>5. ASSUME Exactly(HeldBy(w, names), Instrumented(CgoFiles)), Range(HeldBy(w, names)) \subseteq Instrumented(CgoFiles)
        PROVE  Exactly(HeldBy(v, list), Processed(CgoFiles))
    <2> DEFINE X == Instrumented(CgoFiles)
               Y == Processed(CgoFiles)
    <2> DEFINE H(f) == Holds(f, CoverMarks(f))
    <2>1. \A x \in X : \E f \in CgoFiles : x = H(f) BY DEF Instrumented
    <2>9. \A f \in CgoFiles : Mark(H(f), "cgo") = Holds(f, CoverMarks(f) \cup {"cgo"}) BY <1>1
    <2>10. ASSUME NEW f \in CgoFiles PROVE H(f).src = f.name /\ Mark(H(f), "cgo").src = f.name
      <3>1. Holds(f, CoverMarks(f) \cup {"cgo"}).src = f.name BY DEF Holds
      <3>2. H(f).src = f.name BY DEF Holds
      <3> HIDE DEF H
      <3> QED BY <2>9, <3>1, <3>2
    <2>2. \A f \in CgoFiles : H(f) \in X BY DEF Instrumented
    <2>3. Y = {Holds(f, CoverMarks(f) \cup {"cgo"}) : f \in CgoFiles} BY DEF Processed
    <2> HIDE DEF X, Y, H
    <2>4. \A x \in X : x.src.dir # "none" /\ Mark(x, "cgo").src = x.src BY <1>3, <2>1, <2>10
    <2>5. \A x, y \in X : x.src = y.src => x = y BY <1>4, <2>1, <2>10
    <2>6. Y = {Mark(x, "cgo") : x \in X} BY <2>1, <2>2, <2>3, <2>9
    <2>7. Exactly(HeldBy(w, names), X) /\ Range(HeldBy(w, names)) \subseteq X BY <1>5 DEF X
    <2>8. Exactly(HeldBy(v, list), Y) BY <2>4, <2>5, <2>6, <2>7, MarkedFacts
    <2> QED BY <2>8 DEF Y
  <1>6. ASSUME Exactly(HeldBy(w, names), Raw(CgoFiles)), Range(HeldBy(w, names)) \subseteq Raw(CgoFiles)
        PROVE  Exactly(HeldBy(v, list), RawCgo(CgoFiles))
    <2> DEFINE X == Raw(CgoFiles)
               Y == RawCgo(CgoFiles)
    <2> DEFINE H(f) == Holds(f, {})
    <2>1. \A x \in X : \E f \in CgoFiles : x = H(f) BY DEF Raw
    <2>9. \A f \in CgoFiles : Mark(H(f), "cgo") = Holds(f, {} \cup {"cgo"}) BY <1>1
    <2>10. ASSUME NEW f \in CgoFiles PROVE H(f).src = f.name /\ Mark(H(f), "cgo").src = f.name
      <3>1. Holds(f, {} \cup {"cgo"}).src = f.name BY DEF Holds
      <3>2. H(f).src = f.name BY DEF Holds
      <3> HIDE DEF H
      <3> QED BY <2>9, <3>1, <3>2
    <2>2. \A f \in CgoFiles : H(f) \in X BY DEF Raw
    <2>3. Y = {Holds(f, {} \cup {"cgo"}) : f \in CgoFiles}
      <3>1. {} \cup {"cgo"} = {"cgo"} OBVIOUS
      <3> QED BY <3>1 DEF RawCgo
    <2> HIDE DEF X, Y, H
    <2>4. \A x \in X : x.src.dir # "none" /\ Mark(x, "cgo").src = x.src BY <1>3, <2>1, <2>10
    <2>5. \A x, y \in X : x.src = y.src => x = y BY <1>4, <2>1, <2>10
    <2>6. Y = {Mark(x, "cgo") : x \in X} BY <2>1, <2>2, <2>3, <2>9
    <2>7. Exactly(HeldBy(w, names), X) /\ Range(HeldBy(w, names)) \subseteq X BY <1>6 DEF X
    <2>8. Exactly(HeldBy(v, list), Y) BY <2>4, <2>5, <2>6, <2>7, MarkedFacts
    <2> QED BY <2>8 DEF Y
  <1> QED BY <1>5, <1>6

\* cgo leaves the files alone that it has not made.
LEMMA OutsideSame ==
    ASSUME NEW v, NEW w, NEW D, D \subseteq CgoDirs,
           DOMAIN w \subseteq DOMAIN v, \A x \in DOMAIN w : x.dir \notin D => v[x] = w[x],
           \A x \in DOMAIN v \ DOMAIN w : x.dir \in D,
           NEW list, Outside(list)
    PROVE  HeldBy(v, list) = HeldBy(w, list)
  <1>1. \A n \in DOMAIN list : list[n].dir \notin D BY DEF Outside
  <1>2. \A n \in DOMAIN list : HeldIn(v, list[n]) = HeldIn(w, list[n]) BY <1>1 DEF HeldIn
  <1> QED BY <1>2, HeldBySame

\* cgo makes a file of every cgo source, and leaves the list of the other Go files as it was.
LEMMA CgoStep ==
    ASSUME PkgInv, FilterInv, WorkInv, NogoListInv, GoInv, Cgo, pc' = "cc"
    PROVE  /\ IsFiniteSet(DOMAIN work') /\ \A x \in DOMAIN work' : x.dir \in OwnDirs \ {"none"}
           /\ goSrcs' = goSrcs /\ Outside(goSrcs) /\ Exactly(HeldBy(work', goSrcs), Instrumented(PlainFiles))
           /\ FromCgo(work', genGoSrcs') /\ Exactly(HeldBy(work', genGoSrcs'), Processed(CgoFiles))
           /\ Len(genGoSrcs') = Len(cgoSrcsNogo) + 1 /\ genGoSrcs' # <<>>
           /\ \A n \in DOMAIN genGoSrcs' : genGoSrcs'[n] # CgoImports
           /\ IsSeq(cgoSrcs') /\ Len(cgoSrcs') = Len(cgoSrcs)
  <1> DEFINE gen == generateCgoSources(work, "cgo", cgoSrcs)
  <1>1. /\ pc = "cgo" /\ work' = gen.work /\ genGoSrcs' = gen.goSrcs /\ goSrcs' = goSrcs
        /\ cgoSrcs' = IF InSingleDir(cgoSrcs) THEN Relative(cgoSrcs) ELSE cgoSrcs
    BY DEF Cgo, EndWith, EndFrom
  <1>2. /\ Outside(goSrcs) /\ Exactly(HeldBy(work, goSrcs), Instrumented(PlainFiles))
        /\ Outside(cgoSrcs) /\ Exactly(HeldBy(work, cgoSrcs), Instrumented(CgoFiles))
        /\ Range(HeldBy(work, cgoSrcs)) \subseteq Instrumented(CgoFiles)
        /\ Distinct(cgoSrcs)
    BY <1>1 DEF GoInv
  <1>3. IsSeq(cgoSrcs) /\ DOMAIN cgoSrcs = 1..Len(cgoSrcs) /\ Len(cgoSrcs) \in Nat BY <1>2, SeqFacts DEF Outside
  <1>4. SrcDir["cgo"] = "cgo/cgosrcs" BY DEF SrcDir
  <1>5. \A n \in 1..Len(cgoSrcs) : GoFile(cgoSrcs[n]) /\ cgoSrcs[n].dir # SrcDir["cgo"]
    BY <1>2, <1>3, <1>4 DEF Outside, CgoDirs
  <1>6. IsFiniteSet(DOMAIN work) /\ \A x \in DOMAIN work : x.dir \in OwnDirs \ {"none"} BY DEF WorkInv
  <1>7. Rewritten(work, "cgo", cgoSrcs, gen) BY <1>2, <1>3, <1>5, <1>6, CgoFacts
  <1> HIDE DEF gen
  <1>8. /\ IsFiniteSet(DOMAIN gen.work) /\ DOMAIN work \subseteq DOMAIN gen.work
        /\ \A x \in DOMAIN work : x.dir # "cgo" => gen.work[x] = work[x]
        /\ \A x \in DOMAIN gen.work \ DOMAIN work : x.dir \in {"cgo", "cgo/cgosrcs"}
        /\ Listed(work, "cgo", cgoSrcs, gen.work, gen.goSrcs)
    BY <1>4, <1>7 DEF Rewritten
  <1>9. \A x \in DOMAIN gen.work : x.dir \in OwnDirs \ {"none"} BY <1>6, <1>8 DEF OwnDirs
  <1>10. HeldBy(gen.work, goSrcs) = HeldBy(work, goSrcs)
    <2> DEFINE D == {"cgo", "cgo/cgosrcs"}
    <2>1. D \subseteq CgoDirs BY DEF CgoDirs
    <2>2. \A x \in DOMAIN work : x.dir \notin D => gen.work[x] = work[x] BY <1>8
    <2>3. \A x \in DOMAIN gen.work \ DOMAIN work : x.dir \in D BY <1>8
    <2>4. DOMAIN work \subseteq DOMAIN gen.work /\ Outside(goSrcs) BY <1>2, <1>8
    <2> DEFINE v == gen.work
    <2> HIDE DEF D, v
    <2>5. HeldBy(v, goSrcs) = HeldBy(work, goSrcs) BY <2>1, <2>2, <2>3, <2>4, OutsideSame DEF v
    <2> QED BY <2>5 DEF v
  <1>11. Exactly(HeldBy(gen.work, gen.goSrcs), Processed(CgoFiles))
    BY <1>2, <1>3, <1>8, ProcessedFacts
  <1>12. /\ IsSeq(gen.goSrcs) /\ Len(gen.goSrcs) = Len(cgoSrcs) + 1
         /\ \A n \in 1..(Len(cgoSrcs) + 1) :
               gen.goSrcs[n] \in DOMAIN gen.work /\ gen.goSrcs[n].dir = "cgo" /\ gen.goSrcs[n] # CgoImports
    BY <1>8 DEF Listed
  <1>13. DOMAIN gen.goSrcs = 1..(Len(cgoSrcs) + 1) BY <1>12, SeqFacts
  <1>14. FromCgo(gen.work, gen.goSrcs) BY <1>12, <1>13 DEF FromCgo
  <1>15. gen.goSrcs # <<>> BY <1>3, <1>12
  <1>16. IsSeq(cgoSrcs') /\ Len(cgoSrcs') = Len(cgoSrcs)
    <2> DEFINE r == Relative(cgoSrcs)
    <2>1. r = [n \in 1..Len(cgoSrcs) |-> r[n]] BY <1>3 DEF Relative
    <2> HIDE DEF r
    <2>2. IsSeq(r) /\ Len(r) = Len(cgoSrcs) BY <1>3, <2>1, ListFacts
    <2> QED BY <1>1, <1>3, <2>2 DEF r
  <1>17. Len(cgoSrcs) = Len(cgoSrcsNogo) BY <1>1 DEF NogoListInv
  <1> QED BY <1>1, <1>2, <1>8, <1>9, <1>10, <1>11, <1>12, <1>13, <1>14, <1>15, <1>16, <1>17

\* Each file of a list makes one object.
LEMMA ObjectsFacts ==
    ASSUME NEW v, NEW q, IsSeq(q)
    PROVE  /\ IsSeq(Objects(v, q)) /\ Len(Objects(v, q)) = Len(q)
           /\ \A n \in 1..Len(q) : Objects(v, q)[n] = [held |-> HeldIn(v, q[n]), by |-> "cc"]
           /\ \A h : JustOnce(HeldBy(v, q), h) => JustOnce(Objects(v, q), [held |-> h, by |-> "cc"])
           /\ <<>> \o Objects(v, q) = Objects(v, q)
  <1> DEFINE o == Objects(v, q)
             g == HeldBy(v, q)
  <1>1. DOMAIN q = 1..Len(q) /\ Len(q) \in Nat BY SeqFacts
  <1>2. o = [n \in 1..Len(q) |-> o[n]] /\ \A n \in 1..Len(q) : o[n] = [held |-> HeldIn(v, q[n]), by |-> "cc"]
    BY <1>1 DEF Objects
  <1>3. DOMAIN g = 1..Len(q) /\ \A n \in 1..Len(q) : g[n] = HeldIn(v, q[n]) BY <1>1 DEF HeldBy
  <1> HIDE DEF o, g
  <1>4. IsSeq(o) /\ Len(o) = Len(q) /\ DOMAIN o = 1..Len(q) BY <1>1, <1>2, ListFacts
  <1>5. ASSUME NEW h, JustOnce(g, h) PROVE JustOnce(o, [held |-> h, by |-> "cc"])
    <2>1. PICK n \in 1..Len(q) : g[n] = h /\ \A m \in 1..Len(q) : g[m] = h => m = n BY <1>3, <1>5 DEF JustOnce
    <2>2. \A m \in 1..Len(q) : o[m] = [held |-> h, by |-> "cc"] => g[m] = h BY <1>2, <1>3
    <2>3. o[n] = [held |-> h, by |-> "cc"] BY <1>2, <1>3, <2>1
    <2> QED BY <1>4, <2>1, <2>2, <2>3 DEF JustOnce
  <1>6. <<>> \o o = o
    <2>1. o \in Seq(Range(o)) BY <1>4, SeqFacts
    <2> QED BY <2>1
  <1> QED BY <1>2, <1>4, <1>5, <1>6 DEF o, g

\* The C and the assembly files, behind files that cgo has made, make one object each.
LEMMA QueueFacts ==
    ASSUME PkgInv, FilterInv, pc \notin {"filter", "done"}, NEW v, \A x \in DOMAIN v : x.dir \in OwnDirs,
           NEW a, IsSeq(a), \A n \in DOMAIN a : HeldIn(v, a[n]).src.dir = "none" \/ HeldIn(v, a[n]).marks # {},
           NEW q, q = a \o (CFiles \o Names("s"))
    PROVE  IsSeq(q) /\ \A f \in CWant : JustOnce(<<>> \o Objects(v, q), CObj(f))
  <1> DEFINE l == CFiles \o Names("s")
  <1>1. NamesOf(l, CWant) BY CNames
  <1>2. CWant \subseteq GivenFiles BY SourceFacts DEF CWant
  <1>3. \A f \in CWant : JustOnce(HeldBy(v, l), Holds(f, {})) BY <1>1, <1>2, RawExactly
  <1>4. IsSeq(l) BY <1>1 DEF NamesOf
  <1> HIDE DEF l
  <1>5. IsSeq(q) BY <1>4, ConcatFacts DEF Joined, l
  <1>6. /\ HeldBy(v, q) = HeldBy(v, a) \o HeldBy(v, l)
        /\ IsSeq(HeldBy(v, a)) /\ IsSeq(HeldBy(v, l))
    BY <1>4, HeldByConcat DEF l
  <1>7. ASSUME NEW f \in CWant PROVE JustOnce(HeldBy(v, q), Holds(f, {}))
    <2>1. f.name.dir # "none" BY <1>2, FileFacts DEF OwnDirs
    <2>2. Holds(f, {}).src = f.name /\ Holds(f, {}).marks = {} BY DEF Holds
    <2>3. \A n \in DOMAIN a : HeldIn(v, a[n]) # Holds(f, {}) BY <2>1, <2>2
    <2>4. Holds(f, {}) \notin Range(HeldBy(v, a)) BY <2>3 DEF HeldBy, Range
    <2> QED BY <1>3, <1>6, <2>4, OnceConcat
  <1>8. ASSUME NEW f \in CWant PROVE JustOnce(<<>> \o Objects(v, q), CObj(f))
    <2>1. CObj(f) = [held |-> Holds(f, {}), by |-> "cc"] BY DEF CObj
    <2> QED BY <1>5, <1>7, <2>1, ObjectsFacts
  <1> QED BY <1>5, <1>8

\* The files in the queue of the C compiler after cgo.
LEMMA CgoQueue ==
    ASSUME PkgInv, FilterInv, WorkInv, NogoListInv, GoInv, ObjInv, Cgo \/ COnly, pc' = "cc"
    PROVE  IsSeq(queue') /\ \A f \in CWant : JustOnce(objFiles' \o Objects(work', queue'), CObj(f))
  <1>1. pc = "cgo" /\ objFiles' = objFiles BY DEF Cgo, COnly
  <1>2. objFiles' = <<>> BY <1>1 DEF ObjInv
  <1>3. IsSeq(CFiles) /\ IsSeq(Names("s")) BY <1>1, CNames DEF NamesOf
  <1>4. CASE COnly
    <2>1. queue' = CFiles \o Names("s") /\ work' = work BY <1>4 DEF COnly
    <2> DEFINE l == CFiles \o Names("s")
    <2>2. IsSeq(l) BY <1>3, ConcatFacts DEF Joined
    <2>3. l = <<>> \o l
      <3>1. l \in Seq(Range(l)) BY <2>2, SeqFacts
      <3> HIDE DEF l
      <3> QED BY <3>1
    <2>4. IsSeq(<<>>) /\ DOMAIN <<>> = {} BY DEF IsSeq
    <2>5. \A x \in DOMAIN work : x.dir \in OwnDirs BY DEF WorkInv
    <2>6. pc \notin {"filter", "done"} BY <1>1
    <2>7. queue' = <<>> \o (CFiles \o Names("s")) BY <2>1, <2>3
    <2>8. IsSeq(queue') /\ \A f \in CWant : JustOnce(<<>> \o Objects(work, queue'), CObj(f))
      BY <2>4, <2>5, <2>6, <2>7, QueueFacts
    <2> QED BY <1>2, <2>1, <2>8
  <1>5. CASE Cgo
    <2> DEFINE gen == generateCgoSources(work, "cgo", cgoSrcs)
               a == gen.cSrcs
    <2>1. work' = gen.work /\ queue' = (a \o CFiles) \o Names("s") BY <1>5 DEF Cgo, EndWith, EndFrom
    <2>2. \A x \in DOMAIN work' : x.dir \in OwnDirs BY <1>5, CgoStep
    <2>3. Outside(cgoSrcs) /\ Distinct(cgoSrcs) BY <1>1 DEF GoInv
    <2>4. IsSeq(cgoSrcs) /\ DOMAIN cgoSrcs = 1..Len(cgoSrcs) BY <2>3, SeqFacts DEF Outside
    <2>5. SrcDir["cgo"] = "cgo/cgosrcs" BY DEF SrcDir
    <2>6. \A n \in 1..Len(cgoSrcs) : GoFile(cgoSrcs[n]) /\ cgoSrcs[n].dir # SrcDir["cgo"]
      BY <2>3, <2>4, <2>5 DEF Outside, CgoDirs
    <2>7. IsFiniteSet(DOMAIN work) BY DEF WorkInv
    <2>8. Rewritten(work, "cgo", cgoSrcs, gen) BY <2>3, <2>4, <2>6, <2>7, CgoFacts
    <2> HIDE DEF gen
    <2>9. Listed(work, "cgo", cgoSrcs, gen.work, a) BY <2>8 DEF Rewritten
    <2> HIDE DEF a
    <2>10. IsSeq(a) /\ DOMAIN a = 1..(Len(cgoSrcs) + 1) BY <2>9, SeqFacts DEF Listed
    <2>11. ASSUME NEW n \in DOMAIN a
           PROVE  HeldIn(gen.work, a[n]).src.dir = "none" \/ HeldIn(gen.work, a[n]).marks # {}
      <3>1. HeldIn(gen.work, a[n]) = IF n = 1 THEN Generated("cgo") ELSE Mark(HeldIn(work, cgoSrcs[n - 1]), "cgo")
        BY <2>9, <2>10 DEF Listed, HeldIn
      <3>2. Generated("cgo").src.dir = "none" BY DEF Generated
      <3>3. CASE n = 1 BY <3>1, <3>2, <3>3
      <3>4. CASE n # 1
        <4>1. n - 1 \in 1..Len(cgoSrcs) BY <2>4, <2>10, <3>4, SeqFacts
        <4>2. Range(HeldBy(work, cgoSrcs)) \subseteq Instrumented(CgoFiles) BY <1>1 DEF GoInv
        <4>3. HeldIn(work, cgoSrcs[n - 1]) \in Instrumented(CgoFiles) BY <2>4, <4>1, <4>2 DEF HeldBy, Range
        <4>4. PICK f \in CgoFiles : HeldIn(work, cgoSrcs[n - 1]) = Holds(f, CoverMarks(f)) BY <4>3 DEF Instrumented
        <4>5. Mark(Holds(f, CoverMarks(f)), "cgo").marks = CoverMarks(f) \cup {"cgo"}
          <5>1. Mark([src |-> f.name, marks |-> CoverMarks(f)], "cgo")
                  = [src |-> f.name, marks |-> CoverMarks(f) \cup {"cgo"}]
            BY MarkFacts
          <5> QED BY <5>1 DEF Holds
        <4> QED BY <3>1, <3>4, <4>4, <4>5
      <3> QED BY <3>3, <3>4
    <2>12. (a \o CFiles) \o Names("s") = a \o (CFiles \o Names("s"))
      <3> DEFINE b == CFiles
                 c == Names("s")
                 S == (Range(a) \cup Range(b)) \cup Range(c)
      <3>1. a \in Seq(Range(a)) /\ b \in Seq(Range(b)) /\ c \in Seq(Range(c)) BY <1>3, <2>10, SeqFacts
      <3> HIDE DEF b, c
      <3>2. a \in Seq(S) /\ b \in Seq(S) /\ c \in Seq(S) BY <3>1
      <3> HIDE DEF S
      <3>3. (a \o b) \o c = a \o (b \o c) BY <3>2
      <3> QED BY <3>3 DEF b, c
    <2>13. pc \notin {"filter", "done"} BY <1>1
    <2>14. \A x \in DOMAIN gen.work : x.dir \in OwnDirs BY <2>1, <2>2
    <2>15. queue' = a \o (CFiles \o Names("s")) BY <2>1, <2>12
    <2>16. IsSeq(queue') /\ \A f \in CWant : JustOnce(<<>> \o Objects(gen.work, queue'), CObj(f))
      BY <2>10, <2>11, <2>13, <2>14, <2>15, QueueFacts
    <2> QED BY <1>2, <2>1, <2>16
  <1> QED BY <1>4, <1>5

\* A file of cgo's own is added to a list.
LEMMA AppendedFacts ==
    ASSUME NEW v, NEW list, IsSeq(list), NEW c, HeldIn(v, c) = Generated("cgo"),
           NEW l, l = Append(list, c), NEW X, Exactly(HeldBy(v, list), X)
    PROVE  /\ Joined(list, <<c>>, l) /\ Exactly(HeldBy(v, l), X)
           /\ IsSeq(HeldBy(v, l)) /\ Len(HeldBy(v, l)) = Len(list) + 1
  <1>1. l = list \o <<c>>
    <2>1. list \in Seq(Range(list)) BY SeqFacts
    <2> QED BY <2>1
  <1>2. Joined(list, <<c>>, l) BY <1>1, OneFacts, ConcatFacts
  <1>3. HeldBy(v, <<c>>) = <<Generated("cgo")>> BY DEF HeldBy
  <1>4. Exactly(HeldBy(v, <<c>>), {})
    <2> QED BY <1>3, CgoOwn, ExactlyOwn
  <1>5. HeldBy(v, l) = HeldBy(v, list) \o HeldBy(v, <<c>>) /\ IsSeq(HeldBy(v, list)) /\ IsSeq(HeldBy(v, <<c>>))
    BY <1>1, OneFacts, HeldByConcat
  <1>6. X \cap {} = {} /\ X \cup {} = X OBVIOUS
  <1>7. Exactly(HeldBy(v, l), X) BY <1>4, <1>5, <1>6, ExactlyConcat
  <1>8. DOMAIN l = 1..(Len(list) + 1) /\ Len(list) \in Nat BY <1>2, SeqFacts, OneFacts DEF Joined
  <1>9. IsSeq(HeldBy(v, l)) /\ Len(HeldBy(v, l)) = Len(list) + 1
    <2> DEFINE h == HeldBy(v, l)
    <2>1. h = [n \in 1..(Len(list) + 1) |-> h[n]] /\ Len(list) + 1 \in Nat BY <1>8 DEF HeldBy
    <2> HIDE DEF h
    <2>2. IsSeq(h) /\ Len(h) = Len(list) + 1 BY <2>1, ListFacts
    <2> QED BY <2>2 DEF h
  <1> QED BY <1>2, <1>7, <1>9

\* The Go files of the package are the plain and the cgo ones.
LEMMA AllFacts ==
    /\ All = Instrumented(PlainFiles) \cup Processed(CgoFiles)
    /\ Instrumented(PlainFiles) \cap Processed(CgoFiles) = {}
  <1>1. \A f \in PlainFiles : Marks(f) = CoverMarks(f) BY DEF PlainFiles, Marks, CoverMarks
  <1>2. \A f \in CgoFiles : Marks(f) = CoverMarks(f) \cup {"cgo"} BY DEF CgoFiles, Marks, CoverMarks
  <1>3. GoSources = PlainFiles \cup CgoFiles BY SourceFacts
  <1>4. All = Instrumented(PlainFiles) \cup Processed(CgoFiles)
    BY <1>1, <1>2, <1>3 DEF All, Instrumented, Processed
  <1>5. \A x \in Instrumented(PlainFiles) : "cgo" \notin x.marks BY DEF Instrumented, Holds, CoverMarks
  <1>6. \A x \in Processed(CgoFiles) : "cgo" \in x.marks BY DEF Processed, Holds
  <1> QED BY <1>4, <1>5, <1>6

\* Every cgo source is held once in a list of what cgo generates from the originals.
LEMMA OriginalsOnce ==
    ASSUME PkgInv, NEW hs, Exactly(hs, RawCgo(CgoFiles))
    PROVE  \A f \in CgoFiles : JustOnce(hs, Holds(f, {"cgo"}))
  <1> SUFFICES ASSUME NEW f \in CgoFiles PROVE JustOnce(hs, Holds(f, {"cgo"}))
    OBVIOUS
  <1>1. Holds(f, {"cgo"}) \in RawCgo(CgoFiles) BY DEF RawCgo
  <1>2. Holds(f, {"cgo"}).src = f.name BY DEF Holds
  <1>3. f.name.dir # "none" BY SourceFacts, FileFacts DEF OwnDirs
  <1> QED BY <1>1, <1>2, <1>3, ExactlyOnce

\* After linking the generated code, the other Go files lie next to it, under names of their own.
LEMMA LinkStep ==
    ASSUME PkgInv, WorkInv, NogoListInv, GoInv, NogoInv, CgoLink, pc' # "done"
    PROVE  /\ IsFiniteSet(DOMAIN work') /\ \A x \in DOMAIN work' : x.dir \in OwnDirs \ {"none"}
           /\ FromCgo(work', goSrcs') /\ Exactly(HeldBy(work', goSrcs'), All)
           /\ CgoImports \in DOMAIN work' /\ work'[CgoImports] = Generated("cgo")
           /\ CgoFiles # {}
           /\ pkg.cgoGoSrcs /\ ~pkg.coverMode =>
                 /\ \A f \in CgoFiles : JustOnce(nogoSrcs', Holds(f, {"cgo"}))
                 /\ Len(nogoSrcs') = Len(cgoSrcsNogo) + 2
           /\ pkg.cgoGoSrcs /\ pkg.coverMode => nogoSrcs' = <<>> /\ pc' = "nogo"
           /\ ~(pkg.cgoGoSrcs /\ pkg.coverMode) => pc' = "imports"
  <1> DEFINE generated == Append(genGoSrcs, CgoImports)
             w == Put(work, CgoImports, Generated("cgo"))
             g == gatherSrcs(w, "cgo", goSrcs)
             v == g.work
  <1>1. /\ pc = "cc" /\ genGoSrcs # <<>> /\ work' = v /\ goSrcs' = g.names \o generated
        /\ nogoSrcs' = IF pkg.cgoGoSrcs /\ ~pkg.coverMode THEN HeldBy(v, generated) ELSE <<>>
        /\ pc' = IF pkg.cgoGoSrcs /\ pkg.coverMode THEN "nogo" ELSE "imports"
    BY DEF CgoLink, EndWith, EndFrom, GoTo
  <1>2. /\ Outside(goSrcs) /\ Exactly(HeldBy(work, goSrcs), Instrumented(PlainFiles))
        /\ FromCgo(work, genGoSrcs) /\ Exactly(HeldBy(work, genGoSrcs), Processed(CgoFiles))
        /\ Len(genGoSrcs) = Len(cgoSrcsNogo) + 1 /\ CgoFiles # {}
        /\ \A n \in DOMAIN genGoSrcs : genGoSrcs[n] # CgoImports
    BY <1>1 DEF GoInv
  <1>3. IsSeq(goSrcs) /\ DOMAIN goSrcs = 1..Len(goSrcs) /\ Len(goSrcs) \in Nat BY <1>2, SeqFacts DEF Outside
  <1>4. IsSeq(genGoSrcs) /\ DOMAIN genGoSrcs = 1..Len(genGoSrcs) /\ Len(genGoSrcs) \in Nat BY <1>2, SeqFacts DEF FromCgo
  <1>5. CgoImports.dir = "cgo" /\ "cgo" \in CgoDirs /\ "cgo" \in OwnDirs \ {"none"}
    BY DEF CgoImports, WorkName, CgoDirs, OwnDirs
  <1>6. /\ DOMAIN w = DOMAIN work \cup {CgoImports} /\ w[CgoImports] = Generated("cgo")
        /\ \A x \in DOMAIN work : x # CgoImports => w[x] = work[x]
    BY DEF Put
  <1>7. IsFiniteSet(DOMAIN w) /\ \A x \in DOMAIN w : x.dir \in OwnDirs \ {"none"}
    BY <1>5, <1>6, FS_AddElement DEF WorkInv
  <1>8. \A n \in 1..Len(goSrcs) : GoFile(goSrcs[n]) /\ goSrcs[n].dir # "cgo"
    BY <1>2, <1>3, <1>5 DEF Outside
  <1>9. \A n \in 1..Len(goSrcs) : Renamable(goSrcs[n]) /\ goSrcs[n].dir # "cgo"
    BY <1>8 DEF GoFile
  <1> HIDE DEF w
  <1>10. Gathered(w, "cgo", goSrcs, Len(goSrcs), g) BY <1>3, <1>7, <1>9, GatherFacts
  <1> DEFINE names == g.names
  <1> HIDE DEF g
  <1>11. /\ IsFiniteSet(DOMAIN v) /\ DOMAIN w \subseteq DOMAIN v /\ \A x \in DOMAIN w : v[x] = w[x]
         /\ \A x \in DOMAIN v \ DOMAIN w : x.dir = "cgo"
         /\ names \in Seq(DOMAIN v \ DOMAIN w) /\ Len(names) = Len(goSrcs)
         /\ \A j \in 1..Len(goSrcs) : /\ names[j] = [dir |-> "cgo", base |-> names[j].base, kind |-> goSrcs[j].kind]
                                      /\ v[names[j]] = HeldIn(w, goSrcs[j])
    BY <1>10 DEF Gathered
  <1> HIDE DEF v, names
  <1>12. \A x \in DOMAIN v : x.dir \in OwnDirs \ {"none"} BY <1>5, <1>7, <1>11
  <1>13. CgoImports \in DOMAIN v /\ v[CgoImports] = Generated("cgo") BY <1>6, <1>11
  <1>14. IsSeq(names) /\ DOMAIN names = 1..Len(goSrcs) /\ \A j \in 1..Len(goSrcs) : names[j] \in DOMAIN v /\ names[j].dir = "cgo"
    <2>1. IsSeq(names) BY <1>11, SeqIsSeq
    <2>2. DOMAIN names = 1..Len(goSrcs) BY <1>11, <2>1, SeqFacts
    <2>3. \A j \in 1..Len(goSrcs) : names[j] \in DOMAIN v BY <1>11, <2>2
    <2>4. \A j \in 1..Len(goSrcs) : names[j].dir = "cgo" BY <1>11
    <2> QED BY <2>1, <2>2, <2>3, <2>4
  <1>15. \A n \in DOMAIN genGoSrcs : genGoSrcs[n] \in DOMAIN v /\ v[genGoSrcs[n]] = work[genGoSrcs[n]]
    BY <1>2, <1>6, <1>11 DEF FromCgo
  <1>16. HeldBy(v, genGoSrcs) = HeldBy(work, genGoSrcs)
    <2>1. \A n \in DOMAIN genGoSrcs : HeldIn(v, genGoSrcs[n]) = HeldIn(work, genGoSrcs[n])
      BY <1>2, <1>15 DEF HeldIn, FromCgo
    <2> QED BY <2>1, HeldBySame
  <1>17. HeldBy(v, names) = HeldBy(work, goSrcs)
    <2>1. \A j \in 1..Len(goSrcs) : HeldIn(w, goSrcs[j]) = HeldIn(work, goSrcs[j])
      <3>1. \A j \in 1..Len(goSrcs) : goSrcs[j] # CgoImports BY <1>5, <1>8
      <3> QED BY <1>6, <3>1 DEF HeldIn
    <2>2. \A j \in 1..Len(goSrcs) : HeldIn(v, names[j]) = HeldIn(work, goSrcs[j])
      BY <1>11, <1>14, <2>1 DEF HeldIn
    <2> QED BY <1>3, <1>14, <2>2 DEF HeldBy
  <1>18. HeldIn(v, CgoImports) = Generated("cgo") BY <1>13 DEF HeldIn
  <1>19. Exactly(HeldBy(v, genGoSrcs), Processed(CgoFiles)) BY <1>2, <1>16
  <1>20. /\ Joined(genGoSrcs, <<CgoImports>>, generated) /\ Exactly(HeldBy(v, generated), Processed(CgoFiles))
         /\ IsSeq(HeldBy(v, generated)) /\ Len(HeldBy(v, generated)) = Len(genGoSrcs) + 1
    BY <1>4, <1>18, <1>19, AppendedFacts
  <1> HIDE DEF generated
  <1>21. IsSeq(generated) /\ \A n \in DOMAIN generated : generated[n] \in DOMAIN v /\ generated[n].dir = "cgo"
    <2>1. IsSeq(generated) BY <1>20 DEF Joined
    <2>2. \A n \in DOMAIN generated : (n \in DOMAIN genGoSrcs /\ generated[n] = genGoSrcs[n]) \/ generated[n] = CgoImports
      BY <1>4, <1>20, OneFacts DEF Joined
    <2>3. \A n \in DOMAIN genGoSrcs : genGoSrcs[n].dir = "cgo" BY <1>2 DEF FromCgo
    <2> QED BY <1>5, <1>13, <1>15, <2>1, <2>2, <2>3
  <1>22. Joined(names, generated, goSrcs') BY <1>1, <1>14, <1>21, ConcatFacts DEF names
  <1>23. FromCgo(v, goSrcs')
    <2>1. IsSeq(goSrcs') BY <1>22 DEF Joined
    <2>2. DOMAIN generated = 1..Len(generated) /\ Len(names) = Len(goSrcs) BY <1>11, <1>21, SeqFacts
    <2>3. ASSUME NEW n \in DOMAIN goSrcs' PROVE goSrcs'[n] \in DOMAIN v /\ goSrcs'[n].dir = "cgo"
      <3>1. (n \in 1..Len(names) /\ goSrcs'[n] = names[n]) \/ \E k \in 1..Len(generated) : goSrcs'[n] = generated[k]
        BY <1>22 DEF Joined
      <3> QED BY <1>14, <1>21, <2>2, <3>1
    <2> QED BY <2>1, <2>3 DEF FromCgo
  <1>24. Exactly(HeldBy(v, goSrcs'), All)
    <2>1. HeldBy(v, goSrcs') = HeldBy(v, names) \o HeldBy(v, generated) /\ IsSeq(HeldBy(v, names)) /\ IsSeq(HeldBy(v, generated))
      BY <1>1, <1>14, <1>21, HeldByConcat DEF names
    <2>2. Exactly(HeldBy(v, names), Instrumented(PlainFiles)) BY <1>2, <1>17
    <2> QED BY <1>20, <2>1, <2>2, AllFacts, ExactlyConcat
  <1>25. ASSUME pkg.cgoGoSrcs, ~pkg.coverMode
         PROVE  /\ \A f \in CgoFiles : JustOnce(nogoSrcs', Holds(f, {"cgo"}))
                /\ Len(nogoSrcs') = Len(cgoSrcsNogo) + 2
    <2>1. nogoSrcs' = HeldBy(v, generated) BY <1>1, <1>25
    <2>2. \A f \in CgoFiles : CoverMarks(f) \cup {"cgo"} = {"cgo"} BY <1>25, PkgFacts DEF CoverMarks
    <2>3. Processed(CgoFiles) = RawCgo(CgoFiles) BY <2>2 DEF Processed, RawCgo
    <2>4. Exactly(nogoSrcs', RawCgo(CgoFiles)) BY <1>20, <2>1, <2>3
    <2>5. \A f \in CgoFiles : JustOnce(nogoSrcs', Holds(f, {"cgo"})) BY <2>4, OriginalsOnce
    <2>6. Len(cgoSrcsNogo) \in Nat BY <1>1, SeqFacts DEF NogoListInv, NamesOf
    <2>7. Len(nogoSrcs') = Len(cgoSrcsNogo) + 2 BY <1>2, <1>20, <2>1, <2>6
    <2> QED BY <2>5, <2>7
  <1> QED BY <1>1, <1>2, <1>11, <1>12, <1>13, <1>23, <1>24, <1>25

\* nogo gets what cgo generates from the sources as they were written.
LEMMA NogoStep ==
    ASSUME PkgInv, WorkInv, NogoListInv, GoInv, Nogo, pc' # "done"
    PROVE  /\ IsFiniteSet(DOMAIN work') /\ \A x \in DOMAIN work' : x.dir \in OwnDirs \ {"none"}
           /\ IsSeq(goSrcs) /\ Exactly(HeldBy(work', goSrcs), All)
           /\ CgoFiles # {}
           /\ \A f \in CgoFiles : JustOnce(nogoSrcs', Holds(f, {"cgo"}))
           /\ Len(nogoSrcs') = Len(cgoSrcsNogo) + 2
  <1> DEFINE names == cgoSrcsNogo
             gen == generateCgoSources(work, "cgo_nogo", names)
             v == gen.work
             l == Append(gen.goSrcs, CgoImports)
  <1>1. pc = "nogo" /\ work' = v /\ nogoSrcs' = HeldBy(v, l)
    BY DEF Nogo, NogoInput, EndWith, EndFrom
  <1>2. /\ FromCgo(work, goSrcs) /\ Exactly(HeldBy(work, goSrcs), All)
        /\ CgoImports \in DOMAIN work /\ work[CgoImports] = Generated("cgo")
        /\ CgoFiles # {}
    BY <1>1 DEF GoInv
  <1>3. NamesOf(names, CgoFiles) BY <1>1 DEF NogoListInv
  <1>4. IsSeq(names) /\ Distinct(names) /\ DOMAIN names = 1..Len(names) /\ Len(names) \in Nat
    BY <1>3, SeqFacts DEF NamesOf
  <1>5. \A n \in 1..Len(names) : \E f \in CgoFiles : names[n] = f.name BY <1>3, <1>4 DEF NamesOf, Range
  <1>6. SrcDir["cgo_nogo"] = "cgo_nogo/cgosrcs" BY DEF SrcDir
  <1>7. CgoFiles \subseteq GivenFiles /\ \A f \in CgoFiles : f.ext = "go" BY SourceFacts
  <1>8. \A n \in 1..Len(names) : GoFile(names[n]) /\ names[n].dir # SrcDir["cgo_nogo"]
    BY <1>5, <1>6, <1>7, FileFacts DEF OwnDirs
  <1>9. IsFiniteSet(DOMAIN work) /\ \A x \in DOMAIN work : x.dir \in OwnDirs \ {"none"} BY DEF WorkInv
  <1>10. \A x \in DOMAIN work : x.dir \in OwnDirs BY <1>9
  <1> HIDE DEF names
  <1>11. Rewritten(work, "cgo_nogo", names, gen) BY <1>4, <1>8, <1>9, CgoFacts
  <1> DEFINE goList == gen.goSrcs
  <1> HIDE DEF gen
  <1>12. /\ IsFiniteSet(DOMAIN v) /\ DOMAIN work \subseteq DOMAIN v
         /\ \A x \in DOMAIN work : x.dir # "cgo_nogo" => v[x] = work[x]
         /\ \A x \in DOMAIN v \ DOMAIN work : x.dir \in {"cgo_nogo", "cgo_nogo/cgosrcs"}
         /\ Listed(work, "cgo_nogo", names, v, goList)
    BY <1>6, <1>11 DEF Rewritten
  <1> HIDE DEF v, goList
  <1>13. \A x \in DOMAIN v : x.dir \in OwnDirs \ {"none"} BY <1>9, <1>12 DEF OwnDirs
  <1>14. IsSeq(goSrcs) /\ HeldBy(v, goSrcs) = HeldBy(work, goSrcs)
    <2>1. \A n \in DOMAIN goSrcs : goSrcs[n] \in DOMAIN work /\ goSrcs[n].dir = "cgo" BY <1>2 DEF FromCgo
    <2>2. \A n \in DOMAIN goSrcs : HeldIn(v, goSrcs[n]) = HeldIn(work, goSrcs[n]) BY <1>12, <2>1 DEF HeldIn
    <2>3. IsSeq(goSrcs) BY <1>2 DEF FromCgo
    <2> QED BY <2>2, <2>3, HeldBySame
  <1>15. Exactly(HeldBy(work, names), Raw(CgoFiles)) BY <1>3, <1>7, <1>10, RawExactly DEF names
  <1>16. Range(HeldBy(work, names)) \subseteq Raw(CgoFiles)
    <2>1. \A f \in CgoFiles : HeldIn(work, f.name) \in Raw(CgoFiles) BY <1>7, <1>10, RawHeld DEF Raw
    <2>2. \A n \in DOMAIN names : HeldIn(work, names[n]) \in Raw(CgoFiles) BY <1>4, <1>5, <2>1
    <2> QED BY <2>2 DEF HeldBy, Range
  <1>17. Exactly(HeldBy(v, goList), RawCgo(CgoFiles)) BY <1>4, <1>12, <1>15, <1>16, ProcessedFacts
  <1>18. IsSeq(goList) /\ Len(goList) = Len(names) + 1 BY <1>12 DEF Listed
  <1>19. HeldIn(v, CgoImports) = Generated("cgo")
    <2>1. CgoImports.dir = "cgo" BY DEF CgoImports, WorkName
    <2> QED BY <1>2, <1>12, <2>1 DEF HeldIn
  <1>20. Exactly(HeldBy(v, l), RawCgo(CgoFiles)) /\ Len(HeldBy(v, l)) = Len(goList) + 1
    <2>1. l = Append(goList, CgoImports) BY DEF goList
    <2> HIDE DEF l
    <2> QED BY <1>17, <1>18, <1>19, <2>1, AppendedFacts
  <1> HIDE DEF l
  <1>21. \A f \in CgoFiles : JustOnce(nogoSrcs', Holds(f, {"cgo"})) BY <1>1, <1>20, OriginalsOnce
  <1>22. Len(nogoSrcs') = Len(cgoSrcsNogo) + 2 BY <1>1, <1>4, <1>18, <1>20 DEF names
  <1> QED BY <1>1, <1>2, <1>12, <1>13, <1>14, <1>21, <1>22

-----------------------------------------------------------------------------
(* The steps keep the invariant *)

\* The steps that lead to each place of the builder, and those that change the work directory.
LEMMA Steps ==
    [Next]_vars =>
        /\ pc' = "prepare" => Filter \/ UNCHANGED vars
        /\ pc' = "cover" => Prepare \/ UNCHANGED vars
        /\ pc' = "cgo" => Cover \/ UNCHANGED vars
        /\ pc' = "cc" => Cgo \/ COnly \/ CompileC \/ UNCHANGED vars
        /\ pc' = "nogo" => CgoLink \/ UNCHANGED vars
        /\ pc' = "imports" => NoCgo \/ CgoLink \/ CDone \/ Nogo \/ UNCHANGED vars
        /\ pc' = "embed" => Imports \/ UNCHANGED vars
        /\ pc' = "symabis" => Embed \/ UNCHANGED vars
        /\ pc' = "compile" => Embed \/ Symabis \/ UNCHANGED vars
        /\ pc' = "asm" => Compile \/ Assemble \/ UNCHANGED vars
  BY DEF Next, vars, GoTo, EndWith, EndFrom, Filter, Prepare, Cover, NoCgo, NoCompiler, COnly, Cgo, CompileC, CgoLink, CDone,
         Nogo, Imports, Embed, Symabis, SymabisFails, Compile, Assemble, Pack

\* The files in the work directory are files of the builder's own.
LEMMA WorkStep == PkgInv /\ FilterInv /\ WorkInv /\ NogoListInv /\ GoInv /\ NogoInv /\ [Next]_vars => WorkInv'
  <1> SUFFICES ASSUME PkgInv, FilterInv, WorkInv, NogoListInv, GoInv, NogoInv, [Next]_vars PROVE WorkInv'
    OBVIOUS
  <1>1. CASE work' = work BY <1>1 DEF WorkInv
  <1>2. CASE Prepare BY <1>2, PrepareFacts DEF WorkInv
  <1>3. CASE Cover /\ pc' = "cgo" BY <1>3, CoverFacts DEF WorkInv
  <1>4. CASE Cgo /\ pc' = "cc" BY <1>4, CgoStep DEF WorkInv
  <1>5. CASE CgoLink /\ pc' # "done" BY <1>5, LinkStep DEF WorkInv
  <1>6. CASE Nogo /\ pc' # "done" BY <1>6, NogoStep DEF WorkInv
  <1>7. /\ Cover => work' = work \/ pc' = "cgo"
        /\ Cgo => work' = work \/ pc' = "cc"
        /\ CgoLink => work' = work \/ pc' # "done"
        /\ Nogo => work' = work \/ pc' # "done"
    <2>1. Cover => work' = work \/ pc' = "cgo" BY DEF Cover, GoTo
    <2>2. Cgo => work' = work \/ pc' = "cc" BY DEF Cgo, GoTo
    <2>3. CgoLink => work' = work \/ pc' # "done" BY DEF CgoLink, GoTo
    <2>4. Nogo => work' = work \/ pc' # "done" BY DEF Nogo, GoTo
    <2> QED BY <2>1, <2>2, <2>3, <2>4
  <1>8. work' = work \/ Prepare \/ Cover \/ Cgo \/ CgoLink \/ Nogo
    BY DEF Next, vars, Filter, NoCgo, NoCompiler, COnly, CompileC, CDone, Imports, Embed, Symabis, Compile, Assemble, Pack
  <1> QED BY <1>1, <1>2, <1>3, <1>4, <1>5, <1>6, <1>7, <1>8

\* The list for nogo stays as it is from the preparation on.
LEMMA NogoListStep ==
    PkgInv /\ FilterInv /\ WorkInv /\ NogoListInv /\ GoInv /\ [Next]_vars => NogoListInv'
  <1> SUFFICES ASSUME PkgInv, FilterInv, WorkInv, NogoListInv, GoInv, [Next]_vars PROVE NogoListInv'
    OBVIOUS
  <1>1. pkg' = pkg BY PkgStep
  <1>2. CgoFiles' = CgoFiles BY <1>1, SamePkg
  <1>3. CASE UNCHANGED <<cgoSrcs, cgoSrcsNogo>> /\ (pc' \notin {"filter", "prepare", "done"} => pc \notin {"filter", "prepare", "done"})
    <2>1. cgoSrcs' = cgoSrcs /\ cgoSrcsNogo' = cgoSrcsNogo BY <1>3
    <2> QED BY <1>2, <1>3, <2>1 DEF NogoListInv
  <1>4. CASE Prepare
    <2>1. NamesOf(cgoSrcsNogo', CgoFiles) /\ IsSeq(cgoSrcs') /\ Len(cgoSrcs') = Len(cgoSrcsNogo')
      BY <1>4, PrepareFacts
    <2> QED BY <1>2, <2>1 DEF NogoListInv
  <1>5. CASE Cover /\ pc' = "cgo"
    <2>1. IsSeq(cgoSrcs') /\ Len(cgoSrcs') = Len(cgoSrcs) BY <1>5, CoverFacts DEF Outside
    <2>2. cgoSrcsNogo' = cgoSrcsNogo /\ pc = "cover" BY <1>5 DEF Cover
    <2>3. NamesOf(cgoSrcsNogo, CgoFiles) /\ Len(cgoSrcs) = Len(cgoSrcsNogo) BY <2>2 DEF NogoListInv
    <2> QED BY <1>2, <2>1, <2>2, <2>3 DEF NogoListInv
  <1>6. CASE Cgo /\ pc' = "cc"
    <2>1. IsSeq(cgoSrcs') /\ Len(cgoSrcs') = Len(cgoSrcs) BY <1>6, CgoStep
    <2>2. cgoSrcsNogo' = cgoSrcsNogo /\ pc = "cgo" BY <1>6 DEF Cgo
    <2>3. NamesOf(cgoSrcsNogo, CgoFiles) /\ Len(cgoSrcs) = Len(cgoSrcsNogo) BY <2>2 DEF NogoListInv
    <2> QED BY <1>2, <2>1, <2>2, <2>3 DEF NogoListInv
  <1>7. \/ UNCHANGED <<cgoSrcs, cgoSrcsNogo>> /\ (pc' \notin {"filter", "prepare", "done"} => pc \notin {"filter", "prepare", "done"})
        \/ Prepare \/ (Cover /\ pc' = "cgo") \/ (Cgo /\ pc' = "cc")
    BY DEF Next, vars, GoTo, EndWith, EndFrom, Filter, Cover, NoCgo, NoCompiler, COnly, Cgo, CompileC, CgoLink, CDone, Nogo,
           Imports, Embed, Symabis, SymabisFails, Compile, Assemble, Pack
  <1> QED BY <1>3, <1>4, <1>5, <1>6, <1>7

\* Without cgo there are no cgo sources.
LEMMA NoCgoFiles ==
    ASSUME PkgInv, FilterInv, NogoListInv, pc \notin {"filter", "prepare", "done"}, ~compilingWithCgo
    PROVE  CgoFiles = {} /\ All = Instrumented(PlainFiles)
  <1>1. ~(UsesC /\ pkg.cgoEnabled) BY HaveCgo
  <1>2. \A f \in CgoFiles : UsesC /\ pkg.cgoEnabled BY DEF CgoFiles, UsesC, GoSources
  <1>3. CgoFiles = {} BY <1>1, <1>2
  <1>4. Processed(CgoFiles) = {} BY <1>3 DEF Processed
  <1> QED BY <1>3, <1>4, AllFacts

\* The Go files of the package stay complete in every list.
LEMMA GoStep ==
    PkgInv /\ FilterInv /\ WorkInv /\ NogoListInv /\ GoInv /\ NogoInv /\ OutputsInv /\ [Next]_vars => GoInv'
  <1> SUFFICES ASSUME PkgInv, FilterInv, WorkInv, NogoListInv, GoInv, NogoInv, OutputsInv, [Next]_vars PROVE GoInv'
    OBVIOUS
  <1>1. pkg' = pkg BY PkgStep
  <1>2. /\ PlainFiles' = PlainFiles /\ CgoFiles' = CgoFiles /\ GoSources' = GoSources /\ All' = All
        /\ Instrumented(PlainFiles)' = Instrumented(PlainFiles)
        /\ Instrumented(CgoFiles)' = Instrumented(CgoFiles)
        /\ Processed(CgoFiles)' = Processed(CgoFiles)
        /\ \A hs, X : Exactly(hs, X)' <=> Exactly(hs, X)
    BY <1>1, SamePkg, SameHeld
  <1>3. CASE pc' = pc /\ UNCHANGED <<work, goSrcs, genGoSrcs, cgoSrcs, cgoSrcsNogo>>
    BY <1>2, <1>3 DEF GoInv, Listing
  <1>4. CASE pc' = "cover" /\ Prepare
    <2>1. /\ cgoSrcs' = cgoSrcsNogo'
          /\ \/ NamesOf(goSrcs', PlainFiles)
             \/ /\ goSrcs' = <<EmptyGo>> /\ GoSources = {}
                /\ EmptyGo \in DOMAIN work' /\ work'[EmptyGo] = Generated("empty")
      BY <1>4, PrepareFacts
    <2> QED BY <1>2, <1>4, <2>1 DEF GoInv
  <1>5. CASE pc' = "cgo" /\ Cover
    <2>1. /\ Outside(goSrcs') /\ Exactly(HeldBy(work', goSrcs'), Instrumented(PlainFiles))
          /\ Outside(cgoSrcs') /\ Exactly(HeldBy(work', cgoSrcs'), Instrumented(CgoFiles))
          /\ Range(HeldBy(work', cgoSrcs')) \subseteq Instrumented(CgoFiles)
          /\ Distinct(cgoSrcs')
      BY <1>5, CoverFacts
    <2> QED BY <1>2, <1>5, <2>1 DEF GoInv
  <1>6. CASE pc' = "cc" /\ Cgo
    <2>1. /\ goSrcs' = goSrcs /\ Outside(goSrcs) /\ Exactly(HeldBy(work', goSrcs), Instrumented(PlainFiles))
          /\ FromCgo(work', genGoSrcs') /\ Exactly(HeldBy(work', genGoSrcs'), Processed(CgoFiles))
          /\ Len(genGoSrcs') = Len(cgoSrcsNogo) + 1 /\ genGoSrcs' # <<>>
          /\ \A n \in DOMAIN genGoSrcs' : genGoSrcs'[n] # CgoImports
      BY <1>6, CgoStep
    <2>2. pc = "cgo" /\ cgoSrcs # <<>> /\ cgoSrcsNogo' = cgoSrcsNogo BY <1>6 DEF Cgo
    <2>3. CgoFiles # {} BY <2>2, HaveCgo
    <2> QED BY <1>2, <1>6, <2>1, <2>2, <2>3 DEF GoInv
  <1>7. CASE pc' = "cc" /\ COnly
    <2>1. pc = "cgo" /\ goSrcs' = <<>> /\ genGoSrcs' = genGoSrcs BY <1>7 DEF COnly
    <2>2. genGoSrcs = <<>> BY <2>1 DEF OutputsInv, Early
    <2> QED BY <1>7, <2>1, <2>2 DEF GoInv
  <1>8. CASE pc' = "nogo" /\ CgoLink
    <2>1. /\ FromCgo(work', goSrcs') /\ Exactly(HeldBy(work', goSrcs'), All)
          /\ CgoImports \in DOMAIN work' /\ work'[CgoImports] = Generated("cgo")
          /\ CgoFiles # {}
      BY <1>8, LinkStep
    <2> QED BY <1>2, <1>8, <2>1 DEF GoInv
  <1>9. CASE pc' = "imports" /\ CgoLink
    <2>1. FromCgo(work', goSrcs') /\ Exactly(HeldBy(work', goSrcs'), All) BY <1>9, LinkStep
    <2>2. Listing' BY <1>2, <2>1 DEF Listing, FromCgo
    <2> QED BY <1>9, <2>2 DEF GoInv
  <1>10. CASE pc' = "imports" /\ NoCgo
    <2>1. pc = "cgo" /\ ~compilingWithCgo /\ goSrcs' = goSrcs /\ work' = work BY <1>10 DEF NoCgo
    <2>2. Outside(goSrcs) /\ Exactly(HeldBy(work, goSrcs), Instrumented(PlainFiles)) BY <2>1 DEF GoInv
    <2>3. All = Instrumented(PlainFiles) BY <2>1, NoCgoFiles
    <2>4. Listing' BY <1>2, <2>1, <2>2, <2>3 DEF Listing, Outside
    <2> QED BY <1>10, <2>4 DEF GoInv
  <1>11. CASE pc' = "imports" /\ CDone
    <2>1. pc = "cc" /\ genGoSrcs = <<>> /\ goSrcs' = goSrcs BY <1>11 DEF CDone
    <2>2. goSrcs' = <<>> BY <2>1 DEF GoInv
    <2>3. Listing' BY <2>2 DEF Listing
    <2> QED BY <1>11, <2>3 DEF GoInv
  <1>12. CASE pc' = "imports" /\ Nogo
    <2>1. IsSeq(goSrcs) /\ Exactly(HeldBy(work', goSrcs), All) /\ goSrcs' = goSrcs BY <1>12, NogoStep DEF Nogo
    <2>2. Listing' BY <1>2, <2>1 DEF Listing
    <2> QED BY <1>12, <2>2 DEF GoInv
  <1>13. CASE pc' \in {"embed", "symabis", "compile"} /\ (Imports \/ Embed \/ Symabis)
    <2>1. pc \in {"imports", "embed", "symabis"} /\ goSrcs' = goSrcs /\ work' = work BY <1>13 DEF Imports, Embed, Symabis
    <2>2. Listing BY <2>1 DEF GoInv
    <2>3. Listing' BY <1>2, <2>1, <2>2 DEF Listing
    <2> QED BY <1>13, <2>3 DEF GoInv
  <1>14. CASE pc' = "cc" /\ CompileC
    <2>1. pc = "cc" /\ UNCHANGED <<work, goSrcs, genGoSrcs, cgoSrcs, cgoSrcsNogo>> BY <1>14 DEF CompileC
    <2> QED BY <1>3, <1>14, <2>1
  <1>15. CASE UNCHANGED vars BY <1>3, <1>15 DEF vars
  <1>16. CASE pc' \notin {"cover", "cgo", "cc", "nogo", "imports", "embed", "symabis", "compile"}
    BY <1>16 DEF GoInv
  <1> QED
    BY <1>4, <1>5, <1>6, <1>7, <1>8, <1>9, <1>10, <1>11, <1>12, <1>13, <1>14, <1>15, <1>16, Steps

\* What nogo gets is complete before the imports are checked.
LEMMA NogoKeep ==
    PkgInv /\ FilterInv /\ WorkInv /\ NogoListInv /\ GoInv /\ NogoInv /\ [Next]_vars => NogoInv'
  <1> SUFFICES ASSUME PkgInv, FilterInv, WorkInv, NogoListInv, GoInv, NogoInv, [Next]_vars PROVE NogoInv'
    OBVIOUS
  <1>1. pkg' = pkg BY PkgStep
  <1>2. CgoFiles' = CgoFiles BY <1>1, SamePkg
  <1>3. CASE pc' \in {"filter", "prepare", "cover", "cgo", "cc", "nogo"}
    <2>1. nogoSrcs' = <<>>
      <3>1. CASE CgoLink /\ pc' = "nogo"
        <4>1. ~(pkg.cgoGoSrcs /\ pkg.coverMode) => pc' = "imports" BY <3>1, LinkStep
        <4>2. pkg.cgoGoSrcs /\ pkg.coverMode => nogoSrcs' = <<>> BY <3>1, LinkStep
        <4> QED BY <3>1, <4>1, <4>2
      <3>2. CASE UNCHANGED vars BY <1>3, <3>2 DEF vars, NogoInv
      <3>3. CASE Filter \/ Prepare \/ Cover \/ Cgo \/ COnly \/ CompileC
        BY <3>3 DEF NogoInv, Filter, Prepare, Cover, Cgo, COnly, CompileC
      <3>4. pc' = "filter" => UNCHANGED vars BY PcStep
      <3> QED BY <1>3, <3>1, <3>2, <3>3, <3>4, Steps
    <2> QED BY <1>3, <2>1 DEF NogoInv
  <1>4. CASE pc' \in {"imports", "embed", "symabis", "compile", "asm"}
    <2>1. SUFFICES ASSUME pkg.cgoGoSrcs, goSrcs' # <<>>
          PROVE  /\ \A f \in CgoFiles : JustOnce(nogoSrcs', Holds(f, {"cgo"}))
                 /\ Len(nogoSrcs') = IF CgoFiles = {} THEN 0 ELSE Len(cgoSrcsNogo') + 2
      BY <1>1, <1>2, <1>4 DEF NogoInv, NogoDone
    <2>2. CASE pc \in {"imports", "embed", "symabis", "compile", "asm"} /\ UNCHANGED <<goSrcs, nogoSrcs, cgoSrcsNogo>>
      BY <2>1, <2>2 DEF NogoInv, NogoDone
    <2>3. CASE NoCgo
      <3>1. pc = "cgo" /\ ~compilingWithCgo /\ nogoSrcs' = nogoSrcs BY <2>3 DEF NoCgo
      <3>2. nogoSrcs' = <<>> BY <3>1 DEF NogoInv
      <3>3. CgoFiles = {} BY <3>1, NoCgoFiles
      <3> QED BY <3>2, <3>3
    <2>4. CASE CgoLink
      <3>1. cgoSrcsNogo' = cgoSrcsNogo BY <2>4 DEF CgoLink
      <3>2. pc' # "nogo" /\ pc' # "done" BY <1>4
      <3>3. ~pkg.coverMode BY <2>1, <2>4, <3>2, LinkStep
      <3> QED BY <2>1, <2>4, <3>1, <3>2, <3>3, LinkStep
    <2>5. CASE CDone
      <3>1. pc = "cc" /\ genGoSrcs = <<>> /\ goSrcs' = goSrcs BY <2>5 DEF CDone
      <3> QED BY <2>1, <3>1 DEF GoInv
    <2>6. CASE Nogo
      <3>1. cgoSrcsNogo' = cgoSrcsNogo /\ pc' # "done" BY <1>4, <2>6 DEF Nogo
      <3> QED BY <2>6, <3>1, NogoStep
    <2>7. CASE UNCHANGED vars BY <1>4, <2>2, <2>7 DEF vars
    <2>8. CASE Imports \/ Embed \/ Symabis \/ Compile \/ Assemble
      <3>1. pc \in {"imports", "embed", "symabis", "compile", "asm"} /\ UNCHANGED <<goSrcs, nogoSrcs, cgoSrcsNogo>>
        BY <2>8 DEF Imports, Embed, Symabis, Compile, Assemble
      <3> QED BY <2>2, <3>1
    <2> QED BY <1>4, <2>3, <2>4, <2>5, <2>6, <2>7, <2>8, Steps
  <1>5. CASE pc' \notin {"filter", "prepare", "cover", "cgo", "cc", "nogo", "imports", "embed", "symabis", "compile", "asm"}
    BY <1>5 DEF NogoInv
  <1> QED BY <1>3, <1>4, <1>5

\* The first element of a list moves to the end of another.
LEMMA MoveFirst ==
    ASSUME NEW a, NEW p, IsSeq(a), IsSeq(p), p # <<>>, NEW q,
           IsSeq(q), Len(q) = Len(p) - 1, \A n \in 1..(Len(p) - 1) : q[n] = p[n + 1]
    PROVE  IsSeq(Append(a, p[1])) /\ Append(a, p[1]) \o q = a \o p
  <1> DEFINE S == Range(a) \cup Range(p)
             x == p[1]
             b == Append(a, x)
  <1>1. a \in Seq(Range(a)) /\ p \in Seq(Range(p)) /\ Len(p) \in Nat /\ Len(a) \in Nat
        /\ \A n \in 1..Len(p) : p[n] \in Range(p)
    BY SeqFacts
  <1>2. Len(p) # 0 BY <1>1
  <1>3. x \in Range(p) BY <1>1, <1>2
  <1>4. a \in Seq(S) /\ p \in Seq(S) /\ x \in S BY <1>1, <1>3
  <1>5. q \in Seq(S)
    <2>1. \A n \in 1..Len(q) : q[n] \in S BY <1>1, <1>4
    <2>2. q = [n \in 1..Len(q) |-> q[n]] /\ Len(q) \in Nat BY DEF IsSeq
    <2> HIDE DEF S
    <2> QED BY <2>1, <2>2
  <1> HIDE DEF S
  <1>6. b \in Seq(S) /\ Len(b) = Len(a) + 1 /\ b[Len(a) + 1] = x /\ \A n \in 1..Len(a) : b[n] = a[n]
    BY <1>1, <1>4
  <1> HIDE DEF b
  <1>7. IsSeq(b) BY <1>6, SeqIsSeq
  <1> DEFINE c == b \o q d == a \o p
  <1>8. Joined(b, q, c) /\ Joined(a, p, d) BY <1>7, ConcatFacts
  <1> HIDE DEF c, d
  <1>9. /\ IsSeq(c) /\ Len(c) = Len(b) + Len(q) /\ DOMAIN c = 1..(Len(b) + Len(q))
        /\ \A n \in 1..Len(b) : c[n] = b[n]
        /\ \A n \in 1..Len(q) : c[n + Len(b)] = q[n]
    BY <1>8 DEF Joined
  <1>10. /\ IsSeq(d) /\ Len(d) = Len(a) + Len(p) /\ DOMAIN d = 1..(Len(a) + Len(p))
         /\ \A n \in 1..Len(a) : d[n] = a[n]
         /\ \A n \in 1..Len(p) : d[n + Len(a)] = p[n]
    BY <1>8 DEF Joined
  <1>11. Len(b) + Len(q) = Len(a) + Len(p) BY <1>1, <1>6
  <1>12. ASSUME NEW n \in 1..(Len(a) + Len(p)) PROVE c[n] = d[n]
    <2>1. CASE n \in 1..Len(a)
      <3>1. n \in 1..Len(b) BY <1>1, <1>6, <2>1
      <3> QED BY <1>6, <1>9, <1>10, <2>1, <3>1
    <2>2. CASE n = Len(a) + 1
      <3>1. n \in 1..Len(b) BY <1>1, <1>6, <2>2
      <3>2. 1 \in 1..Len(p) /\ 1 + Len(a) = n BY <1>1, <1>2, <2>2
      <3>3. d[n] = p[1] BY <1>10, <3>2
      <3>4. c[n] = x BY <1>6, <1>9, <2>2, <3>1
      <3> QED BY <3>3, <3>4
    <2>3. CASE n > Len(a) + 1
      <3> DEFINE k == n - (Len(a) + 1)
      <3>1. k \in 1..Len(q) /\ k + Len(b) = n /\ k \in 1..(Len(p) - 1) BY <1>1, <1>6, <2>3
      <3>2. k + 1 \in 1..Len(p) /\ (k + 1) + Len(a) = n BY <1>1, <2>3
      <3> HIDE DEF k
      <3>3. c[n] = q[k] BY <1>9, <3>1
      <3>4. d[n] = p[k + 1] BY <1>10, <3>2
      <3> QED BY <3>1, <3>3, <3>4
    <2> QED BY <1>1, <2>1, <2>2, <2>3
  <1>13. c = d
    <2>1. c = [n \in 1..Len(c) |-> c[n]] /\ d = [n \in 1..Len(d) |-> d[n]] BY <1>9, <1>10 DEF IsSeq
    <2> QED BY <1>9, <1>10, <1>11, <1>12, <2>1
  <1> QED BY <1>7, <1>13 DEF b, c, d

\* The queue without its first file.
LEMMA TailFacts ==
    ASSUME NEW q, IsSeq(q), q # <<>>
    PROVE  /\ IsSeq(Tail(q)) /\ Len(Tail(q)) = Len(q) - 1 /\ Head(q) = q[1] /\ Len(q) # 0
           /\ \A n \in 1..(Len(q) - 1) : Tail(q)[n] = q[n + 1]
  <1>1. q \in Seq(Range(q)) /\ Len(q) \in Nat BY SeqFacts
  <1>2. Tail(q) \in Seq(Range(q)) /\ Len(Tail(q)) = Len(q) - 1 /\ Head(q) = q[1] /\ Len(q) # 0 BY <1>1
  <1>3. \A n \in 1..(Len(q) - 1) : Tail(q)[n] = q[n + 1] BY <1>1, <1>2
  <1>4. IsSeq(Tail(q)) BY <1>2, SeqIsSeq
  <1> QED BY <1>2, <1>3, <1>4

\* Compiling or assembling the next file leaves the list of what there will be as it is.
LEMMA NextFile ==
    ASSUME NEW a, IsSeq(a), NEW q, IsSeq(q), q # <<>>, NEW v
    PROVE  /\ IsSeq(Tail(q))
           /\ IsSeq(Append(a, [held |-> HeldIn(v, Head(q)), by |-> "cc"]))
           /\ Append(a, [held |-> HeldIn(v, Head(q)), by |-> "cc"]) \o Objects(v, Tail(q)) = a \o Objects(v, q)
           /\ IsSeq(Append(a, [held |-> Original(Head(q)), by |-> "asm"]))
           /\ Append(a, [held |-> Original(Head(q)), by |-> "asm"]) \o Assembled(Tail(q)) = a \o Assembled(q)
  <1> DEFINE t == Tail(q)
  <1>1. /\ IsSeq(t) /\ Len(t) = Len(q) - 1 /\ Head(q) = q[1] /\ Len(q) # 0
        /\ \A n \in 1..(Len(q) - 1) : t[n] = q[n + 1]
    BY TailFacts
  <1> HIDE DEF t
  <1>2. Len(q) \in Nat /\ DOMAIN q = 1..Len(q) /\ DOMAIN t = 1..(Len(q) - 1) BY <1>1, SeqFacts
  <1>3. 1 \in 1..Len(q) /\ Len(q) - 1 \in Nat /\ \A n \in 1..(Len(q) - 1) : n + 1 \in 1..Len(q) BY <1>1, <1>2
  <1>4. /\ IsSeq(Append(a, [held |-> HeldIn(v, Head(q)), by |-> "cc"]))
        /\ Append(a, [held |-> HeldIn(v, Head(q)), by |-> "cc"]) \o Objects(v, t) = a \o Objects(v, q)
    <2> DEFINE p == Objects(v, q) r == Objects(v, t)
    <2>1. /\ p = [n \in 1..Len(q) |-> p[n]] /\ \A n \in 1..Len(q) : p[n] = [held |-> HeldIn(v, q[n]), by |-> "cc"]
          /\ r = [n \in 1..(Len(q) - 1) |-> r[n]]
          /\ \A n \in 1..(Len(q) - 1) : r[n] = [held |-> HeldIn(v, t[n]), by |-> "cc"]
      BY <1>2 DEF Objects
    <2> HIDE DEF p, r
    <2>2. IsSeq(p) /\ Len(p) = Len(q) /\ IsSeq(r) /\ Len(r) = Len(q) - 1 BY <1>2, <1>3, <2>1, ListFacts
    <2>3. p # <<>> BY <1>1, <2>2
    <2>4. \A n \in 1..(Len(p) - 1) : r[n] = p[n + 1] BY <1>1, <1>3, <2>1, <2>2
    <2>5. p[1] = [held |-> HeldIn(v, Head(q)), by |-> "cc"] BY <1>1, <1>3, <2>1
    <2>6. IsSeq(Append(a, p[1])) /\ Append(a, p[1]) \o r = a \o p BY <2>2, <2>3, <2>4, MoveFirst
    <2> QED BY <2>5, <2>6 DEF p, r
  <1>5. /\ IsSeq(Append(a, [held |-> Original(Head(q)), by |-> "asm"]))
        /\ Append(a, [held |-> Original(Head(q)), by |-> "asm"]) \o Assembled(t) = a \o Assembled(q)
    <2> DEFINE p == Assembled(q) r == Assembled(t)
    <2>1. /\ p = [n \in 1..Len(q) |-> p[n]] /\ \A n \in 1..Len(q) : p[n] = [held |-> Original(q[n]), by |-> "asm"]
          /\ r = [n \in 1..(Len(q) - 1) |-> r[n]]
          /\ \A n \in 1..(Len(q) - 1) : r[n] = [held |-> Original(t[n]), by |-> "asm"]
      BY <1>2 DEF Assembled
    <2> HIDE DEF p, r
    <2>2. IsSeq(p) /\ Len(p) = Len(q) /\ IsSeq(r) /\ Len(r) = Len(q) - 1 BY <1>2, <1>3, <2>1, ListFacts
    <2>3. p # <<>> BY <1>1, <2>2
    <2>4. \A n \in 1..(Len(p) - 1) : r[n] = p[n + 1] BY <1>1, <1>3, <2>1, <2>2
    <2>5. p[1] = [held |-> Original(Head(q)), by |-> "asm"] BY <1>1, <1>3, <2>1
    <2>6. IsSeq(Append(a, p[1])) /\ Append(a, p[1]) \o r = a \o p BY <2>2, <2>3, <2>4, MoveFirst
    <2> QED BY <2>5, <2>6 DEF p, r
  <1> QED BY <1>1, <1>4, <1>5 DEF t

\* An empty list changes nothing.
LEMMA EmptyList ==
    /\ IsSeq(<<>>) /\ \A v : Objects(v, <<>>) = <<>> /\ Assembled(<<>>) = <<>>
    /\ \A s : IsSeq(s) => s \o <<>> = s /\ <<>> \o s = s
  <1>1. IsSeq(<<>>) BY DEF IsSeq
  <1>2. \A v : Objects(v, <<>>) = <<>> /\ Assembled(<<>>) = <<>> BY DEF Objects, Assembled
  <1>3. ASSUME NEW s, IsSeq(s) PROVE s \o <<>> = s /\ <<>> \o s = s
    <2>1. s \in Seq(Range(s)) BY <1>3, SeqFacts
    <2> QED BY <2>1
  <1> QED BY <1>1, <1>2, <1>3

\* The assembly files without cgo.
LEMMA AssembleFacts ==
    ASSUME PkgInv, FilterInv, pc \notin {"filter", "done"}
    PROVE  LET q == Names("s") o == Assembled(q) IN
           /\ IsSeq(q) /\ IsSeq(o)
           /\ \A f \in AsmFiles : JustOnce(o, AsmObj(f))
           /\ \A n \in DOMAIN o : \E f \in AsmFiles : o[n] = AsmObj(f)
  <1> DEFINE q == Names("s") o == Assembled(q)
  <1>1. NamesOf(q, AsmFiles) BY CNames
  <1>2. IsSeq(q) /\ Distinct(q) /\ Range(q) = {f.name : f \in AsmFiles} BY <1>1 DEF NamesOf
  <1> HIDE DEF q
  <1>3. Len(q) \in Nat /\ DOMAIN q = 1..Len(q) BY <1>2, SeqFacts
  <1>4. o = [n \in 1..Len(q) |-> o[n]] /\ \A n \in 1..Len(q) : o[n] = [held |-> Original(q[n]), by |-> "asm"]
    BY <1>3 DEF Assembled
  <1> HIDE DEF o
  <1>5. IsSeq(o) /\ DOMAIN o = 1..Len(q) BY <1>3, <1>4, ListFacts
  <1>6. \A f : AsmObj(f) = [held |-> Original(f.name), by |-> "asm"] BY DEF AsmObj, Holds, Original
  <1>7. \A n \in DOMAIN o : \E f \in AsmFiles : o[n] = AsmObj(f)
    <2> TAKE n \in DOMAIN o
    <2>1. PICK f \in AsmFiles : q[n] = f.name BY <1>2, <1>3, <1>5 DEF Range
    <2> QED BY <1>4, <1>5, <1>6, <2>1
  <1>8. ASSUME NEW f \in AsmFiles PROVE JustOnce(o, AsmObj(f))
    <2>1. PICK n \in 1..Len(q) : q[n] = f.name BY <1>2, <1>3 DEF Range
    <2>2. o[n] = AsmObj(f) BY <1>4, <1>6, <2>1
    <2>3. \A m \in 1..Len(q) : o[m] = AsmObj(f) => q[m] = f.name
      <3> TAKE m \in 1..Len(q)
      <3>1. o[m].held = Original(q[m]) BY <1>4
      <3>2. AsmObj(f).held = Original(f.name) BY <1>6
      <3>3. Original(q[m]).src = q[m] /\ Original(f.name).src = f.name BY DEF Original
      <3> QED BY <3>1, <3>2, <3>3
    <2>4. \A m \in 1..Len(q) : o[m] = AsmObj(f) => m = n BY <1>2, <1>3, <2>1, <2>3 DEF Distinct
    <2> QED BY <1>5, <2>2, <2>4 DEF JustOnce
  <1> QED BY <1>2, <1>5, <1>7, <1>8 DEF q, o

\* Whether the package uses cgo does not depend on the steps after the coverage.
LEMMA SameCgo ==
    pkg' = pkg /\ srcs' = srcs /\ Len(cgoSrcs') = Len(cgoSrcs) =>
        /\ haveCgo' <=> haveCgo
        /\ compilingWithCgo' <=> compilingWithCgo
        /\ \A e : Names(e)' = Names(e)
  BY DEF haveCgo, compilingWithCgo, CFiles, Names

\* Every object comes from one file, and every file that must be compiled or assembled makes one.
LEMMA ObjStep ==
    PkgInv /\ FilterInv /\ WorkInv /\ NogoListInv /\ GoInv /\ NogoInv /\ ObjInv /\ [Next]_vars => ObjInv'
  <1> SUFFICES ASSUME PkgInv, FilterInv, WorkInv, NogoListInv, GoInv, NogoInv, ObjInv, [Next]_vars PROVE ObjInv'
    OBVIOUS
  <1>1. pkg' = pkg BY PkgStep
  <1>2. CWant' = CWant /\ AsmFiles' = AsmFiles BY <1>1, SamePkg
  <1>3. CASE pc' \in {"filter", "prepare", "cover", "cgo"}
    <2>1. pc' = "filter" => UNCHANGED vars BY PcStep
    <2>2. Filter \/ Prepare \/ Cover \/ UNCHANGED vars BY <1>3, <2>1, Steps
    <2>3. objFiles' = objFiles /\ pc \in {"filter", "prepare", "cover", "cgo"}
      BY <1>3, <2>2 DEF vars, Filter, Prepare, Cover
    <2>4. objFiles' = <<>> BY <2>3 DEF ObjInv
    <2> QED BY <1>3, <2>4 DEF ObjInv
  <1>4. CASE pc' = "cc"
    <2>1. SUFFICES /\ compilingWithCgo' /\ IsSeq(objFiles') /\ IsSeq(queue')
                   /\ \A f \in CWant : JustOnce(objFiles' \o Objects(work', queue'), CObj(f))
      BY <1>2, <1>4 DEF ObjInv
    <2>2. CASE Cgo \/ COnly
      <3>1. pc = "cgo" /\ compilingWithCgo /\ srcs' = srcs /\ objFiles' = objFiles BY <2>2 DEF Cgo, COnly
      <3>2. objFiles' = <<>> BY <3>1 DEF ObjInv
      <3>3. Len(cgoSrcs') = Len(cgoSrcs)
        <4>1. CASE Cgo BY <1>4, <4>1, CgoStep
        <4>2. CASE COnly BY <4>2 DEF COnly
        <4> QED BY <2>2, <4>1, <4>2
      <3>4. compilingWithCgo' BY <1>1, <3>1, <3>3, SameCgo
      <3>5. IsSeq(queue') /\ \A f \in CWant : JustOnce(objFiles' \o Objects(work', queue'), CObj(f))
        BY <1>4, <2>2, CgoQueue
      <3> QED BY <3>2, <3>4, <3>5, EmptyList
    <2>3. CASE CompileC
      <3>1. /\ pc = "cc" /\ queue # <<>> /\ work' = work /\ srcs' = srcs /\ cgoSrcs' = cgoSrcs
            /\ objFiles' = Append(objFiles, [held |-> HeldIn(work, Head(queue)), by |-> "cc"])
            /\ queue' = Tail(queue)
        BY <1>4, <2>3 DEF CompileC, EndWith, EndFrom
      <3>2. /\ compilingWithCgo /\ IsSeq(objFiles) /\ IsSeq(queue)
            /\ \A f \in CWant : JustOnce(objFiles \o Objects(work, queue), CObj(f))
        BY <3>1 DEF ObjInv
      <3>3. compilingWithCgo' BY <1>1, <3>1, <3>2, SameCgo
      <3>4. IsSeq(objFiles') /\ IsSeq(queue') BY <3>1, <3>2, NextFile
      <3>5. objFiles' \o Objects(work, queue') = objFiles \o Objects(work, queue) BY <3>1, <3>2, NextFile
      <3> QED BY <3>1, <3>2, <3>3, <3>4, <3>5
    <2>4. CASE UNCHANGED vars
      <3>1. pc = "cc" /\ work' = work /\ srcs' = srcs /\ cgoSrcs' = cgoSrcs /\ objFiles' = objFiles /\ queue' = queue
        BY <1>4, <2>4 DEF vars
      <3>2. compilingWithCgo' <=> compilingWithCgo BY <1>1, <3>1, SameCgo
      <3> QED BY <3>1, <3>2 DEF ObjInv
    <2> QED BY <1>4, <2>2, <2>3, <2>4, Steps
  <1>5. CASE pc' \in {"nogo", "imports", "embed", "symabis", "compile"}
    <2>1. SUFFICES IsSeq(objFiles') /\ IF compilingWithCgo' THEN \A f \in CWant : JustOnce(objFiles', CObj(f)) ELSE objFiles' = <<>>
      BY <1>2, <1>5 DEF ObjInv, CMade
    <2>2. CgoLink \/ CDone \/ NoCgo \/ Nogo \/ Imports \/ Embed \/ Symabis \/ UNCHANGED vars BY <1>5, Steps
    <2>3. objFiles' = objFiles /\ srcs' = srcs /\ cgoSrcs' = cgoSrcs
      BY <2>2 DEF vars, CgoLink, CDone, NoCgo, Nogo, Imports, Embed, Symabis
    <2>4. compilingWithCgo' <=> compilingWithCgo BY <1>1, <2>3, SameCgo
    <2>5. CASE CgoLink \/ CDone
      <3>1. pc = "cc" /\ queue = <<>> BY <2>5 DEF CgoLink, CDone
      <3>2. /\ compilingWithCgo /\ IsSeq(objFiles)
            /\ \A f \in CWant : JustOnce(objFiles \o Objects(work, queue), CObj(f))
        BY <3>1 DEF ObjInv
      <3>3. objFiles \o Objects(work, queue) = objFiles BY <3>1, <3>2, EmptyList
      <3> QED BY <2>3, <2>4, <3>2, <3>3
    <2>6. CASE NoCgo
      <3>1. pc = "cgo" /\ ~compilingWithCgo BY <2>6 DEF NoCgo
      <3>2. objFiles = <<>> BY <3>1 DEF ObjInv
      <3> QED BY <2>3, <2>4, <3>1, <3>2, EmptyList
    <2>7. CASE pc \in {"nogo", "imports", "embed", "symabis", "compile"}
      BY <2>3, <2>4, <2>7 DEF ObjInv, CMade
    <2>8. Nogo \/ Imports \/ Embed \/ Symabis \/ UNCHANGED vars => pc \in {"nogo", "imports", "embed", "symabis", "compile"}
      BY <1>5 DEF vars, Nogo, Imports, Embed, Symabis
    <2> QED BY <2>2, <2>5, <2>6, <2>7, <2>8
  <1>6. CASE pc' = "asm"
    <2>1. SUFFICES /\ IsSeq(objFiles') /\ IsSeq(queue')
                   /\ compilingWithCgo' => queue' = <<>> /\ \A f \in CWant : JustOnce(objFiles', CObj(f))
                   /\ ~compilingWithCgo' /\ haveCgo' => queue' = <<>> /\ objFiles' = <<>>
                   /\ ~haveCgo' =>
                         /\ \A f \in AsmFiles : JustOnce(objFiles' \o Assembled(queue'), AsmObj(f))
                         /\ \A n \in DOMAIN (objFiles' \o Assembled(queue')) :
                               \E f \in AsmFiles : (objFiles' \o Assembled(queue'))[n] = AsmObj(f)
      BY <1>2, <1>6 DEF ObjInv, CMade
    <2>2. Compile \/ Assemble \/ UNCHANGED vars BY <1>6, Steps
    <2>3. srcs' = srcs /\ cgoSrcs' = cgoSrcs BY <2>2 DEF vars, Compile, Assemble
    <2>4. (compilingWithCgo' <=> compilingWithCgo) /\ (haveCgo' <=> haveCgo) BY <1>1, <2>3, SameCgo
    <2>5. compilingWithCgo => haveCgo BY DEF compilingWithCgo
    <2>6. CASE Compile
      <3>1. pc = "compile" /\ objFiles' = objFiles /\ queue' = IF haveCgo THEN <<>> ELSE Names("s")
        BY <1>6, <2>6 DEF Compile, EndWith, EndFrom
      <3>2. IsSeq(objFiles) /\ IF compilingWithCgo THEN \A f \in CWant : JustOnce(objFiles, CObj(f)) ELSE objFiles = <<>>
        BY <3>1 DEF ObjInv, CMade
      <3>3. CASE haveCgo BY <2>4, <3>1, <3>2, <3>3, EmptyList
      <3>4. CASE ~haveCgo
        <4> DEFINE o == Assembled(queue')
        <4>1. queue' = Names("s") /\ objFiles' = <<>> BY <2>5, <3>1, <3>2, <3>4
        <4>2. /\ IsSeq(queue') /\ IsSeq(o)
              /\ \A f \in AsmFiles : JustOnce(o, AsmObj(f))
              /\ \A n \in DOMAIN o : \E f \in AsmFiles : o[n] = AsmObj(f)
          BY <3>1, <4>1, AssembleFacts
        <4>3. objFiles' \o o = o BY <4>1, <4>2, EmptyList
        <4> HIDE DEF o
        <4>4. /\ \A f \in AsmFiles : JustOnce(objFiles' \o o, AsmObj(f))
              /\ \A n \in DOMAIN (objFiles' \o o) : \E f \in AsmFiles : (objFiles' \o o)[n] = AsmObj(f)
          BY <4>2, <4>3
        <4> QED BY <2>4, <2>5, <3>4, <4>1, <4>2, <4>4, EmptyList DEF o
      <3> QED BY <3>3, <3>4
    <2>7. CASE Assemble
      <3>1. /\ pc = "asm" /\ queue # <<>>
            /\ objFiles' = Append(objFiles, [held |-> Original(Head(queue)), by |-> "asm"])
            /\ queue' = Tail(queue)
        BY <1>6, <2>7 DEF Assemble, EndWith, EndFrom
      <3>2. IsSeq(objFiles) /\ IsSeq(queue) /\ ~haveCgo BY <2>5, <3>1 DEF ObjInv
      <3>3. IsSeq(objFiles') /\ IsSeq(queue') BY <3>1, <3>2, NextFile
      <3>4. objFiles' \o Assembled(queue') = objFiles \o Assembled(queue) BY <3>1, <3>2, NextFile
      <3>5. /\ \A f \in AsmFiles : JustOnce(objFiles \o Assembled(queue), AsmObj(f))
            /\ \A n \in DOMAIN (objFiles \o Assembled(queue)) :
                  \E f \in AsmFiles : (objFiles \o Assembled(queue))[n] = AsmObj(f)
        BY <3>1, <3>2 DEF ObjInv
      <3> QED BY <2>4, <2>5, <3>2, <3>3, <3>4, <3>5
    <2>8. CASE UNCHANGED vars
      <3>1. pc = "asm" /\ objFiles' = objFiles /\ queue' = queue BY <1>6, <2>8 DEF vars
      <3> QED BY <2>4, <3>1 DEF ObjInv, CMade
    <2> QED BY <2>2, <2>6, <2>7, <2>8
  <1>7. CASE pc' \notin {"filter", "prepare", "cover", "cgo", "cc", "nogo", "imports", "embed", "symabis", "compile", "asm"}
    BY <1>7 DEF ObjInv
  <1> QED BY <1>3, <1>4, <1>5, <1>6, <1>7

-----------------------------------------------------------------------------
(* Imports *)

\* A set of places in a list has a first and a last one.
LEMMA FirstLast ==
    ASSUME NEW N \in Nat, NEW S, S \subseteq 1..N, S # {}
    PROVE  (\E m \in S : \A n \in S : m <= n) /\ (\E m \in S : \A n \in S : n <= m)
  <1> DEFINE R == OpToRel(<, Nat)
             T == {N - n : n \in S}
  <1>1. IsWellFoundedOn(R, Nat) BY NatLessThanWellFounded
  <1>2. S \subseteq Nat OBVIOUS
  <1>3. T \subseteq Nat /\ T # {}
    <2>1. \A n \in S : N - n \in Nat OBVIOUS
    <2>2. T # {} OBVIOUS
    <2> QED BY <2>1, <2>2
  <1>4. \E x \in S : \A y \in S : ~(<<y, x>> \in R)
    <2> HIDE DEF R
    <2> QED BY <1>1, <1>2, WFMin
  <1>5. \E x \in T : \A y \in T : ~(<<y, x>> \in R)
    <2> HIDE DEF R, T
    <2> QED BY <1>1, <1>3, WFMin
  <1>6. \A x, y \in Nat : ~(<<y, x>> \in R) => x <= y BY DEF OpToRel
  <1>7. PICK x \in T : \A y \in T : ~(<<y, x>> \in R) BY <1>5
  <1>8. PICK m \in S : x = N - m OBVIOUS
  <1> HIDE DEF R
  <1>9. \A n \in S : n <= m
    <2> TAKE n \in S
    <2>1. N - n \in T /\ N - n \in Nat /\ x \in Nat OBVIOUS
    <2>2. x <= N - n BY <1>6, <1>7, <2>1
    <2>3. n \in Nat /\ m \in Nat OBVIOUS
    <2> QED BY <1>8, <2>2, <2>3
  <1> QED BY <1>2, <1>4, <1>6, <1>9

\* An import that is known resolves to the standard library or to a dependency of that import
\* path, or of that alias if there is none of that path.
Resolves(archives, p, a) ==
    IF p \in Std THEN a = Nil
    ELSE \E n \in DOMAIN archives :
            /\ a = archives[n]
            /\ p = archives[n].importPath \/ (p \in archives[n].aliases /\ Named(archives, p) = {})

\* That is how checkImports resolves an import that it knows.
LEMMA ResolveFacts ==
    ASSUME NEW archives, IsSeq(archives), NEW p, Known(archives, p)
    PROVE  Resolves(archives, p, ResolveImport(archives, p))
  <1>1. DOMAIN archives = 1..Len(archives) /\ Len(archives) \in Nat BY SeqFacts
  <1>2. ASSUME NEW S, S \subseteq DOMAIN archives, S # {}
        PROVE  \E n \in S : LastOf(archives, S) = archives[n]
    <2>1. \E m \in S : \A n \in S : n <= m BY <1>1, <1>2, FirstLast
    <2> DEFINE m == CHOOSE n \in S : \A k \in S : k <= n
    <2>2. m \in S BY <2>1
    <2> QED BY <2>2 DEF LastOf
  <1>3. CASE p \in Std BY <1>3 DEF Resolves, ResolveImport
  <1>4. CASE p \notin Std /\ Named(archives, p) # {}
    <2>1. PICK n \in Named(archives, p) : LastOf(archives, Named(archives, p)) = archives[n]
      BY <1>2, <1>4 DEF Named
    <2> QED BY <1>4, <2>1 DEF Resolves, ResolveImport, Named
  <1>5. CASE p \notin Std /\ Named(archives, p) = {}
    <2>1. Aliased(archives, p) # {} BY <1>5 DEF Known
    <2>2. PICK n \in Aliased(archives, p) : LastOf(archives, Aliased(archives, p)) = archives[n]
      BY <1>2, <2>1 DEF Aliased
    <2> QED BY <1>5, <2>2 DEF Resolves, ResolveImport, Aliased
  <1> QED BY <1>3, <1>4, <1>5

\* What the imports of the sources and those added to them resolve to.
LEMMA AddedFacts ==
    ASSUME PkgInv, NEW imports, \A p \in DOMAIN imports : Resolves(pkg.deps, p, imports[p])
    PROVE  LET a == AddedImports(imports) IN
           /\ \A p \in DOMAIN a : Resolves(pkg.deps, p, a[p])
           /\ DOMAIN imports \subseteq DOMAIN a
           /\ compilingWithCgo => CgoImported \subseteq DOMAIN a
           /\ pkg.coverMode => CoverImported \subseteq DOMAIN a /\ Coverdata.importPath \in DOMAIN a
  <1> DEFINE std == (IF compilingWithCgo THEN CgoImported ELSE {}) \cup (IF pkg.coverMode THEN CoverImported ELSE {})
             own == IF pkg.coverMode THEN {Coverdata.importPath} ELSE {}
             First(p) == CHOOSE n \in Named(pkg.deps, p) : \A m \in Named(pkg.deps, p) : n <= m
             a == AddedImports(imports)
  <1>1. /\ DOMAIN a = DOMAIN imports \cup std \cup own
        /\ \A p \in DOMAIN a : a[p] = IF p \in own THEN pkg.deps[First(p)] ELSE IF p \in std THEN Nil ELSE imports[p]
    BY DEF AddedImports
  <1>2. std \subseteq Std BY AddedAssumption
  <1>3. \A p \in own : p \notin Std BY CoverdataAssumption
  <1>4. IsSeq(pkg.deps) BY PkgFacts
  <1>5. DOMAIN pkg.deps = 1..Len(pkg.deps) /\ Len(pkg.deps) \in Nat BY <1>4, SeqFacts
  <1>6. ASSUME NEW p \in own PROVE First(p) \in DOMAIN pkg.deps /\ pkg.deps[First(p)].importPath = p
    <2> DEFINE S == Named(pkg.deps, p)
    <2>1. pkg.coverMode /\ p = Coverdata.importPath BY <1>6
    <2>2. Coverdata \in Range(pkg.deps) BY <2>1, PkgFacts
    <2>3. S # {} BY <2>1, <2>2 DEF Named, Range
    <2>4. S \subseteq 1..Len(pkg.deps) BY <1>5 DEF Named
    <2> HIDE DEF S
    <2>5. \E n \in S : \A m \in S : n <= m BY <1>5, <2>3, <2>4, FirstLast
    <2>6. First(p) \in S BY <2>5 DEF S
    <2> HIDE DEF First
    <2> QED BY <2>6 DEF S, Named
  <1> HIDE DEF a, std, own, First
  <1>7. \A p \in DOMAIN a : Resolves(pkg.deps, p, a[p])
    <2> TAKE p \in DOMAIN a
    <2>1. CASE p \in own BY <1>1, <1>3, <1>6, <2>1 DEF Resolves
    <2>2. CASE p \notin own /\ p \in std BY <1>1, <1>2, <2>2 DEF Resolves
    <2>3. CASE p \notin own /\ p \notin std BY <1>1, <2>3
    <2> QED BY <2>1, <2>2, <2>3
  <1>8. /\ compilingWithCgo => CgoImported \subseteq DOMAIN a
        /\ pkg.coverMode => CoverImported \subseteq DOMAIN a /\ Coverdata.importPath \in DOMAIN a
    BY <1>1 DEF std, own
  <1> QED BY <1>1, <1>7, <1>8 DEF a

\* What the compiler finds in the importcfg file for an import that is resolved.
LEMMA ImportcfgFacts ==
    ASSUME PkgInv, NEW a, \A p \in DOMAIN a : Resolves(pkg.deps, p, a[p]), NEW p \in DOMAIN a,
           NEW cfg, cfg = buildImportcfgFileForCompile(a)
    PROVE  /\ p \in Std => FilesOf(cfg, Mapped(cfg, p)) = {StdFile(p)}
           /\ p \notin Std => FilesOf(cfg, Mapped(cfg, p)) = {a[p].file} /\ a[p] # Nil
  <1> DEFINE std == {q \in DOMAIN a : a[q] = Nil}
             own == DOMAIN a \ std
  <1>1. cfg = {PackageFile(q, StdFile(q)) : q \in std}
              \cup {ImportMap(q, a[q].packagePath) : q \in {r \in own : a[r].packagePath # r}}
              \cup {PackageFile(a[q].packagePath, a[q].file) : q \in own}
    BY DEF buildImportcfgFileForCompile
  <1>2. \A n \in DOMAIN pkg.deps : pkg.deps[n] \in Range(pkg.deps) BY DEF Range
  <1>3. \A q \in DOMAIN a : (q \in std <=> q \in Std) /\ (q \in own => a[q] \in Range(pkg.deps))
    <2> TAKE q \in DOMAIN a
    <2>1. Resolves(pkg.deps, q, a[q]) OBVIOUS
    <2>2. CASE q \in Std BY <2>1, <2>2 DEF Resolves
    <2>3. CASE q \notin Std
      <3>1. a[q] \in Range(pkg.deps) BY <1>2, <2>1, <2>3 DEF Resolves
      <3>2. a[q] # Nil BY <3>1, PkgFacts
      <3> QED BY <2>3, <3>1, <3>2
    <2> QED BY <2>2, <2>3
  <1>4. \A q, r \in own : /\ a[q].packagePath \notin Std
                          /\ a[q].packagePath = a[r].packagePath => a[q].file = a[r].file
    <2> TAKE q, r \in own
    <2>1. a[q] \in Range(pkg.deps) /\ a[r] \in Range(pkg.deps) BY <1>3
    <2> QED BY <2>1, PkgFacts
  <1> HIDE DEF std, own
  <1>5. \A q, f : PackageFile(q, f).verb = "packagefile" /\ PackageFile(q, f).path = q /\ PackageFile(q, f).to = f
    BY DEF PackageFile
  <1>6. \A q, f : ImportMap(q, f).verb = "importmap" /\ ImportMap(q, f).path = q /\ ImportMap(q, f).to = f
    BY DEF ImportMap
  <1>7. \A l \in cfg : l.verb = "importmap" /\ l.path = p =>
           p \in own /\ a[p].packagePath # p /\ l.to = a[p].packagePath
    BY <1>1, <1>5, <1>6
  <1>8. p \in own /\ a[p].packagePath # p => \E l \in cfg : l.verb = "importmap" /\ l.path = p
    BY <1>1, <1>6
  <1>9. Mapped(cfg, p) = IF p \in own THEN a[p].packagePath ELSE p
    <2>1. CASE \E l \in cfg : l.verb = "importmap" /\ l.path = p
      <3> DEFINE m == CHOOSE l \in cfg : l.verb = "importmap" /\ l.path = p
      <3>1. m \in cfg /\ m.verb = "importmap" /\ m.path = p BY <2>1
      <3>2. Mapped(cfg, p) = m.to BY <2>1 DEF Mapped
      <3> HIDE DEF m
      <3> QED BY <1>7, <3>1, <3>2
    <2>2. CASE ~\E l \in cfg : l.verb = "importmap" /\ l.path = p
      <3>1. Mapped(cfg, p) = p BY <2>2 DEF Mapped
      <3> QED BY <1>8, <2>2, <3>1
    <2> QED BY <2>1, <2>2
  <1>10. \A pp : \A l \in cfg : l.verb = "packagefile" /\ l.path = pp =>
            (pp \in std /\ l.to = StdFile(pp)) \/ \E q \in own : a[q].packagePath = pp /\ l.to = a[q].file
    BY <1>1, <1>5, <1>6
  <1>11. CASE p \in Std
    <2>1. p \in std /\ p \notin own /\ Mapped(cfg, p) = p BY <1>3, <1>9, <1>11 DEF own
    <2>2. PackageFile(p, StdFile(p)) \in cfg BY <1>1, <2>1
    <2>3. \A l \in cfg : l.verb = "packagefile" /\ l.path = p => l.to = StdFile(p) BY <1>4, <1>10, <1>11
    <2>4. FilesOf(cfg, p) = {StdFile(p)} BY <1>5, <2>2, <2>3 DEF FilesOf
    <2> QED BY <1>11, <2>1, <2>4
  <1>12. CASE p \notin Std
    <2> DEFINE pp == a[p].packagePath
    <2>1. p \in own /\ p \notin std BY <1>3, <1>12 DEF own
    <2>2. Mapped(cfg, p) = pp BY <1>9, <2>1
    <2>3. PackageFile(pp, a[p].file) \in cfg BY <1>1, <2>1
    <2>4. pp \notin std BY <1>3, <1>4, <2>1 DEF std
    <2>5. \A l \in cfg : l.verb = "packagefile" /\ l.path = pp => l.to = a[p].file BY <1>4, <1>10, <2>1, <2>4
    <2>6. FilesOf(cfg, pp) = {a[p].file}
      <3> HIDE DEF pp
      <3> QED BY <1>5, <2>3, <2>5 DEF FilesOf
    <2>7. a[p] # Nil BY <2>1 DEF own, std
    <2> QED BY <1>12, <2>2, <2>6, <2>7
  <1> QED BY <1>11, <1>12

\* What is added to the imports depends on the package and on whether it uses cgo only.
LEMMA SameAdded ==
    pkg' = pkg /\ (compilingWithCgo' <=> compilingWithCgo) => \A i : AddedImports(i)' = AddedImports(i)
  <1> SUFFICES ASSUME pkg' = pkg, compilingWithCgo' <=> compilingWithCgo, NEW i
               PROVE  AddedImports(i)' = AddedImports(i)
    OBVIOUS
  <1> HIDE DEF compilingWithCgo
  <1> QED BY DEF AddedImports

\* What the builder has resolved stays resolved.
LEMMA SameResolved ==
    pkg' = pkg /\ (compilingWithCgo' <=> compilingWithCgo) /\ importcfg' = importcfg /\ importsFile' = importsFile
    /\ Resolved => Resolved'
  <1> SUFFICES ASSUME pkg' = pkg, compilingWithCgo' <=> compilingWithCgo, importcfg' = importcfg,
                      importsFile' = importsFile, Resolved
               PROVE  Resolved'
    OBVIOUS
  <1>1. \A i : AddedImports(i)' = AddedImports(i) BY SameAdded
  <1>2. GoSources' = GoSources BY SamePkg
  <1> QED BY <1>1, <1>2 DEF Resolved

\* From the check of the imports to the compiler the two files stay what they are.
LEMMA ImportsStep ==
    PkgInv /\ FilterInv /\ NogoListInv /\ ImportsInv /\ [Next]_vars => ImportsInv'
  <1> SUFFICES ASSUME PkgInv, FilterInv, NogoListInv, ImportsInv, [Next]_vars,
                      pc' \in {"embed", "symabis", "compile", "asm"}
               PROVE  Resolved'
    BY DEF ImportsInv
  <1>1. pkg' = pkg BY PkgStep
  <1>2. GoSources' = GoSources BY <1>1, SamePkg
  <1>3. CASE Imports
    <2>1. pc = "imports" /\ srcs' = srcs /\ cgoSrcs' = cgoSrcs BY <1>3 DEF Imports
    <2>2. Range(srcs["go"]) = GoSources BY <2>1 DEF FilterInv
    <2>3. \A i : AddedImports(i)' = AddedImports(i) BY <1>1, <2>1, SameCgo, SameAdded
    <2> DEFINE checked == checkImports(UNION {ImportsOf(f) : f \in GoSources}, pkg.deps, pkg.recompile)
    <2>4. /\ checked.err = "none"
          /\ importcfg' = buildImportcfgFileForCompile(AddedImports(checked.imports))
          /\ importsFile' = writeImports(AddedImports(checked.imports))
      BY <1>3, <2>2 DEF Imports, EndWith, EndFrom
    <2>5. checked' = checked BY <1>1, <1>2
    <2> QED BY <1>1, <1>2, <2>3, <2>4 DEF Resolved
  <1>4. CASE Embed \/ Symabis \/ Compile \/ Assemble \/ UNCHANGED vars
    <2>1. /\ pc \in {"embed", "symabis", "compile", "asm"} /\ importcfg' = importcfg /\ importsFile' = importsFile
          /\ srcs' = srcs /\ cgoSrcs' = cgoSrcs
      BY <1>4 DEF Embed, Symabis, Compile, Assemble, vars
    <2>2. compilingWithCgo' <=> compilingWithCgo BY <1>1, <2>1, SameCgo
    <2> QED BY <1>1, <2>1, <2>2, SameResolved DEF ImportsInv
  <1> QED BY <1>3, <1>4, Steps

\* Only the compiler makes the archive, and the assembler does not touch it.
LEMMA ArchiveStep ==
    PkgInv /\ GoInv /\ ArchiveInv /\ OutputsInv /\ [Next]_vars => ArchiveInv'
  <1> SUFFICES ASSUME PkgInv, GoInv, ArchiveInv, OutputsInv, [Next]_vars PROVE ArchiveInv'
    OBVIOUS
  <1>1. pkg' = pkg BY PkgStep
  <1>2. All' = All /\ \A hs, X : Exactly(hs, X)' <=> Exactly(hs, X) BY <1>1, SameHeld
  <1>3. pc' \notin {"asm", "done"} => archive' = archive /\ pc \notin {"asm", "done"}
    BY DEF Next, vars, Filter, Prepare, Cover, NoCgo, NoCompiler, COnly, Cgo, CompileC, CgoLink, CDone, Nogo,
       Imports, Embed, Symabis, SymabisFails, Compile, Assemble, Pack, GoTo, EndWith, EndFrom
  <1>4. ASSUME pc' = "asm"
        PROVE  /\ archive' = [go |-> archive'.go, objs |-> <<>>] /\ goSrcs' # <<>>
               /\ IsSeq(archive'.go) /\ Exactly(archive'.go, All')
    <2>1. CASE Compile
      <3>1. /\ goSrcs # <<>> /\ goSrcs' = goSrcs /\ pc = "compile"
            /\ archive' = [go |-> HeldBy(work, goSrcs), objs |-> <<>>]
        BY <1>4, <2>1 DEF Compile, EndWith, EndFrom
      <3>2. IsSeq(goSrcs) /\ Exactly(HeldBy(work, goSrcs), All) BY <3>1 DEF GoInv, Listing
      <3>3. IsSeq(HeldBy(work, goSrcs)) BY <3>2, HeldByConcat
      <3> HIDE DEF HeldBy
      <3> QED BY <1>2, <3>1, <3>2, <3>3
    <2>2. CASE Assemble \/ UNCHANGED vars
      <3>1. pc = "asm" /\ archive' = archive /\ goSrcs' = goSrcs BY <1>4, <2>2 DEF Assemble, vars
      <3> QED BY <1>2, <3>1 DEF ArchiveInv
    <2> QED BY <1>4, <2>1, <2>2, Steps
  <1>5. CASE pc' # "asm"
    <2>1. pc' # "done" => archive' = Nil BY <1>3, <1>5 DEF ArchiveInv
    <2> QED BY <1>5, <2>1 DEF ArchiveInv
  <1>6. CASE pc' = "asm"
    <2>1. /\ archive' = [go |-> archive'.go, objs |-> <<>>] /\ goSrcs' # <<>>
          /\ IsSeq(archive'.go) /\ Exactly(archive'.go, All)
      BY <1>2, <1>4, <1>6
    <2> QED BY <1>2, <1>6, <2>1 DEF ArchiveInv
  <1> QED BY <1>5, <1>6

\* Imports that pass the check are all resolved.
LEMMA CheckFacts ==
    ASSUME NEW imported, NEW archives, IsSeq(archives), NEW recompiled,
           checkImports(imported, archives, recompiled).err = "none"
    PROVE  LET imports == checkImports(imported, archives, recompiled).imports IN
           /\ DOMAIN imports = imported \ ({"C"} \cup IsRelative)
           /\ \A p \in DOMAIN imports : Resolves(archives, p, imports[p])
  <1> DEFINE paths == imported \ ({"C"} \cup IsRelative)
             found == {p \in paths : Known(archives, p)}
             checked == checkImports(imported, archives, recompiled)
  <1>1. /\ checked.err = IF paths \cap recompiled # {} THEN "cycle"
                         ELSE IF found # paths THEN "missing" ELSE "none"
        /\ checked.imports = [p \in found |-> ResolveImport(archives, p)]
    BY DEF checkImports
  <1>2. checked.err = "none" OBVIOUS
  <1> HIDE DEF checked
  <1>3. found = paths BY <1>1, <1>2
  <1>4. \A p \in found : Resolves(archives, p, ResolveImport(archives, p)) BY ResolveFacts
  <1>5. DOMAIN checked.imports = paths /\ \A p \in paths : checked.imports[p] = ResolveImport(archives, p)
    BY <1>1, <1>3
  <1> QED BY <1>3, <1>4, <1>5 DEF checked

\* What a file imports, after all that was done to it, is resolved.
LEMMA NeededFacts ==
    ASSUME PkgInv, FilterInv, NogoListInv, pc \notin {"filter", "prepare", "done"},
           NEW D, (UNION {ImportsOf(f) : f \in GoSources}) \ ({"C"} \cup IsRelative) \subseteq D,
           compilingWithCgo => CgoImported \subseteq D,
           pkg.coverMode => CoverImported \subseteq D /\ Coverdata.importPath \in D,
           NEW held, held \in All \/ Own(held)
    PROVE  Needed(held) \subseteq D
  <1> DEFINE files == {g \in Sources("go") : g.name = held.src}
             own == UNION {ImportsOf(f) : f \in files}
             Others == (IF "cover" \in held.marks THEN {"sync/atomic", Coverdata.importPath} ELSE {})
                     \cup (IF "cgo" \in held.marks THEN {"runtime/cgo", "syscall", "unsafe"} ELSE {})
                     \cup (IF held = Generated("covervars") THEN {"runtime/coverage"} ELSE {})
  <1>1. Needed(held) = (own \ ({"C"} \cup IsRelative)) \cup Others BY DEF Needed
  <1>2. \A f \in GoSources : f \in GivenFiles /\ f \in Sources("go") BY SourceFacts
  <1>3. Sources("go") \subseteq GivenFiles BY SourceFacts
  <1>4. Generated("covervars").src.dir = "none" BY DEF Generated
  <1>5. CASE held \in All
    <2>1. PICK f \in GoSources : held = Holds(f, Marks(f)) BY <1>5 DEF All
    <2>2. held.src = f.name /\ held.marks = Marks(f) BY <2>1 DEF Holds
    <2>3. files = {f} BY <1>2, <1>3, <2>2, FileFacts
    <2>4. own = ImportsOf(f) BY <2>3
    <2>5. held # Generated("covervars")
      <3>1. f.name.dir # "none" BY <1>2, FileFacts DEF OwnDirs
      <3> QED BY <1>4, <2>2, <3>1
    <2>6. "cover" \in Marks(f) => pkg.coverMode BY PkgFacts DEF Marks
    <2>7. "cgo" \in Marks(f) => compilingWithCgo
      <3> SUFFICES ASSUME "cgo" \in Marks(f) PROVE compilingWithCgo
        OBVIOUS
      <3>1. isCgo(f) BY DEF Marks
      <3>2. pkg.cgoEnabled BY <3>1 DEF GoSources
      <3>3. UsesC BY <3>1 DEF UsesC
      <3> QED BY <3>2, <3>3, HaveCgo
    <2>8. Others \subseteq D BY <2>2, <2>5, <2>6, <2>7 DEF CgoImported, CoverImported
    <2> DEFINE U == UNION {ImportsOf(g) : g \in GoSources}
               No == {"C"} \cup IsRelative
    <2>9. own \subseteq U BY <2>4
    <2>10. U \ No \subseteq D OBVIOUS
    <2>11. Needed(held) = (own \ No) \cup Others BY <1>1
    <2> HIDE DEF own, Others, U, No
    <2> QED BY <2>8, <2>9, <2>10, <2>11
  <1>6. CASE Own(held)
    <2>1. held.src.dir = "none" /\ held.marks = {} /\ (held = Generated("covervars") => pkg.coverMode)
      BY <1>6 DEF Own
    <2>2. files = {}
      <3>1. \A g \in GivenFiles : g.name.dir # "none" BY FileFacts DEF OwnDirs
      <3> QED BY <1>3, <2>1, <3>1
    <2>3. own = {} BY <2>2
    <2>4. Others \subseteq D BY <2>1 DEF CoverImported
    <2> HIDE DEF own, Others
    <2> QED BY <1>1, <2>3, <2>4
  <1> QED BY <1>5, <1>6

\* The importcfg file and the imports file name the package that p stands for.
Found(cfg, file, p) ==
    IF p \in Std THEN FilesOf(cfg, Mapped(cfg, p)) = {StdFile(p)}
    ELSE \E n \in DOMAIN pkg.deps :
            /\ p = pkg.deps[n].importPath \/ (p \in pkg.deps[n].aliases /\ Named(pkg.deps, p) = {})
            /\ FilesOf(cfg, Mapped(cfg, p)) = {pkg.deps[n].file}
            /\ pkg.deps[n].packagePath \in file

\* Every import of what the compiler is given is found.
LEMMA CoveredFacts ==
    ASSUME PkgInv, FilterInv, NogoListInv, pc \notin {"filter", "prepare", "done"}, Resolved,
           NEW held, held \in All \/ Own(held), NEW p \in Needed(held)
    PROVE  Found(importcfg, importsFile, p)
  <1> DEFINE imported == UNION {ImportsOf(f) : f \in GoSources}
  <1>1. PICK checked : /\ checked = checkImports(imported, pkg.deps, pkg.recompile)
                       /\ checked.err = "none"
                       /\ importcfg = buildImportcfgFileForCompile(AddedImports(checked.imports))
                       /\ importsFile = writeImports(AddedImports(checked.imports))
    BY DEF Resolved
  <1>2. IsSeq(pkg.deps) BY PkgFacts
  <1>3. /\ DOMAIN checked.imports = imported \ ({"C"} \cup IsRelative)
        /\ \A q \in DOMAIN checked.imports : Resolves(pkg.deps, q, checked.imports[q])
    <2> HIDE DEF imported
    <2> QED BY <1>1, <1>2, CheckFacts
  <1> DEFINE i == checked.imports
             a == AddedImports(i)
  <1>4. \A q \in DOMAIN i : Resolves(pkg.deps, q, i[q]) BY <1>3
  <1>5. /\ \A q \in DOMAIN a : Resolves(pkg.deps, q, a[q])
        /\ DOMAIN i \subseteq DOMAIN a
        /\ compilingWithCgo => CgoImported \subseteq DOMAIN a
        /\ pkg.coverMode => CoverImported \subseteq DOMAIN a /\ Coverdata.importPath \in DOMAIN a
    <2> HIDE DEF i
    <2> QED BY <1>4, AddedFacts
  <1>6. importcfg = buildImportcfgFileForCompile(a) /\ importsFile = writeImports(a) BY <1>1
  <1>7. imported \ ({"C"} \cup IsRelative) \subseteq DOMAIN a BY <1>3, <1>5
  <1> HIDE DEF a, i
  <1>8. Needed(held) \subseteq DOMAIN a
    <2> DEFINE D == DOMAIN a
    <2>1. (UNION {ImportsOf(f) : f \in GoSources}) \ ({"C"} \cup IsRelative) \subseteq D BY <1>7
    <2>2. compilingWithCgo => CgoImported \subseteq D BY <1>5
    <2>3. pkg.coverMode => CoverImported \subseteq D /\ Coverdata.importPath \in D BY <1>5
    <2> HIDE DEF D, imported
    <2>4. Needed(held) \subseteq D BY <2>1, <2>2, <2>3, NeededFacts
    <2> QED BY <2>4 DEF D
  <1>9. p \in DOMAIN a BY <1>8
  <1>10. /\ p \in Std => FilesOf(importcfg, Mapped(importcfg, p)) = {StdFile(p)}
         /\ p \notin Std => FilesOf(importcfg, Mapped(importcfg, p)) = {a[p].file} /\ a[p] # Nil
    BY <1>5, <1>6, <1>9, ImportcfgFacts
  <1>11. p \notin Std => a[p].packagePath \in importsFile BY <1>6, <1>9, <1>10 DEF writeImports
  <1>12. p \notin Std => \E n \in DOMAIN pkg.deps :
            /\ a[p] = pkg.deps[n]
            /\ p = pkg.deps[n].importPath \/ (p \in pkg.deps[n].aliases /\ Named(pkg.deps, p) = {})
    BY <1>5, <1>9 DEF Resolves
  <1> QED BY <1>10, <1>11, <1>12 DEF Found

\* The property, in the terms of Found.
LEMMA FoundFacts ==
    /\ ImportsCovered =>
          (archive # Nil => \A held \in Range(archive.go) : \A p \in Needed(held) : Found(importcfg, importsFile, p))
    /\ pkg' = pkg
       /\ (archive' # Nil => \A held \in Range(archive'.go) : \A p \in Needed(held) :
                                Found(importcfg', importsFile', p))
       => ImportsCovered'
  <1>1. ASSUME pkg' = pkg PROVE \A held : Needed(held)' = Needed(held)
    <2>1. Sources("go")' = Sources("go") BY <1>1, SamePkg
    <2> QED BY <2>1 DEF Needed
  <1>2. ASSUME pkg' = pkg,
               archive' # Nil => \A held \in Range(archive'.go) : \A p \in Needed(held) :
                                    Found(importcfg', importsFile', p)
        PROVE  ImportsCovered'
    <2> HIDE DEF Needed
    <2> QED BY <1>1, <1>2 DEF ImportsCovered, Found
  <1>3. ImportsCovered =>
          (archive # Nil => \A held \in Range(archive.go) : \A p \in Needed(held) : Found(importcfg, importsFile, p))
    BY DEF ImportsCovered, Found
  <1> QED BY <1>2, <1>3

\* What the compiler was given stays covered by the two files.
LEMMA CoveredStep ==
    /\ PkgInv /\ FilterInv /\ NogoListInv /\ GoInv /\ ImportsInv /\ ArchiveInv /\ ImportsCovered
    /\ [Next]_vars
    => ImportsCovered'
  <1> SUFFICES ASSUME PkgInv, FilterInv, NogoListInv, GoInv, ImportsInv, ArchiveInv, ImportsCovered, [Next]_vars
               PROVE  ImportsCovered'
    OBVIOUS
  <1>1. pkg' = pkg BY PkgStep
  <1>2. SUFFICES \A held \in Range(archive'.go) : archive' # Nil =>
                   \A p \in Needed(held) : Found(importcfg', importsFile', p)
    BY <1>1, FoundFacts
  <1>5. /\ archive # Nil => importcfg' = importcfg /\ importsFile' = importsFile
        /\ archive' = archive \/ Compile \/ Pack
    BY DEF Next, vars, Filter, Prepare, Cover, NoCgo, NoCompiler, COnly, Cgo, CompileC, CgoLink, CDone, Nogo,
       Imports, Embed, Symabis, Compile, Assemble, Pack, ArchiveInv
  <1>6. CASE archive' = archive
    BY <1>5, <1>6, FoundFacts
  <1>7. CASE Compile /\ archive' # archive
    <2>1. /\ pc = "compile" /\ goSrcs # <<>> /\ archive' = [go |-> HeldBy(work, goSrcs), objs |-> <<>>]
          /\ importcfg' = importcfg /\ importsFile' = importsFile
      BY <1>7 DEF Compile
    <2>2. Resolved BY <2>1 DEF ImportsInv
    <2>3. Exactly(HeldBy(work, goSrcs), All) BY <2>1 DEF GoInv, Listing
    <2>4. \A held \in Range(HeldBy(work, goSrcs)) : held \in All \/ Own(held) BY <2>3 DEF Exactly, Range
    <2> HIDE DEF HeldBy
    <2> QED BY <2>1, <2>2, <2>4, CoveredFacts
  <1>8. CASE Pack /\ archive' # archive
    <2>1. /\ pc = "asm" /\ archive' = [archive EXCEPT !.objs = objFiles \o Syso]
          /\ importcfg' = importcfg /\ importsFile' = importsFile
      BY <1>8 DEF Pack
    <2>2. archive = [go |-> archive.go, objs |-> <<>>] /\ Exactly(archive.go, All) BY <2>1 DEF ArchiveInv
    <2>3. archive'.go = archive.go BY <2>1, <2>2
    <2>4. Resolved BY <2>1 DEF ImportsInv
    <2>5. \A held \in Range(archive.go) : held \in All \/ Own(held) BY <2>2 DEF Exactly, Range
    <2> QED BY <2>1, <2>3, <2>4, <2>5, CoveredFacts
  <1> QED BY <1>5, <1>6, <1>7, <1>8

\* Only the last step ends in success.
LEMMA OkStep == OutputsInv /\ [Next]_vars /\ result' = "ok" => (Pack /\ result # "ok") \/ UNCHANGED vars
  <1> SUFFICES ASSUME OutputsInv, [Next]_vars, result' = "ok", ~UNCHANGED vars PROVE Pack /\ result # "ok"
    OBVIOUS
  <1>1. pc # "done" BY PcStep
  <1>2. result # "ok" BY <1>1 DEF OutputsInv
  <1> USE <1>2 DEF EndWith, EndFrom, GoTo
  <1>3. ~Filter BY DEF Filter
  <1>4. ~Prepare BY DEF Prepare
  <1>5. ~Cover BY DEF Cover
  <1>6. ~NoCgo /\ ~NoCompiler /\ ~COnly BY DEF NoCgo, NoCompiler, COnly
  <1>7. ~Cgo BY DEF Cgo
  <1>8. ~CompileC /\ ~CgoLink /\ ~CDone /\ ~Nogo BY DEF CompileC, CgoLink, CDone, Nogo
  <1>9. ~Imports BY ErrorNotOk DEF Imports
  <1>10. ~Embed /\ ~Symabis BY DEF Embed, Symabis, SymabisFails
  <1>11. ~Compile /\ ~Assemble BY DEF Compile, Assemble
  <1> QED BY <1>3, <1>4, <1>5, <1>6, <1>7, <1>8, <1>9, <1>10, <1>11 DEF Next

\* The two clauses of the property about the objects of an archive.
WithCgo(objs) ==
    /\ \A f \in CSources : Once(objs, [held |-> Holds(f, {}), by |-> "cc"])
    /\ \A f \in Sources("s") : Once(objs, [held |-> Holds(f, {}), by |-> IF UsesC THEN "cc" ELSE "asm"])
WithoutCgo(objs) ==
    /\ \A n \in DOMAIN objs : objs[n].by # "cc"
    /\ \A f \in Sources("s") :
          IF CSources # {} \/ \E g \in GivenFiles : isCgo(g) THEN AsmObj(f) \notin Range(objs)
          ELSE Once(objs, AsmObj(f))

\* The resource files are no objects of the C compiler nor of the assembler.
LEMMA SysoFacts ==
    ASSUME FilterInv, pc \notin {"filter", "done"}
    PROVE  IsSeq(Syso) /\ \A n \in DOMAIN Syso : Syso[n].by = "none"
  <1>1. IsSeq(srcs["syso"]) BY DEF FilterInv, Exts
  <1>2. DOMAIN srcs["syso"] = 1..Len(srcs["syso"]) /\ Len(srcs["syso"]) \in Nat BY <1>1, SeqFacts
  <1>3. DOMAIN Syso = 1..Len(srcs["syso"]) /\ \A n \in DOMAIN Syso : Syso[n].by = "none" BY <1>2 DEF Syso
  <1>4. Syso \in Seq(Range(Syso)) BY <1>2, <1>3 DEF Range, Syso
  <1> QED BY <1>3, <1>4, SeqIsSeq

\* What is once among the objects is once in the archive, and what is not is not.
LEMMA WithSyso ==
    ASSUME FilterInv, pc \notin {"filter", "done"}, NEW s, IsSeq(s)
    PROVE  /\ \A x : x.by # "none" /\ JustOnce(s, x) => Once(s \o Syso, x)
           /\ \A n \in DOMAIN (s \o Syso) : (s \o Syso)[n].by = "none" \/ (s \o Syso)[n] \in Range(s)
  <1>1. IsSeq(Syso) /\ \A n \in DOMAIN Syso : Syso[n].by = "none" BY SysoFacts
  <1>2. \A y \in Range(Syso) : y.by = "none" BY <1>1 DEF Range
  <1> HIDE DEF Syso
  <1>3. ASSUME NEW x, x.by # "none", JustOnce(s, x) PROVE Once(s \o Syso, x)
    <2>1. x \notin Range(Syso) BY <1>2, <1>3
    <2>2. JustOnce(s \o Syso, x) BY <1>1, <1>3, <2>1, OnceConcat
    <2> QED BY <2>2, OnceFacts
  <1>4. Joined(s, Syso, s \o Syso) BY <1>1, ConcatFacts
  <1>5. \A n \in DOMAIN (s \o Syso) : (s \o Syso)[n] \in Range(s) \cup Range(Syso)
    <2> DEFINE c == s \o Syso
    <2>1. Range(c) = Range(s) \cup Range(Syso) BY <1>4 DEF Joined
    <2>2. \A n \in DOMAIN c : c[n] \in Range(c) BY DEF Range
    <2> QED BY <2>1, <2>2
  <1> QED BY <1>2, <1>3, <1>5

\* The objects that are packed.
LEMMA PackObjects ==
    ASSUME PkgInv, FilterInv, NogoListInv, ObjInv, pc = "asm", queue = <<>>
    PROVE  /\ pkg.cgoEnabled => WithCgo(objFiles \o Syso)
           /\ ~pkg.cgoEnabled => WithoutCgo(objFiles \o Syso)
  <1> DEFINE objs == objFiles \o Syso
  <1>1. /\ IsSeq(objFiles)
        /\ compilingWithCgo => CMade
        /\ ~compilingWithCgo /\ haveCgo => objFiles = <<>>
        /\ ~haveCgo => /\ \A f \in AsmFiles : JustOnce(objFiles \o Assembled(queue), AsmObj(f))
                       /\ \A n \in DOMAIN (objFiles \o Assembled(queue)) :
                             \E f \in AsmFiles : (objFiles \o Assembled(queue))[n] = AsmObj(f)
    BY DEF ObjInv
  <1>2. objFiles \o Assembled(queue) = objFiles BY <1>1, EmptyList
  <1>3. ~haveCgo => /\ \A f \in AsmFiles : JustOnce(objFiles, AsmObj(f))
                    /\ \A n \in DOMAIN objFiles : \E f \in AsmFiles : objFiles[n] = AsmObj(f)
    BY <1>1, <1>2
  <1>4. (haveCgo <=> UsesC) /\ (compilingWithCgo <=> UsesC /\ pkg.cgoEnabled) BY HaveCgo
  <1>5. /\ \A x : x.by # "none" /\ JustOnce(objFiles, x) => Once(objs, x)
        /\ \A n \in DOMAIN objs : objs[n].by = "none" \/ objs[n] \in Range(objFiles)
    BY <1>1, WithSyso
  <1>6. \A f : /\ CObj(f).by = "cc" /\ AsmObj(f).by = "asm"
               /\ CObj(f) = [held |-> Holds(f, {}), by |-> "cc"]
               /\ AsmObj(f) = [held |-> Holds(f, {}), by |-> "asm"]
    BY DEF CObj, AsmObj
  <1>7. CMade => \A f \in CSources \cup AsmFiles : Once(objs, CObj(f))
    BY <1>5, <1>6 DEF CMade, CWant
  <1>8. ~haveCgo => \A f \in AsmFiles : Once(objs, AsmObj(f)) BY <1>3, <1>5, <1>6
  <1>9. ~haveCgo => \A y \in Range(objFiles) : \E f \in AsmFiles : y = AsmObj(f) BY <1>3 DEF Range
  <1>10. haveCgo /\ ~compilingWithCgo => \A y : y \notin Range(objFiles)
    BY <1>1 DEF Range
  <1> HIDE DEF objs, CObj, AsmObj, haveCgo, compilingWithCgo, CMade
  <1>11. CASE pkg.cgoEnabled
    <2>1. AsmFiles = Sources("s") BY <1>11 DEF AsmFiles
    <2>2. ASSUME UsesC PROVE WithCgo(objs)
      <3>1. \A f \in CSources \cup Sources("s") : Once(objs, CObj(f)) BY <1>1, <1>4, <1>7, <1>11, <2>1, <2>2
      <3> QED BY <1>6, <2>2, <3>1 DEF WithCgo
    <2>3. ASSUME ~UsesC PROVE WithCgo(objs)
      <3>1. CSources = {} BY <2>3 DEF UsesC
      <3>2. \A f \in Sources("s") : Once(objs, AsmObj(f)) BY <1>4, <1>8, <2>1, <2>3
      <3> QED BY <1>6, <2>3, <3>1, <3>2 DEF WithCgo
    <2> QED BY <1>11, <2>2, <2>3 DEF objs
  <1>12. CASE ~pkg.cgoEnabled
    <2>1. ~compilingWithCgo BY <1>4, <1>12
    <2>2. AsmFiles = IF \E g \in GivenFiles : isCgo(g) THEN {} ELSE Sources("s") BY <1>12 DEF AsmFiles
    <2>3. \A n \in DOMAIN objs : objs[n].by = "none" \/ (~haveCgo /\ \E f \in AsmFiles : objs[n] = AsmObj(f))
      BY <1>5, <1>9, <1>10, <2>1
    <2>4. \A n \in DOMAIN objs : objs[n].by # "cc" BY <1>6, <2>3
    <2>5. ASSUME CSources # {} \/ \E g \in GivenFiles : isCgo(g), NEW f
          PROVE  AsmObj(f) \notin Range(objs)
      <3>1. ~haveCgo => AsmFiles = {} BY <1>4, <2>2, <2>5 DEF UsesC
      <3>2. \A n \in DOMAIN objs : objs[n].by = "none" BY <2>3, <3>1
      <3> QED BY <1>6, <3>2 DEF Range
    <2>6. ASSUME ~(CSources # {} \/ \E g \in GivenFiles : isCgo(g)), NEW f \in Sources("s")
          PROVE  Once(objs, AsmObj(f))
      <3>1. \A g \in GoSources : g \in GivenFiles BY SourceFacts
      <3>2. ~haveCgo BY <1>4, <2>6, <3>1 DEF UsesC
      <3> QED BY <1>8, <2>2, <2>6, <3>2
    <2>7. WithoutCgo(objs) BY <2>4, <2>5, <2>6 DEF WithoutCgo
    <2> QED BY <1>12, <2>7 DEF objs
  <1> QED BY <1>11, <1>12

\* What is packed is what the package asks for.
LEMMA ArchiveExactStep ==
    /\ PkgInv /\ FilterInv /\ NogoListInv /\ ObjInv /\ ArchiveInv /\ ArchiveExact /\ OutputsInv
    /\ [Next]_vars
    => ArchiveExact'
  <1> SUFFICES ASSUME PkgInv, FilterInv, NogoListInv, ObjInv, ArchiveInv, ArchiveExact, OutputsInv,
                      [Next]_vars, result' = "ok"
               PROVE  ArchiveExact'
    BY DEF ArchiveExact
  <1>1. pkg' = pkg BY PkgStep
  <1>2. /\ GoSources' = GoSources /\ CSources' = CSources /\ (UsesC' <=> UsesC) /\ GivenFiles' = GivenFiles
        /\ Sources("s")' = Sources("s")
    BY <1>1, SamePkg
  <1>3. \A f : Marks(f)' = Marks(f) BY <1>1 DEF Marks
  <1>4. CASE UNCHANGED vars
    <2>1. archive' = archive /\ result' = result BY <1>4 DEF vars
    <2> QED BY <1>1, <1>2, <1>3, <2>1 DEF ArchiveExact
  <1>5. CASE Pack /\ result # "ok"
    <2>1. /\ pc = "asm" /\ queue = <<>> /\ archive' = [archive EXCEPT !.objs = objFiles \o Syso]
      BY <1>5 DEF Pack, EndWith, EndFrom
    <2>2. archive = [go |-> archive.go, objs |-> <<>>] /\ Exactly(archive.go, All) /\ IsSeq(archive.go)
      BY <2>1 DEF ArchiveInv
    <2> DEFINE go == archive'.go
               objs == archive'.objs
    <2>3. go = archive.go /\ objs = objFiles \o Syso
      <3> HIDE DEF Syso
      <3> QED BY <2>1, <2>2
    <2>4. Cardinality(All) = Cardinality(GoSources) /\ \A x \in All : x.src.dir # "none" BY AllCount
    <2>5. \A f \in GoSources : Once(go, Holds(f, Marks(f)))
      <3> TAKE f \in GoSources
      <3> DEFINE x == Holds(f, Marks(f))
      <3>1. x \in All BY DEF All
      <3>2. x.src.dir # "none" BY <2>4, <3>1
      <3> HIDE DEF x
      <3>3. JustOnce(archive.go, x) BY <2>2, <3>1, <3>2, ExactlyOnce
      <3>4. Once(archive.go, x) BY <3>3, OnceFacts
      <3> QED BY <2>3, <3>4 DEF x
    <2>6. Cardinality(OwnFiles(go)) = Cardinality(GoSources) BY <2>2, <2>3, <2>4, ExactlyCount
    <2>7. (pkg.cgoEnabled => WithCgo(objs)) /\ (~pkg.cgoEnabled => WithoutCgo(objs)) BY <2>1, <2>3, PackObjects
    <2>8. \A f \in Sources("s") :
             [g \in Sources("s") |-> [held |-> Holds(g, {}), by |-> "asm"]][f] = AsmObj(f) BY DEF AsmObj
    <2> HIDE DEF go, objs
    <2>9. pkg.cgoEnabled =>
             /\ \A f \in CSources : Once(objs, [held |-> Holds(f, {}), by |-> "cc"])
             /\ \A f \in Sources("s") : Once(objs, [held |-> Holds(f, {}), by |-> IF UsesC THEN "cc" ELSE "asm"])
      BY <2>7 DEF WithCgo
    <2>10. ~pkg.cgoEnabled =>
             /\ \A n \in DOMAIN objs : objs[n].by # "cc"
             /\ \A f \in Sources("s") :
                   IF CSources # {} \/ \E g \in Range(pkg.unfilteredSrcs) : isCgo(g)
                   THEN AsmObj(f) \notin Range(objs) ELSE Once(objs, AsmObj(f))
      BY <2>7 DEF WithoutCgo, GivenFiles
    <2> QED BY <1>1, <1>2, <1>3, <2>5, <2>6, <2>8, <2>9, <2>10 DEF ArchiveExact, go, objs
  <1> QED BY <1>4, <1>5, OkStep

\* nogo sees the originals whenever the action succeeds.
LEMMA OriginalsStep ==
    /\ PkgInv /\ NogoListInv /\ NogoInv /\ ArchiveInv /\ NogoSeesOriginals /\ OutputsInv /\ [Next]_vars
    => NogoSeesOriginals'
  <1> SUFFICES ASSUME PkgInv, NogoListInv, NogoInv, ArchiveInv, NogoSeesOriginals, OutputsInv, [Next]_vars,
                      result' = "ok", pkg'.cgoGoSrcs
               PROVE  NogoSeesOriginals'
    BY DEF NogoSeesOriginals
  <1>1. pkg' = pkg BY PkgStep
  <1>2. GoSources' = GoSources BY <1>1, SamePkg
  <1>3. nogoSrcs' = nogoSrcs BY OkStep DEF Pack, vars
  <1>4. CASE UNCHANGED vars
    <2>1. result' = result BY <1>4 DEF vars
    <2> QED BY <1>1, <1>2, <1>3, <2>1 DEF NogoSeesOriginals
  <1>5. CASE Pack /\ result # "ok"
    <2>1. pc = "asm" BY <1>5 DEF Pack
    <2>2. NogoDone BY <1>1, <2>1 DEF NogoInv, ArchiveInv
    <2>3. CgoFiles \subseteq GivenFiles BY SourceFacts
    <2>4. Len(cgoSrcsNogo) = Cardinality(CgoFiles) BY <2>1, <2>3, NamesCount DEF NogoListInv
    <2>5. /\ \A f \in CgoFiles : Once(nogoSrcs, Holds(f, {"cgo"}))
          /\ Len(nogoSrcs) = IF CgoFiles = {} THEN 0 ELSE Cardinality(CgoFiles) + 2
      BY <2>2, <2>4, OnceFacts DEF NogoDone
    <2> QED BY <1>2, <1>3, <2>5 DEF NogoSeesOriginals, CgoFiles
  <1> QED BY <1>4, <1>5, OkStep

-----------------------------------------------------------------------------
(* The theorems *)

\* Before the first step there is nothing that could be wrong.
LEMMA InitData == Init => DataInv
  <1> SUFFICES ASSUME Init PROVE DataInv
    OBVIOUS
  <1>1. PkgInv BY DEF Init, PkgInv
  <1>2. WorkInv
    <2>1. DOMAIN work = {} BY DEF Init, Empty
    <2> QED BY <2>1, FS_EmptySet DEF WorkInv
  <1>3. pc = "filter" /\ result = "running" /\ nogoSrcs = <<>> /\ objFiles = <<>> /\ archive = Nil BY DEF Init
  <1> QED
    BY <1>1, <1>2, <1>3 DEF DataInv, FilterInv, NogoListInv, GoInv, NogoInv, ObjInv, ImportsInv, ArchiveInv,
       ImportsCovered, ArchiveExact, NogoSeesOriginals

\* Every step of the builder keeps the invariant.
LEMMA NextData == DataInv /\ CleanInv /\ [Next]_vars => DataInv'
  <1> SUFFICES ASSUME DataInv, CleanInv, [Next]_vars PROVE DataInv'
    OBVIOUS
  <1>1. PkgInv' BY PkgStep, SamePkg DEF DataInv
  <1>2. OutputsInv BY DEF CleanInv
  <1>3. FilterInv' BY FilterStep DEF DataInv
  <1>4. WorkInv' /\ NogoListInv' BY WorkStep, NogoListStep DEF DataInv
  <1>5. GoInv' /\ NogoInv' BY <1>2, GoStep, NogoKeep DEF DataInv
  <1>6. ObjInv' BY ObjStep DEF DataInv
  <1>7. ImportsInv' /\ ArchiveInv' BY <1>2, ImportsStep, ArchiveStep DEF DataInv
  <1>8. ImportsCovered' BY CoveredStep DEF DataInv
  <1>9. ArchiveExact' /\ NogoSeesOriginals' BY <1>2, ArchiveExactStep, OriginalsStep DEF DataInv
  <1> QED BY <1>1, <1>3, <1>4, <1>5, <1>6, <1>7, <1>8, <1>9 DEF DataInv

\* Together with the account of the outputs the invariant is inductive.
THEOREM DataInductive == Spec => [](DataInv /\ CleanInv)
  BY InitData, NextData, InitClean, NextClean, PTL DEF Spec

\* The archive of an action that succeeds holds exactly what the package consists of: every Go,
\* C and assembly source once, treated as coverage and cgo ask for.
THEOREM ArchiveExactHolds == Spec => []ArchiveExact
  <1>1. DataInv => ArchiveExact BY DEF DataInv
  <1> QED BY <1>1, DataInductive, PTL

\* What the compiler reads imports only what the importcfg file and the imports file name.
THEOREM ImportsCoveredHolds == Spec => []ImportsCovered
  <1>1. DataInv => ImportsCovered BY DEF DataInv
  <1> QED BY <1>1, DataInductive, PTL

\* nogo sees the generated code of every cgo source as it was written, once.
THEOREM NogoSeesOriginalsHolds == Spec => []NogoSeesOriginals
  <1>1. DataInv => NogoSeesOriginals BY DEF DataInv
  <1> QED BY <1>1, DataInductive, PTL

-----------------------------------------------------------------------------
(* Embedded files: paths *)

\* q is p or below it.
At(q, p) == q = p \/ Below(q, p)

\* A path is below another if it is longer and agrees with it as far as that goes.
LEMMA BelowIs ==
    ASSUME NEW p \in Path, NEW d \in Path
    PROVE  Below(p, d) <=> Len(d) < Len(p) /\ \A i \in 1..Len(d) : p[i] = d[i]
  <1>1. Len(p) \in Nat /\ Len(d) \in Nat BY DEF Path
  <1>2. CASE Len(d) < Len(p)
    <2> DEFINE r == SubSeq(p, 1, Len(d))
    <2>1. r \in Path /\ Len(r) = Len(d) /\ \A i \in 1..Len(d) : r[i] = p[i] BY <1>1, <1>2 DEF Path
    <2> HIDE DEF r
    <2>2. r = d <=> \A i \in 1..Len(d) : p[i] = d[i] BY <2>1, SeqEqual DEF Path
    <2> QED BY <1>1, <1>2, <2>2 DEF Below, r
  <1> QED BY <1>1, <1>2 DEF Below

\* The order of paths.
LEMMA BelowOrder ==
    ASSUME NEW p \in Path, NEW q \in Path, NEW r \in Path
    PROVE  /\ Below(p, q) /\ Below(q, r) => Below(p, r)
           /\ Below(p, q) /\ Below(p, r) => At(q, r) \/ Below(r, q)
           /\ ~Below(p, p)
  <1>1. Len(p) \in Nat /\ Len(q) \in Nat /\ Len(r) \in Nat BY DEF Path
  <1>2. Below(p, q) /\ Below(q, r) => Below(p, r) BY <1>1, BelowIs
  <1>3. Below(p, q) /\ Below(p, r) => At(q, r) \/ Below(r, q)
    <2> SUFFICES ASSUME Below(p, q), Below(p, r), ~Below(q, r), ~Below(r, q) PROVE q = r BY DEF At
    <2>1. /\ Len(q) < Len(p) /\ \A i \in 1..Len(q) : p[i] = q[i]
          /\ Len(r) < Len(p) /\ \A i \in 1..Len(r) : p[i] = r[i] BY BelowIs
    <2>2. Len(q) = Len(r) BY <1>1, <2>1, BelowIs
    <2> QED BY <2>1, <2>2, SeqEqual DEF Path
  <1> QED BY <1>1, <1>2, <1>3, BelowIs

\* The parents of a path are the paths it is below, but for the root.
LEMMA ParentsAre ==
    ASSUME NEW p \in Path
    PROVE  \A q : q \in Parents(p) <=> q \in Path /\ q # <<>> /\ Below(p, q)
  <1>1. Len(p) \in Nat BY DEF Path
  <1>2. ASSUME NEW n \in 1..(Len(p) - 1)
        PROVE  SubSeq(p, 1, n) \in Path /\ Len(SubSeq(p, 1, n)) = n /\ \A i \in 1..n : SubSeq(p, 1, n)[i] = p[i]
    BY <1>1 DEF Path
  <1>3. ASSUME NEW q \in Parents(p) PROVE q \in Path /\ q # <<>> /\ Below(p, q)
    <2>1. PICK n \in 1..(Len(p) - 1) : q = SubSeq(p, 1, n) BY DEF Parents
    <2>2. q \in Path /\ Len(q) = n /\ \A i \in 1..n : q[i] = p[i] BY <1>2, <2>1
    <2>3. q # <<>> BY <2>2, EmptySeq DEF Path
    <2>4. Len(q) < Len(p) BY <1>1, <2>2
    <2> QED BY <2>2, <2>3, <2>4, BelowIs
  <1>4. ASSUME NEW q \in Path, q # <<>>, Below(p, q) PROVE q \in Parents(p)
    <2>1. Len(q) \in Nat /\ Len(q) # 0 BY <1>4, EmptySeq DEF Path
    <2>2. q = SubSeq(p, 1, Len(q)) /\ Len(q) < Len(p) BY <1>4 DEF Below
    <2>3. Len(q) \in 1..(Len(p) - 1) BY <1>1, <2>1, <2>2
    <2> QED BY <2>2, <2>3 DEF Parents
  <1> QED BY <1>3, <1>4

\* What follows a directory in a path.
LEMMA RestIs ==
    ASSUME NEW p \in Path, NEW d \in Path, Below(p, d)
    PROVE  Rest(p, d) \in Path /\ d \o Rest(p, d) = p /\ Rest(p, d) # <<>>
  <1>1. Len(p) \in Nat /\ Len(d) \in Nat BY DEF Path
  <1>2. Len(d) < Len(p) /\ \A i \in 1..Len(d) : p[i] = d[i] BY BelowIs
  <1> DEFINE r == Rest(p, d)
  <1>3. r \in Path /\ Len(r) = Len(p) - Len(d) /\ \A i \in 1..Len(r) : r[i] = p[Len(d) + i]
    BY <1>1, <1>2 DEF Rest, Path
  <1> HIDE DEF r
  <1>4. d \o r \in Path /\ Len(d \o r) = Len(p) BY <1>1, <1>3 DEF Path
  <1>5. \A i \in 1..Len(p) : (d \o r)[i] = p[i]
    <2> TAKE i \in 1..Len(p)
    <2>1. CASE i <= Len(d) BY <2>1, <1>1, <1>2, <1>3 DEF Path
    <2>2. CASE ~(i <= Len(d))
      <3>1. i - Len(d) \in 1..Len(r) /\ Len(d) + (i - Len(d)) = i BY <2>2, <1>1, <1>3
      <3>2. (d \o r)[i] = r[i - Len(d)] BY <2>2, <3>1, <1>1, <1>3, <1>4 DEF Path
      <3> QED BY <3>1, <3>2, <1>3
    <2> QED BY <2>1, <2>2
  <1>6. d \o r = p BY <1>4, <1>5, SeqEqual DEF Path
  <1>7. r # <<>> BY <1>1, <1>2, <1>3, EmptySeq DEF Path
  <1> QED BY <1>3, <1>6, <1>7 DEF r

\* A path in a directory.
LEMMA ConcatPath ==
    ASSUME NEW d \in Path, NEW q \in Path
    PROVE  /\ d \o q \in Path /\ Rest(d \o q, d) = q
           /\ Below(d \o q, d) <=> q # <<>>
           /\ \A r \in Path : Below(d \o q, d \o r) <=> Below(q, r)
           /\ \A r \in Path : d \o q = d \o r => q = r
  <1>1. Len(d) \in Nat /\ Len(q) \in Nat BY DEF Path
  <1>2. ASSUME NEW r \in Path
        PROVE  /\ d \o r \in Path /\ Len(d \o r) = Len(d) + Len(r) /\ Len(r) \in Nat
               /\ \A i \in 1..Len(d) : (d \o r)[i] = d[i]
               /\ \A i \in 1..Len(r) : (d \o r)[Len(d) + i] = r[i]
    BY <1>1 DEF Path
  <1>3. Rest(d \o q, d) = q
    <2> DEFINE c == Rest(d \o q, d)
    <2>1. c \in Path /\ Len(c) = Len(q) /\ \A i \in 1..Len(q) : c[i] = (d \o q)[Len(d) + i]
      BY <1>1, <1>2 DEF Rest, Path
    <2> HIDE DEF c
    <2>2. \A i \in 1..Len(q) : c[i] = q[i] BY <2>1, <1>2
    <2>3. c = q BY <2>1, <2>2, SeqEqual DEF Path
    <2> QED BY <2>3 DEF c
  <1>4. Below(d \o q, d) <=> q # <<>>
    <2>1. q # <<>> <=> 0 < Len(q) BY <1>1, EmptySeq DEF Path
    <2> DEFINE a == d \o q
    <2>2. a \in Path /\ Len(a) = Len(d) + Len(q) /\ \A i \in 1..Len(d) : a[i] = d[i] BY <1>2
    <2> HIDE DEF a
    <2>3. Below(a, d) <=> 0 < Len(q) BY <2>2, <1>1, BelowIs
    <2> QED BY <2>1, <2>3 DEF a
  <1>5. ASSUME NEW r \in Path PROVE Below(d \o q, d \o r) <=> Below(q, r)
    <2> DEFINE a == d \o q
               b == d \o r
    <2>1. /\ a \in Path /\ Len(a) = Len(d) + Len(q) /\ Len(q) \in Nat
          /\ \A i \in 1..Len(d) : a[i] = d[i]
          /\ \A i \in 1..Len(q) : a[Len(d) + i] = q[i]
      BY <1>2
    <2>2. /\ b \in Path /\ Len(b) = Len(d) + Len(r) /\ Len(r) \in Nat
          /\ \A i \in 1..Len(d) : b[i] = d[i]
          /\ \A i \in 1..Len(r) : b[Len(d) + i] = r[i]
      BY <1>2
    <2> HIDE DEF a, b
    <2>3. Below(a, b) <=> Len(b) < Len(a) /\ \A i \in 1..Len(b) : a[i] = b[i] BY <2>1, <2>2, BelowIs
    <2>4. Below(q, r) <=> Len(r) < Len(q) /\ \A i \in 1..Len(r) : q[i] = r[i] BY BelowIs
    <2>5. ASSUME Below(q, r) PROVE Below(a, b)
      <3>0. Len(r) < Len(q) /\ \A i \in 1..Len(r) : q[i] = r[i] BY <2>4, <2>5
      <3>1. ASSUME NEW i \in 1..Len(b) PROVE a[i] = b[i]
        <4>1. CASE i \in 1..Len(d) BY <4>1, <2>1, <2>2
        <4>2. CASE i \notin 1..Len(d)
          <5> DEFINE j == i - Len(d)
          <5>1. i \in Nat /\ Len(d) < i /\ i <= Len(d) + Len(r) BY <1>1, <2>2, <4>2
          <5>2. j \in 1..Len(r) /\ j \in 1..Len(q) /\ Len(d) + j = i BY <1>1, <2>1, <2>2, <3>0, <5>1
          <5> HIDE DEF j
          <5>3. a[i] = q[j] /\ b[i] = r[j] BY <2>1, <2>2, <5>2
          <5> QED BY <3>0, <5>2, <5>3
        <4> QED BY <4>1, <4>2
      <3> QED BY <3>1, <2>3, <2>1, <2>2, <2>4, <2>5, <1>1
    <2>6. ASSUME Below(a, b) PROVE Below(q, r)
      <3>1. ASSUME NEW i \in 1..Len(r) PROVE q[i] = r[i]
        <4>1. Len(d) + i \in 1..Len(b) /\ i \in 1..Len(q) BY <1>1, <2>1, <2>2, <2>3, <2>6
        <4> QED BY <4>1, <2>1, <2>2, <2>3, <2>6
      <3> QED BY <3>1, <2>3, <2>1, <2>2, <2>4, <2>6, <1>1
    <2>7. Below(a, b) <=> Below(q, r) BY <2>5, <2>6
    <2> QED BY <2>7 DEF a, b
  <1>6. ASSUME NEW r \in Path, d \o q = d \o r PROVE q = r
    BY <1>6, ConcatSimplifications DEF Path
  <1> QED BY <1>2, <1>3, <1>4, <1>5, <1>6

\* Concatenation is associative.
LEMMA PathsConcat ==
    ASSUME NEW d \in Path, NEW q \in Path, NEW r \in Path
    PROVE  (d \o q) \o r = d \o (q \o r)
  BY ConcatAssociative DEF Path

-----------------------------------------------------------------------------
(* Sources and what they provide *)

\* A non-empty set of positions has a first one.
LEMMA FirstPlace ==
    ASSUME NEW P \in SUBSET Nat, P # {}
    PROVE  \E m \in P : \A n \in P : m <= n
  <1> DEFINE R == OpToRel(<, Nat)
  <1>1. IsWellFoundedOn(R, Nat) BY NatLessThanWellFounded
  <1>2. \E x \in P : \A y \in P : ~(<<y, x>> \in R)
    <2> HIDE DEF R
    <2> QED BY <1>1, WFMin
  <1>3. PICK x \in P : \A y \in P : ~(<<y, x>> \in R) BY <1>2
  <1>4. \A y \in Nat : ~(<<y, x>> \in R) => x <= y BY DEF OpToRel
  <1> HIDE DEF R
  <1> QED BY <1>3, <1>4

\* The n-th embed source is added to the tree: its root directory, its path there, and the file or
\* directory that it provides for path q.
Added(n) == n \in DOMAIN input.embedSrcs /\ RootsOf(input.embedSrcs[n]) # {}
RootAt(n) == findInRootDirs(input.embedSrcs[n])
RelAt(n) == Rel(input.embedSrcs[n])
Disk(n, q) == RootAt(n) \o q

\* What is known of an input.
LEMMA InputFacts ==
    ASSUME input \in Inputs
    PROVE  /\ input.embedSrcs \in Seq(Path) /\ input.roots \in Seq(Path)
           /\ Len(input.embedSrcs) \in Nat /\ DOMAIN input.embedSrcs = 1..Len(input.embedSrcs)
           /\ \A n \in DOMAIN input.embedSrcs : input.embedSrcs[n] \in Path
           /\ \A n \in DOMAIN input.roots : input.roots[n] \in Path /\ n \in Nat
           /\ input.files \subseteq Path /\ \A f, g \in input.files : ~Below(f, g)
  <1>1. IsInput(input) BY NameAssumption
  <1>2. /\ input.embedSrcs \in Seq(Path) /\ input.roots \in Seq(Path)
        /\ input.files \subseteq Path /\ \A f, g \in input.files : ~Below(f, g) BY <1>1 DEF IsInput
  <1>3. \A s \in Seq(Path) : Len(s) \in Nat /\ DOMAIN s = 1..Len(s) /\ \A n \in DOMAIN s : s[n] \in Path
    OBVIOUS
  <1>4. DOMAIN input.roots \subseteq Nat BY <1>2, <1>3
  <1> QED BY <1>2, <1>3, <1>4

\* A source that is added lies in its root directory.
LEMMA EmbedSourceFacts ==
    ASSUME input \in Inputs, NEW n, Added(n)
    PROVE  /\ RootAt(n) \in Path /\ RelAt(n) \in Path /\ RelAt(n) # <<>>
           /\ input.embedSrcs[n] \in Path /\ Disk(n, RelAt(n)) = input.embedSrcs[n]
           /\ \E k \in DOMAIN input.roots : RootAt(n) = input.roots[k]
  <1> DEFINE s == input.embedSrcs[n]
  <1>1. s \in Path BY InputFacts DEF Added
  <1>2. RootsOf(s) \in SUBSET Nat /\ RootsOf(s) # {} BY InputFacts DEF RootsOf, Added
  <1>3. \E m \in RootsOf(s) : \A k \in RootsOf(s) : m <= k BY <1>2, FirstPlace
  <1>4. PICK m \in RootsOf(s) : RootAt(n) = input.roots[m] BY <1>3 DEF RootAt, findInRootDirs
  <1>5. m \in DOMAIN input.roots /\ Below(s, RootAt(n)) BY <1>4 DEF RootsOf
  <1>6. RootAt(n) \in Path BY <1>4, <1>5, InputFacts
  <1>7. RelAt(n) = Rest(s, RootAt(n)) BY DEF RelAt, Rel, RootAt
  <1> QED BY <1>1, <1>4, <1>5, <1>6, <1>7, RestIs DEF Disk

\* What is on disk for the paths of a source: a file is no directory, and what something lies
\* below is one.
LEMMA DiskFacts ==
    ASSUME input \in Inputs, NEW n, Added(n), NEW q \in Path
    PROVE  /\ Disk(n, q) \in Path
           /\ ~(Disk(n, q) \in input.files /\ IsDir(Disk(n, q)))
           /\ \A r \in Path : Below(r, q) /\ Exists(Disk(n, r)) => IsDir(Disk(n, q))
  <1>1. RootAt(n) \in Path BY EmbedSourceFacts
  <1>2. Disk(n, q) \in Path BY <1>1, ConcatPath DEF Disk
  <1>3. ~(Disk(n, q) \in input.files /\ IsDir(Disk(n, q))) BY InputFacts DEF IsDir
  <1>4. ASSUME NEW r \in Path, Below(r, q), Exists(Disk(n, r)) PROVE IsDir(Disk(n, q))
    <2>1. Below(Disk(n, r), Disk(n, q)) /\ Disk(n, r) \in Path BY <1>1, <1>4, ConcatPath DEF Disk
    <2>2. CASE Disk(n, r) \in input.files BY <2>1, <2>2 DEF IsDir
    <2>3. CASE IsDir(Disk(n, r))
      <3>1. PICK f \in input.files : Below(f, Disk(n, r)) BY <2>3 DEF IsDir
      <3>2. Below(f, Disk(n, q)) BY <2>1, <3>1, <1>2, InputFacts, BelowOrder
      <3> QED BY <3>2 DEF IsDir
    <2> QED BY <1>4, <2>2, <2>3 DEF Exists
  <1> QED BY <1>2, <1>3, <1>4

\* The recursive visit finds everything that exists below the source.
LEMMA InsideIs ==
    ASSUME input \in Inputs, NEW n, Added(n), NEW q
    PROVE  q \in {RelAt(n) \o c : c \in Inside(input.embedSrcs[n])}
             <=> q \in Path /\ Below(q, RelAt(n)) /\ Exists(Disk(n, q))
  <1> DEFINE s == input.embedSrcs[n]
             p == RelAt(n)
             d == RootAt(n)
  <1>1. s \in Path /\ p \in Path /\ d \in Path /\ s = d \o p BY EmbedSourceFacts DEF Disk
  <1>2. Inside(s) = UNION {{Rest(r, s) : r \in {x \in Parents(f) \cup {f} : Below(x, s)}} :
                             f \in {g \in input.files : Below(g, s)}} BY DEF Inside
  <1> HIDE DEF s, p, d
  <1>3. ASSUME NEW c \in Inside(s) PROVE p \o c \in Path /\ Below(p \o c, p) /\ Exists(d \o (p \o c))
    <2>1. PICK f \in input.files : Below(f, s) /\ c \in {Rest(r, s) : r \in {x \in Parents(f) \cup {f} : Below(x, s)}}
      BY <1>2, <1>3
    <2>2. PICK r \in Parents(f) \cup {f} : Below(r, s) /\ c = Rest(r, s) BY <2>1
    <2>3. f \in Path BY InputFacts
    <2>4. r \in Path /\ (r = f \/ Below(f, r)) BY <2>2, <2>3, ParentsAre
    <2>5. c \in Path /\ s \o c = r /\ c # <<>> BY <1>1, <2>2, <2>4, RestIs
    <2>6. d \o (p \o c) = r
      <3>1. (d \o p) \o c = d \o (p \o c) BY <1>1, <2>5, PathsConcat
      <3> QED BY <3>1, <1>1, <2>5
    <2>7. p \o c \in Path /\ Below(p \o c, p) BY <1>1, <2>5, ConcatPath
    <2>8. Exists(r) BY <2>4 DEF Exists, IsDir
    <2> QED BY <2>6, <2>7, <2>8
  <1>4. ASSUME q \in Path, Below(q, p), Exists(d \o q) PROVE \E c \in Inside(s) : q = p \o c
    <2> DEFINE c == Rest(q, p)
               r == d \o q
    <2>1. c \in Path /\ p \o c = q /\ c # <<>> BY <1>1, <1>4, RestIs
    <2>2. s \o c = r
      <3>1. (d \o p) \o c = d \o (p \o c)
        <4> HIDE DEF c
        <4> QED BY <1>1, <2>1, PathsConcat
      <3> QED BY <3>1, <1>1, <2>1
    <2>3. r \in Path /\ Below(r, s) /\ Rest(r, s) = c
      <3> HIDE DEF c
      <3>1. s \o c \in Path /\ Below(s \o c, s) /\ Rest(s \o c, s) = c BY <1>1, <2>1, ConcatPath
      <3> QED BY <3>1, <2>2
    <2>4. PICK f \in input.files : r = f \/ Below(f, r) BY <1>4 DEF Exists, IsDir
    <2>5. f \in Path BY InputFacts
    <2>6. Below(f, s) BY <1>1, <2>3, <2>4, <2>5, BelowOrder
    <2>7. r # <<>>
      <3>1. Len(s) \in Nat /\ Len(r) > Len(s) BY <1>1, <2>3 DEF Below, Path
      <3> QED BY <3>1, <2>3, EmptySeq DEF Path
    <2>8. r \in Parents(f) \cup {f} BY <2>3, <2>4, <2>5, <2>7, ParentsAre
    <2> HIDE DEF c, r
    <2>9. c \in Inside(s) BY <1>2, <2>3, <2>6, <2>8
    <2> QED BY <2>1, <2>9
  <1> QED BY <1>3, <1>4 DEF s, p, d, Disk

\* The sources that provide a file for q.
LEMMA ProvidersAre ==
    ASSUME NEW n, NEW q
    PROVE  n \in Providers(q) <=> Added(n) /\ At(q, RelAt(n)) /\ Disk(n, q) \in input.files
  BY DEF Providers, Added, At, RelAt, Disk, RootAt

\* What Disjoint says of two sources.
LEMMA Apart ==
    ASSUME Disjoint, NEW m, NEW n, Added(m), Added(n), m # n
    PROVE  /\ ~Below(RelAt(m), RelAt(n)) /\ ~Below(RelAt(n), RelAt(m))
           /\ RelAt(m) = RelAt(n) => ~IsDir(input.embedSrcs[m]) /\ ~IsDir(input.embedSrcs[n])
  BY DEF Disjoint, Added, RelAt

-----------------------------------------------------------------------------
(* The tree *)

\* Source n makes a node for path q: on the way to it, or for what it provides.
Keeps(n, q) == Added(n) /\ (q \in Parents(RelAt(n)) \/ (At(q, RelAt(n)) /\ Exists(Disk(n, q))))

Node == [file : Path \cup {NoName}, dir : BOOLEAN]

\* The tree t holds the nodes of the sources before the k-th. A node is that of a file exactly if one
\* of these provides it, and stands for the file of the first.
FoundBefore(k, q) == {n \in Providers(q) : n < k}
TreeOK(k, t) ==
    /\ DOMAIN t = {q \in Path : q # <<>> /\ \E n \in 1..(k - 1) : Keeps(n, q)}
    /\ \A q \in DOMAIN t :
          /\ t[q] \in Node
          /\ t[q].dir <=> FoundBefore(k, q) = {}
          /\ \A n \in FoundBefore(k, q) : (\A m \in FoundBefore(k, q) : n <= m) => t[q].file = Disk(n, q)

\* A provider makes a node.
LEMMA ProviderKeeps ==
    ASSUME NEW n, NEW q, n \in Providers(q)
    PROVE  Added(n) /\ At(q, RelAt(n)) /\ Exists(Disk(n, q)) /\ Keeps(n, q)
  BY ProvidersAre DEF Keeps, Exists

\* What is at or below the path of a source has no node from the sources that do not overlap with
\* it, but for files of the same path.
LEMMA NoOverlap ==
    ASSUME input \in Inputs, Disjoint, NEW m, NEW k, Added(m), Added(k), m # k,
           NEW q \in Path, Keeps(m, q), At(q, RelAt(k))
    PROVE  q = RelAt(k) /\ RelAt(m) = RelAt(k) /\ ~IsDir(input.embedSrcs[k]) /\ ~IsDir(input.embedSrcs[m])
  <1> DEFINE r == RelAt(m)
             p == RelAt(k)
  <1>1. r \in Path /\ p \in Path BY EmbedSourceFacts
  <1>2. /\ ~Below(r, p) /\ ~Below(p, r)
        /\ r = p => ~IsDir(input.embedSrcs[m]) /\ ~IsDir(input.embedSrcs[k]) BY Apart
  <1>3. q = p \/ Below(q, p) BY DEF At
  <1>4. CASE q \in Parents(r)
    <2>1. Below(r, q) BY <1>1, <1>4, ParentsAre
    <2> HIDE DEF r, p
    <2>2. Below(r, p) BY <1>1, <1>3, <2>1, BelowOrder
    <2> QED BY <1>2, <2>2
  <1>5. CASE At(q, r) /\ Exists(Disk(m, q))
    <2>1. q = r \/ Below(q, r) BY <1>5 DEF At
    <2>2. r = p
      <3> HIDE DEF r, p
      <3> QED BY <1>1, <1>2, <1>3, <2>1, BelowOrder DEF At
    <2>3. q = p
      <3>1. SUFFICES ASSUME Below(q, p) PROVE FALSE BY <1>3
      <3>2. IsDir(Disk(m, r)) BY <1>1, <1>5, <3>1, <2>2, DiskFacts
      <3> QED BY <3>2, <2>2, <1>2, EmbedSourceFacts
    <2> QED BY <1>2, <2>2, <2>3
  <1> QED BY <1>4, <1>5 DEF Keeps

\* The tree with one more source.
LEMMA AddKeeps ==
    ASSUME input \in Inputs, Disjoint, NEW k \in Nat, k = pos, Added(k), Exists(input.embedSrcs[k]),
           NEW t, TreeOK(k, t)
    PROVE  TreeOK(k + 1, AddTo(t, RelAt(k)))
  <1> DEFINE p == RelAt(k)
             s == input.embedSrcs[k]
             u == AddTo(t, p)
             own == IF p \in DOMAIN t THEN t[p] ELSE FileNode(s)
             contents == {p \o c : c \in IF IsDir(s) THEN Inside(s) ELSE {}}
             stays == {q \in DOMAIN t : ~(IsDir(s) /\ Below(q, p))}
  <1>1. /\ p \in Path /\ p # <<>> /\ s \in Path /\ Disk(k, p) = s /\ RootAt(k) \in Path
    <2>1. input \in Inputs /\ Added(k) OBVIOUS
    <2> QED BY <2>1, EmbedSourceFacts
  <1>2. u = [q \in stays \cup Parents(p) \cup {p} \cup contents |->
               IF q = p THEN [own EXCEPT !.dir = own.dir \/ IsDir(s)]
               ELSE IF q \in stays THEN t[q]
               ELSE IF q \in Parents(p) THEN DirNode(NoName)
               ELSE IF IsDir(s \o Rest(q, p)) THEN DirNode(s \o Rest(q, p)) ELSE FileNode(s \o Rest(q, p))]
    BY DEF AddTo, Src
  <1>3. \A q : q \in contents <=> q \in Path /\ Below(q, p) /\ Exists(Disk(k, q))
    <2>1. CASE IsDir(s)
      <3>1. contents = {p \o c : c \in Inside(s)} BY <2>1
      <3> HIDE DEF contents, u, own, stays
      <3> QED BY <2>1, <3>1, InsideIs
    <2>2. CASE ~IsDir(s)
      <3>1. \A q \in Path : Below(q, p) => ~Exists(Disk(k, q)) BY <1>1, <2>2, DiskFacts
      <3> QED BY <2>2, <3>1
    <2> QED BY <2>1, <2>2
  <1>4. \A q \in DOMAIN t : /\ q \in Path /\ q # <<>>
                            /\ \E n \in 1..(k - 1) : Added(n) /\ n # k /\ Keeps(n, q)
    BY DEF TreeOK, Keeps
  <1>5. \A q \in DOMAIN t : ~Below(q, p)
    <2> TAKE q \in DOMAIN t
    <2>1. PICK n \in 1..(k - 1) : Added(n) /\ n # k /\ Keeps(n, q) BY <1>4
    <2>2. SUFFICES ASSUME Below(q, p) PROVE FALSE OBVIOUS
    <2>3. q = p BY <1>4, <2>1, <2>2, NoOverlap DEF At
    <2> QED BY <1>1, <2>2, <2>3, BelowOrder
  <1>6. stays = DOMAIN t BY <1>5
  <1>7. p \in DOMAIN t => ~IsDir(s) /\ s \in input.files /\ ~t[p].dir
    <2> SUFFICES ASSUME p \in DOMAIN t PROVE ~IsDir(s) /\ s \in input.files /\ ~t[p].dir OBVIOUS
    <2>1. PICK n \in 1..(k - 1) : Added(n) /\ n # k /\ Keeps(n, p) BY <1>4
    <2>2. RelAt(n) = p /\ ~IsDir(s) /\ ~IsDir(input.embedSrcs[n]) BY <1>1, <2>1, NoOverlap DEF At
    <2>3. s \in input.files BY <2>2 DEF Exists
    <2>4. Disk(n, p) = input.embedSrcs[n] BY <2>1, <2>2, EmbedSourceFacts
    <2>5. p \notin Parents(p) BY <1>1, ParentsAre, BelowOrder
    <2>6. Disk(n, p) \in input.files BY <2>1, <2>2, <2>4, <2>5 DEF Keeps, Exists
    <2>7. n \in FoundBefore(k, p) BY <2>1, <2>2, <2>6, ProvidersAre DEF At, FoundBefore
    <2> QED BY <2>2, <2>3, <2>7 DEF TreeOK
  <1> HIDE DEF u, contents, stays
  <1>8. DOMAIN u = {q \in Path : q # <<>> /\ \E n \in 1..k : Keeps(n, q)}
    <2>1. \A q : q \in DOMAIN t <=> q \in Path /\ q # <<>> /\ \E n \in 1..(k - 1) : Keeps(n, q) BY DEF TreeOK
    <2>2. \A q \in Path : Keeps(k, q) <=> q \in Parents(p) \/ ((q = p \/ Below(q, p)) /\ Exists(Disk(k, q)))
      BY DEF Keeps, At
    <2>3. \A q \in Path : q # <<>> => (Keeps(k, q) <=> q \in Parents(p) \cup {p} \cup contents)
      BY <1>1, <1>3, <2>2
    <2>4. \A q \in Parents(p) \cup {p} \cup contents : q \in Path /\ q # <<>>
      <3>1. \A q \in Path : Below(q, p) => q # <<>>
        <4>1. \A q \in Path : Len(q) \in Nat /\ Len(p) \in Nat /\ Len(<<>>) = 0 BY <1>1, EmptySeq DEF Path
        <4> QED BY <4>1 DEF Below
      <3> QED BY <1>1, <1>3, <3>1, ParentsAre
    <2>5. \A n : n \in 1..k <=> n \in 1..(k - 1) \/ n = k
      <3>1. k \in 1..Len(input.embedSrcs) BY InputFacts DEF Added
      <3> QED BY <3>1
    <2>6. DOMAIN u = DOMAIN t \cup Parents(p) \cup {p} \cup contents BY <1>2, <1>6
    <2> QED BY <2>1, <2>3, <2>4, <2>5, <2>6
  <1>9. \A q : FoundBefore(k + 1, q) = FoundBefore(k, q) \cup (IF k \in Providers(q) THEN {k} ELSE {})
    <2> TAKE q
    <2>1. Providers(q) \subseteq Nat BY InputFacts DEF Providers
    <2> QED BY <2>1 DEF FoundBefore
  <1>10. \A q \in Path : k \in Providers(q) <=> At(q, p) /\ Disk(k, q) \in input.files BY ProvidersAre
  <1>11. ASSUME NEW q \in DOMAIN u
         PROVE  /\ u[q] \in Node
                /\ u[q].dir <=> FoundBefore(k + 1, q) = {}
                /\ \A n \in FoundBefore(k + 1, q) : (\A m \in FoundBefore(k + 1, q) : n <= m) => u[q].file = Disk(n, q)
    <2>1. q \in Path /\ q # <<>> BY <1>8
    <2>2. q \notin DOMAIN t => FoundBefore(k, q) = {}
      <3> SUFFICES ASSUME NEW n \in FoundBefore(k, q) PROVE q \in DOMAIN t OBVIOUS
      <3>1. n \in Providers(q) /\ n < k BY DEF FoundBefore
      <3>2. Keeps(n, q) /\ n \in DOMAIN input.embedSrcs BY <3>1, ProviderKeeps DEF Added
      <3>3. n \in 1..(k - 1) BY <3>1, <3>2, InputFacts
      <3> QED BY <2>1, <3>2, <3>3 DEF TreeOK
    <2>3. q \in DOMAIN t => /\ t[q] \in Node
                            /\ t[q].dir <=> FoundBefore(k, q) = {}
                            /\ \A n \in FoundBefore(k, q) : (\A m \in FoundBefore(k, q) : n <= m) => t[q].file = Disk(n, q)
      BY DEF TreeOK
    <2>4. CASE q = p /\ p \in DOMAIN t
      <3>1. u[q] = [t[p] EXCEPT !.dir = t[p].dir \/ IsDir(s)] BY <1>2, <2>4
      <3>2. ~IsDir(s) /\ ~t[p].dir /\ t[p] \in Node BY <1>7, <2>3, <2>4
      <3>3. u[q] = t[p] BY <3>1, <3>2 DEF Node
      <3>4. FoundBefore(k, q) # {} BY <2>3, <2>4, <3>2
      <3>5. \A n \in FoundBefore(k, q) : n < k /\ n \in Nat BY InputFacts DEF FoundBefore, Providers
      <3>6. ASSUME NEW n \in FoundBefore(k + 1, q), \A m \in FoundBefore(k + 1, q) : n <= m PROVE u[q].file = Disk(n, q)
        <4>1. n # k BY <1>9, <3>4, <3>5, <3>6
        <4> QED BY <4>1, <1>9, <2>3, <2>4, <3>3, <3>6
      <3> QED BY <3>2, <3>3, <3>4, <3>6, <1>9, <2>4
    <2>5. CASE q = p /\ p \notin DOMAIN t
      <3>1. u[q] = [FileNode(s) EXCEPT !.dir = FileNode(s).dir \/ IsDir(s)] BY <1>2, <2>5
      <3>2. u[q].file = s /\ (u[q].dir <=> IsDir(s)) /\ u[q] \in Node
        <4>1. CASE IsDir(s)
          <5>1. u[q] = [file |-> s, dir |-> TRUE] BY <3>1, <4>1 DEF FileNode
          <5> QED BY <5>1, <4>1, <1>1 DEF Node
        <4>2. CASE ~IsDir(s)
          <5>1. u[q] = [file |-> s, dir |-> FALSE] BY <3>1, <4>2 DEF FileNode
          <5> QED BY <5>1, <4>2, <1>1 DEF Node
        <4> QED BY <4>1, <4>2
      <3>4. k \in Providers(q) <=> ~IsDir(s) BY <1>1, <1>10, <2>5, DiskFacts DEF At, Exists
      <3>5. FoundBefore(k, q) = {} BY <2>2, <2>5
      <3>6. FoundBefore(k + 1, q) = IF IsDir(s) THEN {} ELSE {k} BY <1>9, <3>4, <3>5
      <3>7. Disk(k, q) = s BY <1>1, <2>5
      <3> HIDE DEF s
      <3> QED BY <3>2, <3>6, <3>7
    <2>6. CASE q # p /\ q \in DOMAIN t
      <3>1. u[q] = t[q] BY <1>2, <1>6, <2>6
      <3>2. k \notin Providers(q) BY <1>5, <1>10, <2>1, <2>6 DEF At
      <3> QED BY <3>1, <3>2, <1>9, <2>3, <2>6
    <2>7. CASE q # p /\ q \notin DOMAIN t /\ q \in Parents(p)
      <3>1. u[q] = DirNode(NoName) BY <1>2, <1>6, <2>7
      <3>2. ~At(q, p) BY <1>1, <2>1, <2>7, ParentsAre, BelowOrder DEF At
      <3> QED BY <3>1, <3>2, <1>9, <1>10, <2>1, <2>2, <2>7 DEF DirNode, Node
    <2>8. CASE q # p /\ q \notin DOMAIN t /\ q \notin Parents(p)
      <3>1. q \in contents BY <1>2, <1>6, <2>8
      <3>2. Below(q, p) /\ Exists(Disk(k, q)) BY <1>3, <3>1
      <3> DEFINE f == s \o Rest(q, p)
      <3>3. f = Disk(k, q)
        <4> DEFINE c == Rest(q, p)
                   d == RootAt(k)
        <4>1. c \in Path /\ p \o c = q /\ d \in Path /\ s = d \o p /\ p \in Path
          BY <1>1, <2>1, <3>2, RestIs DEF Disk
        <4> HIDE DEF c, d, p, s, f
        <4>2. (d \o p) \o c = d \o (p \o c) BY <4>1, PathsConcat
        <4> QED BY <4>1, <4>2 DEF Disk, c, d, f
      <3>4. u[q] = IF IsDir(f) THEN DirNode(f) ELSE FileNode(f)
        <4>1. u[q] = IF q = p THEN [own EXCEPT !.dir = own.dir \/ IsDir(s)]
               ELSE IF q \in stays THEN t[q]
               ELSE IF q \in Parents(p) THEN DirNode(NoName)
               ELSE IF IsDir(f) THEN DirNode(f) ELSE FileNode(f) BY <1>2
        <4> HIDE DEF f
        <4> QED BY <4>1, <1>6, <2>8
      <3>5. f \in Path BY <2>1, <3>3, DiskFacts
      <3>6. k \in Providers(q) <=> ~IsDir(f) BY <1>10, <2>1, <3>2, <3>3, DiskFacts DEF At, Exists
      <3> HIDE DEF f
      <3> QED BY <1>9, <2>2, <2>8, <3>3, <3>4, <3>5, <3>6 DEF DirNode, FileNode, Node
    <2> QED BY <2>4, <2>5, <2>6, <2>7, <2>8
  <1>12. (k + 1) - 1 = k OBVIOUS
  <1> QED BY <1>8, <1>11, <1>12 DEF TreeOK, u

-----------------------------------------------------------------------------
(* The invariant *)

\* What was found: the files of the tree.
FoundInv ==
    /\ \A e \in DOMAIN Patterns : Patterns[e] = Matches(e)
    /\ \A q \in DOMAIN Files : q \in DOMAIN nodes /\ ~nodes[q].dir /\ Files[q] = nodes[q].file

\* What the tree holds at each stage, provided that sources do not overlap.
EmbedInv ==
    /\ input \in Inputs
    /\ phase \in {"scan", "add"} => Patterns = <<>> /\ Files = <<>>
    /\ phase = "scan" => pos = 1 /\ nodes = <<>>
    /\ phase = "add" => pos \in 1..(Len(input.embedSrcs) + 1) /\ (Disjoint => TreeOK(pos, nodes))
    /\ phase \in {"resolve", "written"} =>
          (Disjoint => TreeOK(Len(input.embedSrcs) + 1, nodes)) /\ FoundInv

\* The input stays, and with it everything that is defined by it.
LEMMA SameInput ==
    ASSUME input' = input
    PROVE  /\ \A n : Added(n)' <=> Added(n)
           /\ \A n, q : Keeps(n, q)' <=> Keeps(n, q)
           /\ \A n, q : Disk(n, q)' = Disk(n, q)
           /\ \A k, q : FoundBefore(k, q)' = FoundBefore(k, q)
           /\ Disjoint' <=> Disjoint
  <1>1. \A p : RootsOf(p)' = RootsOf(p) /\ findInRootDirs(p)' = findInRootDirs(p) /\ Rel(p)' = Rel(p)
               /\ (IsDir(p)' <=> IsDir(p)) /\ (Exists(p)' <=> Exists(p))
    BY DEF RootsOf, findInRootDirs, Rel, IsDir, Exists
  <1>2. \A n : Added(n)' <=> Added(n) BY <1>1 DEF Added
  <1>3. \A n : RelAt(n)' = RelAt(n) /\ RootAt(n)' = RootAt(n)
    BY DEF RelAt, RootAt, Rel, findInRootDirs, RootsOf
  <1>4. \A n, q : Disk(n, q)' = Disk(n, q) BY <1>3 DEF Disk
  <1>5. \A n, q : Keeps(n, q)' <=> Keeps(n, q)
    BY <1>2, <1>3 DEF Keeps, Disk, Exists, IsDir
  <1>6. \A k, q : FoundBefore(k, q)' = FoundBefore(k, q)
    BY DEF FoundBefore, Providers, RootsOf, Rel, findInRootDirs
  <1>7. Disjoint' <=> Disjoint BY DEF Disjoint, RootsOf, Rel, findInRootDirs, IsDir
  <1> QED BY <1>2, <1>4, <1>5, <1>6, <1>7

\* Before the first source the tree is empty.
LEMMA EmptyTree == TreeOK(1, <<>>)
  <1>1. DOMAIN <<>> = {} OBVIOUS
  <1>2. 1..(1 - 1) = {} OBVIOUS
  <1> QED BY <1>1, <1>2 DEF TreeOK

\* A source that lies in no root directory makes no difference.
LEMMA IgnoreKeeps ==
    ASSUME input \in Inputs, NEW k \in 1..Len(input.embedSrcs), ~Added(k), NEW t, TreeOK(k, t)
    PROVE  TreeOK(k + 1, t)
  <1>1. k \in Nat /\ (k + 1) - 1 = k BY InputFacts
  <1>2. \A n, q : Keeps(n, q) => n # k BY DEF Keeps
  <1>4. \A q : (\E n \in 1..(k - 1) : Keeps(n, q)) <=> (\E n \in 1..k : Keeps(n, q))
    <2>1. \A n : n \in 1..k <=> n \in 1..(k - 1) \/ n = k BY <1>1
    <2> QED BY <1>2, <2>1
  <1>5. \A q : FoundBefore(k + 1, q) = FoundBefore(k, q)
    <2> TAKE q
    <2>1. Providers(q) \subseteq Nat BY InputFacts DEF Providers
    <2>2. k \notin Providers(q) BY ProvidersAre
    <2> QED BY <1>1, <2>1, <2>2 DEF FoundBefore
  <1> QED BY <1>1, <1>4, <1>5 DEF TreeOK

\* Nothing is found and nothing added at first.
LEMMA EmbedInitially == EmbedInit => EmbedInv
  BY DEF EmbedInit, EmbedInv

\* Every action keeps the invariant.
LEMMA EmbedStep == EmbedInv /\ [EmbedNext]_embedVars => EmbedInv'
  <1> SUFFICES ASSUME EmbedInv, [EmbedNext]_embedVars PROVE EmbedInv' OBVIOUS
  <1>1. input' = input /\ input \in Inputs
    BY DEF EmbedInv, EmbedNext, embedVars, Scan, IgnoreSrc, MissingSrc, BlockedSrc, AddSrc, TreeBuilt,
           Resolve, ResolveFails, WriteFile, Ended
  <1>2. CASE Scan
    <2>1. /\ phase = "scan" /\ phase' \in {"error", "add", "none"}
          /\ pos' = pos /\ nodes' = nodes /\ Patterns' = Patterns /\ Files' = Files
      BY <1>2 DEF Scan
    <2>2. pos = 1 /\ nodes = <<>> /\ Patterns = <<>> /\ Files = <<>> BY <2>1 DEF EmbedInv
    <2>3. 1 \in 1..(Len(input.embedSrcs) + 1) BY <1>1, InputFacts
    <2>4. TreeOK(pos, nodes) BY <2>2, EmptyTree
    <2>5. TreeOK(pos, nodes)' BY <1>1, <2>1, <2>4, SameInput DEF TreeOK
    <2> QED BY <1>1, <2>1, <2>2, <2>3, <2>5 DEF EmbedInv
  <1>3. CASE IgnoreSrc
    <2>1. /\ phase = "add" /\ pos <= Len(input.embedSrcs) /\ RootsOf(input.embedSrcs[pos]) = {}
          /\ pos' = pos + 1 /\ phase' = phase /\ nodes' = nodes /\ Patterns' = Patterns /\ Files' = Files
      BY <1>3 DEF IgnoreSrc, More, Src
    <2>2. pos \in 1..Len(input.embedSrcs) /\ pos + 1 \in 1..(Len(input.embedSrcs) + 1)
      BY <1>1, <2>1, InputFacts DEF EmbedInv
    <2>3. ASSUME Disjoint PROVE TreeOK(pos, nodes)'
      <3>1. TreeOK(pos, nodes) BY <2>1, <2>3 DEF EmbedInv
      <3>2. TreeOK(pos + 1, nodes) BY <1>1, <2>1, <2>2, <3>1, IgnoreKeeps DEF Added
      <3> QED BY <3>2, <1>1, <2>1, SameInput DEF TreeOK
    <2> QED BY <1>1, <2>1, <2>2, <2>3, SameInput DEF EmbedInv
  <1>4. CASE MissingSrc BY <1>1, <1>4 DEF EmbedInv, MissingSrc
  <1>5. CASE BlockedSrc BY <1>1, <1>5 DEF EmbedInv, BlockedSrc
  <1>6. CASE AddSrc
    <2>1. /\ phase = "add" /\ pos <= Len(input.embedSrcs) /\ RootsOf(input.embedSrcs[pos]) # {}
          /\ Exists(input.embedSrcs[pos])
          /\ nodes' = AddTo(nodes, RelAt(pos))
          /\ pos' = pos + 1 /\ phase' = phase /\ Patterns' = Patterns /\ Files' = Files
      BY <1>6 DEF AddSrc, More, Src, RelAt
    <2>2. pos \in 1..Len(input.embedSrcs) /\ pos + 1 \in 1..(Len(input.embedSrcs) + 1)
      BY <1>1, <2>1, InputFacts DEF EmbedInv
    <2>3. ASSUME Disjoint PROVE TreeOK(pos, nodes)'
      <3>1. TreeOK(pos, nodes) BY <2>1, <2>3 DEF EmbedInv
      <3>2. Added(pos) /\ pos \in Nat BY <1>1, <2>1, <2>2, InputFacts DEF Added
      <3>3. TreeOK(pos + 1, nodes') BY <1>1, <2>1, <2>3, <3>1, <3>2, AddKeeps
      <3> QED BY <3>3, <1>1, <2>1, SameInput DEF TreeOK
    <2> QED BY <1>1, <2>1, <2>2, <2>3, SameInput DEF EmbedInv
  <1>7. CASE TreeBuilt
    <2>1. /\ phase = "add" /\ pos > Len(input.embedSrcs) /\ phase' = "resolve"
          /\ nodes' = nodes /\ Patterns' = Patterns /\ Files' = Files
      BY <1>7 DEF TreeBuilt
    <2>2. pos = Len(input.embedSrcs) + 1 /\ Patterns = <<>> /\ Files = <<>>
      BY <1>1, <2>1, InputFacts DEF EmbedInv
    <2>3. ASSUME Disjoint PROVE TreeOK(Len(input.embedSrcs) + 1, nodes)'
      <3>1. TreeOK(Len(input.embedSrcs) + 1, nodes) BY <2>1, <2>2, <2>3 DEF EmbedInv
      <3> QED BY <3>1, <1>1, <2>1, SameInput DEF TreeOK
    <2>4. FoundInv' BY <2>1, <2>2 DEF FoundInv
    <2> QED BY <1>1, <2>1, <2>3, <2>4, SameInput DEF EmbedInv
  <1>8. CASE nodes' = nodes /\ phase \in {"resolve", "written"} /\ Patterns' = Patterns /\ Files' = Files
    <2>1. ASSUME Disjoint PROVE TreeOK(Len(input.embedSrcs) + 1, nodes)'
      <3>1. TreeOK(Len(input.embedSrcs) + 1, nodes) BY <1>8, <2>1 DEF EmbedInv
      <3> QED BY <3>1, <1>1, <1>8, SameInput DEF TreeOK
    <2>2. FoundInv' BY <1>8 DEF EmbedInv, FoundInv, Matches, MatchedNodes
    <2>3. phase' \notin {"scan", "add"}
      BY <1>8 DEF EmbedNext, embedVars, Scan, IgnoreSrc, MissingSrc, BlockedSrc, AddSrc, TreeBuilt,
                  Resolve, ResolveFails, WriteFile, Ended, More
    <2> QED BY <1>1, <1>8, <2>1, <2>2, <2>3, SameInput DEF EmbedInv
  <1>9. CASE Resolve
    <2> DEFINE e == Embeds[pos]
    <2>1. /\ phase = "resolve" /\ phase' = phase /\ nodes' = nodes
          /\ Patterns' = [x \in DOMAIN Patterns \cup {e} |-> IF x = e THEN Matches(e) ELSE Patterns[x]]
          /\ Files' = [q \in DOMAIN Files \cup Matches(e) |-> IF q \in Matches(e) THEN nodes[q].file ELSE Files[q]]
      BY <1>9 DEF Resolve
    <2>2. ASSUME Disjoint PROVE TreeOK(Len(input.embedSrcs) + 1, nodes)'
      <3>1. TreeOK(Len(input.embedSrcs) + 1, nodes) BY <2>1, <2>2 DEF EmbedInv
      <3> QED BY <3>1, <1>1, <2>1, SameInput DEF TreeOK
    <2>3. FoundInv BY <2>1 DEF EmbedInv
    <2> HIDE DEF e
    <2>4. \A x : Matches(x)' = Matches(x) BY <2>1 DEF Matches, MatchedNodes
    <2>5. \A q \in Matches(e) : q \in DOMAIN nodes /\ ~nodes[q].dir BY DEF Matches
    <2>6. \A x \in DOMAIN Patterns' : Patterns'[x] = Matches(x) BY <2>1, <2>3 DEF FoundInv
    <2>7. \A q \in DOMAIN Files' : q \in DOMAIN nodes /\ ~nodes[q].dir /\ Files'[q] = nodes[q].file
      BY <2>1, <2>3, <2>5 DEF FoundInv
    <2>8. FoundInv' BY <2>1, <2>4, <2>6, <2>7 DEF FoundInv
    <2> QED BY <1>1, <2>1, <2>2, <2>8, SameInput DEF EmbedInv
  <1>10. CASE ResolveFails BY <1>8, <1>10 DEF ResolveFails
  <1>11. CASE WriteFile BY <1>8, <1>11 DEF WriteFile
  <1>12. CASE UNCHANGED embedVars
    <2>1. /\ phase' = phase /\ nodes' = nodes /\ Patterns' = Patterns /\ Files' = Files /\ pos' = pos
      BY <1>12 DEF embedVars
    <2>2. CASE phase \in {"resolve", "written"} BY <1>8, <2>1, <2>2
    <2>3. CASE phase = "add"
      <3>1. Disjoint => TreeOK(pos, nodes)' BY <1>1, <2>1, <2>3, SameInput DEF EmbedInv, TreeOK
      <3> QED BY <1>1, <2>1, <2>3, <3>1, SameInput DEF EmbedInv
    <2> QED BY <1>1, <2>1, <2>2, <2>3 DEF EmbedInv
  <1>13. CASE Ended BY <1>12, <1>13 DEF Ended
  <1> QED BY <1>2, <1>3, <1>4, <1>5, <1>6, <1>7, <1>9, <1>10, <1>11, <1>12, <1>13 DEF EmbedNext

\* The invariant holds in every state: the tree is right while it is built, and what is found in it is
\* found right.
THEOREM EmbedInductive == EmbedSpec => []EmbedInv
  BY EmbedInitially, EmbedStep, PTL DEF EmbedSpec

-----------------------------------------------------------------------------
(* What is found *)

\* In the whole tree a node is that of a file if a source provides one, and stands for the first.
LEMMA WholeTree ==
    ASSUME input \in Inputs, TreeOK(Len(input.embedSrcs) + 1, nodes), NEW q \in DOMAIN nodes
    PROVE  /\ q \in Path /\ q # <<>>
           /\ ~nodes[q].dir <=> Providers(q) # {}
           /\ Providers(q) # {} => nodes[q].file = Provided(q)
  <1> DEFINE N == Len(input.embedSrcs)
  <1>1. Providers(q) \subseteq 1..N /\ N \in Nat BY InputFacts DEF Providers
  <1>2. FoundBefore(N + 1, q) = Providers(q) BY <1>1 DEF FoundBefore
  <1>3. /\ nodes[q].dir <=> Providers(q) = {}
        /\ \A n \in Providers(q) : (\A m \in Providers(q) : n <= m) => nodes[q].file = Disk(n, q)
    BY <1>2 DEF TreeOK
  <1>4. ASSUME Providers(q) # {} PROVE nodes[q].file = Provided(q)
    <2>1. \E n \in Providers(q) : \A m \in Providers(q) : n <= m
      <3>1. Providers(q) \in SUBSET Nat BY <1>1
      <3> QED BY <1>4, <3>1, FirstPlace
    <2> DEFINE n == CHOOSE x \in Providers(q) : \A y \in Providers(q) : x <= y
    <2>2. n \in Providers(q) /\ \A m \in Providers(q) : n <= m BY <2>1
    <2>3. Provided(q) = Disk(n, q) BY DEF Provided, Disk, RootAt
    <2> HIDE DEF n
    <2> QED BY <1>3, <2>2, <2>3
  <1>5. q \in Path /\ q # <<>> BY DEF TreeOK
  <1> QED BY <1>3, <1>4, <1>5

\* Whatever is provided has a node.
LEMMA ProvidedIsNode ==
    ASSUME input \in Inputs, TreeOK(Len(input.embedSrcs) + 1, nodes), NEW q \in Path, q # <<>>, Providers(q) # {}
    PROVE  q \in DOMAIN nodes
  <1>1. PICK n \in Providers(q) : TRUE OBVIOUS
  <1>2. Keeps(n, q) BY <1>1, ProviderKeeps
  <1>3. n \in 1..((Len(input.embedSrcs) + 1) - 1) BY <1>1, InputFacts DEF Providers
  <1> QED BY <1>2, <1>3 DEF TreeOK

\* The paths of the files that sources provide.
LEMMA AllProvidedIs ==
    ASSUME input \in Inputs, NEW q
    PROVE  q \in AllProvided <=> q \in Path /\ q # <<>> /\ Providers(q) # {}
  <1>1. ASSUME q \in AllProvided PROVE q \in Path /\ q # <<>> /\ Providers(q) # {}
    <2>1. PICK n \in DOMAIN input.roots : \E f \in input.files : Below(f, input.roots[n]) /\ q = Rest(f, input.roots[n])
      BY <1>1 DEF AllProvided
    <2>2. PICK f \in input.files : Below(f, input.roots[n]) /\ q = Rest(f, input.roots[n]) BY <2>1
    <2>3. f \in Path /\ input.roots[n] \in Path BY InputFacts
    <2>4. Providers(q) # {} BY <1>1 DEF AllProvided
    <2> QED BY <2>2, <2>3, <2>4, RestIs
  <1>2. ASSUME q \in Path, q # <<>>, Providers(q) # {} PROVE q \in AllProvided
    <2>1. PICK n \in Providers(q) : TRUE BY <1>2
    <2>2. Added(n) /\ Disk(n, q) \in input.files BY <2>1, ProvidersAre
    <2>3. PICK k \in DOMAIN input.roots : RootAt(n) = input.roots[k] BY <2>2, EmbedSourceFacts
    <2>4. RootAt(n) \in Path BY <2>2, EmbedSourceFacts
    <2>5. Below(Disk(n, q), RootAt(n)) /\ Rest(Disk(n, q), RootAt(n)) = q BY <1>2, <2>4, ConcatPath DEF Disk
    <2> QED BY <1>2, <2>2, <2>3, <2>5 DEF AllProvided
  <1> QED BY <1>1, <1>2

\* The path above a node is a node.
LEMMA NodesAbove ==
    ASSUME input \in Inputs, NEW k, NEW t, TreeOK(k, t), NEW q \in DOMAIN t, NEW p \in Path, p # <<>>, At(q, p)
    PROVE  p \in DOMAIN t
  <1>1. q \in Path /\ q # <<>> BY DEF TreeOK
  <1>2. PICK n \in 1..(k - 1) : Keeps(n, q) BY DEF TreeOK
  <1> DEFINE r == RelAt(n)
  <1>3. Added(n) /\ r \in Path BY <1>2, EmbedSourceFacts DEF Keeps
  <1>4. CASE q \in Parents(r)
    <2>1. Below(r, q) BY <1>3, <1>4, ParentsAre
    <2>2. Below(r, p)
      <3> HIDE DEF r
      <3> QED BY <1>1, <1>3, <2>1, BelowOrder DEF At
    <2>3. Keeps(n, p) BY <1>3, <2>2, ParentsAre DEF Keeps
    <2> QED BY <2>3 DEF TreeOK
  <1>5. CASE At(q, r) /\ Exists(Disk(n, q))
    <2>1. Below(r, p) \/ (At(p, r) /\ (p = q \/ Below(q, p)))
      <3> HIDE DEF r
      <3> QED BY <1>1, <1>3, <1>5, BelowOrder DEF At
    <2>2. ASSUME Below(q, p) PROVE Exists(Disk(n, p)) BY <1>1, <1>3, <1>5, <2>2, DiskFacts DEF Exists
    <2>3. Keeps(n, p) BY <1>3, <1>5, <2>1, <2>2, ParentsAre DEF Keeps
    <2> QED BY <2>3 DEF TreeOK
  <1> QED BY <1>2, <1>4, <1>5 DEF Keeps

\* The paths above a path are its beginnings.
LEMMA Beginnings ==
    ASSUME NEW q \in Path
    PROVE  /\ Len(q) \in Nat
           /\ \A n \in 0..Len(q) : /\ SubSeq(q, 1, n) \in Path /\ Len(SubSeq(q, 1, n)) = n
                                   /\ SubSeq(q, 1, n) = <<>> <=> n = 0
                                   /\ At(q, SubSeq(q, 1, n))
           /\ \A p \in Path : At(q, p) => Len(p) \in 0..Len(q) /\ p = SubSeq(q, 1, Len(p))
  <1>1. Len(q) \in Nat BY DEF Path
  <1>2. ASSUME NEW n \in 0..Len(q)
        PROVE  SubSeq(q, 1, n) \in Path /\ Len(SubSeq(q, 1, n)) = n /\ \A i \in 1..n : SubSeq(q, 1, n)[i] = q[i]
    BY <1>1 DEF Path
  <1>3. ASSUME NEW n \in 0..Len(q) PROVE (SubSeq(q, 1, n) = <<>> <=> n = 0) /\ At(q, SubSeq(q, 1, n))
    <2> DEFINE p == SubSeq(q, 1, n)
    <2>1. p \in Path /\ Len(p) = n /\ \A i \in 1..n : p[i] = q[i] BY <1>2
    <2> HIDE DEF p
    <2>2. p = <<>> <=> n = 0 BY <2>1, EmptySeq DEF Path
    <2>3. At(q, p)
      <3>1. CASE n < Len(q) BY <2>1, <3>1, BelowIs DEF At
      <3>2. CASE n = Len(q)
        <4>1. p = q BY <2>1, <3>2, SeqEqual DEF Path
        <4> QED BY <4>1 DEF At
      <3> QED BY <1>1, <3>1, <3>2
    <2> QED BY <2>2, <2>3 DEF p
  <1>4. ASSUME NEW p \in Path, At(q, p) PROVE Len(p) \in 0..Len(q) /\ p = SubSeq(q, 1, Len(p))
    <2>1. Len(p) \in Nat BY DEF Path
    <2>2. CASE p = q
      <3>1. q = SubSeq(q, 1, Len(q)) BY <1>1, <1>2, SeqEqual DEF Path
      <3> QED BY <1>1, <2>2, <3>1
    <2>3. CASE Below(q, p) BY <1>1, <2>1, <2>3 DEF Below
    <2> QED BY <1>4, <2>2, <2>3 DEF At
  <1> QED BY <1>1, <1>2, <1>3, <1>4

\* The matching nodes above a file are those with the topmost path that matches.
LEMMA Topmost ==
    ASSUME input \in Inputs, NEW k, TreeOK(k, nodes), NEW q \in DOMAIN nodes, NEW e, NEW n \in 0..Len(q)
    PROVE  SubSeq(q, 1, n) \in MatchedNodes(e) <=>
              /\ Match(e, SubSeq(q, 1, n))
              /\ \A j \in 0..(n - 1) : ~Match(e, SubSeq(q, 1, j))
  <1>1. q \in Path BY DEF TreeOK
  <1> DEFINE P(j) == SubSeq(q, 1, j)
  <1>2. Len(q) \in Nat BY <1>1, Beginnings
  <1>3. \A j \in 0..Len(q) : /\ P(j) \in Path /\ Len(P(j)) = j /\ (P(j) = <<>> <=> j = 0) /\ At(q, P(j))
    BY <1>1, Beginnings
  <1> HIDE DEF P
  <1>4. \A j \in 0..Len(q) : j # 0 => P(j) \in DOMAIN nodes BY <1>3, NodesAbove
  <1>5. \A j \in 0..Len(q) : j # 0 /\ Match(e, P(j)) => j = Len(e.segs) BY <1>3 DEF Match
  <1>6. 0 \in 0..Len(q) BY <1>2
  <1>7. CASE n = 0
    <2>1. P(n) = <<>> /\ 0..(n - 1) = {} BY <1>3, <1>7
    <2>2. <<>> \notin DOMAIN nodes BY DEF TreeOK
    <2> QED BY <2>1, <2>2 DEF MatchedNodes, P
  <1>8. CASE n # 0
    <2>1. P(n) # <<>> /\ P(0) = <<>> BY <1>3, <1>6, <1>8
    <2>2. P(n) \in DOMAIN nodes BY <1>4, <1>8
    <2>3. P(n) \in MatchedNodes(e) <=> ~Match(e, <<>>) /\ Match(e, P(n)) BY <2>1, <2>2 DEF MatchedNodes
    <2>4. Match(e, P(n)) => \A j \in 0..(n - 1) : Match(e, P(j)) => j = 0
      <3> SUFFICES ASSUME Match(e, P(n)), NEW j \in 0..(n - 1), Match(e, P(j)) PROVE j = 0 OBVIOUS
      <3>1. j \in 0..Len(q) /\ j < n BY <1>2
      <3> QED BY <1>5, <1>8, <3>1
    <2>5. 0 \in 0..(n - 1) BY <1>2, <1>8
    <2>6. P(n) \in MatchedNodes(e) <=> Match(e, P(n)) /\ \A j \in 0..(n - 1) : ~Match(e, P(j))
      BY <2>1, <2>3, <2>4, <2>5
    <2> QED BY <2>6 DEF P
  <1> QED BY <1>7, <1>8

\* What the walk finds is what the definition says, for a tree that is right.
LEMMA FoundIs ==
    ASSUME input \in Inputs, TreeOK(Len(input.embedSrcs) + 1, nodes), NEW e
    PROVE  Matches(e) = {q \in AllProvided :
                \E n \in 0..Len(q) :
                    /\ Match(e, SubSeq(q, 1, n))
                    /\ \A k \in 0..(n - 1) : ~Match(e, SubSeq(q, 1, k))
                    /\ \A m \in (n + 1)..Len(q) : q[m] \notin Bad /\ (e.all \/ q[m] \notin Hidden)}
  <1> DEFINE Clear(n, q) == \A m \in (n + 1)..Len(q) : q[m] \notin Bad /\ (e.all \/ q[m] \notin Hidden)
             Top(n, q) == Match(e, SubSeq(q, 1, n)) /\ \A k \in 0..(n - 1) : ~Match(e, SubSeq(q, 1, k))
  <1>1. \A q : q \in AllProvided <=> q \in DOMAIN nodes /\ ~nodes[q].dir
    <2> TAKE q
    <2>1. q \in AllProvided <=> q \in Path /\ q # <<>> /\ Providers(q) # {} BY AllProvidedIs
    <2>2. q \in DOMAIN nodes => q \in Path /\ q # <<>> /\ (~nodes[q].dir <=> Providers(q) # {}) BY WholeTree
    <2>3. q \in Path /\ q # <<>> /\ Providers(q) # {} => q \in DOMAIN nodes BY ProvidedIsNode
    <2> QED BY <2>1, <2>2, <2>3
  <1>2. ASSUME NEW q \in DOMAIN nodes
        PROVE  (\E p \in MatchedNodes(e) : (q = p \/ Below(q, p)) /\ Clear(Len(p), q))
                  <=> \E n \in 0..Len(q) : Top(n, q) /\ Clear(n, q)
    <2>1. q \in Path BY DEF TreeOK
    <2>2. \A n \in 0..Len(q) : SubSeq(q, 1, n) \in MatchedNodes(e) <=> Top(n, q) BY Topmost
    <2>3. \A n \in 0..Len(q) : Len(SubSeq(q, 1, n)) = n /\ At(q, SubSeq(q, 1, n)) BY <2>1, Beginnings
    <2>4. MatchedNodes(e) \subseteq Path
      <3>1. <<>> \in Path BY DEF Path
      <3> QED BY <3>1 DEF MatchedNodes, TreeOK
    <2>5. \A p \in MatchedNodes(e) : At(q, p) => Len(p) \in 0..Len(q) /\ p = SubSeq(q, 1, Len(p))
      BY <2>1, <2>4, Beginnings
    <2> HIDE DEF Clear, Top
    <2> QED BY <2>2, <2>3, <2>5 DEF At
  <1>3. \A n, q : Clear(n, q) <=> \A m \in (n + 1)..Len(q) : ~Skipped(e, q[m]) BY DEF Skipped
  <1>4. Matches(e) = {q \in DOMAIN nodes : ~nodes[q].dir /\ \E p \in MatchedNodes(e) : (q = p \/ Below(q, p)) /\ Clear(Len(p), q)}
    BY <1>3 DEF Matches
  <1> HIDE DEF Clear, Top
  <1>5. Matches(e) = {q \in AllProvided : \E n \in 0..Len(q) : Top(n, q) /\ Clear(n, q)} BY <1>1, <1>2, <1>4
  <1> QED BY <1>5 DEF Clear, Top

\* Every embedded path stands for the file of the first source that provides it.
THEOREM FirstWinsHolds == EmbedSpec => []FirstWins
  <1>1. EmbedInv => FirstWins
    <2> SUFFICES ASSUME EmbedInv, phase = "written", Disjoint, NEW q \in DOMAIN Files
                 PROVE  Providers(q) # {} /\ Files[q] = Provided(q) BY DEF FirstWins
    <2>1. input \in Inputs /\ TreeOK(Len(input.embedSrcs) + 1, nodes) /\ FoundInv BY DEF EmbedInv
    <2>2. q \in DOMAIN nodes /\ ~nodes[q].dir /\ Files[q] = nodes[q].file BY <2>1 DEF FoundInv
    <2> QED BY <2>1, <2>2, WholeTree
  <1> QED BY <1>1, EmbedInductive, PTL

\* A pattern finds exactly the files that are provided at or below the topmost path it matches.
THEOREM FoundExactlyHolds == EmbedSpec => []FoundExactly
  <1>1. EmbedInv => FoundExactly
    <2> SUFFICES ASSUME EmbedInv, phase = "written", Disjoint PROVE FoundExactly BY DEF FoundExactly
    <2>1. input \in Inputs /\ TreeOK(Len(input.embedSrcs) + 1, nodes) /\ FoundInv BY DEF EmbedInv
    <2>2. \A e \in DOMAIN Patterns : Patterns[e] = Matches(e) BY <2>1 DEF FoundInv
    <2> QED BY <2>1, <2>2, FoundIs DEF FoundExactly
  <1> QED BY <1>1, EmbedInductive, PTL
=============================================================================
