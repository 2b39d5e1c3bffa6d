---------------------------- MODULE UpgradeDepProofs ---------------------------
(***************************************************************************)
(* What upgrade-dep leaves on disk and which versions it chooses, for any  *)
(* number of dependencies, patches, tags and pages of tags, in every       *)
(* interleaving of its goroutines and however they end.                    *)
(*                                                                         *)
(* The invariant has a part for each goroutine (Own): what it has done to  *)
(* its directories, its patch files and its declaration.  That another     *)
(* goroutine does not disturb it holds because a goroutine that is the     *)
(* only one for its name (Alone) is the only one for its declaration, its  *)
(* directories and its patches.                                            *)
(***************************************************************************)
EXTENDS UpgradeDep, FiniteSetTheorems, SequenceTheorems, WellFoundedInduction, TLAPS

Fields == {"name", "version", "d", "pc", "urlsKwarg", "page", "tags", "url", "body", "n", "cutPatches"}
Early == {"attrs", "tags", "choose", "download", "extract"}
Patching == {"copy", "apply", "diff"}
Late == {"sha256", "strip_prefix", "urls", "remove", "done"}

Initial(d) == [sha256 |-> OldValue, strip_prefix |-> OldValue,
               urls |-> IF input.decls[d].urls THEN OldValue ELSE Missing]

\* The types of what the actions update, and what a goroutine is about.
TypeOK ==
    /\ input \in Inputs
    /\ IsFiniteSet(DOMAIN g)
    /\ \A k \in DOMAIN g :
          /\ DOMAIN g[k] = Fields
          /\ g[k].pc \in Early \cup Patching \cup Late \cup {"failed"}
          /\ g[k].d \in DOMAIN input.decls /\ input.decls[g[k].d].name = g[k].name
    /\ \A k, l \in DOMAIN g : g[k].name = g[l].name => g[k].d = g[l].d
    /\ DOMAIN decl = DOMAIN input.decls /\ DOMAIN disk = DOMAIN input.decls
    /\ \A d \in DOMAIN decl : DOMAIN decl[d] = {"sha256", "strip_prefix", "urls"}
    /\ DOMAIN dirs = Name
    /\ \A name \in Name : /\ DOMAIN dirs[name] = 0..MaxPatches
                          /\ \A j \in 0..MaxPatches : DOMAIN dirs[name][j] = {"archives", "applied"}
    /\ DOMAIN patchFile = Patch

\* The only goroutine for its name.
Alone(k) == \A l \in DOMAIN g : g[l].name = g[k].name => l = k

Strip(k) == stripPrefix(g[k].url, D(k).rel)
Applied(d, j) == [m \in 1..j |-> input.decls[d].patches[m].patch]
Layer(k, j) == [archives |-> {Strip(k)}, applied |-> Applied(g[k].d, j)]
NumPatches(k) == Len(D(k).patches)
Dir(k, j) == dirs[g[k].name][j]

OwnCount(k) ==
    /\ g[k].n \in 1..(NumPatches(k) + 1)
    /\ g[k].pc \in Early => g[k].n = 1
    /\ g[k].pc \in Patching => g[k].n <= NumPatches(k)
    /\ g[k].pc \in Late => g[k].n = NumPatches(k) + 1

\* The patches that are incomplete, while the goroutine is running.
OwnCut(k) == g[k].pc # "failed" => g[k].cutPatches \subseteq 1..(g[k].n - 1)

\* The directories: a layer for each patch applied, on top of the archive.
OwnDirs(k) ==
    /\ g[k].pc \in Early => \A j \in 0..MaxPatches : Dir(k, j) = NoDir
    /\ g[k].pc = "copy" =>
          \/ g[k].n = 1 /\ \A j \in 0..MaxPatches : Dir(k, j) = NoDir
          \/ \A j \in 0..MaxPatches : Dir(k, j) = IF j < g[k].n THEN Layer(k, j) ELSE NoDir
    /\ g[k].pc = "apply" =>
          \A j \in 0..MaxPatches : Dir(k, j) = IF j < g[k].n THEN Layer(k, j)
                                               ELSE IF j = g[k].n THEN Layer(k, j - 1) ELSE NoDir
    /\ g[k].pc = "diff" =>
          \A j \in 0..MaxPatches : Dir(k, j) = IF j <= g[k].n THEN Layer(k, j) ELSE NoDir

OwnPatches(k) ==
    \A n \in DOMAIN D(k).patches :
        patchFile[D(k).patches[n].patch] =
            IF n \in g[k].cutPatches THEN CutPatch
            ELSE IF n < g[k].n THEN Regenerated(g[k].d, n, Strip(k)) ELSE OldPatch

OwnAttrs(k) ==
    /\ g[k].pc \in {"strip_prefix", "urls", "remove", "done"} => decl[g[k].d].sha256 = g[k].body
    /\ g[k].pc \in {"urls", "remove", "done"} => decl[g[k].d].strip_prefix = Strip(k)
    /\ g[k].pc \in {"remove", "done"} => decl[g[k].d].urls = g[k].url

Own(k) == OwnCount(k) /\ OwnCut(k) /\ (Alone(k) => OwnDirs(k) /\ OwnPatches(k) /\ OwnAttrs(k))

\* The main goroutine: what it knows of the others, and what it has done to the two files.
MainInv ==
    /\ main \in {"start", "wait", "WORKSPACE", "repositories.bzl"} \cup Ended
    /\ main = "start" => /\ g = <<>>
                         /\ \A name \in Name, j \in 0..MaxPatches : dirs[name][j] = NoDir
                         /\ \A p \in Patch : patchFile[p] = OldPatch
    /\ main \in {"WORKSPACE", "repositories.bzl", "ok", "writeError"} => \A k \in DOMAIN g : g[k].pc = "done"
    /\ main = "error" => \A k \in DOMAIN g : g[k].pc \in {"done", "failed"}

DiskInv ==
    /\ \A d \in DOMAIN decl : (\A k \in DOMAIN g : g[k].d # d) => decl[d] = Initial(d)
    /\ main \notin {"repositories.bzl", "ok", "writeError"} =>
          cut = {} /\ \A d \in DOMAIN disk : disk[d] = Initial(d)
    /\ main = "repositories.bzl" =>
          cut = {} /\ \A d \in DOMAIN disk : disk[d] = IF FileOf(d) = "WORKSPACE" THEN decl[d] ELSE Initial(d)
    /\ main = "ok" => \A d \in DOMAIN disk : disk[d] = decl[d]
    /\ main = "writeError" =>
          \/ cut = {"WORKSPACE"} /\ \A d \in DOMAIN disk : disk[d] = Initial(d)
          \/ cut = {"repositories.bzl"} /\ \A d \in DOMAIN disk : FileOf(d) = "repositories.bzl" => disk[d] = Initial(d)

Inv == TypeOK /\ MainInv /\ DiskInv /\ \A k \in DOMAIN g : Own(k)

-----------------------------------------------------------------------------
(* Declarations and sequences *)

\* What the assumption says of a declaration.
LEMMA Declarations ==
  ASSUME input \in Inputs, NEW d \in DOMAIN input.decls
  PROVE  /\ input.decls[d].name \in Name
         /\ FileOf(d) \in {"WORKSPACE", "repositories.bzl"}
         /\ input.decls[d].patches \in Seq([patch : Patch, ok : BOOLEAN, cmd : BOOLEAN])
         /\ Len(input.decls[d].patches) \in 0..MaxPatches
         /\ input.decls[d].patches # <<>> => input.decls[d].list
         /\ DOMAIN input.decls[d].patches = 1..Len(input.decls[d].patches)
         /\ \A n \in 1..Len(input.decls[d].patches) : input.decls[d].patches[n].patch \in Patch
  <1> DEFINE P == [patch : Patch, ok : BOOLEAN, cmd : BOOLEAN]
             T == [file : {"WORKSPACE", "repositories.bzl"}, name : Name, directive : BOOLEAN, rel : STRING,
                   urls : BOOLEAN, list : BOOLEAN, patches : Seq(P)]
  <1>1. input.decls \in Seq(T) BY InputsAssumption
  <1>2. input.decls[d] \in T
    <2> HIDE DEF T
    <2> QED BY <1>1
  <1>3. input.decls[d].patches \in Seq(P) /\ input.decls[d].name \in Name BY <1>2
  <1>4. MaxPatches \in Nat /\ Len(input.decls[d].patches) <= MaxPatches BY InputsAssumption
  <1>5. \A n \in 1..Len(input.decls[d].patches) : input.decls[d].patches[n] \in P
    <2> HIDE DEF P
    <2> QED BY <1>3
  <1>6. FileOf(d) \in {"WORKSPACE", "repositories.bzl"} BY <1>2 DEF FileOf
  <1>7. Len(input.decls[d].patches) \in Nat /\ DOMAIN input.decls[d].patches = 1..Len(input.decls[d].patches)
    <2> HIDE DEF P
    <2> QED BY <1>3
  <1>8. input.decls[d].patches # <<>> => input.decls[d].list BY InputsAssumption
  <1> QED BY <1>3, <1>4, <1>5, <1>6, <1>7, <1>8

\* Two declarations have no patch file in common.
LEMMA OwnPatchFiles ==
  ASSUME input \in Inputs, NEW d \in DOMAIN input.decls, NEW e \in DOMAIN input.decls,
         NEW m \in DOMAIN input.decls[d].patches, NEW n \in DOMAIN input.decls[e].patches,
         input.decls[d].patches[m].patch = input.decls[e].patches[n].patch
  PROVE  d = e /\ m = n
  BY InputsAssumption

\* The patches applied, one more, and one less.
LEMMA AppliedZero ==
  ASSUME NEW d PROVE Applied(d, 0) = <<>>
  BY DEF Applied

\* One patch more: what patch applied is appended, and the diff is against the one before.
LEMMA AppliedMore ==
  ASSUME input \in Inputs, NEW d \in DOMAIN input.decls, NEW j \in 1..Len(input.decls[d].patches)
  PROVE  /\ Applied(d, j - 1) \in Seq(Patch)
         /\ Append(Applied(d, j - 1), input.decls[d].patches[j].patch) = Applied(d, j)
         /\ Front(Applied(d, j)) = Applied(d, j - 1)
  <1> DEFINE p(m) == input.decls[d].patches[m].patch
  <1>1. Len(input.decls[d].patches) \in Nat /\ \A m \in 1..Len(input.decls[d].patches) : p(m) \in Patch
    BY Declarations
  <1>2. j \in Nat /\ j - 1 \in Nat /\ \A m \in 1..j : p(m) \in Patch BY <1>1
  <1> DEFINE s == [m \in 1..j |-> p(m)]
             r == [m \in 1..(j - 1) |-> p(m)]
  <1> HIDE DEF p
  <1>3. s \in Seq(Patch) /\ Len(s) = j /\ r \in Seq(Patch) /\ Len(r) = j - 1 BY <1>2
  <1>4. Append(r, p(j)) = s
    <2>1. Append(r, p(j)) \in Seq(Patch) /\ Len(Append(r, p(j))) = Len(s) BY <1>2, <1>3
    <2>2. \A m \in 1..j : Append(r, p(j))[m] = s[m] BY <1>2, <1>3
    <2> QED BY <2>1, <2>2, <1>3
  <1>5. SubSeq(s, 1, j - 1) = r
    <2>1. SubSeq(s, 1, j - 1) \in Seq(Patch) /\ Len(SubSeq(s, 1, j - 1)) = j - 1 BY <1>2, <1>3
    <2>2. \A m \in 1..(j - 1) : SubSeq(s, 1, j - 1)[m] = r[m] BY <1>2, <1>3
    <2> QED BY <2>1, <2>2, <1>3
  <1> QED BY <1>3, <1>4, <1>5 DEF p, Applied, Front

\* What diff compares for a patch: the directory before it and the directory after it.
LEMMA RegeneratedIs ==
  ASSUME input \in Inputs, NEW d \in DOMAIN input.decls, NEW j \in 1..Len(input.decls[d].patches), NEW strip
  PROVE  Regenerated(d, j, strip) = PatchIs("new", [archives |-> {strip}, applied |-> Applied(d, j - 1)],
                                                  [archives |-> {strip}, applied |-> Applied(d, j)])
  BY AppliedMore DEF Regenerated, Applied
-----------------------------------------------------------------------------
(* One goroutine's step *)

\* A step of goroutine k leaves alone what is not its own.
Frame(k) ==
    /\ main = "wait" /\ main' \in {"wait", "panic"}
    /\ g[k].pc \notin {"done", "failed"}
    /\ DOMAIN g' = DOMAIN g
    /\ \A l \in DOMAIN g : l # k => g'[l] = g[l]
    /\ DOMAIN g'[k] = Fields /\ g'[k].name = g[k].name /\ g'[k].d = g[k].d
    /\ g'[k].pc \in Early \cup Patching \cup Late \cup {"failed"}
    /\ DOMAIN decl' = DOMAIN decl
    /\ \A d \in DOMAIN decl : d # g[k].d => decl'[d] = decl[d]
    /\ DOMAIN decl'[g[k].d] = {"sha256", "strip_prefix", "urls"}
    /\ DOMAIN dirs' = Name
    /\ \A name \in Name : name # g[k].name => dirs'[name] = dirs[name]
    /\ DOMAIN dirs'[g[k].name] = 0..MaxPatches
    /\ \A j \in 0..MaxPatches : DOMAIN dirs'[g[k].name][j] = {"archives", "applied"}
    /\ DOMAIN patchFile' = Patch
    /\ \A p \in Patch : (\A n \in DOMAIN D(k).patches : D(k).patches[n].patch # p) => patchFile'[p] = patchFile[p]
    /\ UNCHANGED <<input, disk, cut>>

\* A goroutine's step, whatever it does to its own directories, patches and declaration, keeps what
\* the invariant says of another: upgradeDepDecl writes nothing that is not its own.
LEMMA FrameOthers ==
  ASSUME Inv, NEW k \in DOMAIN g, Frame(k), NEW l \in DOMAIN g, l # k
  PROVE  Own(l)'
  <1>1. OwnCount(l)' /\ OwnCut(l)'
    BY DEF Inv, Own, OwnCount, OwnCut, Frame, NumPatches, D
  <1>2. SUFFICES ASSUME Alone(l)' PROVE OwnDirs(l)' /\ OwnPatches(l)' /\ OwnAttrs(l)'
    BY <1>1 DEF Own
  <1>3. Alone(l)
    BY <1>2 DEF Alone, Frame
  <1>4. g[k].name # g[l].name
    BY <1>3 DEF Alone
  <1>5. g[k].d # g[l].d
    BY <1>4 DEF Inv, TypeOK
  <1>6. OwnDirs(l) /\ OwnPatches(l) /\ OwnAttrs(l)
    BY <1>3 DEF Inv, Own
  <1>7. g'[l] = g[l] /\ input' = input
    BY DEF Frame
  <1>8. g[l].d \in DOMAIN input.decls /\ g[l].name \in Name /\ input \in Inputs
    BY Declarations DEF Inv, TypeOK
  <1>9. dirs'[g[l].name] = dirs[g[l].name]
    BY <1>4, <1>8 DEF Frame
  <1>10. OwnDirs(l)'
    BY <1>6, <1>7, <1>9 DEF OwnDirs, Dir, Layer, Strip, Applied, D
  <1>11. OwnAttrs(l)'
    BY <1>5, <1>6, <1>7, <1>8 DEF OwnAttrs, Strip, D, Frame, Inv, TypeOK
  <1>12. ASSUME NEW n \in DOMAIN D(l).patches
         PROVE  /\ patchFile'[D(l).patches[n].patch] = patchFile[D(l).patches[n].patch]
                /\ Regenerated(g[l].d, n, Strip(l))' = Regenerated(g[l].d, n, Strip(l))
    <2>1. D(l).patches[n].patch \in Patch
      BY <1>8, <1>12, Declarations DEF D
    <2>2. g[k].d \in DOMAIN input.decls
      BY DEF Inv, TypeOK
    <2>3. \A m \in DOMAIN D(k).patches : D(k).patches[m].patch # D(l).patches[n].patch
      BY <1>5, <1>8, <1>12, <2>2, OwnPatchFiles DEF D
    <2>4. Regenerated(g[l].d, n, Strip(l))' = Regenerated(g[l].d, n, Strip(l))
      BY <1>7 DEF Regenerated, Strip, D
    <2> QED
      BY <2>1, <2>3, <2>4 DEF Frame
  <1>13. OwnPatches(l)'
    <2>1. D(l)' = D(l)
      BY <1>7 DEF D
    <2>2. SUFFICES ASSUME NEW n \in DOMAIN D(l).patches
                   PROVE  patchFile'[D(l).patches[n].patch] =
                            IF n \in g[l].cutPatches THEN CutPatch
                            ELSE IF n < g[l].n THEN Regenerated(g[l].d, n, Strip(l)) ELSE OldPatch
      BY <1>7, <1>12, <2>1 DEF OwnPatches
    <2> QED
      BY <1>6, <1>12 DEF OwnPatches, Frame
  <1> QED
    BY <1>10, <1>11, <1>13

\* So a goroutine's step keeps the invariant if it keeps the goroutine's own part.
LEMMA FrameStep ==
  ASSUME Inv, NEW k \in DOMAIN g, Frame(k), Own(k)'
  PROVE  Inv'
  <1>1. TypeOK'
    <2>1. \A l \in DOMAIN g : g'[l].name = g[l].name /\ g'[l].d = g[l].d
      BY DEF Frame
    <2>2. \A l \in DOMAIN g' : /\ DOMAIN g'[l] = Fields
                               /\ g'[l].pc \in Early \cup Patching \cup Late \cup {"failed"}
                               /\ g'[l].d \in DOMAIN input'.decls /\ input'.decls[g'[l].d].name = g'[l].name
      BY <2>1 DEF Inv, TypeOK, Frame
    <2>3. /\ input' \in Inputs /\ IsFiniteSet(DOMAIN g')
          /\ \A l, m \in DOMAIN g' : g'[l].name = g'[m].name => g'[l].d = g'[m].d
      BY <2>1 DEF Inv, TypeOK, Frame
    <2>4. /\ DOMAIN decl' = DOMAIN input'.decls /\ DOMAIN disk' = DOMAIN input'.decls
          /\ \A d \in DOMAIN decl' : DOMAIN decl'[d] = {"sha256", "strip_prefix", "urls"}
      BY DEF Inv, TypeOK, Frame
    <2>5. /\ DOMAIN dirs' = Name /\ DOMAIN patchFile' = Patch
          /\ \A name \in Name : /\ DOMAIN dirs'[name] = 0..MaxPatches
                                /\ \A j \in 0..MaxPatches : DOMAIN dirs'[name][j] = {"archives", "applied"}
      BY DEF Inv, TypeOK, Frame
    <2> QED
      BY <2>2, <2>3, <2>4, <2>5 DEF TypeOK
  <1>2. MainInv'
    BY DEF Inv, MainInv, Frame, Ended
  <1>3. DiskInv'
    <2>1. \A d \in DOMAIN decl' : (\A l \in DOMAIN g' : g'[l].d # d) => decl'[d] = Initial(d)'
      BY DEF Inv, DiskInv, Frame, Initial
    <2>2. cut = {} /\ \A d \in DOMAIN disk : disk[d] = Initial(d)
      BY DEF Inv, DiskInv, Frame
    <2>3. cut' = {} /\ \A d \in DOMAIN disk' : disk'[d] = Initial(d)'
      BY <2>2 DEF Frame, Initial
    <2> QED
      BY <2>1, <2>3 DEF DiskInv, Frame
  <1>4. \A l \in DOMAIN g' : Own(l)'
    BY FrameOthers DEF Frame
  <1> QED
    BY <1>1, <1>2, <1>3, <1>4 DEF Inv

\* A goroutine that is running: the main goroutine is in eg.Wait.
LEMMA Waiting ==
  ASSUME Inv, NEW k, NEW p \in Early \cup Patching \cup (Late \ {"done"}), At(k, p)
  PROVE  /\ k \in DOMAIN g /\ main = "wait" /\ g[k].pc = p /\ g[k].pc \notin {"done", "failed"}
         /\ input \in Inputs /\ g[k].d \in DOMAIN input.decls /\ g[k].name \in Name
         /\ DOMAIN g[k] = Fields
         /\ NumPatches(k) \in 0..MaxPatches /\ DOMAIN D(k).patches = 1..NumPatches(k) /\ MaxPatches \in Nat
         /\ \A n \in 1..NumPatches(k) : D(k).patches[n].patch \in Patch
  <1>1. k \in DOMAIN g /\ main \notin Ended /\ g[k].pc = p
    BY DEF At
  <1>2. p \notin {"done", "failed"}
    BY DEF Early, Patching, Late
  <1>3. main = "wait"
    BY <1>1, <1>2 DEF Inv, MainInv, Ended
  <1>4. input \in Inputs /\ g[k].d \in DOMAIN input.decls /\ input.decls[g[k].d].name = g[k].name /\ DOMAIN g[k] = Fields
    BY <1>1 DEF Inv, TypeOK
  <1> QED
    BY <1>1, <1>2, <1>3, <1>4, Declarations, InputsAssumption DEF NumPatches, D

\* Steps that change nothing but the goroutine itself, before it has a directory.
LEMMA EarlyStep ==
  ASSUME Inv, NEW k, FindAttrs(k) \/ ListTags(k) \/ Choose(k) \/ Download(k)
  PROVE  Inv'
  <1>1. PICK p \in Early \ {"extract"} : At(k, p)
    BY DEF FindAttrs, ListTags, Choose, Download, Early
  <1>2. /\ k \in DOMAIN g /\ main = "wait" /\ g[k].pc = p /\ g[k].pc \notin {"done", "failed"}
        /\ input \in Inputs /\ g[k].d \in DOMAIN input.decls /\ g[k].name \in Name
        /\ DOMAIN g[k] = Fields /\ NumPatches(k) \in Nat
        /\ D(k).patches = <<>> <=> NumPatches(k) = 0
        /\ D(k).patches # <<>> => D(k).list
        /\ DOMAIN D(k).patches = 1..NumPatches(k)
    <2>1. p \in Early \cup Patching \cup (Late \ {"done"}) OBVIOUS
    <2>2. g[k].d \in DOMAIN input.decls /\ input \in Inputs BY <1>1, <2>1, Waiting
    <2>3. D(k).patches \in Seq([patch : Patch, ok : BOOLEAN, cmd : BOOLEAN]) BY <2>2, Declarations DEF D
    <2>4. D(k).patches = <<>> <=> NumPatches(k) = 0 BY <2>3, EmptySeq DEF NumPatches
    <2>5. D(k).patches # <<>> => D(k).list BY <2>2, Declarations DEF D
    <2> QED BY <1>1, <2>1, <2>4, <2>5, Waiting
  <1>3. /\ UNCHANGED <<input, main, cancelled, disk, cut, dirs, patchFile>>
        /\ \/ UNCHANGED decl
           \/ \E x : decl' = [decl EXCEPT ![g[k].d].urls = x] /\ g'[k].pc = "tags"
    BY <1>2 DEF FindAttrs, ListTags, Choose, Download, Fields
  <1>4. /\ DOMAIN g' = DOMAIN g /\ \A l \in DOMAIN g : l # k => g'[l] = g[l]
        /\ DOMAIN g'[k] = Fields /\ g'[k].name = g[k].name /\ g'[k].d = g[k].d /\ g'[k].n = g[k].n
        /\ g'[k].cutPatches = g[k].cutPatches
        /\ \/ g'[k].pc \in Early
           \/ g'[k].pc = "sha256" /\ D(k).patches = <<>>
    <2>1. CASE FindAttrs(k) BY <2>1, <1>2 DEF FindAttrs, Fields, Early
    <2>2. CASE ListTags(k) BY <2>2, <1>2 DEF ListTags, Fields, Early
    <2>3. CASE Choose(k)
      <3>1. PICK x : g' = [g EXCEPT ![k].pc = "download", ![k].url = x]
        BY <2>3 DEF Choose
      <3> QED BY <3>1, <1>2 DEF Fields, Early
    <2>4. CASE Download(k) BY <2>4, <1>2 DEF Download, Fields, Early
    <2> QED BY <2>1, <2>2, <2>3, <2>4
  <1>5. Frame(k)
    BY <1>2, <1>3, <1>4 DEF Frame, Inv, TypeOK, Early, Late
  <1>6. g[k].n = 1 /\ g[k].pc \in Early
    BY <1>2 DEF Inv, Own, OwnCount
  <1>7. OwnCount(k)'
    BY <1>2, <1>3, <1>4, <1>6 DEF OwnCount, NumPatches, D, Early, Patching, Late
  <1>9. OwnCut(k)'
    BY <1>2, <1>4, <1>6 DEF Inv, Own, OwnCut, Early, Late
  <1>8. ASSUME Alone(k)' PROVE OwnDirs(k)' /\ OwnPatches(k)' /\ OwnAttrs(k)'
    <2>1. Alone(k) BY <1>4, <1>8 DEF Alone
    <2>2. OwnDirs(k) /\ OwnPatches(k) BY <1>2, <2>1 DEF Inv, Own
    <2>3. OwnDirs(k)' BY <1>3, <1>4, <1>6, <2>2 DEF OwnDirs, Dir, Early
    <2>4. OwnPatches(k)'
      <3>1. \A n \in DOMAIN D(k).patches : ~(n < 1) BY <1>2
      <3> QED BY <1>3, <1>4, <1>6, <2>2, <3>1 DEF OwnPatches, D
    <2>5. OwnAttrs(k)' BY <1>4 DEF OwnAttrs, Early
    <2> QED BY <2>3, <2>4, <2>5
  <1> QED
    BY <1>2, <1>5, <1>7, <1>8, <1>9, FrameStep DEF Own
\* The steps on the directories and the patch files.
LEMMA ExtractStep ==
  ASSUME Inv, NEW k, Extract(k)
  PROVE  Inv'
  <1>1. At(k, "extract") BY DEF Extract
  <1>2. /\ k \in DOMAIN g /\ main = "wait" /\ g[k].pc = "extract" /\ g[k].pc \notin {"done", "failed"}
        /\ g[k].name \in Name /\ DOMAIN g[k] = Fields
        /\ NumPatches(k) \in 0..MaxPatches /\ DOMAIN D(k).patches = 1..NumPatches(k) /\ MaxPatches \in Nat
    BY <1>1, Waiting DEF Early
  <1>3. /\ g' = [g EXCEPT ![k].pc = IF D(k).patches = <<>> THEN "sha256" ELSE "copy"]
        /\ UNCHANGED <<input, main, cancelled, decl, disk, cut, patchFile>>
    BY DEF Extract
  <1> DEFINE x == Extracted(stripPrefix(g[k].url, D(k).rel))
  <1>4. dirs' = [dirs EXCEPT ![g[k].name][0].archives = @ \cup x]
    BY DEF Extract
  <1>5. x = {} \/ x = {Strip(k)}
    BY DEF Extracted, Strip
  <1>6. /\ DOMAIN dirs = Name /\ DOMAIN dirs[g[k].name] = 0..MaxPatches
        /\ \A j \in 0..MaxPatches : DOMAIN dirs[g[k].name][j] = {"archives", "applied"}
    BY <1>2 DEF Inv, TypeOK
  <1> HIDE DEF x
  <1>7. /\ \A l \in DOMAIN g : l # k => g'[l] = g[l]
        /\ DOMAIN g' = DOMAIN g /\ DOMAIN g'[k] = Fields
        /\ g'[k].pc = IF D(k).patches = <<>> THEN "sha256" ELSE "copy"
        /\ g'[k].name = g[k].name /\ g'[k].d = g[k].d /\ g'[k].n = g[k].n /\ g'[k].url = g[k].url
        /\ g'[k].cutPatches = g[k].cutPatches
    BY <1>2, <1>3 DEF Fields
  <1>8. /\ DOMAIN dirs' = Name /\ \A name \in Name : name # g[k].name => dirs'[name] = dirs[name]
        /\ DOMAIN dirs'[g[k].name] = 0..MaxPatches
        /\ \A j \in 0..MaxPatches : DOMAIN dirs'[g[k].name][j] = {"archives", "applied"}
    BY <1>2, <1>4, <1>6
  <1>9. Frame(k)
    BY <1>2, <1>3, <1>7, <1>8 DEF Frame, Inv, TypeOK, Patching, Late
  <1>13. D(k).patches = <<>> <=> NumPatches(k) = 0
    <2>1. g[k].d \in DOMAIN input.decls /\ input \in Inputs BY <1>1, Waiting DEF Early
    <2>2. D(k).patches \in Seq([patch : Patch, ok : BOOLEAN, cmd : BOOLEAN]) BY <2>1, Declarations DEF D
    <2> QED BY <2>2, EmptySeq DEF NumPatches
  <1>10. OwnCount(k)'
    <2>1. NumPatches(k)' = NumPatches(k) BY <1>3, <1>7 DEF NumPatches, D
    <2>2. g[k].n = 1 BY <1>2 DEF Inv, Own, OwnCount, Early
    <2>3. CASE D(k).patches = <<>> BY <2>1, <2>2, <2>3, <1>2, <1>7, <1>13 DEF OwnCount, Early, Patching, Late
    <2>4. CASE D(k).patches # <<>> BY <2>1, <2>2, <2>4, <1>2, <1>7, <1>13 DEF OwnCount, Early, Patching, Late
    <2> QED BY <2>3, <2>4
  <1>12. OwnCut(k)'
    BY <1>2, <1>7 DEF Inv, Own, OwnCut
  <1>11. ASSUME Alone(k)' PROVE OwnDirs(k)' /\ OwnPatches(k)' /\ OwnAttrs(k)'
    <2>1. Alone(k) BY <1>7, <1>11 DEF Alone
    <2>2. OwnDirs(k) /\ OwnPatches(k) BY <1>2, <2>1 DEF Inv, Own
    <2>3. g[k].n = 1 /\ \A j \in 0..MaxPatches : dirs[g[k].name][j] = NoDir
      BY <1>2, <2>2 DEF OwnDirs, Early, Dir, Inv, Own, OwnCount
    <2>4. dirs'[g[k].name][0] = [archives |-> x, applied |-> <<>>]
      BY <1>2, <1>4, <1>6, <2>3 DEF NoDir
    <2>5. \A j \in 0..MaxPatches : j # 0 => dirs'[g[k].name][j] = NoDir
      BY <1>2, <1>4, <1>6, <2>3
    <2>6. ASSUME NEW j \in 0..MaxPatches, j = 0
          PROVE  Layer(k, j)' = [archives |-> {Strip(k)}, applied |-> <<>>]
      BY <1>3, <1>7, <2>6, AppliedZero DEF Layer, Strip, D, Applied
    <2>7. OwnDirs(k)'
      <3>1. CASE x = {}
        BY <3>1, <1>2, <1>7, <2>3, <2>4, <2>5 DEF OwnDirs, Dir, NoDir, Early
      <3>2. CASE x = {Strip(k)}
        <4>1. ASSUME NEW j \in 0..MaxPatches
              PROVE  Dir(k, j)' = IF j < g'[k].n THEN Layer(k, j)' ELSE NoDir
          <5>1. CASE j = 0
            BY <5>1, <3>2, <1>2, <1>7, <2>3, <2>4, <2>6 DEF Dir
          <5>2. CASE j # 0
            BY <5>2, <1>2, <1>7, <2>3, <2>5 DEF Dir
          <5> QED BY <5>1, <5>2
        <4> QED BY <4>1, <1>7 DEF OwnDirs, Early
      <3> QED BY <3>1, <3>2, <1>5
    <2>8. OwnPatches(k)'
      <3>1. \A n \in DOMAIN D(k).patches : ~(n < g[k].n) BY <1>2, <2>3
      <3> QED BY <1>3, <1>7, <2>2, <3>1 DEF OwnPatches, D
    <2>9. OwnAttrs(k)' BY <1>7 DEF OwnAttrs
    <2> QED BY <2>7, <2>8, <2>9
  <1> QED
    BY <1>2, <1>9, <1>10, <1>11, <1>12, FrameStep DEF Own

\* A step that leaves the patch files and the goroutine's count of them keeps what holds of them.
LEMMA Kept ==
  ASSUME NEW k, UNCHANGED <<input, patchFile>>,
         g'[k].d = g[k].d, g'[k].n = g[k].n, g'[k].url = g[k].url, g'[k].cutPatches = g[k].cutPatches
  PROVE  /\ NumPatches(k)' = NumPatches(k)
         /\ OwnPatches(k) => OwnPatches(k)'
  <1>1. D(k)' = D(k) /\ Strip(k)' = Strip(k) BY DEF D, Strip
  <1>2. \A n \in DOMAIN D(k).patches :
           Regenerated(g[k].d, n, Strip(k))' = Regenerated(g[k].d, n, Strip(k))
    BY <1>1 DEF Regenerated
  <1>3. NumPatches(k)' = NumPatches(k) BY <1>1 DEF NumPatches
  <1>4. ASSUME OwnPatches(k), NEW n \in DOMAIN D(k).patches
        PROVE  patchFile'[D(k).patches[n].patch] =
                  IF n \in g'[k].cutPatches THEN CutPatch
                  ELSE IF n < g'[k].n THEN Regenerated(g[k].d, n, Strip(k))' ELSE OldPatch
    BY <1>2, <1>4 DEF OwnPatches
  <1>5. OwnPatches(k) => OwnPatches(k)'
    BY <1>1, <1>4 DEF OwnPatches
  <1> QED BY <1>3, <1>5

\* copyDir makes the directory of the next patch, a copy of the last one.
LEMMA CopyDirStep ==
  ASSUME Inv, NEW k, CopyDir(k)
  PROVE  Inv'
  <1>1. At(k, "copy") BY DEF CopyDir
  <1>2. /\ k \in DOMAIN g /\ main = "wait" /\ g[k].pc = "copy" /\ g[k].pc \notin {"done", "failed"}
        /\ g[k].name \in Name /\ DOMAIN g[k] = Fields
        /\ NumPatches(k) \in 0..MaxPatches /\ DOMAIN D(k).patches = 1..NumPatches(k) /\ MaxPatches \in Nat
    BY <1>1, Waiting DEF Patching
  <1>3. /\ g' = [g EXCEPT ![k].pc = "apply"]
        /\ dirs' = [dirs EXCEPT ![g[k].name][g[k].n] = dirs[g[k].name][g[k].n - 1]]
        /\ UNCHANGED <<input, main, cancelled, decl, disk, cut, patchFile>>
        /\ dirs[g[k].name][g[k].n - 1] # NoDir
    BY DEF CopyDir, copyDirOk
  <1>4. g[k].n \in 1..NumPatches(k) /\ g[k].n - 1 \in 0..MaxPatches /\ g[k].n \in 0..MaxPatches
    BY <1>2 DEF Inv, Own, OwnCount, Patching
  <1>5. /\ DOMAIN dirs = Name /\ DOMAIN dirs[g[k].name] = 0..MaxPatches
        /\ \A j \in 0..MaxPatches : DOMAIN dirs[g[k].name][j] = {"archives", "applied"}
    BY <1>2 DEF Inv, TypeOK
  <1>6. /\ \A l \in DOMAIN g : l # k => g'[l] = g[l]
        /\ DOMAIN g' = DOMAIN g /\ DOMAIN g'[k] = Fields
        /\ g'[k].pc = "apply" /\ g'[k].name = g[k].name /\ g'[k].d = g[k].d /\ g'[k].n = g[k].n /\ g'[k].url = g[k].url
        /\ g'[k].cutPatches = g[k].cutPatches
    BY <1>2, <1>3 DEF Fields
  <1>7. /\ DOMAIN dirs' = Name /\ \A name \in Name : name # g[k].name => dirs'[name] = dirs[name]
        /\ DOMAIN dirs'[g[k].name] = 0..MaxPatches
        /\ \A j \in 0..MaxPatches : DOMAIN dirs'[g[k].name][j] = {"archives", "applied"}
    BY <1>2, <1>3, <1>4, <1>5
  <1>8. Frame(k)
    BY <1>2, <1>3, <1>6, <1>7 DEF Frame, Inv, TypeOK, Patching
  <1>9. OwnCount(k)'
    <2>1. NumPatches(k)' = NumPatches(k) BY <1>3, <1>6, Kept
    <2> QED BY <2>1, <1>2, <1>4, <1>6 DEF OwnCount, Early, Patching, Late
  <1>11. OwnCut(k)'
    BY <1>2, <1>6 DEF Inv, Own, OwnCut
  <1>10. ASSUME Alone(k)' PROVE OwnDirs(k)' /\ OwnPatches(k)' /\ OwnAttrs(k)'
    <2>1. Alone(k) BY <1>6, <1>10 DEF Alone
    <2>2. OwnDirs(k) /\ OwnPatches(k) BY <1>2, <2>1 DEF Inv, Own
    <2>3. \A j \in 0..MaxPatches : dirs[g[k].name][j] = IF j < g[k].n THEN Layer(k, j) ELSE NoDir
      BY <1>2, <1>3, <1>4, <2>2 DEF OwnDirs, Dir, Early
    <2>4. ASSUME NEW j \in 0..MaxPatches
          PROVE  Dir(k, j)' = IF j < g'[k].n THEN Layer(k, j)' ELSE IF j = g'[k].n THEN Layer(k, j - 1)' ELSE NoDir
      <3>1. Layer(k, j)' = Layer(k, j) /\ Layer(k, j - 1)' = Layer(k, j - 1)
        BY <1>3, <1>6 DEF Layer, Strip, D, Applied
      <3>2. CASE j = g[k].n
        <4>1. Dir(k, j)' = dirs[g[k].name][g[k].n - 1]
          BY <3>2, <1>2, <1>3, <1>4, <1>5, <1>6 DEF Dir
        <4>2. dirs[g[k].name][g[k].n - 1] = Layer(k, j - 1)
          BY <3>2, <1>4, <2>3
        <4> QED BY <4>1, <4>2, <3>1, <3>2, <1>4, <1>6
      <3>3. CASE j # g[k].n
        <4>1. Dir(k, j)' = dirs[g[k].name][j]
          BY <3>3, <1>2, <1>3, <1>4, <1>5, <1>6 DEF Dir
        <4> QED BY <4>1, <3>1, <3>3, <2>3, <1>4, <1>6
      <3> QED BY <3>2, <3>3
    <2>5. OwnDirs(k)' BY <1>6, <2>4 DEF OwnDirs, Early
    <2>6. OwnPatches(k)' BY <1>3, <1>6, <2>2, Kept
    <2>7. OwnAttrs(k)' BY <1>6 DEF OwnAttrs
    <2> QED BY <2>5, <2>6, <2>7
  <1> QED
    BY <1>2, <1>8, <1>9, <1>10, <1>11, FrameStep DEF Own

\* patch or the command applies the patch in the last directory: the patch file is still the old one,
\* so it applies as a whole.
LEMMA ApplyStep ==
  ASSUME Inv, NEW k, Apply(k)
  PROVE  Inv'
  <1>1. At(k, "apply") BY DEF Apply
  <1>2. /\ k \in DOMAIN g /\ main = "wait" /\ g[k].pc = "apply" /\ g[k].pc \notin {"done", "failed"}
        /\ g[k].name \in Name /\ DOMAIN g[k] = Fields /\ input \in Inputs /\ g[k].d \in DOMAIN input.decls
        /\ NumPatches(k) \in 0..MaxPatches /\ DOMAIN D(k).patches = 1..NumPatches(k) /\ MaxPatches \in Nat
    BY <1>1, Waiting DEF Patching
  <1> DEFINE p == Item(k).patch
             more == [dirs EXCEPT ![g[k].name][g[k].n].applied = Append(@, p)]
  <1>3. /\ g' = [g EXCEPT ![k].pc = "diff"] /\ ~cancelled
        /\ dirs' = more \/ (patchFile[p].kind = "cut" /\ dirs' = dirs)
        /\ UNCHANGED <<input, main, cancelled, decl, disk, cut, patchFile>>
    BY DEF Apply, runForError
  <1>4. g[k].n \in 1..NumPatches(k) /\ g[k].n - 1 \in 0..MaxPatches /\ g[k].n \in 0..MaxPatches
    BY <1>2 DEF Inv, Own, OwnCount, Patching
  <1>5. /\ DOMAIN dirs = Name /\ DOMAIN dirs[g[k].name] = 0..MaxPatches
        /\ \A name \in Name : DOMAIN dirs[name] = 0..MaxPatches
        /\ \A j \in 0..MaxPatches : DOMAIN dirs[g[k].name][j] = {"archives", "applied"}
    BY <1>2 DEF Inv, TypeOK
  <1>6. /\ \A l \in DOMAIN g : l # k => g'[l] = g[l]
        /\ DOMAIN g' = DOMAIN g /\ DOMAIN g'[k] = Fields
        /\ g'[k].pc = "diff" /\ g'[k].name = g[k].name /\ g'[k].d = g[k].d /\ g'[k].n = g[k].n /\ g'[k].url = g[k].url
        /\ g'[k].cutPatches = g[k].cutPatches
    BY <1>2, <1>3 DEF Fields
  <1>7. p = input.decls[g[k].d].patches[g[k].n].patch
    BY DEF Item, D
  <1> HIDE DEF p
  <1>8. /\ DOMAIN dirs' = Name /\ \A name \in Name : name # g[k].name => dirs'[name] = dirs[name]
        /\ DOMAIN dirs'[g[k].name] = 0..MaxPatches
        /\ \A j \in 0..MaxPatches : DOMAIN dirs'[g[k].name][j] = {"archives", "applied"}
    <2>1. CASE dirs' = dirs BY <2>1, <1>5, <1>2
    <2>2. CASE dirs' = more BY <2>2, <1>2, <1>4, <1>5
    <2> QED BY <2>1, <2>2, <1>3
  <1>9. Frame(k)
    BY <1>2, <1>3, <1>6, <1>8 DEF Frame, Inv, TypeOK, Patching
  <1>10. OwnCount(k)'
    <2>1. NumPatches(k)' = NumPatches(k) BY <1>3, <1>6, Kept
    <2> QED BY <2>1, <1>2, <1>4, <1>6 DEF OwnCount, Early, Patching, Late
  <1>12. OwnCut(k)'
    BY <1>2, <1>6 DEF Inv, Own, OwnCut
  <1>11. ASSUME Alone(k)' PROVE OwnDirs(k)' /\ OwnPatches(k)' /\ OwnAttrs(k)'
    <2>1. Alone(k) BY <1>6, <1>11 DEF Alone
    <2>2. OwnDirs(k) /\ OwnPatches(k) BY <1>2, <2>1 DEF Inv, Own
    <2>3. \A j \in 0..MaxPatches : dirs[g[k].name][j] =
              IF j < g[k].n THEN Layer(k, j) ELSE IF j = g[k].n THEN Layer(k, j - 1) ELSE NoDir
      BY <1>2, <2>2 DEF OwnDirs, Dir, Early
    <2>4. dirs' = more
      <3>1. patchFile[p] = OldPatch
        <4>1. g[k].n \in DOMAIN D(k).patches /\ ~(g[k].n < g[k].n) /\ p = D(k).patches[g[k].n].patch
          BY <1>2, <1>4, <1>7 DEF D
        <4>2. g[k].n \notin g[k].cutPatches BY <4>1, <1>2, <1>4 DEF Inv, Own, OwnCut
        <4> QED BY <4>1, <4>2, <2>2 DEF OwnPatches
      <3>2. patchFile[p].kind = "old"
        BY <3>1 DEF OldPatch, PatchIs
      <3> QED BY <1>3, <3>2
    <2>5. ASSUME NEW j \in 0..MaxPatches
          PROVE  Dir(k, j)' = IF j <= g'[k].n THEN Layer(k, j)' ELSE NoDir
      <3>1. Layer(k, j)' = Layer(k, j)
        BY <1>3, <1>6 DEF Layer, Strip, D, Applied
      <3>2. CASE j = g[k].n
        <4>1. Dir(k, j)' = [dirs[g[k].name][j] EXCEPT !.applied = Append(@, p)]
          BY <3>2, <2>4, <1>2, <1>4, <1>5, <1>6 DEF Dir
        <4>2. dirs[g[k].name][j] = [archives |-> {Strip(k)}, applied |-> Applied(g[k].d, j - 1)]
          <5>1. dirs[g[k].name][j] = Layer(k, j - 1) BY <3>2, <1>4, <2>3
          <5> QED BY <5>1 DEF Layer
        <4>3. Append(Applied(g[k].d, j - 1), p) = Applied(g[k].d, j)
          BY <3>2, <1>2, <1>4, <1>7, AppliedMore DEF NumPatches, D
        <4>4. Dir(k, j)' = [archives |-> {Strip(k)}, applied |-> Applied(g[k].d, j)]
          <5> DEFINE dir == dirs[g[k].name][j]
                     a == {Strip(k)}
                     s == Applied(g[k].d, j - 1)
          <5>1. dir = [archives |-> a, applied |-> s] BY <4>2
          <5>2. Dir(k, j)' = [dir EXCEPT !.applied = Append(@, p)] BY <4>1
          <5> HIDE DEF dir, a, s
          <5>3. [dir EXCEPT !.applied = Append(@, p)] = [archives |-> a, applied |-> Append(s, p)]
            BY <5>1
          <5> QED BY <4>3, <5>2, <5>3 DEF a, s
        <4> QED BY <4>4, <3>1, <3>2, <1>4, <1>6 DEF Layer
      <3>3. CASE j # g[k].n
        <4>1. Dir(k, j)' = dirs[g[k].name][j]
          BY <3>3, <2>4, <1>2, <1>4, <1>5, <1>6 DEF Dir
        <4> QED BY <4>1, <3>1, <3>3, <2>3, <1>4, <1>6
      <3> QED BY <3>2, <3>3
    <2>6. OwnDirs(k)' BY <1>6, <2>5 DEF OwnDirs, Early
    <2>7. OwnPatches(k)' BY <1>3, <1>6, <2>2, Kept
    <2>8. OwnAttrs(k)' BY <1>6 DEF OwnAttrs
    <2> QED BY <2>6, <2>7, <2>8
  <1> QED
    BY <1>2, <1>9, <1>10, <1>11, <1>12, FrameStep DEF Own

\* diff and os.WriteFile regenerate the patch from the last two directories, or leave it incomplete
\* when diff fails, which is recorded and nothing else.
LEMMA WritePatchStep ==
  ASSUME Inv, NEW k, WritePatch(k)
  PROVE  Inv'
  <1>1. At(k, "diff") BY DEF WritePatch
  <1>2. /\ k \in DOMAIN g /\ main = "wait" /\ g[k].pc = "diff" /\ g[k].pc \notin {"done", "failed"}
        /\ g[k].name \in Name /\ DOMAIN g[k] = Fields /\ input \in Inputs /\ g[k].d \in DOMAIN input.decls
        /\ NumPatches(k) \in 0..MaxPatches /\ DOMAIN D(k).patches = 1..NumPatches(k) /\ MaxPatches \in Nat
        /\ \A n \in 1..NumPatches(k) : D(k).patches[n].patch \in Patch
    BY <1>1, Waiting DEF Patching
  <1> DEFINE p == Item(k).patch
             last == g[k].n = NumPatches(k)
  <1>3. PICK failed \in BOOLEAN :
           /\ g' = [g EXCEPT ![k].n = @ + 1, ![k].pc = IF last THEN "sha256" ELSE "copy",
                             ![k].cutPatches = IF failed THEN @ \cup {g[k].n} ELSE @]
           /\ patchFile' = [patchFile EXCEPT ![p] =
                               runForOutput(failed, dirs[g[k].name][g[k].n - 1], dirs[g[k].name][g[k].n])]
           /\ UNCHANGED <<input, main, cancelled, decl, disk, cut, dirs>>
    BY DEF WritePatch, NumPatches
  <1> DEFINE new == runForOutput(failed, dirs[g[k].name][g[k].n - 1], dirs[g[k].name][g[k].n])
  <1>13. patchFile' = [patchFile EXCEPT ![p] = new] BY <1>3
  <1>4. g[k].n \in 1..NumPatches(k) /\ g[k].n - 1 \in 0..MaxPatches /\ g[k].n \in 0..MaxPatches
    BY <1>2 DEF Inv, Own, OwnCount, Patching
  <1>5. p = D(k).patches[g[k].n].patch /\ p \in Patch
    BY <1>2, <1>4 DEF Item
  <1> HIDE DEF p, new
  <1>6. /\ \A l \in DOMAIN g : l # k => g'[l] = g[l]
        /\ DOMAIN g' = DOMAIN g /\ DOMAIN g'[k] = Fields
        /\ g'[k].pc = IF last THEN "sha256" ELSE "copy"
        /\ g'[k].name = g[k].name /\ g'[k].d = g[k].d /\ g'[k].n = g[k].n + 1 /\ g'[k].url = g[k].url
        /\ g'[k].cutPatches = IF failed THEN g[k].cutPatches \cup {g[k].n} ELSE g[k].cutPatches
    BY <1>2, <1>3 DEF Fields
  <1>7. DOMAIN patchFile' = Patch /\ patchFile'[p] = new /\ \A q \in Patch : q # p => patchFile'[q] = patchFile[q]
    BY <1>13, <1>5 DEF Inv, TypeOK
  <1>8. Frame(k)
    <2>1. \A q \in Patch : (\A n \in DOMAIN D(k).patches : D(k).patches[n].patch # q) => patchFile'[q] = patchFile[q]
      BY <1>2, <1>4, <1>5, <1>7
    <2> QED BY <2>1, <1>2, <1>3, <1>6, <1>7 DEF Frame, Inv, TypeOK, Patching, Late
  <1>9. /\ NumPatches(k)' = NumPatches(k) /\ D(k)' = D(k) /\ Strip(k)' = Strip(k)
        /\ input' = input /\ g'[k].d = g[k].d
    BY <1>3, <1>6 DEF NumPatches, D, Strip
  <1>10. OwnCount(k)'
    BY <1>2, <1>4, <1>6, <1>9 DEF OwnCount, Early, Patching, Late
  <1>12. OwnCut(k)'
    <2> DEFINE m == g[k].n
               c == g[k].cutPatches
    <2>1. c \subseteq 1..(m - 1) BY <1>2 DEF Inv, Own, OwnCut
    <2>2. m \in Nat \ {0} /\ g'[k].n = m + 1 BY <1>2, <1>4, <1>6
    <2>3. g'[k].cutPatches \subseteq c \cup {m} BY <1>6
    <2> HIDE DEF m, c
    <2>4. c \cup {m} \subseteq 1..((m + 1) - 1) BY <2>1, <2>2
    <2> QED BY <2>2, <2>3, <2>4 DEF OwnCut
  <1>11. ASSUME Alone(k)' PROVE OwnDirs(k)' /\ OwnPatches(k)' /\ OwnAttrs(k)'
    <2>1. Alone(k) BY <1>6, <1>11 DEF Alone
    <2>2. OwnDirs(k) /\ OwnPatches(k) BY <1>2, <2>1 DEF Inv, Own
    <2>3. \A j \in 0..MaxPatches : dirs[g[k].name][j] = IF j <= g[k].n THEN Layer(k, j) ELSE NoDir
      BY <1>2, <2>2 DEF OwnDirs, Dir, Early
    <2>4. OwnDirs(k)'
      <3>1. ASSUME NEW j \in 0..MaxPatches
            PROVE  Dir(k, j)' = IF j < g'[k].n THEN Layer(k, j)' ELSE NoDir
        <4>1. Layer(k, j)' = Layer(k, j) BY <1>9 DEF Layer, Applied
        <4>2. Dir(k, j)' = dirs[g[k].name][j] BY <1>3, <1>6 DEF Dir
        <4>3. j < g'[k].n <=> j <= g[k].n BY <1>4, <1>6
        <4> QED BY <4>1, <4>2, <4>3, <2>3
      <3> QED BY <3>1, <1>6 DEF OwnDirs, Early
    <2>5. new = IF failed THEN CutPatch ELSE Regenerated(g[k].d, g[k].n, Strip(k))
      <3>1. dirs[g[k].name][g[k].n - 1] = Layer(k, g[k].n - 1) /\ dirs[g[k].name][g[k].n] = Layer(k, g[k].n)
        BY <1>4, <2>3
      <3>2. Regenerated(g[k].d, g[k].n, Strip(k)) = PatchIs("new", Layer(k, g[k].n - 1), Layer(k, g[k].n))
        BY <1>2, <1>4, RegeneratedIs DEF NumPatches, D, Layer
      <3> QED BY <3>1, <3>2 DEF new, runForOutput
    <2>6. ASSUME NEW n \in DOMAIN D(k).patches
          PROVE  patchFile'[D(k).patches[n].patch] =
                    IF n \in g'[k].cutPatches THEN CutPatch
                    ELSE IF n < g'[k].n THEN Regenerated(g[k].d, n, Strip(k))' ELSE OldPatch
      <3>1. Regenerated(g[k].d, n, Strip(k))' = Regenerated(g[k].d, n, Strip(k))
        BY <1>9 DEF Regenerated
      <3>2. n \in 1..NumPatches(k) BY <1>2
      <3>3. CASE n = g[k].n
        <4>1. patchFile'[D(k).patches[n].patch] = new BY <3>3, <1>5, <1>7
        <4>2. n < g'[k].n BY <3>3, <1>4, <1>6
        <4>3. n \in g'[k].cutPatches <=> failed
          BY <3>3, <1>2, <1>4, <1>6 DEF Inv, Own, OwnCut
        <4> QED BY <4>1, <4>2, <4>3, <3>1, <3>3, <2>5, <1>3
      <3>4. CASE n # g[k].n
        <4>1. D(k).patches[n].patch # p
          BY <3>2, <3>4, <1>2, <1>4, <1>5, OwnPatchFiles DEF D
        <4>2. patchFile'[D(k).patches[n].patch] = patchFile[D(k).patches[n].patch]
          BY <4>1, <3>2, <1>2, <1>7
        <4>3. n < g'[k].n <=> n < g[k].n BY <3>2, <3>4, <1>4, <1>6
        <4>4. n \in g'[k].cutPatches <=> n \in g[k].cutPatches BY <3>4, <1>6
        <4> QED BY <4>2, <4>3, <4>4, <3>1, <2>2, <1>3 DEF OwnPatches
      <3> QED BY <3>3, <3>4
    <2>7. OwnPatches(k)' BY <2>6, <1>9, <1>6 DEF OwnPatches
    <2>8. OwnAttrs(k)' BY <1>6 DEF OwnAttrs
    <2> QED BY <2>4, <2>7, <2>8
  <1> QED
    BY <1>2, <1>8, <1>10, <1>11, <1>12, FrameStep DEF Own

\* The attributes are set one after the other, once all patches have been written.
LEMMA SetAttrStep ==
  ASSUME Inv, NEW k, SetAttr(k)
  PROVE  Inv'
  <1>1. PICK pc \in {"sha256", "strip_prefix", "urls"} : At(k, pc) BY DEF SetAttr
  <1>2. /\ k \in DOMAIN g /\ main = "wait" /\ g[k].pc = pc /\ g[k].pc \notin {"done", "failed"}
        /\ g[k].name \in Name /\ DOMAIN g[k] = Fields /\ input \in Inputs /\ g[k].d \in DOMAIN input.decls
    BY <1>1, Waiting DEF Late
  <1>3. /\ UNCHANGED <<input, cancelled, disk, cut, dirs, patchFile>> /\ main' \in {main, "panic"}
    BY DEF SetAttr
  <1>4. DOMAIN decl = DOMAIN input.decls /\ DOMAIN decl[g[k].d] = {"sha256", "strip_prefix", "urls"}
    BY <1>2 DEF Inv, TypeOK
  <1> DEFINE Set(new, a, x) ==
               /\ g' = [g EXCEPT ![k].pc = new]
               /\ decl' = [decl EXCEPT ![g[k].d] = [decl[g[k].d] EXCEPT ![a] = x]]
             What(new, a, x) ==
               \/ pc = "sha256" /\ new = "strip_prefix" /\ a = "sha256" /\ x = g[k].body
               \/ pc = "strip_prefix" /\ new = "urls" /\ a = "strip_prefix" /\ x = Strip(k)
               \/ pc = "urls" /\ new = "remove" /\ a = "urls" /\ x = g[k].url
  <1>5. PICK new, a, x : Set(new, a, x) /\ What(new, a, x)
    <2>1. CASE At(k, "sha256")
      <3>1. Set("strip_prefix", "sha256", g[k].body)
        BY <2>1, <1>4 DEF SetAttr, At
      <3>2. What("strip_prefix", "sha256", g[k].body) BY <2>1, <1>2 DEF At
      <3> HIDE DEF Set, What
      <3> QED BY <3>1, <3>2
    <2>2. CASE At(k, "strip_prefix")
      <3>1. Set("urls", "strip_prefix", Strip(k))
        BY <2>2, <1>4 DEF SetAttr, At, Strip
      <3>2. What("urls", "strip_prefix", Strip(k)) BY <2>2, <1>2 DEF At
      <3> HIDE DEF Set, What
      <3> QED BY <3>1, <3>2
    <2>3. CASE At(k, "urls")
      <3>1. Set("remove", "urls", g[k].url)
        BY <2>3, <1>4 DEF SetAttr, At
      <3>2. What("remove", "urls", g[k].url) BY <2>3, <1>2 DEF At
      <3> HIDE DEF Set, What
      <3> QED BY <3>1, <3>2
    <2> QED BY <2>1, <2>2, <2>3, <1>1
  <1>6. /\ \A l \in DOMAIN g : l # k => g'[l] = g[l]
        /\ DOMAIN g' = DOMAIN g /\ DOMAIN g'[k] = Fields
        /\ g'[k].pc = new /\ g'[k].name = g[k].name /\ g'[k].d = g[k].d /\ g'[k].n = g[k].n
        /\ g'[k].url = g[k].url /\ g'[k].body = g[k].body /\ g'[k].cutPatches = g[k].cutPatches
    BY <1>2, <1>5 DEF Fields
  <1>7. /\ DOMAIN decl' = DOMAIN decl /\ \A d \in DOMAIN decl : d # g[k].d => decl'[d] = decl[d]
        /\ decl'[g[k].d] = [decl[g[k].d] EXCEPT ![a] = x]
    BY <1>2, <1>4, <1>5
  <1>8. /\ DOMAIN decl'[g[k].d] = {"sha256", "strip_prefix", "urls"}
        /\ decl'[g[k].d][a] = x
        /\ \A b \in {"sha256", "strip_prefix", "urls"} : b # a => decl'[g[k].d][b] = decl[g[k].d][b]
    BY <1>4, <1>5, <1>7
  <1>9. new \in Late /\ pc \in Late BY <1>5 DEF Late
  <1>10. Frame(k)
    BY <1>2, <1>3, <1>6, <1>7, <1>8, <1>9 DEF Frame, Inv, TypeOK
  <1>11. OwnCount(k)'
    <2>1. NumPatches(k)' = NumPatches(k) BY <1>3, <1>6, Kept
    <2>2. g[k].n = NumPatches(k) + 1 /\ g[k].n \in 1..(NumPatches(k) + 1)
      BY <1>2, <1>9 DEF Inv, Own, OwnCount
    <2> QED BY <2>1, <2>2, <1>6, <1>9 DEF OwnCount, Early, Patching, Late
  <1>13. OwnCut(k)'
    BY <1>2, <1>6 DEF Inv, Own, OwnCut
  <1>12. ASSUME Alone(k)' PROVE OwnDirs(k)' /\ OwnPatches(k)' /\ OwnAttrs(k)'
    <2>1. Alone(k) BY <1>6, <1>12 DEF Alone
    <2>2. OwnPatches(k) /\ OwnAttrs(k) BY <1>2, <2>1 DEF Inv, Own
    <2>3. OwnDirs(k)' BY <1>6, <1>9 DEF OwnDirs, Early, Late
    <2>4. OwnPatches(k)' BY <1>3, <1>6, <2>2, Kept
    <2>5. Strip(k)' = Strip(k) BY <1>3, <1>6 DEF Strip, D
    <2>6. OwnAttrs(k)'
      <3>1. CASE pc = "sha256" BY <3>1, <1>5, <1>6, <1>8 DEF OwnAttrs
      <3>2. CASE pc = "strip_prefix"
        BY <3>2, <1>2, <1>5, <1>6, <1>8, <2>2, <2>5 DEF OwnAttrs
      <3>3. CASE pc = "urls"
        BY <3>3, <1>2, <1>5, <1>6, <1>8, <2>2, <2>5 DEF OwnAttrs
      <3> QED BY <3>1, <3>2, <3>3
    <2> QED BY <2>3, <2>4, <2>6
  <1> QED
    BY <1>2, <1>10, <1>11, <1>12, <1>13, FrameStep DEF Own

\* Removing the archive changes nothing but where the goroutine is.
LEMMA RemoveArchiveStep ==
  ASSUME Inv, NEW k, RemoveArchive(k)
  PROVE  Inv'
  <1>1. At(k, "remove") BY DEF RemoveArchive
  <1>2. /\ k \in DOMAIN g /\ main = "wait" /\ g[k].pc = "remove" /\ g[k].pc \notin {"done", "failed"}
        /\ g[k].name \in Name /\ DOMAIN g[k] = Fields /\ input \in Inputs /\ g[k].d \in DOMAIN input.decls
    BY <1>1, Waiting DEF Late
  <1>3. /\ g' = [g EXCEPT ![k].pc = "done"]
        /\ UNCHANGED <<input, main, cancelled, decl, disk, cut, dirs, patchFile>>
    BY DEF RemoveArchive
  <1>4. /\ \A l \in DOMAIN g : l # k => g'[l] = g[l]
        /\ DOMAIN g' = DOMAIN g /\ DOMAIN g'[k] = Fields
        /\ g'[k].pc = "done" /\ g'[k].name = g[k].name /\ g'[k].d = g[k].d /\ g'[k].n = g[k].n
        /\ g'[k].url = g[k].url /\ g'[k].body = g[k].body /\ g'[k].cutPatches = g[k].cutPatches
    BY <1>2, <1>3 DEF Fields
  <1>5. Frame(k)
    BY <1>2, <1>3, <1>4 DEF Frame, Inv, TypeOK, Late
  <1>6. OwnCount(k)'
    <2>1. NumPatches(k)' = NumPatches(k) BY <1>3, <1>4, Kept
    <2> QED BY <2>1, <1>2, <1>4 DEF Inv, Own, OwnCount, Early, Patching, Late
  <1>7. OwnCut(k)'
    BY <1>2, <1>4 DEF Inv, Own, OwnCut
  <1>8. ASSUME Alone(k)' PROVE OwnDirs(k)' /\ OwnPatches(k)' /\ OwnAttrs(k)'
    <2>1. Alone(k) BY <1>4, <1>8 DEF Alone
    <2>2. OwnPatches(k) /\ OwnAttrs(k) BY <1>2, <2>1 DEF Inv, Own
    <2>3. OwnDirs(k)' BY <1>4 DEF OwnDirs, Early
    <2>4. OwnPatches(k)' BY <1>3, <1>4, <2>2, Kept
    <2>5. OwnAttrs(k)' BY <1>2, <1>3, <1>4, <2>2 DEF OwnAttrs, Strip, D
    <2> QED BY <2>3, <2>4, <2>5
  <1> QED
    BY <1>2, <1>5, <1>6, <1>7, <1>8, FrameStep DEF Own

-----------------------------------------------------------------------------
(* What the goroutines are started with *)

\* A non-empty set of indexes of the declarations has a last one.
LEMMA LastIndex ==
  ASSUME NEW N \in Nat, NEW S \in SUBSET (1..N), S # {}
  PROVE  \E d \in S : \A e \in S : e <= d
  <1> DEFINE T == {x \in Nat : N - x \in S}
             R == OpToRel(<, Nat)
  <1>1. T \subseteq Nat /\ T # {}
    <2>1. PICK d \in S : TRUE OBVIOUS
    <2>2. N - d \in Nat /\ N - (N - d) = d BY <2>1
    <2> QED BY <2>2
  <1>2. IsWellFoundedOn(R, Nat) BY NatLessThanWellFounded
  <1>3. \E x \in T : \A y \in T : ~(<<y, x>> \in R)
    <2> HIDE DEF T, R
    <2> QED BY <1>1, <1>2, WFMin
  <1>4. PICK x \in T : \A y \in T : ~(y < x)
    <2>1. PICK x \in T : \A y \in T : ~(<<y, x>> \in R) BY <1>3
    <2>2. ASSUME NEW y \in T PROVE ~(y < x)
      <3>1. ~(<<y, x>> \in R) BY <2>1, <2>2
      <3>2. x \in Nat /\ y \in Nat BY <1>1, <2>1, <2>2
      <3> QED BY <3>1, <3>2 DEF OpToRel
    <2> QED BY <2>1, <2>2
  <1>5. PICK d \in S : x = N - d /\ N - x = d BY <1>4
  <1>6. ASSUME NEW e \in S PROVE e <= d
    <2>1. N - e \in T
      <3>1. N - (N - e) = e /\ N - e \in Nat BY <1>6
      <3> QED BY <3>1, <1>6
    <2>2. ~(N - e < N - d) BY <2>1, <1>4, <1>5
    <2> QED BY <2>2, <1>5
  <1> QED BY <1>5, <1>6

\* The index knows the names of the declarations, and of each a declaration.
LEMMA DepIndex ==
  ASSUME input \in Inputs, NEW n \in DOMAIN depIndex
  PROVE  depIndex[n] \in DOMAIN input.decls /\ input.decls[depIndex[n]].name = n
  <1> DEFINE S == {d \in DOMAIN input.decls : input.decls[d].name = n}
  <1>1. S # {} BY DEF depIndex
  <1>2. input.decls \in Seq([file : {"WORKSPACE", "repositories.bzl"}, name : Name, directive : BOOLEAN, rel : STRING,
                             urls : BOOLEAN, list : BOOLEAN, patches : Seq([patch : Patch, ok : BOOLEAN, cmd : BOOLEAN])])
    BY InputsAssumption
  <1>3. Len(input.decls) \in Nat /\ DOMAIN input.decls = 1..Len(input.decls) BY <1>2, LenProperties
  <1>4. \E d \in S : \A e \in S : e <= d BY <1>1, <1>3, LastIndex
  <1>5. \E d \in DOMAIN input.decls :
           input.decls[d].name = n /\ \A e \in DOMAIN input.decls : input.decls[e].name = n => e <= d
    BY <1>4
  <1>6. depIndex[n] = CHOOSE d \in DOMAIN input.decls :
           input.decls[d].name = n /\ \A e \in DOMAIN input.decls : input.decls[e].name = n => e <= d
    BY DEF depIndex
  <1> QED BY <1>5, <1>6

\* What "all" stands for: the chosen sequence has the elements of the set.
LEMMA SetToSeqOf ==
  ASSUME NEW S, IsFiniteSet(S)
  PROVE  SetToSeq(S) \in [1..Cardinality(S) -> S]
  <1>1. ExistsBijection(1..Cardinality(S), S) BY FS_CardinalityType
  <1>2. PICK f \in Bijection(1..Cardinality(S), S) : TRUE BY <1>1 DEF ExistsBijection
  <1>3. f \in [1..Cardinality(S) -> S] /\ IsInjective(f) BY <1>2 DEF Bijection, Injection, IsInjective
  <1> QED BY <1>3 DEF SetToSeq

\* The requests: as many as there are arguments, or as there are declarations with a
\* directive; each names a declaration.
LEMMA RequestsOK ==
  ASSUME input \in Inputs, ~BadArgs
  PROVE  IsFiniteSet(DOMAIN Requests) /\ \A k \in DOMAIN Requests : Requests[k].name \in DOMAIN depIndex
  <1> DEFINE S == {n \in DOMAIN depIndex : Directive(depIndex[n])}
  <1>1. CASE All
    <2>1. IsFiniteSet(S)
      <3> DEFINE U == {d \in DOMAIN input.decls : \E n \in S : depIndex[n] = d}
                 f == [d \in U |-> input.decls[d].name]
      <3>1. IsFiniteSet(U)
        <4>1. input.decls \in Seq([file : {"WORKSPACE", "repositories.bzl"}, name : Name, directive : BOOLEAN, rel : STRING,
                             urls : BOOLEAN, list : BOOLEAN, patches : Seq([patch : Patch, ok : BOOLEAN, cmd : BOOLEAN])])
          BY InputsAssumption
        <4>2. Len(input.decls) \in Nat /\ DOMAIN input.decls = 1..Len(input.decls) BY <4>1, LenProperties
        <4>3. IsFiniteSet(DOMAIN input.decls) BY <4>2, FS_Interval
        <4>4. U \in SUBSET DOMAIN input.decls OBVIOUS
        <4> HIDE DEF U
        <4> QED BY <4>3, <4>4, FS_Subset
      <3>2. \A n \in S : depIndex[n] \in DOMAIN input.decls /\ input.decls[depIndex[n]].name = n
        BY DepIndex
      <3>3. f \in [U -> S] BY <3>2
      <3>4. \A n \in S : depIndex[n] \in U /\ f[depIndex[n]] = n BY <3>2
      <3> HIDE DEF U, f, S
      <3>5. f \in Surjection(U, S) BY <3>3, <3>4 DEF Surjection
      <3> QED BY <3>1, <3>5, FS_Surjection
    <2>2. SetToSeq(S) \in [1..Cardinality(S) -> S] BY <2>1, SetToSeqOf
    <2>3. Cardinality(S) \in Nat /\ IsFiniteSet(1..Cardinality(S)) BY <2>1, FS_CardinalityType, FS_Interval
    <2>4. Requests = [k \in 1..Cardinality(S) |-> [name |-> SetToSeq(S)[k], version |-> {}]]
      BY <1>1 DEF Requests
    <2>5. S \subseteq DOMAIN depIndex OBVIOUS
    <2> HIDE DEF S
    <2> QED BY <2>2, <2>3, <2>4, <2>5
  <1>2. CASE ~All
    <2>1. input.args \in Seq([name : STRING, version : SUBSET [num : Nat, pre : BOOLEAN]]) BY InputsAssumption
    <2>2. Len(input.args) \in Nat /\ DOMAIN input.args = 1..Len(input.args) BY <2>1, LenProperties
    <2>3. IsFiniteSet(DOMAIN input.args) BY <2>2, FS_Interval
    <2>4. Requests = input.args BY <1>2 DEF Requests
    <2> QED BY <1>2, <2>3, <2>4 DEF BadArgs
  <1> QED BY <1>1, <1>2

\* An error of a goroutine, which may leave the patch file it was writing incomplete, or come after
\* its attributes are set.
LEMMA FailStep ==
  ASSUME Inv, NEW k, Fail(k)
  PROVE  Inv'
  <1>1. PICK pc \in Early \cup Patching \cup {"remove"} : At(k, pc) BY DEF Fail, Early, Patching
  <1>2. /\ k \in DOMAIN g /\ main = "wait" /\ g[k].pc = pc /\ g[k].pc \notin {"done", "failed"}
        /\ g[k].name \in Name /\ DOMAIN g[k] = Fields /\ input \in Inputs /\ g[k].d \in DOMAIN input.decls
        /\ NumPatches(k) \in 0..MaxPatches /\ DOMAIN D(k).patches = 1..NumPatches(k) /\ MaxPatches \in Nat
        /\ \A n \in 1..NumPatches(k) : D(k).patches[n].patch \in Patch
    <2>1. pc \in Early \cup Patching \cup (Late \ {"done"}) BY DEF Late
    <2> QED BY <1>1, <2>1, Waiting
  <1> DEFINE Cut == /\ g[k].pc = "diff"
                    /\ g' = [g EXCEPT ![k].pc = "failed", ![k].cutPatches = @ \cup {g[k].n}]
                    /\ patchFile' = [patchFile EXCEPT ![Item(k).patch] = CutPatch]
             Whole == g' = [g EXCEPT ![k].pc = "failed"] /\ patchFile' = patchFile
  <1>3. (Cut \/ Whole) /\ UNCHANGED <<input, main, decl, disk, cut, dirs>>
    BY DEF Fail, At
  <1>4. /\ \A l \in DOMAIN g : l # k => g'[l] = g[l]
        /\ DOMAIN g' = DOMAIN g /\ DOMAIN g'[k] = Fields
        /\ g'[k].pc = "failed" /\ g'[k].name = g[k].name /\ g'[k].d = g[k].d /\ g'[k].n = g[k].n /\ g'[k].url = g[k].url
    BY <1>2, <1>3 DEF Fields
  <1>5. DOMAIN patchFile = Patch BY DEF Inv, TypeOK
  <1>6. /\ DOMAIN patchFile' = Patch
        /\ \A p \in Patch : (\A n \in DOMAIN D(k).patches : D(k).patches[n].patch # p) => patchFile'[p] = patchFile[p]
        /\ \A n \in DOMAIN D(k).patches :
              \/ /\ patchFile'[D(k).patches[n].patch] = patchFile[D(k).patches[n].patch]
                 /\ n \in g'[k].cutPatches <=> n \in g[k].cutPatches
              \/ patchFile'[D(k).patches[n].patch] = CutPatch /\ n \in g'[k].cutPatches
    <2>1. CASE Whole
      <3>1. g'[k].cutPatches = g[k].cutPatches /\ patchFile' = patchFile BY <2>1, <1>2 DEF Fields
      <3> QED BY <3>1, <1>5
    <2>2. CASE Cut
      <3>1. g[k].n \in 1..NumPatches(k) BY <1>2, <2>2 DEF Inv, Own, OwnCount, Patching
      <3>2. Item(k).patch = D(k).patches[g[k].n].patch BY DEF Item
      <3>3. g'[k].cutPatches = g[k].cutPatches \cup {g[k].n} BY <2>2, <1>2 DEF Fields
      <3>4. /\ DOMAIN patchFile' = Patch /\ patchFile'[D(k).patches[g[k].n].patch] = CutPatch
            /\ \A p \in Patch : p # D(k).patches[g[k].n].patch => patchFile'[p] = patchFile[p]
        BY <2>2, <3>1, <3>2, <1>2, <1>5
      <3>5. \A n \in DOMAIN D(k).patches : n # g[k].n => D(k).patches[n].patch # D(k).patches[g[k].n].patch
        BY <3>1, <1>2, OwnPatchFiles DEF D
      <3>6. ASSUME NEW n \in DOMAIN D(k).patches, n # g[k].n
            PROVE  /\ patchFile'[D(k).patches[n].patch] = patchFile[D(k).patches[n].patch]
                   /\ n \in g'[k].cutPatches <=> n \in g[k].cutPatches
        <4>1. D(k).patches[n].patch \in Patch /\ D(k).patches[n].patch # D(k).patches[g[k].n].patch
          BY <3>5, <3>6, <1>2
        <4> QED BY <4>1, <3>3, <3>4, <3>6
      <3>7. patchFile'[D(k).patches[g[k].n].patch] = CutPatch /\ g[k].n \in g'[k].cutPatches BY <3>3, <3>4
      <3>8. g[k].n \in DOMAIN D(k).patches BY <3>1, <1>2
      <3> HIDE DEF Cut
      <3> QED BY <3>4, <3>6, <3>7, <3>8
    <2> QED BY <2>1, <2>2, <1>3
  <1>7. Frame(k)
    BY <1>2, <1>3, <1>4, <1>6 DEF Frame, Inv, TypeOK
  <1>8. /\ NumPatches(k)' = NumPatches(k) /\ D(k)' = D(k) /\ Strip(k)' = Strip(k)
        /\ input' = input /\ g'[k].d = g[k].d
    BY <1>3, <1>4 DEF NumPatches, D, Strip
  <1>9. OwnCount(k)'
    BY <1>2, <1>4, <1>8 DEF Inv, Own, OwnCount, Early, Patching, Late
  <1>11. OwnCut(k)'
    BY <1>2, <1>4 DEF Inv, Own, OwnCut
  <1>10. ASSUME Alone(k)' PROVE OwnDirs(k)' /\ OwnPatches(k)' /\ OwnAttrs(k)'
    <2>1. Alone(k) BY <1>4, <1>10 DEF Alone
    <2>2. OwnPatches(k) BY <1>2, <2>1 DEF Inv, Own
    <2>3. OwnDirs(k)' /\ OwnAttrs(k)' BY <1>4 DEF OwnDirs, OwnAttrs, Early
    <2>4. ASSUME NEW n \in DOMAIN D(k).patches
          PROVE  patchFile'[D(k).patches[n].patch] =
                    IF n \in g'[k].cutPatches THEN CutPatch
                    ELSE IF n < g'[k].n THEN Regenerated(g[k].d, n, Strip(k))' ELSE OldPatch
      <3>1. Regenerated(g[k].d, n, Strip(k))' = Regenerated(g[k].d, n, Strip(k))
        BY <1>8 DEF Regenerated
      <3> QED BY <1>4, <1>6, <2>2, <3>1 DEF OwnPatches
    <2>5. OwnPatches(k)' BY <2>4, <1>8, <1>4 DEF OwnPatches
    <2> QED BY <2>3, <2>5
  <1> QED
    BY <1>2, <1>7, <1>9, <1>10, <1>11, FrameStep DEF Own

-----------------------------------------------------------------------------
(* The main goroutine *)

\* Steps of the main goroutine keep the types of what they do not write.
LEMMA TypesKept ==
  ASSUME TypeOK, UNCHANGED <<input, g, decl, patchFile>>, DOMAIN disk' = DOMAIN input.decls,
         DOMAIN dirs' = Name,
         \A name \in Name : /\ DOMAIN dirs'[name] = 0..MaxPatches
                            /\ \A j \in 0..MaxPatches : DOMAIN dirs'[name][j] = {"archives", "applied"}
  PROVE  TypeOK'
  BY DEF TypeOK

\* The goroutines start with nothing done (runUpgradeDep).
LEMMA StartStep ==
  ASSUME Inv, Start
  PROVE  Inv'
  <1>1. main = "start" /\ g = <<>> /\ UNCHANGED <<input, cancelled, decl, disk, cut, dirs, patchFile>>
    BY DEF Start, Inv, MainInv
  <1>2. input \in Inputs /\ DOMAIN g = {}
    BY <1>1 DEF Inv, TypeOK
  <1>3. CASE main' = "error" /\ g' = g
    <2>1. TypeOK'
      <3>1. UNCHANGED <<input, g, decl, disk, dirs, patchFile>> BY <1>1, <1>3
      <3> QED BY <3>1, TypesKept DEF Inv, TypeOK
    <2>2. MainInv' BY <1>1, <1>2, <1>3 DEF Inv, MainInv, Ended
    <2>3. DiskInv' BY <1>1, <1>3 DEF Inv, DiskInv, Initial
    <2>4. \A k \in DOMAIN g' : Own(k)' BY <1>2, <1>3
    <2> QED BY <2>1, <2>2, <2>3, <2>4 DEF Inv
  <1>4. CASE ~BadArgs /\ main' = "wait" /\ g' = [k \in DOMAIN Requests |-> Goroutine(Requests[k])]
    <2>1. IsFiniteSet(DOMAIN g') /\ \A k \in DOMAIN g' : Requests[k].name \in DOMAIN depIndex
      BY <1>2, <1>4, RequestsOK
    <2>2. ASSUME NEW k \in DOMAIN g'
          PROVE  /\ DOMAIN g'[k] = Fields /\ g'[k].pc = "attrs" /\ g'[k].n = 1 /\ g'[k].cutPatches = {}
                 /\ g'[k].d = depIndex[g'[k].name] /\ g'[k].name \in DOMAIN depIndex
                 /\ g'[k].d \in DOMAIN input.decls /\ input.decls[g'[k].d].name = g'[k].name
      <3>1. g'[k] = Goroutine(Requests[k]) BY <1>4, <2>2
      <3>2. /\ DOMAIN g'[k] = Fields /\ g'[k].pc = "attrs" /\ g'[k].n = 1 /\ g'[k].cutPatches = {} /\ g'[k].name = Requests[k].name
            /\ g'[k].d = depIndex[Requests[k].name]
        BY <3>1 DEF Goroutine, Fields
      <3> QED BY <3>2, <2>1, <2>2, <1>2, DepIndex
    <2>3. TypeOK'
      <3>1. UNCHANGED <<input, decl, disk, dirs, patchFile>> BY <1>1
      <3>2. \A k, l \in DOMAIN g' : g'[k].name = g'[l].name => g'[k].d = g'[l].d BY <2>2
      <3>3. \A k \in DOMAIN g' :
              /\ DOMAIN g'[k] = Fields
              /\ g'[k].pc \in Early \cup Patching \cup Late \cup {"failed"}
              /\ g'[k].d \in DOMAIN input.decls /\ input.decls[g'[k].d].name = g'[k].name
        BY <2>2 DEF Early
      <3> HIDE <2>2
      <3>4. TypeOK BY DEF Inv
      <3> QED BY <2>1, <3>1, <3>2, <3>3, <3>4 DEF TypeOK
    <2>4. MainInv' BY <1>1, <1>2, <1>4 DEF Inv, MainInv, Ended
    <2>5. DiskInv'
      BY <1>1, <1>2, <1>4 DEF Inv, DiskInv, Initial
    <2>6. ASSUME NEW k \in DOMAIN g' PROVE Own(k)'
      <3>1. /\ g'[k].name \in Name /\ NumPatches(k)' \in Nat
            /\ D(k)' = input.decls[g'[k].d]
            /\ \A n \in DOMAIN D(k)'.patches : n \in 1..NumPatches(k)' /\ D(k)'.patches[n].patch \in Patch
        <4>1. input' = input BY <1>1
        <4>2. g'[k].d \in DOMAIN input.decls /\ input.decls[g'[k].d].name = g'[k].name BY <2>2, <2>6
        <4>3. D(k)' = input.decls[g'[k].d] /\ NumPatches(k)' = Len(input.decls[g'[k].d].patches)
          BY <4>1 DEF D, NumPatches
        <4>4. MaxPatches \in Nat BY InputsAssumption
        <4> QED BY <4>2, <4>3, <4>4, <1>2, Declarations
      <3>2. OwnCount(k)' BY <2>2, <2>6, <3>1 DEF OwnCount, Early, Patching, Late
      <3>3. OwnDirs(k)' BY <1>1, <2>2, <2>6, <3>1 DEF OwnDirs, Dir, Early, Inv, MainInv
      <3>4. OwnPatches(k)' BY <1>1, <2>2, <2>6, <3>1 DEF OwnPatches, Inv, MainInv
      <3>5. OwnAttrs(k)' /\ OwnCut(k)' BY <2>2, <2>6 DEF OwnAttrs, OwnCut
      <3> QED BY <3>2, <3>3, <3>4, <3>5 DEF Own
    <2> QED BY <2>3, <2>4, <2>5, <2>6 DEF Inv
  <1> QED BY <1>3, <1>4 DEF Start

\* Steps of the main goroutine leave the others alone; once all have finished the directories
\* do not matter.
LEMMA OwnKept ==
  ASSUME Inv, NEW k \in DOMAIN g, UNCHANGED <<input, g, decl, patchFile>>,
         dirs' = dirs \/ g[k].pc \in {"done", "failed"}
  PROVE  Own(k)'
  <1>1. OwnCount(k)' /\ OwnCut(k)' BY DEF Inv, Own, OwnCount, OwnCut, NumPatches, D
  <1>2. SUFFICES ASSUME Alone(k)' PROVE OwnDirs(k)' /\ OwnPatches(k)' /\ OwnAttrs(k)'
    BY <1>1 DEF Own
  <1>3. OwnDirs(k) /\ OwnPatches(k) /\ OwnAttrs(k) BY <1>2 DEF Inv, Own, Alone
  <1>4. OwnDirs(k)'
    BY <1>3 DEF OwnDirs, Dir, Layer, Strip, D, Applied, Early
  <1>5. OwnPatches(k)'
    <2>1. ASSUME NEW n PROVE Regenerated(g[k].d, n, Strip(k))' = Regenerated(g[k].d, n, Strip(k))
      BY DEF Regenerated, Strip, D
    <2> QED BY <1>3, <2>1 DEF OwnPatches, D
  <1>6. OwnAttrs(k)' BY <1>3 DEF OwnAttrs, Strip, D
  <1> QED BY <1>4, <1>5, <1>6

\* The user's interrupt only ends the context.
LEMMA InterruptStep ==
  ASSUME Inv, Interrupt
  PROVE  Inv'
  <1>1. TypeOK' BY DEF Inv, TypeOK, Interrupt
  <1>2. MainInv' BY DEF Inv, MainInv, Interrupt, Ended
  <1>3. DiskInv' BY DEF Inv, DiskInv, Interrupt, Initial
  <1>4. \A k \in DOMAIN g' : Own(k)' BY OwnKept DEF Interrupt
  <1> QED BY <1>1, <1>2, <1>3, <1>4 DEF Inv

\* The work directory when the command ends.
LEMMA CleanedUp ==
  ASSUME Inv, CleanUp, UNCHANGED input
  PROVE  /\ DOMAIN dirs' = Name
         /\ \A name \in Name : /\ DOMAIN dirs'[name] = 0..MaxPatches
                               /\ \A j \in 0..MaxPatches : DOMAIN dirs'[name][j] = {"archives", "applied"}
  <1>1. CASE UNCHANGED dirs BY <1>1 DEF Inv, TypeOK
  <1>2. CASE dirs' = [n \in Name |-> [k \in 0..MaxPatches |-> NoDir]] BY <1>2 DEF NoDir
  <1> QED BY <1>1, <1>2 DEF CleanUp

\* eg.Wait returns when all goroutines have ended, with the error of one of them.
LEMMA WaitStep ==
  ASSUME Inv, Wait
  PROVE  Inv'
  <1>1. /\ main = "wait" /\ UNCHANGED <<input, g, cancelled, decl, disk, cut, patchFile>>
        /\ \A k \in DOMAIN g : g[k].pc \in {"done", "failed"}
        /\ \/ main' = "error" /\ CleanUp
           \/ /\ main' = "WORKSPACE" /\ dirs' = dirs
              /\ \A k \in DOMAIN g : g[k].pc # "failed"
    BY DEF Wait, Finished
  <1>2. TypeOK'
    <2>1. TypeOK /\ DOMAIN disk' = DOMAIN input.decls BY <1>1 DEF Inv, TypeOK
    <2>2. CASE CleanUp BY <2>1, <2>2, <1>1, CleanedUp, TypesKept
    <2>3. CASE dirs' = dirs BY <2>1, <2>3, <1>1, TypesKept DEF TypeOK
    <2> QED BY <1>1, <2>2, <2>3
  <1>3. MainInv' BY <1>1 DEF Inv, MainInv, Ended
  <1>4. DiskInv' BY <1>1 DEF Inv, DiskInv, Initial
  <1>5. \A k \in DOMAIN g' : Own(k)' BY <1>1, OwnKept
  <1> QED BY <1>2, <1>3, <1>4, <1>5 DEF Inv

\* WORKSPACE and then repositories.bzl are written from the declarations in memory, or a write fails.
LEMMA WriteFileStep ==
  ASSUME Inv, WriteFile
  PROVE  Inv'
  <1>1. /\ main \in {"WORKSPACE", "repositories.bzl"}
        /\ UNCHANGED <<input, g, cancelled, decl, patchFile>>
        /\ \/ main = "WORKSPACE" /\ main' = "repositories.bzl" /\ dirs' = dirs
           \/ main = "repositories.bzl" /\ main' = "ok" /\ CleanUp
           \/ main' = "writeError" /\ CleanUp
    BY DEF WriteFile
  <1>2. \A k \in DOMAIN g : g[k].pc = "done" BY <1>1 DEF Inv, MainInv
  <1>3. DOMAIN disk = DOMAIN input.decls /\ DOMAIN decl = DOMAIN input.decls /\ input \in Inputs
    BY DEF Inv, TypeOK
  <1>4. DOMAIN disk' = DOMAIN input.decls BY <1>3 DEF WriteFile
  <1>5. TypeOK'
    <2>1. TypeOK BY DEF Inv
    <2>2. CASE CleanUp BY <2>1, <2>2, <1>1, <1>4, CleanedUp, TypesKept
    <2>3. CASE dirs' = dirs BY <2>1, <2>3, <1>1, <1>4, TypesKept DEF TypeOK
    <2> QED BY <1>1, <2>2, <2>3
  <1>6. MainInv' BY <1>1, <1>2 DEF Inv, MainInv, Ended
  <1>7. DiskInv'
    <2>1. \A d \in DOMAIN decl' : (\A k \in DOMAIN g' : g'[k].d # d) => decl'[d] = Initial(d)'
      BY <1>1 DEF Inv, DiskInv, Initial
    <2>2. \A d \in DOMAIN disk : FileOf(d)' = FileOf(d) /\ Initial(d)' = Initial(d)
      BY <1>1 DEF FileOf, Initial
    <2>3. \A d \in DOMAIN disk : FileOf(d) \in {"WORKSPACE", "repositories.bzl"}
      BY <1>3, Declarations
    <2>4. CASE main = "WORKSPACE"
      <3>1. cut = {} /\ \A d \in DOMAIN disk : disk[d] = Initial(d) BY <2>4 DEF Inv, DiskInv
      <3> QED BY <2>1, <2>2, <2>3, <2>4, <3>1, <1>1, <1>3, <1>4 DEF WriteFile, DiskInv
    <2>5. CASE main = "repositories.bzl"
      <3>1. cut = {} /\ \A d \in DOMAIN disk : disk[d] = IF FileOf(d) = "WORKSPACE" THEN decl[d] ELSE Initial(d)
        BY <2>5 DEF Inv, DiskInv
      <3> QED BY <2>1, <2>2, <2>3, <2>5, <3>1, <1>1, <1>3, <1>4 DEF WriteFile, DiskInv
    <2> QED BY <2>4, <2>5, <1>1
  <1>8. \A k \in DOMAIN g' : Own(k)' BY <1>1, <1>2, OwnKept
  <1> QED BY <1>5, <1>6, <1>7, <1>8 DEF Inv

\* The command starts with the files as they are and an empty work directory.
LEMMA Initially ==
  ASSUME Init
  PROVE  Inv
  <1>1. DOMAIN g = {} /\ IsFiniteSet(DOMAIN g)
    <2>1. DOMAIN g = {} BY DEF Init
    <2> QED BY <2>1, FS_EmptySet
  <1>2. TypeOK BY <1>1 DEF Init, TypeOK, NoDir, OldPatch
  <1>3. MainInv BY <1>1 DEF Init, MainInv, Ended
  <1>4. DiskInv BY DEF Init, DiskInv, Initial
  <1> QED BY <1>1, <1>2, <1>3, <1>4 DEF Inv

\* A step that changes nothing.
LEMMA Stuttering ==
  ASSUME Inv, UNCHANGED vars
  PROVE  Inv'
  <1>1. UNCHANGED <<input, main, g, cancelled, decl, disk, cut, dirs, patchFile>> BY DEF vars
  <1>2. TypeOK' BY <1>1 DEF Inv, TypeOK
  <1>3. MainInv' BY <1>1 DEF Inv, MainInv
  <1>4. DiskInv' BY <1>1 DEF Inv, DiskInv, Initial, FileOf
  <1>5. \A k \in DOMAIN g' : Own(k)' BY <1>1, OwnKept
  <1> QED BY <1>2, <1>3, <1>4, <1>5 DEF Inv

\* Every step of upgrade-dep, of the main goroutine or of another, keeps the invariant: it holds of
\* every state, for any number of dependencies and of patches.
THEOREM Inductive == Spec => []Inv
  <1>1. Inv /\ [Next]_vars => Inv'
    <2> SUFFICES ASSUME Inv, [Next]_vars PROVE Inv'
      OBVIOUS
    <2>1. CASE Start BY <2>1, StartStep
    <2>2. CASE Interrupt BY <2>2, InterruptStep
    <2>3. CASE Wait BY <2>3, WaitStep
    <2>4. CASE WriteFile BY <2>4, WriteFileStep
    <2>5. CASE Exited BY <2>5, Stuttering DEF Exited
    <2>6. ASSUME NEW k \in 1..MaxDeps,
                 \/ FindAttrs(k) \/ ListTags(k) \/ Choose(k) \/ Download(k) \/ Extract(k)
                 \/ CopyDir(k) \/ Apply(k) \/ WritePatch(k) \/ SetAttr(k) \/ RemoveArchive(k) \/ Fail(k)
          PROVE  Inv'
      BY <2>6, EarlyStep, ExtractStep, CopyDirStep, ApplyStep, WritePatchStep, SetAttrStep, RemoveArchiveStep, FailStep
    <2>7. CASE UNCHANGED vars BY <2>7, Stuttering
    <2> QED BY <2>1, <2>2, <2>3, <2>4, <2>5, <2>6, <2>7 DEF Next
  <1> QED BY Initially, <1>1, PTL DEF Spec

-----------------------------------------------------------------------------
(* The theorems *)

\* A goroutine whose name is not asked for twice is the only one for it.
LEMMA AloneOr ==
  ASSUME Inv, NEW k \in DOMAIN g, ~Twice(g[k].name)
  PROVE  Alone(k)
  <1> DEFINE S == {l \in DOMAIN g : g[l].name = g[k].name}
  <1>1. SUFFICES ASSUME NEW l \in S, l # k PROVE FALSE
    BY DEF Alone
  <1>2. IsFiniteSet(DOMAIN g) BY DEF Inv, TypeOK
  <1>3. S \in SUBSET DOMAIN g /\ k \in S OBVIOUS
  <1>4. ~(Cardinality(S) > 1) BY DEF Twice
  <1> HIDE DEF S
  <1>5. IsFiniteSet(S) /\ Cardinality(S) \in Nat BY <1>2, <1>3, FS_Subset, FS_CardinalityType
  <1>6. IsFiniteSet({k}) /\ Cardinality({k}) = 1 BY FS_Singleton
  <1>7. Cardinality({k} \cup {l}) = 2
    <2>1. l \notin {k} BY <1>1
    <2>2. Cardinality({k} \cup {l}) = Cardinality({k}) + 1 BY <2>1, <1>6, FS_AddElement
    <2> QED BY <2>2, <1>6
  <1>8. {k} \cup {l} \in SUBSET S BY <1>1, <1>3
  <1>9. Cardinality({k} \cup {l}) <= Cardinality(S) BY <1>5, <1>8, FS_Subset
  <1> QED BY <1>4, <1>5, <1>7, <1>9

\* What the invariant says of the patch files.
LEMMA InvPatches ==
  ASSUME Inv
  PROVE  PatchesInOrder
  BY AloneOr DEF PatchesInOrder, Inv, Own, OwnPatches, Strip

\* What the invariant says of the files at the end.
LEMMA InvAllOrNothing ==
  ASSUME Inv
  PROVE  AllOrNothing
  <1>1. \A d \in DOMAIN disk : disk[d] = Initial(d) => Untouched(d) BY DEF Untouched, Initial
  <1>2. DOMAIN disk = DOMAIN decl /\ input \in Inputs /\ DOMAIN disk = DOMAIN input.decls BY DEF Inv, TypeOK
  <1>3. ASSUME main = "ok", NEW d \in DOMAIN disk
        PROVE  IF \E k \in DOMAIN g : g[k].d = d
               THEN \A k \in DOMAIN g : g[k].d = d /\ ~Twice(g[k].name) =>
                       /\ disk[d].sha256 = g[k].body /\ disk[d].urls = g[k].url
                       /\ disk[d].strip_prefix = stripPrefix(g[k].url, D(k).rel)
                       /\ \A n \in DOMAIN D(k).patches : n \notin g[k].cutPatches =>
                             patchFile[D(k).patches[n].patch] = Regenerated(d, n, disk[d].strip_prefix)
               ELSE Untouched(d)
    <2>1. disk[d] = decl[d] BY <1>3 DEF Inv, DiskInv
    <2>2. CASE ~\E k \in DOMAIN g : g[k].d = d
      BY <2>1, <2>2, <1>1, <1>2 DEF Inv, DiskInv
    <2>3. ASSUME NEW k \in DOMAIN g, g[k].d = d, ~Twice(g[k].name)
          PROVE  /\ disk[d].sha256 = g[k].body /\ disk[d].urls = g[k].url
                 /\ disk[d].strip_prefix = stripPrefix(g[k].url, D(k).rel)
                 /\ \A n \in DOMAIN D(k).patches : n \notin g[k].cutPatches =>
                       patchFile[D(k).patches[n].patch] = Regenerated(d, n, disk[d].strip_prefix)
      <3>1. OwnCount(k) /\ OwnPatches(k) /\ OwnAttrs(k) /\ g[k].pc = "done"
        BY <1>3, <2>3, AloneOr DEF Inv, Own, MainInv
      <3>2. /\ decl[d].sha256 = g[k].body /\ decl[d].strip_prefix = Strip(k) /\ decl[d].urls = g[k].url
        BY <2>3, <3>1, <1>2 DEF OwnAttrs
      <3>3. disk[d].sha256 = g[k].body /\ disk[d].strip_prefix = Strip(k) /\ disk[d].urls = g[k].url
        BY <2>1, <3>2
      <3>4. \A n \in DOMAIN D(k).patches : n < g[k].n
        BY <2>3, <3>1, <1>2, Declarations DEF OwnCount, Late, NumPatches, D
      <3> QED BY <2>3, <3>1, <3>3, <3>4 DEF OwnPatches, Strip
    <2> QED BY <2>2, <2>3
  <1>4. main \in {"error", "panic"} => cut = {} /\ \A d \in DOMAIN disk : Untouched(d)
    BY <1>1 DEF Inv, DiskInv
  <1>5. main = "writeError" => \A d \in DOMAIN disk : FileOf(d) \in cut \cup {"repositories.bzl"} => Untouched(d)
    BY <1>1 DEF Inv, DiskInv
  <1>6. main \in Ended \ {"panic"} => Finished = DOMAIN g
    BY DEF Inv, MainInv, Ended, Finished
  <1> QED BY <1>3, <1>4, <1>5, <1>6 DEF AllOrNothing

\* In every state a patch file of a dependency asked for once is the old one until upgradeDepDecl has
\* come to it, and then the patch regenerated on top of the patches before it, unless its own diff has
\* failed or it could not be written: for any number of dependencies and patches.
THEOREM PatchesInOrderHolds == Spec => []PatchesInOrder
  BY Inductive, InvPatches, PTL

\* runUpgradeDep upgrades every dependency asked for and no other, or leaves the declarations in the
\* files as they were: in every interleaving, and wherever a goroutine or a write fails.  Success does
\* not promise the patches whose diff has failed, nor those of a dependency asked for twice.
THEOREM AllOrNothingHolds == Spec => []AllOrNothing
  BY Inductive, InvAllOrNothing, PTL

-----------------------------------------------------------------------------
(* The loop over the tags *)

\* One round of the loop over the tags.
Round(acc, t, rel, version) == IF Usable(t, rel, version) THEN Better(acc, t, version) ELSE acc

\* f is what the loop keeps after each of the first m tags.
IsBest(f, m, tags, rel, version) ==
    f = [n \in 0..m |-> IF n = 0 THEN {} ELSE Round(f[n - 1], tags[n], rel, version)]

\* highestTag is the last value of such a function.
LEMMA HighestTagLoop ==
  ASSUME NEW tags, NEW rel, NEW version, NEW f, IsBest(f, Len(tags), tags, rel, version)
  PROVE  \E h : IsBest(h, Len(tags), tags, rel, version) /\ highestTag(tags, rel, version) = h[Len(tags)]
  <1> DEFINE B == [n \in 0..Len(tags) |-> IF n = 0 THEN {} ELSE Round(f[n - 1], tags[n], rel, version)]
             P(h) == h = [n \in 0..Len(tags) |->
                            IF n = 0 THEN {}
                            ELSE IF Usable(tags[n], rel, version) THEN Better(h[n - 1], tags[n], version) ELSE h[n - 1]]
  <1>1. P(f) BY DEF IsBest, Round
  <1>2. P(CHOOSE h : P(h))
    <2> HIDE DEF P
    <2> QED BY <1>1
  <1>3. highestTag(tags, rel, version) = (CHOOSE h : P(h))[Len(tags)] BY DEF highestTag
  <1> HIDE DEF P
  <1>4. PICK h : P(h) /\ highestTag(tags, rel, version) = h[Len(tags)] BY <1>2, <1>3
  <1> USE DEF P
  <1>5. IsBest(h, Len(tags), tags, rel, version) BY <1>4 DEF IsBest, Round
  <1> QED BY <1>4, <1>5

\* The loop has a result.
LEMMA BestExists ==
  ASSUME NEW m \in Nat, NEW tags, NEW rel, NEW version
  PROVE  \E f : IsBest(f, m, tags, rel, version)
  <1> DEFINE R == OpToRel(<, Nat)
             Fails == {x \in Nat : ~\E f : IsBest(f, x, tags, rel, version)}
  <1>1. SUFFICES ASSUME Fails # {} PROVE FALSE OBVIOUS
  <1>2. IsWellFoundedOn(R, Nat) BY NatLessThanWellFounded
  <1>3. \E x \in Fails : \A y \in Fails : ~(<<y, x>> \in R)
    <2>1. Fails \subseteq Nat OBVIOUS
    <2> HIDE DEF R, Fails
    <2> QED BY <1>1, <1>2, <2>1, WFMin
  <1>4. PICK x \in Fails : \A y \in Fails : ~(<<y, x>> \in R) BY <1>3
  <1>5. \A y \in Nat : y < x => <<y, x>> \in R BY DEF OpToRel
  <1> HIDE DEF R
  <1>6. x # 0
    <2>1. IsBest([n \in 0..0 |-> {}], 0, tags, rel, version) BY DEF IsBest
    <2> QED BY <2>1
  <1>7. x - 1 \in Nat /\ x - 1 < x BY <1>6
  <1>8. PICK f : IsBest(f, x - 1, tags, rel, version) BY <1>4, <1>5, <1>7
  <1> DEFINE h == [n \in 0..x |-> IF n = x THEN Round(f[x - 1], tags[x], rel, version) ELSE f[n]]
  <1>9. DOMAIN f = 0..(x - 1) /\ \A n \in 0..(x - 1) : f[n] = IF n = 0 THEN {} ELSE Round(f[n - 1], tags[n], rel, version)
    BY <1>8 DEF IsBest
  <1>10. ASSUME NEW n \in 0..x
         PROVE  h[n] = IF n = 0 THEN {} ELSE Round(h[n - 1], tags[n], rel, version)
    <2>1. CASE n = x BY <2>1, <1>6, <1>7
    <2>2. CASE n # x
      <3>1. n \in 0..(x - 1) /\ (n # 0 => n - 1 \in 0..x /\ n - 1 # x) BY <2>2
      <3> QED BY <3>1, <1>9, <2>2
    <2> QED BY <2>1, <2>2
  <1>11. IsBest(h, x, tags, rel, version) BY <1>10 DEF IsBest
  <1> QED BY <1>11

TagRecord == [rel : STRING, num : Nat, pre : BOOLEAN, canon : BOOLEAN, assets : Seq(STRING)]

\* What the loop keeps of the first n tags: nothing if none of them is usable; and a usable one, with
\* none higher if no version is asked for.
Highest(acc, n, tags, rel, version) ==
    /\ acc = {} <=> \A m \in 1..n : ~Usable(tags[m], rel, version)
    /\ \A h \in acc : \E m \in 1..n : h = tags[m] /\ Usable(tags[m], rel, version)
    /\ version = {} => \A h \in acc, m \in 1..n :
                          Usable(tags[m], rel, version) => ~Less(Version(h), Version(tags[m]))

\* The order of versions.
LEMMA Ordered ==
  ASSUME NEW a \in TagRecord, NEW b \in TagRecord, NEW c \in TagRecord
  PROVE  /\ ~Less(Version(a), Version(a))
         /\ Less(Version(a), Version(b)) /\ Less(Version(b), Version(c)) => Less(Version(a), Version(c))
  BY DEF TagRecord, Less, Version

\* One round of the loop.
LEMMA RoundHighest ==
  ASSUME NEW tags \in Seq(TagRecord), NEW rel, NEW version, NEW n \in 1..Len(tags), NEW acc,
         Highest(acc, n - 1, tags, rel, version)
  PROVE  Highest(Round(acc, tags[n], rel, version), n, tags, rel, version)
  <1> DEFINE new == Round(acc, tags[n], rel, version)
             U(m) == Usable(tags[m], rel, version)
             L(s, t) == Less(Version(s), Version(t))
  <1>1. \A m \in 1..n : m \in 1..(n - 1) \/ m = n OBVIOUS
  <1>2. \A m \in 1..(n - 1) : m \in 1..n OBVIOUS
  <1>3. \A m \in 1..n : tags[m] \in TagRecord OBVIOUS
  <1>4. n \in 1..n OBVIOUS
  <1>5. \A h \in acc : h \in TagRecord BY <1>2, <1>3 DEF Highest
  <1>6. CASE ~U(n)
    BY <1>6, <1>1, <1>2 DEF Highest, Round
  <1>7. CASE U(n) /\ new = acc /\ acc # {}
    <2>1. ASSUME version = {}, NEW h \in acc PROVE ~L(h, tags[n])
      <3>1. SUFFICES ASSUME L(h, tags[n]) PROVE FALSE OBVIOUS
      <3>2. new = {tags[n]} BY <1>7, <2>1, <3>1 DEF Round, Better
      <3>3. h = tags[n] BY <3>2, <1>7
      <3> QED BY <3>1, <3>3, <1>3, <1>4, Ordered
    <2> QED BY <1>1, <1>2, <1>7, <2>1 DEF Highest
  <1>8. CASE U(n) /\ new = {tags[n]} /\ ~(new = acc /\ acc # {})
    <2>1. ASSUME version = {}, NEW m \in 1..n, U(m) PROVE ~L(tags[n], tags[m])
      <3>1. CASE m = n BY <3>1, <1>3, <1>4, Ordered
      <3>2. CASE m # n
        <4>1. m \in 1..(n - 1) BY <3>2
        <4>2. acc # {} BY <4>1, <2>1 DEF Highest
        <4>3. PICK h \in acc : L(h, tags[n]) BY <4>2, <1>8, <2>1 DEF Round, Better
        <4>4. ~L(h, tags[m]) BY <4>1, <2>1 DEF Highest
        <4> QED BY <4>3, <4>4, <1>3, <1>4, <1>5, Ordered
      <3> QED BY <3>1, <3>2
    <2> HIDE DEF L
    <2>2. \A h \in new : h = tags[n] /\ U(n) BY <1>8
    <2>3. new # {} BY <1>8
    <2> HIDE DEF new
    <2>4. \A h \in new, m \in 1..n : version = {} /\ U(m) => ~L(h, tags[m]) BY <2>1, <2>2
    <2> QED BY <1>4, <2>2, <2>3, <2>4 DEF Highest, L, new
  <1>9. U(n) => (new = acc /\ acc # {}) \/ new = {tags[n]} BY DEF Round, Better
  <1> QED BY <1>6, <1>7, <1>8, <1>9

\* The loop keeps the highest usable tag.
LEMMA BestHighest ==
  ASSUME NEW tags \in Seq(TagRecord), NEW rel, NEW version, NEW f, IsBest(f, Len(tags), tags, rel, version)
  PROVE  Highest(f[Len(tags)], Len(tags), tags, rel, version)
  <1> DEFINE R == OpToRel(<, Nat)
             Fails == {x \in 0..Len(tags) : ~Highest(f[x], x, tags, rel, version)}
  <1>1. SUFFICES ASSUME Fails # {} PROVE FALSE OBVIOUS
  <1>2. IsWellFoundedOn(R, Nat) BY NatLessThanWellFounded
  <1>3. \E x \in Fails : \A y \in Fails : ~(<<y, x>> \in R)
    <2>1. Fails \subseteq Nat OBVIOUS
    <2> HIDE DEF R, Fails
    <2> QED BY <1>1, <1>2, <2>1, WFMin
  <1>4. PICK x \in Fails : \A y \in Fails : ~(<<y, x>> \in R) BY <1>3
  <1>5. \A y \in Nat : y < x => <<y, x>> \in R BY DEF OpToRel
  <1> HIDE DEF R
  <1>6. \A n \in 0..Len(tags) : f[n] = IF n = 0 THEN {} ELSE Round(f[n - 1], tags[n], rel, version)
    BY DEF IsBest
  <1>7. x # 0
    <2>1. Len(tags) \in Nat OBVIOUS
    <2>2. f[0] = {} BY <1>6, <2>1
    <2>3. Highest({}, 0, tags, rel, version) BY DEF Highest
    <2> QED BY <2>2, <2>3
  <1>8. x \in 1..Len(tags) /\ x - 1 \in 0..Len(tags) /\ x - 1 \in Nat /\ x - 1 < x BY <1>7
  <1>9. Highest(f[x - 1], x - 1, tags, rel, version) BY <1>4, <1>5, <1>8
  <1>10. f[x] = Round(f[x - 1], tags[x], rel, version) BY <1>6, <1>7, <1>8
  <1>11. Highest(f[x], x, tags, rel, version) BY <1>8, <1>9, <1>10, RoundHighest
  <1> QED BY <1>11

\* highestTag: nothing if no tag is usable; and a usable one, with none higher if no version is asked for.
LEMMA HighestTagIs ==
  ASSUME NEW tags \in Seq(TagRecord), NEW rel, NEW version
  PROVE  Highest(highestTag(tags, rel, version), Len(tags), tags, rel, version)
  <1>1. Len(tags) \in Nat OBVIOUS
  <1>2. PICK f : IsBest(f, Len(tags), tags, rel, version) BY <1>1, BestExists
  <1>3. PICK h : IsBest(h, Len(tags), tags, rel, version) /\ highestTag(tags, rel, version) = h[Len(tags)]
    BY <1>2, HighestTagLoop
  <1> QED BY <1>3, BestHighest

-----------------------------------------------------------------------------
(* The version chosen *)

\* What NewestVersion says of one goroutine.
Newest(k) ==
    LET v == g[k].url.version IN
    IF Candidates(k) = {} THEN g[k].url.kind = "commit" /\ g[k].version \subseteq {v}
    ELSE /\ g[k].url.kind = "tag" /\ v \in Candidates(k)
         /\ IF g[k].version # {} THEN v \in g[k].version ELSE \A w \in Candidates(k) : ~Less(v, w)

\* The tags that have been read: those of the pages before the next one.
Read(k) ==
    /\ g[k].tags \in Seq(TagRecord)
    /\ g[k].page \in 1..(Len(Host(k).pages) + 1)
    /\ \A t : t \in Range(g[k].tags) <=> \E i \in 1..(g[k].page - 1) : t \in Range(Host(k).pages[i])
    /\ g[k].pc \in {"attrs", "tags"} => g[k].page <= Len(Host(k).pages)
    /\ g[k].pc = "choose" => g[k].page = Len(Host(k).pages) + 1

\* The version: that of the request, and then that of the URL.
Versions(k) ==
    /\ \A v, w \in g[k].version : v = w
    /\ g[k].pc \in {"attrs", "tags", "choose"} => g[k].url = Missing
    /\ g[k].url # Missing => Newest(k)

ReadInv == \A k \in DOMAIN g : Read(k) /\ Versions(k)

\* The upstream repository of a declaration has pages of tags.
LEMMA PagesOf ==
  ASSUME input \in Inputs, NEW d \in DOMAIN input.decls
  PROVE  LET pages == input.host[input.decls[d].name].pages IN
         pages \in Seq(Seq(TagRecord)) /\ Len(pages) \in Nat \ {0}
  <1> DEFINE pages == input.host[input.decls[d].name].pages
  <1>1. pages \in Seq(Seq(TagRecord)) /\ pages # <<>> BY InputsAssumption DEF TagRecord
  <1> HIDE DEF TagRecord, pages
  <1>2. Len(pages) \in Nat \ {0} BY <1>1, EmptySeq
  <1> QED BY <1>1, <1>2 DEF pages

\* So has that of a goroutine, which is the one listTags asks.
LEMMA Pages ==
  ASSUME Inv, NEW k \in DOMAIN g
  PROVE  Host(k).pages \in Seq(Seq(TagRecord)) /\ Len(Host(k).pages) \in Nat \ {0}
  BY PagesOf DEF Host, Inv, TypeOK

\* A goroutine that keeps its tags and its URL keeps what is said of them, unless it goes back.
LEMMA ReadKept ==
  ASSUME NEW k \in DOMAIN g, Read(k), Versions(k), input' = input,
         g'[k].name = g[k].name, g'[k].d = g[k].d, g'[k].version = g[k].version,
         g'[k].tags = g[k].tags, g'[k].page = g[k].page, g'[k].url = g[k].url,
         \/ g'[k].pc = g[k].pc
         \/ g[k].pc = "attrs" /\ g'[k].pc = "tags"
         \/ g'[k].pc \notin {"attrs", "tags", "choose"}
  PROVE  Read(k)' /\ Versions(k)'
  <1>1. Host(k)' = Host(k) /\ D(k)' = D(k) BY DEF Host, D
  <1>2. Candidates(k)' = Candidates(k) BY <1>1 DEF Candidates
  <1>3. Newest(k)' <=> Newest(k) BY <1>2 DEF Newest
  <1>4. Read(k)' BY <1>1 DEF Read
  <1>5. Versions(k)' BY <1>3 DEF Versions
  <1> QED BY <1>4, <1>5

\* A page more has been read.
LEMMA ReadPage ==
  ASSUME Inv, NEW k, Read(k), Versions(k), ListTags(k)
  PROVE  Read(k)' /\ Versions(k)'
  <1>1. k \in DOMAIN g /\ g[k].pc = "tags" /\ DOMAIN g[k] = Fields BY DEF ListTags, At, Inv, TypeOK
  <1> DEFINE pages == Host(k).pages
             page == g[k].page
  <1>2. pages \in Seq(Seq(TagRecord)) /\ Len(pages) \in Nat BY <1>1, Pages
  <1>3. page \in 1..Len(pages) BY <1>1, <1>2 DEF Read
  <1>4. pages[page] \in Seq(TagRecord)
    <2> HIDE DEF pages, page
    <2> QED BY <1>2, <1>3
  <1>5. /\ g'[k].tags = g[k].tags \o pages[page] /\ g'[k].page = page + 1
        /\ g'[k].pc = IF page = Len(pages) THEN "choose" ELSE "tags"
        /\ g'[k].name = g[k].name /\ g'[k].d = g[k].d /\ g'[k].version = g[k].version /\ g'[k].url = g[k].url
        /\ input' = input
    BY <1>1 DEF ListTags, Fields
  <1>6. Host(k)' = Host(k) BY <1>5 DEF Host
  <1> DEFINE old == g[k].tags
             more == pages[page]
  <1>7. old \in Seq(TagRecord) BY DEF Read
  <1>8. \A t : t \in Range(old \o more) <=> t \in Range(old) \/ t \in Range(more)
    <2> HIDE DEF old, more
    <2>1. more \in Seq(TagRecord) BY <1>4 DEF more
    <2>2. Len(old) \in Nat /\ Len(more) \in Nat /\ Len(old \o more) = Len(old) + Len(more)
          /\ DOMAIN old = 1..Len(old) /\ DOMAIN more = 1..Len(more) /\ DOMAIN (old \o more) = 1..(Len(old) + Len(more))
      BY <1>7, <2>1
    <2>3. \A i \in 1..Len(old) : (old \o more)[i] = old[i] BY <1>7, <2>1
    <2>4. \A i \in 1..Len(more) : (old \o more)[Len(old) + i] = more[i] BY <1>7, <2>1
    <2>5. \A i \in 1..(Len(old) + Len(more)) : i \in 1..Len(old) \/ (i - Len(old) \in 1..Len(more) /\ Len(old) + (i - Len(old)) = i)
      BY <2>2
    <2>6. \A i \in 1..Len(old) : i \in 1..(Len(old) + Len(more)) BY <2>2
    <2>7. \A i \in 1..Len(more) : Len(old) + i \in 1..(Len(old) + Len(more)) BY <2>2
    <2>8. ASSUME NEW t, t \in Range(old \o more) PROVE t \in Range(old) \/ t \in Range(more)
      <3>1. PICK i \in 1..(Len(old) + Len(more)) : t = (old \o more)[i] BY <2>2, <2>8 DEF Range
      <3>2. CASE i \in 1..Len(old) BY <3>1, <3>2, <2>2, <2>3 DEF Range
      <3>3. CASE i \notin 1..Len(old)
        <4>1. i - Len(old) \in 1..Len(more) /\ Len(old) + (i - Len(old)) = i BY <2>5, <3>3
        <4>2. t = more[i - Len(old)] BY <3>1, <4>1, <2>4
        <4> QED BY <4>1, <4>2, <2>2 DEF Range
      <3> QED BY <3>2, <3>3
    <2>9. ASSUME NEW t, t \in Range(old) PROVE t \in Range(old \o more)
      <3>1. PICK i \in 1..Len(old) : t = old[i] BY <2>2, <2>9 DEF Range
      <3> QED BY <3>1, <2>2, <2>3, <2>6 DEF Range
    <2>10. ASSUME NEW t, t \in Range(more) PROVE t \in Range(old \o more)
      <3>1. PICK i \in 1..Len(more) : t = more[i] BY <2>2, <2>10 DEF Range
      <3> QED BY <3>1, <2>2, <2>4, <2>7 DEF Range
    <2> QED BY <2>8, <2>9, <2>10
  <1>9. \A t : t \in Range(g'[k].tags) <=> \E i \in 1..page : t \in Range(pages[i])
    <2>1. \A i \in 1..page : i \in 1..(page - 1) \/ i = page BY <1>3
    <2>2. page \in 1..page /\ \A i \in 1..(page - 1) : i \in 1..page BY <1>3
    <2>3. \A t : t \in Range(old) <=> \E i \in 1..(page - 1) : t \in Range(pages[i]) BY DEF Read
    <2> HIDE DEF page, pages, old
    <2> QED BY <1>5, <1>8, <2>1, <2>2, <2>3 DEF old, more
  <1>10. g'[k].tags \in Seq(TagRecord)
    <2> HIDE DEF page, pages
    <2> QED BY <1>4, <1>5, <1>7
  <1>11. /\ g'[k].page \in 1..(Len(pages) + 1) /\ g'[k].page - 1 = page
         /\ g'[k].pc \in {"attrs", "tags"} => g'[k].page <= Len(pages)
         /\ g'[k].pc = "choose" => g'[k].page = Len(pages) + 1
    BY <1>2, <1>3, <1>5
  <1>12. Read(k)' BY <1>6, <1>9, <1>10, <1>11 DEF Read
  <1>13. g[k].url = Missing BY <1>1 DEF Versions
  <1>14. Versions(k)' BY <1>5, <1>13 DEF Versions
  <1> QED BY <1>12, <1>14

\* What has been read when the version is chosen: the tags of all pages.
LEMMA AllRead ==
  ASSUME Inv, NEW k \in DOMAIN g, Read(k), g[k].pc = "choose"
  PROVE  Candidates(k) = {Version(t) : t \in {u \in Range(g[k].tags) : Usable(u, D(k).rel, g[k].version)}}
  <1> DEFINE pages == Host(k).pages
  <1>1. pages \in Seq(Seq(TagRecord)) /\ Len(pages) \in Nat BY Pages
  <1>2. DOMAIN pages = 1..Len(pages)
    <2> HIDE DEF pages
    <2> QED BY <1>1
  <1>3. g[k].page - 1 = Len(pages)
    <2>1. g[k].page = Len(pages) + 1 BY DEF Read
    <2> HIDE DEF pages
    <2> QED BY <1>1, <2>1
  <1>4. \A t : t \in Range(g[k].tags) <=> \E i \in 1..Len(pages) : t \in Range(pages[i]) BY <1>3 DEF Read
  <1>5. UNION {Range(p) : p \in Range(pages)} = Range(g[k].tags)
    <2>1. \A p : p \in Range(pages) <=> \E i \in 1..Len(pages) : p = pages[i] BY <1>2 DEF Range
    <2> HIDE DEF pages
    <2> QED BY <1>4, <2>1
  <1> QED BY <1>5 DEF Candidates

\* The URL is that of a tag with the version asked for, or with the highest one; or of a commit.
LEMMA ChooseNewest ==
  ASSUME Inv, NEW k, Read(k), Versions(k), Choose(k)
  PROVE  Read(k)' /\ Versions(k)'
  <1>1. k \in DOMAIN g /\ g[k].pc = "choose" /\ DOMAIN g[k] = Fields BY DEF Choose, At, Inv, TypeOK
  <1> DEFINE tags == g[k].tags
             rel == D(k).rel
             version == g[k].version
             best == highestTag(tags, rel, version)
             Commit == Archive("commit", IF version = {} THEN V0 ELSE CHOOSE v \in version : TRUE, "", "")
  <1>2. PICK reached \in BOOLEAN :
           \/ \E t \in best : version \subseteq {Version(t)}
                              /\ g' = [g EXCEPT ![k].pc = "download", ![k].url = TagArchive(t, reached)]
           \/ best = {} /\ g' = [g EXCEPT ![k].pc = "download", ![k].url = Commit]
    BY DEF Choose
  <1>3. input' = input BY DEF Choose
  <1>4. \A x : g' = [g EXCEPT ![k].pc = "download", ![k].url = x] =>
           /\ g'[k].url = x /\ g'[k].pc = "download" /\ g'[k].name = g[k].name /\ g'[k].d = g[k].d
           /\ g'[k].version = g[k].version /\ g'[k].tags = g[k].tags /\ g'[k].page = g[k].page
    BY <1>1 DEF Fields
  <1>5. /\ g'[k].pc = "download" /\ g'[k].name = g[k].name /\ g'[k].d = g[k].d
        /\ g'[k].version = g[k].version /\ g'[k].tags = g[k].tags /\ g'[k].page = g[k].page
    <2> HIDE DEF best, version, tags, rel, Commit
    <2> QED BY <1>2, <1>4
  <1>6. Host(k)' = Host(k) /\ D(k)' = D(k) BY <1>3, <1>5 DEF Host, D
  <1>7. Candidates(k)' = Candidates(k) BY <1>5, <1>6 DEF Candidates
  <1>8. Read(k)' BY <1>5, <1>6 DEF Read
  <1>9. tags \in Seq(TagRecord) BY DEF Read
  <1>10. Highest(best, Len(tags), tags, rel, version) BY <1>9, HighestTagIs
  <1>11. Candidates(k) = {Version(t) : t \in {u \in Range(tags) : Usable(u, rel, version)}} BY <1>1, AllRead
  <1> DEFINE url == g'[k].url
             v == url.version
  <1>12. \A t : t \in Range(tags) <=> \E m \in 1..Len(tags) : t = tags[m]
    <2> HIDE DEF tags
    <2> QED BY <1>9 DEF Range
  <1> HIDE DEF tags, rel, best, Commit
  <1>13. best = {} <=> Candidates(k) = {} BY <1>10, <1>11, <1>12 DEF Highest
  <1>14. ASSUME best = {} PROVE Newest(k)'
    <2>1. url = Commit
      <3>1. g' = [g EXCEPT ![k].pc = "download", ![k].url = Commit] BY <1>2, <1>14
      <3> QED BY <3>1, <1>4
    <2>2. url.kind = "commit" /\ v = IF version = {} THEN V0 ELSE CHOOSE w \in version : TRUE
      <3> HIDE DEF url, version
      <3>1. \A x : Archive("commit", x, "", "").kind = "commit" /\ Archive("commit", x, "", "").version = x BY DEF Archive
      <3>2. Commit = Archive("commit", IF version = {} THEN V0 ELSE CHOOSE w \in version : TRUE, "", "") BY DEF Commit
      <3> QED BY <2>1, <3>1, <3>2 DEF v
    <2>3. \A w, x \in version : w = x BY DEF Versions
    <2>4. version \subseteq {v}
      <3> HIDE DEF version, v, url
      <3> QED BY <2>2, <2>3
    <2> QED BY <1>5, <1>7, <1>13, <1>14, <2>2, <2>4 DEF Newest
  <1>15. ASSUME best # {} PROVE Newest(k)'
    <2>1. PICK t \in best : version \subseteq {Version(t)}
                            /\ g' = [g EXCEPT ![k].pc = "download", ![k].url = TagArchive(t, reached)]
      BY <1>2, <1>15
    <2>2. url = TagArchive(t, reached) BY <2>1, <1>4
    <2>3. url.kind = "tag" /\ v = Version(t)
      <3>1. \A x, y : Archive("tag", x, y, "").kind = "tag" /\ Archive("tag", x, y, "").version = x BY DEF Archive
      <3>2. \E y : url = Archive("tag", Version(t), y, "") BY <2>2 DEF TagArchive
      <3> HIDE DEF url
      <3> QED BY <3>1, <3>2
    <2> HIDE DEF version, v, url
    <2>4. v \in Candidates(k) BY <2>1, <2>3, <1>10, <1>11, <1>12 DEF Highest
    <2>5. version # {} => v \in version BY <2>1, <2>3
    <2>6. version = {} => \A w \in Candidates(k) : ~Less(v, w)
      BY <2>1, <2>3, <1>10, <1>11, <1>12 DEF Highest
    <2> QED BY <1>5, <1>7, <1>13, <1>15, <2>3, <2>4, <2>5, <2>6 DEF Newest, v, version, url
  <1>16. Newest(k)' BY <1>14, <1>15
  <1>17. Versions(k)' BY <1>5, <1>16 DEF Versions
  <1> QED BY <1>8, <1>17
\* The goroutines start with nothing read (runUpgradeDep).
LEMMA ReadStart ==
  ASSUME Inv, Inv', Start
  PROVE  ReadInv'
  <1>1. g = <<>> /\ input' = input BY DEF Start, Inv, MainInv
  <1>2. SUFFICES ASSUME NEW k \in DOMAIN g' PROVE Read(k)' /\ Versions(k)'
    BY DEF ReadInv
  <1>3. ~BadArgs /\ g' = [j \in DOMAIN Requests |-> Goroutine(Requests[j])] BY <1>1, <1>2 DEF Start
  <1>4. g'[k] = Goroutine(Requests[k]) /\ k \in DOMAIN Requests BY <1>2, <1>3
  <1>5. /\ g'[k].version = Requests[k].version /\ g'[k].pc = "attrs" /\ g'[k].page = 1
        /\ g'[k].tags = <<>> /\ g'[k].url = Missing
    BY <1>4 DEF Goroutine
  <1>6. input \in Inputs /\ g'[k].d \in DOMAIN input.decls /\ input.decls[g'[k].d].name = g'[k].name
    BY <1>1 DEF Inv, TypeOK
  <1>7. Len(Host(k)'.pages) \in Nat \ {0}
    <2>1. Host(k)' = input.host[input.decls[g'[k].d].name] BY <1>1, <1>6 DEF Host
    <2> QED BY <1>6, <2>1, PagesOf
  <1>8. \A v, w \in Requests[k].version : v = w
    <2>1. CASE All BY <2>1, <1>4 DEF Requests
    <2>2. CASE ~All
      <3>1. Requests = input.args BY <2>2 DEF Requests
      <3> QED BY <3>1, <1>4, <1>6, InputsAssumption
    <2> QED BY <2>1, <2>2
  <1>9. Read(k)'
    <2>1. g'[k].tags \in Seq(TagRecord) BY <1>5
    <2>2. \A t : t \notin Range(g'[k].tags) BY <1>5 DEF Range
    <2>3. \A i \in 1..(g'[k].page - 1) : FALSE BY <1>5
    <2>4. g'[k].page \in 1..(Len(Host(k)'.pages) + 1) /\ g'[k].page <= Len(Host(k)'.pages) BY <1>5, <1>7
    <2> QED BY <1>5, <2>1, <2>2, <2>3, <2>4 DEF Read
  <1>10. Versions(k)' BY <1>5, <1>8 DEF Versions
  <1> QED BY <1>9, <1>10

\* The steps of a goroutine after the version is chosen, and the one before its tags are read.
LEMMA OtherSteps ==
  ASSUME Inv, NEW k,
         FindAttrs(k) \/ Download(k) \/ Extract(k) \/ CopyDir(k) \/ Apply(k) \/ WritePatch(k) \/ SetAttr(k) \/ RemoveArchive(k) \/ Fail(k)
  PROVE  /\ k \in DOMAIN g /\ input' = input
         /\ g'[k].name = g[k].name /\ g'[k].d = g[k].d /\ g'[k].version = g[k].version
         /\ g'[k].tags = g[k].tags /\ g'[k].page = g[k].page /\ g'[k].url = g[k].url
         /\ \/ g[k].pc = "attrs" /\ g'[k].pc = "tags"
            \/ g'[k].pc \notin {"attrs", "tags", "choose"}
  <1>1. k \in DOMAIN g
    BY DEF FindAttrs, Download, Extract, CopyDir, Apply, WritePatch, SetAttr, RemoveArchive, Fail, At
  <1>2. DOMAIN g[k] = Fields BY <1>1 DEF Inv, TypeOK
  <1>3. CASE FindAttrs(k) BY <1>1, <1>2, <1>3 DEF FindAttrs, At, Fields
  <1>4. CASE Download(k)
    <2>1. PICK what : g' = [g EXCEPT ![k].body = [g[k].url EXCEPT !.what = what],
                                     ![k].pc = IF D(k).list THEN "extract" ELSE "sha256"]
      BY <1>4 DEF Download
    <2>2. input' = input BY <1>4 DEF Download
    <2>3. \A pc : g' = [g EXCEPT ![k].body = [g[k].url EXCEPT !.what = what], ![k].pc = pc] =>
             /\ g'[k].pc = pc /\ g'[k].name = g[k].name /\ g'[k].d = g[k].d /\ g'[k].version = g[k].version
             /\ g'[k].tags = g[k].tags /\ g'[k].page = g[k].page /\ g'[k].url = g[k].url
      BY <1>1, <1>2 DEF Fields
    <2> DEFINE next == IF D(k).list THEN "extract" ELSE "sha256"
    <2>4. next \notin {"attrs", "tags", "choose"} OBVIOUS
    <2>5. g' = [g EXCEPT ![k].body = [g[k].url EXCEPT !.what = what], ![k].pc = next] BY <2>1
    <2> HIDE DEF next
    <2> QED BY <1>1, <2>2, <2>3, <2>4, <2>5
  <1>5. CASE Extract(k) BY <1>1, <1>2, <1>5 DEF Extract, Fields
  <1>6. CASE CopyDir(k) BY <1>1, <1>2, <1>6 DEF CopyDir, Fields
  <1>7. CASE Apply(k) BY <1>1, <1>2, <1>7 DEF Apply, Fields
  <1>8. CASE WritePatch(k)
    <2>1. input' = input BY <1>8 DEF WritePatch
    <2>2. PICK failed \in BOOLEAN :
             g' = [g EXCEPT ![k].n = @ + 1, ![k].pc = IF g[k].n = Len(D(k).patches) THEN "sha256" ELSE "copy",
                            ![k].cutPatches = IF failed THEN @ \cup {g[k].n} ELSE @]
      BY <1>8 DEF WritePatch
    <2>3. \A n, pc, x : g' = [g EXCEPT ![k].n = n, ![k].pc = pc, ![k].cutPatches = x] =>
             /\ g'[k].pc = pc /\ g'[k].name = g[k].name /\ g'[k].d = g[k].d /\ g'[k].version = g[k].version
             /\ g'[k].tags = g[k].tags /\ g'[k].page = g[k].page /\ g'[k].url = g[k].url
      <3> SUFFICES ASSUME NEW n, NEW pc, NEW x,
                          g' = [g EXCEPT ![k].n = n, ![k].pc = pc, ![k].cutPatches = x]
                   PROVE  /\ g'[k].pc = pc /\ g'[k].name = g[k].name /\ g'[k].d = g[k].d /\ g'[k].version = g[k].version
                          /\ g'[k].tags = g[k].tags /\ g'[k].page = g[k].page /\ g'[k].url = g[k].url
        OBVIOUS
      <3>1. g'[k] = [[[g[k] EXCEPT !.n = n] EXCEPT !.pc = pc] EXCEPT !.cutPatches = x] BY <1>1
      <3> DEFINE one == [g[k] EXCEPT !.n = n]
                 two == [one EXCEPT !.pc = pc]
                 three == [two EXCEPT !.cutPatches = x]
                 Rest == Fields \ {"n", "pc", "cutPatches"}
      <3>2. DOMAIN one = Fields /\ \A f \in Rest : one[f] = g[k][f] BY <1>2
      <3>3. g'[k] = three BY <3>1
      <3> HIDE DEF one
      <3>4. DOMAIN two = Fields /\ two["pc"] = pc /\ \A f \in Rest : two[f] = one[f] BY <3>2 DEF Fields
      <3> HIDE DEF two
      <3>5. three["pc"] = pc /\ \A f \in Rest : three[f] = two[f] BY <3>4 DEF Fields
      <3> HIDE DEF three
      <3> QED BY <3>2, <3>3, <3>4, <3>5 DEF Fields
    <2> DEFINE next == IF g[k].n = Len(D(k).patches) THEN "sha256" ELSE "copy"
               failures == IF failed THEN g[k].cutPatches \cup {g[k].n} ELSE g[k].cutPatches
               more == g[k].n + 1
    <2>4. next \notin {"attrs", "tags", "choose"} OBVIOUS
    <2>5. g' = [g EXCEPT ![k].n = more, ![k].pc = next, ![k].cutPatches = failures] BY <2>2, <1>2 DEF Fields
    <2> HIDE DEF next, failures, more
    <2> QED BY <1>1, <2>1, <2>3, <2>4, <2>5
  <1>9. CASE SetAttr(k) BY <1>1, <1>2, <1>9 DEF SetAttr, Fields
  <1>10. CASE RemoveArchive(k) BY <1>1, <1>2, <1>10 DEF RemoveArchive, Fields
  <1>11. CASE Fail(k) BY <1>1, <1>2, <1>11 DEF Fail, Fields
  <1> QED BY <1>3, <1>4, <1>5, <1>6, <1>7, <1>8, <1>9, <1>10, <1>11

\* A goroutine's step does nothing to the others.
LEMMA OneGoroutine ==
  ASSUME NEW k,
         \/ FindAttrs(k) \/ ListTags(k) \/ Choose(k) \/ Download(k) \/ Extract(k)
         \/ CopyDir(k) \/ Apply(k) \/ WritePatch(k) \/ SetAttr(k) \/ RemoveArchive(k) \/ Fail(k)
  PROVE  /\ k \in DOMAIN g /\ input' = input
         /\ DOMAIN g' = DOMAIN g /\ \A l \in DOMAIN g : l # k => g'[l] = g[l]
  <1>1. k \in DOMAIN g
    BY DEF FindAttrs, ListTags, Choose, Download, Extract, CopyDir, Apply, WritePatch, SetAttr, RemoveArchive, Fail, At
  <1>2. input' = input
    BY DEF FindAttrs, ListTags, Choose, Download, Extract, CopyDir, Apply, WritePatch, SetAttr, RemoveArchive, Fail
  <1>3. CASE FindAttrs(k) BY <1>1, <1>2, <1>3 DEF FindAttrs
  <1>4. CASE ListTags(k) BY <1>1, <1>2, <1>4 DEF ListTags
  <1>5. CASE Choose(k)
    <2>1. PICK x : g' = [g EXCEPT ![k].pc = "download", ![k].url = x] BY <1>5 DEF Choose
    <2> QED BY <1>1, <1>2, <2>1
  <1>6. CASE Download(k) BY <1>1, <1>2, <1>6 DEF Download
  <1>7. CASE Extract(k) BY <1>1, <1>2, <1>7 DEF Extract
  <1>8. CASE CopyDir(k) BY <1>1, <1>2, <1>8 DEF CopyDir
  <1>9. CASE Apply(k) BY <1>1, <1>2, <1>9 DEF Apply
  <1>10. CASE WritePatch(k) BY <1>1, <1>2, <1>10 DEF WritePatch
  <1>11. CASE SetAttr(k) BY <1>1, <1>2, <1>11 DEF SetAttr
  <1>12. CASE RemoveArchive(k) BY <1>1, <1>2, <1>12 DEF RemoveArchive
  <1>13. CASE Fail(k) BY <1>1, <1>2, <1>13 DEF Fail
  <1> QED BY <1>3, <1>4, <1>5, <1>6, <1>7, <1>8, <1>9, <1>10, <1>11, <1>12, <1>13

\* What a goroutine has read, and the version it has chosen, in every state: upgradeDepDecl chooses
\* only when it has read every page of tags, and nothing changes its URL afterwards.
THEOREM ReadInductive == Spec => []ReadInv
  <1>1. Init => ReadInv BY DEF Init, ReadInv
  <1>2. Inv /\ Inv' /\ ReadInv /\ [Next]_vars => ReadInv'
    <2> SUFFICES ASSUME Inv, Inv', ReadInv, [Next]_vars PROVE ReadInv'
      OBVIOUS
    <2>1. ASSUME input' = input, g' = g PROVE ReadInv'
      BY <2>1, ReadKept DEF ReadInv
    <2>2. CASE Start BY <2>2, ReadStart
    <2>3. CASE Interrupt \/ Wait \/ WriteFile \/ Exited \/ UNCHANGED vars
      <3>1. input' = input /\ g' = g BY <2>3 DEF Interrupt, Wait, WriteFile, Exited, vars
      <3> QED BY <2>1, <3>1
    <2>4. ASSUME NEW k \in 1..MaxDeps,
                 \/ FindAttrs(k) \/ ListTags(k) \/ Choose(k) \/ Download(k) \/ Extract(k)
                 \/ CopyDir(k) \/ Apply(k) \/ WritePatch(k) \/ SetAttr(k) \/ RemoveArchive(k) \/ Fail(k)
          PROVE  ReadInv'
      <3>1. /\ k \in DOMAIN g /\ input' = input
            /\ DOMAIN g' = DOMAIN g /\ \A l \in DOMAIN g : l # k => g'[l] = g[l]
        BY <2>4, OneGoroutine
      <3>2. \A l \in DOMAIN g : Read(l) /\ Versions(l) BY DEF ReadInv
      <3>3. Read(k)' /\ Versions(k)'
        <4>1. CASE ListTags(k) BY <4>1, <3>1, <3>2, ReadPage
        <4>2. CASE Choose(k) BY <4>2, <3>1, <3>2, ChooseNewest
        <4>3. CASE \/ FindAttrs(k) \/ Download(k) \/ Extract(k)
                   \/ CopyDir(k) \/ Apply(k) \/ WritePatch(k) \/ SetAttr(k) \/ RemoveArchive(k) \/ Fail(k)
          <5>1. /\ g'[k].name = g[k].name /\ g'[k].d = g[k].d /\ g'[k].version = g[k].version
                /\ g'[k].tags = g[k].tags /\ g'[k].page = g[k].page /\ g'[k].url = g[k].url
                /\ \/ g[k].pc = "attrs" /\ g'[k].pc = "tags"
                   \/ g'[k].pc \notin {"attrs", "tags", "choose"}
            BY <4>3, OtherSteps
          <5> QED BY <3>1, <3>2, <5>1, ReadKept
        <4> QED BY <2>4, <4>1, <4>2, <4>3
      <3>4. ASSUME NEW l \in DOMAIN g, l # k PROVE Read(l)' /\ Versions(l)'
        <4>1. g'[l] = g[l] BY <3>1, <3>4
        <4> QED BY <3>1, <3>2, <4>1, ReadKept
      <3> QED BY <3>1, <3>3, <3>4 DEF ReadInv
    <2> QED BY <2>2, <2>3, <2>4 DEF Next
  <1> QED BY <1>1, <1>2, Inductive, PTL DEF Spec

\* upgradeDepDecl takes the highest usable version of the upstream repository, whatever the order of
\* the tags and however many pages there are; the one asked for; or, if no tag is usable, a commit.
THEOREM NewestVersionHolds == Spec => []NewestVersion
  <1>1. ReadInv => NewestVersion BY DEF ReadInv, Versions, NewestVersion, Newest
  <1> QED BY <1>1, ReadInductive, PTL
=============================================================================
