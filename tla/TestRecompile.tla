---------------------------- MODULE TestRecompile ----------------------------
(***************************************************************************)
(* _recompile_external_deps: the archives that an external test depends on *)
(* are put in post-order by a search that has a stack, counters and a      *)
(* fixed number of steps in place of recursion; those that depend on the   *)
(* library under test are compiled again against the internal archive,     *)
(* which takes the library's place in the test binary.                     *)
(* A compiled file is <<label, again>>: again tells it from the file that  *)
(* the label's own target compiles.                                        *)
(***************************************************************************)
EXTENDS Integers, Sequences, FiniteSets, Functions

CONSTANTS
    Label,      \* the targets
    Test,       \* the go_test target, which is also the label of its internal archive
    Inputs      \* tests, records of type Input

\* deps: the direct dependencies of an archive, for Test those of its internal archive.
\* embeds: the libraries under test. path: the import paths; the internal archive has
\* that of the libraries it embeds. imports: what the sources of the internal archive import.
\* cgo: the internal archive is compiled with cgo.
IsInput(x) ==
    /\ x.deps \in [Label -> Seq(Label)] /\ x.embeds \subseteq Label \ {Test}
    /\ DOMAIN x.path = Label /\ x.imports \subseteq Range(x.deps[Test]) /\ x.cgo \in BOOLEAN
    \* new_go_info has no two dependencies with one path, and Bazel no cycle
    /\ \A l \in Label : \A m, n \in DOMAIN x.deps[l] : x.path[x.deps[l][m]] = x.path[x.deps[l][n]] => m = n
    /\ \A S \in SUBSET Label : S # {} => \E l \in S : Range(x.deps[l]) \cap S = {}
    /\ \A l \in Label : Test \notin Range(x.deps[l])
    \* a binary has one archive of a path, the library under test being replaced in it
    /\ \A k, l \in Label \ x.embeds : x.path[k] = x.path[l] => k = l
    /\ \A e \in x.embeds, l \in Label : x.path[l] = x.path[e] <=> l \in x.embeds \cup {Test}
    \* the internal archive has the dependencies of what it embeds
    /\ \A e \in x.embeds : Range(x.deps[e]) \subseteq Range(x.deps[Test])

ASSUME InputAssumption == /\ Test \in Label /\ IsFiniteSet(Label) /\ \A x \in Inputs : IsInput(x)

VARIABLES
    input,
    phase,            \* the loop in progress, or the outcome
    todo,             \* what the loop over a list has left
    external,         \* labels of external_go_info.deps
    arc_data_list,    \* the set of its labels
    stack, deps_pushed, dependents, dep_list, i,
    label,            \* the archive the search looks at
    need_recompile,
    need_recompile_deps,
    internal,         \* the internal archive
    label_to_archive

search == <<stack, deps_pushed, dependents, dep_list, i, label>>
outcome == <<need_recompile, need_recompile_deps, internal, label_to_archive>>
recompileVars == <<input, phase, todo, external, arc_data_list, search, outcome>>

Deps(l) == input.deps[l]
Direct == Deps(Test)
N == Cardinality(arc_data_list)

\* The labels of a depset's transitive closure: those in every set that holds ls and,
\* with a label, its dependencies.
Transitive(ls) ==
    {l \in Label : \A S \in SUBSET Label :
        (ls \subseteq S /\ \A k \in S : Range(Deps(k)) \subseteq S) => l \in S}

-----------------------------------------------------------------------------
(* Archives and dictionaries *)

EmptyDict == [l \in {} |-> 0]
Put(dict, key, value) == [k \in DOMAIN dict \cup {key} |-> IF k = key THEN value ELSE dict[k]]

\* direct: the files of the dependencies. libs: everything a binary links for the archive.
Archive(l, again, deps) ==
    [file |-> <<l, again>>, direct |-> {a.file : a \in deps},
     libs |-> {<<l, again>>} \cup UNION {a.libs : a \in deps}]

\* The archive that the target itself provides.
Original(l) ==
    [file |-> <<l, FALSE>>, direct |-> {<<d, FALSE>> : d \in Range(Deps(l))},
     libs |-> {<<k, FALSE>> : k \in Transitive({l})}]

RecompileInit ==
    /\ input \in Inputs
    /\ phase = "external" /\ todo = Append(Direct, Test)
    /\ external = <<>> /\ arc_data_list = {}
    /\ stack = <<>> /\ deps_pushed = EmptyDict /\ dependents = EmptyDict
    /\ dep_list = <<>> /\ i = 0 /\ label = Test
    /\ need_recompile = EmptyDict /\ need_recompile_deps = {}
    /\ internal = Original(Test) /\ label_to_archive = EmptyDict

-----------------------------------------------------------------------------
(* The dependencies of the external archive *)

\* new_go_info: _dedup_archives, over internal_archive.direct + [internal_archive].
DedupArchives ==
    /\ phase = "external" /\ todo # <<>>
    /\ todo' = Tail(todo)
    /\ external' = IF \E l \in Range(external) : input.path[l] = input.path[Head(todo)]
                   THEN external ELSE Append(external, Head(todo))
    /\ UNCHANGED <<input, phase, arc_data_list, search, outcome>>

UnderTest == input.embeds \cap Transitive(Range(external))

\* No library is embedded, or none of those that are is in the graph.
NothingToRecompile ==
    /\ phase = "external" /\ todo = <<>> /\ UnderTest = {}
    /\ phase' = "compile"
    /\ UNCHANGED <<input, todo, external, arc_data_list, search, outcome>>

StartSearch ==
    /\ phase = "external" /\ todo = <<>> /\ UnderTest # {}
    /\ arc_data_list' = Transitive(Range(external))
    /\ stack' = external
    /\ deps_pushed' = [l \in Range(external) |-> -1]
    /\ dependents' = [l \in Range(external) |-> <<>>]
    /\ phase' = "step"
    /\ UNCHANGED <<input, todo, external, dep_list, i, label, outcome>>

-----------------------------------------------------------------------------
(* The search. An archive whose dependencies were not pushed yet has the count -1; *)
(* the None of the code is written -1 as well, being tested for the same only.     *)

Top == stack[Len(stack)]
Pop == SubSeq(stack, 1, Len(stack) - 1)

Step ==
    /\ phase = "step" /\ stack # <<>> /\ i < 2 * N
    /\ i' = i + 1
    /\ label' = Top
    /\ stack' = Pop

\* All dependencies are in dep_list.
Finish ==
    /\ Step /\ deps_pushed[Top] = 0
    /\ dep_list' = Append(dep_list, Top)
    /\ todo' = dependents[Top]
    /\ phase' = "notify"
    /\ UNCHANGED <<input, external, arc_data_list, deps_pushed, dependents, outcome>>

NotifyDependent ==
    LET p == Head(todo) IN
    /\ phase = "notify" /\ todo # <<>>
    /\ todo' = Tail(todo)
    /\ deps_pushed' = [deps_pushed EXCEPT ![p] = @ - 1]
    /\ stack' = IF deps_pushed[p] = 1 THEN Append(stack, p) ELSE stack
    /\ UNCHANGED <<input, phase, external, arc_data_list, dependents, dep_list, i, label, outcome>>

Notified ==
    /\ phase = "notify" /\ todo = <<>>
    /\ phase' = "step"
    /\ UNCHANGED <<input, todo, external, arc_data_list, search, outcome>>

Expand ==
    /\ Step /\ deps_pushed[Top] # 0
    /\ deps_pushed' = [deps_pushed EXCEPT ![Top] = 0]
    /\ todo' = Deps(Top)
    /\ phase' = "push"
    /\ UNCHANGED <<input, external, arc_data_list, dependents, dep_list, outcome>>

\* Mutant: a dependency that was seen before is taken to be finished.
PushDep_SeenIsDone ==
    LET c == Head(todo) IN
    /\ phase = "push" /\ todo # <<>>
    /\ todo' = Tail(todo)
    /\ IF c \notin DOMAIN deps_pushed
       THEN /\ stack' = Append(stack, c)
            /\ deps_pushed' = [Put(deps_pushed, c, -1) EXCEPT ![label] = @ + 1]
            /\ dependents' = Put(dependents, c, <<label>>)
       ELSE UNCHANGED <<stack, deps_pushed, dependents>>
    /\ UNCHANGED <<input, phase, external, arc_data_list, dep_list, i, label, outcome>>

\* Push a dependency that was not seen; wait for one that is not finished.
PushDep ==
    LET c == Head(todo) IN
    /\ phase = "push" /\ todo # <<>>
    /\ todo' = Tail(todo)
    /\ CASE c \notin DOMAIN deps_pushed ->
              /\ stack' = Append(stack, c)
              /\ deps_pushed' = [Put(deps_pushed, c, -1) EXCEPT ![label] = @ + 1]
              /\ dependents' = Put(dependents, c, <<label>>)
         [] c \in DOMAIN deps_pushed /\ deps_pushed[c] # 0 ->
              /\ deps_pushed' = [deps_pushed EXCEPT ![label] = @ + 1]
              /\ dependents' = [dependents EXCEPT ![c] = Append(@, label)]
              /\ UNCHANGED stack
         [] c \in DOMAIN deps_pushed /\ deps_pushed[c] = 0 -> UNCHANGED <<stack, deps_pushed, dependents>>
    /\ UNCHANGED <<input, phase, external, arc_data_list, dep_list, i, label, outcome>>

DepsPushed ==
    /\ phase = "push" /\ todo = <<>>
    /\ stack' = IF deps_pushed[label] = 0 THEN Append(stack, label) ELSE stack
    /\ phase' = "step"
    /\ UNCHANGED <<input, todo, external, arc_data_list, deps_pushed, dependents, dep_list, i, label, outcome>>

\* The for loop is over: "assertion failed" unless every step was used.
SearchEnds ==
    /\ phase = "step" /\ (stack = <<>> \/ i = 2 * N)
    /\ todo' = dep_list
    /\ phase' = IF i = 2 * N THEN "need" ELSE "failed"
    /\ UNCHANGED <<input, external, arc_data_list, search, outcome>>

-----------------------------------------------------------------------------
(* What has to be compiled again *)

\* Mutant: only direct dependents of the library are compiled again.
NeedRecompile_Direct ==
    LET l == Head(todo) IN
    /\ phase = "need" /\ todo # <<>>
    /\ todo' = Tail(todo)
    /\ phase' = IF Range(Deps(l)) \subseteq input.embeds \cup DOMAIN need_recompile THEN phase ELSE "failed"
    /\ need_recompile' = IF phase' = "failed" THEN need_recompile
                         ELSE Put(need_recompile, l, Range(Deps(l)) \cap input.embeds # {})
    /\ UNCHANGED <<input, external, arc_data_list, search, need_recompile_deps, internal, label_to_archive>>

\* A dependency without an entry would be a key that is not found.
NeedRecompile ==
    LET l == Head(todo) IN
    /\ phase = "need" /\ todo # <<>>
    /\ todo' = Tail(todo)
    /\ phase' = IF Range(Deps(l)) \subseteq input.embeds \cup DOMAIN need_recompile THEN phase ELSE "failed"
    /\ need_recompile' =
          IF phase' = "failed" THEN need_recompile
          ELSE Put(need_recompile, l, \E d \in Range(Deps(l)) : d \in input.embeds \/ need_recompile[d])
    /\ UNCHANGED <<input, external, arc_data_list, search, need_recompile_deps, internal, label_to_archive>>

\* Mutant: nothing is passed down to the builder.
RecompileInternal_Silent ==
    /\ phase = "need" /\ todo = <<>>
    /\ internal' = Archive(Test, TRUE, {Original(d) : d \in {e \in Range(Direct) : ~need_recompile[e]}})
    /\ todo' = dep_list /\ phase' = "archives"
    /\ UNCHANGED <<input, external, arc_data_list, search, need_recompile, need_recompile_deps, label_to_archive>>

\* The internal archive without the dependencies that import it. With cgo, emit_archive does
\* not pass their paths on.
RecompileInternal ==
    /\ phase = "need" /\ todo = <<>>
    /\ IF Range(Direct) \subseteq DOMAIN need_recompile
       THEN /\ need_recompile_deps' = {d \in Range(Direct) : need_recompile[d] /\ ~input.cgo}
            /\ internal' = Archive(Test, TRUE, {Original(d) : d \in {e \in Range(Direct) : ~need_recompile[e]}})
            /\ todo' = dep_list /\ phase' = "archives"
       ELSE /\ phase' = "failed"
            /\ UNCHANGED <<todo, need_recompile_deps, internal>>
    /\ UNCHANGED <<input, external, arc_data_list, search, need_recompile, label_to_archive>>

\* Mutant: only what imports the library itself is compiled again.
MakeArchive_Direct ==
    LET l == Head(todo)
        deps == {label_to_archive[d] : d \in Range(Deps(l))}
    IN
    /\ phase = "archives" /\ todo # <<>>
    /\ todo' = Tail(todo)
    /\ label_to_archive' = Put(label_to_archive, l,
          IF l \in input.embeds \cup {Test} THEN internal
          ELSE Archive(l, Range(Deps(l)) \cap input.embeds # {}, deps))
    /\ UNCHANGED <<input, phase, external, arc_data_list, search, need_recompile, need_recompile_deps, internal>>

\* An archive that is not compiled again keeps its file, with the archives of its
\* dependencies in the place of theirs.
MakeArchive ==
    LET l == Head(todo) IN
    /\ phase = "archives" /\ todo # <<>>
    /\ todo' = Tail(todo)
    /\ IF l = Test \/ l \in input.embeds
       THEN /\ label_to_archive' = Put(label_to_archive, l, internal)
            /\ UNCHANGED phase
       ELSE IF Range(Deps(l)) \subseteq DOMAIN label_to_archive
       THEN /\ label_to_archive' = Put(label_to_archive, l,
                  Archive(l, need_recompile[l], {label_to_archive[d] : d \in Range(Deps(l))}))
            /\ UNCHANGED phase
       ELSE /\ phase' = "failed"
            /\ UNCHANGED label_to_archive
    /\ UNCHANGED <<input, external, arc_data_list, search, need_recompile, need_recompile_deps, internal>>

Return ==
    /\ phase = "archives" /\ todo = <<>>
    /\ phase' = IF Range(external) \subseteq DOMAIN label_to_archive THEN "compile" ELSE "failed"
    /\ UNCHANGED <<input, todo, external, arc_data_list, search, outcome>>

-----------------------------------------------------------------------------
(* The build *)

\* checkImports, when the internal archive is compiled: its sources may not import what was
\* taken from its dependencies, and only what is left.
CompileInternal ==
    /\ phase = "compile"
    /\ phase' = IF \E m \in input.imports, d \in need_recompile_deps : input.path[m] = input.path[d]
             THEN "cycle"
             ELSE IF \A m \in input.imports : <<m, FALSE>> \in internal.direct THEN "built" ELSE "missing"
    /\ UNCHANGED <<input, todo, external, arc_data_list, search, outcome>>

RecompileEnded == phase \in {"failed", "cycle", "missing", "built"} /\ UNCHANGED recompileVars

RecompileNext ==
    \/ DedupArchives \/ NothingToRecompile \/ StartSearch
    \/ Finish \/ NotifyDependent \/ Notified
    \/ Expand \/ PushDep \/ DepsPushed \/ SearchEnds
    \/ NeedRecompile \/ RecompileInternal \/ MakeArchive \/ Return
    \/ CompileInternal \/ RecompileEnded

RecompileSpec == RecompileInit /\ [][RecompileNext]_recompileVars

-----------------------------------------------------------------------------
(* Properties *)

\* Each archive of the list appears once, and after its dependencies.
AfterDeps ==
    \A n \in DOMAIN dep_list :
        /\ \A m \in 1..(n - 1) : dep_list[m] # dep_list[n]
        /\ \A d \in Range(Deps(dep_list[n])) : \E m \in 1..(n - 1) : dep_list[m] = d

\* The list is complete when the search has used its steps, it needs all of them, and what is
\* looked up afterwards is found.
Complete == phase # "failed" /\ (phase = "need" => Range(dep_list) = arc_data_list)

\* "Each archive appears after its dependencies and before its dependents", although one may be
\* finished while another is waiting, and "each archive is pushed onto the stack twice": with 2N
\* steps none is left out and none is visited too often.
PostOrder == AfterDeps /\ Complete

\* The archives that import a library under test, directly or not.
Importers == {l \in Label : Transitive(Range(Deps(l))) \cap input.embeds # {}}

\* Exactly the archives "that transitively import the library under test" are recompiled.
RecompiledExactly ==
    \A l \in DOMAIN need_recompile : need_recompile[l] <=> l \in Importers

\* What the linker is given for the test: its internal archive and all the external test needs.
Linked ==
    {internal.file} \cup
    IF label_to_archive = EmptyDict THEN {<<l, FALSE>> : l \in Transitive(Range(external))}
    ELSE UNION {label_to_archive[l].libs : l \in Range(external)}

\* The files a file was compiled against.
CompiledAgainst(f) ==
    IF f = internal.file THEN internal.direct
    ELSE IF f[2] THEN label_to_archive[f[1]].direct ELSE Original(f[1]).direct

\* A test that depends on a library it embeds.
DependsOnEmbedded == Range(Direct) \cap input.embeds # {}

\* No two files with one import path are linked.
OneCopyLinked == \A f, g \in Linked : input.path[f[1]] = input.path[g[1]] => f = g

\* Whatever a linked file was compiled against is linked itself, the same file.
ExportDataMatches == \A f \in Linked : CompiledAgainst(f) \subseteq Linked

\* "The library under test must not be linked into the test binary, since the internal test
\* archive embeds the same sources", and nothing is linked of which "export data they were
\* compiled with doesn't match the export data they are linked with".
LinksTogether ==
    phase \in {"compile", "built"} /\ ~DependsOnEmbedded => OneCopyLinked /\ ExportDataMatches

\* "The internal archive can't import anything that imports itself": its build fails exactly
\* if the sources do so, although Bazel's graph has no cycle, and with the cycle as reason,
\* unless it uses cgo.
CycleReported ==
    /\ phase \in {"cycle", "missing"} => input.imports \cap Importers # {}
    /\ phase = "built" => input.imports \cap Importers = {}
    /\ phase = "missing" => input.cgo
=============================================================================
