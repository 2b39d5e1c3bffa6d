-------------------------------- MODULE Link -----------------------------------
(***************************************************************************)
(* A binary and the libraries it is made of: the Go targets that the rules *)
(* analyse (new_go_info, emit_archive), their compilation, each of which   *)
(* names the archives that its imports stand for, and the link of what     *)
(* emit_link collects (link.go, buildinfo.go), with the build information  *)
(* and the stamped variables.                                              *)
(*                                                                         *)
(* Targets are numbered, dependencies before dependents; the main package  *)
(* is the last one, and the order of a depset is that of the numbers.      *)
(***************************************************************************)
EXTENDS Importcfg, SequencesExt

CONSTANTS
    Builds,         \* the builds considered: [targets, coverage, buildmode, stamp, status]
    Coverdata,      \* the number of the package coverdata
    Prefixed,       \* the semantic versions without "v", each with the one it stands for
    StableKeys      \* the status keys that Bazel writes to the stable file (info_file)

VARIABLES
    build,          \* the build
    archives,       \* the archive of each target
    compiled,       \* of each target compiled, the importcfg and the imports file
    pc,             \* what the linker's builder does next
    result,         \* "running", "ok", or what failed
    stamps,         \* the status values read: the keys
    defs,           \* the -X flags for the linker
    queue,          \* package paths still to be followed for the build information
    reachable,      \* those followed
    modules,        \* the modules in the build information
    linkcfg         \* the importcfg for the linker

vars == <<build, archives, compiled, pc, result, stamps, defs, queue, reachable, modules, linkcfg>>

None == "none"
Main == Len(build.targets)

\* The elements of s at the places given.
Kept(s, places) ==
    LET kept[n \in 0..Len(s)] ==
            IF n = 0 THEN <<>> ELSE IF n \in places THEN Append(kept[n - 1], s[n]) ELSE kept[n - 1]
    IN  kept[Len(s)]
SortedSeq(S) == Kept([n \in 1..Main |-> n], S)

-----------------------------------------------------------------------------
(* The rules. A target is [importpath, importmap, inferred, aliases, deps, embed, imports,    *)
(* x_defs, metadata]; importpath and importmap may be None, inferred is what the label's      *)
(* package suggests; metadata is a set of at most one package URL. A defined variable is       *)
(* <<package path, name>>, the path None for the target's own package.                        *)

\* _infer_importpath: the attributes, or those of the first embedded target that has explicit
\* ones, or else a guess.
infer(t, embeds) ==
    LET explicit == SelectSeq(embeds, LAMBDA e : e.explicit)
        Or(x, y) == IF x # None THEN x ELSE y
        embed == IF explicit = <<>> THEN [importpath |-> None, importmap |-> None] ELSE Head(explicit)
        importpath == Or(t.importpath, embed.importpath)
        importmap == Or(Or(t.importmap, embed.importmap), importpath)
    IN  IF importpath # None
        THEN [importpath |-> importpath, importmap |-> importmap, explicit |-> TRUE]
        ELSE [importpath |-> t.inferred, importmap |-> t.inferred, explicit |-> FALSE]

\* Of archives with one import path the first is kept: what the embedding target depends on.
\* Mutant: the last is kept, so that embedded targets decide.
dedup_archives_Last(deps, pathOf) ==
    Kept(deps, {n \in DOMAIN deps : \A m \in DOMAIN deps : m > n => pathOf[deps[m]] # pathOf[deps[n]]})
dedup_archives(deps, pathOf) ==
    Kept(deps, {n \in DOMAIN deps : \A m \in 1..(n - 1) : pathOf[deps[m]] # pathOf[deps[n]]})

\* Updates in order: a later definition replaces an earlier one.
Updated(definitions) ==
    LET Latest(v) == CHOOSE n \in DOMAIN definitions :
                       /\ v \in DOMAIN definitions[n]
                       /\ \A m \in DOMAIN definitions : v \in DOMAIN definitions[m] => m <= n
    IN  [v \in UNION {DOMAIN definitions[n] : n \in DOMAIN definitions} |-> definitions[Latest(v)][v]]
FirstOf(sets) ==
    LET some == {n \in DOMAIN sets : sets[n] # {}}
    IN  IF some = {} THEN {} ELSE sets[CHOOSE n \in some : \A m \in some : n <= m]

\* The dependencies of a target, followed by those of the targets it embeds.
MergedDeps(deps, embeds) ==
    LET merged[n \in 0..Len(embeds)] == IF n = 0 THEN deps ELSE merged[n - 1] \o embeds[n].deps
    IN  merged[Len(embeds)]

\* new_go_info and _merge_embed
new_go_info(t, embeds, pathOf) ==
    LET path == infer(t, embeds)
        own == [v \in {IF w[1] = None THEN <<path.importmap, w[2]>> ELSE w : w \in DOMAIN t.x_defs} |->
                  IF v \in DOMAIN t.x_defs THEN t.x_defs[v] ELSE t.x_defs[<<None, v[2]>>]]
    IN  [importpath |-> path.importpath, importmap |-> path.importmap, explicit |-> path.explicit,
         aliases |-> t.aliases,
         deps |-> dedup_archives(MergedDeps(t.deps, embeds), pathOf),
         imports |-> t.imports \cup UNION {embeds[e].imports : e \in DOMAIN embeds},
         x_defs |-> Updated([e \in DOMAIN embeds |-> embeds[e].x_defs] \o <<own>>),
         metadata |-> FirstOf(<<t.metadata>> \o [e \in DOMAIN embeds |-> embeds[e].metadata])]

\* emit_archive: what dependents need to know of a target. Definitions of later dependencies
\* replace those of earlier ones, and the target's own replace all of them.
emit_archive(n, info, made) ==
    [info |-> info,
     direct |-> info.deps,
     transitive |-> {n} \cup UNION {made[d].transitive : d \in {info.deps[k] : k \in DOMAIN info.deps}},
     x_defs |-> Updated([d \in DOMAIN info.deps |-> made[info.deps[d]].x_defs] \o <<info.x_defs>>)]

\* Targets are analysed after those that they name.
Analyse(made, t) ==
    LET embeds == [e \in DOMAIN t.embed |-> made[t.embed[e]].info]
        pathOf == [d \in DOMAIN made |-> made[d].info.importpath]
    IN  Append(made, emit_archive(Len(made) + 1, new_go_info(t, embeds, pathOf), made))
Analysed(targets) ==
    LET made[n \in 0..Len(targets)] == IF n = 0 THEN <<>> ELSE Analyse(made[n - 1], targets[n])
    IN  made[Len(targets)]

\* The -arc flag of a dependency: its export file.
ExportFile(n) == <<"export", n>>
ArcOf(archive, n) ==
    [importPath |-> archive.info.importpath, aliases |-> archive.info.aliases,
     packagePath |-> archive.info.importmap, file |-> ExportFile(n)]

\* What the properties need to know of a build. Dependencies come first. coverdata imports the standard
\* library only, and nothing else is imported by its path. Nothing but the standard library has
\* its package paths, and nothing else that of the main package. No variable of the main package
\* is defined both by the name that its path makes and by the one of the linker, or of the target itself.
IsBuild(b) ==
    LET a == Analysed(b.targets)
        main == Len(b.targets)
        cover == b.targets[Coverdata]
        path == a[main].info.importmap
    IN  /\ main \in Nat /\ b.targets = [n \in 1..main |-> b.targets[n]] /\ Coverdata \in 1..(main - 1)
        /\ \A n \in 1..main : b.targets[n].deps \in Seq(1..(n - 1)) /\ b.targets[n].embed \in Seq(1..(n - 1))
        /\ \A n \in 1..main : ArcOf(a[n], n) # Nil
        /\ cover.deps = <<>> /\ cover.embed = <<>> /\ cover.imports \subseteq Std /\ cover.metadata = {}
        /\ \A n \in 1..main : a[n].info.importpath = a[Coverdata].info.importpath => n = Coverdata
        /\ \A n \in (a[main].transitive \cup {Coverdata}) \ {main} :
              a[n].info.importmap \notin Std \cup {path}
        /\ \A v \in DOMAIN a[main].x_defs :
              v = <<v[1], v[2]>> /\ (v[1] = path /\ path # "main" => <<"main", v[2]>> \notin DOMAIN a[main].x_defs)
        /\ \A v \in DOMAIN b.targets[main].x_defs :
              v = <<v[1], v[2]>> /\ (v[1] = None => <<path, v[2]>> \notin DOMAIN b.targets[main].x_defs)
ASSUME BuildAssumption == \A b \in Builds : IsBuild(b)

Init ==
    /\ \E b \in Builds : build = b /\ archives = Analysed(b.targets)
    /\ compiled = <<>>
    /\ pc = "compile" /\ result = "running"
    /\ stamps = {} /\ defs = {}
    /\ queue = <<>> /\ reachable = {} /\ modules = {}
    /\ linkcfg = {}

-----------------------------------------------------------------------------
(* Compilation, in any order that the dependencies allow *)

Arc(n) == ArcOf(archives[n], n)

Instrumented(n) == build.coverage /\ n # Coverdata
DirectOf(n) == archives[n].direct \o (IF Instrumented(n) THEN <<Coverdata>> ELSE <<>>)
ImportsOf(n) ==
    archives[n].info.imports \cup (IF Instrumented(n) THEN {archives[Coverdata].info.importpath} ELSE {})

Needed == archives[Main].transitive \cup (IF build.coverage THEN {Coverdata} ELSE {})

Checked(n) ==
    LET direct == DirectOf(n) IN checkImports(ImportsOf(n), [d \in DOMAIN direct |-> Arc(direct[d])], {})
CompiledAs(n) ==
    LET imports == Checked(n).imports
        own == {p \in DOMAIN imports : imports[p] # Nil}
    IN  [importcfg |-> buildImportcfgFileForCompile(imports), imports |-> {imports[p].packagePath : p \in own}]

Compile(n) ==
    /\ pc = "compile" /\ n \in Needed \ DOMAIN compiled
    /\ \A d \in DOMAIN DirectOf(n) : DirectOf(n)[d] \in DOMAIN compiled
    /\ \/ /\ Checked(n).err # "none"
          /\ result' = Checked(n).err /\ pc' = "done" /\ UNCHANGED compiled
       \/ /\ Checked(n).err = "none"
          /\ compiled' = [m \in DOMAIN compiled \cup {n} |-> IF m = n THEN CompiledAs(n) ELSE compiled[m]]
          /\ UNCHANGED <<result, pc>>
    /\ UNCHANGED <<build, archives, stamps, defs, queue, reachable, modules, linkcfg>>

-----------------------------------------------------------------------------
(* emit_link *)

\* The archives for the linker, the main one not among them. With coverage a depset may hold one
\* twice, and they are made unique by their package path.
\* Mutant: the linker is not given the package that instrumented files import.
LinkedArchives_NoCoverdata == SortedSeq(archives[Main].transitive \ {Main})
\* Mutant: archives of one package path are made unique without coverage too.
LinkedArchives_Unique ==
    dedup_archives(SortedSeq((archives[Main].transitive \ {Main}) \cup (IF build.coverage THEN {Coverdata} ELSE {})),
                   [n \in DOMAIN archives |-> archives[n].info.importmap])
LinkedArchives ==
    LET all == archives[Main].transitive \ {Main}
        pathOf == [n \in DOMAIN archives |-> archives[n].info.importmap]
    IN  IF build.coverage THEN dedup_archives(SortedSeq(all \cup {Coverdata}), pathOf) ELSE SortedSeq(all)

LinkArc(n) ==
    [importPath |-> <<"label", n>>, aliases |-> {}, packagePath |-> archives[n].info.importmap, file |-> <<"lib", n>>]

\* A value is the set of the status keys in it. The stable file is an input if a value has a
\* stable key, the volatile one if a value has another key.
\* Mutant: the stable file stands for both.
StampFiles_Either ==
    LET values == {archives[Main].x_defs[v] : v \in DOMAIN archives[Main].x_defs}
        keys == UNION values
    IN  IF ~build.stamp \/ keys = {} THEN {} ELSE IF keys \cap StableKeys # {} THEN {"info"} ELSE {"version"}
StampFiles ==
    LET values == {archives[Main].x_defs[v] : v \in DOMAIN archives[Main].x_defs}
    IN  {f \in {"info", "version"} : build.stamp /\ \E keys \in values :
            IF f = "info" THEN keys \cap StableKeys # {} ELSE keys \ StableKeys # {}}

\* The flags -package_metadata and -imports: the last target of a package path stays.
KeyedPaths(targets) ==
    [p \in {archives[n].info.importmap : n \in targets} |->
        CHOOSE n \in targets : /\ archives[n].info.importmap = p
                               /\ \A m \in targets : archives[m].info.importmap = p => m <= n]
AllArchives == archives[Main].transitive
MetadataByPackage == KeyedPaths({n \in AllArchives : archives[n].info.metadata # {}})
ImportsByPackage == KeyedPaths(AllArchives \ {Main})

-----------------------------------------------------------------------------
(* The builder's link *)

Fail(err) == pc' = "done" /\ result' = err

shouldEmitBuildInfo == build.buildmode \notin {"c-archive", "c-shared", "plugin"}

\* The status keys that the files name.
Stamp ==
    /\ pc = "compile" /\ DOMAIN compiled = Needed
    /\ stamps' = {k \in build.status : IF k \in StableKeys THEN "info" \in StampFiles ELSE "version" \in StampFiles}
    /\ IF shouldEmitBuildInfo
       THEN pc' = "reach" /\ queue' = SetToSeq(compiled[Main].imports)
       ELSE pc' = "importcfg" /\ UNCHANGED queue
    /\ UNCHANGED <<build, archives, compiled, result, defs, reachable, modules, linkcfg>>

\* reachableModules: the last path of the queue is followed.
\* Mutant: only what the main package imports itself is reachable.
Follow_Direct(path) == Front(queue)
Follow(path) ==
    Front(queue) \o (IF path \in DOMAIN ImportsByPackage
                     THEN SetToSeq(compiled[ImportsByPackage[path]].imports) ELSE <<>>)

Reach ==
    /\ pc = "reach" /\ queue # <<>>
    /\ LET path == Last(queue) IN
       IF path \in reachable
       THEN queue' = Front(queue) /\ UNCHANGED reachable
       ELSE queue' = Follow(path) /\ reachable' = reachable \cup {path}
    /\ UNCHANGED <<build, archives, compiled, pc, result, stamps, defs, modules, linkcfg>>

\* moduleFromPURL: a package URL is [golang, path, version]; one of another type names no module.
Malformed(purl) == purl.golang /\ purl.path = None
isUnprefixedSemver(version) == version \in DOMAIN Prefixed
moduleFromPURL(purl) ==
    [path |-> purl.path,
     version |-> IF purl.version = None THEN "(devel)"
                 ELSE IF isUnprefixedSemver(purl.version) THEN Prefixed[purl.version] ELSE purl.version]
modulesFromPackageMetadataFiles(purls) == {moduleFromPURL(p) : p \in {q \in purls : q.golang}}

buildInfoDeps(found, mainModule) == {m \in found : \A main \in mainModule : m.path # main.path}

Modules ==
    LET found == UNION {archives[MetadataByPackage[p]].info.metadata : p \in reachable \cap DOMAIN MetadataByPackage}
        main == archives[Main].info.metadata
    IN  /\ pc = "reach" /\ queue = <<>>
        /\ IF \E purl \in found \cup main : Malformed(purl)
           THEN Fail("malformed package URL") /\ UNCHANGED modules
           ELSE /\ modules' = buildInfoDeps(modulesFromPackageMetadataFiles(found),
                                            modulesFromPackageMetadataFiles(main))
                /\ pc' = "importcfg" /\ UNCHANGED result
        /\ UNCHANGED <<build, archives, compiled, stamps, defs, queue, reachable, linkcfg>>

\* buildImportcfgFileForLink, and the -X flags: a definition with a key that no file has is left
\* out, and the linker knows the main package as main.
Importcfg ==
    LET arcs == [n \in DOMAIN LinkedArchives |-> LinkArc(LinkedArchives[n])]
        Renamed(v) == IF v[1] = archives[Main].info.importmap THEN <<"main", v[2]>> ELSE v
        x_defs == archives[Main].x_defs
    IN  /\ pc = "importcfg"
        /\ IF Conflict(arcs)
           THEN Fail("package conflict") /\ UNCHANGED <<linkcfg, defs>>
           ELSE /\ linkcfg' = buildImportcfgFileForLink(arcs)
                /\ defs' = {<<Renamed(v), x_defs[v]>> : v \in {w \in DOMAIN x_defs : x_defs[w] \subseteq stamps}}
                /\ pc' = "link" /\ UNCHANGED result
        /\ UNCHANGED <<build, archives, compiled, stamps, queue, reachable, modules>>

\* The Go linker, and for a C archive the builder's rewriting of its output.
Linker ==
    /\ pc = "link" /\ pc' = "done"
    /\ result' \in {"ok", "linker failed"}
    /\ UNCHANGED <<build, archives, compiled, stamps, defs, queue, reachable, modules, linkcfg>>

Next ==
    \/ \E n \in DOMAIN archives : Compile(n)
    \/ Stamp \/ Reach \/ Modules \/ Importcfg \/ Linker

Spec == Init /\ [][Next]_vars

-----------------------------------------------------------------------------
(* Properties *)

\* Different targets that the binary is made of have one package path.
Conflicting ==
    \E m, n \in Needed \ {Main} : m # n /\ archives[m].info.importmap = archives[n].info.importmap

\* What the linker gets for an import is the archive whose export file the compiler was given for
\* it, in every package of the binary: coverage, embedding, importmap, aliases and several
\* targets of one import path notwithstanding. (With coverage, unless packages conflict.)
Target(files) == {f[2] : f \in {g \in files : g[1] \in {"export", "lib"}}}
LinkedAsCompiled ==
    (pc \in {"link", "done"} /\ linkcfg # {} /\ ~(build.coverage /\ Conflicting)) =>
        \A n \in DOMAIN compiled : \A p \in ImportsOf(n) \ ({"C"} \cup IsRelative \cup Std) :
            LET cfg == compiled[n].importcfg
                path == Mapped(cfg, p)
            IN  /\ Target(FilesOf(cfg, path)) = Target(FilesOf(linkcfg, path))
                /\ Cardinality(FilesOf(linkcfg, path)) = 1

\* What the compiler reads for an import is the target itself that the package depends on: a
\* target that embeds another replaces, by import path, what that one depends on.
Chosen(n, p) ==
    LET t == build.targets[n]
        own == {k \in DOMAIN t.deps : archives[t.deps[k]].info.importpath = p}
    IN  {t.deps[k] : k \in {j \in own : \A i \in own : j <= i}}
EmbedderDecides ==
    \A n \in DOMAIN compiled : \A p \in build.targets[n].imports :
        (p \notin {"C"} \cup IsRelative \cup Std /\ Chosen(n, p) # {}) =>
            {ExportFile(m) : m \in Chosen(n, p)} \subseteq
                FilesOf(compiled[n].importcfg, Mapped(compiled[n].importcfg, p))

\* Without coverage the build fails on packages of one path, and on no others.
ConflictsFound ==
    (linkcfg # {} \/ result = "package conflict") /\ ~build.coverage =>
        (result = "package conflict" <=> Conflicting)

\* The build information names the modules of exactly those packages that the main package
\* imports, directly or through others, but for the main module's own.
Step(n) == {m \in Needed : \E p \in ImportsOf(n) : ExportFile(m) \in
                FilesOf(compiled[n].importcfg, Mapped(compiled[n].importcfg, p))}
Closed(S) == \A n \in S : Step(n) \subseteq S
Imported == LET closed == {S \in SUBSET Needed : Closed(S) /\ Step(Main) \subseteq S}
            IN  {n \in Needed : \A S \in closed : n \in S}
PurlsOf(n) == {p \in archives[n].info.metadata : p.golang}

ModulesExact ==
    (linkcfg # {} /\ ~Conflicting) =>
        modules = IF shouldEmitBuildInfo
                  THEN {moduleFromPURL(p) : p \in {q \in UNION {PurlsOf(n) : n \in Imported} :
                                                     \A main \in PurlsOf(Main) : q.path # main.path}}
                  ELSE {}

\* A variable is stamped with a definition exactly if the status of the workspace has every key of
\* it, and values are stamped at all; a definition of the main target decides over those of its
\* dependencies; and no file is read without need.
DefsExact ==
    linkcfg # {} =>
        LET t == build.targets[Main]
            Given(keys) == keys = {} \/ (build.stamp /\ keys \subseteq build.status)
        IN  /\ \A v \in DOMAIN archives[Main].x_defs :
                  LET name == IF v[1] = archives[Main].info.importmap THEN <<"main", v[2]>> ELSE v
                      given == {d[2] : d \in {e \in defs : e[1] = name}}
                  IN  given = {k \in {archives[Main].x_defs[v]} : Given(k)}
            /\ \A v \in DOMAIN t.x_defs :
                  (v[1] = None /\ Given(t.x_defs[v])) => <<<<"main", v[2]>>, t.x_defs[v]>> \in defs
            /\ ("version" \in StampFiles) => \E v \in DOMAIN archives[Main].x_defs :
                                                archives[Main].x_defs[v] \ StableKeys # {}
=============================================================================
