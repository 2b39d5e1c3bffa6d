----------------------------- MODULE CompilePkg --------------------------------
(***************************************************************************)
(* The action GoCompilePkg: the rule's choice of the builder's flags       *)
(* (archive.bzl, compilepkg.bzl) and the program that filters the sources,  *)
(* instruments them for coverage, runs cgo and the C compiler, checks the  *)
(* imports, compiles, assembles and packs (compilepkg.go and the files it   *)
(* calls). Every subprocess may fail. A file name is a record [dir, base,  *)
(* kind], base a sequence that a suffix can be appended to; the files that *)
(* the action creates in its work directory are a function from names to   *)
(* what they hold: the source they stem from and how it was rewritten.     *)
(***************************************************************************)
EXTENDS Importcfg, Functions

CONSTANTS
    Libs,       \* the libraries considered: [srcs, generated, cgo, deps, testfilter, instrumented, recompile]
    Modes,      \* the configurations considered: [pure, coverdata, exportH, work]
    Coverdata   \* the archive of the package coverdata

\* The directories of the files that the action makes; "none" is that of no file.
OwnDirs == {"none", "out", "work", "cgo", "cgo/cgosrcs", "cgo_nogo", "cgo_nogo/cgosrcs"}

IsSeq(s) == Len(s) \in Nat /\ s = [n \in 1..Len(s) |-> s[n]]
IsName(x) == /\ x = [dir |-> x.dir, base |-> x.base, kind |-> x.kind]
             /\ x.dir \notin OwnDirs /\ IsSeq(x.base) /\ x.base # <<>>

\* Bazel rejects a label given twice; a dependency has one file for its package path, which
\* is not that of a standard package.
IsLib(lib) ==
    /\ IsSeq(lib.srcs) /\ IsSeq(lib.deps) /\ lib.testfilter \in {"off", "only", "exclude"}
    /\ \A m, n \in DOMAIN lib.srcs : lib.srcs[m].name = lib.srcs[n].name => m = n
    /\ \A f \in Range(lib.srcs) : IsName(f.name) /\ (f.ext = "go" => f.name.kind = "go")
    /\ \A d, e \in Range(lib.deps) \cup {Coverdata} :
          /\ d # Nil /\ d.packagePath \notin Std
          /\ d.packagePath = e.packagePath => d.file = e.file

CgoImported == {"runtime/cgo", "syscall", "unsafe"}
CoverImported == {"sync/atomic", "runtime/coverage"}

ASSUME LibAssumption == \A lib \in Libs : IsLib(lib)
ASSUME CoverdataAssumption == Coverdata.importPath \notin Std
ASSUME AddedAssumption == CgoImported \cup CoverImported \subseteq Std

VARIABLES
    pkg,        \* the flags of the builder
    pc,         \* the next step, or "done"
    result,     \* "running", "ok", or what failed
    srcs,       \* the filtered sources: a sequence of files for each kind
    goSrcs,     \* names of the Go files to compile
    cgoSrcs,    \* names of the Go files to run cgo on
    cgoSrcsNogo,\* the copy of cgoSrcs made before they are instrumented
    work,       \* what the files in the work directory hold
    queue,      \* C, assembly files still to be compiled by the C compiler, or assembled
    genGoSrcs,  \* names of the Go files that cgo made
    objFiles,   \* the objects made so far: what was compiled, and by which program
    importcfg,  \* the lines of the importcfg file
    archive,    \* the Go files and objects in the archive, or Nil
    outputs,    \* the output files written
    importsFile,\* the package paths in the imports file
    nogoSrcs,   \* what the files hold that were copied for nogo
    temps,      \* files outside of the outputs that exist
    deferred    \* those that are removed at the end

vars == <<pkg, pc, result, srcs, goSrcs, cgoSrcs, cgoSrcsNogo, work, queue, genGoSrcs,
          objFiles, importcfg, archive, outputs, importsFile, nogoSrcs, temps, deferred>>

Empty == [x \in {} |-> x]

-----------------------------------------------------------------------------
(* The rule: emit_archive and emit_compilepkg *)

emit_compilepkg(lib, mode, cgo, recompileInternalDeps) ==
    LET coverSrcs == IF lib.instrumented THEN {lib.srcs[n].name : n \in DOMAIN lib.srcs} \ lib.generated ELSE {}
        cover == coverSrcs # {} /\ mode.coverdata
    IN  [unfilteredSrcs |-> lib.srcs,
         deps |-> IF cover THEN Append(lib.deps, Coverdata) ELSE lib.deps,
         coverMode |-> cover,
         coverSrcs |-> IF cover THEN coverSrcs ELSE {},
         cgoEnabled |-> ~mode.pure,
         cc |-> cgo,
         cgoGoSrcs |-> cgo,
         cgoExportH |-> cgo /\ mode.exportH,
         testFilter |-> lib.testfilter,
         recompile |-> recompileInternalDeps,
         work |-> mode.work]

\* With cgo the rule does not pass recompile_internal_deps on.
emit_archive(lib, mode) ==
    LET cgo == lib.cgo /\ ~mode.pure
    IN  emit_compilepkg(lib, mode, cgo, IF cgo THEN {} ELSE lib.recompile)

-----------------------------------------------------------------------------
(* filterAndSplitFiles and applyTestFilter. A file is [name, ext, pkg, imports, parses,      *)
(* constraint]: whether its header parses, and whether the build constraints select it.      *)

CExts == {"c", "cxx", "objc", "objcxx"}
Exts == {"go", "s", "h", "syso"} \cup CExts

\* readGoInfo records nothing of a file whose header does not parse.
ImportsOf(f) == IF f.ext = "go" /\ f.parses THEN f.imports ELSE {}
PkgOf(f) == IF f.parses THEN f.pkg ELSE "none"
isCgo(f) == "C" \in ImportsOf(f)
Matched(f) == f.constraint /\ (pkg.cgoEnabled \/ ~isCgo(f))

\* The elements of a sequence that are in S, in their order.
Only(S, s) ==
    LET kept[n \in 0..Len(s)] ==
            IF n = 0 THEN <<>> ELSE IF s[n] \in S THEN Append(kept[n - 1], s[n]) ELSE kept[n - 1]
    IN  kept[Len(s)]

SplitFiles(files) ==
    [e \in Exts |-> Only({f \in Range(files) : f.ext = e /\ Matched(f)}, files)]

filterAndSplitFiles(files) ==
    LET packageContainsCgo == \E f \in Range(files) : isCgo(f)
    IN  IF packageContainsCgo /\ ~pkg.cgoEnabled
        THEN [SplitFiles(files) EXCEPT !["s"] = <<>>] ELSE SplitFiles(files)

TestPkgs == {"p_test"}
applyTestFilter(res) ==
    [res EXCEPT !["go"] = Only({f \in Range(@) :
        pkg.testFilter # "off" => (PkgOf(f) \in TestPkgs <=> pkg.testFilter = "only")}, @)]

-----------------------------------------------------------------------------
(* Names and what they hold *)

Original(name) == [src |-> name, marks |-> {}]
Generated(what) == [src |-> [dir |-> "none", base |-> <<what>>, kind |-> "go"], marks |-> {}]
HeldIn(w, name) == IF name \in DOMAIN w THEN w[name] ELSE Original(name)
Put(w, name, held) == [x \in DOMAIN w \cup {name} |-> IF x = name THEN held ELSE w[x]]
Mark(held, m) == [held EXCEPT !.marks = @ \cup {m}]

WorkName(dir, base, kind) == [dir |-> dir, base |-> base, kind |-> kind]

\* gatherSrcs links files into one directory. A name that exists gets the suffix _1, _2, ...
Unused(w, dir, name) ==
    LET Numbered(j) == WorkName(dir, IF j = 0 THEN name.base ELSE Append(name.base, j), name.kind)
        free == {j \in 0..(Cardinality(DOMAIN w) + 1) : Numbered(j) \notin DOMAIN w}
    IN  Numbered(CHOOSE j \in free : \A i \in free : j <= i)

\* Mutant: a file of a name that exists replaces the one before.
gatherSrcs_Overwrite(w, dir, names) ==
    LET step[n \in 0..Len(names)] ==
            IF n = 0 THEN [work |-> w, names |-> <<>>]
            ELSE LET new == WorkName(dir, names[n].base, names[n].kind)
                 IN  [work |-> Put(step[n - 1].work, new, HeldIn(step[n - 1].work, names[n])),
                      names |-> Append(step[n - 1].names, new)]
    IN  step[Len(names)]

gatherSrcs(w, dir, names) ==
    LET step[n \in 0..Len(names)] ==
            IF n = 0 THEN [work |-> w, names |-> <<>>]
            ELSE LET new == Unused(step[n - 1].work, dir, names[n])
                 IN  [work |-> Put(step[n - 1].work, new, HeldIn(step[n - 1].work, names[n])),
                      names |-> Append(step[n - 1].names, new)]
    IN  step[Len(names)]

-----------------------------------------------------------------------------
(* cgo: generateCgoSources *)

InSingleDir(names) == \A n \in Range(names) : n.dir = names[1].dir

SrcDir == [cgo |-> "cgo/cgosrcs", cgo_nogo |-> "cgo_nogo/cgosrcs"]

\* The cgo command writes two files for each source (0 stands for the .cgo1 and the .cgo2 of
\* their names), and three of its own.
generateCgoSources(w, subdir, names) ==
    LET gathered == IF InSingleDir(names) THEN [work |-> w, names |-> names]
                    ELSE gatherSrcs(w, SrcDir[subdir], names)
        GoName(n) == WorkName(subdir, Append(gathered.names[n].base, 0), "go")
        CName(n) == WorkName(subdir, Append(gathered.names[n].base, 0), "c")
        new == {GoName(n) : n \in DOMAIN names} \cup {CName(n) : n \in DOMAIN names}
        From(x) == CHOOSE n \in DOMAIN names : x \in {GoName(n), CName(n)}
        gotypes == WorkName(subdir, <<"_cgo_gotypes">>, "go")
        export == WorkName(subdir, <<"_cgo_export">>, "c")
    IN  [work |-> [x \in DOMAIN gathered.work \cup new \cup {gotypes, export} |->
                      IF x \in new THEN Mark(HeldIn(gathered.work, gathered.names[From(x)]), "cgo")
                      ELSE IF x \in {gotypes, export} THEN Generated("cgo") ELSE gathered.work[x]],
         goSrcs |-> <<gotypes>> \o [n \in DOMAIN names |-> GoName(n)],
         cSrcs |-> <<export>> \o [n \in DOMAIN names |-> CName(n)]]

\* In a single directory the names are made relative to it in place, in the caller's slice.
Relative(names) == [n \in DOMAIN names |-> [names[n] EXCEPT !.dir = "."]]

\* Mutant: nogo gets the code generated from the instrumented files.
NogoInput_Instrumented == cgoSrcs
NogoInput == cgoSrcsNogo

-----------------------------------------------------------------------------
(* The steps of compilePkg and compileArchive *)

Init ==
    /\ \E lib \in Libs, mode \in Modes : pkg = emit_archive(lib, mode)
    /\ pc = "filter" /\ result = "running"
    /\ srcs = [e \in Exts |-> <<>>]
    /\ goSrcs = <<>> /\ cgoSrcs = <<>> /\ cgoSrcsNogo = <<>>
    /\ work = Empty /\ queue = <<>> /\ genGoSrcs = <<>> /\ objFiles = <<>>
    /\ importcfg = {} /\ archive = Nil
    /\ outputs = {} /\ importsFile = {} /\ nogoSrcs = <<>>
    /\ temps = {} /\ deferred = {}

\* The end of the process runs the deferred removals.
EndFrom(r, existing) == pc' = "done" /\ result' = r /\ temps' = existing \ deferred /\ UNCHANGED deferred
EndWith(r) == EndFrom(r, temps)
GoTo(step) == pc' = step /\ UNCHANGED <<result, temps, deferred>>

Names(e) == [n \in DOMAIN srcs[e] |-> srcs[e][n].name]
CFiles == Names("c") \o Names("cxx") \o Names("objc") \o Names("objcxx")
haveCgo == Len(cgoSrcs) + Len(CFiles) > 0
compilingWithCgo == haveCgo /\ pkg.cgoEnabled

\* A source with an unknown extension or one that cannot be read ends the action.
Filter ==
    /\ pc = "filter"
    /\ \/ /\ \E f \in Range(pkg.unfilteredSrcs) : f.ext \notin Exts
          /\ EndWith("unrecognized extension") /\ UNCHANGED srcs
       \/ /\ \A f \in Range(pkg.unfilteredSrcs) : f.ext \in Exts
          /\ srcs' = applyTestFilter(filterAndSplitFiles(pkg.unfilteredSrcs))
          /\ GoTo("prepare")
       \/ pkg.unfilteredSrcs # <<>> /\ EndWith("read failed") /\ UNCHANGED srcs
    /\ UNCHANGED <<pkg, goSrcs, cgoSrcs, cgoSrcsNogo, work, queue, genGoSrcs, objFiles, importcfg,
                   archive, outputs, importsFile, nogoSrcs>>

\* The work directory; an empty package gets an empty file next to the archive.
EmptyGo == WorkName("out", <<"empty">>, "go")

Prepare ==
    LET isEmpty == srcs["go"] = <<>>
        keep == IF pkg.work THEN {} ELSE {"workdir"}
        Plain(cgo) == Only({f \in Range(srcs["go"]) : isCgo(f) = cgo}, srcs["go"])
        NamesOf(files) == [n \in DOMAIN files |-> files[n].name]
    IN  /\ pc = "prepare"
        /\ goSrcs' = IF isEmpty THEN <<EmptyGo>> ELSE NamesOf(Plain(FALSE))
        /\ cgoSrcs' = NamesOf(Plain(TRUE))
        /\ cgoSrcsNogo' = NamesOf(Plain(TRUE))
        /\ work' = IF isEmpty THEN Put(work, EmptyGo, Generated("empty")) ELSE work
        /\ temps' = temps \cup {"workdir"} \cup (IF isEmpty THEN {"emptygo"} ELSE {})
        /\ deferred' = keep \cup (IF isEmpty THEN {"emptygo"} ELSE {})
        /\ pc' = "cover"
        /\ UNCHANGED <<pkg, result, srcs, queue, genGoSrcs, objFiles, importcfg, archive, outputs,
                       importsFile, nogoSrcs>>

\* The files to instrument are replaced, in goSrcs and in cgoSrcs, by files in the work directory
\* named by their place; a further file declares the counters. The two lists that the cover
\* tool reads lie next to the work directory, since their names are not joined with "/".
Covered == {n \in 1..Len(goSrcs \o cgoSrcs) : (goSrcs \o cgoSrcs)[n] \in pkg.coverSrcs}
CoverName(n) == WorkName("work", <<"cover", n>>, "go")
CoverVars == WorkName("work", <<"covervars">>, "go")

Cover ==
    LET combined == goSrcs \o cgoSrcs
        new == [n \in DOMAIN combined |-> IF n \in Covered THEN CoverName(n) ELSE combined[n]]
        made == {CoverName(n) : n \in Covered} \cup {CoverVars}
        Held(x) == IF x = CoverVars THEN Generated("covervars") ELSE Mark(Original(combined[x.base[2]]), "cover")
        lists == temps \cup {"pkgcfg", "coveroutfiles"}
    IN  /\ pc = "cover"
        /\ \/ /\ ~pkg.coverMode \/ Covered = {}
              /\ GoTo("cgo") /\ UNCHANGED <<goSrcs, cgoSrcs, work>>
           \/ /\ pkg.coverMode /\ Covered # {}
              /\ goSrcs' = Append(SubSeq(new, 1, Len(goSrcs)), CoverVars)
              /\ cgoSrcs' = SubSeq(new, Len(goSrcs) + 1, Len(new))
              /\ work' = [x \in DOMAIN work \cup made |-> IF x \in made THEN Held(x) ELSE work[x]]
              /\ temps' = lists /\ pc' = "cgo" /\ UNCHANGED <<result, deferred>>
           \/ /\ pkg.coverMode /\ Covered # {}
              /\ EndFrom("cover failed", lists) /\ UNCHANGED <<goSrcs, cgoSrcs, work>>
        /\ UNCHANGED <<pkg, srcs, cgoSrcsNogo, queue, genGoSrcs, objFiles, importcfg, archive, outputs,
                       importsFile, nogoSrcs>>

-----------------------------------------------------------------------------
(* cgo2 *)

\* Without cgo the header of exported functions is still written, empty.
NoCgo ==
    /\ pc = "cgo" /\ ~compilingWithCgo
    /\ outputs' = outputs \cup (IF pkg.cgoExportH THEN {"cgoexport"} ELSE {})
    /\ GoTo("imports")
    /\ UNCHANGED <<pkg, srcs, goSrcs, cgoSrcs, cgoSrcsNogo, work, queue, genGoSrcs, objFiles, importcfg,
                   archive, importsFile, nogoSrcs>>

NoCompiler ==
    /\ pc = "cgo" /\ compilingWithCgo /\ ~pkg.cc
    /\ EndWith("CC is not set")
    /\ UNCHANGED <<pkg, srcs, goSrcs, cgoSrcs, cgoSrcsNogo, work, queue, genGoSrcs, objFiles, importcfg,
                   archive, outputs, importsFile, nogoSrcs>>

\* C sources without cgo: cgo2 returns no Go sources, and these take the place of the package's.
COnly ==
    /\ pc = "cgo" /\ compilingWithCgo /\ pkg.cc /\ cgoSrcs = <<>>
    /\ queue' = CFiles \o Names("s")
    /\ goSrcs' = <<>>
    /\ GoTo("cc")
    /\ UNCHANGED <<pkg, srcs, cgoSrcs, cgoSrcsNogo, work, genGoSrcs, objFiles, importcfg, archive, outputs,
                   importsFile, nogoSrcs>>

Cgo ==
    LET gen == generateCgoSources(work, "cgo", cgoSrcs)
    IN  /\ pc = "cgo" /\ compilingWithCgo /\ pkg.cc /\ cgoSrcs # <<>>
        /\ \/ EndWith("cgo failed") /\ UNCHANGED <<cgoSrcs, work, queue, genGoSrcs, outputs>>
           \/ /\ cgoSrcs' = IF InSingleDir(cgoSrcs) THEN Relative(cgoSrcs) ELSE cgoSrcs
              /\ work' = gen.work
              /\ genGoSrcs' = gen.goSrcs
              /\ queue' = gen.cSrcs \o CFiles \o Names("s")
              /\ outputs' = outputs \cup (IF pkg.cgoExportH THEN {"cgoexport"} ELSE {})
              /\ GoTo("cc")
        /\ UNCHANGED <<pkg, srcs, goSrcs, cgoSrcsNogo, objFiles, importcfg, archive, importsFile, nogoSrcs>>

\* One file after the other is compiled into an object.
CompileC ==
    /\ pc = "cc" /\ queue # <<>>
    /\ \/ EndWith("C compiler failed") /\ UNCHANGED <<queue, objFiles>>
       \/ /\ objFiles' = Append(objFiles, [held |-> HeldIn(work, Head(queue)), by |-> "cc"])
          /\ queue' = Tail(queue)
          /\ UNCHANGED <<pc, result, temps, deferred>>
    /\ UNCHANGED <<pkg, srcs, goSrcs, cgoSrcs, cgoSrcsNogo, work, genGoSrcs, importcfg, archive, outputs,
                   importsFile, nogoSrcs>>

\* What is copied for nogo: the generated files, of the original sources if these are instrumented.
HeldBy(w, names) == [n \in DOMAIN names |-> HeldIn(w, names[n])]
CgoImports == WorkName("cgo", <<"_cgo_imports">>, "go")

\* Link a binary from the objects (again, if that fails, allowing for unresolved symbols), and let
\* cgo write down what it imports; then gather the other Go files next to the generated ones.
CgoLink ==
    LET generated == Append(genGoSrcs, CgoImports)
        gathered == gatherSrcs(Put(work, CgoImports, Generated("cgo")), "cgo", goSrcs)
    IN  /\ pc = "cc" /\ queue = <<>> /\ genGoSrcs # <<>>
        /\ \/ EndWith("cgo failed") /\ UNCHANGED <<genGoSrcs, work, goSrcs, nogoSrcs>>
           \/ /\ genGoSrcs' = generated
              /\ work' = gathered.work
              /\ goSrcs' = gathered.names \o generated
              /\ nogoSrcs' = IF pkg.cgoGoSrcs /\ ~pkg.coverMode THEN HeldBy(gathered.work, generated) ELSE <<>>
              /\ GoTo(IF pkg.cgoGoSrcs /\ pkg.coverMode THEN "nogo" ELSE "imports")
        /\ UNCHANGED <<pkg, srcs, cgoSrcs, cgoSrcsNogo, queue, objFiles, importcfg, archive, outputs, importsFile>>

CDone ==
    /\ pc = "cc" /\ queue = <<>> /\ genGoSrcs = <<>>
    /\ GoTo("imports")
    /\ UNCHANGED <<pkg, srcs, goSrcs, cgoSrcs, cgoSrcsNogo, work, queue, genGoSrcs, objFiles, importcfg,
                   archive, outputs, importsFile, nogoSrcs>>

\* cgo2GeneratedGoSrcsForNogo
Nogo ==
    LET gen == generateCgoSources(work, "cgo_nogo", NogoInput)
    IN  /\ pc = "nogo"
        /\ \/ EndWith("cgo failed") /\ UNCHANGED <<work, nogoSrcs>>
           \/ /\ work' = gen.work
              /\ nogoSrcs' = HeldBy(gen.work, Append(gen.goSrcs, CgoImports))
              /\ GoTo("imports")
        /\ UNCHANGED <<pkg, srcs, goSrcs, cgoSrcs, cgoSrcsNogo, queue, genGoSrcs, objFiles, importcfg, archive,
                       outputs, importsFile>>

-----------------------------------------------------------------------------
(* Imports, embedded files, compiler, assembler, archive *)

\* checkImportsAndBuildCfg: what cgo and the cover tool add to the sources imports something too.
AddedImports(imports) ==
    LET std == (IF compilingWithCgo THEN CgoImported ELSE {}) \cup (IF pkg.coverMode THEN CoverImported ELSE {})
        own == IF pkg.coverMode THEN {Coverdata.importPath} ELSE {}
    IN  [p \in DOMAIN imports \cup std \cup own |->
            IF p \in own THEN pkg.deps[CHOOSE n \in Named(pkg.deps, p) : \A m \in Named(pkg.deps, p) : n <= m]
            ELSE IF p \in std THEN Nil ELSE imports[p]]

\* The file of the packages imported, those of the standard library left out.
writeImports(imports) == {imports[p].packagePath : p \in {q \in DOMAIN imports : imports[q] # Nil}}

Imports ==
    LET checked == checkImports(UNION {ImportsOf(f) : f \in Range(srcs["go"])}, pkg.deps, pkg.recompile)
        imports == AddedImports(checked.imports)
    IN  /\ pc = "imports"
        /\ \/ /\ checked.err # "none"
              /\ EndWith(checked.err) /\ UNCHANGED <<importcfg, outputs, importsFile>>
           \/ /\ checked.err = "none"
              /\ importcfg' = buildImportcfgFileForCompile(imports)
              /\ importsFile' = writeImports(imports)
              /\ outputs' = outputs \cup {"imports"}
              /\ GoTo("embed")
        /\ UNCHANGED <<pkg, srcs, goSrcs, cgoSrcs, cgoSrcsNogo, work, queue, genGoSrcs, objFiles, archive, nogoSrcs>>

\* buildEmbedcfgFile (see EmbedTree) writes into the work directory, or fails.
Embed ==
    /\ pc = "embed"
    /\ EndWith("embed failed") \/ GoTo(IF haveCgo \/ srcs["s"] = <<>> THEN "compile" ELSE "symabis")
    /\ UNCHANGED <<pkg, srcs, goSrcs, cgoSrcs, cgoSrcsNogo, work, queue, genGoSrcs, objFiles, importcfg,
                   archive, outputs, importsFile, nogoSrcs>>

\* buildSymabisFile returns the name of its temporary file even when the assembler fails, and the
\* caller defers its removal before it looks at the error.
\* Mutant: the caller looks at the error first.
SymabisFails_ErrorFirst == EndFrom("assembler failed", temps \cup {"symabis"})
SymabisFails ==
    LET keep == IF pkg.work THEN {} ELSE {"symabis"}
    IN  EndFrom("assembler failed", (temps \cup {"symabis"}) \ keep)

Symabis ==
    /\ pc = "symabis"
    /\ \/ EndWith("no header file")
       \/ SymabisFails
       \/ /\ temps' = temps \cup {"symabis"}
          /\ deferred' = deferred \cup (IF pkg.work THEN {} ELSE {"symabis"})
          /\ pc' = "compile" /\ UNCHANGED result
    /\ UNCHANGED <<pkg, srcs, goSrcs, cgoSrcs, cgoSrcsNogo, work, queue, genGoSrcs, objFiles, importcfg,
                   archive, outputs, importsFile, nogoSrcs>>

\* compileGo; the compiler rejects a command line without files.
Compile ==
    /\ pc = "compile"
    /\ \/ EndWith("compiler failed") /\ UNCHANGED <<archive, outputs, queue>>
       \/ /\ goSrcs # <<>>
          /\ archive' = [go |-> HeldBy(work, goSrcs), objs |-> <<>>]
          /\ outputs' = outputs \cup {"lib", "export"}
          /\ queue' = IF haveCgo THEN <<>> ELSE Names("s")
          /\ GoTo("asm")
    /\ UNCHANGED <<pkg, srcs, goSrcs, cgoSrcs, cgoSrcsNogo, work, genGoSrcs, objFiles, importcfg,
                   importsFile, nogoSrcs>>

Assemble ==
    /\ pc = "asm" /\ queue # <<>>
    /\ \/ EndWith("assembler failed") /\ UNCHANGED <<queue, objFiles>>
       \/ /\ objFiles' = Append(objFiles, [held |-> Original(Head(queue)), by |-> "asm"])
          /\ queue' = Tail(queue)
          /\ UNCHANGED <<pc, result, temps, deferred>>
    /\ UNCHANGED <<pkg, srcs, goSrcs, cgoSrcs, cgoSrcsNogo, work, genGoSrcs, importcfg, archive, outputs,
                   importsFile, nogoSrcs>>

\* appendToArchive, for the objects and the resource files.
Syso == [n \in DOMAIN srcs["syso"] |-> [held |-> Original(srcs["syso"][n].name), by |-> "none"]]

Pack ==
    /\ pc = "asm" /\ queue = <<>>
    /\ \/ EndWith("pack failed") /\ objFiles \o Syso # <<>> /\ UNCHANGED archive
       \/ archive' = [archive EXCEPT !.objs = objFiles \o Syso] /\ EndWith("ok")
    /\ UNCHANGED <<pkg, srcs, goSrcs, cgoSrcs, cgoSrcsNogo, work, queue, genGoSrcs, objFiles, importcfg,
                   outputs, importsFile, nogoSrcs>>

Next ==
    \/ Filter \/ Prepare \/ Cover
    \/ NoCgo \/ NoCompiler \/ COnly \/ Cgo \/ CompileC \/ CgoLink \/ CDone \/ Nogo
    \/ Imports \/ Embed \/ Symabis \/ Compile \/ Assemble \/ Pack

Spec == Init /\ [][Next]_vars

-----------------------------------------------------------------------------
(* Properties *)

\* The sources that the package consists of: what the build constraints, cgo and the test filter
\* leave of the files given.
Sources(e) == {f \in Range(pkg.unfilteredSrcs) : f.ext = e /\ f.constraint}
GoSources == {f \in Sources("go") :
    /\ isCgo(f) => pkg.cgoEnabled
    /\ pkg.testFilter = "only" => f.parses /\ f.pkg = "p_test"
    /\ pkg.testFilter = "exclude" => ~(f.parses /\ f.pkg = "p_test")}
CSources == UNION {Sources(e) : e \in CExts}
UsesC == CSources # {} \/ \E f \in GoSources : isCgo(f)

Marks(f) == (IF f.name \in pkg.coverSrcs THEN {"cover"} ELSE {}) \cup (IF isCgo(f) THEN {"cgo"} ELSE {})
Holds(f, marks) == [src |-> f.name, marks |-> marks]
OwnFiles(held) == {n \in DOMAIN held : held[n].src.dir # "none"}
Once(seq, x) == Cardinality({n \in DOMAIN seq : seq[n] = x}) = 1

\* An archive holds every Go source of the package once, instrumented exactly if coverage asks for
\* it and processed by cgo exactly if it imports "C", and no other; every C source once; and every
\* assembly source once, assembled by the C compiler exactly if the package uses cgo. Only with
\* cgo disabled C sources are left out, and the assembly sources of a package with C or cgo files.
ArchiveExact ==
    result = "ok" =>
        /\ \A f \in GoSources : Once(archive.go, Holds(f, Marks(f)))
        /\ Cardinality(OwnFiles(archive.go)) = Cardinality(GoSources)
        /\ pkg.cgoEnabled =>
             /\ \A f \in CSources : Once(archive.objs, [held |-> Holds(f, {}), by |-> "cc"])
             /\ \A f \in Sources("s") :
                   Once(archive.objs, [held |-> Holds(f, {}), by |-> IF UsesC THEN "cc" ELSE "asm"])
        /\ ~pkg.cgoEnabled =>
             LET asm == [f \in Sources("s") |-> [held |-> Holds(f, {}), by |-> "asm"]]
                 mixed == CSources # {} \/ \E f \in Range(pkg.unfilteredSrcs) : isCgo(f)
             IN  /\ \A n \in DOMAIN archive.objs : archive.objs[n].by # "cc"
                 /\ \A f \in Sources("s") :
                       IF mixed THEN asm[f] \notin Range(archive.objs) ELSE Once(archive.objs, asm[f])

\* What the compiler reads imports only what the importcfg file names: the sources' own imports,
\* what instrumentation and cgo add; and every package named is of the standard library or a
\* direct dependency that has the import as its path or alias.
Needed(held) ==
    LET own == UNION {ImportsOf(f) : f \in {g \in Sources("go") : g.name = held.src}}
    IN  (own \ ({"C"} \cup IsRelative))
        \cup (IF "cover" \in held.marks THEN {"sync/atomic", Coverdata.importPath} ELSE {})
        \cup (IF "cgo" \in held.marks THEN {"runtime/cgo", "syscall", "unsafe"} ELSE {})
        \cup (IF held = Generated("covervars") THEN {"runtime/coverage"} ELSE {})

ImportsCovered ==
    archive # Nil =>
        \A held \in Range(archive.go) : \A p \in Needed(held) :
            LET files == FilesOf(importcfg, Mapped(importcfg, p)) IN
            IF p \in Std THEN files = {StdFile(p)}
            ELSE \E n \in DOMAIN pkg.deps :
                    /\ p = pkg.deps[n].importPath \/ (p \in pkg.deps[n].aliases /\ Named(pkg.deps, p) = {})
                    /\ files = {pkg.deps[n].file}
                    /\ pkg.deps[n].packagePath \in importsFile

\* nogo sees the code that cgo generates for the sources as they were written, whether or not the
\* compiler gets instrumented ones: one file for each cgo source, and the two that cgo adds.
NogoSeesOriginals ==
    (result = "ok" /\ pkg.cgoGoSrcs) =>
        LET cgo == {f \in GoSources : isCgo(f)} IN
        /\ \A f \in cgo : Once(nogoSrcs, Holds(f, {"cgo"}))
        /\ Len(nogoSrcs) = IF cgo = {} THEN 0 ELSE Cardinality(cgo) + 2

\* However the action ends, it leaves nothing behind but the lists of the cover tool, and the
\* files that -work asks it to keep; and if it succeeds it has written every output that the rule
\* declared.
Clean ==
    pc = "done" =>
        /\ temps \subseteq {"pkgcfg", "coveroutfiles"} \cup (IF pkg.work THEN {"workdir", "symabis"} ELSE {})
        /\ result = "ok" =>
             outputs = {"lib", "export", "imports"} \cup (IF pkg.cgoExportH THEN {"cgoexport"} ELSE {})
=============================================================================
