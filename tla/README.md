# A TLA+ model of rules_go

rules_go builds, tests and analyses Go code under Bazel. Most of the repository is either
analysis-time code without state (Starlark rules) or programs that one build action starts and
that end with it. The interesting behaviour is in the programs that are concurrent, that depend
on the order of their inputs, or that other actions and tools rely on when one of them fails.
This project models those programs, checks them with TLC on small instances, and proves the
most important results for all instances with TLAPS.

Paths in this file are relative to the root of the repository. `builders/` stands for
`go/tools/builders/`.

## 1. Inventory

Ordered by how much of the program's own logic they carry. "Hard" names what a test would
hardly reach; "correct" what the component promises.

### Modelled

**nogo's analysis scheduler** (`builders/nogo_main.go`). *State*: the actions, each with a
`sync.Once`, an error, a result, its inputs and diagnostics; the facts of the package.
*Operations*: `checkPackage` finds the roots (in facts-only mode the fact producers only), loads
and type-checks the package, and calls `execAll`, which starts a goroutine per action; each
calls `exec` (the once), which calls `execAll` for the analyzers it requires, plumbs their
results into the pass, runs the analyzer and recovers its panic. *Interacts with*: the nogo
command of the builder, through its exit code and three files. *Hard*: the same analyzer is
reached from many goroutines; who waits for whom; an error or panic in the middle.
*Correct*: an analyzer runs once, with final results of what it requires; no error is lost;
nothing outlives the call; it ends.

**nogo's suggested fixes** (`builders/nogo_fix.go`). *State*: the edits chosen so far per file, and
a candidate. *Operations*: `getFixes` tries each alternative fix of each diagnostic, `validate`
sorts and compares the edits, `applyEdits` produces the new text. *Hard*: neighbours are
compared, lists are merged again and again, a fix fails in its second file. *Correct*: edits never
overlap; a fix is applied as a whole or not; nothing applicable is withheld; the patch does what
the edits say.

**nogo in the build** (`builders/nogo.go`, `nogo_validation.go`, `go/private/actions/compilepkg.bzl`,
`archive.bzl`). *State*: per package the actions GoCompilePkg, RunNogo and ValidateNogo and their
output files. *Operations*: an action runs when its inputs exist; RunNogo runs the nogo binary,
interprets its exit code and leaves facts, log and patch. *Hard*: actions of different packages
in any order, a failure in one, an exit code with three meanings. *Correct*: facts reach all
dependents, a validation that succeeds hides no findings and one that prints some has them,
`--keep_going` goes on.

**Test wrapper** (`go/tools/bzltestutil/wrap.go`, `timeout.go`, the generated `main` of
`builders/generate_test_main.go`). *State*: two pipes, two goroutines, a mutex, the converter.
*Operations*: `Wrap`, `streamMerger.process`, the forced FAIL, the report, the exit code.
*Hard*: two writers and one unlocked converter, the child dying in mid-line, the report
failing. *Correct*: the output reaches the converter whole and in order, a failure is never hidden.

**Test report** (`test2json.go`, `xml.go`). *State*: two line buffers, the pending reports, the
current test; then a tree of test cases. *Operations*: `Write`, `handleInputLine`,
`flushReport`, `Close`, `json2xml`. *Hard*: verdicts stay pending until a later line, lines longer
than a buffer, output of nested tests and of tests that never end. *Correct*: every test
has the verdict the process printed, no output is lost.

**Runfiles library** (`go/runfiles`). *State*: the object (manifest or directory, repository
mapping, source repository), the lazily built trie, directory handles. *Operations*: `New`,
`Rlocation`, `WithSourceRepo`, `Open`, `ReadDir`. *Hard*: two backends that must agree, a trie built
on first use by goroutines that share the object, paged listings, prefixes in the mapping.
*Correct*: both backends find and list the same.

**Embed configuration** (`builders/embedcfg.go`). *State*: the tree of embed sources from several
root directories. *Operations*: `buildEmbedTree`, `resolveEmbed`. *Hard*: sources in any order,
directories and files of one name from different roots. *Correct*: a pattern finds
exactly its files, the first source of a path wins.

**Test recompilation** (`_recompile_external_deps` in `go/private/rules/test.bzl`). *State*: a stack,
a count of outstanding dependencies and a list of dependents per archive, the post-order list;
then the archives that replace the old ones. *Operations*: the search, the choice of what is
compiled again, the new internal archive and the others. *Interacts with*: `emit_archive`, the import
check of the builder, the linker. *Hard*: recursion is simulated in a fixed number of steps, a
count of zero has two meanings, the internal archive shares its dependencies with the external
one. *Correct*: the list is a post-order, exactly the importers of the library under test are
compiled again, the binary has one copy of a package and what its archives were compiled against.

**Compile action** (`builders/compilepkg.go`, `filter.go`, `cover.go`, `cgo2.go`, `asm.go`,
`go/private/actions/archive.bzl`, `compilepkg.bzl`). *State*: lists of file names that each step
replaces or extends (Go sources, cgo sources, objects), the files of a work directory, deferred
removals. *Operations*: filter and split the sources, instrument them for coverage, run cgo and the
C compiler, check the imports, embed, compile, assemble, pack; any subprocess may fail. *Interacts
with*: nogo, through copies of the sources; dependents and the linker, through the archive and the
imports file. *Hard*: the meaning of a name changes when a step rewrites the file; lists are made
before a step and used after it; different branches with and without cgo; directories with files
of one name; a failure in the middle. *Correct*: an archive holds each source once and as
its flags ask for; every import is a dependency; nogo sees what the author wrote; nothing is left.

**Import configuration and linking** (`builders/importcfg.go`, `link.go`, `buildinfo.go`,
`go/private/context.bzl`, `actions/archive.bzl`, `link.bzl`). *State*: the archives that the rules
hand on, the importcfg files, the linker's flags, the build information and its worklist.
*Operations*: `new_go_info` with embedding and deduplication, `emit_archive`, `checkImports`, the two
importcfg builders, `emit_link`, stamping, `buildInfo`. *Hard*: import path, importmap and aliases
name one archive, two archives have one of them in common; what was compiled against
one archive is linked with another. *Correct*: conflicts are reported, the link has what
the compiler saw, definitions, stamps and modules are those of the targets linked.

**upgrade-dep** (`go/tools/releaser/upgradedep.go`, `file.go`). *State*: the goroutines of an errgroup,
the syntax trees of WORKSPACE and repositories.bzl in memory, a work directory, patch files in
third_party. *Operations*: per dependency list tags, choose a version, download, extract,
regenerate each patch on top of the last, set the attributes; then write both files. *Hard*: patch
files are overwritten at once and the declarations at the end; an error of one goroutine
cancels the commands of the others; an interrupt, a panic, a write that fails. *Correct*: the version is the
newest that qualifies; patches are regenerated in order; success upgrades all and nothing else.

**gopackagesdriver** (`go/tools/gopackagesdriver`). *State*: the packages by ID, import paths of the
standard library, the stack of the walk. *Operations*: requests to labels by a query, a build with
an aspect that writes pkg.json files (of a test, from the internal archive, which may have been
compiled again without some dependencies), `Add`, `ResolvePaths`, `ResolveImports` with the
external tests split off, `Match` and `walk`. *Hard*: a map grows while a loop ranges over it; partial
results of failed commands, down to single pkg.json files that are missing; overlays; labels printed
differently by versions of Bazel. *Correct*: each source is in one package, the right one; every
import that was a dependency is in the response.

### Not modelled

| component | what it does | why not, or when |
|---|---|---|
| reading of sources (`read.go`) | imports and embeds of a file | a lexer copied from Go; what it finds is an attribute of a source in CompilePkg |
| C compiler (`cc.go`, `cgo_response.go`) | its flags and response files | external; its calls are steps of CompilePkg |
| environment and utilities (`env.go`, `replicate.go`, `ar.go`, ...) | paths, processes, copies | I/O |
| standard library (`stdlib.go`, `stdliblist.go`) | drives `go install` and `go list` | I/O |
| coverage reports (`baseline_coverage.go`, `lcov.go`, `bincov`) | convert counters | functions of one file; instrumentation is in CompilePkg, the coverage archive in Link |
| test main, sharding (`generate_test_main.go`) | fills a template | `testsInShard` planned; `main`'s exit is in TestWrap |
| nogo main generation, `nolint.go` | template; one regular expression | inputs of NogoExec |
| `go_path.go`, `protoc.go` | lay out files | I/O |
| working directory (`chdir`) | one init function | no state |
| legacy runfiles (`go/tools/bazel`) | deprecated | superseded by `go/runfiles` |
| other commands of the releaser | `help`, the access token | I/O |
| `go_bin_runner`, `bazel_testing`, `bazel_benchmark`, `fetch_repo` | sequences of subprocesses | I/O |
| other rules (`go/private/rules`, `actions`) | runfiles, C libraries, output groups | analysis-time functions; embedding, archives, links, nogo and recompilation are modelled |
| transitions, modes, platforms | map settings to settings | planned last |
| SDKs, module extension, toolchains | repository rules | downloads and templates |
| proto, gomock, wrappers, experimental | analysis-time functions, macros | no state |

## 2. Modules

| module | models | extends |
|---|---|---|
| `NogoAnalysis` | what an analysis promises: each action is decided once, after what it requires | |
| `NogoExec` | the scheduler; `Abstract` is NogoAnalysis with a refinement mapping | |
| `NogoExecProofs` | theorems about NogoExec | NogoExec |
| `NogoFix` | the suggested fixes | |
| `NogoBuild` | the actions of all packages of a build | |
| `NogoOutputProofs` | theorems about what nogo puts out: the fixes of a run, the findings and facts of a build | NogoFix, NogoBuild |
| `TestWrap` | the test wrapper | |
| `TestReport` | converter and XML report, composed with the wrapper | TestWrap |
| `Runfiles`, `RunfilesProofs` | the runfiles library and theorems about it | |
| `EmbedTree` | the embed configuration | |
| `Importcfg` | import check and importcfg files, as operators | |
| `CompilePkg`, `CompilePkgProofs` | the compile action, with the rule that registers it, and theorems about it and about EmbedTree | Importcfg |
| `Link`, `LinkProofs` | the rules' archives, their compilation and the link of a binary, and theorems about them | Importcfg |
| `UpgradeDep`, `UpgradeDepProofs` | upgrade-dep and theorems about it | |
| `PackagesDriver`, `PackagesDriverProofs` | gopackagesdriver from a request to the response, and theorems about it | |
| `TestRecompile` | the recompilation of a test's dependencies, on a graph of archives | |
| `TestProofs` | theorems about how tests are run and how they are built | TestWrap, TestRecompile |
| `MC...` | instances for TLC | the module |

Each module's constants have a set of *inputs* (`Inputs`, `Setups`, `Programs`, `Targets`, `Libs`,
`Builds`) of which `Init` chooses one: the modules are parameterised by all programs, builds or trees, and
a run enumerates a list of them. Operators named `X_Y` are mutated forms of `X` with the bug `Y`;
no specification uses them.

### State and actions against the code

*NogoExec.* `pc[Main]` is the place in `checkPackage`, `pc[a]` the place in `execOnce` of a's
action; `goroutine[c][a]` is the goroutine that `execAll`, called by c, started for a, and
`wg[c]` the WaitGroup of that call. `OnceEnter`, `OncePass` and `OnceLeave` are `sync.Once.Do`
for its first caller, later callers, and its end. `RunReturns`, `RunFails` and `RunPanics` are
the three ends of `Analyzer.Run`. `factsOnly`, `illTyped`, `configured` are the inputs. Flags that an
analyzer refuses (`FlagsFail`) and a working directory that is not known end `checkPackage` with an error.
*NogoFix.* One action per turn of each loop of `getFixes` and `validate`. The stable sort is a
choice among the stable sorts of `Less`, of which there is one.
*NogoBuild.* One action per step of the builder and of the nogo binary that another action can
see. Facts carry the path they were written under, because the lookup uses another one. `NogoValidation`
succeeds, prints findings, or fails for an I/O error of its own (an output, the log, the fix file).
*TestWrap.* `Process(s)` is the goroutine of a stream, `Wrap` the function of this name. A
goroutine can be behind the child by any amount, so that the child's output is there from the
start; only its end depends on the child. *TestReport* defines what the converter has done with
a sequence of writes as a recursive function (`Converted`), applied to the writes of TestWrap.
Text is made of tokens, the smallest pieces that the converter tells apart.
*Runfiles.* `pc[g]` is the place of goroutine g in `manifest.open`, whose accesses to the trie are
separate steps; `handle[g]` is the directory that it reads. Paths are sequences of names.
*EmbedTree.* The tree is a function from paths to nodes; `AddTo` is `embedNode.add` with the
recursive visit, `Matches` the two nested walks of `resolveEmbed`.
*TestRecompile.* The variables have the names of the function's; `todo` is what the inner loop at
hand has left. A file is a label and whether it was compiled again; an archive is its file, those of
its dependencies and the closure of what it links (`libs`). A Starlark error is the state `failed`.
*CompilePkg.* One action per stage of `compilePkg`, each with its failure; `pc` is the stage. A file
name is a directory, a base name and a kind; `work` says of every file made in the work directory which
source it stems from and how it was rewritten (`cover`, `cgo`), which is what the properties ask.
`temps` and `deferred` are what exists outside of the outputs and what a `defer` will remove.
*Link.* `Analysed` folds the rules' functions over the targets in the order of dependencies; actions then
compile a target, read the status files, follow the imports for the build information (`Follow` is one
turn of the worklist), write the importcfg and link. *UpgradeDep.* `g[k]` is the goroutine of the k-th
request with its local variables; `decl` are the declarations in memory and `disk` those in the files.
A directory is the archives extracted in it and the patches applied; a patch file is what diff compared.
A command is killed by the context, `http.Get` and file operations are not. Any diff may fail
(`runForOutput`), and the goroutine goes on; `cutPatches` keeps the numbers of the patches cut by this.
*PackagesDriver.* `written` says which pkg.json files of a target Bazel could write, `InternalArchive`
what the recompilation leaves of a test's dependencies. `todo` are the packages that the range over the map still visits: a package added meanwhile may or may not
be visited, as Go allows. `stack` are the calls of `walk`.

## 3. Runs

| run | question | bounds |
|---|---|---|
| `nogo_exec` | is every analyzer run once on final inputs, is no error lost, does the package end with nothing running, does the schedule implement NogoAnalysis, does it end | four analyzers whose requirements are a diamond with a chord, two of them with facts, two roots; a target without fact producers; two diagnostics in two files |
| `nogo_fix` | are edits disjoint, fixes atomic, patches exact | all triples of 16 diagnostics with one or two fixes from seven kinds, two files, three bytes |
| `nogo_build` | do facts reach all dependents, does validation succeed without findings only and print them only if there are some, does the build go on | three packages, three shapes, tags, scopes, cgo, a package without sources, with and without debug |
| `test_wrap` | do the streams reach the report whole, and is its verdict the one that was printed | test processes with and without framing markers, subtests, time-outs (also with lines of stdout that come between the entries of the list), panics, failures without framing, four contents of stderr, with and without a last newline |
| `runfiles` | do both backends locate, open and list the same | trees with an empty runfile, a directory, dangling links; six mapping lines; five repositories; pages of one, two or all; two goroutines |
| `embed_tree` | does a pattern find exactly its files, and does the first source win | up to three of nine sources in any order, two roots, nine patterns |
| `test_recompile` | is the list a post-order, are exactly the importers compiled again, does the binary fit together, is a cycle reported | four libraries and the test, all 64 graphs, all dependencies of the test in two orders, five choices of libraries under test |
| `nogo_build_importmap` | violated: a dependency compiled under another path than it is imported as | a vendored package |
| `compile_pkg` | has the archive what it should, are imports dependencies, does nogo see the sources, is nothing left | packages of up to eight files from two directories, all combinations of cgo, coverage, filters and configurations; three dependencies with aliases |
| `link` | are conflicts found, is what was compiled linked, who decides among embedded targets, are modules and definitions exact | seven targets in 144 shapes, four main packages, with and without coverage, stamping, status keys and build modes |
| `upgrade_dep` | is the version the newest, what do patch files and declarations hold, at every moment and in the end | two dependencies with up to `MaxPatches` = 2 patches and `MaxDeps` = 2 goroutines; three tags on two pages |
| `packages_driver` | is every source in the right package, is the response complete | a library, its dependency and a test in sixty variants, one that also depends on an importer of the library, sources that do not parse with three kinds of partial builds, versions of Bazel, spellings of labels, exit codes, overlays; external tests of external tests up to `MaxXTest` = 2 |

Why the bounds are enough. *nogo_exec*: the code treats analyzers alike except for facts and
RunDespiteErrors; an action waiting for two, one of which waits for the other as well, is the
smallest graph in which an action is reached directly and through another one at different
depths; the theorems remove the bound. *nogo_fix*: two edits can interfere through a third that
was accepted before, which three diagnostics reach; the order of edits is proved for any number.
*nogo_build*: facts of a package skip one that exports none, which a chain of three shows.
*test_wrap*: the buffers hold three and four tokens (1 kB of output and 4 kB of input in the
code), so that ordinary lines fit and the longest, of seven tokens, is split in both. All merges of the
two streams are explored, also those in which the report loses a test (8 and 23 in section 6).
*embed_tree*: source pairs interact only through one path or through a path and a directory
above it; the third source is there to come between. *test_recompile*: the search can go wrong where
an archive is reached while it is on the stack, waits, or is finished; four archives with the
test have a diamond whose corners depend on each other, seen from several roots. *compile_pkg*: files
interact through a name in common (two directories, and the numbered names made to tell them apart) and
through branches that depend on whether a kind of source is there. *link*: a conflict needs two archives
of one importmap, reached directly and through another; the embedded target adds a third that the
embedding one hides. *upgrade_dep*: a patch is regenerated on the first directory or on a later one;
goroutines interact through the context only; the theorems remove both bounds. *packages_driver*: the
loop over the map matters for one test and the package split from it, which would be split again once.

### Fairness

`nogo_exec`: weak fairness of every goroutine, which is what the Go scheduler provides; analyzers
are assumed to return, fail or panic. `nogo_build`: weak fairness of each package's actions: Bazel runs an action whose inputs
exist. `test_wrap`: weak fairness of both goroutines and of Wrap, on a child whose pipes close when
it ends. The other runs check safety only. A run that ends (Terminated, Finished, Exited) loops
there, so that TLC's deadlock check stays on and finds goroutines that wait for each other; in
`compile_pkg` and `link`, whose programs are sequential, it is off and the model stops with the program.

## 4. Properties

The important ones, and what would break them.

* `InputsAreFinal`: a once that is checked and set in two steps; a WaitGroup that is released one
  goroutine early.
* `ErrorsReachCaller`, `FactsComplete`: `checkPackage` reports success although a requirement of a
  root failed; facts of an analyzer that is only required indirectly are missing.
* `ImplementsAnalysis`: the refinement of NogoAnalysis; the goroutines, the once and the WaitGroups
  disappear, an action is decided in the step that finishes it.
* `EditsOrdered`, `FixesAtomic`, `PatchExact`: see the inventory; `PatchExact` compares `applyEdits`
  with a definition byte by byte, `Expected`, for the contents `Source`.
* `FactsReachDependents`, `ValidationExact`, `KeepsGoing`: facts, findings and the way of a build.
* `OneWriter`, `StreamsIntact`, `FailureKept`: the mutex, the loop of `process`, the order of
  forced FAIL, close and report, and a report that fails after the test did.
* `VerdictsExact`: the report compared with what the merged output says of every test, for every merge
  of the streams: buffers that cut lines, verdicts pending at the end, nesting and time-outs. What
  the merging itself loses is part of the statement: a verdict counts if it begins a line, and a running
  test if only entries lie between it and "running tests:" (8 and 23 in section 6).
* `RlocationExact`, `OpenExact`, `ListExact`: the manifest compared with the tree that Bazel would lay
  out for it. `RlocationExact` holds beside goroutines that do anything else with the object; it does not
  use the trie. The other two are for a goroutine that has the object for itself: where several build
  the trie, the run reaches the fatal error of the map (3 in section 6), which no property forbids.
  `ListExact` gives the empty runfiles of a manifest as the directories they pass for, and the root one
  apparent name of each repository (4 and 10 in section 6).
* `FirstWins`, `FoundExactly`: the tree compared with a definition by source and path. Both are
  stated for sources of which none lies below another, because a directory that is added
  replaces all that was found below it before.
* `PostOrder`: an archive is finished while one below it still waits on the stack, a step too few or an
  archive left out, a key that is not found.
  `RecompiledExactly`, `LinksTogether`: the linker's view of the graph; the last leaves out tests that
  depend on a library they embed (section 6). `CycleReported`: the cycle between sources that Bazel's
  graph does not have.
* `ArchiveExact`: a source is lost or compiled twice when a list is rebuilt, a numbered name hides a
  source, a file keeps the instrumentation of a step that it should not have gone through.
  `NogoSeesOriginals`: the list copied before instrumentation holds the names, not the files.
  `ImportsCovered`: what the compiler needs is in the importcfg and the same archive that the check
  meant; the imports file lists what the sources import. `Clean`: no temporary file survives.
* `ConflictsFound`, `LinkedAsCompiled`: without coverage, a binary with two archives of one package
  path is refused; a binary that links has one file for each path, the one compiled against.
  `EmbedderDecides`: dependencies and definitions of the embedding target win. `ModulesExact`: the
  worklist over import manifests reaches exactly the packages imported. `DefsExact`: stamps.
* `NewestVersion`: over all orders of tags on pages. `PatchesInOrder`, `AllOrNothing`: what is on disk in
  every state; both except dependencies asked for twice, whose goroutines share a directory. A patch
  file is incomplete exactly if its own diff has failed, or its write; a success promises no patch whose
  diff has failed, because nothing notices it (20 in section 6).
* `FilesExact`, `ResponseComplete`: for every order of ranging over the map, with the package added or
  not; the first is stated for targets whose package name the driver learns from a file of the package
  itself (22 in section 6). The second asks for every import that is a dependency of the archive as it was
  compiled, which for a test is the recompiled internal one (24), and for packages whose pkg.json was
  written (25); that the packages asked for are roots, where the query and the files agree on
  labels (`LabelsAgree`, 26).

## 5. Proofs

All theorems are about `Spec` (`EmbedSpec` in EmbedTree, `BuildSpec` in NogoBuild, `RecompileSpec` in TestRecompile) without fairness and hold for every value of the constants that
satisfies the named assumptions of the module.

**NogoExecProofs** assumes that requirements are acyclic (`nogo` calls `analysis.Validate` before
anything else, `nogo_main.go:50`, and Go refuses a cycle of variable initialisers) and that the set of analyzers is finite. The inductive invariant `IndInv`
adds to the types: *StartInv*, where an action can be before it was started; *OnceInv*, that the
state of the once and that of the goroutines tell the same; *WaitInv*, that the WaitGroup counts
the goroutines that are alive and that none is when `execAll` has returned; *ResultInv*, what an
action knows of those it requires; *ReturnInv*, what success means for the roots. The properties
alone are not inductive: that an action's inputs are final depends on the WaitGroup having waited
for the right goroutines, and this on a once that is done only when its action is. `Refinement`
shows that each step of the goroutines is a step of NogoAnalysis or a stutter.

**NogoOutputProofs**, fixes: for any list of diagnostics the edits chosen for a file are in order and
disjoint. The invariant of `validate`'s loop carries the comparison of neighbours over to all
pairs: what is kept is in order and ends where the last edit looked at ends. `FixesAtomic`: the
edits chosen are those of the fixes taken, each as a whole, and no others (`FinalInv`). This is not inductive,
because a fix is collected edit by edit and merged file by file, and each file is sorted and stripped of repetitions on the
way; `AtomicInv` adds which fixes can have been taken (`ChosenInv`), and what the candidate holds while it is
collected (`CollectInv`), for the files that are merged and those that are not (`MergeInv`), and in
the middle of `validate` (`ScanInv`). `PatchExact` assumes that the positions of an edit lie in its file
(`PositionAssumption`), since they are those of the `token.File` made of it; `FixesAtomic` gives this of
the edits returned. `applyEdits` and its reference (`Expected`) are recursive functions, one over the edits and
one over the bytes. `ApplyExact` relates them for the first k edits: what `applyEdits` has put out is what
the reference makes of the text up to the end of the k-th edit, and one edit more changes nothing in front of
it (`PrefixSame`), adds its text where it starts (`PrefixStart`), and leaves the text behind its end as it is
(`PrefixBehind`). That such functions have values (`Rounds`) and steps along them (`UpTo`) are shown from a least
counterexample, in place of induction.

**TestProofs**, the wrapper: for any child, what each stream printed is what was written, what is in hand
and what is left, in this order; the mutex excludes; a success of the wrapper is one of the child.

**UpgradeDepProofs** assumes of the inputs (`InputsAssumption`) that a declaration has at most `MaxPatches`
patches and that no two items of `patches` attributes name one file: regenerating a shared file
twice would overwrite one patch with the other; those of `go/private/repositories.bzl` name each once. For any
number of dependencies and patches, `PatchesInOrder` and `AllOrNothing` hold of every state. The
properties are not inductive: that a patch is regenerated from the right directories depends on what
each directory holds at each stage (`OwnDirs`), and that a success has all attributes on what a goroutine
has set in memory (`OwnAttrs`) and on the main goroutine waiting for all (`MainInv`). The invariant has a
part per goroutine; `FrameOthers` shows once that a step of one leaves the parts of the others alone,
because names, declarations, directories and patch files go together. That "all" and a list of names start
goroutines with an existing declaration (`RequestsOK`) rests on the index having a last declaration for a
name (`LastIndex`, by well-foundedness of the naturals) and on a finite set having a sequence.
`NewestVersion` adds that a request is for one version at most (`parseDepArg`) and that the host answers with
a page of tags at least. The loop over the tags is a recursive function; that it has a value (`BestExists`), and that what
it keeps after n tags is the highest usable one of them (`BestHighest`), are shown by looking at the first n
for which this would fail, which needs no induction over sequences. What remains is an invariant
(`ReadInv`): the tags in hand are those of the pages before the next one, a version is chosen when there is no
next one, and nothing touches the URL afterwards.

**NogoOutputProofs**, builds: for any graph of packages, any configuration and any faults, those of the
validation included, `ValidationExact`. Between
the findings of the nogo binary and the verdict of ValidateNogo lie an exit code, which errors use too, and a
log, which the builder leaves for one of the codes only; the invariant follows the findings through them, for
each package by itself: before the analyzers ran (`FoundInv`), in the exit code (`ExitInv`), in the log of an
action that succeeded and in the validation (`LogInv`).
`FactsReachDependents` holds of any graph whose packages are compiled under their import path
(`NoImportmap`; the run `nogo_build_importmap` shows that it is needed). Between a fact and a dependent far above it
lie all the packages on the way, each of which hands on what it knows. `FactsInv` therefore speaks of whole
chains: a package that has started has a chain of successes below it and is not in that chain itself
(`ChainInv`), and it knows what was exported there and has written what it knows (`KnowsInv`). What lies
below a package is defined as the least set closed under dependency, so that no induction is needed; that the
graph is acyclic need not be assumed, as a package on a cycle never starts. `NoFactsFileAssumption` says that a missing
facts file is no set of facts.

**TestProofs**, recompilation, assumes of a test (`IsInput`) that Bazel's graph has no cycle, that no two dependencies of a
target have one path, and that labels outside of the library under test stand for different paths. For any such graph, however much of it is shared, the list of the search is a post-order.
The invariant says what the counters mean: a count is the number of archives that still have to tell of their
end (`Waiting`, the cardinality of a finite set), each of them once, and what an expanded archive does not wait for
is in the list (`Counts`). A count of zero means both "finished" and "waiting on the stack to be finished", and the
code takes the first for granted when it pushes dependencies. This is right because the archives with count
zero are always on top of the stack (`Ready`), so that an archive is only expanded when none is left.
That the list is complete and the assertion about 2N iterations never fails (`EndInv`) follows by counting: the
steps made are the archives expanded and those finished (`Reached`); with an empty stack an unfinished archive would have
an unfinished dependency, against acyclicity. The loops that follow find every key they look up (`Loop`), also for the
dependencies of the internal archive, none of which `_dedup_archives` drops (`Collected`). `RecompiledExactly` rests on
the closure of a list being its members and their closures (`OneStep`), from the definition of the closure as
the least closed set. `LinksTogether` (of a test that does not depend on a library it embeds) and `CycleReported` follow the second loop (`LinkInv`): what it has under a label was made
of archives that were there before, and these are the ones that were compiled again where that is due.

**CompilePkgProofs** assumes of a package (`IsLib`) what Bazel and the rules see to: a label is listed once, the
dependencies of a target have one file for a package path, sources do not lie in the action's own directories;
and that the packages that cgo and coverage make a file import are standard ones or coverdata
(`AddedAssumption`, `CoverdataAssumption`). For any such package, any choice of cgo, coverage and filters and any
step that fails, `Clean`, `ArchiveExact`, `ImportsCovered` and `NogoSeesOriginals` hold. Names are what the steps hand on,
and a step may rewrite the file behind a name that a list made before still has. The invariant `DataInv` says of
each stage which names stand for which sources in which form, each once: what the rule registered
(`PkgInv`), the lists after filtering (`FilterInv`), the files written (`WorkInv`), what is copied for nogo and
what nogo will see (`NogoListInv`, `NogoInv`), the Go files for the compiler (`GoInv`), the objects (`ObjInv`), the imports
resolved (`ImportsInv`) and the archive (`ArchiveInv`). `CleanInv` relates the temporary directories to the deferred
removals, and the outputs to the stages passed.

The same module proves `FirstWins` and `FoundExactly` of EmbedTree, for any sources, root directories, patterns and
files, of which is assumed (`IsInput`) that no file lies below another, as on any disk. The invariant `EmbedInv` says what the
tree holds while it is built (`TreeOK`): a node for every source added, for what is on disk in it and for the directories above,
and no other; it is that of a file exactly if a source provides one, and then of the first such source. Adding a source keeps
this (`AddKeeps`) because one that has found its place taken shares the path with a file (`NoOverlap`). With the whole
tree, what `Matches` finds is what the sources provide: all nodes above a provided path are directories (`NodesAbove`), so
that the walk comes to the topmost match of a pattern (`Topmost`) and from there to all below it (`FoundIs`).
That the sources do not overlap (`Disjoint`) is a condition of both properties; without it a directory may
replace what was found below its path.

**RunfilesProofs** is about any tree, any mapping and any number of goroutines of which `IsSetup` holds. This has
two facts about data that the code relies on: no prefix in the mapping is a prefix of another one, nor the name
of a repository ("no prefix can be a prefix of another prefix", `go/runfiles/runfiles.go:394`), and no link of the
tree lies below another one, since Bazel drops those that another one obscures. From the first, the
binary search finds the one prefix that a name begins with (`OnePrefix`), so that looking up is reading the
lines (`GetLeads`); from the second, the longest prefix of a path in the manifest is the only one (`OneLink`). With
these, `RlocationExact` holds for goroutines however they interleave. `OpenExact` needs the trie: for a
single user it is missing, complete, or complete but for the keys that the building loop still has to insert
(`TrieInv`), and a directory is looked up in a complete one (`OpenInv`). `ListExact` adds what the user has
open: the root before its entries are known, or entries that are right of the tree when listed and left ones
are taken together (`ListInv`), each under one of its names. It holds of the names that Bazel gives (`BazelNames`): a repository has exact lines
for a name or lines for a prefix, not both; an apparent name that is also the name of a directory of the root leads to
it; and repositories are directories, not links.

**LinkProofs** assumes of a build (`IsBuild`) that dependencies and embedded targets come before the targets that name
them; that coverdata depends on nothing, imports the standard library only and is not the main package, and
no other target has its import path; that no needed package but those of the standard library has a path of that library
or the path of the main package, which nothing can import; and that no variable is defined under two of its names
(`x` and `path.x`, or `path.x` and `main.x`), where the order in a dictionary would decide. The rules' functions are recursive functions over the lists of targets and
dependencies. That they have values and what these are follows from closed sets of numbers (`SetInduction`, by
well-foundedness), which takes the place of induction: a list without its
later duplicates holds the first of each kind in their order, and each target of the analysed list is made from the ones
before it (`TheTargets`). From this: every import of a needed package resolves to one of its direct archives, of which no two
have one import path, so that for own dependencies the embedding target decides (`EmbedderDecides`); the file
given to the linker for the package path of an archive is that of this archive unless two have the path, and then,
without coverage, the conflict is found (`ConflictsFound`, `LinkedAsCompiled`). The invariant `LinkIInv` adds to
what a compilation has left (`CompiledInv`), to the order of the stages (`StageInv`) and to what the
builder has written (`LinkInv`) that of the worklist (`SearchInv`): what it has followed leads only to what it has followed or has in its
queue, and both consist of paths of packages that the main package imports, directly or through others. With an empty queue
the paths followed are closed under imports and therefore all of them, whatever order they were taken in, also
if packages import each other in a circle. `ModulesExact` follows for builds without conflicting paths; with them a manifest
stands for several packages.

**PackagesDriverProofs** assumes of a request (`InputAssumption`) that targets and packages of the standard library are
finitely many with names of their own, that the sources of a target are files of one package or external tests of it, that cgo's
types are only there if a source uses cgo, that a target has no dependency of its own import path, and that a
target with a file that does not parse has no pkg.json of its sources. Any pkg.json may be missing; of a test without the one
of its sources, the main package is what the registry has (`Counts`). The
invariant `DriverInv` follows a package through the registry. While files are read, the last package of each name is in
the registry or still to come (`AddInv`): a test has two under one label, of which the one with its sources is the second. During the
loop over the map a package that is to be visited is as it was added, and one that was visited is without its external
tests, which the package beside it has; that one may itself have been visited, and what this does to it is part of the
invariant (`VisitInv`). Visiting it can move its tests again to a package beside it, which is why `FilesExact` is about packages whose first file is no external test
(see 22 in section 6): then the name learned is the target's, and the one beside it has only tests of its own package. During the walk each import of a package
that was reached is reached or left in a call of `walk` on the stack (`WalkInv`), and what was asked for and
built is a root where labels agree (`RootsInv`). The closure of dependencies is the least closed set, and the lists of files
are recursive functions, so that neither needs induction over data. The bound `MaxXTest` plays no part.

Only model-checked: what needs fairness (`Terminates`, `KeepsGoing`), and `VerdictsExact`, whose module has
RECURSIVE operators for the converter's buffers and whose definition compares recursive functions over two interleaved outputs.

## 6. Where code and documentation differ

A run shows the first; the others were noticed while modelling, and the models do what the code does.

1. `nogo_build_importmap`: facts are written under the import path and looked up under the importmap.
2. The line of a benchmark that is not finished when the child ends swallows the forced FAIL.
3. The trie of a manifest is built on first use without synchronisation (`manifest.go:157`).
4. An entry without a target is listed as a directory even if it is an empty file (`manifest.go:218`),
   while Open finds a file under its name.
5. The check of directory names on the way to an embedded file looks at the base name of the match in
   every round (`embedcfg.go:311`), so that a pattern may go through a `.git` directory.
6. `validate` (`nogo_fix.go:178`) promises unique edits, but of the insertions A, B, A at one offset
   both As stay, because only neighbours are compared.
7. In debug mode, or for a package outside nogo's scope, facts-only analyses fail for diagnostics
   (`nogo_main.go:124`) although `nogo_main.go:277` says that they are discarded.
8. A last line of stderr without newline ends up in front of a line of stdout (`wrap.go:98` against
   69); without framing markers a verdict behind it is not recognised, and a test that failed is
   reported as one that did not end.
9. A child killed by a signal gives exit code 255, not `TestWrapperAbnormalExit` (`wrap.go:37`).
10. The root of a runfiles object lists only one of several apparent names of a repository (`fs.go:97`
    against 28-31); the zero object panics in Open (`fs.go:42` against `runfiles.go:74`); `Env` returns the
    object's own slice (`runfiles.go:240` against 237); `RUNFILES_MANIFEST_FILE` wins over the option
    Directory (`runfiles.go:110` against 93-95).
11. `embedNode.add` promises to leave existing nodes in place, but a directory gets a new map of
    children, and a file below the path of a file panics (`embedcfg.go:162` and 146).
12. The pattern `*` matches the root of the embed tree, so that hidden files of the package directory
    are left out, while hidden files matched by `dir/*` are embedded (`embedcfg.go:302`).
13. A test that lists a library both in `embed` and in `deps` links it twice: only importers of the
    library are taken out of the internal archive's dependencies, not the library (`test.bzl:688`
    against 551); the linker then refuses the two copies.
14. With cgo, `emit_archive` does not pass `recompile_internal_deps` on (`archive.bzl:119` against 174),
    so that a cycle through the internal test is reported as a missing dependency.
15. C sources without a file that imports "C" are "historically allowed" (`cgo2.go:49-51`), but no
    Go source is returned for them and the package does not compile; with cgo disabled and C sources,
    assembly sources are dropped without an error (`compilepkg.go:457` against 340).
16. The cover tool's lists are written beside the work directory (`cover.go:47`) and never removed.
17. Two direct dependencies with one importmap are compiled against; only the link reports them. With
    coverage, `emit_link` keeps one archive per importmap, so that not even the link does
    (`link.bzl:135` against `tests/core/go_binary/README.rst:25`).
18. A target with an import path of its own that embeds one with an importmap takes that importmap
    (`_infer_importpath` in `context.bzl`).
19. `repoRoot` promises to walk up to a WORKSPACE file (`file.go:38-41`), but compares a PathError with
    `os.ErrNotExist` (59) and fails at the first directory without one.
20. Every error of diff is ignored (`upgradedep.go:538`), not only the exit code 1 of files that differ:
    if it finds binary files, cannot read one, or is killed because the context is done, a patch file
    is replaced by an empty or truncated patch and the command may succeed. Of the work directory, the error of
    MkdirTemp is ignored (128; the directories are then made below the current one and stay, because
    `os.RemoveAll("")` removes nothing) and that of RemoveAll is lost (132-136). An archive that cannot be
    removed fails a goroutine whose attributes are set (449-454).
21. A dependency named twice is upgraded by two goroutines at once, although "nothing else should read
    or write" its attributes (`upgradedep.go:273`). One without `urls` panics at its last step, when its
    patches have been rewritten. A release asset has no prefix, so that extraction skips
    every entry and a dependency with patches fails. The status of the download is not looked at, so that
    the sum of an error page may be recorded. A version without a leading "v", or a commit, is
    refused when the repository has tags.
22. gopackagesdriver takes a package's name from its first file (`flatpackage.go:199`): if that is an
    external test, the library's tests are moved, and as the loop over the map may come to the package that
    it adds, they are moved again to a package that is no root. Without any compiled file the name is "",
    and every test is taken for an external one. Package clauses are read from the file
    system also for files in the overlay. `additionalKinds` grows with file requests, for good.
23. A line of stdout without framing that comes between "running tests:" and its entries ends the section
    (`xml.go:149-157`): the two streams are merged by line (`wrap.go:98`), and the tests listed after the
    line are not reported as interrupted.
24. A test's package in the response has the dependencies of its recompiled internal archive
    (`aspect.bzl:105-110`, `pkg_json.bzl:57-60`), which has lost those that import the library under test
    (`test.bzl:684-697`). The external test, split off from this package, is the one that may import
    them, and its import is not in the response.
25. A source that does not parse fails the pkg.json action of its package (`pkgjson/main.go:85-87`, 146-149),
    whatever its build constraints: the response is partial, and a test of which only the generated main
    package was written is described by that.
26. From Bazel 6.0 until 6.4, where labels begin with "@@" the query prints them without
    (`bazel_json_builder.go:172-176`), `Match` puts one "@" in front (`packageregistry.go:127-131`), and nothing
    that was asked for is found among the packages.

## 7. What the models leave out

*NogoExec*: type checking (ill-typed or not), the contents of facts and results, timing of analyzers.
*NogoBuild*: the compiler; packages are compiled or fail. *TestWrap*: signals to the wrapper itself,
partial reads of a line. *TestReport*: durations, attributes' values, benchmarks' metrics, XML escapes.
*Runfiles*: escapes in manifest lines, regular expressions of `CallerRepository`, Windows names.
*EmbedTree*: the syntax of patterns, links, directories without files. *TestRecompile*: the archives
that every test main is linked with (a test of a package of these may conflict with them), two
archives with one label, C libraries, linker definitions, coverage. *CompilePkg*: what the tools
do, flags, response files, the syntax of build constraints and patterns, rewriting of positions.
*Link*: C libraries, rpaths, plugins' and shared libraries' dependencies, the format of the build information.
*UpgradeDep*: the text of declarations, the mirror, concurrent changes of the files by others, directories
that an earlier run without a work directory left, the page size of the GitHub API. *PackagesDriver*: the text of queries, file paths and their prefixes, the list of the
standard library's packages (external), several requests to one process, and files that change
between the build and the response (only then can `MoveTestFiles` fail, because the build has parsed
them); the imports of a generated test main that are packages under the test's own label; failures in export mode.

## 8. Plan

What would come next, each with its MC module, its run and its mutants:

1. A form of `VerdictsExact` that can be proved, from the tokens of a stream instead of its buffers.
2. `LcovConversion` and `TestShards` as pure functions; the transitions into and out of a Go target.
3. The composition of CompilePkg with NogoBuild, so that nogo's inputs are those the action wrote.
