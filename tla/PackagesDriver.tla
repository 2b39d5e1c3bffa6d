---------------------------- MODULE PackagesDriver -----------------------------
(***************************************************************************)
(* gopackagesdriver: the requests of go/packages become a Bazel query, an  *)
(* aspect writes a pkg.json for every package below what it found (aspect   *)
(* .bzl, pkgjson), and the driver puts these into a registry, resolves the  *)
(* imports, splits off external tests and answers with what can be reached. *)
(*                                                                         *)
(* An ID is [at, name, x]: it begins with at, "@" or "@@" or nothing, and x  *)
(* counts its suffixes "_xtest".  A package name is a number: how often      *)
(* "_test" follows the name of the library.  No file changes between the     *)
(* build and the response.                                                  *)
(***************************************************************************)
EXTENDS Integers, SequencesExt

CONSTANTS
    Inputs,     \* the requests, workspaces and environments considered
    Stdlib,     \* the label of the standard library
    MaxXTest    \* bound: the loop over the map comes to packages of at most so many suffixes

VARIABLES
    input,      \* [requests, targets, std, overlay, version, at, queryExit, buildExit, partial], see below
    pc,         \* what the driver does next, or how it ended
    labels,     \* what the query found
    jsonFiles,  \* the packages in the .pkg.json files still to be added
    packagesByID,
    stdlib,     \* of each import path of the standard library, the ID
    todo,       \* the packages that ResolveImports will still visit
    roots,      \* the roots of the response
    rootsLeft,  \* those that Match has not yet walked from
    stack,      \* the calls of walk: a package, and the imports still to be looked at
    acc         \* the packages walked to

vars == <<input, pc, labels, jsonFiles, packagesByID, stdlib, todo, roots, rootsLeft, stack, acc>>

\* input.targets is a function from names to [path, srcs, deps, embed, rule, gotypes, builds, written]:
\* sources and dependencies include those of the embedded targets. gotypes and generated say whether
\* cgo has written _cgo_gotypes.go and the file's .cgo1.go, match whether its build constraints hold.
\* written says which .pkg.json files can be written, "main" being that of a test's main package: if
\* an input cannot be built, or does not parse, pkgjson or what comes before it fails.
\* input.overlay gives imports to some files; the overlay of those in input.misspelt does not parse.
\* Of targets in input.partial, Bazel reports what was built when something below them failed.
File == [name : STRING, test : BOOLEAN, pkg : {0, 1}, imports : SUBSET STRING, cgo : BOOLEAN,
         generated : BOOLEAN, match : BOOLEAN]

\* The files of a target are of one package or its external tests, and it does not import itself.
IsTarget(t, targets) ==
    /\ t.srcs = [n \in 1..Len(t.srcs) |-> t.srcs[n]] /\ Len(t.srcs) \in Nat /\ Range(t.srcs) \subseteq File
    /\ t.gotypes => \E f \in Range(t.srcs) : f.cgo
    /\ t.deps \cup t.embed \subseteq DOMAIN targets /\ t.written \subseteq {"main", "package"}
    /\ \A d \in t.deps : targets[d].path # t.path

ASSUME InputAssumption ==
    \A i \in Inputs :
        /\ IsFiniteSet(DOMAIN i.targets) /\ IsFiniteSet(DOMAIN i.std)
        /\ DOMAIN i.targets \cap DOMAIN i.std = {} /\ Stdlib \notin DOMAIN i.targets
        /\ \A n \in DOMAIN i.targets : IsTarget(i.targets[n], i.targets)
        /\ \A n \in DOMAIN i.targets : \A f \in Range(i.targets[n].srcs) :
               f.name \in i.broken => "package" \notin i.targets[n].written
        /\ i.misspelt \subseteq DOMAIN i.overlay /\ i.version \in Nat \X Nat \X Nat /\ i.at \in {"@", "@@"}

Ended == {"response", "error"}
NoName == -1

-----------------------------------------------------------------------------
(* Bazel *)

\* bazelVersion.isAtLeast: by the first number that differs; a version that is not known is
\* newer than any.
isAtLeast(version) ==
    \/ input.version = <<0, 0, 0>>
    \/ \A n \in 1..3 : (\A m \in 1..(n - 1) : input.version[m] = version[m]) => input.version[n] >= version[n]

\* str(label): since Bazel 6, labels of the main repository begin with input.at.
At == IF isAtLeast(<<6, 0, 0>>) THEN input.at ELSE ""
Id(name) == [at |-> At, name |-> name, x |-> 0]

\* The labels that bazel query prints: with --consistent_labels as they are in the pkg.json files.
Printed(name) == [at |-> IF isAtLeast(<<6, 4, 0>>) THEN At ELSE "", name |-> name, x |-> 0]

\* isAllowedBazelError: partial results are used.
isAllowedBazelError(exitCode) == exitCode \in {1, 3, 7}

\* Query, Build: what bazel has printed, or the files named in its build events, are taken
\* unless it failed for another reason.
Succeeds(exitCode) == exitCode = 0 \/ isAllowedBazelError(exitCode)

\* queryFromRequests: requests that are nothing known are dropped, and with none left the
\* query is for the standard library.
queryFromRequests ==
    LET known == {r \in input.requests : r.kind \in {"file", "importpath", "local", "builtin"}}
        found == UNION {r.matches : r \in known}
    IN  IF known = {} THEN {Stdlib} ELSE found

\* Labels: the query fails, finds nothing, or finds labels, if only some of them.
Labels ==
    /\ pc = "query"
    /\ LET found == queryFromRequests IN
       IF found = {} \/ ~Succeeds(input.queryExit)
       THEN pc' = "error" /\ UNCHANGED labels
       ELSE pc' = "build" /\ labels' = {IF n = Stdlib THEN [Id(n) EXCEPT !.at = "@"] ELSE Printed(n) : n \in found}
    /\ UNCHANGED <<input, jsonFiles, packagesByID, stdlib, todo, roots, rootsLeft, stack, acc>>

-----------------------------------------------------------------------------
(* The aspect and pkgjson *)

Overlaid(f) == IF f.name \in DOMAIN input.overlay THEN [f EXCEPT !.imports = input.overlay[f.name]] ELSE f

\* The files that are among some, in their order.
Filtered(files, some) ==
    LET kept[n \in 0..Len(files)] ==
            IF n = 0 THEN <<>> ELSE IF files[n] \in some THEN Append(kept[n - 1], files[n]) ELSE kept[n - 1]
    IN  kept[Len(files)]

\* What cgo made of a source, and the files that it makes for a package.
Generated(f) == [f EXCEPT !.name = @ \o ".cgo1.go", !.test = FALSE, !.cgo = FALSE, !.match = TRUE, !.imports = @ \ {"C"}]
CgoFile(name) == [name |-> name, test |-> FALSE, pkg |-> 0, imports |-> {}, cgo |-> FALSE,
                  generated |-> FALSE, match |-> TRUE]

\* processCgoFiles: sources that import C are left out, and the generated ones are added if
\* there are any.
processCgoFiles(t) ==
    LET generated == Filtered(t.srcs, {f \in Range(t.srcs) : f.cgo /\ f.generated})
    IN  Filtered(t.srcs, {f \in Range(t.srcs) : ~f.cgo})
        \o (IF t.gotypes
            THEN <<CgoFile("_cgo_gotypes.go"), CgoFile("_cgo_imports.go")>>
                 \o [n \in DOMAIN generated |-> Generated(generated[n])]
            ELSE <<>>)

\* _go_archive_to_pkg: the imports are the direct dependencies.
ToPkg(name, t) ==
    [id |-> Id(name), name |-> NoName, path |-> t.path, goFiles |-> t.srcs, compiled |-> processCgoFiles(t),
     imports |-> [p \in {input.targets[d].path : d \in t.deps} |->
                     Id(CHOOSE d \in t.deps : input.targets[d].path = p)],
     std |-> FALSE]

TestMain == [name |-> "testmain.go", test |-> FALSE, pkg |-> 0, imports |-> {"os"}, cgo |-> FALSE,
             generated |-> FALSE, match |-> TRUE]

\* What can be reached from S by a function to sets: what every set has that is closed under it.
Closure(S, next) ==
    {n \in DOMAIN next : \A T \in SUBSET DOMAIN next : S \subseteq T /\ (\A m \in T : next[m] \subseteq T) => n \in T}

\* _recompile_external_deps: the internal archive of a test is recompiled without the dependencies
\* that themselves depend on a library it embeds.
need_recompile(d, library_labels) ==
    Closure(input.targets[d].deps, [n \in DOMAIN input.targets |-> input.targets[n].deps]) \cap library_labels # {}
InternalArchive(t) ==
    IF t.rule = "go_test" THEN [t EXCEPT !.deps = {d \in @ : ~need_recompile(d, t.embed)}] ELSE t

\* The main package of a test; that it also imports the packages under its own label is left out.
MainArchive(t) == [t EXCEPT !.path = "testmain", !.srcs = <<TestMain>>, !.gotypes = FALSE]

\* The aspect: a test has two packages under one label, the generated main package and the one
\* with the sources of the test.
PkgsOf(name) ==
    LET t == input.targets[name] IN
    (IF t.rule = "go_test" /\ "main" \in t.written THEN <<ToPkg(name, MainArchive(t))>> ELSE <<>>)
    \o (IF "package" \in t.written THEN <<ToPkg(name, InternalArchive(t))>> ELSE <<>>)

\* The targets that the aspect comes to from some.
Deps(S) == Closure(S, [n \in DOMAIN input.targets |-> input.targets[n].deps \cup input.targets[n].embed])

\* The packages of the standard library come without sources here.
StdPkg(p) ==
    [id |-> Id(p), name |-> 0, path |-> p, goFiles |-> <<>>, compiled |-> <<>>,
     imports |-> [q \in input.std[p] |-> Id(q)], std |-> TRUE]

\* Targets that Bazel can analyse, and whose dependencies it can analyse.
Built == {n \in DOMAIN input.targets : \A d \in Deps({n}) : input.targets[d].builds}

\* The targets whose outputs Bazel reports: with --keep_going also some of those below which an
\* action failed.
AllWritten(t) == t.written = IF t.rule = "go_test" THEN {"main", "package"} ELSE {"package"}
Reported ==
    {n \in {l.name : l \in labels} \cap Built :
        n \in input.partial \/ \A d \in Deps({n}) : AllWritten(input.targets[d])}

\* The targets with a .pkg.json file that Bazel reports, and the paths in that of the standard
\* library, which comes with every target.
Read == {n \in Deps(Reported) : PkgsOf(n) # <<>>}
StdRead == IF Reported = {} /\ \A l \in labels : l.name # Stdlib THEN {} ELSE DOMAIN input.std

\* The .pkg.json files, of the standard library and of targets.
PkgFiles(std, targets) ==
    LET read[n \in 0..Len(targets)] ==
            IF n = 0 THEN [m \in DOMAIN std |-> StdPkg(std[m])] ELSE read[n - 1] \o PkgsOf(targets[n])
    IN  read[Len(targets)]

\* Build: "Build all possible packages", and read what was built from the build events.
Build ==
    /\ pc = "build"
    /\ IF Succeeds(input.buildExit)
       THEN /\ pc' = "add"
            /\ jsonFiles' = PkgFiles(SetToSeq(StdRead), SetToSeq(Read))
       ELSE pc' = "error" /\ UNCHANGED jsonFiles
    /\ UNCHANGED <<input, labels, packagesByID, stdlib, todo, roots, rootsLeft, stack, acc>>

-----------------------------------------------------------------------------
(* The registry *)

\* With function values: the entry for key is replaced or added.
Put(f, key, value) == [x \in DOMAIN f \cup {key} |-> IF x = key THEN value ELSE f[x]]

\* Mutant: the first package with an ID is kept.
Add_First ==
    /\ pc = "add" /\ jsonFiles # <<>>
    /\ LET pkg == Head(jsonFiles) IN
       /\ packagesByID' = IF pkg.id \in DOMAIN packagesByID THEN packagesByID ELSE Put(packagesByID, pkg.id, pkg)
       /\ stdlib' = IF pkg.std THEN Put(stdlib, pkg.path, pkg.id) ELSE stdlib
    /\ jsonFiles' = Tail(jsonFiles)
    /\ UNCHANGED <<input, pc, labels, todo, roots, rootsLeft, stack, acc>>

\* WalkFlatPackagesFromJSON and Add, a package at a time: a later one with the same ID
\* replaces the earlier one.
Add ==
    /\ pc = "add" /\ jsonFiles # <<>>
    /\ LET flatPkg == Head(jsonFiles)
           pkg == IF flatPkg.compiled = <<>> THEN [flatPkg EXCEPT !.compiled = flatPkg.goFiles] ELSE flatPkg
       IN  /\ packagesByID' = Put(packagesByID, pkg.id, pkg)
           /\ stdlib' = IF pkg.std THEN Put(stdlib, pkg.path, pkg.id) ELSE stdlib
    /\ jsonFiles' = Tail(jsonFiles)
    /\ UNCHANGED <<input, pc, labels, todo, roots, rootsLeft, stack, acc>>

\* filterSourceFilesForTags: files whose build constraints do not hold are left out; what cgo
\* generated stays.
filterSourceFilesForTags(files) == Filtered(files, {f \in Range(files) : f.match})

\* ResolvePaths; the paths themselves are left out here.
ResolvePaths ==
    /\ pc = "add" /\ jsonFiles = <<>>
    /\ packagesByID' = [i \in DOMAIN packagesByID |->
                           [packagesByID[i] EXCEPT !.compiled = filterSourceFilesForTags(@)]]
    /\ todo' = DOMAIN packagesByID
    /\ pc' = "imports"
    /\ UNCHANGED <<input, labels, jsonFiles, stdlib, roots, rootsLeft, stack, acc>>

\* ResolveImports of one package: its name, unless it has one, is that of the first file, and
\* imports that are no dependencies are looked for in the standard library.
Resolved(pkg) ==
    LET imported == (UNION {Overlaid(f).imports : f \in Range(pkg.compiled)}) \ {"C"}
        new == (imported \ DOMAIN pkg.imports) \cap DOMAIN stdlib
    IN  [pkg EXCEPT !.name = IF @ = NoName /\ pkg.compiled # <<>> THEN Head(pkg.compiled).pkg ELSE @,
                    !.imports = [p \in DOMAIN @ \cup new |-> IF p \in DOMAIN @ THEN @[p] ELSE stdlib[p]]]

\* filterTestSuffix: tests of the package go behind its other files, tests of another one
\* are external.
IsXTest(f, name) == f.test /\ f.pkg # name
External(files, name) == Filtered(files, {f \in Range(files) : IsXTest(f, name)})
Internal(files, name) ==
    Filtered(files, {f \in Range(files) : ~f.test}) \o Filtered(files, {f \in Range(files) : f.test /\ f.pkg = name})

\* MoveTestFiles: what is left of the package, and the package with its external tests.
XTestID(id) == [id EXCEPT !.x = @ + 1]
Rest(pkg) ==
    [pkg EXCEPT !.goFiles = Internal(@, pkg.name), !.compiled = Internal(@, pkg.name)]
XTest(pkg) ==
    [pkg EXCEPT !.id = XTestID(pkg.id), !.name = @ + 1, !.path = @ \o "_test",
                !.imports = Put(@, pkg.path, pkg.id),
                !.goFiles = External(@, pkg.name), !.compiled = External(@, pkg.name)]

\* The loop of ResolveImports over the map, one package at a time: the package with the
\* external tests is added to the map, and the loop may come to it, or not.  Files that pkgjson could
\* not parse are not here, so only an overlay fails to parse, and nothing in MoveTestFiles.
Visit ==
    /\ pc = "imports"
    /\ \E id \in todo :
       LET pkg == Resolved(packagesByID[id])
           moved == \E f \in Range(pkg.goFiles) \cup Range(pkg.compiled) : IsXTest(f, pkg.name)
       IN  IF \E f \in Range(pkg.compiled) : f.name \in input.misspelt
           THEN pc' = "error" /\ UNCHANGED <<packagesByID, todo>>
           ELSE /\ packagesByID' = IF moved THEN Put(Put(packagesByID, id, Rest(pkg)), XTestID(id), XTest(pkg))
                                   ELSE Put(packagesByID, id, Rest(pkg))
                /\ \/ todo' = todo \ {id}
                   \/ moved /\ id.x < MaxXTest /\ todo' = (todo \ {id}) \cup {XTestID(id)}
                /\ UNCHANGED pc
    /\ UNCHANGED <<input, labels, jsonFiles, stdlib, roots, rootsLeft, stack, acc>>

\* Match, its first half: the roots. "Canonical labels is only since Bazel 6.0.0"; a label
\* without a package is skipped, an external test is a root beside its package.
Match ==
    LET spelled == {IF isAtLeast(<<6, 0, 0>>) /\ l.at = "" THEN [l EXCEPT !.at = "@"] ELSE l : l \in labels}
        std == IF \E l \in spelled : l.name = Stdlib THEN Range(stdlib) ELSE {}
        known == spelled \cap DOMAIN packagesByID
        xtests == {XTestID(l) : l \in known} \cap DOMAIN packagesByID
    IN  /\ pc = "imports" /\ todo = {}
        /\ pc' = "walk"
        /\ roots' = std \cup known \cup xtests /\ rootsLeft' = roots'
        /\ UNCHANGED <<input, labels, jsonFiles, packagesByID, stdlib, todo, stack, acc>>

\* A call of walk.
Frame(id) == [id |-> id, left |-> Range(packagesByID[id].imports)]

\* Match, its second half: walk from each root.
WalkRoot ==
    /\ pc = "walk" /\ stack = <<>>
    /\ \E id \in rootsLeft :
          rootsLeft' = rootsLeft \ {id} /\ acc' = acc \cup {id} /\ stack' = <<Frame(id)>>
    /\ UNCHANGED <<input, pc, labels, jsonFiles, packagesByID, stdlib, todo, roots>>

\* Mutant: a package that was walked to ends the loop over the imports.
Walk_Return ==
    /\ stack # <<>>
    /\ LET top == Last(stack) IN
       \/ top.left = {} /\ stack' = Front(stack) /\ UNCHANGED acc
       \/ \E i \in top.left :
             IF i \in acc \/ i \notin DOMAIN packagesByID THEN stack' = Front(stack) /\ UNCHANGED acc
             ELSE stack' = Append(Append(Front(stack), [top EXCEPT !.left = @ \ {i}]), Frame(i)) /\ acc' = acc \cup {i}
    /\ UNCHANGED <<input, pc, labels, jsonFiles, packagesByID, stdlib, todo, roots, rootsLeft>>

\* walk: the next import, unless it was walked to before or is no package of the registry.
Walk ==
    /\ stack # <<>>
    /\ LET top == Last(stack) IN
       \/ top.left = {} /\ stack' = Front(stack) /\ UNCHANGED acc
       \/ \E i \in top.left :
             LET next == Append(Front(stack), [top EXCEPT !.left = @ \ {i}]) IN
             IF i \in acc \/ i \notin DOMAIN packagesByID THEN stack' = next /\ UNCHANGED acc
             ELSE stack' = Append(next, Frame(i)) /\ acc' = acc \cup {i}
    /\ UNCHANGED <<input, pc, labels, jsonFiles, packagesByID, stdlib, todo, roots, rootsLeft>>

\* GetResponse.  After an error there is no response, and the exit code is 0 all the same.
Respond ==
    /\ pc = "walk" /\ rootsLeft = {} /\ stack = <<>>
    /\ pc' = "response"
    /\ UNCHANGED <<input, labels, jsonFiles, packagesByID, stdlib, todo, roots, rootsLeft, stack, acc>>

Init ==
    /\ input \in Inputs
    /\ pc = "query" /\ labels = {} /\ jsonFiles = <<>>
    /\ packagesByID = <<>> /\ stdlib = <<>>
    /\ todo = {} /\ roots = {} /\ rootsLeft = {} /\ stack = <<>> /\ acc = {}

Exited == pc \in Ended /\ UNCHANGED vars

Next ==
    \/ Labels \/ Build \/ Add \/ ResolvePaths \/ Visit
    \/ Match \/ WalkRoot \/ Walk \/ Respond \/ Exited

Spec == Init /\ [][Next]_vars

-----------------------------------------------------------------------------
(* Properties *)

\* The target of a package in the response, as it was compiled. The packages of the standard library
\* have none, and a test of which only the main package was written is not itself there.
Target(id) == InternalArchive(input.targets[id.name])
FromTarget(id) == id.name \in DOMAIN input.targets /\ "package" \in input.targets[id.name].written

\* The driver learns the name of a package from the first file that is compiled; without one it
\* takes every test for an external one.
NameFirst(t) ==
    LET files == filterSourceFilesForTags(IF processCgoFiles(t) = <<>> THEN t.srcs ELSE processCgoFiles(t))
    IN  IF files = <<>> THEN \A f \in Range(t.srcs) : ~f.test ELSE Head(files).pkg = 0

Names(files) == {f.name : f \in files}

\* Whatever the order of the map and whether the loop comes to the packages it adds: every
\* source of a target is in the target's package or, if it is an external test, in the xtest
\* package beside it, and in one of them only; compiled are the sources whose constraints hold,
\* with the generated files in place of cgo's. No external test is left out.
FilesExact ==
    pc = "response" => \A id \in acc : FromTarget(id) /\ NameFirst(Target(id)) =>
        LET t == Target(id)
            mine == {f \in Range(t.srcs) : (f.test /\ f.pkg = 1) = (id.x = 1)}
            compiled == {f \in mine : f.match /\ ~f.cgo}
            cgo == {f \in Range(t.srcs) : f.cgo}
        IN  /\ id.x <= 1
            /\ Names(Range(packagesByID[id].goFiles)) = Names(mine)
            /\ id.x = 0 /\ (\E f \in Range(t.srcs) : f.test /\ f.pkg = 1) => XTestID(id) \in DOMAIN packagesByID
            /\ (cgo = {} /\ \E f \in Range(t.srcs) : f.match) =>
                   Names(Range(packagesByID[id].compiled)) = Names(compiled)
            /\ id.x = 0 /\ cgo # {} /\ t.gotypes =>
                   Names(Range(packagesByID[id].compiled)) =
                       Names(compiled) \cup {"_cgo_gotypes.go", "_cgo_imports.go"} \cup {f.name \o ".cgo1.go" : f \in {c \in cgo : c.generated}}

\* bazel query and the pkg.json files agree on how a label is written.
LabelsAgree == isAtLeast(<<6, 0, 0>>) /\ ~isAtLeast(<<6, 4, 0>>) => input.at = "@"

\* The response is complete: every package that was asked for and built is a root, with its
\* external tests, even if others could not be built; and whatever a compiled file of a package
\* in it imports (in the overlay, if there is one) is the dependency with that path, or else of the
\* standard library, and in the response too unless its own .pkg.json was not written. What an
\* external test imports that depends on the library under test is no dependency here: the driver
\* does not find it.
ResponseComplete ==
    pc = "response" =>
        /\ LabelsAgree => \A l \in labels : l.name \in Reported /\ "package" \in input.targets[l.name].written => Id(l.name) \in roots
        /\ roots \subseteq acc
        /\ \A i \in DOMAIN packagesByID : i.x = 1 /\ [i EXCEPT !.x = 0] \in roots => i \in roots
        /\ \A id \in acc : FromTarget(id) =>
              \A p \in (UNION {Overlaid(f).imports : f \in Range(packagesByID[id].compiled)}) \ {"C"} :
                 LET dep == {d \in Target(id).deps : input.targets[d].path = p} IN
                 IF dep # {} THEN \E d \in dep : packagesByID[id].imports[p] = Id(d) /\ ("package" \in input.targets[d].written => Id(d) \in acc)
                 ELSE IF id.x = 1 /\ p = Target(id).path THEN packagesByID[id].imports[p] = Id(id.name) /\ Id(id.name) \in acc
                 ELSE p \in DOMAIN input.std => packagesByID[id].imports[p] = Id(p) /\ Id(p) \in acc
=============================================================================
