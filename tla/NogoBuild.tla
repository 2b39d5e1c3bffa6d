------------------------------ MODULE NogoBuild ------------------------------
(***************************************************************************)
(* nogo as part of a build. For every Go package Bazel runs the actions    *)
(* that emit_compilepkg registers: GoCompilePkg, RunNogo (the builder's    *)
(* nogo command around the nogo binary, which writes a facts file, a log   *)
(* and a patch) and ValidateNogo. An action may run once the files it      *)
(* takes from other actions exist, actions of different packages run side  *)
(* by side, and one that fails leaves no outputs and stops nothing that    *)
(* does not need them (--keep_going).                                      *)
(* A fact is recorded with the path of its package, and looked up by the   *)
(* path of the type-checked package: the two are modelled as paths.        *)
(***************************************************************************)

CONSTANTS
    Package,      \* the Go packages of the build
    Path,         \* import paths and package paths
    NoFactsFile,  \* stands for a facts file that does not exist
    Setups        \* the builds considered: how packages depend and are configured

\* deps: direct dependencies; noNogo: tagged no-nogo; validated: in scope of nogo's includes;
\* cgo: has cgo sources; empty: no Go sources pass the filter; importpath, importmap: its paths;
\* producers: some analyzer declares facts
Setup == [deps : [Package -> SUBSET Package], noNogo : SUBSET Package,
          validated : SUBSET Package, cgo : SUBSET Package, empty : SUBSET Package,
          importpath : [Package -> Path], importmap : [Package -> Path],
          producers : BOOLEAN]

ASSUME SetupAssumption == Setups \subseteq Setup
ASSUME NoFactsFileAssumption == \A facts \in SUBSET (Path \X Package) : facts # NoFactsFile

VARIABLES
    setup,        \* the build
    debugMode,    \* nogo(debug = True)
    compile,      \* compile[p]: "waiting", "ok" or "failed"
    phase,        \* phase[p]: where RunNogo of p is; "waiting", "ok" and "failed" as for compile
    pkgFacts,     \* pkgFacts[p]: the facts the loaded package knows, as <<path, package>>
    findings,     \* findings[p]: checkPackage returned diagnostics
    exitCode,     \* exitCode[p] of the nogo binary, None while it has not exited
    factsFile,    \* factsFile[p]: content of the facts file, or NoFactsFile
    log,          \* the packages whose output directory has a log
    fix,          \* the packages whose output directory has a patch
    validation,   \* validation[p]: "waiting", "ok", or failed with "findings" or with an "error"
    faults        \* the packages whose GoCompilePkg or RunNogo failed for other reasons than findings (history)

buildVars == <<setup, debugMode, compile, phase, pkgFacts, findings, exitCode, factsFile, log, fix,
               validation, faults>>

None == "none"

deps == setup.deps

BuildInit ==
    /\ setup \in Setups /\ debugMode \in BOOLEAN
    /\ compile = [p \in Package |-> "waiting"]
    /\ phase = [p \in Package |-> "waiting"]
    /\ pkgFacts = [p \in Package |-> {}]
    /\ findings = [p \in Package |-> FALSE]
    /\ exitCode = [p \in Package |-> None]
    /\ factsFile = [p \in Package |-> NoFactsFile]
    /\ log = {} /\ fix = {}
    /\ validation = [p \in Package |-> "waiting"]
    /\ faults = {}

-----------------------------------------------------------------------------
(* GoCompilePkg *)

\* The compiler needs the export files of the direct dependencies, and nothing from nogo.
GoCompilePkg(p) ==
    /\ compile[p] = "waiting"
    /\ \A d \in deps[p] : compile[d] = "ok"
    /\ \/ compile' = [compile EXCEPT ![p] = "ok"] /\ UNCHANGED faults
       \/ compile' = [compile EXCEPT ![p] = "failed"] /\ faults' = faults \cup {p}
    /\ UNCHANGED <<setup, debugMode, phase, pkgFacts, findings, exitCode, factsFile, log, fix,
                   validation>>

-----------------------------------------------------------------------------
(* RunNogo: the builder *)

HasFacts == Package \ setup.noNogo

\* Mutant: the facts files of the dependencies are not inputs of the action.
InputsReady_NoFacts(p) ==
    /\ p \in HasFacts
    /\ \A d \in deps[p] : compile[d] = "ok"
    /\ p \in setup.cgo => compile[p] = "ok"

\* inputs_direct of _run_nogo: facts and export files of the dependencies, and the
\* package's own cgo output. Packages tagged no-nogo have no RunNogo action.
InputsReady(p) ==
    /\ p \in HasFacts
    /\ \A d \in deps[p] : compile[d] = "ok"
    /\ \A d \in deps[p] \cap HasFacts : phase[d] = "ok"
    /\ p \in setup.cgo => compile[p] = "ok"

\* nogo: filtering the sources, the working directory or checkImportsAndBuildCfg fails.
BuilderFails(p) ==
    /\ phase[p] = "waiting" /\ InputsReady(p)
    /\ phase' = [phase EXCEPT ![p] = "failed"] /\ faults' = faults \cup {p}
    /\ UNCHANGED <<setup, debugMode, compile, pkgFacts, findings, exitCode, factsFile, log, fix,
                   validation>>

\* runNogo without Go sources: an empty facts file, and nogo is not called.
NoSources(p) ==
    /\ phase[p] = "waiting" /\ InputsReady(p)
    /\ p \in setup.empty
    /\ factsFile' = [factsFile EXCEPT ![p] = {}]
    /\ phase' = [phase EXCEPT ![p] = "ok"]
    /\ UNCHANGED <<setup, debugMode, compile, pkgFacts, findings, exitCode, log, fix,
                   validation, faults>>

\* runNogo writes the parameter file and starts the nogo binary.
StartNogo(p) ==
    /\ phase[p] = "waiting" /\ InputsReady(p)
    /\ p \notin setup.empty
    /\ phase' = [phase EXCEPT ![p] = "load"]
    /\ UNCHANGED <<setup, debugMode, compile, pkgFacts, findings, exitCode, factsFile, log, fix,
                   validation, faults>>

-----------------------------------------------------------------------------
(* RunNogo: the nogo binary *)

\* The path that the analysed package has: runNogo passes the import path as -p.
AnalyzedPath(p) == setup.importpath[p]

\* The path that an imported package has: importer.Import translates it by the importmap.
ImportedPath(p) == setup.importmap[p]

\* -fact flags: the facts files of the direct dependencies, by import path.
factMap(p) == [path \in {setup.importpath[d] : d \in deps[p] \cap HasFacts} |->
                  {factsFile[d] : d \in {e \in deps[p] \cap HasFacts : setup.importpath[e] = path}}]

\* readFacts: the facts stored for the package with this path, none if there is no file.
readFacts(p, path) == IF path \in DOMAIN factMap(p) THEN UNION (factMap(p)[path] \ {NoFactsFile}) ELSE {}

\* The packages in every set that holds succ[p] and, with a package, those that succ gives for it.
Reachable(p, succ) ==
    {q \in Package : \A S \in SUBSET Package :
        succ[p] \subseteq S /\ (\A r \in S : succ[r] \subseteq S) => q \in S}

\* Everything p depends on.
Below(p) == Reachable(p, deps) \ {p}

\* Decode: the facts read for the imports, as far as they are about a known package.
Decode(p) ==
    {fact \in UNION {readFacts(p, ImportedPath(d)) : d \in deps[p]} :
        \E q \in Below(p) : fact[1] = ImportedPath(q)}

\* The process ends with an error that is not about findings.
Error(p) ==
    /\ exitCode' = [exitCode EXCEPT ![p] = "nogoError"]
    /\ phase' = [phase EXCEPT ![p] = "exited"]
    /\ faults' = faults \cup {p}

\* checkPackage in facts-only mode without fact producers: no analyzer to run, no package.
NoRoots(p) ==
    /\ phase[p] = "load"
    /\ p \notin setup.validated /\ ~setup.producers
    /\ phase' = [phase EXCEPT ![p] = "facts"]
    /\ UNCHANGED <<setup, debugMode, compile, pkgFacts, findings, exitCode, factsFile, log, fix,
                   validation, faults>>

\* checkPackage: load decodes the facts of the imports, then the analyzers run, adding
\* the package's own facts. They find something or not; or loading or an analyzer fails.
CheckPackage(p) ==
    /\ phase[p] = "load"
    /\ p \in setup.validated \/ setup.producers
    /\ \/ /\ pkgFacts' = [pkgFacts EXCEPT ![p] =
                Decode(p) \cup (IF setup.producers THEN {<<AnalyzedPath(p), p>>} ELSE {})]
          /\ \E found \in BOOLEAN : findings' = [findings EXCEPT ![p] = found]
          /\ phase' = [phase EXCEPT ![p] = "facts"]
          /\ UNCHANGED <<exitCode, faults>>
       \/ Error(p) /\ UNCHANGED <<pkgFacts, findings>>
    /\ UNCHANGED <<setup, debugMode, compile, factsFile, log, fix, validation>>

\* run writes the facts file before it looks at the diagnostics.
WriteFacts(p) ==
    /\ phase[p] = "facts"
    /\ \/ /\ factsFile' = [factsFile EXCEPT ![p] = pkgFacts[p]]
          /\ phase' = [phase EXCEPT ![p] = "diagnostics"]
          /\ UNCHANGED <<exitCode, faults>>
       \/ Error(p) /\ UNCHANGED factsFile
    /\ UNCHANGED <<setup, debugMode, compile, pkgFacts, findings, log, fix, validation>>

\* Mutant: findings are an error as in the days before validation actions.
ExitCode_FindingsFail(p) == IF findings[p] THEN "nogoError" ELSE "nogoSuccess"

ExitCode(p) ==
    IF ~findings[p] THEN "nogoSuccess" ELSE IF debugMode THEN "nogoError" ELSE "nogoViolation"

\* run ends: it saves the suggested fixes, if there are any and they can be written
\* (an error only lengthens the message), and exits.
Diagnostics(p) ==
    /\ phase[p] = "diagnostics"
    /\ exitCode' = [exitCode EXCEPT ![p] = ExitCode(p)]
    /\ \/ findings[p] /\ fix' = fix \cup {p}
       \/ UNCHANGED fix
    /\ phase' = [phase EXCEPT ![p] = "exited"]
    /\ UNCHANGED <<setup, debugMode, compile, pkgFacts, findings, factsFile, log, validation, faults>>

\* The nogo process is killed.
Killed(p) ==
    /\ phase[p] \in {"load", "facts", "diagnostics"}
    /\ exitCode' = [exitCode EXCEPT ![p] = "killed"]
    /\ phase' = [phase EXCEPT ![p] = "exited"]
    /\ faults' = faults \cup {p}
    /\ UNCHANGED <<setup, debugMode, compile, pkgFacts, findings, factsFile, log, fix, validation>>

-----------------------------------------------------------------------------
(* RunNogo: the builder after the nogo binary has exited *)

\* The action fails, and a failed action has no outputs.
Fail(p) ==
    /\ phase' = [phase EXCEPT ![p] = "failed"]
    /\ factsFile' = [factsFile EXCEPT ![p] = NoFactsFile]
    /\ fix' = fix \ {p}

\* Mutant: violations are not told apart from success.
LogFindings_Never(p) ==
    /\ phase[p] = "exited" /\ exitCode[p] = "nogoViolation"
    /\ phase' = [phase EXCEPT ![p] = "ok"]
    /\ UNCHANGED <<setup, debugMode, compile, pkgFacts, findings, exitCode, factsFile, log, fix,
                   validation, faults>>

\* Findings go to the log and do not fail the action, so that the facts are available,
\* unless the log cannot be written.
LogFindings(p) ==
    /\ phase[p] = "exited" /\ exitCode[p] = "nogoViolation"
    /\ \/ /\ log' = log \cup {p}
          /\ phase' = [phase EXCEPT ![p] = "ok"]
          /\ UNCHANGED <<factsFile, fix, faults>>
       \/ Fail(p) /\ faults' = faults \cup {p} /\ UNCHANGED log
    /\ UNCHANGED <<setup, debugMode, compile, pkgFacts, findings, exitCode, validation>>

\* Any other exit code, and death by a signal, is the result of the action.
ReturnResult(p) ==
    /\ phase[p] = "exited" /\ exitCode[p] # "nogoViolation"
    /\ \/ /\ exitCode[p] = "nogoSuccess"
          /\ phase' = [phase EXCEPT ![p] = "ok"] /\ UNCHANGED <<factsFile, fix>>
       \/ exitCode[p] # "nogoSuccess" /\ Fail(p)
    /\ UNCHANGED <<setup, debugMode, compile, pkgFacts, findings, exitCode, log, validation, faults>>

-----------------------------------------------------------------------------
(* ValidateNogo *)

\* nogoValidation prints the findings and fails if there is a log. It fails without them if its
\* output cannot be created, or the log or the patch not be read.
NogoValidation(p) ==
    /\ validation[p] = "waiting" /\ p \in setup.validated /\ phase[p] = "ok"
    /\ \/ validation' = [validation EXCEPT ![p] = IF p \in log THEN "findings" ELSE "ok"]
       \/ validation' = [validation EXCEPT ![p] = "error"]
    /\ UNCHANGED <<setup, debugMode, compile, phase, pkgFacts, findings, exitCode, factsFile, log, fix, faults>>

Step(p) ==
    \/ GoCompilePkg(p) \/ BuilderFails(p) \/ NoSources(p) \/ StartNogo(p)
    \/ NoRoots(p) \/ CheckPackage(p) \/ WriteFacts(p) \/ Diagnostics(p) \/ Killed(p)
    \/ LogFindings(p) \/ ReturnResult(p) \/ NogoValidation(p)

\* Bazel is done when no action can run any more.
Finished == \A p \in Package :
    /\ compile[p] = "waiting" => \E d \in deps[p] : compile[d] # "ok"
    /\ phase[p] \in {"waiting", "ok", "failed"}
    /\ phase[p] = "waiting" => ~InputsReady(p)
    /\ phase[p] = "ok" /\ p \in setup.validated => validation[p] # "waiting"

BuildEnds == Finished /\ UNCHANGED buildVars

BuildNext == (\E p \in Package : Step(p)) \/ BuildEnds

BuildSpec == BuildInit /\ [][BuildNext]_buildVars

\* Bazel runs every action whose inputs are there, and the actions end.
FairSpec == BuildSpec /\ \A p \in Package : WF_buildVars(Step(p))

-----------------------------------------------------------------------------
(* Properties *)

\* The packages whose facts p should know: those it depends on through packages that nogo analyses.
Analyzed == [p \in Package |-> IF p \in setup.empty THEN {} ELSE deps[p] \cap HasFacts]
FactChain(p) == Reachable(p, Analyzed) \ setup.empty

Loaded(p) == setup.producers /\ phase[p] \in {"facts", "diagnostics", "ok"} /\ p \notin setup.empty

\* "The fact [a dependency] exports must still reach the dependent's check": across any
\* chain of packages, in whatever order their actions ran, with findings or without.
FactsReachDependents ==
    \A p \in Package : Loaded(p) => \A q \in FactChain(p) : \E fact \in pkgFacts[p] : fact[2] = q

\* "No nogo findings, this is the only case in which we exit without an error": a validation that
\* succeeds hides no findings, one that prints findings has some, and only an I/O error of its own
\* makes it fail without printing them. There is a patch only where there is a log to print it with.
ValidationExact ==
    \A p \in Package :
        /\ validation[p] = "ok" => ~findings[p]
        /\ validation[p] = "findings" => findings[p]
        /\ phase[p] = "ok" /\ p \in fix => p \in log

\* "It is important that this action doesn't fail if nogo produces findings, which allows
\* users to get the nogo findings for all targets with --keep_going": every package is
\* analysed and validated unless something at or below it went wrong that is not a finding.
KeepsGoing ==
    \A p \in Package :
        <>(\/ debugMode \/ \E q \in Below(p) \cup {p} : q \in faults
           \/ p \in setup.noNogo
           \/ phase[p] = "ok" /\ (p \in setup.validated => validation[p] # "waiting"))
=============================================================================
