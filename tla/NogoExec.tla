------------------------------ MODULE NogoExec ------------------------------
(***************************************************************************)
(* The analysis scheduler of the nogo binary (nogo_main.go): checkPackage  *)
(* turns the configured analyzers into a DAG of actions, execAll starts    *)
(* one goroutine per action and waits for them on a WaitGroup, exec guards *)
(* each action with a sync.Once, execOnce recursively executes the         *)
(* required actions before it runs the analyzer, and checkAnalysisResults  *)
(* gathers what the root actions left behind.                              *)
(*                                                                         *)
(* A goroutine is named by the call that started it, c and a: caller c     *)
(* (the main goroutine or the execOnce of analyzer c) executes analyzer a. *)
(***************************************************************************)
EXTENDS Naturals, FiniteSets

CONSTANTS
    Analyzer,          \* every analyzer reachable from the configured ones
    Main,              \* the goroutine of checkPackage
    Targets,           \* the nogo targets considered, each the set of its analyzers
    Requires,          \* Requires[a]: analysis.Analyzer.Requires
    HasFacts,          \* the analyzers that declare FactTypes
    RunDespiteErrors,  \* the analyzers that also run on ill-typed packages
    Diagnostic,        \* places of the package a diagnostic can be reported at
    File,              \* the files of the package
    FileOf,            \* FileOf[d]: the file of d
    IgnoreFiles,       \* files given by -ignore
    NolintComments,    \* nolint comments: [linters, covers], see Nolint
    AllLinters,        \* the nil linter set of parseNolint: all linters
    Configs,           \* Configs[a]: analyzer a's entry of "configs", or NoConfig
    BaseConfig,        \* the "_base" entry of "configs", or NoConfig
    NoConfig,          \* no entry
    Unset              \* a nil pattern list in an entry

Callers == Analyzer \cup {Main}

\* Analyzers are package-level variables, so the Go compiler rejects a Requires
\* cycle as an initialization cycle: every set of them has a member no member requires.
ASSUME AnalyzerAssumption ==
    /\ IsFiniteSet(Analyzer)
    /\ Main \notin Analyzer
    /\ Targets \subseteq SUBSET Analyzer
    /\ Requires \in [Analyzer -> SUBSET Analyzer]
    /\ \A S \in SUBSET Analyzer :
          S # {} => \E m \in S : \A a \in S : m \notin Requires[a]

ASSUME ConfigAssumption ==
    /\ HasFacts \subseteq Analyzer
    /\ RunDespiteErrors \subseteq Analyzer
    /\ \A d \in Diagnostic : FileOf[d] \in File
    /\ IgnoreFiles \subseteq File
    /\ \A c \in NolintComments :
          /\ c.linters = AllLinters \/ c.linters \subseteq Analyzer
          /\ c.covers \subseteq Diagnostic

VARIABLES
    configured,   \* the analyzers of the nogo target, "analyzers" in checkPackage
    factsOnly,    \* the -facts_only flag
    roots,        \* the root actions
    illTyped,     \* goPackage.illTyped: type checking reported an error
    pc,           \* pc[c]: where c is in checkPackage or in execOnce
    goroutine,    \* goroutine[c][a]: where that goroutine is
    once,         \* once[a]: action.once
    wg,           \* wg[c]: the counter of the WaitGroup of c's execAll
    err,          \* err[a]: action.err, "none" for nil
    result,       \* result[a]: action.result, "nil" or "value"
    inputs,       \* inputs[a]: the ResultOf map of a's Pass
    diagnostics,  \* diagnostics[a]: action.diagnostics
    facts,        \* the analyzers that exported their facts to pkg.facts
    runs,         \* runs[a]: how often Analyzer.Run was called (history)
    returned      \* what checkPackage returns: [kind, diags]

vars == <<configured, factsOnly, roots, illTyped, pc, goroutine, once, wg, err, result,
          inputs, diagnostics, facts, runs, returned>>

-----------------------------------------------------------------------------
(* checkPackage up to the call of execAll *)

\* The analyzers that factProducers' visit reaches from S.
Visited(S) ==
    {a \in Analyzer :
        \A T \in SUBSET Analyzer :
            (S \subseteq T /\ \A b \in T : Requires[b] \subseteq T) => a \in T}

\* Mutant: only the configured analyzers themselves are considered.
factProducers_RootsOnly(S) == S \cap HasFacts

factProducers(S) == Visited(S) \cap HasFacts

\* The diagnostics that the ranges in action.nolint cover: every place of an
\* ignored file, and what a nolint comment for all linters or for a is attached to.
Nolint(a) ==
    {d \in Diagnostic : FileOf[d] \in IgnoreFiles} \cup
    {d \in Diagnostic : \E c \in NolintComments :
        /\ d \in c.covers
        /\ c.linters = AllLinters \/ a \in c.linters}

Init ==
    /\ configured \in Targets
    /\ factsOnly \in BOOLEAN
    /\ roots = {}
    /\ illTyped = FALSE
    /\ pc = [c \in Callers |-> IF c = Main THEN "start" ELSE "idle"]
    /\ goroutine = [c \in Callers |-> [a \in Analyzer |-> "none"]]
    /\ once = [a \in Analyzer |-> "new"]
    /\ wg = [c \in Callers |-> 0]
    /\ err = [a \in Analyzer |-> "none"]
    /\ result = [a \in Analyzer |-> "nil"]
    /\ inputs = [a \in Analyzer |-> [d \in Analyzer |-> "absent"]]
    /\ diagnostics = [a \in Analyzer |-> {}]
    /\ facts = {}
    /\ runs = [a \in Analyzer |-> 0]
    /\ returned = [kind |-> "none", diags |-> {}]

actionState == <<goroutine, once, wg, err, result, inputs, diagnostics, facts, runs>>

RootsOf(only) == IF only THEN factProducers(configured) ELSE configured

\* setAnalyzerFlags refuses the flags of a configured analyzer, or of one that it requires
\* directly: only these two levels get their flags.
FlagsFail ==
    /\ pc[Main] = "start"
    /\ \E a \in configured : \E b \in {a} \cup Requires[a] : Configs[b] # NoConfig
    /\ pc' = [pc EXCEPT ![Main] = "returned"]
    /\ returned' = [kind |-> "error", diags |-> {}]
    /\ UNCHANGED <<configured, factsOnly, roots, illTyped, actionState>>

\* Without roots checkPackage returns before it loads the package.
NoRoots ==
    /\ pc[Main] = "start"
    /\ RootsOf(factsOnly) = {}
    /\ pc' = [pc EXCEPT ![Main] = "returned"]
    /\ returned' = [kind |-> "no package", diags |-> {}]
    /\ UNCHANGED <<configured, factsOnly, roots, illTyped, actionState>>

\* load fails: unreadable or unparsable source, or undecodable facts.
LoadFails ==
    /\ pc[Main] = "start"
    /\ RootsOf(factsOnly) # {}
    /\ roots' = RootsOf(factsOnly)
    /\ pc' = [pc EXCEPT ![Main] = "returned"]
    /\ returned' = [kind |-> "error", diags |-> {}]
    /\ UNCHANGED <<configured, factsOnly, illTyped, actionState>>

\* load succeeds; a type error only marks the package as ill-typed.
Load ==
    /\ pc[Main] = "start"
    /\ RootsOf(factsOnly) # {}
    /\ roots' = RootsOf(factsOnly)
    /\ illTyped' \in BOOLEAN
    /\ pc' = [pc EXCEPT ![Main] = "execAll"]
    /\ UNCHANGED <<configured, factsOnly, actionState, returned>>

-----------------------------------------------------------------------------
(* execAll and sync.Once *)

Args(c) == IF c = Main THEN roots ELSE Requires[c]

\* Mutant: the counter starts one short of the number of goroutines.
execAll_AddOneShort(c) ==
    /\ pc[c] = "execAll"
    /\ wg' = [wg EXCEPT ![c] = Cardinality(Args(c)) - 1]
    /\ goroutine' = [goroutine EXCEPT ![c] =
                        [a \in Analyzer |-> IF a \in Args(c) THEN "ready" ELSE "none"]]
    /\ pc' = [pc EXCEPT ![c] = "wait"]
    /\ UNCHANGED <<configured, factsOnly, roots, illTyped, once, err, result, inputs,
                   diagnostics, facts, runs, returned>>

\* wg.Add and the loop that starts the goroutines.
execAll(c) ==
    /\ pc[c] = "execAll"
    /\ wg' = [wg EXCEPT ![c] = Cardinality(Args(c))]
    /\ goroutine' = [goroutine EXCEPT ![c] =
                        [a \in Analyzer |-> IF a \in Args(c) THEN "ready" ELSE "none"]]
    /\ pc' = [pc EXCEPT ![c] = "wait"]
    /\ UNCHANGED <<configured, factsOnly, roots, illTyped, once, err, result, inputs,
                   diagnostics, facts, runs, returned>>

\* Mutant: execAll does not wait for the last goroutine.
WaitReturns_OneEarly(c) ==
    /\ pc[c] = "wait"
    /\ wg[c] <= 1
    /\ pc' = [pc EXCEPT ![c] = IF c = Main THEN "collect" ELSE "check"]
    /\ UNCHANGED <<configured, factsOnly, roots, illTyped, actionState, returned>>

\* wg.Wait returns.
WaitReturns(c) ==
    /\ pc[c] = "wait"
    /\ wg[c] = 0
    /\ pc' = [pc EXCEPT ![c] = IF c = Main THEN "collect" ELSE "check"]
    /\ UNCHANGED <<configured, factsOnly, roots, illTyped, actionState, returned>>

\* once.Do finds the action untouched and calls execOnce.
OnceEnter(c, a) ==
    /\ goroutine[c][a] = "ready"
    /\ once[a] = "new"
    /\ once' = [once EXCEPT ![a] = "doing"]
    /\ goroutine' = [goroutine EXCEPT ![c][a] = "doing"]
    /\ pc' = [pc EXCEPT ![a] = "execAll"]
    /\ UNCHANGED <<configured, factsOnly, roots, illTyped, wg, err, result, inputs,
                   diagnostics, facts, runs, returned>>

\* Mutant: a once that only compares-and-swaps a flag lets the loser pass at once.
OncePass_Started(c, a) ==
    /\ goroutine[c][a] = "ready"
    /\ once[a] # "new"
    /\ goroutine' = [goroutine EXCEPT ![c][a] = "returning"]
    /\ UNCHANGED <<configured, factsOnly, roots, illTyped, pc, once, wg, err, result, inputs,
                   diagnostics, facts, runs, returned>>

\* once.Do finds the action done. While another goroutine is in execOnce it blocks.
OncePass(c, a) ==
    /\ goroutine[c][a] = "ready"
    /\ once[a] = "done"
    /\ goroutine' = [goroutine EXCEPT ![c][a] = "returning"]
    /\ UNCHANGED <<configured, factsOnly, roots, illTyped, pc, once, wg, err, result, inputs,
                   diagnostics, facts, runs, returned>>

\* execOnce returned to once.Do, which marks the action done.
OnceLeave(c, a) ==
    /\ goroutine[c][a] = "doing"
    /\ pc[a] = "finished"
    /\ once' = [once EXCEPT ![a] = "done"]
    /\ goroutine' = [goroutine EXCEPT ![c][a] = "returning"]
    /\ UNCHANGED <<configured, factsOnly, roots, illTyped, pc, wg, err, result, inputs,
                   diagnostics, facts, runs, returned>>

\* Mutant: wg.Done is not deferred, a panic of the analyzer jumps over it.
Done_NotDeferred(c, a) ==
    /\ goroutine[c][a] = "returning"
    /\ wg' = IF err[a] = "panic" THEN wg ELSE [wg EXCEPT ![c] = @ - 1]
    /\ goroutine' = [goroutine EXCEPT ![c][a] = "exited"]
    /\ UNCHANGED <<configured, factsOnly, roots, illTyped, pc, once, err, result, inputs,
                   diagnostics, facts, runs, returned>>

\* The deferred wg.Done of the goroutine.
Done(c, a) ==
    /\ goroutine[c][a] = "returning"
    /\ wg' = [wg EXCEPT ![c] = @ - 1]
    /\ goroutine' = [goroutine EXCEPT ![c][a] = "exited"]
    /\ UNCHANGED <<configured, factsOnly, roots, illTyped, pc, once, err, result, inputs,
                   diagnostics, facts, runs, returned>>

-----------------------------------------------------------------------------
(* execOnce after its execAll *)

\* Mutant: only a panic counts as a failed prerequisite.
FailedPrerequisites_PanicOnly(a) == {d \in Requires[a] : err[d] = "panic"}

FailedPrerequisites(a) == {d \in Requires[a] : err[d] # "none"}

\* Report an error if any dependency failed.
PrerequisitesFailed(a) ==
    /\ pc[a] = "check"
    /\ FailedPrerequisites(a) # {}
    /\ err' = [err EXCEPT ![a] = "prerequisites"]
    /\ pc' = [pc EXCEPT ![a] = "finished"]
    /\ UNCHANGED <<configured, factsOnly, roots, illTyped, goroutine, once, wg, result, inputs,
                   diagnostics, facts, runs, returned>>

\* Plumb the results of the dependencies into the inputs of this action.
Plumb(a) ==
    /\ pc[a] = "check"
    /\ FailedPrerequisites(a) = {}
    /\ inputs' = [inputs EXCEPT ![a] =
                    [d \in Analyzer |-> IF d \in Requires[a] THEN result[d] ELSE "absent"]]
    /\ pc' = [pc EXCEPT ![a] = "plumbed"]
    /\ UNCHANGED <<configured, factsOnly, roots, illTyped, goroutine, once, wg, err, result,
                   diagnostics, facts, runs, returned>>

MayRun(a) == ~illTyped \/ a \in RunDespiteErrors

\* On an ill-typed package the action is left without result and without error.
SkipRun(a) ==
    /\ pc[a] = "plumbed"
    /\ ~MayRun(a)
    /\ pc' = [pc EXCEPT ![a] = "finished"]
    /\ UNCHANGED <<configured, factsOnly, roots, illTyped, actionState, returned>>

CallRun(a) ==
    /\ pc[a] = "plumbed"
    /\ MayRun(a)
    /\ runs' = [runs EXCEPT ![a] = @ + 1]
    /\ pc' = [pc EXCEPT ![a] = "running"]
    /\ UNCHANGED <<configured, factsOnly, roots, illTyped, goroutine, once, wg, err, result, inputs,
                   diagnostics, facts, returned>>

\* Pass.Report, ignoreNolintReporter in execOnce. At most one diagnostic per place.
Report(a, d) ==
    /\ pc[a] = "running"
    /\ d \notin Nolint(a)
    /\ d \notin diagnostics[a]
    /\ diagnostics' = [diagnostics EXCEPT ![a] = @ \cup {d}]
    /\ UNCHANGED <<configured, factsOnly, roots, illTyped, pc, goroutine, once, wg, err, result, inputs,
                   facts, runs, returned>>

\* Run returns a value of the declared type; an analyzer with fact types has
\* exported its facts by then.
RunReturns(a) ==
    /\ pc[a] = "running"
    /\ result' = [result EXCEPT ![a] = "value"]
    /\ facts' = IF a \in HasFacts THEN facts \cup {a} ELSE facts
    /\ pc' = [pc EXCEPT ![a] = "finished"]
    /\ UNCHANGED <<configured, factsOnly, roots, illTyped, goroutine, once, wg, err, inputs,
                   diagnostics, runs, returned>>

\* Run returns an error, or a value whose type is not the declared ResultType
\* (act.result then keeps that value).
RunFails(a) ==
    /\ pc[a] = "running"
    /\ err' = [err EXCEPT ![a] = "failed"]
    /\ result' \in {result, [result EXCEPT ![a] = "value"]}
    /\ pc' = [pc EXCEPT ![a] = "finished"]
    /\ UNCHANGED <<configured, factsOnly, roots, illTyped, goroutine, once, wg, inputs,
                   diagnostics, facts, runs, returned>>

\* Run panics; the deferred recover turns the panic into the action's error.
RunPanics(a) ==
    /\ pc[a] = "running"
    /\ err' = [err EXCEPT ![a] = "panic"]
    /\ pc' = [pc EXCEPT ![a] = "finished"]
    /\ UNCHANGED <<configured, factsOnly, roots, illTyped, goroutine, once, wg, result, inputs,
                   diagnostics, facts, runs, returned>>

-----------------------------------------------------------------------------
(* checkAnalysisResults *)

Override(base, own) == IF own = Unset THEN base ELSE own

\* The configuration of a: fields its own entry leaves unset come from the base entry.
CurrentConfig(a) ==
    LET base == IF BaseConfig = NoConfig
                THEN [onlyFiles |-> Unset, excludeFiles |-> Unset] ELSE BaseConfig
    IN  IF Configs[a] = NoConfig THEN base
        ELSE [onlyFiles    |-> Override(base.onlyFiles, Configs[a].onlyFiles),
              excludeFiles |-> Override(base.excludeFiles, Configs[a].excludeFiles)]

\* A pattern list is modelled by the set of files it matches; len(nil) is 0.
Include(cfg, f) ==
    /\ cfg.onlyFiles \in {Unset, {}} \/ f \in cfg.onlyFiles
    /\ cfg.excludeFiles = Unset \/ f \notin cfg.excludeFiles

Skipped(a) == illTyped /\ a \notin RunDespiteErrors

\* What checkAnalysisResults reports for the root actions.
ReportedFor(R) ==
    {x \in R \X Diagnostic :
        /\ ~Skipped(x[1])
        /\ err[x[1]] = "none"
        /\ x[2] \in diagnostics[x[1]]
        /\ Include(CurrentConfig(x[1]), FileOf[x[2]])}

ResultErrors(R) == {a \in R : Skipped(a) \/ err[a] # "none"}

\* checkPackage returns the diagnostics, the package and the error of checkAnalysisResults,
\* which also is one if the working directory cannot be found.
checkAnalysisResults ==
    /\ pc[Main] = "collect"
    /\ returned' \in [kind  : IF ResultErrors(roots) = {} THEN {"ok", "error"} ELSE {"error"},
                      diags : {ReportedFor(roots)}]
    /\ pc' = [pc EXCEPT ![Main] = "returned"]
    /\ UNCHANGED <<configured, factsOnly, roots, illTyped, actionState>>

Terminated == pc[Main] = "returned" /\ UNCHANGED vars

-----------------------------------------------------------------------------

MainStep == FlagsFail \/ NoRoots \/ LoadFails \/ Load \/ execAll(Main) \/ WaitReturns(Main)
                \/ checkAnalysisResults

ExecStep(a) ==
    \/ execAll(a) \/ WaitReturns(a)
    \/ PrerequisitesFailed(a) \/ Plumb(a) \/ SkipRun(a) \/ CallRun(a)
    \/ RunReturns(a) \/ RunFails(a) \/ RunPanics(a)

GoStep(c, a) == OnceEnter(c, a) \/ OncePass(c, a) \/ OnceLeave(c, a) \/ Done(c, a)

Next ==
    \/ MainStep
    \/ \E a \in Analyzer : ExecStep(a)
    \/ \E a \in Analyzer, d \in Diagnostic : Report(a, d)
    \/ \E c \in Callers, a \in Analyzer : GoStep(c, a)
    \/ Terminated

Spec == Init /\ [][Next]_vars

\* The Go scheduler runs every runnable goroutine, and Run terminates.
FairSpec ==
    /\ Spec
    /\ WF_vars(MainStep)
    /\ \A a \in Analyzer : WF_vars(ExecStep(a))
    /\ \A c \in Callers, a \in Analyzer : WF_vars(GoStep(c, a))
-----------------------------------------------------------------------------
(* Properties *)

\* Every variable of the scheduler stays in the range its Go type and the code allow.
TypeOK ==
    /\ configured \in SUBSET Analyzer
    /\ factsOnly \in BOOLEAN
    /\ roots \in SUBSET Analyzer
    /\ illTyped \in BOOLEAN
    /\ pc \in [Callers -> {"start", "idle", "execAll", "wait", "check", "plumbed",
                           "running", "finished", "collect", "returned"}]
    /\ goroutine \in [Callers -> [Analyzer -> {"none", "ready", "doing", "returning", "exited"}]]
    /\ once \in [Analyzer -> {"new", "doing", "done"}]
    /\ wg \in [Callers -> Nat]
    /\ err \in [Analyzer -> {"none", "prerequisites", "failed", "panic"}]
    /\ result \in [Analyzer -> {"nil", "value"}]
    /\ inputs \in [Analyzer -> [Analyzer -> {"absent", "nil", "value"}]]
    /\ diagnostics \in [Analyzer -> SUBSET Diagnostic]
    /\ facts \in SUBSET Analyzer
    /\ runs \in [Analyzer -> Nat]
    /\ returned \in [kind : {"none", "no package", "error", "ok"},
                    diags : SUBSET (Analyzer \X Diagnostic)]

\* However many actions require it and however their goroutines interleave, an
\* analyzer is run at most once per package (exec, sync.Once).
RunAtMostOnce == \A a \in Analyzer : runs[a] <= 1

\* When Analyzer.Run is called, every required analyzer has finished without an
\* error and the ResultOf map holds the results they finished with (execOnce).
InputsAreFinal ==
    \A a \in Analyzer : runs[a] > 0 =>
        \A d \in Requires[a] :
            pc[d] = "finished" /\ err[d] = "none" /\ inputs[a][d] = result[d]

\* checkPackage only returns without an error if no analyzer among the transitive
\* prerequisites of the roots failed, and each was run unless the package is ill-typed.
ErrorsReachCaller ==
    returned.kind = "ok" =>
        \A a \in Visited(roots) :
            /\ err[a] = "none"
            /\ runs[a] = 1 \/ (illTyped /\ a \notin RunDespiteErrors)

\* Running only the fact producers loses no facts: after a run without an error
\* pkg.facts has the facts of every analyzer that declares some, in both modes.
\* (With errors in the package a full run may have skipped a required analyzer.)
FactsComplete ==
    returned.kind = "ok" /\ (factsOnly \/ ~illTyped) =>
        HasFacts \cap Visited(configured) \subseteq facts

\* Once execAll(roots) has returned no goroutine it started, directly or not, is
\* alive: nothing races with checkAnalysisResults and with facts.Encode.
Quiescent ==
    pc[Main] \in {"collect", "returned"} =>
        \A c \in Callers, a \in Analyzer : goroutine[c][a] \in {"none", "exited"}

\* What an action has published through its once is never written again.
DoneActionsFrozen ==
    [][\A a \in Analyzer : once[a] = "done" =>
          /\ once'[a] = "done"
          /\ err'[a] = err[a]
          /\ result'[a] = result[a]
          /\ diagnostics'[a] = diagnostics[a]]_vars

\* checkPackage returns: no set of actions waits on each other, a panicking or
\* failing analyzer leaves nobody waiting.
Terminates == <>(pc[Main] = "returned")

-----------------------------------------------------------------------------
(* The abstract specification: every analyzer is decided in one step. *)

Status(a) ==
    IF pc[a] # "finished" THEN "pending"
    ELSE IF err[a] # "none" THEN "failed"
    ELSE IF result[a] = "nil" THEN "skipped"
    ELSE "done"

Abstract == INSTANCE NogoAnalysis WITH
    status  <- [a \in Analyzer |-> Status(a)],
    outcome <- returned.kind,
    pending <- IF returned.kind = "none" THEN roots ELSE {}

\* The concurrent scheduler decides the analyzers like a sequential one that takes
\* them one by one in dependency order.
ImplementsAnalysis == Abstract!Spec
=============================================================================
