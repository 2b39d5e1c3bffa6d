--------------------------- MODULE NogoExecProofs ---------------------------
(***************************************************************************)
(* Safety of nogo's analysis scheduler, for every finite DAG of analyzers: *)
(* the inductive invariant IndInv, and from it the invariants and the      *)
(* action property that TLC checks on MCNogoExec.                          *)
(***************************************************************************)
EXTENDS NogoExec, FiniteSetTheorems, TLAPS

\* Before the package is loaded no action was touched.
StartInv ==
    /\ pc[Main] \in {"start", "execAll", "wait", "collect", "returned"}
    /\ \A a \in Analyzer : pc[a] \in {"idle", "execAll", "wait", "check", "plumbed",
                                      "running", "finished"}
    /\ pc[Main] = "start" => \A a \in Analyzer : once[a] = "new"

\* The once of an action and the position of its execOnce agree, and exactly one
\* goroutine is inside the execOnce of an action whose once is held.
OnceInv ==
    \A a \in Analyzer :
        /\ once[a] = "new" <=> pc[a] = "idle"
        /\ once[a] = "done" => pc[a] = "finished"
        /\ once[a] = "doing" => \E c \in Callers : goroutine[c][a] = "doing"
        /\ \A c \in Callers :
              /\ goroutine[c][a] = "doing" => once[a] = "doing"
              /\ goroutine[c][a] \in {"returning", "exited"} => once[a] = "done"
              /\ \A e \in Callers :
                    goroutine[c][a] = "doing" /\ goroutine[e][a] = "doing" => c = e

Alive(c) == {a \in Args(c) : goroutine[c][a] # "exited"}

\* An execAll call only has goroutines for its arguments, its WaitGroup counts the
\* ones alive, and none is alive after it returned.
WaitInvOf(c) ==
    /\ pc[c] \in {"start", "idle", "execAll"} =>
          \A a \in Analyzer : goroutine[c][a] = "none"
    /\ \A a \in Analyzer : goroutine[c][a] # "none" => a \in Args(c)
    /\ pc[c] = "wait" => wg[c] = Cardinality(Alive(c))
    /\ pc[c] \in {"check", "plumbed", "running", "finished", "collect"} => Alive(c) = {}
    /\ pc[c] = "returned" =>
          \A a \in Analyzer : goroutine[c][a] \in {"none", "exited"}

WaitInv == \A c \in Callers : WaitInvOf(c)

\* What an action knows of the actions it requires, and what it leaves behind.
ResultInvOf(a) ==
    /\ pc[a] \notin {"running", "finished"} => runs[a] = 0
    /\ pc[a] = "running" => runs[a] = 1
    /\ pc[a] # "finished" => err[a] = "none" /\ result[a] = "nil"
    /\ pc[a] \in {"plumbed", "running"} \/ runs[a] = 1 =>
          \A d \in Requires[a] : err[d] = "none" /\ inputs[a][d] = result[d]
    /\ runs[a] \in {0, 1} /\ (runs[a] = 1 => ~Skipped(a))
    /\ pc[a] = "finished" /\ err[a] = "none" =>
          /\ \A d \in Requires[a] : err[d] = "none"
          /\ \/ runs[a] = 1 /\ result[a] = "value"
             \/ runs[a] = 0 /\ result[a] = "nil" /\ Skipped(a)
    /\ pc[a] = "finished" /\ err[a] = "none" /\ runs[a] = 1 /\ a \in HasFacts => a \in facts

ResultInv == \A a \in Analyzer : ResultInvOf(a)

\* checkPackage returns without an error only when all roots are done.
ReturnInv ==
    /\ returned.kind # "none" => pc[Main] = "returned"
    /\ returned.kind = "ok" =>
          /\ roots = RootsOf(factsOnly)
          /\ \A a \in roots : once[a] = "done" /\ err[a] = "none" /\ ~Skipped(a)
    /\ pc[Main] \in {"execAll", "wait", "collect"} => roots = RootsOf(factsOnly) /\ roots # {}
    /\ pc[Main] = "start" => roots = {}

IndInv == TypeOK /\ StartInv /\ OnceInv /\ WaitInv /\ ResultInv /\ ReturnInv
-----------------------------------------------------------------------------
(* The steps of one action of the scheduler, and of any of them. *)

LEMMA InitIndInv == Init => IndInv
  <1> SUFFICES ASSUME Init PROVE IndInv
    OBVIOUS
  <1> USE AnalyzerAssumption DEF Init, Callers
  <1>1. TypeOK
    BY DEF TypeOK
  <1>2. StartInv
    BY DEF StartInv
  <1>3. OnceInv
    BY DEF OnceInv
  <1>4. WaitInv
    BY DEF WaitInv, WaitInvOf, Alive, Args
  <1>5. ResultInv
    BY DEF ResultInv, ResultInvOf, Skipped
  <1>6. ReturnInv
    BY DEF ReturnInv
  <1> QED
    BY <1>1, <1>2, <1>3, <1>4, <1>5, <1>6 DEF IndInv

\* Args is a finite set of analyzers in every state of the right type.
LEMMA ArgsFinite ==
  ASSUME TypeOK, NEW c \in Callers
  PROVE  Args(c) \subseteq Analyzer /\ IsFiniteSet(Args(c)) /\ Cardinality(Args(c)) \in Nat
  <1>1. Args(c) \subseteq Analyzer
    BY AnalyzerAssumption DEF Args, TypeOK, Callers
  <1>2. IsFiniteSet(Args(c))
    BY <1>1, AnalyzerAssumption, FS_Subset
  <1> QED
    BY <1>1, <1>2, FS_CardinalityType

\* The caller of a goroutine that is not at its end is in wg.Wait.
LEMMA ActiveWaits ==
  ASSUME IndInv, NEW c \in Callers, NEW a \in Analyzer,
         goroutine[c][a] \notin {"none", "exited"}
  PROVE  a \in Args(c) /\ pc[c] = "wait"
  <1>1. WaitInvOf(c)
    BY DEF IndInv, WaitInv
  <1>2. pc[c] \in {"start", "idle", "execAll", "wait", "check", "plumbed",
                  "running", "finished", "collect", "returned"}
    BY DEF IndInv, TypeOK
  <1>3. a \in Args(c)
    BY <1>1 DEF WaitInvOf
  <1>4. Alive(c) # {}
    BY <1>3 DEF Alive
  <1> QED
    BY <1>1, <1>2, <1>3, <1>4 DEF WaitInvOf

\* A WaitGroup is only decremented while it is positive.
LEMMA DonePositive ==
  ASSUME IndInv, NEW c \in Callers, NEW a \in Analyzer, goroutine[c][a] = "returning"
  PROVE  /\ pc[c] = "wait" /\ a \in Alive(c)
         /\ IsFiniteSet(Alive(c)) /\ Cardinality(Alive(c)) \in Nat
         /\ Cardinality(Alive(c) \ {a}) = Cardinality(Alive(c)) - 1
         /\ Cardinality(Alive(c) \ {a}) \in Nat
         /\ wg[c] = Cardinality(Alive(c))
  <1>1. pc[c] = "wait" /\ a \in Alive(c)
    BY ActiveWaits DEF Alive
  <1>2. IsFiniteSet(Alive(c)) /\ IsFiniteSet(Alive(c) \ {a})
    BY ArgsFinite, FS_Subset DEF IndInv, Alive
  <1>3. Cardinality(Alive(c)) \in Nat /\ Cardinality(Alive(c) \ {a}) \in Nat
    BY <1>2, FS_CardinalityType
  <1>4. Cardinality(Alive(c) \ {a}) = Cardinality(Alive(c)) - 1
    BY <1>1, <1>2, FS_RemoveElement
  <1>5. wg[c] = Cardinality(Alive(c))
    BY <1>1 DEF IndInv, WaitInv, WaitInvOf
  <1> QED
    BY <1>1, <1>2, <1>3, <1>4, <1>5

LEMMA NextTypeOK == IndInv /\ [Next]_vars => TypeOK'
  <1> SUFFICES ASSUME IndInv, [Next]_vars PROVE TypeOK'
    OBVIOUS
  <1>t. TypeOK
    BY DEF IndInv
  <1>c. configured \subseteq Analyzer
    BY <1>t DEF TypeOK
  <1> USE <1>t, <1>c
  <1>1. CASE NoRoots
    BY <1>1 DEF NoRoots, TypeOK, actionState
  <1>2. CASE LoadFails \/ FlagsFail
    <2>1. CASE LoadFails
      BY <2>1 DEF LoadFails, TypeOK, actionState, RootsOf, factProducers, Visited
    <2>2. CASE FlagsFail
      BY <2>2 DEF FlagsFail, TypeOK, actionState
    <2> QED
      BY <1>2, <2>1, <2>2
  <1>3. CASE Load
    BY <1>3 DEF Load, TypeOK, actionState, RootsOf, factProducers, Visited
  <1>4. CASE checkAnalysisResults
    <2>1. ReportedFor(roots) \in SUBSET (Analyzer \X Diagnostic)
      BY DEF ReportedFor, TypeOK
    <2>2. returned' \in [kind : {"none", "no package", "error", "ok"},
                         diags : SUBSET (Analyzer \X Diagnostic)]
      BY <1>4, <2>1 DEF checkAnalysisResults
    <2> QED
      BY <1>4, <2>2 DEF checkAnalysisResults, TypeOK, actionState
  <1>5. ASSUME NEW c \in Callers, execAll(c)
        PROVE  TypeOK'
    BY <1>5, ArgsFinite DEF execAll, TypeOK
  <1>6. ASSUME NEW c \in Callers, WaitReturns(c)
        PROVE  TypeOK'
    BY <1>6 DEF WaitReturns, TypeOK, actionState
  <1>7. ASSUME NEW c \in Callers, NEW a \in Analyzer, OnceEnter(c, a)
        PROVE  TypeOK'
    BY <1>7 DEF OnceEnter, TypeOK, Callers
  <1>8. ASSUME NEW c \in Callers, NEW a \in Analyzer, OncePass(c, a) \/ OnceLeave(c, a)
        PROVE  TypeOK'
    <2>2. CASE OncePass(c, a)
      BY <2>2 DEF OncePass, TypeOK
    <2>3. CASE OnceLeave(c, a)
      BY <2>3 DEF OnceLeave, TypeOK
    <2> QED
      BY <1>8, <2>2, <2>3
  <1>9. ASSUME NEW c \in Callers, NEW a \in Analyzer, Done(c, a)
        PROVE  TypeOK'
    <2>0. goroutine[c][a] = "returning"
      BY <1>9 DEF Done
    <2>1. wg[c] - 1 \in Nat
      BY <2>0, DonePositive
    <2> QED
      BY <1>9, <2>1 DEF Done, TypeOK
  <1>10. ASSUME NEW a \in Analyzer, PrerequisitesFailed(a) \/ RunFails(a) \/ RunPanics(a)
         PROVE  TypeOK'
    <2>1. CASE PrerequisitesFailed(a)
      BY <2>1 DEF PrerequisitesFailed, TypeOK, Callers
    <2>2. CASE RunFails(a)
      BY <2>2 DEF RunFails, TypeOK, Callers
    <2>3. CASE RunPanics(a)
      BY <2>3 DEF RunPanics, TypeOK, Callers
    <2> QED
      BY <1>10, <2>1, <2>2, <2>3
  <1>11. ASSUME NEW a \in Analyzer, Plumb(a)
         PROVE  TypeOK'
    BY <1>11 DEF Plumb, TypeOK, Callers
  <1>12. ASSUME NEW a \in Analyzer, SkipRun(a) \/ CallRun(a)
         PROVE  TypeOK'
    <2>1. CASE SkipRun(a)
      BY <2>1 DEF SkipRun, TypeOK, Callers, actionState
    <2>2. CASE CallRun(a)
      <3>0. runs \in [Analyzer -> Nat] /\ runs' = [runs EXCEPT ![a] = runs[a] + 1]
        BY <2>2 DEF CallRun, TypeOK
      <3>1. runs' \in [Analyzer -> Nat]
        BY <3>0
      <3> QED
        BY <2>2, <3>1 DEF CallRun, TypeOK, Callers
    <2> QED
      BY <1>12, <2>1, <2>2
  <1>13. ASSUME NEW a \in Analyzer, RunReturns(a)
         PROVE  TypeOK'
    BY <1>13 DEF RunReturns, TypeOK, Callers
  <1>14. ASSUME NEW a \in Analyzer, NEW d \in Diagnostic, Report(a, d)
         PROVE  TypeOK'
    BY <1>14 DEF Report, TypeOK
  <1>15. CASE UNCHANGED vars
    BY <1>15 DEF vars, TypeOK
  <1> QED
    BY <1>1, <1>2, <1>3, <1>4, <1>5, <1>6, <1>7, <1>8, <1>9, <1>10, <1>11, <1>12, <1>13,
       <1>14, <1>15 DEF Next, MainStep, ExecStep, GoStep, Terminated, Callers

\* Only execAll(roots) of checkPackage touches the first action.
LEMMA NextStartInv == IndInv /\ [Next]_vars => StartInv'
  <1> SUFFICES ASSUME IndInv, [Next]_vars PROVE StartInv'
    OBVIOUS
  <1>t. TypeOK /\ StartInv /\ OnceInv /\ WaitInv
    BY DEF IndInv
  <1>m. Main \notin Analyzer
    BY AnalyzerAssumption
  <1> USE <1>t, <1>m
  <1>1. CASE NoRoots
    BY <1>1 DEF NoRoots, actionState, StartInv, TypeOK, Callers
  <1>2. CASE LoadFails \/ FlagsFail
    BY <1>2 DEF LoadFails, FlagsFail, actionState, StartInv, TypeOK, Callers
  <1>3. CASE Load
    BY <1>3 DEF Load, actionState, StartInv, TypeOK, Callers
  <1>4. CASE checkAnalysisResults
    BY <1>4 DEF checkAnalysisResults, actionState, StartInv, TypeOK, Callers
  <1>5. ASSUME NEW c \in Callers, execAll(c)
        PROVE  StartInv'
    BY <1>5 DEF execAll, StartInv, TypeOK, Callers
  <1>6. ASSUME NEW c \in Callers, WaitReturns(c)
        PROVE  StartInv'
    <2>1. CASE c = Main
      BY <1>6, <2>1 DEF WaitReturns, actionState, StartInv, TypeOK, Callers
    <2>2. CASE c \in Analyzer
      BY <1>6, <2>2 DEF WaitReturns, actionState, StartInv, TypeOK, Callers
    <2> QED
      BY <2>1, <2>2 DEF Callers
  <1>7. ASSUME NEW c \in Callers, NEW a \in Analyzer, OnceEnter(c, a)
        PROVE  StartInv'
    <2>1. pc[Main] # "start"
      <3> SUFFICES ASSUME pc[Main] = "start" PROVE goroutine[c][a] = "none"
        BY <1>7 DEF OnceEnter
      <3>1. pc[c] \in {"start", "idle"}
        BY DEF StartInv, OnceInv, Callers
      <3> QED
        BY <3>1 DEF WaitInv, WaitInvOf
    <2> QED
      BY <1>7, <2>1 DEF OnceEnter, StartInv, TypeOK, Callers
  <1>8. ASSUME NEW c \in Callers, NEW a \in Analyzer, OncePass(c, a)
        PROVE  StartInv'
    BY <1>8 DEF OncePass, StartInv, TypeOK, Callers
  <1>9. ASSUME NEW c \in Callers, NEW a \in Analyzer, OnceLeave(c, a)
        PROVE  StartInv'
    BY <1>9 DEF OnceLeave, StartInv, TypeOK, Callers, OnceInv
  <1>10. ASSUME NEW c \in Callers, NEW a \in Analyzer, Done(c, a)
        PROVE  StartInv'
    BY <1>10 DEF Done, StartInv, TypeOK, Callers
  <1>11. ASSUME NEW a \in Analyzer, PrerequisitesFailed(a)
        PROVE  StartInv'
    BY <1>11 DEF PrerequisitesFailed, StartInv, TypeOK, Callers
  <1>12. ASSUME NEW a \in Analyzer, Plumb(a)
        PROVE  StartInv'
    BY <1>12 DEF Plumb, StartInv, TypeOK, Callers
  <1>13. ASSUME NEW a \in Analyzer, SkipRun(a)
        PROVE  StartInv'
    BY <1>13 DEF SkipRun, actionState, StartInv, TypeOK, Callers
  <1>14. ASSUME NEW a \in Analyzer, CallRun(a)
        PROVE  StartInv'
    BY <1>14 DEF CallRun, StartInv, TypeOK, Callers
  <1>15. ASSUME NEW a \in Analyzer, RunReturns(a)
        PROVE  StartInv'
    BY <1>15 DEF RunReturns, StartInv, TypeOK, Callers
  <1>16. ASSUME NEW a \in Analyzer, RunFails(a)
        PROVE  StartInv'
    BY <1>16 DEF RunFails, StartInv, TypeOK, Callers
  <1>17. ASSUME NEW a \in Analyzer, RunPanics(a)
        PROVE  StartInv'
    BY <1>17 DEF RunPanics, StartInv, TypeOK, Callers
  <1>18. ASSUME NEW a \in Analyzer, NEW d \in Diagnostic, Report(a, d)
        PROVE  StartInv'
    BY <1>18 DEF Report, StartInv, TypeOK, Callers
  <1>19. CASE UNCHANGED vars
    BY <1>19 DEF vars, StartInv
  <1> QED
    BY <1>1, <1>2, <1>3, <1>4, <1>5, <1>6, <1>7, <1>8, <1>9, <1>10,
       <1>11, <1>12, <1>13, <1>14, <1>15, <1>16, <1>17, <1>18, <1>19
       DEF Next, MainStep, ExecStep, GoStep, Terminated, Callers

\* The once protocol: who enters, who passes, who leaves.
LEMMA NextOnceInv == IndInv /\ [Next]_vars => OnceInv'
  <1> SUFFICES ASSUME IndInv, [Next]_vars PROVE OnceInv'
    OBVIOUS
  <1>t. TypeOK /\ StartInv /\ OnceInv /\ WaitInv
    BY DEF IndInv
  <1>m. Main \notin Analyzer
    BY AnalyzerAssumption
  <1> USE <1>t, <1>m
  <1>1. CASE NoRoots
    <2>1. /\ goroutine' = goroutine /\ once' = once
          /\ \A b \in Analyzer : pc'[b] = pc[b]
      BY <1>1 DEF NoRoots, actionState, TypeOK, Callers
    <2> QED
      BY <2>1 DEF OnceInv
  <1>2. CASE LoadFails \/ FlagsFail
    <2>1. /\ goroutine' = goroutine /\ once' = once
          /\ \A b \in Analyzer : pc'[b] = pc[b]
      BY <1>2 DEF LoadFails, FlagsFail, actionState, TypeOK, Callers
    <2> QED
      BY <2>1 DEF OnceInv
  <1>3. CASE Load
    <2>1. /\ goroutine' = goroutine /\ once' = once
          /\ \A b \in Analyzer : pc'[b] = pc[b]
      BY <1>3 DEF Load, actionState, TypeOK, Callers
    <2> QED
      BY <2>1 DEF OnceInv
  <1>4. CASE checkAnalysisResults
    <2>1. /\ goroutine' = goroutine /\ once' = once
          /\ \A b \in Analyzer : pc'[b] = pc[b]
      BY <1>4 DEF checkAnalysisResults, actionState, TypeOK, Callers
    <2> QED
      BY <2>1 DEF OnceInv
  <1>5. ASSUME NEW c \in Callers, execAll(c)
        PROVE  OnceInv'
    <2>1. \A b \in Analyzer : goroutine[c][b] = "none"
      BY <1>5 DEF execAll, WaitInv, WaitInvOf
    <2>2. /\ \A b \in Analyzer : goroutine'[c][b] \in {"ready", "none"}
          /\ \A e \in Callers : e # c => goroutine'[e] = goroutine[e]
          /\ once' = once
          /\ \A b \in Analyzer : pc'[b] = pc[b] \/ (pc[b] = "execAll" /\ pc'[b] = "wait")
      BY <1>5 DEF execAll, TypeOK, Callers
    <2> QED
      BY <2>1, <2>2 DEF OnceInv
  <1>6. ASSUME NEW c \in Callers, WaitReturns(c)
        PROVE  OnceInv'
    <2>1. /\ goroutine' = goroutine /\ once' = once
          /\ \A b \in Analyzer : pc'[b] = pc[b] \/ (pc[b] \notin {"idle", "finished"} /\ pc'[b] # "idle")
      BY <1>6 DEF WaitReturns, actionState, TypeOK, Callers
    <2> QED
      BY <2>1 DEF OnceInv
  <1>7. ASSUME NEW c \in Callers, NEW a \in Analyzer, OnceEnter(c, a)
        PROVE  OnceInv'
    <2>1. /\ once[a] = "new"
          /\ goroutine'[c][a] = "doing"
          /\ \A e \in Callers, b \in Analyzer :
                e # c \/ b # a => goroutine'[e][b] = goroutine[e][b]
          /\ once'[a] = "doing" /\ pc'[a] = "execAll"
          /\ \A b \in Analyzer : b # a => once'[b] = once[b] /\ pc'[b] = pc[b]
      BY <1>7 DEF OnceEnter, TypeOK, Callers
    <2> QED
      BY <2>1 DEF OnceInv
  <1>8. ASSUME NEW c \in Callers, NEW a \in Analyzer, OncePass(c, a)
        PROVE  OnceInv'
    <2>1. /\ once[a] = "done"
          /\ goroutine'[c][a] = "returning"
          /\ \A e \in Callers, b \in Analyzer :
                e # c \/ b # a => goroutine'[e][b] = goroutine[e][b]
          /\ once'[a] = once[a] /\ pc'[a] = pc[a]
          /\ \A b \in Analyzer : b # a => once'[b] = once[b] /\ pc'[b] = pc[b]
      BY <1>8 DEF OncePass, TypeOK, Callers
    <2> QED
      BY <2>1 DEF OnceInv
  <1>9. ASSUME NEW c \in Callers, NEW a \in Analyzer, OnceLeave(c, a)
        PROVE  OnceInv'
    <2>1. /\ goroutine[c][a] = "doing" /\ pc[a] = "finished"
          /\ goroutine'[c][a] = "returning"
          /\ \A e \in Callers, b \in Analyzer :
                e # c \/ b # a => goroutine'[e][b] = goroutine[e][b]
          /\ once'[a] = "done" /\ pc'[a] = pc[a]
          /\ \A b \in Analyzer : b # a => once'[b] = once[b] /\ pc'[b] = pc[b]
      BY <1>9 DEF OnceLeave, TypeOK, Callers
    <2> QED
      BY <2>1 DEF OnceInv
  <1>10. ASSUME NEW c \in Callers, NEW a \in Analyzer, Done(c, a)
        PROVE  OnceInv'
    <2>1. /\ goroutine[c][a] = "returning"
          /\ goroutine'[c][a] = "exited"
          /\ \A e \in Callers, b \in Analyzer :
                e # c \/ b # a => goroutine'[e][b] = goroutine[e][b]
          /\ once'[a] = once[a] /\ pc'[a] = pc[a]
          /\ \A b \in Analyzer : b # a => once'[b] = once[b] /\ pc'[b] = pc[b]
      BY <1>10 DEF Done, TypeOK, Callers
    <2> QED
      BY <2>1 DEF OnceInv
  <1>11. ASSUME NEW a \in Analyzer, PrerequisitesFailed(a)
        PROVE  OnceInv'
    <2>1. /\ goroutine' = goroutine /\ once' = once
          /\ \A b \in Analyzer : pc'[b] = pc[b] \/ (pc[b] \notin {"idle", "finished"} /\ pc'[b] # "idle")
      BY <1>11 DEF PrerequisitesFailed, actionState, TypeOK, Callers
    <2> QED
      BY <2>1 DEF OnceInv
  <1>12. ASSUME NEW a \in Analyzer, Plumb(a)
        PROVE  OnceInv'
    <2>1. /\ goroutine' = goroutine /\ once' = once
          /\ \A b \in Analyzer : pc'[b] = pc[b] \/ (pc[b] \notin {"idle", "finished"} /\ pc'[b] # "idle")
      BY <1>12 DEF Plumb, actionState, TypeOK, Callers
    <2> QED
      BY <2>1 DEF OnceInv
  <1>13. ASSUME NEW a \in Analyzer, SkipRun(a)
        PROVE  OnceInv'
    <2>1. /\ goroutine' = goroutine /\ once' = once
          /\ \A b \in Analyzer : pc'[b] = pc[b] \/ (pc[b] \notin {"idle", "finished"} /\ pc'[b] # "idle")
      BY <1>13 DEF SkipRun, actionState, TypeOK, Callers
    <2> QED
      BY <2>1 DEF OnceInv
  <1>14. ASSUME NEW a \in Analyzer, CallRun(a)
        PROVE  OnceInv'
    <2>1. /\ goroutine' = goroutine /\ once' = once
          /\ \A b \in Analyzer : pc'[b] = pc[b] \/ (pc[b] \notin {"idle", "finished"} /\ pc'[b] # "idle")
      BY <1>14 DEF CallRun, actionState, TypeOK, Callers
    <2> QED
      BY <2>1 DEF OnceInv
  <1>15. ASSUME NEW a \in Analyzer, RunReturns(a)
        PROVE  OnceInv'
    <2>1. /\ goroutine' = goroutine /\ once' = once
          /\ \A b \in Analyzer : pc'[b] = pc[b] \/ (pc[b] \notin {"idle", "finished"} /\ pc'[b] # "idle")
      BY <1>15 DEF RunReturns, actionState, TypeOK, Callers
    <2> QED
      BY <2>1 DEF OnceInv
  <1>16. ASSUME NEW a \in Analyzer, RunFails(a)
        PROVE  OnceInv'
    <2>1. /\ goroutine' = goroutine /\ once' = once
          /\ \A b \in Analyzer : pc'[b] = pc[b] \/ (pc[b] \notin {"idle", "finished"} /\ pc'[b] # "idle")
      BY <1>16 DEF RunFails, actionState, TypeOK, Callers
    <2> QED
      BY <2>1 DEF OnceInv
  <1>17. ASSUME NEW a \in Analyzer, RunPanics(a)
        PROVE  OnceInv'
    <2>1. /\ goroutine' = goroutine /\ once' = once
          /\ \A b \in Analyzer : pc'[b] = pc[b] \/ (pc[b] \notin {"idle", "finished"} /\ pc'[b] # "idle")
      BY <1>17 DEF RunPanics, actionState, TypeOK, Callers
    <2> QED
      BY <2>1 DEF OnceInv
  <1>18. ASSUME NEW a \in Analyzer, NEW d \in Diagnostic, Report(a, d)
        PROVE  OnceInv'
    BY <1>18 DEF Report, OnceInv
  <1>19. CASE UNCHANGED vars
    BY <1>19 DEF vars, OnceInv
  <1> QED
    BY <1>1, <1>2, <1>3, <1>4, <1>5, <1>6, <1>7, <1>8, <1>9, <1>10,
       <1>11, <1>12, <1>13, <1>14, <1>15, <1>16, <1>17, <1>18, <1>19
       DEF Next, MainStep, ExecStep, GoStep, Terminated, Callers

\* Steps inside execOnce do not disturb the WaitGroups.
LEMMA WaitFrame ==
  ASSUME WaitInv, goroutine' = goroutine, wg' = wg, roots' = roots,
         \A e \in Callers : pc'[e] = pc[e] \/ (/\ pc[e] \in {"check", "plumbed", "running"}
                                            /\ pc'[e] \in {"plumbed", "running", "finished"})
  PROVE  WaitInv'
  <1>1. ASSUME NEW e \in Callers PROVE Args(e)' = Args(e) /\ Alive(e)' = Alive(e)
    BY DEF Args, Alive
  <1>2. ASSUME NEW e \in Callers PROVE WaitInvOf(e)'
    BY <1>1 DEF WaitInv, WaitInvOf
  <1> QED
    BY <1>2 DEF WaitInv

\* The WaitGroups: each counts the goroutines of its execAll call that are alive.
LEMMA NextWaitInv == IndInv /\ [Next]_vars => WaitInv'
  <1> SUFFICES ASSUME IndInv, [Next]_vars PROVE WaitInv'
    OBVIOUS
  <1>t. TypeOK /\ StartInv /\ OnceInv /\ WaitInv
    BY DEF IndInv
  <1>m. Main \notin Analyzer
    BY AnalyzerAssumption
  <1> USE <1>t, <1>m
  <1>1. CASE NoRoots
    <2>1. /\ goroutine' = goroutine /\ wg' = wg
          /\ \A e \in Analyzer : pc'[e] = pc[e]
          /\ pc[Main] = "start" /\ pc'[Main] \in {"execAll", "returned"}
      BY <1>1 DEF NoRoots, actionState, TypeOK, Callers
    <2>2. ASSUME NEW e \in Analyzer PROVE WaitInvOf(e)'
      <3>1. Args(e)' = Args(e) /\ Alive(e)' = Alive(e)
        BY <2>1 DEF Args, Alive
      <3> QED
        BY <2>1, <3>1 DEF WaitInv, WaitInvOf, Callers
    <2>3. WaitInvOf(Main)'
      BY <2>1 DEF WaitInv, WaitInvOf, Callers
    <2> QED
      BY <2>2, <2>3 DEF WaitInv, Callers
  <1>2. CASE LoadFails \/ FlagsFail
    <2>1. /\ goroutine' = goroutine /\ wg' = wg
          /\ \A e \in Analyzer : pc'[e] = pc[e]
          /\ pc[Main] = "start" /\ pc'[Main] \in {"execAll", "returned"}
      BY <1>2 DEF LoadFails, FlagsFail, actionState, TypeOK, Callers
    <2>2. ASSUME NEW e \in Analyzer PROVE WaitInvOf(e)'
      <3>1. Args(e)' = Args(e) /\ Alive(e)' = Alive(e)
        BY <2>1 DEF Args, Alive
      <3> QED
        BY <2>1, <3>1 DEF WaitInv, WaitInvOf, Callers
    <2>3. WaitInvOf(Main)'
      BY <2>1 DEF WaitInv, WaitInvOf, Callers
    <2> QED
      BY <2>2, <2>3 DEF WaitInv, Callers
  <1>3. CASE Load
    <2>1. /\ goroutine' = goroutine /\ wg' = wg
          /\ \A e \in Analyzer : pc'[e] = pc[e]
          /\ pc[Main] = "start" /\ pc'[Main] \in {"execAll", "returned"}
      BY <1>3 DEF Load, actionState, TypeOK, Callers
    <2>2. ASSUME NEW e \in Analyzer PROVE WaitInvOf(e)'
      <3>1. Args(e)' = Args(e) /\ Alive(e)' = Alive(e)
        BY <2>1 DEF Args, Alive
      <3> QED
        BY <2>1, <3>1 DEF WaitInv, WaitInvOf, Callers
    <2>3. WaitInvOf(Main)'
      BY <2>1 DEF WaitInv, WaitInvOf, Callers
    <2> QED
      BY <2>2, <2>3 DEF WaitInv, Callers
  <1>4. CASE checkAnalysisResults
    <2>1. /\ goroutine' = goroutine /\ wg' = wg /\ roots' = roots
          /\ \A e \in Analyzer : pc'[e] = pc[e]
          /\ pc[Main] = "collect" /\ pc'[Main] = "returned"
      BY <1>4 DEF checkAnalysisResults, actionState, TypeOK, Callers
    <2>2. ASSUME NEW e \in Callers PROVE Args(e)' = Args(e) /\ Alive(e)' = Alive(e)
      BY <2>1 DEF Args, Alive
    <2>3. ASSUME NEW e \in Analyzer PROVE WaitInvOf(e)'
      BY <2>1, <2>2 DEF WaitInv, WaitInvOf, Callers
    <2>4. WaitInvOf(Main)'
      <3>1. \A b \in Analyzer : goroutine[Main][b] \in {"none", "exited"}
        BY <2>1 DEF WaitInv, WaitInvOf, Alive, Callers
      <3> QED
        BY <2>1, <2>2, <3>1 DEF WaitInv, WaitInvOf, Callers
    <2> QED
      BY <2>3, <2>4 DEF WaitInv, Callers
  <1>5. ASSUME NEW c \in Callers, execAll(c)
        PROVE  WaitInv'
    <2>1. /\ \A b \in Analyzer : goroutine'[c][b] = IF b \in Args(c) THEN "ready" ELSE "none"
          /\ \A e \in Callers : e # c => goroutine'[e] = goroutine[e] /\ pc'[e] = pc[e] /\ wg'[e] = wg[e]
          /\ wg'[c] = Cardinality(Args(c)) /\ roots' = roots /\ pc'[c] = "wait"
      BY <1>5 DEF execAll, TypeOK
    <2>2. \A e \in Callers : Args(e)' = Args(e)
      BY <2>1 DEF Args
    <2>3. ASSUME NEW e \in Callers, e # c PROVE WaitInvOf(e)'
      <3>1. Alive(e)' = Alive(e)
        BY <2>1, <2>2, <2>3 DEF Alive
      <3> QED
        BY <2>1, <2>2, <2>3, <3>1 DEF WaitInv, WaitInvOf
    <2>4. WaitInvOf(c)'
      <3>1. Alive(c)' = Args(c)
        BY <2>1, <2>2, ArgsFinite DEF Alive
      <3> QED
        BY <2>1, <2>2, <3>1 DEF WaitInvOf
    <2> QED
      BY <2>3, <2>4 DEF WaitInv
  <1>6. ASSUME NEW c \in Callers, WaitReturns(c)
        PROVE  WaitInv'
    <2>1. /\ goroutine' = goroutine /\ wg' = wg /\ roots' = roots
          /\ \A e \in Callers : e # c => pc'[e] = pc[e]
          /\ pc[c] = "wait" /\ wg[c] = 0 /\ pc'[c] \in {"check", "collect"}
      BY <1>6 DEF WaitReturns, actionState, TypeOK
    <2>2. ASSUME NEW e \in Callers PROVE Args(e)' = Args(e) /\ Alive(e)' = Alive(e)
      BY <2>1 DEF Args, Alive
    <2>3. Alive(c) = {}
      <3>1. Cardinality(Alive(c)) = 0
        BY <2>1 DEF WaitInv, WaitInvOf
      <3>2. IsFiniteSet(Alive(c))
        BY ArgsFinite, FS_Subset DEF Alive
      <3> QED
        BY <3>1, <3>2, FS_EmptySet
    <2>4. ASSUME NEW e \in Callers PROVE WaitInvOf(e)'
      BY <2>1, <2>2, <2>3 DEF WaitInv, WaitInvOf
    <2> QED
      BY <2>4 DEF WaitInv
  <1>7. ASSUME NEW c \in Callers, NEW a \in Analyzer, OnceEnter(c, a)
        PROVE  WaitInv'
    <2>0. once[a] = "new" => pc[a] = "idle"
      BY DEF OnceInv
    <2>1. /\ goroutine[c][a] \notin {"none", "exited"} /\ goroutine'[c][a] \notin {"none", "exited"}
          /\ \A e \in Callers, b \in Analyzer :
                e # c \/ b # a => goroutine'[e][b] = goroutine[e][b]
          /\ wg' = wg /\ roots' = roots
          /\ \A e \in Callers : pc'[e] = pc[e] \/ (pc[e] = "idle" /\ pc'[e] = "execAll")
      BY <1>7, <2>0 DEF OnceEnter, TypeOK, Callers
    <2>2. ASSUME NEW e \in Callers PROVE Args(e)' = Args(e) /\ Alive(e)' = Alive(e)
      <3>1. Args(e)' = Args(e) /\ Args(e) \subseteq Analyzer
        BY <2>1, ArgsFinite DEF Args
      <3>2. ASSUME NEW b \in Analyzer
            PROVE  goroutine'[e][b] # "exited" <=> goroutine[e][b] # "exited"
        BY <2>1
      <3> QED
        BY <3>1, <3>2 DEF Alive
    <2>3. ASSUME NEW e \in Callers PROVE WaitInvOf(e)'
      <3>1. WaitInvOf(e)
        BY DEF WaitInv
      <3>2. goroutine[c][a] # "none" /\ pc[c] \notin {"start", "idle", "execAll", "returned"}
        BY <2>1 DEF WaitInv, WaitInvOf
      <3> QED
        BY <2>1, <2>2, <3>1, <3>2 DEF WaitInvOf
    <2> QED
      BY <2>3 DEF WaitInv
  <1>8. ASSUME NEW c \in Callers, NEW a \in Analyzer, OncePass(c, a)
        PROVE  WaitInv'
    <2>0. once[a] = "new" => pc[a] = "idle"
      BY DEF OnceInv
    <2>1. /\ goroutine[c][a] \notin {"none", "exited"} /\ goroutine'[c][a] \notin {"none", "exited"}
          /\ \A e \in Callers, b \in Analyzer :
                e # c \/ b # a => goroutine'[e][b] = goroutine[e][b]
          /\ wg' = wg /\ roots' = roots
          /\ \A e \in Callers : pc'[e] = pc[e] \/ (pc[e] = "idle" /\ pc'[e] = "execAll")
      BY <1>8, <2>0 DEF OncePass, TypeOK, Callers
    <2>2. ASSUME NEW e \in Callers PROVE Args(e)' = Args(e) /\ Alive(e)' = Alive(e)
      <3>1. Args(e)' = Args(e) /\ Args(e) \subseteq Analyzer
        BY <2>1, ArgsFinite DEF Args
      <3>2. ASSUME NEW b \in Analyzer
            PROVE  goroutine'[e][b] # "exited" <=> goroutine[e][b] # "exited"
        BY <2>1
      <3> QED
        BY <3>1, <3>2 DEF Alive
    <2>3. ASSUME NEW e \in Callers PROVE WaitInvOf(e)'
      <3>1. WaitInvOf(e)
        BY DEF WaitInv
      <3>2. goroutine[c][a] # "none" /\ pc[c] \notin {"start", "idle", "execAll", "returned"}
        BY <2>1 DEF WaitInv, WaitInvOf
      <3> QED
        BY <2>1, <2>2, <3>1, <3>2 DEF WaitInvOf
    <2> QED
      BY <2>3 DEF WaitInv
  <1>9. ASSUME NEW c \in Callers, NEW a \in Analyzer, OnceLeave(c, a)
        PROVE  WaitInv'
    <2>0. once[a] = "new" => pc[a] = "idle"
      BY DEF OnceInv
    <2>1. /\ goroutine[c][a] \notin {"none", "exited"} /\ goroutine'[c][a] \notin {"none", "exited"}
          /\ \A e \in Callers, b \in Analyzer :
                e # c \/ b # a => goroutine'[e][b] = goroutine[e][b]
          /\ wg' = wg /\ roots' = roots
          /\ \A e \in Callers : pc'[e] = pc[e] \/ (pc[e] = "idle" /\ pc'[e] = "execAll")
      BY <1>9, <2>0 DEF OnceLeave, TypeOK, Callers
    <2>2. ASSUME NEW e \in Callers PROVE Args(e)' = Args(e) /\ Alive(e)' = Alive(e)
      <3>1. Args(e)' = Args(e) /\ Args(e) \subseteq Analyzer
        BY <2>1, ArgsFinite DEF Args
      <3>2. ASSUME NEW b \in Analyzer
            PROVE  goroutine'[e][b] # "exited" <=> goroutine[e][b] # "exited"
        BY <2>1
      <3> QED
        BY <3>1, <3>2 DEF Alive
    <2>3. ASSUME NEW e \in Callers PROVE WaitInvOf(e)'
      <3>1. WaitInvOf(e)
        BY DEF WaitInv
      <3>2. goroutine[c][a] # "none" /\ pc[c] \notin {"start", "idle", "execAll", "returned"}
        BY <2>1 DEF WaitInv, WaitInvOf
      <3> QED
        BY <2>1, <2>2, <3>1, <3>2 DEF WaitInvOf
    <2> QED
      BY <2>3 DEF WaitInv
  <1>10. ASSUME NEW c \in Callers, NEW a \in Analyzer, Done(c, a)
        PROVE  WaitInv'
    <2>1. /\ goroutine[c][a] = "returning" /\ goroutine'[c][a] = "exited"
          /\ \A e \in Callers, b \in Analyzer :
                e # c \/ b # a => goroutine'[e][b] = goroutine[e][b]
          /\ \A e \in Callers : e # c => wg'[e] = wg[e]
          /\ wg'[c] = wg[c] - 1 /\ roots' = roots /\ pc' = pc
      BY <1>10 DEF Done, TypeOK
    <2>2. ASSUME NEW e \in Callers PROVE Args(e)' = Args(e) /\ Args(e) \subseteq Analyzer
      BY <2>1, ArgsFinite DEF Args
    <2>3. ASSUME NEW e \in Callers, e # c PROVE WaitInvOf(e)'
      <3>1. Alive(e)' = Alive(e)
        BY <2>1, <2>2, <2>3 DEF Alive
      <3> QED
        BY <2>1, <2>2, <2>3, <3>1 DEF WaitInv, WaitInvOf
    <2>4. WaitInvOf(c)'
      <3>1. Alive(c)' = Alive(c) \ {a}
        BY <2>1, <2>2 DEF Alive
      <3>2. pc[c] = "wait" /\ wg'[c] = Cardinality(Alive(c) \ {a})
        BY <2>1, DonePositive
      <3> QED
        BY <2>1, <2>2, <3>1, <3>2 DEF WaitInv, WaitInvOf
    <2> QED
      BY <2>3, <2>4 DEF WaitInv
  <1>11. ASSUME NEW a \in Analyzer, PrerequisitesFailed(a)
        PROVE  WaitInv'
    <2>1. /\ goroutine' = goroutine /\ wg' = wg /\ roots' = roots
          /\ \A e \in Callers : pc'[e] = pc[e] \/ (/\ pc[e] \in {"check", "plumbed", "running"}
                                                  /\ pc'[e] \in {"plumbed", "running", "finished"})
      BY <1>11 DEF PrerequisitesFailed, actionState, TypeOK, Callers
    <2> QED
      BY <2>1, WaitFrame
  <1>12. ASSUME NEW a \in Analyzer, Plumb(a)
        PROVE  WaitInv'
    <2>1. /\ goroutine' = goroutine /\ wg' = wg /\ roots' = roots
          /\ \A e \in Callers : pc'[e] = pc[e] \/ (/\ pc[e] \in {"check", "plumbed", "running"}
                                                  /\ pc'[e] \in {"plumbed", "running", "finished"})
      BY <1>12 DEF Plumb, actionState, TypeOK, Callers
    <2> QED
      BY <2>1, WaitFrame
  <1>13. ASSUME NEW a \in Analyzer, SkipRun(a)
        PROVE  WaitInv'
    <2>1. /\ goroutine' = goroutine /\ wg' = wg /\ roots' = roots
          /\ \A e \in Callers : pc'[e] = pc[e] \/ (/\ pc[e] \in {"check", "plumbed", "running"}
                                                  /\ pc'[e] \in {"plumbed", "running", "finished"})
      BY <1>13 DEF SkipRun, actionState, TypeOK, Callers
    <2> QED
      BY <2>1, WaitFrame
  <1>14. ASSUME NEW a \in Analyzer, CallRun(a)
        PROVE  WaitInv'
    <2>1. /\ goroutine' = goroutine /\ wg' = wg /\ roots' = roots
          /\ \A e \in Callers : pc'[e] = pc[e] \/ (/\ pc[e] \in {"check", "plumbed", "running"}
                                                  /\ pc'[e] \in {"plumbed", "running", "finished"})
      BY <1>14 DEF CallRun, actionState, TypeOK, Callers
    <2> QED
      BY <2>1, WaitFrame
  <1>15. ASSUME NEW a \in Analyzer, RunReturns(a)
        PROVE  WaitInv'
    <2>1. /\ goroutine' = goroutine /\ wg' = wg /\ roots' = roots
          /\ \A e \in Callers : pc'[e] = pc[e] \/ (/\ pc[e] \in {"check", "plumbed", "running"}
                                                  /\ pc'[e] \in {"plumbed", "running", "finished"})
      BY <1>15 DEF RunReturns, actionState, TypeOK, Callers
    <2> QED
      BY <2>1, WaitFrame
  <1>16. ASSUME NEW a \in Analyzer, RunFails(a)
        PROVE  WaitInv'
    <2>1. /\ goroutine' = goroutine /\ wg' = wg /\ roots' = roots
          /\ \A e \in Callers : pc'[e] = pc[e] \/ (/\ pc[e] \in {"check", "plumbed", "running"}
                                                  /\ pc'[e] \in {"plumbed", "running", "finished"})
      BY <1>16 DEF RunFails, actionState, TypeOK, Callers
    <2> QED
      BY <2>1, WaitFrame
  <1>17. ASSUME NEW a \in Analyzer, RunPanics(a)
        PROVE  WaitInv'
    <2>1. /\ goroutine' = goroutine /\ wg' = wg /\ roots' = roots
          /\ \A e \in Callers : pc'[e] = pc[e] \/ (/\ pc[e] \in {"check", "plumbed", "running"}
                                                  /\ pc'[e] \in {"plumbed", "running", "finished"})
      BY <1>17 DEF RunPanics, actionState, TypeOK, Callers
    <2> QED
      BY <2>1, WaitFrame
  <1>18. ASSUME NEW a \in Analyzer, NEW d \in Diagnostic, Report(a, d)
        PROVE  WaitInv'
    <2>1. /\ goroutine' = goroutine /\ wg' = wg /\ roots' = roots
          /\ \A e \in Callers : pc'[e] = pc[e] \/ (/\ pc[e] \in {"check", "plumbed", "running"}
                                                  /\ pc'[e] \in {"plumbed", "running", "finished"})
      BY <1>18 DEF Report, actionState, TypeOK, Callers
    <2> QED
      BY <2>1, WaitFrame
  <1>19. CASE UNCHANGED vars
    BY <1>19 DEF vars, WaitInv, WaitInvOf, Alive, Args
  <1> QED
    BY <1>1, <1>2, <1>3, <1>4, <1>5, <1>6, <1>7, <1>8, <1>9, <1>10,
       <1>11, <1>12, <1>13, <1>14, <1>15, <1>16, <1>17, <1>18, <1>19
       DEF Next, MainStep, ExecStep, GoStep, Terminated, Callers

\* When execOnce is past its execAll, the required actions are done.
LEMMA RequiredDone ==
  ASSUME IndInv, NEW a \in Analyzer,
         pc[a] \in {"check", "plumbed", "running", "finished"},
         NEW d \in Requires[a]
  PROVE  d \in Analyzer /\ once[d] = "done" /\ pc[d] = "finished"
  <1>1. d \in Analyzer /\ a \in Callers /\ d \in Args(a)
    BY AnalyzerAssumption DEF Callers, Args
  <1>2. goroutine[a][d] = "exited"
    BY <1>1 DEF IndInv, WaitInv, WaitInvOf, Alive
  <1> QED
    BY <1>1, <1>2 DEF IndInv, OnceInv

\* While execOnce of a is not finished, no other action has read what a leaves behind.
LEMMA OtherResults ==
  ASSUME IndInv, NEW a \in Analyzer, pc[a] \in {"check", "plumbed", "running"},
         illTyped' = illTyped, facts \subseteq facts',
         \A b \in Analyzer : b # a =>
            /\ pc'[b] = pc[b] /\ err'[b] = err[b] /\ result'[b] = result[b]
            /\ inputs'[b] = inputs[b] /\ runs'[b] = runs[b]
  PROVE  \A b \in Analyzer : b # a => ResultInvOf(b)'
  <1> SUFFICES ASSUME NEW b \in Analyzer, b # a PROVE ResultInvOf(b)'
    OBVIOUS
  <1>1. ResultInvOf(b)
    BY DEF IndInv, ResultInv
  <1>2. pc[b] \in {"check", "plumbed", "running", "finished"} => a \notin Requires[b]
    BY RequiredDone
  <1>3. runs[b] = 1 => pc[b] \in {"running", "finished"}
    BY <1>1 DEF ResultInvOf
  <1>4. \A d \in Requires[b] : d \in Analyzer
    BY AnalyzerAssumption
  <1> QED
    BY <1>1, <1>2, <1>3, <1>4 DEF ResultInvOf, Skipped

\* What execOnce reads and leaves behind: the required actions no longer change.
LEMMA NextResultInv == IndInv /\ [Next]_vars => ResultInv'
  <1> SUFFICES ASSUME IndInv, [Next]_vars PROVE ResultInv'
    OBVIOUS
  <1>t. TypeOK /\ StartInv /\ OnceInv /\ ResultInv
    BY DEF IndInv
  <1>m. Main \notin Analyzer
    BY AnalyzerAssumption
  <1>d. ASSUME NEW b \in Analyzer, pc[b] \in {"check", "plumbed", "running", "finished"}, NEW d \in Requires[b]
        PROVE  d \in Analyzer /\ once[d] = "done" /\ pc[d] = "finished"
    BY <1>d, RequiredDone
  <1> USE <1>t, <1>m
  <1>1. CASE NoRoots
    <2>1. /\ err' = err /\ result' = result /\ inputs' = inputs /\ runs' = runs /\ facts' = facts
          /\ illTyped' = illTyped
          /\ \A b \in Analyzer : pc'[b] = pc[b] \/ (/\ pc[b] \in {"idle", "execAll", "wait"}
                                                  /\ pc'[b] \in {"execAll", "wait", "check"})
      BY <1>1 DEF NoRoots, actionState, TypeOK, Callers
    <2>2. ASSUME NEW b \in Analyzer PROVE ResultInvOf(b)'
      BY <2>1 DEF ResultInv, ResultInvOf, Skipped
    <2> QED
      BY <2>2 DEF ResultInv
  <1>2. CASE LoadFails \/ FlagsFail
    <2>1. /\ err' = err /\ result' = result /\ inputs' = inputs /\ runs' = runs /\ facts' = facts
          /\ illTyped' = illTyped
          /\ \A b \in Analyzer : pc'[b] = pc[b] \/ (/\ pc[b] \in {"idle", "execAll", "wait"}
                                                  /\ pc'[b] \in {"execAll", "wait", "check"})
      BY <1>2 DEF LoadFails, FlagsFail, actionState, TypeOK, Callers
    <2>2. ASSUME NEW b \in Analyzer PROVE ResultInvOf(b)'
      BY <2>1 DEF ResultInv, ResultInvOf, Skipped
    <2> QED
      BY <2>2 DEF ResultInv
  <1>3. CASE Load
    <2>0. \A b \in Analyzer : pc[b] = "idle"
      BY <1>3 DEF Load, StartInv, OnceInv
    <2>1. /\ err' = err /\ result' = result /\ inputs' = inputs /\ runs' = runs /\ facts' = facts
          /\ \A b \in Analyzer : pc'[b] = "idle"
          /\ \A b \in Analyzer : pc'[b] = pc[b] \/ (/\ pc[b] \in {"idle", "execAll", "wait"}
                                                  /\ pc'[b] \in {"execAll", "wait", "check"})
      BY <1>3, <2>0 DEF Load, actionState, TypeOK, Callers
    <2>2. ASSUME NEW b \in Analyzer PROVE ResultInvOf(b)'
      BY <2>1 DEF ResultInv, ResultInvOf, Skipped
    <2> QED
      BY <2>2 DEF ResultInv
  <1>4. CASE checkAnalysisResults
    <2>1. /\ err' = err /\ result' = result /\ inputs' = inputs /\ runs' = runs /\ facts' = facts
          /\ illTyped' = illTyped
          /\ \A b \in Analyzer : pc'[b] = pc[b] \/ (/\ pc[b] \in {"idle", "execAll", "wait"}
                                                  /\ pc'[b] \in {"execAll", "wait", "check"})
      BY <1>4 DEF checkAnalysisResults, actionState, TypeOK, Callers
    <2>2. ASSUME NEW b \in Analyzer PROVE ResultInvOf(b)'
      BY <2>1 DEF ResultInv, ResultInvOf, Skipped
    <2> QED
      BY <2>2 DEF ResultInv
  <1>5. ASSUME NEW c \in Callers, execAll(c)
        PROVE  ResultInv'
    <2>1. /\ err' = err /\ result' = result /\ inputs' = inputs /\ runs' = runs /\ facts' = facts
          /\ illTyped' = illTyped
          /\ \A b \in Analyzer : pc'[b] = pc[b] \/ (/\ pc[b] \in {"idle", "execAll", "wait"}
                                                  /\ pc'[b] \in {"execAll", "wait", "check"})
      BY <1>5 DEF execAll, actionState, TypeOK, Callers
    <2>2. ASSUME NEW b \in Analyzer PROVE ResultInvOf(b)'
      BY <2>1 DEF ResultInv, ResultInvOf, Skipped
    <2> QED
      BY <2>2 DEF ResultInv
  <1>6. ASSUME NEW c \in Callers, WaitReturns(c)
        PROVE  ResultInv'
    <2>1. /\ err' = err /\ result' = result /\ inputs' = inputs /\ runs' = runs /\ facts' = facts
          /\ illTyped' = illTyped
          /\ \A b \in Analyzer : pc'[b] = pc[b] \/ (/\ pc[b] \in {"idle", "execAll", "wait"}
                                                  /\ pc'[b] \in {"execAll", "wait", "check"})
      BY <1>6 DEF WaitReturns, actionState, TypeOK, Callers
    <2>2. ASSUME NEW b \in Analyzer PROVE ResultInvOf(b)'
      BY <2>1 DEF ResultInv, ResultInvOf, Skipped
    <2> QED
      BY <2>2 DEF ResultInv
  <1>7. ASSUME NEW c \in Callers, NEW a \in Analyzer, OnceEnter(c, a)
        PROVE  ResultInv'
    <2>0. pc[a] = "idle"
      BY <1>7 DEF OnceEnter, OnceInv
    <2>1. /\ err' = err /\ result' = result /\ inputs' = inputs /\ runs' = runs /\ facts' = facts
          /\ illTyped' = illTyped
          /\ \A b \in Analyzer : pc'[b] = pc[b] \/ (/\ pc[b] \in {"idle", "execAll", "wait"}
                                                  /\ pc'[b] \in {"execAll", "wait", "check"})
      BY <1>7, <2>0 DEF OnceEnter, actionState, TypeOK, Callers
    <2>2. ASSUME NEW b \in Analyzer PROVE ResultInvOf(b)'
      BY <2>1 DEF ResultInv, ResultInvOf, Skipped
    <2> QED
      BY <2>2 DEF ResultInv
  <1>8. ASSUME NEW c \in Callers, NEW a \in Analyzer, OncePass(c, a)
        PROVE  ResultInv'
    <2>1. /\ err' = err /\ result' = result /\ inputs' = inputs /\ runs' = runs /\ facts' = facts
          /\ illTyped' = illTyped
          /\ \A b \in Analyzer : pc'[b] = pc[b] \/ (/\ pc[b] \in {"idle", "execAll", "wait"}
                                                  /\ pc'[b] \in {"execAll", "wait", "check"})
      BY <1>8 DEF OncePass, actionState, TypeOK, Callers
    <2>2. ASSUME NEW b \in Analyzer PROVE ResultInvOf(b)'
      BY <2>1 DEF ResultInv, ResultInvOf, Skipped
    <2> QED
      BY <2>2 DEF ResultInv
  <1>9. ASSUME NEW c \in Callers, NEW a \in Analyzer, OnceLeave(c, a)
        PROVE  ResultInv'
    <2>1. /\ err' = err /\ result' = result /\ inputs' = inputs /\ runs' = runs /\ facts' = facts
          /\ illTyped' = illTyped
          /\ \A b \in Analyzer : pc'[b] = pc[b] \/ (/\ pc[b] \in {"idle", "execAll", "wait"}
                                                  /\ pc'[b] \in {"execAll", "wait", "check"})
      BY <1>9 DEF OnceLeave, actionState, TypeOK, Callers
    <2>2. ASSUME NEW b \in Analyzer PROVE ResultInvOf(b)'
      BY <2>1 DEF ResultInv, ResultInvOf, Skipped
    <2> QED
      BY <2>2 DEF ResultInv
  <1>10. ASSUME NEW c \in Callers, NEW a \in Analyzer, Done(c, a)
        PROVE  ResultInv'
    <2>1. /\ err' = err /\ result' = result /\ inputs' = inputs /\ runs' = runs /\ facts' = facts
          /\ illTyped' = illTyped
          /\ \A b \in Analyzer : pc'[b] = pc[b] \/ (/\ pc[b] \in {"idle", "execAll", "wait"}
                                                  /\ pc'[b] \in {"execAll", "wait", "check"})
      BY <1>10 DEF Done, actionState, TypeOK, Callers
    <2>2. ASSUME NEW b \in Analyzer PROVE ResultInvOf(b)'
      BY <2>1 DEF ResultInv, ResultInvOf, Skipped
    <2> QED
      BY <2>2 DEF ResultInv
  <1>11. ASSUME NEW a \in Analyzer, PrerequisitesFailed(a)
        PROVE  ResultInv'
    <2>1. /\ pc[a] = "check" /\ illTyped' = illTyped
          /\ \A b \in Analyzer : b # a =>
                /\ pc'[b] = pc[b] /\ err'[b] = err[b] /\ result'[b] = result[b]
                /\ inputs'[b] = inputs[b] /\ runs'[b] = runs[b]
          /\ facts \subseteq facts'
          /\ pc'[a] = "finished" /\ err'[a] # "none" /\ runs'[a] = runs[a]
      BY <1>11 DEF PrerequisitesFailed, actionState, TypeOK, Callers
    <2>2. \A b \in Analyzer : b # a => ResultInvOf(b)'
      BY <2>1, OtherResults
    <2>3. ResultInvOf(a)'
      <3>1. \A d \in Requires[a] : d \in Analyzer /\ d # a
        BY <1>d, <2>1
      <3> QED
        BY <2>1, <3>1 DEF ResultInv, ResultInvOf, Skipped
    <2> QED
      BY <2>2, <2>3 DEF ResultInv
  <1>12. ASSUME NEW a \in Analyzer, Plumb(a)
        PROVE  ResultInv'
    <2>1. /\ pc[a] = "check" /\ illTyped' = illTyped
          /\ \A b \in Analyzer : b # a =>
                /\ pc'[b] = pc[b] /\ err'[b] = err[b] /\ result'[b] = result[b]
                /\ inputs'[b] = inputs[b] /\ runs'[b] = runs[b]
          /\ facts \subseteq facts'
          /\ pc'[a] = "plumbed" /\ err'[a] = err[a] /\ result'[a] = result[a] /\ runs'[a] = runs[a]
          /\ \A d \in Requires[a] : err[d] = "none"
          /\ \A d \in Requires[a] : d \in Analyzer => inputs'[a][d] = result[d]
      BY <1>12 DEF Plumb, FailedPrerequisites, actionState, TypeOK, Callers
    <2>2. \A b \in Analyzer : b # a => ResultInvOf(b)'
      BY <2>1, OtherResults
    <2>3. ResultInvOf(a)'
      <3>1. \A d \in Requires[a] : d \in Analyzer /\ d # a
        BY <1>d, <2>1
      <3> QED
        BY <2>1, <3>1 DEF ResultInv, ResultInvOf, Skipped
    <2> QED
      BY <2>2, <2>3 DEF ResultInv
  <1>13. ASSUME NEW a \in Analyzer, SkipRun(a)
        PROVE  ResultInv'
    <2>1. /\ pc[a] = "plumbed" /\ illTyped' = illTyped
          /\ \A b \in Analyzer : b # a =>
                /\ pc'[b] = pc[b] /\ err'[b] = err[b] /\ result'[b] = result[b]
                /\ inputs'[b] = inputs[b] /\ runs'[b] = runs[b]
          /\ facts \subseteq facts'
          /\ pc'[a] = "finished" /\ UNCHANGED <<err, result, inputs, runs>> /\ Skipped(a)
      BY <1>13 DEF SkipRun, MayRun, Skipped, actionState, TypeOK, Callers
    <2>2. \A b \in Analyzer : b # a => ResultInvOf(b)'
      BY <2>1, OtherResults
    <2>3. ResultInvOf(a)'
      <3>1. \A d \in Requires[a] : d \in Analyzer /\ d # a
        BY <1>d, <2>1
      <3> QED
        BY <2>1, <3>1 DEF ResultInv, ResultInvOf, Skipped
    <2> QED
      BY <2>2, <2>3 DEF ResultInv
  <1>14. ASSUME NEW a \in Analyzer, CallRun(a)
        PROVE  ResultInv'
    <2>1. /\ pc[a] = "plumbed" /\ illTyped' = illTyped
          /\ \A b \in Analyzer : b # a =>
                /\ pc'[b] = pc[b] /\ err'[b] = err[b] /\ result'[b] = result[b]
                /\ inputs'[b] = inputs[b] /\ runs'[b] = runs[b]
          /\ facts \subseteq facts'
          /\ pc'[a] = "running" /\ UNCHANGED <<err, result, inputs>> /\ runs'[a] = runs[a] + 1
          /\ ~Skipped(a)
      BY <1>14 DEF CallRun, MayRun, Skipped, actionState, TypeOK, Callers
    <2>2. \A b \in Analyzer : b # a => ResultInvOf(b)'
      BY <2>1, OtherResults
    <2>3. ResultInvOf(a)'
      <3>1. \A d \in Requires[a] : d \in Analyzer /\ d # a
        BY <1>d, <2>1
      <3> QED
        BY <2>1, <3>1 DEF ResultInv, ResultInvOf, Skipped
    <2> QED
      BY <2>2, <2>3 DEF ResultInv
  <1>15. ASSUME NEW a \in Analyzer, RunReturns(a)
        PROVE  ResultInv'
    <2>1. /\ pc[a] = "running" /\ illTyped' = illTyped
          /\ \A b \in Analyzer : b # a =>
                /\ pc'[b] = pc[b] /\ err'[b] = err[b] /\ result'[b] = result[b]
                /\ inputs'[b] = inputs[b] /\ runs'[b] = runs[b]
          /\ facts \subseteq facts'
          /\ pc'[a] = "finished" /\ UNCHANGED <<err, inputs, runs>> /\ result'[a] = "value"
          /\ (a \in HasFacts => a \in facts')
      BY <1>15 DEF RunReturns, actionState, TypeOK, Callers
    <2>2. \A b \in Analyzer : b # a => ResultInvOf(b)'
      BY <2>1, OtherResults
    <2>3. ResultInvOf(a)'
      <3>1. \A d \in Requires[a] : d \in Analyzer /\ d # a
        BY <1>d, <2>1
      <3> QED
        BY <2>1, <3>1 DEF ResultInv, ResultInvOf, Skipped
    <2> QED
      BY <2>2, <2>3 DEF ResultInv
  <1>16. ASSUME NEW a \in Analyzer, RunFails(a)
        PROVE  ResultInv'
    <2>1. /\ pc[a] = "running" /\ illTyped' = illTyped
          /\ \A b \in Analyzer : b # a =>
                /\ pc'[b] = pc[b] /\ err'[b] = err[b] /\ result'[b] = result[b]
                /\ inputs'[b] = inputs[b] /\ runs'[b] = runs[b]
          /\ facts \subseteq facts'
          /\ pc'[a] = "finished" /\ UNCHANGED <<inputs, runs>> /\ err'[a] # "none"
      BY <1>16 DEF RunFails, actionState, TypeOK, Callers
    <2>2. \A b \in Analyzer : b # a => ResultInvOf(b)'
      BY <2>1, OtherResults
    <2>3. ResultInvOf(a)'
      <3>1. \A d \in Requires[a] : d \in Analyzer /\ d # a
        BY <1>d, <2>1
      <3> QED
        BY <2>1, <3>1 DEF ResultInv, ResultInvOf, Skipped
    <2> QED
      BY <2>2, <2>3 DEF ResultInv
  <1>17. ASSUME NEW a \in Analyzer, RunPanics(a)
        PROVE  ResultInv'
    <2>1. /\ pc[a] = "running" /\ illTyped' = illTyped
          /\ \A b \in Analyzer : b # a =>
                /\ pc'[b] = pc[b] /\ err'[b] = err[b] /\ result'[b] = result[b]
                /\ inputs'[b] = inputs[b] /\ runs'[b] = runs[b]
          /\ facts \subseteq facts'
          /\ pc'[a] = "finished" /\ UNCHANGED <<inputs, runs>> /\ err'[a] # "none"
      BY <1>17 DEF RunPanics, actionState, TypeOK, Callers
    <2>2. \A b \in Analyzer : b # a => ResultInvOf(b)'
      BY <2>1, OtherResults
    <2>3. ResultInvOf(a)'
      <3>1. \A d \in Requires[a] : d \in Analyzer /\ d # a
        BY <1>d, <2>1
      <3> QED
        BY <2>1, <3>1 DEF ResultInv, ResultInvOf, Skipped
    <2> QED
      BY <2>2, <2>3 DEF ResultInv
  <1>18. ASSUME NEW a \in Analyzer, NEW d \in Diagnostic, Report(a, d)
        PROVE  ResultInv'
    BY <1>18 DEF Report, ResultInv, ResultInvOf, Skipped
  <1>19. CASE UNCHANGED vars
    BY <1>19 DEF vars, ResultInv, ResultInvOf, Skipped
  <1> QED
    BY <1>1, <1>2, <1>3, <1>4, <1>5, <1>6, <1>7, <1>8, <1>9, <1>10,
       <1>11, <1>12, <1>13, <1>14, <1>15, <1>16, <1>17, <1>18, <1>19
       DEF Next, MainStep, ExecStep, GoStep, Terminated, Callers

\* What checkPackage returns stands on roots that are done.
LEMMA NextReturnInv == IndInv /\ [Next]_vars => ReturnInv'
  <1> SUFFICES ASSUME IndInv, [Next]_vars PROVE ReturnInv'
    OBVIOUS
  <1>t. TypeOK /\ StartInv /\ OnceInv /\ WaitInv /\ ReturnInv
    BY DEF IndInv
  <1>m. Main \notin Analyzer
    BY AnalyzerAssumption
  <1> USE <1>t, <1>m
  <1>1. CASE NoRoots
    BY <1>1 DEF NoRoots, actionState, ReturnInv, RootsOf, TypeOK, Callers
  <1>2. CASE LoadFails \/ FlagsFail
    <2>1. CASE LoadFails
      BY <2>1 DEF LoadFails, actionState, ReturnInv, RootsOf, TypeOK, Callers
    <2>2. CASE FlagsFail
      BY <2>2 DEF FlagsFail, actionState, ReturnInv, TypeOK, Callers
    <2> QED
      BY <1>2, <2>1, <2>2
  <1>3. CASE Load
    BY <1>3 DEF Load, actionState, ReturnInv, RootsOf, TypeOK, Callers
  <1>4. CASE checkAnalysisResults
    <2>1. ASSUME NEW b \in roots PROVE once[b] = "done"
      <3>1. b \in Analyzer /\ b \in Args(Main) /\ Main \in Callers
        BY DEF TypeOK, Args, Callers
      <3>2. goroutine[Main][b] = "exited"
        BY <1>4, <3>1 DEF checkAnalysisResults, WaitInv, WaitInvOf, Alive
      <3> QED
        BY <3>1, <3>2 DEF OnceInv
    <2>2. /\ roots' = roots /\ configured' = configured /\ factsOnly' = factsOnly /\ illTyped' = illTyped
          /\ once' = once /\ err' = err
          /\ pc[Main] = "collect" /\ pc'[Main] = "returned"
          /\ (returned'.kind = "ok" => ResultErrors(roots) = {})
      BY <1>4 DEF checkAnalysisResults, actionState, TypeOK, Callers
    <2> QED
      BY <2>1, <2>2 DEF ReturnInv, ResultErrors, RootsOf, Skipped
  <1>5. ASSUME NEW c \in Callers, execAll(c)
        PROVE  ReturnInv'
    <2>1. /\ returned' = returned /\ roots' = roots /\ configured' = configured /\ factsOnly' = factsOnly /\ illTyped' = illTyped
          /\ once' = once /\ err' = err
          /\ pc'[Main] = pc[Main] \/ (pc[Main] \in {"execAll", "wait"} /\ pc'[Main] \in {"wait", "collect"})
      BY <1>5 DEF execAll, actionState, TypeOK, Callers
    <2> QED
      BY <2>1 DEF ReturnInv, RootsOf, Skipped
  <1>6. ASSUME NEW c \in Callers, WaitReturns(c)
        PROVE  ReturnInv'
    <2>1. /\ returned' = returned /\ roots' = roots /\ configured' = configured /\ factsOnly' = factsOnly /\ illTyped' = illTyped
          /\ once' = once /\ err' = err
          /\ pc'[Main] = pc[Main] \/ (pc[Main] \in {"execAll", "wait"} /\ pc'[Main] \in {"wait", "collect"})
      BY <1>6 DEF WaitReturns, actionState, TypeOK, Callers
    <2> QED
      BY <2>1 DEF ReturnInv, RootsOf, Skipped
  <1>7. ASSUME NEW c \in Callers, NEW a \in Analyzer, OnceEnter(c, a)
        PROVE  ReturnInv'
    <2>1. UNCHANGED <<returned, roots, configured, factsOnly, illTyped>>
      BY <1>7 DEF OnceEnter, actionState
    <2>2. pc'[Main] = pc[Main]
      BY <1>7 DEF OnceEnter, actionState, TypeOK, Callers
    <2>3. \A b \in Analyzer : once[b] = "done" => once'[b] = "done" /\ err'[b] = err[b]
      BY <1>7 DEF OnceEnter, actionState, TypeOK, OnceInv, Callers
    <2> QED
      BY <2>1, <2>2, <2>3 DEF ReturnInv, RootsOf, Skipped, TypeOK
  <1>8. ASSUME NEW c \in Callers, NEW a \in Analyzer, OncePass(c, a)
        PROVE  ReturnInv'
    <2>1. UNCHANGED <<returned, roots, configured, factsOnly, illTyped>>
      BY <1>8 DEF OncePass, actionState
    <2>2. pc'[Main] = pc[Main]
      BY <1>8 DEF OncePass, actionState, TypeOK, Callers
    <2>3. \A b \in Analyzer : once[b] = "done" => once'[b] = "done" /\ err'[b] = err[b]
      BY <1>8 DEF OncePass, actionState, TypeOK, OnceInv, Callers
    <2> QED
      BY <2>1, <2>2, <2>3 DEF ReturnInv, RootsOf, Skipped, TypeOK
  <1>9. ASSUME NEW c \in Callers, NEW a \in Analyzer, OnceLeave(c, a)
        PROVE  ReturnInv'
    <2>1. UNCHANGED <<returned, roots, configured, factsOnly, illTyped>>
      BY <1>9 DEF OnceLeave, actionState
    <2>2. pc'[Main] = pc[Main]
      BY <1>9 DEF OnceLeave, actionState, TypeOK, Callers
    <2>3. \A b \in Analyzer : once[b] = "done" => once'[b] = "done" /\ err'[b] = err[b]
      BY <1>9 DEF OnceLeave, actionState, TypeOK, OnceInv, Callers
    <2> QED
      BY <2>1, <2>2, <2>3 DEF ReturnInv, RootsOf, Skipped, TypeOK
  <1>10. ASSUME NEW c \in Callers, NEW a \in Analyzer, Done(c, a)
        PROVE  ReturnInv'
    <2>1. UNCHANGED <<returned, roots, configured, factsOnly, illTyped>>
      BY <1>10 DEF Done, actionState
    <2>2. pc'[Main] = pc[Main]
      BY <1>10 DEF Done, actionState, TypeOK, Callers
    <2>3. \A b \in Analyzer : once[b] = "done" => once'[b] = "done" /\ err'[b] = err[b]
      BY <1>10 DEF Done, actionState, TypeOK, OnceInv, Callers
    <2> QED
      BY <2>1, <2>2, <2>3 DEF ReturnInv, RootsOf, Skipped, TypeOK
  <1>11. ASSUME NEW a \in Analyzer, PrerequisitesFailed(a)
        PROVE  ReturnInv'
    <2>1. UNCHANGED <<returned, roots, configured, factsOnly, illTyped>>
      BY <1>11 DEF PrerequisitesFailed, actionState
    <2>2. pc'[Main] = pc[Main]
      BY <1>11 DEF PrerequisitesFailed, actionState, TypeOK, Callers
    <2>3. \A b \in Analyzer : once[b] = "done" => once'[b] = "done" /\ err'[b] = err[b]
      BY <1>11 DEF PrerequisitesFailed, actionState, TypeOK, OnceInv, Callers
    <2> QED
      BY <2>1, <2>2, <2>3 DEF ReturnInv, RootsOf, Skipped, TypeOK
  <1>12. ASSUME NEW a \in Analyzer, Plumb(a)
        PROVE  ReturnInv'
    <2>1. UNCHANGED <<returned, roots, configured, factsOnly, illTyped>>
      BY <1>12 DEF Plumb, actionState
    <2>2. pc'[Main] = pc[Main]
      BY <1>12 DEF Plumb, actionState, TypeOK, Callers
    <2>3. \A b \in Analyzer : once[b] = "done" => once'[b] = "done" /\ err'[b] = err[b]
      BY <1>12 DEF Plumb, actionState, TypeOK, OnceInv, Callers
    <2> QED
      BY <2>1, <2>2, <2>3 DEF ReturnInv, RootsOf, Skipped, TypeOK
  <1>13. ASSUME NEW a \in Analyzer, SkipRun(a)
        PROVE  ReturnInv'
    <2>1. UNCHANGED <<returned, roots, configured, factsOnly, illTyped>>
      BY <1>13 DEF SkipRun, actionState
    <2>2. pc'[Main] = pc[Main]
      BY <1>13 DEF SkipRun, actionState, TypeOK, Callers
    <2>3. \A b \in Analyzer : once[b] = "done" => once'[b] = "done" /\ err'[b] = err[b]
      BY <1>13 DEF SkipRun, actionState, TypeOK, OnceInv, Callers
    <2> QED
      BY <2>1, <2>2, <2>3 DEF ReturnInv, RootsOf, Skipped, TypeOK
  <1>14. ASSUME NEW a \in Analyzer, CallRun(a)
        PROVE  ReturnInv'
    <2>1. UNCHANGED <<returned, roots, configured, factsOnly, illTyped>>
      BY <1>14 DEF CallRun, actionState
    <2>2. pc'[Main] = pc[Main]
      BY <1>14 DEF CallRun, actionState, TypeOK, Callers
    <2>3. \A b \in Analyzer : once[b] = "done" => once'[b] = "done" /\ err'[b] = err[b]
      BY <1>14 DEF CallRun, actionState, TypeOK, OnceInv, Callers
    <2> QED
      BY <2>1, <2>2, <2>3 DEF ReturnInv, RootsOf, Skipped, TypeOK
  <1>15. ASSUME NEW a \in Analyzer, RunReturns(a)
        PROVE  ReturnInv'
    <2>1. UNCHANGED <<returned, roots, configured, factsOnly, illTyped>>
      BY <1>15 DEF RunReturns, actionState
    <2>2. pc'[Main] = pc[Main]
      BY <1>15 DEF RunReturns, actionState, TypeOK, Callers
    <2>3. \A b \in Analyzer : once[b] = "done" => once'[b] = "done" /\ err'[b] = err[b]
      BY <1>15 DEF RunReturns, actionState, TypeOK, OnceInv, Callers
    <2> QED
      BY <2>1, <2>2, <2>3 DEF ReturnInv, RootsOf, Skipped, TypeOK
  <1>16. ASSUME NEW a \in Analyzer, RunFails(a)
        PROVE  ReturnInv'
    <2>0. once[a] # "done"
      BY <1>16 DEF RunFails, OnceInv
    <2>1. UNCHANGED <<returned, roots, configured, factsOnly, illTyped>>
      BY <1>16 DEF RunFails, actionState
    <2>2. pc'[Main] = pc[Main]
      BY <1>16 DEF RunFails, actionState, TypeOK, Callers
    <2>3. \A b \in Analyzer : once[b] = "done" => once'[b] = "done" /\ err'[b] = err[b]
      BY <1>16, <2>0 DEF RunFails, actionState, TypeOK, Callers
    <2> QED
      BY <2>1, <2>2, <2>3 DEF ReturnInv, RootsOf, Skipped, TypeOK
  <1>17. ASSUME NEW a \in Analyzer, RunPanics(a)
        PROVE  ReturnInv'
    <2>1. UNCHANGED <<returned, roots, configured, factsOnly, illTyped>>
      BY <1>17 DEF RunPanics, actionState
    <2>2. pc'[Main] = pc[Main]
      BY <1>17 DEF RunPanics, actionState, TypeOK, Callers
    <2>3. \A b \in Analyzer : once[b] = "done" => once'[b] = "done" /\ err'[b] = err[b]
      BY <1>17 DEF RunPanics, actionState, TypeOK, OnceInv, Callers
    <2> QED
      BY <2>1, <2>2, <2>3 DEF ReturnInv, RootsOf, Skipped, TypeOK
  <1>18. ASSUME NEW a \in Analyzer, NEW d \in Diagnostic, Report(a, d)
        PROVE  ReturnInv'
    <2>1. UNCHANGED <<returned, roots, configured, factsOnly, illTyped>>
      BY <1>18 DEF Report, actionState
    <2>2. pc'[Main] = pc[Main]
      BY <1>18 DEF Report, actionState, TypeOK, Callers
    <2>3. \A b \in Analyzer : once[b] = "done" => once'[b] = "done" /\ err'[b] = err[b]
      BY <1>18 DEF Report, actionState, TypeOK, OnceInv, Callers
    <2> QED
      BY <2>1, <2>2, <2>3 DEF ReturnInv, RootsOf, Skipped, TypeOK
  <1>19. CASE UNCHANGED vars
    BY <1>19 DEF vars, ReturnInv, RootsOf, Skipped
  <1> QED
    BY <1>1, <1>2, <1>3, <1>4, <1>5, <1>6, <1>7, <1>8, <1>9, <1>10,
       <1>11, <1>12, <1>13, <1>14, <1>15, <1>16, <1>17, <1>18, <1>19
       DEF Next, MainStep, ExecStep, GoStep, Terminated, Callers

-----------------------------------------------------------------------------
(* The theorems *)

\* IndInv is an invariant: it holds initially and every step preserves it.
THEOREM Inductive == Spec => []IndInv
  <1>1. Init => IndInv
    BY InitIndInv
  <1>2. IndInv /\ [Next]_vars => IndInv'
    BY NextTypeOK, NextStartInv, NextOnceInv, NextWaitInv, NextResultInv, NextReturnInv
    DEF IndInv
  <1> QED
    BY <1>1, <1>2, PTL DEF Spec

\* Type correctness of the scheduler; in particular no WaitGroup becomes negative.
THEOREM TypeCorrect == Spec => []TypeOK
  <1>1. IndInv => TypeOK
    BY DEF IndInv
  <1> QED
    BY <1>1, Inductive, PTL

\* For every DAG of analyzers, sync.Once and execAll run each analyzer at most once.
THEOREM AtMostOnce == Spec => []RunAtMostOnce
  <1>1. IndInv => RunAtMostOnce
    BY DEF IndInv, ResultInv, ResultInvOf, RunAtMostOnce
  <1> QED
    BY <1>1, Inductive, PTL

\* For every DAG of analyzers, an analyzer only runs on the final, error-free results
\* of the analyzers it requires.
THEOREM FinalInputs == Spec => []InputsAreFinal
  <1>1. IndInv => InputsAreFinal
    <2> SUFFICES ASSUME IndInv, NEW a \in Analyzer, runs[a] > 0, NEW d \in Requires[a]
                 PROVE  pc[d] = "finished" /\ err[d] = "none" /\ inputs[a][d] = result[d]
      BY DEF InputsAreFinal
    <2>1. ResultInvOf(a)
      BY DEF IndInv, ResultInv
    <2>2. runs[a] = 1
      BY <2>1 DEF ResultInvOf
    <2>3. pc[a] \in {"running", "finished"}
      BY <2>1, <2>2 DEF ResultInvOf
    <2> QED
      BY <2>1, <2>2, <2>3, RequiredDone DEF ResultInvOf
  <1> QED
    BY <1>1, Inductive, PTL

\* If checkPackage returns without an error, everything the roots depend on finished
\* without an error: the set of such actions contains the roots and is closed.
LEMMA VisitedSucceeded ==
  ASSUME IndInv, returned.kind = "ok", NEW a \in Visited(roots)
  PROVE  a \in Analyzer /\ pc[a] = "finished" /\ err[a] = "none"
  <1> DEFINE T == {b \in Analyzer : pc[b] = "finished" /\ err[b] = "none"}
  <1>1. roots \subseteq T
    BY DEF IndInv, TypeOK, ReturnInv, OnceInv
  <1>2. ASSUME NEW b \in T PROVE Requires[b] \subseteq T
    <2>1. \A d \in Requires[b] : d \in Analyzer /\ pc[d] = "finished"
      BY RequiredDone
    <2>2. \A d \in Requires[b] : err[d] = "none"
      BY DEF IndInv, ResultInv, ResultInvOf
    <2> QED
      BY <2>1, <2>2
  <1>3. T \in SUBSET Analyzer
    OBVIOUS
  <1> HIDE DEF T
  <1>4. a \in T
    BY <1>1, <1>2, <1>3 DEF Visited
  <1> QED
    BY <1>4 DEF T

\* No failure of an analyzer below a root is lost on the way to the caller.
THEOREM ErrorsReported == Spec => []ErrorsReachCaller
  <1>1. IndInv => ErrorsReachCaller
    <2> SUFFICES ASSUME IndInv, returned.kind = "ok", NEW a \in Visited(roots)
                 PROVE  err[a] = "none" /\ (runs[a] = 1 \/ Skipped(a))
      BY DEF ErrorsReachCaller, Skipped
    <2>1. a \in Analyzer /\ pc[a] = "finished" /\ err[a] = "none"
      BY VisitedSucceeded
    <2> QED
      BY <2>1 DEF IndInv, ResultInv, ResultInvOf
  <1> QED
    BY <1>1, Inductive, PTL

\* Every configured fact producer has exported its facts when checkPackage succeeds.
THEOREM AllFacts == Spec => []FactsComplete
  <1>1. IndInv => FactsComplete
    <2> SUFFICES ASSUME IndInv, returned.kind = "ok", factsOnly \/ ~illTyped,
                        NEW a \in HasFacts \cap Visited(configured)
                 PROVE  a \in facts
      BY DEF FactsComplete
    <2>0. a \in Analyzer /\ a \in HasFacts /\ a \in Visited(configured)
      BY DEF Visited
    <2>1. pc[a] = "finished" /\ err[a] = "none" /\ ~Skipped(a)
      <3>1. CASE factsOnly
        BY <3>1, <2>0 DEF IndInv, ReturnInv, RootsOf, factProducers, OnceInv
      <3>2. CASE ~factsOnly
        <4>1. a \in Visited(roots) /\ ~illTyped
          BY <3>2, <2>0 DEF IndInv, ReturnInv, RootsOf
        <4> QED
          BY <4>1, VisitedSucceeded DEF Skipped
      <3> QED
        BY <3>1, <3>2
    <2>2. ResultInvOf(a)
      BY <2>0 DEF IndInv, ResultInv
    <2> QED
      BY <2>0, <2>1, <2>2 DEF ResultInvOf
  <1> QED
    BY <1>1, Inductive, PTL

\* After the execAll of checkPackage no execOnce is in progress: an unfinished one that
\* no unfinished one requires would have been started by checkPackage itself.
LEMMA NoOnceHeld ==
  ASSUME IndInv, pc[Main] \in {"collect", "returned"}, NEW a \in Analyzer
  PROVE  once[a] # "doing"
  <1> DEFINE S == {b \in Analyzer : once[b] = "doing"}
  <1> SUFFICES ASSUME S # {} PROVE FALSE
    OBVIOUS
  <1>1. PICK m \in S : \A b \in S : m \notin Requires[b]
    BY AnalyzerAssumption
  <1>2. PICK c \in Callers : goroutine[c][m] = "doing"
    BY DEF IndInv, OnceInv
  <1>3. m \in Args(c) /\ pc[c] = "wait"
    BY <1>2, ActiveWaits
  <1>4. c \in Analyzer
    BY <1>3 DEF Callers
  <1>5. once[c] = "doing"
    BY <1>3, <1>4 DEF IndInv, OnceInv, TypeOK
  <1>6. m \in Requires[c]
    BY <1>3, <1>4, AnalyzerAssumption DEF Args
  <1> QED
    BY <1>1, <1>4, <1>5, <1>6

\* Nothing the scheduler started outlives it.
THEOREM NothingOutlives == Spec => []Quiescent
  <1>1. IndInv => Quiescent
    <2> SUFFICES ASSUME IndInv, pc[Main] \in {"collect", "returned"},
                        NEW c \in Callers, NEW a \in Analyzer
                 PROVE  goroutine[c][a] \in {"none", "exited"}
      BY DEF Quiescent
    <2>1. pc[c] \in {"idle", "finished", "collect", "returned"}
      <3>1. CASE c = Main
        BY <3>1
      <3>2. CASE c \in Analyzer
        <4>1. once[c] \in {"new", "done"}
          BY <3>2, NoOnceHeld DEF IndInv, TypeOK
        <4> QED
          BY <3>2, <4>1 DEF IndInv, OnceInv
      <3> QED
        BY <3>1, <3>2 DEF Callers
    <2>2. WaitInvOf(c)
      BY DEF IndInv, WaitInv
    <2> QED
      BY <2>1, <2>2 DEF WaitInvOf, Alive
  <1> QED
    BY <1>1, Inductive, PTL

\* The published fields of an action are frozen: a step that writes them belongs to an
\* execOnce whose once is still held.
THEOREM Frozen == Spec => DoneActionsFrozen
  <1> DEFINE A == \A a \in Analyzer : once[a] = "done" =>
                    /\ once'[a] = "done"
                    /\ err'[a] = err[a]
                    /\ result'[a] = result[a]
                    /\ diagnostics'[a] = diagnostics[a]
  <1>1. IndInv /\ [Next]_vars => [A]_vars
    <2> SUFFICES ASSUME IndInv, Next, NEW b \in Analyzer, once[b] = "done"
                 PROVE  /\ once'[b] = "done" /\ err'[b] = err[b]
                        /\ result'[b] = result[b] /\ diagnostics'[b] = diagnostics[b]
      OBVIOUS
    <2>1. TypeOK /\ pc[b] = "finished" /\ \A c \in Callers : goroutine[c][b] # "doing"
      BY DEF IndInv, OnceInv
    <2>2. CASE MainStep
      BY <2>2 DEF MainStep, NoRoots, LoadFails, FlagsFail, Load, execAll, WaitReturns,
                  checkAnalysisResults, actionState
    <2>3. ASSUME NEW a \in Analyzer, ExecStep(a)
          PROVE  /\ once'[b] = "done" /\ err'[b] = err[b]
                 /\ result'[b] = result[b] /\ diagnostics'[b] = diagnostics[b]
      <3>1. a # b
        BY <2>1, <2>3 DEF ExecStep, execAll, WaitReturns, PrerequisitesFailed, Plumb, SkipRun,
                          CallRun, RunReturns, RunFails, RunPanics
      <3>2. once' = once /\ diagnostics' = diagnostics
        BY <2>3 DEF ExecStep, execAll, WaitReturns, PrerequisitesFailed, Plumb, SkipRun,
                    CallRun, RunReturns, RunFails, RunPanics, actionState
      <3>3. err' = err \/ \E e : err' = [err EXCEPT ![a] = e]
        BY <2>3 DEF ExecStep, execAll, WaitReturns, PrerequisitesFailed, Plumb, SkipRun,
                    CallRun, RunReturns, RunFails, RunPanics, actionState
      <3>4. result' = result \/ \E r : result' = [result EXCEPT ![a] = r]
        BY <2>3 DEF ExecStep, execAll, WaitReturns, PrerequisitesFailed, Plumb, SkipRun,
                    CallRun, RunReturns, RunFails, RunPanics, actionState
      <3> QED
        BY <2>1, <3>1, <3>2, <3>3, <3>4 DEF TypeOK
    <2>4. ASSUME NEW a \in Analyzer, NEW d \in Diagnostic, Report(a, d)
          PROVE  /\ once'[b] = "done" /\ err'[b] = err[b]
                 /\ result'[b] = result[b] /\ diagnostics'[b] = diagnostics[b]
      BY <2>1, <2>4 DEF Report, TypeOK
    <2>5. ASSUME NEW c \in Callers, NEW a \in Analyzer, GoStep(c, a)
          PROVE  /\ once'[b] = "done" /\ err'[b] = err[b]
                 /\ result'[b] = result[b] /\ diagnostics'[b] = diagnostics[b]
      BY <2>1, <2>5 DEF GoStep, OnceEnter, OncePass, OnceLeave, Done, TypeOK
    <2>6. CASE Terminated
      BY <2>6 DEF Terminated, vars
    <2> QED
      BY <2>2, <2>3, <2>4, <2>5, <2>6 DEF Next
  <1> QED
    BY <1>1, Inductive, PTL DEF Spec, DoneActionsFrozen

-----------------------------------------------------------------------------
(* Refinement *)

absStatus == [a \in Analyzer |-> Status(a)]
absPending == IF returned.kind = "none" THEN roots ELSE {}

\* A step of the scheduler that leaves the roots, the outcome and the position and
\* results of all actions alone is a stuttering step of the abstract specification.
LEMMA Stutter ==
  ASSUME roots' = roots, returned' = returned, err' = err, result' = result,
         \A a \in Analyzer : pc'[a] = "finished" <=> pc[a] = "finished"
  PROVE  UNCHANGED Abstract!vars
  <1>1. \A a \in Analyzer : Status(a)' = Status(a)
    BY DEF Status
  <1> QED
    BY <1>1 DEF Abstract!vars

\* The step in which the execOnce of a finishes is the abstract decision of a.
LEMMA FinishDecides ==
  ASSUME IndInv, NEW a \in Analyzer, pc[a] \in {"check", "plumbed", "running"},
         roots' = roots, returned' = returned, pc'[a] = "finished",
         \A b \in Analyzer : b # a => pc'[b] = pc[b] /\ err'[b] = err[b] /\ result'[b] = result[b],
         (\E d \in Requires[a] : err[d] # "none") => err'[a] # "none"
  PROVE  Abstract!Decide(a)
  <1>1. \A d \in Requires[a] : d \in Analyzer /\ pc[d] = "finished"
    BY RequiredDone
  <1>2. returned.kind = "none" /\ roots # {}
    <2>1. pc[Main] \in {"execAll", "wait"}
      <3>1. once[a] = "doing"
        BY DEF IndInv, OnceInv, TypeOK
      <3> QED
        BY <3>1, NoOnceHeld DEF IndInv, StartInv
    <2>2. returned.kind = "none"
      BY <2>1 DEF IndInv, ReturnInv
    <2>3. roots # {}
      BY <2>1 DEF IndInv, ReturnInv
    <2> QED
      BY <2>2, <2>3
  <1>3. Status(a) = "pending" /\ Status(a)' \in {"done", "skipped", "failed"}
    BY DEF Status
  <1>4. \A b \in Analyzer : b # a => Status(b)' = Status(b)
    BY DEF Status
  <1>5. \A d \in Requires[a] : Status(d) # "pending"
    BY <1>1 DEF Status
  <1>6. (\E d \in Requires[a] : Status(d) = "failed") => Status(a)' = "failed"
    BY <1>1 DEF Status
  <1>7. absStatus' = [absStatus EXCEPT ![a] = Status(a)']
    BY <1>4 DEF absStatus
  <1> QED
    BY <1>1, <1>2, <1>3, <1>5, <1>6, <1>7 DEF Abstract!Decide, absStatus

\* Every step of the scheduler is a step of the abstract analysis or stutters.
LEMMA StepRefines == IndInv /\ [Next]_vars => [Abstract!Next]_(Abstract!vars)
  <1> SUFFICES ASSUME IndInv, [Next]_vars PROVE [Abstract!Next]_(Abstract!vars)
    OBVIOUS
  <1>t. TypeOK /\ StartInv /\ OnceInv /\ WaitInv /\ ReturnInv
    BY DEF IndInv
  <1>m. Main \notin Analyzer
    BY AnalyzerAssumption
  <1> USE <1>t, <1>m
  <1>1. CASE NoRoots \/ LoadFails \/ FlagsFail
    <2>0. err' = err /\ result' = result /\ \A a \in Analyzer : pc'[a] = pc[a]
      BY <1>1 DEF NoRoots, LoadFails, FlagsFail, actionState, TypeOK, Callers
    <2>1. /\ returned.kind = "none" /\ returned'.kind \in {"no package", "error"}
          /\ roots = {} /\ \A a \in Analyzer : Status(a)' = Status(a)
      <3>1. pc[Main] = "start" /\ returned'.kind \in {"no package", "error"}
        <4>1. CASE NoRoots
          BY <4>1 DEF NoRoots
        <4>2. CASE LoadFails
          BY <4>2 DEF LoadFails
        <4>3. CASE FlagsFail
          BY <4>3 DEF FlagsFail
        <4> QED
          BY <1>1, <4>1, <4>2, <4>3
      <3> QED
        BY <3>1, <2>0 DEF Status, ReturnInv
    <2>2. Abstract!Refuse
      BY <2>1 DEF Abstract!Refuse
    <2> QED
      BY <2>2 DEF Abstract!Next
  <1>2. CASE Load
    <2>0. err' = err /\ result' = result /\ \A a \in Analyzer : pc'[a] = pc[a]
      BY <1>2 DEF Load, actionState, TypeOK, Callers
    <2>1. /\ returned.kind = "none" /\ returned' = returned
          /\ roots = {} /\ roots' # {} /\ \A a \in Analyzer : Status(a)' = Status(a)
      BY <1>2, <2>0 DEF Load, Status, ReturnInv, TypeOK
    <2>2. roots' \in SUBSET Analyzer
      BY NextTypeOK DEF TypeOK
    <2>3. Abstract!Ask(roots')
      BY <2>1 DEF Abstract!Ask
    <2> QED
      BY <2>1, <2>2, <2>3 DEF Abstract!Next
  <1>3. CASE checkAnalysisResults
    <2>0. err' = err /\ result' = result /\ \A a \in Analyzer : pc'[a] = pc[a]
      BY <1>3 DEF checkAnalysisResults, actionState, TypeOK, Callers
    <2>1. /\ returned.kind = "none" /\ roots # {} /\ roots' = roots
          /\ returned'.kind \in (IF ResultErrors(roots) = {} THEN {"ok", "error"} ELSE {"error"})
          /\ \A a \in Analyzer : Status(a)' = Status(a)
      BY <1>3, <2>0 DEF checkAnalysisResults, Status, ReturnInv, TypeOK
    <2>2. ASSUME NEW a \in roots
          PROVE  Status(a) # "pending" /\ (Status(a) = "done" <=> a \notin ResultErrors(roots))
      <3>1. a \in Analyzer /\ a \in Args(Main) /\ Main \in Callers
        BY DEF TypeOK, Args, Callers
      <3>2. goroutine[Main][a] = "exited"
        BY <1>3, <3>1 DEF checkAnalysisResults, WaitInv, WaitInvOf, Alive
      <3>3. pc[a] = "finished"
        BY <3>1, <3>2 DEF OnceInv
      <3>4. err[a] = "none" => (result[a] = "nil" <=> Skipped(a))
        BY <3>1, <3>3 DEF IndInv, ResultInv, ResultInvOf
      <3> QED
        BY <3>3, <3>4 DEF Status, ResultErrors
    <2>3. roots \subseteq Analyzer
      BY DEF TypeOK
    <2>4. (\A a \in roots : Status(a) = "done") <=> ResultErrors(roots) = {}
      BY <2>2 DEF ResultErrors
    <2>5. Abstract!Tell
      BY <2>1, <2>2, <2>3, <2>4 DEF Abstract!Tell
    <2> QED
      BY <2>5 DEF Abstract!Next
  <1>4. ASSUME NEW c \in Callers, execAll(c)
        PROVE  UNCHANGED Abstract!vars
    BY <1>4, Stutter DEF execAll, actionState, TypeOK, Callers
  <1>5. ASSUME NEW c \in Callers, WaitReturns(c)
        PROVE  UNCHANGED Abstract!vars
    BY <1>5, Stutter DEF WaitReturns, actionState, TypeOK, Callers
  <1>6. ASSUME NEW c \in Callers, NEW a \in Analyzer, OncePass(c, a)
        PROVE  UNCHANGED Abstract!vars
    BY <1>6, Stutter DEF OncePass, actionState, TypeOK, Callers
  <1>7. ASSUME NEW c \in Callers, NEW a \in Analyzer, OnceLeave(c, a)
        PROVE  UNCHANGED Abstract!vars
    BY <1>7, Stutter DEF OnceLeave, actionState, TypeOK, Callers
  <1>8. ASSUME NEW c \in Callers, NEW a \in Analyzer, Done(c, a)
        PROVE  UNCHANGED Abstract!vars
    BY <1>8, Stutter DEF Done, actionState, TypeOK, Callers
  <1>9. ASSUME NEW a \in Analyzer, Plumb(a)
        PROVE  UNCHANGED Abstract!vars
    BY <1>9, Stutter DEF Plumb, actionState, TypeOK, Callers
  <1>10. ASSUME NEW a \in Analyzer, CallRun(a)
        PROVE  UNCHANGED Abstract!vars
    BY <1>10, Stutter DEF CallRun, actionState, TypeOK, Callers
  <1>11. ASSUME NEW a \in Analyzer, NEW d \in Diagnostic, Report(a, d)
        PROVE  UNCHANGED Abstract!vars
    BY <1>11, Stutter DEF Report, actionState, TypeOK, Callers
  <1>12. ASSUME NEW c \in Callers, NEW a \in Analyzer, OnceEnter(c, a)
        PROVE  UNCHANGED Abstract!vars
    <2>1. pc[a] # "finished"
      BY <1>12 DEF OnceEnter, OnceInv
    <2> QED
      BY <1>12, <2>1, Stutter DEF OnceEnter, TypeOK, Callers
  <1>13. ASSUME NEW a \in Analyzer, PrerequisitesFailed(a)
        PROVE  Abstract!Decide(a)
    <2>1. /\ pc[a] = "check" /\ roots' = roots /\ returned' = returned /\ pc'[a] = "finished" /\ err'[a] # "none"
          /\ \A b \in Analyzer : b # a => /\ pc'[b] = pc[b]
                                          /\ err'[b] = err[b] /\ result'[b] = result[b]
      BY <1>13 DEF PrerequisitesFailed, actionState, TypeOK, Callers
    <2> QED
      BY <2>1, FinishDecides
  <1>14. ASSUME NEW a \in Analyzer, SkipRun(a)
        PROVE  Abstract!Decide(a)
    <2>1. /\ pc[a] = "plumbed" /\ roots' = roots /\ returned' = returned /\ pc'[a] = "finished" 
          /\ \A b \in Analyzer : b # a => /\ pc'[b] = pc[b]
                                          /\ err'[b] = err[b] /\ result'[b] = result[b]
      BY <1>14 DEF SkipRun, actionState, TypeOK, Callers
    <2>2. \A d \in Requires[a] : err[d] = "none"
      BY <2>1 DEF IndInv, ResultInv, ResultInvOf
    <2> QED
      BY <2>1, <2>2, FinishDecides
  <1>15. ASSUME NEW a \in Analyzer, RunReturns(a)
        PROVE  Abstract!Decide(a)
    <2>1. /\ pc[a] = "running" /\ roots' = roots /\ returned' = returned /\ pc'[a] = "finished" 
          /\ \A b \in Analyzer : b # a => /\ pc'[b] = pc[b]
                                          /\ err'[b] = err[b] /\ result'[b] = result[b]
      BY <1>15 DEF RunReturns, actionState, TypeOK, Callers
    <2>2. \A d \in Requires[a] : err[d] = "none"
      BY <2>1 DEF IndInv, ResultInv, ResultInvOf
    <2> QED
      BY <2>1, <2>2, FinishDecides
  <1>16. ASSUME NEW a \in Analyzer, RunFails(a)
        PROVE  Abstract!Decide(a)
    <2>1. /\ pc[a] = "running" /\ roots' = roots /\ returned' = returned /\ pc'[a] = "finished" 
          /\ \A b \in Analyzer : b # a => /\ pc'[b] = pc[b]
                                          /\ err'[b] = err[b] /\ result'[b] = result[b]
      BY <1>16 DEF RunFails, actionState, TypeOK, Callers
    <2>2. \A d \in Requires[a] : err[d] = "none"
      BY <2>1 DEF IndInv, ResultInv, ResultInvOf
    <2> QED
      BY <2>1, <2>2, FinishDecides
  <1>17. ASSUME NEW a \in Analyzer, RunPanics(a)
        PROVE  Abstract!Decide(a)
    <2>1. /\ pc[a] = "running" /\ roots' = roots /\ returned' = returned /\ pc'[a] = "finished" 
          /\ \A b \in Analyzer : b # a => /\ pc'[b] = pc[b]
                                          /\ err'[b] = err[b] /\ result'[b] = result[b]
      BY <1>17 DEF RunPanics, actionState, TypeOK, Callers
    <2>2. \A d \in Requires[a] : err[d] = "none"
      BY <2>1 DEF IndInv, ResultInv, ResultInvOf
    <2> QED
      BY <2>1, <2>2, FinishDecides
  <1>18. CASE UNCHANGED vars
    BY <1>18, Stutter DEF vars
  <1> QED
    BY <1>1, <1>2, <1>3, <1>4, <1>5, <1>6, <1>7, <1>8, <1>9, <1>10,
       <1>11, <1>12, <1>13, <1>14, <1>15, <1>16, <1>17, <1>18
       DEF Next, MainStep, ExecStep, GoStep, Terminated, Callers, Abstract!Next

\* The scheduler implements the sequential analysis, for every DAG of analyzers.
THEOREM Refinement == Spec => ImplementsAnalysis
  <1>1. Init => Abstract!Init
    BY AnalyzerAssumption DEF Init, Abstract!Init, Status, Callers
  <1>2. IndInv /\ [Next]_vars => [Abstract!Next]_(Abstract!vars)
    BY StepRefines
  <1> QED
    BY <1>1, <1>2, Inductive, PTL DEF Spec, ImplementsAnalysis, Abstract!Spec
=============================================================================
