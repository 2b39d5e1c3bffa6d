----------------------------- MODULE MCNogoExec -----------------------------
(* Instances of NogoExec: the analyzers printf, nilness, buildssa and inspect *)
(* of x/tools, whose Requires form a diamond with a chord.                    *)
EXTENDS NogoExec, TLC

CONSTANTS printf, nilness, buildssa, inspect, f1, f2, d1, d2

MCRequires == (printf   :> {inspect}) @@ (nilness :> {buildssa, inspect}) @@
              (buildssa :> {inspect}) @@ (inspect :> {})

MCFileOf == (d1 :> f1) @@ (d2 :> f2)

\* A target without fact producers has no roots in facts-only mode.
MCTargets == {{printf, nilness}, {inspect}}

\* d2 carries a nolint comment that names nilness.
MCNolint == {[linters |-> {nilness}, covers |-> {d2}]}

\* nilness overrides the base configuration's exclusion of f1 by an empty list.
MCBase    == [onlyFiles |-> Unset, excludeFiles |-> {f1}]
MCConfigs == [a \in Analyzer |-> IF a = nilness THEN [onlyFiles |-> {f1}, excludeFiles |-> {}]
                                 ELSE NoConfig]
=============================================================================
