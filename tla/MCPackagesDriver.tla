---------------------------- MODULE MCPackagesDriver ---------------------------
(* A workspace of a library, the library it depends on, one that depends on it, and a test that *)
(* embeds it or not, with three packages of the standard library, one of which has the path of   *)
(* the dependency.                                                                              *)
EXTENDS PackagesDriver

F(name, imports) == [name |-> name, test |-> FALSE, pkg |-> 0, imports |-> imports, cgo |-> FALSE,
                     generated |-> FALSE, match |-> TRUE]
T(name, pkg, imports) == [F(name, imports) EXCEPT !.test = TRUE, !.pkg = pkg]
C(name, generated) == [F(name, {"C", "os"}) EXCEPT !.cgo = TRUE, !.generated = generated]

Target0(path, srcs, deps, embed, rule) ==
    [path |-> path, srcs |-> srcs, deps |-> deps, embed |-> embed, rule |-> rule, gotypes |-> FALSE, builds |-> TRUE,
     written |-> IF rule = "go_test" THEN {"main", "package"} ELSE {"package"}]

Dep == Target0("dep", <<F("dep.go", {"fmt"})>>, {}, {}, "go_library")
Lib(srcs) == Target0("lib", srcs, {"//dep"}, {}, "go_library")
Test(srcs, embed) == Target0("lib", srcs, {"//dep"}, embed, "go_test")
Std == [p \in {"fmt", "os", "dep"} |-> IF p = "fmt" THEN {"os"} ELSE {}]

LibGo == F("lib.go", {"dep", "os"})
Windows == [F("lib_windows.go", {"fmt"}) EXCEPT !.match = FALSE]
InTest == T("in_test.go", 0, {"testing"})
ExTest == T("ex_test.go", 1, {"testing", "lib", "fmt"})

Request(kind, matches) == [kind |-> kind, matches |-> matches]
Asked(matches) == {Request("local", matches)}

\* Libraries: with constraints, with cgo; or one that cannot be analysed here.
Libs == {Lib(<<LibGo>>), Lib(<<LibGo, Windows>>), Lib(<<Windows, LibGo>>), Lib(<<Windows>>), [Lib(<<LibGo>>) EXCEPT !.builds = FALSE]}
        \cup {[Lib(<<C("c1.go", g), C("c2.go", ~g)>> \o s) EXCEPT !.gotypes = t] :
                 g \in BOOLEAN, t \in BOOLEAN, s \in {<<>>, <<LibGo>>}}
Tests(lib) ==
    {Test(lib.srcs \o s, {"//lib"}) : s \in {<<InTest>>, <<ExTest>>, <<ExTest, InTest>>,
                                                 <<[InTest EXCEPT !.match = FALSE]>>}}
    \cup {Test(<<InTest, ExTest>>, {}), Test(<<ExTest, LibGo, InTest>>, {})}

Workspaces ==
    {("//dep" :> Dep) @@ ("//lib" :> l) @@ ("//lib_test" :> t) : <<l, t>> \in
        UNION {{l} \X Tests(l) : l \in Libs}}

Input(requests, targets) ==
    [requests |-> requests, targets |-> targets, std |-> Std, overlay |-> <<>>, broken |-> {}, misspelt |-> {},
     version |-> <<7, 1, 0>>, at |-> "@@", queryExit |-> 0, buildExit |-> 0, partial |-> {}]

One == CHOOSE w \in Workspaces : w["//lib"] = Lib(<<LibGo>>) /\ w["//lib_test"] = Test(<<LibGo, ExTest, InTest>>, {"//lib"})

\* A test imports what depends on the library it embeds; an external one may.
Mid == Target0("mid", <<F("mid.go", {"lib"})>>, {"//lib"}, {}, "go_library")
MidTest(src) == [Test(<<LibGo, src>>, {"//lib"}) EXCEPT !.deps = @ \cup {"//mid"}]
Recompiled == {("//mid" :> Mid) @@ ("//lib_test" :> MidTest(s)) @@ One :
                  s \in {[ExTest EXCEPT !.imports = @ \cup {"mid", "dep"}], InTest}}

\* A file does not parse, and whatever has it among its sources has no .pkg.json. Where its
\* constraints do not hold, the main package of the test has one.
Breaks(w, file) ==
    [n \in DOMAIN w |-> IF \E f \in Range(w[n].srcs) : f = file
                        THEN [w[n] EXCEPT !.written = IF file.match THEN {} ELSE @ \ {"package"}] ELSE w[n]]
Windows2 == CHOOSE w \in Workspaces : w["//lib"] = Lib(<<LibGo, Windows>>) /\ w["//lib_test"] = Test(<<LibGo, Windows, ExTest>>, {"//lib"})
Broken ==
    {[Input(Asked({"//dep", "//lib_test"}), Breaks(b[1], b[2])) EXCEPT !.broken = {b[2].name}, !.partial = p, !.buildExit = 1] :
        b \in {<<One, LibGo>>, <<One, ExTest>>, <<One, F("dep.go", {"fmt"})>>, <<Windows2, Windows>>},
        p \in {{}, {"//lib_test"}, {"//dep", "//lib_test"}}}

MCInputs ==
    {Input(Asked({"//lib_test"}), w) : w \in Workspaces} \cup {Input(Asked({"//lib", "//lib_test"}), One)}
    \cup {[Input(Asked({"//lib"}), One) EXCEPT !.version = v, !.queryExit = q, !.buildExit = b] :
             v \in {<<0, 0, 0>>, <<5, 4, 1>>, <<6, 0, 0>>, <<6, 4, 0>>}, q \in {0, 3}, b \in {0, 1}}
    \cup {[Input(Asked({"//lib"}), One) EXCEPT !.version = v, !.at = "@"] : v \in {<<6, 0, 0>>, <<6, 4, 0>>}}
    \cup {[Input(Asked({"//lib_test"}), One) EXCEPT !.overlay = o, !.misspelt = IF b THEN DOMAIN o ELSE {}] :
             o \in {"lib.go" :> {"fmt", "unknown"}, "ex_test.go" :> {"os", "dep"}}, b \in BOOLEAN}
    \cup {Input(Asked({"//lib_test"}), w) : w \in Recompiled} \cup Broken
    \cup {Input({Request("builtin", {Stdlib})}, One), Input({Request("unknown", {})}, One), Input(Asked({}), One),
          Input({Request("file", {"//dep"}), Request("importpath", {"//lib_test"})}, One),
          [Input(Asked({"//lib"}), One) EXCEPT !.queryExit = 2], [Input(Asked({"//lib"}), One) EXCEPT !.buildExit = 37]}
=============================================================================
