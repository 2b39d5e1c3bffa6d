---------------------------- MODULE MCCompilePkg -----------------------------
(* Packages made of up to eight files: plain, cgo and test Go files from a source and a        *)
(* generated directory, two of them with one base name, a file whose header does not parse,   *)
(* one that the build constraints exclude, C, assembly and resource files.                    *)
EXTENDS CompilePkg

MCStd == {"std", "runtime/cgo", "syscall", "unsafe", "sync/atomic", "runtime/coverage"}
MCRelative == {"./rel"}

Arc(importPath, aliases, packagePath, name) ==
    [importPath |-> importPath, aliases |-> aliases, packagePath |-> packagePath, file |-> <<"arc", name>>]
DepA == Arc("a", {}, "a", "a")
DepB == Arc("b", {"old/b", "a"}, "vendor/b", "b")
DepOld == Arc("old/b", {}, "old/b", "old")
MCCoverdata == Arc("coverdata", {}, "coverdata", "coverdata")

File(dir, base, ext, p, imports, parses, constraint) ==
    [name |-> [dir |-> dir, base |-> base, kind |-> ext], ext |-> ext, pkg |-> p, imports |-> imports,
     parses |-> parses, constraint |-> constraint]
Go(dir, base, imports) == File(dir, base, "go", "p", imports, TRUE, TRUE)
Other(base, ext) == File("src", base, ext, "none", {}, TRUE, TRUE)

PlainA == Go("src", <<"a">>, {"std", "a"})
PlainGen == Go("gen", <<"a">>, {"old/b", "./rel"})
CgoA == Go("src", <<"c">>, {"C"})
CgoGen == Go("gen", <<"c">>, {"C", "b"})
CgoNumbered == Go("src", <<"c", 1>>, {"C"})
PlainCgoName == Go("src", <<"c", 0>>, {"std"})
XTest == File("src", <<"x">>, "go", "p_test", {"a"}, TRUE, TRUE)
Broken == File("src", <<"bad">>, "go", "p", {"std"}, FALSE, TRUE)
Excluded == File("src", <<"win">>, "go", "p", {"C"}, TRUE, FALSE)
C == Other(<<"f">>, "c")
S == Other(<<"g">>, "s")
Syso1 == Other(<<"r">>, "syso")

Optional == <<PlainGen, CgoA, CgoGen, C, S>>
More == <<PlainCgoName, CgoNumbered, XTest, Excluded, Broken, Syso1>>

Pick(seq, chosen) == [n \in 1..Cardinality(chosen) |->
    seq[CHOOSE k \in chosen : Cardinality({m \in chosen : m <= k}) = n]]

Lib(files, cgo, deps, filter, instrumented, recompile, generated) ==
    [srcs |-> files, generated |-> generated, cgo |-> cgo, deps |-> deps, testfilter |-> filter,
     instrumented |-> instrumented, recompile |-> recompile]

HasC(files) == \E f \in Range(files) : f.ext \in CExts
AllDeps == <<DepA, DepB>>

\* Sources from both lists, all flags of cgo and coverage; the rule rejects C sources without cgo.
Mixes ==
    {l \in {Lib(<<PlainA>> \o Pick(Optional, o) \o Pick(More, m), cgo, AllDeps, "off", i, {}, {PlainGen.name}) :
               o \in SUBSET (1..5), m \in {{}, {1}, {2}, {4}, {5}, {6}, {1, 2}}, cgo, i \in BOOLEAN} :
        HasC(l.srcs) => l.cgo}
\* Test filters, empty packages, missing and doubtful dependencies, recompiled ones.
Specials ==
    {Lib(s, TRUE, d, t, i, r, {}) :
        s \in {<<PlainA, XTest>>, <<XTest, PlainGen, C>>, <<S>>, <<Other(<<"t">>, "txt"), PlainA>>, <<>>, <<CgoGen, PlainA>>},
        d \in {<<>>, AllDeps, <<DepOld, DepB, DepA>>, <<DepB, DepOld>>}, t \in {"off", "only", "exclude"},
        i \in BOOLEAN, r \in {{}, {"a"}}}
MCLibs == Mixes \cup Specials

MCModes == {[pure |-> p, coverdata |-> TRUE, exportH |-> e, work |-> e] : p, e \in BOOLEAN}
=============================================================================
