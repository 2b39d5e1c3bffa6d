------------------------------- MODULE MCLink ---------------------------------
(* Builds of seven targets: coverdata, two leaves that may have one import path or one       *)
(* importmap, a library, one that may embed it, one that may depend on it or on the leaves,   *)
(* and the main package.                                                                      *)
EXTENDS Link

MCStd == {"std"}
MCRelative == {}
MCPrefixed == "1" :> "v1"
MCStable == {"STABLE_A", "BUILD_USER"}

Purl(path, version) == {[golang |-> TRUE, path |-> path, version |-> version]}
NotGo == {[golang |-> FALSE, path |-> "x", version |-> "1"]}
NoDefs == <<>>

T(importpath, importmap, aliases, deps, embed, imports, xdefs, metadata) ==
    [importpath |-> importpath, importmap |-> importmap, inferred |-> "m", aliases |-> aliases, deps |-> deps,
     embed |-> embed, imports |-> imports, x_defs |-> xdefs, metadata |-> metadata]

Cov == T("coverdata", None, {}, <<>>, <<>>, {"std"}, NoDefs, {})
LeafC == T("c", None, {}, <<>>, <<>>, {"std"}, NoDefs, Purl("mod", "v1"))
LeafD(path, map, aliases, meta) == T(path, map, aliases, <<>>, <<>>, {}, NoDefs, meta)
Embedded(deps, imports) == T("e", None, {}, deps, <<>>, imports, (<<None, "V">> :> {}), Purl("mod", "v2"))
LibA(path, embed, deps, imports) == T(path, None, {}, deps, embed, imports, (<<None, "V">> :> {"STABLE_A"}), {})
LibB(deps, imports) == T("b", None, {}, deps, <<>>, imports, (<<"e", "V">> :> {"OTHER"}), Purl("main", "v3"))
MainT(embed, deps, imports, xdefs, meta) == T(None, None, {}, deps, embed, imports, xdefs, meta)

Build(targets, coverage, buildmode, stamp, status) ==
    [targets |-> targets, coverage |-> coverage, buildmode |-> buildmode, stamp |-> stamp, status |-> status]

Shapes ==
    {<<Cov, LeafC, d, e, a, b>> :
        d \in {LeafD("d", None, {}, NotGo), LeafD("c", "vendor/c", {"d"}, Purl("mod", "1")), LeafD("c", None, {}, Purl("mod", None))},
        e \in {Embedded(<<2>>, {"c"}), Embedded(<<3, 2>>, {"c"})},
        a \in {LibA(p, m, s, {"std"} \cup i) : p \in {None, "a"}, m \in {<<>>, <<4>>}, s \in {<<>>, <<3>>}, i \in {{}, {"c"}}},
        b \in {LibB(<<4>>, {"e"}), LibB(<<2>>, {"c"}), LibB(<<3, 2>>, {"d", "std"})}}

Defs == <<None, "V">> :> {"STABLE_A", "OTHER"} @@ <<"e", "V">> :> {}
Mains ==
    {MainT(<<>>, <<5, 6>>, {"e", "b"}, NoDefs, Purl("main", "v0")),
     MainT(<<>>, <<6, 5>>, {"b"}, Defs, {}),
     MainT(<<4>>, <<6, 1>>, {"b"}, <<>>, NotGo),
     MainT(<<5>>, <<3>>, {"c"}, <<None, "V">> :> {"STABLE_A", "OTHER"}, {})}

AllBuilds ==
    {Build(Append(s, m), c, "exe", TRUE, {"STABLE_A", "OTHER"}) : s \in Shapes, m \in Mains, c \in BOOLEAN}
    \cup {Build(<<Cov, LeafC, LeafD("d", None, {}, NotGo), Embedded(<<2>>, {"c"}),
                  LibA("a", <<>>, <<3>>, {}), LibB(<<4>>, {"e"}), m>>, FALSE, mode, stamp, status) :
             m \in Mains \cup {MainT(<<>>, <<6>>, {"b"}, <<>>, Purl(None, None))},
             mode \in {"exe", "c-archive"}, stamp \in BOOLEAN,
             status \in SUBSET {"STABLE_A", "OTHER", "BUILD_USER"}}

\* Nothing can import a main package: no other package of the binary has its path.
MCBuilds == {b \in AllBuilds :
    LET a == Analysed(b.targets)
        main == Len(a)
    IN  \A n \in a[main].transitive \ {main} : a[n].info.importmap # a[main].info.importmap}
=============================================================================
