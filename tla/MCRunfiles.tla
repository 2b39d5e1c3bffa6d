----------------------------- MODULE MCRunfiles ------------------------------
(* Trees with an empty runfile, a directory that is a runfile and dangling links;     *)
(* a repository mapping with exact lines, one of them overwritten, and two prefixes.  *)
EXTENDS Runfiles, TLC

CONSTANTS fA, fB, dT, gone, g1, g2

MCSegment == {"main", "lib", "lib1", "own", "a", "sub", "b", "tree", "x", "y", "z", "init", "link",
              "lost", "none", "", ".", "..", "\\"}
MCTarget == {fA, fB, dT, gone}

Row(source, wild, to, dir) == [source |-> source, wild |-> wild, to |-> to, dir |-> dir]

Small == <<"main", "a">> :> fA @@ <<"main", "sub", "b">> :> fB @@ <<"lib1", "tree">> :> dT
WithEmpty == Small @@ <<"lib1", "sub", "a">> :> fA @@ <<"link">> :> fA @@ <<"lib1", "init">> :> Empty
WithLost == <<"main", "a">> :> fA @@ <<"main", "lost">> :> gone @@ <<"lib1", "b">> :> fB
LostRoot == <<"main", "a">> :> fA @@ <<"lost">> :> gone

\* The main repository, <<>>, and those of two extensions, <<2, 1>> and <<2, 3>>, map lib.
Rows == <<Row(<<>>, FALSE, "lib", "main"), Row(<<>>, FALSE, "lib", "lib1"), Row(<<>>, FALSE, "own", "main"),
          Row(<<2, 1>>, TRUE, "lib", "main"), Row(<<2, 3>>, TRUE, "lib", "lib1"),
          Row(<<2, 3, 7>>, FALSE, "own", "lib1")>>

At(given, index, lines) ==
    [given |-> given, broken |-> {}, index |-> index, lines |-> lines, zero |-> FALSE, users |-> {g1},
     inside |-> [t \in MCTarget |-> IF t = dT THEN {<<"x">>, <<"y">>, <<"y", "z">>} ELSE {}],
     dirs |-> {dT}, missing |-> {gone},
     sources |-> {<<>>, <<2, 3, 7>>}, paths |-> {}, pages |-> {0, 1, 2},
     names |-> {<<"lib", "tree">>, <<"lib", "tree", "y">>, <<"lib", "tree", "none">>, <<"lib1", "init">>,
                <<"lib1", "sub">>, <<"main", "sub">>, <<"lib">>, <<"own">>, <<"main">>, <<"main", "none">>,
                <<"link">>}]

\* One goroutine opens and lists; both backends.
Listing ==
    {At({l}, WithEmpty, Rows) : l \in {"optManifest", "optDirectory"}}
    \cup {At({l}, i, <<>>) : l \in {"envManifest", "envDirectory"}, i \in {WithLost, LostRoot}}

\* One goroutine locates, from five repositories.
Locating ==
    {[At({l}, WithEmpty, Rows) EXCEPT !.names = {}, !.pages = {0},
        !.sources = {<<>>, <<2, 1, 7>>, <<2, 2>>, <<2, 3, 1>>, <<2, 3, 7>>},
        !.paths = {<<"lib", "tree", "x">>, <<"main", "sub", "b">>, <<"lib1", "init">>, <<"lib", "none">>,
                   <<"link">>, <<"lib">>, <<"">>, <<"a", "..", "b">>, <<"a", "", "b">>, <<"", "a">>,
                   <<"\\", "a">>}] : l \in {"optManifest", "optDirectory"}}

\* Two goroutines locate, open and list.
Sharing ==
    {[At({"envManifest"}, Small, Rows) EXCEPT !.users = {g1, g2}, !.sources = {<<>>}, !.pages = {0},
        !.names = {<<"main", "sub">>, <<"lib", "tree">>},
        !.paths = {<<"lib", "tree", "x">>, <<"main", "sub", "b">>}]}

\* Discovery, its failures, and the zero object.
Finding ==
    {[At(given, Small, Rows) EXCEPT !.names = {<<"main", "sub">>}, !.pages = {0}] :
        given \in {{}, {"besideManifest", "besideDirectory"}, {"optDirectory", "envManifest"}}}
    \cup {[At({"envManifest"}, Small, Rows) EXCEPT !.broken = {"envManifest"}],
          At({"envDirectory"}, Small, <<Nil>>),
          [At({}, Small, <<>>) EXCEPT !.zero = TRUE]}

MCSetups == Listing \cup Locating \cup Sharing \cup Finding
=============================================================================
