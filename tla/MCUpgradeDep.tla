----------------------------- MODULE MCUpgradeDep ------------------------------
(* Two dependencies, x with two patches and y with one or none, or x alone at one or two      *)
(* versions; upstream repositories with up to three tags on up to two pages.                  *)
EXTENDS UpgradeDep

Tag(num) == [rel |-> "", num |-> num, pre |-> FALSE, canon |-> TRUE, assets |-> <<>>]
Tags ==
    {Tag(1), Tag(2), [Tag(3) EXCEPT !.pre = TRUE], [Tag(4) EXCEPT !.canon = FALSE],
     [Tag(5) EXCEPT !.rel = "sub"], [Tag(2) EXCEPT !.assets = <<"other", "zip", "tar.gz">>]}
PagesOf(S) == {<<<<s>>, <<t>>>> : s, t \in S} \cup {<<<<r>>, <<s, t>>>> : r, s, t \in S} \cup {<<<<>>>>}
One == <<<<Tag(1), Tag(2)>>>>
Asset == <<<<[Tag(1) EXCEPT !.assets = <<"tar.gz">>]>>>>

Item1(p) == [patch |-> p, ok |-> TRUE, cmd |-> FALSE]
XPatches == <<[Item1("x1") EXCEPT !.cmd = TRUE], Item1("x2")>>
YPatches == <<Item1("y1")>>

Declare(file, name, patches) ==
    [file |-> file, name |-> name, directive |-> TRUE, rel |-> "", urls |-> TRUE, list |-> patches # <<>>, patches |-> patches]
X == Declare("WORKSPACE", "x", XPatches)
Y == Declare("repositories.bzl", "y", YPatches)

Arg(name) == [name |-> name, version |-> {}]
ArgAt(name, num, pre) == [name |-> name, version |-> {[num |-> num, pre |-> pre]}]

Input(args, decls, xpages, ypages) ==
    [start |-> "root", args |-> args, decls |-> decls, work |-> FALSE,
     host |-> [n \in {"x", "y"} |-> [pages |-> IF n = "x" THEN xpages ELSE ypages]]]

\* The version of one dependency.
VersionInputs ==
    {Input(<<a>>, <<[X EXCEPT !.patches = <<>>, !.list = FALSE, !.rel = r]>>, pages, One) :
        a \in {Arg("x"), ArgAt("x", 0, FALSE), ArgAt("x", 1, FALSE), ArgAt("x", 3, TRUE)}, r \in {"", "sub"},
        pages \in PagesOf(Tags)}

\* Two dependencies at once: all of them, or both by name, or one of them; releases with assets;
\* a label that is no patch of third_party; a dependency without a directive, without urls, or with an empty list of patches.
TwoInputs ==
    {Input(args, <<x, y>>, One, ypages) :
        args \in {<<Arg("all")>>, <<Arg("x"), ArgAt("y", 1, FALSE)>>, <<Arg("x")>>},
        x \in {X, [X EXCEPT !.patches = <<[Item1("x1") EXCEPT !.ok = FALSE]>>]},
        y \in {Y, [Y EXCEPT !.directive = FALSE], [Y EXCEPT !.urls = FALSE], [Y EXCEPT !.patches = <<>>],
               [Y EXCEPT !.rel = "sub"]},
        ypages \in {One, Asset}}

\* Declared in both files; asked for twice; run by bazel or from elsewhere; arguments that are wrong.
OtherInputs ==
    {Input(<<Arg("y")>>, <<[Y EXCEPT !.file = "WORKSPACE", !.patches = <<>>], Y>>, One, One),
     Input(<<ArgAt("x", 1, FALSE), ArgAt("x", 2, FALSE)>>, <<[X EXCEPT !.patches = <<Item1("x2")>>], Y>>, One, One),
     Input(<<Arg("x"), Arg("z")>>, <<X>>, One, One), Input(<<Arg("all"), Arg("x")>>, <<X>>, One, One),
     Input(<<>>, <<X>>, One, One), [Input(<<Arg("x")>>, <<X>>, One, One) EXCEPT !.start = "below"],
     [Input(<<Arg("x")>>, <<X>>, One, One) EXCEPT !.start = "bazel", !.work = TRUE]}

MCInputs == VersionInputs \cup TwoInputs \cup OtherInputs
=============================================================================
