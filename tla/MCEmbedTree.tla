---------------------------- MODULE MCEmbedTree ------------------------------
(* Packages with a source and an output directory: files of both, a directory of each, *)
(* and up to three embed sources in any order.                                         *)
EXTENDS EmbedTree

MCName == {"src", "bin", "pkg", "main", "a", "d", "e", "x", ".h", ".git"}
MCHidden == {".h", ".git"}
MCBad == {".git"}

SrcDir == <<"src", "pkg">>
BinDir == <<"bin", "pkg">>

MCFiles ==
    {SrcDir \o p : p \in {<<"main">>, <<"a">>, <<"x">>, <<"d", "x">>, <<"d", ".h">>, <<"d", "e", "x">>, <<"d", ".git", "x">>}}
    \cup {BinDir \o p : p \in {<<"a">>, <<"x", "a">>, <<"d", "a">>, <<"e", ".h", "x">>, <<"e", "a">>}}

EmbedSources == {SrcDir \o <<"a">>, BinDir \o <<"a">>, SrcDir \o <<"d">>, SrcDir \o <<"d", "x">>, SrcDir \o <<"x">>,
                 BinDir \o <<"x", "a">>, BinDir \o <<"d">>, BinDir \o <<"e">>, SrcDir \o <<"d", ".git", "x">>}
Strange == {SrcDir \o <<"e">>, <<"src", "a">>}

Pattern(all, segs) == [valid |-> TRUE, all |-> all, segs |-> segs]
Any == MCName \cup {NoName}
Names == <<Pattern(FALSE, <<{"a"}>>), Pattern(FALSE, <<{"d", "e"}>>)>>
All == <<Pattern(TRUE, <<{"d"}>>), Pattern(FALSE, <<{"e"}, Any>>)>>
InGit == <<Pattern(FALSE, <<{"d"}, {".git"}, Any>>)>>
Star == <<Pattern(FALSE, <<Any>>)>>
Wrong == <<[valid |-> FALSE, all |-> FALSE, segs |-> <<>>]>>

Main(embeds, imports) == [path |-> SrcDir \o <<"main">>, imports |-> imports, embeds |-> embeds]
Input(goSrcs, embedSrcs) ==
    [goSrcs |-> goSrcs, embedSrcs |-> embedSrcs, roots |-> <<SrcDir, BinDir>>, files |-> MCFiles]

MCInputs ==
    {Input(<<Main(p, TRUE)>>, <<x, y, z>>) : p \in {Names, All, Star, InGit}, x, y, z \in EmbedSources}
    \cup {Input(<<Main(Names, TRUE), Main(Star, FALSE)>>, <<x, y>>) : x, y \in EmbedSources \cup Strange}
    \cup {Input(<<Main(p, i)>>, <<>>) : p \in {Names, <<>>, Wrong}, i \in BOOLEAN}
    \cup {Input(<<Main(Star, TRUE), [path |-> SrcDir \o <<"d", "main">>, imports |-> TRUE, embeds |-> Star]>>, <<>>)}
=============================================================================
