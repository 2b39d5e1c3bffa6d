----------------------------- MODULE MCNogoFix ------------------------------
(* Instances of NogoFix: three diagnostics with up to two alternative fixes  *)
(* over two files of three bytes.                                            *)
EXTENDS NogoFix

CONSTANTS f1, f2, A, B

Edit(x, s, e, t) == [file |-> x, start |-> s, end |-> e, new |-> t]

MCText == {<<>>, <<A>>, <<B>>}

InsertA  == <<Edit(f1, 1, 1, <<A>>)>>
InsertB  == <<Edit(f1, 1, 1, <<B>>)>>
Delete   == <<Edit(f1, 0, 2, <<>>), Edit(f2, 1, 1, <<A>>)>>
Move     == <<Edit(f1, 2, 3, <<>>), Edit(f1, 0, 0, <<B>>)>>
Replace  == <<Edit(f2, 0, 2, <<B>>), Edit(f1, 1, 2, <<A>>)>>
Inverted == <<Edit(f1, 3, 2, <<A>>)>>
Lost     == <<Edit(f2, 2, 3, <<A>>), Edit(NoFile, 1, 1, <<B>>)>>

Fixes == {InsertA, InsertB, Delete, Move, Replace, Inverted, Lost}

Diagnostics == {<<x>> : x \in Fixes} \cup
               {<<x, y>> : x \in {Delete, Replace, Lost}, y \in {InsertA, Delete, Move}}

MCInputs == {<<x, y, z>> : x, y, z \in Diagnostics} \cup {<<>>, <<<<>>, <<InsertA>>>>}

\* The files have three bytes each; the positions of a fix lie in them.
MCSource == [x \in File |-> <<"x", "y", "z">>]
MCByte == {A, B, "x", "y", "z"}
=============================================================================
