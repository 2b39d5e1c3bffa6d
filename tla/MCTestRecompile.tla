--------------------------- MODULE MCTestRecompile ---------------------------
(* All tests over four libraries A to D, each depending on earlier ones only, with the *)
(* dependencies listed in one order or the other.                                      *)
EXTENDS TestRecompile

CONSTANTS libA, libB, libC, libD

Library == <<libA, libB, libC, libD>>
Place(l) == CHOOSE n \in DOMAIN Library : Library[n] = l

\* A set of libraries as a list: the numbers of its members in ascending or descending order.
Listed(S, up) ==
    LET Earlier(l) == {k \in S : IF up THEN Place(k) < Place(l) ELSE Place(k) > Place(l)}
    IN  [n \in 1..Cardinality(S) |-> CHOOSE l \in S : Cardinality(Earlier(l)) = n - 1]

Graphs == [{libB, libC, libD} -> SUBSET {libA, libB, libC}]
Ordered == {g \in Graphs : \A l \in {libB, libC, libD} : \A k \in g[l] : Place(k) < Place(l)}

DepsIn(g, l) == IF l = libA THEN {} ELSE g[l]
MCTest(g, own, embeds, up) ==
    LET direct == own \cup UNION {DepsIn(g, e) : e \in embeds}
    IN  [deps |-> [l \in Label |-> IF l = Test THEN Listed(direct, up) ELSE Listed(DepsIn(g, l), up)],
         embeds |-> embeds, cgo |-> up, imports |-> IF up THEN direct \cap {libB} ELSE direct,
         path |-> [l \in Label |-> IF l \in embeds THEN Test ELSE l]]

\* Two embedded libraries share a path, so that nothing depends on both.
OnePath(x) == \A l \in Label : Cardinality(Range(x.deps[l]) \cap x.embeds) <= 1

MCInputs ==
    {x \in {MCTest(g, own, embeds, up) : g \in Ordered, own \in SUBSET {libA, libB, libC, libD}, up \in BOOLEAN,
                embeds \in {{}, {libA}, {libB}, {libC}, {libA, libB}}} : OnePath(x)}
=============================================================================
