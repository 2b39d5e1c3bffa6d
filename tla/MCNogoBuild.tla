----------------------------- MODULE MCNogoBuild -----------------------------
(* Builds of three packages: a chain, a diamond side or independent packages. *)
EXTENDS NogoBuild

CONSTANTS lib, mid, app, other

\* mid and app depend on lib, app on mid as well or not.
Shapes ==
    {[p \in {lib, mid, app} |-> IF p = app THEN {mid, lib} ELSE IF p = mid THEN {lib} ELSE {}],
     [p \in {lib, mid, app} |-> IF p = app THEN {mid} ELSE IF p = mid THEN {lib} ELSE {}],
     [p \in {lib, mid, app} |-> IF p = app THEN {mid, lib} ELSE {}]}

Build(shape, untagged, scope, cgo, empty, maps, producers) ==
    [deps |-> shape, noNogo |-> untagged, validated |-> scope, cgo |-> cgo, empty |-> empty,
     importpath |-> [p \in Package |-> p], importmap |-> maps, producers |-> producers]

SameMap == [p \in Package |-> p]

\* Every package is compiled under its import path.
MCSetups ==
    {Build(shape, n, v, c, e, SameMap, TRUE) :
        shape \in Shapes, n \in {{}, {mid}}, v \in {{app}, {lib, app}}, c \in {{mid}}, e \in {{}, {lib}}}
    \cup {Build(shape, {}, {app}, {}, {}, SameMap, FALSE) : shape \in Shapes}

\* lib is vendored: it is imported as lib and compiled as other.
MCVendored ==
    {Build(shape, {}, {app}, {}, {}, [SameMap EXCEPT ![lib] = other], TRUE) : shape \in Shapes}
=============================================================================
