----------------------------- MODULE EmbedTree -------------------------------
(***************************************************************************)
(* How the compile action finds the files of //go:embed directives:        *)
(* buildEmbedcfgFile puts the embed sources of all root directories into   *)
(* one tree, matches every pattern against it and writes which file each   *)
(* embedded path stands for.                                               *)
(* A path is a sequence of names. The tree is a function from the paths of *)
(* its nodes, so that recursive visits are sets of paths.                  *)
(***************************************************************************)
EXTENDS Naturals, Sequences, FiniteSets

CONSTANTS
    Name,      \* names of files and directories
    Hidden,    \* those that begin with "." or "_"
    Bad,       \* those isBadEmbedName rejects: version control directories
    Inputs,    \* the inputs of a compile action considered, records of type Input
    NoName

Path == Seq(Name)

\* goSrcs: [path, imports (whether it imports embed), embeds (its patterns)]; a pattern is
\* [valid, all, segs], where segs[n] is the set of names its nth segment matches, with NoName
\* for the empty name, which a segment of stars matches too.
\* files: the files on disk, as absolute paths, none of which is a directory.
Below(p, dir) == Len(p) > Len(dir) /\ SubSeq(p, 1, Len(dir)) = dir
IsInput(x) ==
    /\ x.embedSrcs \in Seq(Path) /\ x.roots \in Seq(Path)
    /\ x.files \subseteq Path /\ \A f, g \in x.files : ~Below(f, g)

ASSUME NameAssumption == Hidden \subseteq Name /\ Bad \subseteq Name /\ \A x \in Inputs : IsInput(x)

VARIABLES
    input,
    phase,      \* "scan", "add", "resolve", or the outcome: "written", "none", "error", "panic"
    pos,        \* the next embed source, or the next pattern
    nodes,      \* [file, dir] for every path of the tree but the root
    Patterns,   \* embedcfg.Patterns: the paths found for a pattern
    Files       \* embedcfg.Files: the file of every path found

embedVars == <<input, phase, pos, nodes, Patterns, Files>>

EmbedInit ==
    /\ input \in Inputs
    /\ phase = "scan" /\ pos = 1
    /\ nodes = <<>> /\ Patterns = <<>> /\ Files = <<>>

-----------------------------------------------------------------------------
(* Paths and root directories *)

Rest(p, dir) == SubSeq(p, Len(dir) + 1, Len(p))
Parents(p) == {SubSeq(p, 1, n) : n \in 1..(Len(p) - 1)}

IsDir(p) == \E f \in input.files : Below(f, p)
Exists(p) == p \in input.files \/ IsDir(p)

\* The positions of the root directories that contain p; findInRootDirs takes the first.
RootsOf(p) == {n \in DOMAIN input.roots : Below(p, input.roots[n])}
findInRootDirs(p) == input.roots[CHOOSE n \in RootsOf(p) : \A m \in RootsOf(p) : n <= m]
Rel(p) == Rest(p, findInRootDirs(p))

Misplaced(src) ==
    src.embeds # <<>> /\ (RootsOf(src.path) = {} \/ Len(Rel(src.path)) > 1)

\* The loop over the Go sources: no tree is built unless embed is imported and used.
Scan ==
    LET srcs == {input.goSrcs[n] : n \in DOMAIN input.goSrcs} IN
    /\ phase = "scan"
    /\ phase' = IF \E s \in srcs : Misplaced(s) THEN "error"
                ELSE IF (\E s \in srcs : s.imports) /\ (\E s \in srcs : s.embeds # <<>>)
                THEN "add" ELSE "none"
    /\ UNCHANGED <<input, pos, nodes, Patterns, Files>>

-----------------------------------------------------------------------------
(* buildEmbedTree *)

More == phase = "add" /\ pos <= Len(input.embedSrcs)
Src == input.embedSrcs[pos]

IgnoreSrc ==
    /\ More /\ RootsOf(Src) = {}
    /\ pos' = pos + 1
    /\ UNCHANGED <<input, phase, nodes, Patterns, Files>>

\* The source does not exist, or one of its directories cannot be read.
MissingSrc ==
    /\ More /\ RootsOf(Src) # {} /\ (~Exists(Src) \/ IsDir(Src))
    /\ phase' = "error"
    /\ UNCHANGED <<input, pos, nodes, Patterns, Files>>

\* A node of a file has no map for children: a path below it cannot be added.
BlockedSrc ==
    /\ More /\ RootsOf(Src) # {} /\ Exists(Src)
    /\ \E p \in Parents(Rel(Src)) : p \in DOMAIN nodes /\ ~nodes[p].dir
    /\ phase' = "panic"
    /\ UNCHANGED <<input, pos, nodes, Patterns, Files>>

FileNode(f) == [file |-> f, dir |-> FALSE]
DirNode(f) == [file |-> f, dir |-> TRUE]

\* The paths of the files and directories in directory p, which visit reaches.
Inside(p) == UNION {{Rest(q, p) : q \in {r \in Parents(f) \cup {f} : Below(r, p)}} :
                       f \in {g \in input.files : Below(g, p)}}

\* Mutant: a later source replaces the node of an earlier one.
AddTo_LastWins(tree, p) ==
    LET src == Src
        contents == IF IsDir(src) THEN Inside(src) ELSE {}
        stays == {q \in DOMAIN tree : ~(IsDir(src) /\ Below(q, p)) /\ q # p}
    IN  [q \in stays \cup Parents(p) \cup {p} \cup {p \o c : c \in contents} |->
            IF q \in stays THEN tree[q]
            ELSE IF q \in Parents(p) THEN DirNode(NoName)
            ELSE IF IsDir(src \o Rest(q, p)) THEN DirNode(src \o Rest(q, p)) ELSE FileNode(src \o Rest(q, p))]

\* embedNode.add at path p: nodes for the parents, the node of the source unless there is
\* one, and for a directory a new map of children with all that is in it.
AddTo(tree, p) ==
    LET src == Src
        own == IF p \in DOMAIN tree THEN tree[p] ELSE FileNode(src)
        contents == IF IsDir(src) THEN Inside(src) ELSE {}
        stays == {q \in DOMAIN tree : ~(IsDir(src) /\ Below(q, p))}
    IN  [q \in stays \cup Parents(p) \cup {p} \cup {p \o c : c \in contents} |->
            IF q = p THEN [own EXCEPT !.dir = own.dir \/ IsDir(src)]
            ELSE IF q \in stays THEN tree[q]
            ELSE IF q \in Parents(p) THEN DirNode(NoName)
            ELSE IF IsDir(src \o Rest(q, p)) THEN DirNode(src \o Rest(q, p)) ELSE FileNode(src \o Rest(q, p))]

AddSrc ==
    /\ More /\ RootsOf(Src) # {} /\ Exists(Src)
    /\ \A p \in Parents(Rel(Src)) : p \in DOMAIN nodes => nodes[p].dir
    /\ nodes' = AddTo(nodes, Rel(Src))
    /\ pos' = pos + 1
    /\ UNCHANGED <<input, phase, Patterns, Files>>

TreeBuilt ==
    /\ phase = "add" /\ pos > Len(input.embedSrcs)
    /\ phase' = "resolve" /\ pos' = 1
    /\ UNCHANGED <<input, nodes, Patterns, Files>>

-----------------------------------------------------------------------------
(* resolveEmbed *)

\* The patterns of all sources, in order.
Embeds ==
    LET srcs == input.goSrcs
        upTo[n \in 0..Len(srcs)] == IF n = 0 THEN <<>> ELSE upTo[n - 1] \o srcs[n].embeds
    IN  upTo[Len(srcs)]

\* path.Match: the root of the tree has the empty path, which "*" matches.
Match(pattern, p) ==
    IF p = <<>> THEN Len(pattern.segs) = 1 /\ NoName \in pattern.segs[1]
    ELSE Len(p) = Len(pattern.segs) /\ \A n \in 1..Len(p) : p[n] \in pattern.segs[n]

Last(p) == p[Len(p)]

\* Mutant: hidden files are found in a directory that matches.
Skipped_BadOnly(pattern, name) == name \in Bad

\* What a walk of a matching directory leaves out.
Skipped(pattern, name) == name \in Bad \/ (~pattern.all /\ name \in Hidden)

\* The nodes that match. The walk does not go on below a directory that does: where the
\* root matches, it is the only one.
MatchedNodes(pattern) ==
    IF Match(pattern, <<>>) THEN {<<>>} ELSE {q \in DOMAIN nodes : Match(pattern, q)}

\* The files that match, and those in a directory that does.
Matches(pattern) ==
    {q \in DOMAIN nodes :
        /\ ~nodes[q].dir
        /\ \E p \in MatchedNodes(pattern) :
              /\ q = p \/ Below(q, p)
              /\ \A n \in (Len(p) + 1)..Len(q) : ~Skipped(pattern, q[n])}

\* Only the base name of the match is looked at, not the directories above it.
BadMatch(pattern) == \E q \in MatchedNodes(pattern) : q # <<>> /\ Last(q) \in Bad

Resolve ==
    LET e == Embeds[pos] IN
    /\ phase = "resolve" /\ pos <= Len(Embeds)
    /\ e.valid /\ ~BadMatch(e) /\ Matches(e) # {}
    /\ Patterns' = [x \in DOMAIN Patterns \cup {e} |-> IF x = e THEN Matches(e) ELSE Patterns[x]]
    /\ Files' = [q \in DOMAIN Files \cup Matches(e) |-> IF q \in Matches(e) THEN nodes[q].file ELSE Files[q]]
    /\ pos' = pos + 1
    /\ UNCHANGED <<input, phase, nodes>>

ResolveFails ==
    LET e == Embeds[pos] IN
    /\ phase = "resolve" /\ pos <= Len(Embeds)
    /\ ~e.valid \/ BadMatch(e) \/ Matches(e) = {}
    /\ phase' = "error"
    /\ UNCHANGED <<input, pos, nodes, Patterns, Files>>

WriteFile ==
    /\ phase = "resolve" /\ pos > Len(Embeds)
    /\ phase' \in {"written", "error"}
    /\ UNCHANGED <<input, pos, nodes, Patterns, Files>>

Ended == phase \in {"written", "none", "error", "panic"} /\ UNCHANGED embedVars

EmbedNext == Scan \/ IgnoreSrc \/ MissingSrc \/ BlockedSrc \/ AddSrc \/ TreeBuilt
        \/ Resolve \/ ResolveFails \/ WriteFile \/ Ended

EmbedSpec == EmbedInit /\ [][EmbedNext]_embedVars

-----------------------------------------------------------------------------
(* Properties *)

\* The sources that provide path q, and the file of the first of them.
Providers(q) ==
    {n \in DOMAIN input.embedSrcs :
        LET s == input.embedSrcs[n] IN
        /\ RootsOf(s) # {} /\ (Rel(s) = q \/ Below(q, Rel(s)))
        /\ findInRootDirs(s) \o q \in input.files}
Provided(q) ==
    LET n == CHOOSE x \in Providers(q) : \A y \in Providers(q) : x <= y
    IN  findInRootDirs(input.embedSrcs[n]) \o q

\* The paths that sources provide.
AllProvided == {q \in UNION {{Rest(f, input.roots[n]) : f \in {g \in input.files : Below(g, input.roots[n])}} :
                                n \in DOMAIN input.roots} : Providers(q) # {}}

\* No source lies at or below the path of another, but for two files of one path.
Disjoint ==
    \A m, n \in DOMAIN input.embedSrcs :
        LET r == input.embedSrcs[m]
            s == input.embedSrcs[n]
        IN  m # n /\ RootsOf(r) # {} /\ RootsOf(s) # {} =>
                ~Below(Rel(r), Rel(s)) /\ (Rel(r) = Rel(s) => ~IsDir(s))

\* Every path found stands for the file of the first source that provides it: "If a node
\* already exists (for example, if a source file and a generated file have the same name),
\* add leaves the existing node in place". That a directory replaces what was found below
\* its path before is left to sources that do not overlap.
FirstWins ==
    phase = "written" /\ Disjoint =>
        \A q \in DOMAIN Files : Providers(q) # {} /\ Files[q] = Provided(q)

\* A pattern finds exactly the files provided at or below the topmost path it matches whose
\* names from there on are neither bad nor, unless it says all:, hidden. None is lost on
\* the way through the tree.
FoundExactly ==
    phase = "written" /\ Disjoint =>
        \A e \in DOMAIN Patterns :
            Patterns[e] = {q \in AllProvided :
                \E n \in 0..Len(q) :
                    /\ Match(e, SubSeq(q, 1, n))
                    /\ \A k \in 0..(n - 1) : ~Match(e, SubSeq(q, 1, k))
                    /\ \A m \in (n + 1)..Len(q) : q[m] \notin Bad /\ (e.all \/ q[m] \notin Hidden)}

=============================================================================
