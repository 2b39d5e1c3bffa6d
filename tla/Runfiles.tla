------------------------------ MODULE Runfiles -------------------------------
(***************************************************************************)
(* The runfiles library: New finds a runfiles tree, described by a         *)
(* manifest or laid out in a directory, and goroutines that share the      *)
(* object locate, open and list runfiles. A manifest-backed object builds  *)
(* a trie of its manifest the first time a directory is opened, without    *)
(* any synchronisation.                                                    *)
(* A path is a sequence of segments, a canonical repository name, which is *)
(* matched against prefixes, a sequence of characters, here numbers.       *)
(***************************************************************************)
EXTENDS Naturals, Sequences, FiniteSets

CONSTANTS
    Goroutine,   \* users of one Runfiles object
    Setups,      \* surroundings and uses of the object, records of type Setup
    Segment,     \* segments of paths; with "", "." and ".."
    Target,      \* files and directories the links of the tree point to
    Empty,       \* the target of an empty runfile, which exists in the tree only
    NoRepo, Nil

Location == {"optManifest", "envManifest", "optDirectory", "envDirectory",
             "besideManifest", "besideDirectory"}
Path == Seq(Segment) \ {<<>>}

Starts(p, prefix) == Len(prefix) <= Len(p) /\ SubSeq(p, 1, Len(prefix)) = prefix
Below(p, dir) == Starts(p, dir) /\ Len(p) > Len(dir)
Rest(p, prefix) == SubSeq(p, Len(prefix) + 1, Len(p))
Prefixes(p) == {SubSeq(p, 1, n) : n \in 1..Len(p)}

\* The lines of a repository mapping, [source, wild, to, dir] or Nil for a bad one: "no prefix can
\* be a prefix of another prefix", and the repositories it stands for have longer names.
IsMapping(lines, sources) ==
    LET good == {lines[n] : n \in DOMAIN lines} \ {Nil}
        wild == {l \in good : l.wild}
    IN  /\ Len(lines) \in Nat /\ lines = [n \in 1..Len(lines) |-> lines[n]]
        /\ \A l \in good : l.source \in Seq(Nat) /\ l.wild \in BOOLEAN /\ l.dir # NoRepo
        /\ \A l, m \in wild : Starts(l.source, m.source) => l.source = m.source
        /\ \A l \in wild : l.source \notin sources

\* given: the locations that are set or found, broken: those whose manifest cannot be read.
\* index: the links of the tree. inside: the paths below a target that is a directory.
\* lines: those of the repository mapping.
\* zero: the object is the zero value. users: the goroutines that share the object.
\* sources, paths, names, pages: the canonical names of the repositories calls are made
\* from, the arguments of Rlocation, those of Open but ".", and those of ReadDir, where 0
\* stands for all numbers that are not positive.
\* No link of a tree lies below another.
IsSetup(s) ==
    /\ s.given \subseteq Location /\ s.broken \subseteq s.given
    /\ DOMAIN s.index \subseteq Path /\ \A k \in DOMAIN s.index : s.index[k] \in Target \cup {Empty}
    /\ s.inside \in [Target -> SUBSET Path] /\ s.dirs \subseteq Target /\ s.missing \subseteq Target
    /\ s.zero \in BOOLEAN /\ s.users \subseteq Goroutine /\ IsFiniteSet(s.users)
    /\ s.sources \subseteq Seq(Nat) /\ s.paths \subseteq Path /\ s.names \subseteq Path
    /\ s.pages \subseteq Nat
    /\ \A j, k \in DOMAIN s.index : Starts(j, k) => j = k
    /\ IsMapping(s.lines, s.sources)

ASSUME SetupAssumption == \A s \in Setups : IsSetup(s)

VARIABLES
    setup,    \* the surroundings
    found,    \* the location New chose, "none", or "new" before
    object,   \* "new", "zero", "manifest", "directory" or "error"
    trie,     \* manifest.trie: the nonempty prefixes it holds, or Nil
    pc,       \* pc[g]: "idle", "trie", "make", "build", "lookup", "root" or "page"
    call,     \* call[g]: the pending or the last call and its answer
    todo,     \* todo[g]: keys of the index g has yet to put into the trie
    handle,   \* handle[g]: the directory g has open, or Nil
    dead      \* the runtime has stopped the program

vars == <<setup, found, object, trie, pc, call, todo, handle, dead>>

NoCall == [op |-> "none", source |-> Nil, name |-> <<>>, mapped |-> <<>>, answer |-> Nil]

Init ==
    /\ setup \in Setups
    /\ found = "new" /\ object = (IF setup.zero THEN "zero" ELSE "new")
    /\ trie = Nil
    /\ pc = [g \in Goroutine |-> "idle"]
    /\ call = [g \in Goroutine |-> NoCall]
    /\ todo = [g \in Goroutine |-> {}]
    /\ handle = [g \in Goroutine |-> Nil]
    /\ dead = FALSE

-----------------------------------------------------------------------------
(* Paths and repository names *)

\* strings.Compare(a, b) < 0
Less(a, b) ==
    \E n \in 0..Len(a) : /\ Starts(b, SubSeq(a, 1, n))
                         /\ IF n = Len(a) THEN n < Len(b) ELSE n < Len(b) /\ a[n + 1] < b[n + 1]

\* isNormalizedPath: what is looked for lies before, behind or between slashes.
isNormalizedPath(p) ==
    /\ Len(p) >= 2 => \A n \in 1..Len(p) : p[n] \notin {".", ".."}
    /\ \A n \in 2..(Len(p) - 1) : p[n] # ""

-----------------------------------------------------------------------------
(* The repository mapping *)

\* A later line for the same key overwrites an earlier one.
LinesFor(wild, source, to) ==
    {n \in DOMAIN setup.lines : /\ setup.lines[n].wild = wild /\ setup.lines[n].source = source
                                /\ setup.lines[n].to = to}
DirOf(ns) == IF ns = {} THEN NoRepo ELSE setup.lines[CHOOSE n \in ns : \A m \in ns : m <= n].dir

WildPrefixes == {setup.lines[n].source : n \in {m \in DOMAIN setup.lines : setup.lines[m].wild}}

\* Mutant: the prefix at the position of the binary search, not the one before.
PrefixFor_NoStep(source) ==
    {p \in WildPrefixes : /\ ~Less(p, source) /\ Starts(source, p)
                          /\ \A q \in WildPrefixes : ~Less(q, source) => q = p \/ Less(p, q)}

\* The prefix before the position of the binary search, if the name starts with it.
PrefixFor(source) ==
    {p \in WildPrefixes : /\ Less(p, source) /\ Starts(source, p)
                          /\ \A q \in WildPrefixes : Less(q, source) => q = p \/ Less(q, p)}

ExactDir(source, to) == DirOf(LinesFor(FALSE, source, to))
PrefixDir(source, to) == DirOf(UNION {LinesFor(TRUE, p, to) : p \in PrefixFor(source)})

\* repoMapping.Get
Get(source, to) == IF ExactDir(source, to) # NoRepo THEN ExactDir(source, to) ELSE PrefixDir(source, to)

\* repoMapping.ForEachVisible, turned round: which names a directory of the root has.
\* The order of the iteration decides when there are several.
Apparent(source, dir) == {to \in Segment : dir \in {ExactDir(source, to), PrefixDir(source, to)}}

Mapped(source, p) ==
    IF Get(source, p[1]) = NoRepo THEN p ELSE <<Get(source, p[1])>> \o Tail(p)

-----------------------------------------------------------------------------
(* New *)

Has(l) == l \in setup.given

Discover ==
    IF Has("optManifest") THEN "optManifest"
    ELSE IF Has("envManifest") THEN "envManifest"
    ELSE IF Has("optDirectory") THEN "optDirectory"
    ELSE IF Has("envDirectory") THEN "envDirectory"
    ELSE IF Has("besideManifest") THEN "besideManifest"
    ELSE IF Has("besideDirectory") THEN "besideDirectory" ELSE "none"

\* New, directly or through global.init. A bad line of the repository mapping is an error.
New ==
    /\ object = "new"
    /\ found' = Discover
    /\ object' = IF Discover = "none" \/ Discover \in setup.broken \/ (\E n \in DOMAIN setup.lines : setup.lines[n] = Nil)
                 THEN "error"
                 ELSE IF Discover \in {"optManifest", "envManifest", "besideManifest"}
                 THEN "manifest" ELSE "directory"
    /\ UNCHANGED <<setup, trie, pc, call, todo, handle, dead>>

-----------------------------------------------------------------------------
(* Lookup in the manifest and in the file system *)

NotExist == "notExist"
Invalid == "invalid"

\* What is at path rest below target t (external: the file system).
OSKind(t, rest) ==
    CASE t = Empty -> NotExist
      [] t \in setup.missing -> NotExist
      [] rest = <<>> -> IF t \in setup.dirs THEN "dir" ELSE "file"
      [] rest \in setup.inside[t] -> IF \E q \in setup.inside[t] : Below(q, rest) THEN "dir" ELSE "file"
      [] OTHER -> NotExist

\* The loop of manifest.path: the longest prefix that is listed.
Listed(p) == {k \in DOMAIN setup.index \cap Prefixes(p) :
                 \A j \in DOMAIN setup.index \cap Prefixes(p) : Len(j) <= Len(k)}

\* manifest.path: where a runfile is, as a target and a path below it, or why there is none.
ManifestPath(p) ==
    IF Listed(p) = {} THEN <<NotExist>>
    ELSE LET k == CHOOSE x \in Listed(p) : TRUE
         IN  IF k = p /\ setup.index[k] = Empty THEN <<"empty">> ELSE <<setup.index[k], Rest(p, k)>>

\* Directory.path: the place in the tree, whether anything is there or not.
DirectoryPath(p) == <<"tree", p>>

\* What the tree has at p when it is laid out as a directory (external: Bazel).
TreeKind(p) ==
    LET links == {k \in DOMAIN setup.index : Starts(p, k)}
    IN  IF p \in DOMAIN setup.index /\ setup.index[p] = Empty THEN "file"
        ELSE IF links # {} THEN LET k == CHOOSE x \in links : TRUE IN OSKind(setup.index[k], Rest(p, k))
        ELSE IF p = <<>> \/ \E k \in DOMAIN setup.index : Below(k, p) THEN "dir" ELSE NotExist

\* The names a directory of the tree lists, links and directories alike.
TreeNames(p) == {k[Len(p) + 1] : k \in {j \in DOMAIN setup.index : Below(j, p)}}

-----------------------------------------------------------------------------
(* Calls *)

Idle(g) == ~dead /\ pc[g] = "idle" /\ object \in {"zero", "manifest", "directory"}
Answer(g, op, s, n, m, a) ==
    call' = [call EXCEPT ![g] = [op |-> op, source |-> s, name |-> n, mapped |-> m, answer |-> a]]
Answered(g, a) == call' = [call EXCEPT ![g].answer = a]

Locate(m) == IF object = "manifest" THEN ManifestPath(m) ELSE DirectoryPath(m)

\* Rlocation: a name without a slash is not mapped.
RlocationOf(s, p) ==
    IF object = "zero" \/ p = <<"">> \/ ~isNormalizedPath(p) \/ p[1] = "\\" THEN <<Invalid>>
    ELSE IF p[1] = "" THEN <<"absolute", p>>
    ELSE Locate(IF Len(p) >= 2 THEN Mapped(s, p) ELSE p)

\* Rlocation on WithSourceRepo(s).
Rlocation(g) ==
    /\ Idle(g)
    /\ \E s \in setup.sources, p \in setup.paths : Answer(g, "rlocation", s, p, p, RlocationOf(s, p))
    /\ UNCHANGED <<setup, found, object, trie, pc, todo, handle, dead>>

\* What an entry of a directory is said to be. In a manifest, no target means a directory.
EntryKind(p) ==
    IF object = "directory" THEN TreeKind(p)
    ELSE IF p \in DOMAIN setup.index /\ setup.index[p] # Empty THEN OSKind(setup.index[p], <<>>)
    ELSE "dir"

Entries(dir, names) ==
    {[name |-> e, at |-> Append(dir, e), kind |-> EntryKind(Append(dir, e))] : e \in names}

Dir(root, s, dir, loaded, left) ==
    [root |-> root, source |-> s, dir |-> dir, loaded |-> loaded, left |-> left,
     listed |-> {}, lost |-> FALSE]

OpenRoot(g) ==
    /\ Idle(g)
    /\ \E s \in setup.sources :
          /\ Answer(g, "open", s, <<".">>, <<>>, "dir")
          /\ handle' = [handle EXCEPT ![g] = Dir(TRUE, s, <<>>, FALSE, {})]
    /\ UNCHANGED <<setup, found, object, trie, pc, todo, dead>>

OpenZero(g) ==
    /\ Idle(g) /\ object = "zero"
    /\ \E s \in setup.sources, n \in setup.names : Answer(g, "open", s, n, n, "panic")
    /\ UNCHANGED <<setup, found, object, trie, pc, todo, handle, dead>>

\* Directory.open
OpenInDirectory(g) ==
    /\ Idle(g) /\ object = "directory"
    /\ \E s \in setup.sources, n \in setup.names :
          LET m == Mapped(s, n) IN
          /\ Answer(g, "open", s, n, m, TreeKind(m))
          /\ handle' = [handle EXCEPT ![g] =
                IF TreeNames(m) = {} THEN Nil ELSE Dir(FALSE, s, m, TRUE, Entries(m, TreeNames(m)))]
    /\ UNCHANGED <<setup, found, object, trie, pc, todo, dead>>

\* manifest.open of a runfile; what is not listed may be a directory, which the trie knows.
OpenInManifest(g) ==
    /\ Idle(g) /\ object = "manifest"
    /\ \E s \in setup.sources, n \in setup.names :
          LET m == Mapped(s, n)
              l == ManifestPath(m)
          IN  /\ Answer(g, "open", s, n, m, IF l = <<NotExist>> THEN Nil ELSE IF l = <<"empty">> THEN "file"
                                            ELSE OSKind(l[1], l[2]))
              /\ pc' = [pc EXCEPT ![g] = IF l = <<NotExist>> THEN "trie" ELSE "idle"]
    /\ handle' = [handle EXCEPT ![g] = Nil]
    /\ UNCHANGED <<setup, found, object, trie, todo, dead>>

\* ReadDir of the root before its entries are known.
ReadRoot(g) ==
    /\ Idle(g) /\ handle[g] # Nil /\ handle[g].root /\ ~handle[g].loaded
    /\ Answer(g, "list", handle[g].source, <<".">>, <<>>, IF object = "zero" THEN "panic" ELSE Nil)
    /\ pc' = [pc EXCEPT ![g] = CASE object = "zero" -> "idle"
                                 [] object = "manifest" -> "trie"
                                 [] object = "directory" -> "root"]
    /\ UNCHANGED <<setup, found, object, trie, todo, handle, dead>>

-----------------------------------------------------------------------------
(* The trie *)

CheckTrie(g) ==
    /\ ~dead /\ pc[g] = "trie"
    /\ pc' = [pc EXCEPT ![g] = IF trie = Nil THEN "make" ELSE "lookup"]
    /\ UNCHANGED <<setup, found, object, trie, call, todo, handle, dead>>

MakeTrie(g) ==
    /\ ~dead /\ pc[g] = "make"
    /\ trie' = {}
    /\ todo' = [todo EXCEPT ![g] = DOMAIN setup.index]
    /\ pc' = [pc EXCEPT ![g] = "build"]
    /\ UNCHANGED <<setup, found, object, call, handle, dead>>

\* Mutant: every segment of a key is put into the root.
InsertKey_Flat(g) ==
    /\ ~dead /\ pc[g] = "build"
    /\ \E k \in todo[g] : /\ trie' = trie \cup {<<k[n]>> : n \in 1..Len(k)}
                          /\ todo' = [todo EXCEPT ![g] = @ \ {k}]
    /\ UNCHANGED <<setup, found, object, pc, call, handle, dead>>

\* The keys of a map come in any order; each goes into the trie the field now holds.
InsertKey(g) ==
    /\ ~dead /\ pc[g] = "build"
    /\ \E k \in todo[g] : /\ trie' = trie \cup Prefixes(k)
                          /\ todo' = [todo EXCEPT ![g] = @ \ {k}]
    /\ UNCHANGED <<setup, found, object, pc, call, handle, dead>>

TrieBuilt(g) ==
    /\ ~dead /\ pc[g] = "build" /\ todo[g] = {}
    /\ pc' = [pc EXCEPT ![g] = "lookup"]
    /\ UNCHANGED <<setup, found, object, trie, call, todo, handle, dead>>

\* The children of a node of the trie.
TrieNames(dir) == {q[Len(q)] : q \in {r \in trie : Len(r) = Len(dir) + 1 /\ Starts(r, dir)}}

LookupDir(g) ==
    LET m == call[g].mapped IN
    /\ ~dead /\ pc[g] = "lookup" /\ call[g].op = "open"
    /\ Answered(g, IF m \in trie THEN "dir" ELSE NotExist)
    /\ handle' = [handle EXCEPT ![g] =
          IF m \in trie THEN Dir(FALSE, call[g].source, m, TRUE, Entries(m, TrieNames(m))) ELSE Nil]
    /\ pc' = [pc EXCEPT ![g] = "idle"]
    /\ UNCHANGED <<setup, found, object, trie, todo, dead>>

\* The map runtime stops the program when it notices a write beside another access.
ConcurrentMapFault(g, h) ==
    /\ ~dead /\ g # h /\ pc[g] = "build" /\ pc[h] \in {"build", "lookup"}
    /\ dead' = TRUE
    /\ UNCHANGED <<setup, found, object, trie, pc, call, todo, handle>>

-----------------------------------------------------------------------------
(* Listing *)

\* The directories of the root under their apparent names; the iteration ends with any of
\* the names of a directory.
Renamed(s, real) ==
    LET dirs == {e \in real : e.kind = "dir" /\ Apparent(s, e.name) # {}}
        chosen == {f \in [dirs -> UNION {Apparent(s, e.name) : e \in dirs}] :
                      \A e \in dirs : f[e] \in Apparent(s, e.name)}
    IN  {{[e EXCEPT !.name = f[e]] : e \in dirs} : f \in chosen}

\* Mutant: the apparent names replace the real ones.
RootEntries_Replace(s, real) ==
    {x \cup {e \in real : Apparent(s, e.name) = {}} : x \in Renamed(s, real)}

RootEntries(s, real) == {real \cup {y \in x : <<y.name>> # y.at} : x \in Renamed(s, real)}

\* initEntries, once the real directory is open; it fails if one of the links is dangling.
InitEntries(g) ==
    LET real == Entries(<<>>, IF object = "manifest" THEN TrieNames(<<>>) ELSE TreeNames(<<>>)) IN
    /\ ~dead /\ call[g].op = "list" /\ pc[g] \in {"lookup", "root"}
    /\ IF \E e \in real : e.kind = NotExist
       THEN /\ Answered(g, "error")
            /\ pc' = [pc EXCEPT ![g] = "idle"]
            /\ UNCHANGED handle
       ELSE /\ \E all \in RootEntries(handle[g].source, real) :
                  handle' = [handle EXCEPT ![g].loaded = TRUE, ![g].left = all]
            /\ pc' = [pc EXCEPT ![g] = "page"]
            /\ UNCHANGED call
    /\ UNCHANGED <<setup, found, object, trie, todo, dead>>

\* ReadDir(n) of a directory whose entries are known. They are sorted, which matters to no
\* property. What a page holds is gone from the directory even if it could not be resolved.
ReadDir(g) ==
    /\ ~dead /\ handle[g] # Nil /\ handle[g].loaded
    /\ pc[g] = "page" \/ pc[g] = "idle"
    /\ \E n \in setup.pages :
          IF n > 0 /\ handle[g].left = {}
          THEN /\ Answer(g, "page", handle[g].source, <<n>>, handle[g].dir, "EOF")
               /\ UNCHANGED handle
          ELSE \E page \in SUBSET handle[g].left :
               LET bad == \E e \in page : e.kind = NotExist IN
               /\ IF n = 0 \/ n > Cardinality(handle[g].left) THEN page = handle[g].left
                  ELSE Cardinality(page) = n
               /\ Answer(g, "page", handle[g].source, <<n>>, handle[g].dir, IF bad THEN "error" ELSE "entries")
               /\ handle' = [handle EXCEPT ![g].left = @ \ page,
                                           ![g].listed = IF bad THEN @ ELSE @ \cup page,
                                           ![g].lost = @ \/ bad]
    /\ pc' = [pc EXCEPT ![g] = "idle"]
    /\ UNCHANGED <<setup, found, object, trie, todo, dead>>

Ended == (dead \/ object = "error") /\ UNCHANGED vars

Step(g) == Rlocation(g) \/ OpenRoot(g) \/ OpenZero(g) \/ OpenInDirectory(g)
           \/ OpenInManifest(g) \/ ReadRoot(g) \/ CheckTrie(g) \/ MakeTrie(g) \/ InsertKey(g)
           \/ TrieBuilt(g) \/ LookupDir(g) \/ InitEntries(g) \/ ReadDir(g)
           \/ \E h \in setup.users : ConcurrentMapFault(g, h)

Next == New \/ (\E g \in setup.users : Step(g)) \/ Ended

Spec == Init /\ [][Next]_vars

-----------------------------------------------------------------------------
(* Properties *)

Applies(line, source, to) ==
    line.to = to /\ IF line.wild THEN Starts(source, line.source) ELSE line.source = source

\* Where a name leads: the lines for exactly this source count before those for all
\* sources that begin alike, of which there is one kind only.
Leads(source, to) ==
    LET ns == {n \in DOMAIN setup.lines : Applies(setup.lines[n], source, to)}
        exact == {n \in ns : ~setup.lines[n].wild}
    IN  DirOf(IF exact # {} THEN exact ELSE ns)

InTree(source, p) == IF Leads(source, p[1]) = NoRepo THEN p ELSE <<Leads(source, p[1])>> \o Tail(p)

\* Rlocation finds what the runfiles tree has under the path, whichever of the prefixes of
\* the mapping the calling repository falls under, whether the runfile is listed or lies in
\* a directory that is, and whatever other goroutines do.
RlocationExact ==
    \A g \in Goroutine :
        LET c == call[g]
            p == IF Len(c.name) >= 2 THEN InTree(c.source, c.name) ELSE c.name
        IN  c.op = "rlocation" /\ c.answer # <<Invalid>> /\ c.name[1] # "" =>
              IF object = "directory" THEN c.answer = <<"tree", p>>
              ELSE \/ c.answer = <<"empty">> /\ p \in DOMAIN setup.index /\ setup.index[p] = Empty
                   \/ \E k \in DOMAIN setup.index : Starts(p, k) /\ c.answer = <<setup.index[k], Rest(p, k)>>
                   \/ c.answer = <<NotExist>> /\ ~\E k \in DOMAIN setup.index : Starts(p, k)

\* What Open has found is what the tree has when it is laid out as a directory.
OpenRight(c) ==
    c.op = "open" /\ c.answer # Nil /\ c.name # <<".">> /\ object # "zero" =>
        c.answer = TreeKind(InTree(c.source, c.name))

\* "Runfiles implements fs.FS regardless of the type of runfiles that backs it": a goroutine
\* that has the object for itself opens the same through a manifest as in a directory.
OpenExact == Cardinality(setup.users) = 1 => \A g \in setup.users : OpenRight(call[g])

\* The names under which the caller sees a directory of the root.
NamesFor(source, dir) == {to \in Segment : Leads(source, to) = dir}

ReadToEnd(h) == h # Nil /\ h.loaded /\ h.left = {} /\ ~h.lost

\* The names under which A lists what directory dir has under the name d.
NamesOf(A, dir, d) == {e.name : e \in {x \in A : x.at = Append(dir, d)}}

\* What a listing says is at p: what the tree has, but an empty runfile of a manifest passes
\* for a directory, because it has no target (manifest.go:218).
KindShown(p) ==
    IF object # "directory" /\ p \in DOMAIN setup.index /\ setup.index[p] = Empty
    THEN "dir" ELSE TreeKind(p)

\* The entries A are those of directory dir of the tree: everything in it is listed under its own
\* name and, in the root, a directory also under the apparent name that leads to it. If several
\* do, it is one of them only, although fs.go:28-31 speaks of the names without exception. Each
\* entry is of the kind that is found under the name it is listed under.
ListedRight(root, source, dir, A) ==
    /\ \A d \in TreeNames(dir) :
          IF root /\ NamesFor(source, d) # {}
          THEN \E to \in NamesFor(source, d) : NamesOf(A, dir, d) = {d, to}
          ELSE NamesOf(A, dir, d) = {d}
    /\ \A e \in A : /\ \E d \in TreeNames(dir) : e.at = Append(dir, d)
                    /\ LET p == Append(dir, e.name)
                       IN  e.kind = KindShown(IF root THEN InTree(source, p) ELSE p)

\* For a goroutine that has the object for itself, a directory read to its end has listed exactly
\* what the tree has, empty runfiles of a manifest as directories, however the reading was cut
\* into pages: nothing more, nothing less, and the root with its apparent names.
ListExact ==
    Cardinality(setup.users) = 1 => \A g \in setup.users :
        LET h == handle[g] IN
        ReadToEnd(h) => ListedRight(h.root, h.source, h.dir, h.listed)

=============================================================================
