------------------------------ MODULE UpgradeDep -------------------------------
(***************************************************************************)
(* releaser upgrade-dep (upgradedep.go): one goroutine per dependency picks *)
(* a version, downloads its archive, regenerates the patches and updates    *)
(* the declaration in memory; when all of them have succeeded, the main     *)
(* goroutine writes WORKSPACE and repositories.bzl.                          *)
(*                                                                         *)
(* A version is [num, pre]: num orders the versions, a pre-release of num   *)
(* comes before num.  Version 0 stands for an argument that is no version   *)
(* of a tag, such as a commit hash.                                         *)
(***************************************************************************)
EXTENDS Integers, Sequences, SequencesExt, FiniteSets

CONSTANTS
    Inputs,     \* the command lines and repositories considered
    Name,       \* the names of dependencies
    Patch,      \* the patch files below third_party
    MaxPatches, \* the most patches a dependency has
    MaxDeps     \* the most dependencies upgraded by one command

\* The declarations name patches of their own, at most MaxPatches.
\* A request is for one version at most. The host answers with one page of tags at least.
ASSUME InputsAssumption ==
    /\ MaxPatches \in Nat
    /\ \A i \in Inputs :
          /\ i.work \in BOOLEAN
          /\ i.decls \in Seq([file : {"WORKSPACE", "repositories.bzl"}, name : Name, directive : BOOLEAN, rel : STRING,
                              urls : BOOLEAN, list : BOOLEAN,
                              patches : Seq([patch : Patch, ok : BOOLEAN, cmd : BOOLEAN])])
          /\ i.args \in Seq([name : STRING, version : SUBSET [num : Nat, pre : BOOLEAN]])
          /\ \A a \in DOMAIN i.args : \A v, w \in i.args[a].version : v = w
          /\ \A d \in DOMAIN i.decls :
                LET pages == i.host[i.decls[d].name].pages IN
                /\ pages \in Seq(Seq([rel : STRING, num : Nat, pre : BOOLEAN, canon : BOOLEAN, assets : Seq(STRING)]))
                /\ pages # <<>>
          /\ \A d, e \in DOMAIN i.decls :
                /\ Len(i.decls[d].patches) <= MaxPatches
                /\ i.decls[d].patches # <<>> => i.decls[d].list
                /\ \A m \in DOMAIN i.decls[d].patches, n \in DOMAIN i.decls[e].patches :
                      i.decls[d].patches[m].patch = i.decls[e].patches[n].patch => d = e /\ m = n

VARIABLES
    input,      \* [start, args, decls, host, work], see below
    main,       \* what the main goroutine does next, or how the command ended
    g,          \* the goroutines of the errgroup
    cancelled,  \* the context of the errgroup is done
    decl,       \* the declarations in memory: sha256, strip_prefix and urls
    disk,       \* the declarations in the two files
    cut,        \* the files that a failed write left incomplete
    dirs,       \* below the work directory: of each name, the directories a, b, ...
    patchFile   \* the patch files

vars == <<input, main, g, cancelled, decl, disk, cut, dirs, patchFile>>

\* input.decls is the sequence of declarations, [file, name, directive, rel, urls, list, patches]:
\* whether the directive is there, its relative path ("" if none), whether there is an
\* attribute urls, whether there is an attribute patches, and the patches, each [patch, ok, cmd].  input.host[name] is the
\* upstream repository: its pages of tags, each [rel, num, pre, canon, assets].
Ended == {"ok", "error", "writeError", "panic"}
Version(t) == [num |-> t.num, pre |-> t.pre]
Less(v, w) == v.num < w.num \/ (v.num = w.num /\ v.pre /\ ~w.pre)

\* A value of an attribute: the archive it is about, and what of it.
Archive(kind, version, asset, what) == [kind |-> kind, version |-> version, asset |-> asset, what |-> what]
V0 == [num |-> 0, pre |-> FALSE]
OldValue == Archive("old", V0, "", "")
Missing == Archive("missing", V0, "", "")

NoDir == [archives |-> {}, applied |-> <<>>]
PatchIs(kind, from, to) == [kind |-> kind, from |-> from, to |-> to]
OldPatch == PatchIs("old", NoDir, NoDir)
CutPatch == PatchIs("cut", NoDir, NoDir)

-----------------------------------------------------------------------------
(* The command line and the files *)

\* repoRoot: BUILD_WORKSPACE_DIRECTORY, or the working directory if it has a WORKSPACE. The
\* walk up the directory tree ends with an error at the first directory that has none, as a
\* PathError is not os.ErrNotExist.
repoRoot == input.start \in {"bazel", "root"}

\* The index of the declarations: of those with one name, the last.
depIndex == [n \in {input.decls[d].name : d \in DOMAIN input.decls} |->
                CHOOSE d \in DOMAIN input.decls :
                    input.decls[d].name = n /\ \A e \in DOMAIN input.decls : input.decls[e].name = n => e <= d]

All == \E k \in DOMAIN input.args : input.args[k].name = "all"
Directive(d) == input.decls[d].directive

\* The calls of upgradeDepDecl: for "all", the declarations with a directive.
Requests ==
    IF All THEN [k \in 1..Cardinality({n \in DOMAIN depIndex : Directive(depIndex[n])}) |->
                    [name |-> SetToSeq({n \in DOMAIN depIndex : Directive(depIndex[n])})[k], version |-> {}]]
    ELSE input.args

Goroutine(r) ==
    [name |-> r.name, version |-> r.version, d |-> depIndex[r.name], pc |-> "attrs", urlsKwarg |-> FALSE,
     page |-> 1, tags |-> <<>>, url |-> Missing, body |-> Missing, n |-> 1, cutPatches |-> {}]

\* Everything before the goroutines are started: an error before anything is touched.
BadArgs ==
    \/ input.args = <<>>
    \/ All /\ Len(input.args) # 1
    \/ ~repoRoot
    \/ ~All /\ \E k \in DOMAIN input.args : input.args[k].name \notin DOMAIN depIndex

\* runUpgradeDep, up to eg.Wait.
Start ==
    /\ main = "start"
    /\ IF BadArgs THEN main' = "error" /\ UNCHANGED g
       ELSE main' = "wait" /\ g' = [k \in DOMAIN Requests |-> Goroutine(Requests[k])]
    /\ UNCHANGED <<input, cancelled, decl, disk, cut, dirs, patchFile>>

-----------------------------------------------------------------------------
(* upgradeDepDecl: the version *)

At(k, pc) == main \notin Ended /\ k \in DOMAIN g /\ g[k].pc = pc
D(k) == input.decls[g[k].d]
Host(k) == input.host[g[k].name]
FileOf(d) == input.decls[d].file

\* The directive and the attributes: those that are missing are added to the call, but
\* urlsKwarg is set only for an attribute that was there.
FindAttrs(k) ==
    /\ At(k, "attrs") /\ D(k).directive
    /\ g' = [g EXCEPT ![k].pc = "tags", ![k].urlsKwarg = decl[g[k].d].urls # Missing]
    /\ decl' = [decl EXCEPT ![g[k].d].urls = IF @ = Missing THEN OldValue ELSE @]
    /\ UNCHANGED <<input, main, cancelled, disk, cut, dirs, patchFile>>

\* Mutant: only the first page is read.
ListTags_FirstPage(k) ==
    /\ At(k, "tags") /\ ~cancelled
    /\ g' = [g EXCEPT ![k].tags = Host(k).pages[1], ![k].pc = "choose"]
    /\ UNCHANGED <<input, main, cancelled, decl, disk, cut, dirs, patchFile>>

\* listTags, listPages: one page, until there is no next one.
ListTags(k) ==
    /\ At(k, "tags") /\ ~cancelled
    /\ LET page == g[k].page IN
       g' = [g EXCEPT ![k].tags = @ \o Host(k).pages[page], ![k].page = page + 1,
                      ![k].pc = IF page = Len(Host(k).pages) THEN "choose" ELSE "tags"]
    /\ UNCHANGED <<input, main, cancelled, decl, disk, cut, dirs, patchFile>>

\* The tags of the relative path that are canonical versions; a pre-release only if one is
\* asked for.
Usable(t, rel, version) ==
    /\ t.rel = rel /\ t.canon
    /\ t.pre => \E v \in version : v.pre

\* What the loop over the usable tags keeps of the tags so far: the highest of them, or the one asked for.
Better(acc, t, version) ==
    IF \E h \in acc : Version(h) \in version THEN acc
    ELSE IF acc = {} \/ Version(t) \in version \/ \E h \in acc : Less(Version(h), Version(t)) THEN {t}
    ELSE acc

highestTag(tags, rel, version) ==
    LET best[n \in 0..Len(tags)] ==
            IF n = 0 THEN {}
            ELSE IF Usable(tags[n], rel, version) THEN Better(best[n - 1], tags[n], version) ELSE best[n - 1]
    IN  best[Len(tags)]

\* The first asset of the release that has one of the two names; the archive of the tag if
\* there is none, or if the release could not be fetched.
TagArchive(t, reached) ==
    LET wanted == SelectSeq(t.assets, LAMBDA a : a \in {"tar.gz", "zip"})
    IN  Archive("tag", Version(t), IF reached /\ wanted # <<>> THEN Head(wanted) ELSE "", "")

\* The URL. Without a tag: the commit asked for, or the tip of the default branch.
Choose(k) ==
    /\ At(k, "choose")
    /\ \E reached \in BOOLEAN :
          /\ cancelled => ~reached
          /\ LET tag == highestTag(g[k].tags, D(k).rel, g[k].version) IN
             \/ \E t \in tag :
                   /\ g[k].version \subseteq {Version(t)}
                   /\ g' = [g EXCEPT ![k].pc = "download", ![k].url = TagArchive(t, reached)]
             \/ /\ tag = {} /\ reached
                /\ g' = [g EXCEPT ![k].pc = "download",
                                  ![k].url = Archive("commit", IF g[k].version = {} THEN V0 ELSE CHOOSE v \in g[k].version : TRUE, "", "")]
    /\ UNCHANGED <<input, main, cancelled, decl, disk, cut, dirs, patchFile>>

-----------------------------------------------------------------------------
(* upgradeDepDecl: the archive and the patches *)

\* http.Get has no context, and the status of the response is not looked at: what was
\* downloaded may be the page that a server sends with an error.
Download(k) ==
    /\ At(k, "download")
    /\ \E what \in {"archive", "page"} :
          g' = [g EXCEPT ![k].body = [g[k].url EXCEPT !.what = what],
                         ![k].pc = IF D(k).list THEN "extract" ELSE "sha256"]
    /\ UNCHANGED <<input, main, cancelled, decl, disk, cut, dirs, patchFile>>

\* strip_prefix: the directory that GitHub puts everything in, below it the relative path;
\* nothing for a release asset, and no relative path for a commit.
stripPrefix(url, rel) ==
    [url EXCEPT !.what = IF url.asset # "" THEN "" ELSE IF url.kind = "tag" /\ rel # "" THEN "sub" ELSE "top"]

\* extractZip, extractTar, extractedPath: entries that do not begin with the prefix and a
\* slash are skipped; with an empty prefix all of them, and the directory is not made.
Extracted(strip) == IF strip.what = "" THEN {} ELSE {strip}

\* The archive is extracted into the first directory, over what is there, also when the list
\* of patches is empty.
Extract(k) ==
    /\ At(k, "extract") /\ g[k].body.what = "archive"
    /\ g' = [g EXCEPT ![k].pc = IF D(k).patches = <<>> THEN "sha256" ELSE "copy"]
    /\ dirs' = [dirs EXCEPT ![g[k].name][0].archives = @ \cup Extracted(stripPrefix(g[k].url, D(k).rel))]
    /\ UNCHANGED <<input, main, cancelled, decl, disk, cut, patchFile>>

Item(k) == D(k).patches[g[k].n]

\* copyDir: the directory to copy must be there; making one that is there is an error.
copyDirOk(name, to, from) == dirs[name][from] # NoDir /\ dirs[name][to] = NoDir

\* Mutant: every patch gets a copy of the first directory.
CopyDir_FirstDir(k) ==
    /\ At(k, "copy") /\ Item(k).ok
    /\ copyDirOk(g[k].name, g[k].n, 0)
    /\ g' = [g EXCEPT ![k].pc = "apply"]
    /\ dirs' = [dirs EXCEPT ![g[k].name][g[k].n] = dirs[g[k].name][0]]
    /\ UNCHANGED <<input, main, cancelled, decl, disk, cut, patchFile>>

\* parsePatchesItem: the label names a file in third_party. The last directory is copied.
CopyDir(k) ==
    /\ At(k, "copy") /\ Item(k).ok
    /\ copyDirOk(g[k].name, g[k].n, g[k].n - 1)
    /\ g' = [g EXCEPT ![k].pc = "apply"]
    /\ dirs' = [dirs EXCEPT ![g[k].name][g[k].n] = dirs[g[k].name][g[k].n - 1]]
    /\ UNCHANGED <<input, main, cancelled, decl, disk, cut, patchFile>>

\* runForError: a command is killed, or not started, when the context is done.
runForError == ~cancelled

\* patch with the patch file as it is, or the command.
Apply(k) ==
    /\ At(k, "apply") /\ runForError
    /\ g' = [g EXCEPT ![k].pc = "diff"]
    /\ dirs' = IF ~Item(k).cmd /\ patchFile[Item(k).patch].kind = "cut" THEN dirs
               ELSE [dirs EXCEPT ![g[k].name][g[k].n].applied = Append(@, Item(k).patch)]
    /\ UNCHANGED <<input, main, cancelled, decl, disk, cut, patchFile>>

\* runForOutput: diff may fail at any time (binary files that differ, a file it cannot read, a
\* signal), and does when the context is done: it has printed nothing, or not everything.
runForOutput(failed, from, to) == IF failed THEN CutPatch ELSE PatchIs("new", from, to)

\* diff, whose error is ignored, and os.WriteFile. cutPatches records where diff has failed.
WritePatch(k) ==
    /\ At(k, "diff")
    /\ \E failed \in BOOLEAN :
          /\ cancelled => failed
          /\ patchFile' = [patchFile EXCEPT ![Item(k).patch] =
                              runForOutput(failed, dirs[g[k].name][g[k].n - 1], dirs[g[k].name][g[k].n])]
          /\ g' = [g EXCEPT ![k].n = @ + 1,
                            ![k].pc = IF g[k].n = Len(D(k).patches) THEN "sha256" ELSE "copy",
                            ![k].cutPatches = IF failed THEN @ \cup {g[k].n} ELSE @]
    /\ UNCHANGED <<input, main, cancelled, decl, disk, cut, dirs>>

\* The attributes, one after the other.  The comment on urls goes through urlsKwarg: nil if
\* the attribute was added.
SetAttr(k) ==
    /\ \/ /\ At(k, "sha256")
          /\ decl' = [decl EXCEPT ![g[k].d].sha256 = g[k].body]
          /\ g' = [g EXCEPT ![k].pc = "strip_prefix"] /\ UNCHANGED main
       \/ /\ At(k, "strip_prefix")
          /\ decl' = [decl EXCEPT ![g[k].d].strip_prefix = stripPrefix(g[k].url, D(k).rel)]
          /\ g' = [g EXCEPT ![k].pc = "urls"] /\ UNCHANGED main
       \/ /\ At(k, "urls")
          /\ decl' = [decl EXCEPT ![g[k].d].urls = g[k].url]
          /\ g' = [g EXCEPT ![k].pc = "remove"]
          /\ main' = IF g[k].urlsKwarg THEN main ELSE "panic"
    /\ UNCHANGED <<input, cancelled, disk, cut, dirs, patchFile>>

\* The deferred call removes the downloaded archive.
RemoveArchive(k) ==
    /\ At(k, "remove")
    /\ g' = [g EXCEPT ![k].pc = "done"]
    /\ UNCHANGED <<input, main, cancelled, decl, disk, cut, dirs, patchFile>>

\* An error: the directive is missing, the version not found, the label of a patch not in
\* third_party, the archive of another format; or the network, a command, the file system.
\* At "diff" it is os.WriteFile that fails, before or after it has truncated the patch file; at
\* "remove" the attributes are set, but the archive cannot be removed.
Fail(k) ==
    /\ \E pc \in {"attrs", "tags", "choose", "download", "extract", "copy", "apply", "diff", "remove"} : At(k, pc)
    /\ At(k, "attrs") => ~D(k).directive
    /\ \/ /\ g' = [g EXCEPT ![k].pc = "failed"] /\ UNCHANGED patchFile
       \/ /\ At(k, "diff")
          /\ g' = [g EXCEPT ![k].pc = "failed", ![k].cutPatches = @ \cup {g[k].n}]
          /\ patchFile' = [patchFile EXCEPT ![Item(k).patch] = CutPatch]
    /\ cancelled' = TRUE
    /\ UNCHANGED <<input, main, decl, disk, cut, dirs>>

-----------------------------------------------------------------------------
(* The end *)

\* signal.NotifyContext: an interrupt ends the context, not the program.
Interrupt ==
    /\ main = "wait" /\ ~cancelled
    /\ cancelled' = TRUE
    /\ UNCHANGED <<input, main, g, decl, disk, cut, dirs, patchFile>>

\* The work directory is removed by a deferred call, unless -work.  It stays when it cannot be
\* removed, an error that is lost, and when it could not be made: the directories are then
\* below the current one, and os.RemoveAll("") removes nothing.
CleanUp ==
    \/ UNCHANGED dirs
    \/ ~input.work /\ dirs' = [n \in Name |-> [k \in 0..MaxPatches |-> NoDir]]

Finished == {k \in DOMAIN g : g[k].pc \in {"done", "failed"}}

\* Mutant: the error of the group is not looked at.
Wait_NoError ==
    /\ main = "wait" /\ Finished = DOMAIN g
    /\ main' = "WORKSPACE" /\ UNCHANGED dirs
    /\ UNCHANGED <<input, g, cancelled, decl, disk, cut, patchFile>>

\* eg.Wait: the error of the first goroutine that failed, when all have finished.
Wait ==
    /\ main = "wait" /\ Finished = DOMAIN g
    /\ IF \E k \in DOMAIN g : g[k].pc = "failed" THEN main' = "error" /\ CleanUp
       ELSE main' = "WORKSPACE" /\ UNCHANGED dirs
    /\ UNCHANGED <<input, g, cancelled, decl, disk, cut, patchFile>>

\* Format and os.WriteFile, for WORKSPACE and then for repositories.bzl.
WriteFile ==
    /\ main \in {"WORKSPACE", "repositories.bzl"}
    /\ \/ /\ disk' = [d \in DOMAIN disk |-> IF FileOf(d) = main THEN decl[d] ELSE disk[d]]
          /\ IF main = "WORKSPACE" THEN main' = "repositories.bzl" /\ UNCHANGED dirs ELSE main' = "ok" /\ CleanUp
          /\ UNCHANGED cut
       \/ /\ cut' = cut \cup {main}
          /\ main' = "writeError" /\ CleanUp /\ UNCHANGED disk
    /\ UNCHANGED <<input, g, cancelled, decl, patchFile>>

Init ==
    /\ input \in Inputs
    /\ main = "start" /\ g = <<>> /\ cancelled = FALSE
    /\ decl = [d \in DOMAIN input.decls |->
                  [sha256 |-> OldValue, strip_prefix |-> OldValue,
                   urls |-> IF input.decls[d].urls THEN OldValue ELSE Missing]]
    /\ disk = decl /\ cut = {}
    /\ dirs = [n \in Name |-> [k \in 0..MaxPatches |-> NoDir]]
    /\ patchFile = [p \in Patch |-> OldPatch]

Exited == main \in Ended /\ UNCHANGED vars

Next ==
    \/ Start \/ Interrupt \/ Wait \/ WriteFile \/ Exited
    \/ \E k \in 1..MaxDeps :
          \/ FindAttrs(k) \/ ListTags(k) \/ Choose(k) \/ Download(k) \/ Extract(k)
          \/ CopyDir(k) \/ Apply(k) \/ WritePatch(k) \/ SetAttr(k) \/ RemoveArchive(k) \/ Fail(k)

Spec == Init /\ [][Next]_vars

-----------------------------------------------------------------------------
(* Properties *)

\* The versions that may be chosen: all pages of tags count, whatever their order.
Candidates(k) ==
    {Version(t) : t \in {u \in UNION {Range(p) : p \in Range(Host(k).pages)} : Usable(u, D(k).rel, g[k].version)}}

\* "upgrade-dep finds the highest version available in the upstream repository. If no
\* version is available, upgrade-dep uses the commit at the tip of the default branch";
\* of the versions of the dependency's own directory, and no other than the one asked for.
NewestVersion ==
    \A k \in DOMAIN g : g[k].url # Missing =>
        LET v == g[k].url.version IN
        IF Candidates(k) = {} THEN g[k].url.kind = "commit" /\ g[k].version \subseteq {v}
        ELSE /\ g[k].url.kind = "tag" /\ v \in Candidates(k)
             /\ IF g[k].version # {} THEN v \in g[k].version ELSE \A w \in Candidates(k) : ~Less(v, w)

\* The patch number n of a declaration, regenerated for an archive.
Regenerated(d, n, strip) ==
    LET applied == [m \in 1..n |-> input.decls[d].patches[m].patch]
    IN  PatchIs("new", [archives |-> {strip}, applied |-> Front(applied)], [archives |-> {strip}, applied |-> applied])

Untouched(d) ==
    disk[d] = [sha256 |-> OldValue, strip_prefix |-> OldValue, urls |-> IF input.decls[d].urls THEN OldValue ELSE Missing]

Twice(name) == Cardinality({k \in DOMAIN g : g[k].name = name}) > 1

\* A patch file of a dependency asked for once is incomplete if its own diff has failed, or writing
\* it.  Otherwise it is the old one until its turn has come, and then the patch regenerated on
\* the new archive, on top of the patches before it, also of one whose diff has failed.  It may
\* be ahead of the declaration: the patches are written at once, the files at the end.
PatchesInOrder ==
    \A k \in DOMAIN g, n \in 1..MaxPatches : n \in DOMAIN D(k).patches /\ ~Twice(g[k].name) =>
        patchFile[D(k).patches[n].patch] =
            IF n \in g[k].cutPatches THEN CutPatch
            ELSE IF n < g[k].n THEN Regenerated(g[k].d, n, stripPrefix(g[k].url, D(k).rel)) ELSE OldPatch

\* Success means that every dependency asked for, and no other, has an archive, its sum and
\* its prefix in its file, and all its patches regenerated for it, but for those whose diff has
\* failed, which is not noticed, and for dependencies asked for twice.  An error before the files
\* are written, be it the last step of the last goroutine, leaves both as they were and no
\* goroutine running; an error in between leaves the second file as it was.
AllOrNothing ==
    /\ main = "ok" => \A d \in DOMAIN disk :
          IF \E k \in DOMAIN g : g[k].d = d
          THEN \A k \in DOMAIN g : g[k].d = d /\ ~Twice(g[k].name) =>
                  /\ disk[d].sha256 = g[k].body /\ disk[d].urls = g[k].url
                  /\ disk[d].strip_prefix = stripPrefix(g[k].url, D(k).rel)
                  /\ \A n \in DOMAIN D(k).patches : n \notin g[k].cutPatches =>
                        patchFile[D(k).patches[n].patch] = Regenerated(d, n, disk[d].strip_prefix)
          ELSE Untouched(d)
    /\ main \in {"error", "panic"} => cut = {} /\ \A d \in DOMAIN disk : Untouched(d)
    /\ main = "writeError" => \A d \in DOMAIN disk : FileOf(d) \in cut \cup {"repositories.bzl"} => Untouched(d)
    /\ main \in Ended \ {"panic"} => Finished = DOMAIN g
=============================================================================
