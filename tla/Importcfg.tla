----------------------------- MODULE Importcfg ---------------------------------
(***************************************************************************)
(* The import check of the builder and the importcfg files it writes for   *)
(* the compiler and the linker (go/tools/builders/importcfg.go). An archive *)
(* is a record [importPath, aliases, packagePath, file]; the archives of an *)
(* action are a sequence, in the order of its -arc flags.                  *)
(***************************************************************************)
EXTENDS Naturals, Sequences, FiniteSets

CONSTANTS
    Std,         \* the packages of the standard library's package list
    IsRelative,  \* the import paths that begin with "./" or "../"
    Nil          \* in place of an archive: a package of the standard library

ASSUME StdAssumption == Nil \notin Std

-----------------------------------------------------------------------------
(* checkImports *)

\* Both indexes are maps filled in order: the last archive of an import path stays.
Named(archives, path) == {n \in DOMAIN archives : archives[n].importPath = path}
Aliased(archives, path) == {n \in DOMAIN archives : path \in archives[n].aliases}
LastOf(archives, places) == archives[CHOOSE n \in places : \A m \in places : m <= n]

Known(archives, path) == path \in Std \/ Named(archives, path) # {} \/ Aliased(archives, path) # {}

\* Mutant: an alias is preferred to the import path of another archive.
ResolveImport_AliasFirst(archives, path) ==
    IF path \in Std THEN Nil
    ELSE IF Aliased(archives, path) # {} THEN LastOf(archives, Aliased(archives, path))
    ELSE LastOf(archives, Named(archives, path))

ResolveImport(archives, path) ==
    IF path \in Std THEN Nil
    ELSE IF Named(archives, path) # {} THEN LastOf(archives, Named(archives, path))
    ELSE LastOf(archives, Aliased(archives, path))

\* The outcome for files that import the paths in imported. An import of a package that is
\* compiled again for a test is an error of its own, found before any missing ones are reported.
checkImports(imported, archives, recompiled) ==
    LET paths == imported \ ({"C"} \cup IsRelative)
        found == {p \in paths : Known(archives, p)}
    IN  [err |-> IF paths \cap recompiled # {} THEN "cycle"
                 ELSE IF found # paths THEN "missing" ELSE "none",
         imports |-> [p \in found |-> ResolveImport(archives, p)]]

-----------------------------------------------------------------------------
(* The importcfg files, as sets of lines *)

PackageFile(path, file) == [verb |-> "packagefile", path |-> path, to |-> file]
ImportMap(path, packagePath) == [verb |-> "importmap", path |-> path, to |-> packagePath]
StdFile(path) == <<"goroot", path>>

buildImportcfgFileForCompile(imports) ==
    LET std == {p \in DOMAIN imports : imports[p] = Nil}
        own == DOMAIN imports \ std
    IN  {PackageFile(p, StdFile(p)) : p \in std}
        \cup {ImportMap(p, imports[p].packagePath) : p \in {q \in own : imports[q].packagePath # q}}
        \cup {PackageFile(imports[p].packagePath, imports[p].file) : p \in own}

\* The linker must not see a package path twice.
Conflict(archives) ==
    \E m, n \in DOMAIN archives : m # n /\ archives[m].packagePath = archives[n].packagePath

buildImportcfgFileForLink(archives) ==
    {PackageFile(p, StdFile(p)) : p \in Std}
    \cup {PackageFile(archives[n].packagePath, archives[n].file) : n \in DOMAIN archives}

\* What the compiler and the linker read from such a file: the package path that an import
\* stands for, and the files given for a package path.
Mapped(cfg, path) ==
    IF \E l \in cfg : l.verb = "importmap" /\ l.path = path
    THEN (CHOOSE l \in cfg : l.verb = "importmap" /\ l.path = path).to ELSE path
FilesOf(cfg, packagePath) == {l.to : l \in {k \in cfg : k.verb = "packagefile" /\ k.path = packagePath}}
=============================================================================
