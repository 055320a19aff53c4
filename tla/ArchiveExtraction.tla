-------------------------- MODULE ArchiveExtraction --------------------------
(***************************************************************************)
(* unpack_stripped (crates/espeak-rs-sys/build.rs), which extracts an      *)
(* archive of espeak-ng into a fresh directory: the filters on each entry, *)
(* and what the tar crate's Entry::unpack then does to the directory.      *)
(*                                                                         *)
(* A path is a sequence of components: names, "..", "." and "/", the root. *)
(* The destination is the empty path.  Its contents are a function from    *)
(* the paths that exist to what is there, and the file system resolves     *)
(* symbolic links on the way to a file; the filters only see names.        *)
(***************************************************************************)
EXTENDS Naturals, Sequences, SequencesExt, FiniteSets

CONSTANTS
    Names,       \* of files and directories
    Entries,     \* the entries an archive may have: their kind, path and link
    MaxEntries,  \* bound: the entries of an archive
    MaxWalk      \* bound: the components a walk looks at, for the limit on links

Components == Names \cup {"..", ".", "/"}

ASSUME ArchiveAssumption ==
    /\ {"..", ".", "/"} \cap Names = {}
    /\ MaxEntries \in Nat
    /\ MaxWalk \in Nat
    /\ \A e \in Entries :
          /\ e.kind \in {"file", "dir", "symlink", "other"}
          /\ e.path # <<>>
          /\ {Tail(e.path), e.link} \subseteq Seq(Components)

VARIABLES
    archive,   \* the entries read so far
    tree,      \* the destination: what is at each path that exists
    symlinks,  \* the set of that name in unpack_stripped
    extraction \* "running", "ok", "failed"

extractionVars == <<archive, tree, symlinks, extraction>>

Dir == [kind |-> "dir", link |-> <<>>]
File == [kind |-> "file", link |-> <<>>]
Symlink(link) == [kind |-> "symlink", link |-> link]

-----------------------------------------------------------------------------
(* The file system.                                                        *)

\* A name is looked up in the directory the walk is at.
LookUp(w) ==
    LET next == Append(w.at, Head(w.todo))
        rest == Tail(w.todo)
    IN  IF next \notin DOMAIN tree THEN [w EXCEPT !.status = "missing"]
        ELSE CASE tree[next].kind = "dir" -> [w EXCEPT !.at = next, !.todo = rest]
               [] tree[next].kind = "file" -> [w EXCEPT !.status = "file"]
               [] tree[next].kind = "symlink" -> [w EXCEPT !.todo = tree[next].link \o rest]

\* One component of a walk that is at a directory and has a path to go.
WalkStep(w) ==
    LET ch == Head(w.todo)
        out == ch = "/" \/ (ch = ".." /\ w.at = <<>>)
    IN  IF w.status # "walking" \/ w.todo = <<>> THEN w
        ELSE CASE ch = "." -> [w EXCEPT !.todo = Tail(@)]
               [] ch = ".." /\ ~out -> [w EXCEPT !.at = Front(@), !.todo = Tail(@)]
               [] out -> [w EXCEPT !.status = "outside"]
               [] ch \in Names -> LookUp(w)

\* Where a path leads: the directory reached, and how the walk ended; what is
\* missing, or the file that was met, is the head of todo.
Walk(path) ==
    LET walk[n \in 0..MaxWalk] ==
            IF n = 0 THEN [at |-> <<>>, todo |-> path, status |-> "walking"]
            ELSE WalkStep(walk[n - 1])
    IN  walk[MaxWalk]

\* create_dir_all of the parent, then unpack into it: where an entry lands.
Landing(relative) ==
    LET w == Walk(Front(relative))
    IN  [dir |-> w.at \o (IF w.status = "missing" THEN w.todo ELSE <<>>),
         ok  |-> \/ w.status = "walking" /\ w.todo = <<>>
                 \/ w.status = "missing" /\ Range(w.todo) \subseteq Names]

\* What Entry::unpack makes of what is at its target: files and links are
\* removed first, a directory stays, and nothing replaces a directory.
CanUnpack(entry, target) ==
    target \in DOMAIN tree =>
        CASE entry.kind = "dir" ->
               LET w == Walk(target) IN w.status = "walking" /\ w.todo = <<>>
          [] OTHER -> tree[target].kind # "dir"

Unpacked(entry, target) ==
    CASE entry.kind = "dir" -> IF target \in DOMAIN tree THEN tree[target] ELSE Dir
      [] entry.kind = "file" -> File
      [] OTHER -> Symlink(entry.link)

-----------------------------------------------------------------------------
(* The filters.                                                            *)

\* stripped_path: None is the empty path.
StrippedPath(path) ==
    IF path # <<>> /\ Range(Tail(path)) \subseteq Names THEN Tail(path) ELSE <<>>

\* Faulty variant: ".." is counted wherever it is.
StaysInsideByCount(relative, link) ==
    /\ Range(link) \subseteq Names \cup {"..", "."}
    /\ Cardinality({i \in DOMAIN link : link[i] = ".."}) < Len(relative)

\* symlink_stays_inside: ".." only before any name, and no more of them than
\* there are directories between the destination and the link.
SymlinkStaysInside(relative, link) ==
    /\ Range(link) \subseteq Names \cup {"..", "."}
    /\ \A i \in DOMAIN link : link[i] = ".." =>
          /\ \A j \in 1..i : link[j] \notin Names
          /\ Cardinality({j \in 1..i : link[j] = ".."}) < Len(relative)

\* entry_is_safe: hard links, devices and the like are refused.
EntryIsSafe(entry, relative) ==
    \/ entry.kind \in {"file", "dir"}
    \/ entry.kind = "symlink" /\ SymlinkStaysInside(relative, entry.link)

\* Faulty variant: nothing is below a symlink.
NotBelowASymlink(relative) == FALSE

\* is_below_a_symlink, by name.
IsBelowASymlink(relative) ==
    Prefixes(Front(relative)) \cap symlinks # {}

-----------------------------------------------------------------------------

ExtractionInit ==
    /\ archive = <<>>
    /\ tree = [path \in {<<>>} |-> Dir]
    /\ symlinks = {}
    /\ extraction = "running"

Read(entry) ==
    /\ extraction = "running"
    /\ Len(archive) < MaxEntries
    /\ archive' = Append(archive, entry)

\* `continue`: the archive's root, GitHub's pax header, paths that leave it.
Skip(entry) ==
    /\ Read(entry)
    /\ StrippedPath(entry.path) = <<>>
    /\ UNCHANGED <<tree, symlinks, extraction>>

Refuse(entry) ==
    /\ Read(entry)
    /\ LET relative == StrippedPath(entry.path)
       IN  /\ relative # <<>>
           /\ \/ ~EntryIsSafe(entry, relative)
              \/ IsBelowASymlink(relative)
    /\ extraction' = "failed"
    /\ UNCHANGED <<tree, symlinks>>

Unpack(entry) ==
    /\ Read(entry)
    /\ LET relative == StrippedPath(entry.path)
           landing == Landing(relative)
           target == Append(landing.dir, Last(relative))
           parents == Prefixes(landing.dir)
       IN  /\ relative # <<>>
           /\ EntryIsSafe(entry, relative)
           /\ ~IsBelowASymlink(relative)
           /\ symlinks' = symlinks \cup
                             (IF entry.kind = "symlink" THEN {relative} ELSE {})
           /\ IF landing.ok /\ CanUnpack(entry, target)
              THEN /\ tree' = [path \in DOMAIN tree \cup parents \cup {target} |->
                                  IF path = target THEN Unpacked(entry, target)
                                  ELSE IF path \in DOMAIN tree THEN tree[path] ELSE Dir]
                   /\ UNCHANGED extraction
              ELSE extraction' = "failed" /\ UNCHANGED tree

\* The end of the archive, or bytes that cannot be read.
EndOfArchive ==
    /\ extraction = "running"
    /\ extraction' \in {"ok", "failed"}
    /\ UNCHANGED <<archive, tree, symlinks>>

ExtractionNext ==
    \/ \E entry \in Entries : Skip(entry) \/ Refuse(entry) \/ Unpack(entry)
    \/ EndOfArchive

ExtractionSpec == ExtractionInit /\ [][ExtractionNext]_extractionVars

-----------------------------------------------------------------------------
(* Properties.                                                             *)

\* No path in the extracted tree, through however many links of the archive,
\* leads out of it: the lexical check of each link by itself is enough for any
\* combination of them (the comment of symlink_stays_inside, build.rs:226).
LinksStayInside ==
    \A n \in 1..3 : \A path \in [1..n -> Names] : Walk(path).status # "outside"

\* Every entry lands at the path it names, whatever links were extracted
\* before: after a successful extraction the last entry of each path is what is
\* there, and nothing is anywhere else (is_below_a_symlink, build.rs:271).
EntriesLandWhereNamed ==
    LET relative(i) == StrippedPath(archive[i].path)
        kept == {i \in DOMAIN archive : relative(i) # <<>>}
        named == {<<>>} \cup UNION {Prefixes(relative(i)) : i \in kept}
    IN  extraction # "failed" =>
          /\ DOMAIN tree \subseteq named
          /\ \A i \in kept :
                (\A j \in kept : j > i => relative(j) # relative(i)) =>
                    /\ relative(i) \in DOMAIN tree
                    /\ archive[i].kind # "dir" =>
                          tree[relative(i)] = Unpacked(archive[i], relative(i))

-----------------------------------------------------------------------------
(* Why they hold.                                                          *)

Node == [kind : {"file", "dir", "symlink"}, link : Seq(Components)]

ExtractionTypes ==
    /\ archive \in Seq(Entries)
    /\ DOMAIN tree \subseteq Seq(Names) /\ tree \in [DOMAIN tree -> Node]
    /\ symlinks \subseteq Seq(Names)

\* The names of the filters are those of the tree: a link is where it was
\* recorded, and it is the place its target was checked from.
LinksChecked ==
    \A path \in DOMAIN tree : tree[path].kind = "symlink" =>
        path \in symlinks /\ SymlinkStaysInside(path, tree[path].link)

ExtractionInv == ExtractionTypes /\ LinksChecked /\ EntriesLandWhereNamed

=============================================================================
