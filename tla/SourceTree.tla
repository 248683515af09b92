----------------------------- MODULE SourceTree -----------------------------
(***************************************************************************)
(* The sources of a widget as its creator sends them (sourcetree.rs): a    *)
(* folder, walked, or an archive of it, read under Rules::SOURCES. "Both   *)
(* become the same Tree": what is built and reviewed does not depend on    *)
(* the form.                                                               *)
(*                                                                         *)
(* A path is a sequence of names, and a name stands for its kind. Left     *)
(* out: contents, sizes, letter case, and that a name which is not UTF-8   *)
(* or an unreadable file is an error of its own.                           *)
(***************************************************************************)
EXTENDS Naturals, Sequences, FiniteSets

CONSTANTS
    Hidden,            \* names that start with a dot
    LeftOutFolders,    \* node_modules, dist, __MACOSX
    LeftOutFiles,      \* keys, built packages, system files
    NotPortable,       \* names that are not portable ASCII
    Forbidden,         \* names with a character Windows forbids
    SourcePaths,       \* bound: the files a folder may hold
    Wrappers,          \* bound: names of a folder that wraps an archive
    MaxFiles,          \* MAX_FILES
    MaxFolders         \* MAX_DEPTH

ASSUME SourcesAssumption ==
    /\ SourcePaths \subseteq Seq(STRING) \ {<<>>}
    /\ Wrappers \subseteq STRING \ {"tests"}
    /\ "manifest" \notin Hidden \cup LeftOutFiles /\ "__MACOSX" \in LeftOutFolders
    /\ MaxFiles \in Nat /\ MaxFolders \in Nat

VARIABLE sources       \* the files of a folder, its links, and its archive's wrapping

Manifest == <<"manifest">>
NameOf(path) == path[Len(path)]
FoldersAbove(path) == {SubSeq(path, 1, i) : i \in 1 .. Len(path) - 1}

FolderReason(folder) ==
    NameOf(folder) \in Hidden \cup LeftOutFolders \/ folder = <<"tests", "output">>
FileReason(name) == name \in Hidden \cup LeftOutFiles
Ignored(path) == FileReason(NameOf(path)) \/ \E f \in FoldersAbove(path) : FolderReason(f)

Refusal == [refused |-> TRUE, files |-> {}]
Tree(files) == [refused |-> FALSE, files |-> files]

-----------------------------------------------------------------------------
(* A folder: `walk` goes into what it does not leave out, and the first    *)
(* error ends it.                                                          *)
NotWalked(folder) == FolderReason(folder) \/ NameOf(folder) \in NotPortable
Stops(folder) == NameOf(folder) \in Forbidden \/ Len(folder) > MaxFolders
Reached(path) == \A f \in FoldersAbove(path) : ~NotWalked(f) /\ ~Stops(f)
FoldersOfAll(files) == UNION {FoldersAbove(path) : path \in files}

FileKept(path) == Reached(path) /\ ~FileReason(NameOf(path)) /\ NameOf(path) \notin NotPortable

ReadFolder(files, links) ==
    LET regular == {path \in files \ links : FileKept(path)} IN
    IF \/ \E f \in FoldersOfAll(files) : Reached(f) /\ ~NotWalked(f) /\ Stops(f)
       \/ \E path \in regular : NameOf(path) \in Forbidden
       \/ Cardinality(regular) > MaxFiles
    THEN Refusal ELSE Tree(regular)

-----------------------------------------------------------------------------
(* An archive: the whole of it is checked, then the wrapping folder and    *)
(* what is left out are removed.                                           *)
EntriesRefused(entries, links) ==
    \/ Cardinality(entries) > MaxFiles
    \/ links # {}
    \/ \E path \in entries : \E i \in DOMAIN path : path[i] \in NotPortable \cup Forbidden

\* The one folder that holds every kept file and the manifest.
Inside(path, folder) == Len(path) > 1 /\ path[1] = folder
WrappingFolder(entries) ==
    LET kept == {path \in entries : ~Ignored(path)} IN
    IF Manifest \in kept THEN {}
    ELSE {folder \in {path[1] : path \in kept} :
            <<folder>> \o Manifest \in kept /\ \A path \in kept : Inside(path, folder)}

\* Mutant of EntryKept: the path is looked at as the archive writes it.
EntryKeptAsWritten(path, short) == ~Ignored(path)
\* The path without its wrapping, and the one the archive writes.
EntryKept(path, short) == ~Ignored(short) /\ ~Ignored(path)

ReadArchive(entries, links) ==
    LET wrap == WrappingFolder(entries)
        short(path) == IF \E w \in wrap : Inside(path, w) THEN Tail(path) ELSE path IN
    IF EntriesRefused(entries, links) THEN Refusal
    ELSE Tree({short(path) : path \in {p \in entries : EntryKept(p, short(p))}})

-----------------------------------------------------------------------------
(* A creator's folder, and the archive a system makes of it.               *)
SourcesInit == sources = [files |-> {}, links |-> {}, wrapper |-> "", extra |-> {}]
AddFile ==
    \E path \in SourcePaths \ sources.files :
        sources' = [sources EXCEPT !.files = @ \cup {path}]
AddLink ==
    \E path \in sources.files \ sources.links :
        sources' = [sources EXCEPT !.links = @ \cup {path}]
Wrap ==
    \E w \in Wrappers, extra \in {{}, {<<"__MACOSX", "a">>}} :
        sources.wrapper = "" /\ sources' = [sources EXCEPT !.wrapper = w, !.extra = extra]
SourcesNext ==
    /\ Cardinality(sources.files) <= MaxFiles \/ sources.wrapper = ""
    /\ \/ Cardinality(sources.files) <= MaxFiles /\ AddFile
       \/ sources.links = {} /\ AddLink
       \/ Wrap
SourcesSpec == SourcesInit /\ [][SourcesNext]_sources

Wrapped(files) ==
    IF sources.wrapper = "" THEN files
    ELSE {<<sources.wrapper>> \o path : path \in files} \cup sources.extra

SourcesTypeOK ==
    /\ sources.files \subseteq SourcePaths /\ sources.links \subseteq sources.files
    /\ sources.wrapper \in Wrappers \cup {""}
    /\ sources.extra \in {{}, {<<"__MACOSX", "a">>}}
-----------------------------------------------------------------------------
(* sourcetree.rs:1-2: a project, with its manifest at its root, is the     *)
(* same files from its folder and from its archive, wrapped or not; and    *)
(* what the archive is read for, the folder is not refused for. Two names  *)
(* of a wrapping folder are apart: one that is left out takes the files    *)
(* with it, and `tests` takes those of an `output` at the project's root   *)
(* (Wrappers leaves it out).                                               *)
ReadsTheSame ==
    LET folder == ReadFolder(sources.files, sources.links)
        archive == ReadArchive(Wrapped(sources.files), sources.links) IN
    Manifest \in sources.files /\ ~FolderReason(<<sources.wrapper>>) =>
        /\ ~archive.refused /\ ~folder.refused => archive.files = folder.files
        /\ folder.refused => archive.refused \/ \E path \in sources.files : Len(path) > MaxFolders + 1
=============================================================================
