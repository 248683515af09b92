------------------------------ MODULE ZipNames ------------------------------
(***************************************************************************)
(* The names of a source archive (cli/src/zipread.rs): the loop of         *)
(* `check_file_folder_clashes` over the entries of the central directory.  *)
(* A path is a sequence of components; Lower gives the name a file system  *)
(* without case sees.                                                      *)
(***************************************************************************)
EXTENDS Naturals, Sequences

CONSTANTS
    Components, Lower,
    MaxNames,           \* bound: entries of an archive
    MaxDepth            \* bound: components of a path

ASSUME NamesAssumption ==
    /\ Lower \in [Components -> Components]
    /\ MaxNames \in Nat /\ MaxDepth \in Nat

VARIABLE names          \* the entries listed, and the loop over them

Paths == UNION {[1..n -> Components] : n \in 1..MaxDepth}
Entries == [path : Paths, directory : BOOLEAN]

NamesTypeOK ==
    names \in [listed : Seq(Entries),
               done : 0..MaxNames,      \* entries the loop is through with
               climb : 0..MaxDepth,     \* components of the folder it is at
               folders : SUBSET Paths,
               verdict : {"reading", "refused", "accepted"}]

NamesInit ==
    names = [listed |-> <<>>, done |-> 0, climb |-> 0, folders |-> {}, verdict |-> "reading"]

LowerPath(p) == [i \in DOMAIN p |-> Lower[p[i]]]
Upto(p, n) == SubSeq(p, 1, n)

\* The folders a path goes through, and itself when it is one.
FoldersOf(e) ==
    {Upto(e.path, n) : n \in 1..(IF e.directory THEN Len(e.path) ELSE Len(e.path) - 1)}

\* The directory lists an entry: no two of a kind have one name without case.
ListEntry ==
    /\ names.verdict = "reading" /\ names.done = 0 /\ names.climb = 0
    /\ Len(names.listed) < MaxNames
    /\ \E e \in Entries :
         /\ \A i \in DOMAIN names.listed :
              names.listed[i].directory = e.directory
                => LowerPath(names.listed[i].path) # LowerPath(e.path)
         /\ names' = [names EXCEPT !.listed = Append(@, e)]

Current == names.listed[names.done + 1]

\* The loop comes to an entry: it climbs from the folder, or from the file's.
EnterName ==
    /\ names.verdict = "reading" /\ names.climb = 0 /\ names.done < Len(names.listed)
    /\ LET top == Len(Current.path) - (IF Current.directory THEN 0 ELSE 1)
       IN names' = IF top = 0 THEN [names EXCEPT !.done = @ + 1]
                   ELSE [names EXCEPT !.climb = top]

\* Mutant of Known: a folder known under any spelling ends the climb.
KnownAnyway(folder) == \E f \in names.folders : LowerPath(f) = LowerPath(folder)

\* "Its parents were recorded with it."
Known(folder) == folder \in names.folders

\* One folder on the way up: known, known under another spelling, or new.
Climb ==
    /\ names.verdict = "reading" /\ names.climb > 0
    /\ LET folder == Upto(Current.path, names.climb) IN
       names' = IF Known(folder) THEN [names EXCEPT !.done = @ + 1, !.climb = 0]
                ELSE IF \E f \in names.folders : LowerPath(f) = LowerPath(folder)
                THEN [names EXCEPT !.verdict = "refused"]
                ELSE [names EXCEPT !.folders = @ \cup {folder}, !.climb = @ - 1,
                                   !.done = IF names.climb = 1 THEN @ + 1 ELSE @]

\* Every entry climbed: no file may be one of the folders.
EndNames ==
    /\ names.verdict = "reading" /\ names.climb = 0 /\ names.done = Len(names.listed)
    /\ names' = [names EXCEPT !.verdict =
           IF \E i \in DOMAIN names.listed : /\ ~names.listed[i].directory
                                             /\ \E f \in names.folders :
                                                  LowerPath(f) = LowerPath(names.listed[i].path)
           THEN "refused" ELSE "accepted"]

NamesNext == ListEntry \/ EnterName \/ Climb \/ EndNames
NamesSpec == NamesInit /\ [][NamesNext]_names
-----------------------------------------------------------------------------
\* Two spellings of a folder, or a file that is one, without case.
Clash ==
    LET all == UNION {FoldersOf(names.listed[i]) : i \in DOMAIN names.listed} IN
    \/ \E f, g \in all : f # g /\ LowerPath(f) = LowerPath(g)
    \/ \E i \in DOMAIN names.listed, f \in all :
         ~names.listed[i].directory /\ LowerPath(f) = LowerPath(names.listed[i].path)

\* zipread.rs: "every folder is spelled one way, whatever the case, and no
\* file is also a folder that another entry names or implies". The loop stops
\* climbing at a folder it knows and keeps one spelling of each: it refuses
\* exactly the archives with such names, in whatever order they are listed.
ClashesFound ==
    /\ names.verdict = "accepted" => ~Clash
    /\ names.verdict = "refused" => Clash
=============================================================================
