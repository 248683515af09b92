---------------------------- MODULE FormatProofs ----------------------------
(***************************************************************************)
(* The formats that both sides read the same: the table of publishers, the *)
(* catalog, the archive and the sources of a widget.                       *)
(***************************************************************************)
EXTENDS Ownership, CatalogReader, ZipLayout, ZipNames, SourceTree, Integers,
        FiniteSetTheorems, SequenceTheorems, TLAPS

-----------------------------------------------------------------------------
(* The owner of an ID (Ownership), and the catalog (CatalogReader).        *)

\* Two entries share neither their handle nor a domain.
Apart ==
    \A i, j \in DOMAIN publishers : i # j =>
        /\ publishers[i].handle # publishers[j].handle
        /\ publishers[i].domains \cap publishers[j].domains = {}

\* What `CheckNesting` establishes.
Unnested ==
    table = "accepted" => \A i, j \in DOMAIN publishers : i # j => ~NestedIn(i, j)

OwnInv == OwnershipTypeOK /\ Apart /\ Unnested

\* Two domains an ID lies under are one inside the other: both are read off
\* the ID's first segments.
LEMMA SameIdNests ==
    ASSUME NEW id \in Ids, NEW d \in Domains, NEW e \in Domains,
           Under(id, d), Under(id, e), Len(d) <= Len(e)
    PROVE  d = e \/ \E k \in 1..(Len(e) - 1) : Parent(e, k) = d
<1> DEFINE k == Len(e) - Len(d)
<1>1. /\ d \in Seq(Labels) /\ e \in Seq(Labels)
      /\ Len(d) \in Nat /\ Len(e) \in Nat /\ Len(d) >= 2 /\ k \in Nat
  BY OwnershipAssumption
<1>2. \A i \in 1..Len(d) : d[i] = e[k + i]
  <2> SUFFICES ASSUME NEW i \in 1..Len(d) PROVE d[i] = e[k + i]
    OBVIOUS
  <2> DEFINE n == Len(d) + 1 - i
  <2>1. n \in 1..Len(d) /\ n \in 1..Len(e)
    BY <1>1
  <2>2. id[n] = d[Len(d) + 1 - n] /\ id[n] = e[Len(e) + 1 - n]
    BY <2>1 DEF Under
  <2>3. Len(d) + 1 - n = i /\ Len(e) + 1 - n = k + i
    BY <1>1
  <2> QED BY <2>2, <2>3
<1>3. CASE k = 0
  <2>1. Len(d) = Len(e) /\ \A i \in 1..Len(d) : d[i] = e[i]
    BY <1>1, <1>2, <1>3
  <2> QED BY <1>1, <2>1
<1>4. CASE k # 0
  <2>1. k \in 1..(Len(e) - 1)
    BY <1>1, <1>4
  <2>2. /\ Parent(e, k) \in Seq(Labels)
        /\ Len(Parent(e, k)) = Len(d)
        /\ \A i \in 1..Len(d) : Parent(e, k)[i] = e[k + i]
    BY <1>1, <2>1 DEF Parent
  <2>3. Parent(e, k) = d
    BY <1>1, <1>2, <2>2
  <2> QED BY <2>1, <2>3
<1> QED BY <1>3, <1>4

\* The tables the reader builds are such tables.
THEOREM OwnInvHolds == OwnershipSpec => []OwnInv
<1>1. OwnershipInit => OwnInv
  BY DEF OwnershipInit, OwnInv, OwnershipTypeOK, Apart, Unnested
<1>2. OwnInv /\ [OwnershipNext]_ownershipVars => OwnInv'
  <2> SUFFICES ASSUME OwnInv, [OwnershipNext]_ownershipVars PROVE OwnInv'
    OBVIOUS
  <2>1. CASE ReadPublisher
    <3>1. PICK handle \in Handles, domains \in SUBSET Domains :
            IF EntryAccepted(handle, domains)
            THEN /\ publishers' = Append(publishers, [handle |-> handle, domains |-> domains])
                 /\ UNCHANGED table
            ELSE table' = "refused" /\ UNCHANGED publishers
      BY <2>1 DEF ReadPublisher
    <3>2. CASE ~EntryAccepted(handle, domains)
      BY <3>1, <3>2 DEF OwnInv, OwnershipTypeOK, Apart, Unnested
    <3>3. CASE EntryAccepted(handle, domains)
      <4> DEFINE entry == [handle |-> handle, domains |-> domains]
      <4>1. publishers' = Append(publishers, entry) /\ table' = "reading"
        BY <2>1, <3>1, <3>3 DEF ReadPublisher
      <4>2. entry \in [handle : Handles, domains : SUBSET Domains]
        OBVIOUS
      <4>3. /\ publishers \in Seq([handle : Handles, domains : SUBSET Domains])
            /\ publishers' \in Seq([handle : Handles, domains : SUBSET Domains])
            /\ DOMAIN publishers' = DOMAIN publishers \cup {Len(publishers) + 1}
            /\ \A i \in DOMAIN publishers : publishers'[i] = publishers[i]
            /\ publishers'[Len(publishers) + 1] = entry
        BY <4>1, <4>2 DEF OwnInv, OwnershipTypeOK
      <4>4. \A i \in DOMAIN publishers :
              /\ publishers[i].handle # entry.handle
              /\ publishers[i].domains \cap entry.domains = {}
        BY <3>3 DEF EntryAccepted
      <4>5. Apart'
        <5> SUFFICES ASSUME NEW i \in DOMAIN publishers', NEW j \in DOMAIN publishers', i # j
                     PROVE  /\ publishers'[i].handle # publishers'[j].handle
                            /\ publishers'[i].domains \cap publishers'[j].domains = {}
          BY DEF Apart
        <5>1. CASE i \in DOMAIN publishers /\ j \in DOMAIN publishers
          BY <4>3, <5>1 DEF OwnInv, Apart
        <5>2. CASE i = Len(publishers) + 1 /\ j \in DOMAIN publishers
          BY <4>3, <4>4, <5>2
        <5>3. CASE j = Len(publishers) + 1 /\ i \in DOMAIN publishers
          BY <4>3, <4>4, <5>3
        <5> QED BY <4>3, <5>1, <5>2, <5>3
      <4> QED BY <4>1, <4>3, <4>5 DEF OwnInv, OwnershipTypeOK, Unnested
    <3> QED BY <3>2, <3>3
  <2>2. CASE CheckNesting
    <3>1. \A i, j \in DOMAIN publishers : NestedIn(i, j)' <=> NestedIn(i, j)
      BY <2>2 DEF CheckNesting, NestedIn
    <3> QED BY <2>2, <3>1 DEF CheckNesting, OwnInv, OwnershipTypeOK, Apart, Unnested
  <2>3. CASE UNCHANGED ownershipVars
    BY <2>3 DEF ownershipVars, OwnInv, OwnershipTypeOK, Apart, Unnested, NestedIn
  <2> QED BY <2>1, <2>2, <2>3 DEF OwnershipNext
<1> QED BY <1>1, <1>2, PTL DEF OwnershipSpec

\* identifiers.rs: "A widget ID belongs to one publisher": two owners through
\* a handle would share it, through domains would share one or nest.
THEOREM OneOwnerHolds == OwnershipSpec => []OneOwner
<1>1. OwnInv => OneOwner
  <2> SUFFICES ASSUME OwnInv, table = "accepted", NEW id \in Ids,
                      NEW i \in DOMAIN publishers, NEW j \in DOMAIN publishers, i # j,
                      Owns(publishers[i], id), Owns(publishers[j], id)
               PROVE  FALSE
    BY DEF OneOwner
  <2>1. CASE Len(id) = 2
    BY <2>1 DEF Owns, OwnInv, Apart
  <2>2. CASE Len(id) # 2
    <3>1. PICK d \in publishers[i].domains : Under(id, d)
      BY <2>2 DEF Owns
    <3>2. PICK e \in publishers[j].domains : Under(id, e)
      BY <2>2 DEF Owns
    <3>3. d \in Domains /\ e \in Domains
      <4> DEFINE Publishers == [handle : Handles, domains : SUBSET Domains]
      <4>1. publishers \in Seq(Publishers)
        BY DEF OwnInv, OwnershipTypeOK
      <4> HIDE DEF Publishers
      <4>2. publishers[i] \in Publishers /\ publishers[j] \in Publishers
        BY <4>1
      <4> QED BY <3>1, <3>2, <4>2 DEF Publishers
    <3>4. d # e
      BY <3>1, <3>2 DEF OwnInv, Apart
    <3>5. Len(d) \in Nat /\ Len(e) \in Nat /\ Len(d) >= 2 /\ Len(e) >= 2
      BY <3>3, OwnershipAssumption
    <3>6. CASE Len(d) <= Len(e)
      <4>1. PICK k \in 1..(Len(e) - 1) : Parent(e, k) = d
        BY <3>1, <3>2, <3>3, <3>4, <3>6, SameIdNests
      <4>2. NestedIn(j, i)
        BY <3>1, <3>2, <3>5, <4>1 DEF NestedIn
      <4> QED BY <4>2 DEF OwnInv, Unnested
    <3>7. CASE Len(e) <= Len(d)
      <4>1. PICK k \in 1..(Len(d) - 1) : Parent(d, k) = e
        BY <3>1, <3>2, <3>3, <3>4, <3>7, SameIdNests
      <4>2. NestedIn(i, j)
        BY <3>1, <3>2, <3>5, <4>1 DEF NestedIn
      <4> QED BY <4>2 DEF OwnInv, Unnested
    <3> QED BY <3>5, <3>6, <3>7
  <2> QED BY <2>1, <2>2
<1> QED BY <1>1, OwnInvHolds, PTL

-----------------------------------------------------------------------------
(* The older reader.                                                       *)


\* What the older reader `o` holds of what the newer reader `n` does.
Behind(o, n) ==
    /\ ~o.refused
    /\ o.ids = n.ids
    /\ n.skipped \subseteq o.skipped
    /\ o.widgets \subseteq n.widgets
    /\ o.targets \subseteq n.targets
    /\ \A t \in o.targets : t.needs \subseteq OlderFeatures

\* While the tables are read, only a widget the older reader skipped is one
\* it does not hold.
OnlySkipped(o, n) == \A w \in n.widgets : w \in o.widgets \/ w.id \in o.skipped

ReadInv ==
    /\ CatalogTypeOK
    /\ ~catalog["newer"].refused =>
         /\ Behind(catalog["older"], catalog["newer"])
         /\ readTable # "done" => OnlySkipped(catalog["older"], catalog["newer"])

\* One entry of `widgets`, read by both.
LEMMA WidgetKeepsBehind ==
    ASSUME NEW o \in ReaderStates, NEW n \in ReaderStates,
           Behind(o, n), OnlySkipped(o, n), ~n.refused,
           NEW id \in Widgets, NEW requires \in SUBSET Features,
           NEW sound \in BOOLEAN, NEW policy \in BOOLEAN,
           ~WidgetRead(n, NewerFeatures, id, requires, sound, policy).refused
    PROVE  /\ Behind(WidgetRead(o, OlderFeatures, id, requires, sound, policy),
                     WidgetRead(n, NewerFeatures, id, requires, sound, policy))
           /\ OnlySkipped(WidgetRead(o, OlderFeatures, id, requires, sound, policy),
                          WidgetRead(n, NewerFeatures, id, requires, sound, policy))
<1>1. id \notin n.ids /\ id \notin o.ids
  BY DEF WidgetRead, Refused, ReaderStates, Behind
<1>2. CASE ~(requires \subseteq NewerFeatures)
  <2>1. ~(requires \subseteq OlderFeatures)
    BY <1>2, CatalogAssumption
  <2> QED BY <1>1, <1>2, <2>1 DEF WidgetRead, SkipWidget, ReaderStates, Behind, OnlySkipped
<1>3. CASE requires \subseteq NewerFeatures
  <2>1. sound
    BY <1>1, <1>3 DEF WidgetRead, Refused, ReaderStates
  <2>2. CASE requires \subseteq OlderFeatures
    BY <1>1, <1>3, <2>1, <2>2 DEF WidgetRead, ReaderStates, Behind, OnlySkipped
  <2>3. CASE ~(requires \subseteq OlderFeatures)
    BY <1>1, <1>3, <2>1, <2>3 DEF WidgetRead, SkipWidget, ReaderStates, Behind, OnlySkipped
  <2> QED BY <2>2, <2>3
<1> QED BY <1>2, <1>3

\* One entry of `targets`, read by both.
LEMMA TargetKeepsBehind ==
    ASSUME NEW o \in ReaderStates, NEW n \in ReaderStates,
           Behind(o, n), OnlySkipped(o, n), ~n.refused,
           NEW requires \in SUBSET Features, NEW sound \in BOOLEAN, NEW rest \in BOOLEAN,
           NEW target \in Kept,
           ~TargetRead(n, NewerFeatures, requires, sound, rest, target).refused
    PROVE  /\ Behind(TargetRead(o, OlderFeatures, requires, sound, rest, target),
                     TargetRead(n, NewerFeatures, requires, sound, rest, target))
           /\ OnlySkipped(TargetRead(o, OlderFeatures, requires, sound, rest, target),
                          TargetRead(n, NewerFeatures, requires, sound, rest, target))
<1> DEFINE nn == TargetRead(n, NewerFeatures, requires, sound, rest, target)
<1>1. /\ nn = n \/ nn = [n EXCEPT !.targets = @ \cup {target}]
      /\ nn.ids = n.ids /\ nn.skipped = n.skipped /\ nn.widgets = n.widgets
      /\ n.targets \subseteq nn.targets
  BY DEF TargetRead, Refused, ReaderStates
<1>2. CASE ~(requires \subseteq OlderFeatures) \/ target.id \in o.skipped
  <2>1. TargetRead(o, OlderFeatures, requires, sound, rest, target) = o
    BY <1>2 DEF TargetRead
  <2> QED BY <1>1, <2>1 DEF Behind, OnlySkipped
<1>3. CASE requires \subseteq OlderFeatures /\ target.id \notin o.skipped
  <2>1. requires \subseteq NewerFeatures /\ target.id \notin n.skipped
    BY <1>3, CatalogAssumption DEF Behind
  <2>2. sound
    BY <2>1 DEF TargetRead, Refused, ReaderStates
  <2>3. CASE ~(target.needs \subseteq requires)
    BY <1>1, <1>3, <2>2, <2>3 DEF TargetRead, Behind, OnlySkipped
  <2>4. CASE target.needs \subseteq requires
    <3>1. /\ rest /\ \E w \in n.widgets : w.id = target.id
          /\ ~\E t \in n.targets : t.id = target.id /\ t.version = target.version
      BY <2>1, <2>2, <2>4 DEF TargetRead, Refused, ReaderStates
    <3>2. \E w \in o.widgets : w.id = target.id
      BY <1>3, <3>1 DEF OnlySkipped
    <3>3. ~\E t \in o.targets : t.id = target.id /\ t.version = target.version
      BY <3>1 DEF Behind
    <3>4. /\ nn = [n EXCEPT !.targets = @ \cup {target}]
          /\ TargetRead(o, OlderFeatures, requires, sound, rest, target)
               = [o EXCEPT !.targets = @ \cup {target}]
      BY <1>3, <2>1, <2>2, <2>4, <3>1, <3>2, <3>3 DEF TargetRead
    <3>5. target.needs \subseteq OlderFeatures
      BY <1>3, <2>4
    <3> QED BY <3>4, <3>5 DEF Behind, OnlySkipped, ReaderStates
  <2> QED BY <2>3, <2>4
<1> QED BY <1>2, <1>3

\* The last checks, over both.
LEMMA ConclusionKeepsBehind ==
    ASSUME NEW o \in ReaderStates, NEW n \in ReaderStates,
           Behind(o, n), ~n.refused, ~Conclusion(n).refused
    PROVE  Behind(Conclusion(o), Conclusion(n))
<1>1. \A w \in o.widgets : w \in n.widgets /\ VersionsOf(o, w) \subseteq VersionsOf(n, w)
  BY DEF Behind, VersionsOf
<1>2. ~PolicyMissing(n)
  BY DEF Conclusion, Refused, ReaderStates
<1>3. ~PolicyMissing(o)
  BY <1>1, <1>2 DEF PolicyMissing
<1> QED BY <1>1, <1>2, <1>3 DEF Conclusion, Behind, ReaderStates

\* What each operator returns is a reader's state.
LEMMA WidgetReadState ==
    ASSUME NEW c \in ReaderStates, NEW features, NEW id \in Widgets,
           NEW requires \in SUBSET Features, NEW sound \in BOOLEAN, NEW policy \in BOOLEAN
    PROVE  WidgetRead(c, features, id, requires, sound, policy) \in ReaderStates
<1>1. [id |-> id, policy |-> policy] \in Listed
  BY DEF Listed
<1> QED BY <1>1 DEF WidgetRead, Refused, SkipWidget, ReaderStates

LEMMA TargetReadState ==
    ASSUME NEW c \in ReaderStates, NEW features, NEW requires \in SUBSET Features,
           NEW sound \in BOOLEAN, NEW rest \in BOOLEAN, NEW target \in Kept
    PROVE  TargetRead(c, features, requires, sound, rest, target) \in ReaderStates
BY DEF TargetRead, Refused, ReaderStates

LEMMA ConclusionState ==
    ASSUME NEW c \in ReaderStates
    PROVE  Conclusion(c) \in ReaderStates
<1>1. {w \in c.widgets : VersionsOf(c, w) # {}} \in SUBSET Listed
  BY DEF ReaderStates
<1> QED BY <1>1 DEF Conclusion, Refused, ReaderStates

\* Both readers, at every moment.
THEOREM ReadInvHolds == CatalogSpec => []ReadInv
<1>1. CatalogInit => ReadInv
  <2> SUFFICES ASSUME CatalogInit PROVE ReadInv
    OBVIOUS
  <2> DEFINE start == [refused |-> FALSE, ids |-> {}, skipped |-> {},
                       widgets |-> {}, targets |-> {}]
  <2>1. start \in ReaderStates
    BY DEF ReaderStates
  <2>2. catalog \in [Readers -> ReaderStates] /\ catalog["older"] = start /\ catalog["newer"] = start
    BY <2>1 DEF CatalogInit, Readers
  <2>3. CatalogTypeOK
    BY <2>2, CatalogAssumption DEF CatalogInit, CatalogTypeOK
  <2>4. Behind(start, start) /\ OnlySkipped(start, start)
    BY DEF Behind, OnlySkipped
  <2> QED BY <2>2, <2>3, <2>4 DEF ReadInv
<1>2. ReadInv /\ [CatalogNext]_catalogVars => ReadInv'
  <2> SUFFICES ASSUME ReadInv, [CatalogNext]_catalogVars PROVE ReadInv'
    OBVIOUS
  <2> DEFINE o == catalog["older"]  n == catalog["newer"]
  <2>1. /\ catalog \in [Readers -> ReaderStates] /\ o \in ReaderStates /\ n \in ReaderStates
        /\ "older" \in Readers /\ "newer" \in Readers
        /\ Supported["older"] = OlderFeatures /\ Supported["newer"] = NewerFeatures
        /\ o.refused \in BOOLEAN /\ n.refused \in BOOLEAN
    BY DEF ReadInv, CatalogTypeOK, Readers, Supported, ReaderStates
  <2>2. CASE ReadWidget
    <3>1. PICK id \in Widgets, requires \in SUBSET Features, sound \in BOOLEAN, policy \in BOOLEAN :
            catalog' = [r \in Readers |->
                IF catalog[r].refused THEN catalog[r]
                ELSE WidgetRead(catalog[r], Supported[r], id, requires, sound, policy)]
      BY <2>2 DEF ReadWidget
    <3>2. \A r \in Readers : catalog'[r] \in ReaderStates
      BY <2>1, <3>1, WidgetReadState
    <3>3. catalog' \in [Readers -> ReaderStates]
      BY <3>1, <3>2
    <3>4. CatalogTypeOK'
      BY <2>2, <3>3, CatalogAssumption DEF ReadWidget, NextEntry, ReadInv, CatalogTypeOK
    <3>5. readTable # "done" /\ readTable' = readTable
      BY <2>2 DEF ReadWidget, NextEntry
    <3>6. ASSUME ~catalog'["newer"].refused
          PROVE  Behind(catalog'["older"], catalog'["newer"]) /\ OnlySkipped(catalog'["older"], catalog'["newer"])
      <4>1. ~n.refused
        BY <2>1, <3>1, <3>6
      <4>2. Behind(o, n) /\ OnlySkipped(o, n)
        BY <3>5, <4>1 DEF ReadInv
      <4>3. /\ catalog'["older"] = WidgetRead(o, OlderFeatures, id, requires, sound, policy)
            /\ catalog'["newer"] = WidgetRead(n, NewerFeatures, id, requires, sound, policy)
        BY <2>1, <3>1, <4>1, <4>2 DEF Behind
      <4> QED BY <2>1, <3>6, <4>1, <4>2, <4>3, WidgetKeepsBehind
    <3> QED BY <3>4, <3>6 DEF ReadInv
  <2>3. CASE ReadTarget
    <3>1. PICK requires \in SUBSET Features, sound, rest \in BOOLEAN, target \in Kept :
            catalog' = [r \in Readers |->
                IF catalog[r].refused THEN catalog[r]
                ELSE TargetRead(catalog[r], Supported[r], requires, sound, rest, target)]
      BY <2>3 DEF ReadTarget
    <3>2. \A r \in Readers : catalog'[r] \in ReaderStates
      BY <2>1, <3>1, TargetReadState
    <3>3. catalog' \in [Readers -> ReaderStates]
      BY <3>1, <3>2
    <3>4. CatalogTypeOK'
      BY <2>3, <3>3, CatalogAssumption DEF ReadTarget, NextEntry, ReadInv, CatalogTypeOK
    <3>5. readTable # "done" /\ readTable' = readTable
      BY <2>3 DEF ReadTarget, NextEntry
    <3>6. ASSUME ~catalog'["newer"].refused
          PROVE  Behind(catalog'["older"], catalog'["newer"]) /\ OnlySkipped(catalog'["older"], catalog'["newer"])
      <4>1. ~n.refused
        BY <2>1, <3>1, <3>6
      <4>2. Behind(o, n) /\ OnlySkipped(o, n)
        BY <3>5, <4>1 DEF ReadInv
      <4>3. /\ catalog'["older"] = TargetRead(o, OlderFeatures, requires, sound, rest, target)
            /\ catalog'["newer"] = TargetRead(n, NewerFeatures, requires, sound, rest, target)
        BY <2>1, <3>1, <4>1, <4>2 DEF Behind
      <4> QED BY <2>1, <3>6, <4>1, <4>2, <4>3, TargetKeepsBehind
    <3> QED BY <3>4, <3>6 DEF ReadInv
  <2>4. CASE EndWidgets
    BY <2>4, CatalogAssumption DEF EndWidgets, ReadInv, CatalogTypeOK
  <2>5. CASE EndTargets
    <3>1. \A r \in Readers : catalog'[r] \in ReaderStates
      BY <2>1, <2>5, ConclusionState DEF EndTargets
    <3>2. catalog' \in [Readers -> ReaderStates]
      BY <2>5, <3>1 DEF EndTargets
    <3>3. CatalogTypeOK'
      BY <2>5, <3>2, CatalogAssumption DEF EndTargets, CatalogTypeOK
    <3>4. ASSUME ~catalog'["newer"].refused
          PROVE  Behind(catalog'["older"], catalog'["newer"])
      <4>1. ~n.refused
        BY <2>1, <2>5, <3>4 DEF EndTargets
      <4>2. Behind(o, n)
        BY <4>1 DEF ReadInv
      <4>3. catalog'["older"] = Conclusion(o) /\ catalog'["newer"] = Conclusion(n)
        BY <2>1, <2>5, <4>1, <4>2 DEF EndTargets, Behind
      <4> QED BY <2>1, <3>4, <4>1, <4>2, <4>3, ConclusionKeepsBehind
    <3>5. readTable' = "done"
      BY <2>5 DEF EndTargets
    <3> QED BY <3>3, <3>4, <3>5 DEF ReadInv
  <2>6. CASE UNCHANGED catalogVars
    BY <2>6 DEF catalogVars, ReadInv, CatalogTypeOK
  <2> QED BY <2>2, <2>3, <2>4, <2>5, <2>6 DEF CatalogNext
<1> QED BY <1>1, <1>2, PTL DEF CatalogSpec

\* catalog_v2.rs "Forward compatibility": what an older application does not
\* support it skips, and neither refuses the catalog for it nor shows more.
THEOREM OlderStillReadsHolds == CatalogSpec => []OlderStillReads
<1>1. ReadInv => OlderStillReads
  BY DEF ReadInv, OlderStillReads, Behind
<1> QED BY <1>1, ReadInvHolds, PTL

-----------------------------------------------------------------------------
(* The names of an archive (ZipNames).                                     *)

\* The folders a path goes through are its first components: as many as it
\* has, or one less for a file.
TopOf(e) == IF e.directory THEN Len(e.path) ELSE Len(e.path) - 1

\* The folders of the first entries of a listing, and those of the next one
\* from a depth down.
FoldersUpTo(listed, done) == UNION {FoldersOf(listed[i]) : i \in 1..done}
FoldersBelow(e, depth) == {Upto(e.path, n) : n \in depth + 1..TopOf(e)}

\* What the loop has recorded.
Recorded ==
    names.folders = FoldersUpTo(names.listed, names.done)
                      \cup (IF names.climb = 0 THEN {} ELSE FoldersBelow(Current, names.climb))

\* It never keeps two spellings of a folder.
OneSpelling ==
    \A f, g \in names.folders : LowerPath(f) = LowerPath(g) => f = g

NamesInv ==
    /\ NamesTypeOK
    /\ Len(names.listed) <= MaxNames /\ names.done <= Len(names.listed)
    /\ names.climb > 0 => names.done < Len(names.listed) /\ names.climb <= TopOf(Current)
    /\ Recorded /\ OneSpelling /\ ClashesFound

LEMMA PathIsSeq ==
    ASSUME NEW p \in Paths
    PROVE  p \in Seq(Components) /\ Len(p) \in 1..MaxDepth
<1>1. PICK n \in 1..MaxDepth : p \in [1..n -> Components]
  BY DEF Paths
<1>2. n \in Nat
  BY NamesAssumption
<1>3. p \in Seq(Components)
  BY <1>1, <1>2, SeqDef
<1>4. Len(p) = n
  BY <1>1, <1>2, <1>3, LenProperties
<1> QED BY <1>3, <1>4

LEMMA UptoPath ==
    ASSUME NEW p \in Paths, NEW n \in 1..Len(p)
    PROVE  /\ Upto(p, n) \in Paths /\ Len(Upto(p, n)) = n
           /\ \A m \in 1..n : Upto(Upto(p, n), m) = Upto(p, m)
<1>1. p \in Seq(Components) /\ Len(p) \in 1..MaxDepth /\ Len(p) \in Nat /\ n \in 1..MaxDepth
  BY PathIsSeq, NamesAssumption
<1>2. /\ Upto(p, n) \in Seq(Components) /\ Len(Upto(p, n)) = n
      /\ \A i \in 1..n : Upto(p, n)[i] = p[i]
  <2>1. \A i \in 1..n : p[i] \in Components
    BY <1>1, ElementOfSeq
  <2>2. /\ SubSeq(p, 1, n) \in Seq(Components)
        /\ Len(SubSeq(p, 1, n)) = IF 1 <= n THEN n - 1 + 1 ELSE 0
        /\ \A i \in 1..n - 1 + 1 : SubSeq(p, 1, n)[i] = p[1 + i - 1]
    BY <1>1, <2>1, SubSeqProperties
  <2>3. n - 1 + 1 = n /\ 1 <= n /\ \A i \in 1..n : 1 + i - 1 = i
    OBVIOUS
  <2> QED BY <2>2, <2>3 DEF Upto
<1>3. Upto(p, n) \in Paths
  <2>1. Upto(p, n) \in [1..n -> Components]
    BY <1>2, LenProperties
  <2> QED BY <1>1, <2>1 DEF Paths
<1>4. ASSUME NEW m \in 1..n PROVE Upto(Upto(p, n), m) = Upto(p, m)
  <2>1. m \in 1..Len(p) /\ 1 \in 1..Len(p) /\ 1 \in 1..n - 1 + 1 /\ m \in 1..n - 1 + 1
    BY <1>1
  <2>2. SubSeq(SubSeq(p, 1, n), 1, m) = SubSeq(p, 1 + 1 - 1, 1 + m - 1)
    BY <1>1, <2>1, SubSeqOfSubSeq
  <2>3. 1 + 1 - 1 = 1 /\ 1 + m - 1 = m
    OBVIOUS
  <2> QED BY <2>2, <2>3 DEF Upto
<1> QED BY <1>2, <1>3, <1>4

\* With a folder come those above it.
LEMMA ParentsToo ==
    ASSUME NEW listed \in Seq(Entries), NEW done \in 0..Len(listed),
           NEW p \in Paths, NEW n \in 1..Len(p), Upto(p, n) \in FoldersUpTo(listed, done),
           NEW m \in 1..n
    PROVE  Upto(p, m) \in FoldersUpTo(listed, done)
<1>1. PICK i \in 1..done : Upto(p, n) \in FoldersOf(listed[i])
  BY DEF FoldersUpTo
<1>2. i \in 1..Len(listed)
  OBVIOUS
<1>3. listed[i] \in Entries
  BY <1>2, ElementOfSeq
<1>4. PICK q \in Paths : q = listed[i].path
  BY <1>3 DEF Entries
<1>5. /\ FoldersOf(listed[i]) = {Upto(q, k) : k \in 1..TopOf(listed[i])}
      /\ TopOf(listed[i]) \in 0..Len(q) /\ Len(q) \in Nat
  BY <1>3, <1>4, PathIsSeq, NamesAssumption DEF FoldersOf, TopOf, Entries
<1>6. PICK k \in 1..TopOf(listed[i]) : Upto(p, n) = Upto(q, k)
  BY <1>1, <1>5
<1>7. k \in 1..Len(q)
  BY <1>5
<1>8. k = n
  BY <1>6, <1>7, UptoPath
<1>9. Upto(p, m) = Upto(q, m)
  BY <1>6, <1>7, <1>8, UptoPath
<1>10. m \in 1..TopOf(listed[i])
  BY <1>5, <1>6, <1>8
<1> QED BY <1>1, <1>5, <1>9, <1>10 DEF FoldersUpTo

-----------------------------------------------------------------------------
LEMMA NamesStart == NamesInit => NamesInv
<1> SUFFICES ASSUME NamesInit PROVE NamesInv
  OBVIOUS
<1> USE NamesAssumption DEF NamesInit
<1>1. <<>> \in Seq(Entries) /\ Len(<<>>) = 0
  OBVIOUS
<1>2. NamesTypeOK
  BY <1>1 DEF NamesTypeOK
<1>3. FoldersUpTo(<<>>, 0) = {}
  BY DEF FoldersUpTo
<1> QED BY <1>1, <1>2, <1>3 DEF NamesInv, Recorded, OneSpelling, ClashesFound

\* What an invariant says of the entry the loop is at.
LEMMA CurrentType ==
    ASSUME NamesInv, names.done < Len(names.listed)
    PROVE  /\ Current \in Entries /\ Current.path \in Paths /\ Len(Current.path) \in 1..MaxDepth
           /\ Len(Current.path) \in Nat
           /\ TopOf(Current) \in 0..Len(Current.path) /\ TopOf(Current) \in 0..MaxDepth
           /\ FoldersOf(Current) = FoldersBelow(Current, 0)
           /\ FoldersUpTo(names.listed, names.done + 1)
                = FoldersUpTo(names.listed, names.done) \cup FoldersOf(Current)
           /\ names.done \in Nat /\ Len(names.listed) \in Nat /\ names.done + 1 <= Len(names.listed)
           /\ names.done + 1 \in 0..MaxNames
<1>1. /\ names.listed \in Seq(Entries) /\ names.done \in Nat /\ Len(names.listed) \in Nat
      /\ Len(names.listed) <= MaxNames
  BY NamesAssumption DEF NamesInv, NamesTypeOK
<1>2. names.done + 1 \in 1..Len(names.listed)
  BY <1>1
<1>3. Current \in Entries
  BY <1>1, <1>2, ElementOfSeq DEF Current
<1>4. Current.path \in Paths /\ Current.directory \in BOOLEAN
  BY <1>3 DEF Entries
<1>5. Len(Current.path) \in 1..MaxDepth
  BY <1>4, PathIsSeq
<1>6. TopOf(Current) \in 0..Len(Current.path) /\ TopOf(Current) \in 0..MaxDepth
  BY <1>4, <1>5, NamesAssumption DEF TopOf
<1>7. FoldersOf(Current) = FoldersBelow(Current, 0)
  BY DEF FoldersOf, FoldersBelow, TopOf
<1>8. FoldersUpTo(names.listed, names.done + 1)
        = FoldersUpTo(names.listed, names.done) \cup FoldersOf(Current)
  <2>1. 1..names.done + 1 = (1..names.done) \cup {names.done + 1}
    BY <1>1
  <2> QED BY <2>1 DEF FoldersUpTo, Current
<1> QED BY <1>1, <1>2, <1>3, <1>4, <1>5, <1>6, <1>7, <1>8, NamesAssumption

LEMMA NamesList == ASSUME NamesInv, ListEntry PROVE NamesInv'
<1>1. PICK e \in Entries : names' = [names EXCEPT !.listed = Append(names.listed, e)]
  BY DEF ListEntry
<1>2. /\ names.verdict = "reading" /\ names.done = 0 /\ names.climb = 0
      /\ Len(names.listed) < MaxNames /\ names.listed \in Seq(Entries)
  BY DEF ListEntry, NamesInv, NamesTypeOK
<1>3. /\ names'.listed \in Seq(Entries) /\ Len(names'.listed) = Len(names.listed) + 1
      /\ names'.done = 0 /\ names'.climb = 0 /\ names'.folders = names.folders
      /\ names'.verdict = "reading"
  BY <1>1, <1>2 DEF NamesInv, NamesTypeOK
<1>4. NamesTypeOK'
  BY <1>1, <1>3 DEF NamesInv, NamesTypeOK
<1>5. Len(names'.listed) <= MaxNames /\ names'.done <= Len(names'.listed)
  BY <1>2, <1>3, NamesAssumption
<1>6. FoldersUpTo(names.listed, 0) = {} /\ FoldersUpTo(names'.listed, 0) = {}
  BY DEF FoldersUpTo
<1>7. Recorded'
  BY <1>2, <1>3, <1>6 DEF NamesInv, Recorded
<1> QED BY <1>3, <1>4, <1>5, <1>7 DEF NamesInv, OneSpelling, ClashesFound

LEMMA NamesEnter == ASSUME NamesInv, EnterName PROVE NamesInv'
<1>1. names.verdict = "reading" /\ names.climb = 0 /\ names.done < Len(names.listed)
  BY DEF EnterName
<1>2. /\ names.listed \in Seq(Entries) /\ names.folders = FoldersUpTo(names.listed, names.done)
      /\ Len(names.listed) <= MaxNames
  BY <1>1 DEF NamesInv, NamesTypeOK, Recorded
<1>3. TopOf(Current) = Len(Current.path) - (IF Current.directory THEN 0 ELSE 1)
  BY <1>1, CurrentType DEF TopOf
<1>4. CASE TopOf(Current) = 0
  <2>1. names' = [names EXCEPT !.done = names.done + 1]
    BY <1>3, <1>4 DEF EnterName
  <2>2. /\ names'.listed = names.listed /\ names'.done = names.done + 1 /\ names'.climb = 0
        /\ names'.folders = names.folders /\ names'.verdict = "reading"
    BY <1>1, <2>1 DEF NamesInv, NamesTypeOK
  <2>3. NamesTypeOK'
    BY <1>1, <2>1, CurrentType DEF NamesInv, NamesTypeOK
  <2>4. FoldersBelow(Current, 0) = {}
    BY <1>4 DEF FoldersBelow
  <2>5. FoldersUpTo(names.listed, names.done + 1) = names.folders
    BY <1>1, <1>2, <2>4, CurrentType
  <2>6. Recorded'
    BY <2>2, <2>5 DEF Recorded
  <2>7. names'.done <= Len(names'.listed)
    BY <1>1, <2>2, CurrentType
  <2> QED BY <1>2, <2>2, <2>3, <2>6, <2>7 DEF NamesInv, OneSpelling, ClashesFound
<1>5. CASE TopOf(Current) # 0
  <2>1. names' = [names EXCEPT !.climb = TopOf(Current)]
    BY <1>3, <1>5 DEF EnterName
  <2>2. /\ names'.listed = names.listed /\ names'.done = names.done
        /\ names'.climb = TopOf(Current)
        /\ names'.folders = names.folders /\ names'.verdict = "reading"
    BY <1>1, <2>1 DEF NamesInv, NamesTypeOK
  <2>3. NamesTypeOK'
    BY <1>1, <2>1, CurrentType DEF NamesInv, NamesTypeOK
  <2>4. Current' = Current
    BY <2>2 DEF Current
  <2>5. FoldersBelow(Current, TopOf(Current)) = {}
    BY <1>1, CurrentType DEF FoldersBelow
  <2>6. Recorded'
    BY <1>2, <2>2, <2>4, <2>5 DEF Recorded
  <2>7. names'.climb <= TopOf(Current)'
    BY <1>1, <2>2, <2>4, CurrentType
  <2> QED BY <1>1, <1>2, <2>2, <2>3, <2>6, <2>7 DEF NamesInv, OneSpelling, ClashesFound
<1> QED BY <1>4, <1>5

\* All the folders of the entries, those not climbed yet included.
AllFolders == FoldersUpTo(names.listed, Len(names.listed))

LEMMA SomeFolders ==
    ASSUME NamesInv, NEW done \in 0..Len(names.listed)
    PROVE  FoldersUpTo(names.listed, done) \subseteq AllFolders
BY DEF AllFolders, FoldersUpTo, NamesInv, NamesTypeOK

LEMMA ClashIs ==
    ASSUME NamesInv
    PROVE  Clash <=>
             \/ \E f, g \in AllFolders : f # g /\ LowerPath(f) = LowerPath(g)
             \/ \E i \in 1..Len(names.listed) : \E f \in AllFolders :
                  ~names.listed[i].directory /\ LowerPath(f) = LowerPath(names.listed[i].path)
<1>1. DOMAIN names.listed = 1..Len(names.listed)
  BY LenProperties DEF NamesInv, NamesTypeOK
<1>2. AllFolders = UNION {FoldersOf(names.listed[i]) : i \in DOMAIN names.listed}
  BY <1>1 DEF AllFolders, FoldersUpTo
<1> QED BY <1>1, <1>2 DEF Clash

LEMMA NamesClimb == ASSUME NamesInv, Climb PROVE NamesInv'
<1> DEFINE c == names.climb
           folder == Upto(Current.path, c)
           past == FoldersUpTo(names.listed, names.done)
<1>1. names.verdict = "reading" /\ c > 0 /\ c \in 0..MaxDepth /\ c # 0
      /\ names.done < Len(names.listed) /\ c <= TopOf(Current)
  BY DEF Climb, NamesInv, NamesTypeOK
<1>2. /\ names.listed \in Seq(Entries) /\ Len(names.listed) <= MaxNames
      /\ names.folders = past \cup FoldersBelow(Current, c)
      /\ names.folders \subseteq Paths
  BY <1>1 DEF NamesInv, NamesTypeOK, Recorded
<1>3. /\ Current.path \in Paths /\ c \in 1..Len(Current.path) /\ TopOf(Current) \in Nat
      /\ TopOf(Current) <= Len(Current.path) /\ c \in 1..TopOf(Current)
  BY <1>1, CurrentType, NamesAssumption
<1>4. folder \in Paths /\ Len(folder) = c
  BY <1>3, UptoPath
<1>5. folder \in FoldersOf(Current) /\ folder \in AllFolders
  <2>1. folder \in FoldersOf(Current)
    BY <1>1, <1>3, CurrentType DEF FoldersBelow
  <2>2. names.done + 1 \in 0..Len(names.listed)
    BY <1>1, CurrentType
  <2> QED BY <1>1, <2>1, <2>2, CurrentType, SomeFolders
<1> HIDE DEF c, folder, past
<1>6. CASE Known(folder)
  <2>1. names' = [names EXCEPT !.done = names.done + 1, !.climb = 0]
    BY <1>6 DEF Climb, c, folder
  <2>2. /\ names'.listed = names.listed /\ names'.done = names.done + 1 /\ names'.climb = 0
        /\ names'.folders = names.folders /\ names'.verdict = "reading"
    BY <1>1, <2>1 DEF NamesInv, NamesTypeOK
  <2>3. NamesTypeOK'
    <3>1. names.done + 1 \in 0..MaxNames
      BY <1>1, CurrentType
    <3>2. 0 \in 0..MaxDepth
      BY NamesAssumption
    <3>3. /\ names \in [listed : Seq(Entries), done : 0..MaxNames, climb : 0..MaxDepth,
                       folders : SUBSET Paths, verdict : {"reading", "refused", "accepted"}]
      BY DEF NamesInv, NamesTypeOK
    <3> QED BY <2>1, <3>1, <3>2, <3>3 DEF NamesTypeOK
  <2>4. folder \in past
    <3>1. SUFFICES folder \notin FoldersBelow(Current, c)
      BY <1>2, <1>6 DEF Known
    <3>2. ASSUME NEW n \in c + 1..TopOf(Current) PROVE Len(Upto(Current.path, n)) # c
      BY <1>3, UptoPath
    <3> QED BY <1>4, <3>2 DEF FoldersBelow
  <2>5. \A m \in 1..c : Upto(Current.path, m) \in past
    <3>1. names.done \in 0..Len(names.listed)
      BY <1>1, CurrentType
    <3> QED BY <1>2, <1>3, <2>4, <3>1, ParentsToo DEF folder, past
  <2>6. FoldersBelow(Current, 0) = FoldersBelow(Current, c) \cup {Upto(Current.path, m) : m \in 1..c}
    <3>1. 0 + 1..TopOf(Current) = (c + 1..TopOf(Current)) \cup 1..c
      BY <1>3
    <3> QED BY <3>1 DEF FoldersBelow
  <2>7. FoldersUpTo(names.listed, names.done + 1) = names.folders
    BY <1>1, <1>2, <2>5, <2>6, CurrentType DEF past
  <2>8. Recorded'
    BY <2>2, <2>7 DEF Recorded
  <2>9. names'.done <= Len(names'.listed)
    BY <1>1, <2>2, CurrentType
  <2> QED BY <1>2, <2>2, <2>3, <2>8, <2>9 DEF NamesInv, OneSpelling, ClashesFound
<1>7. CASE ~Known(folder) /\ \E f \in names.folders : LowerPath(f) = LowerPath(folder)
  <2>1. names' = [names EXCEPT !.verdict = "refused"]
    BY <1>7 DEF Climb, c, folder
  <2>2. /\ names'.listed = names.listed /\ names'.done = names.done /\ names'.climb = names.climb
        /\ names'.folders = names.folders /\ names'.verdict = "refused"
    BY <2>1 DEF NamesInv, NamesTypeOK
  <2>3. NamesTypeOK'
    BY <2>1 DEF NamesInv, NamesTypeOK
  <2>4. PICK f \in names.folders : LowerPath(f) = LowerPath(folder) /\ f # folder
    BY <1>7 DEF Known
  <2>5. f \in AllFolders
    <3>1. FoldersBelow(Current, c) \subseteq FoldersOf(Current)
      <4>1. c + 1..TopOf(Current) \subseteq 0 + 1..TopOf(Current)
        BY <1>3
      <4> QED BY <1>1, <4>1, CurrentType DEF FoldersBelow
    <3>2. names.done \in 0..Len(names.listed) /\ names.done + 1 \in 0..Len(names.listed)
      BY <1>1, CurrentType
    <3>3. FoldersOf(Current) \subseteq AllFolders
      BY <1>1, <3>2, CurrentType, SomeFolders
    <3>4. past \subseteq AllFolders
      BY <3>2, SomeFolders DEF past
    <3> QED BY <1>2, <3>1, <3>3, <3>4
  <2>6. Clash
    BY <1>5, <2>4, <2>5, ClashIs
  <2>7. Clash'
    BY <2>2, <2>6 DEF Clash
  <2>8. Current' = Current
    BY <2>2 DEF Current
  <2>9. Recorded' /\ OneSpelling'
    BY <2>2, <2>8 DEF Recorded, OneSpelling, NamesInv
  <2> QED BY <2>2, <2>3, <2>7, <2>8, <2>9 DEF NamesInv, ClashesFound, TopOf
<1>8. CASE ~Known(folder) /\ ~(\E f \in names.folders : LowerPath(f) = LowerPath(folder))
  <2>1. PICK d : d = IF c = 1 THEN names.done + 1 ELSE names.done
    OBVIOUS
  <2>2. names' = [names EXCEPT !.folders = names.folders \cup {folder}, !.climb = c - 1, !.done = d]
    BY <1>8, <2>1 DEF Climb, c, folder
  <2>3. /\ names'.listed = names.listed /\ names'.done = d /\ names'.climb = c - 1
        /\ names'.folders = names.folders \cup {folder} /\ names'.verdict = "reading"
    BY <1>1, <2>2 DEF NamesInv, NamesTypeOK
  <2>4. d \in 0..MaxNames /\ d \in Nat /\ d <= Len(names.listed) /\ c - 1 \in 0..MaxDepth
    BY <1>1, <1>3, <2>1, CurrentType, NamesAssumption
  <2>5. NamesTypeOK'
    <3>1. names'.folders \in SUBSET Paths
      BY <1>2, <1>4, <2>3
    <3> QED BY <1>1, <2>2, <2>3, <2>4, <3>1 DEF NamesInv, NamesTypeOK
  <2>6. FoldersBelow(Current, c) \cup {folder} = FoldersBelow(Current, c - 1)
    <3>1. c - 1 + 1..TopOf(Current) = (c + 1..TopOf(Current)) \cup {c}
      BY <1>3
    <3> QED BY <3>1 DEF FoldersBelow, folder
  <2>7. OneSpelling'
    BY <1>8, <2>3 DEF OneSpelling, NamesInv
  <2>8. CASE c = 1
    <3>1. names'.climb = 0 /\ names'.done = names.done + 1
      BY <2>1, <2>3, <2>8
    <3>2. FoldersUpTo(names.listed, names.done + 1) = names'.folders
      <4>1. names'.folders = past \cup FoldersBelow(Current, 0)
        BY <1>2, <2>3, <2>6, <2>8
      <4> QED BY <1>1, <4>1, CurrentType DEF past
    <3>3. Recorded'
      BY <2>3, <3>1, <3>2 DEF Recorded
    <3> QED BY <1>2, <2>3, <2>4, <2>5, <2>7, <3>1, <3>3 DEF NamesInv, ClashesFound
  <2>9. CASE c # 1
    <3>1. names'.climb = c - 1 /\ c - 1 # 0 /\ names'.done = names.done /\ c - 1 <= TopOf(Current)
      BY <1>3, <2>1, <2>3, <2>9
    <3>2. Current' = Current
      BY <2>3, <3>1 DEF Current
    <3>3. Recorded'
      BY <1>2, <2>3, <2>6, <3>1, <3>2 DEF Recorded, past
    <3> QED BY <1>1, <1>2, <2>3, <2>4, <2>5, <2>7, <3>1, <3>2, <3>3 DEF NamesInv, ClashesFound, TopOf
  <2> QED BY <2>8, <2>9
<1> QED BY <1>6, <1>7, <1>8

\* At the end the folders are those of every entry.
LEMMA NamesEnd == ASSUME NamesInv, EndNames PROVE NamesInv'
<1>1. names.verdict = "reading" /\ names.climb = 0 /\ names.done = Len(names.listed)
  BY DEF EndNames
<1>2. names.folders = AllFolders
  BY <1>1 DEF NamesInv, Recorded, AllFolders
<1>3. DOMAIN names.listed = 1..Len(names.listed)
  BY LenProperties DEF NamesInv, NamesTypeOK
<1> DEFINE fileToo == \E i \in DOMAIN names.listed :
                        /\ ~names.listed[i].directory
                        /\ \E f \in names.folders : LowerPath(f) = LowerPath(names.listed[i].path)
<1>4. Clash <=> fileToo
  BY <1>2, <1>3, ClashIs DEF NamesInv, OneSpelling
<1>5. PICK v \in {"refused", "accepted"} :
        names' = [names EXCEPT !.verdict = v] /\ (v = "refused" <=> fileToo)
  BY DEF EndNames
<1>6. /\ names'.listed = names.listed /\ names'.done = names.done /\ names'.climb = names.climb
      /\ names'.folders = names.folders /\ names'.verdict = v
  BY <1>5 DEF NamesInv, NamesTypeOK
<1>7. NamesTypeOK'
  BY <1>5 DEF NamesInv, NamesTypeOK
<1>8. Clash' <=> Clash
  BY <1>6 DEF Clash
<1>9. ClashesFound'
  BY <1>4, <1>5, <1>6, <1>8 DEF ClashesFound
<1>10. Recorded' /\ OneSpelling'
  BY <1>1, <1>6 DEF Recorded, OneSpelling, NamesInv
<1> QED BY <1>1, <1>6, <1>7, <1>9, <1>10 DEF NamesInv

LEMMA NamesInvNext == NamesInv /\ [NamesNext]_names => NamesInv'
<1> SUFFICES ASSUME NamesInv, [NamesNext]_names PROVE NamesInv'
  OBVIOUS
<1>1. CASE UNCHANGED names
  BY <1>1 DEF NamesInv, NamesTypeOK, Recorded, Current, OneSpelling, ClashesFound, Clash
<1>2. CASE NamesNext
  BY <1>2, NamesList, NamesEnter, NamesClimb, NamesEnd DEF NamesNext
<1> QED BY <1>1, <1>2

LEMMA NamesKept == NamesSpec => []NamesInv
BY NamesStart, NamesInvNext, PTL DEF NamesSpec

\* The types of ZipNames hold in every reachable state.
THEOREM NamesTypeCorrect == NamesSpec => []NamesTypeOK
BY NamesKept, PTL DEF NamesInv

\* Whatever names, letter case and order: the loop, which stops climbing at a
\* folder it knows, accepts an archive only when every folder is spelled one way
\* and no file is a folder, and refuses only one where it is not so.
THEOREM NamesClashesFound == NamesSpec => []ClashesFound
BY NamesKept, PTL DEF NamesInv

-----------------------------------------------------------------------------
(* The sources of a widget, a folder or an archive of it (SourceTree).     *)

\* A path, the folders above it and their names.
LEMMA FolderAbove ==
    ASSUME NEW S, NEW p \in Seq(S), NEW i \in 1..Len(p) - 1
    PROVE  /\ SubSeq(p, 1, i) \in Seq(S) /\ Len(SubSeq(p, 1, i)) = i /\ SubSeq(p, 1, i) # <<>>
           /\ \A j \in 1..i : SubSeq(p, 1, i)[j] = p[j]
           /\ NameOf(SubSeq(p, 1, i)) = p[i]
<1>1. Len(p) \in Nat /\ i \in Int /\ i >= 1 /\ i <= Len(p)
  BY LenProperties
<1>2. \A j \in 1..i : p[j] \in S
  <2>1. \A j \in 1..Len(p) : p[j] \in S
    BY ElementOfSeq
  <2> QED BY <1>1, <2>1
<1>3. /\ SubSeq(p, 1, i) \in Seq(S)
      /\ Len(SubSeq(p, 1, i)) = IF 1 <= i THEN i - 1 + 1 ELSE 0
      /\ \A j \in 1..i - 1 + 1 : SubSeq(p, 1, i)[j] = p[1 + j - 1]
  <2>1. 1 \in Int
    OBVIOUS
  <2> QED BY <1>1, <1>2, <2>1, SubSeqProperties
<1>4. Len(SubSeq(p, 1, i)) = i
  BY <1>1, <1>3
<1>5. \A j \in 1..i : SubSeq(p, 1, i)[j] = p[j]
  BY <1>1, <1>3
<1>6. SubSeq(p, 1, i) # <<>>
  BY <1>1, <1>4
<1> QED BY <1>1, <1>3, <1>4, <1>5, <1>6 DEF NameOf

\* The folders above a folder of the path are folders above the path.
LEMMA FoldersAboveFolder ==
    ASSUME NEW p \in Seq(STRING), NEW i \in 1..Len(p) - 1, NEW g \in FoldersAbove(SubSeq(p, 1, i))
    PROVE  \E j \in 1..i - 1 : g = SubSeq(p, 1, j)
<1>1. Len(p) \in Nat /\ i \in Int /\ i >= 1 /\ i <= Len(p)
  BY LenProperties
<1>2. Len(SubSeq(p, 1, i)) = i /\ SubSeq(p, 1, i) \in Seq(STRING)
  BY FolderAbove
<1>3. PICK j \in 1..i - 1 : g = SubSeq(SubSeq(p, 1, i), 1, j)
  BY <1>2 DEF FoldersAbove
<1>4. 1 \in 1..Len(p) /\ i \in 1..Len(p) /\ 1 \in 1..i - 1 + 1 /\ j \in 1..i - 1 + 1
  BY <1>1
<1>5. SubSeq(SubSeq(p, 1, i), 1, j) = SubSeq(p, 1 + 1 - 1, 1 + j - 1)
  BY <1>4, SubSeqOfSubSeq
<1> QED BY <1>3, <1>5

LEMMA OneOf ==
    ASSUME NEW S, NEW w \in S
    PROVE  <<w>> \in Seq(S) /\ Len(<<w>>) = 1 /\ <<w>>[1] = w
<1>1. <<w>> \in Seq(S)
  OBVIOUS
<1>2. Len(<<w>>) = 1
  OBVIOUS
<1>3. <<w>>[1] = w
  OBVIOUS
<1> QED BY <1>1, <1>2, <1>3, Zenon

\* A path in its archive's wrapping folder.
LEMMA InWrapping ==
    ASSUME NEW p \in Seq(STRING), p # <<>>, NEW w \in STRING
    PROVE  /\ <<w>> \o p \in Seq(STRING) /\ Len(<<w>> \o p) = Len(p) + 1 /\ Len(p) \in Nat /\ Len(p) >= 1
           /\ (<<w>> \o p)[1] = w /\ \A i \in 1..Len(p) : (<<w>> \o p)[i + 1] = p[i]
           /\ Tail(<<w>> \o p) = p /\ NameOf(<<w>> \o p) = NameOf(p)
<1>1. PICK v \in Seq(STRING) : v = <<w>> /\ Len(v) = 1 /\ v[1] = w
  BY OneOf, Zenon
<1>2. Len(p) \in Nat /\ Len(p) >= 1
  BY EmptySeq, LenProperties
<1>3. PICK q : q = v \o p
  OBVIOUS
<1>4. /\ q \in Seq(STRING) /\ Len(q) = 1 + Len(p)
      /\ \A i \in 1..1 + Len(p) : q[i] = IF i <= 1 THEN v[i] ELSE p[i - 1]
  BY <1>1, <1>3, ConcatProperties
<1>5. q[1] = w /\ \A i \in 1..Len(p) : q[i + 1] = p[i]
  <2>1. 1 \in 1..1 + Len(p)
    BY <1>2
  <2>2. q[1] = w
    <3>1. v[1] = w
      BY <1>1, Zenon
    <3>2. q[1] = IF 1 <= 1 THEN v[1] ELSE p[1 - 1]
      BY <1>4, <2>1
    <3>3. 1 <= 1
      OBVIOUS
    <3> QED BY <3>1, <3>2, <3>3, Zenon
  <2>3. ASSUME NEW i \in 1..Len(p) PROVE q[i + 1] = p[i]
    <3>1. i + 1 \in 1..1 + Len(p) /\ ~(i + 1 <= 1) /\ i + 1 - 1 = i
      BY <1>2
    <3> QED BY <1>4, <3>1
  <2> QED BY <2>2, <2>3
<1>6. Tail(q) = p
  <2>1. q # <<>>
    BY <1>2, <1>4
  <2>2. /\ Tail(q) \in Seq(STRING) /\ Len(Tail(q)) = Len(q) - 1
        /\ \A i \in 1..Len(Tail(q)) : Tail(q)[i] = q[i + 1]
    BY <1>4, <2>1, HeadTailProperties
  <2>3. Len(Tail(q)) = Len(p) /\ \A i \in 1..Len(Tail(q)) : Tail(q)[i] = p[i]
    BY <1>2, <1>4, <1>5, <2>2
  <2> QED BY <2>2, <2>3, SeqEqual
<1>7. q[Len(q)] = p[Len(p)]
  BY <1>2, <1>4, <1>5
<1>8. q = <<w>> \o p
  BY <1>1, <1>3, Zenon
<1>9. Len(q) = Len(p) + 1 /\ NameOf(q) = NameOf(p)
  BY <1>2, <1>4, <1>7 DEF NameOf
<1> QED BY <1>2, <1>4, <1>5, <1>6, <1>8, <1>9, Zenon

\* The folders above it: the wrapping, and those of the path in it.
LEMMA FoldersInWrapping ==
    ASSUME NEW p \in Seq(STRING), p # <<>>, NEW w \in STRING, NEW i \in 1..Len(p)
    PROVE  SubSeq(<<w>> \o p, 1, i) = IF i = 1 THEN <<w>> ELSE <<w>> \o SubSeq(p, 1, i - 1)
<1>1. PICK q : q = <<w>> \o p
  OBVIOUS
<1>2. /\ q \in Seq(STRING) /\ Len(q) = Len(p) + 1 /\ Len(p) \in Nat
      /\ q[1] = w /\ \A j \in 1..Len(p) : q[j + 1] = p[j]
  BY <1>1, InWrapping
<1>3. i \in 1..Len(q) - 1
  BY <1>2
<1>4. /\ SubSeq(q, 1, i) \in Seq(STRING) /\ Len(SubSeq(q, 1, i)) = i
      /\ \A j \in 1..i : SubSeq(q, 1, i)[j] = q[j]
  BY <1>2, <1>3, FolderAbove
<1>5. CASE i = 1
  <2>1. PICK v \in Seq(STRING) : v = <<w>> /\ Len(v) = 1 /\ v[1] = w
    BY OneOf, Zenon
  <2>2. ASSUME NEW j \in 1..i PROVE SubSeq(q, 1, i)[j] = v[j]
    <3>1. j = 1
      BY <1>5
    <3>2. SubSeq(q, 1, i)[1] = q[1]
      BY <1>4, <3>1
    <3> QED BY <1>2, <2>1, <3>1, <3>2
  <2>3. SubSeq(q, 1, i) = v
    BY <1>4, <1>5, <2>1, <2>2, SeqEqual
  <2> QED BY <1>1, <1>5, <2>1, <2>3, Zenon
<1>6. CASE i # 1
  <2>1. PICK k \in 1..Len(p) - 1 : k = i - 1
    BY <1>2, <1>6
  <2>2. PICK f \in Seq(STRING) :
          f = SubSeq(p, 1, k) /\ Len(f) = k /\ f # <<>> /\ \A j \in 1..k : f[j] = p[j]
    <3>1. /\ SubSeq(p, 1, k) \in Seq(STRING) /\ Len(SubSeq(p, 1, k)) = k /\ SubSeq(p, 1, k) # <<>>
          /\ \A j \in 1..k : SubSeq(p, 1, k)[j] = p[j]
      BY FolderAbove
    <3> QED BY <3>1, Zenon
  <2>3. PICK r : r = <<w>> \o f
    OBVIOUS
  <2>4. /\ r \in Seq(STRING) /\ Len(r) = k + 1 /\ r[1] = w
        /\ \A j \in 1..k : r[j + 1] = f[j]
    <3>1. /\ r \in Seq(STRING) /\ Len(r) = Len(f) + 1 /\ r[1] = w
          /\ \A j \in 1..Len(f) : r[j + 1] = f[j]
      BY <2>2, <2>3, InWrapping, Zenon
    <3> QED BY <2>2, <3>1
  <2>5. ASSUME NEW j \in 1..i PROVE SubSeq(q, 1, i)[j] = r[j]
    <3>1. CASE j = 1
      BY <1>2, <1>4, <2>4, <3>1
    <3>2. CASE j # 1
      <4>1. PICK m \in 1..k : j = m + 1
        BY <1>2, <2>1, <3>2
      <4>2. q[m + 1] = p[m]
        BY <1>2, <2>1
      <4> QED BY <1>4, <2>2, <2>4, <4>1, <4>2
    <3> QED BY <3>1, <3>2
  <2>6. Len(r) = i
    BY <1>2, <2>1, <2>4
  <2>7. SubSeq(q, 1, i) = r
    BY <1>4, <2>4, <2>5, <2>6, SeqEqual
  <2> QED BY <1>1, <1>6, <2>1, <2>2, <2>3, <2>7
<1> QED BY <1>5, <1>6

\* What is left out in the wrapping is left out without it.
LEMMA IgnoredInWrapping ==
    ASSUME NEW p \in Seq(STRING), p # <<>>, NEW w \in STRING, w # "tests", ~FolderReason(<<w>>),
           Ignored(<<w>> \o p)
    PROVE  Ignored(p)
<1>1. PICK q \in Seq(STRING) :
        /\ q = <<w>> \o p /\ Len(q) = Len(p) + 1 /\ Len(p) \in Nat
        /\ q[1] = w /\ NameOf(q) = NameOf(p)
  BY InWrapping, Zenon
<1>2. Ignored(q)
  BY <1>1, Zenon
<1>3. CASE FileReason(NameOf(q))
  BY <1>1, <1>3, Zenon DEF Ignored
<1>4. CASE \E f \in FoldersAbove(q) : FolderReason(f)
  <2>1. PICK j \in 1..Len(q) - 1 : FolderReason(SubSeq(q, 1, j))
    BY <1>4 DEF FoldersAbove
  <2>2. j \in 1..Len(p)
    BY <1>1
  <2>3. SubSeq(q, 1, j) = IF j = 1 THEN <<w>> ELSE <<w>> \o SubSeq(p, 1, j - 1)
    BY <1>1, <2>2, FoldersInWrapping, Zenon
  <2>4. j # 1
    BY <2>1, <2>3, Zenon
  <2>5. PICK i \in 1..Len(p) - 1 : i = j - 1
    BY <1>1, <2>2, <2>4
  <2>6. PICK f \in Seq(STRING) : f = SubSeq(p, 1, i) /\ f # <<>> /\ Len(f) = i
    BY FolderAbove
  <2>7. PICK g : g = <<w>> \o f
    OBVIOUS
  <2>8. FolderReason(g) /\ g[1] = w /\ NameOf(g) = NameOf(f)
    <3>1. FolderReason(g)
      BY <2>1, <2>3, <2>4, <2>5, <2>6, <2>7, Zenon
    <3>2. g[1] = w /\ NameOf(g) = NameOf(f)
      BY <2>6, <2>7, InWrapping, Zenon
    <3> QED BY <3>1, <3>2
  <2>9. g # <<"tests", "output">>
    <3>1. <<"tests", "output">>[1] = "tests"
      OBVIOUS
    <3> QED BY <2>8, <3>1, Zenon
  <2>10. FolderReason(f)
    BY <2>8, <2>9, Zenon DEF FolderReason
  <2>11. f \in FoldersAbove(p)
    BY <2>6 DEF FoldersAbove
  <2> QED BY <2>10, <2>11 DEF Ignored
<1> QED BY <1>2, <1>3, <1>4 DEF Ignored

\* What a walk keeps is not left out; and of names that an archive may hold,
\* it keeps what is not left out, where nothing stops it.
LEMMA KeptIsNotIgnored ==
    ASSUME NEW p, FileKept(p)
    PROVE  ~Ignored(p)
BY DEF FileKept, Ignored, Reached, NotWalked

LEMMA NotIgnoredIsKept ==
    ASSUME NEW p \in Seq(STRING), p # <<>>, ~Ignored(p),
           \A i \in 1..Len(p) : p[i] \notin NotPortable \cup Forbidden,
           \A f \in FoldersAbove(p) : ~(Reached(f) /\ ~NotWalked(f) /\ Stops(f))
    PROVE  FileKept(p)
<1>1. Len(p) \in Nat /\ Len(p) >= 1 /\ MaxFolders \in Nat
  BY EmptySeq, LenProperties, SourcesAssumption
<1>2. ASSUME NEW i \in 1..Len(p) - 1
      PROVE  /\ SubSeq(p, 1, i) \in FoldersAbove(p) /\ Len(SubSeq(p, 1, i)) = i
             /\ NameOf(SubSeq(p, 1, i)) \notin NotPortable \cup Forbidden
             /\ ~NotWalked(SubSeq(p, 1, i)) /\ (Stops(SubSeq(p, 1, i)) <=> i > MaxFolders)
  <2>1. PICK f : f = SubSeq(p, 1, i) /\ Len(f) = i /\ NameOf(f) = p[i]
    BY FolderAbove
  <2>2. i \in 1..Len(p)
    BY <1>1
  <2>3. NameOf(f) \notin NotPortable \cup Forbidden
    BY <2>1, <2>2
  <2>4. f \in FoldersAbove(p)
    BY <2>1 DEF FoldersAbove
  <2>5. ~NotWalked(f)
    BY <2>3, <2>4 DEF NotWalked, Ignored
  <2>6. Stops(f) <=> i > MaxFolders
    BY <2>1, <2>3 DEF Stops
  <2> QED BY <2>1, <2>3, <2>4, <2>5, <2>6, Zenon
\* The first folder that is too deep would be reached.
<1>3. Len(p) - 1 <= MaxFolders
  <2> SUFFICES ASSUME Len(p) - 1 > MaxFolders PROVE FALSE
    BY <1>1
  <2>1. PICK k \in 1..Len(p) - 1 : k = MaxFolders + 1
    BY <1>1
  <2>2. PICK f : f = SubSeq(p, 1, k)
    OBVIOUS
  <2>3. f \in FoldersAbove(p) /\ ~NotWalked(f) /\ Stops(f)
    <3>1. k > MaxFolders
      BY <1>1, <2>1
    <3> QED BY <1>2, <2>2, <3>1
  <2>4. ASSUME NEW g \in FoldersAbove(f) PROVE ~NotWalked(g) /\ ~Stops(g)
    <3>1. PICK j \in 1..k - 1 : g = SubSeq(p, 1, j)
      BY <2>2, FoldersAboveFolder
    <3>2. j \in 1..Len(p) - 1 /\ ~(j > MaxFolders)
      BY <1>1, <2>1
    <3> QED BY <1>2, <3>1, <3>2
  <2> QED BY <2>3, <2>4 DEF Reached
<1>4. ASSUME NEW f \in FoldersAbove(p) PROVE ~NotWalked(f) /\ ~Stops(f)
  <2>1. PICK i \in 1..Len(p) - 1 : f = SubSeq(p, 1, i)
    BY DEF FoldersAbove
  <2>2. ~(i > MaxFolders)
    BY <1>1, <1>3
  <2> QED BY <1>2, <2>1, <2>2
<1>5. NameOf(p) \notin NotPortable \cup Forbidden
  <2>1. Len(p) \in 1..Len(p)
    BY <1>1
  <2> QED BY <2>1 DEF NameOf
<1> QED BY <1>4, <1>5 DEF FileKept, Reached, Ignored

\* The manifest at the root of a project is not left out of either.
LEMMA ManifestKept ==
    ASSUME Manifest \in Seq(STRING)
    PROVE  Manifest # <<>> /\ Len(Manifest) = 1 /\ ~Ignored(Manifest) /\ NameOf(Manifest) = "manifest"
<1>1. PICK m : m = Manifest /\ Len(m) = 1 /\ m[1] = "manifest"
  <2>1. "manifest" \in {"manifest"}
    OBVIOUS
  <2> QED BY <2>1, OneOf, Zenon DEF Manifest
<1>2. FoldersAbove(m) = {}
  BY <1>1 DEF FoldersAbove
<1>3. NameOf(m) = "manifest"
  BY <1>1, Zenon DEF NameOf
<1>4. ~Ignored(m)
  BY <1>2, <1>3, SourcesAssumption DEF Ignored, FileReason
<1>5. m # <<>>
  BY <1>1
<1> QED BY <1>1, <1>3, <1>4, <1>5, Zenon

\* The files and the names that an archive may hold.
Holdable(files) ==
    /\ IsFiniteSet(files) /\ Cardinality(files) <= MaxFiles
    /\ \A p \in files : \A i \in 1..Len(p) : p[i] \notin NotPortable \cup Forbidden

\* A folder's files, as the walk finds them.
LEMMA FolderRead ==
    ASSUME NEW files \in SUBSET SourcePaths, Holdable(files)
    PROVE  /\ ~ReadFolder(files, {}).refused => ReadFolder(files, {}).files = {p \in files : ~Ignored(p)}
           /\ ReadFolder(files, {}).refused => \E p \in files : Len(p) > MaxFolders + 1
<1>1. \A p \in files : p \in Seq(STRING) /\ p # <<>> /\ Len(p) \in Nat /\ Len(p) >= 1
  <2>1. \A p \in files : p \in Seq(STRING) /\ p # <<>>
    BY SourcesAssumption
  <2> QED BY <2>1, EmptySeq, LenProperties
<1>2. PICK regular : regular = {p \in files \ {} : FileKept(p)}
  OBVIOUS
<1> DEFINE stops == \E f \in FoldersOfAll(files) : Reached(f) /\ ~NotWalked(f) /\ Stops(f)
<1>3. ~\E p \in regular : NameOf(p) \in Forbidden
  <2> SUFFICES ASSUME NEW p \in files PROVE NameOf(p) \notin Forbidden
    BY <1>2
  <2>1. Len(p) \in 1..Len(p)
    BY <1>1
  <2> QED BY <2>1 DEF Holdable, NameOf
<1>4. ~(Cardinality(regular) > MaxFiles)
  <2>1. regular \in SUBSET files
    BY <1>2
  <2>2. Cardinality(regular) <= Cardinality(files) /\ Cardinality(regular) \in Nat /\ Cardinality(files) \in Nat
    BY <2>1, FS_Subset, FS_CardinalityType DEF Holdable
  <2> QED BY <2>2, SourcesAssumption DEF Holdable
<1>5. ReadFolder(files, {}) = IF stops THEN Refusal ELSE Tree(regular)
  <2>1. ReadFolder(files, {}) =
          IF stops \/ (\E p \in regular : NameOf(p) \in Forbidden) \/ Cardinality(regular) > MaxFiles
          THEN Refusal ELSE Tree(regular)
    BY <1>2, Zenon DEF ReadFolder
  <2> QED BY <1>3, <1>4, <2>1, Zenon
<1>6. ASSUME ~stops PROVE regular = {p \in files : ~Ignored(p)}
  <2>1. ASSUME NEW p \in files, ~Ignored(p) PROVE FileKept(p)
    <3>1. \A f \in FoldersAbove(p) : ~(Reached(f) /\ ~NotWalked(f) /\ Stops(f))
      BY <1>6 DEF FoldersOfAll
    <3>2. \A i \in 1..Len(p) : p[i] \notin NotPortable \cup Forbidden
      BY DEF Holdable
    <3>3. p \in Seq(STRING) /\ p # <<>>
      BY <1>1
    <3> QED BY <2>1, <3>1, <3>2, <3>3, NotIgnoredIsKept
  <2> QED BY <1>2, <2>1, KeptIsNotIgnored
<1>7. ASSUME stops PROVE \E p \in files : Len(p) > MaxFolders + 1
  <2>1. PICK p \in files : \E f \in FoldersAbove(p) : Stops(f)
    BY <1>7 DEF FoldersOfAll
  <2>2. PICK i \in 1..Len(p) - 1 : Stops(SubSeq(p, 1, i))
    BY <2>1 DEF FoldersAbove
  <2>7. PICK f : f = SubSeq(p, 1, i)
    OBVIOUS
  <2>3. Len(f) = i /\ NameOf(f) = p[i] /\ Stops(f)
    BY <1>1, <2>2, <2>7, FolderAbove
  <2>4. i \in 1..Len(p)
    BY <1>1
  <2>5. i > MaxFolders
    BY <2>3, <2>4 DEF Stops, Holdable
  <2>6. Len(p) > MaxFolders + 1
    BY <1>1, <2>5, SourcesAssumption
  <2> QED BY <2>6
<1>8. CASE stops
  BY <1>5, <1>7, <1>8 DEF Refusal
<1>9. CASE ~stops
  BY <1>5, <1>6, <1>9 DEF Tree
<1> QED BY <1>8, <1>9

\* An archive whose files are not wrapped: the manifest is at its root.
LEMMA PlainArchive ==
    ASSUME NEW files \in SUBSET SourcePaths, Manifest \in files, NEW links, ~EntriesRefused(files, links)
    PROVE  ReadArchive(files, links) = Tree({p \in files : ~Ignored(p)})
<1>1. Manifest \in Seq(STRING)
  BY SourcesAssumption
<1>2. ~Ignored(Manifest)
  BY <1>1, ManifestKept
<1>3. WrappingFolder(files) = {}
  BY <1>2 DEF WrappingFolder
<1> DEFINE short(path) == IF \E w \in {} : Inside(path, w) THEN Tail(path) ELSE path
<1>4. ReadArchive(files, links) = Tree({short(path) : path \in {p \in files : EntryKept(p, short(p))}})
  BY <1>3, Zenon DEF ReadArchive
<1>5. \A path : short(path) = path
  OBVIOUS
<1>6. {short(path) : path \in {p \in files : EntryKept(p, short(p))}} = {p \in files : ~Ignored(p)}
  BY <1>5 DEF EntryKept
<1> QED BY <1>4, <1>6, Zenon

\* What a system puts beside the wrapping folder is left out.
LEMMA ExtraIgnored ==
    ASSUME NEW q, q = <<"__MACOSX", "a">>
    PROVE  Ignored(q) /\ q[1] = "__MACOSX"
<1> DEFINE parts == {"__MACOSX", "a"}
<1>1. q \in Seq(parts)
  OBVIOUS
<1>2. Len(q) = 2
  OBVIOUS
<1>3. q[1] = "__MACOSX"
  OBVIOUS
<1>4. 1 \in 1..Len(q) - 1
  BY <1>2
<1>5. PICK f : f = SubSeq(q, 1, 1)
  OBVIOUS
<1>6. NameOf(f) = q[1]
  <2> HIDE DEF parts
  <2> QED BY <1>1, <1>4, <1>5, FolderAbove
<1>7. FolderReason(f)
  BY <1>3, <1>6, SourcesAssumption DEF FolderReason
<1>8. f \in FoldersAbove(q)
  BY <1>4, <1>5 DEF FoldersAbove
<1> QED BY <1>3, <1>7, <1>8 DEF Ignored

\* An archive of one folder: what is in the folder.
LEMMA WrappedArchive ==
    ASSUME NEW files \in SUBSET SourcePaths, Manifest \in files, NEW links,
           NEW w \in Wrappers, ~FolderReason(<<w>>), NEW extra \in {{}, {<<"__MACOSX", "a">>}},
           NEW written, written = {<<w>> \o p : p \in files} \cup extra, ~EntriesRefused(written, links)
    PROVE  ReadArchive(written, links) = Tree({p \in files : ~Ignored(p)})
<1>1. w \in STRING /\ w # "tests" /\ Manifest \in Seq(STRING)
  BY SourcesAssumption
<1>2. \A p \in files : p \in Seq(STRING) /\ p # <<>>
  BY SourcesAssumption
<1>3. PICK one : one = <<w>> /\ Len(one) = 1 /\ one[1] = w
  BY <1>1, OneOf, Zenon
<1>4. w # "__MACOSX"
  <2>1. NameOf(one) = w
    BY <1>3, Zenon DEF NameOf
  <2>2. w \notin LeftOutFolders
    BY <1>3, <2>1, Zenon DEF FolderReason
  <2> QED BY <2>2, SourcesAssumption
<1>5. ASSUME NEW p \in files
      PROVE  /\ Inside(<<w>> \o p, w) /\ (<<w>> \o p)[1] = w /\ Tail(<<w>> \o p) = p
             /\ Len(<<w>> \o p) >= 2 /\ (~Ignored(p) => ~Ignored(<<w>> \o p))
  <2>1. PICK q : q = <<w>> \o p
    OBVIOUS
  <2>2. Len(q) = Len(p) + 1 /\ Len(p) \in Nat /\ Len(p) >= 1 /\ q[1] = w /\ Tail(q) = p
    BY <1>1, <1>2, <2>1, InWrapping, Zenon
  <2>3. Len(q) > 1 /\ Len(q) >= 2
    BY <2>2
  <2>4. ~Ignored(p) => ~Ignored(q)
    BY <1>1, <1>2, <2>1, IgnoredInWrapping, Zenon
  <2> QED BY <2>1, <2>2, <2>3, <2>4, Zenon DEF Inside
<1>6. ASSUME NEW q \in extra PROVE Ignored(q) /\ ~Inside(q, w)
  <2>1. q = <<"__MACOSX", "a">>
    OBVIOUS
  <2> QED BY <1>4, <2>1, ExtraIgnored DEF Inside
<1>7. ASSUME NEW q \in written PROVE q \in extra \/ \E p \in files : q = <<w>> \o p
  OBVIOUS
<1>8. WrappingFolder(written) = {w}
  <2>1. PICK kept : kept = {path \in written : ~Ignored(path)}
    OBVIOUS
  <2>2. ASSUME NEW q \in kept PROVE Inside(q, w) /\ q[1] = w /\ Len(q) >= 2
    <3>1. q \in written /\ q \notin extra
      BY <1>6, <2>1
    <3>2. PICK p \in files : q = <<w>> \o p
      BY <1>7, <3>1
    <3> QED BY <1>5, <3>2, Zenon
  <2>3. Manifest \notin kept
    <3> SUFFICES ASSUME Manifest \in kept PROVE FALSE
      OBVIOUS
    <3>1. PICK n : n = Len(Manifest) /\ n = 1
      BY <1>1, ManifestKept
    <3>2. n >= 2
      BY <2>2, <3>1, Zenon
    <3> QED BY <3>1, <3>2
  <2>4. <<w>> \o Manifest \in kept
    <3>1. ~Ignored(Manifest)
      BY <1>1, ManifestKept
    <3>2. ~Ignored(<<w>> \o Manifest) /\ <<w>> \o Manifest \in written
      BY <1>5, <3>1
    <3> QED BY <2>1, <3>2
  <2>5. w \in {path[1] : path \in kept}
    BY <2>2, <2>4
  <2>6. WrappingFolder(written) =
          {folder \in {path[1] : path \in kept} :
             <<folder>> \o Manifest \in kept /\ \A path \in kept : Inside(path, folder)}
    BY <2>1, <2>3, Zenon DEF WrappingFolder
  <2>7. \A folder \in {path[1] : path \in kept} : folder = w
    BY <2>2
  <2> QED BY <2>2, <2>4, <2>5, <2>6, <2>7
<1>13. PICK wrap : wrap = WrappingFolder(written)
  OBVIOUS
<1> DEFINE short(path) == IF \E x \in wrap : Inside(path, x) THEN Tail(path) ELSE path
<1>9. ReadArchive(written, links) = Tree({short(path) : path \in {p \in written : EntryKept(p, short(p))}})
  BY <1>13, Zenon DEF ReadArchive
<1>10. \A p \in files : short(<<w>> \o p) = p
  BY <1>5, <1>8, <1>13
<1>11. \A q \in extra : short(q) = q
  BY <1>6, <1>8, <1>13
<1> HIDE DEF short
<1>12. {short(path) : path \in {p \in written : EntryKept(p, short(p))}} = {p \in files : ~Ignored(p)}
  <2>1. ASSUME NEW q \in written, EntryKept(q, short(q)) PROVE short(q) \in files /\ ~Ignored(short(q))
    <3>1. q \notin extra
      BY <1>6, <2>1 DEF EntryKept
    <3>2. PICK p \in files : q = <<w>> \o p
      BY <1>7, <3>1
    <3> QED BY <1>10, <2>1, <3>2 DEF EntryKept
  <2>2. ASSUME NEW p \in files, ~Ignored(p) PROVE \E q \in written : EntryKept(q, short(q)) /\ short(q) = p
    <3>1. PICK q \in written : q = <<w>> \o p
      OBVIOUS
    <3>2. short(q) = p /\ ~Ignored(q)
      BY <1>5, <1>10, <2>2, <3>1
    <3> QED BY <2>2, <3>2 DEF EntryKept
  <2> QED BY <2>1, <2>2
<1> QED BY <1>9, <1>12, Zenon

\* What an archive is not refused for: its project has names that an archive
\* may hold, as many files as one may, and no links.
LEMMA PlainHolds ==
    ASSUME NEW files \in SUBSET SourcePaths, IsFiniteSet(files), NEW links, ~EntriesRefused(files, links)
    PROVE  Holdable(files) /\ links = {}
<1>1. \A p \in files : \A i \in 1..Len(p) : p[i] \notin NotPortable \cup Forbidden
  <2>1. ASSUME NEW p \in files PROVE DOMAIN p = 1..Len(p)
    <3>1. p \in Seq(STRING)
      BY SourcesAssumption
    <3> QED BY <3>1, LenProperties
  <2> QED BY <2>1 DEF EntriesRefused
<1>2. Cardinality(files) <= MaxFiles
  <2>1. Cardinality(files) \in Nat
    BY FS_CardinalityType
  <2> QED BY <2>1, SourcesAssumption DEF EntriesRefused
<1> QED BY <1>1, <1>2 DEF Holdable, EntriesRefused

LEMMA WrappedHolds ==
    ASSUME NEW files \in SUBSET SourcePaths, IsFiniteSet(files), NEW links,
           NEW w \in Wrappers, NEW extra \in {{}, {<<"__MACOSX", "a">>}},
           NEW written, written = {<<w>> \o p : p \in files} \cup extra, ~EntriesRefused(written, links)
    PROVE  Holdable(files) /\ links = {}
<1>1. \A p \in files : p \in Seq(STRING) /\ p # <<>>
  BY SourcesAssumption
<1>2. w \in STRING
  BY SourcesAssumption
<1>3. \A p \in files : \A i \in 1..Len(p) : p[i] \notin NotPortable \cup Forbidden
  <2> SUFFICES ASSUME NEW p \in files, NEW i \in 1..Len(p) PROVE p[i] \notin NotPortable \cup Forbidden
    OBVIOUS
  <2>1. PICK q \in Seq(STRING) :
          q = <<w>> \o p /\ Len(q) = Len(p) + 1 /\ Len(p) \in Nat /\ \A j \in 1..Len(p) : q[j + 1] = p[j]
    BY <1>1, <1>2, InWrapping, Zenon
  <2>2. i + 1 \in DOMAIN q
    <3>1. DOMAIN q = 1..Len(q)
      BY LenProperties
    <3> QED BY <2>1, <3>1
  <2>3. q \in written
    BY <2>1
  <2> QED BY <2>1, <2>2, <2>3 DEF EntriesRefused
\* As many files as entries in the wrapping, and no more entries than may be.
<1>4. Cardinality(files) <= MaxFiles
  <2> DEFINE inside == {<<w>> \o p : p \in files}
             unwrap == [q \in inside |-> Tail(q)]
             wrap == [p \in files |-> <<w>> \o p]
  <2>1. \A p \in files : Tail(<<w>> \o p) = p
    BY <1>1, <1>2, InWrapping
  <2>2. wrap \in Surjection(files, inside)
    BY DEF Surjection
  <2>3. IsFiniteSet(inside)
    <3> HIDE DEF inside, wrap
    <3> QED BY <2>2, FS_Surjection
  <2>4. unwrap \in Surjection(inside, files)
    <3>1. unwrap \in [inside -> files]
      BY <2>1
    <3>2. ASSUME NEW p \in files PROVE \E q \in inside : unwrap[q] = p
      <4>1. PICK q \in inside : q = <<w>> \o p
        OBVIOUS
      <4> QED BY <2>1, <4>1
    <3> QED BY <3>1, <3>2 DEF Surjection
  <2>5. Cardinality(files) <= Cardinality(inside)
    <3> HIDE DEF inside, unwrap
    <3> QED BY <2>3, <2>4, FS_Surjection
  <2>6. IsFiniteSet(written)
    <3>1. CASE extra = {}
      <4>1. written = inside
        BY <3>1
      <4> QED BY <2>3, <4>1
    <3>2. CASE extra = {<<"__MACOSX", "a">>}
      <4>1. written = inside \cup {<<"__MACOSX", "a">>}
        BY <3>2
      <4> HIDE DEF inside
      <4>2. IsFiniteSet(inside \cup {<<"__MACOSX", "a">>})
        BY <2>3, FS_AddElement
      <4> QED BY <4>1, <4>2
    <3> QED BY <3>1, <3>2
  <2>7. Cardinality(inside) <= Cardinality(written)
    <3>1. inside \in SUBSET written
      OBVIOUS
    <3> HIDE DEF inside
    <3> QED BY <2>6, <3>1, FS_Subset
  <2>8. Cardinality(files) \in Nat /\ Cardinality(inside) \in Nat /\ Cardinality(written) \in Nat
    <3> HIDE DEF inside
    <3> QED BY <2>3, <2>6, FS_CardinalityType
  <2> HIDE DEF inside
  <2> QED BY <2>5, <2>7, <2>8, SourcesAssumption DEF EntriesRefused
<1> QED BY <1>3, <1>4 DEF Holdable, EntriesRefused

\* The creator's folder is finite.
SourcesInv ==
    /\ SourcesTypeOK /\ IsFiniteSet(sources.files)
    /\ sources = [files |-> sources.files, links |-> sources.links,
                  wrapper |-> sources.wrapper, extra |-> sources.extra]

LEMMA SourcesRead == SourcesInv => ReadsTheSame
<1> SUFFICES ASSUME SourcesInv, Manifest \in sources.files, ~FolderReason(<<sources.wrapper>>)
             PROVE  LET folder == ReadFolder(sources.files, sources.links)
                        archive == ReadArchive(Wrapped(sources.files), sources.links) IN
                    /\ ~archive.refused /\ ~folder.refused => archive.files = folder.files
                    /\ folder.refused => archive.refused \/ \E path \in sources.files : Len(path) > MaxFolders + 1
  BY DEF ReadsTheSame
<1>1. PICK files \in SUBSET SourcePaths : files = sources.files
  BY DEF SourcesInv, SourcesTypeOK
<1>2. PICK links, w, extra : links = sources.links /\ w = sources.wrapper /\ extra = sources.extra
  OBVIOUS
<1>3. PICK written : written = Wrapped(sources.files)
  OBVIOUS
<1>4. IsFiniteSet(files) /\ Manifest \in files /\ ~FolderReason(<<w>>) /\ extra \in {{}, {<<"__MACOSX", "a">>}}
  BY <1>1, <1>2 DEF SourcesInv, SourcesTypeOK
<1>5. written = IF w = "" THEN files ELSE {<<w>> \o p : p \in files} \cup extra
  BY <1>1, <1>2, <1>3 DEF Wrapped
<1>6. CASE EntriesRefused(written, links)
  <2>1. ReadArchive(written, links) = Refusal
    BY <1>6 DEF ReadArchive
  <2> QED BY <1>2, <1>3, <2>1 DEF Refusal
<1>7. CASE ~EntriesRefused(written, links)
  <2>1. Holdable(files) /\ links = {} /\ ReadArchive(written, links) = Tree({p \in files : ~Ignored(p)})
    <3>1. CASE w = ""
      <4>1. written = files
        BY <1>5, <3>1
      <4> QED BY <1>4, <1>7, <4>1, PlainHolds, PlainArchive
    <3>2. CASE w # ""
      <4>1. w \in Wrappers
        BY <1>2, <3>2 DEF SourcesInv, SourcesTypeOK
      <4>2. written = {<<w>> \o p : p \in files} \cup extra
        BY <1>5, <3>2
      <4>3. Holdable(files) /\ links = {}
        BY <1>4, <1>7, <4>1, <4>2, WrappedHolds
      <4>4. ReadArchive(written, links) = Tree({p \in files : ~Ignored(p)})
        BY <1>4, <1>7, <4>1, <4>2, WrappedArchive
      <4> QED BY <4>3, <4>4
    <3> QED BY <3>1, <3>2
  <2>2. PICK folder : folder = ReadFolder(files, {})
    OBVIOUS
  <2>3. /\ ~folder.refused => folder.files = {p \in files : ~Ignored(p)}
        /\ folder.refused => \E p \in files : Len(p) > MaxFolders + 1
    BY <2>1, <2>2, FolderRead
  <2>4. folder = ReadFolder(sources.files, sources.links)
    BY <1>1, <1>2, <2>1, <2>2
  <2>5. ReadArchive(Wrapped(sources.files), sources.links).files = {p \in files : ~Ignored(p)}
    BY <1>2, <1>3, <2>1 DEF Tree
  <2> QED BY <1>1, <2>3, <2>4, <2>5
<1> QED BY <1>6, <1>7


LEMMA SourcesStep == SourcesInv /\ [SourcesNext]_sources => SourcesInv'
<1> SUFFICES ASSUME SourcesInv, [SourcesNext]_sources PROVE SourcesInv'
  OBVIOUS
<1>1. PICK files, links, wrapper, extra :
        sources = [files |-> files, links |-> links, wrapper |-> wrapper, extra |-> extra]
  BY DEF SourcesInv
<1>2. /\ files \subseteq SourcePaths /\ links \subseteq files /\ IsFiniteSet(files)
      /\ wrapper \in Wrappers \cup {""} /\ extra \in {{}, {<<"__MACOSX", "a">>}}
  BY <1>1 DEF SourcesInv, SourcesTypeOK
<1>3. ASSUME NEW f, NEW l, NEW w, NEW x,
             sources' = [files |-> f, links |-> l, wrapper |-> w, extra |-> x],
             f \subseteq SourcePaths, l \subseteq f, IsFiniteSet(f),
             w \in Wrappers \cup {""}, x \in {{}, {<<"__MACOSX", "a">>}}
      PROVE  SourcesInv'
  BY <1>3 DEF SourcesInv, SourcesTypeOK
<1>4. CASE AddFile
  <2>1. PICK path \in SourcePaths : sources' = [sources EXCEPT !.files = @ \cup {path}]
    BY <1>4 DEF AddFile
  <2>2. sources' = [files |-> files \cup {path}, links |-> links, wrapper |-> wrapper, extra |-> extra]
    BY <1>1, <2>1
  <2>3. IsFiniteSet(files \cup {path})
    BY <1>2, FS_AddElement
  <2>4. files \cup {path} \subseteq SourcePaths /\ links \subseteq files \cup {path}
    BY <1>2
  <2> QED BY <1>2, <1>3, <2>2, <2>3, <2>4
<1>5. CASE AddLink
  <2>1. PICK path \in files : sources' = [sources EXCEPT !.links = @ \cup {path}]
    BY <1>1, <1>5 DEF AddLink
  <2>2. sources' = [files |-> files, links |-> links \cup {path}, wrapper |-> wrapper, extra |-> extra]
    BY <1>1, <2>1
  <2>3. links \cup {path} \subseteq files
    BY <1>2
  <2> QED BY <1>2, <1>3, <2>2, <2>3
<1>6. CASE Wrap
  <2>1. PICK w \in Wrappers, x \in {{}, {<<"__MACOSX", "a">>}} : sources' = [sources EXCEPT !.wrapper = w, !.extra = x]
    BY <1>6 DEF Wrap
  <2>2. sources' = [files |-> files, links |-> links, wrapper |-> w, extra |-> x]
    BY <1>1, <2>1
  <2> QED BY <1>2, <1>3, <2>2
<1>7. CASE UNCHANGED sources
  BY <1>1, <1>2, <1>3, <1>7
<1> QED BY <1>4, <1>5, <1>6, <1>7 DEF SourcesNext

LEMMA SourcesStart == SourcesInit => SourcesInv
<1> SUFFICES ASSUME SourcesInit PROVE SourcesInv
  OBVIOUS
<1>1. sources = [files |-> {}, links |-> {}, wrapper |-> "", extra |-> {}]
  BY DEF SourcesInit
<1>2. IsFiniteSet({})
  BY FS_EmptySet
<1> QED BY <1>1, <1>2 DEF SourcesInv, SourcesTypeOK

\* Of sourcetree.rs: a creator's folder and its archive keep their types.
THEOREM SourcesTypeCorrect == SourcesSpec => []SourcesTypeOK
<1>1. SourcesInv => SourcesTypeOK
  BY DEF SourcesInv
<1> QED BY <1>1, SourcesStart, SourcesStep, PTL DEF SourcesSpec

\* sourcetree.rs:1-2: a project, with its manifest at its root, is the same
\* files from its folder and from its archive, wrapped or not, for every
\* folder of files, every name that is left out and every bound; and a folder
\* is refused where its archive is not only for a path of too many folders.
THEOREM SourcesReadTheSame == SourcesSpec => []ReadsTheSame
BY SourcesStart, SourcesStep, SourcesRead, PTL DEF SourcesSpec

-----------------------------------------------------------------------------
(* The layout of an archive (ZipLayout). The loop keeps three facts about  *)
(* the entries it has checked: they follow one another, none passes        *)
(* next_free, and under strict_layout they cover every byte before it.     *)
(* next_free reaches the directory because the last entry is followed by it: *)
(* the loop's own state does not say so, and AtTheEnd adds it.             *)

USE LayoutAssumption

Ordered ==
    /\ \A i \in DOMAIN layout.spans : layout.spans[i].to <= layout.free
    /\ \A i, j \in DOMAIN layout.spans : i < j => layout.spans[i].to <= layout.spans[j].from
Covered ==
    layout.strict =>
        \A byte \in Nat : byte < layout.free => \E i \in DOMAIN layout.spans : Covers(i, byte)
AtTheEnd ==
    /\ layout.left = 0 => layout.next = layout.area
    /\ layout.strict /\ layout.spans # <<>> => layout.free = layout.next
Concluded ==
    layout.verdict = "accepted" =>
        layout.left = 0 /\ (layout.strict /\ layout.spans = <<>> => layout.area = 0)
LayoutIInv == LayoutTypeOK /\ Ordered /\ Covered /\ AtTheEnd /\ Concluded

LEMMA InitLayout == LayoutInit => LayoutIInv
BY DEF LayoutInit, LayoutIInv, LayoutTypeOK, Ordered, Covered, AtTheEnd, Concluded, Covers

\* One entry accepted: it starts at or after next_free, where the ones
\* before it end.
LEMMA EntryKeeps ==
    ASSUME LayoutIInv, layout.verdict = "reading", layout.left > 0,
           NEW header \in Lengths, NEW data \in Lengths, NEW following \in Lengths,
           NEW end \in {following, layout.next + header + data},
           Starts,
           layout.left = 1 => following = layout.area,
           layout.strict => end = following,
           layout' = [layout EXCEPT !.left = @ - 1, !.next = following, !.free = end,
                        !.spans = Append(@, [from |-> layout.next, to |-> end])],
           layout.next <= end
    PROVE  LayoutIInv'
<1> DEFINE span == [from |-> layout.next, to |-> end]
           n == Len(layout.spans)
<1>1. /\ layout \in [area : Nat, strict : BOOLEAN, left : Nat, next : Nat, free : Nat,
                     spans : Seq(Spans), verdict : {"reading", "refused", "accepted"}]
      /\ end \in Nat /\ span \in Spans /\ header \in Nat /\ data \in Nat /\ following \in Nat
  BY DEF LayoutIInv, LayoutTypeOK, Spans
<1>2. /\ layout'.spans = Append(layout.spans, span)
      /\ layout'.free = end /\ layout'.next = following /\ layout'.left = layout.left - 1
      /\ layout'.strict = layout.strict /\ layout'.area = layout.area
      /\ layout'.verdict = "reading"
  BY <1>1
<1>3. LayoutTypeOK'
  <2>1. layout.left - 1 \in Nat /\ Append(layout.spans, span) \in Seq(Spans)
    BY <1>1
  <2> QED BY <1>1, <2>1 DEF LayoutTypeOK
<1>4. /\ DOMAIN layout.spans = 1..n /\ n \in Nat
      /\ DOMAIN layout'.spans = 1..(n + 1)
      /\ \A i \in 1..n : layout'.spans[i] = layout.spans[i]
      /\ layout'.spans[n + 1] = span
      /\ \A i \in 1..n : layout.spans[i].to \in Nat /\ layout.spans[i].from \in Nat
  <2>1. layout.spans \in Seq(Spans)
    BY <1>1
  <2>2. DOMAIN layout.spans = 1..n /\ n \in Nat /\ \A i \in 1..n : layout.spans[i] \in Spans
    BY <2>1
  <2> HIDE DEF span
  <2>3. /\ DOMAIN layout'.spans = 1..(n + 1)
        /\ \A i \in 1..n : layout'.spans[i] = layout.spans[i]
        /\ layout'.spans[n + 1] = span
    BY <1>1, <1>2, <2>1, <2>2
  <2> QED BY <2>2, <2>3 DEF Spans
<1>5. layout.free <= layout.next /\ (layout.strict => layout.free = layout.next)
  BY DEF Starts
<1>6. \A i \in 1..n : layout.spans[i].to <= layout.free
  BY <1>4 DEF LayoutIInv, Ordered
<1>7. Ordered'
  <2>1. ASSUME NEW i \in 1..(n + 1)
        PROVE  layout'.spans[i].to <= layout'.free
    <3>1. CASE i \in 1..n
      BY <1>1, <1>2, <1>4, <1>5, <1>6, <3>1
    <3>2. CASE i = n + 1
      BY <1>1, <1>2, <1>4, <3>2
    <3> QED BY <1>4, <3>1, <3>2
  <2>2. ASSUME NEW i \in 1..(n + 1), NEW j \in 1..(n + 1), i < j
        PROVE  layout'.spans[i].to <= layout'.spans[j].from
    <3>1. CASE j \in 1..n
      BY <1>4, <2>2, <3>1 DEF LayoutIInv, Ordered
    <3>2. CASE j = n + 1
      <4>1. i \in 1..n
        BY <1>4, <2>2, <3>2
      <4> QED BY <1>1, <1>4, <1>5, <1>6, <3>2, <4>1
    <3> QED BY <1>4, <3>1, <3>2
  <2> QED BY <1>4, <2>1, <2>2 DEF Ordered
<1>8. Covered'
  <2> SUFFICES ASSUME layout.strict, NEW byte \in Nat, byte < end
               PROVE  \E i \in 1..(n + 1) : Covers(i, byte)'
    BY <1>2, <1>4 DEF Covered
  <2>1. CASE byte < layout.free
    <3>1. PICK i \in 1..n : Covers(i, byte)
      BY <1>4, <2>1 DEF LayoutIInv, Covered
    <3> QED BY <1>4, <3>1 DEF Covers
  <2>2. CASE ~(byte < layout.free)
    <3>1. layout.next <= byte
      BY <1>1, <1>5, <2>2
    <3> QED BY <1>4, <3>1 DEF Covers
  <2> QED BY <2>1, <2>2
<1>9. AtTheEnd' /\ Concluded'
  BY <1>1, <1>2 DEF AtTheEnd, Concluded
<1> QED BY <1>3, <1>7, <1>8, <1>9 DEF LayoutIInv

\* Only the verdict changes.
LEMMA VerdictKeeps ==
    ASSUME LayoutIInv, NEW verdict \in {"refused", "accepted"},
           layout' = [layout EXCEPT !.verdict = verdict],
           verdict = "accepted" =>
               layout.left = 0 /\ (layout.strict /\ layout.spans = <<>> => layout.area = 0)
    PROVE  LayoutIInv'
<1>1. /\ LayoutTypeOK'
      /\ layout'.spans = layout.spans /\ layout'.free = layout.free
      /\ layout'.next = layout.next /\ layout'.left = layout.left
      /\ layout'.strict = layout.strict /\ layout'.area = layout.area
      /\ layout'.verdict = verdict
  BY DEF LayoutIInv, LayoutTypeOK
<1> QED BY <1>1 DEF LayoutIInv, Ordered, Covered, AtTheEnd, Concluded, Covers

LEMMA NextKeeps == LayoutIInv /\ LayoutNext => LayoutIInv'
<1> SUFFICES ASSUME LayoutIInv, LayoutNext
             PROVE  LayoutIInv'
  OBVIOUS
<1>1. CASE ReadEntry
  <2>1. PICK header \in Lengths, data \in Lengths, following \in Lengths,
             streamed \in BOOLEAN, agrees \in BOOLEAN :
               LET dataEnd == layout.next + header + data IN
               /\ header >= FixedHeader
               /\ IF layout.left = 1 THEN following = layout.area
                  ELSE following >= layout.next
               /\ IF Starts /\ Holds(header, data, agrees)
                       /\ EndsAt(dataEnd, streamed, following)
                  THEN layout' = [layout EXCEPT
                         !.left = @ - 1, !.next = following,
                         !.free = IF layout.strict THEN following ELSE dataEnd,
                         !.spans = Append(@, [from |-> layout.next,
                             to |-> IF layout.strict THEN following ELSE dataEnd])]
                  ELSE RefuseLayout
    BY <1>1 DEF ReadEntry
  <2> DEFINE dataEnd == layout.next + header + data
             end == IF layout.strict THEN following ELSE dataEnd
  <2>2. CASE Starts /\ Holds(header, data, agrees) /\ EndsAt(dataEnd, streamed, following)
    <3>1. header \in Nat /\ data \in Nat /\ following \in Nat /\ layout.next \in Nat
      BY DEF LayoutIInv, LayoutTypeOK
    <3>2. dataEnd >= layout.next
      BY <3>1
    <3>3. layout.strict => following >= dataEnd
      <4> SUFFICES ASSUME layout.strict
                   PROVE  following >= dataEnd
        OBVIOUS
      <4>1. CASE streamed
        <5>1. PICK d \in Descriptors : dataEnd + d = following
          BY <2>2, <4>1 DEF EndsAt
        <5> QED BY <3>1, <5>1
      <4>2. CASE ~streamed
        BY <2>2, <3>1, <4>2 DEF EndsAt
      <4> QED BY <4>1, <4>2
    <3>4. layout.next <= end /\ end \in {following, dataEnd} /\ (layout.strict => end = following)
      BY <3>1, <3>2, <3>3
    <3>5. layout' = [layout EXCEPT !.left = @ - 1, !.next = following, !.free = end,
                       !.spans = Append(@, [from |-> layout.next, to |-> end])]
      BY <2>1, <2>2
    <3>6. layout.left = 1 => following = layout.area
      BY <2>1
    <3>7. layout.verdict = "reading" /\ layout.left > 0
      BY <1>1 DEF ReadEntry
    <3> HIDE DEF end
    <3> QED BY <2>2, <3>4, <3>5, <3>6, <3>7, EntryKeeps
  <2>3. CASE ~(Starts /\ Holds(header, data, agrees)
                 /\ EndsAt(dataEnd, streamed, following))
    <3>1. RefuseLayout
      BY <2>1, <2>3
    <3> QED BY <3>1, VerdictKeeps DEF RefuseLayout
  <2> QED BY <2>2, <2>3
<1>2. CASE EndLayout
  BY <1>2, VerdictKeeps DEF EndLayout, RefuseLayout
<1> QED BY <1>1, <1>2 DEF LayoutNext

LEMMA LayoutIInvHolds == LayoutSpec => []LayoutIInv
<1>1. LayoutIInv /\ UNCHANGED layout => LayoutIInv'
  BY DEF LayoutIInv, LayoutTypeOK, Ordered, Covered, AtTheEnd, Concluded, Covers
<1> QED BY <1>1, InitLayout, NextKeeps, PTL DEF LayoutSpec

(* Of an accepted archive, however many entries it has and wherever they   *)
(* are: no byte belongs to two entries, and under strict_layout every byte *)
(* before the directory belongs to one.                                    *)
THEOREM EachByteOnceHolds == LayoutSpec => []EachByteOnce
<1>1. LayoutIInv => EachByteOnce
  <2> SUFFICES ASSUME LayoutIInv, layout.verdict = "accepted",
                      NEW byte \in 0..(layout.area - 1)
               PROVE  /\ \A i, j \in DOMAIN layout.spans :
                            Covers(i, byte) /\ Covers(j, byte) => i = j
                      /\ layout.strict => \E i \in DOMAIN layout.spans : Covers(i, byte)
    BY DEF EachByteOnce
  <2>1. /\ layout.area \in Nat /\ byte \in Nat /\ byte < layout.area
        /\ \A i \in DOMAIN layout.spans :
             i \in Nat /\ layout.spans[i].from \in Nat /\ layout.spans[i].to \in Nat
    <3>1. layout.spans \in Seq(Spans) /\ layout.area \in Nat
      BY DEF LayoutIInv, LayoutTypeOK
    <3>2. \A i \in DOMAIN layout.spans : i \in Nat /\ layout.spans[i] \in Spans
      BY <3>1
    <3> QED BY <3>1, <3>2 DEF Spans
  <2>2. ASSUME NEW i \in DOMAIN layout.spans, NEW j \in DOMAIN layout.spans,
               Covers(i, byte), Covers(j, byte)
        PROVE  i = j
    <3>1. ~(i < j) /\ ~(j < i)
      BY <2>1, <2>2 DEF LayoutIInv, Ordered, Covers
    <3> QED BY <2>1, <3>1
  <2>3. ASSUME layout.strict
        PROVE  \E i \in DOMAIN layout.spans : Covers(i, byte)
    <3>1. layout.spans # <<>>
      BY <2>1, <2>3 DEF LayoutIInv, Concluded
    <3>2. layout.free = layout.area
      BY <2>3, <3>1 DEF LayoutIInv, Concluded, AtTheEnd
    <3> QED BY <2>1, <2>3, <3>2 DEF LayoutIInv, Covered
  <2> QED BY <2>2, <2>3
<1> QED BY <1>1, LayoutIInvHolds, PTL
=============================================================================
