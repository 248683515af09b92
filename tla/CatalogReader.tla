---------------------------- MODULE CatalogReader ----------------------------
(***************************************************************************)
(* Reading the signed widget catalog v2 (overcrow-widget-schema            *)
(* catalog_v2.rs `validate_catalog`, `widgets`, `targets`) by two          *)
(* applications of different ages, whose callers support different         *)
(* features. Both read the same entries; which entries a catalog holds is  *)
(* chosen as they are read.                                                *)
(*                                                                         *)
(* An entry names the features it requires; `sound` says whether the rest  *)
(* of it is what the checks of its fields accept, and of a target, whether *)
(* its manifest is, `rest` its other fields. A feature nobody supports     *)
(* stands for a `requires` that cannot be read.                            *)
(***************************************************************************)
EXTENDS Naturals, FiniteSets

CONSTANTS
    Widgets, Versions, Features,
    OlderFeatures, NewerFeatures,   \* what each application supports
    MaxEntries                      \* bound: entries of a table

ASSUME CatalogAssumption ==
    /\ OlderFeatures \subseteq NewerFeatures /\ NewerFeatures \subseteq Features
    /\ MaxEntries \in Nat

Readers == {"older", "newer"}
Supported == [r \in Readers |-> IF r = "older" THEN OlderFeatures ELSE NewerFeatures]

VARIABLES
    readTable,      \* the table being read: "widgets", "targets", "done"
    entries,        \* counts the entries of the table
    catalog         \* what each reader holds; see ReaderStates
catalogVars == <<readTable, entries, catalog>>

Listed == [id : Widgets, policy : BOOLEAN]
Kept == [id : Widgets, version : Versions, needs : SUBSET Features, network : BOOLEAN]
ReaderStates ==
    [refused : BOOLEAN,             \* the catalog as a whole
     ids : SUBSET Widgets,          \* IDs met
     skipped : SUBSET Widgets,
     widgets : SUBSET Listed,
     targets : SUBSET Kept]

CatalogTypeOK ==
    /\ readTable \in {"widgets", "targets", "done"}
    /\ entries \in 0..MaxEntries
    /\ catalog \in [Readers -> ReaderStates]

CatalogInit ==
    /\ readTable = "widgets" /\ entries = 0
    /\ catalog = [r \in Readers |-> [refused |-> FALSE, ids |-> {}, skipped |-> {},
                                     widgets |-> {}, targets |-> {}]]

Refused(c) == [c EXCEPT !.refused = TRUE]

\* Mutant of SkipWidget: the entry is passed over and its ID not kept.
SkipWidgetForgotten(c, id) == [c EXCEPT !.ids = @ \cup {id}]

\* "Only the ID and `requires` of a skipped entry are read."
SkipWidget(c, id) == [c EXCEPT !.ids = @ \cup {id}, !.skipped = @ \cup {id}]

\* One entry of `widgets`.
WidgetRead(c, features, id, requires, sound, policy) ==
    IF id \in c.ids THEN Refused(c)
    ELSE IF ~(requires \subseteq features) THEN SkipWidget(c, id)
    ELSE IF ~sound THEN Refused(c)
    ELSE [c EXCEPT !.ids = @ \cup {id}, !.widgets = @ \cup {[id |-> id, policy |-> policy]}]

\* One entry of `targets`: skipped when it requires too much, when its widget
\* was, when it does not require all its manifest needs.
TargetRead(c, features, requires, sound, rest, target) ==
    IF ~(requires \subseteq features) \/ target.id \in c.skipped THEN c
    ELSE IF ~sound THEN Refused(c)
    ELSE IF ~(target.needs \subseteq requires) THEN c
    ELSE IF \/ \A w \in c.widgets : w.id # target.id
            \/ ~rest
            \/ \E t \in c.targets : t.id = target.id /\ t.version = target.version
         THEN Refused(c)
    ELSE [c EXCEPT !.targets = @ \cup {target}]

NextEntry(table) ==
    /\ readTable = table /\ entries < MaxEntries /\ entries' = entries + 1
    /\ UNCHANGED readTable

ReadWidget ==
    /\ NextEntry("widgets")
    /\ \E id \in Widgets, requires \in SUBSET Features, sound, policy \in BOOLEAN :
         catalog' = [r \in Readers |->
             IF catalog[r].refused THEN catalog[r]
             ELSE WidgetRead(catalog[r], Supported[r], id, requires, sound, policy)]

ReadTarget ==
    /\ NextEntry("targets")
    /\ \E requires \in SUBSET Features, sound, rest \in BOOLEAN, target \in Kept :
         catalog' = [r \in Readers |->
             IF catalog[r].refused THEN catalog[r]
             ELSE TargetRead(catalog[r], Supported[r], requires, sound, rest, target)]

EndWidgets ==
    /\ readTable = "widgets" /\ readTable' = "targets" /\ entries' = 0
    /\ UNCHANGED catalog

\* A widget that uses the network has a privacy policy; one without a
\* version is not shown.
VersionsOf(c, w) == {t \in c.targets : t.id = w.id}
PolicyMissing(c) ==
    \E w \in c.widgets : ~w.policy /\ \E t \in VersionsOf(c, w) : t.network
Conclusion(c) ==
    IF PolicyMissing(c) THEN Refused(c)
    ELSE [c EXCEPT !.widgets = {w \in @ : VersionsOf(c, w) # {}}]

EndTargets ==
    /\ readTable = "targets" /\ readTable' = "done" /\ entries' = 0
    /\ catalog' = [r \in Readers |-> IF catalog[r].refused THEN catalog[r]
                                     ELSE Conclusion(catalog[r])]

CatalogNext == ReadWidget \/ ReadTarget \/ EndWidgets \/ EndTargets
CatalogSpec == CatalogInit /\ [][CatalogNext]_catalogVars
-----------------------------------------------------------------------------
\* catalog_v2.rs "Forward compatibility": an entry that needs a feature the
\* reader does not support "is skipped rather than refusing the catalog". A
\* catalog the newer application reads is read by the older one, which shows
\* nothing the newer does not, and never a version whose manifest needs what
\* it does not support.
OlderStillReads ==
    readTable = "done" /\ ~catalog["newer"].refused =>
        /\ ~catalog["older"].refused
        /\ catalog["older"].widgets \subseteq catalog["newer"].widgets
        /\ catalog["older"].targets \subseteq catalog["newer"].targets
        /\ \A t \in catalog["older"].targets : t.needs \subseteq OlderFeatures
=============================================================================
