------------------------------ MODULE Ownership ------------------------------
(***************************************************************************)
(* Whose widget ID it is: the publishers table of a catalog               *)
(* (overcrow-widget-schema catalog_v2.rs `publishers`) and the owner of an *)
(* ID (identifiers.rs `id_owner`).                                         *)
(*                                                                         *)
(* A domain is its labels in DNS order, valhallab.gg = <<valhallab, gg>>,  *)
(* an ID its segments; a handle is a label. Names are in their grammar.    *)
(***************************************************************************)
EXTENDS Naturals, Sequences

CONSTANTS
    Labels, Handles, Domains, Ids,
    House, HouseDomain,     \* PLAYERVOX_HANDLE, PLAYERVOX_DOMAIN
    MaxPublishers           \* bound: MAX_CATALOG_PUBLISHERS

ASSUME OwnershipAssumption ==
    /\ Handles \subseteq Labels /\ House \in Handles /\ MaxPublishers \in Nat
    /\ Domains \subseteq Seq(Labels) /\ \A d \in Domains : Len(d) >= 2
    /\ Ids \subseteq Seq(Labels) /\ \A id \in Ids : Len(id) >= 2
    /\ HouseDomain \in Domains

VARIABLES
    publishers,     \* the entries read: [handle, domains]
    table           \* "reading", "refused" or "accepted"
ownershipVars == <<publishers, table>>

OwnershipTypeOK ==
    /\ publishers \in Seq([handle : Handles, domains : SUBSET Domains])
    /\ table \in {"reading", "refused", "accepted"}

OwnershipInit == publishers = <<>> /\ table = "reading"

\* `d` without its first k labels: what `split_once('.')` leaves, k times.
Parent(d, k) == SubSeq(d, k + 1, Len(d))

\* `domains_overlap`: equal, or one inside the other.
Within(inner, outer) ==
    \E k \in 0..(Len(inner) - 1) : Parent(inner, k) = outer
DomainsOverlap(a, b) == Within(a, b) \/ Within(b, a)

\* `validate_domain`, its grammar aside.
ValidDomain(d, handle) == DomainsOverlap(d, HouseDomain) => handle = House

\* An entry of the table: one per handle, and every domain once.
EntryAccepted(handle, domains) ==
    /\ \A i \in DOMAIN publishers : publishers[i].handle # handle
    /\ \A d \in domains :
         /\ ValidDomain(d, handle)
         /\ \A i \in DOMAIN publishers : d \notin publishers[i].domains

ReadPublisher ==
    /\ table = "reading" /\ Len(publishers) < MaxPublishers
    /\ \E handle \in Handles, domains \in SUBSET Domains :
         IF EntryAccepted(handle, domains)
         THEN /\ publishers' = Append(publishers, [handle |-> handle, domains |-> domains])
              /\ UNCHANGED table
         ELSE table' = "refused" /\ UNCHANGED publishers

\* Mutant of NestedIn: the nearest parent only.
NestedInNearest(i, j) ==
    \E d \in publishers[i].domains :
        Len(Parent(d, 1)) >= 2 /\ Parent(d, 1) \in publishers[j].domains

\* A domain of entry i has a parent, itself a domain, among those of entry j.
NestedIn(i, j) ==
    \E d \in publishers[i].domains : \E k \in 1..(Len(d) - 1) :
        Len(Parent(d, k)) >= 2 /\ Parent(d, k) \in publishers[j].domains

\* "No domain of a publisher is equal to or nested in another publisher's."
CheckNesting ==
    /\ table = "reading"
    /\ table' = IF \E i, j \in DOMAIN publishers : i # j /\ NestedIn(i, j)
                THEN "refused" ELSE "accepted"
    /\ UNCHANGED publishers

OwnershipNext == ReadPublisher \/ CheckNesting
OwnershipSpec == OwnershipInit /\ [][OwnershipNext]_ownershipVars

\* The ID continues the reversed domain by at least one segment.
Under(id, d) ==
    /\ Len(d) < Len(id)
    /\ \A i \in 1..Len(d) : id[i] = d[Len(d) + 1 - i]

\* `is_reserved_id`, which the reversed house domain itself is too.
Reserved(id) ==
    /\ Len(HouseDomain) <= Len(id)
    /\ \A i \in 1..Len(HouseDomain) : id[i] = HouseDomain[Len(HouseDomain) + 1 - i]

\* `id_owner` answers an owner.
Owns(publisher, id) ==
    /\ Reserved(id) => publisher.handle = House
    /\ IF Len(id) = 2 THEN id[1] = publisher.handle
       ELSE \E d \in publisher.domains : Under(id, d)
-----------------------------------------------------------------------------
\* identifiers.rs: "A widget ID belongs to one publisher". In a table that is
\* accepted, whatever the entries and however deep their domains lie in each
\* other, no two publishers own the same ID: catalog_v2.rs `widgets` checks
\* each widget against the one it names only.
OneOwner ==
    table = "accepted" =>
        \A id \in Ids, i, j \in DOMAIN publishers :
            Owns(publishers[i], id) /\ Owns(publishers[j], id) => i = j
=============================================================================
