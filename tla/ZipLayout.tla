------------------------------ MODULE ZipLayout ------------------------------
(***************************************************************************)
(* The strict reader of source archives (cli/src/zipread.rs): the layout   *)
(* of the entries' bytes, which `entries_with` checks from the first byte  *)
(* to the central directory.                                               *)
(*                                                                         *)
(* An archive is chosen as it is read. An entry is its local header's and  *)
(* its data's lengths and whether a data descriptor follows; `agrees` says *)
(* whether what is read there repeats the central directory.               *)
(***************************************************************************)
EXTENDS Naturals, Sequences

CONSTANTS
    Lengths,            \* of headers, data, archives
    FixedHeader,        \* LOCAL_BYTES
    Descriptors,        \* lengths a data descriptor may have: 12 and 16
    MaxZipEntries       \* bound: entries of an archive

ASSUME LayoutAssumption ==
    /\ Lengths \subseteq Nat /\ FixedHeader \in Nat \ {0}
    /\ Descriptors \subseteq Nat /\ MaxZipEntries \in Nat

VARIABLE layout     \* the loop over the entries, in the order of their offsets

Spans == [from : Nat, to : Nat]
LayoutTypeOK ==
    layout \in [area : Nat,             \* directory_offset
                strict : BOOLEAN,       \* rules.strict_layout
                left : Nat,             \* entries not read yet
                next : Nat,             \* where the next one starts, or area
                free : Nat,             \* next_free
                spans : Seq(Spans),     \* of the entries checked
                verdict : {"reading", "refused", "accepted"}]

LayoutInit ==
    \E area \in Lengths, strict \in BOOLEAN, left \in 0..MaxZipEntries, first \in Lengths :
        layout = [area |-> area, strict |-> strict, left |-> left,
                  next |-> IF left = 0 THEN area ELSE first, free |-> 0,
                  spans |-> <<>>, verdict |-> "reading"]

RefuseLayout == layout' = [layout EXCEPT !.verdict = "refused"]

\* Mutant of Starts: bytes before an entry are let through.
StartsLater == layout.next >= layout.free

\* "Overlapping entries", and under strict_layout no byte between them.
Starts == layout.next >= layout.free /\ (layout.strict => layout.next = layout.free)

\* `check_local`, and the data before the directory.
Holds(header, data, agrees) ==
    /\ agrees
    /\ layout.next + FixedHeader <= layout.area
    /\ layout.next + header + data <= layout.area

\* Under strict_layout the data, and the descriptor of a streamed entry, end
\* exactly where the next entry or the directory starts.
EndsAt(dataEnd, streamed, following) ==
    layout.strict =>
        IF streamed THEN \E d \in Descriptors : dataEnd + d = following
        ELSE dataEnd = following

\* One entry: `following` is the next one's offset, or the directory's.
ReadEntry ==
    /\ layout.verdict = "reading" /\ layout.left > 0
    /\ \E header, data, following \in Lengths, streamed, agrees \in BOOLEAN :
         LET dataEnd == layout.next + header + data IN
         /\ header >= FixedHeader
         /\ IF layout.left = 1 THEN following = layout.area ELSE following >= layout.next
         /\ IF Starts /\ Holds(header, data, agrees) /\ EndsAt(dataEnd, streamed, following)
            THEN LET end == IF layout.strict THEN following ELSE dataEnd IN
                 layout' = [layout EXCEPT
                     !.left = @ - 1, !.next = following, !.free = end,
                     !.spans = Append(@, [from |-> layout.next, to |-> end])]
            ELSE RefuseLayout

\* No entry left; an archive of none holds nothing before its directory.
EndLayout ==
    /\ layout.verdict = "reading" /\ layout.left = 0
    /\ IF layout.strict /\ layout.spans = <<>> /\ layout.area # 0
       THEN RefuseLayout ELSE layout' = [layout EXCEPT !.verdict = "accepted"]

LayoutNext == ReadEntry \/ EndLayout
LayoutSpec == LayoutInit /\ [][LayoutNext]_layout
-----------------------------------------------------------------------------
Covers(i, byte) == layout.spans[i].from <= byte /\ byte < layout.spans[i].to

\* zipread.rs: entries "must follow one another without overlapping (and,
\* under `strict_layout`, without any byte between them)": of an accepted
\* archive every byte before the directory belongs to one entry at most, and
\* under strict_layout to one, so that a reader of the stream and a reader
\* of the directory see the same entries.
EachByteOnce ==
    layout.verdict = "accepted" =>
        \A byte \in 0..(layout.area - 1) :
            /\ \A i, j \in DOMAIN layout.spans : Covers(i, byte) /\ Covers(j, byte) => i = j
            /\ layout.strict => \E i \in DOMAIN layout.spans : Covers(i, byte)
=============================================================================
