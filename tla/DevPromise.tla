------------------------------- MODULE DevPromise -------------------------------
(***************************************************************************)
(* What `overcrow-widget dev` promises of the overlay's screen (the header *)
(* of cli/src/dev.rs): the session makes builds of snapshots of the        *)
(* sources and offers them to the overlay, which only ever goes on to a    *)
(* newer one; an offer is withdrawn for a newer one or for a refusal that  *)
(* is not `busy`, so the newest build is never lost while the session      *)
(* runs.  No loop, message, delay or retry appears here.                   *)
(***************************************************************************)
EXTENDS Naturals

CONSTANTS
    Sources,      \* contents of the sources
    NoSources,
    MayRefuse     \* whether the overlay may refuse a build for good

VARIABLES
    disk,         \* the sources
    read,         \* the last snapshot of them
    made,         \* the builds made so far
    offered,      \* the builds the overlay may still go on to
    shown,        \* the build it shows, or NoBuild
    running,      \* the session goes on
    open          \* the overlay is there

vars == <<disk, read, made, offered, shown, running, open>>

NoBuild == [pkg |-> NoSources, n |-> 0]

Init ==
    /\ disk \in Sources
    /\ read = NoSources
    /\ made = 0
    /\ offered = {}
    /\ shown = NoBuild
    /\ running = TRUE
    /\ open = TRUE

Save ==
    /\ disk' \in Sources
    /\ UNCHANGED <<read, made, offered, shown, running, open>>

Snapshot ==
    /\ running
    /\ read' = disk
    /\ UNCHANGED <<disk, made, offered, shown, running, open>>

(* A new build takes the place of the others, but one at most: the overlay *)
(* may be deciding on it.                                                  *)
Make ==
    /\ running
    /\ made' = made + 1
    /\ \E kept \in SUBSET offered :
         /\ \A b, c \in kept : b = c
         /\ offered' = IF open THEN kept \cup {[pkg |-> read, n |-> made + 1]} ELSE {}
    /\ UNCHANGED <<disk, read, shown, running, open>>

Show(b) ==
    /\ open
    /\ shown' = b
    /\ offered' = {c \in offered : c.n > b.n}
    /\ UNCHANGED <<disk, read, made, running, open>>

(* An offer is withdrawn: for a newer one; alone, for a refusal; at the    *)
(* end.  Never a newer one for an older.                                   *)
Withdraw(b) ==
    /\ \/ \E c \in offered : c.n > b.n
       \/ MayRefuse /\ offered = {b}
       \/ ~running
    /\ offered' = offered \ {b}
    /\ UNCHANGED <<disk, read, made, shown, running, open>>

End ==
    /\ running
    /\ running' = FALSE
    /\ offered' \in SUBSET offered
    /\ UNCHANGED <<disk, read, made, shown, open>>

(* What the session left on the screen is removed.                         *)
Remove ==
    /\ ~running
    /\ shown' = NoBuild
    /\ UNCHANGED <<disk, read, made, offered, running, open>>

Quit ==
    /\ open
    /\ open' = FALSE
    /\ shown' = NoBuild
    /\ offered' = {}
    /\ UNCHANGED <<disk, read, made, running>>

Next ==
    \/ Save \/ Snapshot \/ Make
    \/ \E b \in offered : Show(b) \/ Withdraw(b)
    \/ End \/ Remove \/ Quit

Spec == Init /\ [][Next]_vars

-----------------------------------------------------------------------------
(* The builds offered are newer than the one shown, at most two, and no    *)
(* two have the same number.                                               *)
OffersNewer ==
    /\ shown.n <= made
    /\ \A b \in offered : shown.n < b.n /\ b.n <= made
    /\ \A b, c \in offered : b.n = c.n => b = c

(* Unless the overlay refuses it for good, the last build made is on the   *)
(* screen or on its way to it, however many builds came before it.         *)
NewestKept ==
    running /\ open /\ ~MayRefuse /\ made > 0 =>
        \E b \in offered \cup {shown} : b.n = made
=============================================================================
