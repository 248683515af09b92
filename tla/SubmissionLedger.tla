--------------------------- MODULE SubmissionLedger ---------------------------
(***************************************************************************)
(* What `overcrow-widget submit`, run as often as the creator likes but    *)
(* one run at a time, promises of a request (the header of                 *)
(* cli/src/publish/state.rs): one submission of it is open at a time, it   *)
(* makes a version only through that submission, and never one more right  *)
(* after.  No key is ever reused, no run, file or network appears here.    *)
(***************************************************************************)
EXTENDS Naturals, Sequences

CONSTANTS Requests, Keys

VARIABLES
    open,       \* the open submissions of each request, none or one
    delivered   \* the requests that made a version, in order

vars == <<open, delivered>>

Init ==
    /\ open = [r \in Requests |-> {}]
    /\ delivered = <<>>

Last == delivered[Len(delivered)]

Begin(r) ==
    /\ open[r] = {}
    /\ \E k \in Keys : open' = [open EXCEPT ![r] = {k}]
    /\ UNCHANGED delivered

Deliver(r) ==
    /\ open[r] # {}
    /\ delivered # <<>> => Last # r
    /\ open' = [open EXCEPT ![r] = {}]
    /\ delivered' = Append(delivered, r)

(* Submissions expire, are refused, or are given up unanswered.            *)
Close(R) ==
    /\ open' = [r \in Requests |-> IF r \in R THEN {} ELSE open[r]]
    /\ UNCHANGED delivered

Next ==
    \/ \E r \in Requests : Begin(r) \/ Deliver(r)
    \/ \E R \in SUBSET Requests : Close(R)

Spec == Init /\ [][Next]_vars
=============================================================================
