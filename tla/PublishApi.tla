------------------------------ MODULE PublishApi ------------------------------
(***************************************************************************)
(* The creator space's publish API, as far as the command-line tool's      *)
(* `submit` relies on it (cli/src/publish/submit.rs, state.rs, api.rs):    *)
(* the service itself is not in the repository.  One widget, one version   *)
(* number, one publish key: other numbers are independent of it.           *)
(*                                                                         *)
(* A submission is named by its Idempotency-Key: the API keeps every key   *)
(* it saw, forever, and answers the same submission for the same key.      *)
(***************************************************************************)
EXTENDS Integers, Sequences, FiniteSets

CONSTANTS
    Requests,   \* request bodies: [files, extras, texts], see RequestsType
    Keys,       \* idempotency keys
    Expiry,     \* age at which a submission not finalized expires (60 min)
    Day,        \* the 24 hours of the submission limit
    Quota,      \* submissions accepted in a Day
    MaxClock    \* bound of the clock (model checking only)

ASSUME RequestsType ==
    \A r \in Requests : r = [files |-> r.files, extras |-> r.extras, texts |-> r.texts]
ASSUME LimitsType ==
    /\ Expiry \in Nat /\ Day \in Nat /\ Quota \in Nat /\ MaxClock \in Nat
    /\ 0 < Expiry /\ Expiry < Day

VARIABLES
    clock,      \* the time, in a unit much longer than a request
    sub,        \* the submissions, by their key (a partial function)
    versions    \* the versions of the number, in the order of their ids

apiVars == <<clock, sub, versions>>

Submission ==
    [body   : Requests,
     state  : {"pending_upload", "finalized", "expired", "refused"},
     upload : {"none", "unseen", "seen", "bad"},
     at     : Nat]

Version ==
    [key   : Keys,
     state : {"checking", "checks_failed", "in_review"},
     built : BOOLEAN,           \* its package has a digest
     stuck : BOOLEAN]           \* build_problem "failed"

(* f with v at x, and f without x: the partial functions of this model.    *)
Put(f, x, v) == [y \in DOMAIN f \cup {x} |-> IF y = x THEN v ELSE f[y]]
Without(f, S) == [y \in DOMAIN f \ S |-> f[y]]

PartialFunction(f, S, T) ==
    /\ f = [x \in DOMAIN f |-> f[x]]
    /\ DOMAIN f \subseteq S
    /\ \A x \in DOMAIN f : f[x] \in T

(* The archive of a request, byte for byte; its package has only `files`.  *)
Sources(r) == <<r.files, r.extras>>

Body(i) == sub[versions[i].key].body

Pending(k) == k \in DOMAIN sub /\ sub[k].state = "pending_upload"

(* A pending submission still within its upload time: the API gives its    *)
(* upload link and takes its upload.                                       *)
Live(k) == Pending(k) /\ clock - sub[k].at < Expiry

Counted == {k \in DOMAIN sub : clock - sub[k].at < Day}
LimitReached == Cardinality(Counted) >= Quota

ApiTypeOK ==
    /\ clock \in Nat
    /\ PartialFunction(sub, Keys, Submission)
    /\ versions \in Seq(Version)

ApiInit ==
    /\ clock = 0
    /\ sub = <<>>
    /\ versions = <<>>

-----------------------------------------------------------------------------
(* What the API does for each request; `reply` is what it answers.         *)

(* POST submissions: the submission of the key, created if it is new.      *)
ApiCreate(k, body, reply) ==
    \/ /\ k \in DOMAIN sub
       /\ reply = IF sub[k].body # body THEN "reused"
                  ELSE IF Live(k) THEN "upload"
                  ELSE IF Pending(k) THEN "overdue"
                  ELSE sub[k].state
       /\ UNCHANGED sub
    \/ /\ k \notin DOMAIN sub
       /\ LimitReached
       /\ reply = "limit"
       /\ UNCHANGED sub
    \/ /\ k \notin DOMAIN sub
       /\ ~LimitReached
       /\ reply = "upload"
       /\ sub' = Put(sub, k, [body |-> body, state |-> "pending_upload",
                              upload |-> "none", at |-> clock])

CreateReplies == {"upload", "overdue", "finalized", "expired", "refused", "reused", "limit"}

(* PUT to the signed link: the storage takes the archive, and the API does *)
(* not see it at once; what it sees may not be what was declared.          *)
ApiUpload(k) ==
    sub' = IF Live(k) /\ sub[k].upload # "seen"
           THEN [sub EXCEPT ![k].upload = "unseen"]
           ELSE sub

(* POST finalize: the version, once.  Refused when another version of the  *)
(* number was started and did not fail its checks.                         *)
InProgress == \E i \in 1 .. Len(versions) : versions[i].state # "checks_failed"

ApiFinalize(k, reply) ==
    \/ /\ k \in DOMAIN sub
       /\ sub[k].state # "pending_upload" \/ ~Live(k)
       /\ reply = CASE sub[k].state = "finalized" -> "finalized"
                    [] sub[k].state = "refused" -> "refused"
                    [] OTHER -> "submission_expired"
       /\ UNCHANGED <<sub, versions>>
    \/ /\ Live(k)
       /\ sub[k].upload \in {"none", "unseen"}
       /\ reply = "upload_missing"
       /\ UNCHANGED <<sub, versions>>
    \/ /\ Live(k)
       /\ sub[k].upload = "bad"
       /\ reply = "upload_mismatch"
       /\ sub' = [sub EXCEPT ![k].state = "refused"]
       /\ UNCHANGED versions
    \/ /\ Live(k)
       /\ sub[k].upload = "seen"
       /\ InProgress
       /\ reply = "refused"
       /\ sub' = [sub EXCEPT ![k].state = "refused"]
       /\ UNCHANGED versions
    \/ /\ Live(k)
       /\ sub[k].upload = "seen"
       /\ ~InProgress
       /\ reply = "finalized"
       /\ sub' = [sub EXCEPT ![k].state = "finalized"]
       /\ versions' = Append(versions, [key |-> k, state |-> "checking",
                                        built |-> FALSE, stuck |-> FALSE])

FinalizeReplies == {"finalized", "submission_expired", "upload_missing",
                    "upload_mismatch", "refused"}

-----------------------------------------------------------------------------
(* What the API does by itself.                                            *)

(* The storage shows an upload, as it was sent or not.                     *)
StorageShows(k) ==
    /\ k \in DOMAIN sub
    /\ sub[k].upload = "unseen"
    /\ \E seen \in {"seen", "bad"} : sub' = [sub EXCEPT ![k].upload = seen]
    /\ UNCHANGED <<clock, versions>>

(* An overdue submission is marked as expired, sooner or later.            *)
Expire(k) ==
    /\ Pending(k)
    /\ ~Live(k)
    /\ sub' = [sub EXCEPT ![k].state = "expired"]
    /\ UNCHANGED <<clock, versions>>

(* The checks of a version end.                                            *)
ChecksEnd(i) ==
    /\ i \in 1 .. Len(versions)
    /\ versions[i].state = "checking"
    /\ \E passed, built \in BOOLEAN :
          /\ passed => built
          /\ versions' = [versions EXCEPT
                            ![i].state = IF passed THEN "in_review" ELSE "checks_failed",
                            ![i].built = built,
                            ![i].stuck = FALSE]
    /\ UNCHANGED <<clock, sub>>

(* The checks meet a problem of PlayerVox's own: they run again later.     *)
ChecksStuck(i) ==
    /\ i \in 1 .. Len(versions)
    /\ versions[i].state = "checking"
    /\ ~versions[i].stuck
    /\ versions' = [versions EXCEPT ![i].stuck = TRUE]
    /\ UNCHANGED <<clock, sub>>
=============================================================================
