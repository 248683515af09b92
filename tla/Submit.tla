-------------------------------- MODULE Submit --------------------------------
(***************************************************************************)
(* `overcrow-widget submit` (cli/src/publish): runs that may be cut at any *)
(* point, the state file that lets the next run resume the submission of   *)
(* an earlier one, and the API they talk to over a network that may lose   *)
(* a request, lose its answer, or deliver a request late.                  *)
(*                                                                         *)
(* Left out: dry runs and the local refusals other than the submission     *)
(* limit and a known version (they end the run and change nothing);        *)
(* `version_id` of the state file (written when `submission_id` already    *)
(* is, and read only in a disjunction with it); a cache that cannot be     *)
(* written (nothing is resumed then).                                      *)
(***************************************************************************)
EXTENDS PublishApi

CONSTANTS
    Procs,            \* processes that may run `submit` on this computer
    PendingLifetime,  \* age of an unanswered attempt that is not resumed
    StaleAfter,       \* age past which a state file is removed
    Retries,          \* more tries of a request after a transient failure
    MissingWaits,     \* more finalizations of an upload not seen yet
    MaxLate           \* bound of the requests late at once (model checking)

ASSUME TimesType ==
    /\ PendingLifetime \in Nat /\ StaleAfter \in Nat
    /\ Retries \in Nat /\ MissingWaits \in Nat
    /\ 0 < PendingLifetime /\ PendingLifetime < Expiry
    /\ PendingLifetime + Expiry <= StaleAfter

VARIABLES
    file,     \* the state files, by name (a partial function)
    run,      \* what each process is doing
    late,     \* requests given up by their run that may still be served
    attempt   \* history: the idempotency keys in use, with their request,
              \* their time, and whether an answer was saved in the file

vars == <<clock, sub, versions, file, run, late, attempt>>

(* Mutant of Name: the texts are left out of the hash.                      *)
NameOfSources(r) == <<r.files, r.extras>>

(* state.rs `name`: the file is named after the whole request.             *)
Name(r) == <<r.files, r.extras, r.texts>>
Names == {Name(r) : r \in Requests}

Saved == [key : Keys, at : Nat, answered : BOOLEAN]
Attempt == [req : Requests, at : Nat, answered : BOOLEAN]
Message == [kind : {"create", "upload", "finalize"}, key : Keys]

(* A run: what it looks up first; the loop of `send`, with its `Resume`    *)
(* and its flags; the following of a version, `owner` when it holds the    *)
(* state file; and the end of the last run.                                *)
SendSteps == {"save", "create", "keep", "upload", "refresh", "finalize", "recall"}
Looking == [pc : {"listing"}, req : Requests, full : BOOLEAN]
Opening == [pc : {"open"}, req : Requests]
Sending ==
    [pc : SendSteps, req : Requests, key : Keys, at : Nat, answered : BOOLEAN,
     resumed : BOOLEAN, restarted : BOOLEAN, refreshed : BOOLEAN,
     tries : Nat, waits : Nat]
Watching == [pc : {"follow"}, req : Requests, version : Nat, owner : BOOLEAN]
Outcomes == {"none", "error", "refused", "refused_locally",
             "checking", "known", "failed", "sent"}
Idle == [pc : {"idle"}, out : Outcomes]
Runs == Looking \cup Opening \cup Sending \cup Watching \cup Idle

TypeOK ==
    /\ ApiTypeOK
    /\ PartialFunction(file, Names, Saved)
    /\ run \in [Procs -> Runs]
    /\ late \subseteq Message
    /\ PartialFunction(attempt, Keys, Attempt)

Init ==
    /\ ApiInit
    /\ file = <<>>
    /\ run = [p \in Procs |-> [pc |-> "idle", out |-> "none"]]
    /\ late = {}
    /\ attempt = <<>>

-----------------------------------------------------------------------------
At(p, pc) == run[p].pc = pc

Become(p, r) == run' = [run EXCEPT ![p] = r]
End(p, out) == Become(p, [pc |-> "idle", out |-> out])
Enter(p, pc) == Become(p, [run[p] EXCEPT !.pc = pc, !.tries = 0, !.refreshed = FALSE])
Follow(p, i, owner) ==
    Become(p, [pc |-> "follow", req |-> run[p].req, version |-> i, owner |-> owner])

(* Mutant of SaveState: the file is named after the key.                   *)
SaveUnderKey(r) ==
    file' = Put(file, r.key, [key |-> r.key, at |-> r.at, answered |-> r.answered])

(* state.rs `save`, `forget`: one file, replaced or removed at once.       *)
SaveState(r) ==
    file' = Put(file, Name(r.req), [key |-> r.key, at |-> r.at, answered |-> r.answered])
Forget(r) == file' = Without(file, {Name(r.req)})

(* state.rs `fresh_key`: a key nobody uses, nor used on the API.           *)
Holds(p, k) == run[p].pc \in SendSteps /\ run[p].key = k
Kept(k) == \E n \in DOMAIN file : file[n].key = k
Used(k) ==
    \/ k \in DOMAIN sub
    \/ Kept(k)
    \/ \E p \in Procs : Holds(p, k)
    \/ \E m \in late : m.key = k
Fresh == {k \in Keys : ~Used(k)}
MakeKey(k, req) ==
    attempt' = Put(Without(attempt, Fresh), k,
                   [req |-> req, at |-> clock, answered |-> FALSE])

(* `send` from its first step, on a new submission.                        *)
NewSending(req, k, restarted) ==
    [pc |-> "save", req |-> req, key |-> k, at |-> clock, answered |-> FALSE,
     resumed |-> FALSE, restarted |-> restarted, refreshed |-> FALSE,
     tries |-> 0, waits |-> 0]

(* Mutant of StartAgain: the submission that ended is not forgotten.       *)
StopAtEnded(p) ==
    /\ ~run[p].restarted
    /\ End(p, "error")
    /\ UNCHANGED <<file, attempt>>

(* state.rs `forget`, `renew`: the earlier submission expired or was       *)
(* refused, another one is started, once in a run.                         *)
StartAgain(p) ==
    /\ ~run[p].restarted
    /\ Forget(run[p])
    /\ \E k \in Fresh :
          /\ MakeKey(k, run[p].req)
          /\ Become(p, NewSending(run[p].req, k, TRUE))

(* Mutant of Cut: a failure of the network ends as a refusal of the API.   *)
CutAsRefusal(p, kind) ==
    /\ late' = late
    /\ End(p, "refused")
    /\ UNCHANGED <<clock, sub, versions, file, attempt>>

(* A request the run got no answer for: it may be served later (at once is *)
(* an answer that was lost), or never.  It is tried again after a          *)
(* transient failure, while tries are left.                                *)
Cut(p, kind) ==
    /\ \/ late' = late
       \/ /\ Cardinality(late) < MaxLate
          /\ late' = late \cup {[kind |-> kind, key |-> run[p].key]}
    /\ \/ /\ run[p].tries < Retries
          /\ Become(p, [run[p] EXCEPT !.tries = @ + 1])
       \/ End(p, "error")
    /\ UNCHANGED <<clock, sub, versions, file, attempt>>

-----------------------------------------------------------------------------
(* `submit`, before `send`: the sources and texts are read, then what is   *)
(* left of the submission limit.                                           *)
Start(p, r) ==
    /\ At(p, "idle")
    /\ Become(p, [pc |-> "listing", req |-> r, full |-> LimitReached])
    /\ UNCHANGED <<clock, sub, versions, file, late, attempt>>

(* `find_known`, `conclude_known`, `check_locally`: the newest version of  *)
(* the number, if it holds the same sources or the same widget files, ends *)
(* the run (or is followed); other widget files of a built version are     *)
(* refused, and so is anything new past the submission limit.              *)
ConcludeKnown(p, i) ==
    IF versions[i].state = "checking" THEN Follow(p, i, FALSE) ELSE End(p, "known")

Look(p) ==
    /\ At(p, "listing")
    /\ LET i == Len(versions)
           same == i > 0 /\ Sources(Body(i)) = Sources(run[p].req)
           built == i > 0 /\ versions[i].built
           alike == built /\ Body(i).files = run[p].req.files
       IN  \/ same /\ ConcludeKnown(p, i)
           \/ ~same /\ alike /\ ConcludeKnown(p, i)
           \/ ~same /\ built /\ End(p, "refused_locally")
           \/ ~same /\ ~built /\ run[p].full /\ End(p, "refused_locally")
           \/ /\ ~same /\ ~built /\ ~run[p].full
              /\ Become(p, [pc |-> "open", req |-> run[p].req])
    /\ UNCHANGED <<clock, sub, versions, file, late, attempt>>

LookFails(p) ==
    /\ At(p, "listing")
    /\ End(p, "error")
    /\ UNCHANGED <<clock, sub, versions, file, late, attempt>>

(* state.rs `open_at`: stale files go, then the state of the request is    *)
(* resumed: answered, whatever its age; unanswered, within its upload time.*)
Age(f) == clock - f.at
Stale == {n \in DOMAIN file : Age(file[n]) > StaleAfter}

(* Mutants of Resumable: nothing is resumed; only a young attempt is.      *)
ResumableNever(n) == FALSE
ResumableYoung(n) == n \in DOMAIN file \ Stale /\ Age(file[n]) < PendingLifetime

Resumable(n) ==
    /\ n \in DOMAIN file \ Stale
    /\ file[n].answered \/ Age(file[n]) < PendingLifetime

Open(p) ==
    /\ At(p, "open")
    /\ file' = Without(file, Stale)
    /\ LET req == run[p].req
           n == Name(req)
       IN  \/ /\ Resumable(n)
              /\ Become(p, [NewSending(req, file[n].key, FALSE) EXCEPT
                              !.at = file[n].at, !.answered = file[n].answered,
                              !.resumed = TRUE])
              /\ UNCHANGED attempt
           \/ /\ ~Resumable(n)
              /\ \E k \in Fresh :
                    /\ MakeKey(k, req)
                    /\ Become(p, NewSending(req, k, FALSE))
    /\ UNCHANGED <<clock, sub, versions, late>>

-----------------------------------------------------------------------------
(* The loop of `send`.                                                     *)

(* Mutant of Save: the key is kept only once it is answered.               *)
SaveNothing(p) ==
    /\ At(p, "save")
    /\ Enter(p, "create")
    /\ UNCHANGED <<clock, sub, versions, file, late, attempt>>

Save(p) ==
    /\ At(p, "save")
    /\ SaveState(run[p])
    /\ Enter(p, "create")
    /\ UNCHANGED <<clock, sub, versions, late, attempt>>

(* What `send` does with the answer to its creation.                       *)
AfterCreate(p, reply) ==
    \/ /\ reply = "limit"           \* refused_by_api
       /\ Forget(run[p])
       /\ End(p, "refused")
       /\ UNCHANGED attempt
    \/ /\ reply = "reused"
       /\ Forget(run[p])
       /\ End(p, "error")
       /\ UNCHANGED attempt
    \/ /\ reply = "finalized"
       /\ Become(p, [run[p] EXCEPT !.pc = "recall", !.tries = 0, !.answered = TRUE])
       /\ UNCHANGED <<file, attempt>>
    \/ /\ reply = "upload"
       /\ Become(p, [run[p] EXCEPT !.pc = "keep", !.tries = 0, !.answered = TRUE])
       /\ UNCHANGED <<file, attempt>>
    \/ /\ reply = "overdue" /\ ~run[p].resumed
       /\ End(p, "error")
       /\ UNCHANGED <<file, attempt>>
    \/ /\ reply \in {"expired", "refused"} \/ (reply = "overdue" /\ run[p].resumed)
       /\ StartAgain(p)
    \/ /\ reply \in {"expired", "refused"} \/ (reply = "overdue" /\ run[p].resumed)
       /\ run[p].restarted
       /\ Forget(run[p])
       /\ End(p, "error")
       /\ UNCHANGED attempt

Create(p) ==
    /\ At(p, "create")
    /\ \E reply \in CreateReplies :
          /\ ApiCreate(run[p].key, run[p].req, reply)
          /\ AfterCreate(p, reply)
    /\ UNCHANGED <<clock, versions, late>>

CreateCut(p) == At(p, "create") /\ Cut(p, "create")

(* Mutant of Keep: the answer is not kept in the file.                     *)
KeepNothing(p) ==
    /\ At(p, "keep")
    /\ attempt' = [attempt EXCEPT ![run[p].key].answered = TRUE]
    /\ Enter(p, "upload")
    /\ UNCHANGED <<clock, sub, versions, file, late>>

(* The answer is kept for the next run.                                    *)
Keep(p) ==
    /\ At(p, "keep")
    /\ SaveState(run[p])
    /\ attempt' = [attempt EXCEPT ![run[p].key].answered = TRUE]
    /\ Enter(p, "upload")
    /\ UNCHANGED <<clock, sub, versions, late>>

(* `upload`: the signed PUT, once more with a fresh link if it is refused. *)
Upload(p) ==
    /\ At(p, "upload")
    /\ ApiUpload(run[p].key)
    /\ Enter(p, "finalize")
    /\ UNCHANGED <<clock, versions, file, late, attempt>>

(* Mutant of UploadRefused: a fresh link is asked for every time.          *)
UploadRefusedAgain(p) ==
    /\ At(p, "upload")
    /\ Become(p, [run[p] EXCEPT !.pc = "refresh"])
    /\ UNCHANGED <<clock, sub, versions, file, late, attempt>>

UploadRefused(p) ==
    /\ At(p, "upload")
    /\ IF run[p].refreshed
       THEN End(p, "error")
       ELSE Become(p, [run[p] EXCEPT !.pc = "refresh", !.refreshed = TRUE])
    /\ UNCHANGED <<clock, sub, versions, file, late, attempt>>

UploadCut(p) == At(p, "upload") /\ Cut(p, "upload")

Refresh(p) ==
    /\ At(p, "refresh")
    /\ \/ Live(run[p].key) /\ Become(p, [run[p] EXCEPT !.pc = "upload"])
       \/ End(p, "error")       \* no link, or no answer
    /\ UNCHANGED <<clock, sub, versions, file, late, attempt>>

(* `finalize`, and what `send` does with its end.                          *)
VersionOf(k, seq) == CHOOSE i \in 1 .. Len(seq) : seq[i].key = k

AfterFinalize(p, reply) ==
    \/ /\ reply = "finalized"
       /\ SaveState(run[p])
       /\ Follow(p, VersionOf(run[p].key, versions'), TRUE)
       /\ UNCHANGED attempt
    \/ /\ reply = "submission_expired"
       /\ StartAgain(p)
    \/ /\ reply = "submission_expired" /\ run[p].restarted
       /\ Forget(run[p])
       /\ End(p, "error")
       /\ UNCHANGED attempt
    \/ /\ reply = "upload_mismatch"
       /\ Forget(run[p])
       /\ End(p, "error")
       /\ UNCHANGED attempt
    \/ /\ reply = "upload_missing"
       /\ IF run[p].waits < MissingWaits
          THEN Become(p, [run[p] EXCEPT !.waits = @ + 1, !.tries = 0])
          ELSE End(p, "error")
       /\ UNCHANGED <<file, attempt>>
    \/ /\ reply = "refused"
       /\ Forget(run[p])
       /\ End(p, "refused")
       /\ UNCHANGED attempt

Finalize(p) ==
    /\ At(p, "finalize")
    /\ \E reply \in FinalizeReplies :
          /\ ApiFinalize(run[p].key, reply)
          /\ AfterFinalize(p, reply)
    /\ UNCHANGED <<clock, late>>

FinalizeCut(p) == At(p, "finalize") /\ Cut(p, "finalize")

(* The submission was finalized by an earlier request: its version is read.*)
Recall(p) ==
    /\ At(p, "recall")
    /\ \/ Follow(p, VersionOf(run[p].key, versions), TRUE)
       \/ End(p, "error")
    /\ UNCHANGED <<clock, sub, versions, file, late, attempt>>

-----------------------------------------------------------------------------
(* `follow_version`: the version is polled until it is out of `checking`;  *)
(* a run that sent it forgets its state then.                              *)

Release(p) == IF run[p].owner THEN Forget(run[p]) ELSE UNCHANGED file

(* Mutant of FollowDone: any state out of `checking` is a success.         *)
FollowDoneUnread(p) ==
    /\ At(p, "follow")
    /\ versions[run[p].version].state # "checking"
    /\ End(p, "sent")
    /\ Release(p)
    /\ UNCHANGED <<clock, sub, versions, late, attempt>>

FollowDone(p) ==
    /\ At(p, "follow")
    /\ LET v == versions[run[p].version]
       IN  \/ v.state = "in_review" /\ End(p, "sent")
           \/ v.state = "checks_failed" /\ End(p, "failed")
           \/ v.state = "checking" /\ v.stuck /\ End(p, "error")
    /\ Release(p)
    /\ UNCHANGED <<clock, sub, versions, late, attempt>>

(* --no-wait, Ctrl+C, the longest following, or a failure while following. *)
FollowStops(p) ==
    /\ At(p, "follow")
    /\ \E out \in {"checking", "error"} : End(p, out)
    /\ UNCHANGED <<clock, sub, versions, file, late, attempt>>

-----------------------------------------------------------------------------
(* A run may be killed at any point.                                       *)
Crash(p) ==
    /\ ~At(p, "idle")
    /\ End(p, "none")
    /\ UNCHANGED <<clock, sub, versions, file, late, attempt>>

(* A request whose run gave it up is served; nobody reads the answer.      *)
LateArrival(m) ==
    /\ m \in late
    /\ late' = late \ {m}
    /\ \/ /\ m.kind = "create"
          /\ \E reply \in CreateReplies : ApiCreate(m.key, attempt[m.key].req, reply)
          /\ UNCHANGED versions
       \/ m.kind = "upload" /\ ApiUpload(m.key) /\ UNCHANGED versions
       \/ m.kind = "finalize" /\ \E reply \in FinalizeReplies : ApiFinalize(m.key, reply)
    /\ UNCHANGED <<clock, file, run, attempt>>

(* Time passes, by steps longer than the longest request: none is late any *)
(* more, and a run is never between its first request and the answer to    *)
(* its creation (a few minutes at most).                                   *)
Tick ==
    /\ clock < MaxClock
    /\ \A p \in Procs : run[p].pc \notin {"listing", "open", "save", "create"}
    /\ clock' = clock + 1
    /\ late' = {}
    /\ UNCHANGED <<sub, versions, file, run, attempt>>

Service ==
    /\ \/ \E k \in Keys : StorageShows(k) \/ Expire(k)
       \/ \E i \in 1 .. Len(versions) : ChecksEnd(i) \/ ChecksStuck(i)
    /\ UNCHANGED <<file, run, late, attempt>>

Work(p) ==
    \/ Look(p) \/ LookFails(p) \/ Open(p) \/ Save(p)
    \/ Create(p) \/ CreateCut(p) \/ Keep(p)
    \/ Upload(p) \/ UploadRefused(p) \/ UploadCut(p) \/ Refresh(p)
    \/ Finalize(p) \/ FinalizeCut(p) \/ Recall(p)
    \/ FollowDone(p) \/ FollowStops(p)

Next ==
    \/ \E p \in Procs :
          \/ \E r \in Requests : Start(p, r)
          \/ Work(p)
          \/ Crash(p)
    \/ \E m \in Message : LateArrival(m)
    \/ Service
    \/ Tick

Spec == Init /\ [][Next]_vars

-----------------------------------------------------------------------------
(* What `submit` promises.                                                 *)

Alone == \A p, q \in Procs : p = q

GivenUp(k) == ~attempt[k].answered /\ clock - attempt[k].at >= PendingLifetime

(* An idempotency key is only ever sent with the request it was made for,  *)
(* and the state file leads each request to its own key, so the API never  *)
(* refuses a key as reused (state.rs names the state file after the whole  *)
(* request, and renews the key of a submission that ended).                *)
KeyOfOneRequest ==
    /\ \A p \in Procs, k \in Keys : Holds(p, k) => attempt[k].req = run[p].req
    /\ \A n \in DOMAIN file : Name(attempt[file[n].key].req) = n
    /\ \A k \in DOMAIN sub : sub[k].body = attempt[k].req

(* With one run at a time, a submission the API still waits for is never   *)
(* abandoned: a run works on it, or the state file leads the next run to   *)
(* it; only an attempt never answered for may be, after 55 minutes.        *)
NothingLiveAbandoned ==
    \A k \in DOMAIN sub :
        Live(k) => (\E p \in Procs : Holds(p, k)) \/ Kept(k) \/ GivenUp(k)

(* However the runs of a request are cut, retried and resumed, one at a    *)
(* time, it never makes two versions in a row (it may make another one     *)
(* after a version of another request).                                    *)
OneVersionPerRequest ==
    \A i \in 1 .. Len(versions) - 1 : Body(i) # Body(i + 1)

(* The runs implement the ledger of SubmissionLedger: its open submissions *)
(* are those the API waits for and a next run may still work on.           *)
Ledger == INSTANCE SubmissionLedger WITH
    open <- [r \in Requests |->
               {k \in DOMAIN sub : sub[k].body = r /\ Live(k) /\ ~GivenUp(k)}],
    delivered <- [i \in 1 .. Len(versions) |-> Body(i)]

LedgerSpec == Ledger!Spec

(* What a run ends on is true: "sent" only when these widget files are a   *)
(* version in review, the other words on a version only when there is one; *)
(* "refused" only when the API waits for nothing more of this submission,  *)
(* and no version came of it.                                              *)
VersionWords == {"sent", "failed", "known", "checking"}

TrueWords(p, out) ==
    /\ out \in VersionWords =>
         \E i \in 1 .. Len(versions) :
             /\ Body(i).files = run[p].req.files
             /\ out = "sent" => versions[i].state = "in_review"
    /\ out = "refused" =>
         \A k \in Keys : Holds(p, k) =>
             /\ ~Live(k)'
             /\ \A i \in 1 .. Len(versions) : versions[i].key # k

EndsTruthfully ==
    [][\A p \in Procs :
         ~At(p, "idle") /\ run'[p].pc = "idle" => TrueWords(p, run'[p].out)]_vars

(* docs/content/en/cli.md: a run cut short before the end resumes the same *)
(* submission when the same command runs again.  Broken by the code: the   *)
(* submission counts in the limit that is checked before it is resumed.    *)
CutRunIsResumed ==
    [][\A p \in Procs :
         /\ At(p, "listing")
         /\ Name(run[p].req) \in DOMAIN file
         /\ file[Name(run[p].req)].answered
         /\ Live(file[Name(run[p].req)].key)
         => run'[p] # [pc |-> "idle", out |-> "refused_locally"]]_vars

-----------------------------------------------------------------------------
(* Why they hold: a key in use is a known attempt, and a run that reads a  *)
(* version reads one that is there.                                        *)
UsedKeysKnown == \A k \in Keys : Used(k) => k \in DOMAIN attempt

VersionsExist ==
    /\ \A i \in 1 .. Len(versions) : versions[i].key \in DOMAIN sub
    /\ \A k \in DOMAIN sub : sub[k].state = "finalized" =>
          \E i \in 1 .. Len(versions) : versions[i].key = k
    /\ \A p \in Procs :
          /\ At(p, "recall") => \E i \in 1 .. Len(versions) : versions[i].key = run[p].key
          /\ At(p, "follow") => run[p].version \in 1 .. Len(versions)

RunsInv == TypeOK /\ UsedKeysKnown /\ KeyOfOneRequest /\ VersionsExist

(* With one run at a time, the file and the run tell of a key what its     *)
(* attempt does; a run past its first save has its key in its file; what a *)
(* save replaces, or a run drops, the API waits for no more, or it was     *)
(* given up; and an attempt answered for is on the API, soon after it was  *)
(* made.                                                                   *)
LateCreate(k) == [kind |-> "create", key |-> k] \in late
Over(k) == k \in DOMAIN sub /\ ~Live(k)
MayBeCreated(k) == k \in DOMAIN sub \/ clock - attempt[k].at <= PendingLifetime

FilesTell ==
    \A n \in DOMAIN file :
        /\ file[n].at = attempt[file[n].key].at
        /\ file[n].answered = attempt[file[n].key].answered

RunTells(r) ==
    /\ r.at = attempt[r.key].at
    /\ r.pc \in {"save", "create"} =>
          r.answered = attempt[r.key].answered /\ MayBeCreated(r.key)
    /\ r.pc \in {"keep", "recall"} => r.answered /\ r.key \in DOMAIN sub
    /\ r.pc \in {"upload", "refresh", "finalize"} => r.answered /\ attempt[r.key].answered

FileLeads(r) ==
    LET n == Name(r.req)
        led == n \in DOMAIN file /\ file[n].key = r.key
    IN  IF r.pc = "save"
        THEN \/ led
             \/ /\ r.key \notin DOMAIN sub /\ ~LateCreate(r.key)
                /\ n \in DOMAIN file => Over(file[n].key) \/ GivenUp(file[n].key)
        ELSE led

AttemptsOnApi ==
    /\ \A k \in DOMAIN attempt : attempt[k].answered => k \in DOMAIN sub
    /\ \A k \in DOMAIN sub : sub[k].at <= attempt[k].at + PendingLifetime
    /\ \A k \in Keys : LateCreate(k) => MayBeCreated(k)

VersionsFinal == \A i \in 1 .. Len(versions) : sub[versions[i].key].state = "finalized"

OwnersFile ==
    \A p \in Procs : At(p, "follow") /\ run[p].owner =>
        LET n == Name(run[p].req)
        IN  n \in DOMAIN file => ~Pending(file[n].key) /\ file[n].key \in DOMAIN sub

NothingLost ==
    \A k \in Keys : Live(k) \/ LateCreate(k) =>
        \/ (\E p \in Procs : Holds(p, k)) \/ Kept(k)
        \/ GivenUp(k) \/ Over(k)
        \/ k \notin DOMAIN sub /\ LimitReached

AloneInv ==
    /\ FilesTell /\ AttemptsOnApi /\ VersionsFinal /\ OwnersFile /\ NothingLost
    /\ \A p \in Procs : run[p].pc \in SendSteps => RunTells(run[p]) /\ FileLeads(run[p])

-----------------------------------------------------------------------------
(* A run that was not killed takes its next step: its requests time out    *)
(* and its waits are bounded.                                              *)
StepsSpec == Spec /\ \A p \in Procs : WF_vars(Work(p))

(* For a delivery, also: the command is run again until it ends; no step   *)
(* of it fails forever; the storage shows an upload as it was sent, now    *)
(* and then.                                                               *)
ShownAsSent(k) ==
    /\ StorageShows(k)
    /\ sub'[k].upload = "seen"
    /\ UNCHANGED <<file, run, late, attempt>>

Persistence ==
    /\ \A p \in Procs :
          /\ WF_vars(\E r \in Requests : Start(p, r))
          /\ SF_vars(Look(p)) /\ SF_vars(Open(p)) /\ SF_vars(Save(p))
          /\ SF_vars(Create(p)) /\ SF_vars(Keep(p)) /\ SF_vars(Upload(p))
          /\ SF_vars(Finalize(p))
    /\ SF_vars(\E k \in Keys : ShownAsSent(k))

(* A run ends by itself, whatever the API answers and fails to answer.     *)
EveryRunEnds == \A p \in Procs : []<>At(p, "idle")

(* Run again until it works, the command makes the version of its request  *)
(* in the end, or the submission limit is reached on the way.              *)
DeliveredInTheEnd ==
    Persistence =>
        \A r \in Requests :
            (\E p \in Procs : run[p].pc # "idle" /\ run[p].req = r)
            ~> (LimitReached \/ \E i \in 1 .. Len(versions) : Body(i) = r)
=============================================================================
