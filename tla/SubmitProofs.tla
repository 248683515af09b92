----------------------------- MODULE SubmitProofs -----------------------------
(***************************************************************************)
(* Proofs about Submit, for any requests, keys, processes and bounds.      *)
(***************************************************************************)
EXTENDS Submit, TLAPS

-----------------------------------------------------------------------------
(* Partial functions: what Put, Without and EXCEPT keep.                   *)

LEMMA PutKeeps ==
    ASSUME NEW f, NEW S, NEW T, PartialFunction(f, S, T), NEW x \in S, NEW v \in T
    PROVE  /\ PartialFunction(Put(f, x, v), S, T)
           /\ DOMAIN Put(f, x, v) = DOMAIN f \cup {x}
           /\ Put(f, x, v)[x] = v
           /\ \A y \in DOMAIN f : y # x => Put(f, x, v)[y] = f[y]
BY DEF PartialFunction, Put

LEMMA WithoutKeeps ==
    ASSUME NEW f, NEW S, NEW T, PartialFunction(f, S, T), NEW R
    PROVE  /\ PartialFunction(Without(f, R), S, T)
           /\ DOMAIN Without(f, R) = DOMAIN f \ R
           /\ \A y \in DOMAIN f \ R : Without(f, R)[y] = f[y]
BY DEF PartialFunction, Without

LEMMA ExceptKeeps ==
    ASSUME NEW f, NEW S, NEW T, PartialFunction(f, S, T), NEW x \in DOMAIN f, NEW v \in T
    PROVE  LET g == [f EXCEPT ![x] = v]
           IN  /\ PartialFunction(g, S, T)
               /\ DOMAIN g = DOMAIN f
               /\ g[x] = v
               /\ \A y \in DOMAIN f : y # x => g[y] = f[y]
BY DEF PartialFunction

LEMMA ValueOf ==
    ASSUME NEW f, NEW S, NEW T, PartialFunction(f, S, T), NEW x \in DOMAIN f
    PROVE  x \in S /\ f[x] \in T
BY DEF PartialFunction

LEMMA SubFields ==
    ASSUME ApiTypeOK, NEW k \in DOMAIN sub
    PROVE  /\ k \in Keys
           /\ sub[k] \in Submission
           /\ sub[k].body \in Requests
           /\ sub[k].at \in Nat
BY DEF ApiTypeOK, PartialFunction, Submission

-----------------------------------------------------------------------------
(* The shapes of a run.                                                    *)

LEMMA RunShapes ==
    ASSUME TypeOK, NEW p \in Procs
    PROVE  /\ At(p, "idle") => run[p] \in Idle
           /\ At(p, "listing") => run[p] \in Looking
           /\ At(p, "open") => run[p] \in Opening
           /\ run[p].pc \in SendSteps => run[p] \in Sending
           /\ At(p, "follow") => run[p] \in Watching
BY DEF TypeOK, At, Runs, Looking, Opening, Sending, Watching, Idle, SendSteps

LEMMA BecomeRuns ==
    ASSUME TypeOK, NEW p \in Procs, NEW r \in Runs, run' = [run EXCEPT ![p] = r]
    PROVE  /\ run' \in [Procs -> Runs]
           /\ run'[p] = r
           /\ \A q \in Procs : q # p => run'[q] = run[q]
BY DEF TypeOK

-----------------------------------------------------------------------------
(* A step keeps RunsInv when each part of the state it changes is good.    *)

SubGood ==
    /\ ApiTypeOK'
    /\ DOMAIN sub \subseteq DOMAIN sub'
    /\ \A j \in DOMAIN sub : sub'[j].body = sub[j].body
    /\ \A j \in DOMAIN sub' \ DOMAIN sub : Used(j) /\ sub'[j].body = attempt[j].req

VersionsGood ==
    /\ Len(versions) <= Len(versions')
    /\ \A i \in 1 .. Len(versions) : versions'[i].key = versions[i].key
    /\ \A i \in 1 .. Len(versions') : versions'[i].key \in DOMAIN sub'
    /\ \A j \in DOMAIN sub' : sub'[j].state = "finalized" =>
          \E i \in 1 .. Len(versions') : versions'[i].key = j

AttemptsGood ==
    /\ PartialFunction(attempt', Keys, Attempt)
    /\ \A j \in Keys : Used(j) => j \in DOMAIN attempt' /\ attempt'[j].req = attempt[j].req

FileGood ==
    /\ PartialFunction(file', Names, Saved)
    /\ \A n \in DOMAIN file' :
          /\ file'[n].key \in DOMAIN attempt'
          /\ Name(attempt'[file'[n].key].req) = n

LateGood == late' \subseteq Message /\ \A m \in late' : m.key \in DOMAIN attempt'

RunGood(r) ==
    /\ r \in Runs
    /\ r.pc \in SendSteps => r.key \in DOMAIN attempt' /\ attempt'[r.key].req = r.req
    /\ r.pc = "recall" => \E i \in 1 .. Len(versions') : versions'[i].key = r.key
    /\ r.pc = "follow" => r.version \in 1 .. Len(versions')

RunsGood ==
    /\ run' \in [Procs -> Runs]
    /\ \A p \in Procs : run'[p] = run[p] \/ RunGood(run'[p])

LEMMA GoodStep ==
    ASSUME RunsInv, SubGood, VersionsGood, AttemptsGood, FileGood, LateGood, RunsGood
    PROVE  RunsInv'
<1>1. TypeOK'
  BY DEF TypeOK, SubGood, AttemptsGood, FileGood, LateGood, RunsGood
<1>2. UsedKeysKnown'
  <2> SUFFICES ASSUME NEW k \in Keys, Used(k)'
               PROVE  k \in DOMAIN attempt'
    BY DEF UsedKeysKnown
  <2>1. CASE k \in DOMAIN sub'
    BY <2>1 DEF SubGood, AttemptsGood, Used
  <2>2. CASE Kept(k)'
    BY <2>2 DEF FileGood, Kept
  <2>3. CASE \E p \in Procs : Holds(p, k)'
    BY <2>3 DEF RunsGood, RunGood, AttemptsGood, Holds, Used
  <2>4. CASE \E m \in late' : m.key = k
    BY <2>4 DEF LateGood
  <2> QED BY <2>1, <2>2, <2>3, <2>4 DEF Used
<1>3. KeyOfOneRequest'
  <2>1. ASSUME NEW p \in Procs, NEW k \in Keys, Holds(p, k)'
        PROVE  attempt'[k].req = run'[p].req
    BY <2>1 DEF RunsInv, KeyOfOneRequest, RunsGood, RunGood, AttemptsGood, Holds, Used
  <2>2. \A n \in DOMAIN file' : Name(attempt'[file'[n].key].req) = n
    BY DEF FileGood
  <2>3. ASSUME NEW k \in DOMAIN sub'
        PROVE  sub'[k].body = attempt'[k].req
    <3>1. k \in Keys
      BY <2>3 DEF SubGood, ApiTypeOK, PartialFunction
    <3> QED BY <3>1, <2>3 DEF RunsInv, KeyOfOneRequest, SubGood, AttemptsGood, Used
  <2> QED BY <2>1, <2>2, <2>3 DEF KeyOfOneRequest, Name
<1>4. VersionsExist'
  <2>0. Len(versions) \in Nat /\ Len(versions') \in Nat
    BY DEF SubGood, ApiTypeOK, RunsInv, TypeOK
  <2>1. ASSUME NEW p \in Procs, run'[p] = run[p]
        PROVE  /\ At(p, "recall")' =>
                    \E i \in 1 .. Len(versions') : versions'[i].key = run'[p].key
               /\ At(p, "follow")' => run'[p].version \in 1 .. Len(versions')
    BY <2>0, <2>1 DEF RunsInv, VersionsExist, VersionsGood, At
  <2>2. ASSUME NEW p \in Procs, RunGood(run'[p])
        PROVE  /\ At(p, "recall")' =>
                    \E i \in 1 .. Len(versions') : versions'[i].key = run'[p].key
               /\ At(p, "follow")' => run'[p].version \in 1 .. Len(versions')
    BY <2>2 DEF RunGood, At
  <2> QED BY <2>1, <2>2 DEF VersionsExist, VersionsGood, RunsGood
<1> QED BY <1>1, <1>2, <1>3, <1>4 DEF RunsInv

-----------------------------------------------------------------------------
(* The API keeps its part.                                                 *)

LEMMA ApiStays ==
    ASSUME RunsInv, UNCHANGED <<clock, sub, versions>>
    PROVE  SubGood /\ VersionsGood
BY DEF RunsInv, TypeOK, ApiTypeOK, VersionsExist, SubGood, VersionsGood

(* A change of one submission that keeps its request, and does not         *)
(* finalize it.                                                            *)
LEMMA OneSubChanges ==
    ASSUME RunsInv, NEW k \in DOMAIN sub, NEW v \in Submission,
           v.body = sub[k].body, v.state = "finalized" => sub[k].state = "finalized",
           sub' = [sub EXCEPT ![k] = v], UNCHANGED <<clock, versions>>
    PROVE  SubGood /\ VersionsGood
<1>1. PartialFunction(sub, Keys, Submission)
  BY DEF RunsInv, TypeOK, ApiTypeOK
<1>2. /\ PartialFunction(sub', Keys, Submission)
      /\ DOMAIN sub' = DOMAIN sub
      /\ sub'[k] = v
      /\ \A j \in DOMAIN sub : j # k => sub'[j] = sub[j]
  BY <1>1, ExceptKeeps
<1>3. SubGood
  BY <1>2 DEF RunsInv, TypeOK, ApiTypeOK, SubGood
<1> QED BY <1>2, <1>3 DEF RunsInv, TypeOK, ApiTypeOK, VersionsExist, VersionsGood

LEMMA ApiCreateGood ==
    ASSUME RunsInv, NEW k \in Keys, Used(k), NEW reply,
           ApiCreate(k, attempt[k].req, reply), UNCHANGED <<clock, versions>>
    PROVE  /\ SubGood /\ VersionsGood
           /\ reply # "reused"
           /\ reply = "finalized" => \E i \in 1 .. Len(versions) : versions[i].key = k
<1> DEFINE body == attempt[k].req
<1>0. PartialFunction(sub, Keys, Submission) /\ clock \in Nat
  BY DEF RunsInv, TypeOK, ApiTypeOK
<1>1. CASE k \in DOMAIN sub
  <2>1. sub[k].body = body
    BY <1>1 DEF RunsInv, KeyOfOneRequest
  <2>2. UNCHANGED sub
    BY <1>1 DEF ApiCreate
  <2>3. reply # "reused" /\ (reply = "finalized" => sub[k].state = "finalized")
    BY <1>0, <1>1, <2>1 DEF ApiCreate, PartialFunction, Submission
  <2> QED BY <1>1, <2>2, <2>3, ApiStays DEF RunsInv, VersionsExist
<1>2. CASE k \notin DOMAIN sub /\ UNCHANGED sub
  BY <1>2, ApiStays DEF ApiCreate
<1>3. CASE k \notin DOMAIN sub /\ sub' # sub
  <2> DEFINE new == [body |-> body, state |-> "pending_upload", upload |-> "none", at |-> clock]
  <2>1. sub' = Put(sub, k, new) /\ reply = "upload"
    BY <1>3 DEF ApiCreate
  <2>2. body \in Requests
    BY DEF RunsInv, TypeOK, UsedKeysKnown, PartialFunction, Attempt
  <2>3. new \in Submission
    BY <1>0, <2>2 DEF Submission
  <2>4. /\ PartialFunction(sub', Keys, Submission)
        /\ DOMAIN sub' = DOMAIN sub \cup {k}
        /\ sub'[k] = new
        /\ \A j \in DOMAIN sub : j # k => sub'[j] = sub[j]
    BY <1>0, <2>1, <2>3, PutKeeps
  <2>5. SubGood
    BY <1>3, <2>4 DEF RunsInv, TypeOK, ApiTypeOK, SubGood
  <2>6. VersionsGood
    BY <1>3, <2>4 DEF RunsInv, TypeOK, ApiTypeOK, VersionsExist, VersionsGood
  <2> QED BY <2>1, <2>5, <2>6
<1> QED BY <1>1, <1>2, <1>3

LEMMA ApiUploadGood ==
    ASSUME RunsInv, NEW k, ApiUpload(k), UNCHANGED <<clock, versions>>
    PROVE  SubGood /\ VersionsGood
<1>1. CASE Live(k) /\ sub[k].upload # "seen"
  <2> DEFINE v == [sub[k] EXCEPT !.upload = "unseen"]
  <2>1. k \in DOMAIN sub
    BY <1>1 DEF Live, Pending
  <2>2. sub[k] \in Submission
    BY <2>1 DEF RunsInv, TypeOK, ApiTypeOK, PartialFunction
  <2>3. v \in Submission /\ v.body = sub[k].body /\ v.state = sub[k].state
    BY <2>2 DEF Submission
  <2>4. sub' = [sub EXCEPT ![k] = v]
    BY <1>1 DEF ApiUpload
  <2> QED BY <2>1, <2>3, <2>4, OneSubChanges
<1>2. CASE ~(Live(k) /\ sub[k].upload # "seen")
  BY <1>2, ApiStays DEF ApiUpload
<1> QED BY <1>1, <1>2

LEMMA ApiFinalizeGood ==
    ASSUME RunsInv, NEW k \in Keys, NEW reply, ApiFinalize(k, reply), UNCHANGED clock
    PROVE  /\ SubGood /\ VersionsGood
           /\ reply = "finalized" => \E i \in 1 .. Len(versions') : versions'[i].key = k
<1>0. /\ PartialFunction(sub, Keys, Submission)
      /\ versions \in Seq(Version)
      /\ k \in DOMAIN sub
      /\ sub[k] \in Submission
  BY DEF RunsInv, TypeOK, ApiTypeOK, PartialFunction, ApiFinalize, Live, Pending
<1>1. CASE UNCHANGED <<sub, versions>>
  <2>1. reply = "finalized" => sub[k].state = "finalized"
    <3>1. CASE sub[k].state # "pending_upload" \/ ~Live(k)
      BY <1>0, <3>1 DEF ApiFinalize, Submission, Live, Pending
    <3>2. CASE ~(sub[k].state # "pending_upload" \/ ~Live(k))
      BY <1>0, <1>1, <3>2 DEF ApiFinalize
    <3> QED BY <3>1, <3>2
  <2> QED BY <1>0, <1>1, <2>1, ApiStays DEF RunsInv, VersionsExist
<1>2. CASE sub' = [sub EXCEPT ![k].state = "refused"] /\ UNCHANGED versions
           /\ reply # "finalized"
  <2> DEFINE v == [sub[k] EXCEPT !.state = "refused"]
  <2>1. v \in Submission /\ v.body = sub[k].body /\ v.state # "finalized"
    BY <1>0 DEF Submission
  <2>2. sub' = [sub EXCEPT ![k] = v]
    BY <1>2
  <2>3. SubGood /\ VersionsGood
    BY <1>0, <1>2, <2>1, <2>2, OneSubChanges
  <2> QED BY <1>2, <2>3
<1>3. CASE /\ sub' = [sub EXCEPT ![k].state = "finalized"]
           /\ versions' = Append(versions, [key |-> k, state |-> "checking",
                                            built |-> FALSE, stuck |-> FALSE])
  <2> DEFINE v == [sub[k] EXCEPT !.state = "finalized"]
             new == [key |-> k, state |-> "checking", built |-> FALSE, stuck |-> FALSE]
  <2>1. /\ v \in Submission /\ v.body = sub[k].body
        /\ sub' = [sub EXCEPT ![k] = v]
    BY <1>0, <1>3 DEF Submission
  <2>2. /\ PartialFunction(sub', Keys, Submission)
        /\ DOMAIN sub' = DOMAIN sub
        /\ sub'[k] = v
        /\ \A j \in DOMAIN sub : j # k => sub'[j] = sub[j]
    <3> HIDE DEF v
    <3> QED BY <1>0, <2>1, ExceptKeeps
  <2>3. new \in Version
    BY DEF Version
  <2>4. /\ versions' \in Seq(Version)
        /\ Len(versions) \in Nat
        /\ Len(versions') = Len(versions) + 1
        /\ versions'[Len(versions) + 1].key = k
        /\ \A i \in 1 .. Len(versions) : versions'[i] = versions[i]
    BY <1>0, <1>3, <2>3
  <2>5. SubGood
    BY <2>1, <2>2, <2>4 DEF RunsInv, TypeOK, ApiTypeOK, SubGood
  <2>6. VersionsGood
    <3>1. \A i \in 1 .. Len(versions') : versions'[i].key \in DOMAIN sub'
      BY <1>0, <2>2, <2>4 DEF RunsInv, VersionsExist
    <3>2. ASSUME NEW j \in DOMAIN sub', sub'[j].state = "finalized"
          PROVE  \E i \in 1 .. Len(versions') : versions'[i].key = j
      <4>1. CASE j = k
        BY <4>1, <2>4
      <4>2. CASE j # k
        BY <3>2, <4>2, <2>2, <2>4 DEF RunsInv, VersionsExist
      <4> QED BY <4>1, <4>2
    <3> QED BY <2>4, <3>1, <3>2 DEF VersionsGood
  <2> QED BY <2>4, <2>5, <2>6
<1> QED BY <1>0, <1>1, <1>2, <1>3 DEF ApiFinalize

LEMMA ServiceGood ==
    ASSUME RunsInv, Service
    PROVE  SubGood /\ VersionsGood
<1>0. /\ PartialFunction(sub, Keys, Submission)
      /\ versions \in Seq(Version)
  BY DEF RunsInv, TypeOK, ApiTypeOK
<1>1. ASSUME NEW k \in Keys, StorageShows(k)
      PROVE  SubGood /\ VersionsGood
  <2>1. PICK seen \in {"seen", "bad"} : sub' = [sub EXCEPT ![k].upload = seen]
    BY <1>1 DEF StorageShows
  <2> DEFINE v == [sub[k] EXCEPT !.upload = seen]
  <2>2. /\ v \in Submission /\ v.body = sub[k].body /\ v.state = sub[k].state
        /\ sub' = [sub EXCEPT ![k] = v]
    BY <1>0, <1>1, <2>1 DEF StorageShows, PartialFunction, Submission
  <2> HIDE DEF v
  <2> QED BY <1>1, <2>2, OneSubChanges DEF StorageShows
<1>2. ASSUME NEW k \in Keys, Expire(k)
      PROVE  SubGood /\ VersionsGood
  <2> DEFINE v == [sub[k] EXCEPT !.state = "expired"]
  <2>2. /\ v \in Submission /\ v.body = sub[k].body /\ v.state # "finalized"
        /\ sub' = [sub EXCEPT ![k] = v]
    BY <1>0, <1>2 DEF Expire, Pending, PartialFunction, Submission
  <2> HIDE DEF v
  <2> QED BY <1>2, <2>2, OneSubChanges DEF Expire, Pending
<1>3. ASSUME NEW i \in 1 .. Len(versions), ChecksEnd(i) \/ ChecksStuck(i)
      PROVE  SubGood /\ VersionsGood
  <2>1. PICK w \in Version : /\ versions' = [versions EXCEPT ![i] = w]
                             /\ w.key = versions[i].key
    <3>1. versions[i] \in Version
      BY <1>0
    <3>2. CASE ChecksEnd(i)
      <4>1. PICK passed, built \in BOOLEAN :
              versions' = [versions EXCEPT
                             ![i].state = IF passed THEN "in_review" ELSE "checks_failed",
                             ![i].built = built, ![i].stuck = FALSE]
        BY <3>2 DEF ChecksEnd
      <4> DEFINE w == [versions[i] EXCEPT
                         !.state = IF passed THEN "in_review" ELSE "checks_failed",
                         !.built = built, !.stuck = FALSE]
      <4>2. w \in Version /\ w.key = versions[i].key
        BY <3>1 DEF Version
      <4>3. versions' = [versions EXCEPT ![i] = w]
        BY <1>0, <4>1
      <4> HIDE DEF w
      <4> QED BY <4>2, <4>3
    <3>3. CASE ChecksStuck(i)
      <4> DEFINE w == [versions[i] EXCEPT !.stuck = TRUE]
      <4>1. w \in Version /\ w.key = versions[i].key
        BY <3>1 DEF Version
      <4>2. versions' = [versions EXCEPT ![i] = w]
        BY <1>0, <3>3 DEF ChecksStuck
      <4> HIDE DEF w
      <4> QED BY <4>1, <4>2
    <3> QED BY <1>3, <3>2, <3>3
  <2>2. /\ versions' \in Seq(Version)
        /\ Len(versions') = Len(versions)
        /\ \A j \in 1 .. Len(versions) : versions'[j].key = versions[j].key
    BY <1>0, <2>1
  <2>3. UNCHANGED <<clock, sub>>
    BY <1>3 DEF ChecksEnd, ChecksStuck
  <2> QED BY <1>0, <2>2, <2>3
          DEF RunsInv, TypeOK, ApiTypeOK, VersionsExist, SubGood, VersionsGood
<1> QED BY <1>1, <1>2, <1>3 DEF Service

-----------------------------------------------------------------------------
(* The runs keep theirs.                                                   *)

LEMMA Held ==
    ASSUME RunsInv, NEW p \in Procs, run[p].pc \in SendSteps
    PROVE  /\ run[p] \in Sending
           /\ run[p].key \in Keys
           /\ Used(run[p].key)
           /\ run[p].key \in DOMAIN attempt
           /\ attempt[run[p].key].req = run[p].req
<1>1. run[p] \in Sending
  BY RunShapes DEF RunsInv
<1>2. Holds(p, run[p].key) /\ run[p].key \in Keys
  BY <1>1 DEF Holds, Sending
<1> QED BY <1>1, <1>2 DEF RunsInv, UsedKeysKnown, KeyOfOneRequest, Used

LEMMA AttemptsStay ==
    ASSUME RunsInv, UNCHANGED attempt
    PROVE  AttemptsGood
BY DEF RunsInv, TypeOK, UsedKeysKnown, AttemptsGood

LEMMA KeyMade ==
    ASSUME RunsInv, NEW k \in Fresh, NEW r \in Requests, MakeKey(k, r)
    PROVE  /\ AttemptsGood
           /\ k \in Keys
           /\ k \in DOMAIN attempt'
           /\ attempt'[k].req = r
<1> DEFINE new == [req |-> r, at |-> clock, answered |-> FALSE]
           rest == Without(attempt, Fresh)
<1>1. PartialFunction(attempt, Keys, Attempt)
  BY DEF RunsInv, TypeOK
<1>2. new \in Attempt
  BY DEF RunsInv, TypeOK, ApiTypeOK, Attempt
<1>3. /\ PartialFunction(rest, Keys, Attempt)
      /\ DOMAIN rest = DOMAIN attempt \ Fresh
      /\ \A j \in DOMAIN attempt \ Fresh : rest[j] = attempt[j]
  BY <1>1, WithoutKeeps
<1>4. k \in Keys
  BY DEF Fresh
<1>5. /\ PartialFunction(attempt', Keys, Attempt)
      /\ DOMAIN attempt' = DOMAIN rest \cup {k}
      /\ attempt'[k] = new
      /\ \A j \in DOMAIN rest : j # k => attempt'[j] = rest[j]
  <2>1. attempt' = Put(rest, k, new)
    BY DEF MakeKey
  <2>2. PartialFunction(rest, Keys, Attempt)
    BY <1>3
  <2> HIDE DEF rest, new
  <2> QED BY <1>2, <1>4, <2>1, <2>2, PutKeeps
<1> QED BY <1>3, <1>4, <1>5 DEF RunsInv, UsedKeysKnown, AttemptsGood, Fresh

LEMMA LessFileGood ==
    ASSUME RunsInv, AttemptsGood, NEW R, file' = Without(file, R)
    PROVE  FileGood
<1>1. PartialFunction(file, Names, Saved)
  BY DEF RunsInv, TypeOK
<1>2. /\ PartialFunction(file', Names, Saved)
      /\ DOMAIN file' = DOMAIN file \ R
      /\ \A n \in DOMAIN file \ R : file'[n] = file[n]
  BY <1>1, WithoutKeeps
<1>3. \A n \in DOMAIN file : file[n].key \in Keys /\ Used(file[n].key)
  BY <1>1 DEF PartialFunction, Saved, Used, Kept
<1> QED BY <1>2, <1>3 DEF RunsInv, KeyOfOneRequest, AttemptsGood, FileGood

LEMMA FileStays ==
    ASSUME RunsInv, AttemptsGood, UNCHANGED file
    PROVE  FileGood
<1>1. PartialFunction(file, Names, Saved)
  BY DEF RunsInv, TypeOK
<1>2. \A n \in DOMAIN file : file[n].key \in Keys /\ Used(file[n].key)
  BY <1>1 DEF PartialFunction, Saved, Used, Kept
<1> QED BY <1>1, <1>2 DEF RunsInv, KeyOfOneRequest, AttemptsGood, FileGood

LEMMA SavedFileGood ==
    ASSUME RunsInv, AttemptsGood, NEW p \in Procs, run[p].pc \in SendSteps,
           SaveState(run[p])
    PROVE  FileGood
<1> DEFINE n == Name(run[p].req)
           new == [key |-> run[p].key, at |-> run[p].at, answered |-> run[p].answered]
<1>0. PartialFunction(file, Names, Saved)
  BY DEF RunsInv, TypeOK
<1>1. /\ run[p] \in Sending
      /\ run[p].key \in DOMAIN attempt'
      /\ attempt'[run[p].key].req = run[p].req
  BY Held DEF AttemptsGood
<1>2. n \in Names /\ new \in Saved
  BY <1>1 DEF Names, Saved, Sending
<1>3. /\ PartialFunction(file', Names, Saved)
      /\ DOMAIN file' = DOMAIN file \cup {n}
      /\ file'[n] = new
      /\ \A m \in DOMAIN file : m # n => file'[m] = file[m]
  <2>1. file' = Put(file, n, new)
    BY DEF SaveState
  <2> HIDE DEF n, new
  <2> QED BY <1>0, <1>2, <2>1, PutKeeps
<1>4. \A m \in DOMAIN file : file[m].key \in Keys /\ Used(file[m].key)
  BY <1>0 DEF PartialFunction, Saved, Used, Kept
<1> QED BY <1>1, <1>3, <1>4 DEF RunsInv, KeyOfOneRequest, AttemptsGood, FileGood

LEMMA LateStays ==
    ASSUME RunsInv, AttemptsGood, late' \subseteq late
    PROVE  LateGood
BY DEF RunsInv, TypeOK, AttemptsGood, LateGood, Message, Used

(* One run becomes r; the requests late are no more than before.           *)
LEMMA RunStep ==
    ASSUME RunsInv, SubGood, VersionsGood, AttemptsGood, FileGood,
           late' \subseteq late, NEW p \in Procs, NEW r, Become(p, r), RunGood(r)
    PROVE  RunsInv'
<1>1. RunsGood
  BY BecomeRuns DEF RunsInv, TypeOK, Become, RunGood, RunsGood
<1> QED BY <1>1, LateStays, GoodStep

LEMMA EndGood ==
    ASSUME NEW out \in Outcomes
    PROVE  RunGood([pc |-> "idle", out |-> out])
BY DEF RunGood, Runs, Idle, SendSteps

LEMMA EndStep ==
    ASSUME RunsInv, SubGood, VersionsGood, AttemptsGood, FileGood,
           late' \subseteq late, NEW p \in Procs, NEW out \in Outcomes, End(p, out)
    PROVE  RunsInv'
BY EndGood, RunStep DEF End

LEMMA SendingGood ==
    ASSUME RunsInv, AttemptsGood, NEW p \in Procs, run[p].pc \in SendSteps,
           NEW r \in Sending, r.key = run[p].key, r.req = run[p].req, r.pc # "recall"
    PROVE  RunGood(r)
<1>1. r \in Runs /\ r.pc # "follow"
  BY DEF Runs, Sending, SendSteps
<1> QED BY <1>1, Held DEF AttemptsGood, RunGood

LEMMA FollowGood ==
    ASSUME RunsInv, NEW r \in Requests, NEW i \in 1 .. Len(versions'), NEW owner \in BOOLEAN,
           Len(versions') \in Nat
    PROVE  RunGood([pc |-> "follow", req |-> r, version |-> i, owner |-> owner])
BY DEF RunGood, Runs, Watching, SendSteps

LEMMA NewSendingGood ==
    ASSUME RunsInv, NEW r \in Requests, NEW k \in Keys, NEW again \in BOOLEAN,
           k \in DOMAIN attempt', attempt'[k].req = r
    PROVE  RunGood(NewSending(r, k, again))
BY DEF RunsInv, TypeOK, ApiTypeOK, NewSending, RunGood, Runs, Sending, SendSteps

LEMMA StartAgainStep ==
    ASSUME RunsInv, SubGood, VersionsGood, UNCHANGED late,
           NEW p \in Procs, run[p].pc \in SendSteps, StartAgain(p)
    PROVE  RunsInv'
<1>1. run[p].req \in Requests
  BY Held DEF Sending
<1>2. PICK k \in Fresh : /\ MakeKey(k, run[p].req)
                         /\ Become(p, NewSending(run[p].req, k, TRUE))
  BY DEF StartAgain
<1>3. /\ AttemptsGood
      /\ RunGood(NewSending(run[p].req, k, TRUE))
  BY <1>1, <1>2, KeyMade, NewSendingGood
<1>4. FileGood
  BY <1>3, LessFileGood DEF StartAgain, Forget
<1> QED BY <1>2, <1>3, <1>4, RunStep

LEMMA CutStep ==
    ASSUME RunsInv, NEW p \in Procs, run[p].pc \in SendSteps \ {"recall"},
           NEW kind \in {"create", "upload", "finalize"}, Cut(p, kind)
    PROVE  RunsInv'
<1>1. SubGood /\ VersionsGood /\ AttemptsGood /\ FileGood
  BY ApiStays, AttemptsStay, FileStays DEF Cut
<1>2. run[p] \in Sending /\ run[p].key \in Keys /\ run[p].key \in DOMAIN attempt
  BY Held
<1>3. LateGood
  <2>1. LET m == [kind |-> kind, key |-> run[p].key] IN m \in Message
    BY <1>2 DEF Message
  <2> QED BY <1>1, <1>2, <2>1 DEF Cut, RunsInv, TypeOK, AttemptsGood, LateGood, Message, Used
<1>4. CASE Become(p, [run[p] EXCEPT !.tries = @ + 1])
  <2> DEFINE r == [run[p] EXCEPT !.tries = @ + 1]
  <2>1. r \in Sending /\ r.key = run[p].key /\ r.req = run[p].req /\ r.pc # "recall"
    BY <1>2 DEF Sending
  <2>2. RunGood(r)
    <3> HIDE DEF r
    <3> QED BY <1>1, <2>1, SendingGood
  <2>3. RunsGood
    <3>1. Become(p, r)
      BY <1>4
    <3> HIDE DEF r
    <3> QED BY <2>2, <3>1, BecomeRuns DEF RunsInv, TypeOK, Become, RunGood, RunsGood
  <2> QED BY <1>1, <1>3, <2>3, GoodStep
<1>5. CASE End(p, "error")
  <2> DEFINE r == [pc |-> "idle", out |-> "error"]
  <2>1. RunGood(r) /\ Become(p, r)
    BY <1>5, EndGood DEF End, Outcomes
  <2>2. RunsGood
    <3> HIDE DEF r
    <3> QED BY <2>1, BecomeRuns DEF RunsInv, TypeOK, Become, RunGood, RunsGood
  <2> QED BY <1>1, <1>3, <2>2, GoodStep
<1> QED BY <1>4, <1>5 DEF Cut

-----------------------------------------------------------------------------
(* Each action keeps RunsInv.                                              *)

LEMMA LookUpStep ==
    ASSUME RunsInv, NEW p \in Procs,
           \/ \E r \in Requests : Start(p, r)
           \/ Look(p) \/ LookFails(p) \/ Open(p)
    PROVE  RunsInv'
<1>1. ASSUME NEW r \in Requests, Start(p, r)
      PROVE  RunsInv'
  <2> DEFINE new == [pc |-> "listing", req |-> r, full |-> LimitReached]
  <2>1. SubGood /\ VersionsGood /\ AttemptsGood /\ FileGood
    BY <1>1, ApiStays, AttemptsStay, FileStays DEF Start
  <2>2. LimitReached \in BOOLEAN
    BY DEF LimitReached
  <2>3. RunGood(new)
    <3> HIDE DEF LimitReached
    <3> QED BY <2>2 DEF RunGood, Runs, Looking, SendSteps
  <2>4. Become(p, new)
    BY <1>1 DEF Start
  <2> HIDE DEF new
  <2> QED BY <1>1, <2>1, <2>3, <2>4, RunStep DEF Start
<1>2. CASE Look(p)
  <2>1. SubGood /\ VersionsGood /\ AttemptsGood /\ FileGood /\ UNCHANGED late
    BY <1>2, ApiStays, AttemptsStay, FileStays DEF Look
  <2>2. run[p].req \in Requests
    BY <1>2, RunShapes DEF RunsInv, Look, Looking
  <2>3. Len(versions) \in Nat /\ UNCHANGED versions
    BY <1>2 DEF RunsInv, TypeOK, ApiTypeOK, Look
  <2>4. CASE Become(p, [pc |-> "open", req |-> run[p].req])
    <3>1. RunGood([pc |-> "open", req |-> run[p].req])
      BY <2>2 DEF RunGood, Runs, Opening, SendSteps
    <3> QED BY <2>1, <2>4, <3>1, RunStep
  <2>5. CASE End(p, "refused_locally")
    BY <2>1, <2>5, EndStep DEF Outcomes
  <2>6. CASE Len(versions) > 0 /\ ConcludeKnown(p, Len(versions))
    <3>1. CASE End(p, "known")
      BY <2>1, <3>1, EndStep DEF Outcomes
    <3>2. CASE Follow(p, Len(versions), FALSE)
      <4> DEFINE r == [pc |-> "follow", req |-> run[p].req, version |-> Len(versions),
                       owner |-> FALSE]
      <4>1. Len(versions) \in 1 .. Len(versions') /\ Len(versions') \in Nat
        BY <2>3, <2>6
      <4>2. RunGood(r)
        BY <2>2, <4>1, FollowGood
      <4>3. Become(p, r)
        BY <3>2 DEF Follow
      <4> HIDE DEF r
      <4> QED BY <2>1, <4>2, <4>3, RunStep
    <3> QED BY <2>6, <3>1, <3>2 DEF ConcludeKnown
  <2> QED BY <1>2, <2>4, <2>5, <2>6 DEF Look
<1>3. CASE LookFails(p)
  BY <1>3, ApiStays, AttemptsStay, FileStays, EndStep DEF LookFails, Outcomes
<1>4. CASE Open(p)
  <2> DEFINE req == run[p].req
             n == Name(req)
  <2>1. SubGood /\ VersionsGood /\ UNCHANGED late /\ file' = Without(file, Stale)
    BY <1>4, ApiStays DEF Open
  <2>2. req \in Requests
    BY <1>4, RunShapes DEF RunsInv, Open, Opening
  <2>3. CASE Resumable(n)
    <3> DEFINE r == [NewSending(req, file[n].key, FALSE) EXCEPT
                       !.at = file[n].at, !.answered = file[n].answered, !.resumed = TRUE]
    <3>1. Become(p, r) /\ UNCHANGED attempt
      BY <1>4, <2>3 DEF Open
    <3>2. AttemptsGood /\ FileGood
      BY <2>1, <3>1, AttemptsStay, LessFileGood
    <3>3. n \in DOMAIN file /\ file[n] \in Saved
      BY <2>3 DEF RunsInv, TypeOK, PartialFunction, Resumable
    <3>4. /\ file[n].key \in DOMAIN attempt'
          /\ Name(attempt'[file[n].key].req) = n
      BY <3>2, <3>3 DEF RunsInv, KeyOfOneRequest, AttemptsGood, Saved, Used, Kept
    <3>5. attempt'[file[n].key].req \in Requests
      BY <3>2, <3>4 DEF AttemptsGood, PartialFunction, Attempt
    <3>6. attempt'[file[n].key].req = req
      BY <2>2, <3>4, <3>5, RequestsType DEF Name
    <3>7. r \in Sending /\ r.key = file[n].key /\ r.req = req /\ r.pc = "save"
      BY <2>2, <3>3 DEF RunsInv, TypeOK, ApiTypeOK, NewSending, Sending, SendSteps, Saved
    <3> HIDE DEF r
    <3>8. RunGood(r)
      BY <3>4, <3>6, <3>7 DEF RunGood, Runs
    <3> QED BY <2>1, <3>1, <3>2, <3>8, RunStep
  <2>4. CASE ~Resumable(n)
    <3>1. PICK k \in Fresh : MakeKey(k, req) /\ Become(p, NewSending(req, k, FALSE))
      BY <1>4, <2>4 DEF Open
    <3>2. AttemptsGood /\ RunGood(NewSending(req, k, FALSE))
      BY <2>2, <3>1, KeyMade, NewSendingGood
    <3> QED BY <2>1, <3>1, <3>2, LessFileGood, RunStep
  <2> QED BY <2>3, <2>4
<1> QED BY <1>1, <1>2, <1>3, <1>4

LEMMA CreationStep ==
    ASSUME RunsInv, NEW p \in Procs,
           Save(p) \/ Create(p) \/ CreateCut(p) \/ Keep(p)
    PROVE  RunsInv'
<1>0. run[p].pc \in SendSteps
  BY DEF Save, Create, CreateCut, Keep, At, SendSteps
<1>h. /\ run[p] \in Sending /\ run[p].key \in Keys /\ Used(run[p].key)
      /\ run[p].key \in DOMAIN attempt /\ attempt[run[p].key].req = run[p].req
  BY <1>0, Held
<1>1. CASE Save(p)
  <2> DEFINE r == [run[p] EXCEPT !.pc = "create", !.tries = 0, !.refreshed = FALSE]
  <2>1. SubGood /\ VersionsGood /\ AttemptsGood
    BY <1>1, ApiStays, AttemptsStay DEF Save
  <2>2. FileGood
    BY <1>0, <1>1, <2>1, SavedFileGood DEF Save
  <2>3. r \in Sending /\ r.key = run[p].key /\ r.req = run[p].req /\ r.pc # "recall"
    BY <1>h DEF Sending, SendSteps
  <2>4. Become(p, r)
    BY <1>1 DEF Save, Enter
  <2> HIDE DEF r
  <2> QED BY <1>0, <1>1, <2>1, <2>2, <2>3, <2>4, SendingGood, RunStep DEF Save
<1>2. CASE Create(p)
  <2>1. PICK reply \in CreateReplies : /\ ApiCreate(run[p].key, run[p].req, reply)
                                       /\ AfterCreate(p, reply)
    BY <1>2 DEF Create
  <2>2. /\ SubGood /\ VersionsGood
        /\ reply # "reused"
        /\ reply = "finalized" =>
              \E i \in 1 .. Len(versions) : versions[i].key = run[p].key
    BY <1>h, <1>2, <2>1, ApiCreateGood DEF Create
  <2>3. UNCHANGED <<versions, late>>
    BY <1>2 DEF Create
  <2>4. ASSUME Forget(run[p]), UNCHANGED attempt,
               NEW out \in {"refused", "error"}, End(p, out)
        PROVE  RunsInv'
    BY <2>2, <2>3, <2>4, AttemptsStay, LessFileGood, EndStep DEF Forget, Outcomes
  <2>5. CASE UNCHANGED <<file, attempt>> /\ End(p, "error")
    BY <2>2, <2>3, <2>5, AttemptsStay, FileStays, EndStep DEF Outcomes
  <2>6. CASE StartAgain(p)
    BY <1>0, <2>2, <2>3, <2>6, StartAgainStep
  <2>7. CASE /\ reply = "finalized"
             /\ Become(p, [run[p] EXCEPT !.pc = "recall", !.tries = 0, !.answered = TRUE])
             /\ UNCHANGED <<file, attempt>>
    <3> DEFINE r == [run[p] EXCEPT !.pc = "recall", !.tries = 0, !.answered = TRUE]
    <3>1. r \in Sending /\ r.key = run[p].key /\ r.req = run[p].req /\ r.pc = "recall"
      BY <1>h DEF Sending, SendSteps
    <3>2. Become(p, r)
      BY <2>7
    <3> HIDE DEF r
    <3>3. RunGood(r)
      BY <1>h, <2>2, <2>3, <2>7, <3>1 DEF RunGood, Runs
    <3> QED BY <2>2, <2>3, <2>7, <3>2, <3>3, AttemptsStay, FileStays, RunStep
  <2>8. CASE /\ Become(p, [run[p] EXCEPT !.pc = "keep", !.tries = 0, !.answered = TRUE])
             /\ UNCHANGED <<file, attempt>>
    <3> DEFINE r == [run[p] EXCEPT !.pc = "keep", !.tries = 0, !.answered = TRUE]
    <3>1. r \in Sending /\ r.key = run[p].key /\ r.req = run[p].req /\ r.pc # "recall"
      BY <1>h DEF Sending, SendSteps
    <3>2. Become(p, r)
      BY <2>8
    <3> HIDE DEF r
    <3> QED BY <1>0, <2>2, <2>3, <2>8, <3>1, <3>2, SendingGood, AttemptsStay, FileStays, RunStep
  <2> QED BY <2>1, <2>2, <2>4, <2>5, <2>6, <2>7, <2>8 DEF AfterCreate
<1>3. CASE CreateCut(p)
  BY <1>3, CutStep DEF CreateCut, At, SendSteps
<1>4. CASE Keep(p)
  <2> DEFINE r == [run[p] EXCEPT !.pc = "upload", !.tries = 0, !.refreshed = FALSE]
             k == run[p].key
             v == [attempt[k] EXCEPT !.answered = TRUE]
  <2>1. SubGood /\ VersionsGood
    BY <1>4, ApiStays DEF Keep
  <2>2. /\ v \in Attempt /\ v.req = attempt[k].req
        /\ attempt' = [attempt EXCEPT ![k] = v]
    BY <1>h, <1>4 DEF Keep, RunsInv, TypeOK, PartialFunction, Attempt
  <2>3. AttemptsGood
    <3>1. PartialFunction(attempt, Keys, Attempt)
      BY DEF RunsInv, TypeOK
    <3>2. k \in DOMAIN attempt
      BY <1>h
    <3> HIDE DEF v, k
    <3>3. /\ PartialFunction(attempt', Keys, Attempt)
          /\ DOMAIN attempt' = DOMAIN attempt
          /\ attempt'[k] = v
          /\ \A j \in DOMAIN attempt : j # k => attempt'[j] = attempt[j]
      BY <2>2, <3>1, <3>2, ExceptKeeps
    <3> QED BY <2>2, <3>3 DEF RunsInv, UsedKeysKnown, AttemptsGood
  <2>4. FileGood
    BY <1>0, <1>4, <2>3, SavedFileGood DEF Keep
  <2>5. r \in Sending /\ r.key = run[p].key /\ r.req = run[p].req /\ r.pc # "recall"
    BY <1>h DEF Sending, SendSteps
  <2>6. Become(p, r)
    BY <1>4 DEF Keep, Enter
  <2> HIDE DEF r
  <2> QED BY <1>0, <1>4, <2>1, <2>3, <2>4, <2>5, <2>6, SendingGood, RunStep DEF Keep
<1> QED BY <1>1, <1>2, <1>3, <1>4

LEMMA DeliveryStep ==
    ASSUME RunsInv, NEW p \in Procs,
           \/ Upload(p) \/ UploadRefused(p) \/ UploadCut(p) \/ Refresh(p)
           \/ Finalize(p) \/ FinalizeCut(p) \/ Recall(p)
    PROVE  RunsInv'
<1>0. run[p].pc \in SendSteps
  BY DEF Upload, UploadRefused, UploadCut, Refresh, Finalize, FinalizeCut, Recall, At, SendSteps
<1>h. /\ run[p] \in Sending /\ run[p].key \in Keys /\ Used(run[p].key)
      /\ run[p].key \in DOMAIN attempt /\ attempt[run[p].key].req = run[p].req
      /\ run[p].req \in Requests
  BY <1>0, Held DEF Sending
<1>r. ASSUME SubGood, VersionsGood, UNCHANGED <<file, late, attempt>>,
             NEW r \in Sending, r.key = run[p].key, r.req = run[p].req, r.pc # "recall",
             Become(p, r)
      PROVE  RunsInv'
  BY <1>0, <1>r, AttemptsStay, FileStays, SendingGood, RunStep
<1>e. ASSUME SubGood, VersionsGood, UNCHANGED <<file, late, attempt>>, End(p, "error")
      PROVE  RunsInv'
  BY <1>e, AttemptsStay, FileStays, EndStep DEF Outcomes
<1>f. ASSUME SubGood, VersionsGood, AttemptsGood, FileGood, UNCHANGED late,
             \E i \in 1 .. Len(versions') : versions'[i].key = run[p].key,
             Follow(p, VersionOf(run[p].key, versions'), TRUE)
      PROVE  RunsInv'
  <2> DEFINE i == VersionOf(run[p].key, versions')
             r == [pc |-> "follow", req |-> run[p].req, version |-> i, owner |-> TRUE]
  <2>1. i \in 1 .. Len(versions')
    BY <1>f DEF VersionOf
  <2>2. Become(p, r)
    BY <1>f DEF Follow
  <2>3. Len(versions') \in Nat
    BY <1>f DEF SubGood, ApiTypeOK
  <2>4. RunGood(r)
    <3> HIDE DEF i
    <3> QED BY <1>h, <2>1, <2>3, FollowGood
  <2> HIDE DEF r
  <2> QED BY <1>f, <2>2, <2>4, RunStep
<1>1. CASE Upload(p)
  <2> DEFINE r == [run[p] EXCEPT !.pc = "finalize", !.tries = 0, !.refreshed = FALSE]
  <2>1. r \in Sending /\ r.key = run[p].key /\ r.req = run[p].req /\ r.pc # "recall"
    BY <1>h DEF Sending, SendSteps
  <2>2. Become(p, r)
    BY <1>1 DEF Upload, Enter
  <2> HIDE DEF r
  <2> QED BY <1>1, <1>r, <2>1, <2>2, ApiUploadGood DEF Upload
<1>2. CASE UploadRefused(p)
  <2> DEFINE r == [run[p] EXCEPT !.pc = "refresh", !.refreshed = TRUE]
  <2>1. r \in Sending /\ r.key = run[p].key /\ r.req = run[p].req /\ r.pc # "recall"
    BY <1>h DEF Sending, SendSteps
  <2>2. Become(p, r) \/ End(p, "error")
    BY <1>2 DEF UploadRefused
  <2> HIDE DEF r
  <2> QED BY <1>2, <1>r, <1>e, <2>1, <2>2, ApiStays DEF UploadRefused
<1>3. CASE UploadCut(p)
  BY <1>3, CutStep DEF UploadCut, At, SendSteps
<1>4. CASE Refresh(p)
  <2> DEFINE r == [run[p] EXCEPT !.pc = "upload"]
  <2>1. r \in Sending /\ r.key = run[p].key /\ r.req = run[p].req /\ r.pc # "recall"
    BY <1>h DEF Sending, SendSteps
  <2>2. Become(p, r) \/ End(p, "error")
    BY <1>4 DEF Refresh
  <2> HIDE DEF r
  <2> QED BY <1>4, <1>r, <1>e, <2>1, <2>2, ApiStays DEF Refresh
<1>5. CASE Finalize(p)
  <2>1. PICK reply \in FinalizeReplies : /\ ApiFinalize(run[p].key, reply)
                                         /\ AfterFinalize(p, reply)
    BY <1>5 DEF Finalize
  <2>2. /\ SubGood /\ VersionsGood
        /\ reply = "finalized" =>
              \E i \in 1 .. Len(versions') : versions'[i].key = run[p].key
    BY <1>h, <1>5, <2>1, ApiFinalizeGood DEF Finalize
  <2>3. UNCHANGED late
    BY <1>5 DEF Finalize
  <2>4. CASE /\ reply = "finalized" /\ SaveState(run[p]) /\ UNCHANGED attempt
             /\ Follow(p, VersionOf(run[p].key, versions'), TRUE)
    BY <1>0, <1>f, <2>2, <2>3, <2>4, AttemptsStay, SavedFileGood
  <2>5. CASE StartAgain(p)
    BY <1>0, <2>2, <2>3, <2>5, StartAgainStep
  <2>6. ASSUME Forget(run[p]), UNCHANGED attempt,
               NEW out \in {"refused", "error"}, End(p, out)
        PROVE  RunsInv'
    BY <2>2, <2>3, <2>6, AttemptsStay, LessFileGood, EndStep DEF Forget, Outcomes
  <2>7. CASE End(p, "error") /\ UNCHANGED <<file, attempt>>
    BY <1>e, <2>2, <2>3, <2>7
  <2>8. CASE /\ Become(p, [run[p] EXCEPT !.waits = @ + 1, !.tries = 0])
             /\ UNCHANGED <<file, attempt>>
    <3> DEFINE r == [run[p] EXCEPT !.waits = @ + 1, !.tries = 0]
    <3>0. run[p] \in Sending
      BY <1>h
    <3>w. run[p].waits + 1 \in Nat
      BY <3>0 DEF Sending
    <3>1. r \in Sending /\ r.key = run[p].key /\ r.req = run[p].req /\ r.pc = run[p].pc
      BY <3>0, <3>w DEF Sending
    <3>2. r.pc # "recall"
      BY <1>5, <3>1 DEF Finalize, At
    <3>3. Become(p, r)
      BY <2>8
    <3> HIDE DEF r
    <3> QED BY <1>r, <2>2, <2>3, <2>8, <3>1, <3>2, <3>3
  <2> QED BY <2>1, <2>4, <2>5, <2>6, <2>7, <2>8 DEF AfterFinalize
<1>6. CASE FinalizeCut(p)
  BY <1>6, CutStep DEF FinalizeCut, At, SendSteps
<1>7. CASE Recall(p)
  <2>1. SubGood /\ VersionsGood /\ AttemptsGood /\ FileGood /\ UNCHANGED <<versions, late>>
    BY <1>7, ApiStays, AttemptsStay, FileStays DEF Recall
  <2>2. \E i \in 1 .. Len(versions) : versions[i].key = run[p].key
    BY <1>7 DEF RunsInv, VersionsExist, Recall
  <2> QED BY <1>e, <1>f, <1>7, <2>1, <2>2 DEF Recall
<1> QED BY <1>1, <1>2, <1>3, <1>4, <1>5, <1>6, <1>7

LEMMA FollowingStep ==
    ASSUME RunsInv, NEW p \in Procs, FollowDone(p) \/ FollowStops(p) \/ Crash(p)
    PROVE  RunsInv'
<1>1. SubGood /\ VersionsGood /\ AttemptsGood /\ UNCHANGED late
  BY ApiStays, AttemptsStay DEF FollowDone, FollowStops, Crash
<1>2. FileGood
  BY <1>1, FileStays, LessFileGood DEF FollowDone, FollowStops, Crash, Release, Forget
<1>3. \E out \in Outcomes : End(p, out)
  BY DEF FollowDone, FollowStops, Crash, Outcomes
<1> QED BY <1>1, <1>2, <1>3, EndStep

LEMMA OutsideStep ==
    ASSUME RunsInv, \/ \E m \in Message : LateArrival(m)
                    \/ Service
                    \/ Tick
    PROVE  RunsInv'
<1>0. UNCHANGED <<file, run, attempt>> /\ late' \subseteq late
  BY DEF LateArrival, Service, Tick
<1>1. AttemptsGood /\ FileGood /\ LateGood
  BY <1>0, AttemptsStay, FileStays, LateStays
<1>2. RunsGood
  BY <1>0 DEF RunsInv, TypeOK, RunsGood
<1>3. SubGood /\ VersionsGood
  <2>1. ASSUME NEW m \in Message, LateArrival(m)
        PROVE  SubGood /\ VersionsGood
    <3>1. Used(m.key) /\ m.key \in Keys /\ UNCHANGED clock
      BY <2>1 DEF LateArrival, Used, Message
    <3> QED BY <2>1, <3>1, ApiCreateGood, ApiUploadGood, ApiFinalizeGood DEF LateArrival
  <2>2. CASE Service
    BY <2>2, ServiceGood
  <2>3. CASE Tick
    <3>1. clock' \in Nat /\ UNCHANGED <<sub, versions>>
      BY <2>3 DEF Tick, RunsInv, TypeOK, ApiTypeOK
    <3> QED BY <3>1 DEF RunsInv, TypeOK, ApiTypeOK, VersionsExist, SubGood, VersionsGood
  <2> QED BY <2>1, <2>2, <2>3
<1> QED BY <1>1, <1>2, <1>3, GoodStep

-----------------------------------------------------------------------------
(* The types hold, every key in use is known, and the versions a run reads *)
(* are there, whatever the runs, their cuts and the network do.            *)
THEOREM RunsInvHolds == Spec => []RunsInv
<1>1. Init => RunsInv
  <2> SUFFICES ASSUME Init
               PROVE  RunsInv
    OBVIOUS
  <2>1. ApiTypeOK
    BY DEF Init, ApiInit, ApiTypeOK, PartialFunction
  <2>2. TypeOK
    BY <2>1 DEF Init, TypeOK, PartialFunction, Runs, Idle, Outcomes
  <2>3. \A p \in Procs : run[p].pc = "idle"
    BY DEF Init
  <2>4. UsedKeysKnown
    BY <2>3 DEF Init, ApiInit, UsedKeysKnown, Used, Kept, Holds, SendSteps
  <2>5. KeyOfOneRequest
    BY <2>3 DEF Init, ApiInit, KeyOfOneRequest, Holds, SendSteps
  <2>6. VersionsExist
    BY <2>3 DEF Init, ApiInit, VersionsExist, At
  <2> QED BY <2>2, <2>4, <2>5, <2>6 DEF RunsInv
<1>2. RunsInv /\ [Next]_vars => RunsInv'
  <2> SUFFICES ASSUME RunsInv, [Next]_vars
               PROVE  RunsInv'
    OBVIOUS
  <2>1. CASE UNCHANGED vars
    BY <2>1, ApiStays, AttemptsStay, FileStays, LateStays, GoodStep
       DEF vars, RunsInv, TypeOK, RunsGood
  <2>2. ASSUME NEW p \in Procs, (\E r \in Requests : Start(p, r)) \/ Work(p) \/ Crash(p)
        PROVE  RunsInv'
    BY <2>2, LookUpStep, CreationStep, DeliveryStep, FollowingStep DEF Work
  <2> QED BY <2>1, <2>2, OutsideStep DEF Next
<1> QED BY <1>1, <1>2, PTL DEF Spec

(* The types of the state, for any number of runs at once.                 *)
THEOREM TypeCorrect == Spec => []TypeOK
BY RunsInvHolds, PTL DEF RunsInv

(* No run, resumed or renewed, and no late request uses a key for another  *)
(* request than its own: the API never answers that a key was reused.      *)
THEOREM KeysAreSafe == Spec => []KeyOfOneRequest
BY RunsInvHolds, PTL DEF RunsInv
=============================================================================
