----------------------------- MODULE SubmitPromises -----------------------------
(***************************************************************************)
(* What `submit` promises the creator, proved for any requests, keys,      *)
(* lifetimes and limits.  With one run at a time: a submission the API     *)
(* still waits for is never abandoned, a request never makes two versions  *)
(* in a row, and the runs implement SubmissionLedger.  With any number of  *)
(* runs: what a run ends on is true.                                       *)
(***************************************************************************)
EXTENDS SubmitProofs

-----------------------------------------------------------------------------
(* What RunsInv says of the keys a step looks at.                          *)

LEMMA KeyFacts ==
    ASSUME RunsInv
    PROVE  /\ clock \in Nat
           /\ \A n \in DOMAIN file :
                /\ file[n].key \in Keys /\ file[n].key \in DOMAIN attempt /\ Used(file[n].key)
                /\ Name(attempt[file[n].key].req) = n
                /\ file[n].at \in Nat /\ file[n].answered \in BOOLEAN
           /\ \A k \in DOMAIN sub :
                /\ k \in Keys /\ k \in DOMAIN attempt /\ Used(k) /\ sub[k].at \in Nat
                /\ sub[k] \in Submission
           /\ \A k \in DOMAIN attempt :
                k \in Keys /\ attempt[k].at \in Nat /\ attempt[k].answered \in BOOLEAN
           /\ \A k \in Keys : LateCreate(k) => Used(k) /\ k \in DOMAIN attempt
<1>1. /\ clock \in Nat
      /\ PartialFunction(sub, Keys, Submission)
      /\ PartialFunction(file, Names, Saved)
      /\ PartialFunction(attempt, Keys, Attempt)
  BY DEF RunsInv, TypeOK, ApiTypeOK
<1>2. \A k \in Keys : Used(k) => k \in DOMAIN attempt
  BY DEF RunsInv, UsedKeysKnown
<1>3. \A n \in DOMAIN file : file[n].key \in Keys /\ Used(file[n].key)
  BY <1>1 DEF PartialFunction, Saved, Used, Kept
<1>4. \A n \in DOMAIN file : Name(attempt[file[n].key].req) = n
  BY DEF RunsInv, KeyOfOneRequest
<1>5. \A n \in DOMAIN file : file[n].at \in Nat /\ file[n].answered \in BOOLEAN
  BY <1>1 DEF PartialFunction, Saved
<1>6. \A k \in DOMAIN sub :
        k \in Keys /\ Used(k) /\ sub[k].at \in Nat /\ sub[k] \in Submission
  BY <1>1 DEF PartialFunction, Submission, Used
<1>7. \A k \in DOMAIN attempt :
        k \in Keys /\ attempt[k].at \in Nat /\ attempt[k].answered \in BOOLEAN
  BY <1>1 DEF PartialFunction, Attempt
<1>8. \A k \in Keys : LateCreate(k) => Used(k)
  BY DEF LateCreate, Used
<1> QED BY <1>1, <1>2, <1>3, <1>4, <1>5, <1>6, <1>7, <1>8

-----------------------------------------------------------------------------
(* A step that takes no time keeps AloneInv when each part of the state it *)
(* changes is good.                                                        *)

Worked(k) == \E p \in Procs : Holds(p, k)
Safe(k) ==
    \/ Kept(k) \/ GivenUp(k) \/ Over(k)
    \/ k \notin DOMAIN sub /\ LimitReached
RunsTell ==
    \A p \in Procs : run[p].pc \in SendSteps => RunTells(run[p]) /\ FileLeads(run[p])

SubMoves ==
    /\ clock' = clock
    /\ DOMAIN sub \subseteq DOMAIN sub'
    /\ \A j \in DOMAIN sub :
          /\ sub'[j].at = sub[j].at
          /\ sub[j].state = "finalized" => sub'[j].state = "finalized"
          /\ sub'[j].state = "pending_upload" => sub[j].state = "pending_upload"
    /\ \A j \in DOMAIN sub' \ DOMAIN sub :
          /\ Used(j) /\ MayBeCreated(j) /\ ~LimitReached /\ sub'[j].at = clock
          /\ LateCreate(j) \/ \E p \in Procs : At(p, "create") /\ Holds(p, j)
    /\ \A i \in 1 .. Len(versions') :
          \/ i \in 1 .. Len(versions) /\ versions'[i].key = versions[i].key
          \/ sub'[versions'[i].key].state = "finalized"

AttemptsMove ==
    /\ \A j \in Keys : Used(j) =>
          /\ attempt'[j].at = attempt[j].at
          /\ attempt'[j].answered = attempt[j].answered \/ Kept(j)'
    /\ \A j \in DOMAIN attempt' : attempt'[j].answered =>
          (j \in DOMAIN attempt /\ attempt[j].answered) \/ j \in DOMAIN sub'

LateMoves ==
    \A k \in Keys : LateCreate(k)' =>
        LateCreate(k) \/ \E p \in Procs : At(p, "create") /\ Holds(p, k)

Drops ==
    \A k \in Keys : (Live(k) \/ LateCreate(k))' /\ (Worked(k) \/ Kept(k)) =>
        Worked(k)' \/ Safe(k)'

LEMMA Moves ==
    ASSUME RunsInv, RunsInv', SubMoves
    PROVE  /\ \A k : Over(k) => Over(k)'
           /\ \A k : Live(k)' => Live(k) \/ k \in DOMAIN sub' \ DOMAIN sub
           /\ \A k : k \notin DOMAIN sub /\ LimitReached =>
                       k \notin DOMAIN sub' /\ LimitReached'
           /\ \A k : k \in DOMAIN sub /\ ~Pending(k) => ~Pending(k)'
<1>1. ASSUME NEW k, Over(k)
      PROVE  Over(k)'
  BY <1>1 DEF SubMoves, Over, Live, Pending
<1>2. ASSUME NEW k, Live(k)', k \in DOMAIN sub
      PROVE  Live(k)
  BY <1>2 DEF SubMoves, Live, Pending
<1>3. ASSUME NEW k, k \notin DOMAIN sub, LimitReached
      PROVE  k \notin DOMAIN sub' /\ LimitReached'
  <2>1. DOMAIN sub' = DOMAIN sub
    BY <1>3 DEF SubMoves
  <2>2. Counted' = Counted
    BY <2>1 DEF SubMoves, Counted
  <2> QED BY <1>3, <2>1, <2>2 DEF LimitReached
<1>4. \A k : k \in DOMAIN sub /\ ~Pending(k) => ~Pending(k)'
  BY DEF SubMoves, Pending
<1> QED BY <1>1, <1>2, <1>3, <1>4 DEF Live, Pending

LEMMA AloneStep ==
    ASSUME RunsInv, RunsInv', AloneInv, SubMoves, AttemptsMove, LateMoves,
           FilesTell', OwnersFile', RunsTell', Drops
    PROVE  AloneInv'
<1>0. \A k \in Keys, p \in Procs : At(p, "create") /\ Holds(p, k) => MayBeCreated(k) /\ Used(k)
  BY DEF AloneInv, At, Holds, RunTells, Used, SendSteps
<1>1. AttemptsOnApi'
  <2>1. ASSUME NEW k \in DOMAIN attempt', attempt'[k].answered
        PROVE  k \in DOMAIN sub'
    BY <2>1 DEF AloneInv, AttemptsOnApi, AttemptsMove, SubMoves
  <2>2. ASSUME NEW k \in DOMAIN sub'
        PROVE  sub'[k].at <= attempt'[k].at + PendingLifetime
    <3>1. k \in Keys
      BY <2>2 DEF RunsInv, TypeOK, ApiTypeOK, PartialFunction
    <3>2. CASE k \in DOMAIN sub
      BY <3>1, <3>2, KeyFacts DEF AloneInv, AttemptsOnApi, AttemptsMove, SubMoves
    <3>3. CASE k \notin DOMAIN sub
      <4>1. /\ Used(k) /\ clock - attempt[k].at <= PendingLifetime
            /\ sub'[k].at = clock
        BY <3>3 DEF SubMoves, MayBeCreated
      <4>2. attempt'[k].at = attempt[k].at /\ attempt[k].at \in Nat /\ clock \in Nat
        BY <3>1, <4>1, KeyFacts DEF AttemptsMove, RunsInv, UsedKeysKnown
      <4> QED BY <4>1, <4>2, TimesType
    <3> QED BY <3>2, <3>3
  <2>3. ASSUME NEW k \in Keys, LateCreate(k)'
        PROVE  MayBeCreated(k)'
    <3>1. MayBeCreated(k) /\ Used(k)
      BY <2>3, <1>0, KeyFacts DEF LateMoves, AloneInv, AttemptsOnApi
    <3> QED BY <2>3, <3>1 DEF MayBeCreated, AttemptsMove, SubMoves
  <2> QED BY <2>1, <2>2, <2>3 DEF AttemptsOnApi
<1>2. VersionsFinal'
  <2> SUFFICES ASSUME NEW i \in 1 .. Len(versions')
               PROVE  sub'[versions'[i].key].state = "finalized"
    BY DEF VersionsFinal
  <2>1. CASE i \in 1 .. Len(versions) /\ versions'[i].key = versions[i].key
    BY <2>1 DEF SubMoves, AloneInv, VersionsFinal, RunsInv, VersionsExist
  <2> QED BY <2>1 DEF SubMoves
<1>3. NothingLost'
  <2> SUFFICES ASSUME NEW k \in Keys, (Live(k) \/ LateCreate(k))'
               PROVE  Worked(k)' \/ Safe(k)'
    BY DEF NothingLost, Worked, Safe
  <2>1. Live(k) \/ LateCreate(k) \/ Worked(k)
    BY Moves DEF SubMoves, LateMoves, Worked
  <2>2. CASE Worked(k) \/ Kept(k)
    BY <2>2 DEF Drops
  <2>3. CASE ~Worked(k) /\ ~Kept(k)
    <3>1. Used(k)
      BY <2>1, <2>3, KeyFacts DEF Live, Pending
    <3>2. GivenUp(k) \/ Over(k) \/ (k \notin DOMAIN sub /\ LimitReached)
      BY <2>1, <2>3 DEF AloneInv, NothingLost, Worked
    <3>3. CASE GivenUp(k)
      BY <3>1, <3>3 DEF AttemptsMove, GivenUp, SubMoves, Safe
    <3>4. CASE Over(k) \/ (k \notin DOMAIN sub /\ LimitReached)
      BY <3>4, Moves DEF Safe
    <3> QED BY <3>2, <3>3, <3>4
  <2> QED BY <2>2, <2>3
<1> QED BY <1>1, <1>2, <1>3 DEF AloneInv, RunsTell

-----------------------------------------------------------------------------
(* How each request moves the submissions.                                 *)

LEMMA SubStill ==
    ASSUME RunsInv, UNCHANGED <<clock, sub, versions>>
    PROVE  SubMoves
BY DEF SubMoves, RunsInv, VersionsExist

(* Only the versions move, or their submissions do, without their times.   *)
LEMMA OneSubMoves ==
    ASSUME RunsInv, NEW k \in DOMAIN sub, NEW v, sub' = [sub EXCEPT ![k] = v],
           v.at = sub[k].at,
           sub[k].state = "finalized" => v.state = "finalized",
           v.state = "pending_upload" => sub[k].state = "pending_upload",
           UNCHANGED clock,
           \A i \in 1 .. Len(versions') :
              \/ i \in 1 .. Len(versions) /\ versions'[i].key = versions[i].key
              \/ versions'[i].key = k /\ v.state = "finalized"
    PROVE  SubMoves
<1>1. PartialFunction(sub, Keys, Submission)
  BY DEF RunsInv, TypeOK, ApiTypeOK
<1>2. DOMAIN sub' = DOMAIN sub /\ sub'[k] = v /\ \A j \in DOMAIN sub : j # k => sub'[j] = sub[j]
  BY <1>1 DEF PartialFunction
<1> QED BY <1>2 DEF SubMoves

LEMMA CreateMoves ==
    ASSUME RunsInv, NEW k \in Keys, NEW body, NEW reply, ApiCreate(k, body, reply),
           Used(k), MayBeCreated(k),
           LateCreate(k) \/ \E p \in Procs : At(p, "create") /\ Holds(p, k),
           UNCHANGED <<clock, versions>>
    PROVE  SubMoves
<1>1. CASE UNCHANGED sub
  BY <1>1, SubStill
<1>2. CASE sub' # sub
  <2> DEFINE new == [body |-> body, state |-> "pending_upload", upload |-> "none", at |-> clock]
  <2>1. k \notin DOMAIN sub /\ ~LimitReached /\ sub' = Put(sub, k, new)
    BY <1>2 DEF ApiCreate
  <2>2. /\ DOMAIN sub' = DOMAIN sub \cup {k}
        /\ sub'[k].at = clock
        /\ \A j \in DOMAIN sub : sub'[j] = sub[j]
    BY <2>1 DEF Put
  <2>3. \A i \in 1 .. Len(versions') :
           i \in 1 .. Len(versions) /\ versions'[i].key = versions[i].key
    OBVIOUS
  <2> QED BY <2>1, <2>2, <2>3 DEF SubMoves
<1> QED BY <1>1, <1>2

LEMMA UploadMoves ==
    ASSUME RunsInv, NEW k, ApiUpload(k), UNCHANGED <<clock, versions>>
    PROVE  SubMoves
<1>1. CASE Live(k) /\ sub[k].upload # "seen"
  <2> DEFINE v == [sub[k] EXCEPT !.upload = "unseen"]
  <2>1. k \in DOMAIN sub
    BY <1>1 DEF Live, Pending
  <2>2. v.at = sub[k].at /\ v.state = sub[k].state
    BY <2>1, KeyFacts DEF Submission
  <2>3. sub' = [sub EXCEPT ![k] = v]
    BY <1>1 DEF ApiUpload
  <2>4. \A i \in 1 .. Len(versions') :
           i \in 1 .. Len(versions) /\ versions'[i].key = versions[i].key
    OBVIOUS
  <2> HIDE DEF v
  <2> QED BY <2>1, <2>2, <2>3, <2>4, OneSubMoves
<1>2. CASE ~(Live(k) /\ sub[k].upload # "seen")
  BY <1>2, SubStill DEF ApiUpload
<1> QED BY <1>1, <1>2

LEMMA FinalizeMoves ==
    ASSUME RunsInv, NEW k, NEW reply, ApiFinalize(k, reply), UNCHANGED clock
    PROVE  SubMoves
<1>0. k \in DOMAIN sub /\ sub[k] \in Submission /\ versions \in Seq(Version)
  BY KeyFacts DEF ApiFinalize, Live, Pending, RunsInv, TypeOK, ApiTypeOK
<1>1. CASE UNCHANGED <<sub, versions>>
  BY <1>1, SubStill
<1>2. CASE /\ Live(k)
           /\ sub' = [sub EXCEPT ![k].state = "refused"]
           /\ UNCHANGED versions
  <2> DEFINE v == [sub[k] EXCEPT !.state = "refused"]
  <2>1. v.at = sub[k].at /\ v.state = "refused" /\ sub' = [sub EXCEPT ![k] = v]
    BY <1>0, <1>2 DEF Submission
  <2>2. sub[k].state # "finalized"
    BY <1>2 DEF Live, Pending
  <2>3. \A i \in 1 .. Len(versions') :
           i \in 1 .. Len(versions) /\ versions'[i].key = versions[i].key
    BY <1>2
  <2> HIDE DEF v
  <2> QED BY <1>0, <2>1, <2>2, <2>3, OneSubMoves
<1>3. CASE /\ sub' = [sub EXCEPT ![k].state = "finalized"]
           /\ versions' = Append(versions, [key |-> k, state |-> "checking",
                                            built |-> FALSE, stuck |-> FALSE])
  <2> DEFINE v == [sub[k] EXCEPT !.state = "finalized"]
  <2>1. v.at = sub[k].at /\ v.state = "finalized" /\ sub' = [sub EXCEPT ![k] = v]
    BY <1>0, <1>3 DEF Submission
  <2>2. \A i \in 1 .. Len(versions') :
           \/ i \in 1 .. Len(versions) /\ versions'[i].key = versions[i].key
           \/ versions'[i].key = k
    BY <1>0, <1>3
  <2> HIDE DEF v
  <2> QED BY <1>0, <2>1, <2>2, OneSubMoves
<1> QED BY <1>0, <1>1, <1>2, <1>3 DEF ApiFinalize

LEMMA ServiceMoves ==
    ASSUME RunsInv, Service
    PROVE  SubMoves
<1>1. ASSUME NEW k \in Keys, StorageShows(k)
      PROVE  SubMoves
  <2>1. PICK seen \in {"seen", "bad"} : sub' = [sub EXCEPT ![k].upload = seen]
    BY <1>1 DEF StorageShows
  <2> DEFINE v == [sub[k] EXCEPT !.upload = seen]
  <2>2. k \in DOMAIN sub /\ UNCHANGED <<clock, versions>>
    BY <1>1 DEF StorageShows
  <2>3. v.at = sub[k].at /\ v.state = sub[k].state /\ sub' = [sub EXCEPT ![k] = v]
    BY <2>1, <2>2, KeyFacts DEF Submission
  <2>4. \A i \in 1 .. Len(versions') :
           i \in 1 .. Len(versions) /\ versions'[i].key = versions[i].key
    BY <2>2
  <2> HIDE DEF v
  <2> QED BY <2>2, <2>3, <2>4, OneSubMoves
<1>2. ASSUME NEW k \in Keys, Expire(k)
      PROVE  SubMoves
  <2> DEFINE v == [sub[k] EXCEPT !.state = "expired"]
  <2>1. k \in DOMAIN sub /\ sub[k].state = "pending_upload" /\ UNCHANGED <<clock, versions>>
    BY <1>2 DEF Expire, Pending
  <2>2. v.at = sub[k].at /\ v.state = "expired" /\ sub' = [sub EXCEPT ![k] = v]
    BY <1>2, <2>1, KeyFacts DEF Expire, Submission
  <2>3. \A i \in 1 .. Len(versions') :
           i \in 1 .. Len(versions) /\ versions'[i].key = versions[i].key
    BY <2>1
  <2> HIDE DEF v
  <2> QED BY <2>1, <2>2, <2>3, OneSubMoves
<1>3. ASSUME NEW i \in 1 .. Len(versions), ChecksEnd(i) \/ ChecksStuck(i)
      PROVE  SubMoves
  <2>1. UNCHANGED <<clock, sub>>
    BY <1>3 DEF ChecksEnd, ChecksStuck
  <2>2. versions \in Seq(Version) /\ versions[i] \in Version
    BY DEF RunsInv, TypeOK, ApiTypeOK
  <2>3. /\ Len(versions') = Len(versions)
        /\ \A j \in 1 .. Len(versions) : versions'[j].key = versions[j].key
    <3>1. CASE ChecksEnd(i)
      BY <2>2, <3>1 DEF ChecksEnd, Version
    <3>2. CASE ChecksStuck(i)
      BY <2>2, <3>2 DEF ChecksStuck, Version
    <3> QED BY <1>3, <3>1, <3>2
  <2> QED BY <2>1, <2>3 DEF SubMoves
<1> QED BY <1>1, <1>2, <1>3 DEF Service

-----------------------------------------------------------------------------
(* The steps of the one run.                                               *)

LEMMA OneRun ==
    ASSUME Alone, TypeOK, NEW p \in Procs, NEW r, Become(p, r)
    PROVE  run'[p] = r /\ \A q \in Procs : q = p
BY DEF Alone, TypeOK, Become

LEMMA SameAttempts ==
    ASSUME UNCHANGED attempt
    PROVE  AttemptsMove
BY DEF AttemptsMove

LEMMA SameFiles ==
    ASSUME AloneInv, UNCHANGED <<file, attempt>>
    PROVE  FilesTell' /\ \A k : Kept(k) => Safe(k)'
BY DEF AloneInv, FilesTell, Kept, Safe

(* A run that is not past its look-up, or follows, holds no key.           *)
LEMMA QuietStep ==
    ASSUME Alone, RunsInv, RunsInv', AloneInv, NEW p \in Procs,
           run[p].pc \notin SendSteps, run'[p].pc \notin SendSteps,
           At(p, "follow")' => ~run'[p].owner,
           UNCHANGED <<clock, sub, versions, file, late, attempt>>
    PROVE  AloneInv'
<1>1. \A q \in Procs : q = p
  BY DEF Alone
<1>2. RunsTell' /\ OwnersFile'
  BY <1>1 DEF RunsTell, OwnersFile
<1>3. LateMoves
  BY DEF LateMoves, LateCreate
<1>4. Drops
  BY <1>1, SameFiles DEF Drops, Worked, Holds
<1> QED BY <1>2, <1>3, <1>4, SubStill, SameAttempts, SameFiles, AloneStep

(* A run past its first save ends, follows its version or goes on with its *)
(* key, and leaves the file as it is.                                      *)
LEMMA OnwardStep ==
    ASSUME Alone, RunsInv, RunsInv', AloneInv, NEW p \in Procs,
           run[p].pc \in SendSteps \ {"save"},
           SubMoves, LateMoves, UNCHANGED <<file, attempt>>,
           \/ run'[p].pc = "idle"
           \/ /\ run'[p].pc = "follow" /\ run'[p].req = run[p].req
              /\ run[p].key \in DOMAIN sub' /\ sub'[run[p].key].state # "pending_upload"
           \/ /\ run'[p].pc \in SendSteps \ {"save"}
              /\ run'[p].key = run[p].key /\ run'[p].req = run[p].req
              /\ run'[p].at = run[p].at
              /\ run'[p].pc = "create" =>
                    run[p].pc = "create" /\ run'[p].answered = run[p].answered
              /\ run'[p].pc \in {"keep", "recall"} =>
                    run'[p].answered /\ run'[p].key \in DOMAIN sub'
              /\ run'[p].pc \in {"upload", "refresh", "finalize"} =>
                    /\ run'[p].answered
                    /\ run[p].pc \in {"upload", "refresh", "finalize"}
    PROVE  AloneInv'
<1>1. \A q \in Procs : q = p
  BY DEF Alone
<1>2. RunTells(run[p]) /\ FileLeads(run[p]) /\ run[p].pc # "save"
  BY DEF AloneInv
<1>3. /\ Name(run[p].req) \in DOMAIN file
      /\ file[Name(run[p].req)].key = run[p].key
  BY <1>2 DEF FileLeads
<1>k. PICK k : k = run[p].key
  OBVIOUS
<1>4. MayBeCreated(k) => MayBeCreated(k)'
  BY DEF MayBeCreated, SubMoves
<1>5. RunsTell'
  <2> SUFFICES ASSUME run'[p].pc \in SendSteps
               PROVE  RunTells(run[p])' /\ FileLeads(run[p])'
    BY <1>1 DEF RunsTell
  <2>1. /\ run'[p].pc # "save" /\ run'[p].key = run[p].key /\ run'[p].req = run[p].req
        /\ run'[p].at = run[p].at
        /\ run'[p].pc # "idle" /\ run'[p].pc # "follow"
    BY DEF SendSteps
  <2>2. FileLeads(run[p])'
    BY <1>3, <2>1 DEF FileLeads, Name
  <2>3. RunTells(run[p])'
    <3>1. run'[p].at = attempt'[run'[p].key].at
      BY <1>2, <2>1 DEF RunTells
    <3>2. run'[p].pc = "create" =>
             run'[p].answered = attempt'[k].answered /\ MayBeCreated(k)'
      BY <1>2, <1>k, <1>4, <2>1 DEF RunTells
    <3>3. run'[p].pc \in {"upload", "refresh", "finalize"} =>
             run'[p].answered /\ attempt'[run'[p].key].answered
      BY <1>2, <2>1 DEF RunTells
    <3> QED BY <1>k, <2>1, <3>1, <3>2, <3>3 DEF RunTells, MayBeCreated
  <2> QED BY <2>2, <2>3
<1>6. OwnersFile'
  BY <1>1, <1>3 DEF OwnersFile, At, Name, Pending, SendSteps
<1>7. Drops
  BY <1>1, <1>3, SameFiles DEF Drops, Worked, Holds, Kept
<1> QED BY <1>5, <1>6, <1>7, SameAttempts, SameFiles, AloneStep

LEMMA LessFiles ==
    ASSUME RunsInv, AloneInv, NEW R, file' = Without(file, R),
           \A j \in Keys : Used(j) => attempt'[j] = attempt[j]
    PROVE  /\ FilesTell'
           /\ DOMAIN file' = DOMAIN file \ R
           /\ \A n \in DOMAIN file' : file'[n] = file[n]
           /\ \A k : Kept(k) => Kept(k)' \/ \E n \in R \cap DOMAIN file : file[n].key = k
<1>1. /\ DOMAIN file' = DOMAIN file \ R
      /\ \A n \in DOMAIN file' : file'[n] = file[n]
  BY DEF Without
<1>2. FilesTell'
  BY <1>1, KeyFacts DEF AloneInv, FilesTell
<1>3. \A k : Kept(k) => Kept(k)' \/ \E n \in R \cap DOMAIN file : file[n].key = k
  BY <1>1 DEF Kept
<1> QED BY <1>1, <1>2, <1>3

(* The file of a run goes with its submission: it is over, or was refused  *)
(* at the limit.                                                           *)
LEMMA ForgetStep ==
    ASSUME Alone, RunsInv, RunsInv', AloneInv, NEW p \in Procs,
           run[p].pc \in SendSteps \ {"save"}, run'[p].pc = "idle",
           SubMoves, UNCHANGED <<late, attempt>>, Forget(run[p]),
           NEW k, k = run[p].key, Over(k)' \/ (k \notin DOMAIN sub' /\ LimitReached')
    PROVE  AloneInv'
<1>1. \A q \in Procs : q = p
  BY DEF Alone
<1>2. /\ Name(run[p].req) \in DOMAIN file
      /\ file[Name(run[p].req)].key = k
  BY DEF AloneInv, FileLeads
<1>3. /\ FilesTell'
      /\ \A j : Kept(j) => Kept(j)' \/ j = k
  <2>1. file' = Without(file, {Name(run[p].req)})
    BY DEF Forget
  <2>2. \A j \in Keys : Used(j) => attempt'[j] = attempt[j]
    OBVIOUS
  <2> DEFINE R == {Name(run[p].req)}
  <2>3. \A n \in R : file[n].key = k
    BY <1>2
  <2> HIDE DEF R
  <2>4. file' = Without(file, R)
    BY <2>1 DEF R
  <2>5. FilesTell' /\ \A j : Kept(j) => Kept(j)' \/ \E n \in R \cap DOMAIN file : file[n].key = j
    BY <2>2, <2>4, LessFiles
  <2> QED BY <2>3, <2>5
<1>4. RunsTell' /\ OwnersFile'
  BY <1>1 DEF RunsTell, OwnersFile, At, SendSteps
<1>5. Drops
  BY <1>1, <1>3 DEF Drops, Worked, Holds, Safe
<1>6. LateMoves
  BY DEF LateMoves, LateCreate
<1> QED BY <1>3, <1>4, <1>5, <1>6, SameAttempts, AloneStep

(* A fresh key starts an attempt, and changes no other in use.             *)
LEMMA FreshKey ==
    ASSUME RunsInv, NEW k \in Fresh, NEW req, MakeKey(k, req)
    PROVE  /\ \A j \in Keys : Used(j) => attempt'[j] = attempt[j]
           /\ attempt'[k] = [req |-> req, at |-> clock, answered |-> FALSE]
           /\ AttemptsMove
           /\ k \in Keys /\ k \notin DOMAIN sub /\ ~LateCreate(k)
<1>1. PartialFunction(attempt, Keys, Attempt)
  BY DEF RunsInv, TypeOK
<1>2. k \in Keys /\ ~Used(k)
  BY DEF Fresh
<1>3. /\ attempt'[k] = [req |-> req, at |-> clock, answered |-> FALSE]
      /\ DOMAIN attempt' = (DOMAIN attempt \ Fresh) \cup {k}
      /\ \A j \in DOMAIN attempt \ Fresh : j # k => attempt'[j] = attempt[j]
  BY DEF MakeKey, Put, Without
<1>4. \A j \in Keys : Used(j) => attempt'[j] = attempt[j]
  BY <1>2, <1>3 DEF RunsInv, UsedKeysKnown, Fresh
<1>5. AttemptsMove
  BY <1>3, <1>4 DEF AttemptsMove
<1>6. k \notin DOMAIN sub /\ ~LateCreate(k)
  BY <1>2, KeyFacts DEF Used
<1> QED BY <1>2, <1>3, <1>4, <1>5, <1>6

(* Another submission is started once this one is over.                    *)
LEMMA StartAgainAlone ==
    ASSUME Alone, RunsInv, RunsInv', AloneInv, NEW p \in Procs,
           run[p].pc \in SendSteps \ {"save"},
           SubMoves, DOMAIN sub' = DOMAIN sub, UNCHANGED late, StartAgain(p),
           NEW k, k = run[p].key, Over(k)'
    PROVE  AloneInv'
<1>1. PICK f \in Fresh : /\ MakeKey(f, run[p].req)
                         /\ Become(p, NewSending(run[p].req, f, TRUE))
  BY DEF StartAgain
<1>2. /\ \A q \in Procs : q = p
      /\ run'[p] = NewSending(run[p].req, f, TRUE)
  BY <1>1, OneRun DEF RunsInv
<1>3. /\ Name(run[p].req) \in DOMAIN file
      /\ file[Name(run[p].req)].key = k
  BY DEF AloneInv, FileLeads
<1>4. /\ \A j \in Keys : Used(j) => attempt'[j] = attempt[j]
      /\ attempt'[f] = [req |-> run[p].req, at |-> clock, answered |-> FALSE]
      /\ AttemptsMove
      /\ f \in Keys /\ f \notin DOMAIN sub /\ ~LateCreate(f)
  BY <1>1, FreshKey
<1>5. /\ FilesTell'
      /\ DOMAIN file' = DOMAIN file \ {Name(run[p].req)}
      /\ \A j : Kept(j) => Kept(j)' \/ j = k
  <2> DEFINE R == {Name(run[p].req)}
  <2>1. file' = Without(file, R)
    BY DEF StartAgain, Forget
  <2>2. \A n \in R : file[n].key = k
    BY <1>3
  <2>3. DOMAIN file' = DOMAIN file \ R
    BY <2>1 DEF Without
  <2> HIDE DEF R
  <2>4. FilesTell' /\ \A j : Kept(j) => Kept(j)' \/ j = k
    BY <1>4, <2>1, <2>2, LessFiles
  <2> QED BY <2>3, <2>4 DEF R
<1>6. /\ run'[p].pc = "save" /\ run'[p].key = f /\ run'[p].req = run[p].req
      /\ run'[p].at = clock /\ run'[p].answered = FALSE
  BY <1>2 DEF NewSending
<1>7. RunsTell'
  <2>0. clock' = clock /\ clock \in Nat
    BY KeyFacts DEF SubMoves
  <2>1. attempt'[f].at = clock /\ attempt'[f].answered = FALSE
    BY <1>4
  <2>2. clock' - attempt'[f].at <= PendingLifetime
    BY <2>0, <2>1, TimesType
  <2>3. RunTells(run[p])'
    BY <1>6, <2>0, <2>1, <2>2 DEF RunTells, MayBeCreated
  <2>4. FileLeads(run[p])'
    BY <1>4, <1>5, <1>6 DEF FileLeads, LateCreate, Name
  <2> QED BY <1>2, <2>3, <2>4 DEF RunsTell
<1>8. OwnersFile'
  BY <1>2, <1>6 DEF OwnersFile, At
<1>9. Drops
  BY <1>2, <1>5 DEF Drops, Worked, Holds, Safe
<1>10. LateMoves
  BY DEF LateMoves, LateCreate
<1> QED BY <1>4, <1>5, <1>7, <1>8, <1>9, <1>10, AloneStep

(* A run saves the state its key is at, over nothing the API still waits   *)
(* for.                                                                    *)
LEMMA SaveAlone ==
    ASSUME Alone, RunsInv, RunsInv', AloneInv, NEW p \in Procs, Save(p)
    PROVE  AloneInv'
<1> DEFINE n == Name(run[p].req)
<1>0. run[p].pc = "save" /\ run[p].pc \in SendSteps
  BY DEF Save, At, SendSteps
<1>h. run[p] \in Sending /\ run[p].key \in DOMAIN attempt
  BY <1>0, Held
<1>k. PICK k : k = run[p].key
  OBVIOUS
<1>1. /\ \A q \in Procs : q = p
      /\ run'[p] = [run[p] EXCEPT !.pc = "create", !.tries = 0, !.refreshed = FALSE]
  BY OneRun DEF Save, Enter, RunsInv
<1>2. /\ run'[p].pc = "create" /\ run'[p].key = k /\ run'[p].req = run[p].req
      /\ run'[p].at = run[p].at /\ run'[p].answered = run[p].answered
  BY <1>h, <1>k, <1>1 DEF Sending
<1>3. RunTells(run[p]) /\ FileLeads(run[p])
  BY <1>0 DEF AloneInv
<1>4. /\ DOMAIN file' = DOMAIN file \cup {n}
      /\ file'[n] = [key |-> k, at |-> run[p].at, answered |-> run[p].answered]
      /\ \A m \in DOMAIN file : m # n => file'[m] = file[m]
  BY <1>k DEF Save, SaveState, Put
<1>5. UNCHANGED <<clock, sub, versions, late, attempt>>
  BY DEF Save
<1>6. FilesTell'
  BY <1>0, <1>k, <1>3, <1>4, <1>5 DEF AloneInv, FilesTell, RunTells
<1>7. RunsTell'
  <2>1. RunTells(run[p])'
    BY <1>0, <1>k, <1>2, <1>3, <1>5 DEF RunTells, MayBeCreated
  <2>2. FileLeads(run[p])'
    BY <1>2, <1>4 DEF FileLeads, Name
  <2> QED BY <1>1, <2>1, <2>2 DEF RunsTell
<1>8. OwnersFile'
  BY <1>1, <1>2 DEF OwnersFile, At
<1>9. Drops
  <2> SUFFICES ASSUME NEW j \in Keys, Worked(j) \/ Kept(j)
               PROVE  Worked(j)' \/ Safe(j)'
    BY DEF Drops
  <2>1. Kept(k)'
    BY <1>4 DEF Kept
  <2>2. CASE Worked(j)
    BY <1>1, <1>k, <2>1, <2>2 DEF Worked, Holds, Safe
  <2>3. CASE Kept(j)
    <3>1. PICK m \in DOMAIN file : file[m].key = j
      BY <2>3 DEF Kept
    <3>2. CASE m # n
      BY <1>4, <3>1, <3>2 DEF Kept, Safe
    <3>3. CASE m = n
      <4>1. j = k \/ Over(j) \/ GivenUp(j)
        BY <1>0, <1>k, <1>3, <3>1, <3>3 DEF FileLeads
      <4> QED BY <1>5, <2>1, <4>1 DEF Safe, Over, GivenUp, Live, Pending
    <3> QED BY <3>2, <3>3
  <2> QED BY <2>2, <2>3
<1>10. LateMoves
  BY <1>5 DEF LateMoves, LateCreate
<1> QED BY <1>5, <1>6, <1>7, <1>8, <1>9, <1>10, SubStill, SameAttempts, AloneStep

(* What is kept of an answer is the answer of the run.                     *)
LEMMA KeepAlone ==
    ASSUME Alone, RunsInv, RunsInv', AloneInv, NEW p \in Procs, Keep(p)
    PROVE  AloneInv'
<1> DEFINE n == Name(run[p].req)
<1>0. run[p].pc = "keep" /\ run[p].pc \in SendSteps
  BY DEF Keep, At, SendSteps
<1>h. run[p] \in Sending /\ run[p].key \in DOMAIN attempt /\ attempt[run[p].key].req = run[p].req
  BY <1>0, Held
<1>k. PICK k : k = run[p].key
  OBVIOUS
<1>1. /\ \A q \in Procs : q = p
      /\ run'[p] = [run[p] EXCEPT !.pc = "upload", !.tries = 0, !.refreshed = FALSE]
  BY OneRun DEF Keep, Enter, RunsInv
<1>2. /\ run'[p].pc = "upload" /\ run'[p].key = k /\ run'[p].req = run[p].req
      /\ run'[p].at = run[p].at /\ run'[p].answered = run[p].answered
  BY <1>h, <1>k, <1>1 DEF Sending
<1>3. /\ run[p].at = attempt[k].at /\ run[p].answered /\ k \in DOMAIN sub
      /\ n \in DOMAIN file /\ file[n].key = k
  BY <1>0, <1>k DEF AloneInv, RunTells, FileLeads
<1>4. /\ DOMAIN file' = DOMAIN file
      /\ file'[n] = [key |-> k, at |-> run[p].at, answered |-> run[p].answered]
      /\ \A m \in DOMAIN file : m # n => file'[m] = file[m]
  BY <1>k, <1>3 DEF Keep, SaveState, Put
<1>5. UNCHANGED <<clock, sub, versions, late>>
  BY DEF Keep
<1>6. /\ DOMAIN attempt' = DOMAIN attempt
      /\ attempt'[k].at = attempt[k].at
      /\ attempt'[k].answered = TRUE
      /\ \A j \in DOMAIN attempt : j # k => attempt'[j] = attempt[j]
  <2>1. attempt[k] \in Attempt /\ PartialFunction(attempt, Keys, Attempt)
    BY <1>h, <1>k DEF RunsInv, TypeOK, PartialFunction
  <2>2. attempt' = [attempt EXCEPT ![k].answered = TRUE]
    BY <1>k DEF Keep
  <2> QED BY <1>h, <1>k, <2>1, <2>2 DEF PartialFunction, Attempt
<1>7. Kept(k)' /\ \A j : Kept(j) => Kept(j)'
  BY <1>3, <1>4 DEF Kept
<1>8. AttemptsMove
  <2>1. \A j \in Keys : Used(j) => j \in DOMAIN attempt
    BY DEF RunsInv, UsedKeysKnown
  <2>2. \A j \in Keys : Used(j) =>
          /\ attempt'[j].at = attempt[j].at
          /\ attempt'[j].answered = attempt[j].answered \/ Kept(j)'
    BY <1>6, <1>7, <2>1
  <2>3. \A j \in DOMAIN attempt' : attempt'[j].answered =>
          (j \in DOMAIN attempt /\ attempt[j].answered) \/ j \in DOMAIN sub'
    BY <1>3, <1>5, <1>6
  <2> QED BY <2>2, <2>3 DEF AttemptsMove
<1>9. FilesTell'
  <2> SUFFICES ASSUME NEW m \in DOMAIN file'
               PROVE  /\ file'[m].at = attempt'[file'[m].key].at
                      /\ file'[m].answered = attempt'[file'[m].key].answered
    BY DEF FilesTell
  <2>1. CASE m = n
    <3>1. run[p].answered = TRUE
      BY <1>h, <1>3 DEF Sending
    <3>2. /\ file'[m].key = k /\ file'[m].at = run[p].at
          /\ file'[m].answered = run[p].answered
      BY <1>4, <2>1
    <3>3. run[p].at = attempt'[k].at /\ attempt'[k].answered = TRUE
      BY <1>3, <1>6
    <3> QED BY <3>1, <3>2, <3>3
  <2>2. CASE m # n
    <3>1. file'[m] = file[m] /\ m \in DOMAIN file
      BY <1>4, <2>2
    <3>2. file[m].key \in DOMAIN attempt /\ Name(attempt[file[m].key].req) = m
      BY <3>1, KeyFacts
    <3>3. file[m].key # k
      BY <1>h, <1>k, <2>2, <3>2
    <3> QED BY <1>6, <3>1, <3>2, <3>3 DEF AloneInv, FilesTell
  <2> QED BY <2>1, <2>2
<1>10. RunsTell'
  <2>1. RunTells(run[p])'
    BY <1>2, <1>3, <1>6 DEF RunTells
  <2>2. FileLeads(run[p])'
    BY <1>2, <1>3, <1>4 DEF FileLeads, Name
  <2> QED BY <1>1, <2>1, <2>2 DEF RunsTell
<1>11. OwnersFile'
  BY <1>1, <1>2 DEF OwnersFile, At
<1>12. Drops
  <2>1. \A j : Worked(j) => j = k
    BY <1>1, <1>k DEF Worked, Holds
  <2> QED BY <1>7, <2>1 DEF Drops, Safe
<1>13. LateMoves
  BY <1>5 DEF LateMoves, LateCreate
<1> QED BY <1>5, <1>8, <1>9, <1>10, <1>11, <1>12, <1>13, SubStill, AloneStep

-----------------------------------------------------------------------------
(* The steps before and after the loop of `send`.                          *)

(* A file is stale long after its submission expired.                      *)
LEMMA StaleGone ==
    ASSUME RunsInv, AloneInv, NEW n \in Stale
    PROVE  Over(file[n].key) \/ GivenUp(file[n].key)
<1> DEFINE k == file[n].key
<1>1. n \in DOMAIN file /\ clock - file[n].at > StaleAfter
  BY DEF Stale, Age
<1>2. /\ file[n].at = attempt[k].at /\ file[n].answered = attempt[k].answered
      /\ clock \in Nat /\ k \in DOMAIN attempt
      /\ attempt[k].at \in Nat /\ attempt[k].answered \in BOOLEAN
  BY <1>1, KeyFacts DEF AloneInv, FilesTell
<1>3. CASE ~attempt[k].answered
  BY <1>1, <1>2, <1>3, TimesType, LimitsType DEF GivenUp
<1>4. CASE attempt[k].answered
  <2>1. k \in DOMAIN sub /\ sub[k].at <= attempt[k].at + PendingLifetime /\ sub[k].at \in Nat
    BY <1>2, <1>4, KeyFacts DEF AloneInv, AttemptsOnApi
  <2>2. ~(clock - sub[k].at < Expiry)
    BY <1>1, <1>2, <2>1, TimesType, LimitsType
  <2> QED BY <2>1, <2>2 DEF Over, Live
<1> QED BY <1>2, <1>3, <1>4

LEMMA OpenAlone ==
    ASSUME Alone, RunsInv, RunsInv', AloneInv, NEW p \in Procs, Open(p)
    PROVE  AloneInv'
<1> DEFINE req == run[p].req
           n == Name(req)
<1>1. /\ \A q \in Procs : q = p
      /\ run[p].pc = "open"
      /\ UNCHANGED <<clock, sub, versions, late>>
      /\ file' = Without(file, Stale)
  BY DEF Alone, Open, At
<1>2. \A k : ~Worked(k)
  BY <1>1 DEF Worked, Holds, SendSteps
<1>3. LateMoves
  BY <1>1 DEF LateMoves, LateCreate
<1>4. ASSUME \A j \in Keys : Used(j) => attempt'[j] = attempt[j],
             AttemptsMove, RunTells(run[p])', FileLeads(run[p])', run'[p].pc = "save"
      PROVE  AloneInv'
  <2>1. FilesTell'
    BY <1>1, <1>4, LessFiles
  <2>2. \A k : Kept(k) => Kept(k)' \/ \E m \in Stale \cap DOMAIN file : file[m].key = k
    BY <1>1, <1>4, LessFiles
  <2>3. Drops
    <3> SUFFICES ASSUME NEW k \in Keys, Kept(k)
                 PROVE  Safe(k)'
      BY <1>2 DEF Drops
    <3>1. CASE Kept(k)'
      BY <3>1 DEF Safe
    <3>2. CASE Over(k) \/ GivenUp(k)
      <4>1. attempt'[k] = attempt[k]
        BY <1>4 DEF Used
      <4> QED BY <1>1, <3>2, <4>1 DEF Safe, Over, GivenUp, Live, Pending
    <3> QED BY <2>2, <3>1, <3>2, StaleGone
  <2>4. RunsTell'
    BY <1>1, <1>4 DEF RunsTell
  <2>5. OwnersFile'
    BY <1>1, <1>4 DEF OwnersFile, At
  <2> QED BY <1>1, <1>3, <1>4, <2>1, <2>3, <2>4, <2>5, SubStill, AloneStep
<1>5. DOMAIN file' = DOMAIN file \ Stale /\ \A m \in DOMAIN file' : file'[m] = file[m]
  BY <1>1 DEF Without
<1>6. CASE Resumable(n)
  <2>1. /\ Become(p, [NewSending(req, file[n].key, FALSE) EXCEPT
                        !.at = file[n].at, !.answered = file[n].answered, !.resumed = TRUE])
        /\ UNCHANGED attempt
    BY <1>6 DEF Open
  <2>2. /\ run'[p].pc = "save" /\ run'[p].key = file[n].key /\ run'[p].req = req
        /\ run'[p].at = file[n].at /\ run'[p].answered = file[n].answered
    <3> DEFINE r == [NewSending(req, file[n].key, FALSE) EXCEPT
                       !.at = file[n].at, !.answered = file[n].answered, !.resumed = TRUE]
    <3>1. /\ r.pc = "save" /\ r.key = file[n].key /\ r.req = req
          /\ r.at = file[n].at /\ r.answered = file[n].answered
      BY DEF NewSending
    <3>2. Become(p, r)
      BY <2>1
    <3> HIDE DEF r
    <3>3. run'[p] = r
      BY <3>2, OneRun DEF RunsInv
    <3> QED BY <3>1, <3>3
  <2>3. n \in DOMAIN file /\ n \notin Stale /\ (file[n].answered \/ Age(file[n]) < PendingLifetime)
    BY <1>6 DEF Resumable
  <2>k. PICK k : k = file[n].key
    OBVIOUS
  <2>4. /\ file[n].at = attempt[k].at /\ file[n].answered = attempt[k].answered
        /\ k \in DOMAIN attempt /\ clock \in Nat /\ attempt[k].at \in Nat
    BY <2>3, <2>k, KeyFacts DEF AloneInv, FilesTell
  <2>5. MayBeCreated(k)
    <3>1. CASE file[n].answered
      BY <2>4, <3>1 DEF AloneInv, AttemptsOnApi, MayBeCreated
    <3>2. CASE Age(file[n]) < PendingLifetime
      BY <2>4, <3>2, TimesType DEF Age, MayBeCreated
    <3> QED BY <2>3, <3>1, <3>2
  <2>6. RunTells(run[p])'
    BY <1>1, <2>1, <2>2, <2>k, <2>4, <2>5 DEF RunTells, MayBeCreated
  <2>7. FileLeads(run[p])'
    BY <1>5, <2>2, <2>3 DEF FileLeads, Name
  <2> QED BY <1>4, <2>1, <2>2, <2>6, <2>7, SameAttempts
<1>7. CASE ~Resumable(n)
  <2>1. PICK f \in Fresh : MakeKey(f, req) /\ Become(p, NewSending(req, f, FALSE))
    BY <1>7 DEF Open
  <2>2. /\ \A j \in Keys : Used(j) => attempt'[j] = attempt[j]
        /\ attempt'[f] = [req |-> req, at |-> clock, answered |-> FALSE]
        /\ AttemptsMove
        /\ f \in Keys /\ f \notin DOMAIN sub /\ ~LateCreate(f)
    BY <2>1, FreshKey
  <2>3. /\ run'[p].pc = "save" /\ run'[p].key = f /\ run'[p].req = req
        /\ run'[p].at = clock /\ run'[p].answered = FALSE
    BY <2>1, OneRun DEF RunsInv, NewSending
  <2>4. clock \in Nat /\ attempt'[f].at = clock /\ attempt'[f].answered = FALSE
    BY <2>2, KeyFacts
  <2>5. clock' - attempt'[f].at <= PendingLifetime
    BY <1>1, <2>4, TimesType
  <2>6. RunTells(run[p])'
    BY <1>1, <2>3, <2>4, <2>5 DEF RunTells, MayBeCreated
  <2>7. FileLeads(run[p])'
    <3>1. ASSUME n \in DOMAIN file'
          PROVE  GivenUp(file[n].key)'
      <4>k. PICK k : k = file[n].key
        OBVIOUS
      <4>1. n \in DOMAIN file /\ n \notin Stale /\ file'[n] = file[n]
        BY <1>5, <3>1
      <4>2. /\ file[n].at = attempt[k].at /\ file[n].answered = attempt[k].answered
            /\ attempt'[k] = attempt[k] /\ clock \in Nat /\ attempt[k].at \in Nat
        BY <2>2, <4>k, <4>1, KeyFacts DEF AloneInv, FilesTell
      <4>3. ~file[n].answered /\ ~(Age(file[n]) < PendingLifetime)
        BY <1>7, <4>1 DEF Resumable
      <4>4. ~attempt'[k].answered /\ clock' - attempt'[k].at >= PendingLifetime
        BY <1>1, <4>2, <4>3, TimesType DEF Age
      <4>5. file'[n].key = k
        BY <4>1, <4>k
      <4> QED BY <2>3, <4>4, <4>5 DEF GivenUp, Name
    <3>2. f \notin DOMAIN sub' /\ ~LateCreate(f)'
      BY <1>1, <2>2 DEF LateCreate
    <3> QED BY <1>5, <2>3, <3>1, <3>2 DEF FileLeads, Name
  <2> QED BY <1>4, <2>2, <2>3, <2>6, <2>7
<1> QED BY <1>6, <1>7

LEMMA LookUpAlone ==
    ASSUME Alone, RunsInv, RunsInv', AloneInv, NEW p \in Procs,
           \/ \E r \in Requests : Start(p, r)
           \/ Look(p) \/ LookFails(p) \/ FollowStops(p)
    PROVE  AloneInv'
<1>1. UNCHANGED <<clock, sub, versions, file, late, attempt>>
  BY DEF Start, Look, LookFails, FollowStops
<1>2. run[p].pc \notin SendSteps
  BY DEF Start, Look, LookFails, FollowStops, At, SendSteps
<1>3. \/ run'[p].pc \in {"idle", "listing", "open"}
      \/ run'[p].pc = "follow" /\ run'[p].owner = FALSE
  <2>1. ASSUME NEW r, Become(p, r), \/ r.pc \in {"idle", "listing", "open"}
                                    \/ r.pc = "follow" /\ r.owner = FALSE
        PROVE  \/ run'[p].pc \in {"idle", "listing", "open"}
               \/ run'[p].pc = "follow" /\ run'[p].owner = FALSE
    BY <2>1, OneRun DEF RunsInv
  <2>2. CASE \E r \in Requests : Start(p, r)
    BY <2>1, <2>2 DEF Start
  <2>3. CASE LookFails(p) \/ FollowStops(p)
    BY <2>1, <2>3 DEF LookFails, FollowStops, End
  <2>4. CASE Look(p)
    <3>1. \/ \E out \in Outcomes : End(p, out)
          \/ Follow(p, Len(versions), FALSE)
          \/ Become(p, [pc |-> "open", req |-> run[p].req])
      BY <2>4 DEF Look, ConcludeKnown, Outcomes
    <3> QED BY <2>1, <3>1 DEF End, Follow
  <2> QED BY <2>2, <2>3, <2>4
<1>4. run'[p].pc \notin SendSteps /\ (At(p, "follow")' => ~run'[p].owner)
  BY <1>3 DEF SendSteps, At
<1> QED BY <1>1, <1>2, <1>4, QuietStep

(* The owner of the file forgets it once its version is decided.           *)
LEMMA FollowDoneAlone ==
    ASSUME Alone, RunsInv, RunsInv', AloneInv, NEW p \in Procs, FollowDone(p)
    PROVE  AloneInv'
<1> DEFINE R == {Name(run[p].req)}
<1>1. /\ run[p].pc = "follow" /\ run[p].pc \notin SendSteps
      /\ UNCHANGED <<clock, sub, versions, late, attempt>>
  BY DEF FollowDone, At, SendSteps
<1>2. (\A q \in Procs : q = p) /\ run'[p].pc = "idle"
  BY OneRun DEF FollowDone, End, RunsInv
<1>3. CASE ~run[p].owner
  <2>1. UNCHANGED file /\ ~At(p, "follow")' /\ run'[p].pc \notin SendSteps
    BY <1>2, <1>3 DEF FollowDone, Release, At, SendSteps
  <2> QED BY <1>1, <2>1, QuietStep
<1>4. CASE run[p].owner
  <2>1. file' = Without(file, R)
    BY <1>4 DEF FollowDone, Release, Forget
  <2>2. \A m \in R \cap DOMAIN file : Over(file[m].key)
    BY <1>1, <1>4 DEF AloneInv, OwnersFile, At, Over, Live
  <2>a. \A j \in Keys : Used(j) => attempt'[j] = attempt[j]
    BY <1>1
  <2> HIDE DEF R
  <2>3. FilesTell' /\ \A k : Kept(k) => Kept(k)' \/ \E m \in R \cap DOMAIN file : file[m].key = k
    BY <2>1, <2>a, LessFiles
  <2>4. SubMoves
    BY <1>1, SubStill
  <2>5. Drops
    <3>1. \A k : ~Worked(k)
      BY <1>1, <1>2 DEF Worked, Holds
    <3> QED BY <2>2, <2>3, <2>4, <3>1, Moves DEF Drops, Safe
  <2>6. RunsTell' /\ OwnersFile'
    BY <1>2 DEF RunsTell, OwnersFile, At, SendSteps
  <2>7. LateMoves
    BY <1>1 DEF LateMoves, LateCreate
  <2> QED BY <1>1, <2>3, <2>4, <2>5, <2>6, <2>7, SameAttempts, AloneStep
<1> QED BY <1>3, <1>4

-----------------------------------------------------------------------------
(* The requests of the run, answered or cut.                               *)

LEMMA CreateAlone ==
    ASSUME Alone, RunsInv, RunsInv', AloneInv, NEW p \in Procs, Create(p)
    PROVE  AloneInv'
<1>0. /\ run[p].pc = "create" /\ run[p].pc \in SendSteps \ {"save"}
      /\ UNCHANGED <<clock, versions, late>>
  BY DEF Create, At, SendSteps
<1>h. /\ run[p] \in Sending /\ run[p].key \in Keys /\ Used(run[p].key)
      /\ attempt[run[p].key].req = run[p].req
  BY <1>0, Held
<1>k. PICK k : k = run[p].key
  OBVIOUS
<1>1. PICK reply \in CreateReplies : /\ ApiCreate(k, run[p].req, reply)
                                     /\ AfterCreate(p, reply)
  BY <1>k DEF Create
<1>2. At(p, "create") /\ Holds(p, k) /\ MayBeCreated(k)
  BY <1>0, <1>k DEF AloneInv, RunTells, At, Holds
<1>3. SubMoves
  BY <1>0, <1>1, <1>2, <1>h, <1>k, CreateMoves
<1>4. reply # "reused"
  BY <1>0, <1>1, <1>h, <1>k, ApiCreateGood
<1>5. /\ reply = "limit" => k \notin DOMAIN sub' /\ LimitReached'
      /\ reply \in {"upload", "finalized"} => k \in DOMAIN sub'
      /\ reply \in {"expired", "refused", "overdue"} => Over(k)' /\ DOMAIN sub' = DOMAIN sub
  <2>1. CASE k \in DOMAIN sub
    <3>1. UNCHANGED sub /\ sub[k] \in Submission
      BY <1>1, <2>1, KeyFacts DEF ApiCreate
    <3>2. reply \in {"upload", "finalized", "expired", "refused", "overdue"}
      BY <1>1, <1>4, <2>1, <3>1 DEF ApiCreate, Submission, Pending
    <3>3. reply \in {"expired", "refused", "overdue"} => ~Live(k)
      BY <1>1, <2>1 DEF ApiCreate, Live, Pending
    <3> QED BY <1>0, <2>1, <3>1, <3>2, <3>3 DEF Over, Live, Pending
  <2>2. CASE k \notin DOMAIN sub /\ LimitReached
    <3>1. reply = "limit" /\ UNCHANGED sub
      BY <1>1, <2>2 DEF ApiCreate
    <3> QED BY <1>0, <2>2, <3>1 DEF LimitReached, Counted
  <2>3. CASE k \notin DOMAIN sub /\ ~LimitReached
    BY <1>1, <2>3 DEF ApiCreate, Put
  <2> QED BY <2>1, <2>2, <2>3
<1>6. LateMoves
  BY <1>0 DEF LateMoves, LateCreate
<1>e. ASSUME NEW out, End(p, out)
      PROVE  run'[p].pc = "idle"
  BY <1>e, OneRun DEF End, RunsInv
<1>7. ASSUME NEW out, Forget(run[p]), End(p, out), UNCHANGED attempt,
             reply \in {"limit", "expired", "refused", "overdue"}
      PROVE  AloneInv'
  BY <1>0, <1>k, <1>3, <1>5, <1>7, <1>e, ForgetStep
<1>8. CASE /\ UNCHANGED <<file, attempt>>
           /\ End(p, "error")
  BY <1>0, <1>3, <1>6, <1>8, <1>e, OnwardStep
<1>9. CASE reply \in {"expired", "refused", "overdue"} /\ StartAgain(p)
  BY <1>0, <1>k, <1>3, <1>5, <1>9, StartAgainAlone
<1>10. CASE /\ reply = "finalized" /\ UNCHANGED <<file, attempt>>
            /\ Become(p, [run[p] EXCEPT !.pc = "recall", !.tries = 0, !.answered = TRUE])
  <2>1. run'[p] = [run[p] EXCEPT !.pc = "recall", !.tries = 0, !.answered = TRUE]
    BY <1>10, OneRun DEF RunsInv
  <2>2. /\ run'[p].pc = "recall" /\ run'[p].key = k /\ run'[p].req = run[p].req
        /\ run'[p].at = run[p].at /\ run'[p].answered
    BY <1>h, <1>k, <2>1 DEF Sending
  <2>3. run'[p].pc \in SendSteps \ {"save"}
    BY <2>2 DEF SendSteps
  <2> QED BY <1>0, <1>k, <1>3, <1>5, <1>6, <1>10, <2>2, <2>3, OnwardStep
<1>11. CASE /\ reply = "upload" /\ UNCHANGED <<file, attempt>>
            /\ Become(p, [run[p] EXCEPT !.pc = "keep", !.tries = 0, !.answered = TRUE])
  <2>1. run'[p] = [run[p] EXCEPT !.pc = "keep", !.tries = 0, !.answered = TRUE]
    BY <1>11, OneRun DEF RunsInv
  <2>2. /\ run'[p].pc = "keep" /\ run'[p].key = k /\ run'[p].req = run[p].req
        /\ run'[p].at = run[p].at /\ run'[p].answered
    BY <1>h, <1>k, <2>1 DEF Sending
  <2>3. run'[p].pc \in SendSteps \ {"save"}
    BY <2>2 DEF SendSteps
  <2> QED BY <1>0, <1>k, <1>3, <1>5, <1>6, <1>11, <2>2, <2>3, OnwardStep
<1> QED BY <1>1, <1>4, <1>7, <1>8, <1>9, <1>10, <1>11 DEF AfterCreate

LEMMA CutAlone ==
    ASSUME Alone, RunsInv, RunsInv', AloneInv, NEW p \in Procs,
           CreateCut(p) \/ UploadCut(p) \/ FinalizeCut(p)
    PROVE  AloneInv'
<1>1. PICK kind \in {"create", "upload", "finalize"} : run[p].pc = kind /\ Cut(p, kind)
  BY DEF CreateCut, UploadCut, FinalizeCut, At
<1>2. run[p] \in Sending /\ run[p].pc \in SendSteps \ {"save"}
  BY <1>1, Held DEF SendSteps
<1>3. SubMoves /\ UNCHANGED <<file, attempt>>
  BY <1>1, SubStill DEF Cut
<1>4. LateMoves
  <2> SUFFICES ASSUME NEW j \in Keys, LateCreate(j)', ~LateCreate(j)
               PROVE  At(p, "create") /\ Holds(p, j)
    BY DEF LateMoves
  <2>1. late' = late \cup {[kind |-> kind, key |-> run[p].key]}
    BY <1>1 DEF Cut, LateCreate
  <2>2. [kind |-> "create", key |-> j] = [kind |-> kind, key |-> run[p].key]
    BY <2>1 DEF LateCreate
  <2>3. kind = "create" /\ run[p].key = j
    BY <2>2
  <2> QED BY <1>1, <1>2, <2>3 DEF At, Holds
<1>5. RunTells(run[p])
  BY <1>2 DEF AloneInv
<1>6. CASE End(p, "error")
  <2>1. run'[p].pc = "idle"
    BY <1>6, OneRun DEF End, RunsInv
  <2> QED BY <1>2, <1>3, <1>4, <2>1, OnwardStep
<1>7. CASE Become(p, [run[p] EXCEPT !.tries = @ + 1])
  <2>1. run'[p] = [run[p] EXCEPT !.tries = @ + 1]
    BY <1>7, OneRun DEF RunsInv
  <2>2. /\ run'[p].pc = run[p].pc /\ run'[p].key = run[p].key /\ run'[p].req = run[p].req
        /\ run'[p].at = run[p].at /\ run'[p].answered = run[p].answered
    BY <1>2, <2>1 DEF Sending
  <2>3. run[p].pc \in {"upload", "finalize"} => run[p].answered
    BY <1>5 DEF RunTells
  <2> QED BY <1>1, <1>2, <1>3, <1>4, <2>2, <2>3, OnwardStep
<1> QED BY <1>1, <1>6, <1>7 DEF Cut

LEMMA UploadAlone ==
    ASSUME Alone, RunsInv, RunsInv', AloneInv, NEW p \in Procs,
           Upload(p) \/ UploadRefused(p) \/ Refresh(p)
    PROVE  AloneInv'
<1>1. /\ run[p].pc \in {"upload", "refresh"} /\ run[p].pc \in SendSteps \ {"save"}
      /\ UNCHANGED <<clock, versions, file, late, attempt>>
  BY DEF Upload, UploadRefused, Refresh, At, SendSteps
<1>2. run[p] \in Sending /\ run[p].answered
  BY <1>1, Held DEF AloneInv, RunTells
<1>3. SubMoves
  BY <1>1, UploadMoves, SubStill DEF Upload, UploadRefused, Refresh
<1>4. LateMoves
  BY <1>1 DEF LateMoves, LateCreate
<1>5. CASE End(p, "error")
  <2>1. run'[p].pc = "idle"
    BY <1>5, OneRun DEF End, RunsInv
  <2> QED BY <1>1, <1>3, <1>4, <2>1, OnwardStep
<1>6. ASSUME NEW r, Become(p, r), r.pc \in {"upload", "refresh", "finalize"},
             r.key = run[p].key, r.req = run[p].req, r.at = run[p].at,
             r.answered = run[p].answered
      PROVE  AloneInv'
  <2>1. run'[p] = r
    BY <1>6, OneRun DEF RunsInv
  <2>2. r.pc \in SendSteps \ {"save"}
    BY <1>6 DEF SendSteps
  <2> QED BY <1>1, <1>2, <1>3, <1>4, <1>6, <2>1, <2>2, OnwardStep
<1>7. CASE Become(p, [run[p] EXCEPT !.pc = "finalize", !.tries = 0, !.refreshed = FALSE])
  <2> DEFINE r == [run[p] EXCEPT !.pc = "finalize", !.tries = 0, !.refreshed = FALSE]
  <2>1. /\ r.pc = "finalize" /\ r.key = run[p].key /\ r.req = run[p].req
        /\ r.at = run[p].at /\ r.answered = run[p].answered
    BY <1>2 DEF Sending
  <2>2. Become(p, r)
    BY <1>7
  <2> HIDE DEF r
  <2> QED BY <1>6, <2>1, <2>2
<1>8. CASE Become(p, [run[p] EXCEPT !.pc = "refresh", !.refreshed = TRUE])
  <2> DEFINE r == [run[p] EXCEPT !.pc = "refresh", !.refreshed = TRUE]
  <2>1. /\ r.pc = "refresh" /\ r.key = run[p].key /\ r.req = run[p].req
        /\ r.at = run[p].at /\ r.answered = run[p].answered
    BY <1>2 DEF Sending
  <2>2. Become(p, r)
    BY <1>8
  <2> HIDE DEF r
  <2> QED BY <1>6, <2>1, <2>2
<1>9. CASE Become(p, [run[p] EXCEPT !.pc = "upload"])
  <2> DEFINE r == [run[p] EXCEPT !.pc = "upload"]
  <2>1. /\ r.pc = "upload" /\ r.key = run[p].key /\ r.req = run[p].req
        /\ r.at = run[p].at /\ r.answered = run[p].answered
    BY <1>2 DEF Sending
  <2>2. Become(p, r)
    BY <1>9
  <2> HIDE DEF r
  <2> QED BY <1>6, <2>1, <2>2
<1> QED BY <1>5, <1>7, <1>8, <1>9 DEF Upload, UploadRefused, Refresh, Enter

(* A run that reaches its version owns its file from then on.              *)
LEMMA FinalizedAlone ==
    ASSUME Alone, RunsInv, RunsInv', AloneInv, NEW p \in Procs,
           run[p].pc = "finalize", SubMoves, UNCHANGED <<late, attempt>>,
           SaveState(run[p]), run'[p].pc = "follow", run'[p].req = run[p].req,
           NEW k, k = run[p].key, k \in DOMAIN sub', sub'[k].state = "finalized"
    PROVE  AloneInv'
<1>0. run[p].pc \in SendSteps /\ \A q \in Procs : q = p
  BY DEF Alone, SendSteps
<1>n. PICK n : n = Name(run[p].req)
  OBVIOUS
<1>1. /\ run[p].at = attempt[k].at /\ run[p].answered /\ attempt[k].answered
      /\ n \in DOMAIN file /\ file[n].key = k
  BY <1>0, <1>n DEF AloneInv, RunTells, FileLeads
<1>2. /\ run[p].answered = TRUE
      /\ k \in DOMAIN attempt /\ attempt[k].answered = TRUE
  <2>1. run[p] \in Sending /\ k \in DOMAIN attempt
    BY <1>0, Held
  <2> QED BY <1>1, <2>1, KeyFacts DEF Sending
<1>3. /\ DOMAIN file' = DOMAIN file
      /\ file'[n] = [key |-> k, at |-> run[p].at, answered |-> run[p].answered]
      /\ \A m \in DOMAIN file : m # n => file'[m] = file[m]
  BY <1>n, <1>1 DEF SaveState, Put
<1>4. \A j : Kept(j) => Kept(j)'
  BY <1>1, <1>3 DEF Kept
<1>5. FilesTell'
  <2>1. /\ file'[n].key = k /\ file'[n].at = attempt[k].at
        /\ file'[n].answered = attempt[k].answered
    BY <1>1, <1>2, <1>3
  <2>2. \A m \in DOMAIN file : m # n =>
          /\ file'[m].at = attempt[file'[m].key].at
          /\ file'[m].answered = attempt[file'[m].key].answered
    BY <1>3 DEF AloneInv, FilesTell
  <2> QED BY <1>3, <2>1, <2>2 DEF FilesTell
<1>6. RunsTell'
  BY <1>0 DEF RunsTell, SendSteps
<1>7. OwnersFile'
  BY <1>0, <1>n, <1>3 DEF OwnersFile, Pending, Name
<1>8. Drops
  <2>1. \A j : Worked(j) => Kept(j)
    BY <1>0, <1>1 DEF Worked, Holds, Kept
  <2> QED BY <1>4, <2>1 DEF Drops, Safe
<1>9. LateMoves
  BY DEF LateMoves, LateCreate
<1> QED BY <1>5, <1>6, <1>7, <1>8, <1>9, SameAttempts, AloneStep

LEMMA FinalizeAlone ==
    ASSUME Alone, RunsInv, RunsInv', AloneInv, NEW p \in Procs, Finalize(p)
    PROVE  AloneInv'
<1>0. /\ run[p].pc = "finalize" /\ run[p].pc \in SendSteps \ {"save"}
      /\ UNCHANGED <<clock, late>>
  BY DEF Finalize, At, SendSteps
<1>h. run[p] \in Sending
  BY <1>0, Held
<1>k. PICK k : k = run[p].key
  OBVIOUS
<1>1. PICK reply \in FinalizeReplies : /\ ApiFinalize(k, reply)
                                       /\ AfterFinalize(p, reply)
  BY <1>k DEF Finalize
<1>2. SubMoves
  BY <1>0, <1>1, FinalizeMoves
<1>3. /\ DOMAIN sub' = DOMAIN sub /\ k \in DOMAIN sub
      /\ reply = "finalized" => sub'[k].state = "finalized"
      /\ reply \in {"submission_expired", "upload_mismatch", "refused"} => Over(k)'
  <2>1. k \in DOMAIN sub /\ sub[k] \in Submission /\ PartialFunction(sub, Keys, Submission)
    BY <1>1, KeyFacts DEF ApiFinalize, Live, Pending, RunsInv, TypeOK, ApiTypeOK
  <2>2. CASE sub[k].state # "pending_upload" \/ ~Live(k)
    <3>1. UNCHANGED <<sub, clock>> /\ ~Live(k)
      BY <1>0, <1>1, <2>2 DEF ApiFinalize, Live, Pending
    <3>2. reply = "finalized" => sub[k].state = "finalized"
      BY <1>1, <2>1, <2>2 DEF ApiFinalize, Submission, Live, Pending
    <3> QED BY <2>1, <3>1, <3>2 DEF Over, Live, Pending
  <2>3. CASE Live(k) /\ sub[k].state = "pending_upload"
    <3>1. \/ UNCHANGED sub /\ reply = "upload_missing"
          \/ /\ sub' = [sub EXCEPT ![k].state = "refused"]
             /\ reply \in {"upload_mismatch", "refused"}
          \/ sub' = [sub EXCEPT ![k].state = "finalized"] /\ reply = "finalized"
      BY <1>1, <2>3 DEF ApiFinalize
    <3> QED BY <2>1, <3>1 DEF PartialFunction, Submission, Over, Live, Pending
  <2> QED BY <2>2, <2>3
<1>4. LateMoves
  BY <1>0 DEF LateMoves, LateCreate
<1>e. ASSUME NEW out, End(p, out)
      PROVE  run'[p].pc = "idle"
  BY <1>e, OneRun DEF End, RunsInv
<1>5. ASSUME NEW out, Forget(run[p]), End(p, out), UNCHANGED attempt,
             reply \in {"submission_expired", "upload_mismatch", "refused"}
      PROVE  AloneInv'
  BY <1>0, <1>k, <1>2, <1>3, <1>5, <1>e, ForgetStep
<1>6. CASE UNCHANGED <<file, attempt>> /\ End(p, "error")
  BY <1>0, <1>2, <1>4, <1>6, <1>e, OnwardStep
<1>7. CASE reply = "submission_expired" /\ StartAgain(p)
  BY <1>0, <1>k, <1>2, <1>3, <1>7, StartAgainAlone
<1>8. CASE /\ UNCHANGED <<file, attempt>>
           /\ Become(p, [run[p] EXCEPT !.waits = @ + 1, !.tries = 0])
  <2>1. run'[p] = [run[p] EXCEPT !.waits = @ + 1, !.tries = 0]
    BY <1>8, OneRun DEF RunsInv
  <2>2. /\ run'[p].pc = "finalize" /\ run'[p].key = run[p].key /\ run'[p].req = run[p].req
        /\ run'[p].at = run[p].at /\ run'[p].answered = run[p].answered
    BY <1>0, <1>h, <2>1 DEF Sending
  <2>3. run[p].answered
    BY <1>0 DEF AloneInv, RunTells
  <2>4. run'[p].pc \in SendSteps \ {"save"}
    BY <2>2 DEF SendSteps
  <2> QED BY <1>0, <1>2, <1>4, <1>8, <2>2, <2>3, <2>4, OnwardStep
<1>9. CASE /\ reply = "finalized" /\ SaveState(run[p]) /\ UNCHANGED attempt
           /\ Follow(p, VersionOf(run[p].key, versions'), TRUE)
  <2>1. run'[p].pc = "follow" /\ run'[p].req = run[p].req
    BY <1>9, OneRun DEF Follow, RunsInv
  <2> QED BY <1>0, <1>k, <1>2, <1>3, <1>9, <2>1, FinalizedAlone
<1> QED BY <1>1, <1>5, <1>6, <1>7, <1>8, <1>9 DEF AfterFinalize

LEMMA RecallAlone ==
    ASSUME Alone, RunsInv, RunsInv', AloneInv, NEW p \in Procs, Recall(p)
    PROVE  AloneInv'
<1>1. /\ run[p].pc = "recall" /\ run[p].pc \in SendSteps \ {"save"}
      /\ UNCHANGED <<clock, sub, versions, file, late, attempt>>
  BY DEF Recall, At, SendSteps
<1>2. SubMoves /\ LateMoves
  BY <1>1, SubStill DEF LateMoves, LateCreate
<1>3. run[p].key \in DOMAIN sub /\ sub[run[p].key].state = "finalized"
  BY <1>1 DEF RunsInv, VersionsExist, AloneInv, VersionsFinal, At
<1>4. run'[p].pc = "idle" \/ (run'[p].pc = "follow" /\ run'[p].req = run[p].req)
  BY OneRun DEF Recall, Follow, End, RunsInv
<1> QED BY <1>1, <1>2, <1>3, <1>4, OnwardStep

(* A run killed before its first save leaves nothing the API heard of.     *)
LEMMA CrashAlone ==
    ASSUME Alone, RunsInv, RunsInv', AloneInv, NEW p \in Procs, Crash(p)
    PROVE  AloneInv'
<1>1. /\ UNCHANGED <<clock, sub, versions, file, late, attempt>>
      /\ run'[p].pc = "idle" /\ \A q \in Procs : q = p
  BY OneRun DEF Crash, End, RunsInv
<1>2. SubMoves /\ LateMoves
  BY <1>1, SubStill DEF LateMoves, LateCreate
<1>3. CASE run[p].pc \notin SendSteps
  <2>1. run'[p].pc \notin SendSteps /\ ~At(p, "follow")'
    BY <1>1 DEF SendSteps, At
  <2> QED BY <1>1, <1>3, <2>1, QuietStep
<1>4. CASE run[p].pc \in SendSteps \ {"save"}
  BY <1>1, <1>2, <1>4, OnwardStep
<1>5. CASE run[p].pc = "save"
  <2>1. FileLeads(run[p])
    BY <1>5 DEF AloneInv, SendSteps
  <2>2. \A j : Worked(j) => Kept(j) \/ (j \notin DOMAIN sub /\ ~LateCreate(j))
    BY <1>1, <1>5, <2>1 DEF Worked, Holds, FileLeads, Kept
  <2>3. Drops
    <3> SUFFICES ASSUME NEW j \in Keys, (Live(j) \/ LateCreate(j))', Worked(j) \/ Kept(j)
                 PROVE  Safe(j)'
      BY DEF Drops
    <3>1. j \in DOMAIN sub \/ LateCreate(j)
      BY <1>1 DEF Live, Pending, LateCreate
    <3> QED BY <1>1, <2>2, <3>1, SameFiles
  <2>4. RunsTell' /\ OwnersFile'
    BY <1>1 DEF RunsTell, OwnersFile, At, SendSteps
  <2> QED BY <1>1, <1>2, <2>3, <2>4, SameAttempts, SameFiles, AloneStep
<1> QED BY <1>3, <1>4, <1>5

-----------------------------------------------------------------------------
(* The steps of the service, the late requests and the time.               *)

LEMMA ServiceAlone ==
    ASSUME Alone, RunsInv, RunsInv', AloneInv, SubMoves,
           UNCHANGED <<file, run, attempt>>, late' \subseteq late
    PROVE  AloneInv'
<1>1. LateMoves
  BY DEF LateMoves, LateCreate
<1>2. Drops
  BY SameFiles DEF Drops, Worked, Holds
<1>3. OwnersFile'
  <2> SUFFICES ASSUME NEW p \in Procs, At(p, "follow"), run[p].owner,
                      Name(run[p].req) \in DOMAIN file
               PROVE  LET k == file[Name(run[p].req)].key
                      IN  ~Pending(k)' /\ k \in DOMAIN sub'
    BY DEF OwnersFile, At, Name, Pending
  <2> DEFINE k == file[Name(run[p].req)].key
  <2>1. ~Pending(k) /\ k \in DOMAIN sub
    BY DEF AloneInv, OwnersFile
  <2> HIDE DEF k
  <2>2. sub'[k].state # "pending_upload" /\ k \in DOMAIN sub'
    BY <2>1 DEF SubMoves, Pending
  <2> QED BY <2>2 DEF Pending, k
<1>4. RunsTell'
  <2> SUFFICES ASSUME NEW p \in Procs, run[p].pc \in SendSteps
               PROVE  RunTells(run[p])' /\ FileLeads(run[p])'
    BY DEF RunsTell
  <2>k. PICK r : r = run[p]
    OBVIOUS
  <2>1. RunTells(r) /\ FileLeads(r)
    BY <2>k DEF AloneInv
  <2>2. RunTells(r)'
    BY <2>1 DEF RunTells, MayBeCreated, SubMoves
  <2>3. FileLeads(r)'
    <3>1. CASE r.pc # "save" \/ (Name(r.req) \in DOMAIN file /\ file[Name(r.req)].key = r.key)
      BY <2>1, <3>1 DEF FileLeads, Name
    <3>2. CASE r.pc = "save" /\ ~(Name(r.req) \in DOMAIN file /\ file[Name(r.req)].key = r.key)
      <4>1. /\ r.key \notin DOMAIN sub /\ ~LateCreate(r.key)
            /\ Name(r.req) \in DOMAIN file =>
                  Over(file[Name(r.req)].key) \/ GivenUp(file[Name(r.req)].key)
        BY <2>1, <3>2 DEF FileLeads
      <4>2. \A q \in Procs : ~At(q, "create")
        BY <2>k, <3>2 DEF Alone, At
      <4>3. r.key \notin DOMAIN sub'
        BY <4>1, <4>2 DEF SubMoves
      <4>4. ~LateCreate(r.key)'
        BY <4>1 DEF LateCreate
      <4>5. \A j : Over(j) \/ GivenUp(j) => Over(j)' \/ GivenUp(j)'
        BY Moves DEF GivenUp, SubMoves
      <4> QED BY <3>2, <4>1, <4>3, <4>4, <4>5 DEF FileLeads, Name
    <3> QED BY <3>1, <3>2
  <2> QED BY <2>k, <2>2, <2>3
<1> QED BY <1>1, <1>2, <1>3, <1>4, SameAttempts, SameFiles, AloneStep

LEMMA LateAlone ==
    ASSUME Alone, RunsInv, RunsInv', AloneInv, NEW m \in Message, LateArrival(m)
    PROVE  AloneInv'
<1>1. UNCHANGED <<clock, file, run, attempt>> /\ late' \subseteq late /\ m \in late /\ m.key \in Keys
  BY DEF LateArrival, Message
<1>2. SubMoves
  <2>1. ASSUME NEW reply, ApiCreate(m.key, attempt[m.key].req, reply),
               m.kind = "create", UNCHANGED versions
        PROVE  SubMoves
    <3>1. m = [kind |-> "create", key |-> m.key]
      BY <2>1 DEF Message
    <3>2. LateCreate(m.key)
      BY <1>1, <3>1 DEF LateCreate
    <3>3. Used(m.key) /\ MayBeCreated(m.key)
      BY <1>1, <3>2, KeyFacts DEF AloneInv, AttemptsOnApi
    <3> QED BY <1>1, <2>1, <3>2, <3>3, CreateMoves
  <2>2. CASE ApiUpload(m.key) /\ UNCHANGED versions
    BY <1>1, <2>2, UploadMoves
  <2>3. ASSUME NEW reply, ApiFinalize(m.key, reply)
        PROVE  SubMoves
    BY <1>1, <2>3, FinalizeMoves
  <2> QED BY <2>1, <2>2, <2>3 DEF LateArrival
<1> QED BY <1>1, <1>2, ServiceAlone

LEMMA TickAlone ==
    ASSUME RunsInv, AloneInv, Tick
    PROVE  AloneInv'
<1>1. /\ clock' = clock + 1 /\ late' = {}
      /\ UNCHANGED <<sub, versions, file, run, attempt>>
      /\ \A p \in Procs : run[p].pc \notin {"save", "create"}
  BY DEF Tick
<1>2. \A k \in Keys : ~LateCreate(k)'
  BY <1>1 DEF LateCreate
<1>3. FilesTell' /\ VersionsFinal' /\ OwnersFile' /\ AttemptsOnApi'
  BY <1>1, <1>2 DEF AloneInv, FilesTell, VersionsFinal, OwnersFile, AttemptsOnApi,
                    At, Name, Pending
<1>4. RunsTell'
  BY <1>1 DEF AloneInv, RunsTell, RunTells, FileLeads, Name
<1>5. NothingLost'
  <2> SUFFICES ASSUME NEW k \in Keys, Live(k)'
               PROVE  Worked(k)' \/ Kept(k)' \/ GivenUp(k)'
    BY <1>2 DEF NothingLost, Worked
  <2>1. k \in DOMAIN sub /\ Live(k) /\ clock \in Nat
    <3>1. k \in DOMAIN sub /\ Pending(k) /\ clock' - sub[k].at < Expiry
      BY <1>1 DEF Live, Pending
    <3>2. sub[k].at \in Nat /\ clock \in Nat
      BY <3>1, KeyFacts
    <3> QED BY <1>1, <3>1, <3>2, LimitsType DEF Live
  <2>2. Worked(k) \/ Kept(k) \/ GivenUp(k)
    BY <2>1 DEF AloneInv, NothingLost, Worked, Over
  <2>3. GivenUp(k) => GivenUp(k)'
    <3>1. attempt[k].at \in Nat
      BY <2>1, KeyFacts
    <3> QED BY <1>1, <2>1, <3>1, TimesType DEF GivenUp
  <2> QED BY <1>1, <2>2, <2>3 DEF Worked, Holds, Kept
<1> QED BY <1>3, <1>4, <1>5 DEF AloneInv, RunsTell

-----------------------------------------------------------------------------
(* With one run at a time, AloneInv is an invariant: the state file, the   *)
(* run and the requests under way tell of every submission.                *)
THEOREM AloneInvHolds ==
    ASSUME Alone
    PROVE  Spec => []AloneInv
<1>1. Init => AloneInv
  <2> SUFFICES ASSUME Init
               PROVE  AloneInv
    OBVIOUS
  <2>1. /\ DOMAIN file = {} /\ DOMAIN sub = {} /\ DOMAIN attempt = {} /\ late = {}
        /\ Len(versions) = 0
        /\ \A p \in Procs : run[p].pc = "idle"
    BY DEF Init, ApiInit
  <2>2. FilesTell /\ AttemptsOnApi /\ VersionsFinal /\ OwnersFile
    BY <2>1 DEF FilesTell, AttemptsOnApi, VersionsFinal, OwnersFile, At, LateCreate
  <2>3. NothingLost
    BY <2>1 DEF NothingLost, Live, Pending, LateCreate
  <2> QED BY <2>1, <2>2, <2>3 DEF AloneInv, SendSteps
<1>2. RunsInv /\ RunsInv' /\ AloneInv /\ [Next]_vars => AloneInv'
  <2> SUFFICES ASSUME RunsInv, RunsInv', AloneInv, [Next]_vars
               PROVE  AloneInv'
    OBVIOUS
  <2>1. CASE UNCHANGED vars
    <3>1. SubMoves
      BY <2>1, SubStill DEF vars
    <3> QED BY <2>1, <3>1, ServiceAlone DEF vars
  <2>2. ASSUME NEW p \in Procs, (\E r \in Requests : Start(p, r)) \/ Work(p) \/ Crash(p)
        PROVE  AloneInv'
    BY <2>2, LookUpAlone, OpenAlone, SaveAlone, CreateAlone, CutAlone, KeepAlone,
       UploadAlone, FinalizeAlone, RecallAlone, FollowDoneAlone, CrashAlone DEF Work
  <2>3. CASE \E m \in Message : LateArrival(m)
    BY <2>3, LateAlone
  <2>4. CASE Service
    BY <2>4, ServiceMoves, ServiceAlone DEF Service
  <2>5. CASE Tick
    BY <2>5, TickAlone
  <2> QED BY <2>1, <2>2, <2>3, <2>4, <2>5 DEF Next
<1> QED BY <1>1, <1>2, RunsInvHolds, PTL DEF Spec

(* With one run at a time, a submission the API still waits for is never   *)
(* abandoned, however the runs are cut and the requests lost or late: a    *)
(* run works on it, its state file leads the next run to it, or no answer  *)
(* to it ever came in its 55 minutes.                                      *)
THEOREM NothingLiveLost ==
    ASSUME Alone
    PROVE  Spec => []NothingLiveAbandoned
<1>1. RunsInv /\ AloneInv => NothingLiveAbandoned
  <2> SUFFICES ASSUME RunsInv, AloneInv, NEW k \in DOMAIN sub, Live(k)
               PROVE  (\E p \in Procs : Holds(p, k)) \/ Kept(k) \/ GivenUp(k)
    BY DEF NothingLiveAbandoned
  <2> QED BY KeyFacts DEF AloneInv, NothingLost, Over
<1> QED BY <1>1, RunsInvHolds, AloneInvHolds, PTL

-----------------------------------------------------------------------------
(* What any step does to the submissions, the attempts, the versions and   *)
(* the runs, as far as the versions of a request depend on it.             *)

(* An upload of k is on its way, late; the run p is at the step pc of k.   *)
LateUpload(k) == [kind |-> "upload", key |-> k] \in late
Sends(p, pc, k) == At(p, pc) /\ Holds(p, k)

(* A creation of k reaches the API, which makes its submission.            *)
Enters(k) ==
    /\ k \notin DOMAIN sub /\ ~LimitReached /\ clock' = clock
    /\ DOMAIN sub' = DOMAIN sub \cup {k} /\ \A j \in DOMAIN sub : sub'[j] = sub[j]
    /\ LateCreate(k) \/ \E p \in Procs : Sends(p, "create", k)

(* A submission keeps its request, has an upload only if one was sent, and *)
(* starts to be waited for only as a new one.                              *)
SubsTell ==
    /\ DOMAIN sub \subseteq DOMAIN sub'
    /\ \A j \in DOMAIN sub :
          /\ sub'[j].body = sub[j].body
          /\ sub'[j].upload # "none" =>
                \/ sub[j].upload # "none" \/ LateUpload(j)
                \/ \E p \in Procs : Sends(p, "upload", j)
    /\ \A j \in DOMAIN sub' \ DOMAIN sub : sub'[j].upload = "none"
    /\ \A k : Live(k)' => Live(k) \/ Enters(k)

(* A late upload was sent by a run.                                        *)
LatesTell ==
    \A k \in Keys : LateUpload(k)' =>
        LateUpload(k) \/ \E p \in Procs : Sends(p, "upload", k)

(* An attempt keeps its time and its request, and becomes answered only    *)
(* when its run reads the answer.                                          *)
AnswersTell ==
    \A k \in Keys : Used(k) =>
        /\ attempt'[k].at = attempt[k].at /\ attempt'[k].req = attempt[k].req
        /\ attempt[k].answered => attempt'[k].answered
        /\ attempt'[k].answered =>
              \/ attempt[k].answered
              \/ UNCHANGED <<clock, sub>> /\ \E p \in Procs : Sends(p, "keep", k)

(* No version is made.                                                     *)
SameVersions ==
    /\ Len(versions') = Len(versions)
    /\ \A i \in 1 .. Len(versions) : versions'[i].key = versions[i].key

(* The run p of the request before and after a step.                       *)
Onward(p) ==
    /\ {run[p].pc, run'[p].pc} \subseteq SendSteps
    /\ run'[p].req = run[p].req
    /\ \/ run'[p].key = run[p].key
       \/ Over(run[p].key) /\ sub[run[p].key].state # "finalized"
Opens(p) ==
    /\ run[p].pc = "open" /\ run'[p].pc \in SendSteps
    /\ run'[p].req = run[p].req
    /\ LET n == Name(run[p].req) IN Resumable(n) => run'[p].key = file[n].key
Looked(p) ==
    /\ run'[p].pc = "open"
    /\ Len(versions) > 0 => Body(Len(versions)) # run'[p].req
Waits(p) == run'[p] = run[p] /\ run[p].pc = "open" /\ UNCHANGED <<clock, file>>

RunsMove ==
    \A p \in Procs :
        \/ run'[p].pc \notin SendSteps \cup {"open"}
        \/ Onward(p) \/ Opens(p) \/ Looked(p) \/ Waits(p)

(* k becomes a version, and nothing a run of a request reads changes else. *)
Delivers(k) ==
    /\ Live(k) /\ sub[k].upload = "seen" /\ k \in Keys
    /\ ~Live(k)' /\ clock' = clock
    /\ DOMAIN sub' = DOMAIN sub /\ \A j \in DOMAIN sub : j # k => sub'[j] = sub[j]
    /\ Len(versions') = Len(versions) + 1
    /\ versions'[Len(versions) + 1].key = k
    /\ \A i \in 1 .. Len(versions) : versions'[i].key = versions[i].key
    /\ UNCHANGED attempt
    /\ \A p \in Procs : run'[p].pc \in SendSteps \cup {"open"} =>
          run'[p] = run[p] /\ UNCHANGED file

Told == SubsTell /\ LatesTell /\ AnswersTell /\ RunsMove
Shape == Told /\ (SameVersions \/ \E k \in Keys : Delivers(k))

LEMMA SubsStay ==
    ASSUME RunsInv, UNCHANGED <<sub, versions>>, clock' \in Nat, clock <= clock'
    PROVE  SubsTell /\ SameVersions
<1>1. \A k : Live(k)' => Live(k)
  <2> SUFFICES ASSUME NEW k, Live(k)'
               PROVE  Live(k)
    OBVIOUS
  <2>1. k \in DOMAIN sub /\ Pending(k) /\ clock' - sub[k].at < Expiry
    BY DEF Live, Pending
  <2>2. sub[k].at \in Nat /\ clock \in Nat
    BY <2>1, KeyFacts
  <2> QED BY <2>1, <2>2, LimitsType DEF Live
<1> QED BY <1>1 DEF SubsTell, SameVersions

LEMMA CreateTells ==
    ASSUME RunsInv, NEW k \in Keys, NEW reply, ApiCreate(k, attempt[k].req, reply), Used(k),
           LateCreate(k) \/ \E p \in Procs : Sends(p, "create", k),
           UNCHANGED <<clock, versions>>
    PROVE  SubsTell /\ SameVersions
<1>1. CASE UNCHANGED sub
  BY <1>1, SubsStay, KeyFacts
<1>2. CASE sub' # sub
  <2> DEFINE new == [body |-> attempt[k].req, state |-> "pending_upload",
                     upload |-> "none", at |-> clock]
  <2>1. k \notin DOMAIN sub /\ ~LimitReached /\ sub' = Put(sub, k, new)
    BY <1>2 DEF ApiCreate
  <2>2. /\ DOMAIN sub' = DOMAIN sub \cup {k}
        /\ sub'[k] = new
        /\ \A j \in DOMAIN sub : sub'[j] = sub[j]
    BY <2>1 DEF Put
  <2>3. \A j : Live(j)' => Live(j) \/ Enters(j)
    BY <2>1, <2>2 DEF Live, Pending, Enters
  <2> QED BY <2>1, <2>2, <2>3 DEF SubsTell, SameVersions
<1> QED BY <1>1, <1>2

(* One submission changes, and is not made pending again.                  *)
LEMMA OneSubTells ==
    ASSUME RunsInv, NEW k \in DOMAIN sub, NEW v, sub' = [sub EXCEPT ![k] = v],
           v.body = sub[k].body, v.at = sub[k].at,
           v.state = "pending_upload" => sub[k].state = "pending_upload",
           v.upload # "none" => \/ sub[k].upload # "none" \/ LateUpload(k)
                                \/ \E p \in Procs : Sends(p, "upload", k),
           UNCHANGED clock
    PROVE  SubsTell
<1>1. PartialFunction(sub, Keys, Submission)
  BY DEF RunsInv, TypeOK, ApiTypeOK
<1>2. DOMAIN sub' = DOMAIN sub /\ sub'[k] = v /\ \A j \in DOMAIN sub : j # k => sub'[j] = sub[j]
  BY <1>1 DEF PartialFunction
<1>3. \A j : Live(j)' => Live(j)
  BY <1>2 DEF Live, Pending
<1> QED BY <1>2, <1>3 DEF SubsTell

LEMMA UploadTells ==
    ASSUME RunsInv, NEW k, ApiUpload(k), UNCHANGED <<clock, versions>>,
           LateUpload(k) \/ \E p \in Procs : Sends(p, "upload", k)
    PROVE  SubsTell /\ SameVersions
<1>1. CASE Live(k) /\ sub[k].upload # "seen"
  <2> DEFINE v == [sub[k] EXCEPT !.upload = "unseen"]
  <2>1. k \in DOMAIN sub
    BY <1>1 DEF Live, Pending
  <2>2. v.at = sub[k].at /\ v.state = sub[k].state /\ v.body = sub[k].body
    BY <2>1, KeyFacts DEF Submission
  <2>3. sub' = [sub EXCEPT ![k] = v]
    BY <1>1 DEF ApiUpload
  <2> HIDE DEF v
  <2> QED BY <2>1, <2>2, <2>3, OneSubTells DEF SameVersions
<1>2. CASE ~(Live(k) /\ sub[k].upload # "seen")
  BY <1>2, SubsStay, KeyFacts DEF ApiUpload
<1> QED BY <1>1, <1>2

(* A finalization makes a version of an upload the API sees, or none.      *)
FinalizedSub(k) ==
    /\ Live(k) /\ sub[k].upload = "seen" /\ k \in Keys
    /\ ~Live(k)' /\ clock' = clock
    /\ DOMAIN sub' = DOMAIN sub /\ \A j \in DOMAIN sub : j # k => sub'[j] = sub[j]
    /\ Len(versions') = Len(versions) + 1
    /\ versions'[Len(versions) + 1].key = k
    /\ \A i \in 1 .. Len(versions) : versions'[i].key = versions[i].key

LEMMA FinalizeTells ==
    ASSUME RunsInv, NEW k \in Keys, NEW reply, ApiFinalize(k, reply), UNCHANGED clock
    PROVE  /\ SubsTell
           /\ SameVersions \/ (reply = "finalized" /\ FinalizedSub(k))
           /\ reply = "submission_expired" => Over(k) /\ sub[k].state # "finalized"
<1>0. k \in DOMAIN sub /\ sub[k] \in Submission /\ versions \in Seq(Version)
  BY KeyFacts DEF ApiFinalize, Live, Pending, RunsInv, TypeOK, ApiTypeOK
<1>f. reply = "submission_expired" => Over(k) /\ sub[k].state # "finalized"
  BY <1>0 DEF ApiFinalize, Over, Live, Pending
<1>1. CASE UNCHANGED <<sub, versions>>
  BY <1>1, <1>f, SubsStay, KeyFacts
<1>2. CASE /\ Live(k)
           /\ sub' = [sub EXCEPT ![k].state = "refused"]
           /\ UNCHANGED versions
  <2> DEFINE v == [sub[k] EXCEPT !.state = "refused"]
  <2>1. /\ v.at = sub[k].at /\ v.state = "refused" /\ v.body = sub[k].body
        /\ v.upload = sub[k].upload /\ sub' = [sub EXCEPT ![k] = v]
    BY <1>0, <1>2 DEF Submission
  <2> HIDE DEF v
  <2>2. SubsTell
    BY <1>0, <2>1, OneSubTells
  <2> QED BY <1>2, <1>f, <2>2 DEF SameVersions
<1>3. CASE /\ Live(k) /\ sub[k].upload = "seen" /\ reply = "finalized"
           /\ sub' = [sub EXCEPT ![k].state = "finalized"]
           /\ versions' = Append(versions, [key |-> k, state |-> "checking",
                                            built |-> FALSE, stuck |-> FALSE])
  <2> DEFINE v == [sub[k] EXCEPT !.state = "finalized"]
  <2>1. /\ v.at = sub[k].at /\ v.state = "finalized" /\ v.body = sub[k].body
        /\ v.upload = sub[k].upload /\ sub' = [sub EXCEPT ![k] = v]
    BY <1>0, <1>3 DEF Submission
  <2>2. /\ Len(versions') = Len(versions) + 1
        /\ versions'[Len(versions) + 1].key = k
        /\ \A i \in 1 .. Len(versions) : versions'[i].key = versions[i].key
    BY <1>0, <1>3
  <2> HIDE DEF v
  <2>3. /\ DOMAIN sub' = DOMAIN sub /\ sub'[k] = v
        /\ \A j \in DOMAIN sub : j # k => sub'[j] = sub[j]
    BY <1>0, <2>1 DEF RunsInv, TypeOK, ApiTypeOK, PartialFunction
  <2>4. ~Live(k)'
    BY <2>1, <2>3 DEF Live, Pending
  <2>5. SubsTell
    BY <1>0, <2>1, OneSubTells
  <2> QED BY <1>3, <1>f, <2>2, <2>3, <2>4, <2>5 DEF FinalizedSub
<1> QED BY <1>0, <1>1, <1>2, <1>3 DEF ApiFinalize

LEMMA ServiceTells ==
    ASSUME RunsInv, Service
    PROVE  SubsTell /\ SameVersions
<1>1. ASSUME NEW k \in Keys, StorageShows(k)
      PROVE  SubsTell /\ SameVersions
  <2>1. PICK seen \in {"seen", "bad"} : sub' = [sub EXCEPT ![k].upload = seen]
    BY <1>1 DEF StorageShows
  <2> DEFINE v == [sub[k] EXCEPT !.upload = seen]
  <2>2. k \in DOMAIN sub /\ sub[k].upload # "none" /\ UNCHANGED <<clock, versions>>
    BY <1>1 DEF StorageShows
  <2>3. /\ v.at = sub[k].at /\ v.state = sub[k].state /\ v.body = sub[k].body
        /\ sub' = [sub EXCEPT ![k] = v]
    BY <2>1, <2>2, KeyFacts DEF Submission
  <2> HIDE DEF v
  <2>4. SubsTell
    BY <2>2, <2>3, OneSubTells
  <2> QED BY <2>2, <2>4 DEF SameVersions
<1>2. ASSUME NEW k \in Keys, Expire(k)
      PROVE  SubsTell /\ SameVersions
  <2> DEFINE v == [sub[k] EXCEPT !.state = "expired"]
  <2>1. k \in DOMAIN sub /\ UNCHANGED <<clock, versions>>
    BY <1>2 DEF Expire, Pending
  <2>2. /\ v.at = sub[k].at /\ v.state = "expired" /\ v.body = sub[k].body
        /\ v.upload = sub[k].upload /\ sub' = [sub EXCEPT ![k] = v]
    BY <1>2, <2>1, KeyFacts DEF Expire, Submission
  <2> HIDE DEF v
  <2>3. SubsTell
    BY <2>1, <2>2, OneSubTells
  <2> QED BY <2>1, <2>3 DEF SameVersions
<1>3. ASSUME NEW i \in 1 .. Len(versions), ChecksEnd(i) \/ ChecksStuck(i)
      PROVE  SubsTell /\ SameVersions
  <2>1. UNCHANGED <<clock, sub>>
    BY <1>3 DEF ChecksEnd, ChecksStuck
  <2>2. versions \in Seq(Version) /\ versions[i] \in Version
    BY DEF RunsInv, TypeOK, ApiTypeOK
  <2>3. SameVersions
    <3>1. CASE ChecksEnd(i)
      BY <2>2, <3>1 DEF ChecksEnd, Version, SameVersions
    <3>2. CASE ChecksStuck(i)
      BY <2>2, <3>2 DEF ChecksStuck, Version, SameVersions
    <3> QED BY <1>3, <3>1, <3>2
  <2>4. SubsTell
    BY <2>1 DEF SubsTell, Live, Pending
  <2> QED BY <2>3, <2>4
<1> QED BY <1>1, <1>2, <1>3 DEF Service

-----------------------------------------------------------------------------
(* What the steps do to the run, the attempts and the late requests.       *)

LEMMA AnswersStay ==
    ASSUME UNCHANGED attempt
    PROVE  AnswersTell
BY DEF AnswersTell

LEMMA LatesStay ==
    ASSUME late' \subseteq late
    PROVE  LatesTell
BY DEF LatesTell, LateUpload

LEMMA OnwardRun ==
    ASSUME Alone, TypeOK, NEW p \in Procs, NEW r, Become(p, r),
           r.pc \notin SendSteps \cup {"open"}
           \/ (/\ {run[p].pc, r.pc} \subseteq SendSteps
               /\ r.req = run[p].req
               /\ \/ r.key = run[p].key
                  \/ Over(run[p].key) /\ sub[run[p].key].state # "finalized")
    PROVE  RunsMove
<1>1. run'[p] = r /\ \A q \in Procs : q = p
  BY OneRun
<1> QED BY <1>1 DEF RunsMove, Onward

LEMMA EndRun ==
    ASSUME Alone, TypeOK, NEW p \in Procs, NEW out, End(p, out)
    PROVE  RunsMove /\ run'[p].pc \notin SendSteps \cup {"open"} /\ \A q \in Procs : q = p
<1> DEFINE r == [pc |-> "idle", out |-> out]
<1>1. Become(p, r) /\ r.pc \notin SendSteps \cup {"open"}
  BY DEF End, SendSteps
<1> HIDE DEF r
<1> QED BY <1>1, OnwardRun, OneRun

LEMMA FollowRun ==
    ASSUME Alone, TypeOK, NEW p \in Procs, NEW i, NEW owner, Follow(p, i, owner)
    PROVE  RunsMove /\ run'[p].pc \notin SendSteps \cup {"open"} /\ \A q \in Procs : q = p
<1> DEFINE r == [pc |-> "follow", req |-> run[p].req, version |-> i, owner |-> owner]
<1>1. Become(p, r) /\ r.pc \notin SendSteps \cup {"open"}
  BY DEF Follow, SendSteps
<1> HIDE DEF r
<1> QED BY <1>1, OnwardRun, OneRun

LEMMA LookUpTells ==
    ASSUME Alone, RunsInv, NEW p \in Procs,
           \/ \E r \in Requests : Start(p, r)
           \/ Look(p) \/ LookFails(p) \/ FollowStops(p) \/ FollowDone(p)
           \/ Recall(p) \/ Crash(p)
    PROVE  Told /\ SameVersions
<1>1. UNCHANGED <<clock, sub, versions, late, attempt>>
  BY DEF Start, Look, LookFails, FollowStops, FollowDone, Recall, Crash
<1>2. SubsTell /\ SameVersions /\ LatesTell /\ AnswersTell
  BY <1>1, SubsStay, LatesStay, AnswersStay, KeyFacts
<1>3. RunsMove
  <2>t. TypeOK
    BY DEF RunsInv
  <2>1. ASSUME NEW r \in Requests, Start(p, r)
        PROVE  RunsMove
    <3> DEFINE s == [pc |-> "listing", req |-> r, full |-> LimitReached]
    <3>1. Become(p, s) /\ s.pc \notin SendSteps \cup {"open"}
      BY <2>1 DEF Start, SendSteps
    <3> HIDE DEF s
    <3> QED BY <2>t, <3>1, OnwardRun
  <2>2. CASE LookFails(p) \/ FollowStops(p) \/ FollowDone(p) \/ Crash(p)
    BY <2>t, <2>2, EndRun DEF LookFails, FollowStops, FollowDone, Crash
  <2>3. CASE Recall(p)
    BY <2>t, <2>3, EndRun, FollowRun DEF Recall
  <2>4. CASE Look(p)
    <3>1. \/ \E out : End(p, out)
          \/ Follow(p, Len(versions), FALSE)
          \/ /\ Become(p, [pc |-> "open", req |-> run[p].req])
             /\ ~(Len(versions) > 0 /\ Sources(Body(Len(versions))) = Sources(run[p].req))
      BY <2>4 DEF Look, ConcludeKnown
    <3>2. CASE /\ Become(p, [pc |-> "open", req |-> run[p].req])
               /\ ~(Len(versions) > 0 /\ Sources(Body(Len(versions))) = Sources(run[p].req))
      <4>1. (\A q \in Procs : q = p) /\ run'[p] = [pc |-> "open", req |-> run[p].req]
        BY <2>t, <3>2, OneRun
      <4>2. Len(versions) > 0 => Body(Len(versions)) # run[p].req
        BY <3>2 DEF Sources
      <4> QED BY <4>1, <4>2 DEF RunsMove, Looked
    <3> QED BY <2>t, <3>1, <3>2, EndRun, FollowRun
  <2> QED BY <2>1, <2>2, <2>3, <2>4
<1> QED BY <1>2, <1>3 DEF Told

LEMMA OpenTells ==
    ASSUME Alone, RunsInv, NEW p \in Procs, Open(p)
    PROVE  Told /\ SameVersions
<1> DEFINE req == run[p].req
           n == Name(req)
<1>1. UNCHANGED <<clock, sub, versions, late>> /\ run[p].pc = "open" /\ TypeOK
  BY DEF Open, At, RunsInv
<1>2. SubsTell /\ SameVersions /\ LatesTell
  BY <1>1, SubsStay, LatesStay, KeyFacts
<1>3. CASE Resumable(n)
  <2> DEFINE r == [NewSending(req, file[n].key, FALSE) EXCEPT
                     !.at = file[n].at, !.answered = file[n].answered, !.resumed = TRUE]
  <2>1. r.pc \in SendSteps /\ r.key = file[n].key /\ r.req = req
    BY DEF NewSending, SendSteps
  <2>2. Become(p, r) /\ UNCHANGED attempt
    BY <1>3 DEF Open
  <2> HIDE DEF r
  <2>3. run'[p] = r /\ \A q \in Procs : q = p
    BY <1>1, <2>2, OneRun
  <2> QED BY <1>1, <1>2, <2>1, <2>2, <2>3, AnswersStay DEF Told, RunsMove, Opens
<1>4. CASE ~Resumable(n)
  <2>1. PICK k \in Fresh : MakeKey(k, req) /\ Become(p, NewSending(req, k, FALSE))
    BY <1>4 DEF Open
  <2>2. AnswersTell
    BY <2>1, FreshKey DEF AnswersTell
  <2>3. run'[p] = NewSending(req, k, FALSE) /\ \A q \in Procs : q = p
    BY <1>1, <2>1, OneRun
  <2>4. run'[p].pc \in SendSteps /\ run'[p].req = req
    BY <2>3 DEF NewSending, SendSteps
  <2> QED BY <1>1, <1>2, <1>4, <2>2, <2>3, <2>4 DEF Told, RunsMove, Opens
<1> QED BY <1>3, <1>4

(* A submission that ended without a version is left for a new key.        *)
LEMMA StartAgainTells ==
    ASSUME Alone, RunsInv, NEW p \in Procs, run[p].pc \in SendSteps, StartAgain(p),
           Over(run[p].key), sub[run[p].key].state # "finalized"
    PROVE  AnswersTell /\ RunsMove
<1>1. PICK k \in Fresh : /\ MakeKey(k, run[p].req)
                         /\ Become(p, NewSending(run[p].req, k, TRUE))
  BY DEF StartAgain
<1>2. AnswersTell
  BY <1>1, FreshKey DEF AnswersTell
<1>3. /\ NewSending(run[p].req, k, TRUE).pc \in SendSteps
      /\ NewSending(run[p].req, k, TRUE).req = run[p].req
  BY DEF NewSending, SendSteps
<1>4. RunsMove
  BY <1>1, <1>3, OnwardRun DEF RunsInv
<1> QED BY <1>2, <1>4

(* A run that goes on with its key.                                        *)
LEMMA GoOn ==
    ASSUME Alone, RunsInv, NEW p \in Procs, run[p].pc \in SendSteps,
           NEW r, Become(p, r), r.pc \in SendSteps, r.key = run[p].key, r.req = run[p].req
    PROVE  RunsMove
<1>1. {run[p].pc, r.pc} \subseteq SendSteps
  OBVIOUS
<1> QED BY <1>1, OnwardRun DEF RunsInv

LEMMA SaveKeepTells ==
    ASSUME Alone, RunsInv, NEW p \in Procs, Save(p) \/ Keep(p)
    PROVE  Told /\ SameVersions
<1>1. /\ run[p].pc \in SendSteps /\ UNCHANGED <<clock, sub, versions, late>>
      /\ Enter(p, "create") \/ Enter(p, "upload")
  BY DEF Save, Keep, At, SendSteps
<1>2. SubsTell /\ SameVersions /\ LatesTell
  BY <1>1, SubsStay, LatesStay, KeyFacts
<1>h. /\ run[p] \in Sending /\ run[p].key \in Keys
      /\ run[p].key \in DOMAIN attempt
  BY <1>1, Held
<1>3. ASSUME NEW pc \in {"create", "upload"}, Enter(p, pc)
      PROVE  RunsMove
  <2> DEFINE r == [run[p] EXCEPT !.pc = pc, !.tries = 0, !.refreshed = FALSE]
  <2>1. Become(p, r) /\ r.pc \in SendSteps /\ r.key = run[p].key /\ r.req = run[p].req
    BY <1>h, <1>3 DEF Enter, Sending, SendSteps
  <2> HIDE DEF r
  <2> QED BY <1>1, <2>1, GoOn
<1>4. AnswersTell
  <2>1. CASE Save(p)
    BY <2>1, AnswersStay DEF Save
  <2>2. CASE Keep(p)
    <3>1. Sends(p, "keep", run[p].key) /\ attempt' = [attempt EXCEPT ![run[p].key].answered = TRUE]
      BY <1>1, <2>2 DEF Keep, Sends, At, Holds
    <3>2. PartialFunction(attempt, Keys, Attempt) /\ \A k \in Keys : Used(k) => k \in DOMAIN attempt
      BY DEF RunsInv, TypeOK, UsedKeysKnown
    <3>k. PICK k : k = run[p].key
      OBVIOUS
    <3>3. /\ attempt'[k].at = attempt[k].at /\ attempt'[k].req = attempt[k].req
          /\ attempt'[k].answered = TRUE
          /\ \A j \in DOMAIN attempt : j # k => attempt'[j] = attempt[j]
      <4>1. attempt[k] \in Attempt
        BY <1>h, <3>2, <3>k DEF PartialFunction
      <4> QED BY <1>h, <3>1, <3>2, <3>k, <4>1 DEF PartialFunction, Attempt
    <3> QED BY <1>1, <3>1, <3>2, <3>3, <3>k DEF AnswersTell
  <2> QED BY <2>1, <2>2
<1> QED BY <1>1, <1>2, <1>3, <1>4 DEF Told

LEMMA CutTells ==
    ASSUME Alone, RunsInv, NEW p \in Procs,
           CreateCut(p) \/ UploadCut(p) \/ FinalizeCut(p)
    PROVE  Told /\ SameVersions
<1>1. PICK kind \in {"create", "upload", "finalize"} : run[p].pc = kind /\ Cut(p, kind)
  BY DEF CreateCut, UploadCut, FinalizeCut, At
<1>2. run[p].pc \in SendSteps /\ run[p] \in Sending
  BY <1>1, Held DEF SendSteps
<1>3. SubsTell /\ SameVersions /\ AnswersTell
  BY <1>1, SubsStay, AnswersStay, KeyFacts DEF Cut
<1>4. LatesTell
  <2> SUFFICES ASSUME NEW j \in Keys, LateUpload(j)', ~LateUpload(j)
               PROVE  Sends(p, "upload", j)
    BY DEF LatesTell
  <2>1. late' = late \cup {[kind |-> kind, key |-> run[p].key]}
    BY <1>1 DEF Cut, LateUpload
  <2>2. [kind |-> "upload", key |-> j] = [kind |-> kind, key |-> run[p].key]
    BY <2>1 DEF LateUpload
  <2>3. kind = "upload" /\ run[p].key = j
    BY <2>2
  <2> QED BY <1>1, <1>2, <2>3 DEF Sends, At, Holds
<1>5. RunsMove
  <2> DEFINE r == [run[p] EXCEPT !.tries = @ + 1]
  <2>1. r.pc \in SendSteps /\ r.key = run[p].key /\ r.req = run[p].req
    BY <1>2 DEF Sending
  <2>2. Become(p, r) \/ End(p, "error")
    BY <1>1 DEF Cut
  <2> HIDE DEF r
  <2> QED BY <1>2, <2>1, <2>2, GoOn, EndRun DEF RunsInv
<1> QED BY <1>3, <1>4, <1>5 DEF Told

LEMMA CreateStepTells ==
    ASSUME Alone, RunsInv, NEW p \in Procs, Create(p)
    PROVE  Told /\ SameVersions
<1>1. /\ run[p].pc = "create" /\ run[p].pc \in SendSteps
      /\ UNCHANGED <<clock, versions, late>>
  BY DEF Create, At, SendSteps
<1>h. /\ run[p] \in Sending /\ run[p].key \in Keys /\ Used(run[p].key)
      /\ attempt[run[p].key].req = run[p].req
  BY <1>1, Held
<1>k. PICK k : k = run[p].key
  OBVIOUS
<1>2. PICK reply \in CreateReplies : /\ ApiCreate(k, run[p].req, reply)
                                     /\ AfterCreate(p, reply)
  BY <1>k DEF Create
<1>3. SubsTell /\ SameVersions /\ LatesTell
  <2>1. Sends(p, "create", k)
    BY <1>1, <1>k DEF Sends, At, Holds
  <2> QED BY <1>1, <1>2, <1>h, <1>k, <2>1, CreateTells, LatesStay
<1>4. reply \in {"expired", "refused", "overdue"} =>
         Over(k) /\ sub[k].state # "finalized"
  BY <1>2 DEF ApiCreate, Over, Live, Pending
<1>e. ASSUME NEW out, End(p, out), UNCHANGED attempt
      PROVE  Told
  BY <1>3, <1>e, EndRun, AnswersStay DEF RunsInv, Told
<1>5. CASE reply \in {"expired", "refused", "overdue"} /\ StartAgain(p)
  BY <1>1, <1>k, <1>3, <1>4, <1>5, StartAgainTells DEF Told
<1>6. ASSUME NEW pc \in {"recall", "keep"}, UNCHANGED attempt,
             Become(p, [run[p] EXCEPT !.pc = pc, !.tries = 0, !.answered = TRUE])
      PROVE  Told
  <2> DEFINE r == [run[p] EXCEPT !.pc = pc, !.tries = 0, !.answered = TRUE]
  <2>1. Become(p, r) /\ r.pc \in SendSteps /\ r.key = run[p].key /\ r.req = run[p].req
    BY <1>h, <1>6 DEF Sending, SendSteps
  <2> HIDE DEF r
  <2> QED BY <1>1, <1>3, <1>6, <2>1, GoOn, AnswersStay DEF Told
<1> QED BY <1>2, <1>3, <1>e, <1>5, <1>6 DEF AfterCreate

LEMMA UploadStepTells ==
    ASSUME Alone, RunsInv, NEW p \in Procs,
           Upload(p) \/ UploadRefused(p) \/ Refresh(p)
    PROVE  Told /\ SameVersions
<1>1. /\ run[p].pc \in {"upload", "refresh"} /\ run[p].pc \in SendSteps
      /\ UNCHANGED <<clock, versions, file, late, attempt>>
  BY DEF Upload, UploadRefused, Refresh, At, SendSteps
<1>2. run[p] \in Sending
  BY <1>1, Held
<1>3. SubsTell /\ SameVersions
  <2>1. CASE Upload(p)
    <3>1. Sends(p, "upload", run[p].key) /\ ApiUpload(run[p].key)
      BY <1>1, <2>1 DEF Upload, Sends, At, Holds
    <3> QED BY <1>1, <3>1, UploadTells
  <2>2. CASE UploadRefused(p) \/ Refresh(p)
    BY <1>1, <2>2, SubsStay, KeyFacts DEF UploadRefused, Refresh
  <2> QED BY <2>1, <2>2
<1>4. ASSUME NEW r, Become(p, r), r.pc \in {"upload", "refresh", "finalize"},
             r.key = run[p].key, r.req = run[p].req
      PROVE  RunsMove
  <2>1. r.pc \in SendSteps
    BY <1>4 DEF SendSteps
  <2> QED BY <1>1, <1>4, <2>1, GoOn
<1>5. ASSUME Become(p, [run[p] EXCEPT !.pc = "finalize", !.tries = 0, !.refreshed = FALSE])
      PROVE  RunsMove
  <2> DEFINE r == [run[p] EXCEPT !.pc = "finalize", !.tries = 0, !.refreshed = FALSE]
  <2>1. Become(p, r) /\ r.pc = "finalize" /\ r.key = run[p].key /\ r.req = run[p].req
    BY <1>2, <1>5 DEF Sending
  <2> HIDE DEF r
  <2> QED BY <1>4, <2>1
<1>6. ASSUME Become(p, [run[p] EXCEPT !.pc = "refresh", !.refreshed = TRUE])
      PROVE  RunsMove
  <2> DEFINE r == [run[p] EXCEPT !.pc = "refresh", !.refreshed = TRUE]
  <2>1. Become(p, r) /\ r.pc = "refresh" /\ r.key = run[p].key /\ r.req = run[p].req
    BY <1>2, <1>6 DEF Sending
  <2> HIDE DEF r
  <2> QED BY <1>4, <2>1
<1>7. ASSUME Become(p, [run[p] EXCEPT !.pc = "upload"])
      PROVE  RunsMove
  <2> DEFINE r == [run[p] EXCEPT !.pc = "upload"]
  <2>1. Become(p, r) /\ r.pc = "upload" /\ r.key = run[p].key /\ r.req = run[p].req
    BY <1>2, <1>7 DEF Sending
  <2> HIDE DEF r
  <2> QED BY <1>4, <2>1
<1>8. ASSUME End(p, "error")
      PROVE  RunsMove
  BY <1>8, EndRun DEF RunsInv
<1>9. RunsMove
  BY <1>5, <1>6, <1>7, <1>8 DEF Upload, UploadRefused, Refresh, Enter
<1> QED BY <1>1, <1>3, <1>9, LatesStay, AnswersStay DEF Told

LEMMA FinalizeStepTells ==
    ASSUME Alone, RunsInv, NEW p \in Procs, Finalize(p)
    PROVE  Shape
<1>1. /\ run[p].pc = "finalize" /\ run[p].pc \in SendSteps
      /\ UNCHANGED <<clock, late>>
  BY DEF Finalize, At, SendSteps
<1>h. run[p] \in Sending /\ run[p].key \in Keys
  BY <1>1, Held
<1>k. PICK k : k = run[p].key
  OBVIOUS
<1>2. PICK reply \in FinalizeReplies : /\ ApiFinalize(k, reply)
                                       /\ AfterFinalize(p, reply)
  BY <1>k DEF Finalize
<1>3. /\ SubsTell
      /\ SameVersions \/ (reply = "finalized" /\ FinalizedSub(k))
      /\ reply = "submission_expired" => Over(k) /\ sub[k].state # "finalized"
  BY <1>1, <1>2, <1>h, <1>k, FinalizeTells
<1>4. LatesTell
  BY <1>1, LatesStay
<1>e. ASSUME NEW out, End(p, out), UNCHANGED attempt
      PROVE  Told
  BY <1>3, <1>4, <1>e, EndRun, AnswersStay DEF RunsInv, Told
<1>5. CASE reply = "submission_expired" /\ StartAgain(p)
  BY <1>1, <1>k, <1>3, <1>4, <1>5, StartAgainTells DEF Told, Shape
<1>6. CASE /\ UNCHANGED <<file, attempt>> /\ reply = "upload_missing"
           /\ Become(p, [run[p] EXCEPT !.waits = @ + 1, !.tries = 0])
  <2> DEFINE r == [run[p] EXCEPT !.waits = @ + 1, !.tries = 0]
  <2>1. Become(p, r) /\ r.pc = "finalize" /\ r.key = run[p].key /\ r.req = run[p].req
    BY <1>1, <1>h, <1>6 DEF Sending
  <2> HIDE DEF r
  <2> QED BY <1>1, <1>3, <1>4, <1>6, <2>1, GoOn, AnswersStay DEF Told, Shape
<1>7. CASE /\ reply = "finalized" /\ UNCHANGED attempt
           /\ Follow(p, VersionOf(run[p].key, versions'), TRUE)
  <2>1. RunsMove /\ run'[p].pc \notin SendSteps \cup {"open"} /\ \A q \in Procs : q = p
    BY <1>7, FollowRun DEF RunsInv
  <2>2. FinalizedSub(k) => Delivers(k)
    BY <1>7, <2>1 DEF FinalizedSub, Delivers
  <2> QED BY <1>h, <1>k, <1>3, <1>4, <1>7, <2>1, <2>2, AnswersStay DEF Told, Shape
<1>8. CASE reply # "finalized" /\ reply # "submission_expired" /\ reply # "upload_missing"
  BY <1>2, <1>3, <1>8, <1>e DEF AfterFinalize, Shape
<1>9. CASE reply = "submission_expired" /\ End(p, "error") /\ UNCHANGED attempt
  BY <1>3, <1>9, <1>e DEF Shape
<1>10. CASE reply = "upload_missing" /\ End(p, "error") /\ UNCHANGED attempt
  BY <1>3, <1>10, <1>e DEF Shape
<1> QED BY <1>2, <1>5, <1>6, <1>7, <1>8, <1>9, <1>10 DEF AfterFinalize

(* The steps of the others leave the run where it is.                      *)
LEMMA SameRun ==
    ASSUME UNCHANGED run,
           \/ UNCHANGED <<clock, file>>
           \/ \A p \in Procs : run[p].pc # "open"
    PROVE  RunsMove
BY DEF RunsMove, Onward, Waits

LEMMA LateTells ==
    ASSUME RunsInv, NEW m \in Message, LateArrival(m)
    PROVE  Shape
<1>1. /\ UNCHANGED <<clock, file, run, attempt>> /\ late' \subseteq late
      /\ m \in late /\ m.key \in Keys
  BY DEF LateArrival, Message
<1>2. LatesTell /\ AnswersTell /\ RunsMove
  BY <1>1, LatesStay, AnswersStay, SameRun
<1>3. ASSUME NEW reply, ApiCreate(m.key, attempt[m.key].req, reply),
             m.kind = "create", UNCHANGED versions
      PROVE  Shape
  <2>1. m = [kind |-> "create", key |-> m.key]
    BY <1>3 DEF Message
  <2>2. LateCreate(m.key)
    BY <1>1, <2>1 DEF LateCreate
  <2>3. Used(m.key)
    BY <1>1, <2>2, KeyFacts
  <2> QED BY <1>1, <1>2, <1>3, <2>2, <2>3, CreateTells DEF Shape, Told
<1>4. CASE m.kind = "upload" /\ ApiUpload(m.key) /\ UNCHANGED versions
  <2>1. m = [kind |-> "upload", key |-> m.key]
    BY <1>4 DEF Message
  <2>2. LateUpload(m.key)
    BY <1>1, <2>1 DEF LateUpload
  <2> QED BY <1>1, <1>2, <1>4, <2>2, UploadTells DEF Shape, Told
<1>5. ASSUME NEW reply, ApiFinalize(m.key, reply)
      PROVE  Shape
  <2>1. SubsTell /\ (SameVersions \/ FinalizedSub(m.key))
    BY <1>1, <1>5, FinalizeTells
  <2>2. FinalizedSub(m.key) => Delivers(m.key)
    BY <1>1 DEF FinalizedSub, Delivers
  <2> QED BY <1>1, <1>2, <2>1, <2>2 DEF Shape, Told
<1> QED BY <1>3, <1>4, <1>5 DEF LateArrival

LEMMA StepShape ==
    ASSUME Alone, RunsInv, [Next]_vars
    PROVE  Shape
<1>0. clock \in Nat
  BY KeyFacts
<1>1. CASE UNCHANGED vars
  <2>1. UNCHANGED <<clock, sub, versions, file, run, late, attempt>>
    BY <1>1 DEF vars
  <2> QED BY <1>0, <2>1, SubsStay, LatesStay, AnswersStay, SameRun DEF Shape, Told
<1>2. ASSUME NEW p \in Procs, (\E r \in Requests : Start(p, r)) \/ Work(p) \/ Crash(p)
      PROVE  Shape
  BY <1>2, LookUpTells, OpenTells, SaveKeepTells, CreateStepTells, CutTells,
     UploadStepTells, FinalizeStepTells DEF Work, Shape
<1>3. CASE \E m \in Message : LateArrival(m)
  BY <1>3, LateTells
<1>4. CASE Service
  <2>1. UNCHANGED <<file, run, late, attempt>> /\ clock' = clock
    BY <1>4 DEF Service, StorageShows, Expire, ChecksEnd, ChecksStuck
  <2> QED BY <1>4, <2>1, ServiceTells, LatesStay, AnswersStay, SameRun DEF Shape, Told
<1>5. CASE Tick
  <2>1. /\ clock' = clock + 1 /\ late' = {}
        /\ UNCHANGED <<sub, versions, file, run, attempt>>
        /\ \A p \in Procs : run[p].pc # "open"
    BY <1>5 DEF Tick
  <2> QED BY <1>0, <2>1, SubsStay, LatesStay, AnswersStay, SameRun DEF Shape, Told
<1> QED BY <1>1, <1>2, <1>3, <1>4, <1>5 DEF Next

-----------------------------------------------------------------------------
(* One version of a request: what the invariant adds to AloneInv.          *)

(* A submission that may still make its request a version, and was not     *)
(* given up, is the one its state file leads to.                           *)
LEMMA Leads ==
    ASSUME RunsInv, AloneInv, NEW k \in Keys,
           \/ Live(k) /\ ~GivenUp(k)
           \/ LateCreate(k) /\ ~GivenUp(k) /\ k \notin DOMAIN sub /\ ~LimitReached
           \/ \E p \in Procs : Holds(p, k) /\ ~At(p, "save")
    PROVE  /\ Name(attempt[k].req) \in DOMAIN file
           /\ file[Name(attempt[k].req)].key = k
<1>1. CASE Kept(k)
  BY <1>1, KeyFacts DEF Kept
<1>2. ASSUME NEW p \in Procs, Holds(p, k)
      PROVE  /\ Name(attempt[k].req) \in DOMAIN file
             /\ file[Name(attempt[k].req)].key = k
  <2>1. run[p].pc \in SendSteps /\ run[p].key = k
    BY <1>2 DEF Holds
  <2>2. attempt[k].req = run[p].req /\ FileLeads(run[p])
    BY <2>1, Held DEF AloneInv
  <2>3. run[p].pc = "save" =>
           \/ Name(run[p].req) \in DOMAIN file /\ file[Name(run[p].req)].key = k
           \/ k \notin DOMAIN sub /\ ~LateCreate(k)
    BY <2>1, <2>2 DEF FileLeads
  <2>4. run[p].pc # "save" =>
           Name(run[p].req) \in DOMAIN file /\ file[Name(run[p].req)].key = k
    BY <2>1, <2>2 DEF FileLeads
  <2>5. CASE \E q \in Procs : Holds(q, k) /\ ~At(q, "save")
    <3>1. PICK q \in Procs : Holds(q, k) /\ ~At(q, "save")
      BY <2>5
    <3> QED BY <3>1, Held DEF AloneInv, FileLeads, Holds, At
  <2> QED BY <2>2, <2>3, <2>4, <2>5 DEF Live, Pending
<1>3. Kept(k) \/ \E p \in Procs : Holds(p, k)
  BY DEF AloneInv, NothingLost, Over, Live, Pending
<1> QED BY <1>1, <1>2, <1>3

LEMMA OnlyOne ==
    ASSUME RunsInv, AloneInv, NEW j \in Keys, NEW k \in Keys,
           Live(j), ~GivenUp(j), Live(k), ~GivenUp(k), sub[j].body = sub[k].body
    PROVE  j = k
<1>1. sub[j].body = attempt[j].req /\ sub[k].body = attempt[k].req
  BY DEF RunsInv, KeyOfOneRequest, Live, Pending
<1> QED BY <1>1, Leads

(* Only an attempt that was answered for sends its upload; once a request  *)
(* is the newest version, no other submission of it may make one, and a    *)
(* run of it that is past its look-up works on that version's submission.  *)
UploadsAnswered ==
    /\ \A k \in DOMAIN sub : sub[k].upload # "none" => attempt[k].answered
    /\ \A k \in Keys : LateUpload(k) => attempt[k].answered

Newest == versions[Len(versions)].key
IsNewest(r) == Len(versions) > 0 /\ Body(Len(versions)) = r

Settled ==
    /\ \A k \in DOMAIN sub : Live(k) /\ IsNewest(sub[k].body) => ~attempt[k].answered
    /\ \A p \in Procs : At(p, "open") /\ IsNewest(run[p].req) =>
          Resumable(Name(run[p].req)) /\ file[Name(run[p].req)].key = Newest
    /\ \A p \in Procs : run[p].pc \in SendSteps /\ IsNewest(run[p].req) =>
          run[p].key = Newest

SettledInv == UploadsAnswered /\ Settled /\ OneVersionPerRequest

LEMMA VersionFacts ==
    ASSUME RunsInv, AloneInv
    PROVE  /\ Len(versions) \in Nat
           /\ \A i \in 1 .. Len(versions) :
                /\ versions[i].key \in DOMAIN sub
                /\ sub[versions[i].key].state = "finalized"
                /\ ~Live(versions[i].key)
BY DEF RunsInv, TypeOK, ApiTypeOK, VersionsExist, AloneInv, VersionsFinal, Live, Pending

LEMMA UploadsStep ==
    ASSUME RunsInv, RunsInv', AloneInv, UploadsAnswered, Told
    PROVE  UploadsAnswered'
<1>1. \A p \in Procs, k \in Keys : Sends(p, "upload", k) => attempt[k].answered /\ Used(k)
  BY DEF Sends, At, Holds, AloneInv, RunTells, Used
<1>2. \A k \in Keys : LateUpload(k) => Used(k)
  BY DEF LateUpload, Used
<1>3. ASSUME NEW k \in Keys, LateUpload(k)'
      PROVE  attempt'[k].answered
  <2>1. Used(k) /\ attempt[k].answered
    BY <1>1, <1>2, <1>3 DEF Told, LatesTell, UploadsAnswered
  <2> QED BY <2>1 DEF Told, AnswersTell
<1>4. ASSUME NEW k \in DOMAIN sub', sub'[k].upload # "none"
      PROVE  attempt'[k].answered
  <2>1. k \in DOMAIN sub
    BY <1>4 DEF Told, SubsTell
  <2>2. k \in Keys /\ Used(k)
    BY <2>1, KeyFacts
  <2>3. attempt[k].answered
    BY <1>1, <1>4, <2>1, <2>2 DEF Told, SubsTell, UploadsAnswered
  <2> QED BY <2>2, <2>3 DEF Told, AnswersTell
<1> QED BY <1>3, <1>4 DEF UploadsAnswered

(* A submission is answered for on the API, and late, only by its key.     *)
LEMMA NewAnswers ==
    ASSUME RunsInv, RunsInv', AloneInv, Told, NEW k \in Keys, Live(k)', attempt'[k].answered
    PROVE  /\ Live(k) /\ sub'[k].body = sub[k].body
           /\ \/ attempt[k].answered
              \/ \E p \in Procs : Sends(p, "keep", k)
<1>1. Live(k) \/ Enters(k)
  BY DEF Told, SubsTell
<1>2. ASSUME Enters(k)
      PROVE  FALSE
  <2>1. Used(k) /\ k \notin DOMAIN sub
    BY <1>2, KeyFacts DEF Enters, Sends, Used
  <2>2. attempt[k].answered \/ \E p \in Procs : Sends(p, "keep", k)
    BY <2>1 DEF Told, AnswersTell
  <2>3. \A p \in Procs : Sends(p, "keep", k) => k \in DOMAIN sub
    BY DEF Sends, At, Holds, AloneInv, RunTells
  <2>4. k \in DOMAIN attempt
    BY <2>1 DEF RunsInv, UsedKeysKnown
  <2> QED BY <2>1, <2>2, <2>3, <2>4 DEF AloneInv, AttemptsOnApi
<1>3. Live(k) /\ k \in DOMAIN sub /\ Used(k)
  BY <1>1, <1>2, KeyFacts DEF Live, Pending
<1> QED BY <1>3 DEF Told, SubsTell, AnswersTell

(* A step that makes no version.                                           *)
LEMMA SettledStays ==
    ASSUME RunsInv, RunsInv', AloneInv, SettledInv, Told, SameVersions
    PROVE  SettledInv'
<1>1. UploadsAnswered'
  BY UploadsStep DEF SettledInv
<1>2. \A i \in 1 .. Len(versions) : Body(i)' = Body(i)
  BY VersionFacts DEF SameVersions, Told, SubsTell, Body
<1>3. OneVersionPerRequest'
  BY <1>2, VersionFacts DEF SettledInv, OneVersionPerRequest, SameVersions
<1>4. (\A r : IsNewest(r)' => IsNewest(r)) /\ (Len(versions) > 0 => Newest' = Newest)
  BY <1>2, VersionFacts DEF IsNewest, Newest, SameVersions
<1>5. ASSUME NEW k \in DOMAIN sub', Live(k)', IsNewest(sub[k].body)'
      PROVE  ~attempt'[k].answered
  <2> SUFFICES ASSUME attempt'[k].answered
               PROVE  FALSE
    OBVIOUS
  <2>1. k \in Keys
    BY DEF RunsInv, TypeOK, ApiTypeOK, PartialFunction
  <2>2. /\ Live(k) /\ sub'[k].body = sub[k].body
        /\ \/ attempt[k].answered
           \/ \E p \in Procs : Sends(p, "keep", k)
    BY <1>5, <2>1, NewAnswers
  <2>3. IsNewest(sub[k].body) /\ k \in DOMAIN sub
    BY <1>4, <1>5, <2>2 DEF Live, Pending
  <2>4. PICK p \in Procs : Sends(p, "keep", k)
    BY <2>2, <2>3 DEF SettledInv, Settled
  <2>5. run[p].pc \in SendSteps /\ run[p].key = k /\ attempt[k].req = run[p].req
    BY <2>4, Held DEF Sends, Holds
  <2>6. sub[k].body = run[p].req
    BY <2>3, <2>5 DEF RunsInv, KeyOfOneRequest
  <2>7. k = Newest
    BY <2>3, <2>5, <2>6 DEF SettledInv, Settled
  <2> QED BY <2>2, <2>3, <2>7, VersionFacts DEF Newest, IsNewest
<1>6. ASSUME NEW p \in Procs, run'[p].pc \in SendSteps \cup {"open"}, IsNewest(run[p].req)'
      PROVE  /\ run'[p].pc = "open" =>
                   /\ Resumable(Name(run[p].req))'
                   /\ (file[Name(run[p].req)].key = Newest)'
             /\ run'[p].pc \in SendSteps => run'[p].key = Newest'
  <2>1. IsNewest(run'[p].req) /\ Newest' = Newest
    BY <1>4, <1>6 DEF IsNewest
  <2>2. CASE Waits(p)
    <3>1. Resumable(Name(run[p].req)) /\ file[Name(run[p].req)].key = Newest
      BY <2>1, <2>2 DEF Waits, SettledInv, Settled, At
    <3>2. run'[p].pc \notin SendSteps
      BY <2>2 DEF Waits, SendSteps
    <3> QED BY <2>1, <2>2, <3>1, <3>2 DEF Waits, Resumable, Stale, Age, Name
  <2>3. CASE Looked(p)
    BY <2>1, <2>3 DEF Looked, IsNewest
  <2>4. CASE Opens(p)
    <3>1. Resumable(Name(run[p].req)) /\ file[Name(run[p].req)].key = Newest
      BY <2>1, <2>4 DEF Opens, SettledInv, Settled, At
    <3>2. run'[p].pc # "open"
      BY <2>4 DEF Opens, SendSteps
    <3> QED BY <2>1, <2>4, <3>1, <3>2 DEF Opens
  <2>5. CASE Onward(p)
    <3>1. run[p].key = Newest /\ run'[p].pc # "open"
      BY <2>1, <2>5 DEF Onward, SettledInv, Settled, SendSteps
    <3>2. sub[Newest].state = "finalized"
      BY <2>1, VersionFacts DEF Newest, IsNewest
    <3> QED BY <2>1, <2>5, <3>1, <3>2 DEF Onward
  <2> QED BY <1>6, <2>2, <2>3, <2>4, <2>5 DEF Told, RunsMove
<1>7. Settled'
  BY <1>5, <1>6 DEF Settled, At
<1> QED BY <1>1, <1>3, <1>7 DEF SettledInv

(* The step that makes one.                                                *)
LEMMA SettledDelivers ==
    ASSUME RunsInv, RunsInv', AloneInv, SettledInv, Told, NEW k \in Keys, Delivers(k)
    PROVE  SettledInv'
<1>n. PICK n : n = Len(versions)
  OBVIOUS
<1>r. PICK r : r = sub[k].body
  OBVIOUS
<1>1. UploadsAnswered'
  BY UploadsStep DEF SettledInv
<1>2. /\ k \in DOMAIN sub /\ Live(k) /\ attempt[k].answered /\ ~GivenUp(k)
      /\ attempt[k].req = r
  BY <1>r DEF Delivers, Live, Pending, SettledInv, UploadsAnswered, GivenUp, RunsInv, KeyOfOneRequest
<1>3. /\ Len(versions') = n + 1 /\ n \in Nat
      /\ \A i \in 1 .. n : Body(i)' = Body(i)
      /\ Body(n + 1)' = r
      /\ Newest' = k
  <2>1. \A i \in 1 .. n : versions[i].key \in DOMAIN sub
    BY <1>n, VersionFacts
  <2>2. \A j \in DOMAIN sub : sub'[j].body = sub[j].body
    BY DEF Told, SubsTell
  <2> QED BY <1>n, <1>r, <1>2, <2>1, <2>2, VersionFacts DEF Delivers, Body, Newest
<1>4. \A s : IsNewest(s)' => s = r
  BY <1>3 DEF IsNewest
<1>5. OneVersionPerRequest'
  <2>1. n > 0 => Body(n) # r
    BY <1>n, <1>r, <1>2 DEF SettledInv, Settled, IsNewest
  <2> QED BY <1>n, <1>3, <2>1 DEF SettledInv, OneVersionPerRequest
<1>6. ASSUME NEW j \in DOMAIN sub', Live(j)', IsNewest(sub[j].body)'
      PROVE  ~attempt'[j].answered
  <2>1. j \in DOMAIN sub /\ j # k /\ sub'[j] = sub[j] /\ clock' = clock /\ j \in Keys
    BY <1>6, KeyFacts DEF Delivers
  <2>2. Live(j) /\ sub[j].body = r
    BY <1>4, <1>6, <2>1 DEF Live, Pending
  <2>3. ~attempt[j].answered
    BY <1>r, <1>2, <2>1, <2>2, OnlyOne DEF GivenUp
  <2> QED BY <2>3 DEF Delivers
<1>7. /\ Name(r) \in DOMAIN file /\ file[Name(r)].key = k
      /\ Resumable(Name(r))
  <2>1. Name(r) \in DOMAIN file /\ file[Name(r)].key = k
    BY <1>2, Leads
  <2>2. file[Name(r)].answered
    BY <1>2, <2>1 DEF AloneInv, FilesTell
  <2>3. Name(r) \notin Stale
    <3>1. ASSUME Name(r) \in Stale
          PROVE  Over(k) \/ GivenUp(k)
      BY <2>1, <3>1, StaleGone
    <3> QED BY <1>2, <3>1 DEF Over
  <2> QED BY <2>1, <2>2, <2>3 DEF Resumable
<1>8. ASSUME NEW p \in Procs, run'[p].pc \in SendSteps \cup {"open"}, IsNewest(run[p].req)'
      PROVE  /\ run'[p].pc = "open" =>
                   /\ Resumable(Name(run[p].req))'
                   /\ (file[Name(run[p].req)].key = Newest)'
             /\ run'[p].pc \in SendSteps => run'[p].key = Newest'
  <2>1. run'[p] = run[p] /\ file' = file /\ clock' = clock /\ run[p].req = r
    BY <1>4, <1>8 DEF Delivers
  <2>2. ASSUME run[p].pc \in SendSteps
        PROVE  run[p].key = k
    <3>1. FileLeads(run[p])
      BY <2>2 DEF AloneInv
    <3> QED BY <1>2, <1>7, <2>1, <3>1 DEF FileLeads, Over
  <2> QED BY <1>3, <1>7, <2>1, <2>2 DEF Resumable, Stale, Age, Name
<1>9. Settled'
  BY <1>6, <1>8 DEF Settled, At
<1> QED BY <1>1, <1>5, <1>9 DEF SettledInv

(* With one run at a time, only answered attempts upload, the newest       *)
(* version's request has no other submission that could make one, and its  *)
(* versions never follow each other.                                       *)
THEOREM SettledInvHolds ==
    ASSUME Alone
    PROVE  Spec => []SettledInv
<1>1. Init => SettledInv
  <2> SUFFICES ASSUME Init
               PROVE  SettledInv
    OBVIOUS
  <2>1. /\ DOMAIN sub = {} /\ late = {} /\ Len(versions) = 0
    BY DEF Init, ApiInit
  <2>2. UploadsAnswered /\ Settled
    BY <2>1 DEF UploadsAnswered, Settled, LateUpload, IsNewest
  <2> QED BY <2>1, <2>2 DEF SettledInv, OneVersionPerRequest
<1>2. RunsInv /\ RunsInv' /\ AloneInv /\ SettledInv /\ [Next]_vars => SettledInv'
  BY StepShape, SettledStays, SettledDelivers DEF Shape
<1> QED BY <1>1, <1>2, RunsInvHolds, AloneInvHolds, PTL DEF Spec

(* However the runs of a request are cut, retried and resumed, one at a    *)
(* time, it never makes two versions in a row: its submissions are all of  *)
(* the key its state file leads to, and a run that does not find its       *)
(* version resumes the submission that made it.                            *)
THEOREM OneVersion ==
    ASSUME Alone
    PROVE  Spec => []OneVersionPerRequest
<1>1. SettledInv => OneVersionPerRequest
  BY DEF SettledInv
<1> QED BY <1>1, SettledInvHolds, PTL

-----------------------------------------------------------------------------
(* The runs implement the ledger.                                          *)

(* The two mappings of the ledger: what it calls open, and made.           *)
Waiting(r) == {k \in DOMAIN sub : sub[k].body = r /\ Live(k) /\ ~GivenUp(k)}
Made == [i \in 1 .. Len(versions) |-> Body(i)]

LEMMA TimeGoesOn ==
    ASSUME RunsInv, [Next]_vars
    PROVE  clock \in Nat /\ clock' \in Nat /\ clock <= clock'
<1>0. clock \in Nat
  BY KeyFacts
<1>1. clock' = clock \/ clock' = clock + 1
  BY DEF Next, vars, Start, Work, Look, LookFails, Open, Save, Create, CreateCut, Keep,
         Upload, UploadRefused, UploadCut, Refresh, Finalize, FinalizeCut, Recall,
         FollowDone, FollowStops, Cut, Crash, LateArrival, Service, StorageShows, Expire,
         ChecksEnd, ChecksStuck, Tick
<1> QED BY <1>0, <1>1

(* At most one submission of a request waits.                              *)
LEMMA OneWaits ==
    ASSUME RunsInv, AloneInv, NEW r, NEW j \in Waiting(r), NEW k \in Waiting(r)
    PROVE  j = k
<1>1. j \in Keys /\ k \in Keys
  BY KeyFacts DEF Waiting
<1> QED BY <1>1, OnlyOne DEF Waiting

(* One that starts to wait is new, or was given up and is answered for     *)
(* late: nothing else moves.                                               *)
Arrives(k) ==
    /\ k \in DOMAIN sub' \ Waiting(sub'[k].body)
    /\ clock' = clock
    /\ \A j \in DOMAIN sub : j # k =>
          j \in DOMAIN sub' /\ sub'[j] = sub[j] /\ (GivenUp(j)' <=> GivenUp(j))
    /\ DOMAIN sub' = DOMAIN sub \cup {k}
    /\ Waiting(sub'[k].body) = {}

LEMMA Arrival ==
    ASSUME Alone, RunsInv, RunsInv', AloneInv, AloneInv', [Next]_vars,
           NEW r, NEW k \in Waiting(r)', k \notin Waiting(r)
    PROVE  Arrives(k) /\ sub'[k].body = r
<1>1. Told
  BY StepShape DEF Shape
<1>2. k \in DOMAIN sub' /\ sub'[k].body = r /\ Live(k)' /\ ~GivenUp(k)' /\ k \in Keys
  BY DEF Waiting, RunsInv, TypeOK, ApiTypeOK, PartialFunction
<1>3. Live(k) \/ Enters(k)
  BY <1>1, <1>2 DEF Told, SubsTell
<1>4. Used(k)
  BY <1>2, <1>3, KeyFacts DEF Enters, Sends, Used, Live, Pending
<1>5. attempt'[k].req = r /\ attempt[k].req = r /\ k \in DOMAIN attempt
  <2>1. attempt'[k].req = r
    BY <1>2 DEF RunsInv, KeyOfOneRequest
  <2> QED BY <1>1, <1>2, <1>4, <2>1 DEF Told, AnswersTell, RunsInv, UsedKeysKnown
<1>6. ASSUME NEW p \in Procs, Sends(p, "keep", k)
      PROVE  Holds(p, k) /\ ~At(p, "save")
  BY <1>6 DEF Sends, At
<1>7. ASSUME NEW j \in Keys, Used(j), clock' = clock,
             attempt'[j].answered => attempt[j].answered
      PROVE  GivenUp(j)' <=> GivenUp(j)
  <2>1. /\ attempt'[j].at = attempt[j].at
        /\ attempt'[j].answered <=> attempt[j].answered
    BY <1>1, <1>7 DEF Told, AnswersTell
  <2> QED BY <1>7, <2>1 DEF GivenUp
<1>8. ASSUME NEW j \in Waiting(r), Name(r) \in DOMAIN file, file[Name(r)].key = k
      PROVE  FALSE
  <2>1. j \in Keys /\ Live(j) /\ ~GivenUp(j) /\ attempt[j].req = r
    BY KeyFacts DEF Waiting, RunsInv, KeyOfOneRequest
  <2>2. j = k
    BY <1>8, <2>1, Leads
  <2> QED BY <2>2
<1>9. CASE Enters(k)
  <2>1. \A j \in Keys : Used(j) => (attempt'[j].answered => attempt[j].answered)
    <3>1. sub' # sub
      BY <1>2, <1>9 DEF Enters
    <3> QED BY <1>1, <3>1 DEF Told, AnswersTell
  <2>2. clock' = clock /\ k \notin DOMAIN sub /\ ~LimitReached
    BY <1>9 DEF Enters
  <2>3. ~GivenUp(k)
    BY <1>2, <1>4, <1>7, <2>1, <2>2
  <2>4. LateCreate(k) \/ \E p \in Procs : Holds(p, k) /\ ~At(p, "save")
    BY <1>9 DEF Enters, Sends, At
  <2>5. Name(r) \in DOMAIN file /\ file[Name(r)].key = k
    BY <1>2, <1>5, <2>2, <2>3, <2>4, Leads
  <2>6. Waiting(r) = {}
    BY <1>8, <2>5
  <2>7. \A j \in DOMAIN sub : GivenUp(j)' <=> GivenUp(j)
    BY <1>7, <2>1, <2>2, KeyFacts
  <2> QED BY <1>2, <1>9, <2>2, <2>6, <2>7 DEF Enters, Arrives
<1>10. CASE ~Enters(k)
  <2>1. Live(k) /\ k \in DOMAIN sub /\ sub[k].body = r
    BY <1>1, <1>2, <1>3, <1>10 DEF Live, Pending, Told, SubsTell
  <2>2. GivenUp(k)
    BY <2>1 DEF Waiting
  <2>3. attempt'[k].answered /\ ~attempt[k].answered
    <3>1. attempt'[k].at = attempt[k].at /\ attempt[k].at \in Nat
      BY <1>1, <1>2, <1>4, <1>5, KeyFacts DEF Told, AnswersTell
    <3>2. clock' - attempt'[k].at >= PendingLifetime
      BY <2>2, <3>1, TimeGoesOn, TimesType DEF GivenUp
    <3> QED BY <1>2, <2>2, <3>2 DEF GivenUp
  <2>4. PICK p \in Procs : UNCHANGED <<clock, sub>> /\ Sends(p, "keep", k)
    BY <1>1, <1>2, <1>4, <2>3 DEF Told, AnswersTell
  <2>5. Name(r) \in DOMAIN file /\ file[Name(r)].key = k
    BY <1>2, <1>5, <1>6, <2>4, Leads
  <2>6. Waiting(r) = {}
    BY <1>8, <2>5
  <2>7. \A j \in Keys : Used(j) /\ j # k => (attempt'[j].answered => attempt[j].answered)
    <3>1. \A j : \A q \in Procs : Sends(q, "keep", j) => j = k
      BY <2>4 DEF Sends, Holds, Alone
    <3> QED BY <1>1, <3>1 DEF Told, AnswersTell
  <2>8. \A j \in DOMAIN sub : j # k => (GivenUp(j)' <=> GivenUp(j))
    BY <1>7, <2>4, <2>7, KeyFacts
  <2> QED BY <1>2, <2>1, <2>4, <2>6, <2>8 DEF Arrives
<1> QED BY <1>2, <1>9, <1>10

LEMMA ArrivalOpens ==
    ASSUME Alone, RunsInv, RunsInv', AloneInv, AloneInv', [Next]_vars,
           NEW r, NEW k \in Waiting(r)', k \notin Waiting(r)
    PROVE  /\ k \in Keys /\ Waiting(r) = {} /\ Waiting(r)' = {k}
           /\ \A s : s # r => Waiting(s)' = Waiting(s)
<1>1. Arrives(k) /\ sub'[k].body = r /\ k \in Keys /\ Waiting(r) = {}
  BY Arrival DEF Arrives, RunsInv, TypeOK, ApiTypeOK, PartialFunction
<1>2. ASSUME NEW s, NEW j, j # k
      PROVE  j \in Waiting(s)' <=> j \in Waiting(s)
  BY <1>1, <1>2 DEF Arrives, Waiting, Live, Pending
<1>3. \A s : s # r => k \notin Waiting(s)' /\ k \notin Waiting(s)
  <2>1. k \in DOMAIN sub => sub[k].body = r
    BY <1>1, StepShape DEF Shape, Told, SubsTell
  <2> QED BY <1>1, <2>1 DEF Waiting
<1> QED BY <1>1, <1>2, <1>3

(* A version closes its submission, and leaves the others open.            *)
LEMMA DeliveryCloses ==
    ASSUME Alone, RunsInv, RunsInv', AloneInv, SettledInv, [Next]_vars,
           NEW k \in Keys, Delivers(k), NEW r, r = sub[k].body
    PROVE  /\ Waiting(r) = {k} /\ Waiting(r)' = {}
           /\ \A s : s # r => Waiting(s)' = Waiting(s)
           /\ ~IsNewest(r)
<1>1. k \in DOMAIN sub /\ Live(k) /\ attempt[k].answered /\ ~GivenUp(k) /\ ~Live(k)'
  BY DEF Delivers, Live, Pending, SettledInv, UploadsAnswered, GivenUp
<1>2. ~IsNewest(r)
  BY <1>1 DEF SettledInv, Settled
<1>3. Waiting(r) = {k}
  <2>1. k \in Waiting(r)
    BY <1>1 DEF Waiting
  <2> QED BY <2>1, OneWaits
<1>4. ASSUME NEW s, NEW j, j # k
      PROVE  j \in Waiting(s)' <=> j \in Waiting(s)
  BY <1>4 DEF Delivers, Waiting, Live, Pending, GivenUp
<1>5. \A s : k \notin Waiting(s)' /\ (s # r => k \notin Waiting(s))
  BY <1>1 DEF Waiting
<1> QED BY <1>2, <1>3, <1>4, <1>5

LEMMA MadeStays ==
    ASSUME RunsInv, AloneInv, Told, SameVersions
    PROVE  Made' = Made
<1>1. \A i \in 1 .. Len(versions) : Body(i)' = Body(i)
  BY VersionFacts DEF SameVersions, Told, SubsTell, Body
<1> QED BY <1>1 DEF SameVersions, Made

LEMMA MadeGrows ==
    ASSUME RunsInv, RunsInv', AloneInv, Told, NEW k \in Keys, Delivers(k)
    PROVE  /\ Made' = Append(Made, sub[k].body)
           /\ Made # <<>> => IsNewest(Made[Len(Made)])
<1>n. PICK n : n = Len(versions)
  OBVIOUS
<1>r. PICK r : r = sub[k].body
  OBVIOUS
<1>1. /\ Len(versions') = n + 1 /\ n \in Nat
      /\ \A i \in 1 .. n : Body(i)' = Body(i) /\ Body(i) \in Requests
      /\ Body(n + 1)' = r /\ r \in Requests
  <2>1. \A i \in 1 .. n : versions[i].key \in DOMAIN sub
    BY <1>n, VersionFacts
  <2>2. \A j \in DOMAIN sub : sub'[j].body = sub[j].body /\ sub[j].body \in Requests
    BY KeyFacts DEF Told, SubsTell, Submission
  <2>3. k \in DOMAIN sub
    BY DEF Delivers, Live, Pending
  <2> QED BY <1>n, <1>r, <2>1, <2>2, <2>3, VersionFacts DEF Delivers, Body
<1>2. /\ Made \in Seq(Requests) /\ Len(Made) = n
      /\ \A i \in 1 .. n : Made[i] = Body(i)
  BY <1>n, <1>1 DEF Made
<1>3. /\ Made' \in Seq(Requests) /\ Len(Made') = n + 1
      /\ \A i \in 1 .. n : Made'[i] = Body(i)
      /\ Made'[n + 1] = r
  BY <1>1 DEF Made
<1>4. Made' = Append(Made, r)
  BY <1>1, <1>2, <1>3
<1>5. Made # <<>> => IsNewest(Made[Len(Made)])
  BY <1>n, <1>1, <1>2 DEF IsNewest
<1> QED BY <1>r, <1>4, <1>5

LEMMA LedgerStep ==
    ASSUME Alone, RunsInv, RunsInv', AloneInv, AloneInv', SettledInv, [Next]_vars
    PROVE  [Ledger!Next]_(Ledger!vars)
<1> DEFINE opened == [r \in Requests |-> Waiting(r)]
<1>1. Shape
  BY StepShape
<1>2. ASSUME NEW k \in Keys, Delivers(k)
      PROVE  \E r \in Requests : Ledger!Deliver(r)
  <2>1. PICK r : r = sub[k].body
    OBVIOUS
  <2>2. r \in Requests
    BY <1>2, <2>1, KeyFacts DEF Delivers, Live, Pending, Submission
  <2>3. /\ Waiting(r) = {k} /\ Waiting(r)' = {}
        /\ \A s : s # r => Waiting(s)' = Waiting(s)
        /\ ~IsNewest(r)
    BY <1>2, <2>1, DeliveryCloses
  <2>4. Made' = Append(Made, r) /\ (Made # <<>> => Made[Len(Made)] # r)
    BY <1>1, <1>2, <2>1, <2>3, MadeGrows DEF Shape
  <2>5. opened' = [opened EXCEPT ![r] = {}]
    BY <2>2, <2>3
  <2> QED BY <2>2, <2>3, <2>4, <2>5 DEF Ledger!Deliver, Ledger!Last, Made, Waiting
<1>3. ASSUME SameVersions, NEW r \in Requests, NEW k \in Waiting(r)', k \notin Waiting(r)
      PROVE  Ledger!Begin(r)
  <2>1. /\ k \in Keys /\ Waiting(r) = {} /\ Waiting(r)' = {k}
        /\ \A s : s # r => Waiting(s)' = Waiting(s)
    BY <1>3, ArrivalOpens
  <2>2. opened' = [opened EXCEPT ![r] = {k}]
    BY <2>1
  <2>3. Made' = Made
    BY <1>1, <1>3, MadeStays DEF Shape
  <2> QED BY <2>1, <2>2, <2>3 DEF Ledger!Begin, Made, Waiting
<1>4. ASSUME SameVersions, \A r \in Requests : Waiting(r)' \subseteq Waiting(r)
      PROVE  \E R \in SUBSET Requests : Ledger!Close(R)
  <2>r. PICK R : R = {r \in Requests : Waiting(r)' = {}}
    OBVIOUS
  <2>1. ASSUME NEW r \in Requests, r \notin R
        PROVE  Waiting(r)' = Waiting(r)
    BY <1>4, <2>r, <2>1, OneWaits
  <2>2. opened' = [r \in Requests |-> IF r \in R THEN {} ELSE opened[r]]
    BY <2>r, <2>1
  <2>3. Made' = Made
    BY <1>1, <1>4, MadeStays DEF Shape
  <2>4. R \in SUBSET Requests
    BY <2>r
  <2>5. Ledger!Close(R)
    BY <2>2, <2>3 DEF Ledger!Close, Made, Waiting
  <2> QED BY <2>4, <2>5
<1> QED BY <1>1, <1>2, <1>3, <1>4 DEF Shape, Ledger!Next

(* With one run at a time, the runs, the state file and the API implement  *)
(* the ledger: a submission of a request is open only when no other one    *)
(* is, it closes when it makes its version, and no version of the request  *)
(* follows at once.                                                        *)
THEOREM LedgerKept ==
    ASSUME Alone
    PROVE  Spec => LedgerSpec
<1>1. Init => Ledger!Init
  BY DEF Init, ApiInit, Ledger!Init
<1>2. /\ RunsInv /\ RunsInv' /\ AloneInv /\ AloneInv' /\ SettledInv /\ [Next]_vars
      => [Ledger!Next]_(Ledger!vars)
  BY LedgerStep
<1> QED BY <1>1, <1>2, RunsInvHolds, AloneInvHolds, SettledInvHolds, PTL
        DEF Spec, LedgerSpec, Ledger!Spec


-----------------------------------------------------------------------------
(* What a run ends on is true, with any number of runs.                    *)

(* A run that follows a version follows one of its widget files.           *)
FollowsOwn ==
    \A p \in Procs : At(p, "follow") => Body(run[p].version).files = run[p].req.files

EndsInv == VersionsFinal /\ FollowsOwn

(* A version, its submission and their request are there to stay.          *)
Lasting ==
    /\ SubGood /\ VersionsGood
    /\ \A j \in DOMAIN sub : sub[j].state = "finalized" => sub'[j].state = "finalized"
    /\ \A i \in 1 .. Len(versions') :
          \/ i \in 1 .. Len(versions) /\ versions'[i].key = versions[i].key
          \/ sub'[versions'[i].key].state = "finalized"

LEMMA CreateLasts ==
    ASSUME RunsInv, NEW k \in Keys, Used(k), NEW reply,
           ApiCreate(k, attempt[k].req, reply), UNCHANGED <<clock, versions>>
    PROVE  Lasting
<1>1. SubGood /\ VersionsGood
  BY ApiCreateGood
<1>2. \A j \in DOMAIN sub : sub'[j] = sub[j]
  BY DEF ApiCreate, Put
<1> QED BY <1>1, <1>2 DEF Lasting

LEMMA StepLasts ==
    ASSUME RunsInv, RunsInv', [Next]_vars
    PROVE  Lasting
<1>1. CASE UNCHANGED <<sub, versions>>
  BY <1>1 DEF Lasting, SubGood, VersionsGood, RunsInv, TypeOK, VersionsExist
<1>2. ASSUME SubMoves, SubGood, VersionsGood
      PROVE  Lasting
  BY <1>2 DEF Lasting, SubMoves
<1>3. ASSUME NEW p \in Procs, Create(p)
      PROVE  Lasting
  <2>1. run[p].pc \in SendSteps
    BY <1>3 DEF Create, At, SendSteps
  <2> QED BY <1>3, <2>1, Held, CreateLasts DEF Create
<1>4. ASSUME NEW p \in Procs, Upload(p) \/ Finalize(p)
      PROVE  Lasting
  <2>1. run[p].pc \in SendSteps
    BY <1>4 DEF Upload, Finalize, At, SendSteps
  <2> QED BY <1>2, <1>4, <2>1, Held, UploadMoves, ApiUploadGood, FinalizeMoves, ApiFinalizeGood
          DEF Upload, Finalize
<1>5. ASSUME NEW m \in Message, LateArrival(m)
      PROVE  Lasting
  <2>1. m.key \in Keys /\ Used(m.key)
    BY <1>5 DEF LateArrival, Message, Used
  <2> QED BY <1>2, <1>5, <2>1, CreateLasts, UploadMoves, ApiUploadGood, FinalizeMoves, ApiFinalizeGood
          DEF LateArrival
<1>6. CASE Service
  BY <1>2, <1>6, ServiceMoves, ServiceGood
<1>7. ASSUME NEW p \in Procs,
             \/ (\E r \in Requests : Start(p, r)) \/ Crash(p)
             \/ Look(p) \/ LookFails(p) \/ Open(p) \/ Save(p) \/ CreateCut(p) \/ Keep(p)
             \/ UploadRefused(p) \/ UploadCut(p) \/ Refresh(p) \/ FinalizeCut(p)
             \/ Recall(p) \/ FollowDone(p) \/ FollowStops(p)
      PROVE  UNCHANGED <<sub, versions>>
  BY <1>7 DEF Start, Crash, Look, LookFails, Open, Save, CreateCut, Keep, UploadRefused,
              UploadCut, Refresh, FinalizeCut, Recall, FollowDone, FollowStops, Cut
<1>8. Tick \/ UNCHANGED vars => UNCHANGED <<sub, versions>>
  BY DEF Tick, vars
<1> QED BY <1>1, <1>3, <1>4, <1>5, <1>6, <1>7, <1>8 DEF Next, Work

(* What a step of a run ends on, or follows.                               *)
TrueStep(p) ==
    /\ run'[p].pc = "idle" => TrueWords(p, run'[p].out)
    /\ run'[p].pc = "follow" =>
          /\ run'[p].version \in 1 .. Len(versions')
          /\ Body(run[p].version)'.files = run[p].req.files
          /\ run'[p].req = run[p].req

Silent == Outcomes \ (VersionWords \cup {"refused"})

LEMMA Ended ==
    ASSUME RunsInv, NEW p \in Procs, NEW out, End(p, out),
           out \notin Silent => TrueWords(p, out), out \in Outcomes
    PROVE  TrueStep(p)
<1>1. run'[p] = [pc |-> "idle", out |-> out]
  BY DEF End, Become, RunsInv, TypeOK
<1>2. out \in Silent => TrueWords(p, out)
  BY DEF Silent, TrueWords
<1> QED BY <1>1, <1>2 DEF TrueStep

LEMMA Followed ==
    ASSUME RunsInv, NEW p \in Procs, NEW i, NEW owner, Follow(p, i, owner),
           i \in 1 .. Len(versions'), Body(i)'.files = run[p].req.files
    PROVE  TrueStep(p)
<1>1. run'[p] = [pc |-> "follow", req |-> run[p].req, version |-> i, owner |-> owner]
  BY DEF Follow, Become, RunsInv, TypeOK
<1> QED BY <1>1 DEF TrueStep, Body

LEMMA WentOn ==
    ASSUME RunsInv, NEW p \in Procs, NEW r, Become(p, r), r.pc \notin {"idle", "follow"}
    PROVE  TrueStep(p)
BY DEF Become, RunsInv, TypeOK, TrueStep

LEMMA RunTrueBefore ==
    ASSUME RunsInv, RunsInv', EndsInv, NEW p \in Procs,
           \/ \E r \in Requests : Start(p, r)
           \/ Crash(p) \/ Look(p) \/ LookFails(p) \/ Open(p)
    PROVE  TrueStep(p)
<1>1. ASSUME NEW r, Start(p, r)
      PROVE  TrueStep(p)
  <2> DEFINE s == [pc |-> "listing", req |-> r, full |-> LimitReached]
  <2>1. Become(p, s) /\ s.pc = "listing"
    BY <1>1 DEF Start
  <2> HIDE DEF s
  <2> QED BY <2>1, WentOn
<1>2. CASE Crash(p) \/ LookFails(p)
  BY <1>2, Ended DEF Crash, LookFails, Silent, Outcomes, VersionWords
<1>3. CASE Open(p)
  <2> DEFINE req == run[p].req
             n == Name(req)
  <2>1. CASE Resumable(n)
    <3> DEFINE r == [NewSending(req, file[n].key, FALSE) EXCEPT
                       !.at = file[n].at, !.answered = file[n].answered, !.resumed = TRUE]
    <3>1. r.pc = "save"
      BY DEF NewSending
    <3>2. Become(p, r)
      BY <1>3, <2>1 DEF Open
    <3> HIDE DEF r
    <3> QED BY <3>1, <3>2, WentOn
  <2>2. CASE ~Resumable(n)
    <3>1. PICK k \in Fresh : Become(p, NewSending(req, k, FALSE))
      BY <1>3, <2>2 DEF Open
    <3>2. NewSending(req, k, FALSE).pc = "save"
      BY DEF NewSending
    <3> QED BY <3>1, <3>2, WentOn
  <2> QED BY <2>1, <2>2
<1>4. CASE Look(p)
  <2>1. PICK i : i = Len(versions)
    OBVIOUS
  <2>2. Len(versions) \in Nat /\ UNCHANGED <<sub, versions>>
    BY <1>4 DEF Look, RunsInv, TypeOK, ApiTypeOK
  <2>3. ASSUME ConcludeKnown(p, i), i > 0, Body(i).files = run[p].req.files
        PROVE  TrueStep(p)
    <3>1. i \in 1 .. Len(versions)
      BY <2>1, <2>2, <2>3
    <3>2. CASE Follow(p, i, FALSE)
      BY <2>2, <2>3, <3>1, <3>2, Followed DEF Body
    <3>3. CASE End(p, "known")
      BY <2>3, <3>1, <3>3, Ended DEF TrueWords, Outcomes
    <3> QED BY <2>3, <3>2, <3>3 DEF ConcludeKnown
  <2>4. CASE End(p, "refused_locally")
    BY <2>4, Ended DEF Silent, Outcomes, VersionWords
  <2>5. CASE Become(p, [pc |-> "open", req |-> run[p].req])
    BY <2>5, WentOn
  <2> QED BY <1>4, <2>1, <2>3, <2>4, <2>5 DEF Look, Sources
<1> QED BY <1>1, <1>2, <1>3, <1>4

LEMMA CutTrue ==
    ASSUME RunsInv, NEW p \in Procs, NEW kind, Cut(p, kind), run[p].pc \in SendSteps
    PROVE  TrueStep(p)
<1>1. CASE End(p, "error")
  BY <1>1, Ended DEF Silent, Outcomes, VersionWords
<1>2. CASE Become(p, [run[p] EXCEPT !.tries = @ + 1])
  <2> DEFINE r == [run[p] EXCEPT !.tries = @ + 1]
  <2>1. Become(p, r) /\ r.pc \in SendSteps
    BY <1>2, Held DEF Sending
  <2> HIDE DEF r
  <2> QED BY <2>1, WentOn DEF SendSteps
<1> QED BY <1>1, <1>2 DEF Cut

LEMMA StartAgainTrue ==
    ASSUME RunsInv, NEW p \in Procs, StartAgain(p)
    PROVE  TrueStep(p)
<1>1. \E r : Become(p, r) /\ r.pc = "save"
  BY DEF StartAgain, NewSending
<1> QED BY <1>1, WentOn

(* Only a submission the API does not wait for is called refused.          *)
LEMMA RefusedTrue ==
    ASSUME RunsInv, RunsInv', EndsInv, NEW p \in Procs, run[p].pc \in SendSteps,
           End(p, "refused"), NEW k, k = run[p].key, ~Live(k)',
           k \in DOMAIN sub => sub[k].state # "finalized"
    PROVE  TrueStep(p)
<1>1. \A i \in 1 .. Len(versions) : versions[i].key # k
  BY DEF RunsInv, VersionsExist, EndsInv, VersionsFinal
<1>2. TrueWords(p, "refused")
  BY <1>1 DEF TrueWords, VersionWords, Holds
<1> QED BY <1>2, Ended DEF Outcomes

LEMMA CreateTrue ==
    ASSUME RunsInv, RunsInv', EndsInv, NEW p \in Procs, Create(p)
    PROVE  TrueStep(p)
<1>1. run[p].pc \in SendSteps /\ run[p] \in Sending
  BY Held DEF Create, At, SendSteps
<1>2. PICK reply \in CreateReplies : /\ ApiCreate(run[p].key, run[p].req, reply)
                                     /\ AfterCreate(p, reply)
  BY DEF Create
<1>3. ASSUME NEW pc \in {"recall", "keep"},
             Become(p, [run[p] EXCEPT !.pc = pc, !.tries = 0, !.answered = TRUE])
      PROVE  TrueStep(p)
  <2> DEFINE r == [run[p] EXCEPT !.pc = pc, !.tries = 0, !.answered = TRUE]
  <2>1. Become(p, r) /\ r.pc = pc
    BY <1>1, <1>3 DEF Sending
  <2> HIDE DEF r
  <2> QED BY <2>1, WentOn
<1>4. CASE End(p, "error")
  BY <1>4, Ended DEF Silent, Outcomes, VersionWords
<1>5. CASE reply = "limit" /\ End(p, "refused")
  <2>k. PICK k \in Keys : k = run[p].key
    BY <1>1 DEF Sending
  <2>1. k \notin DOMAIN sub /\ sub' = sub
    <3>1. \A j \in DOMAIN sub : sub[j].state # "limit"
      BY DEF RunsInv, TypeOK, ApiTypeOK, PartialFunction, Submission
    <3> QED BY <1>2, <1>5, <2>k, <3>1 DEF ApiCreate
  <2>2. ~Live(k)'
    BY <2>1 DEF Live, Pending
  <2> QED BY <1>1, <1>5, <2>k, <2>1, <2>2, RefusedTrue
<1> QED BY <1>2, <1>3, <1>4, <1>5, StartAgainTrue DEF AfterCreate

LEMMA UploadTrue ==
    ASSUME RunsInv, NEW p \in Procs,
           Save(p) \/ Keep(p) \/ Upload(p) \/ UploadRefused(p) \/ Refresh(p)
    PROVE  TrueStep(p)
<1>1. run[p] \in Sending
  BY Held DEF Save, Keep, Upload, UploadRefused, Refresh, At, SendSteps
<1>2. ASSUME NEW pc \in SendSteps, Enter(p, pc)
      PROVE  TrueStep(p)
  <2> DEFINE r == [run[p] EXCEPT !.pc = pc, !.tries = 0, !.refreshed = FALSE]
  <2>1. Become(p, r) /\ r.pc = pc
    BY <1>1, <1>2 DEF Enter, Sending
  <2> HIDE DEF r
  <2> QED BY <2>1, WentOn DEF SendSteps
<1>3. ASSUME Become(p, [run[p] EXCEPT !.pc = "refresh", !.refreshed = TRUE])
      PROVE  TrueStep(p)
  <2> DEFINE r == [run[p] EXCEPT !.pc = "refresh", !.refreshed = TRUE]
  <2>1. Become(p, r) /\ r.pc = "refresh"
    BY <1>1, <1>3 DEF Sending
  <2> HIDE DEF r
  <2> QED BY <2>1, WentOn
<1>4. ASSUME Become(p, [run[p] EXCEPT !.pc = "upload"])
      PROVE  TrueStep(p)
  <2> DEFINE r == [run[p] EXCEPT !.pc = "upload"]
  <2>1. Become(p, r) /\ r.pc = "upload"
    BY <1>1, <1>4 DEF Sending
  <2> HIDE DEF r
  <2> QED BY <2>1, WentOn
<1>5. End(p, "error") => TrueStep(p)
  BY Ended DEF Silent, Outcomes, VersionWords
<1>6. {"create", "upload", "finalize"} \subseteq SendSteps
  BY DEF SendSteps
<1> QED BY <1>2, <1>3, <1>4, <1>5, <1>6 DEF Save, Keep, Upload, UploadRefused, Refresh

(* A version found by its key is of the request the key was made for.      *)
LEMMA VersionFound ==
    ASSUME RunsInv, RunsInv', Lasting, NEW p \in Procs, run[p].pc \in SendSteps,
           NEW k, k = run[p].key, \E j \in 1 .. Len(versions') : versions'[j].key = k,
           NEW i, i = VersionOf(k, versions')
    PROVE  i \in 1 .. Len(versions') /\ Body(i)'.files = run[p].req.files
<1>1. i \in 1 .. Len(versions') /\ versions'[i].key = k
  BY DEF VersionOf
<1>2. k \in DOMAIN sub' /\ Used(k) /\ attempt[k].req = run[p].req
  BY <1>1, Held DEF RunsInv, VersionsExist
<1>3. sub'[k].body = run[p].req
  BY <1>2 DEF Lasting, SubGood, RunsInv, KeyOfOneRequest
<1> QED BY <1>1, <1>3 DEF Body

LEMMA FinalizeTrue ==
    ASSUME RunsInv, RunsInv', EndsInv, Lasting, NEW p \in Procs, Finalize(p)
    PROVE  TrueStep(p)
<1>1. run[p].pc \in SendSteps /\ run[p] \in Sending /\ run[p].key \in Keys
  BY Held DEF Finalize, At, SendSteps
<1>k. PICK k \in Keys : k = run[p].key
  BY <1>1
<1>2. PICK reply \in FinalizeReplies : ApiFinalize(k, reply) /\ AfterFinalize(p, reply)
  BY <1>k DEF Finalize
<1>3. CASE End(p, "error")
  BY <1>3, Ended DEF Silent, Outcomes, VersionWords
<1>4. ASSUME Become(p, [run[p] EXCEPT !.waits = @ + 1, !.tries = 0])
      PROVE  TrueStep(p)
  <2> DEFINE r == [run[p] EXCEPT !.waits = @ + 1, !.tries = 0]
  <2>1. Become(p, r) /\ r.pc = run[p].pc
    BY <1>1, <1>4 DEF Sending
  <2> HIDE DEF r
  <2> QED BY <1>1, <2>1, WentOn DEF SendSteps
<1>5. CASE reply = "finalized" /\ Follow(p, VersionOf(run[p].key, versions'), TRUE)
  <2>1. \E i \in 1 .. Len(versions') : versions'[i].key = k
    BY <1>2, <1>5, ApiFinalizeGood DEF Finalize
  <2>2. PICK i : i = VersionOf(k, versions')
    OBVIOUS
  <2>3. i \in 1 .. Len(versions') /\ Body(i)'.files = run[p].req.files
    BY <1>1, <1>k, <2>1, <2>2, VersionFound
  <2>4. Follow(p, i, TRUE)
    BY <1>5, <1>k, <2>2
  <2> QED BY <2>3, <2>4, Followed
<1>6. CASE reply = "refused" /\ End(p, "refused")
  <2>1. k \in DOMAIN sub /\ PartialFunction(sub, Keys, Submission) /\ sub[k] \in Submission
    BY <1>2 DEF ApiFinalize, Live, Pending, RunsInv, TypeOK, ApiTypeOK, PartialFunction
  <2>2. \/ sub[k].state = "refused" /\ sub' = sub
        \/ Live(k) /\ sub' = [sub EXCEPT ![k].state = "refused"]
    BY <1>2, <1>6 DEF ApiFinalize
  <2>3. sub[k].state # "finalized" /\ ~Live(k)'
    BY <2>1, <2>2 DEF Live, Pending, Submission
  <2> QED BY <1>1, <1>k, <1>6, <2>3, RefusedTrue
<1> QED BY <1>2, <1>3, <1>4, <1>5, <1>6, StartAgainTrue DEF AfterFinalize

LEMMA AfterTrue ==
    ASSUME RunsInv, RunsInv', EndsInv, Lasting, NEW p \in Procs,
           Recall(p) \/ FollowDone(p) \/ FollowStops(p)
    PROVE  TrueStep(p)
<1>1. UNCHANGED <<sub, versions>>
  BY DEF Recall, FollowDone, FollowStops
<1>2. CASE End(p, "error")
  BY <1>2, Ended DEF Silent, Outcomes, VersionWords
<1>3. CASE Recall(p)
  <2>1. PICK k : k = run[p].key
    OBVIOUS
  <2>2. PICK i : i = VersionOf(k, versions')
    OBVIOUS
  <2>3. run[p].pc \in SendSteps /\ \E j \in 1 .. Len(versions') : versions'[j].key = k
    BY <1>1, <1>3, <2>1 DEF Recall, At, SendSteps, RunsInv, VersionsExist
  <2>4. i \in 1 .. Len(versions') /\ Body(i)'.files = run[p].req.files
    BY <2>1, <2>2, <2>3, VersionFound
  <2>5. Follow(p, i, TRUE) \/ End(p, "error")
    BY <1>1, <1>3, <2>1, <2>2 DEF Recall
  <2> QED BY <1>2, <2>4, <2>5, Followed
<1>4. CASE FollowDone(p) \/ FollowStops(p)
  <2>1. /\ run[p].version \in 1 .. Len(versions)
        /\ Body(run[p].version).files = run[p].req.files
    BY <1>4 DEF FollowDone, FollowStops, RunsInv, VersionsExist, EndsInv, FollowsOwn
  <2>2. CASE versions[run[p].version].state = "in_review" /\ End(p, "sent")
    BY <2>1, <2>2, Ended DEF TrueWords, Outcomes
  <2>3. ASSUME NEW out \in {"failed", "checking"}, End(p, out)
        PROVE  TrueStep(p)
    BY <2>1, <2>3, Ended DEF TrueWords, Outcomes
  <2> QED BY <1>2, <1>4, <2>2, <2>3 DEF FollowDone, FollowStops
<1> QED BY <1>3, <1>4

(* A step of one run, and the steps of the others.                         *)
LEMMA StepTrue ==
    ASSUME RunsInv, RunsInv', EndsInv, [Next]_vars, NEW p \in Procs
    PROVE  TrueStep(p) \/ run'[p] = run[p]
<1>1. Lasting
  BY StepLasts
<1>2. ASSUME NEW q \in Procs, (\E r \in Requests : Start(q, r)) \/ Work(q) \/ Crash(q)
      PROVE  TrueStep(q) /\ (p # q => run'[p] = run[p])
  <2>1. TrueStep(q)
    <3>1. CreateCut(q) \/ UploadCut(q) \/ FinalizeCut(q) => TrueStep(q)
      BY CutTrue DEF CreateCut, UploadCut, FinalizeCut, At, SendSteps
    <3> QED BY <1>1, <1>2, <3>1, RunTrueBefore, CreateTrue, UploadTrue, FinalizeTrue, AfterTrue
            DEF Work
  <2>2. \E r : Become(q, r)
    BY <1>2 DEF Work, Start, Crash, Look, ConcludeKnown, LookFails, Open, Save, Create, AfterCreate,
       CreateCut, Keep, Upload, UploadRefused, UploadCut, Refresh, Finalize, AfterFinalize,
       FinalizeCut, Recall, FollowDone, FollowStops, Cut, StartAgain, End, Enter, Follow
  <2> QED BY <2>1, <2>2 DEF Become, RunsInv, TypeOK
<1>3. (\E m \in Message : LateArrival(m)) \/ Service \/ Tick \/ UNCHANGED vars => run' = run
  BY DEF LateArrival, Service, Tick, vars
<1> QED BY <1>2, <1>3 DEF Next

LEMMA EndsStep ==
    ASSUME RunsInv, RunsInv', EndsInv, [Next]_vars
    PROVE  EndsInv'
<1>1. Lasting
  BY StepLasts
<1>2. VersionsFinal'
  BY <1>1 DEF EndsInv, VersionsFinal, Lasting, RunsInv, VersionsExist
<1>3. FollowsOwn'
  <2> SUFFICES ASSUME NEW p \in Procs, run'[p].pc = "follow"
               PROVE  Body(run[p].version)'.files = run'[p].req.files
    BY DEF FollowsOwn, At
  <2>1. CASE TrueStep(p)
    BY <2>1 DEF TrueStep
  <2>2. CASE run'[p] = run[p]
    <3>1. /\ run[p].version \in 1 .. Len(versions)
          /\ Body(run[p].version).files = run[p].req.files
      BY <2>2 DEF At, RunsInv, VersionsExist, EndsInv, FollowsOwn
    <3>2. /\ versions'[run[p].version].key = versions[run[p].version].key
          /\ versions[run[p].version].key \in DOMAIN sub
      BY <1>1, <3>1 DEF Lasting, VersionsGood, RunsInv, VersionsExist
    <3> QED BY <1>1, <2>2, <3>1, <3>2 DEF Lasting, SubGood, Body
  <2> QED BY <2>1, <2>2, StepTrue
<1> QED BY <1>2, <1>3 DEF EndsInv

(* Whatever the API answers and however many runs work at once, a run only *)
(* says a version is sent, known, checked or failed when there is one of   *)
(* its widget files, and only says it is refused when the API waits for    *)
(* nothing of its submission and made no version of it.                    *)
THEOREM TrueEnds == Spec => EndsTruthfully
<1>1. Init => EndsInv
  BY DEF Init, ApiInit, EndsInv, VersionsFinal, FollowsOwn, At
<1>2. RunsInv /\ RunsInv' /\ EndsInv /\ [Next]_vars => EndsInv'
  BY EndsStep
<1>3. RunsInv /\ RunsInv' /\ EndsInv /\ [Next]_vars =>
        [\A p \in Procs :
           ~At(p, "idle") /\ run'[p].pc = "idle" => TrueWords(p, run'[p].out)]_vars
  BY StepTrue DEF TrueStep, At
<1> QED BY <1>1, <1>2, <1>3, RunsInvHolds, PTL DEF Spec, EndsTruthfully
=============================================================================
