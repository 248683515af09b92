---------------------------- MODULE CacheProofs -----------------------------
(***************************************************************************)
(* What the caches, the reports of readiness and the runs of a program      *)
(* promise, for any number of commands, servers, requests and tests: the    *)
(* runtime at its path is whole, the tools that were adopted stay, "ready"  *)
(* is true of what is on disk, and a program told to stop will be made to.  *)
(***************************************************************************)
EXTENDS RuntimeCache, ToolsCache, Readiness, ToolRun, TLAPS

-----------------------------------------------------------------------------
(* The creator tools (ToolsCache).                                         *)

\* Whoever has adopted the tools, is about to, or has installed them has seen
\* them whole in the cache.
Installed ==
    \/ \E s \in Servers : tools[s]
    \/ \E r \in Requests : request[r].pc \in {"adoptFound", "adopt"}
    \/ \E i \in Installs : promise[i] = "resolved"

\* What was seen whole is so until an installation sets it aside.
SeenStays == Installed => final = "whole" \/ lost # {}

ToolsInv == ToolsTypeOK /\ SeenStays

LEMMA ToolsTypesStart == ToolsInit => ToolsTypeOK
BY DEF ToolsInit, ToolsTypeOK, Installs, RequestEnded, Settled

\* An installation a request starts is one nobody has started.
LEMMA JoinsFresh ==
    ASSUME NEW r, JoinInstall(r), installing[r[1]] = NoPromise
    PROVE  \E p \in FreshPromises(r[1]) :
             /\ p \in Promises
             /\ promise' = [promise EXCEPT ![<<r[1], p>>] = "fetch"]
             /\ installing' = [installing EXCEPT ![r[1]] = p]
             /\ request' = [request EXCEPT ![r] = [pc |-> "await", on |-> p]]
             /\ DirectoryKept /\ UNCHANGED tools
<1> DEFINE p == CHOOSE p \in FreshPromises(r[1]) : TRUE
<1>1. FreshPromises(r[1]) # {} BY DEF JoinInstall
<1>2. p \in FreshPromises(r[1]) BY <1>1
<1>3. p \in Promises BY <1>2 DEF FreshPromises
<1>4. /\ promise' = [promise EXCEPT ![<<r[1], p>>] = "fetch"]
      /\ installing' = [installing EXCEPT ![r[1]] = p]
      /\ request' = [request EXCEPT ![r] = [pc |-> "await", on |-> p]]
      /\ DirectoryKept /\ UNCHANGED tools
  BY DEF JoinInstall
<1> HIDE DEF p
<1> QED BY <1>2, <1>3, <1>4

LEMMA ToolsTypesRequest ==
    ASSUME ToolsTypeOK, NEW r \in Requests, RequestStep(r), r[1] \in Servers
    PROVE  ToolsTypeOK'
<1>1. ASSUME NEW pc \in {"answered", "failed", "load", "adoptFound", "join"},
             RequestGoes(r, pc)
      PROVE  request' \in [Requests ->
               [pc : {"new", "load", "adoptFound", "join", "await", "adopt"} \cup RequestEnded,
                on : Promises \cup {NoPromise}]]
  BY <1>1 DEF RequestGoes, ToolsTypeOK, RequestEnded
<1>2. CASE AskTools(r) \/ LoadInstalled(r)
  <2>1. PICK pc \in {"answered", "load", "adoptFound", "join"} : RequestGoes(r, pc)
    BY <1>2 DEF AskTools, LoadInstalled
  <2> QED BY <1>1, <1>2, <2>1 DEF AskTools, LoadInstalled, DirectoryKept, ToolsTypeOK
<1>3. CASE AdoptFound(r) \/ AdoptInstalled(r)
  <2>1. PICK pc \in {"answered", "failed"} : RequestGoes(r, pc)
    BY <1>3 DEF AdoptFound, AdoptInstalled
  <2>2. tools' \in [Servers -> BOOLEAN]
    BY <1>3 DEF AdoptFound, AdoptInstalled, ToolsTypeOK
  <2>3. installing' \in [Servers -> Promises \cup {NoPromise}]
    BY <1>3 DEF AdoptFound, AdoptInstalled, ToolsTypeOK
  <2> QED BY <1>1, <1>3, <2>1, <2>2, <2>3
          DEF AdoptFound, AdoptInstalled, DirectoryKept, ToolsTypeOK
<1>4. CASE JoinInstall(r)
  <2>1. CASE installing[r[1]] # NoPromise /\ UNCHANGED <<installing, promise>>
             /\ request' = [request EXCEPT ![r] = [pc |-> "await", on |-> installing[r[1]]]]
             /\ DirectoryKept /\ UNCHANGED tools
    BY <2>1 DEF DirectoryKept, ToolsTypeOK, RequestEnded, Settled
  <2>2. CASE FreshPromises(r[1]) # {} /\ ~(installing[r[1]] # NoPromise)
    <3>1. PICK p \in Promises :
            /\ promise' = [promise EXCEPT ![<<r[1], p>>] = "fetch"]
            /\ installing' = [installing EXCEPT ![r[1]] = p]
            /\ request' = [request EXCEPT ![r] = [pc |-> "await", on |-> p]]
            /\ DirectoryKept /\ UNCHANGED tools
      BY <1>4, <2>2, JoinsFresh
    <3>2. promise' \in [Installs -> {"none", "fetch", "verify", "write", "probe", "rename",
                                 "load", "setAside", "remove", "replace", "gone"} \cup Settled]
      BY <3>1 DEF ToolsTypeOK, Installs
    <3> QED BY <3>1, <3>2 DEF DirectoryKept, ToolsTypeOK, RequestEnded
  <2> QED BY <1>4, <2>1, <2>2 DEF JoinInstall
<1> QED BY <1>2, <1>3, <1>4 DEF RequestStep

LEMMA ToolsTypesInstall ==
    ASSUME ToolsTypeOK, NEW i \in Installs, InstallStep(i)
    PROVE  ToolsTypeOK'
<1>1. CASE Fetch(i)
    BY <1>1 DEF Fetch, InstallGoes, DirectoryKept, ToolsTypeOK, Settled
<1>2. CASE WriteFiles(i)
    BY <1>2 DEF WriteFiles, InstallGoes, ToolsTypeOK, Settled
<1>3. CASE ProbeVersion(i)
    BY <1>3 DEF ProbeVersion, Rejects, InstallGoes, ToolsTypeOK, Settled
<1>4. CASE RenameIntoPlace(i)
    BY <1>4 DEF RenameIntoPlace, InstallGoes, ToolsTypeOK, Settled
<1>5. CASE LoadExisting(i)
    BY <1>5 DEF LoadExisting, Rejects, InstallGoes, ToolsTypeOK, Settled
<1>6. CASE SetAside(i)
    BY <1>6 DEF SetAside, Rejects, InstallGoes, ToolsTypeOK, Settled
<1>7. CASE RemoveAside(i)
    BY <1>7 DEF RemoveAside, InstallGoes, ToolsTypeOK, Settled
<1>8. CASE TakePlace(i)
    BY <1>8 DEF TakePlace, Rejects, InstallGoes, ToolsTypeOK, Settled
<1> QED BY <1>1, <1>2, <1>3, <1>4, <1>5, <1>6, <1>7, <1>8 DEF InstallStep

LEMMA ToolsTypesAwaited ==
    ASSUME ToolsTypeOK, NEW s \in Servers, NEW p \in Promises, Awaited(s, p)
    PROVE  ToolsTypeOK'
<1> DEFINE Pcs == {"new", "load", "adoptFound", "join", "await", "adopt"} \cup RequestEnded
           next == IF promise[<<s, p>>] = "resolved" THEN "adopt" ELSE "failed"
<1>1. request' \in [Requests -> [pc: Pcs, on: Promises \cup {NoPromise}]]
  <2>1. next \in Pcs BY DEF RequestEnded
  <2> HIDE DEF next
  <2>2. \A r \in Requests : [request[r] EXCEPT !.pc = next]
                              \in [pc: Pcs, on: Promises \cup {NoPromise}]
    BY <2>1 DEF ToolsTypeOK
  <2> QED BY <2>2 DEF Awaited, ToolsTypeOK, next
<1>2. installing' \in [Servers -> Promises \cup {NoPromise}]
  BY DEF Awaited, ToolsTypeOK
<1> QED BY <1>1, <1>2 DEF Awaited, DirectoryKept, ToolsTypeOK

LEMMA ToolsTypesStop ==
    ASSUME ToolsTypeOK, NEW s \in Servers, StopServer(s)
    PROVE  ToolsTypeOK'
BY DEF StopServer, DirectoryKept, ToolsTypeOK, RequestEnded, Settled

\* The installations and the requests of the next step are of this instance.
LEMMA ToolsSteps ==
    ASSUME ToolsNext
    PROVE  \/ \E r \in Requests : r[1] \in Servers /\ RequestStep(r)
           \/ \E i \in Installs : InstallStep(i)
           \/ \E s \in Servers, p \in Promises : Awaited(s, p)
           \/ \E s \in Servers : StopServer(s)
<1>1. PICK s \in Servers : ServerStep(s) \/ StopServer(s)
  BY DEF ToolsNext
<1>2. ASSUME NEW p \in Promises, InstallStep(<<s, p>>)
      PROVE  \E i \in Installs : InstallStep(i)
  <2>1. <<s, p>> \in Installs BY DEF Installs
  <2> QED BY <2>1, <1>2
<1> QED BY <1>1, <1>2 DEF ServerStep

LEMMA ToolsTypesNext == ToolsTypeOK /\ [ToolsNext]_toolsVars => ToolsTypeOK'
<1> SUFFICES ASSUME ToolsTypeOK, [ToolsNext]_toolsVars PROVE ToolsTypeOK'
  OBVIOUS
<1>1. CASE UNCHANGED toolsVars
  BY <1>1 DEF toolsVars, ToolsTypeOK
<1>2. CASE ToolsNext
  BY <1>2, ToolsSteps, ToolsTypesRequest, ToolsTypesInstall, ToolsTypesAwaited, ToolsTypesStop
<1> QED BY <1>1, <1>2

\* The types of ToolsCache hold in every reachable state.
THEOREM ToolsTypeCorrect == ToolsSpec => []ToolsTypeOK
BY ToolsTypesStart, ToolsTypesNext, PTL DEF ToolsSpec

-----------------------------------------------------------------------------
LEMMA SeenStart == ToolsInit => SeenStays
BY DEF ToolsInit, SeenStays, Installed, Installs

LEMMA SeenRequest ==
    ASSUME ToolsInv, NEW r \in Requests, RequestStep(r), r[1] \in Servers
    PROVE  SeenStays'
<1> USE DEF ToolsInv, SeenStays
<1>1. DirectoryKept
  BY DEF RequestStep, AskTools, LoadInstalled, AdoptFound, JoinInstall, AdoptInstalled
<1>2. CASE final = "whole" \/ lost # {}
  BY <1>1, <1>2 DEF DirectoryKept
<1>3. CASE ~Installed /\ final # "whole"
  <2>1. ~Installed'
    <3>1. CASE AskTools(r)
      BY <1>3, <3>1 DEF AskTools, RequestGoes, Installed, ToolsTypeOK
    <3>2. CASE LoadInstalled(r)
      BY <1>3, <3>2 DEF LoadInstalled, RequestGoes, Installed, ToolsTypeOK
    <3>3. CASE AdoptFound(r)
      BY <1>3, <3>3 DEF AdoptFound, Installed
    <3>4. CASE JoinInstall(r)
      <4>1. PICK on : request' = [request EXCEPT ![r] = [pc |-> "await", on |-> on]]
        BY <3>4 DEF JoinInstall
      <4>2. \A q \in Requests : request'[q].pc \notin {"adoptFound", "adopt"}
        BY <1>3, <4>1 DEF Installed, ToolsTypeOK
      <4>3. \A i \in Installs : promise'[i] # "resolved"
        <5>1. CASE UNCHANGED promise
          BY <1>3, <5>1 DEF Installed
        <5>2. CASE installing[r[1]] = NoPromise
          BY <1>3, <3>4, <5>2, JoinsFresh DEF Installed, ToolsTypeOK
        <5> QED BY <3>4, <5>1, <5>2 DEF JoinInstall
      <4> QED BY <1>3, <3>4, <4>2, <4>3 DEF JoinInstall, Installed
    <3>5. CASE AdoptInstalled(r)
      BY <1>3, <3>5 DEF AdoptInstalled, Installed
    <3> QED BY <3>1, <3>2, <3>3, <3>4, <3>5 DEF RequestStep
  <2> QED BY <2>1
<1> QED BY <1>2, <1>3

\* An installation resolves only where the copy in the cache is whole; a whole
\* copy goes only when it is set aside, and is then counted as lost.
LEMMA SeenInstall ==
    ASSUME ToolsInv, NEW i \in Installs, InstallStep(i)
    PROVE  SeenStays'
<1> USE DEF ToolsInv, SeenStays
<1>1. UNCHANGED <<tools, request>>
  BY DEF InstallStep, Fetch, WriteFiles, ProbeVersion, RenameIntoPlace, LoadExisting, SetAside,
         RemoveAside, TakePlace
<1>2. final' = "whole" \/ lost' # {} \/ (final # "whole" /\ lost = {})
  BY DEF InstallStep, Fetch, WriteFiles, ProbeVersion, RenameIntoPlace, LoadExisting, SetAside,
         RemoveAside, TakePlace, DirectoryKept
<1>3. final' = "whole" \/ \E how : InstallGoes(i, how) /\ how # "resolved"
  BY DEF InstallStep, Fetch, WriteFiles, ProbeVersion, RenameIntoPlace, LoadExisting, SetAside,
         RemoveAside, TakePlace, Rejects, DirectoryKept
<1>4. final' = "whole" \/ lost' # {} \/ ~Installed'
  BY <1>1, <1>2, <1>3 DEF Installed, InstallGoes, ToolsTypeOK
<1> QED BY <1>4

LEMMA SeenAwaited ==
    ASSUME ToolsInv, NEW s \in Servers, NEW p \in Promises, Awaited(s, p)
    PROVE  SeenStays'
<1>1. Installed' => Installed
  BY DEF Awaited, Installed, Installs, ToolsInv, ToolsTypeOK
<1> QED BY <1>1 DEF ToolsInv, SeenStays, Awaited, DirectoryKept

LEMMA SeenStop ==
    ASSUME ToolsInv, NEW s \in Servers, StopServer(s)
    PROVE  SeenStays'
<1>1. Installed' => Installed
  BY DEF StopServer, Installed, ToolsInv, ToolsTypeOK
<1> QED BY <1>1 DEF ToolsInv, SeenStays, StopServer, DirectoryKept

LEMMA ToolsInvNext == ToolsInv /\ [ToolsNext]_toolsVars => ToolsInv'
<1> SUFFICES ASSUME ToolsInv, [ToolsNext]_toolsVars PROVE SeenStays'
  BY ToolsTypesNext DEF ToolsInv
<1>1. CASE UNCHANGED toolsVars
  BY <1>1 DEF toolsVars, ToolsInv, SeenStays, Installed
<1>2. CASE ToolsNext
  BY <1>2, ToolsSteps, SeenRequest, SeenInstall, SeenAwaited, SeenStop
<1> QED BY <1>1, <1>2

LEMMA ToolsSeen == ToolsSpec => []ToolsInv
<1>1. ToolsInit => ToolsInv
  BY ToolsTypesStart, SeenStart DEF ToolsInv
<1> QED BY <1>1, ToolsInvNext, PTL DEF ToolsSpec

\* Whatever servers, requests and installations there are: the tools a server
\* has adopted stay in the cache, unless an installation set a whole copy aside.
THEOREM ToolsStay == ToolsSpec => []AdoptedStays
<1>1. ToolsInv => AdoptedStays
  BY DEF ToolsInv, SeenStays, Installed, AdoptedStays
<1> QED BY <1>1, ToolsSeen, PTL

\* The directory of the cache changes only to a whole copy or to none.
THEOREM ToolsWhole == ToolsSpec => NeverHalfWritten
<1>1. [ToolsNext]_toolsVars => [final' # final => final' \in {"whole", "absent"}]_toolsVars
  <2> SUFFICES ASSUME ToolsNext, final' # final PROVE final' \in {"whole", "absent"}
    BY DEF toolsVars
  <2>1. ASSUME NEW r \in Requests, RequestStep(r) PROVE FALSE
    BY <2>1 DEF RequestStep, AskTools, LoadInstalled, AdoptFound, JoinInstall, AdoptInstalled,
                DirectoryKept
  <2>2. ASSUME NEW i \in Installs, InstallStep(i) PROVE final' \in {"whole", "absent"}
    BY <2>2 DEF InstallStep, Fetch, WriteFiles, ProbeVersion, RenameIntoPlace, LoadExisting,
                SetAside, RemoveAside, TakePlace, DirectoryKept
  <2>3. ASSUME NEW s \in Servers, StopServer(s) PROVE FALSE
    BY <2>3 DEF StopServer, DirectoryKept
  <2>4. ASSUME NEW s \in Servers, NEW p \in Promises, Awaited(s, p) PROVE FALSE
    BY <2>4 DEF Awaited, DirectoryKept
  <2> QED BY <2>1, <2>2, <2>3, <2>4, ToolsSteps
<1> QED BY <1>1, PTL DEF ToolsSpec, NeverHalfWritten

-----------------------------------------------------------------------------
(* What is ready (Readiness): what a call, the record and the preparation  *)
(* know of the version they are about, while nothing is saved.             *)

\* A complete run of the tests that nothing disturbed has passed on a version
\* all of whose scenarios pass.
CallTells(call) ==
    call.phase \in {"runs", "reported"} /\ call.steady /\ call.kind = "every" /\ ~call.failed
      => disk \in passing

\* So has the remembered run, of the version it names.
RecordTells ==
    lastTests # NoTest /\ lastTests.steady /\ lastTests.complete /\ ~lastTests.failed
      => lastTests.fingerprint \in passing

\* What a preparation found is true of what is on disk.
PrepTells ==
    prep.steady =>
        /\ prep.phase \in {"checked", "compared", "selected"} /\ prep.clean => disk \in clean
        /\ prep.phase \in {"compared", "selected"} /\ prep.tested => disk \in passing

ReadyInv ==
    /\ ReadyTypeOK
    /\ \A t \in TestCalls : CallTells(calls[t])
    /\ RecordTells /\ PrepTells /\ ReadyUnlessDisturbed

LEMMA ReadyStart == ReadyInit => ReadyInv
<1> SUFFICES ASSUME ReadyInit PROVE ReadyInv
  OBVIOUS
<1> USE ReadyAssumption DEF ReadyInit
<1>1. ReadyTypeOK
  BY DEF ReadyTypeOK, Idle, Unasked, Saves
<1>2. \A t \in TestCalls : CallTells(calls[t])
  BY DEF CallTells, Idle
<1> QED BY <1>1, <1>2 DEF ReadyInv, RecordTells, PrepTells, ReadyUnlessDisturbed, Unasked

\* A new version disturbs every call and every preparation in progress.
LEMMA NewVersionKeeps ==
    ASSUME ReadyInv, NewVersion
    PROVE  /\ disk' \in Saves /\ passing' \subseteq 0..disk' /\ clean' \subseteq 0..disk'
           /\ passing \subseteq passing' /\ clean \subseteq clean'
           /\ lastTests' \in Records \cup {NoTest}
           /\ Disturbed \in [TestCalls -> [phase : {"idle", "runs", "reported"},
                                           kind : {"every", "one", "update"},
                                           failed : BOOLEAN, steady : BOOLEAN]]
           /\ \A t \in TestCalls :
                ~(Disturbed[t].phase \in {"runs", "reported"} /\ Disturbed[t].steady)
           /\ prep' \in [phase : {"idle", "checked", "compared", "selected", "answered"},
                         clean : BOOLEAN, tested : BOOLEAN, steady : BOOLEAN,
                         selected : Saves, zipped : Saves, ready : BOOLEAN]
           /\ RecordTells' /\ PrepTells' /\ ReadyUnlessDisturbed'
<1> USE ReadyAssumption DEF NewVersion
<1>1. /\ disk' \in Saves /\ passing' \subseteq 0..disk' /\ clean' \subseteq 0..disk'
      /\ passing \subseteq passing' /\ clean \subseteq clean'
      /\ lastTests' \in Records \cup {NoTest}
  BY DEF ReadyInv, ReadyTypeOK, Saves
<1>2. \A t \in TestCalls :
         /\ Disturbed[t] \in [phase : {"idle", "runs", "reported"},
                              kind : {"every", "one", "update"},
                              failed : BOOLEAN, steady : BOOLEAN]
         /\ ~(Disturbed[t].phase \in {"runs", "reported"} /\ Disturbed[t].steady)
  BY DEF Disturbed, ReadyInv, ReadyTypeOK
<1>3. PICK st \in BOOLEAN : /\ prep' = [prep EXCEPT !.steady = st]
                            /\ st => prep.steady /\ prep.phase \in {"idle", "answered"}
  <2>1. prep.steady \in BOOLEAN
    BY DEF ReadyInv, ReadyTypeOK
  <2>2. PrepDisturbed
          = [prep EXCEPT !.steady = prep.steady /\ prep.phase \in {"idle", "answered"}]
    BY DEF PrepDisturbed
  <2> QED BY <2>1, <2>2
<1>4. prep' \in [phase : {"idle", "checked", "compared", "selected", "answered"},
                 clean : BOOLEAN, tested : BOOLEAN, steady : BOOLEAN,
                 selected : Saves, zipped : Saves, ready : BOOLEAN]
  BY <1>3 DEF ReadyInv, ReadyTypeOK
<1>5. RecordTells'
  BY <1>1 DEF RecordTells, ReadyInv
<1>6. PrepTells' /\ ReadyUnlessDisturbed'
  BY <1>1, <1>3 DEF PrepTells, ReadyUnlessDisturbed, ReadyInv, ReadyTypeOK
<1>7. Disturbed \in [TestCalls -> [phase : {"idle", "runs", "reported"},
                                   kind : {"every", "one", "update"},
                                   failed : BOOLEAN, steady : BOOLEAN]]
  BY <1>2 DEF Disturbed
<1> QED BY <1>1, <1>2, <1>4, <1>5, <1>6, <1>7

LEMMA ReadyEdit == ASSUME ReadyInv, Edit PROVE ReadyInv'
BY NewVersionKeeps DEF Edit, ReadyInv, ReadyTypeOK, CallTells

LEMMA ReadyBegin ==
    ASSUME ReadyInv, NEW t \in TestCalls, BeginTest(t)
    PROVE  ReadyInv'
<1>1. PICK kind \in {"every", "one", "update"}, failed \in BOOLEAN :
         /\ failed \in TestFails(kind)
         /\ calls' = [calls EXCEPT ![t] = [phase |-> "runs", kind |-> kind,
                                           failed |-> failed, steady |-> TRUE]]
  BY DEF BeginTest, TestFails
<1>2. UNCHANGED <<disk, passing, clean, lastTests, prep>>
  BY DEF BeginTest
<1>3. kind = "every" /\ ~failed => disk \in passing
  BY <1>1 DEF TestFails
<1>4. \A c \in TestCalls : CallTells(calls[c])'
  BY <1>1, <1>2, <1>3 DEF CallTells, ReadyInv, ReadyTypeOK
<1> QED BY <1>1, <1>2, <1>4
        DEF ReadyInv, ReadyTypeOK, RecordTells, PrepTells, ReadyUnlessDisturbed

LEMMA ReadyReported ==
    ASSUME ReadyInv, NEW t \in TestCalls, TestReported(t)
    PROVE  ReadyInv'
<1>1. CASE calls[t].kind = "update"
  <2> DEFINE call == [calls[t] EXCEPT !.phase = "reported"]
  <2>1. call \in [phase : {"idle", "runs", "reported"}, kind : {"every", "one", "update"},
                  failed : BOOLEAN, steady : BOOLEAN] /\ call.kind = "update"
    BY <1>1 DEF ReadyInv, ReadyTypeOK
  <2>2. NewVersion /\ calls' = [Disturbed EXCEPT ![t] = call]
    BY <1>1 DEF TestReported
  <2> HIDE DEF call
  <2> QED BY <2>1, <2>2, NewVersionKeeps DEF ReadyInv, ReadyTypeOK, CallTells
<1>2. CASE calls[t].kind # "update"
  BY <1>2 DEF TestReported, ReadyInv, ReadyTypeOK, CallTells, RecordTells, PrepTells,
              ReadyUnlessDisturbed
<1> QED BY <1>1, <1>2

LEMMA ReadyNotRun ==
    ASSUME ReadyInv, NEW t \in TestCalls, TestNotRun(t)
    PROVE  ReadyInv'
BY DEF TestNotRun, Idle, ReadyInv, ReadyTypeOK, CallTells, RecordTells, PrepTells,
       ReadyUnlessDisturbed

\* A run that counts is remembered of the version it ran on, when nothing was
\* saved in between.
LEMMA ReadyRecord ==
    ASSUME ReadyInv, NEW t \in TestCalls, RecordTest(t)
    PROVE  ReadyInv'
<1>1. lastTests' \in Records \cup {NoTest} /\ RecordTells'
  <2>1. CASE calls[t].kind = "update"
    BY <2>1 DEF RecordTest, Remembered, ReadyInv, ReadyTypeOK, RecordTells
  <2>2. CASE calls[t].kind # "update"
    <3>1. calls[t].failed \in BOOLEAN /\ calls[t].steady \in BOOLEAN /\ disk \in Saves
      BY DEF ReadyInv, ReadyTypeOK
    <3>2. PICK whole \in BOOLEAN : whole <=> calls[t].kind = "every"
      OBVIOUS
    <3>3. lastTests' = [fingerprint |-> disk, failed |-> calls[t].failed,
                        complete |-> whole, steady |-> calls[t].steady]
      BY <2>2, <3>2 DEF RecordTest, Remembered
    <3> QED BY <3>1, <3>2, <3>3 DEF Records, RecordTells, RecordTest, ReadyInv, CallTells
  <2> QED BY <2>1, <2>2
<1>2. \A c \in TestCalls : CallTells(calls[c])'
  BY DEF RecordTest, Idle, ReadyInv, ReadyTypeOK, CallTells
<1> QED BY <1>1, <1>2 DEF RecordTest, Idle, ReadyInv, ReadyTypeOK, PrepTells,
                          ReadyUnlessDisturbed

LEMMA ReadyCheck == ASSUME ReadyInv, PrepCheck PROVE ReadyInv'
<1>1. PICK c \in BOOLEAN :
         /\ c => disk \in clean
         /\ prep' = [phase |-> "checked", clean |-> c, tested |-> FALSE, steady |-> TRUE,
                     selected |-> 0, zipped |-> 0, ready |-> FALSE]
  <2>1. CASE disk \in clean
    <3>1. (disk \in clean) = TRUE BY <2>1
    <3>2. prep' = [Unasked EXCEPT !.phase = "checked", !.clean = TRUE]
      BY <3>1 DEF PrepCheck
    <3> QED BY <2>1, <3>2 DEF Unasked
  <2>2. CASE disk \notin clean
    <3>1. (disk \in clean) = FALSE BY <2>2
    <3>2. prep' = [Unasked EXCEPT !.phase = "checked", !.clean = FALSE]
      BY <3>1 DEF PrepCheck
    <3> QED BY <2>2, <3>2 DEF Unasked
  <2> QED BY <2>1, <2>2
<1>2. prep' \in [phase : {"idle", "checked", "compared", "selected", "answered"},
                 clean : BOOLEAN, tested : BOOLEAN, steady : BOOLEAN,
                 selected : Saves, zipped : Saves, ready : BOOLEAN]
  BY <1>1, ReadyAssumption DEF Saves
<1> QED BY <1>1, <1>2 DEF PrepCheck, ReadyInv, ReadyTypeOK, CallTells, RecordTells, PrepTells,
                          ReadyUnlessDisturbed

LEMMA ReadyCompare == ASSUME ReadyInv, PrepCompare PROVE ReadyInv'
<1> DEFINE steady == prep.steady /\ (PassedRun => lastTests.steady)
<1>1. PICK p \in BOOLEAN : p = PassedRun
  BY DEF PassedRun
<1>2. PICK st \in BOOLEAN : st = steady
  OBVIOUS
<1>3. prep' = [prep EXCEPT !.phase = "compared", !.tested = p, !.steady = st]
  BY <1>1, <1>2 DEF PrepCompare
<1>4. p /\ st => disk \in passing
  BY <1>1, <1>2 DEF PassedRun, ReadyInv, RecordTells
<1> QED BY <1>1, <1>2, <1>3, <1>4
        DEF PrepCompare, ReadyInv, ReadyTypeOK, CallTells, RecordTells, PrepTells,
            ReadyUnlessDisturbed

LEMMA ReadySelect == ASSUME ReadyInv, PrepSelect PROVE ReadyInv'
BY DEF PrepSelect, ReadyInv, ReadyTypeOK, CallTells, RecordTells, PrepTells,
       ReadyUnlessDisturbed

LEMMA ReadyAnswer == ASSUME ReadyInv, PrepAnswer PROVE ReadyInv'
<1>1. PICK w \in BOOLEAN, st \in BOOLEAN :
         /\ w => prep.clean /\ prep.tested
         /\ st <=> prep.steady \/ ~w
         /\ prep' = [Unasked EXCEPT !.phase = "answered", !.ready = w, !.steady = st,
                                    !.zipped = IF w THEN disk ELSE 0]
  BY DEF PrepAnswer, Unasked
<1>2. PICK z \in Saves : z = IF w THEN disk ELSE 0
  BY ReadyAssumption DEF ReadyInv, ReadyTypeOK, Saves
<1>3. prep' = [phase |-> "answered", clean |-> FALSE, tested |-> FALSE, steady |-> st,
               selected |-> 0, zipped |-> z, ready |-> w]
  BY <1>1, <1>2 DEF Unasked
<1>4. w /\ st => z \in passing /\ z \in clean
  BY <1>1, <1>2 DEF ReadyInv, PrepTells, PrepAnswer
<1>5. 0 \in Saves
  BY ReadyAssumption DEF Saves
<1> QED BY <1>3, <1>4, <1>5
        DEF PrepAnswer, ReadyInv, ReadyTypeOK, CallTells, RecordTells, PrepTells,
            ReadyUnlessDisturbed

LEMMA ReadyInvNext == ReadyInv /\ [ReadyNext]_readyVars => ReadyInv'
<1> SUFFICES ASSUME ReadyInv, [ReadyNext]_readyVars PROVE ReadyInv'
  OBVIOUS
<1>1. CASE UNCHANGED readyVars
  BY <1>1 DEF readyVars, ReadyInv, ReadyTypeOK, CallTells, RecordTells, PrepTells,
              ReadyUnlessDisturbed
<1>2. CASE ReadyNext
  BY <1>2, ReadyEdit, ReadyBegin, ReadyReported, ReadyNotRun, ReadyRecord, ReadyCheck,
     ReadyCompare, ReadySelect, ReadyAnswer DEF ReadyNext
<1> QED BY <1>1, <1>2

LEMMA ReadyKept == ReadySpec => []ReadyInv
BY ReadyStart, ReadyInvNext, PTL DEF ReadySpec

\* Readiness keeps its types, whatever tests run side by side.
THEOREM ReadyTypeCorrect == ReadySpec => []ReadyTypeOK
BY ReadyKept, PTL DEF ReadyInv

\* Where nothing is saved from the start of the test run to its record, nor
\* during the preparation, the ZIP of an answer that says ready passes all its
\* scenarios and the other items, whatever tests and updates ran side by side.
THEOREM ReadyHolds == ReadySpec => []ReadyUnlessDisturbed
BY ReadyKept, PTL DEF ReadyInv

-----------------------------------------------------------------------------
(* The browser runtime (RuntimeCache). The inductive invariant adds to     *)
(* CacheInv the type, and where a command has no temporary file: without it *)
(* CacheInv says nothing of the file of a command that ends without dropping *)
(* it (Version).                                                           *)

NoneYet == {"new", "create", "digest", "version"}
WithoutFiles == \A t \in temporary : cmd[t[1]].pc \notin NoneYet
CacheIInv == CacheTypeOK /\ CacheInv /\ WithoutFiles

\* The path gains the pinned runtime or nothing.
Gains == cached' # cached => cached' \in {Pinned, NoFile}

USE CacheAssumption

\* The outcomes of a request: its errors, a redirect, its body.
LEMMA RequestOutcomes ==
    ASSUME NEW c \in Commands, CacheTypeOK, Request(c)
    PROVE  \/ \E error \in {"Network", "Status", "Redirect", "TooLarge"} : Fails(c, error)
           \/ /\ \E host \in Hosts, hops \in 0..(MaxRedirects + 1) :
                   cmd' = [cmd EXCEPT ![c].host = host, ![c].hops = hops]
              /\ UNCHANGED <<cached, ran, temporary>>
           \/ Goes(c, "body") /\ UNCHANGED <<cached, ran, temporary>>
<1>1. cmd[c].hops \in Nat
  BY DEF CacheTypeOK
<1>2. cmd[c].hops <= MaxRedirects => cmd[c].hops + 1 \in 0..(MaxRedirects + 1)
  BY <1>1
<1> QED BY <1>2 DEF Request, Fails

LEMMA InitCacheIInv == CacheInit => CacheIInv
BY DEF CacheInit, CacheIInv, CacheTypeOK, CacheInv, HeldIsPinned, DigestStands,
       OnlyPinnedRuns, NothingKept, WithoutFiles, NewCommand

\* A command's record, with its set of places named.
Places == {"new", "digest", "create", "request", "body", "extract", "verify",
           "persist", "version"} \cup CacheEnded
CommandState == [pc: Places, offline: BOOLEAN, explicit: BOOLEAN,
                 file: Contents \cup {NoFile}, host: Hosts, hops: 0..(MaxRedirects + 1)]

LEMMA CommandTyped ==
    ASSUME CacheTypeOK, NEW c \in Commands, NEW to \in CommandState,
           cmd' = [cmd EXCEPT ![c] = to], UNCHANGED <<cached, temporary, ran>>
    PROVE  CacheTypeOK'
<1>1. cmd \in [Commands -> CommandState]
  BY DEF CacheTypeOK, CommandState, Places
<1>2. cmd' \in [Commands -> CommandState]
  BY <1>1
<1> QED BY <1>2 DEF CacheTypeOK, CommandState, Places

LEMMA StateOfCommand ==
    ASSUME CacheTypeOK
    PROVE  \A c \in Commands : cmd[c] \in CommandState
BY DEF CacheTypeOK, CommandState, Places

\* Every command steps within the types.
LEMMA StepKeepsType ==
    ASSUME CacheIInv, CacheNext
    PROVE  CacheTypeOK'
<1> USE DEF CacheIInv, CacheTypeOK, CacheEnded, Failures, At, Goes, Drops, Fails
<1>1. CASE ClearCache
  BY <1>1 DEF ClearCache
<1>2. ASSUME NEW c \in Commands, CacheStep(c) \/ Kill(c)
      PROVE  CacheTypeOK'
  <2>1. CASE Explicit(c)
    <3>1. ASSUME NEW file \in Contents \cup {NoFile}, NEW pc \in {"Unreadable", "version"},
                 cmd' = [cmd EXCEPT ![c].pc = pc, ![c].explicit = TRUE, ![c].file = file],
                 UNCHANGED <<cached, temporary, ran>>
          PROVE  CacheTypeOK'
      <4> DEFINE to == [cmd[c] EXCEPT !.pc = pc, !.explicit = TRUE, !.file = file]
      <4>1. pc \in Places
        BY DEF Places
      <4>2. to \in CommandState
        <5> HIDE DEF CacheTypeOK, CacheEnded, Failures
        <5> QED BY <4>1, StateOfCommand DEF CommandState
      <4>3. cmd' = [cmd EXCEPT ![c] = to]
        BY <3>1
      <4> QED BY <3>1, <4>2, <4>3, CommandTyped
    <3> QED BY <2>1, <3>1 DEF Explicit
  <2>2. CASE Look(c)
    <3>1. CASE Goes(c, "NotPinned") /\ UNCHANGED <<cached, temporary, ran>>
      BY <3>1
    <3>2. ASSUME NEW offline \in BOOLEAN, NEW pc \in {"digest", "Missing", "create"},
                 cmd' = [cmd EXCEPT ![c].offline = offline, ![c].pc = pc],
                 UNCHANGED <<cached, temporary, ran>>
          PROVE  CacheTypeOK'
      <4> DEFINE to == [cmd[c] EXCEPT !.offline = offline, !.pc = pc]
      <4>1. pc \in Places
        BY DEF Places
      <4>2. to \in CommandState
        <5> HIDE DEF CacheTypeOK, CacheEnded, Failures
        <5> QED BY <4>1, StateOfCommand DEF CommandState
      <4>3. cmd' = [cmd EXCEPT ![c] = to]
        BY <3>2
      <4> QED BY <3>2, <4>2, <4>3, CommandTyped
    <3> QED BY <2>2, <3>1, <3>2 DEF Look
  <2>3. CASE CreateArchive(c)
    BY <2>3 DEF CreateArchive
  <2>4. CASE Request(c)
    <3>1. ASSUME NEW error \in {"Network", "Status", "Redirect", "TooLarge"}, Fails(c, error)
          PROVE  CacheTypeOK'
      BY <3>1
    <3>2. ASSUME NEW host \in Hosts, NEW hops \in 0..(MaxRedirects + 1),
                 cmd' = [cmd EXCEPT ![c].host = host, ![c].hops = hops],
                 UNCHANGED <<cached, ran, temporary>>
          PROVE  CacheTypeOK'
      <4> DEFINE to == [cmd[c] EXCEPT !.host = host, !.hops = hops]
      <4>1. to \in CommandState
        <5> HIDE DEF CacheTypeOK, CacheEnded, Failures
        <5> QED BY StateOfCommand DEF CommandState
      <4>2. cmd' = [cmd EXCEPT ![c] = to]
        BY <3>2
      <4> QED BY <3>2, <4>1, <4>2, CommandTyped
    <3>3. CASE Goes(c, "body") /\ UNCHANGED <<cached, ran, temporary>>
      BY <3>3
    <3> QED BY <2>4, <3>1, <3>2, <3>3, RequestOutcomes
  <2>5. CASE Receive(c)
    BY <2>5 DEF Receive
  <2>6. CASE Extract(c)
    BY <2>6 DEF Extract
  <2>7. CASE Verify(c)
    BY <2>7 DEF Verify
  <2>8. CASE Persist(c)
    BY <2>8 DEF Persist
  <2>9. CASE DigestCached(c)
    BY <2>9 DEF DigestCached
  <2>10. CASE Version(c)
    BY <2>10 DEF Version
  <2>11. CASE Kill(c)
    BY <2>11 DEF Kill
  <2> QED BY <1>2, <2>1, <2>2, <2>3, <2>4, <2>5, <2>6, <2>7, <2>8, <2>9, <2>10, <2>11
          DEF CacheStep
<1> QED BY <1>1, <1>2 DEF CacheNext

\* Only Persist gives the path a file, the one that was verified.
LEMMA StepGains ==
    ASSUME CacheIInv, CacheNext
    PROVE  Gains
<1> USE DEF Gains, CacheIInv, CacheTypeOK, CacheInv, HeldIsPinned, At, Goes, Fails
<1>1. CASE ClearCache
  BY <1>1 DEF ClearCache
<1>2. ASSUME NEW c \in Commands, CacheStep(c) \/ Kill(c)
      PROVE  Gains
  <2>1. CASE Persist(c)
    BY <2>1 DEF Persist
  <2>2. CASE ~Persist(c)
    BY <1>2, <2>2 DEF CacheStep, Kill, Explicit, Look, CreateArchive, Request, Receive,
       Extract, Verify, DigestCached, Version
  <2> QED BY <2>1, <2>2
<1> QED BY <1>1, <1>2 DEF CacheNext

\* A command at "persist" came from Verify, one at "version" from
\* DigestCached, and no step of another changes what they rest on.
LEMMA StepKeepsChecks ==
    ASSUME CacheIInv, CacheNext
    PROVE  (HeldIsPinned /\ DigestStands)'
<1> USE DEF CacheIInv, CacheTypeOK, CacheInv, HeldIsPinned, DigestStands,
            CacheEnded, Failures, At, Goes, Drops, Fails
<1>0. Gains
  BY StepGains
<1>1. CASE ClearCache
  BY <1>1 DEF ClearCache
<1>2. ASSUME NEW c \in Commands, CacheStep(c) \/ Kill(c)
      PROVE  HeldIsPinned' /\ DigestStands'
  <2>1. CASE Explicit(c)
    BY <2>1 DEF Explicit
  <2>2. CASE Look(c)
    <3>1. CASE Goes(c, "NotPinned") /\ UNCHANGED <<cached, temporary, ran>>
      BY <3>1
    <3>2. ASSUME NEW offline \in BOOLEAN, NEW pc \in {"digest", "Missing", "create"},
                 cmd' = [cmd EXCEPT ![c].offline = offline, ![c].pc = pc],
                 UNCHANGED <<cached, temporary, ran>>
          PROVE  HeldIsPinned' /\ DigestStands'
      BY <3>2
    <3> QED BY <2>2, <3>1, <3>2 DEF Look
  <2>3. CASE CreateArchive(c)
    BY <2>3 DEF CreateArchive
  <2>4. CASE Request(c)
    <3>1. ASSUME NEW error \in {"Network", "Status", "Redirect", "TooLarge"}, Fails(c, error)
          PROVE  HeldIsPinned' /\ DigestStands'
      BY <3>1
    <3>2. ASSUME NEW host \in Hosts, NEW hops \in 0..(MaxRedirects + 1),
                 cmd' = [cmd EXCEPT ![c].host = host, ![c].hops = hops],
                 UNCHANGED <<cached, ran, temporary>>
          PROVE  HeldIsPinned' /\ DigestStands'
      BY <3>2
    <3>3. CASE Goes(c, "body") /\ UNCHANGED <<cached, ran, temporary>>
      BY <3>3
    <3> QED BY <2>4, <3>1, <3>2, <3>3, RequestOutcomes
  <2>5. CASE Receive(c)
    BY <2>5 DEF Receive
  <2>6. CASE Extract(c)
    BY <2>6 DEF Extract
  <2>7. CASE Verify(c)
    BY <2>7 DEF Verify
  <2>8. CASE Persist(c)
    BY <1>0, <2>8 DEF Persist, Gains
  <2>9. CASE DigestCached(c)
    BY <2>9 DEF DigestCached
  <2>10. CASE Version(c)
    BY <2>10 DEF Version
  <2>11. CASE Kill(c)
    BY <2>11 DEF Kill
  <2> QED BY <1>2, <2>1, <2>2, <2>3, <2>4, <2>5, <2>6, <2>7, <2>8, <2>9, <2>10, <2>11
          DEF CacheStep
<1> QED BY <1>1, <1>2 DEF CacheNext

\* What starts from the cache is what Version finds at the path.
LEMMA StepKeepsRuns ==
    ASSUME CacheIInv, CacheNext
    PROVE  OnlyPinnedRuns'
<1> USE DEF CacheIInv, CacheTypeOK, CacheInv, OnlyPinnedRuns, Fails
<1>1. ASSUME NEW c \in Commands, Version(c)
      PROVE  OnlyPinnedRuns'
  BY <1>1 DEF Version, At, DigestStands
<1>2. CASE UNCHANGED ran
  BY <1>2
<1> QED BY <1>1, <1>2 DEF CacheNext, ClearCache, CacheStep, Kill, Explicit, Look,
        CreateArchive, Request, Receive, Extract, Verify, Persist, DigestCached

\* A command that ends drops its files, and one that has none keeps none.
LEMMA StepKeepsFiles ==
    ASSUME CacheIInv, CacheNext
    PROVE  (NothingKept /\ WithoutFiles)'
<1> USE DEF CacheIInv, CacheTypeOK, CacheInv, NothingKept, WithoutFiles, NoneYet,
            CacheEnded, Failures, At, Goes, Drops, Fails
<1>1. CASE ClearCache
  BY <1>1 DEF ClearCache
<1>2. ASSUME NEW c \in Commands, CacheStep(c) \/ Kill(c)
      PROVE  NothingKept' /\ WithoutFiles'
  <2>1. CASE Explicit(c)
    BY <2>1 DEF Explicit
  <2>2. CASE Look(c)
    BY <2>2 DEF Look
  <2>3. CASE CreateArchive(c)
    BY <2>3 DEF CreateArchive
  <2>4. CASE Request(c)
    <3>1. ASSUME NEW error \in {"Network", "Status", "Redirect", "TooLarge"}, Fails(c, error)
          PROVE  NothingKept' /\ WithoutFiles'
      BY <3>1
    <3>2. ASSUME NEW host \in Hosts, NEW hops \in 0..(MaxRedirects + 1),
                 cmd' = [cmd EXCEPT ![c].host = host, ![c].hops = hops],
                 UNCHANGED <<cached, ran, temporary>>
          PROVE  NothingKept' /\ WithoutFiles'
      BY <3>2
    <3>3. CASE Goes(c, "body") /\ UNCHANGED <<cached, ran, temporary>>
      BY <3>3
    <3> QED BY <2>4, <3>1, <3>2, <3>3, RequestOutcomes
  <2>5. CASE Receive(c)
    BY <2>5 DEF Receive
  <2>6. CASE Extract(c)
    BY <2>6 DEF Extract
  <2>7. CASE Verify(c)
    BY <2>7 DEF Verify
  <2>8. CASE Persist(c)
    BY <2>8 DEF Persist
  <2>9. CASE DigestCached(c)
    BY <2>9 DEF DigestCached
  <2>10. CASE Version(c)
    BY <2>10 DEF Version
  <2>11. CASE Kill(c)
    BY <2>11 DEF Kill
  <2> QED BY <1>2, <2>1, <2>2, <2>3, <2>4, <2>5, <2>6, <2>7, <2>8, <2>9, <2>10, <2>11
          DEF CacheStep
<1> QED BY <1>1, <1>2 DEF CacheNext

LEMMA CacheIInvHolds == CacheSpec => []CacheIInv
<1>1. CacheInit => CacheIInv
  BY InitCacheIInv
<1>2. CacheIInv /\ [CacheNext]_cacheVars => CacheIInv'
  <2>1. CacheIInv /\ CacheNext => CacheIInv'
    BY StepKeepsType, StepKeepsChecks, StepKeepsRuns, StepKeepsFiles
       DEF CacheIInv, CacheInv
  <2>2. CacheIInv /\ UNCHANGED cacheVars => CacheIInv'
    BY DEF CacheIInv, CacheTypeOK, CacheInv, HeldIsPinned, DigestStands, OnlyPinnedRuns,
       NothingKept, WithoutFiles, cacheVars
  <2> QED BY <2>1, <2>2
<1> QED BY <1>1, <1>2, PTL DEF CacheSpec

(* Whatever the commands that share the cache do to each other's files,    *)
(* and wherever they are killed: what a command starts from the cache is   *)
(* the pinned runtime, and only a killed command leaves a temporary file.  *)
THEOREM CacheInvHolds == CacheSpec => []CacheInv
<1>1. CacheIInv => CacheInv
  BY DEF CacheIInv
<1> QED BY <1>1, CacheIInvHolds, PTL

(* No download, bad, cut or late, puts another file at the cached path.    *)
THEOREM GainsOnlyPinnedHolds == CacheSpec => GainsOnlyPinned
<1>1. CacheIInv /\ [CacheNext]_cacheVars
        => [cached' # cached => cached' \in {Pinned, NoFile}]_cacheVars
  BY StepGains DEF Gains, cacheVars
<1> QED BY <1>1, CacheIInvHolds, PTL DEF CacheSpec, GainsOnlyPinned

-----------------------------------------------------------------------------
(* A program and what it started (ToolRun).                                *)

\* run.ts:63 "setTimeout": once stopTree was called while the program ran, the
\* SIGKILL of its group is due until the whole tree is gone: neither the exit
\* of the program, nor the answer to the call, nor a second stop takes it off.
KillToCome == stopAsked => killDue \/ TreeGone

\* A call is listed until it is answered, and a program that was answered for
\* is gone.
RunInv ==
    /\ RunTypeOK /\ KillToCome
    /\ outcome # "none" => leader.state = "gone"
    /\ listed <=> outcome = "none"

LEMMA GroupTypes ==
    RunTypeOK =>
      /\ Alive \subseteq {"leader", "other"} /\ told \subseteq {"leader", "other"}
      /\ leader.state \in {"running", "gone"} /\ other.state \in {"none", "running", "gone"}
BY DEF RunTypeOK, Alive

\* A stop leaves the SIGKILL due wherever it was, and where it was asked.
LEMMA StopTreeParts ==
    ASSUME RunTypeOK, KillToCome, StopTree, UNCHANGED <<leader, other>>
    PROVE  /\ told' \subseteq {"leader", "other"} /\ killDue' \in BOOLEAN /\ stopAsked' \in BOOLEAN
           /\ KillToCome'
BY GroupTypes DEF StopTree, KillToCome, TreeGone, Alive, RunTypeOK

LEMMA RunInvStep == RunInv /\ [RunNext]_runVars => RunInv'
<1> SUFFICES ASSUME RunInv, [RunNext]_runVars PROVE RunInv'
  OBVIOUS
<1> USE DEF RunInv
<1>1. CASE TimeOut
  BY <1>1, StopTreeParts DEF TimeOut, RunTypeOK
<1>2. CASE Abort
  BY <1>2, StopTreeParts DEF Abort, RunTypeOK
<1>3. CASE KillTree
  <2>1. /\ leader' \in [state: {"running", "gone"}, deaf: BOOLEAN] /\ leader'.state = "gone"
        /\ other' \in [state: {"none", "running", "gone"}, deaf: BOOLEAN, piped: BOOLEAN]
        /\ other'.state # "running"
    BY <1>3 DEF KillTree, RunTypeOK
  <2> QED BY <1>3, <2>1 DEF KillTree, RunTypeOK, KillToCome, TreeGone, Alive
<1>4. CASE Close
  BY <1>4 DEF Close, groupVars, RunTypeOK, KillToCome, TreeGone, Alive
<1>5. CASE Shutdown
  <2>1. CASE listed
    BY <1>5, <2>1, StopTreeParts DEF Shutdown, RunTypeOK
  <2>2. CASE ~listed
    BY <1>5, <2>2 DEF Shutdown, RunTypeOK, KillToCome, TreeGone, Alive
  <2> QED BY <2>1, <2>2
<1>6. CASE ServerExits
  BY <1>6 DEF ServerExits, groupVars, RunTypeOK, KillToCome, TreeGone, Alive
<1>7. CASE StartsOther
  <2>1. RunTypeOK'
    BY <1>7 DEF StartsOther, RunTypeOK
  <2>2. stopAsked => killDue
    BY <1>7 DEF StartsOther, KillToCome, TreeGone, Alive
  <2> QED BY <1>7, <2>1, <2>2 DEF StartsOther, KillToCome, RunTypeOK
<1>8. CASE LeaderGoes
  BY <1>8 DEF LeaderGoes, RunTypeOK, KillToCome, TreeGone, Alive
<1>9. CASE OtherGoes
  BY <1>9 DEF OtherGoes, RunTypeOK, KillToCome, TreeGone, Alive
<1>10. CASE UNCHANGED runVars
  BY <1>10 DEF runVars, RunTypeOK, KillToCome, TreeGone, Alive
<1> QED BY <1>1, <1>2, <1>3, <1>4, <1>5, <1>6, <1>7, <1>8, <1>9, <1>10 DEF RunNext

LEMMA RunKept == RunSpec => []RunInv
<1>1. RunInit => RunInv
  <2> SUFFICES ASSUME RunInit PROVE RunInv
    OBVIOUS
  <2>1. other \in [state: {"none", "running", "gone"}, deaf: BOOLEAN, piped: BOOLEAN]
    BY DEF RunInit
  <2>2. listed \in BOOLEAN /\ limit \in BOOLEAN /\ (listed <=> outcome = "none")
    BY DEF RunInit
  <2> QED BY <2>1, <2>2 DEF RunInit, RunInv, RunTypeOK, KillToCome
<1> QED BY <1>1, RunInvStep, PTL DEF RunSpec

\* A run of a program (run.ts) keeps its types.
THEOREM RunTypeCorrect == RunSpec => []RunTypeOK
<1>1. RunInv => RunTypeOK
  BY DEF RunInv
<1> QED BY <1>1, RunKept, PTL

\* Whatever exits, closes, times out or is cancelled, in any order: once
\* stopTree was called while the program ran, its SIGKILL is due until the
\* whole tree is gone.
THEOREM RunKillToCome == RunSpec => []KillToCome
<1>1. RunInv => KillToCome
  BY DEF RunInv
<1> QED BY <1>1, RunKept, PTL
=============================================================================
