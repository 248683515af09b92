----------------------------- MODULE ToolsCache -----------------------------
(***************************************************************************)
(* The creator tools of the MCP servers (mcp/src/session.ts, bootstrap/    *)
(* install.ts, bootstrap/download.ts). Each server process serves several  *)
(* `setup` requests at once; they share one promise of an installation.    *)
(* The servers of one user share a cache directory, which a server takes   *)
(* its place in by a rename. JavaScript runs one step at a time between    *)
(* two awaits: an action is what runs from one await to the next.          *)
(***************************************************************************)
EXTENDS Naturals, FiniteSets

CONSTANTS
    Servers,       \* server processes sharing the cache
    Requests,      \* `setup` requests, each <<server, request>>
    Promises,      \* installations a server may start (bound)
    NoPromise,
    DamagedStart   \* whether the cache may hold a damaged copy at the start

ASSUME ToolsAssumption ==
    /\ \A r \in Requests : r[1] \in Servers
    /\ NoPromise \notin Promises /\ DamagedStart \in BOOLEAN

VARIABLES
    final,      \* the installed directory: "absent", "whole" or "damaged"
    working,    \* the `.install-` directories of each server's installations
    aside,      \* how many `.damaged-` directories are left (as a set of installs)
    tools,      \* session.tools: whether the server has adopted the tools
    installing, \* session.installing: the promise in progress
    promise,    \* each installation: its next step, or how it settled
    request,    \* each request: its next step and the promise it awaits
    lost        \* installations that set a whole copy aside
toolsVars == <<final, working, aside, tools, installing, promise, request, lost>>

Installs == Servers \X Promises
Settled == {"resolved", "refused", "error"}
RequestEnded == {"answered", "failed", "gone"}

ToolsTypeOK ==
    /\ final \in {"absent", "whole", "damaged"}
    /\ working \subseteq Installs /\ aside \subseteq Installs /\ lost \subseteq Installs
    /\ tools \in [Servers -> BOOLEAN]
    /\ installing \in [Servers -> Promises \cup {NoPromise}]
    /\ promise \in [Installs -> {"none", "fetch", "verify", "write", "probe", "rename",
                                 "load", "setAside", "remove", "replace", "gone"} \cup Settled]
    /\ request \in [Requests ->
         [pc: {"new", "load", "adoptFound", "join", "await", "adopt"} \cup RequestEnded,
          on: Promises \cup {NoPromise}]]

ToolsInit ==
    /\ final \in {"absent", "whole"} \cup (IF DamagedStart THEN {"damaged"} ELSE {})
    /\ working = {} /\ aside = {} /\ lost = {}
    /\ tools = [s \in Servers |-> FALSE]
    /\ installing = [s \in Servers |-> NoPromise]
    /\ promise = [i \in Installs |-> "none"]
    /\ request = [r \in Requests |-> [pc |-> "new", on |-> NoPromise]]

RequestGoes(r, pc) == request' = [request EXCEPT ![r].pc = pc]
InstallGoes(i, pc) == promise' = [promise EXCEPT ![i] = pc]
DirectoryKept == UNCHANGED <<final, working, aside, lost>>
-----------------------------------------------------------------------------
(* A request: Session.setup.                                               *)

\* `installedTools`: the tools adopted before, else the copy in the cache.
AskTools(r) ==
    /\ request[r].pc = "new"
    /\ RequestGoes(r, IF tools[r[1]] THEN "answered" ELSE "load")
    /\ DirectoryKept /\ UNCHANGED <<tools, installing, promise>>

\* `loadInstalled`: every file is compared with the pin. A directory that is
\* absent or differs is no copy.
LoadInstalled(r) ==
    /\ request[r].pc = "load"
    /\ RequestGoes(r, IF final = "whole" THEN "adoptFound" ELSE "join")
    /\ DirectoryKept /\ UNCHANGED <<tools, installing, promise>>

\* `adopt` of the copy found: the CLI answers the probe, or the request fails.
AdoptFound(r) ==
    /\ request[r].pc = "adoptFound"
    /\ \/ RequestGoes(r, "answered") /\ tools' = [tools EXCEPT ![r[1]] = TRUE]
       \/ RequestGoes(r, "failed") /\ UNCHANGED tools
    /\ DirectoryKept /\ UNCHANGED <<installing, promise>>

FreshPromises(s) == {p \in Promises : promise[<<s, p>>] = "none"}

\* `this.installing ??= …`, then `await this.installing`.
JoinInstall(r) ==
    /\ request[r].pc = "join"
    /\ \/ /\ installing[r[1]] # NoPromise
          /\ request' = [request EXCEPT ![r] = [pc |-> "await", on |-> installing[r[1]]]]
          /\ UNCHANGED <<installing, promise>>
       \/ /\ installing[r[1]] = NoPromise
          /\ FreshPromises(r[1]) # {}
          /\ LET p == CHOOSE p \in FreshPromises(r[1]) : TRUE
             IN  /\ promise' = [promise EXCEPT ![<<r[1], p>>] = "fetch"]
                 /\ installing' = [installing EXCEPT ![r[1]] = p]
                 /\ request' = [request EXCEPT ![r] = [pc |-> "await", on |-> p]]
    /\ DirectoryKept /\ UNCHANGED tools

\* The promise has settled: every request that awaits it goes on, one after
\* the other, before anything else runs. A rejection runs `finally` at once;
\* a resolution goes on to `adopt`, another await.
Awaited(s, p) ==
    LET waiting == {r \in Requests : r[1] = s /\ request[r] = [pc |-> "await", on |-> p]}
        end == promise[<<s, p>>]
        next == IF end = "resolved" THEN "adopt" ELSE "failed"
    IN  /\ waiting # {} /\ end \in Settled
        /\ request' = [r \in Requests |-> IF r \in waiting THEN [request[r] EXCEPT !.pc = next]
                                          ELSE request[r]]
        /\ installing' = IF end = "resolved" THEN installing
                         ELSE [installing EXCEPT ![s] = NoPromise]
        /\ DirectoryKept /\ UNCHANGED <<tools, promise>>

\* `adopt`, then `finally`: whatever promise is in progress is forgotten.
AdoptInstalled(r) ==
    /\ request[r].pc = "adopt"
    /\ installing' = [installing EXCEPT ![r[1]] = NoPromise]
    /\ \/ RequestGoes(r, "answered") /\ tools' = [tools EXCEPT ![r[1]] = TRUE]
       \/ RequestGoes(r, "failed") /\ UNCHANGED tools
    /\ DirectoryKept /\ UNCHANGED promise
-----------------------------------------------------------------------------
(* An installation: the body of the promise, and `install`.                *)

\* The ZIP is downloaded (or read where the caller names it); its temporary
\* file is removed either way. Only the pinned archive passes.
Fetch(i) ==
    /\ promise[i] \in {"fetch", "verify"}
    /\ \/ promise[i] = "fetch" /\ InstallGoes(i, "verify")
       \/ promise[i] = "verify" /\ InstallGoes(i, "write")
       \/ InstallGoes(i, "refused")
    /\ DirectoryKept /\ UNCHANGED <<tools, installing, request>>

\* Mutant of WriteFiles: the files are written where they are to be found.
WriteInPlace(i) ==
    /\ promise[i] = "write"
    /\ InstallGoes(i, "probe") /\ working' = working \cup {i} /\ final' = "damaged"
    /\ UNCHANGED <<aside, lost, tools, installing, request>>

\* `mkdtemp`, every file written durably, the directory synced.
WriteFiles(i) ==
    /\ promise[i] = "write"
    /\ \/ InstallGoes(i, "probe") /\ working' = working \cup {i}
       \/ InstallGoes(i, "error") /\ UNCHANGED working
    /\ UNCHANGED <<final, aside, lost, tools, installing, request>>

\* An exception on the way: `finally` removes the working directory.
Rejects(i, how) == InstallGoes(i, how) /\ working' = working \ {i}

\* `checkVersion`: the CLI must say it is the one of its ZIP.
ProbeVersion(i) ==
    /\ promise[i] = "probe"
    /\ \/ InstallGoes(i, "rename") /\ UNCHANGED working
       \/ Rejects(i, "refused")
    /\ UNCHANGED <<final, aside, lost, tools, installing, request>>

\* `rename(working, final)` works when nothing is there.
RenameIntoPlace(i) ==
    /\ promise[i] = "rename"
    /\ IF final = "absent"
       THEN final' = "whole" /\ InstallGoes(i, "resolved") /\ working' = working \ {i}
       ELSE InstallGoes(i, "load") /\ UNCHANGED <<final, working>>
    /\ UNCHANGED <<aside, lost, tools, installing, request>>

\* Mutant of LoadExisting: the copy of another server is used unchecked.
LoadUnchecked(i) ==
    /\ promise[i] = "load" /\ Rejects(i, "resolved")
    /\ UNCHANGED <<final, aside, lost, tools, installing, request>>

\* Mutant of LoadExisting: with a damaged copy in place, the rename is tried again.
LoadAgain(i) ==
    /\ promise[i] = "load"
    /\ \/ final = "whole" /\ Rejects(i, "resolved")
       \/ final # "whole" /\ InstallGoes(i, "rename") /\ UNCHANGED working
    /\ UNCHANGED <<final, aside, lost, tools, installing, request>>

\* "Another server finished first: use its copy once checked."
LoadExisting(i) ==
    /\ promise[i] = "load"
    /\ \/ final = "whole" /\ Rejects(i, "resolved")
       \/ final # "whole" /\ InstallGoes(i, "setAside") /\ UNCHANGED working
    /\ UNCHANGED <<final, aside, lost, tools, installing, request>>

\* "A damaged copy of our own cache: set it aside, then take its place." The
\* directory is renamed whatever it has become since it was checked.
SetAside(i) ==
    /\ promise[i] = "setAside"
    /\ IF final = "absent"
       THEN Rejects(i, "error") /\ UNCHANGED <<final, aside, lost>>
       ELSE /\ InstallGoes(i, "remove")
            /\ final' = "absent" /\ aside' = aside \cup {i}
            /\ lost' = IF final = "whole" THEN lost \cup {i} ELSE lost
            /\ UNCHANGED working
    /\ UNCHANGED <<tools, installing, request>>

RemoveAside(i) ==
    /\ promise[i] = "remove"
    /\ InstallGoes(i, "replace") /\ aside' = aside \ {i}
    /\ UNCHANGED <<final, working, lost, tools, installing, request>>

TakePlace(i) ==
    /\ promise[i] = "replace"
    /\ IF final = "absent"
       THEN final' = "whole" /\ Rejects(i, "resolved")
       ELSE Rejects(i, "error") /\ UNCHANGED final
    /\ UNCHANGED <<aside, lost, tools, installing, request>>

InstallStep(i) ==
    \/ Fetch(i) \/ WriteFiles(i) \/ ProbeVersion(i) \/ RenameIntoPlace(i)
    \/ LoadExisting(i) \/ SetAside(i) \/ RemoveAside(i) \/ TakePlace(i)
RequestStep(r) ==
    \/ AskTools(r) \/ LoadInstalled(r) \/ AdoptFound(r) \/ JoinInstall(r)
    \/ AdoptInstalled(r)

\* The server exits between two steps (its client closed): its requests and
\* its installations stop where they are, its directories stay.
StopServer(s) ==
    /\ \E r \in Requests : r[1] = s /\ request[r].pc \notin RequestEnded
    /\ request' = [r \in Requests |->
                     IF r[1] = s /\ request[r].pc \notin RequestEnded
                     THEN [request[r] EXCEPT !.pc = "gone"] ELSE request[r]]
    /\ promise' = [i \in Installs |->
                     IF i[1] = s /\ promise[i] \notin Settled \cup {"none"}
                     THEN "gone" ELSE promise[i]]
    /\ DirectoryKept /\ UNCHANGED <<tools, installing>>

\* The server's next step, of any of its requests and installations.
ServerStep(s) ==
    \/ \E r \in Requests : r[1] = s /\ RequestStep(r)
    \/ \E p \in Promises : InstallStep(<<s, p>>) \/ Awaited(s, p)

ToolsNext == \E s \in Servers : ServerStep(s) \/ StopServer(s)
ToolsSpec == ToolsInit /\ [][ToolsNext]_toolsVars
-----------------------------------------------------------------------------
(* What the servers promise.                                               *)

\* The tools a server has adopted stay installed: they are checked "once per
\* process" and run from the cache ever after. Only an installation that set
\* a whole copy aside takes them away (AsideIsDamaged).
AdoptedStays == (\E s \in Servers : tools[s]) => final = "whole" \/ lost # {}

\* The cache never shows a directory half written: what another server may
\* load is whole, or the damaged copy of the start, wherever a server stops.
NeverHalfWritten == [][final' # final => final' \in {"whole", "absent"}]_toolsVars

\* install.ts:234 "A damaged copy of our own cache: set it aside": what is
\* set aside, then removed, is a damaged copy.
AsideIsDamaged == lost = {}

\* Every request of a server that goes on gets an answer.
EveryRequestEnds ==
    \A r \in Requests : <>(request[r].pc \in RequestEnded)
=============================================================================
