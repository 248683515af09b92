---------------------------- MODULE RuntimeCache ----------------------------
(***************************************************************************)
(* `overcrow-widget test` finds its headless runtime (runtime.rs `resolve`)*)
(* and downloads the pinned one when the cache has none (download.rs).     *)
(* Several commands share one cache directory. A command may be killed     *)
(* between any two steps; the server may redirect, cut or serve anything.  *)
(*                                                                         *)
(* A file's content stands for its SHA-256: two files with one digest are  *)
(* one content. Connections, bytes and time are abstracted to what the     *)
(* answer of the server turns into.                                        *)
(***************************************************************************)
EXTENDS Naturals, FiniteSets

CONSTANTS
    Commands,     \* `test` commands, each run once
    Contents,     \* what an executable file may hold
    Pinned,       \* the content whose digest this CLI pins
    NoFile,       \* no file at a path
    FirstHost, RedirectHosts, Hosts,  \* download.rs: where a request may go
    MaxRedirects  \* download.rs MAX_REDIRECTS

ASSUME CacheAssumption ==
    /\ Pinned \in Contents
    /\ NoFile \notin Contents
    /\ FirstHost \in RedirectHosts /\ RedirectHosts \subseteq Hosts
    /\ MaxRedirects \in Nat

VARIABLES
    cached,    \* the file at <cache>/runtime/<version>/<artifact>, or NoFile
    temporary, \* the `.download-` and `.runtime-` files, as <<command, kind>>
    cmd,       \* each command: where it is and what it holds
    ran        \* every <<command, content>> started as a pinned runtime
cacheVars == <<cached, temporary, cmd, ran>>

Failures == {"NotPinned", "Missing", "Unreadable", "Digest", "NotARuntime",
             "Incompatible", "Network", "Status", "Redirect", "TooLarge",
             "Archive", "MissingEntry", "Write"}
CacheEnded == {"ready", "dead"} \cup Failures

\* A command that has not looked at its options yet. `file`: the content it
\* extracted, or the one it digested; `host`, `hops`: its next request.
NewCommand == [pc |-> "new", offline |-> FALSE, explicit |-> FALSE,
               file |-> NoFile, host |-> FirstHost, hops |-> 0]

CacheTypeOK ==
    /\ cached \in Contents \cup {NoFile}
    /\ temporary \subseteq Commands \X {"archive", "runtime"}
    /\ ran \subseteq Commands \X Contents
    /\ cmd \in [Commands ->
         [pc: {"new", "digest", "create", "request", "body", "extract", "verify",
               "persist", "version"} \cup CacheEnded,
          offline: BOOLEAN, explicit: BOOLEAN, file: Contents \cup {NoFile},
          host: Hosts, hops: 0..(MaxRedirects + 1)]]

\* The cache may hold the runtime, nothing, or a damaged file.
CacheInit ==
    /\ cached \in Contents \cup {NoFile}
    /\ temporary = {} /\ ran = {}
    /\ cmd = [c \in Commands |-> NewCommand]

At(c, pc) == cmd[c].pc = pc
Goes(c, pc) == cmd' = [cmd EXCEPT ![c].pc = pc]
Drops(c) == temporary' = {t \in temporary : t[1] # c}  \* removed when dropped
\* `?`: the command ends with an error, and its temporary files are dropped.
Fails(c, error) == Goes(c, error) /\ Drops(c) /\ UNCHANGED <<cached, ran>>

\* `--runtime <path>`: the file given is digested where it is.
Explicit(c) ==
    /\ At(c, "new")
    /\ \E file \in Contents \cup {NoFile} :
         cmd' = [cmd EXCEPT ![c].pc = IF file = NoFile THEN "Unreadable" ELSE "version",
                            ![c].explicit = TRUE, ![c].file = file]
    /\ UNCHANGED <<cached, temporary, ran>>

\* `path.is_file()`: a cached file is digested, an absent one downloaded.
\* Nothing is pinned for some platforms.
Look(c) ==
    /\ At(c, "new")
    /\ \/ Goes(c, "NotPinned")
       \/ \E offline \in BOOLEAN :
            cmd' = [cmd EXCEPT ![c].offline = offline,
                               ![c].pc = CASE cached # NoFile -> "digest"
                                           [] cached = NoFile /\ offline -> "Missing"
                                           [] OTHER -> "create"]
    /\ UNCHANGED <<cached, temporary, ran>>

CreateArchive(c) ==
    /\ At(c, "create")
    /\ \/ Goes(c, "request") /\ temporary' = temporary \cup {<<c, "archive">>}
          /\ UNCHANGED <<cached, ran>>
       \/ Fails(c, "Write")

\* `allowed`: the first request goes to the first host, the others to the
\* redirect hosts.
Allowed(c) == IF cmd[c].hops = 0 THEN cmd[c].host = FirstHost
                                 ELSE cmd[c].host \in RedirectHosts

\* Mutant of Request: the redirects are not counted.
RequestUncounted(c) ==
    /\ At(c, "request")
    /\ \/ ~Allowed(c) /\ Fails(c, "Redirect")
       \/ /\ Allowed(c)
          /\ UNCHANGED <<cached, ran, temporary>>
          /\ \/ \E host \in Hosts :
                  cmd' = [cmd EXCEPT ![c].host = host, ![c].hops = 1]
             \/ Goes(c, "body")

\* One turn of the redirect loop: the check of the address, then the request
\* and its status.
Request(c) ==
    /\ At(c, "request")
    /\ \/ (cmd[c].hops > MaxRedirects \/ ~Allowed(c)) /\ Fails(c, "Redirect")
       \/ /\ cmd[c].hops <= MaxRedirects /\ Allowed(c)
          /\ UNCHANGED <<cached, ran>>
          /\ \/ \E host \in Hosts :
                  cmd' = [cmd EXCEPT ![c].host = host, ![c].hops = @ + 1]
                /\ UNCHANGED temporary
             \/ Goes(c, "body") /\ UNCHANGED temporary
             \/ \E error \in {"Network", "Status", "Redirect", "TooLarge"} :
                  Goes(c, error) /\ Drops(c)

\* The body is read to its end, within the size and the time allowed; a body
\* cut short of its declared length is refused.
Receive(c) ==
    /\ At(c, "body")
    /\ \/ Goes(c, "extract") /\ UNCHANGED <<cached, temporary, ran>>
       \/ \E error \in {"Network", "TooLarge"} : Fails(c, error)

\* The runtime's entry is extracted into a second file, and hashed: the ZIP
\* is not pinned, so its entry may hold anything. A body cut without a
\* declared length is an archive that does not read.
Extract(c) ==
    /\ At(c, "extract")
    /\ \/ /\ \E file \in Contents :
               cmd' = [cmd EXCEPT ![c].pc = "verify", ![c].file = file]
          /\ temporary' = temporary \cup {<<c, "runtime">>}
          /\ UNCHANGED <<cached, ran>>
       \/ \E error \in {"Archive", "MissingEntry", "Write"} : Fails(c, error)

\* Mutant of Verify: what was extracted is kept whatever it is.
VerifyAny(c) ==
    /\ At(c, "verify") /\ Goes(c, "persist")
    /\ UNCHANGED <<cached, temporary, ran>>

Verify(c) ==
    /\ At(c, "verify")
    /\ IF cmd[c].file = Pinned
       THEN Goes(c, "persist") /\ UNCHANGED <<cached, temporary, ran>>
       ELSE Fails(c, "Digest")

\* `persist`: renamed over whatever is there. It fails where the file in
\* place cannot be replaced (Windows, while another command runs it).
Persist(c) ==
    /\ At(c, "persist")
    /\ \/ cached' = cmd[c].file /\ Goes(c, "digest") /\ Drops(c) /\ UNCHANGED ran
       \/ Fails(c, "Write")

\* Mutant of DigestCached: a file found in the cache is trusted.
DigestTrusted(c) ==
    /\ At(c, "digest")
    /\ \/ cached = NoFile /\ Fails(c, "Unreadable")
       \/ /\ cached # NoFile
          /\ cmd' = [cmd EXCEPT ![c].pc = "version", ![c].file = cached]
          /\ UNCHANGED <<cached, temporary, ran>>

\* The cached file is read again, whoever wrote it, and must be the pinned one.
DigestCached(c) ==
    /\ At(c, "digest")
    /\ \/ cached = NoFile /\ Fails(c, "Unreadable")
       \/ cached \notin {NoFile, Pinned} /\ Fails(c, "Digest")
       \/ /\ cached = Pinned
          /\ cmd' = [cmd EXCEPT ![c].pc = "version", ![c].file = cached]
          /\ UNCHANGED <<cached, temporary, ran>>

\* `version` then `check`: the file at the path is started, which need not
\* be the file that was digested.
Version(c) ==
    /\ At(c, "version")
    /\ LET started == IF cmd[c].explicit THEN cmd[c].file ELSE cached
       IN  IF started = NoFile
           THEN Fails(c, "NotARuntime")
           ELSE /\ \E end \in {"ready", "NotARuntime", "Incompatible"} : Goes(c, end)
                /\ ran' = IF cmd[c].explicit THEN ran ELSE ran \cup {<<c, started>>}
                /\ UNCHANGED <<cached, temporary>>

CacheStep(c) ==
    \/ Explicit(c) \/ Look(c) \/ CreateArchive(c) \/ Request(c) \/ Receive(c)
    \/ Extract(c) \/ Verify(c) \/ Persist(c) \/ DigestCached(c) \/ Version(c)

\* The command is killed: nothing is dropped.
Kill(c) ==
    /\ cmd[c].pc \notin CacheEnded
    /\ Goes(c, "dead")
    /\ UNCHANGED <<cached, temporary, ran>>

\* The user clears the cache directory.
ClearCache ==
    /\ cached # NoFile
    /\ cached' = NoFile
    /\ UNCHANGED <<temporary, cmd, ran>>

CacheNext == ClearCache \/ \E c \in Commands : CacheStep(c) \/ Kill(c)
CacheSpec == CacheInit /\ [][CacheNext]_cacheVars
-----------------------------------------------------------------------------
(* What the cache promises.                                                *)

\* What a command may still do with the file it holds: past the digest, the
\* file is the pinned one; a command that holds one for the rename too.
HeldIsPinned ==
    \A c \in Commands : cmd[c].pc = "persist" => cmd[c].file = Pinned

\* A command past the digest finds the pinned file or none (cleared since):
\* no other command, whatever it downloads and wherever it is cut, puts
\* another file there.
DigestStands ==
    \A c \in Commands : cmd[c].pc = "version" /\ ~cmd[c].explicit
                          => cached \in {Pinned, NoFile}

\* runtime.rs: "checked against its SHA-256 before every run". What starts
\* from the cache is the pinned runtime, although the check and the start
\* are two steps and other commands write the same path in between.
OnlyPinnedRuns == \A run \in ran : run[2] = Pinned

\* The path only ever gains the pinned runtime: no bad, cut or partial
\* download replaces a file, and a damaged file stays as it is, refused by
\* every command, until the user clears it or a command that had found
\* nothing replaces it by the pinned one.
GainsOnlyPinned == [][cached' # cached => cached' \in {Pinned, NoFile}]_cacheVars

\* download.rs: "Both temporary files are removed when dropped, on every
\* path". What is left in the cache directory belongs to a command that
\* still runs or that was killed.
NothingKept ==
    \A t \in temporary : cmd[t[1]].pc = "dead" \/ cmd[t[1]].pc \notin CacheEnded

\* The three, and what is left in the cache directory, whatever the commands
\* do to each other's files.
CacheInv == HeldIsPinned /\ DigestStands /\ OnlyPinnedRuns /\ NothingKept

\* Each request chain is bounded, so every command that is not killed ends,
\* whatever the server does.
EveryCommandEnds == \A c \in Commands : <>(cmd[c].pc \in CacheEnded)
=============================================================================
