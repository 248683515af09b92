# TLA+ models of the Overcrow widget tools

This directory holds the formal models of the programs of this repository:
`overcrow-widget` (the command-line tool in `cli/`), the crates it shares with
the overlay (`crates/`), the widget SDK (`sdk/`) and the documentation server
(`mcp/`). It describes what the code does, checks it on small instances with
TLC, and proves the parts that matter most with TLAPS for every value of the
constants. Everything is translated from the source; `PROJECT.json` names, for
every definition, the lines it stands for.

## The system

| Part | State it keeps | Operations | What is hard | What makes it correct |
| --- | --- | --- | --- | --- |
| Submission (`cli/src/publish/submit.rs`, `state.rs`, `client.rs`, `follow.rs`) | a state file per request, with an `Idempotency-Key`, a time and whether the API answered; a run's `Resume`, its `restarted` and `refreshed` flags, its counters | list versions, open or resume the state, create, upload, finalize, follow, forget | runs killed anywhere, lost answers, requests served late, two runs at once, two clocks of expiry | one version per request; nothing open is abandoned; a key goes with one request; true words at the end; every run ends |
| The publish API (a service outside the repository) | submissions by key, versions of a number, the submission limit | create, sign an upload, finalize, expire, check | eventual sight of the upload, expiry | external: modelled as `submit` relies on it |
| Reading commands (`publish/status.rs`, `api.rs`, `texts.rs`, `render.rs`, `secret.rs`) | none | read a version, check texts, print | none | pure functions and reads |
| Development session (`cli/src/dev.rs`, `channel.rs`, `watch.rs`, `interrupt.rs`) | installed and accepted package, a package waiting, a request pending, a widget source snapshot | watch, debounce, typecheck, build, send, receive answers, stop | edits during a build and during a transfer, `busy` answers retried, answers to what is no longer wanted, the end of the session | the overlay ends up showing the last good build; nothing stays installed after the end |
| Development channel (`crates/overcrow-widget-devchannel`, `cli/src/channel.rs`) | the partial frame of each end, the handshake, a budget of requests per connection | write and read frames, refuse, time out, take from the budget | frames cut anywhere, a refusal that crosses the client's `hello`, refill arithmetic | the two ends stay in step; a refusal is told; no more than the rate in any interval |
| Overlay (outside the repository; `docs/content/en/dev-channel.md`) | sessions, their widgets, the one install or remove in progress | install, remove, disconnect | `busy`, `conflict`, the session limit | external |
| The runtime (`cli/src/runtime.rs`, `download.rs`) | a cache of one verified program per version | look, download with redirects, extract, verify, rename, digest, version | two commands at once, kills, a cache cleared between two steps | what runs was verified; the cache gains only the pinned file; every command ends |
| Building and testing (`build.rs`, `bundle.rs`, `lint.rs`, `typecheck.rs`, `test.rs`, `snapshot.rs`, `diff.rs`, `permissions.rs`, `init.rs`, `doctor.rs`) | files of one run | read sources, report, write | parsing, limits | functions of their inputs |
| Archives and sources (`zipread.rs`, `zipwrite.rs`, `sourcetree.rs`, `admit.rs`) | none | read an archive or a folder within limits, write, admit | bytes claimed twice or by nobody, names that clash, a folder and its archive read differently | each byte in one entry; clashes found; one project, one tree |
| The catalog (`crates/overcrow-widget-schema`, `catalog_v2.rs`, `identifiers.rs`) | the tables of one read | publishers, widgets, targets, policies | an older reader, nested domains | an ID has one owner; what a newer reader accepts an older one reads |
| Views (`crates/overcrow-widget-format`, `expr.rs`, `ocml.rs`; `compiled_view.rs`; `bundle.rs`) | the tree of one view | parse expressions, check, emit, validate, print the table | the same tree walked by three codes, precedence, scopes | an expression means what JavaScript says; the validator takes what is emitted; names are bound where they are read |
| Other formats (`manifest.rs`, `results.rs`, `limits.rs`, `ocss.rs`, icons, IPC) | none | validate | tables, limits | a parser takes what the format allows |
| Scenarios (`crates/overcrow-widget-scenario`) | a file of a test, checked | parse and check the steps of a scenario | limits and shapes | a function of one file |
| SDK (`sdk/src`) | timers, pending requests, the view | `atEach`, `after`, `every`, fetch, storage, view updates | drifting, late, hidden and cancelled timers | a clock shows its unit; one timer; nothing after a cancellation |
| Documentation server (`mcp/src`) | the adopted tools and their installation, remembered test runs, running programs | install the tools, run a program, prepare a submission | several servers and requests, timeouts, programs that do not stop, edits during a run | tools adopted are whole; a stopped tree goes; ready means tested |
| Widgets (`widgets/`) | each its model | read services, render | reads in flight while events, accounts and games change | what is shown is of the player, the account and the game followed; nothing missed |
| Templates, scripts, fuzz targets, published packages, documentation, CI | | | | not program logic of the tools |

How they interact: `submit` and `status` call the publish API over HTTPS;
`submit` leaves state files that only later runs of `submit` read. `dev` speaks
the development channel with the overlay over a local socket. `test`
uses the runtime cache; all commands use the crates. The documentation server runs the
command-line tool as a process, from a cache of its own. The SDK runs in a widget, in the overlay or in
a scenario; a widget speaks to the host's services through it.

## Modules

| Module | What it is |
| --- | --- |
| `PublishApi` | External: the publish API of one version number, as `submit` uses it. |
| `Submit` | Runs of `submit`, their state files, and the network between them and `PublishApi`. |
| `SubmissionLedger` | The abstract specification of `submit`: what is open and what was delivered, for each request. |
| `SubmitProofs` | Theorems about `Submit`: its types, its keys. |
| `SubmitPromises` | Theorems: nothing live lost, one version of a request, the ledger implemented, true ends. |
| `MCSubmit` | Instances of `Submit` for TLC. |
| `DevOverlay` | External: the overlay's end of one development session. |
| `DevSession` | The loop of `dev`, the developer who saves files, Ctrl+C, and the overlay it speaks to. |
| `DevPromise` | The abstract specification of `dev`: what is offered to the overlay, and what it shows. |
| `DevSessionProofs` | Theorems about `DevSession`, and that it implements `DevPromise`. |
| `MCDevSession` | Sets of contents for TLC. |
| `DevChannel` | A connection of the development channel: its frames, cut anywhere, and the handshake. |
| `RequestBudget` | The token bucket of a session's requests. |
| `ChannelProofs` | Theorems about `DevChannel` and `RequestBudget`. |
| `RuntimeCache` | The cache of the headless runtime, shared by commands killed anywhere. |
| `ToolsCache` | The tools the documentation servers of a user install in one directory. |
| `ToolRun` | A program the documentation server starts, its time limit and its stop. |
| `Readiness` | What a preparation of a submission concludes from remembered test runs. |
| `CacheProofs` | Theorems about `RuntimeCache`, `ToolsCache`, `ToolRun` and `Readiness`. |
| `Timers` | `timers.atEach` of the SDK over the host's timers. |
| `SteamAchievements` | The start of the Steam achievements widget, its reads, and its profile step. |
| `LiveGoals` | The reads and events of the live goals widget. |
| `WidgetProofs` | Theorems about `Timers`, `SteamAchievements` and `LiveGoals`. |
| `Ownership` | The publishers of a catalog, and the owner of an ID. |
| `CatalogReader` | One catalog read by an older and a newer application. |
| `ZipLayout` | The bytes of a source archive, entry by entry. |
| `ZipNames` | The clashes of files and folders in an archive. |
| `SourceTree` | One project as a folder and as an archive. |
| `FormatProofs` | Theorems about `Ownership`, `CatalogReader`, `ZipLayout`, `ZipNames` and `SourceTree`. |
| `ViewExpressions` | The parser of expressions, and their canonical text. |
| `ViewTree` | The check of a view, its emission, its validation, and the nodes made of it. |
| `ViewProofs` | Theorems about `ViewTree`. |
| `MCParts` | Instances of the modules from `DevChannel` on, for TLC. |

A definition whose comment says "Mutant of X" is X as a plausible bug would have it: nothing
uses it. It breaks a property in the place of X; `PROJECT.json` lists one for each property.

The modules from `DevChannel` on share no state with each other. `MCParts` puts them in one
specification in which one part moves (`part`) and the others stay at a fixed initial state, so their states
add up and do not multiply; each keeps its own `Init`, `Next` and type invariant. They meet
`Submit` and `DevSession` only through the assumptions named below (`dev` takes a
message for a whole, `submit` takes the tree for read): no composition of two of them has a
behaviour that the parts alone do not have.

### Submit

*Data.* A request body is the record `[files, extras, texts]`: the widget
files, the other source files, and the presentation texts. The digest of the
archive is `Sources` (files and extras), the package is `files` alone, and the
hash that names the state file is `Name` (all three): the abstraction keeps
exactly which bodies collide for each of the three comparisons of the code. An
idempotency key is a model value.

*Time.* The clock ticks by a unit longer than the longest sequence of retries of one request
(minutes), so no request stays late across a tick, and a
run does not tick between its first request and the answer to its creation.
`PendingLifetime` (55 minutes) is 1, `Expiry` (60 minutes, the API's) is 2 and
`StaleAfter`, `Day` (24 hours) are 3 in the runs: the constants keep the order the
code relies on (`TimesType`), which is `PENDING_LIFETIME < Expiry` and
`PENDING_LIFETIME + Expiry <= STALE_AFTER`.

*State.* `file` is the directory of state files, a partial function from names; `run` says
for each process where it is in `submit` with the locals the code holds there
(`Resume`, `restarted`, `refreshed`, tries, waits); `late` is the requests whose run
stopped waiting for them; `attempt` is a history variable: for each key in use, its request, its
time, and whether an answer to it was saved.

*Actions.* One per step at which another process, the API or a kill may come
between: `Start` (context read), `Look` (versions read, `find_known`,
`check_locally`, `conclude_known`), `Open` (`Resume::open` with its `prune`), `Save`,
`Create`, `Keep` (the second `save`), `Upload`, `UploadRefused` and `Refresh` (a fresh link),
`Finalize`, `Recall` (an already finalized submission), `FollowDone` and
`FollowStops`, and the cuts `CreateCut`, `UploadCut`, `FinalizeCut`: no answer
came, the request may be served now (the answer is lost), later (`LateArrival`) or never,
and the run tries again or ends. `Crash` kills a run anywhere. A state file is written through
a rename, so a save is one step. `forget` and the end of the
run are one step: a kill between the two is a `Crash` after the next `Start`, or a
`Create` not followed, both in the model.

*What is left out.* Dry runs; the local refusals other than the submission limit and a known
version; `version_id` of the state file, which is written only when `submission_id` already is
and read only in a disjunction with it; a cache that cannot be written (there is
no resume then, and nothing is promised); the pace of polling and its limits, as their
outcomes (`FollowStops`); one publish key and one version number.

### DevSession and DevOverlay

*Data.* The sources are the record `[typed, style]`: the contents of the files `tsc` reads
(`logic.ts`, `tsconfig.json`, `package.json`) and of the others. A package is the
sources it was built from: its digest is a function of them, which is all `accepted ==
digest` compares. Some contents are bad: `BadTyped` for `tsc`, `BadStyles` for the other
checks. Builds are numbered in the order they are made (`n`, a history the code does not keep), so
that a property can say which of two is newer.

*State.* `pc` is where the loop is; `changed`, `typesPending`, `waiting`, `pending`, `retry`,
`accepted` are the locals of `run` and the members of `Session` (`installed` is set and taken
with `accepted`, so `accepted` stands for it; `pending` holds one request at most, so its kind
stands for its number). `touched` is what differs from the last snapshot. The times
become two flags: `changed` is `"settled"` 200 ms after the change (`Settle`), `due` is
true once `waiting`'s time has come (`RetryDue`). On the other side, `asked` is what the overlay
has not answered, `replies` its answers not read yet, `shown` the build it runs.

*Actions.* A turn of the loop is `Receive`, `Look`, perhaps `Load` and `Check` (a build:
the sources are read first, `tsc` reads its own files later, and a file may be saved between the
two), then `SendWaiting`. The snapshot and the test of `changed` are one step: the model's saves
come before the snapshot or after it, as in the code. `Stop`, `StopReceives` and `StopEnds` are
`Session::stop`. `Interrupt` is the signal handler, `Killed` a second signal or any other death.
`Save` is the developer, at any time. `Answer` and `Quit` are the overlay: every request is
answered once, with `ok`, `busy` or another code; it may quit at any time;
`Disconnect` is its promise that the end of a session removes its widgets
(`docs/dev-channel.md`, Session).

*Abstraction.* `DevPromise` says what a session promises without its loop, messages, delays and retries: snapshots are
taken of the sources, a build is made of the last snapshot and offered, the overlay shows an offered build
and from then on takes only newer ones, and an offer is withdrawn only for a newer one, alone for a refusal that is not `busy`,
or at the end. `DevSession` implements it (`KeepsPromise`) with `Offered` as what is offered: while the loop runs, the build
that waits and the one in flight, if newer than the one shown (after an answer not read yet, `retry` is the one shown); once it
stops, what the overlay was asked and has not answered; nothing once the overlay has gone. Reading an answer, `busy` and the delay change
nothing that is offered. `NewestNotLost` is what follows for the newest build: it is shown, in flight or waiting.

*What is left out.* The handshake, the messages that are only printed, an overlay that answers with
another digest than the one sent (the session ends), a manifest that changes the widget's
ID during a session, saves that keep a file's size and time.

### RequestBudget

`RequestBudget::take` line by line, in units that the constants name (`Unit` is the code's
1000, `Rate` its 10 tokens per millisecond, `Burst` its 20, `MaxU64` the width). The clock is the
caller's: `now` is any number, earlier or later than the last. `since` and `taken` are an
observer who may start to count at any time (`Observe`), so that a bound on what it
counts is a bound for every interval of the session.

### DevChannel

A frame is a sequence of cells: the first byte of its length, the rest of the length, the
header, the chunks of a package. The writer puts cells on `wire`, the reader takes
them (`ReadFirst`, `ReadLength`, `ReadHeader`, `ReadChunk`, `ReadEnd` are the reads of
`read_client_frame`), and the peer may go between any two. `own` says whether the peer
is the command-line tool, whose handshake is `Hello`, `Answered`, `Unanswered`, or any program, which
may write a frame that is too long, malformed, or with another package than it
announced. The overlay's loop around the reader is external (`Closes`, `RefuseSession`, `Greets`).
A package is read whole and its digest compared before the overlay makes anything of its frame, the first one too
(`TakesPackage`).
`TimesOut` is `FRAME_TIMEOUT` within a frame; between frames no clock runs. `InStep`
says that what the reader returns is the frames of the writer, in order and whole, and
that it stands where the writer's bytes are. `SaysWhy` is `channel.rs`'s word that a
refusal is read although the write of `hello` failed. Left out: the fields of the messages,
as functions of a frame's bytes; the socket's address and its permissions.

### RuntimeCache

A content stands for its digest. `cached` is the file of the cache, `temporary` the files being
downloaded and extracted, `cmd` each command with where it is in `resolve`, and `ran` what was
started. One action per step at which another command, the user who clears the cache
(`ClearCache`) or a kill (`Kill`) may come between. `Request` counts redirects, and follows only
the allowed hosts (`Allowed`). A file named by the user (`Explicit`) is not
verified, as in the code: it is what the user gave. `CacheInv` is that what runs from the
cache is the pinned file, and that temporary files belong to a command that goes on or was killed;
`GainsOnlyPinned`, that the cache changes only to it or to nothing. A
damaged file in the cache is refused, and never replaced by a command that found it. Left out: proxies,
progress, file modes.

### ToolsCache

Servers of one user (`Servers`) that each serve requests and share the installation promise of
`session.ts`; every `await` is a step. `loadInstalled` is one step: it reads, checks and
starts nothing else in between that another server waits for. `AdoptedStays` allows the one
case in which the code takes an adopted copy away (`lost`): two installations find the same damaged copy,
one replaces it, and the other sets the whole one aside. `NeverHalfWritten` is the rename.

### ToolRun

The program, one process it starts, which may outlive it, ignore SIGTERM and hold its
pipes, the timer of the run, the SIGKILL two seconds later, the abort and the server's exit. On POSIX
only. `StoppedTreeGoes`: where `stopTree` found the program running, the group goes and the call is
answered, unless the server exits first. Its safe half is proved (`KillToCome`, in `CacheProofs`):
from that moment the SIGKILL is due until the whole tree is gone, although the answer takes the limit and the
cancellation off.

### Readiness

A version of the sources stands for its fingerprint. Test calls and one preparation run side by side,
with `Edit` (the author) at any time. `ReadyUnlessDisturbed`: a preparation that says ready, with
no edit during a run or itself, is of sources whose tests passed on that version.

### Timers

Two clocks: the host counts timers down by a monotonic one; `Date.now()` is the wall clock, which may
lose or gain (`MaxSkew`). A tick may be sent late (`MaxLate`), held while the widget is
hidden, and arrive after a cancellation. Time passes only when no tick is on its way, which
bounds the logic's own delay to one step. `OneTimer`: at most one host timer, none once cancelled,
one as long as it goes on, and no callback after `cancel`. `KeepsTime`: past a boundary by the tolerance, the
callback has run since, given for seconds and minutes that the last tick was on time
(`ontime`); hours and days need nothing. A repeating tick is on time when it re-aligns the timer (it is late by the
minimum or more), or when it was due at its boundary (`DueSince`). The second half is not idle: a repeating timer that
runs early by the drift of the clocks and is sent late looks in phase, and is hidden just before the next boundary;
without `DueSince` the property is false from the twenty-second unit of time on, which is why `MaxTime` is 24 in
`parts`. `timers_hidden` is the case it leaves.

### Ownership and CatalogReader

`Ownership` reads a table of publishers entry by entry (`ReadPublisher`), then
checks the nesting of their domains (`CheckNesting`); `Owns` is `id_owner`. `OneOwner`: no
ID has two publishers. `CatalogReader` reads the entries of one catalog with the features of
two applications, `older` a subset of `newer`: an entry that needs an unknown feature is
skipped, its ID kept; a target of a skipped widget is skipped with it. `OlderStillReads`: the older reader accepts
whatever the newer does, and keeps what it supports.

### ZipLayout, ZipNames, SourceTree

`ZipLayout` is the loop of `entries_with` over the entries in the order of their offsets: where an
entry starts (`Starts`), where its descriptor ends (`EndsAt`), what the end requires. An
archive is chosen as it is read, so the reader meets any lengths. `EachByteOnce`: two entries
share no byte, and in a strict archive every byte up to the directory is of one. `ZipNames` is
`check_file_folder_clashes`, where the climb from a path stops at a known folder; `ClashesFound`
compares it with the definition of a clash. `SourceTree` is `walk` and `read_archive_bytes` on one project; a path is
a sequence of names, each standing for its kind. `ReadsTheSame`: with a manifest at
the root, both give the same files, or the archive is refused.

### ViewExpressions and ViewTree

`ViewExpressions` is the parser of `expr.rs` over tokens, function by function, with its
recursion bound, and `to_js`. `ReadsAsJavaScript` compares it with JavaScript's grammar, written
as the set of trees it derives from a text (`JsExpression`): each text gives the tree JavaScript
reads, or is refused when JavaScript derives none within the bounds. `PrintsBack`: the
canonical text of each tree parses again to it, which is why `PARSER_DEPTH` is three times
the depth of a tree. Two levels of binary operators stand for the four levels of the code under `??`,
which are the same loop. Parentheses leave no node, so `(a?.b).c` and `a?.b.c` are one tree, where JavaScript
tells them apart (the first throws when `a` is null): a difference this model cannot show.

`ViewTree` has the check of a source (`CheckDocument`), its emission (`Emit`: nodes, table and scopes), the
host's validation of the result (`ValidView`) and the nodes the VM makes of it (`Instances`, external: a
`for` twice, every branch, a slot filled in the names of its use). A tree is the sequence of its nodes in the order of
the document, each with the one it is under: the order in which the code's three recursive walks meet
them. What a walk carries down is therefore a function of a node and of what it carried to the node above: `PlacesTo` is
`Place`, `ContextsTo` is `Context`. The emitter's one `scope`, pushed and popped around a `for`, is walked as it is:
`Popped` takes off the names of the `for`s left before the next node. A call of the VM is a stack of
`frames`: at a node of the view, in it at a node of the body of the component used there, and so on.
`ValidatorAgrees`: what the check accepts, the validator accepts. `InstancesSound`: instantiation ends (after at most
`Steps`), each element is where its parent takes it, and each function of the table binds, once, the
names that the VM gives it. Expressions are the names they read and call.

### SteamAchievements and LiveGoals

Each is its widget's reads, await by await, with any answer and any event in between. Times are left
out: a route is asked or waits, either way. 

`SteamAchievements` starts with nothing known (`SteamInit`). `restore` (`logic.ts:2389-2428`) is four steps, one per
storage read that changes what is kept (`RestoreProfile`, `RestoreSnapshot`, `RestoreList`, `RestoreHidden`), and the account,
the game, the language, the minute and the profile step act between them: a read starts as soon as there is a
profile. What is found stored is any profile, any snapshot, any list: the model does not follow storage from one
start to the next, so that whatever an earlier start left, cut short or not, is among them. Whether the
widget is visible and connected is open at each start of a read. The profile step has one check
at a time in the run (`Checks`). `OwnAchievements` says that what is kept and shown is of the player followed and of the game
shown, with one exception, which is the code's: `mixed` becomes true when a restored profile is not the one
followed meanwhile, when a restored snapshot is not of the player followed, or when its game is not the one a read
beside has already chosen (`OneView` says what fits). The code does not compare them; what is
then shown may be wrong until Steam is read again or the profile changes. The property speaks again from the next change of profile
on (`Forgotten`), with whatever was in flight then. The cases are under *Seen while modelling*.

`LiveGoals` has the account, the events with the window
the host keeps, cuts and reconnections, and the routes the widget trusts the events
for (`current`); `NothingMissed` says that the newest value of such a route was learnt. Its assumption
on the host: each loss of the account and each cut of the events is told to the widget before the
next connection or the end of the cut.

## Runs

| Run | Question | Bounds |
| --- | --- | --- |
| `submit_one` | May a request run again and again lose its open submission or make two versions in a row? | one request, three keys, 4 ticks, two submissions a day, one retry, one wait, one late request |
| `submit_several` | Do keys of different requests mix, and do the runs implement the ledger? | three requests sharing sources or widget files, two keys, 2 ticks, one late request |
| `submit_two_runs` | What still holds when the same command runs twice at once, and are the ends true? | one request, two processes, two keys, 2 ticks |
| `submit_ends` | Does each run end by itself, and does the command, run again, deliver? | one request, three keys, 2 ticks, one retry, one wait; fairness below |
| `submit_limit` | Is a run cut short resumed? (the documentation says so; violated) | one request, a limit of one submission |
| `dev_any` | Do the session and the overlay agree on what is accepted, and does the session keep the promise (`DevPromise`): never an older build, and the newest never lost? | two typed contents, three of the others, one bad of each, three saves, any direction |
| `dev_onward` | Does the overlay end with what is on disk, do saves settle, does Ctrl+C leave nothing? | three typed contents (one bad), two of the others, three saves that only go forward, no refusal for good; fairness below |
| `dev_reverts` | The same end when the developer goes back to earlier contents (violated) | two contents, two saves |
| `dev_errors` | Is a build with errors ever sent? (violated) | a bad `typed`, two styles, one save |
| `parts` | What do eleven components promise, each in every order of its actors: timers, budget, test runs, catalog, archives, sources, expressions, the two widgets? | one constant per bound, below |
| `parts_end` | What do five others promise: the two caches, the channel, stopped programs, views; and do commands, requests, handshakes and stopped programs end? | the same constants; fairness below |
| `timers_hidden` | Is a clock that was hidden on time when shown again? (violated) | `Timers` alone, clocks that keep together |

*What they show.* The states of `submit` and `dev` runs are all those of one request or session
within the bounds. In `parts` and `parts_end`, an invariant is evaluated on every state, but only the part it is about
moves there. In `parts`: `OneTimer`, `KeepsTime` (timers); `BudgetInv`,
`WithinRate` (budget); `ReadyUnlessDisturbed` (ready); `OneOwner`, `OlderStillReads`,
`EachByteOnce`, `ClashesFound`, `OwnAchievements`, `NothingMissed`, `ReadsAsJavaScript` and
`PrintsBack`, `ReadsTheSame` (one part each). In `parts_end`: `CacheInv`, `GainsOnlyPinned` (cache); `AdoptedStays`, `NeverHalfWritten`
(tools); `InStep`, `SaysWhy` (channel); `StoppedTreeGoes` (run); `ValidatorAgrees` and `InstancesSound` (tree).
`WorkEnds` is three answers: commands that are not killed end, `setup`
requests of a server that goes on end, a handshake ends.

*Why the bounds are enough.* With 4 ticks an attempt goes through
its 55 minutes, the API's 60, a state file's day and a submission's
leaving the limit; three keys allow a renewed submission next to a pruned one; a retry
and a late request give every order of two finalizations of the same submission. Keys are
symmetric in the safety runs. `Outcomeless` is a VIEW that
forgets the end of the last run, which no guard reads.
In these two: two commands and one redirect too many (`MaxRedirects` 1, three hosts) for the cache, whose theorems
are for any number; two servers, two promises and three requests, so that two of one server share a
promise and a third races them; units of 6 and 8 with a minimum of 2, a tick late by one and clocks apart by one
(the tolerance is the sum), an offset that shortens, lengthens and changes twice within three
periods (`MaxTime`); three frames, of two chunks at most; a window of 9 in a 17-wide arithmetic; two
edits, one test call and one preparation; two publishers, with domains nested three deep; two
entries, one of each kind of feature; three archive entries of 0 to 5 bytes; three paths of
two components at most, with a name and its case variant; two players and one game, one profile check at a time, and the
bounds of `MCSteamNext` (below); two accounts, one change, two events and a window of one, so that one
event is lost; texts of five tokens, trees of three levels and two items; views of three nodes besides a second
component, which is enough for a slot in a `for`, a nested scope and a cycle of components;
four files of a project, one above the limit, one of them a link.
Of `SteamAchievements`: two players, so that what is read, shown, restored or checked may be of another; one game, shown or
not, which already leaves a read of the player before in flight over a change; one profile check at a time (`Checks` {k1}; a second
would need the step cancelled and opened again). `MCSteamNext` adds three bounds: no view of a long list is on its way before
`restore` is through; the profile step is opened at the start or from a game, not from a view without one; and once `mixed`, where
`OwnAchievements` says nothing, the run follows only the steps that lead to a change of
profile (`ProfileChanges`), whose end makes it speak again. With two games and without the first two, a search with symmetric players
and games found nothing either (2.4 million states, too long beside the other parts); a game that meets another one is in that
search and in `SteamOwnAchievements`, which has none of these bounds.

`NothingLiveAbandoned`, `OneVersionPerRequest` and `LedgerSpec` are promises for one run at a
time: nothing in the code locks the state file, and two runs at once may open two submissions
of one request. `RunsInv` and `EndsTruthfully` are checked with two.

### Findings

`submit_limit`: the submission limit is checked before the state
file is opened, and the submission cut short is itself counted in it. Cut at the last
submission of the day, the same command is refused instead of resuming.
`dev_reverts`: `rebuild` drops a build whose digest is the accepted one even when another build
waits or is in flight; going back to the accepted sources then leaves the other on the screen
until the next save. `dev_errors`: `types_pending` is cleared before the check of the
types, whatever it says; a save of another file after a failed check is built without `tsc`
and sent, with its type error.
`QuietShowsDisk` is therefore checked as holding only when contents never come back (`Reverts`
is FALSE in `dev_onward`), and it says nothing of sources on disk that have errors; the two violated
runs are the two cases it leaves.
`timers_hidden`: `atEach` starts its repeating timer from its first tick wherever that tick falls; a widget hidden
at its first boundary and shown in the middle of a period keeps the wrong phase until a
tick re-aligns it, one period later.

### Seen while modelling, without a run

Each of these was met in a model, and is told here so that a reader of a property knows what
it leaves out.

- `LiveGoals.LearntIsShown` (violated): a read served before an event and answered after it puts the
  older value back on the screen (`apply`), and `logic.ts:558` then takes the route as kept current, so it is not read
  again while the events are live. `NothingMissed` is what remains: the newer value was learnt.
- `ViewTree.RefIsOneNode` (violated): the check and the validator accept a `ref` in the children of a use of a component
  whose `slot` is inside a `for`; that `ref` then names several nodes, against view.md's "names one node".
- `ToolsCache.AsideIsDamaged` (violated): two servers that find the same damaged tools may set a whole copy aside.
- `ToolRun`: where the server exits within the two seconds after a SIGTERM, the SIGKILL that was due is lost, and what
  ignores SIGTERM stays. The SIGKILL goes to the group's number whether or not the program has closed since. A
  signal already aborted when the run starts is not noticed.
- `Readiness`: an edit while the tests run is fingerprinted with the tests' end (`build.ts:279`), so sources
  that no test saw are called ready. `ReadyUnlessDisturbed` excludes edits during a run.
- `SteamAchievements`: a read in flight may close the profile step; cancelling the step does not stop its check;
  a game read for the previous player may stay chosen until the recent list is due again.
- `SteamAchievements`, the cases `OwnAchievements` leaves out (`mixed`), each until Steam is read again or the profile changes:
  - a stop between the new profile stored (`logic.ts:2483`) and the old snapshot removed (`logic.ts:2491`), or a removal that
    fails, which is passed over: the next start shows the previous player's achievements;
  - a snapshot being written while the profile changes (`saveSnapshot` measures it in slices, `logic.ts:2341-2367`, and looks again only
    at the game): when the same game is shown again it is stored after the removal, with the previous player's achievements;
  - a read beside `restore` that has chosen another game than the snapshot's: `logic.ts:2402` puts the snapshot's back, and the
    read's answer is kept for it (`logic.ts:1643`), or the snapshot has no achievements and those just read are taken for its game's;
  - a profile submitted during `restore`, before the stored one is read: that one takes its place (`logic.ts:2396`), or
    the snapshot is restored under it.
- `SourceTree`: a wrapping folder named `tests` with an `output` folder at the project's root loses that folder; one
  named as a left-out folder gives an empty tree; an archive with a link or a name that is not portable is
  refused where the folder leaves it out; a folder more than sixteen deep is refused where the archive is not.
- A session of `dev` whose manifest changes the widget's ID leaves the first widget installed until the channel
  closes (`dev.rs:361`). A save that keeps size and time is not seen (`watch.rs:54`).
- A shared installation of the tools is aborted with the first request that asked for it (`session.ts:219`).
- The linker of `bundle.rs` does not check the names of namespace objects against the names in use; a star re-export takes
  the first of several. Its inputs are the embedded SDK and one logic file.

### Fairness

A run always takes its next step (`WF` of `Work`): its requests have timeouts and its
waits are bounded; `EveryRunEnds` needs no more than that. `DeliveredInTheEnd` assumes besides that the creator (or
a CI job) runs the command again whenever it ended, that no step fails
forever (`SF` of each step on the way: a request tried again and again gets an answer at some
time), and that the storage shows an upload as it was sent at some time. Nothing assumes that
a run is not killed: infinitely many kills are allowed as long as steps succeed infinitely often.
The clock needs no fairness.

In `DevSession` the loop takes its next step (each one is a bounded amount of work, and the receive has
a timeout), the two delays pass, and the end of the process closes the channel (`WF` of
each). While the loop runs the overlay accepts infinitely often if it is asked
infinitely often: it answers each request, and `busy` means an operation of another session, which
ends (`SF` of `Accepts`). Nothing is assumed of its answer to a removal: `REMOVE_TIMEOUT` is
why `StopsClean` holds.

In `parts_end` a command, a server, the client of a handshake, the writer of frames and the server that stops a
program take their next step (`WF` of `CacheStep(c)`, `ServerStep(s)`, `ClientStep`, `WriterStep`, `ServerTurn`): each
is bounded work or a wait with a limit in the code (`TOTAL_TIME`, `CONNECT_TIME` and `MAX_REDIRECTS` of a download,
`VERSION_TIMEOUT`; `FRAME_TIMEOUT`, `WRITE_TIMEOUT`, `REFUSAL_WAIT`; the run's timer). A process told to stop that does not ignore it goes
(`Obeys`, the operating system). Nothing is assumed of the network, of the overlay, of a user, nor of the
program being stopped.

## Proofs

`SubmitProofs` proves, for every set of requests and keys, any number of runs at
once and every value of the limits:

- `RunsInvHolds`: `Spec => []RunsInv`, the inductive invariant;
- `TypeCorrect`: `Spec => []TypeOK`;
- `KeysAreSafe`: `Spec => []KeyOfOneRequest`.

`TypeOK` is not inductive by itself: `Follow` stores an index of `versions` that
must exist (`VersionsExist`), and `Keep` and `LateArrival` look a key up in
`attempt`, which must know it (`UsedKeysKnown`). `KeyOfOneRequest` needs the
latter, and a fresh key that is in no file, no run, no late request and not on the API.
The proof has a lemma per action. The assumptions are the ones the modules name:
`RequestsType`, `LimitsType`, `TimesType`.

`SubmitPromises` proves, the first three with one run at a time (`Alone`), the last with any number, and otherwise as generally:

- `NothingLiveLost`: `Spec => []NothingLiveAbandoned`, from the inductive invariant `AloneInv`
  (checked by `submit_one`) on top of `RunsInv`. `NothingLost` is the promise extended to creations still
  under way: one that arrives after its run gave up must find its key in a file, or the attempt too
  old to matter, or the limit reached. `FilesTell` and `RunTells` say that the file and
  the run know of a key what happened to it; `FileLeads`, that a run past its first save has its own key in
  its file, and that what a save replaces is over or given up; `AttemptsOnApi` bounds
  the time of a creation, so that a stale file is of an expired submission; `OwnersFile`, that a run
  which follows its version forgets only a file of something over. Each step keeps `AloneInv` through one
  of a few common lemmas (`AloneStep`, `OnwardStep`, `ForgetStep`, `QuietStep`).
- `OneVersion`: `Spec => []OneVersionPerRequest`. Every step has one `Shape`, seen from the versions: it makes
  none, or one submission whose upload is seen becomes one (`Delivers`). `Leads` says that a submission which may still become a version
  is the one its state file leads to, hence there is one per request (`OnlyOne`). `SettledInv` adds what
  `OneVersionPerRequest` lacks to be inductive: only an answered attempt uploads (`UploadsAnswered`), and
  once a request is the newest version, nothing else of it that was answered for is waited for, and a run of it that did not see
  the version resumes the submission that made it (`Settled`).
- `LedgerKept`: `Spec => LedgerSpec`, the refinement: a submission that starts to be open finds none open of
  its request (`Arrival`), a version closes its own and no other (`DeliveryCloses`), and the rest closes or stutters.
- `TrueEnds`: `Spec => EndsTruthfully`, an action property: a version and its submission stay (`Lasting`), a run follows
  a version of its own files (`FollowsOwn`), and each way to end says what these make true (`TrueStep`). A refusal needs the key to have no
  version, which follows from every version being of a finalized submission.

`DevSessionProofs` proves, for every set of contents, any number of saves, and whatever the
developer, the overlay and Ctrl+C do:

- `SessionInvHolds`: `Spec => []SessionInv`. `AcceptedIsShown` says that one of four cases holds while the loop
  runs: nothing asked; an install asked; its answer not read yet (and if it is `ok`, what it accepted is what is shown);
  the channel lost with a request. It is the reason why comparing a rebuild with `accepted` is
  right when nothing else waits. `InOrder` numbers what is shown, in flight and waiting. Neither is inductive
  without the other: the reading of an answer needs to know it is the answer to `retry`,
  and `busy` puts `retry` back in `waiting` only when nothing newer waits.
- `OverlayGoesForward`: `Spec => NewerOnly`, an action property, from the same invariant: an
  install asked is newer than the build shown, and at most one is asked.
- `SessionKeepsPromise`: `Spec => KeepsPromise`, the refinement, one lemma for each action (`PromiseLoad` to `PromiseQuit`). It
  needs the strengthened `AcceptedIsShown` (reading an `ok` must offer nothing new and withdraw nothing)
  and that an overlay that has gone is asked nothing (`AskedOpen`).
- `NewestBuildKept`: `Spec => []NewestNotLost`, from the abstraction alone: `PromiseInvHolds` proves of any session that keeps the
  promise that its offers are newer than what is shown (`OffersNewer`) and that the newest is kept (`NewestKept`), and the mapping
  reads the second as `NewestNotLost`. Nothing of the loop is used again.
- `QuietShowsTheSources`: `Spec => []QuietShowsDisk`, from `OnwardInv`, for contents that never come back and an overlay
  that refuses a build only with `busy` (`~Reverts`, `Codes \subseteq {"busy"}`: the bounds of `dev_onward`; `dev_reverts`
  shows that the first is needed, and after a refusal for another reason the loop waits for the next save). `Follows` puts
  the packages in order, from the accepted one to the sources on disk, through what is in flight, waiting and read:
  contents between two equal ones are equal to them, so a build dropped because it equals the accepted one leaves
  nothing older behind. `CaughtUp` says that with no save left to look at, the last build read what is on disk and the
  session is after what it made of it; `TypesAsked`, that types wait to be checked only where `tsc` runs.

`ChannelProofs` proves of `RequestBudget`, for every rate, burst and width in which a full bucket fits, no time being larger
than the arithmetic:

- `BudgetInvHolds`: `BudgetSpec => []BudgetInv`. `Balance` (what is in the bucket and what was taken
  never exceed a full bucket and the time passed) is the invariant behind the bound;
- `RateHolds`: `BudgetSpec => []WithinRate`;

and of `DevChannel`, for any number of frames and chunks:

- `ChannelTypeCorrect`: `ChannelSpec => []ChannelTypeOK`;
- `ChannelInStep`: `ChannelSpec => []InStep`. What is written and not read is one stream (`wire \o unsent`), and the invariant
  `ChannelInv` says where in it each frame of the writer begins (`Placed`, `Laid`): the one being read begins before the
  stream by the cells already taken, each next one where the one before it ends, and each cell in sight is the one its frame
  has there. Hence the byte at which the reader stands is what it takes it for. `ReadsRight` and `GotRight` are what the
  reader knows of the frame it is in and of those it returned. Once the reader has closed nothing is claimed of the stream;
- `ChannelSaysWhy`: `ChannelSpec => SaysWhy`, an action property, from `HandshakeInv`: until the handshake ends the tool has
  begun its `hello` at most, and the overlay has said at most one word, which is `welcome` only to a `hello` that came whole.

`CacheProofs` proves of `RuntimeCache`, for any commands, contents and hosts:

- `CacheInvHolds`: `CacheSpec => []CacheInv`, from `CacheIInv`, which adds the types and `WithoutFiles` (a command that has
  not begun to download, or has ended, has no temporary file);
- `GainsOnlyPinnedHolds`: `CacheSpec => GainsOnlyPinned`: only `Persist` puts a file in place, and
  what it holds was verified (`HeldIsPinned`);

of `ToolsCache`, for any servers, requests and promises:

- `ToolsTypeCorrect`: `ToolsSpec => []ToolsTypeOK`;
- `ToolsStay`: `ToolsSpec => []AdoptedStays`. `AdoptedStays` speaks of servers that have adopted; `SeenStays` extends it to whoever
  is about to: a request or an installation that found the tools whole, a promise resolved;
- `ToolsWhole`: `ToolsSpec => NeverHalfWritten`, an action property;

of `Readiness`, for any number of test calls and edits:

- `ReadyTypeCorrect`: `ReadySpec => []ReadyTypeOK`;
- `ReadyHolds`: `ReadySpec => []ReadyUnlessDisturbed`. Where nothing was edited meanwhile, a test call has run on what
  it fingerprinted (`CallTells`), the record of the last tests is true of its version (`RecordTells`), and what a
  preparation has compared so far is true of what is on disk (`PrepTells`);

and of `ToolRun`:

- `RunTypeCorrect`, and `RunKillToCome`: `RunSpec => []KillToCome`, with the types and the state of the answer (`RunInv`).

`FormatProofs` proves:

- `OwnInvHolds` and `OneOwnerHolds`, for any labels, handles and domains: an ID is under a domain through its
  first segments, so two owners of one ID have nested domains (`SameIdNests`), which the accepted
  table does not have.
- `ReadInvHolds` and `OlderStillReadsHolds`, for any widgets, versions and
  features with the older's among the newer's: `ReadInv` keeps the older reader behind the newer one, entry by entry.
- `EachByteOnceHolds`, for any lengths: `Ordered` (entries are one after
  the other), `Covered` (in a strict archive nothing lies between), `AtTheEnd` and `Concluded` (what
  the verdict says of the end).
- `NamesTypeCorrect` and `NamesClashesFound`, for any paths of any depth: the climb from a path stops at a folder
  already recorded, and `Recorded` says that this loses nothing: the table holds every folder above the entries
  done, so above a recorded folder all is recorded. `OneSpelling`, that a folder of the table has one spelling up to case.
- `SourcesTypeCorrect` and `SourcesReadTheSame`, for any paths and names: the reader of the folder and the one of the archive
  are compared limit by limit and path by path, with the wrapping folder taken off (`SourcesInv` only adds that a folder
  holds finitely many files, which their numbers need).

`ViewProofs` proves, for the four kinds of elements and the two components of the model, any names, any functions and any number of nodes:

- `TreeTypeCorrect`, with `TreeInvariant`: what is written so far is a tree in the order of the document (`Tree`: between a
  node and the one it is under, all is in the latter), each node of a form the author knows (`Formed`);
- `ValidatorAccepts`: `TreeSpec => []ValidatorAgrees`. Along the document (`NodeInduction`, the least counterexample),
  the emission has put out the first k nodes with their entries and holds the scope of what is under the k-th (`EmitIs`,
  `EmittedTo`): that popping gives back the scope of a node's place is `ScopeRestored`, from the `for`s being those
  between it and where it goes on (`ForsStep`, `ScopeGrows`). The contexts of what was put out are the places of the source without their names
  (`ContextsAre`), so each refusal of the validator is one of the check (`CheckedIsValid`);
- `CompiledViewsAreSound`: `TreeSpec => []InstancesSound`. Every stack of frames stands, frame by frame, in the place
  the check gave its node, in the body of what the frame before it uses (`StackOk`, kept by `StackMoves`: a slot goes back to the
  frame of the use, in its scope); the functions of the entries there bind what the check resolved
  (`StackSound`, with `ScopesClear`: no name is in a scope twice, none is `state` or `event`). As no component reaches
  itself there are at most three frames (`StackShort`), and a step goes forward in the body of a frame or into another body, never
  back: read as the digits of a number, the nodes of the frames grow (`MoveRises`), and the number of them is `Steps`.

Its lemmas by induction are about one set of numbers each (`StrongInduction`): no operator is
a parameter.

`WidgetProofs` proves of `Timers`, for any units, delays and skews:

- `TimersTypeCorrect`, and `TimersHoldOne`: `TimersSpec => []OneTimer`. `TimerShape` relates the host's timers, the ticks on
  their way and the timer the SDK believes in: one of them at most is the current one, and none is once cancelled;
- `TimersKeepTime`: `TimersSpec => []KeepsTime`, where every change of the offset is announced (`~Unannounced`:
  `nextChangeAt`, which the host gives). A one-shot timer comes within the minimum of the first thing the
  clock owes (`OneShotInTime`, `OwedFrom`: a boundary, the last change of the offset or the announced one), or waits hidden; a repeating one
  comes within the minimum past a boundary, the one before shown (`RepeatInTime`). Both are claimed with no tick on
  its way (`InTime`): the callback runs before time passes. This proof found that `ontime` had to say `DueSince`;

of `SteamAchievements`, for any players, games and checks:

- `SteamTypeCorrect`, and `SteamOwnAchievements`: `SteamSpec => []OwnAchievements`. What is kept, shown, being built or being
  read is of the player followed (`Kept`), except while another player is being stored (`Changing`), after which it is
  forgotten, and after a mix, which `Changing` includes: from there the proof only keeps types and `Asked`, until `Forgotten` starts again from
  nothing. `RestoreSnapshotStep` is where `OneView` is used: a snapshot that fits what is followed and being read
  leaves `Kept` true. A read and a check are of somebody (`Asked`), and once `restore` has a profile somebody is followed;

and of `LiveGoals`, for any accounts, goals, window and number of events:

- `GoalsTypeCorrect`, and `GoalsNothingMissed`: `GoalsSpec => []NothingMissed`. The property speaks of a widget that was told
  everything. The invariant `GoalsInv` says of any moment at which both sides are live that what is taken for current, or will be by the read
  in flight, is the newest value, or an event still in the window brings it, or the window has lost an event the
  widget will see is missing and reads everything again (`Known`: `Coming`, `Gap`). A read served before an event
  is harmless because the event, or what was learnt, is newer (`AllKnown` asks it of one of the two). `ChannelTells`
  orders the window, `BoardTells` ties a read to the account connected, `OfChannel` the events to come.
  The events of one update are handled one by one (`Told`); the proof goes along them by induction
  on natural numbers in its first-order form, the least counterexample of a set (`NatSetInduction`, from `WFMin`).

Every theorem rests on the assumptions the modules name and TLC evaluates (`ToolsAssumption`, `ReadyAssumption`, `ChannelAssumption`,
`NamesAssumption`, `SourcesAssumption`, `ScopeNamesAssumption`, `MaxNodesAssumption`, `TimersAssumption`, `SteamAssumption`, `GoalsAssumption`, and those above): that bounds are naturals, that model values for "nothing" are
not values, that `Lower` is a function on names. Besides them, only `QuietShowsTheSources` and `TimersKeepTime` have hypotheses, in their statements.

Only model-checked:

- `ReadsAsJavaScript` and `PrintsBack`: what RECURSIVE operators compute on texts, out of the prover's reach;
- liveness and fairness: `EveryRunEnds`, `DeliveredInTheEnd`, `SettlesDown`, `StopsClean`, `WorkEnds`, `StoppedTreeGoes`;
- `PartsTypeOK`, since `MCParts` reaches RECURSIVE operators; the type invariants of its parts are proved one by one, except that of the expressions.
  `parts_end` does not check those of its five parts.

## Not modelled

The map covers a small share of the code, because most of the code is not behaviour of the kind a
model of this size adds anything to:

- *Parsers, validators and tables*: manifests, results, limits, icons, the JSON of IPC
  messages, OCSS, the markup of OCML, the headers of archives, inflating. Each is a function of
  its bytes, and a model would repeat it character by character.
- *Commands of one run* (`build`, `check`, `test`, `snapshot`, `diff`, `permissions`, `init`,
  `doctor`, `inspect`, `admit`, `status`): from inputs to a report, nothing shared with another process.
- *The linker* of `bundle.rs` and *scenarios* (`overcrow-widget-scenario`): deterministic functions of one or two files.
- *Widgets and templates* other than the two: most of a widget is its view, and its reads follow the
  pattern of the two modelled ones.
- *The rest of the SDK*: wrappers of the host's calls, formatting, and the set of the host's listeners.
- *The documentation server's* search and texts.
- Times of the Steam and goals widgets; proxies, file modes and links in the caches; Windows in `ToolRun`.

## Plan

Done: submission with its ledger; the development session with its promise, and the channel; the caches; the
documentation server's tools, runs and preparations; the timers; the catalog's ownership and readers;
archives and source trees; expressions and views; two widgets.

Proved: every invariant the runs check except the two of the expressions (`ReadsAsJavaScript`, `PrintsBack`),
every action property, and both refinements.

Left, in order of worth:

1. Several `dev` sessions sharing one overlay, where `busy` comes from: each should keep `DevPromise` for its own widget.
2. The limits of sizes and depths of a view, and more than two components in it.
3. The SDK's host listeners, changed while they are told; the remaining widgets that read services.
4. The scopes and names of the linker; the parser of expressions as a walk along its tokens, which could be proved about.
