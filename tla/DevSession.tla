------------------------------ MODULE DevSession ------------------------------
(***************************************************************************)
(* `overcrow-widget dev` (cli/src/dev.rs): the loop that watches the       *)
(* sources, rebuilds once they are still, sends the last build, one at a   *)
(* time, and stops on Ctrl+C; the developer saves files at any time, a     *)
(* build included.                                                         *)
(*                                                                         *)
(* Left out: the messages that are only printed; an overlay that accepts   *)
(* another package than the one sent (the session ends); a manifest that   *)
(* changes the widget's ID within a session; request numbers (`pending`    *)
(* holds one request of each kind at most, so the kind stands for it).     *)
(***************************************************************************)
EXTENDS DevOverlay

CONSTANTS
    BadTyped,   \* contents `tsc` refuses
    BadStyles,  \* contents the other checks refuse
    Typecheck,  \* FALSE with --no-typecheck
    Reverts,    \* whether the developer may go back to earlier contents
    MaxEdits    \* bound of the saves (model checking only)

ASSUME OptionsType ==
    /\ BadTyped \subseteq Typed /\ BadStyles \subseteq Styles
    /\ Typecheck \in BOOLEAN /\ Reverts \in BOOLEAN /\ MaxEdits \in Nat

VARIABLES
    disk,       \* the sources
    touched,    \* what was saved since the last snapshot
    edits,      \* the saves so far
    pc,         \* where the loop is
    changed,    \* "no", or a change "recent" or "settled" (200 ms old)
    typesPending, \* a file `tsc` reads changed since the last build
    work,       \* the build in progress: what it read, its options
    builds,     \* history: the number of the last build kept
    waiting,    \* the build to send, or NoBuild
    due,        \* whether its time to be sent has come
    pending,    \* the request in flight: "none", "install" or "remove"
    retry,      \* the build in flight, or NoBuild
    accepted,   \* the sources of the package last accepted
    interrupted \* Ctrl+C was pressed

sourceVars == <<disk, touched, edits>>
loopVars == <<changed, typesPending, work>>
sendVars == <<builds, waiting, due, pending, retry, accepted>>
vars == <<overlayVars, sourceVars, pc, loopVars, sendVars, interrupted>>

Steps == {"load", "check", "receive", "look", "send", "stop", "stopping", "ended"}

TypeOK ==
    /\ OverlayTypeOK
    /\ disk \in Sources
    /\ touched \subseteq {"typed", "style"}
    /\ edits \in Nat
    /\ pc \in Steps
    /\ changed \in {"no", "recent", "settled"}
    /\ typesPending \in BOOLEAN
    /\ work \in [read : Sources \cup {NoSources}, typecheck : BOOLEAN,
                 next : {"receive", "send"}]
    /\ pc = "check" => work.read \in Sources
    /\ builds \in Nat
    /\ waiting \in Build \cup {NoBuild}
    /\ due \in BOOLEAN
    /\ pending \in {"none", "install", "remove"}
    /\ retry \in Build \cup {NoBuild}
    /\ accepted \in Sources \cup {NoSources}
    /\ interrupted \in BOOLEAN

(* `run` up to its loop: the first snapshot, then the first build.         *)
Init ==
    /\ OverlayInit
    /\ disk \in Sources
    /\ touched = {}
    /\ edits = 0
    /\ pc = "load"
    /\ changed = "no"
    /\ typesPending = FALSE
    /\ work = [read |-> NoSources, typecheck |-> Typecheck, next |-> "receive"]
    /\ builds = 0
    /\ waiting = NoBuild
    /\ due = FALSE
    /\ pending = "none"
    /\ retry = NoBuild
    /\ accepted = NoSources
    /\ interrupted = FALSE

-----------------------------------------------------------------------------
(* `rebuild`: the sources are read, then `tsc` reads its own files.        *)
Load ==
    /\ pc = "load"
    /\ work' = [work EXCEPT !.read = disk]
    /\ pc' = "check"
    /\ UNCHANGED <<overlayVars, sourceVars, changed, typesPending, sendVars, interrupted>>

Fails ==
    \/ work.read.style \in BadStyles
    \/ work.typecheck /\ disk.typed \in BadTyped

(* A clean build, unless it was accepted already, waits to be sent.        *)
Check ==
    /\ pc = "check"
    /\ IF Fails \/ accepted = work.read
       THEN UNCHANGED <<builds, waiting, due>>
       ELSE /\ builds' = builds + 1
            /\ waiting' = [pkg |-> work.read, n |-> builds + 1]
            /\ due' = TRUE
    /\ pc' = work.next
    /\ UNCHANGED <<overlayVars, sourceVars, loopVars, pending, retry, accepted, interrupted>>

-----------------------------------------------------------------------------
(* `answer`: what an answer does; one to another request does nothing.     *)
Keep == UNCHANGED <<waiting, due, pending, retry, accepted>>

(* Mutant of Take: a busy build replaces a newer one that waits.           *)
TakeOver(reply) ==
    /\ pending' = "none"
    /\ retry' = NoBuild
    /\ accepted' = IF reply.code = "ok" THEN retry.pkg ELSE accepted
    /\ waiting' = IF reply.code = "busy" THEN retry ELSE waiting
    /\ due' = (reply.code # "busy" /\ due)

(* Mutant of Take: the request stays in flight unless it was done.         *)
TakeDone(reply) ==
    /\ IF reply.code = "ok"
       THEN pending' = "none" /\ retry' = NoBuild
       ELSE UNCHANGED <<pending, retry>>
    /\ accepted' = IF reply.kind = "install" /\ reply.code = "ok" THEN retry.pkg ELSE accepted
    /\ UNCHANGED <<waiting, due>>

Take(reply) ==
    /\ pending' = "none"
    /\ retry' = NoBuild
    /\ \/ /\ reply.kind = "install" /\ reply.code = "ok"
          /\ accepted' = retry.pkg
          /\ UNCHANGED <<waiting, due>>
       \/ /\ reply.kind = "install" /\ reply.code = "busy"
          /\ IF waiting = NoBuild
             THEN waiting' = retry /\ due' = FALSE
             ELSE UNCHANGED <<waiting, due>>
          /\ UNCHANGED accepted
       \/ /\ reply.kind = "remove" \/ reply.code = "other"
          /\ UNCHANGED <<waiting, due, accepted>>

Handle(reply) == IF reply.kind = pending THEN Take(reply) ELSE Keep

(* One turn of the loop: one message at most, then a look at the files,    *)
(* a build if a change has settled, and the build that waits is sent.      *)
Receive ==
    /\ pc = "receive"
    /\ ~interrupted
    /\ IF replies # <<>>
       THEN /\ Handle(Head(replies))
            /\ replies' = Tail(replies)
            /\ pc' = "look"
       ELSE /\ pc' = IF open THEN "look" ELSE "ended"
            /\ Keep
            /\ UNCHANGED replies
    /\ UNCHANGED <<open, asked, shown, sourceVars, loopVars, builds, interrupted>>

Look ==
    /\ pc = "look"
    /\ \/ /\ touched # {}
          /\ touched' = {}
          /\ changed' = "recent"
          /\ typesPending' = (typesPending \/ (Typecheck /\ "typed" \in touched))
          /\ pc' = "send"
          /\ UNCHANGED work
       \/ /\ touched = {} /\ changed = "settled"
          /\ changed' = "no"
          /\ work' = [work EXCEPT !.typecheck = typesPending, !.next = "send"]
          /\ typesPending' = FALSE
          /\ pc' = "load"
          /\ UNCHANGED touched
       \/ /\ touched = {} /\ changed # "settled"
          /\ pc' = "send"
          /\ UNCHANGED <<touched, loopVars>>
    /\ UNCHANGED <<overlayVars, disk, edits, sendVars, interrupted>>

Settle ==
    /\ changed = "recent"
    /\ pc # "ended"
    /\ changed' = "settled"
    /\ UNCHANGED <<overlayVars, sourceVars, pc, typesPending, work, sendVars, interrupted>>

(* The delay of a build sent back as busy is over.                         *)
RetryDue ==
    /\ waiting # NoBuild
    /\ ~due
    /\ pc # "ended"
    /\ due' = TRUE
    /\ UNCHANGED <<overlayVars, sourceVars, pc, loopVars, builds, waiting,
                   pending, retry, accepted, interrupted>>

Ready == pending = "none" /\ waiting # NoBuild /\ due

(* Mutant of SendWaiting: a build is taken as accepted once it is sent.     *)
SendAccepted ==
    /\ pc = "send"
    /\ IF Ready /\ open
       THEN /\ Ask("install", waiting)
            /\ pending' = "install"
            /\ retry' = waiting
            /\ accepted' = waiting.pkg
            /\ waiting' = NoBuild
            /\ due' = FALSE
       ELSE UNCHANGED <<asked, waiting, due, pending, retry, accepted>>
    /\ pc' = IF Ready /\ ~open THEN "ended" ELSE "receive"
    /\ UNCHANGED <<open, replies, shown, sourceVars, loopVars, builds, interrupted>>

SendWaiting ==
    /\ pc = "send"
    /\ IF Ready /\ open
       THEN /\ Ask("install", waiting)
            /\ pending' = "install"
            /\ retry' = waiting
            /\ waiting' = NoBuild
            /\ due' = FALSE
       ELSE UNCHANGED <<asked, waiting, due, pending, retry>>
    /\ pc' = IF Ready /\ ~open THEN "ended" ELSE "receive"
    /\ UNCHANGED <<open, replies, shown, sourceVars, loopVars, builds, accepted, interrupted>>

-----------------------------------------------------------------------------
(* Ctrl+C: the loop sees it at its next turn, asks for the widget it       *)
(* installed to be removed, and waits for the answer, 2 s at most.         *)
Interrupt ==
    /\ pc # "ended"
    /\ ~interrupted
    /\ interrupted' = TRUE
    /\ UNCHANGED <<overlayVars, sourceVars, pc, loopVars, sendVars>>

(* A second one, or a kill: the process is gone.                           *)
Killed ==
    /\ pc # "ended"
    /\ pc' = "ended"
    /\ UNCHANGED <<overlayVars, sourceVars, loopVars, sendVars, interrupted>>

Stop ==
    /\ pc = "receive"
    /\ interrupted
    /\ IF accepted # NoSources /\ open
       THEN /\ Ask("remove", NoBuild)
            /\ pending' = "remove"
            /\ pc' = "stopping"
       ELSE /\ pc' = "ended"
            /\ UNCHANGED <<asked, pending>>
    /\ UNCHANGED <<open, replies, shown, sourceVars, loopVars, builds, waiting, due,
                   retry, accepted, interrupted>>

StopReceives ==
    /\ pc = "stopping"
    /\ replies # <<>>
    /\ Handle(Head(replies))
    /\ replies' = Tail(replies)
    /\ pc' = IF pending' = "none" THEN "ended" ELSE "stopping"
    /\ UNCHANGED <<open, asked, shown, sourceVars, loopVars, builds, interrupted>>

(* Mutant of StopEnds: the answer is waited for as long as it takes.       *)
StopWaits ==
    /\ pc = "stopping"
    /\ ~open /\ replies = <<>>
    /\ pc' = "ended"
    /\ UNCHANGED <<overlayVars, sourceVars, loopVars, sendVars, interrupted>>

(* REMOVE_TIMEOUT is over, or the channel is closed.                       *)
StopEnds ==
    /\ pc = "stopping"
    /\ pc' = "ended"
    /\ UNCHANGED <<overlayVars, sourceVars, loopVars, sendVars, interrupted>>

-----------------------------------------------------------------------------
(* The developer saves a file, with other contents or not.                 *)
Save(part, v) ==
    /\ pc # "ended"
    /\ edits < MaxEdits
    /\ Reverts \/ v > disk[part]
    /\ disk' = [disk EXCEPT ![part] = v]
    /\ touched' = touched \cup {part}
    /\ edits' = edits + 1
    /\ UNCHANGED <<overlayVars, pc, loopVars, sendVars, interrupted>>

Edit == (\E v \in Typed : Save("typed", v)) \/ (\E v \in Styles : Save("style", v))

Session ==
    \/ Load \/ Check \/ Receive \/ Look \/ SendWaiting
    \/ Stop \/ StopReceives \/ StopEnds

Accepts ==
    /\ \E r \in asked : Answer(r, "ok")
    /\ UNCHANGED <<sourceVars, pc, loopVars, sendVars, interrupted>>

Overlay ==
    /\ \/ \E r \in asked, code \in {"ok"} \cup Codes : Answer(r, code)
       \/ Quit
    /\ UNCHANGED <<sourceVars, pc, loopVars, sendVars, interrupted>>

(* The end of the process closes the channel: the overlay removes what the *)
(* session installed.                                                      *)
Disconnect ==
    /\ pc = "ended"
    /\ Quit
    /\ UNCHANGED <<sourceVars, pc, loopVars, sendVars, interrupted>>

Next ==
    \/ Session \/ Settle \/ RetryDue
    \/ Interrupt \/ Killed
    \/ Edit \/ Overlay \/ Disconnect

Spec == Init /\ [][Next]_vars

-----------------------------------------------------------------------------
(* What `dev` promises.                                                    *)
LoopOn == pc \notin {"stopping", "ended"}

(* Nothing is being sent, built or waited for.                             *)
Quiet ==
    /\ LoopOn /\ pc \notin {"load", "check"}
    /\ touched = {} /\ changed = "no"
    /\ waiting = NoBuild /\ pending = "none"

HasErrors(s) == s.style \in BadStyles \/ (Typecheck /\ s.typed \in BadTyped)

(* What the session takes as accepted is what the overlay shows, or one    *)
(* answer away from it, so that a rebuild of it is rightly not sent again. *)
(* At most one install is in flight, and its answer is taken for no other. *)
NothingAsked == pending = "none" /\ retry = NoBuild /\ asked = {} /\ replies = <<>>
Asked == pending = "install" /\ asked = {[kind |-> "install", build |-> retry]} /\ replies = <<>>
Answered == pending = "install" /\ asked = {} /\ Len(replies) = 1 /\ replies[1].kind = "install"
Lost == pending = "install" /\ asked = {} /\ replies = <<>> /\ ~open

AcceptedIsShown ==
    LoopOn =>
        \/ NothingAsked /\ (open => shown.pkg = accepted)
        \/ Asked /\ open /\ shown.pkg = accepted
        \/ /\ Answered
           /\ open => IF replies[1].code = "ok" THEN shown = retry ELSE shown.pkg = accepted
        \/ Lost

(* Builds are numbered in the order they were made: shown, in flight,      *)
(* waiting, each is later than the one before.                             *)
InOrder ==
    /\ waiting.n <= builds /\ retry.n <= builds /\ shown.n <= builds
    /\ LoopOn /\ pending = "install" => retry # NoBuild
    /\ LoopOn /\ waiting # NoBuild => retry.n < waiting.n /\ shown.n < waiting.n
    /\ LoopOn /\ Answered /\ replies[1].code # "ok" => shown.n < retry.n
    /\ \A r, q \in asked : r.kind = "install" =>
          /\ shown.n < r.build.n /\ r.build.n <= builds
          /\ q.kind = "install" => q = r

SessionInv == TypeOK /\ AcceptedIsShown /\ InOrder

(* The session implements DevPromise: it offers the build that waits and   *)
(* the one in flight, while they are newer than the one shown, and, once   *)
(* it stops, what the overlay was asked.                                   *)
Offered ==
    IF ~open THEN {}
    ELSE IF LoopOn THEN {b \in {waiting, retry} : b.n > shown.n}
    ELSE {r.build : r \in {q \in asked : q.kind = "install"}}

Promise == INSTANCE DevPromise WITH
    read <- work.read, made <- builds, offered <- Offered, running <- LoopOn,
    MayRefuse <- "other" \in Codes

KeepsPromise == Promise!Spec

(* Unless the overlay refuses it for good, the newest build is shown, in   *)
(* flight or waiting, however `busy` answers, saves and builds fall.       *)
NewestNotLost ==
    LoopOn /\ open /\ "other" \notin Codes /\ builds > 0 =>
        builds \in {shown.n, retry.n, waiting.n}

(* The overlay never goes back to an older build, however `busy` answers,  *)
(* saves and builds fall.                                                  *)
NewerOnly ==
    [][shown' # shown /\ shown # NoBuild /\ shown' # NoBuild => shown'.n > shown.n]_vars

(* Once everything is quiet, the overlay shows the sources as they are     *)
(* (docs/content/en/cli.md, `dev`, step 3), if they have no errors and the *)
(* overlay refused nothing for good.  Broken by the code when the          *)
(* developer goes back to the accepted sources while another build is in   *)
(* flight or waits: `rebuild` returns, and the other build is accepted.    *)
QuietShowsDisk == Quiet /\ open /\ ~HasErrors(disk) => shown.pkg = disk

(* docs/content/en/cli.md: a build with errors is not sent.  Broken by the *)
(* code: types are checked only when a file `tsc` reads changed since the  *)
(* last build, even when they failed then.                                 *)
ErrorsNotSent ==
    [][\A r \in asked' \ asked :
         r.kind = "install" /\ r.build.pkg = disk /\ touched = {} => ~HasErrors(disk)]_vars

-----------------------------------------------------------------------------
(* The loop goes on, its delays pass, and the end of the process closes    *)
(* the channel; while the loop runs the overlay answers, and is not always *)
(* busy.  Nothing is assumed of its answer to a removal.                   *)
Fairness ==
    /\ WF_vars(Session) /\ WF_vars(Settle) /\ WF_vars(RetryDue) /\ WF_vars(Disconnect)
    /\ SF_vars(LoopOn /\ Accepts)

FairSpec == Spec /\ Fairness

(* Once the developer stops saving, nothing is left to build or to send.   *)
SettlesDown == <>[](Quiet \/ ~LoopOn)

(* Ctrl+C always ends the session, and the overlay shows nothing of it.    *)
StopsClean == interrupted ~> (pc = "ended" /\ shown = NoBuild)
=============================================================================
