------------------------------ MODULE DevOverlay ------------------------------
(***************************************************************************)
(* The overlay's end of the development channel, as one session of `dev`   *)
(* relies on it (cli/src/dev.rs, channel.rs, docs/dev-channel.md): the     *)
(* overlay itself is not in the repository.  It answers each request once, *)
(* shows what it accepted last, and removes it when the session ends.      *)
(***************************************************************************)
EXTENDS Naturals, Sequences

CONSTANTS
    Typed,      \* contents of the files `tsc` reads (1, 2, ...)
    Styles,     \* contents of the other files (1, 2, ...)
    Codes       \* what the overlay may refuse with: "busy", "other"

ASSUME ContentsType ==
    /\ Typed \subseteq Nat \ {0} /\ Styles \subseteq Nat \ {0}
    /\ Codes \subseteq {"busy", "other"}

VARIABLES
    open,       \* the connection
    asked,      \* requests the overlay has not answered
    replies,    \* its answers, not read yet
    shown       \* the build the overlay runs for the session, or NoBuild

overlayVars == <<open, asked, replies, shown>>

(* The sources stand for the package built from them: its digest is a      *)
(* function of them.  Builds are numbered (a history).                     *)
Sources == [typed : Typed, style : Styles]
NoSources == [typed |-> 0, style |-> 0]
Build == [pkg : Sources, n : Nat \ {0}]
NoBuild == [pkg |-> NoSources, n |-> 0]

Request == [kind : {"install"}, build : Build] \cup [kind : {"remove"}, build : {NoBuild}]
Reply == [kind : {"install", "remove"}, code : {"ok"} \cup Codes]

OverlayTypeOK ==
    /\ open \in BOOLEAN
    /\ asked \subseteq Request
    /\ replies \in Seq(Reply)
    /\ shown \in Build \cup {NoBuild}

OverlayInit ==
    /\ open = TRUE
    /\ asked = {}
    /\ replies = <<>>
    /\ shown = NoBuild

Ask(kind, build) == asked' = asked \cup {[kind |-> kind, build |-> build]}

(* A request is answered: done, or refused with a code.                    *)
Answer(r, code) ==
    /\ r \in asked
    /\ asked' = asked \ {r}
    /\ replies' = Append(replies, [kind |-> r.kind, code |-> code])
    /\ shown' = IF code = "ok" THEN r.build ELSE shown
    /\ UNCHANGED open

(* The overlay quits, restarts or refuses the session.                     *)
Quit ==
    /\ open
    /\ open' = FALSE
    /\ asked' = {}
    /\ shown' = NoBuild
    /\ UNCHANGED replies
=============================================================================
