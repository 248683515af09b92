-------------------------- MODULE SteamAchievements --------------------------
(***************************************************************************)
(* The Steam achievements widget (widgets/steam-achievements/logic.ts):    *)
(* one read of Steam at a time, in several requests, while the last view   *)
(* is restored, the player changes profile, cancels, and the view of a     *)
(* long list is built in slices. Each `await` is a point where anything    *)
(* else may happen. A behaviour is one start, and what it finds stored is  *)
(* any: a start before that ended between the profile stored and the       *)
(* snapshot removed, or whose removal failed, left another player's        *)
(* snapshot; one whose restored game met a read of another, that game's    *)
(* achievements.                                                           *)
(*                                                                         *)
(* Steam's answers are any. Times are left out: a route may be called or   *)
(* waits, either way, and a refresh may come at any time (the minute, a    *)
(* save, the host's game, shown or connected again). Steam runs on another *)
(* computer: no achievements of this one. The goals, the rarity and the    *)
(* images are awaited and have no effect here; what is written has none    *)
(* before the next start.                                                  *)
(***************************************************************************)
EXTENDS Naturals

CONSTANTS
    Players, Games,
    Nobody,         \* model value: no player, no game, nothing read
    Checks          \* bound: profile checks at once

ASSUME SteamAssumption == Nobody \notin Players

VARIABLE steam
\* followed, game, unlocked, hidden and checked are members of
\* `model`; phase is state.phase, shown state.game and its lists; job is the
\* view being built; enters is gameOnPublish; restoring is what `restore`
\* awaits. Only in the model, mixed: a restored profile or snapshot met what is
\* not its own.

Owned == Players \X Games
Views == [game : Games, of : Owned \cup {Nobody}]
Phases == {"loading", "profile", "nothing", "hidden", "unreachable", "game"}
Awaits == {"summary", "recent", "local", "list", "early", "slices", "player", "again", "details"}
ReadStates == [at : Awaits \cup {"none"}, game : Games \cup {Nobody},
          player : Players \cup {Nobody}, early : {"done", "hidden", "failed"}]
NoRead == [at |-> "none", game |-> Nobody, player |-> Nobody, early |-> "done"]
NoCheck == [at |-> "none", to |-> Nobody, changed |-> FALSE]

SteamStates ==
    [followed : Players \cup {Nobody}, phase : Phases, game : Games \cup {Nobody},
     unlocked : Owned \cup {Nobody}, hidden : BOOLEAN, checked : Players \cup {Nobody},
     read : ReadStates, pending : BOOLEAN,
     shown : Views \cup {Nobody}, job : Views \cup {Nobody}, enters : BOOLEAN,
     before : Phases, canCancel : BOOLEAN, checking : BOOLEAN,
     check : [Checks -> [at : {"none", "asked", "storing", "removing"},
                         to : Players \cup {Nobody}, changed : BOOLEAN]],
     restoring : {"profile", "snapshot", "list", "hidden", "done"}, mixed : BOOLEAN]
SteamTypeOK == steam \in SteamStates

\* A start: `restore` waits for the stored profile.
SteamInit ==
    steam = [followed |-> Nobody, phase |-> "loading", game |-> Nobody, unlocked |-> Nobody,
             hidden |-> FALSE, checked |-> Nobody, read |-> NoRead, pending |-> FALSE,
             shown |-> Nobody, job |-> Nobody, enters |-> FALSE,
             before |-> "loading", canCancel |-> FALSE, checking |-> FALSE,
             check |-> [k \in Checks |-> NoCheck], restoring |-> "profile", mixed |-> FALSE]
-----------------------------------------------------------------------------
\* The view. Each operator below gives what `steam` becomes, or the set of
\* what it may become, from s.

\* What only the profile step reads is set when it opens: forgotten outside.
SetPhase(s, phase) ==
    [s EXCEPT !.phase = phase, !.enters = FALSE,
              !.before = IF phase = "profile" THEN @ ELSE "loading",
              !.canCancel = @ /\ phase = "profile", !.checking = @ /\ phase = "profile"]

\* `publishView`: another game meanwhile, nothing.
Publish(s, view) ==
    LET t == [s EXCEPT !.job = Nobody] IN
    IF view.game # s.game THEN t
    ELSE IF s.enters THEN SetPhase([t EXCEPT !.shown = view], "game")
    ELSE [t EXCEPT !.shown = view]

\* `render`: the view's inputs are taken now; a short list's is published at
\* once, a long one's in turns of its own, the last one asked only.
Render(s) ==
    IF s.game = Nobody THEN {s}
    ELSE LET view == [game |-> s.game, of |-> s.unlocked]
         IN {Publish(s, view), [s EXCEPT !.job = view]}

EnterGame(s) ==
    Render(IF s.shown # Nobody /\ s.shown.game = s.game
           THEN SetPhase(s, "game") ELSE [s EXCEPT !.enters = TRUE])

\* Mutant of SwitchGame: what was read of the other game stays.
SwitchGameKeeping(s, g) == IF g = s.game THEN s ELSE [s EXCEPT !.game = g, !.job = Nobody]

SwitchGame(s, g) ==
    IF g = s.game THEN s ELSE [s EXCEPT !.game = g, !.unlocked = Nobody, !.job = Nobody]
-----------------------------------------------------------------------------
\* The read.

Await(s, at, g, p) == [s EXCEPT !.read = [NoRead EXCEPT !.at = at, !.game = g, !.player = p]]
Reading(s) == s.read.at # "none"
NotReading(s) == [s EXCEPT !.read = NoRead]

\* `hide` and `failed`.
Hide(s) == SetPhase([s EXCEPT !.hidden = TRUE], "hidden")
Failed(s) ==
    Render(IF s.phase \in {"loading", "nothing"} THEN SetPhase(s, "unreachable") ELSE s)

\* The game to show: the one named, else the one shown, unless the recent
\* list hid the games.
Choose(s, named) ==
    LET g == IF named = Nobody THEN s.game ELSE named IN
    (IF named = Nobody THEN {NotReading(Hide(s))} ELSE {})
      \cup {IF g # Nobody THEN Await(SwitchGame(s, g), "local", g, Nobody)
            ELSE NotReading(IF s.hidden THEN Hide(s) ELSE SetPhase(s, "nothing"))}

\* The summary: the profile is private; or a game is named, by Steam (which
\* then hides nothing) or by the host, or none. The recent list is asked
\* when due, for another game than the one shown or for none.
Summarised(s) ==
    {NotReading(Hide(s))} \cup
    UNION {LET t == [s EXCEPT !.hidden = @ /\ ~presence] IN
           Choose(t, g) \cup (IF g = Nobody \/ g # s.game
                              THEN {Await(t, "recent", g, s.followed)} ELSE {}) :
           g \in Games \cup {Nobody}, presence \in BOOLEAN}

\* `read` up to its first await: nothing while hidden or not connected, which
\* it may be at any time, at the profile step or without a profile. The summary the profile step read
\* serves when it is the followed player's and not a minute old.
ReadStarted(s) ==
    IF s.followed = Nobody \/ s.phase = "profile" THEN {NotReading(s)}
    ELSE LET t == [s EXCEPT !.checked = Nobody] IN
         {NotReading(s), NotReading(t), Await(t, "summary", Nobody, s.followed)}
           \cup (IF s.phase = "game" /\ s.game # Nobody
                 THEN {Await(t, "again", s.game, s.followed)} ELSE {})
           \cup (IF s.checked # Nobody /\ s.checked = s.followed THEN Summarised(t) ELSE {})

\* `refresh`: one read at a time, another one after it if any was asked.
Refreshed(s) == IF Reading(s) THEN {[s EXCEPT !.pending = TRUE]} ELSE ReadStarted(s)
Ended(s) ==
    IF Reading(s) \/ ~s.pending THEN {s} ELSE ReadStarted([s EXCEPT !.pending = FALSE])

\* The end of a read, its list known: still hidden, or the game.
Concluded(s) ==
    IF s.hidden THEN {NotReading(Hide(s))}
    ELSE {Await(s, "details", s.read.game, Nobody)}

\* The player's achievements: read; refused for the game alone, or with the
\* game details hidden; not read.
PlayerRead(s) == [s EXCEPT !.unlocked = <<s.read.player, s.read.game>>, !.hidden = FALSE]
PlayerSteps(s) ==
    {[state |-> PlayerRead(s), step |-> "done"],
     [state |-> [s EXCEPT !.hidden = FALSE], step |-> "done"],
     [state |-> s, step |-> "hidden"], [state |-> s, step |-> "failed"]}
Stopped(s, step) ==
    IF step = "hidden" THEN {NotReading(Hide(s))} ELSE {NotReading(t) : t \in Failed(s)}

\* The player's, before the names: the count and the bar already.
EarlyAnswered(s) ==
    UNION {{[t EXCEPT !.read = [s.read EXCEPT !.at = "slices", !.early = x.step]] :
            t \in IF x.step = "done" /\ ~x.state.hidden
                  THEN EnterGame(x.state) ELSE {x.state}} : x \in PlayerSteps(s)}

\* The details are stored: the game.
DetailsAnswered(s) == {NotReading(t) : t \in EnterGame([s EXCEPT !.hidden = FALSE])}

\* The answer to what the read awaits, up to the next await or the end.
ReadAnswered(s) ==
    LET r == s.read
        failure == {NotReading(t) : t \in Failed(s)} IN
    CASE r.at = "summary" ->
             \* `parseSummary` finds the player followed now, or nobody.
             failure \cup (IF r.player = s.followed THEN Summarised(s) ELSE {})
      [] r.at = "recent" ->
             failure \cup UNION {Choose([s EXCEPT !.hidden = @ /\ (none \/ g # Nobody)],
                                        IF r.game = Nobody THEN g ELSE r.game) :
                                 none \in BOOLEAN, g \in Games \cup {Nobody}}
      [] r.at = "local" -> {Await(s, "list", r.game, Nobody)}
      [] r.at = "list" ->
             \* Failed; not read yet; known, or read at once; large.
             failure
               \cup {NotReading(t) : t \in IF s.phase = "game" THEN Render(s) ELSE {s}}
               \cup Concluded(s) \cup {Await(s, "player", r.game, s.followed)}
               \cup {Await(s, "early", r.game, s.followed), Await(s, "slices", r.game, Nobody)}
      [] r.at = "early" ->
             EarlyAnswered(s)
      [] r.at = "slices" ->
             IF r.early # "done" THEN Stopped(s, r.early)
             ELSE failure \cup Concluded(s) \cup {Await(s, "player", r.game, s.followed)}
      [] r.at = "player" ->
             UNION {IF x.step = "done" THEN Concluded(x.state) ELSE Stopped(x.state, x.step) :
                    x \in PlayerSteps(s)}
      [] r.at = "again" ->
             UNION {IF x.step = "done" THEN {NotReading(t) : t \in Render(x.state)}
                    ELSE Stopped(x.state, x.step) : x \in PlayerSteps(s)}
      [] r.at = "details" ->
             DetailsAnswered(s)

Answer == Reading(steam) /\ steam' \in UNION {Ended(t) : t \in ReadAnswered(steam)}

\* The minute, a save, a wait that ends, the host's game; shown, connected.
Refresh == steam' \in Refreshed(steam)

\* A long list's view is through.
PublishJob == steam.job # Nobody /\ steam' = Publish(steam, steam.job)

\* An option or the language changes: the lists again.
Rerender == steam' \in Render(steam)
-----------------------------------------------------------------------------
\* `restore`, await by await, beside all the rest.

\* What is kept is the followed player's, of the game shown; so will be what a
\* read past its choice of a game keeps.
OneView(s) ==
    /\ s.unlocked \in {Nobody, <<s.followed, s.game>>}
    /\ \/ s.read.at \in {"none", "summary", "recent"}
       \/ s.read.game = s.game /\ s.read.player \in {Nobody, s.followed}

\* `restore` is through: a read.
Restored(s) == Refreshed([s EXCEPT !.restoring = "done"])

\* No profile; or the one stored. The tracked achievements, then the snapshot
\* are asked for.
RestoreProfile ==
    /\ steam.restoring = "profile"
    /\ \/ steam' \in Restored(SetPhase(steam, "profile"))
       \/ \E p \in Players :
            steam' = [steam EXCEPT !.followed = p, !.restoring = "snapshot",
                                   !.mixed = @ \/ steam.followed \notin {Nobody, p}]

\* No snapshot; or its game, and its achievements when it has them.
RestoreSnapshot ==
    /\ steam.restoring = "snapshot"
    /\ \/ steam' = [steam EXCEPT !.restoring = "hidden"]
       \/ \E view \in Views :
            LET s == [steam EXCEPT !.game = view.game,
                                   !.unlocked = IF view.of = Nobody THEN @ ELSE view.of]
            IN steam' = [s EXCEPT !.restoring = "list", !.mixed = @ \/ ~OneView(s)]

\* With its list, stored, the game is shown.
RestoreList ==
    /\ steam.restoring = "list"
    /\ \E s \in {steam} \cup EnterGame(steam) : steam' = [s EXCEPT !.restoring = "hidden"]

\* Hidden at the last read, or not.
RestoreHidden ==
    /\ steam.restoring = "hidden"
    /\ \E s \in {steam, Hide(steam)} : steam' \in Restored(s)

Restore == RestoreProfile \/ RestoreSnapshot \/ RestoreList \/ RestoreHidden
-----------------------------------------------------------------------------
\* The profile step.

OpenProfile ==
    /\ steam.phase # "profile"
    /\ steam' = SetPhase([steam EXCEPT !.before = steam.phase,
                                       !.canCancel = steam.followed # Nobody], "profile")

\* What is being checked goes on.
CancelProfile ==
    /\ steam.phase = "profile" /\ steam.canCancel
    /\ steam' = SetPhase(steam, steam.before)

\* `submitProfile`, to its requests: the name, then the summary.
SubmitProfile ==
    /\ steam.phase = "profile" /\ ~steam.checking
    /\ \E k \in Checks, p \in Players :
         /\ steam.check[k].at = "none"
         /\ steam' = [steam EXCEPT !.checking = TRUE,
                                   !.check[k] = [NoCheck EXCEPT !.at = "asked", !.to = p]]

\* Nobody there, or Steam does not answer; or the player is followed from
\* now, and stored.
CheckAnswered ==
    \E k \in Checks :
        /\ steam.check[k].at = "asked"
        /\ \/ steam' = [steam EXCEPT !.checking = FALSE, !.check[k] = NoCheck]
           \/ steam' = [steam EXCEPT !.followed = steam.check[k].to, !.hidden = FALSE,
                          !.check[k].at = "storing",
                          !.check[k].changed = steam.followed # steam.check[k].to]

\* Mutant of Forgotten: the game stays the one shown.
ForgottenLists(s) == [s EXCEPT !.unlocked = Nobody, !.shown = Nobody, !.job = Nobody]

\* Another player: nothing of the one before stays, nor of a mix.
Forgotten(s) ==
    [s EXCEPT !.game = Nobody, !.unlocked = Nobody, !.shown = Nobody, !.job = Nobody,
              !.mixed = FALSE]

ProfileStored ==
    \E k \in Checks :
        /\ steam.check[k].at = "storing" /\ steam.check[k].changed
        /\ steam' = [Forgotten(steam) EXCEPT !.check[k].at = "removing"]

\* The step is done: the game again, or a first read.
ProfileDone ==
    \E k \in Checks :
        LET c == steam.check[k]
            s == [steam EXCEPT !.check[k] = NoCheck, !.checking = FALSE, !.canCancel = FALSE]
        IN /\ c.at = "removing" \/ (c.at = "storing" /\ ~c.changed)
           /\ steam' \in UNION {Refreshed([t EXCEPT !.checked = c.to]) :
                  t \in IF s.game = Nobody THEN {SetPhase(s, "loading")} ELSE EnterGame(s)}

SteamNext ==
    \/ Answer \/ Refresh \/ PublishJob \/ Rerender \/ Restore
    \/ OpenProfile \/ CancelProfile \/ SubmitProfile \/ CheckAnswered
    \/ ProfileStored \/ ProfileDone
SteamSpec == SteamInit /\ [][SteamNext]_steam
-----------------------------------------------------------------------------
\* logic.ts (publishView): "Another game meanwhile: its own view is coming".
\* The achievements kept for the game shown, and the view of it, are those of
\* the player followed and of that game, whatever was in flight when the
\* player or the game changed and whatever was restored beside it, unless a
\* restored profile or snapshot met what is not its own (another player's, or
\* a game a read had already chosen), until the next change of profile. While
\* that one is being stored, the view may still be the old one's.
OwnAchievements ==
    (~steam.mixed /\ \A k \in Checks : steam.check[k].at # "storing") =>
        /\ steam.game # Nobody => steam.unlocked \in {Nobody, <<steam.followed, steam.game>>}
        /\ steam.shown # Nobody =>
             steam.shown.of \in {Nobody, <<steam.followed, steam.shown.game>>}
        /\ steam.job # Nobody =>
             steam.job.of \in {Nobody, <<steam.followed, steam.job.game>>}
=============================================================================
