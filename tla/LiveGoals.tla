------------------------------ MODULE LiveGoals ------------------------------
(***************************************************************************)
(* The live goals widget (widgets/twitch-goals/logic.ts): what it shows is *)
(* kept up to date by the events of the channel while they are live, and   *)
(* by reads otherwise. A read is requests in flight: events, cuts and      *)
(* changes of account come in between.                                     *)
(*                                                                         *)
(* A value of a goal is the account it is of and the number of its changes *)
(* there; of the followers only when they are read is modelled. Times are  *)
(* left out: a refresh may come at any time and asks every route it may; a *)
(* route that is not due (its period, its wait after a failure) counts as  *)
(* one that fails. The requests of a read are served at one moment, for no *)
(* route depends on another. Every route is wanted, and every event can be *)
(* read.                                                                   *)
(***************************************************************************)
EXTENDS Naturals, Sequences

CONSTANTS
    GoalRoutes,     \* whose every change is an event: the goals, the Hype Train
    Accounts,
    NoValue,        \* model value: no account, no value
    Waits, NoAnswer,  \* model values: a request not answered yet, and one that failed
    Elsewhere,      \* model value: one refused, or answered after a change of account
    EventWindow,    \* SERVICE_EVENT_WINDOW
    MaxChanges,     \* bound: changes of goals
    MaxEvents       \* bound: events

VARIABLES
    twitch,         \* the account connected, its channel, the host's subscription
    board           \* the widget: `model`, the read in flight, what is shown
goalsVars == <<twitch, board>>

Follows == "followers"
DataRoutes == GoalRoutes \cup {Follows}
AllRoutes == DataRoutes \cup {"user"}
GoalValues == Accounts \X (0 .. MaxChanges)
Refusals == {NoAnswer, Elsewhere}
NoAnswers == [r \in AllRoutes |-> Waits]
NoRequest ==
    [at |-> "none", routes |-> {}, of |-> NoValue, answers |-> NoAnswers, same |-> TRUE, fresh |-> TRUE]
Blank == [r \in GoalRoutes |-> NoValue]

ASSUME GoalsAssumption ==
    /\ Accounts # {} /\ {Follows, "user"} \cap GoalRoutes = {}
    /\ NoValue \notin Accounts \cup GoalValues
    /\ Waits \notin Refusals \cup GoalValues /\ Refusals \cap GoalValues = {}
    /\ EventWindow \in Nat \ {0} /\ MaxChanges \in Nat /\ MaxEvents \in Nat

Channels ==
    [account : Accounts, connected : BOOLEAN, live : BOOLEAN,
     changes : [Accounts -> [GoalRoutes -> 0 .. MaxChanges]], made : 0 .. MaxChanges, seq : 0 .. MaxEvents,
     window : Seq([seq : 1 .. MaxEvents, route : DataRoutes, value : GoalValues \cup {NoValue}])]
GoalReads ==
    [at : {"none", "user", "data"}, routes : SUBSET AllRoutes, of : Accounts \cup {NoValue},
     answers : [AllRoutes -> GoalValues \cup Refusals \cup {Waits}], same : BOOLEAN, fresh : BOOLEAN]
Boards ==
    [connected : BOOLEAN, user : Accounts \cup {NoValue}, owner : Accounts \cup {NoValue},
     live : BOOLEAN, lastSeq : 0 .. MaxEvents, current : SUBSET DataRoutes, read : GoalReads,
     pending : BOOLEAN, shown : [GoalRoutes -> GoalValues \cup {NoValue}],
     learnt : [GoalRoutes -> GoalValues \cup {NoValue}]]
GoalsTypeOK ==
    /\ twitch \in Channels /\ board \in Boards
    /\ \A a \in Accounts, r \in GoalRoutes : twitch.changes[a][r] <= twitch.made
    /\ Len(twitch.window) <= EventWindow /\ board.lastSeq <= twitch.seq

-----------------------------------------------------------------------------
(* Twitch, and the host that follows it: each loss of the account and each *)
(* cut of the events is told before the next account or the end of the cut.*)
ChannelValue(r) == <<twitch.account, twitch.changes[twitch.account][r]>>
NewestEvents(s) == IF Len(s) > EventWindow THEN Tail(s) ELSE s

WithChange(t, r) == [t EXCEPT !.changes[t.account][r] = @ + 1, !.made = @ + 1]

WithEvent(t, r, value) ==
    [t EXCEPT !.seq = @ + 1,
              !.window = NewestEvents(Append(@, [seq |-> t.seq + 1, route |-> r, value |-> value]))]

\* A goal changes on the channel, which is an event while the events are live.
GoalChanged(r) ==
    /\ twitch.made < MaxChanges /\ (twitch.live => twitch.seq < MaxEvents)
    /\ twitch' = LET next == WithChange(twitch, r) IN
         IF twitch.live
         THEN WithEvent(next, r, <<next.account, next.changes[next.account][r]>>)
         ELSE next
    /\ UNCHANGED board

\* Someone follows; who leaves makes no event.
Followed ==
    /\ twitch.live /\ twitch.seq < MaxEvents
    /\ twitch' = WithEvent(twitch, Follows, NoValue)
    /\ UNCHANGED board

EventsLive ==
    /\ twitch.connected /\ ~twitch.live /\ ~board.live
    /\ twitch' = [twitch EXCEPT !.live = TRUE]
    /\ UNCHANGED board

EventsCut ==
    /\ twitch.live
    /\ twitch' = [twitch EXCEPT !.live = FALSE]
    /\ UNCHANGED board

ConnectAs(a) ==
    /\ ~twitch.connected /\ ~board.connected
    /\ twitch' = [twitch EXCEPT !.connected = TRUE, !.account = a]
    /\ UNCHANGED board

LoseAccount ==
    /\ twitch.connected /\ board.connected
    /\ twitch' = [twitch EXCEPT !.connected = FALSE, !.live = FALSE]
    /\ UNCHANGED board
-----------------------------------------------------------------------------
(* One read at a time. A read with nothing to ask ends before anything     *)
(* else happens.                                                           *)
AskData(b) ==
    LET asked == {r \in DataRoutes : ~(b.live /\ r \in b.current)} IN
    [b EXCEPT !.read = [@ EXCEPT !.at = "data", !.routes = asked, !.of = b.user, !.fresh = TRUE,
                                 !.answers = NoAnswers]]

AskUser(b) ==
    [b EXCEPT !.read.routes = {"user"}]

BeginRead(b) ==
    LET begun == [b EXCEPT !.read = [NoRequest EXCEPT !.at = "user"]] IN
    IF ~b.connected THEN begun
    ELSE IF b.user = NoValue THEN AskUser(begun) ELSE AskData(begun)

RefreshBoard(b) == IF b.read.at = "none" THEN BeginRead(b) ELSE [b EXCEPT !.pending = TRUE]

FinishRead(b) ==
    LET free == [b EXCEPT !.read = NoRequest, !.pending = FALSE] IN
    IF b.pending THEN BeginRead(free) ELSE free

NothingAsked(b) == b.read.at # "none" /\ b.read.routes = {}
AtRest(b) ==
    LET once == IF NothingAsked(b) THEN FinishRead(b) ELSE b IN
    IF NothingAsked(once) THEN FinishRead(once) ELSE once

\* Mutant of Resync: a read that started before the cut is enough.
ResyncKeeping(b) == RefreshBoard([b EXCEPT !.current = {}])

\* Events may have been missed: every route is read again.
Resync(b) == RefreshBoard([b EXCEPT !.read.fresh = FALSE, !.current = {}])

\* The newest value the widget was given of a goal, in `learnt`.
Newer(known, value) ==
    IF known # NoValue /\ known[1] = value[1] /\ known[2] > value[2] THEN known ELSE value
Learn(b, r, value) == [b EXCEPT !.learnt[r] = Newer(@, value)]

OnEvent(b, event) ==
    IF event.route = Follows
    THEN RefreshBoard([b EXCEPT !.current = @ \ {Follows}])
    ELSE Learn([b EXCEPT !.shown[event.route] = event.value], event.route, event.value)

HandleEvent(b, event) ==
    IF event.seq <= b.lastSeq THEN b
    ELSE OnEvent([(IF event.seq > b.lastSeq + 1 THEN Resync(b) ELSE b) EXCEPT !.lastSeq = event.seq],
                 event)

\* An update of `twitch.events`: its status, then the events not seen yet.
TakeStatus(b) ==
    IF twitch.live /\ ~b.live THEN Resync([b EXCEPT !.live = TRUE])
    ELSE IF ~twitch.live /\ b.live THEN [b EXCEPT !.live = FALSE, !.current = {}]
    ELSE b

EventsUntold == board.live # twitch.live \/ board.lastSeq < twitch.seq
Told[i \in 0 .. Len(twitch.window)] ==
    IF i = 0 THEN TakeStatus(board) ELSE HandleEvent(Told[i - 1], twitch.window[i])
EventsUpdate ==
    /\ EventsUntold
    /\ board' = AtRest(Told[Len(twitch.window)])
    /\ UNCHANGED twitch

\* An update of the account: a new `generation`, and at a connection the
\* channel is read again.
AccountUpdate ==
    /\ board.connected # twitch.connected
    /\ LET told == [board EXCEPT !.connected = twitch.connected, !.read.same = FALSE] IN
       board' = IF twitch.connected
                THEN AtRest(RefreshBoard([told EXCEPT !.user = NoValue]))
                ELSE told
    /\ UNCHANGED twitch
-----------------------------------------------------------------------------
(* The answers to a read.                                                  *)
\* Twitch answers a request with its value, or refuses it when another
\* account than the one it names is connected.
AnswerTo(r) ==
    CASE r = "user" -> <<twitch.account, 0>>
      [] board.read.of # twitch.account -> Elsewhere
      [] r = Follows -> <<twitch.account, 0>>
      [] OTHER -> ChannelValue(r)

\* The requests of a read are served, or some fail; what becomes of one of an
\* older generation is not looked at.
ServeRead ==
    /\ \E r \in board.read.routes : board.read.answers[r] = Waits
    /\ \E failing \in SUBSET board.read.routes, how \in Refusals :
         /\ (twitch.connected /\ board.read.same) \/ failing = board.read.routes
         /\ how = Elsewhere => board.read.same /\ board.read.at = "data"
         /\ board' = [board EXCEPT !.read.answers =
                [r \in AllRoutes |-> IF r \notin board.read.routes THEN Waits
                                    ELSE IF r \in failing THEN how ELSE AnswerTo(r)]]
    /\ UNCHANGED twitch

AllAnswered == board.read.at # "none" /\ \A r \in board.read.routes : board.read.answers[r] # Waits

\* The values of another channel than a's go.
ForgetOf(b, a) ==
    IF b.owner \in {NoValue, a} THEN b
    ELSE [b EXCEPT !.shown = Blank, !.learnt = Blank, !.current = {}]

UserRead ==
    /\ AllAnswered /\ board.read.at = "user"
    /\ LET answer == board.read.answers["user"] IN
       board' = AtRest(
         IF ~board.read.same \/ answer \in Refusals THEN FinishRead(board)
         ELSE AskData([ForgetOf(board, answer[1]) EXCEPT !.user = answer[1], !.owner = answer[1]]))
    /\ UNCHANGED twitch

\* What a read brings is shown, route by route; the events keep it current
\* from now if none may have been missed since it started.
ApplyRead(b) ==
    LET read == b.read
        good == {r \in read.routes : read.answers[r] \notin Refusals} IN
    [b EXCEPT
        !.shown = [r \in GoalRoutes |-> IF r \in good THEN read.answers[r] ELSE @[r]],
        !.learnt = [r \in GoalRoutes |-> IF r \in good THEN Newer(@[r], read.answers[r]) ELSE @[r]],
        !.current = IF b.live /\ read.fresh THEN @ \cup good ELSE @,
        !.user = IF \E r \in read.routes : read.answers[r] = Elsewhere THEN NoValue ELSE @]

DataRead ==
    /\ AllAnswered /\ board.read.at = "data"
    /\ board' = AtRest(FinishRead(IF board.read.same THEN ApplyRead(board) ELSE board))
    /\ UNCHANGED twitch
-----------------------------------------------------------------------------
\* The rhythm ticks, or the widget is shown again: what is due is read.
Beat ==
    /\ board' = AtRest(RefreshBoard(board))
    /\ UNCHANGED twitch

GoalsInit ==
    /\ twitch = [account |-> CHOOSE a \in Accounts : TRUE, connected |-> FALSE, live |-> FALSE,
                 changes |-> [a \in Accounts |-> [r \in GoalRoutes |-> 0]], made |-> 0, seq |-> 0, window |-> <<>>]
    /\ board = [connected |-> FALSE, user |-> NoValue, owner |-> NoValue, live |-> FALSE,
                lastSeq |-> 0, current |-> {}, read |-> NoRequest, pending |-> FALSE,
                shown |-> Blank, learnt |-> Blank]

GoalsNext ==
    \/ (\E r \in GoalRoutes : GoalChanged(r)) \/ Followed
    \/ EventsLive \/ EventsCut \/ LoseAccount \/ \E a \in Accounts : ConnectAs(a)
    \/ EventsUpdate \/ AccountUpdate
    \/ ServeRead \/ UserRead \/ DataRead
    \/ Beat

GoalsSpec == GoalsInit /\ [][GoalsNext]_goalsVars
-----------------------------------------------------------------------------
(* A goal that is no longer read because the events keep it current is one *)
(* whose last change the widget was given, by an event or by a read:       *)
(* whatever was cut, dropped from the window or of another account was     *)
(* read since (logic.ts: `epoch`, `current`, `generation`).                *)
NothingMissed ==
    ~EventsUntold /\ board.connected = twitch.connected =>
        \A r \in board.current \cap GoalRoutes : board.learnt[r] = ChannelValue(r)

(* What the widget was given last of a goal that is no longer read is on   *)
(* screen. Broken by the code: a read served before an event and answered  *)
(* after it puts the older value back, and the route is then current.      *)
LearntIsShown == \A r \in board.current \cap GoalRoutes : board.shown[r] = board.learnt[r]
=============================================================================
