------------------------------- MODULE MCParts -------------------------------
(***************************************************************************)
(* The components that share no state with another, for TLC: one of them   *)
(* moves in a behaviour, the others stay at a fixed initial state. Their   *)
(* states add up and do not multiply.                                      *)
(***************************************************************************)
EXTENDS RuntimeCache, ToolsCache, Timers, DevChannel, RequestBudget, ToolRun, Readiness,
        Ownership, CatalogReader, ZipLayout, ZipNames, SteamAchievements,
        LiveGoals, ViewExpressions, ViewTree, SourceTree

CONSTANT PartNames   \* the components of this instance

VARIABLE part        \* the one that moves
partsVars == <<part, cacheVars, toolsVars, timersVars, channelVars, budgetVars, runVars,
               readyVars, ownershipVars, catalogVars, layout, names,
               steam, goalsVars, typed, view, sources>>

\* Two seconds or minutes (steady), and an hour that an offset may cut short.
MCUnits == {[period |-> 6, steady |-> TRUE], [period |-> 8, steady |-> FALSE]}
MCRequests == {<<"s1", 1>>, <<"s1", 2>>, <<"s2", 1>>}
MCHouse == <<"p", "c">>
MCDomains == {MCHouse, <<"a", "c">>, <<"b", "a", "c">>, <<"a", "b", "a", "c">>, <<"c", "a">>}
MCIds == {<<"a", "b">>, <<"c", "a">>, <<"c", "p">>, <<"c", "a", "b">>, <<"c", "p", "a">>,
          <<"a", "c", "a">>, <<"c", "a", "b", "a">>, <<"c", "a", "b", "a", "b">>}
MCSourcePaths ==
    {<<name>> : name \in {"manifest", "a", "key", ".h", "non-ascii", "a:b"}}
    \cup {<<folder, "a">> : folder \in {"src", "dist", "tests", "non-ascii", "a:b"}}
    \cup {<<"src", "dist", "a">>, <<"tests", "output", "a">>, <<"src", "manifest">>,
          <<"src", "src", "a">>, <<"src", "src", "src", "a">>}
MCLevels == <<{"-"}, {"*"}>>  \* two levels of left-associative operators
MCLower == [c \in Components |-> IF c = "A" THEN "a" ELSE c]

PartsInit ==
    /\ part \in PartNames
    /\ CacheInit /\ (part = "cache" \/ cached = NoFile)
    /\ ToolsInit /\ (part = "tools" \/ final = "absent")
    /\ TimersInit
    /\ part = "timers" \/ /\ unit = CHOOSE u \in Units : u.steady
                          /\ visible /\ region.change = Never
                          /\ region.offset = CHOOSE o \in OfUnit(unit, Offsets) : TRUE
    /\ ChannelInit /\ (part = "channel" \/ ~own)
    /\ BudgetInit /\ (part = "budget" \/ last_ms = 0)
    /\ RunInit /\ (part = "run" \/ (leader.state = "running" /\ ~leader.deaf))
    /\ ReadyInit /\ (part = "ready" \/ (passing = {} /\ clean = {}))
    /\ OwnershipInit /\ CatalogInit /\ NamesInit /\ SteamInit /\ GoalsInit /\ SourcesInit
    /\ LayoutInit /\ (part = "layout" \/ (layout.left = 0 /\ layout.area = 0 /\ layout.strict))
    /\ ExprInit /\ (part = "expr" \/ typed.tree = NoTree)
    /\ TreeInit /\ (part = "tree" \/ Len(view.nodes) = 2)
-----------------------------------------------------------------------------
\* Steam achievements. Three bounds: no long list's view is built until
\* `restore` is through; the profile step opens at the start or from a game; and
\* once a restored profile or snapshot met what is not its own, of which
\* OwnAchievements says nothing, only a change of profile is followed, with
\* whatever is in flight.
ProfileChanges == OpenProfile \/ SubmitProfile \/ CheckAnswered \/ ProfileStored
MCSteamNext ==
    /\ (~steam.mixed /\ SteamNext) \/ (steam.mixed /\ ProfileChanges)
    /\ steam'.job # Nobody => steam'.restoring = "done"
    /\ steam'.before \in {"loading", "game"}
-----------------------------------------------------------------------------
\* Only part p moves.
Only(p) ==
    /\ part = p /\ UNCHANGED part
    /\ IF p = "cache" THEN CacheNext ELSE UNCHANGED cacheVars
    /\ IF p = "tools" THEN ToolsNext ELSE UNCHANGED toolsVars
    /\ IF p = "timers" THEN TimersNext ELSE UNCHANGED timersVars
    /\ IF p = "channel" THEN ChannelNext ELSE UNCHANGED channelVars
    /\ IF p = "budget" THEN BudgetNext ELSE UNCHANGED budgetVars
    /\ IF p = "run" THEN RunNext ELSE UNCHANGED runVars
    /\ IF p = "ready" THEN ReadyNext ELSE UNCHANGED readyVars
    /\ IF p = "ownership" THEN OwnershipNext ELSE UNCHANGED ownershipVars
    /\ IF p = "catalog" THEN CatalogNext ELSE UNCHANGED catalogVars
    /\ IF p = "layout" THEN LayoutNext ELSE UNCHANGED layout
    /\ IF p = "names" THEN NamesNext ELSE UNCHANGED names
    /\ IF p = "goals" THEN GoalsNext ELSE UNCHANGED goalsVars
    /\ IF p = "expr" THEN ExprNext ELSE UNCHANGED typed
    /\ IF p = "tree" THEN TreeNext ELSE UNCHANGED view
    /\ IF p = "sources" THEN SourcesNext ELSE UNCHANGED sources
    /\ IF p = "steam" THEN MCSteamNext ELSE UNCHANGED steam

PartsNext == \E p \in PartNames : Only(p)

\* A command, a server, the end of a channel that greets and the server that
\* stops a program take their next step: every wait of theirs has a limit.
PartsFairness ==
    /\ \A c \in Commands : WF_cacheVars(part = "cache" /\ CacheStep(c))
    /\ \A s \in Servers : WF_toolsVars(part = "tools" /\ ServerStep(s))
    /\ WF_channelVars(part = "channel" /\ ClientStep)
    /\ WF_channelVars(part = "channel" /\ WriterStep)
    /\ WF_runVars(part = "run" /\ ServerTurn)
    /\ WF_runVars(part = "run" /\ Obeys)

PartsSpec == PartsInit /\ [][PartsNext]_partsVars
PartsFairSpec == PartsSpec /\ PartsFairness

\* The others are at an initial state of theirs.
PartsTypeOK ==
    CASE part = "cache" -> CacheTypeOK
      [] part = "tools" -> ToolsTypeOK
      [] part = "timers" -> TimersTypeOK
      [] part = "channel" -> ChannelTypeOK
      [] part = "budget" -> BudgetTypeOK
      [] part = "run" -> RunTypeOK
      [] part = "ready" -> ReadyTypeOK
      [] part = "ownership" -> OwnershipTypeOK
      [] part = "catalog" -> CatalogTypeOK
      [] part = "layout" -> LayoutTypeOK
      [] part = "names" -> NamesTypeOK
      [] part = "steam" -> SteamTypeOK
      [] part = "goals" -> GoalsTypeOK
      [] part = "expr" -> ExprTypeOK
      [] part = "tree" -> TreeTypeOK
      [] part = "sources" -> SourcesTypeOK

\* Every command that is not killed (runtime.rs), every `setup` of a server
\* that goes on (session.ts) and every handshake (channel.rs) ends.
WorkEnds ==
    /\ part = "cache" => EveryCommandEnds
    /\ part = "tools" => EveryRequestEnds
    /\ HandshakeEnds
=============================================================================
