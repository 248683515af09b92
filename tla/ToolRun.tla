------------------------------- MODULE ToolRun -------------------------------
(***************************************************************************)
(* A program the documentation server starts (mcp/src/run.ts runProcess):  *)
(* its process group, its time limit, its cancellation, and the server's   *)
(* own exit (mcp/src/index.ts). On POSIX; Windows stops a tree in one call.*)
(*                                                                         *)
(* The program leads its group and may start another process in it, which  *)
(* may outlive it, hold its pipes open and ignore SIGTERM. Output is bytes *)
(* that nothing here depends on.                                           *)
(***************************************************************************)
EXTENDS Naturals

VARIABLES
    leader,     \* the program: [state, deaf] (deaf: it ignores SIGTERM)
    other,      \* a process it started: [state, deaf, piped]
    told,       \* processes a SIGTERM was sent to and that have not gone yet
    killDue,    \* the SIGKILL of the group, two seconds after the SIGTERM
    limit,      \* the timer of options.timeoutMs runs
    flags,      \* the members of RunResult that are set
    listed,     \* the child is in `running`
    outcome,    \* of the promise: "none", "resolved" or "rejected"
    server,     \* "up", "stopping", "gone"
    stopAsked   \* history: stopTree was called while the program ran
runVars == <<leader, other, told, killDue, limit, flags, listed, outcome, server, stopAsked>>
groupVars == <<leader, other, told>>

RunTypeOK ==
    /\ leader \in [state: {"running", "gone"}, deaf: BOOLEAN]
    /\ other \in [state: {"none", "running", "gone"}, deaf: BOOLEAN, piped: BOOLEAN]
    /\ told \subseteq {"leader", "other"}
    /\ flags \subseteq {"timedOut", "cancelled"}
    /\ {killDue, limit, listed, stopAsked} \subseteq BOOLEAN
    /\ outcome \in {"none", "resolved", "rejected"}
    /\ server \in {"up", "stopping", "gone"}

\* spawn, and the listeners. A program that does not start rejects.
RunInit ==
    /\ leader \in [state: {"running", "gone"}, deaf: BOOLEAN]
    /\ other = [state |-> "none", deaf |-> FALSE, piped |-> FALSE]
    /\ told = {} /\ killDue = FALSE /\ flags = {} /\ stopAsked = FALSE /\ server = "up"
    /\ \/ leader.state = "running" /\ limit = TRUE /\ listed = TRUE /\ outcome = "none"
       \/ leader.state = "gone" /\ limit = FALSE /\ listed = FALSE /\ outcome = "rejected"

Alive == (IF leader.state = "running" THEN {"leader"} ELSE {})
           \cup (IF other.state = "running" THEN {"other"} ELSE {})
TreeGone == Alive = {}

\* Mutant of StopTree: the program is asked and never made to.
StopTreeAsk ==
    IF leader.state = "running"
    THEN told' = Alive /\ stopAsked' = TRUE /\ UNCHANGED killDue
    ELSE UNCHANGED <<told, killDue, stopAsked>>

\* `stopTree`: nothing once the program has exited; else SIGTERM to its
\* group now and SIGKILL in two seconds.
StopTree ==
    IF leader.state = "running"
    THEN told' = Alive /\ killDue' = TRUE /\ stopAsked' = TRUE
    ELSE UNCHANGED <<told, killDue, stopAsked>>

\* The time limit.
TimeOut ==
    /\ limit /\ server # "gone"
    /\ limit' = FALSE /\ flags' = flags \cup {"timedOut"}
    /\ StopTree
    /\ UNCHANGED <<leader, other, listed, outcome, server>>

\* The client cancels the request.
Abort ==
    /\ outcome = "none" /\ "cancelled" \notin flags /\ server # "gone"
    /\ flags' = flags \cup {"cancelled"}
    /\ StopTree
    /\ UNCHANGED <<leader, other, limit, listed, outcome, server>>

KillTree ==
    /\ killDue /\ server # "gone"
    /\ killDue' = FALSE /\ told' = {}
    /\ leader' = [leader EXCEPT !.state = "gone"]
    /\ other' = [other EXCEPT !.state = IF @ = "running" THEN "gone" ELSE @]
    /\ UNCHANGED <<limit, flags, listed, outcome, server, stopAsked>>

\* `close`: the program has exited and nobody holds its pipes. Cancellation
\* and the limit are taken off; a SIGKILL already due is not.
Close ==
    /\ outcome = "none" /\ server # "gone" /\ leader.state = "gone"
    /\ ~(other.state = "running" /\ other.piped)
    /\ outcome' = "resolved" /\ limit' = FALSE /\ listed' = FALSE
    /\ UNCHANGED <<groupVars, killDue, flags, server, stopAsked>>

\* `shutdown`: every listed process is stopped.
Shutdown ==
    /\ server = "up" /\ server' = "stopping"
    /\ IF listed THEN StopTree ELSE UNCHANGED <<told, killDue, stopAsked>>
    /\ UNCHANGED <<leader, other, limit, flags, listed, outcome>>

\* The connection is closed, or three seconds have passed: what was due is lost.
ServerExits ==
    /\ server = "stopping" /\ server' = "gone"
    /\ UNCHANGED <<groupVars, killDue, limit, flags, listed, outcome, stopAsked>>

\* The program and what it starts.
StartsOther ==
    /\ leader.state = "running" /\ other.state = "none"
    /\ \E deaf, piped \in BOOLEAN :
         other' = [state |-> "running", deaf |-> deaf, piped |-> piped]
    /\ UNCHANGED <<leader, told, killDue, limit, flags, listed, outcome, server, stopAsked>>

LeaderGoes ==
    /\ leader.state = "running"
    /\ leader' = [leader EXCEPT !.state = "gone"] /\ told' = told \ {"leader"}
    /\ UNCHANGED <<other, killDue, limit, flags, listed, outcome, server, stopAsked>>
OtherGoes ==
    /\ other.state = "running"
    /\ other' = [other EXCEPT !.state = "gone"] /\ told' = told \ {"other"}
    /\ UNCHANGED <<leader, killDue, limit, flags, listed, outcome, server, stopAsked>>

RunNext ==
    \/ TimeOut \/ Abort \/ KillTree \/ Close \/ Shutdown \/ ServerExits
    \/ StartsOther \/ LeaderGoes \/ OtherGoes
RunSpec == RunInit /\ [][RunNext]_runVars

\* The server's timers run, its events are handled; a process that was told
\* to stop does, unless it ignores it. Nothing else ends by itself.
ServerTurn == TimeOut \/ KillTree \/ Close
Obeys == \/ "leader" \in told /\ ~leader.deaf /\ LeaderGoes
         \/ "other" \in told /\ ~other.deaf /\ OtherGoes
-----------------------------------------------------------------------------
\* run.ts: "the whole process tree stopped on timeout". Where stopTree found
\* the program running, its tree goes and the call is answered, whatever
\* ignores SIGTERM or holds the pipes, unless the server itself exits.
StoppedTreeGoes == stopAsked ~> (TreeGone /\ outcome # "none") \/ server # "up"

\* The comment as written, for a timeout whenever it comes: a program that
\* has exited and left a process with its pipes is not stopped, and its call
\* is never answered.
TimedOutTreeGoes == "timedOut" \in flags ~> TreeGone \/ server # "up"
=============================================================================
