-------------------------------- MODULE Timers --------------------------------
(***************************************************************************)
(* `timers.atEach` of the SDK (sdk/src/timers.ts): a callback at each      *)
(* boundary of a unit of local time, over the host's timers.               *)
(*                                                                         *)
(* The logic runs one handler at a time: a tick, a host message, a call of *)
(* `cancel`. The host runs beside it: it counts the timers down by a       *)
(* monotonic clock, skips or holds the ticks of a hidden widget, sends     *)
(* ticks that the logic receives later, and sends visibility and region.   *)
(* Date.now() is the wall clock, which may gain or lose on the monotonic.  *)
(***************************************************************************)
EXTENDS Integers, FiniteSets

CONSTANTS
    Units,        \* format.ts PERIODS: records [period, steady]
    Minimum,      \* MIN_TIMER_INTERVAL_MS, and ALIGNMENT_MS
    MaxLate,      \* how late the host may send a tick
    Offsets,      \* UTC offsets, in the unit of time of the model
    Changes,      \* when an offset may change: `region.nextChangeAt`
    Never,        \* no `region.nextChangeAt`
    Unannounced,  \* whether the offset may change without `nextChangeAt`
    Skews,        \* whether the wall clock may lose or gain a step
    MaxSkew,      \* bound: how often it does
    MaxTime       \* bound: where the model stops

ASSUME TimersAssumption ==
    /\ \A u \in Units : u.period \in Nat \ {0} /\ u.steady \in BOOLEAN /\ Minimum < u.period
    /\ Minimum \in Nat \ {0} /\ MaxLate \in Nat /\ Skews \subseteq {"loses", "gains"} /\ MaxSkew \in Nat /\ MaxTime \in Nat
    /\ Offsets \subseteq Int /\ Changes \subseteq Nat \ {0} /\ Never \notin Int /\ Unannounced \in BOOLEAN

VARIABLES
    unit,      \* the unit asked for
    now,       \* Date.now()
    skew,      \* bound: steps the wall clock has gained or lost
    region,    \* host.region: [offset, change]
    visible,   \* host.visible
    seen,      \* `visible` of atEach: the visibility last noticed
    hosted,    \* the host's timers: [id, left, repeat]
    onway,     \* ticks sent and not yet received: [id, repeat]
    current,   \* `current`: a timer's ID, or 0
    stopped,   \* `stopped`
    shownAt,   \* history: Date.now() of the last callback
    offsetAt,  \* history: when the offset last changed
    ontime,    \* history: since the last tick the clocks kept together, and it came
               \* on its boundary and was not due before, or it re-aligned
    after      \* history: a callback ran after `cancel`
timersVars == <<unit, now, skew, region, visible, seen, hosted, onway, current,
                stopped, shownAt, offsetAt, ontime, after>>
clockVars == <<unit, now, skew, region, visible, seen, offsetAt>>

TimerIds == 1..4
HostTimers == [id: TimerIds, left: Int, repeat: BOOLEAN]

TimersTypeOK ==
    /\ unit \in Units /\ now \in Int /\ shownAt \in Int /\ offsetAt \in Int /\ skew \in Nat
    /\ region.offset \in Offsets /\ region.change \in Int \cup {Never}
    /\ hosted \subseteq HostTimers
    /\ onway \subseteq [id: TimerIds, repeat: BOOLEAN]
    /\ current \in TimerIds \cup {0}
    /\ {visible, seen, stopped, ontime, after} \subseteq BOOLEAN

\* An offset is a whole number of minutes and changes on one: on a whole
\* number of periods, for a steady unit.
OfUnit(u, times) == {t \in times : u.steady => t % u.period = 0}

Longer(a, b) == IF a > b THEN a ELSE b
Shorter(a, b) == IF a < b THEN a ELSE b

\* Mutant of DelayToNext: an announced change of the offset is not waited for.
DelayToBoundary(u, time, r) == u.period - ((time + r.offset) % u.period)

\* format.ts `delayToNext`: to the next local boundary, or to the announced
\* change of the offset where it comes first.
DelayToNext(u, time, r) ==
    LET delay == u.period - ((time + r.offset) % u.period)
    IN  IF r.change # Never /\ r.change > time THEN Shorter(delay, r.change - time)
                                                ELSE delay

\* `start`: a host timer of at least the minimum, under an ID not in use.
FreshId(used) == CHOOSE id \in TimerIds : id \notin used
Started(timers, interval, repeat) ==
    LET id == FreshId({t.id : t \in timers} \cup {t.id : t \in onway} \cup {current})
    IN  [id |-> id, left |-> Longer(Minimum, interval), repeat |-> repeat]
Without(timers, id) == {t \in timers : t.id # id}

\* Mutant of Armed: the timer in place is not cancelled.
ArmedBeside(timers) ==
    LET timer == Started(timers, DelayToNext(unit, now, region), FALSE)
    IN  [timers |-> timers \cup {timer}, current |-> timer.id]

\* `arm`: the current timer is cancelled, a one-shot starts for the boundary.
Armed(timers) ==
    LET rest == Without(timers, current)
        timer == Started(rest, DelayToNext(unit, now, region), FALSE)
    IN  [timers |-> rest \cup {timer}, current |-> timer.id]

\* The callback, which may cancel the timer: `stopped`, `current.cancel()`.
Calls(armed) ==
    /\ shownAt' = now /\ after' = (after \/ stopped)
    /\ current' = armed.current
    /\ \/ hosted' = armed.timers /\ UNCHANGED stopped
       \/ hosted' = Without(armed.timers, armed.current) /\ stopped' = TRUE

TimersInit ==
    /\ unit \in Units
    /\ region \in [offset: OfUnit(unit, Offsets), change: OfUnit(unit, Changes) \cup {Never}]
    /\ now = 0 /\ skew = 0 /\ visible \in BOOLEAN /\ seen = visible
    /\ hosted = {[id |-> 1, left |-> Longer(Minimum, DelayToNext(unit, now, region)),
                  repeat |-> FALSE]}
    /\ current = 1 /\ onway = {} /\ stopped = FALSE /\ after = FALSE /\ ontime = TRUE
    /\ shownAt = 0 /\ offsetAt = 0   \* the caller shows the time itself
-----------------------------------------------------------------------------
(* The logic.                                                              *)

\* Mutant of Boundary: a tick on its way when the timer was cancelled counts.
BoundaryAnyway(tick) ==
    /\ ~tick.repeat
    /\ IF unit.steady
       THEN LET steady == Started(hosted, unit.period, TRUE)
            IN  Calls([timers |-> hosted \cup {steady}, current |-> steady.id])
       ELSE Calls(Armed(hosted))

\* The one-shot of `arm`: at the boundary, the repeating timer starts, or
\* the next one-shot.
Boundary(tick) ==
    /\ ~tick.repeat
    /\ IF stopped THEN UNCHANGED <<hosted, current, stopped, shownAt, after>>
       ELSE IF unit.steady
       THEN LET steady == Started(hosted, unit.period, TRUE)
            IN  Calls([timers |-> hosted \cup {steady}, current |-> steady.id])
       ELSE Calls(Armed(hosted))

\* `late`: how far past its boundary a tick comes; almost a period when early.
Late == unit.period - DelayToNext(unit, now, region)

\* Mutant of Tick: a drift is never seen.
TickAsIs(tick) ==
    /\ tick.repeat
    /\ IF stopped THEN UNCHANGED <<hosted, current, stopped, shownAt, after>>
       ELSE Calls([timers |-> hosted, current |-> current])

\* `tick`: a tick that drifted from its boundary, late or early, re-aligns.
Tick(tick) ==
    /\ tick.repeat
    /\ IF stopped THEN UNCHANGED <<hosted, current, stopped, shownAt, after>>
       ELSE Calls(IF Late >= Minimum THEN Armed(hosted)
                  ELSE [timers |-> hosted, current |-> current])

\* The last tick of the repeating timer was due at the boundary or after it.
DueSince == \A t \in hosted : t.left >= unit.period - Late

TickArrives ==
    \E tick \in onway :
        /\ onway' = onway \ {tick}
        /\ Boundary(tick) \/ Tick(tick)
        /\ ontime' = IF tick.repeat THEN Late >= Minimum \/ DueSince ELSE Late < Minimum
        /\ UNCHANGED clockVars

\* `cancel`, from another handler of the widget. Calling it again is nothing.
Cancel ==
    /\ ~stopped /\ stopped' = TRUE
    /\ hosted' = Without(hosted, current)
    /\ UNCHANGED <<clockVars, onway, current, shownAt, ontime, after>>

\* `onHost` with `visible`: shown again, the callback runs once. A message may
\* repeat the visibility.
Visibility ==
    \E v \in BOOLEAN :
        /\ visible' = v
        /\ seen' = IF stopped THEN seen ELSE v  \* the listener was cancelled
        /\ IF v /\ ~seen /\ ~stopped THEN Calls([timers |-> hosted, current |-> current])
           ELSE UNCHANGED <<hosted, current, stopped, shownAt, after>>
        /\ UNCHANGED <<unit, now, skew, region, onway, offsetAt, ontime>>
-----------------------------------------------------------------------------
(* The host.                                                               *)

\* A timer is due. Hidden, a repeating one skips its tick and a one-shot
\* waits; shown, the tick is sent.
Due(timer) ==
    /\ timer.left <= 0 /\ (visible \/ timer.repeat)
    /\ onway' = IF visible THEN onway \cup {[id |-> timer.id, repeat |-> timer.repeat]} ELSE onway
    /\ hosted' = IF timer.repeat
                 THEN (hosted \ {timer}) \cup {[timer EXCEPT !.left = @ + unit.period]}
                 ELSE hosted \ {timer}
    /\ UNCHANGED <<clockVars, current, stopped, shownAt, ontime, after>>

\* The announced change of the offset has come and the region was not sent.
ChangeDue == region.change # Never /\ region.change <= now

\* Region: at the announced change, or where the user changes it.
NewRegion ==
    \E offset \in OfUnit(unit, Offsets),
       change \in {c \in OfUnit(unit, Changes) : c > now} \cup {Never} :
        /\ ChangeDue \/ (Unannounced /\ offset # region.offset)
        /\ region' = [offset |-> offset, change |-> change]
        /\ offsetAt' = IF offset # region.offset THEN now ELSE offsetAt
        /\ UNCHANGED <<unit, now, skew, visible, seen, hosted, onway, current,
                       stopped, shownAt, ontime, after>>

\* Time passes while nothing is overdue: the host is at most MaxLate late,
\* and sends the region of an announced change before the ticks of that time.
Pass ==
    /\ now < MaxTime /\ onway = {} /\ ~ChangeDue
    /\ \A t \in hosted : t.left > -MaxLate \/ (~visible /\ ~t.repeat)
    /\ \/ now' = now + 1 /\ UNCHANGED <<skew, ontime>>
       \/ /\ skew < MaxSkew /\ skew' = skew + 1 /\ ontime' = FALSE
          /\ \/ "loses" \in Skews /\ now' = now
             \/ "gains" \in Skews /\ now' = now + 2
    /\ hosted' = {[t EXCEPT !.left = IF @ > -MaxLate THEN @ - 1 ELSE @] : t \in hosted}
    /\ UNCHANGED <<unit, region, visible, seen, onway, current, stopped, shownAt,
                   offsetAt, after>>

TimersNext ==
    \/ TickArrives \/ Cancel \/ Visibility \/ NewRegion \/ Pass
    \/ ~ChangeDue /\ \E timer \in hosted : Due(timer)
TimersSpec == TimersInit /\ [][TimersNext]_timersVars
-----------------------------------------------------------------------------
(* What `atEach` promises.                                                 *)

\* However ticks, drifts, hiding and cancelling fall, one clock holds at most
\* one of the widget's MAX_TIMERS host timers, and none once cancelled; and
\* one that goes on holds a timer or has a tick on its way to start one; and
\* the callback does not run once cancelled ("a cancelled atEach never
\* re-arms"), though a tick or a host message was on its way.
OneTimer ==
    /\ ~after
    /\ Cardinality(hosted) <= 1
    /\ \A t \in hosted : t.id = current
    /\ stopped => hosted = {}
    /\ ~stopped => hosted # {} \/ onway # {}

\* timers.ts:47 "aligned on the boundaries": a clock that is shown shows its
\* unit. Past a boundary of local time by the minimum interval and what the
\* host and the clocks lose, the callback has run since that boundary.
Tolerance == Minimum + MaxLate + MaxSkew
LastBoundary == now - ((now + region.offset) % unit.period)
BoundaryShown ==
    visible /\ ~stopped /\ LastBoundary >= offsetAt /\ now - LastBoundary >= Tolerance
        => shownAt >= LastBoundary

\* sdk.md:195 "It also wakes when the user's UTC offset changes."
WakesAtOffset ==
    visible /\ ~stopped /\ now - offsetAt >= Tolerance => shownAt >= offsetAt

\* Whatever is late, early or hidden, a clock that was on time keeps time, and
\* a repeating tick off its boundary is enough to be on time again; hours
\* and days always are.
KeepsTime == (unit.steady => ontime) => BoundaryShown /\ WakesAtOffset
=============================================================================
