---------------------------- MODULE WidgetProofs ----------------------------
(***************************************************************************)
(* What runs in a widget: the clock of the SDK holds one timer and keeps   *)
(* time, for any unit and any delay of the host, Steam Achievements shows  *)
(* the achievements of the player it follows, and the live goals miss no   *)
(* change of a goal they do not read.                                      *)
(***************************************************************************)
EXTENDS SteamAchievements, Timers, LiveGoals, FiniteSetTheorems, SequenceTheorems, WellFoundedInduction, TLAPS

-----------------------------------------------------------------------------
(* The clock (Timers). First, of integers: the multiples of a period.      *)

LEMMA ModParts ==
    ASSUME NEW x \in Int, NEW p \in Nat \ {0}
    PROVE  x % p \in 0..p - 1 /\ x \div p \in Int /\ x = p * (x \div p) + (x % p)
<1>1. PICK r \in Int : r = x % p
  OBVIOUS
<1>2. PICK q \in Int : q = x \div p
  OBVIOUS
<1>3. p \in Int /\ p > 0
  OBVIOUS
<1>4. x = p * q + r
  BY <1>1, <1>2, <1>3
<1>5. r \in 0..p - 1
  BY <1>1, <1>3
<1> QED BY <1>1, <1>2, <1>4, <1>5, Zenon

LEMMA MulLess ==
    ASSUME NEW a \in Int, NEW b \in Int, NEW p \in Nat \ {0}, p * a < p * b
    PROVE  p * a + p <= p * b
<1>1. a < b
  <2>1. SUFFICES ASSUME b <= a PROVE FALSE
    OBVIOUS
  <2>2. p * (a - b) >= 0
    <3>1. a - b \in Nat
      BY <2>1
    <3> QED BY <3>1
  <2> QED BY <2>2
<1>2. p * (b - a - 1) >= 0
  <2>1. b - a - 1 \in Nat
    BY <1>1
  <2> QED BY <2>1
<1> QED BY <1>2

LEMMA ModUnique ==
    ASSUME NEW p \in Nat \ {0}, NEW q \in Int, NEW r \in 0..p - 1
    PROVE  (p * q + r) % p = r
<1>1. PICK x \in Int : x = p * q + r
  OBVIOUS
<1>2. PICK s \in Int : s = x % p
  OBVIOUS
<1>3. PICK k \in Int : k = x \div p
  OBVIOUS
<1>4. x = p * k + s /\ s \in 0..p - 1
  BY <1>2, <1>3, ModParts, Zenon
<1>5. PICK m \in Int : m = p * q
  OBVIOUS
<1>6. PICK n \in Int : n = p * k
  OBVIOUS
<1>7. m + r = n + s
  BY <1>1, <1>4, <1>5, <1>6
<1>8. ~(m < n)
  <2>1. m < n => m + p <= n
    BY <1>5, <1>6, MulLess
  <2> QED BY <1>4, <1>7, <2>1
<1>9. ~(n < m)
  <2>1. n < m => n + p <= m
    BY <1>5, <1>6, MulLess
  <2> QED BY <1>4, <1>7, <2>1
<1>10. s = r
  BY <1>4, <1>7, <1>8, <1>9
<1> QED BY <1>1, <1>2, <1>10

LEMMA NextMultiple ==
    ASSUME NEW x \in Int, NEW a \in Int, NEW p \in Nat \ {0}, x % p = 0, a < x
    PROVE  a + p - (a % p) <= x
<1>1. PICK k \in Int : k = x \div p
  OBVIOUS
<1>2. PICK q \in Int : q = a \div p
  OBVIOUS
<1>3. PICK r \in Int : r = a % p
  OBVIOUS
<1>4. x = p * k + 0 /\ a = p * q + r /\ r \in 0..p - 1
  BY <1>1, <1>2, <1>3, ModParts, Zenon
<1>5. PICK m \in Int : m = p * q
  OBVIOUS
<1>6. PICK n \in Int : n = p * k
  OBVIOUS
<1>7. m < n
  BY <1>4, <1>5, <1>6
<1>8. m + p <= n
  BY <1>5, <1>6, <1>7, MulLess
<1>9. a + p - r <= x
  BY <1>4, <1>5, <1>6, <1>8
<1> QED BY <1>3, <1>9

LEMMA ModPlus ==
    ASSUME NEW x \in Int, NEW y \in Int, NEW p \in Nat \ {0}, y % p = 0
    PROVE  (x + y) % p = x % p
<1>1. PICK k \in Int : k = y \div p
  OBVIOUS
<1>2. PICK q \in Int : q = x \div p
  OBVIOUS
<1>3. PICK r \in Int : r = x % p
  OBVIOUS
<1>4. y = p * k + 0 /\ x = p * q + r /\ r \in 0..p - 1
  BY <1>1, <1>2, <1>3, ModParts, Zenon
<1>5. (p * (q + k) + r) % p = r
  BY <1>4, ModUnique
<1>6. x + y = p * (q + k) + r
  <2>1. p * (q + k) = p * q + p * k
    OBVIOUS
  <2>2. PICK m \in Int : m = p * q
    OBVIOUS
  <2>3. PICK n \in Int : n = p * k
    OBVIOUS
  <2> QED BY <1>4, <2>1, <2>2, <2>3
<1> QED BY <1>3, <1>5, <1>6

\* What is past a multiple by its remainder.
LEMMA LastMultiple ==
    ASSUME NEW a \in Int, NEW p \in Nat \ {0}
    PROVE  (a - (a % p)) % p = 0 /\ (a - (a % p) + p) % p = 0 /\ p % p = 0
<1>1. PICK q \in Int : q = a \div p
  OBVIOUS
<1>2. PICK r \in Int : r = a % p
  OBVIOUS
<1>3. a = p * q + r
  BY <1>1, <1>2, ModParts, Zenon
<1>4. 0 \in 0..p - 1
  OBVIOUS
<1>5. (p * q + 0) % p = 0 /\ (p * (q + 1) + 0) % p = 0 /\ (p * 1 + 0) % p = 0
  BY <1>4, ModUnique
<1>6. a - r = p * q + 0 /\ a - r + p = p * (q + 1) + 0 /\ p = p * 1 + 0
  BY <1>3
<1> QED BY <1>2, <1>5, <1>6

\* One timer, one tick on its way at most; both only where the timer repeats,
\* and a clock that goes on has one of them.
TimerShape ==
    /\ TimersTypeOK /\ ~after
    /\ \A t, s \in hosted : t = s
    /\ \A t \in hosted : t.id = current
    /\ \A k, l \in onway : k = l
    /\ \A t \in hosted, k \in onway : t.repeat = TRUE /\ k.repeat = TRUE /\ k.id = t.id
    /\ stopped => hosted = {}
    /\ ~stopped => hosted # {} \/ \E k \in onway : k.repeat = FALSE

LEMMA UnitTypes ==
    ASSUME TimersTypeOK
    PROVE  /\ unit.period \in Nat \ {0} /\ Minimum < unit.period /\ Minimum \in Nat \ {0}
           /\ unit.steady \in BOOLEAN /\ MaxLate \in Nat /\ MaxSkew \in Nat
           /\ region.offset \in Int /\ region.change \in Int \cup {Never} /\ Never \notin Int
BY TimersAssumption DEF TimersTypeOK

\* A delay is of one period at most.
LEMMA DelayType ==
    ASSUME NEW u \in Units, NEW time \in Int, NEW r, r.offset \in Int, r.change \in Int \cup {Never}
    PROVE  DelayToNext(u, time, r) \in 1..u.period
<1>1. PICK p \in Nat \ {0} : p = u.period
  BY TimersAssumption
<1>2. PICK o \in Int : o = r.offset
  OBVIOUS
<1>6. PICK m \in Int : m = (time + o) % p
  BY <1>1
<1>7. m \in 0..p - 1
  <2>1. time + o \in Int
    OBVIOUS
  <2> QED BY <1>6, <2>1, ModParts, Zenon
<1>3. p - m \in 1..p
  BY <1>7
<1>4. CASE r.change # Never /\ r.change > time
  <2>1. r.change - time \in Nat /\ r.change - time >= 1
    BY <1>4
  <2> QED BY <1>1, <1>2, <1>6, <1>3, <1>7, <1>4, <2>1 DEF DelayToNext, Shorter
<1>5. CASE ~(r.change # Never /\ r.change > time)
  BY <1>1, <1>2, <1>6, <1>3, <1>7, <1>5 DEF DelayToNext
<1> QED BY <1>4, <1>5

\* A timer that starts takes an ID not in use: there is one.
LEMMA StartedType ==
    ASSUME TimerShape, NEW timers \in SUBSET hosted, NEW interval \in Int, NEW repeat \in BOOLEAN
    PROVE  /\ Started(timers, interval, repeat) \in HostTimers
           /\ Started(timers, interval, repeat).left = Longer(Minimum, interval)
           /\ Started(timers, interval, repeat).repeat = repeat
<1> DEFINE used == {t.id : t \in timers} \cup {t.id : t \in onway} \cup {current}
<1>1. \E id \in TimerIds : id \notin used
  <2>1. PICK other : \A k \in onway : k.id = other
    BY DEF TimerShape
  <2>2. used \subseteq {current, other}
    BY <2>1 DEF TimerShape
  <2>3. {1, 2, 3} \subseteq TimerIds
    BY DEF TimerIds
  <2>4. 1 \notin {current, other} \/ 2 \notin {current, other} \/ 3 \notin {current, other}
    OBVIOUS
  <2> QED BY <2>2, <2>3, <2>4
<1>2. FreshId(used) \in TimerIds
  BY <1>1 DEF FreshId
<1>3. Longer(Minimum, interval) \in Int
  BY TimersAssumption DEF Longer
<1> QED BY <1>2, <1>3 DEF Started, HostTimers

LEMMA ArmedType ==
    ASSUME TimerShape
    PROVE  \E t \in HostTimers :
                /\ Armed(hosted) = [timers |-> {t}, current |-> t.id] /\ t.repeat = FALSE
                /\ t.left = Longer(Minimum, DelayToNext(unit, now, region))
<1>1. Without(hosted, current) = {}
  BY DEF Without, TimerShape
<1>2. DelayToNext(unit, now, region) \in Int
  <2>1. DelayToNext(unit, now, region) \in 1..unit.period /\ unit.period \in Nat
    BY DelayType, UnitTypes DEF TimerShape, TimersTypeOK
  <2> QED BY <2>1
<1>3. PICK t : t = Started({}, DelayToNext(unit, now, region), FALSE)
  OBVIOUS
<1>4. t \in HostTimers /\ t.left = Longer(Minimum, DelayToNext(unit, now, region)) /\ t.repeat = FALSE
  BY <1>2, <1>3, StartedType
<1>5. Armed(hosted) = [timers |-> {t}, current |-> t.id]
  BY <1>1, <1>3 DEF Armed
<1> QED BY <1>4, <1>5

\* The callback: what was armed, or nothing once it has cancelled.
LEMMA CallsShape ==
    ASSUME TimerShape, ~stopped, NEW t \in HostTimers, Calls([timers |-> {t}, current |-> t.id])
    PROVE  /\ shownAt' = now /\ after' = FALSE /\ current' = t.id
           /\ \/ hosted' = {t} /\ stopped' = FALSE
              \/ hosted' = {} /\ stopped' = TRUE
<1>1. Without({t}, t.id) = {}
  BY DEF Without
<1>2. after = FALSE /\ stopped = FALSE
  BY DEF TimerShape, TimersTypeOK
<1> QED BY <1>1, <1>2 DEF Calls

\* What a tick does to the clock: one timer, which it started, armed or keeps.
LEMMA TickShape ==
    ASSUME TimerShape, TickArrives
    PROVE  /\ onway' = {} /\ after' = FALSE /\ UNCHANGED clockVars /\ ontime' \in BOOLEAN
           /\ \/ stopped /\ UNCHANGED <<hosted, current, stopped, shownAt>>
              \/ /\ ~stopped /\ shownAt' = now
                 /\ hosted' = {} /\ stopped' = TRUE /\ current' \in TimerIds
              \/ /\ ~stopped /\ shownAt' = now /\ stopped' = FALSE
                 /\ \E t \in HostTimers :
                      /\ hosted' = {t} /\ current' = t.id
                      /\ \/ /\ t.repeat = FALSE
                            /\ t.left = Longer(Minimum, DelayToNext(unit, now, region))
                            /\ ontime' = TRUE \/ ~unit.steady
                         \/ /\ t.repeat = TRUE /\ unit.steady /\ t.left = Longer(Minimum, unit.period)
                            /\ ontime' = (Late < Minimum)
                         \/ /\ t \in hosted /\ Late < Minimum
                            /\ ontime' => t.left >= unit.period - Late
<1>1. PICK tick \in onway :
        /\ onway' = onway \ {tick}
        /\ Boundary(tick) \/ Tick(tick)
        /\ ontime' = IF tick.repeat THEN Late >= Minimum \/ DueSince ELSE Late < Minimum
        /\ UNCHANGED clockVars
  BY DEF TickArrives
<1>2. onway' = {}
  BY <1>1 DEF TimerShape
<1>3. after = FALSE /\ tick.repeat \in BOOLEAN /\ stopped \in BOOLEAN
  BY DEF TimerShape, TimersTypeOK
<1>4. ontime' \in BOOLEAN
  <2>1. CASE tick.repeat
    BY <1>1, <2>1, Zenon
  <2>2. CASE ~tick.repeat
    BY <1>1, <2>2, SMT
  <2> QED BY <2>1, <2>2
<1>5. CASE stopped
  <2>1. UNCHANGED <<hosted, current, stopped, shownAt, after>>
    BY <1>1, <1>5 DEF Boundary, Tick
  <2> QED BY <1>1, <1>2, <1>3, <1>4, <1>5, <2>1
<1>6. CASE ~stopped /\ tick.repeat = FALSE
  <2>1. hosted = {} /\ Boundary(tick)
    BY <1>1, <1>6 DEF TimerShape, Tick
  <2>2. CASE unit.steady
    <3>1. PICK t : t = Started(hosted, unit.period, TRUE)
      OBVIOUS
    <3>2. t \in HostTimers /\ t.left = Longer(Minimum, unit.period) /\ t.repeat = TRUE
      <4>1. TimersTypeOK
        BY DEF TimerShape
      <4>2. unit.period \in Int /\ hosted \in SUBSET hosted /\ TRUE \in BOOLEAN
        BY <4>1, UnitTypes
      <4> QED BY <3>1, <4>2, StartedType
    <3>3. Calls([timers |-> {t}, current |-> t.id])
      BY <1>6, <2>1, <2>2, <3>1 DEF Boundary
    <3>4. /\ shownAt' = now /\ after' = FALSE /\ current' = t.id
          /\ \/ hosted' = {t} /\ stopped' = FALSE
             \/ hosted' = {} /\ stopped' = TRUE
      BY <1>6, <3>2, <3>3, CallsShape
    <3>5. t.id \in TimerIds /\ ontime' = (Late < Minimum)
      BY <1>1, <1>6, <3>2 DEF HostTimers
    <3> QED BY <1>1, <1>2, <1>4, <1>6, <2>2, <3>2, <3>4, <3>5
  <2>3. CASE ~unit.steady
    <3>1. Calls(Armed(hosted))
      BY <1>6, <2>1, <2>3 DEF Boundary
    <3>2. PICK t \in HostTimers :
            /\ Armed(hosted) = [timers |-> {t}, current |-> t.id] /\ t.repeat = FALSE
            /\ t.left = Longer(Minimum, DelayToNext(unit, now, region))
      BY ArmedType
    <3>3. /\ shownAt' = now /\ after' = FALSE /\ current' = t.id
          /\ \/ hosted' = {t} /\ stopped' = FALSE
             \/ hosted' = {} /\ stopped' = TRUE
      BY <1>6, <3>1, <3>2, CallsShape
    <3>4. t.id \in TimerIds
      BY DEF HostTimers
    <3> QED BY <1>1, <1>2, <1>4, <1>6, <2>3, <3>2, <3>3, <3>4
  <2> QED BY <2>2, <2>3
<1>7. CASE ~stopped /\ tick.repeat = TRUE
  <2>1. Tick(tick)
    BY <1>1, <1>7 DEF Boundary
  <2>2. PICK s \in hosted : hosted = {s} /\ s.id = current
    BY <1>7 DEF TimerShape
  <2>3. s \in HostTimers /\ s.id \in TimerIds
    BY <2>2 DEF TimerShape, TimersTypeOK, HostTimers
  <2>4. CASE Late >= Minimum
    <3>1. Calls(Armed(hosted))
      BY <1>7, <2>1, <2>4 DEF Tick
    <3>2. PICK t \in HostTimers :
            /\ Armed(hosted) = [timers |-> {t}, current |-> t.id] /\ t.repeat = FALSE
            /\ t.left = Longer(Minimum, DelayToNext(unit, now, region))
      BY ArmedType
    <3>3. /\ shownAt' = now /\ after' = FALSE /\ current' = t.id
          /\ \/ hosted' = {t} /\ stopped' = FALSE
             \/ hosted' = {} /\ stopped' = TRUE
      BY <1>7, <3>1, <3>2, CallsShape
    <3>4. t.id \in TimerIds /\ ontime' = TRUE
      BY <1>1, <1>7, <2>4 DEF HostTimers
    <3> QED BY <1>1, <1>2, <1>7, <3>2, <3>3, <3>4
  <2>5. CASE ~(Late >= Minimum)
    <3>1. Calls([timers |-> {s}, current |-> s.id])
      BY <1>7, <2>1, <2>2, <2>5 DEF Tick
    <3>2. /\ shownAt' = now /\ after' = FALSE /\ current' = s.id
          /\ \/ hosted' = {s} /\ stopped' = FALSE
             \/ hosted' = {} /\ stopped' = TRUE
      BY <1>7, <2>3, <3>1, CallsShape
    <3>3. Late < Minimum
      <4>1. DelayToNext(unit, now, region) \in 1..unit.period /\ unit.period \in Nat /\ Minimum \in Nat
        BY DelayType, UnitTypes DEF TimerShape, TimersTypeOK
      <4>2. Late \in Int
        BY <4>1 DEF Late
      <4> QED BY <2>5, <4>1, <4>2
    <3>4. ontime' => s.left >= unit.period - Late
      BY <1>1, <1>7, <2>2, <2>5 DEF DueSince
    <3> QED BY <1>1, <1>2, <1>4, <1>7, <2>2, <2>3, <3>2, <3>3, <3>4
  <2> QED BY <2>4, <2>5
<1> QED BY <1>3, <1>5, <1>6, <1>7

\* The initial clock: one one-shot.
LEMMA StartShape == TimersInit => TimerShape
<1> SUFFICES ASSUME TimersInit PROVE TimerShape
  OBVIOUS
<1>1. unit \in Units /\ unit.period \in Nat \ {0} /\ Minimum \in Nat \ {0}
  BY TimersAssumption DEF TimersInit
<1>2. region.offset \in Offsets /\ region.offset \in Int /\ region.change \in Int \cup {Never}
  <2>1. region.offset \in OfUnit(unit, Offsets) /\ region.change \in OfUnit(unit, Changes) \cup {Never}
    BY DEF TimersInit
  <2>2. OfUnit(unit, Offsets) \subseteq Offsets /\ OfUnit(unit, Changes) \subseteq Changes
    BY DEF OfUnit
  <2>3. Offsets \subseteq Int /\ Changes \subseteq Int
    BY TimersAssumption
  <2> QED BY <2>1, <2>2, <2>3
<1>3. DelayToNext(unit, now, region) \in 1..unit.period
  BY <1>1, <1>2, DelayType DEF TimersInit
<1>4. Longer(Minimum, DelayToNext(unit, now, region)) \in Int
  BY <1>1, <1>3 DEF Longer
<1>5. 1 \in TimerIds
  BY DEF TimerIds
<1>6. PICK t : t = [id |-> 1, left |-> Longer(Minimum, DelayToNext(unit, now, region)), repeat |-> FALSE]
  OBVIOUS
<1>7. t \in HostTimers /\ t.id = 1 /\ hosted = {t}
  BY <1>4, <1>5, <1>6 DEF HostTimers, TimersInit
<1>8. TimersTypeOK
  <2>1. unit \in Units /\ now \in Int /\ shownAt \in Int /\ offsetAt \in Int /\ skew \in Nat
    BY <1>1 DEF TimersInit
  <2>2. hosted \subseteq HostTimers /\ onway = {} /\ current \in TimerIds \cup {0}
    BY <1>5, <1>7 DEF TimersInit
  <2>3. {visible, seen, stopped, ontime, after} \subseteq BOOLEAN
    <3>1. visible \in BOOLEAN /\ seen = visible /\ stopped = FALSE /\ ontime = TRUE /\ after = FALSE
      BY DEF TimersInit
    <3> QED BY <3>1
  <2> QED BY <1>2, <2>1, <2>2, <2>3 DEF TimersTypeOK
<1> QED BY <1>7, <1>8 DEF TimersInit, TimerShape

\* Time passes: the same timer, nearer.
LEMMA PassShape ==
    ASSUME TimerShape, Pass
    PROVE  /\ onway = {} /\ onway' = {} /\ ~ChangeDue
           /\ \/ now' = now + 1 /\ skew' = skew /\ ontime' = ontime
              \/ skew' = skew + 1 /\ skew' <= MaxSkew /\ ontime' = FALSE /\ now' \in now..now + 2
           /\ UNCHANGED <<unit, region, visible, seen, current, stopped, shownAt, offsetAt, after>>
           /\ \/ hosted = {} /\ hosted' = {}
              \/ \E t, s \in HostTimers :
                   /\ hosted = {t} /\ hosted' = {s} /\ s.id = t.id /\ s.repeat = t.repeat
                   /\ \/ t.left > -MaxLate /\ s.left = t.left - 1
                      \/ t.left <= -MaxLate /\ s.left = t.left /\ ~visible /\ ~t.repeat
<1>1. now \in Int /\ skew \in Nat /\ MaxSkew \in Nat /\ MaxLate \in Nat
  BY TimersAssumption DEF TimerShape, TimersTypeOK
<1>2. \/ now' = now + 1 /\ skew' = skew /\ ontime' = ontime
      \/ skew' = skew + 1 /\ skew' <= MaxSkew /\ ontime' = FALSE /\ now' \in now..now + 2
  BY <1>1 DEF Pass
<1>3. CASE hosted = {}
  BY <1>2, <1>3 DEF Pass
<1>4. CASE hosted # {}
  <2>1. PICK t \in hosted : hosted = {t}
    BY <1>4 DEF TimerShape
  <2>2. t \in HostTimers /\ t.left \in Int
    BY <2>1 DEF TimerShape, TimersTypeOK, HostTimers
  <2>3. PICK left \in Int : left = IF t.left > -MaxLate THEN t.left - 1 ELSE t.left
    BY <1>1, <2>2
  <2>4. PICK s : s = [t EXCEPT !.left = left]
    OBVIOUS
  <2>5. s \in HostTimers /\ s.id = t.id /\ s.repeat = t.repeat /\ s.left = left
    BY <2>2, <2>3, <2>4 DEF HostTimers
  <2>6. hosted' = {s}
    BY <2>1, <2>3, <2>4 DEF Pass
  <2>7. t.left > -MaxLate \/ (~visible /\ ~t.repeat)
    BY <2>1 DEF Pass
  <2>8. \/ t.left > -MaxLate /\ s.left = t.left - 1
        \/ t.left <= -MaxLate /\ s.left = t.left /\ ~visible /\ ~t.repeat
    BY <1>1, <2>2, <2>3, <2>5, <2>7
  <2> QED BY <1>2, <2>1, <2>2, <2>5, <2>6, <2>8 DEF Pass
<1> QED BY <1>3, <1>4

\* A timer is due: it is gone, or waits another period; its tick is sent to a
\* widget that is shown.
LEMMA DueShape ==
    ASSUME TimerShape, NEW t \in hosted, Due(t)
    PROVE  /\ t \in HostTimers /\ hosted = {t} /\ t.left <= 0
           /\ UNCHANGED <<clockVars, current, stopped, shownAt, ontime, after>>
           /\ \/ onway' = onway /\ visible = FALSE /\ t.repeat = TRUE
              \/ /\ visible = TRUE /\ onway \subseteq {[id |-> t.id, repeat |-> t.repeat]}
                 /\ onway' = {[id |-> t.id, repeat |-> t.repeat]}
           /\ \/ hosted' = {} /\ t.repeat = FALSE
              \/ t.repeat = TRUE /\ hosted' = {[t EXCEPT !.left = t.left + unit.period]}
<1>1. t \in HostTimers /\ hosted = {t} /\ t.repeat \in BOOLEAN /\ visible \in BOOLEAN
  BY DEF TimerShape, TimersTypeOK, HostTimers
<1>2. t.left <= 0 /\ (visible \/ t.repeat)
  BY DEF Due
<1>3. \A k \in onway : k = [id |-> t.id, repeat |-> t.repeat]
  BY <1>1 DEF TimerShape, TimersTypeOK
<1>4. \/ onway' = onway /\ visible = FALSE /\ t.repeat = TRUE
      \/ /\ visible = TRUE /\ onway \subseteq {[id |-> t.id, repeat |-> t.repeat]}
         /\ onway' = {[id |-> t.id, repeat |-> t.repeat]}
  BY <1>1, <1>2, <1>3 DEF Due
<1>5. \/ hosted' = {} /\ t.repeat = FALSE
      \/ t.repeat = TRUE /\ hosted' = {[t EXCEPT !.left = t.left + unit.period]}
  BY <1>1 DEF Due
<1>6. UNCHANGED <<clockVars, current, stopped, shownAt, ontime, after>>
  BY DEF Due
<1> QED BY <1>1, <1>2, <1>4, <1>5, <1>6

\* A message of the visibility: the callback of a clock that is shown again.
LEMMA VisibilityShape ==
    ASSUME TimerShape, Visibility
    PROVE  /\ UNCHANGED <<unit, now, skew, region, onway, offsetAt, ontime, current>> /\ after' = FALSE
           /\ visible' \in BOOLEAN /\ seen' = IF stopped THEN seen ELSE visible'
           /\ \/ UNCHANGED <<hosted, stopped, shownAt>> /\ ~(visible' /\ ~seen /\ ~stopped)
              \/ /\ visible' = TRUE /\ ~seen /\ ~stopped /\ shownAt' = now
                 /\ \/ hosted' = hosted /\ stopped' = FALSE
                    \/ hosted' = {} /\ stopped' = TRUE
<1>1. PICK v \in BOOLEAN :
        /\ visible' = v
        /\ seen' = IF stopped THEN seen ELSE v
        /\ IF v /\ ~seen /\ ~stopped THEN Calls([timers |-> hosted, current |-> current])
           ELSE UNCHANGED <<hosted, current, stopped, shownAt, after>>
        /\ UNCHANGED <<unit, now, skew, region, onway, offsetAt, ontime>>
  BY DEF Visibility
<1>2. after = FALSE /\ stopped \in BOOLEAN /\ seen \in BOOLEAN
  BY DEF TimerShape, TimersTypeOK
<1>3. CASE v /\ ~seen /\ ~stopped
  <2>1. Without(hosted, current) = {}
    BY DEF Without, TimerShape
  <2>2. Calls([timers |-> hosted, current |-> current])
    BY <1>1, <1>3
  <2>3. /\ shownAt' = now /\ after' = FALSE /\ current' = current
        /\ \/ hosted' = hosted /\ stopped' = FALSE
           \/ hosted' = {} /\ stopped' = TRUE
    BY <1>2, <1>3, <2>1, <2>2 DEF Calls
  <2> QED BY <1>1, <1>3, <2>3
<1>4. CASE ~(v /\ ~seen /\ ~stopped)
  BY <1>1, <1>2, <1>4
<1> QED BY <1>3, <1>4

\* NewRegion leaves the clock as it is.
LEMMA RegionShape ==
    ASSUME TimerShape, NewRegion
    PROVE  /\ UNCHANGED <<unit, now, skew, visible, seen, hosted, onway, current, stopped, shownAt, ontime, after>>
           /\ region'.offset \in OfUnit(unit, Offsets) /\ region'.offset \in Offsets /\ region'.offset \in Int
           /\ region'.change # Never => region'.change \in OfUnit(unit, Changes)
           /\ region'.change \in Int \cup {Never} /\ (region'.change # Never => region'.change > now)
           /\ ChangeDue \/ (Unannounced /\ region'.offset # region.offset)
           /\ \/ region'.offset # region.offset /\ offsetAt' = now
              \/ region'.offset = region.offset /\ offsetAt' = offsetAt
<1>1. PICK offset \in OfUnit(unit, Offsets),
           change \in {c \in OfUnit(unit, Changes) : c > now} \cup {Never} :
        /\ ChangeDue \/ (Unannounced /\ offset # region.offset)
        /\ region' = [offset |-> offset, change |-> change]
        /\ offsetAt' = IF offset # region.offset THEN now ELSE offsetAt
        /\ UNCHANGED <<unit, now, skew, visible, seen, hosted, onway, current, stopped, shownAt, ontime, after>>
  BY DEF NewRegion
<1>2. Offsets \subseteq Int /\ Changes \subseteq Int
  BY TimersAssumption
<1>3. OfUnit(unit, Offsets) \subseteq Offsets /\ OfUnit(unit, Changes) \subseteq Changes
  BY DEF OfUnit
<1>4. region'.offset = offset /\ region'.change = change
  BY <1>1
<1>5. change # Never => change \in OfUnit(unit, Changes) /\ change > now
  OBVIOUS
<1> QED BY <1>1, <1>2, <1>3, <1>4, <1>5

\* Every step keeps the shape.
LEMMA StepShape ==
    ASSUME TimerShape, [TimersNext]_timersVars
    PROVE  TimerShape'
<1> DEFINE Rest == /\ unit' \in Units /\ now' \in Int /\ shownAt' \in Int /\ offsetAt' \in Int /\ skew' \in Nat
                   /\ region'.offset \in Offsets /\ region'.change \in Int \cup {Never}
                   /\ visible' \in BOOLEAN /\ seen' \in BOOLEAN /\ ontime' \in BOOLEAN
<1>1. /\ unit \in Units /\ now \in Int /\ shownAt \in Int /\ offsetAt \in Int /\ skew \in Nat
      /\ region.offset \in Offsets /\ region.change \in Int \cup {Never}
      /\ visible \in BOOLEAN /\ seen \in BOOLEAN /\ stopped \in BOOLEAN /\ ontime \in BOOLEAN
      /\ after = FALSE /\ unit.period \in Nat \ {0} /\ 0 \notin TimerIds
      /\ hosted \subseteq HostTimers /\ onway \subseteq [id: TimerIds, repeat: BOOLEAN]
      /\ current \in TimerIds \cup {0}
  BY TimersAssumption DEF TimerShape, TimersTypeOK, TimerIds
\* What the cases below have in common: a clock with no timer, and with one.
<1>2. ASSUME Rest, after' = FALSE, stopped' = TRUE, hosted' = {}, current' \in TimerIds \cup {0},
             onway' \subseteq [id: TimerIds, repeat: BOOLEAN], \A k, l \in onway' : k = l
      PROVE  TimerShape'
  <2>1. {visible', seen', stopped', ontime', after'} \subseteq BOOLEAN
    BY <1>2
  <2>2. TimersTypeOK'
    BY <1>2, <2>1 DEF TimersTypeOK
  <2> QED BY <1>2, <2>2 DEF TimerShape
<1>3. ASSUME Rest, after' = FALSE, stopped' = FALSE, NEW t \in HostTimers, hosted' = {t}, current' = t.id,
             onway' \subseteq [id: TimerIds, repeat: BOOLEAN], \A k, l \in onway' : k = l,
             \A k \in onway' : t.repeat = TRUE /\ k.repeat = TRUE /\ k.id = t.id
      PROVE  TimerShape'
  <2>1. {visible', seen', stopped', ontime', after'} \subseteq BOOLEAN
    BY <1>3
  <2>2. current' \in TimerIds
    BY <1>3 DEF HostTimers
  <2>3. TimersTypeOK'
    BY <1>3, <2>1, <2>2 DEF TimersTypeOK
  <2>4. ~stopped' /\ ~after'
    BY <1>3
  <2> QED BY <1>3, <2>3, <2>4 DEF TimerShape
<1>4. CASE TickArrives
  <2>1. Rest /\ after' = FALSE /\ onway' = {}
    <3>1. UNCHANGED clockVars /\ ontime' \in BOOLEAN /\ shownAt' \in {now, shownAt} /\ after' = FALSE /\ onway' = {}
      BY <1>4, TickShape
    <3> QED BY <1>1, <3>1 DEF clockVars
  <2>2. CASE stopped /\ UNCHANGED <<hosted, current, stopped, shownAt>>
    <3>1. stopped' = TRUE /\ hosted' = {} /\ current' \in TimerIds \cup {0}
      BY <1>1, <2>2 DEF TimerShape
    <3> QED BY <1>2, <2>1, <3>1
  <2>3. CASE hosted' = {} /\ stopped' = TRUE /\ current' \in TimerIds
    BY <1>2, <2>1, <2>3
  <2>4. CASE stopped' = FALSE /\ \E t \in HostTimers : hosted' = {t} /\ current' = t.id
    BY <1>3, <2>1, <2>4
  <2> QED BY <1>4, <2>2, <2>3, <2>4, TickShape
<1>5. CASE Cancel
  <2>1. Without(hosted, current) = {}
    BY DEF Without, TimerShape
  <2>2. Rest /\ after' = FALSE /\ stopped' = TRUE /\ hosted' = {} /\ current' = current /\ onway' = onway
    BY <1>1, <1>5, <2>1 DEF Cancel, clockVars
  <2> QED BY <1>1, <1>2, <2>2 DEF TimerShape
<1>6. CASE Visibility
  <2>1. Rest /\ after' = FALSE /\ onway' = onway /\ current' = current
    <3>1. /\ UNCHANGED <<unit, now, skew, region, onway, offsetAt, ontime, current>> /\ after' = FALSE
          /\ visible' \in BOOLEAN /\ seen' = (IF stopped THEN seen ELSE visible') /\ shownAt' \in {now, shownAt}
      BY <1>6, VisibilityShape
    <3> QED BY <1>1, <3>1
  <2>2. CASE UNCHANGED <<hosted, stopped>>
    <3>1. {visible', seen', stopped', ontime', after'} \subseteq BOOLEAN
      BY <1>1, <2>1, <2>2
    <3>2. TimersTypeOK'
      BY <1>1, <2>1, <2>2, <3>1 DEF TimersTypeOK
    <3> QED BY <2>1, <2>2, <3>2 DEF TimerShape
  <2>3. CASE hosted' = {} /\ stopped' = TRUE
    BY <1>1, <1>2, <2>1, <2>3 DEF TimerShape
  <2> QED BY <1>1, <1>6, <2>2, <2>3, VisibilityShape
<1>7. CASE NewRegion
  <2>1. UNCHANGED <<unit, now, skew, visible, seen, hosted, onway, current, stopped, shownAt, ontime, after>>
    BY <1>7, RegionShape
  <2>2. Rest
    <3>1. region'.offset \in Offsets /\ region'.change \in Int \cup {Never} /\ offsetAt' \in {now, offsetAt}
      BY <1>7, RegionShape
    <3> QED BY <1>1, <2>1, <3>1
  <2>3. {visible', seen', stopped', ontime', after'} \subseteq BOOLEAN
    BY <1>1, <2>1, <2>2
  <2>4. TimersTypeOK'
    BY <1>1, <2>1, <2>2, <2>3 DEF TimersTypeOK
  <2> QED BY <2>1, <2>4 DEF TimerShape
<1>8. CASE Pass
  <2>1. /\ UNCHANGED <<unit, region, visible, seen, current, stopped, shownAt, offsetAt, after>>
        /\ onway = {} /\ onway' = {}
    BY <1>8, PassShape
  <2>2. Rest
    <3>1. skew' \in {skew, skew + 1} /\ ontime' \in {ontime, FALSE} /\ now' \in now..now + 2
      <4>1. now + 1 \in now..now + 2
        BY <1>1
      <4> QED BY <1>8, <4>1, PassShape
    <3>2. now' \in Int /\ skew' \in Nat
      BY <1>1, <3>1
    <3>3. ontime' \in BOOLEAN
      BY <1>1, <3>1, Zenon
    <3> QED BY <1>1, <2>1, <3>2, <3>3
  <2>3. CASE hosted = {} /\ hosted' = {}
    <3>1. stopped' = TRUE
      BY <1>1, <2>1, <2>3 DEF TimerShape
    <3> QED BY <1>1, <1>2, <2>1, <2>2, <2>3, <3>1
  <2>4. CASE \E t, s \in HostTimers : hosted = {t} /\ hosted' = {s} /\ s.id = t.id
    <3>1. PICK t, s \in HostTimers : hosted = {t} /\ hosted' = {s} /\ s.id = t.id
      BY <2>4
    <3>2. stopped' = FALSE /\ current' = s.id /\ after' = FALSE
      BY <1>1, <2>1, <3>1 DEF TimerShape
    <3> QED BY <1>3, <2>1, <2>2, <3>1, <3>2
  <2> QED BY <1>8, <2>3, <2>4, PassShape
<1>9. CASE \E timer \in hosted : Due(timer)
  <2>1. PICK t \in hosted : Due(t)
    BY <1>9
  <2>2. /\ t \in HostTimers /\ hosted = {t}
        /\ UNCHANGED <<clockVars, current, stopped, shownAt, ontime, after>>
        /\ onway' = onway \/ onway' = {[id |-> t.id, repeat |-> t.repeat]}
        /\ \/ hosted' = {} /\ t.repeat = FALSE /\ onway' = {[id |-> t.id, repeat |-> t.repeat]}
           \/ t.repeat = TRUE /\ hosted' = {[t EXCEPT !.left = t.left + unit.period]}
    BY <2>1, DueShape
  <2>3. Rest /\ after' = FALSE /\ stopped' = FALSE /\ current' = t.id
    BY <1>1, <2>2 DEF clockVars, TimerShape
  <2>4. t.id \in TimerIds /\ t.left \in Int /\ t.repeat \in BOOLEAN
    BY <2>2 DEF HostTimers
  <2>5. CASE hosted' = {} /\ t.repeat = FALSE /\ onway' = {[id |-> t.id, repeat |-> t.repeat]}
    <3>1. {visible', seen', stopped', ontime', after'} \subseteq BOOLEAN
      BY <2>3
    <3>2. PICK k \in [id: TimerIds, repeat: BOOLEAN] : k = [id |-> t.id, repeat |-> FALSE]
      BY <2>4
    <3>3. onway' = {k} /\ k.repeat = FALSE
      BY <2>5, <3>2
    <3>4. TimersTypeOK'
      BY <1>1, <2>3, <2>4, <2>5, <3>1, <3>2, <3>3 DEF TimersTypeOK
    <3> QED BY <2>3, <2>5, <3>3, <3>4 DEF TimerShape
  <2>6. CASE t.repeat = TRUE /\ hosted' = {[t EXCEPT !.left = t.left + unit.period]}
    <3>1. PICK s \in HostTimers : s = [t EXCEPT !.left = t.left + unit.period]
      <4>1. t.left + unit.period \in Int
        BY <1>1, <2>4
      <4> QED BY <2>2, <4>1 DEF HostTimers
    <3>2. s.id = t.id /\ s.repeat = TRUE /\ hosted' = {s}
      BY <2>2, <2>6, <3>1 DEF HostTimers
    <3>3. /\ onway' \subseteq [id: TimerIds, repeat: BOOLEAN] /\ \A k, l \in onway' : k = l
          /\ \A k \in onway' : k.repeat = TRUE /\ k.id = s.id
      <4>1. CASE onway' = onway
        BY <1>1, <2>2, <2>6, <3>2, <4>1 DEF TimerShape
      <4>2. CASE onway' = {[id |-> t.id, repeat |-> t.repeat]}
        BY <2>4, <2>6, <3>2, <4>2
      <4> QED BY <2>2, <4>1, <4>2
    <3> QED BY <1>3, <2>3, <3>2, <3>3
  <2> QED BY <2>2, <2>5, <2>6
<1>10. CASE UNCHANGED timersVars
  BY <1>10 DEF timersVars, TimerShape, TimersTypeOK
<1> QED BY <1>4, <1>5, <1>6, <1>7, <1>8, <1>9, <1>10 DEF TimersNext

\* A clock of the shape holds one timer at most.
LEMMA ShapeOneTimer == TimerShape => OneTimer
<1> SUFFICES ASSUME TimerShape PROVE OneTimer
  OBVIOUS
<1>1. Cardinality(hosted) <= 1
  <2>1. CASE hosted = {}
    BY <2>1, FS_EmptySet
  <2>2. CASE hosted # {}
    <3>1. PICK t \in hosted : hosted = {t}
      BY <2>2 DEF TimerShape
    <3>2. Cardinality({t}) = 1
      BY FS_Singleton
    <3> QED BY <3>1, <3>2
  <2> QED BY <2>1, <2>2
<1> QED BY <1>1 DEF TimerShape, OneTimer

\* Of timers.ts: every variable of the clock keeps its type.
THEOREM TimersTypeCorrect == TimersSpec => []TimersTypeOK
<1>1. TimersInit => TimerShape
  BY StartShape
<1>2. TimerShape /\ [TimersNext]_timersVars => TimerShape'
  BY StepShape
<1>3. TimerShape => TimersTypeOK
  BY DEF TimerShape
<1> QED BY <1>1, <1>2, <1>3, PTL DEF TimersSpec

\* However ticks, drifts, hiding and cancelling fall, a clock holds one host
\* timer at most, none once cancelled, and does not go on without one; and its
\* callback does not run once cancelled: for every unit, delay, drift and size
\* of the clocks' errors.
THEOREM TimersHoldOne == TimersSpec => []OneTimer
<1>1. TimersInit => TimerShape
  BY StartShape
<1>2. TimerShape /\ [TimersNext]_timersVars => TimerShape'
  BY StepShape
<1>3. TimerShape => OneTimer
  BY ShapeOneTimer
<1> QED BY <1>1, <1>2, <1>3, PTL DEF TimersSpec

-----------------------------------------------------------------------------
(* Keeping time, where a change of the offset is announced.                *)

\* A boundary of the local time, in the time of the clock.
IsBoundary(x) == (x + region.offset) % unit.period = 0

\* All that the clock has not shown of the boundaries, of the last change of
\* the offset and of the announced one is at `e` or after it.
OwedFrom(e) ==
    /\ \A x \in Int : IsBoundary(x) /\ x >= offsetAt /\ x > shownAt => x >= e
    /\ offsetAt > shownAt => offsetAt >= e
    /\ region.change # Never => region.change >= e

\* A one-shot comes within the minimum of the first thing owed, and what the
\* clocks lost; or it waits hidden, or the clock was shown again just now.
OneShotInTime(t) ==
    \E e \in Int :
        /\ OwedFrom(e)
        /\ \/ now + t.left <= e + Minimum - 1 + skew
           \/ t.left <= -MaxLate /\ (~visible \/ shownAt = now)

\* A repeating timer comes within the minimum past a boundary `y`, and a clock
\* that is shown has shown the boundary before it, and no offset between.
RepeatInTime(t) ==
    \E y \in Int :
        /\ y % unit.period = 0
        /\ y <= now + t.left /\ now + t.left <= y + Minimum - 1
        /\ visible => /\ y - unit.period <= shownAt
                      /\ offsetAt <= shownAt \/ offsetAt >= y

TimeFacts ==
    /\ offsetAt <= now /\ shownAt <= now /\ skew <= MaxSkew
    /\ ~stopped => seen = visible
    /\ onway # {} => ~ChangeDue
    /\ region.change # Never /\ shownAt >= region.change => shownAt = now
    /\ unit.steady => /\ region.offset % unit.period = 0
                      /\ region.change # Never => region.change % unit.period = 0
    /\ \A t \in hosted : t.left >= -MaxLate /\ (t.repeat => unit.steady /\ t.left <= unit.period)

InTime ==
    \A t \in hosted : IF t.repeat THEN ontime => RepeatInTime(t) ELSE OneShotInTime(t)

TimeInv ==
    /\ TimerShape /\ TimeFacts
    /\ onway = {} => InTime
    /\ onway # {} => KeepsTime

\* Of two multiples, one past the period before the other is not before it.
LEMMA MultipleAbove ==
    ASSUME NEW x \in Int, NEW y \in Int, NEW p \in Nat \ {0}, x % p = 0, y % p = 0, y - p < x
    PROVE  y <= x
<1>1. PICK a \in Int : a = y - p
  OBVIOUS
<1>2. a + p = y
  BY <1>1
<1>3. p % p = 0
  BY LastMultiple
<1>4. (a + p) % p = a % p
  <2>1. p \in Int
    OBVIOUS
  <2> QED BY <1>3, <2>1, ModPlus, Zenon
<1>5. a % p = 0
  BY <1>2, <1>4
<1>6. a + p - (a % p) <= x
  BY <1>1, NextMultiple
<1> QED BY <1>2, <1>5, <1>6

LEMMA TimeTypes ==
    ASSUME TimerShape
    PROVE  /\ unit \in Units /\ unit.period \in Nat \ {0} /\ Minimum < unit.period /\ Minimum \in Nat \ {0}
           /\ unit.steady \in BOOLEAN /\ MaxLate \in Nat /\ MaxSkew \in Nat
           /\ region.offset \in Int /\ region.change \in Int \cup {Never} /\ Never \notin Int
           /\ now \in Int /\ shownAt \in Int /\ offsetAt \in Int /\ skew \in Nat
           /\ visible \in BOOLEAN /\ seen \in BOOLEAN /\ stopped \in BOOLEAN /\ ontime \in BOOLEAN
           /\ hosted \subseteq HostTimers
BY TimersAssumption DEF TimerShape, TimersTypeOK

\* What is due to be shown after now is not before the delay that `arm` takes.
LEMMA DelayOwed ==
    ASSUME TimerShape, ~ChangeDue, NEW d, d = DelayToNext(unit, now, region)
    PROVE  /\ d \in Int /\ d >= 1
           /\ \A x \in Int : IsBoundary(x) /\ x > now => x >= now + d
           /\ region.change # Never => region.change >= now + d
<1>1. PICK p \in Nat \ {0} : p = unit.period
  BY TimeTypes
<1>2. PICK o \in Int : o = region.offset
  BY TimeTypes
<1>3. PICK a \in Int : a = now + o
  BY TimeTypes
<1>4. PICK r \in Int : r = a % p
  BY <1>3
<1>5. r \in 0..p - 1
  BY <1>3, <1>4, ModParts, Zenon
<1>6. now \in Int /\ region.change \in Int \cup {Never} /\ Never \notin Int
  BY TimeTypes
<1>7. region.change # Never => region.change > now
  BY <1>6 DEF ChangeDue
<1>8. /\ region.change # Never => d = Shorter(p - r, region.change - now)
      /\ region.change = Never => d = p - r
  BY <1>1, <1>2, <1>3, <1>4, <1>7 DEF DelayToNext
<1>9. d \in Int /\ d >= 1 /\ d <= p - r /\ (region.change # Never => region.change >= now + d)
  <2>1. CASE region.change = Never
    BY <1>5, <1>8, <2>1
  <2>2. CASE region.change # Never
    <3>1. PICK c \in Int : c = region.change /\ c > now
      BY <1>6, <1>7, <2>2
    <3> QED BY <1>5, <1>6, <1>8, <2>2, <3>1 DEF Shorter
  <2> QED BY <2>1, <2>2
<1>10. ASSUME NEW x \in Int, IsBoundary(x), x > now
       PROVE  x >= now + d
  <2>1. PICK z \in Int : z = x + o
    OBVIOUS
  <2>2. z % p = 0
    BY <1>1, <1>2, <1>10, <2>1 DEF IsBoundary
  <2>3. a < z
    BY <1>3, <1>6, <1>10, <2>1
  <2>4. a + p - (a % p) <= z
    BY <1>3, <2>1, <2>2, <2>3, NextMultiple
  <2>5. a + p - r <= z
    BY <1>4, <2>4
  <2> QED BY <1>3, <1>5, <1>6, <1>9, <2>1, <2>5
<1> QED BY <1>9, <1>10

\* The last boundary of the local time is one, and has come.
LEMMA LastBoundaryIs ==
    ASSUME TimerShape
    PROVE  LastBoundary \in Int /\ LastBoundary <= now /\ IsBoundary(LastBoundary)
<1>1. PICK p \in Nat \ {0} : p = unit.period
  BY TimeTypes
<1>2. PICK o \in Int : o = region.offset
  BY TimeTypes
<1>3. PICK a \in Int : a = now + o
  BY TimeTypes
<1>4. PICK r \in Int : r = a % p
  BY <1>3
<1>5. r \in 0..p - 1
  BY <1>3, <1>4, ModParts, Zenon
<1>6. now \in Int
  BY TimeTypes
<1>7. LastBoundary = now - r
  BY <1>1, <1>2, <1>3, <1>4 DEF LastBoundary
<1>8. (a - r) % p = 0
  BY <1>3, <1>4, LastMultiple
<1>9. LastBoundary + o = a - r
  BY <1>3, <1>5, <1>6, <1>7
<1>10. IsBoundary(LastBoundary)
  BY <1>1, <1>2, <1>8, <1>9 DEF IsBoundary
<1> QED BY <1>5, <1>6, <1>7, <1>10

\* For a steady unit the boundaries are the multiples of its period.
LEMMA SteadyBoundary ==
    ASSUME TimerShape, region.offset % unit.period = 0, NEW x \in Int
    PROVE  IsBoundary(x) <=> x % unit.period = 0
<1>1. PICK p \in Nat \ {0} : p = unit.period
  BY TimeTypes
<1>2. PICK o \in Int : o = region.offset
  BY TimeTypes
<1>3. o % p = 0
  BY <1>1, <1>2
<1>4. (x + o) % p = x % p
  BY <1>3, ModPlus
<1> QED BY <1>1, <1>2, <1>4 DEF IsBoundary

\* For a steady unit `late` is the time since the last boundary: no announced
\* change falls within a period.
LEMMA LateIsSince ==
    ASSUME TimerShape, TimeFacts, ~ChangeDue, unit.steady
    PROVE  Late \in 0..unit.period - 1 /\ (now - Late) % unit.period = 0
<1>1. PICK p \in Nat \ {0} : p = unit.period
  BY TimeTypes
<1>2. PICK o \in Int : o = region.offset
  BY TimeTypes
<1>3. now \in Int /\ region.change \in Int \cup {Never} /\ Never \notin Int
  BY TimeTypes
<1>4. o % p = 0 /\ (region.change # Never => region.change % p = 0)
  BY <1>1, <1>2 DEF TimeFacts
<1>5. PICK r \in Int : r = now % p
  BY <1>3
<1>6. r \in 0..p - 1
  BY <1>3, <1>5, ModParts, Zenon
<1>7. (now + o) % p = r
  <2>1. (now + o) % p = now % p
    BY <1>3, <1>4, ModPlus
  <2> QED BY <1>5, <2>1
<1>8. DelayToNext(unit, now, region) = p - r
  <2>1. CASE region.change = Never
    BY <1>1, <1>2, <1>7, <2>1 DEF DelayToNext
  <2>2. CASE region.change # Never
    <3>1. PICK c \in Int : c = region.change /\ c > now
      BY <1>3, <2>2 DEF ChangeDue
    <3>2. c % p = 0
      BY <1>4, <2>2, <3>1
    <3>3. now + p - (now % p) <= c
      BY <1>3, <3>1, <3>2, NextMultiple
    <3>4. now + p - r <= c
      BY <1>5, <3>3
    <3>5. Shorter(p - r, c - now) = p - r
      BY <1>3, <1>6, <3>1, <3>4 DEF Shorter
    <3>6. DelayToNext(unit, now, region) = Shorter(p - ((now + o) % p), c - now)
      BY <1>1, <1>2, <2>2, <3>1 DEF DelayToNext
    <3> QED BY <1>7, <3>5, <3>6
  <2> QED BY <2>1, <2>2
<1>9. Late = r
  BY <1>1, <1>6, <1>8 DEF Late
<1>10. (now - r) % p = 0
  BY <1>3, <1>5, LastMultiple
<1> QED BY <1>1, <1>6, <1>9, <1>10

\* A clock whose timer is in time keeps time.
LEMMA InTimeKeeps ==
    ASSUME TimerShape, TimeFacts, onway = {}, InTime
    PROVE  KeepsTime
<1> SUFFICES ASSUME unit.steady => ontime, visible, ~stopped PROVE BoundaryShown /\ WakesAtOffset
  BY DEF KeepsTime, BoundaryShown, WakesAtOffset
<1>1. PICK t \in hosted : hosted = {t}
  BY DEF TimerShape
<1>2. t \in HostTimers /\ t.left \in Int /\ t.repeat \in BOOLEAN
  BY <1>1, TimeTypes DEF HostTimers
<1>3. PICK p \in Nat \ {0} : p = unit.period
  BY TimeTypes
<1>4. /\ Minimum \in Nat \ {0} /\ MaxLate \in Nat /\ MaxSkew \in Nat
      /\ now \in Int /\ shownAt \in Int /\ offsetAt \in Int /\ skew \in Nat
  BY TimeTypes
<1>5. skew <= MaxSkew /\ shownAt <= now /\ offsetAt <= now /\ t.left >= -MaxLate
  BY <1>1 DEF TimeFacts
<1>6. PICK b \in Int : b = LastBoundary /\ b <= now /\ IsBoundary(b)
  BY LastBoundaryIs
<1>7. Tolerance \in Int /\ Tolerance = Minimum + MaxLate + MaxSkew
  BY <1>4 DEF Tolerance
\* Nothing owed is older than the tolerance: of the boundary and of the offset.
<1>8. SUFFICES /\ b >= offsetAt /\ b > shownAt => now - b < Tolerance
               /\ offsetAt > shownAt => now - offsetAt < Tolerance
  BY <1>4, <1>6, <1>7 DEF BoundaryShown, WakesAtOffset
<1>9. CASE t.repeat = FALSE
  <2>1. PICK e \in Int :
          /\ OwedFrom(e)
          /\ \/ now + t.left <= e + Minimum - 1 + skew
             \/ t.left <= -MaxLate /\ (~visible \/ shownAt = now)
    <3>1. OneShotInTime(t)
      BY <1>1, <1>9 DEF InTime
    <3> QED BY <3>1 DEF OneShotInTime
  <2>2. CASE now + t.left <= e + Minimum - 1 + skew
    <3>1. now - e < Tolerance
      BY <1>2, <1>4, <1>5, <1>7, <2>2
    <3>2. b >= offsetAt /\ b > shownAt => b >= e
      BY <1>6, <2>1 DEF OwedFrom
    <3>3. offsetAt > shownAt => offsetAt >= e
      BY <2>1 DEF OwedFrom
    <3> QED BY <1>4, <1>7, <3>1, <3>2, <3>3
  <2>3. CASE shownAt = now
    BY <1>4, <1>5, <1>6, <2>3
  <2> QED BY <2>1, <2>2, <2>3
<1>10. CASE t.repeat = TRUE
  <2>1. unit.steady
    BY <1>1, <1>10 DEF TimeFacts
  <2>2. PICK y \in Int :
          /\ y % p = 0
          /\ y <= now + t.left /\ now + t.left <= y + Minimum - 1
          /\ y - p <= shownAt
          /\ offsetAt <= shownAt \/ offsetAt >= y
    <3>1. RepeatInTime(t)
      BY <1>1, <1>10, <2>1 DEF InTime
    <3> QED BY <1>3, <3>1 DEF RepeatInTime
  <2>3. now - y < Tolerance
    BY <1>2, <1>4, <1>5, <1>7, <2>2
  <2>4. b > shownAt => b >= y
    <3>1. b % p = 0
      BY <1>3, <1>6, <2>1, SteadyBoundary DEF TimeFacts
    <3>2. b > shownAt => y - p < b
      BY <1>4, <1>6, <2>2
    <3> QED BY <1>6, <2>2, <3>1, <3>2, MultipleAbove
  <2> QED BY <1>4, <1>6, <1>7, <2>2, <2>3, <2>4
<1> QED BY <1>2, <1>9, <1>10

\* The initial clock.
LEMMA StartTime == TimersInit => TimeInv
<1> SUFFICES ASSUME TimersInit PROVE TimeInv
  OBVIOUS
<1>1. TimerShape
  BY StartShape
<1>2. /\ now = 0 /\ shownAt = 0 /\ offsetAt = 0 /\ skew = 0 /\ onway = {} /\ stopped = FALSE /\ seen = visible
  BY DEF TimersInit
<1>3. PICK d : d = DelayToNext(unit, now, region)
  OBVIOUS
<1>4. PICK t : hosted = {t} /\ t.left = Longer(Minimum, d) /\ t.repeat = FALSE
  <2>1. PICK t : t = [id |-> 1, left |-> Longer(Minimum, d), repeat |-> FALSE]
    OBVIOUS
  <2>2. hosted = {t} /\ t.left = Longer(Minimum, d) /\ t.repeat = FALSE
    BY <1>3, <2>1 DEF TimersInit
  <2> QED BY <2>2
<1>5. region.offset \in OfUnit(unit, Offsets) /\ region.change \in OfUnit(unit, Changes) \cup {Never}
  BY DEF TimersInit
<1>6. Minimum \in Nat \ {0} /\ MaxSkew \in Nat /\ MaxLate \in Nat /\ Never \notin Int
  BY TimersAssumption
<1>7. region.change # Never => region.change > 0
  <2>1. Changes \subseteq Nat \ {0} /\ OfUnit(unit, Changes) \subseteq Changes
    BY TimersAssumption DEF OfUnit
  <2>2. region.change # Never => region.change \in Nat \ {0}
    BY <1>5, <2>1
  <2> QED BY <2>2
<1>8. ~ChangeDue
  BY <1>1, <1>2, <1>7, TimeTypes DEF ChangeDue
<1>9. /\ d \in Int /\ d >= 1
      /\ \A x \in Int : IsBoundary(x) /\ x > now => x >= now + d
      /\ region.change # Never => region.change >= now + d
  BY <1>1, <1>3, <1>8, DelayOwed
<1>10. t.left \in Int /\ t.left <= d + Minimum - 1 /\ t.left >= -MaxLate
  BY <1>4, <1>6, <1>9 DEF Longer
<1>11. TimeFacts
  <2>1. region.change # Never => ~(shownAt >= region.change)
    BY <1>1, <1>2, <1>7, TimeTypes
  <2>2. unit.steady => /\ region.offset % unit.period = 0
                       /\ region.change # Never => region.change % unit.period = 0
    BY <1>5 DEF OfUnit
  <2>3. 0 <= MaxSkew
    BY <1>6
  <2> QED BY <1>2, <1>4, <1>10, <2>1, <2>2, <2>3 DEF TimeFacts
<1>12. OneShotInTime(t)
  <2>1. OwedFrom(d)
    BY <1>2, <1>9 DEF OwedFrom
  <2>2. now + t.left <= d + Minimum - 1 + skew
    BY <1>2, <1>6, <1>9, <1>10
  <2> QED BY <1>9, <2>1, <2>2 DEF OneShotInTime
<1>13. InTime
  BY <1>4, <1>12 DEF InTime
<1> QED BY <1>1, <1>2, <1>11, <1>13 DEF TimeInv

\* What is kept of a clock that moves no time, shows now or not, and holds the
\* timer it held.
LEMMA TimeStays ==
    ASSUME TimeInv, UNCHANGED <<unit, now, skew, region, offsetAt, ontime, onway>>, shownAt' \in {now, shownAt},
           \/ UNCHANGED <<hosted, stopped>> /\ (~stopped => seen' = visible')
           \/ hosted' = {} /\ stopped' = TRUE
    PROVE  TimeFacts'
<1>1. /\ now \in Int /\ shownAt \in Int /\ region.change \in Int \cup {Never}
      /\ stopped \in BOOLEAN
  BY TimeTypes DEF TimeInv
<1>2. onway' # {} => ~ChangeDue'
  BY DEF TimeInv, TimeFacts, ChangeDue
<1>3. shownAt' <= now' /\ offsetAt' <= now' /\ skew' <= MaxSkew
  BY <1>1 DEF TimeInv, TimeFacts
<1>4. region'.change # Never /\ shownAt' >= region'.change => shownAt' = now'
  BY <1>1 DEF TimeInv, TimeFacts
<1>5. unit'.steady => /\ region'.offset % unit'.period = 0
                      /\ region'.change # Never => region'.change % unit'.period = 0
  BY DEF TimeInv, TimeFacts
<1>6. ~stopped' => seen' = visible'
  BY <1>1
<1>7. \A t \in hosted' : t.left >= -MaxLate /\ (t.repeat => unit'.steady /\ t.left <= unit'.period)
  BY DEF TimeInv, TimeFacts
<1> QED BY <1>2, <1>3, <1>4, <1>5, <1>6, <1>7 DEF TimeFacts

\* A clock that was cancelled keeps time, whatever it holds.
LEMMA StoppedKeeps == stopped = TRUE => KeepsTime
BY DEF KeepsTime, BoundaryShown, WakesAtOffset

\* cancel().
LEMMA CancelTime ==
    ASSUME TimeInv, TimerShape', Cancel
    PROVE  TimeInv'
<1>1. /\ UNCHANGED <<clockVars, onway, current, shownAt, ontime, after>>
      /\ stopped' = TRUE /\ hosted' = {}
  <2>1. Without(hosted, current) = {}
    BY DEF Without, TimeInv, TimerShape
  <2> QED BY <2>1 DEF Cancel
<1>2. TimeFacts'
  BY <1>1, TimeStays DEF clockVars
<1>3. InTime'
  BY <1>1 DEF InTime
<1>4. KeepsTime'
  BY <1>1 DEF KeepsTime, BoundaryShown, WakesAtOffset
<1> QED BY <1>2, <1>3, <1>4 DEF TimeInv

\* A message of the visibility.
LEMMA VisibilityTime ==
    ASSUME TimeInv, TimerShape', Visibility
    PROVE  TimeInv'
<1>1. TimerShape /\ TimeFacts /\ (onway = {} => InTime) /\ (onway # {} => KeepsTime)
  BY DEF TimeInv
<1>2. /\ UNCHANGED <<unit, now, skew, region, onway, offsetAt, ontime, current>>
      /\ visible' \in BOOLEAN /\ seen' = IF stopped THEN seen ELSE visible'
      /\ \/ UNCHANGED <<hosted, stopped, shownAt>> /\ ~(visible' /\ ~seen /\ ~stopped)
         \/ /\ visible' = TRUE /\ ~seen /\ ~stopped /\ shownAt' = now
            /\ \/ hosted' = hosted /\ stopped' = FALSE
               \/ hosted' = {} /\ stopped' = TRUE
  BY <1>1, VisibilityShape
<1>3. /\ now \in Int /\ shownAt \in Int /\ offsetAt \in Int /\ unit.period \in Int /\ MaxLate \in Nat
      /\ visible \in BOOLEAN /\ seen \in BOOLEAN /\ stopped \in BOOLEAN /\ skew \in Nat
      /\ Minimum \in Nat /\ hosted \subseteq HostTimers
  BY <1>1, TimeTypes
<1>4. TimeFacts'
  BY <1>2, <1>3, TimeStays
<1>5. shownAt <= now /\ offsetAt <= now /\ (~stopped => seen = visible)
  BY <1>1 DEF TimeFacts
<1>6. CASE stopped' = TRUE
  <2>1. hosted' = {}
    BY <1>6 DEF TimerShape
  <2>2. InTime' /\ KeepsTime'
    BY <1>6, <2>1 DEF InTime, KeepsTime, BoundaryShown, WakesAtOffset
  <2> QED BY <1>4, <2>2 DEF TimeInv
<1>7. CASE ~stopped' /\ UNCHANGED <<hosted, stopped, shownAt>> /\ (visible' => visible)
  <2>1. ASSUME onway' = {}, NEW t \in hosted'
        PROVE  IF t.repeat THEN ontime' => RepeatInTime(t)' ELSE OneShotInTime(t)'
    <3>1. IF t.repeat THEN ontime => RepeatInTime(t) ELSE OneShotInTime(t)
      BY <1>1, <1>2, <1>7, <2>1 DEF InTime
    <3>2. RepeatInTime(t) => RepeatInTime(t)'
      BY <1>2, <1>7 DEF RepeatInTime
    <3>3. OneShotInTime(t) => OneShotInTime(t)'
      <4>1. \A e \in Int : OwedFrom(e) => OwedFrom(e)'
        BY <1>2, <1>7 DEF OwedFrom, IsBoundary
      <4> QED BY <1>2, <1>7, <4>1 DEF OneShotInTime
    <3> QED BY <1>2, <3>1, <3>2, <3>3
  <2>2. onway' = {} => InTime'
    BY <2>1 DEF InTime
  <2>3. onway' # {} => KeepsTime'
    BY <1>1, <1>2, <1>7 DEF KeepsTime, BoundaryShown, WakesAtOffset, LastBoundary
  <2> QED BY <1>4, <2>2, <2>3 DEF TimeInv
\* Shown again, or hidden again by a message that repeats: it shows now.
<1>8. CASE ~stopped' /\ hosted' = hosted /\ shownAt' = now
  <2>1. ASSUME onway' = {}, NEW t \in hosted'
        PROVE  IF t.repeat THEN ontime' => RepeatInTime(t)' ELSE OneShotInTime(t)'
    <3>1. IF t.repeat THEN ontime => RepeatInTime(t) ELSE OneShotInTime(t)
      BY <1>1, <1>2, <1>8, <2>1 DEF InTime
    <3>2. t.left \in Int /\ (t.repeat => t.left <= unit.period)
      BY <1>1, <1>3, <1>8 DEF TimeFacts, HostTimers
    <3>3. ASSUME t.repeat, RepeatInTime(t) PROVE RepeatInTime(t)'
      <4>1. PICK y \in Int :
              /\ y % unit.period = 0
              /\ y <= now + t.left /\ now + t.left <= y + Minimum - 1
        BY <3>3 DEF RepeatInTime
      <4>2. y - unit.period <= shownAt' /\ offsetAt' <= shownAt'
        BY <1>2, <1>3, <1>5, <1>8, <3>2, <3>3, <4>1
      <4> QED BY <1>2, <4>1, <4>2 DEF RepeatInTime
    <3>4. ASSUME OneShotInTime(t) PROVE OneShotInTime(t)'
      <4>1. PICK e \in Int :
              /\ OwedFrom(e)
              /\ \/ now + t.left <= e + Minimum - 1 + skew
                 \/ t.left <= -MaxLate /\ (~visible \/ shownAt = now)
        BY <3>4 DEF OneShotInTime
      <4>2. OwedFrom(e)'
        <5>1. \A x \in Int : IsBoundary(x)' /\ x >= offsetAt' /\ x > shownAt' => x >= e
          BY <1>2, <1>3, <1>5, <1>8, <4>1 DEF OwedFrom, IsBoundary
        <5>2. ~(offsetAt' > shownAt')
          BY <1>2, <1>3, <1>5, <1>8
        <5> QED BY <1>2, <4>1, <5>1, <5>2 DEF OwedFrom
      <4> QED BY <1>2, <1>8, <4>1, <4>2 DEF OneShotInTime
    <3> QED BY <1>2, <3>1, <3>3, <3>4
  <2>2. onway' = {} => InTime'
    BY <2>1 DEF InTime
  <2>3. KeepsTime'
    <3>2. LastBoundary' = LastBoundary /\ LastBoundary \in Int /\ LastBoundary <= now
      BY <1>1, <1>2, LastBoundaryIs DEF LastBoundary
    <3>3. LastBoundary' <= shownAt' /\ offsetAt' <= shownAt'
      BY <1>2, <1>3, <1>5, <1>8, <3>2
    <3> QED BY <3>3 DEF KeepsTime, BoundaryShown, WakesAtOffset
  <2> QED BY <1>4, <2>2, <2>3 DEF TimeInv
<1>9. ~(~stopped' /\ UNCHANGED <<hosted, stopped, shownAt>> /\ ~(visible' /\ ~seen /\ ~stopped) /\ ~(visible' => visible))
  BY <1>5
<1> QED BY <1>2, <1>3, <1>6, <1>7, <1>8, <1>9

\* The region of an announced change: what was owed before it is owed since.
LEMMA RegionTime ==
    ASSUME TimeInv, TimerShape', NewRegion, ~Unannounced
    PROVE  TimeInv'
<1>1. TimerShape /\ TimeFacts /\ (onway = {} => InTime)
  BY DEF TimeInv
<1>2. /\ UNCHANGED <<unit, now, skew, visible, seen, hosted, onway, current, stopped, shownAt, ontime, after>>
      /\ region'.offset \in OfUnit(unit, Offsets) /\ region'.offset \in Int
      /\ region'.change # Never => region'.change \in OfUnit(unit, Changes)
      /\ region'.change \in Int \cup {Never} /\ (region'.change # Never => region'.change > now)
      /\ \/ region'.offset # region.offset /\ offsetAt' = now
         \/ region'.offset = region.offset /\ offsetAt' = offsetAt
      /\ ChangeDue
  BY <1>1, RegionShape
<1>3. /\ now \in Int /\ shownAt \in Int /\ offsetAt \in Int /\ unit.period \in Nat \ {0} /\ MaxLate \in Nat
      /\ Never \notin Int /\ hosted \subseteq HostTimers /\ unit.steady \in BOOLEAN
  BY <1>1, TimeTypes
<1>4. shownAt <= now /\ offsetAt <= now
  BY <1>1 DEF TimeFacts
<1>5. PICK c \in Int : c = region.change /\ c <= now /\ region.change # Never
  BY <1>1, <1>2, TimeTypes DEF ChangeDue
<1>6. onway = {} /\ onway' = {}
  BY <1>1, <1>2 DEF TimeFacts
<1>7. TimeFacts'
  <2>1. offsetAt' <= now' /\ shownAt' <= now' /\ skew' <= MaxSkew /\ (~stopped' => seen' = visible')
    BY <1>1, <1>2, <1>3, <1>4 DEF TimeFacts
  <2>2. region'.change # Never /\ shownAt' >= region'.change => shownAt' = now'
    <3>1. region'.change # Never => region'.change \in Int
      BY <1>2
    <3> QED BY <1>2, <1>3, <1>4, <3>1
  <2>3. unit'.steady => /\ region'.offset % unit'.period = 0
                        /\ region'.change # Never => region'.change % unit'.period = 0
    BY <1>2 DEF OfUnit
  <2>4. \A t \in hosted' : t.left >= -MaxLate /\ (t.repeat => unit'.steady /\ t.left <= unit'.period)
    BY <1>1, <1>2 DEF TimeFacts
  <2> QED BY <1>6, <2>1, <2>2, <2>3, <2>4 DEF TimeFacts
<1>8. ASSUME NEW t \in hosted'
      PROVE  IF t.repeat THEN ontime' => RepeatInTime(t)' ELSE OneShotInTime(t)'
  <2>1. IF t.repeat THEN ontime => RepeatInTime(t) ELSE OneShotInTime(t)
    BY <1>1, <1>2, <1>6, <1>8 DEF InTime
  <2>2. ASSUME t.repeat, RepeatInTime(t) PROVE RepeatInTime(t)'
    <3>1. PICK y \in Int :
            /\ y % unit.period = 0
            /\ y <= now + t.left /\ now + t.left <= y + Minimum - 1
            /\ visible => /\ y - unit.period <= shownAt
                          /\ offsetAt <= shownAt \/ offsetAt >= y
      BY <2>2 DEF RepeatInTime
    <3>2. c % unit.period = 0
      BY <1>1, <1>2, <1>5, <2>2 DEF TimeFacts
    <3>3. visible /\ shownAt < c => y <= c
      <4>1. visible /\ shownAt < c => y - unit.period < c
        BY <1>3, <1>5, <3>1
      <4> QED BY <1>3, <1>5, <3>1, <3>2, <4>1, MultipleAbove
    <3>4. ~(shownAt < c) => shownAt = now
      BY <1>1, <1>3, <1>5 DEF TimeFacts
    <3>5. visible' => offsetAt' <= shownAt' \/ offsetAt' >= y
      BY <1>2, <1>3, <1>5, <3>1, <3>3, <3>4
    <3> QED BY <1>2, <3>1, <3>5 DEF RepeatInTime
  <2>3. ASSUME OneShotInTime(t) PROVE OneShotInTime(t)'
    <3>1. PICK e \in Int :
            /\ OwedFrom(e)
            /\ \/ now + t.left <= e + Minimum - 1 + skew
               \/ t.left <= -MaxLate /\ (~visible \/ shownAt = now)
      BY <2>3 DEF OneShotInTime
    <3>2. e <= c /\ e <= now
      BY <1>3, <1>5, <3>1 DEF OwedFrom
    <3>3. OwedFrom(e)'
      <4>1. \A x \in Int : IsBoundary(x)' /\ x >= offsetAt' /\ x > shownAt' => x >= e
        <5>1. CASE region'.offset # region.offset /\ offsetAt' = now
          BY <1>3, <3>2, <5>1
        <5>2. CASE region'.offset = region.offset /\ offsetAt' = offsetAt
          BY <1>2, <3>1, <5>2 DEF OwedFrom, IsBoundary
        <5> QED BY <1>2, <5>1, <5>2
      <4>2. offsetAt' > shownAt' => offsetAt' >= e
        BY <1>2, <3>1, <3>2 DEF OwedFrom
      <4>3. region'.change # Never => region'.change >= e
        <5>1. region'.change # Never => region'.change \in Int
          BY <1>2
        <5> QED BY <1>2, <1>3, <3>2, <5>1
      <4> QED BY <3>1, <4>1, <4>2, <4>3 DEF OwedFrom
    <3> QED BY <1>2, <3>1, <3>3 DEF OneShotInTime
  <2> QED BY <1>2, <2>1, <2>2, <2>3
<1>9. InTime'
  BY <1>8 DEF InTime
<1> QED BY <1>6, <1>7, <1>9 DEF TimeInv

\* Time passes: the timer comes nearer by as much, but for a clock that loses
\* or gains.
LEMMA PassTime ==
    ASSUME TimeInv, TimerShape', Pass
    PROVE  TimeInv'
<1>1. TimerShape /\ TimeFacts
  BY DEF TimeInv
<1>2. /\ onway = {} /\ onway' = {} /\ ~ChangeDue
      /\ UNCHANGED <<unit, region, visible, seen, current, stopped, shownAt, offsetAt, after>>
      /\ \/ now' = now + 1 /\ skew' = skew /\ ontime' = ontime
         \/ skew' = skew + 1 /\ skew' <= MaxSkew /\ ontime' = FALSE /\ now' \in now..now + 2
      /\ \/ hosted = {} /\ hosted' = {}
         \/ \E t, s \in HostTimers :
              /\ hosted = {t} /\ hosted' = {s} /\ s.id = t.id /\ s.repeat = t.repeat
              /\ \/ t.left > -MaxLate /\ s.left = t.left - 1
                 \/ t.left <= -MaxLate /\ s.left = t.left /\ ~visible /\ ~t.repeat
  BY <1>1, PassShape
<1>3. InTime
  BY <1>2 DEF TimeInv
<1>4. /\ now \in Int /\ shownAt \in Int /\ offsetAt \in Int /\ unit.period \in Int /\ MaxLate \in Nat
      /\ skew \in Nat /\ MaxSkew \in Nat /\ Minimum \in Nat /\ region.change \in Int \cup {Never} /\ Never \notin Int
      /\ ontime \in BOOLEAN
  BY <1>1, TimeTypes
<1>5. now' \in Int /\ now' >= now /\ now' <= now + 2 /\ skew' \in Nat /\ skew' <= MaxSkew
  BY <1>1, <1>2, <1>4 DEF TimeFacts
<1>6. offsetAt' <= now' /\ shownAt' <= now' /\ ~(region'.change # Never /\ shownAt' >= region'.change)
  <2>1. region.change # Never => region.change > now
    BY <1>2, <1>4 DEF ChangeDue
  <2>2. offsetAt <= now /\ shownAt <= now
    BY <1>1 DEF TimeFacts
  <2>3. region.change # Never => region.change \in Int
    BY <1>4
  <2> QED BY <1>2, <1>4, <1>5, <2>1, <2>2, <2>3
<1>7. ASSUME \A t \in hosted' : t.left >= -MaxLate /\ (t.repeat => unit.steady /\ t.left <= unit.period), InTime'
      PROVE  TimeInv'
  <2>1. unit'.steady => /\ region'.offset % unit'.period = 0
                        /\ region'.change # Never => region'.change % unit'.period = 0
    BY <1>1, <1>2 DEF TimeFacts
  <2>2. ~stopped' => seen' = visible'
    BY <1>1, <1>2 DEF TimeFacts
  <2>3. TimeFacts'
    BY <1>2, <1>5, <1>6, <1>7, <2>1, <2>2 DEF TimeFacts
  <2> QED BY <1>2, <1>7, <2>3 DEF TimeInv
<1>8. CASE hosted' = {}
  <2>1. InTime'
    BY <1>8 DEF InTime
  <2> QED BY <1>7, <1>8, <2>1
<1>9. CASE hosted' # {}
  <2>1. PICK t, s \in HostTimers :
          /\ hosted = {t} /\ hosted' = {s} /\ s.id = t.id /\ s.repeat = t.repeat
          /\ \/ t.left > -MaxLate /\ s.left = t.left - 1
             \/ t.left <= -MaxLate /\ s.left = t.left /\ ~visible /\ ~t.repeat
    BY <1>2, <1>9
  <2>2. t.left \in Int /\ s.left \in Int /\ t.repeat \in BOOLEAN
    BY DEF HostTimers
  <2>3. t.left >= -MaxLate /\ (t.repeat => unit.steady /\ t.left <= unit.period)
    BY <1>1, <2>1 DEF TimeFacts
  <2>4. \A u \in hosted' : u.left >= -MaxLate /\ (u.repeat => unit.steady /\ u.left <= unit.period)
    BY <1>4, <2>1, <2>2, <2>3
  <2>5. CASE t.repeat = TRUE
    <3>1. s.left = t.left - 1
      BY <2>1, <2>5
    <3>2. ASSUME ontime' PROVE RepeatInTime(s)'
      <4>1. now' = now + 1 /\ ontime
        BY <1>2, <3>2
      <4>2. RepeatInTime(t)
        BY <1>3, <2>1, <2>5, <4>1 DEF InTime
      <4>3. now' + s.left = now + t.left
        BY <1>4, <2>2, <3>1, <4>1
      <4> QED BY <1>2, <4>2, <4>3 DEF RepeatInTime
    <3>3. InTime'
      BY <2>1, <2>5, <3>2 DEF InTime
    <3> QED BY <1>7, <2>4, <3>3
  <2>6. CASE t.repeat = FALSE
    <3>1. OneShotInTime(t)
      BY <1>3, <2>1, <2>6 DEF InTime
    <3>2. PICK e \in Int :
            /\ OwedFrom(e)
            /\ \/ now + t.left <= e + Minimum - 1 + skew
               \/ t.left <= -MaxLate /\ (~visible \/ shownAt = now)
      BY <3>1 DEF OneShotInTime
    <3>3. OwedFrom(e)'
      BY <1>2, <3>2 DEF OwedFrom, IsBoundary
    <3>4. ASSUME t.left > -MaxLate, s.left = t.left - 1 PROVE OneShotInTime(s)'
      <4>1. now' + s.left <= e + Minimum - 1 + skew'
        <5>1. now + t.left <= e + Minimum - 1 + skew
          BY <1>4, <2>2, <3>2, <3>4
        <5>2. CASE now' = now + 1 /\ skew' = skew
          BY <1>4, <2>2, <3>4, <5>1, <5>2
        <5>3. CASE skew' = skew + 1
          BY <1>4, <1>5, <2>2, <3>4, <5>1, <5>3
        <5> QED BY <1>2, <5>2, <5>3
      <4> QED BY <3>3, <4>1 DEF OneShotInTime
    <3>5. ASSUME t.left <= -MaxLate, s.left = t.left, ~visible PROVE OneShotInTime(s)'
      BY <1>2, <3>3, <3>5 DEF OneShotInTime
    <3>6. OneShotInTime(s)'
      BY <2>1, <3>4, <3>5
    <3>7. InTime'
      BY <2>1, <2>6, <3>6 DEF InTime
    <3> QED BY <1>7, <2>4, <3>7
  <2> QED BY <2>2, <2>5, <2>6
<1> QED BY <1>8, <1>9

\* A timer is due: its tick, on its way, finds the clock in time; one that is
\* skipped hidden is a whole period nearer the next.
LEMMA DueTime ==
    ASSUME TimeInv, TimerShape', ~ChangeDue, NEW t \in hosted, Due(t)
    PROVE  TimeInv'
<1>1. TimerShape /\ TimeFacts /\ (onway = {} => InTime)
  BY DEF TimeInv
<1>2. /\ t \in HostTimers /\ hosted = {t} /\ t.left <= 0
      /\ UNCHANGED <<clockVars, current, stopped, shownAt, ontime, after>>
      /\ \/ onway' = onway /\ visible = FALSE /\ t.repeat = TRUE
         \/ visible = TRUE /\ onway' = {[id |-> t.id, repeat |-> t.repeat]}
      /\ \/ hosted' = {} /\ t.repeat = FALSE
         \/ t.repeat = TRUE /\ hosted' = {[t EXCEPT !.left = t.left + unit.period]}
  BY <1>1, DueShape
<1>3. KeepsTime
  BY <1>1, InTimeKeeps DEF TimeInv
<1>4. KeepsTime'
  BY <1>2, <1>3 DEF KeepsTime, BoundaryShown, WakesAtOffset, LastBoundary, clockVars
<1>5. UNCHANGED <<unit, now, skew, region, visible, seen, offsetAt, stopped, shownAt, ontime>>
  BY <1>2 DEF clockVars
<1>6. ~ChangeDue'
  BY <1>5 DEF ChangeDue
<1>7. PICK p \in Nat \ {0} : p = unit.period
  BY <1>1, TimeTypes
<1>8. t.left \in Int /\ now \in Int /\ MaxLate \in Nat /\ t.left >= -MaxLate /\ t.repeat \in BOOLEAN /\ visible \in BOOLEAN
  BY <1>1, <1>2, TimeTypes DEF TimeFacts, HostTimers
<1>9. ASSUME \A s \in hosted' : s.left >= -MaxLate /\ (s.repeat => unit.steady /\ s.left <= unit.period)
      PROVE  TimeFacts'
  <2>1. offsetAt' <= now' /\ shownAt' <= now' /\ skew' <= MaxSkew /\ (~stopped' => seen' = visible')
    BY <1>1, <1>5 DEF TimeFacts
  <2>2. region'.change # Never /\ shownAt' >= region'.change => shownAt' = now'
    BY <1>1, <1>5 DEF TimeFacts
  <2>3. unit'.steady => /\ region'.offset % unit'.period = 0
                        /\ region'.change # Never => region'.change % unit'.period = 0
    BY <1>1, <1>5 DEF TimeFacts
  <2> QED BY <1>5, <1>6, <1>9, <2>1, <2>2, <2>3 DEF TimeFacts
<1>10. CASE t.repeat = FALSE
  <2>1. hosted' = {} /\ onway' # {}
    BY <1>2, <1>10
  <2>2. TimeFacts'
    BY <1>9, <2>1
  <2> QED BY <1>4, <2>1, <2>2 DEF TimeInv
<1>11. CASE t.repeat = TRUE
  <2>1. PICK s : s = [t EXCEPT !.left = t.left + p]
    OBVIOUS
  <2>2. hosted' = {s} /\ s.left = t.left + p /\ s.repeat = TRUE
    BY <1>2, <1>7, <1>11, <2>1 DEF HostTimers
  <2>3. unit.steady
    BY <1>1, <1>2, <1>11 DEF TimeFacts
  <2>4. s.left >= -MaxLate /\ s.left <= p
    BY <1>2, <1>8, <2>2
  <2>5. TimeFacts'
    BY <1>7, <1>9, <2>2, <2>3, <2>4
  <2>6. CASE onway' = {}
    <3>1. onway = {} /\ visible = FALSE
      BY <1>2, <2>6
    <3>2. ASSUME ontime PROVE RepeatInTime(s)'
      <4>1. RepeatInTime(t)
        BY <1>1, <1>2, <1>11, <3>1, <3>2 DEF InTime
      <4>2. PICK y \in Int : y % p = 0 /\ y <= now + t.left /\ now + t.left <= y + Minimum - 1
        BY <1>7, <4>1 DEF RepeatInTime
      <4>3. PICK z \in Int : z = y + p
        OBVIOUS
      <4>4. z % p = 0
        <5>1. p % p = 0 /\ p \in Int
          BY LastMultiple
        <5>2. (y + p) % p = y % p
          BY <5>1, ModPlus, Zenon
        <5> QED BY <4>2, <4>3, <5>2
      <4>5. z <= now' + s.left /\ now' + s.left <= z + Minimum - 1
        <5>1. Minimum \in Nat
          BY TimersAssumption
        <5> QED BY <1>5, <1>8, <2>2, <4>2, <4>3, <5>1
      <4>6. ~visible' /\ p = unit'.period
        BY <1>5, <1>7, <3>1
      <4> QED BY <4>4, <4>5, <4>6 DEF RepeatInTime
    <3>3. InTime'
      BY <1>5, <2>2, <3>2 DEF InTime
    <3> QED BY <2>5, <2>6, <3>3 DEF TimeInv
  <2>7. CASE onway' # {}
    BY <1>4, <2>5, <2>7 DEF TimeInv
  <2> QED BY <2>6, <2>7
<1> QED BY <1>8, <1>10, <1>11

\* A tick: what it armed comes at the next of what is owed, what it keeps was
\* not due before the boundary.
LEMMA TickTime ==
    ASSUME TimeInv, TimerShape', TickArrives
    PROVE  TimeInv'
<1>1. TimerShape /\ TimeFacts /\ onway # {}
  BY DEF TimeInv, TickArrives
<1>2. /\ onway' = {} /\ UNCHANGED clockVars /\ ontime' \in BOOLEAN
      /\ \/ stopped /\ UNCHANGED <<hosted, current, stopped, shownAt>>
         \/ /\ ~stopped /\ shownAt' = now
            /\ hosted' = {} /\ stopped' = TRUE
         \/ /\ ~stopped /\ shownAt' = now /\ stopped' = FALSE
            /\ \E t \in HostTimers :
                 /\ hosted' = {t}
                 /\ \/ /\ t.repeat = FALSE
                       /\ t.left = Longer(Minimum, DelayToNext(unit, now, region))
                    \/ /\ t.repeat = TRUE /\ unit.steady /\ t.left = Longer(Minimum, unit.period)
                       /\ ontime' = (Late < Minimum)
                    \/ /\ t \in hosted /\ Late < Minimum
                       /\ ontime' => t.left >= unit.period - Late
  BY <1>1, TickShape
<1>3. UNCHANGED <<unit, now, skew, region, visible, seen, offsetAt>>
  BY <1>2 DEF clockVars
<1>4. /\ now \in Int /\ shownAt \in Int /\ offsetAt \in Int /\ MaxLate \in Nat /\ skew \in Nat
      /\ Minimum \in Nat \ {0} /\ region.change \in Int \cup {Never} /\ Never \notin Int /\ stopped \in BOOLEAN
      /\ hosted \subseteq HostTimers
  BY <1>1, TimeTypes
<1>5. PICK p \in Nat \ {0} : p = unit.period /\ Minimum < p
  BY <1>1, TimeTypes
<1>6. ~ChangeDue /\ offsetAt <= now /\ shownAt <= now /\ shownAt' \in {now, shownAt}
  BY <1>1, <1>2 DEF TimeFacts
<1>7. ASSUME \A s \in hosted' : s.left >= -MaxLate /\ (s.repeat => unit.steady /\ s.left <= unit.period)
      PROVE  TimeFacts'
  <2>1. offsetAt' <= now' /\ shownAt' <= now' /\ skew' <= MaxSkew
    BY <1>1, <1>3, <1>4, <1>6 DEF TimeFacts
  <2>2. region'.change # Never /\ shownAt' >= region'.change => shownAt' = now'
    BY <1>1, <1>3, <1>6 DEF TimeFacts
  <2>3. unit'.steady => /\ region'.offset % unit'.period = 0
                        /\ region'.change # Never => region'.change % unit'.period = 0
    BY <1>1, <1>3 DEF TimeFacts
  <2>4. ~stopped' => seen' = visible'
    BY <1>1, <1>2, <1>3 DEF TimeFacts
  <2> QED BY <1>2, <1>3, <1>7, <2>1, <2>2, <2>3, <2>4 DEF TimeFacts
<1>8. CASE hosted' = {}
  <2>1. TimeFacts' /\ InTime'
    BY <1>7, <1>8 DEF InTime
  <2> QED BY <1>2, <2>1 DEF TimeInv
<1>9. CASE hosted' # {}
  <2>1. shownAt' = now /\ ~stopped
    BY <1>1, <1>2, <1>9 DEF TimerShape
  <2>2. PICK t \in HostTimers :
          /\ hosted' = {t}
          /\ \/ t.repeat = FALSE /\ t.left = Longer(Minimum, DelayToNext(unit, now, region))
             \/ /\ t.repeat = TRUE /\ unit.steady /\ t.left = Longer(Minimum, unit.period)
                /\ ontime' = (Late < Minimum)
             \/ /\ t \in hosted /\ Late < Minimum
                /\ ontime' => t.left >= unit.period - Late
    BY <1>1, <1>2, <1>9, <2>1
  <2>3. t.left \in Int /\ t.repeat \in BOOLEAN
    BY DEF HostTimers
  <2>4. CASE t.repeat = FALSE /\ t.left = Longer(Minimum, DelayToNext(unit, now, region))
    <3>1. PICK d : d = DelayToNext(unit, now, region)
      OBVIOUS
    <3>2. /\ d \in Int /\ d >= 1
          /\ \A x \in Int : IsBoundary(x) /\ x > now => x >= now + d
          /\ region.change # Never => region.change >= now + d
      BY <1>1, <1>6, <3>1, DelayOwed
    <3>3. t.left <= d + Minimum - 1 /\ t.left >= -MaxLate
      BY <1>4, <2>4, <3>1, <3>2 DEF Longer
    <3>4. TimeFacts'
      BY <1>7, <2>2, <2>4, <3>3
    <3>5. PICK e \in Int : e = now + d
      BY <1>4, <3>2
    <3>6. OwedFrom(e)'
      <4>1. \A x \in Int : IsBoundary(x)' /\ x >= offsetAt' /\ x > shownAt' => x >= e
        BY <1>3, <2>1, <3>2, <3>5 DEF IsBoundary
      <4>2. ~(offsetAt' > shownAt')
        BY <1>3, <1>4, <1>6, <2>1
      <4>3. region'.change # Never => region'.change >= e
        BY <1>3, <3>2, <3>5
      <4> QED BY <4>1, <4>2, <4>3 DEF OwedFrom
    <3>7. now' + t.left <= e + Minimum - 1 + skew'
      BY <1>3, <1>4, <2>3, <3>2, <3>3, <3>5
    <3>8. OneShotInTime(t)'
      BY <3>6, <3>7 DEF OneShotInTime
    <3>9. InTime'
      BY <2>2, <2>4, <3>8 DEF InTime
    <3> QED BY <1>2, <3>4, <3>9 DEF TimeInv
  <2>5. ASSUME t.repeat = TRUE, unit.steady, t.left <= p, t.left >= -MaxLate,
               ontime' => Late < Minimum /\ t.left >= p - Late
        PROVE  TimeInv'
    <3>1. TimeFacts'
      BY <1>5, <1>7, <2>2, <2>5
    <3>2. ASSUME ontime' PROVE RepeatInTime(t)'
      <4>1. PICK l \in Int : l = Late /\ l \in 0..p - 1 /\ (now - l) % p = 0
        BY <1>1, <1>5, <1>6, <2>5, LateIsSince
      <4>2. PICK a \in Int : a = now - l
        BY <1>4
      <4>3. PICK y \in Int : y = a + p
        BY <1>4
      <4>4. y % p = 0
        <5>1. p % p = 0 /\ p \in Int
          BY LastMultiple
        <5>2. (a + p) % p = a % p
          BY <5>1, ModPlus, Zenon
        <5> QED BY <4>1, <4>2, <4>3, <5>2
      <4>5. y <= now + t.left /\ now + t.left <= y + Minimum - 1
        BY <1>4, <2>3, <2>5, <3>2, <4>1, <4>2, <4>3
      <4>6. y - p <= now
        BY <1>4, <4>1, <4>2, <4>3
      <4> QED BY <1>3, <1>5, <1>6, <2>1, <4>4, <4>5, <4>6 DEF RepeatInTime
    <3>3. InTime'
      BY <2>2, <2>5, <3>2 DEF InTime
    <3> QED BY <1>2, <3>1, <3>3 DEF TimeInv
  <2>6. CASE t.repeat = TRUE /\ unit.steady /\ t.left = Longer(Minimum, unit.period) /\ ontime' = (Late < Minimum)
    <3>1. t.left = p
      BY <1>4, <1>5, <2>6 DEF Longer
    <3>2. Late \in 0..p - 1
      BY <1>1, <1>5, <1>6, <2>6, LateIsSince
    <3>3. ontime' => Late < Minimum
      BY <2>6
    <3>4. PICK l \in Int : l = Late /\ l \in 0..p - 1
      BY <3>2
    <3>5. t.left <= p /\ t.left >= -MaxLate /\ t.left >= p - l
      BY <1>4, <3>1, <3>4
    <3> QED BY <2>5, <2>6, <3>3, <3>4, <3>5
  <2>7. CASE t \in hosted /\ Late < Minimum /\ (ontime' => t.left >= unit.period - Late)
    <3>1. t.repeat = TRUE
      BY <1>1, <2>7 DEF TimerShape
    <3>2. unit.steady /\ t.left <= p /\ t.left >= -MaxLate
      BY <1>1, <1>5, <2>7, <3>1 DEF TimeFacts
    <3> QED BY <1>5, <2>5, <2>7, <3>1, <3>2
  <2> QED BY <2>2, <2>4, <2>6, <2>7
<1> QED BY <1>8, <1>9

\* timers.ts:47 "aligned on the boundaries": whatever is late, drifts or is
\* hidden, a clock that was on time shows its boundaries and the changes of
\* the offset within the tolerance, for every unit, minimum and delay of the
\* host, where the host announces the changes of the offset.
THEOREM TimersKeepTime ==
    ASSUME ~Unannounced
    PROVE  TimersSpec => []KeepsTime
<1>1. TimersInit => TimeInv
  BY StartTime
<1>2. TimeInv /\ [TimersNext]_timersVars => TimeInv'
  <2> SUFFICES ASSUME TimeInv, [TimersNext]_timersVars PROVE TimeInv'
    OBVIOUS
  <2>1. TimerShape'
    BY StepShape DEF TimeInv
  <2>2. CASE TickArrives
    BY <2>1, <2>2, TickTime
  <2>3. CASE Cancel
    BY <2>1, <2>3, CancelTime
  <2>4. CASE Visibility
    BY <2>1, <2>4, VisibilityTime
  <2>5. CASE NewRegion
    BY <2>1, <2>5, RegionTime
  <2>6. CASE Pass
    BY <2>1, <2>6, PassTime
  <2>7. CASE ~ChangeDue /\ \E timer \in hosted : Due(timer)
    BY <2>1, <2>7, DueTime
  <2>8. CASE UNCHANGED timersVars
    <3>1. TimeFacts'
      BY <2>8 DEF timersVars, TimeInv, TimeFacts, ChangeDue
    <3>2. onway' = {} => InTime'
      BY <2>8 DEF timersVars, TimeInv, InTime, RepeatInTime, OneShotInTime, OwedFrom, IsBoundary
    <3>3. onway' # {} => KeepsTime'
      BY <2>8 DEF timersVars, TimeInv, KeepsTime, BoundaryShown, WakesAtOffset, LastBoundary
    <3> QED BY <2>1, <3>1, <3>2, <3>3 DEF TimeInv
  <2> QED BY <2>2, <2>3, <2>4, <2>5, <2>6, <2>7, <2>8 DEF TimersNext
<1>3. TimeInv => KeepsTime
  BY InTimeKeeps DEF TimeInv
<1> QED BY <1>1, <1>2, <1>3, PTL DEF TimersSpec

-----------------------------------------------------------------------------
(* Steam Achievements (SteamAchievements).                                 *)

\* The reads that ask for a game, and those whose answer is a player's.
OfGame == {"local", "list", "early", "slices", "player", "again", "details"}
OfPlayer == {"early", "player", "again"}

\* What a state holds is the followed player's: what is kept, what is shown,
\* what is being built, and what the read in flight will bring.
Kept(s) ==
    /\ s.game # Nobody => s.unlocked \in {Nobody, <<s.followed, s.game>>}
    /\ s.shown # Nobody => s.shown.of \in {Nobody, <<s.followed, s.shown.game>>}
    /\ s.job # Nobody => s.job.of \in {Nobody, <<s.followed, s.job.game>>}
    /\ s.game # Nobody =>
         /\ s.read.at \in OfGame => s.read.game = s.game
         /\ s.read.at \in OfPlayer => s.read.player = s.followed

\* Another player is being stored: what is held is forgotten next. Or what was
\* restored met what is not its own.
Changing(s) ==
    \/ s.mixed = TRUE
    \/ \E k \in Checks : s.check[k].at = "storing" /\ s.check[k].changed = TRUE

\* A read, a check and a view are of somebody, and of something; so is what is
\* restored after the profile.
Asked(s) ==
    /\ s.read.at # "none" => s.followed # Nobody
    /\ s.restoring \in {"snapshot", "list", "hidden"} => s.followed # Nobody
    /\ s.followed = Nobody => s.game = Nobody /\ s.shown = Nobody /\ s.job = Nobody
    /\ s.read.at \in OfGame => s.read.game # Nobody
    /\ s.read.at \in OfPlayer => s.read.player # Nobody
    /\ \A k \in Checks : s.check[k].at # "none" => s.check[k].to # Nobody

Sound(s) == s \in SteamStates /\ Asked(s) /\ (Changing(s) \/ Kept(s))

\* What a view or a phase leaves as it is.
Frame(s, t) ==
    /\ t.followed = s.followed /\ t.game = s.game /\ t.unlocked = s.unlocked
    /\ t.read = s.read /\ t.check = s.check
    /\ t.restoring = s.restoring /\ t.mixed = s.mixed
Same(s, t) == Frame(s, t) /\ t.shown = s.shown /\ t.job = s.job

\* A view of what is held.
GoodView(s, view) ==
    view \in Views /\ s.followed # Nobody /\ (Changing(s) \/ view.of \in {Nobody, <<s.followed, view.game>>})

LEMMA SoundSame ==
    ASSUME NEW s, NEW t, Sound(s), t \in SteamStates, Same(s, t)
    PROVE  Sound(t)
BY DEF Sound, Same, Frame, Asked, Changing, Kept

-----------------------------------------------------------------------------
\* The view.

LEMMA SetPhaseSame ==
    ASSUME NEW s \in SteamStates, NEW phase \in Phases
    PROVE  SetPhase(s, phase) \in SteamStates /\ Same(s, SetPhase(s, phase))
<1>1. PICK a \in BOOLEAN : a = (s.canCancel /\ phase = "profile")
  OBVIOUS
<1>2. PICK b \in BOOLEAN : b = (s.checking /\ phase = "profile")
  OBVIOUS
<1>3. PICK c \in Phases : c = IF phase = "profile" THEN s.before ELSE "loading"
  BY DEF SteamStates, Phases
<1>4. SetPhase(s, phase)
        = [s EXCEPT !.phase = phase, !.enters = FALSE, !.before = c, !.canCancel = a, !.checking = b]
  BY <1>1, <1>2, <1>3 DEF SetPhase
<1>5. PICK t : t = SetPhase(s, phase)
  OBVIOUS
<1>6. t \in SteamStates
  BY <1>4, <1>5 DEF SteamStates
<1>7. /\ t.followed = s.followed /\ t.game = s.game /\ t.unlocked = s.unlocked
      /\ t.read = s.read /\ t.check = s.check /\ t.restoring = s.restoring
      /\ t.shown = s.shown /\ t.job = s.job
  BY <1>4, <1>5 DEF SteamStates
<1>8. t.mixed = s.mixed
  BY <1>4, <1>5 DEF SteamStates
<1> QED BY <1>5, <1>6, <1>7, <1>8 DEF Same, Frame

LEMMA SetPhaseSound ==
    ASSUME NEW s, Sound(s), NEW phase \in Phases
    PROVE  Sound(SetPhase(s, phase)) /\ Same(s, SetPhase(s, phase))
BY SetPhaseSame, SoundSame DEF Sound

LEMMA JobSound ==
    ASSUME NEW s, Sound(s), NEW view, view = Nobody \/ GoodView(s, view)
    PROVE  /\ Sound([s EXCEPT !.job = view])
           /\ Frame(s, [s EXCEPT !.job = view]) /\ [s EXCEPT !.job = view].shown = s.shown
<1> DEFINE t == [s EXCEPT !.job = view]
<1>1. /\ t \in SteamStates /\ Frame(s, t) /\ t.shown = s.shown /\ t.job = view
  BY DEF Sound, SteamStates, Frame, GoodView
<1> HIDE DEF t
<1>2. Sound(t)
  BY <1>1 DEF Sound, Frame, Asked, Changing, Kept, GoodView
<1> QED BY <1>1, <1>2 DEF t

LEMMA ShownSound ==
    ASSUME NEW s, Sound(s), NEW view, GoodView(s, view)
    PROVE  Sound([s EXCEPT !.shown = view]) /\ Frame(s, [s EXCEPT !.shown = view])
<1> DEFINE t == [s EXCEPT !.shown = view]
<1>1. /\ t \in SteamStates /\ Frame(s, t) /\ t.job = s.job /\ t.shown = view
  BY DEF Sound, SteamStates, Frame, GoodView
<1> HIDE DEF t
<1>2. Sound(t)
  BY <1>1 DEF Sound, Frame, Asked, Changing, Kept, GoodView
<1> QED BY <1>1, <1>2 DEF t

LEMMA PublishSound ==
    ASSUME NEW s, Sound(s), NEW view, GoodView(s, view)
    PROVE  Sound(Publish(s, view)) /\ Frame(s, Publish(s, view))
<1>1. PICK t : t = [s EXCEPT !.job = Nobody]
  OBVIOUS
<1>2. Sound(t) /\ Frame(s, t)
  BY <1>1, JobSound
<1>3. GoodView(t, view)
  BY <1>2 DEF GoodView, Frame, Changing
<1>4. PICK u : u = [t EXCEPT !.shown = view]
  OBVIOUS
<1>5. Sound(u) /\ Frame(s, u)
  BY <1>2, <1>3, <1>4, ShownSound DEF Frame
<1>6. Sound(SetPhase(u, "game")) /\ Frame(s, SetPhase(u, "game"))
  BY <1>5, SetPhaseSound DEF Phases, Same, Frame
<1>7. Publish(s, view) = t \/ Publish(s, view) = SetPhase(u, "game") \/ Publish(s, view) = u
  BY <1>1, <1>4 DEF Publish
<1> QED BY <1>2, <1>5, <1>6, <1>7

LEMMA RenderSound ==
    ASSUME NEW s, Sound(s), NEW t \in Render(s)
    PROVE  Sound(t) /\ Frame(s, t)
<1>1. CASE s.game = Nobody
  BY <1>1 DEF Render, Frame
<1>2. CASE s.game # Nobody
  <2>1. PICK view : view = [game |-> s.game, of |-> s.unlocked]
    OBVIOUS
  <2>2. GoodView(s, view)
    BY <1>2, <2>1 DEF GoodView, Sound, SteamStates, Views, Asked, Kept
  <2>3. t = Publish(s, view) \/ t = [s EXCEPT !.job = view]
    BY <1>2, <2>1 DEF Render
  <2> QED BY <2>2, <2>3, PublishSound, JobSound
<1> QED BY <1>1, <1>2

LEMMA EnterGameSound ==
    ASSUME NEW s, Sound(s), NEW t \in EnterGame(s)
    PROVE  Sound(t) /\ Frame(s, t)
<1>1. PICK u : /\ t \in Render(u)
               /\ u = SetPhase(s, "game") \/ u = [s EXCEPT !.enters = TRUE]
  BY DEF EnterGame
<1>2. Sound(SetPhase(s, "game")) /\ Same(s, SetPhase(s, "game"))
  BY SetPhaseSound DEF Phases
<1>3. [s EXCEPT !.enters = TRUE] \in SteamStates /\ Same(s, [s EXCEPT !.enters = TRUE])
  BY DEF Sound, SteamStates, Same, Frame
<1>4. Sound(u) /\ Same(s, u)
  BY <1>1, <1>2, <1>3, SoundSame
<1> QED BY <1>1, <1>4, RenderSound DEF Same, Frame

-----------------------------------------------------------------------------
\* The read.

\* A read may go on for the game shown, or for one when none is shown.
LEMMA AwaitSound ==
    ASSUME NEW s, Sound(s), s.followed # Nobody, NEW at \in Awaits,
           NEW g \in Games \cup {Nobody}, NEW p \in Players \cup {Nobody},
           at \in OfGame => /\ g # Nobody
                            /\ Changing(s) \/ s.game = Nobody \/ g = s.game,
           at \in OfPlayer => p = s.followed
    PROVE  Sound(Await(s, at, g, p))
<1>1. PICK r : r = [NoRead EXCEPT !.at = at, !.game = g, !.player = p]
  OBVIOUS
<1>2. r \in ReadStates /\ r.at = at /\ r.game = g /\ r.player = p
  BY <1>1 DEF NoRead, ReadStates
<1>3. PICK t : t = [s EXCEPT !.read = r]
  OBVIOUS
<1>4. /\ t \in SteamStates /\ t.followed = s.followed /\ t.game = s.game
      /\ t.unlocked = s.unlocked /\ t.shown = s.shown /\ t.job = s.job /\ t.check = s.check
      /\ t.read = r /\ t.restoring = s.restoring /\ t.mixed = s.mixed
  BY <1>2, <1>3 DEF Sound, SteamStates
<1>5. Sound(t)
  <2>1. Asked(t)
    BY <1>2, <1>4 DEF Sound, Asked
  <2>2. Changing(s) => Changing(t)
    BY <1>4 DEF Changing
  <2>3. ~Changing(s) => Kept(t)
    BY <1>2, <1>4 DEF Sound, Kept
  <2> QED BY <1>4, <2>1, <2>2, <2>3 DEF Sound
<1> QED BY <1>1, <1>3, <1>5 DEF Await

LEMMA NotReadingSound ==
    ASSUME NEW s, Sound(s)
    PROVE  Sound(NotReading(s))
<1>1. PICK t : t = [s EXCEPT !.read = NoRead]
  OBVIOUS
<1>2. NoRead \in ReadStates /\ NoRead.at = "none"
  BY DEF NoRead, ReadStates
<1>3. /\ t \in SteamStates /\ t.followed = s.followed /\ t.game = s.game
      /\ t.unlocked = s.unlocked /\ t.shown = s.shown /\ t.job = s.job /\ t.check = s.check
      /\ t.read.at = "none" /\ t.restoring = s.restoring /\ t.mixed = s.mixed
  BY <1>1, <1>2 DEF Sound, SteamStates
<1>4. Sound(t)
  BY <1>3 DEF Sound, Asked, Changing, Kept, OfGame, OfPlayer
<1> QED BY <1>1, <1>4 DEF NotReading

\* What is no part of what is held changes nothing of it.
LEMMA HiddenSound ==
    ASSUME NEW s, Sound(s), NEW b \in BOOLEAN
    PROVE  Sound([s EXCEPT !.hidden = b]) /\ Same(s, [s EXCEPT !.hidden = b])
<1>1. [s EXCEPT !.hidden = b] \in SteamStates /\ Same(s, [s EXCEPT !.hidden = b])
  BY DEF Sound, SteamStates, Same, Frame
<1> QED BY <1>1, SoundSame

LEMMA HideSound ==
    ASSUME NEW s, Sound(s)
    PROVE  Sound(Hide(s)) /\ Sound(NotReading(Hide(s)))
<1>1. Sound([s EXCEPT !.hidden = TRUE])
  BY HiddenSound
<1>2. Sound(Hide(s))
  BY <1>1, SetPhaseSound DEF Hide, Phases
<1> QED BY <1>2, NotReadingSound

LEMMA FailedSound ==
    ASSUME NEW s, Sound(s), NEW t \in Failed(s)
    PROVE  Sound(t) /\ Sound(NotReading(t))
<1>1. PICK u : t \in Render(u) /\ (u = s \/ u = SetPhase(s, "unreachable"))
  BY DEF Failed
<1>2. Sound(u)
  BY <1>1, SetPhaseSound DEF Phases
<1> QED BY <1>1, <1>2, RenderSound, NotReadingSound

\* Another game starts with nothing read of it.
LEMMA SwitchSound ==
    ASSUME NEW s, Sound(s), s.followed # Nobody, NEW g \in Games, g # Nobody
    PROVE  Sound(Await(SwitchGame(s, g), "local", g, Nobody))
<1>0. "local" \in Awaits /\ "local" \notin OfPlayer /\ "local" \in OfGame
  BY DEF Awaits, OfPlayer, OfGame
<1>1. CASE g = s.game
  BY <1>0, <1>1, AwaitSound DEF SwitchGame
<1>2. CASE g # s.game
  <2>1. PICK r : r = [NoRead EXCEPT !.at = "local", !.game = g, !.player = Nobody]
    OBVIOUS
  <2>2. r \in ReadStates /\ r.at = "local" /\ r.game = g
    BY <2>1 DEF NoRead, ReadStates, Awaits
  <2>3. PICK t : t = [[s EXCEPT !.game = g, !.unlocked = Nobody, !.job = Nobody] EXCEPT !.read = r]
    OBVIOUS
  <2>4. /\ t \in SteamStates /\ t.followed = s.followed /\ t.game = g /\ t.unlocked = Nobody
        /\ t.shown = s.shown /\ t.job = Nobody /\ t.check = s.check /\ t.read = r
        /\ t.restoring = s.restoring /\ t.mixed = s.mixed
    BY <2>2, <2>3 DEF Sound, SteamStates
  <2>5. Asked(t)
    BY <1>0, <2>2, <2>4 DEF Sound, Asked
  <2>6. (Changing(s) => Changing(t)) /\ (Kept(s) => Kept(t))
    BY <1>0, <2>2, <2>4 DEF Changing, Kept
  <2>7. Sound(t)
    BY <2>4, <2>5, <2>6 DEF Sound
  <2> QED BY <1>2, <2>1, <2>3, <2>7 DEF Await, SwitchGame
<1> QED BY <1>1, <1>2

LEMMA ChooseSound ==
    ASSUME NEW s, Sound(s), s.followed # Nobody, NEW named \in Games \cup {Nobody},
           NEW t \in Choose(s, named)
    PROVE  Sound(t)
<1>1. PICK g : g = IF named = Nobody THEN s.game ELSE named
  OBVIOUS
<1>2. g \in Games \cup {Nobody}
  BY <1>1 DEF Sound, SteamStates
<1>3. \/ t = NotReading(Hide(s))
      \/ g # Nobody /\ t = Await(SwitchGame(s, g), "local", g, Nobody)
      \/ t = NotReading(SetPhase(s, "nothing"))
  BY <1>1 DEF Choose
<1>4. Sound(SetPhase(s, "nothing"))
  BY SetPhaseSound DEF Phases
<1> QED BY <1>2, <1>3, <1>4, HideSound, NotReadingSound, SwitchSound

LEMMA SummarisedSound ==
    ASSUME NEW s, Sound(s), s.followed # Nobody, NEW t \in Summarised(s)
    PROVE  Sound(t)
<1>1. CASE t = NotReading(Hide(s))
  BY <1>1, HideSound
<1>2. CASE t # NotReading(Hide(s))
  <2>1. \E g \in Games \cup {Nobody}, b \in BOOLEAN :
          \/ t \in Choose([s EXCEPT !.hidden = b], g)
          \/ t = Await([s EXCEPT !.hidden = b], "recent", g, s.followed)
    <3>1. PICK g \in Games \cup {Nobody}, presence \in BOOLEAN :
            \/ t \in Choose([s EXCEPT !.hidden = s.hidden /\ ~presence], g)
            \/ t = Await([s EXCEPT !.hidden = s.hidden /\ ~presence], "recent", g, s.followed)
      BY <1>2 DEF Summarised
    <3>2. PICK b \in BOOLEAN : b = (s.hidden /\ ~presence)
      OBVIOUS
    <3> QED BY <3>1, <3>2
  <2> PICK g \in Games \cup {Nobody}, b \in BOOLEAN :
          \/ t \in Choose([s EXCEPT !.hidden = b], g)
          \/ t = Await([s EXCEPT !.hidden = b], "recent", g, s.followed)
    BY <2>1
  <2> PICK u : u = [s EXCEPT !.hidden = b]
    OBVIOUS
  <2>2. Sound(u) /\ u.followed = s.followed
    BY HiddenSound DEF Same, Frame
  <2>3. "recent" \in Awaits /\ "recent" \notin OfGame /\ "recent" \notin OfPlayer
    BY DEF Awaits, OfGame, OfPlayer
  <2>4. s.followed \in Players \cup {Nobody}
    BY DEF Sound, SteamStates
  <2>5. Sound(Await(u, "recent", g, s.followed))
    BY <2>2, <2>3, <2>4, AwaitSound
  <2> QED BY <2>2, <2>5, ChooseSound
<1> QED BY <1>1, <1>2

LEMMA ReadStartedSound ==
    ASSUME NEW s, Sound(s), NEW t \in ReadStarted(s)
    PROVE  Sound(t)
<1>1. CASE s.followed = Nobody \/ s.phase = "profile"
  BY <1>1, NotReadingSound DEF ReadStarted
<1>2. CASE ~(s.followed = Nobody \/ s.phase = "profile")
  <2>1. PICK u : u = [s EXCEPT !.checked = Nobody]
    OBVIOUS
  <2>2. u \in SteamStates /\ Same(s, u)
    BY <2>1 DEF Sound, SteamStates, Same, Frame
  <2>3. Sound(u) /\ u.followed = s.followed /\ u.game = s.game /\ s.followed # Nobody
    BY <1>2, <2>2, SoundSame DEF Same, Frame
  <2>4. /\ s.followed \in Players \cup {Nobody} /\ s.game \in Games \cup {Nobody}
    BY DEF Sound, SteamStates
  <2>5. \/ t = NotReading(s) \/ t = NotReading(u)
        \/ t = Await(u, "summary", Nobody, s.followed)
        \/ s.game # Nobody /\ t = Await(u, "again", s.game, s.followed)
        \/ t \in Summarised(u)
    BY <1>2, <2>1 DEF ReadStarted
  <2>6. /\ "summary" \in Awaits /\ "summary" \notin OfGame /\ "summary" \notin OfPlayer
        /\ "again" \in Awaits
    BY DEF Awaits, OfGame, OfPlayer
  <2>7. Sound(Await(u, "summary", Nobody, s.followed))
    BY <2>3, <2>4, <2>6, AwaitSound
  <2>8. s.game # Nobody => Sound(Await(u, "again", s.game, s.followed))
    BY <2>3, <2>4, <2>6, AwaitSound
  <2> QED BY <2>3, <2>5, <2>7, <2>8, NotReadingSound, SummarisedSound
<1> QED BY <1>1, <1>2

LEMMA PendingSound ==
    ASSUME NEW s, Sound(s), NEW b \in BOOLEAN
    PROVE  Sound([s EXCEPT !.pending = b])
<1>1. [s EXCEPT !.pending = b] \in SteamStates /\ Same(s, [s EXCEPT !.pending = b])
  BY DEF Sound, SteamStates, Same, Frame
<1> QED BY <1>1, SoundSame

LEMMA RefreshedSound ==
    ASSUME NEW s, Sound(s), NEW t \in Refreshed(s) \cup Ended(s)
    PROVE  Sound(t)
<1>1. \/ t \in {s, [s EXCEPT !.pending = TRUE]}
      \/ t \in ReadStarted(s) \/ t \in ReadStarted([s EXCEPT !.pending = FALSE])
  BY DEF Refreshed, Ended
<1> QED BY <1>1, PendingSound, ReadStartedSound

LEMMA ConcludedSound ==
    ASSUME NEW s, Sound(s), s.read.at \in OfGame, NEW t \in Concluded(s)
    PROVE  Sound(t)
<1>1. t = NotReading(Hide(s)) \/ t = Await(s, "details", s.read.game, Nobody)
  BY DEF Concluded
<1>2. /\ s.followed # Nobody /\ s.read.game # Nobody /\ s.read.game \in Games \cup {Nobody}
      /\ Changing(s) \/ s.game = Nobody \/ s.read.game = s.game
  BY DEF Sound, Asked, Kept, OfGame, SteamStates, ReadStates
<1>3. "details" \in Awaits /\ "details" \notin OfPlayer
  BY DEF Awaits, OfPlayer
<1>4. Sound(Await(s, "details", s.read.game, Nobody))
  BY <1>2, <1>3, AwaitSound
<1> QED BY <1>1, <1>4, HideSound

\* What is read of a player is of the one the read asked for.
LEMMA PlayerReadSound ==
    ASSUME NEW s, Sound(s), s.read.at \in OfPlayer
    PROVE  Sound(PlayerRead(s)) /\ PlayerRead(s).read = s.read
<1>1. /\ s.read.player # Nobody /\ s.read.player \in Players \cup {Nobody}
      /\ s.read.game # Nobody /\ s.read.game \in Games \cup {Nobody}
      /\ s.read.at \in OfGame
  BY DEF Sound, Asked, SteamStates, ReadStates, OfPlayer, OfGame
<1>2. PICK o \in Owned : o = <<s.read.player, s.read.game>>
  BY <1>1 DEF Owned
<1>3. PICK t : t = [s EXCEPT !.unlocked = o, !.hidden = FALSE]
  OBVIOUS
<1>4. /\ t \in SteamStates /\ t.followed = s.followed /\ t.game = s.game /\ t.unlocked = o
      /\ t.shown = s.shown /\ t.job = s.job /\ t.check = s.check /\ t.read = s.read
      /\ t.restoring = s.restoring /\ t.mixed = s.mixed
  BY <1>3 DEF Sound, SteamStates
<1>5. Asked(t) /\ (Changing(s) => Changing(t))
  BY <1>4 DEF Sound, Asked, Changing
<1>6. Kept(s) => Kept(t)
  BY <1>1, <1>2, <1>4 DEF Kept
<1> QED BY <1>2, <1>3, <1>4, <1>5, <1>6 DEF Sound, PlayerRead

LEMMA PlayerStepsSound ==
    ASSUME NEW s, Sound(s), s.read.at \in OfPlayer, NEW x \in PlayerSteps(s)
    PROVE  /\ Sound(x.state) /\ x.state.read = s.read
           /\ x.step \in {"done", "hidden", "failed"}
<1>1. PICK u : u = [s EXCEPT !.hidden = FALSE]
  OBVIOUS
<1>2. Sound(u) /\ u.read = s.read
  BY <1>1, HiddenSound DEF Same, Frame
<1>3. /\ x.state = PlayerRead(s) \/ x.state = u \/ x.state = s
      /\ x.step \in {"done", "hidden", "failed"}
  <2>1. \/ x = [state |-> PlayerRead(s), step |-> "done"]
        \/ x = [state |-> u, step |-> "done"]
        \/ x = [state |-> s, step |-> "hidden"]
        \/ x = [state |-> s, step |-> "failed"]
    BY <1>1 DEF PlayerSteps
  <2> QED BY <2>1
<1> QED BY <1>2, <1>3, PlayerReadSound

LEMMA StoppedSound ==
    ASSUME NEW s, Sound(s), NEW step, NEW t \in Stopped(s, step)
    PROVE  Sound(t)
<1>1. t = NotReading(Hide(s)) \/ \E u \in Failed(s) : t = NotReading(u)
  BY DEF Stopped
<1> QED BY <1>1, HideSound, FailedSound

\* The answer to each await.
LEMMA SummaryAnswer ==
    ASSUME NEW s, Sound(s), s.read.at = "summary", NEW t \in ReadAnswered(s)
    PROVE  Sound(t)
<1>1. (\E u \in Failed(s) : t = NotReading(u)) \/ t \in Summarised(s)
  BY DEF ReadAnswered
<1>2. s.followed # Nobody
  BY DEF Sound, Asked
<1> QED BY <1>1, <1>2, FailedSound, SummarisedSound

LEMMA RecentAnswer ==
    ASSUME NEW s, Sound(s), s.read.at = "recent", NEW t \in ReadAnswered(s)
    PROVE  Sound(t)
<1>1. s.followed # Nobody /\ s.read.game \in Games \cup {Nobody}
  BY DEF Sound, Asked, SteamStates, ReadStates
<1>2. CASE \E u \in Failed(s) : t = NotReading(u)
  BY <1>2, FailedSound
<1>3. CASE ~\E u \in Failed(s) : t = NotReading(u)
  <2>1. PICK none \in BOOLEAN, g \in Games \cup {Nobody} :
          t \in Choose([s EXCEPT !.hidden = s.hidden /\ (none \/ g # Nobody)],
                       IF s.read.game = Nobody THEN g ELSE s.read.game)
    BY <1>3 DEF ReadAnswered
  <2>2. PICK b \in BOOLEAN : b = (s.hidden /\ (none \/ g # Nobody))
    OBVIOUS
  <2>3. PICK named \in Games \cup {Nobody} :
          named = IF s.read.game = Nobody THEN g ELSE s.read.game
    BY <1>1
  <2>4. PICK u : u = [s EXCEPT !.hidden = b]
    OBVIOUS
  <2>5. t \in Choose(u, named)
    BY <2>1, <2>2, <2>3, <2>4
  <2>6. Sound(u) /\ u.followed # Nobody
    BY <1>1, <2>4, HiddenSound DEF Same, Frame
  <2> QED BY <2>5, <2>6, ChooseSound
<1> QED BY <1>2, <1>3

\* The reads of one game go on with it.
LEMMA GameAwait ==
    ASSUME NEW s, Sound(s), s.read.at \in OfGame, NEW at \in OfGame,
           NEW p \in {s.followed, Nobody}, at \in OfPlayer => p = s.followed
    PROVE  Sound(Await(s, at, s.read.game, p))
<1>1. /\ s.followed # Nobody /\ s.read.game # Nobody /\ s.read.game \in Games \cup {Nobody}
      /\ s.followed \in Players \cup {Nobody}
      /\ Changing(s) \/ s.game = Nobody \/ s.read.game = s.game
  BY DEF Sound, Asked, Kept, OfGame, SteamStates, ReadStates
<1>2. at \in Awaits /\ p \in Players \cup {Nobody}
  BY <1>1 DEF Awaits, OfGame
<1> QED BY <1>1, <1>2, AwaitSound

LEMMA ListAnswer ==
    ASSUME NEW s, Sound(s), s.read.at \in {"local", "list"}, NEW t \in ReadAnswered(s)
    PROVE  Sound(t)
<1>1. s.read.at \in OfGame
  BY DEF OfGame
<1>2. /\ {"list", "player", "early", "slices"} \subseteq OfGame
      /\ "list" \notin OfPlayer /\ "slices" \notin OfPlayer
  BY DEF OfGame, OfPlayer
<1>3. /\ Sound(Await(s, "list", s.read.game, Nobody))
      /\ Sound(Await(s, "player", s.read.game, s.followed))
      /\ Sound(Await(s, "early", s.read.game, s.followed))
      /\ Sound(Await(s, "slices", s.read.game, Nobody))
  BY <1>1, <1>2, GameAwait
<1>4. CASE s.read.at = "local"
  BY <1>3, <1>4 DEF ReadAnswered
<1>5. CASE s.read.at = "list"
  <2>1. \/ \E u \in Failed(s) : t = NotReading(u)
        \/ \E u \in Render(s) \cup {s} : t = NotReading(u)
        \/ t \in Concluded(s)
        \/ t = Await(s, "player", s.read.game, s.followed)
        \/ t = Await(s, "early", s.read.game, s.followed)
        \/ t = Await(s, "slices", s.read.game, Nobody)
    BY <1>5 DEF ReadAnswered
  <2> QED BY <1>1, <1>3, <2>1, FailedSound, RenderSound, NotReadingSound, ConcludedSound
<1> QED BY <1>4, <1>5

LEMMA EarlyAnswer ==
    ASSUME NEW s, Sound(s), s.read.at = "early", NEW t \in ReadAnswered(s)
    PROVE  Sound(t)
<1>0. PICK x \in PlayerSteps(s) :
        \E u \in EnterGame(x.state) \cup {x.state} :
          t = [u EXCEPT !.read = [s.read EXCEPT !.at = "slices", !.early = x.step]]
  <2>1. t \in EarlyAnswered(s)
    BY DEF ReadAnswered
  <2>2. PICK x \in PlayerSteps(s) :
          t \in {[u EXCEPT !.read = [s.read EXCEPT !.at = "slices", !.early = x.step]] :
                u \in IF x.step = "done" /\ ~x.state.hidden
                      THEN EnterGame(x.state) ELSE {x.state}}
    BY <2>1 DEF EarlyAnswered
  <2>3. PICK u \in IF x.step = "done" /\ ~x.state.hidden THEN EnterGame(x.state) ELSE {x.state} :
          t = [u EXCEPT !.read = [s.read EXCEPT !.at = "slices", !.early = x.step]]
    BY <2>2
  <2>4. u \in EnterGame(x.state) \cup {x.state}
    OBVIOUS
  <2> QED BY <2>3, <2>4
<1>1. PICK u \in EnterGame(x.state) \cup {x.state} :
        t = [u EXCEPT !.read = [s.read EXCEPT !.at = "slices", !.early = x.step]]
  BY <1>0
<1>2. /\ Sound(x.state) /\ x.state.read = s.read /\ x.step \in {"done", "hidden", "failed"}
  BY PlayerStepsSound DEF OfPlayer
<1>3. Sound(u) /\ u.read = s.read
  BY <1>1, <1>2, EnterGameSound DEF Frame
<1>4. PICK r : r = [s.read EXCEPT !.at = "slices", !.early = x.step]
  OBVIOUS
<1>5. r \in ReadStates /\ r.at = "slices" /\ r.game = s.read.game
  BY <1>2, <1>4 DEF Sound, SteamStates, ReadStates, Awaits
<1>6. /\ t \in SteamStates /\ t.followed = u.followed /\ t.game = u.game
      /\ t.unlocked = u.unlocked /\ t.shown = u.shown /\ t.job = u.job /\ t.check = u.check
      /\ t.read = r /\ t.restoring = u.restoring /\ t.mixed = u.mixed
  BY <1>1, <1>3, <1>4, <1>5 DEF Sound, SteamStates
<1>7. Asked(t) /\ (Changing(u) => Changing(t))
  BY <1>3, <1>5, <1>6 DEF Sound, Asked, Changing, OfGame, OfPlayer
<1>8. Kept(u) => Kept(t)
  BY <1>3, <1>5, <1>6 DEF Kept, OfGame, OfPlayer
<1> QED BY <1>3, <1>6, <1>7, <1>8 DEF Sound

LEMMA SlicesAnswer ==
    ASSUME NEW s, Sound(s), s.read.at = "slices", NEW t \in ReadAnswered(s)
    PROVE  Sound(t)
<1>1. \/ t \in Stopped(s, s.read.early)
      \/ \E u \in Failed(s) : t = NotReading(u)
      \/ t \in Concluded(s)
      \/ t = Await(s, "player", s.read.game, s.followed)
  BY DEF ReadAnswered
<1>2. s.read.at \in OfGame /\ "player" \in OfGame
  BY DEF OfGame
<1> QED BY <1>1, <1>2, StoppedSound, FailedSound, ConcludedSound, GameAwait

LEMMA PlayerAnswer ==
    ASSUME NEW s, Sound(s), s.read.at \in {"player", "again"}, NEW t \in ReadAnswered(s)
    PROVE  Sound(t)
<1>1. PICK x \in PlayerSteps(s) :
        \/ t \in Concluded(x.state)
        \/ \E u \in Render(x.state) : t = NotReading(u)
        \/ t \in Stopped(x.state, x.step)
  <2>1. CASE s.read.at = "player"
    <3>1. t \in UNION {IF x.step = "done" THEN Concluded(x.state) ELSE Stopped(x.state, x.step) :
                      x \in PlayerSteps(s)}
      BY <2>1 DEF ReadAnswered
    <3> QED BY <3>1
  <2>2. CASE s.read.at = "again"
    <3>1. t \in UNION {IF x.step = "done" THEN {NotReading(u) : u \in Render(x.state)}
                      ELSE Stopped(x.state, x.step) : x \in PlayerSteps(s)}
      BY <2>2 DEF ReadAnswered
    <3> QED BY <3>1
  <2> QED BY <2>1, <2>2
<1>2. Sound(x.state) /\ x.state.read.at \in OfGame
  BY PlayerStepsSound DEF OfPlayer, OfGame
<1> QED BY <1>1, <1>2, ConcludedSound, RenderSound, NotReadingSound, StoppedSound

LEMMA AnswerSound ==
    ASSUME NEW s, Sound(s), Reading(s), NEW t \in ReadAnswered(s)
    PROVE  Sound(t)
<1>1. CASE s.read.at = "details"
  <2>1. PICK u \in EnterGame([s EXCEPT !.hidden = FALSE]) : t = NotReading(u)
    <3>1. t \in DetailsAnswered(s)
      BY <1>1 DEF ReadAnswered
    <3> QED BY <3>1 DEF DetailsAnswered
  <2> QED BY <2>1, HiddenSound, EnterGameSound, NotReadingSound
<1>2. s.read.at \in Awaits
  BY DEF Sound, SteamStates, ReadStates, Reading
<1> QED BY <1>1, <1>2, SummaryAnswer, RecentAnswer, ListAnswer, EarlyAnswer, SlicesAnswer,
           PlayerAnswer DEF Awaits

-----------------------------------------------------------------------------
\* The steps.

LEMMA SteamStart == SteamInit => Sound(steam)
<1> SUFFICES ASSUME SteamInit PROVE Sound(steam)
  OBVIOUS
<1>1. /\ NoRead \in ReadStates /\ NoRead.at = "none" /\ "loading" \in Phases
      /\ NoCheck.at = "none" /\ NoCheck.to = Nobody
      /\ NoCheck \in [at : {"none", "asked", "storing", "removing"},
                      to : Players \cup {Nobody}, changed : BOOLEAN]
  BY DEF NoRead, ReadStates, NoCheck, Phases
<1>2. steam \in SteamStates
  BY <1>1 DEF SteamInit, SteamStates
<1>3. Asked(steam)
  BY <1>1 DEF SteamInit, Asked, OfGame, OfPlayer
<1>4. Kept(steam)
  BY <1>1 DEF SteamInit, Kept, OfGame, OfPlayer
<1> QED BY <1>2, <1>3, <1>4 DEF Sound

LEMMA ReadStep ==
    ASSUME Sound(steam), Answer \/ Refresh \/ PublishJob \/ Rerender
    PROVE  Sound(steam')
<1>1. CASE Answer
  BY <1>1, AnswerSound, RefreshedSound DEF Answer
<1>2. CASE Refresh
  BY <1>2, RefreshedSound DEF Refresh
<1>3. CASE PublishJob
  <2>1. steam' = Publish(steam, steam.job) /\ steam.job # Nobody
    BY <1>3 DEF PublishJob
  <2>2. GoodView(steam, steam.job)
    BY <2>1 DEF GoodView, Sound, SteamStates, Asked, Kept
  <2> QED BY <2>1, <2>2, PublishSound
<1>4. CASE Rerender
  BY <1>4, RenderSound DEF Rerender
<1> QED BY <1>1, <1>2, <1>3, <1>4

\* `restore` goes on, and nothing that is held changes.
LEMMA StageSound ==
    ASSUME NEW s, Sound(s), NEW at \in {"hidden", "done"}, at = "hidden" => s.followed # Nobody
    PROVE  Sound([s EXCEPT !.restoring = at])
<1>1. PICK t : t = [s EXCEPT !.restoring = at]
  OBVIOUS
<1>2. /\ t \in SteamStates /\ t.followed = s.followed /\ t.game = s.game
      /\ t.unlocked = s.unlocked /\ t.shown = s.shown /\ t.job = s.job /\ t.check = s.check
      /\ t.read = s.read /\ t.restoring = at /\ t.mixed = s.mixed
  BY <1>1 DEF Sound, SteamStates
<1>3. Asked(t)
  BY <1>2 DEF Sound, Asked
<1>4. (Changing(s) => Changing(t)) /\ (Kept(s) => Kept(t))
  BY <1>2 DEF Changing, Kept
<1> QED BY <1>1, <1>2, <1>3, <1>4 DEF Sound

LEMMA RestoredSound ==
    ASSUME NEW s, Sound(s), NEW t \in Restored(s)
    PROVE  Sound(t)
BY StageSound, RefreshedSound DEF Restored

\* The stored profile: followed from now; it is another than the one followed
\* only when that is remembered.
LEMMA RestoreProfileStep ==
    ASSUME Sound(steam), RestoreProfile
    PROVE  Sound(steam')
<1>1. CASE steam' \in Restored(SetPhase(steam, "profile"))
  BY <1>1, SetPhaseSound, RestoredSound DEF Phases
<1>2. CASE steam' \notin Restored(SetPhase(steam, "profile"))
  <2>1. PICK p \in Players :
          steam' = [steam EXCEPT !.followed = p, !.restoring = "snapshot",
                       !.mixed = steam.mixed \/ steam.followed \notin {Nobody, p}]
    BY <1>2 DEF RestoreProfile
  <2>2. PICK b \in BOOLEAN : b = (steam.mixed \/ steam.followed \notin {Nobody, p})
    OBVIOUS
  <2>3. steam' = [steam EXCEPT !.followed = p, !.restoring = "snapshot", !.mixed = b]
    BY <2>1, <2>2
  <2>4. /\ steam' \in SteamStates /\ steam'.followed = p /\ steam'.game = steam.game
        /\ steam'.unlocked = steam.unlocked /\ steam'.shown = steam.shown
        /\ steam'.job = steam.job /\ steam'.check = steam.check /\ steam'.read = steam.read
        /\ steam'.restoring = "snapshot" /\ steam'.mixed = b
    BY <2>3 DEF Sound, SteamStates
  <2>5. p # Nobody
    BY SteamAssumption
  <2>6. Asked(steam')
    BY <2>4, <2>5 DEF Sound, Asked
  <2>7. CASE b = TRUE
    BY <2>4, <2>6, <2>7 DEF Sound, Changing
  <2>8. CASE b = FALSE
    <3>1. steam.mixed = FALSE /\ steam.followed \in {Nobody, p}
      BY <2>2, <2>8 DEF Sound, SteamStates
    <3>2. Changing(steam) => Changing(steam')
      BY <2>4, <3>1 DEF Changing
    <3>3. CASE steam.followed = p
      <4>1. Kept(steam) => Kept(steam')
        BY <2>4, <3>3 DEF Kept
      <4> QED BY <2>4, <2>6, <3>2, <4>1 DEF Sound
    <3>4. CASE steam.followed = Nobody
      <4>1. Kept(steam')
        BY <2>4, <3>4 DEF Sound, Asked, Kept
      <4> QED BY <2>4, <2>6, <4>1 DEF Sound
    <3> QED BY <3>1, <3>3, <3>4
  <2> QED BY <2>7, <2>8
<1> QED BY <1>1, <1>2

\* The stored snapshot: it is in step with the rest, or that is remembered.
LEMMA RestoreSnapshotStep ==
    ASSUME Sound(steam), RestoreSnapshot
    PROVE  Sound(steam')
<1>1. steam.followed # Nobody
  BY DEF RestoreSnapshot, Sound, Asked
<1>2. CASE steam' = [steam EXCEPT !.restoring = "hidden"]
  BY <1>1, <1>2, StageSound
<1>3. CASE steam' # [steam EXCEPT !.restoring = "hidden"]
  <2>1. PICK view \in Views :
          LET s == [steam EXCEPT !.game = view.game,
                                 !.unlocked = IF view.of = Nobody THEN steam.unlocked ELSE view.of]
          IN steam' = [s EXCEPT !.restoring = "list", !.mixed = s.mixed \/ ~OneView(s)]
    BY <1>3 DEF RestoreSnapshot
  <2>2. PICK u \in Owned \cup {Nobody} : u = IF view.of = Nobody THEN steam.unlocked ELSE view.of
    BY DEF Views, Sound, SteamStates
  <2>3. PICK s : s = [steam EXCEPT !.game = view.game, !.unlocked = u]
    OBVIOUS
  <2>4. /\ s \in SteamStates /\ s.followed = steam.followed /\ s.game = view.game
        /\ view.game \in Games /\ s.unlocked = u /\ s.shown = steam.shown /\ s.job = steam.job
        /\ s.check = steam.check /\ s.read = steam.read /\ s.mixed = steam.mixed
    BY <2>3 DEF Sound, SteamStates, Views
  <2>5. PICK b \in BOOLEAN : b = (s.mixed \/ ~OneView(s))
    OBVIOUS
  <2>6. steam' = [s EXCEPT !.restoring = "list", !.mixed = b]
    BY <2>1, <2>2, <2>3, <2>5
  <2>7. /\ steam' \in SteamStates /\ steam'.followed = s.followed /\ steam'.game = s.game
        /\ steam'.unlocked = s.unlocked /\ steam'.shown = s.shown /\ steam'.job = s.job
        /\ steam'.check = s.check /\ steam'.read = s.read
        /\ steam'.restoring = "list" /\ steam'.mixed = b
    BY <2>4, <2>6 DEF SteamStates
  <2>8. Asked(steam')
    BY <1>1, <2>4, <2>7 DEF Sound, Asked
  <2>9. CASE b = TRUE
    BY <2>7, <2>8, <2>9 DEF Sound, Changing
  <2>10. CASE b = FALSE
    <3>1. s.mixed = FALSE /\ OneView(s)
      BY <2>4, <2>5, <2>10 DEF SteamStates
    <3>2. Changing(steam) => Changing(steam')
      BY <2>4, <2>7, <3>1 DEF Changing
    <3>3. s.read.at \in OfPlayer => s.read.player # Nobody
      BY <2>4 DEF Sound, Asked
    <3>4. Kept(steam) => Kept(steam')
      BY <2>4, <2>7, <3>1, <3>3 DEF OneView, Kept, OfGame, OfPlayer
    <3> QED BY <2>7, <2>8, <3>2, <3>4 DEF Sound
  <2> QED BY <2>9, <2>10
<1> QED BY <1>2, <1>3

LEMMA RestoreStep ==
    ASSUME Sound(steam), Restore
    PROVE  Sound(steam')
<1>1. CASE RestoreProfile
  BY <1>1, RestoreProfileStep
<1>2. CASE RestoreSnapshot
  BY <1>2, RestoreSnapshotStep
<1>3. CASE RestoreList
  <2>1. PICK s \in {steam} \cup EnterGame(steam) : steam' = [s EXCEPT !.restoring = "hidden"]
    BY <1>3 DEF RestoreList
  <2>2. Sound(s) /\ s.followed = steam.followed
    BY <2>1, EnterGameSound DEF Frame
  <2>3. steam.followed # Nobody
    BY <1>3 DEF RestoreList, Sound, Asked
  <2> QED BY <2>1, <2>2, <2>3, StageSound
<1>4. CASE RestoreHidden
  BY <1>4, HideSound, RestoredSound DEF RestoreHidden
<1> QED BY <1>1, <1>2, <1>3, <1>4 DEF Restore

LEMMA ProfileStep ==
    ASSUME Sound(steam), OpenProfile \/ CancelProfile
    PROVE  Sound(steam')
<1>1. CASE OpenProfile
  <2>1. PICK b \in BOOLEAN : b = (steam.followed # Nobody)
    OBVIOUS
  <2>2. PICK s : s = [steam EXCEPT !.before = steam.phase, !.canCancel = b]
    OBVIOUS
  <2>3. s \in SteamStates /\ Same(steam, s)
    BY <2>2 DEF Sound, SteamStates, Same, Frame
  <2>4. Sound(s)
    BY <2>3, SoundSame
  <2>5. steam' = SetPhase(s, "profile")
    BY <1>1, <2>1, <2>2 DEF OpenProfile
  <2> QED BY <2>4, <2>5, SetPhaseSound DEF Phases
<1>2. CASE CancelProfile
  <2>1. steam.before \in Phases
    BY DEF Sound, SteamStates
  <2> QED BY <1>2, <2>1, SetPhaseSound DEF CancelProfile
<1> QED BY <1>1, <1>2

\* The steps of a check: only the ones that find another player change whose
\* the state is, and from then on that player is being stored.
CheckStates == [at : {"none", "asked", "storing", "removing"},
                to : Players \cup {Nobody}, changed : BOOLEAN]

\* A check may change in any way that neither ends a change of player nor
\* leaves it without one to check.
LEMMA CheckSound ==
    ASSUME NEW s, Sound(s), NEW k \in Checks, NEW c \in CheckStates, NEW b \in BOOLEAN,
           c.at # "none" => c.to # Nobody,
           ~(s.check[k].at = "storing" /\ s.check[k].changed = TRUE)
    PROVE  Sound([s EXCEPT !.checking = b, !.check[k] = c])
<1>1. PICK t : t = [s EXCEPT !.checking = b, !.check[k] = c]
  OBVIOUS
<1>2. /\ t \in SteamStates /\ t.followed = s.followed /\ t.game = s.game
      /\ t.unlocked = s.unlocked /\ t.shown = s.shown /\ t.job = s.job /\ t.read = s.read
      /\ t.restoring = s.restoring /\ t.mixed = s.mixed
      /\ t.check = [s.check EXCEPT ![k] = c] /\ s.check \in [Checks -> CheckStates]
  <2>1. s \in SteamStates /\ s.check \in [Checks -> CheckStates]
    BY DEF Sound, SteamStates, CheckStates
  <2>2. PICK f \in [Checks -> CheckStates] : f = [s.check EXCEPT ![k] = c]
    BY <2>1
  <2>3. t = [s EXCEPT !.checking = b, !.check = f]
    BY <1>1, <2>1, <2>2 DEF SteamStates
  <2>4. t \in SteamStates
    BY <2>1, <2>2, <2>3 DEF SteamStates, CheckStates
  <2> QED BY <2>1, <2>2, <2>3, <2>4 DEF SteamStates
<1>3. Asked(t)
  BY <1>2 DEF Sound, Asked
<1>4. (Changing(s) => Changing(t)) /\ (Kept(s) => Kept(t))
  BY <1>2 DEF Changing, Kept
<1> QED BY <1>1, <1>2, <1>3, <1>4 DEF Sound

LEMMA SubmitStep ==
    ASSUME Sound(steam), SubmitProfile
    PROVE  Sound(steam')
<1>1. PICK k \in Checks, p \in Players :
        /\ steam.check[k].at = "none"
        /\ steam' = [steam EXCEPT !.checking = TRUE,
                                  !.check[k] = [NoCheck EXCEPT !.at = "asked", !.to = p]]
  BY DEF SubmitProfile
<1>2. PICK c : c = [NoCheck EXCEPT !.at = "asked", !.to = p]
  OBVIOUS
<1>3. c \in CheckStates /\ c.to = p
  BY <1>2 DEF CheckStates, NoCheck
<1>4. Sound(steam')
  <2>1. p # Nobody
    BY SteamAssumption
  <2> QED BY <1>1, <1>2, <1>3, <2>1, CheckSound
<1> QED BY <1>4

LEMMA FoundStep ==
    ASSUME Sound(steam), CheckAnswered
    PROVE  Sound(steam')
<1>1. PICK k \in Checks :
        /\ steam.check[k].at = "asked"
        /\ \/ steam' = [steam EXCEPT !.checking = FALSE, !.check[k] = NoCheck]
           \/ steam' = [steam EXCEPT !.followed = steam.check[k].to, !.hidden = FALSE,
                          !.check[k].at = "storing",
                          !.check[k].changed = steam.followed # steam.check[k].to]
  BY DEF CheckAnswered
<1>2. CASE steam' = [steam EXCEPT !.checking = FALSE, !.check[k] = NoCheck]
  <2>1. NoCheck \in CheckStates /\ NoCheck.at = "none"
    BY DEF NoCheck, CheckStates
  <2> QED BY <1>1, <1>2, <2>1, CheckSound
<1>3. CASE steam' # [steam EXCEPT !.checking = FALSE, !.check[k] = NoCheck]
  <2>1. PICK p \in Players \cup {Nobody} : p = steam.check[k].to
    BY DEF Sound, SteamStates
  <2>2. PICK d \in BOOLEAN : d = (steam.followed # p)
    OBVIOUS
  <2>3. steam' = [steam EXCEPT !.followed = p, !.hidden = FALSE,
                               !.check[k].at = "storing", !.check[k].changed = d]
    BY <1>1, <1>3, <2>1, <2>2
  <2>4. /\ steam.check \in [Checks -> CheckStates] /\ steam \in SteamStates
    BY DEF Sound, SteamStates, CheckStates
  <2>5. PICK c : c = [steam.check[k] EXCEPT !.at = "storing", !.changed = d]
    OBVIOUS
  <2>6. c \in CheckStates /\ c.at = "storing" /\ c.to = p /\ c.changed = d
    BY <2>1, <2>4, <2>5 DEF CheckStates
  <2>7. steam' = [steam EXCEPT !.followed = p, !.hidden = FALSE, !.check[k] = c]
    BY <2>3, <2>4, <2>5 DEF SteamStates
  <2>8. /\ steam' \in SteamStates /\ steam'.followed = p /\ steam'.game = steam.game
        /\ steam'.unlocked = steam.unlocked /\ steam'.shown = steam.shown
        /\ steam'.job = steam.job /\ steam'.read = steam.read
        /\ steam'.restoring = steam.restoring /\ steam'.mixed = steam.mixed
        /\ steam'.check = [steam.check EXCEPT ![k] = c]
    BY <2>4, <2>6, <2>7 DEF SteamStates, CheckStates
  <2>9. p # Nobody
    BY <1>1, <2>1 DEF Sound, Asked
  <2>10. Asked(steam')
    BY <2>1, <2>4, <2>6, <2>8, <2>9 DEF Sound, Asked
  <2>11. CASE d = TRUE
    <3>1. Changing(steam')
      BY <2>4, <2>6, <2>8, <2>11 DEF Changing
    <3> QED BY <2>8, <2>10, <3>1 DEF Sound
  <2>12. CASE d = FALSE
    <3>1. steam'.followed = steam.followed
      BY <2>2, <2>8, <2>12
    <3>2. Kept(steam) => Kept(steam')
      BY <2>8, <3>1 DEF Kept
    <3>3. Changing(steam) => Changing(steam')
      BY <1>1, <2>4, <2>8 DEF Changing
    <3> QED BY <2>8, <2>10, <3>2, <3>3 DEF Sound
  <2> QED BY <2>11, <2>12
<1> QED BY <1>2, <1>3

\* What was held is forgotten: nothing of it is anyone's.
LEMMA ForgetStep ==
    ASSUME Sound(steam), ProfileStored
    PROVE  Sound(steam')
<1>1. PICK k \in Checks :
        /\ steam.check[k].at = "storing"
        /\ steam' = [Forgotten(steam) EXCEPT !.check[k].at = "removing"]
  BY DEF ProfileStored
<1>2. steam.check \in [Checks -> CheckStates] /\ steam \in SteamStates
  BY DEF Sound, SteamStates, CheckStates
<1>3. PICK c : c = [steam.check[k] EXCEPT !.at = "removing"]
  OBVIOUS
<1>4. c \in CheckStates /\ c.to = steam.check[k].to
  BY <1>2, <1>3 DEF CheckStates
<1>5. steam' = [steam EXCEPT !.game = Nobody, !.unlocked = Nobody, !.shown = Nobody,
                             !.job = Nobody, !.mixed = FALSE, !.check[k] = c]
  BY <1>1, <1>2, <1>3 DEF Forgotten, SteamStates
<1>6. /\ steam' \in SteamStates /\ steam'.followed = steam.followed /\ steam'.game = Nobody
      /\ steam'.shown = Nobody /\ steam'.job = Nobody /\ steam'.read = steam.read
      /\ steam'.restoring = steam.restoring
      /\ steam'.check = [steam.check EXCEPT ![k] = c]
  BY <1>2, <1>4, <1>5 DEF SteamStates, CheckStates
<1>7. Asked(steam')
  <2>1. ASSUME NEW j \in Checks, steam'.check[j].at # "none" PROVE steam'.check[j].to # Nobody
    <3>1. CASE j = k
      <4>1. steam'.check[j] = c
        BY <1>2, <1>6, <3>1
      <4>2. steam.check[k].to # Nobody
        BY <1>1 DEF Sound, Asked
      <4> QED BY <1>4, <4>1, <4>2
    <3>2. CASE j # k
      BY <1>2, <1>6, <2>1, <3>2 DEF Sound, Asked
    <3> QED BY <3>1, <3>2
  <2> QED BY <1>6, <2>1 DEF Sound, Asked
<1>8. Kept(steam')
  BY <1>6 DEF Kept
<1> QED BY <1>6, <1>7, <1>8 DEF Sound

LEMMA DoneStep ==
    ASSUME Sound(steam), ProfileDone
    PROVE  Sound(steam')
<1>0. PICK k \in Checks :
        LET s == [steam EXCEPT !.check[k] = NoCheck, !.checking = FALSE, !.canCancel = FALSE]
        IN /\ steam.check[k].at = "removing"
                \/ (steam.check[k].at = "storing" /\ ~steam.check[k].changed)
           /\ steam' \in UNION {Refreshed([t EXCEPT !.checked = steam.check[k].to]) :
                  t \in IF s.game = Nobody THEN {SetPhase(s, "loading")} ELSE EnterGame(s)}
  BY DEF ProfileDone
<1>1. PICK s :
        /\ s = [steam EXCEPT !.check[k] = NoCheck, !.checking = FALSE, !.canCancel = FALSE]
        /\ steam.check[k].at = "removing"
             \/ (steam.check[k].at = "storing" /\ ~steam.check[k].changed)
        /\ steam' \in UNION {Refreshed([t EXCEPT !.checked = steam.check[k].to]) :
                t \in IF s.game = Nobody THEN {SetPhase(s, "loading")} ELSE EnterGame(s)}
  BY <1>0
<1>2. NoCheck \in CheckStates /\ NoCheck.at = "none"
  BY DEF NoCheck, CheckStates
<1>3. PICK u : u = [steam EXCEPT !.checking = FALSE, !.check[k] = NoCheck]
  OBVIOUS
<1>4. Sound(u)
  BY <1>1, <1>2, <1>3, CheckSound
<1>5. s = [u EXCEPT !.canCancel = FALSE]
  BY <1>1, <1>3 DEF Sound, SteamStates
<1>6. s \in SteamStates /\ Same(u, s)
  BY <1>4, <1>5 DEF Sound, SteamStates, Same, Frame
<1>7. Sound(s)
  BY <1>4, <1>6, SoundSame
<1>8. PICK t : /\ t = SetPhase(s, "loading") \/ t \in EnterGame(s)
               /\ steam' \in Refreshed([t EXCEPT !.checked = steam.check[k].to])
  BY <1>1
<1>9. Sound(t)
  BY <1>7, <1>8, SetPhaseSound, EnterGameSound DEF Phases
<1>10. PICK p \in Players \cup {Nobody} : p = steam.check[k].to
  BY DEF Sound, SteamStates
<1>11. PICK v : v = [t EXCEPT !.checked = p]
  OBVIOUS
<1>12. v \in SteamStates /\ Same(t, v)
  BY <1>9, <1>11 DEF Sound, SteamStates, Same, Frame
<1>13. Sound(v) /\ steam' \in Refreshed(v)
  BY <1>8, <1>9, <1>10, <1>11, <1>12, SoundSame
<1> QED BY <1>13, RefreshedSound

SteamInv == Sound(steam)

LEMMA SteamKept == SteamSpec => []SteamInv
<1>1. SteamInit => SteamInv
  BY SteamStart DEF SteamInv
<1>2. SteamInv /\ [SteamNext]_steam => SteamInv'
  <2> SUFFICES ASSUME Sound(steam), [SteamNext]_steam PROVE Sound(steam')
    BY DEF SteamInv
  <2>1. CASE steam' = steam
    BY <2>1
  <2>2. CASE SteamNext
    BY <2>2, ReadStep, RestoreStep, ProfileStep, SubmitStep, FoundStep, ForgetStep, DoneStep
       DEF SteamNext
  <2> QED BY <2>1, <2>2
<1> QED BY <1>1, <1>2, PTL DEF SteamSpec

\* The types of SteamAchievements hold in every reachable state.
THEOREM SteamTypeCorrect == SteamSpec => []SteamTypeOK
<1>1. SteamInv => SteamTypeOK
  BY DEF SteamInv, Sound, SteamTypeOK
<1> QED BY <1>1, SteamKept, PTL

\* The achievements kept, shown or being shown are those of the player
\* followed and of the game they are of, for any number of players, games and
\* profile checks, whatever is stored when the widget starts, and in whatever
\* order the storage, requests and checks answer, unless a restored profile or
\* snapshot met what is not its own and the profile has not changed since.
THEOREM SteamOwnAchievements == SteamSpec => []OwnAchievements
<1>1. SteamInv => OwnAchievements
  BY DEF SteamInv, Sound, SteamStates, Kept, Changing, OwnAchievements
<1> QED BY <1>1, SteamKept, PTL

-----------------------------------------------------------------------------
(* Live goals (LiveGoals): what the widget knows of a goal that it takes   *)
(* for current, for any account and any window of events.                  *)

\* The newest value of a goal on the channel.
NewestOf(t, r) == <<t.account, t.changes[t.account][r]>>

\* An event not told yet brings it; or a gap will be seen.
Coming(t, b, r) ==
    \E i \in DOMAIN t.window :
        /\ t.window[i].seq > b.lastSeq /\ t.window[i].route = r
        /\ t.window[i].value = NewestOf(t, r)
Gap(t, b) == b.lastSeq < t.seq - Len(t.window)
Known(t, b, r, value) == value = NewestOf(t, r) \/ Gap(t, b) \/ Coming(t, b, r)

\* Values are of changes that were made.
Made(t, r, value) == value \in GoalValues => value[2] <= t.changes[value[1]][r]

\* The channel: the window holds the last events, in order.
ChannelTells(t) ==
    /\ t \in Channels
    /\ \A a \in Accounts, r \in GoalRoutes : t.changes[a][r] <= t.made
    /\ t.live => t.connected
    /\ Len(t.window) <= EventWindow
    /\ t.window = <<>> => t.seq = 0
    /\ \A i \in DOMAIN t.window :
         /\ t.window[i].seq = t.seq - Len(t.window) + i
         /\ t.window[i].route \in GoalRoutes =>
              t.window[i].value \in GoalValues /\ Made(t, t.window[i].route, t.window[i].value)

\* The board, whatever the events: its read is of the account connected.
BoardTells(t, b) ==
    /\ b \in Boards /\ b.lastSeq <= t.seq
    /\ ~b.live => b.current = {}
    /\ \A r \in GoalRoutes :
         /\ Made(t, r, b.learnt[r]) /\ Made(t, r, b.read.answers[r])
         /\ b.read.answers[r] # Waits => r \in b.read.routes
         /\ b.read.answers[r] \in GoalValues /\ b.read.same =>
              b.read.answers[r][1] = t.account
    /\ b.read.routes # {} /\ b.read.same => b.connected
    /\ b.read.at = "user" => b.read.routes \subseteq {"user"}
    /\ b.read.at = "data" => b.read.routes \subseteq DataRoutes

\* The events to come are of the account connected.
OfChannel(t, b) ==
    \A i \in DOMAIN t.window :
        t.window[i].seq > b.lastSeq /\ t.window[i].route \in GoalRoutes =>
            t.window[i].value[1] = t.account

\* Nothing is taken for current, nor will be by the read in flight.
Clean(b) ==
    /\ b.current = {}
    /\ \A r \in GoalRoutes : b.read.answers[r] \in GoalValues => ~b.read.fresh

\* What is current, or will be by the read in flight, is known.
AllKnown(t, b) ==
    \A r \in GoalRoutes :
        /\ r \in b.current => Known(t, b, r, b.learnt[r])
        /\ b.read.answers[r] \in GoalValues /\ b.read.same /\ b.read.fresh =>
             Known(t, b, r, b.learnt[r]) \/ Known(t, b, r, b.read.answers[r])

GoalsInv ==
    /\ ChannelTells(twitch) /\ BoardTells(twitch, board) /\ ~NothingAsked(board)
    /\ twitch.live /\ board.live => OfChannel(twitch, board) /\ AllKnown(twitch, board)

\* A step of the board that leaves what it knows: its read is the same, or one
\* that nothing has answered yet.
Onward(b, c) ==
    /\ c \in Boards
    /\ c.current = b.current /\ c.learnt = b.learnt /\ c.live = b.live
    /\ c.lastSeq = b.lastSeq /\ c.connected = b.connected
    /\ \/ c.read = b.read
       \/ /\ c.read.routes # {} => b.connected
          /\ c.read.at = "user" => c.read.routes \subseteq {"user"}
          /\ c.read.at = "data" => c.read.routes \subseteq DataRoutes
          /\ \A r \in AllRoutes : c.read.answers[r] = Waits

LEMMA OnwardSelf == ASSUME NEW b \in Boards PROVE Onward(b, b)
BY DEF Onward

LEMMA OnwardTwice ==
    ASSUME NEW b, NEW c, NEW d, Onward(b, c), Onward(c, d)
    PROVE  Onward(b, d)
BY DEF Onward

LEMMA NoRequestType ==
    /\ NoRequest \in GoalReads /\ NoRequest.routes = {} /\ NoRequest.at = "none"
    /\ NoRequest.answers = NoAnswers /\ NoAnswers \in [AllRoutes -> GoalValues \cup Refusals \cup {Waits}]
    /\ \A r \in AllRoutes : NoAnswers[r] = Waits
BY DEF NoRequest, NoAnswers, GoalReads

LEMMA BeginReadOnward ==
    ASSUME NEW b \in Boards
    PROVE  Onward(b, BeginRead(b))
<1>1. PICK d : d = [b EXCEPT !.read = [NoRequest EXCEPT !.at = "user"]]
  OBVIOUS
<1>2. /\ d \in Boards /\ d.read = [NoRequest EXCEPT !.at = "user"]
      /\ d.user = b.user /\ d.connected = b.connected /\ d.live = b.live
      /\ d.current = b.current /\ d.learnt = b.learnt /\ d.lastSeq = b.lastSeq
  <2>1. [NoRequest EXCEPT !.at = "user"] \in GoalReads
    BY NoRequestType DEF GoalReads
  <2> QED BY <1>1, <2>1 DEF Boards
<1>3. d.read.routes = {} /\ d.read.answers = NoAnswers
  BY <1>2, NoRequestType DEF GoalReads
<1>4. CASE ~b.connected
  <2>1. BeginRead(b) = d
    BY <1>1, <1>4 DEF BeginRead
  <2> QED BY <2>1, <1>2, <1>3, NoRequestType DEF Onward
<1>5. CASE b.connected /\ b.user = NoValue
  <2>1. PICK e : e = AskUser(d)
    OBVIOUS
  <2>2. /\ e \in Boards /\ e.read.answers = d.read.answers /\ e.read.routes = {"user"} /\ e.read.at = "user"
        /\ e.connected = d.connected /\ e.live = d.live
        /\ e.current = d.current /\ e.learnt = d.learnt /\ e.lastSeq = d.lastSeq
    <3>1. PICK q : q = [d.read EXCEPT !.routes = {"user"}]
      OBVIOUS
    <3>2. q \in GoalReads /\ q.answers = d.read.answers /\ q.routes = {"user"} /\ q.at = "user"
      BY <3>1, <1>2 DEF Boards, GoalReads, AllRoutes
    <3>3. e = [d EXCEPT !.read = q]
      BY <2>1, <3>1, <1>2 DEF AskUser, Boards, GoalReads
    <3> QED BY <3>2, <3>3, <1>2 DEF Boards
  <2>3. BeginRead(b) = e
    BY <1>1, <1>5, <2>1 DEF BeginRead
  <2>4. e.read.answers = NoAnswers
    BY <2>2, <1>3
  <2>5. Onward(b, e)
    BY <2>2, <2>4, <1>2, <1>5, NoRequestType DEF Onward
  <2> QED BY <2>3, <2>5
<1>6. CASE b.connected /\ b.user # NoValue
  <2>1. PICK e : e = AskData(d)
    OBVIOUS
  <2>2. /\ e \in Boards /\ e.read.answers = NoAnswers /\ e.read.at = "data" /\ e.read.routes \subseteq DataRoutes
        /\ e.connected = d.connected /\ e.live = d.live
        /\ e.current = d.current /\ e.learnt = d.learnt /\ e.lastSeq = d.lastSeq
    BY <2>1, <1>2, NoRequestType DEF AskData, Boards, GoalReads, AllRoutes
  <2>3. BeginRead(b) = e
    BY <1>1, <1>6, <2>1 DEF BeginRead
  <2> QED BY <2>2, <2>3, <1>2, <1>3, <1>6, NoRequestType DEF Onward
<1> QED BY <1>4, <1>5, <1>6 DEF Boards

LEMMA RefreshOnward ==
    ASSUME NEW b \in Boards
    PROVE  Onward(b, RefreshBoard(b))
<1>1. CASE b.read.at = "none"
  BY <1>1, BeginReadOnward DEF RefreshBoard
<1>2. CASE b.read.at # "none"
  <2>1. PICK c : c = [b EXCEPT !.pending = TRUE]
    OBVIOUS
  <2>2. Onward(b, c)
    BY <2>1 DEF Onward, Boards
  <2> QED BY <1>2, <2>1, <2>2 DEF RefreshBoard
<1> QED BY <1>1, <1>2

LEMMA FinishOnward ==
    ASSUME NEW b \in Boards
    PROVE  Onward(b, FinishRead(b))
<1>1. PICK c : c = [b EXCEPT !.read = NoRequest, !.pending = FALSE]
  OBVIOUS
<1>2. c \in Boards /\ Onward(b, c)
  BY <1>1, NoRequestType DEF Onward, Boards
<1>3. Onward(b, BeginRead(c))
  BY <1>2, BeginReadOnward, OnwardTwice
<1> QED BY <1>1, <1>2, <1>3 DEF FinishRead

LEMMA RestOnward ==
    ASSUME NEW b \in Boards
    PROVE  Onward(b, AtRest(b))
<1>1. PICK c : c = IF NothingAsked(b) THEN FinishRead(b) ELSE b
  OBVIOUS
<1>2. Onward(b, c) /\ c \in Boards
  BY <1>1, FinishOnward, OnwardSelf DEF Onward
<1>3. Onward(c, FinishRead(c)) /\ Onward(c, c)
  BY <1>2, FinishOnward, OnwardSelf
<1>4. AtRest(b) = IF NothingAsked(c) THEN FinishRead(c) ELSE c
  BY <1>1 DEF AtRest
<1> QED BY <1>2, <1>3, <1>4, OnwardTwice

LEMMA TellsOnward ==
    ASSUME NEW t, NEW b, NEW c, BoardTells(t, b), Onward(b, c)
    PROVE  BoardTells(t, c)
<1>1. c \in Boards /\ c.lastSeq <= t.seq /\ (~c.live => c.current = {})
  BY DEF BoardTells, Onward
<1>2. \A r \in GoalRoutes : r \in AllRoutes
  BY DEF AllRoutes, DataRoutes
<1>3. \A r \in GoalRoutes : Made(t, r, c.learnt[r])
  BY DEF BoardTells, Onward
<1>4. CASE c.read = b.read
  BY <1>1, <1>3, <1>4 DEF BoardTells, Onward
<1>5. CASE /\ c.read.routes # {} => b.connected
           /\ c.read.at = "user" => c.read.routes \subseteq {"user"}
           /\ c.read.at = "data" => c.read.routes \subseteq DataRoutes
           /\ \A r \in AllRoutes : c.read.answers[r] = Waits
  <2>1. \A r \in GoalRoutes : c.read.answers[r] = Waits /\ c.read.answers[r] \notin GoalValues
    BY <1>5, <1>2, GoalsAssumption
  <2>2. \A r \in GoalRoutes : Made(t, r, c.read.answers[r])
    BY <2>1 DEF Made
  <2> QED BY <1>1, <1>3, <1>5, <2>1, <2>2 DEF BoardTells, Onward
<1> QED BY <1>4, <1>5 DEF Onward

LEMMA KnownOnward ==
    ASSUME NEW t, NEW b, NEW c, Onward(b, c)
    PROVE  /\ Clean(b) => Clean(c)
           /\ OfChannel(t, b) => OfChannel(t, c)
           /\ AllKnown(t, b) => AllKnown(t, c)
<1>1. \A r \in GoalRoutes : r \in AllRoutes
  BY DEF AllRoutes, DataRoutes
<1>2. OfChannel(t, b) => OfChannel(t, c)
  BY DEF OfChannel, Onward
<1>3. \A r, value : Known(t, b, r, value) <=> Known(t, c, r, value)
  BY DEF Known, Gap, Coming, Onward
<1>4. CASE c.read = b.read
  BY <1>2, <1>3, <1>4 DEF Clean, AllKnown, Onward
<1>5. CASE \A r \in AllRoutes : c.read.answers[r] = Waits
  <2>1. \A r \in GoalRoutes : c.read.answers[r] \notin GoalValues
    BY <1>5, <1>1, GoalsAssumption
  <2> QED BY <1>2, <1>3, <2>1 DEF Clean, AllKnown, Onward
<1> QED BY <1>4, <1>5 DEF Onward

LEMMA NewerParts ==
    ASSUME NEW t, NEW r \in GoalRoutes, ChannelTells(t),
           NEW known \in GoalValues \cup {NoValue}, NEW value \in GoalValues,
           Made(t, r, known), Made(t, r, value)
    PROVE  /\ Newer(known, value) \in GoalValues
           /\ Made(t, r, Newer(known, value))
           /\ value = NewestOf(t, r) => Newer(known, value) = NewestOf(t, r)
           /\ known = NewestOf(t, r) /\ value[1] = t.account => Newer(known, value) = NewestOf(t, r)
<1>1. Newer(known, value) \in {known, value} /\ Newer(known, value) \in GoalValues
  BY DEF Newer
<1>2. /\ value = <<value[1], value[2]>> /\ value[1] \in Accounts /\ value[2] \in Nat
      /\ known # NoValue => known = <<known[1], known[2]>> /\ known[1] \in Accounts /\ known[2] \in Nat
      /\ NoValue \notin GoalValues
  BY GoalsAssumption DEF GoalValues
<1>3. NewestOf(t, r) \in GoalValues
  BY DEF NewestOf, ChannelTells, Channels, GoalValues
<1>4. ASSUME value = NewestOf(t, r) PROVE Newer(known, value) = NewestOf(t, r)
  <2>1. known # NoValue /\ known[1] = value[1] => known[2] <= value[2]
    BY <1>2, <1>4 DEF NewestOf, Made
  <2> QED BY <2>1, <1>2, <1>4 DEF Newer
<1>5. ASSUME known = NewestOf(t, r), value[1] = t.account PROVE Newer(known, value) = NewestOf(t, r)
  <2>1. value[2] <= known[2] /\ known[1] = value[1] /\ known # NoValue
    BY <1>2, <1>3, <1>5 DEF NewestOf, Made
  <2>2. CASE known[2] > value[2]
    BY <2>1, <2>2, <1>5 DEF Newer
  <2>3. CASE ~(known[2] > value[2])
    <3>1. known[2] = value[2]
      BY <2>1, <2>3, <1>2
    <3> QED BY <3>1, <2>1, <1>2, <1>5 DEF Newer
  <2> QED BY <2>2, <2>3
<1>6. Made(t, r, Newer(known, value))
  BY <1>1
<1> QED BY <1>1, <1>4, <1>5, <1>6

\* A read that started before events were missed brings nothing current.
LEMMA ResyncParts ==
    ASSUME NEW t, NEW b, BoardTells(t, b)
    PROVE  /\ BoardTells(t, Resync(b)) /\ Clean(Resync(b))
           /\ Resync(b).live = b.live /\ Resync(b).lastSeq = b.lastSeq
<1>1. PICK d : d = [b EXCEPT !.read.fresh = FALSE, !.current = {}]
  OBVIOUS
<1>2. b \in Boards
  BY DEF BoardTells
<1>3. PICK q : q = [b.read EXCEPT !.fresh = FALSE]
  OBVIOUS
<1>4. /\ q \in GoalReads /\ q.answers = b.read.answers /\ q.routes = b.read.routes
      /\ q.same = b.read.same /\ q.fresh = FALSE /\ q.at = b.read.at
  BY <1>2, <1>3 DEF Boards, GoalReads
<1>5. d = [b EXCEPT !.read = q, !.current = {}]
  BY <1>1, <1>2, <1>3 DEF Boards, GoalReads
<1>6. /\ d \in Boards /\ d.read = q /\ d.current = {} /\ d.learnt = b.learnt
      /\ d.live = b.live /\ d.lastSeq = b.lastSeq /\ d.connected = b.connected
  BY <1>2, <1>4, <1>5 DEF Boards
<1>7. BoardTells(t, d) /\ Clean(d)
  BY <1>4, <1>6 DEF BoardTells, Clean
<1>8. Resync(b) = RefreshBoard(d)
  BY <1>1 DEF Resync
<1>9. Onward(d, RefreshBoard(d))
  BY <1>6, RefreshOnward
<1> QED BY <1>6, <1>7, <1>8, <1>9, TellsOnward, KnownOnward DEF Onward

\* What the board knows once it has taken the number of an event, before what
\* the event says.
KnownWith(t, b, e, r, value) ==
    Known(t, b, r, value) \/ (e.route = r /\ e.value = NewestOf(t, r))
AllKnownWith(t, b, e) ==
    \A r \in GoalRoutes :
        /\ r \in b.current => KnownWith(t, b, e, r, b.learnt[r])
        /\ b.read.answers[r] \in GoalValues /\ b.read.same /\ b.read.fresh =>
             KnownWith(t, b, e, r, b.learnt[r]) \/ KnownWith(t, b, e, r, b.read.answers[r])

LEMMA EventTypes ==
    ASSUME NEW t, ChannelTells(t), NEW i \in DOMAIN t.window
    PROVE  /\ t.seq \in Nat /\ Len(t.window) \in Nat /\ i \in 1..Len(t.window)
           /\ t.window[i].seq \in 1..MaxEvents /\ t.window[i].seq = t.seq - Len(t.window) + i
           /\ t.window[i].seq <= t.seq
           /\ t.window[i].route \in DataRoutes
           /\ t.window[i].route # Follows => t.window[i].route \in GoalRoutes
           /\ t.window[i].route \in GoalRoutes =>
                t.window[i].value \in GoalValues /\ Made(t, t.window[i].route, t.window[i].value)
<1>1. /\ t.window \in Seq([seq : 1 .. MaxEvents, route : DataRoutes, value : GoalValues \cup {NoValue}])
      /\ t.seq \in Nat
  BY GoalsAssumption DEF ChannelTells, Channels
<1>2. DOMAIN t.window = 1..Len(t.window) /\ Len(t.window) \in Nat
  BY <1>1
<1>3. t.window[i] \in [seq : 1 .. MaxEvents, route : DataRoutes, value : GoalValues \cup {NoValue}]
  <2>1. PICK events : events = [seq : 1 .. MaxEvents, route : DataRoutes, value : GoalValues \cup {NoValue}]
    OBVIOUS
  <2>2. PICK w : w = t.window
    OBVIOUS
  <2>3. w \in Seq(events) /\ i \in 1..Len(w)
    BY <1>1, <1>2, <2>1, <2>2
  <2>4. w[i] \in events
    BY <2>3, ElementOfSeq
  <2> QED BY <2>1, <2>2, <2>4
<1>4. /\ t.window[i].seq = t.seq - Len(t.window) + i
      /\ t.window[i].route \in GoalRoutes =>
           t.window[i].value \in GoalValues /\ Made(t, t.window[i].route, t.window[i].value)
  BY DEF ChannelTells
<1>5. t.window[i].seq \in 1..MaxEvents /\ t.window[i].route \in DataRoutes
  BY <1>3
<1>6. t.window[i].seq <= t.seq
  BY <1>1, <1>2, <1>4
<1>7. t.window[i].route # Follows => t.window[i].route \in GoalRoutes
  BY <1>5 DEF DataRoutes
<1> QED BY <1>1, <1>2, <1>4, <1>5, <1>6, <1>7, Zenon

LEMMA OnEventParts ==
    ASSUME NEW t, NEW b, ChannelTells(t), BoardTells(t, b), NEW i \in DOMAIN t.window
    PROVE  LET e == t.window[i]
               c == OnEvent(b, e)
           IN  /\ BoardTells(t, c) /\ c.live = b.live /\ c.lastSeq = b.lastSeq
               /\ Clean(b) => Clean(c)
               /\ OfChannel(t, b) => OfChannel(t, c)
               /\ AllKnownWith(t, b, e) /\ (e.route \in GoalRoutes => e.value[1] = t.account)
                    => AllKnown(t, c)
<1>1. PICK e : e = t.window[i]
  OBVIOUS
<1>2. /\ e.route \in DataRoutes /\ (e.route # Follows => e.route \in GoalRoutes)
      /\ e.route \in GoalRoutes => e.value \in GoalValues /\ Made(t, e.route, e.value)
  BY <1>1, EventTypes
<1>3. b \in Boards
  BY DEF BoardTells
<1>4. PICK c : c = OnEvent(b, e)
  OBVIOUS
<1>5. ASSUME NEW r \in GoalRoutes, NEW value, e.route # r
      PROVE  KnownWith(t, b, e, r, value) => Known(t, b, r, value)
  BY <1>5 DEF KnownWith
<1>6. CASE e.route = Follows
  <2>1. PICK d : d = [b EXCEPT !.current = @ \ {Follows}]
    OBVIOUS
  <2>2. /\ d \in Boards /\ d.current = b.current \ {Follows} /\ d.read = b.read /\ d.learnt = b.learnt
        /\ d.live = b.live /\ d.lastSeq = b.lastSeq /\ d.connected = b.connected
    BY <1>3, <2>1 DEF Boards
  <2>3. BoardTells(t, d)
    BY <2>2 DEF BoardTells
  <2>4. Clean(b) => Clean(d)
    BY <2>2 DEF Clean
  <2>5. OfChannel(t, b) => OfChannel(t, d)
    BY <2>2 DEF OfChannel
  <2>6. \A r, value : Known(t, b, r, value) => Known(t, d, r, value)
    BY <2>2 DEF Known, Gap, Coming
  <2>7. \A r \in GoalRoutes : e.route # r
    BY <1>6, GoalsAssumption
  <2>8. AllKnownWith(t, b, e) => AllKnown(t, d)
    BY <2>2, <2>6, <2>7, <1>5 DEF AllKnownWith, AllKnown
  <2>9. c = RefreshBoard(d) /\ Onward(d, c)
    BY <1>4, <1>6, <2>1, <2>2, RefreshOnward DEF OnEvent
  <2>10. BoardTells(t, c) /\ c.live = b.live /\ c.lastSeq = b.lastSeq
    BY <2>2, <2>3, <2>9, TellsOnward DEF Onward
  <2> QED BY <1>1, <1>4, <2>4, <2>5, <2>8, <2>9, <2>10, KnownOnward
<1>7. CASE e.route # Follows
  <2> DEFINE r == e.route
  <2>1. r \in GoalRoutes /\ e.value \in GoalValues /\ Made(t, r, e.value)
    BY <1>2, <1>7
  <2>2. b.learnt \in [GoalRoutes -> GoalValues \cup {NoValue}] /\ b.shown \in [GoalRoutes -> GoalValues \cup {NoValue}]
    BY <1>3 DEF Boards
  <2>3. PICK l : l = [b.learnt EXCEPT ![r] = Newer(b.learnt[r], e.value)]
    OBVIOUS
  <2>4. PICK s : s = [b.shown EXCEPT ![r] = e.value]
    OBVIOUS
  <2>5. c = [b EXCEPT !.shown = s, !.learnt = l]
    BY <1>3, <1>4, <1>7, <2>3, <2>4 DEF OnEvent, Learn, Boards
  <2>6. /\ Newer(b.learnt[r], e.value) \in GoalValues /\ Made(t, r, Newer(b.learnt[r], e.value))
        /\ e.value = NewestOf(t, r) => Newer(b.learnt[r], e.value) = NewestOf(t, r)
        /\ b.learnt[r] = NewestOf(t, r) /\ e.value[1] = t.account =>
             Newer(b.learnt[r], e.value) = NewestOf(t, r)
    <3>1. Made(t, r, b.learnt[r]) /\ b.learnt[r] \in GoalValues \cup {NoValue}
      BY <2>1, <2>2 DEF BoardTells
    <3> HIDE DEF r
    <3> QED BY <2>1, <3>1, NewerParts
  <2>7. /\ l \in [GoalRoutes -> GoalValues \cup {NoValue}] /\ s \in [GoalRoutes -> GoalValues \cup {NoValue}]
        /\ l[r] = Newer(b.learnt[r], e.value)
        /\ \A q \in GoalRoutes : q # r => l[q] = b.learnt[q]
    BY <2>1, <2>2, <2>3, <2>4, <2>6
  <2> HIDE DEF r
  <2>8. /\ c \in Boards /\ c.current = b.current /\ c.read = b.read /\ c.learnt = l
        /\ c.live = b.live /\ c.lastSeq = b.lastSeq /\ c.connected = b.connected
    BY <1>3, <2>5, <2>7 DEF Boards
  <2>9. \A q \in GoalRoutes : Made(t, q, l[q])
    BY <2>6, <2>7 DEF BoardTells
  <2>10. BoardTells(t, c)
    BY <2>8, <2>9 DEF BoardTells
  <2>11. (Clean(b) => Clean(c)) /\ (OfChannel(t, b) => OfChannel(t, c))
    BY <2>8 DEF Clean, OfChannel
  <2>12. \A q, value : Known(t, b, q, value) => Known(t, c, q, value)
    BY <2>8 DEF Known, Gap, Coming
  <2>13. ASSUME AllKnownWith(t, b, e), e.value[1] = t.account PROVE AllKnown(t, c)
    <3>1. ASSUME NEW q \in GoalRoutes, KnownWith(t, b, e, q, b.learnt[q])
          PROVE  Known(t, c, q, l[q])
      <4>1. CASE q # r
        BY <4>1, <3>1, <1>5, <2>7, <2>12 DEF r
      <4>2. CASE q = r
        <5>1. CASE b.learnt[r] = NewestOf(t, r) \/ e.value = NewestOf(t, r)
          BY <5>1, <4>2, <2>6, <2>7, <2>13 DEF Known
        <5>2. CASE Gap(t, b) \/ Coming(t, b, q)
          BY <5>2, <2>8 DEF Known, Gap, Coming
        <5> QED BY <3>1, <4>2, <5>1, <5>2 DEF KnownWith, Known
      <4> QED BY <4>1, <4>2
    <3>2. ASSUME NEW q \in GoalRoutes, NEW value, KnownWith(t, b, e, q, value)
          PROVE  Known(t, c, q, value) \/ Known(t, c, q, l[q])
      <4>1. CASE Known(t, b, q, value)
        BY <4>1, <2>12
      <4>2. CASE e.route = q /\ e.value = NewestOf(t, q)
        BY <4>2, <2>6, <2>7 DEF Known, r
      <4> QED BY <3>2, <4>1, <4>2 DEF KnownWith
    <3> QED BY <2>8, <2>13, <3>1, <3>2 DEF AllKnownWith, AllKnown
  <2> QED BY <1>1, <1>4, <2>1, <2>8, <2>10, <2>11, <2>13 DEF r
<1> QED BY <1>6, <1>7

\* While an update is handled, event by event.
Follow(t, b) ==
    /\ BoardTells(t, b) /\ b.live = t.live
    /\ t.live => Clean(b) \/ (OfChannel(t, b) /\ AllKnown(t, b))

LEMMA HandleEventParts ==
    ASSUME NEW t, NEW b, ChannelTells(t), Follow(t, b), NEW i \in DOMAIN t.window
    PROVE  LET c == HandleEvent(b, t.window[i]) IN
           Follow(t, c) /\ c.lastSeq >= t.window[i].seq /\ c.lastSeq >= b.lastSeq
<1>1. PICK e : e = t.window[i]
  OBVIOUS
<1>2. /\ t.seq \in Nat /\ Len(t.window) \in Nat /\ i \in 1..Len(t.window)
      /\ e.seq \in 1..MaxEvents /\ e.seq = t.seq - Len(t.window) + i /\ e.seq <= t.seq
  BY <1>1, EventTypes
<1>3. b \in Boards /\ b.lastSeq \in Nat
  BY GoalsAssumption DEF Follow, BoardTells, Boards
<1>4. CASE e.seq <= b.lastSeq
  <2>1. HandleEvent(b, e) = b
    BY <1>4 DEF HandleEvent
  <2> QED BY <1>1, <1>2, <1>3, <1>4, <2>1
<1>5. CASE ~(e.seq <= b.lastSeq)
  <2>1. PICK f : f = IF e.seq > b.lastSeq + 1 THEN Resync(b) ELSE b
    OBVIOUS
  <2>2. /\ BoardTells(t, f) /\ f.live = b.live /\ f.lastSeq = b.lastSeq
        /\ e.seq > b.lastSeq + 1 => Clean(f)
        /\ Clean(b) => Clean(f)
        /\ ~Clean(f) => f = b
    BY <2>1, ResyncParts DEF Follow
  <2>3. PICK g : g = [f EXCEPT !.lastSeq = e.seq]
    OBVIOUS
  <2>4. /\ g \in Boards /\ g.lastSeq = e.seq /\ g.live = f.live /\ g.current = f.current
        /\ g.read = f.read /\ g.learnt = f.learnt /\ g.connected = f.connected
    <3>1. f \in Boards /\ e.seq \in 0..MaxEvents
      BY <2>2, <1>2, GoalsAssumption DEF BoardTells
    <3> QED BY <3>1, <2>3 DEF Boards
  <2>5. BoardTells(t, g)
    BY <2>2, <2>4, <1>2 DEF BoardTells
  <2>6. Clean(f) => Clean(g)
    BY <2>4 DEF Clean
  <2>7. ASSUME t.live, ~Clean(f)
        PROVE  OfChannel(t, g) /\ AllKnownWith(t, g, e) /\ (e.route \in GoalRoutes => e.value[1] = t.account)
    <3>1. f = b /\ OfChannel(t, b) /\ AllKnown(t, b) /\ e.seq = b.lastSeq + 1
      BY <2>2, <2>7, <1>2, <1>3, <1>5 DEF Follow
    <3>2. \A j \in DOMAIN t.window : t.window[j].seq \in Nat
      BY EventTypes
    <3>3. OfChannel(t, g)
      BY <3>1, <3>2, <2>4, <1>2, <1>3 DEF OfChannel
    <3>4. e.route \in GoalRoutes => e.value[1] = t.account
      BY <3>1, <1>1, <1>5, <1>2, <1>3 DEF OfChannel
    <3>5. ASSUME NEW r, NEW value, Known(t, b, r, value) PROVE KnownWith(t, g, e, r, value)
      <4>1. ~Gap(t, b)
        BY <3>1, <1>2, <1>3 DEF Gap
      <4>2. CASE Coming(t, b, r)
        <5>1. PICK j \in DOMAIN t.window :
                /\ t.window[j].seq > b.lastSeq /\ t.window[j].route = r
                /\ t.window[j].value = NewestOf(t, r)
          BY <4>2 DEF Coming
        <5>2. CASE j = i
          BY <5>1, <5>2, <1>1 DEF KnownWith
        <5>3. CASE j # i
          <6>1. t.window[j].seq = t.seq - Len(t.window) + j /\ j \in Nat
            BY EventTypes
          <6>2. t.window[j].seq > e.seq
            BY <6>1, <5>1, <5>3, <3>1, <1>2, <1>3
          <6> QED BY <5>1, <6>2, <2>4 DEF KnownWith, Known, Coming
        <5> QED BY <5>2, <5>3
      <4>3. CASE value = NewestOf(t, r)
        BY <4>3 DEF KnownWith, Known
      <4> QED BY <3>5, <4>1, <4>2, <4>3 DEF Known
    <3>6. AllKnownWith(t, g, e)
      BY <3>1, <3>5, <2>4 DEF AllKnown, AllKnownWith
    <3> QED BY <3>3, <3>4, <3>6
  <2>8. PICK c : c = OnEvent(g, e)
    OBVIOUS
  <2>9. HandleEvent(b, e) = c
    BY <1>5, <2>1, <2>3, <2>8 DEF HandleEvent
  <2>10. /\ BoardTells(t, c) /\ c.live = g.live /\ c.lastSeq = g.lastSeq
         /\ Clean(g) => Clean(c)
         /\ OfChannel(t, g) => OfChannel(t, c)
         /\ AllKnownWith(t, g, e) /\ (e.route \in GoalRoutes => e.value[1] = t.account)
              => AllKnown(t, c)
    BY <2>5, <2>8, <1>1, OnEventParts
  <2>11. c.live = t.live
    BY <2>10, <2>4, <2>2 DEF Follow
  <2>12. t.live => Clean(c) \/ (OfChannel(t, c) /\ AllKnown(t, c))
    BY <2>6, <2>7, <2>10
  <2>13. c.lastSeq = e.seq /\ c.lastSeq >= b.lastSeq
    BY <2>10, <2>4, <1>5, <1>2, <1>3
  <2>14. c.lastSeq >= e.seq
    BY <2>13, <1>2
  <2> QED BY <1>1, <2>9, <2>10, <2>11, <2>12, <2>13, <2>14 DEF Follow
<1> QED BY <1>4, <1>5

\* Induction over the naturals, for sets of them.
LEMMA NatSetInduction ==
    ASSUME NEW S \in SUBSET Nat, 0 \in S, \A n \in S : n + 1 \in S
    PROVE  S = Nat
<1>1. SUFFICES ASSUME Nat \ S # {} PROVE FALSE
  OBVIOUS
<1>2. PICK R : R = OpToRel(<, Nat)
  OBVIOUS
<1>3. IsWellFoundedOn(R, Nat)
  BY <1>2, NatLessThanWellFounded
<1>4. PICK x \in Nat \ S : \A y \in Nat \ S : ~(<<y, x>> \in R)
  <2>1. Nat \ S \subseteq Nat
    OBVIOUS
  <2> QED BY <1>1, <1>3, <2>1, WFMin
<1>5. x # 0 /\ x - 1 \in Nat /\ x - 1 < x /\ (x - 1) + 1 = x
  BY <1>4
<1>6. <<x - 1, x>> \in R
  BY <1>2, <1>4, <1>5 DEF OpToRel
<1>7. x - 1 \in S
  BY <1>4, <1>5, <1>6
<1> QED BY <1>4, <1>5, <1>7

\* `Told` is what its definition says, for windows of any length.
LEMMA ToldSteps ==
    ASSUME Len(twitch.window) \in Nat
    PROVE  /\ Told[0] = TakeStatus(board)
           /\ \A i \in 1..Len(twitch.window) : Told[i] = HandleEvent(Told[i - 1], twitch.window[i])
<1> DEFINE Step(f, i) == IF i = 0 THEN TakeStatus(board) ELSE HandleEvent(f[i - 1], twitch.window[i])
           S == {n \in Nat : \E f : f = [i \in 0..n |-> Step(f, i)]}
<1>1. 0 \in S
  <2>1. PICK f : f = [i \in 0..0 |-> TakeStatus(board)]
    OBVIOUS
  <2>2. f = [i \in 0..0 |-> Step(f, i)]
    BY <2>1
  <2> QED BY <2>2
<1>2. ASSUME NEW n \in S PROVE n + 1 \in S
  <2>1. PICK f : f = [i \in 0..n |-> Step(f, i)]
    OBVIOUS
  <2>2. PICK g : g = [i \in 0..n + 1 |-> IF i <= n THEN f[i] ELSE HandleEvent(f[n], twitch.window[n + 1])]
    OBVIOUS
  <2>3. n \in Nat
    OBVIOUS
  <2>4. \A i \in 0..n + 1 : g[i] = Step(g, i)
    <3>1. ASSUME NEW i \in 0..n + 1, i # 0 PROVE g[i - 1] = f[i - 1]
      BY <2>2, <2>3, <3>1
    <3>2. ASSUME NEW i \in 0..n + 1, i <= n PROVE g[i] = Step(g, i)
      <4>1. g[i] = f[i] /\ f[i] = Step(f, i)
        BY <2>1, <2>2, <2>3, <3>2
      <4> QED BY <4>1, <3>1
    <3>3. g[n + 1] = Step(g, n + 1)
      <4>1. g[n + 1] = HandleEvent(f[n], twitch.window[n + 1]) /\ n + 1 # 0 /\ (n + 1) - 1 = n
        BY <2>2, <2>3
      <4>2. g[n] = f[n]
        BY <2>2, <2>3
      <4> QED BY <4>1, <4>2
    <3>4. \A i \in 0..n + 1 : i <= n \/ i = n + 1
      BY <2>3
    <3> HIDE DEF Step
    <3> QED BY <3>2, <3>3, <3>4
  <2>5. g = [i \in 0..n + 1 |-> Step(g, i)]
    <3> HIDE DEF Step
    <3> QED BY <2>2, <2>4
  <2>6. n + 1 \in Nat
    BY <2>3
  <2> QED BY <2>5, <2>6
<1>3. S = Nat
  <2> HIDE DEF S
  <2>1. S \in SUBSET Nat
    BY DEF S
  <2> QED BY <1>1, <1>2, <2>1, NatSetInduction
<1>4. \E f : f = [i \in 0..Len(twitch.window) |-> Step(f, i)]
  <2>1. Len(twitch.window) \in S
    <3> HIDE DEF S
    <3> QED BY <1>3
  <2> QED BY <2>1
<1>5. Told = CHOOSE f : f = [i \in 0..Len(twitch.window) |-> Step(f, i)]
  BY DEF Told
<1>6. Told = [i \in 0..Len(twitch.window) |-> Step(Told, i)]
  <2> HIDE DEF Step
  <2> QED BY <1>4, <1>5
<1>7. \A i \in 0..Len(twitch.window) : Told[i] = Step(Told, i)
  <2> HIDE DEF Step
  <2>1. PICK f : f = Told
    OBVIOUS
  <2>2. f = [i \in 0..Len(twitch.window) |-> Step(f, i)]
    BY <1>6, <2>1
  <2> QED BY <2>1, <2>2
<1>8. 0 \in 0..Len(twitch.window) /\ \A i \in 1..Len(twitch.window) : i \in 0..Len(twitch.window) /\ i # 0
  OBVIOUS
<1> QED BY <1>7, <1>8

LEMMA StatusFollows ==
    ASSUME GoalsInv
    PROVE  Follow(twitch, TakeStatus(board))
<1>1. board \in Boards /\ BoardTells(twitch, board) /\ twitch.live \in BOOLEAN /\ board.live \in BOOLEAN
  BY DEF GoalsInv, BoardTells, ChannelTells, Channels, Boards
<1>2. CASE twitch.live /\ ~board.live
  <2>1. PICK d : d = [board EXCEPT !.live = TRUE]
    OBVIOUS
  <2>2. /\ d \in Boards /\ d.live = TRUE /\ d.current = board.current /\ d.read = board.read
        /\ d.learnt = board.learnt /\ d.lastSeq = board.lastSeq /\ d.connected = board.connected
    BY <1>1, <2>1 DEF Boards
  <2>3. BoardTells(twitch, d)
    BY <1>1, <2>2 DEF BoardTells
  <2>4. TakeStatus(board) = Resync(d)
    BY <1>2, <2>1 DEF TakeStatus
  <2> QED BY <1>2, <2>2, <2>3, <2>4, ResyncParts DEF Follow
<1>3. CASE ~twitch.live /\ board.live
  <2>1. PICK d : d = [board EXCEPT !.live = FALSE, !.current = {}]
    OBVIOUS
  <2>2. /\ d \in Boards /\ d.live = FALSE /\ d.current = {} /\ d.read = board.read
        /\ d.learnt = board.learnt /\ d.lastSeq = board.lastSeq /\ d.connected = board.connected
    BY <1>1, <2>1 DEF Boards
  <2>3. BoardTells(twitch, d)
    BY <1>1, <2>2 DEF BoardTells
  <2>4. TakeStatus(board) = d
    BY <1>3, <2>1 DEF TakeStatus
  <2>5. twitch.live = FALSE
    BY <1>1, <1>3
  <2> QED BY <2>2, <2>3, <2>4, <2>5 DEF Follow
<1>4. CASE twitch.live = board.live
  <2>1. TakeStatus(board) = board
    BY <1>1, <1>4 DEF TakeStatus
  <2> QED BY <1>1, <1>4, <2>1 DEF Follow, GoalsInv
<1> QED BY <1>1, <1>2, <1>3, <1>4

LEMMA ToldFollows ==
    ASSUME GoalsInv
    PROVE  /\ Follow(twitch, Told[Len(twitch.window)])
           /\ Told[Len(twitch.window)].lastSeq = twitch.seq
<1>1. /\ ChannelTells(twitch) /\ twitch.seq \in Nat
      /\ twitch.window \in Seq([seq : 1 .. MaxEvents, route : DataRoutes, value : GoalValues \cup {NoValue}])
  BY GoalsAssumption DEF GoalsInv, ChannelTells, Channels
<1>2. PICK n \in Nat : n = Len(twitch.window)
  BY <1>1
<1>3. DOMAIN twitch.window = 1..n
  BY <1>1, <1>2
<1>4. Told[0] = TakeStatus(board) /\ \A i \in 1..n : Told[i] = HandleEvent(Told[i - 1], twitch.window[i])
  BY <1>2, ToldSteps
<1> DEFINE Good(i) == /\ Follow(twitch, Told[i])
                      /\ i > 0 => Told[i].lastSeq >= twitch.window[i].seq
           S == {i \in Nat : i <= n => Good(i)}
<1>5. 0 \in S
  BY <1>4, StatusFollows
<1>6. ASSUME NEW i \in S PROVE i + 1 \in S
  <2>1. i \in Nat /\ i + 1 \in Nat /\ (i + 1) - 1 = i
    OBVIOUS
  <2>2. CASE i + 1 <= n
    <3>1. i + 1 \in 1..n /\ i <= n
      BY <2>1, <2>2
    <3>2. Follow(twitch, Told[i])
      BY <3>1
    <3>3. Told[i + 1] = HandleEvent(Told[i], twitch.window[i + 1])
      BY <1>4, <2>1, <3>1
    <3>4. Good(i + 1)
      BY <1>1, <1>3, <3>1, <3>2, <3>3, HandleEventParts
    <3> HIDE DEF Good
    <3> QED BY <2>1, <3>4
  <2> HIDE DEF Good
  <2> QED BY <2>1, <2>2
<1>7. Good(n)
  <2> HIDE DEF Good
  <2>1. S \in SUBSET Nat
    OBVIOUS
  <2>2. n \in S
    <3> HIDE DEF S
    <3> QED BY <1>5, <1>6, <2>1, NatSetInduction
  <2> QED BY <2>2
<1>8. Told[n].lastSeq \in Nat /\ Told[n].lastSeq <= twitch.seq
  BY <1>7, GoalsAssumption DEF Follow, BoardTells, Boards
<1>9. CASE n = 0
  <2>1. twitch.window = <<>>
    BY <1>1, <1>2, <1>9, EmptySeq
  <2>2. twitch.seq = 0
    BY <1>1, <2>1 DEF ChannelTells
  <2> QED BY <1>2, <1>7, <1>8, <2>2
<1>10. CASE n > 0
  <2>1. twitch.window[n].seq = twitch.seq - n + n
    BY <1>1, <1>2, <1>3, <1>10, EventTypes
  <2>2. twitch.window[n].seq = twitch.seq
    BY <2>1, <1>1
  <2>3. Told[n].lastSeq >= twitch.seq
    BY <2>2, <1>7, <1>10
  <2>4. Told[n].lastSeq = twitch.seq
    BY <2>3, <1>8, <1>1
  <2> QED BY <1>2, <1>7, <2>4
<1> QED BY <1>9, <1>10

LEMMA RestAsks == ASSUME NEW b \in Boards PROVE ~NothingAsked(AtRest(b))
<1>1. PICK c : c = IF NothingAsked(b) THEN FinishRead(b) ELSE b
  OBVIOUS
<1>2. AtRest(b) = IF NothingAsked(c) THEN FinishRead(c) ELSE c
  BY <1>1 DEF AtRest
<1>3. CASE ~NothingAsked(c)
  BY <1>2, <1>3
<1>4. CASE NothingAsked(c)
  <2>1. NothingAsked(b) /\ c = FinishRead(b)
    BY <1>1, <1>4
  <2>2. PICK f : f = [b EXCEPT !.read = NoRequest, !.pending = FALSE]
    OBVIOUS
  <2>3. f \in Boards /\ f.pending = FALSE /\ f.read = NoRequest
    BY <2>2, NoRequestType DEF Boards
  <2>4. c = IF b.pending THEN BeginRead(f) ELSE f
    BY <2>1, <2>2 DEF FinishRead
  <2>5. BeginRead(f).pending = FALSE
    BY <2>3 DEF BeginRead, AskUser, AskData, Boards
  <2>6. c.pending = FALSE
    BY <2>3, <2>4, <2>5
  <2>7. c \in Boards
    BY <2>1, FinishOnward DEF Onward
  <2>8. FinishRead(c) = [c EXCEPT !.read = NoRequest, !.pending = FALSE]
    BY <2>6 DEF FinishRead
  <2>9. FinishRead(c).read.at = "none"
    BY <2>7, <2>8, NoRequestType DEF Boards
  <2> QED BY <1>2, <1>4, <2>9 DEF NothingAsked
<1> QED BY <1>3, <1>4

\* A step of the board that leaves the channel, up to its rest.
LEMMA BoardMoves ==
    ASSUME ChannelTells(twitch), NEW b, BoardTells(twitch, b), b \in Boards,
           twitch.live /\ b.live => OfChannel(twitch, b) /\ AllKnown(twitch, b),
           board' = AtRest(b), UNCHANGED twitch
    PROVE  GoalsInv'
<1>1. PICK t : t = twitch
  OBVIOUS
<1>2. PICK c : c = AtRest(b)
  OBVIOUS
<1>3. Onward(b, c) /\ ~NothingAsked(c)
  BY <1>2, RestOnward, RestAsks
<1>4. BoardTells(t, c)
  BY <1>1, <1>3, TellsOnward
<1>5. t.live /\ c.live => OfChannel(t, c) /\ AllKnown(t, c)
  <2>1. c.live = b.live
    BY <1>3 DEF Onward
  <2> QED BY <1>1, <1>3, <2>1, KnownOnward
<1>6. twitch' = t /\ board' = c
  BY <1>1, <1>2
<1> QED BY <1>1, <1>3, <1>4, <1>5, <1>6 DEF GoalsInv

LEMMA BeatStep == GoalsInv /\ Beat => GoalsInv'
<1> SUFFICES ASSUME GoalsInv, Beat PROVE GoalsInv'
  OBVIOUS
<1>1. PICK b : b = RefreshBoard(board)
  OBVIOUS
<1>2. Onward(board, b)
  BY <1>1, RefreshOnward DEF GoalsInv, BoardTells
<1>3. BoardTells(twitch, b) /\ b \in Boards /\ b.live = board.live
  BY <1>2, TellsOnward DEF GoalsInv, Onward
<1>4. twitch.live /\ b.live => OfChannel(twitch, b) /\ AllKnown(twitch, b)
  BY <1>2, <1>3, KnownOnward DEF GoalsInv
<1>5. board' = AtRest(b) /\ UNCHANGED twitch
  BY <1>1 DEF Beat
<1> QED BY <1>3, <1>4, <1>5, BoardMoves DEF GoalsInv

LEMMA EventsUpdateStep == GoalsInv /\ EventsUpdate => GoalsInv'
<1> SUFFICES ASSUME GoalsInv, EventsUpdate PROVE GoalsInv'
  OBVIOUS
<1>1. PICK b : b = Told[Len(twitch.window)]
  OBVIOUS
<1>2. Follow(twitch, b) /\ b.lastSeq = twitch.seq
  BY <1>1, ToldFollows
<1>3. BoardTells(twitch, b) /\ b \in Boards
  BY <1>2 DEF Follow, BoardTells
<1>4. OfChannel(twitch, b)
  <2>1. \A i \in DOMAIN twitch.window : ~(twitch.window[i].seq > b.lastSeq)
    <3> SUFFICES ASSUME NEW i \in DOMAIN twitch.window PROVE ~(twitch.window[i].seq > b.lastSeq)
      OBVIOUS
    <3>1. twitch.window[i].seq <= twitch.seq /\ twitch.seq \in Nat /\ twitch.window[i].seq \in 1..MaxEvents
      BY EventTypes DEF GoalsInv
    <3> QED BY <3>1, <1>2
  <2> QED BY <2>1 DEF OfChannel
<1>5. Clean(b) => AllKnown(twitch, b)
  BY DEF Clean, AllKnown
<1>6. twitch.live /\ b.live => AllKnown(twitch, b)
  BY <1>2, <1>5 DEF Follow
<1>7. board' = AtRest(b) /\ UNCHANGED twitch
  BY <1>1 DEF EventsUpdate
<1> QED BY <1>3, <1>4, <1>6, <1>7, BoardMoves DEF GoalsInv

LEMMA AccountUpdateStep == GoalsInv /\ AccountUpdate => GoalsInv'
<1> SUFFICES ASSUME GoalsInv, AccountUpdate PROVE GoalsInv'
  OBVIOUS
<1>1. PICK q : q = [board.read EXCEPT !.same = FALSE]
  OBVIOUS
<1>2. PICK d : d = [board EXCEPT !.connected = twitch.connected, !.read = q]
  OBVIOUS
<1>3. board \in Boards /\ twitch.connected \in BOOLEAN /\ BoardTells(twitch, board)
  BY DEF GoalsInv, BoardTells, ChannelTells, Channels
<1>4. /\ q \in GoalReads /\ q.answers = board.read.answers /\ q.routes = board.read.routes
      /\ q.same = FALSE /\ q.fresh = board.read.fresh /\ q.at = board.read.at
  BY <1>1, <1>3 DEF Boards, GoalReads
<1>5. d = [board EXCEPT !.connected = twitch.connected, !.read.same = FALSE]
  BY <1>1, <1>2, <1>3 DEF Boards, GoalReads
<1>6. /\ d \in Boards /\ d.read = q /\ d.current = board.current /\ d.learnt = board.learnt
      /\ d.live = board.live /\ d.lastSeq = board.lastSeq
  BY <1>2, <1>3, <1>4 DEF Boards
<1>7. BoardTells(twitch, d)
  BY <1>3, <1>4, <1>6 DEF BoardTells
<1>8. \A r, value : Known(twitch, board, r, value) => Known(twitch, d, r, value)
  BY <1>6 DEF Known, Gap, Coming
<1>9. twitch.live /\ d.live => OfChannel(twitch, d) /\ AllKnown(twitch, d)
  BY <1>4, <1>6, <1>8 DEF GoalsInv, OfChannel, AllKnown
<1>10. CASE twitch.connected
  <2>1. PICK e : e = [d EXCEPT !.user = NoValue]
    OBVIOUS
  <2>2. e \in Boards /\ Onward(d, e)
    BY <1>6, <2>1 DEF Onward, Boards
  <2>3. PICK f : f = RefreshBoard(e)
    OBVIOUS
  <2>4. Onward(d, f)
    BY <2>2, <2>3, RefreshOnward, OnwardTwice
  <2>5. BoardTells(twitch, f) /\ f \in Boards /\ f.live = d.live
    BY <1>7, <2>4, TellsOnward DEF Onward
  <2>6. twitch.live /\ f.live => OfChannel(twitch, f) /\ AllKnown(twitch, f)
    BY <1>9, <2>4, <2>5, KnownOnward
  <2>7. board' = AtRest(f) /\ UNCHANGED twitch
    BY <1>5, <1>10, <2>1, <2>3 DEF AccountUpdate
  <2> QED BY <2>5, <2>6, <2>7, BoardMoves DEF GoalsInv
<1>11. CASE ~twitch.connected
  <2>1. PICK t : t = twitch
    OBVIOUS
  <2>2. board' = d /\ twitch' = t
    BY <1>5, <1>11, <2>1 DEF AccountUpdate
  <2>3. ~NothingAsked(d)
    BY <1>4, <1>6 DEF GoalsInv, NothingAsked
  <2> QED BY <1>7, <1>9, <2>1, <2>2, <2>3 DEF GoalsInv
<1> QED BY <1>10, <1>11

LEMMA ServeReadStep == GoalsInv /\ ServeRead => GoalsInv'
<1> SUFFICES ASSUME GoalsInv, ServeRead PROVE GoalsInv'
  OBVIOUS
<1>1. PICK failing \in SUBSET board.read.routes, how \in Refusals :
        /\ (twitch.connected /\ board.read.same) \/ failing = board.read.routes
        /\ how = Elsewhere => board.read.same /\ board.read.at = "data"
        /\ board' = [board EXCEPT !.read.answers =
             [r \in AllRoutes |-> IF r \notin board.read.routes THEN Waits
                                 ELSE IF r \in failing THEN how ELSE AnswerTo(r)]]
  BY DEF ServeRead
<1>2. PICK answers : answers = [r \in AllRoutes |-> IF r \notin board.read.routes THEN Waits
                                 ELSE IF r \in failing THEN how ELSE AnswerTo(r)]
  OBVIOUS
<1>3. PICK t : t = twitch
  OBVIOUS
<1>4. PICK q : q = [board.read EXCEPT !.answers = answers]
  OBVIOUS
<1>5. PICK b : b = [board EXCEPT !.read = q]
  OBVIOUS
<1>6. ChannelTells(t) /\ board \in Boards /\ BoardTells(t, board)
  BY <1>3 DEF GoalsInv, BoardTells
<1>7. /\ t.account \in Accounts /\ 0 \in 0..MaxChanges
      /\ \A r \in GoalRoutes : t.changes[t.account][r] \in 0..MaxChanges
  BY <1>6, GoalsAssumption DEF ChannelTells, Channels
<1>8. \A r \in GoalRoutes : r # "user" /\ r # Follows /\ r \in AllRoutes
  BY GoalsAssumption DEF AllRoutes, DataRoutes
<1>9. \A r \in GoalRoutes : AnswerTo(r) \in {Elsewhere, NewestOf(t, r)}
  BY <1>3, <1>8 DEF AnswerTo, ChannelValue, NewestOf
<1>10. \A r \in GoalRoutes : NewestOf(t, r) \in GoalValues
  BY <1>7 DEF NewestOf, GoalValues
<1>11. \A r \in AllRoutes : AnswerTo(r) \in GoalValues \cup Refusals
  <2> SUFFICES ASSUME NEW r \in AllRoutes PROVE AnswerTo(r) \in GoalValues \cup Refusals
    OBVIOUS
  <2>1. CASE r \in GoalRoutes
    BY <2>1, <1>9, <1>10 DEF Refusals
  <2>2. CASE r \in {"user", Follows}
    <3>1. <<t.account, 0>> \in GoalValues
      BY <1>7 DEF GoalValues
    <3>2. AnswerTo(r) \in {<<t.account, 0>>, Elsewhere}
      BY <2>2, <1>3 DEF AnswerTo
    <3> QED BY <3>1, <3>2 DEF Refusals
  <2> QED BY <2>1, <2>2 DEF AllRoutes, DataRoutes
<1>12. answers \in [AllRoutes -> GoalValues \cup Refusals \cup {Waits}]
  BY <1>1, <1>2, <1>11
<1>13. /\ q \in GoalReads /\ q.answers = answers /\ q.routes = board.read.routes
       /\ q.same = board.read.same /\ q.at = board.read.at
  BY <1>4, <1>6, <1>12 DEF Boards, GoalReads
<1>14. /\ b \in Boards /\ b.read = q /\ b.current = board.current /\ b.learnt = board.learnt
       /\ b.live = board.live /\ b.lastSeq = board.lastSeq /\ b.connected = board.connected
  BY <1>5, <1>6, <1>13 DEF Boards
<1>15. ASSUME NEW r \in GoalRoutes, answers[r] \in GoalValues
       PROVE  answers[r] = NewestOf(t, r)
  <2>1. answers[r] # Waits /\ answers[r] \notin Refusals
    BY <1>15, GoalsAssumption
  <2>2. answers[r] = AnswerTo(r)
    BY <1>1, <1>2, <1>8, <2>1
  <2>3. Elsewhere \in Refusals
    BY DEF Refusals
  <2> QED BY <2>1, <2>2, <2>3, <1>9
<1>16. \A r \in GoalRoutes : NewestOf(t, r)[1] = t.account /\ Made(t, r, NewestOf(t, r))
  <2>1. ASSUME NEW r \in GoalRoutes PROVE NewestOf(t, r)[1] = t.account /\ Made(t, r, NewestOf(t, r))
    <3>1. PICK n \in 0..MaxChanges : n = t.changes[t.account][r]
      BY <1>7
    <3>2. NewestOf(t, r) = <<t.account, n>> /\ n <= n
      BY <3>1, GoalsAssumption DEF NewestOf
    <3> QED BY <3>1, <3>2 DEF Made
  <2> QED BY <2>1
<1>17. \A r \in GoalRoutes : answers[r] # Waits => r \in board.read.routes
  BY <1>2, <1>8
<1>18. BoardTells(t, b)
  <2>1. \A r \in GoalRoutes : Made(t, r, answers[r]) /\ Made(t, r, b.learnt[r])
    BY <1>6, <1>14, <1>15, <1>16 DEF Made, BoardTells
  <2>2. \A r \in GoalRoutes : answers[r] \in GoalValues => answers[r][1] = t.account
    BY <1>15, <1>16
  <2> QED BY <1>6, <1>13, <1>14, <1>17, <2>1, <2>2 DEF BoardTells
<1>19. \A r, value : Known(t, board, r, value) => Known(t, b, r, value)
  BY <1>14 DEF Known, Gap, Coming
<1>20. t.live /\ b.live => OfChannel(t, b) /\ AllKnown(t, b)
  <2> SUFFICES ASSUME t.live, b.live PROVE OfChannel(t, b) /\ AllKnown(t, b)
    OBVIOUS
  <2>1. OfChannel(t, board) /\ AllKnown(t, board)
    BY <1>3, <1>14 DEF GoalsInv
  <2>2. OfChannel(t, b)
    BY <2>1, <1>14 DEF OfChannel
  <2>3. \A r \in GoalRoutes : b.read.answers[r] \in GoalValues => Known(t, b, r, b.read.answers[r])
    BY <1>13, <1>14, <1>15 DEF Known
  <2> QED BY <2>1, <2>2, <2>3, <1>14, <1>19 DEF AllKnown
<1>21. ~NothingAsked(b)
  BY <1>13, <1>14 DEF GoalsInv, NothingAsked
<1>22. board' = b /\ twitch' = t
  <2>1. board' = b
    BY <1>1, <1>2, <1>4, <1>5, <1>6 DEF Boards, GoalReads
  <2>2. twitch' = t
    BY <1>3 DEF ServeRead
  <2> QED BY <2>1, <2>2
<1> QED BY <1>6, <1>18, <1>20, <1>21, <1>22 DEF GoalsInv

LEMMA UserReadStep == GoalsInv /\ UserRead => GoalsInv'
<1> SUFFICES ASSUME GoalsInv, UserRead PROVE GoalsInv'
  OBVIOUS
<1>1. PICK t : t = twitch
  OBVIOUS
<1>2. ChannelTells(t) /\ board \in Boards /\ BoardTells(t, board)
  BY <1>1 DEF GoalsInv, BoardTells
<1>3. PICK answer : answer = board.read.answers["user"]
  OBVIOUS
<1>4. CASE ~board.read.same \/ answer \in Refusals
  <2>1. PICK b : b = FinishRead(board)
    OBVIOUS
  <2>2. Onward(board, b)
    BY <1>2, <2>1, FinishOnward
  <2>3. BoardTells(twitch, b) /\ b \in Boards /\ b.live = board.live
    BY <1>1, <1>2, <2>2, TellsOnward DEF Onward
  <2>4. twitch.live /\ b.live => OfChannel(twitch, b) /\ AllKnown(twitch, b)
    BY <2>2, <2>3, KnownOnward DEF GoalsInv
  <2>5. board' = AtRest(b) /\ UNCHANGED twitch
    BY <1>3, <1>4, <2>1 DEF UserRead
  <2> QED BY <2>3, <2>4, <2>5, BoardMoves DEF GoalsInv
<1>5. CASE board.read.same /\ answer \notin Refusals
  <2>1. answer \in GoalValues
    <3>1. board.read.at = "user" /\ board.read.routes # {}
      BY DEF UserRead, GoalsInv, NothingAsked
    <3>2. "user" \in board.read.routes
      BY <3>1, <1>2 DEF BoardTells
    <3>3. answer # Waits
      BY <3>2, <1>3 DEF UserRead, AllAnswered
    <3>4. "user" \in AllRoutes /\ board.read.answers \in [AllRoutes -> GoalValues \cup Refusals \cup {Waits}]
      BY <1>2 DEF AllRoutes, Boards, GoalReads
    <3> QED BY <1>3, <1>5, <3>3, <3>4
  <2>2. PICK a : a = answer[1]
    OBVIOUS
  <2>3. a \in Accounts
    BY <2>1, <2>2 DEF GoalValues
  <2>4. PICK f : f = ForgetOf(board, a)
    OBVIOUS
  <2>5. Blank \in [GoalRoutes -> GoalValues \cup {NoValue}] /\ \A r \in GoalRoutes : Made(t, r, Blank[r])
    BY GoalsAssumption DEF Blank, Made
  <2>6. /\ f \in Boards /\ f.read = board.read /\ f.live = board.live
        /\ f.lastSeq = board.lastSeq /\ f.connected = board.connected
        /\ \/ f.current = board.current /\ f.learnt = board.learnt
           \/ f.current = {} /\ f.learnt = Blank
    BY <1>2, <2>4, <2>5 DEF ForgetOf, Boards
  <2>7. PICK d : d = [f EXCEPT !.user = a, !.owner = a]
    OBVIOUS
  <2>8. /\ d \in Boards /\ d.read = f.read /\ d.live = f.live /\ d.current = f.current
        /\ d.learnt = f.learnt /\ d.lastSeq = f.lastSeq /\ d.connected = f.connected
    BY <2>3, <2>6, <2>7 DEF Boards
  <2>9. PICK c : c = AskData(d)
    OBVIOUS
  <2>10. /\ c \in Boards /\ c.live = d.live /\ c.current = d.current /\ c.learnt = d.learnt
         /\ c.lastSeq = d.lastSeq /\ c.connected = d.connected
         /\ c.read.answers = NoAnswers /\ c.read.at = "data" /\ c.read.routes \subseteq DataRoutes
    BY <2>8, <2>9, NoRequestType DEF AskData, Boards, GoalReads, AllRoutes
  <2>11. board.connected
    <3>1. board.read.routes # {}
      BY DEF UserRead, GoalsInv, NothingAsked
    <3> QED BY <3>1, <1>2, <1>5 DEF BoardTells
  <2>12. \A r \in GoalRoutes : c.read.answers[r] = Waits /\ c.read.answers[r] \notin GoalValues
    BY <2>10, NoRequestType, GoalsAssumption DEF AllRoutes, DataRoutes
  <2>13. \A r \in GoalRoutes : Made(t, r, c.learnt[r])
    BY <1>2, <2>5, <2>6, <2>8, <2>10 DEF BoardTells
  <2>14. \A r \in GoalRoutes : Made(t, r, c.read.answers[r])
    BY <2>12 DEF Made
  <2>15. /\ c.lastSeq <= t.seq /\ (~c.live => c.current = {}) /\ c.connected
    BY <1>2, <2>6, <2>8, <2>10, <2>11 DEF BoardTells
  <2>16. BoardTells(t, c)
    BY <2>10, <2>12, <2>13, <2>14, <2>15 DEF BoardTells
  <2>17. \A r, value : Known(t, board, r, value) => Known(t, c, r, value)
    BY <2>6, <2>8, <2>10 DEF Known, Gap, Coming
  <2>18. ASSUME t.live, c.live PROVE OfChannel(t, c) /\ AllKnown(t, c)
    <3>1. OfChannel(t, board) /\ AllKnown(t, board)
      BY <1>1, <2>6, <2>8, <2>10, <2>18 DEF GoalsInv
    <3>2. OfChannel(t, c)
      BY <3>1, <2>6, <2>8, <2>10 DEF OfChannel
    <3>3. \A r \in GoalRoutes : r \in c.current => r \in board.current /\ c.learnt = board.learnt
      BY <2>6, <2>8, <2>10
    <3> QED BY <3>1, <3>2, <3>3, <2>12, <2>17 DEF AllKnown
  <2>19. board' = AtRest(c) /\ UNCHANGED twitch
    BY <1>3, <1>5, <2>2, <2>4, <2>7, <2>9 DEF UserRead
  <2> QED BY <1>1, <1>2, <2>10, <2>16, <2>18, <2>19, BoardMoves
<1> QED BY <1>4, <1>5

AllAnsweredOf(b) == \A r \in b.read.routes : b.read.answers[r] # Waits

\* What a read brought becomes current only if it is known.
LEMMA ApplyReadParts ==
    ASSUME NEW t, ChannelTells(t), NEW b, BoardTells(t, b), b.read.same, AllAnsweredOf(b),
           b.read.routes \subseteq DataRoutes,
           t.live /\ b.live => OfChannel(t, b) /\ AllKnown(t, b)
    PROVE  LET c == ApplyRead(b) IN
           /\ BoardTells(t, c) /\ c.live = b.live
           /\ t.live /\ c.live => OfChannel(t, c) /\ AllKnown(t, c)
<1>1. PICK good : good = {r \in b.read.routes : b.read.answers[r] \notin Refusals}
  OBVIOUS
<1>2. b \in Boards /\ b.read \in GoalReads
  BY DEF BoardTells, Boards
<1>3. b.read.answers \in [AllRoutes -> GoalValues \cup Refusals \cup {Waits}] /\ b.read.routes \subseteq AllRoutes
  BY <1>2 DEF GoalReads
<1>4. \A r \in GoalRoutes : r \in good => b.read.answers[r] \in GoalValues
  BY <1>1, <1>3 DEF AllAnsweredOf
<1>5. b.learnt \in [GoalRoutes -> GoalValues \cup {NoValue}] /\ b.shown \in [GoalRoutes -> GoalValues \cup {NoValue}]
  BY <1>2 DEF Boards
<1>6. PICK s : s = [r \in GoalRoutes |-> IF r \in good THEN b.read.answers[r] ELSE b.shown[r]]
  OBVIOUS
<1>7. PICK l : l = [r \in GoalRoutes |-> IF r \in good THEN Newer(b.learnt[r], b.read.answers[r]) ELSE b.learnt[r]]
  OBVIOUS
<1>8. PICK nowCurrent : nowCurrent = IF b.live /\ b.read.fresh THEN b.current \cup good ELSE b.current
  OBVIOUS
<1>9. PICK u : u = IF \E r \in b.read.routes : b.read.answers[r] = Elsewhere THEN NoValue ELSE b.user
  OBVIOUS
<1>10. PICK c : c = [b EXCEPT !.shown = s, !.learnt = l, !.current = nowCurrent, !.user = u]
  OBVIOUS
<1>11. ApplyRead(b) = c
  BY <1>1, <1>2, <1>6, <1>7, <1>8, <1>9, <1>10 DEF ApplyRead, Boards
<1>12. ASSUME NEW r \in GoalRoutes, r \in good
       PROVE  /\ l[r] \in GoalValues /\ Made(t, r, l[r])
              /\ b.learnt[r] = NewestOf(t, r) \/ b.read.answers[r] = NewestOf(t, r) => l[r] = NewestOf(t, r)
  <2>1. l[r] = Newer(b.learnt[r], b.read.answers[r])
    BY <1>7, <1>12
  <2>2. /\ b.read.answers[r] \in GoalValues /\ b.learnt[r] \in GoalValues \cup {NoValue}
        /\ Made(t, r, b.learnt[r]) /\ Made(t, r, b.read.answers[r]) /\ b.read.answers[r][1] = t.account
    BY <1>4, <1>5, <1>12 DEF BoardTells
  <2> QED BY <2>1, <2>2, NewerParts
<1>13. \A r \in GoalRoutes : r \notin good => l[r] = b.learnt[r]
  BY <1>7
<1>14. l \in [GoalRoutes -> GoalValues \cup {NoValue}] /\ \A r \in GoalRoutes : Made(t, r, l[r])
  <2>1. \A r \in GoalRoutes : l[r] \in GoalValues \cup {NoValue}
    BY <1>5, <1>12, <1>13
  <2>2. l = [r \in GoalRoutes |-> l[r]]
    BY <1>7
  <2>3. \A r \in GoalRoutes : Made(t, r, l[r])
    BY <1>12, <1>13 DEF BoardTells
  <2> QED BY <2>1, <2>2, <2>3
<1>15. s \in [GoalRoutes -> GoalValues \cup {NoValue}]
  BY <1>4, <1>5, <1>6
<1>16. nowCurrent \subseteq DataRoutes
  BY <1>1, <1>2, <1>8 DEF Boards
<1>17. u \in Accounts \cup {NoValue}
  BY <1>2, <1>9 DEF Boards
<1>18. /\ c \in Boards /\ c.read = b.read /\ c.current = nowCurrent /\ c.learnt = l
       /\ c.live = b.live /\ c.lastSeq = b.lastSeq /\ c.connected = b.connected
  BY <1>2, <1>10, <1>14, <1>15, <1>16, <1>17 DEF Boards
<1>19. BoardTells(t, c)
  <2>1. ~c.live => c.current = {}
    BY <1>8, <1>18 DEF BoardTells
  <2> QED BY <2>1, <1>14, <1>18 DEF BoardTells
<1>20. \A r, value : Known(t, b, r, value) => Known(t, c, r, value)
  BY <1>18 DEF Known, Gap, Coming
<1>21. ASSUME t.live, c.live PROVE OfChannel(t, c) /\ AllKnown(t, c)
  <2>1. OfChannel(t, b) /\ AllKnown(t, b)
    BY <1>18, <1>21
  <2>2. OfChannel(t, c)
    BY <2>1, <1>18 DEF OfChannel
  <2>3. ASSUME NEW r \in GoalRoutes, Known(t, b, r, b.learnt[r]) PROVE Known(t, c, r, l[r])
    <3>1. CASE r \notin good
      BY <3>1, <2>3, <1>13, <1>20
    <3>2. CASE r \in good /\ b.learnt[r] = NewestOf(t, r)
      BY <3>2, <1>12 DEF Known
    <3>3. CASE Gap(t, b) \/ Coming(t, b, r)
      BY <3>3, <1>18 DEF Known, Gap, Coming
    <3> QED BY <2>3, <3>1, <3>2, <3>3 DEF Known
  <2>4. ASSUME NEW r \in GoalRoutes, r \in good, Known(t, b, r, b.read.answers[r])
        PROVE  Known(t, c, r, l[r])
    <3>1. CASE b.read.answers[r] = NewestOf(t, r)
      BY <2>4, <3>1, <1>12 DEF Known
    <3>2. CASE Gap(t, b) \/ Coming(t, b, r)
      BY <3>2, <1>18 DEF Known, Gap, Coming
    <3> QED BY <2>4, <3>1, <3>2 DEF Known
  <2>5. ASSUME NEW r \in GoalRoutes, r \in c.current PROVE Known(t, c, r, c.learnt[r])
    <3>1. CASE r \in b.current
      BY <3>1, <2>1, <2>3, <1>18 DEF AllKnown
    <3>2. CASE r \in good /\ b.read.fresh
      <4>1. Known(t, b, r, b.learnt[r]) \/ Known(t, b, r, b.read.answers[r])
        BY <3>2, <2>1, <1>4 DEF AllKnown
      <4> QED BY <4>1, <3>2, <2>3, <2>4, <1>18
    <3> QED BY <2>5, <3>1, <3>2, <1>8, <1>18
  <2>6. ASSUME NEW r \in GoalRoutes, b.read.answers[r] \in GoalValues, b.read.fresh
        PROVE  Known(t, c, r, c.learnt[r]) \/ Known(t, c, r, c.read.answers[r])
    <3>1. Known(t, b, r, b.learnt[r]) \/ Known(t, b, r, b.read.answers[r])
      BY <2>6, <2>1 DEF AllKnown
    <3> QED BY <3>1, <2>3, <1>18, <1>20
  <2> QED BY <2>2, <2>5, <2>6, <1>18 DEF AllKnown
<1> QED BY <1>11, <1>18, <1>19, <1>21

LEMMA DataReadStep == GoalsInv /\ DataRead => GoalsInv'
<1> SUFFICES ASSUME GoalsInv, DataRead PROVE GoalsInv'
  OBVIOUS
<1>1. ChannelTells(twitch) /\ BoardTells(twitch, board) /\ AllAnsweredOf(board) /\ board \in Boards
  BY DEF GoalsInv, BoardTells, DataRead, AllAnswered, AllAnsweredOf
<1>2. PICK b : b = IF board.read.same THEN ApplyRead(board) ELSE board
  OBVIOUS
<1>3. /\ BoardTells(twitch, b)
      /\ twitch.live /\ b.live => OfChannel(twitch, b) /\ AllKnown(twitch, b)
  BY <1>1, <1>2, ApplyReadParts DEF GoalsInv, BoardTells, DataRead
<1>4. PICK c : c = FinishRead(b)
  OBVIOUS
<1>5. Onward(b, c)
  BY <1>3, <1>4, FinishOnward DEF BoardTells
<1>6. BoardTells(twitch, c) /\ c \in Boards /\ c.live = b.live
  BY <1>3, <1>5, TellsOnward DEF Onward
<1>7. twitch.live /\ c.live => OfChannel(twitch, c) /\ AllKnown(twitch, c)
  BY <1>3, <1>5, <1>6, KnownOnward
<1>8. board' = AtRest(c) /\ UNCHANGED twitch
  BY <1>2, <1>4 DEF DataRead
<1> QED BY <1>1, <1>6, <1>7, <1>8, BoardMoves

\* The window with an event more: the same, shifted when it was full.
Shifted(w, e, v, k) ==
    /\ k <= Len(w) /\ Len(v) = Len(w) + 1 - k
    /\ \A i \in 1..Len(v) : v[i] = IF i = Len(v) THEN e ELSE w[i + k]

LEMMA WindowShift ==
    ASSUME NEW E, NEW w \in Seq(E), NEW e \in E, Len(w) <= EventWindow,
           NEW v, v = NewestEvents(Append(w, e))
    PROVE  /\ v \in Seq(E) /\ Len(v) <= EventWindow /\ v # <<>>
           /\ \E k \in {0, 1} : Shifted(w, e, v, k)
<1>1. PICK n \in Nat : n = Len(w)
  OBVIOUS
<1>2. EventWindow \in Nat \ {0}
  BY GoalsAssumption
<1>3. PICK a : a = Append(w, e)
  OBVIOUS
<1>4. a \in Seq(E) /\ Len(a) = n + 1 /\ a[n + 1] = e /\ \A i \in 1..n : a[i] = w[i]
  BY <1>1, <1>3
<1>5. CASE n + 1 > EventWindow
  <2>1. NewestEvents(a) = Tail(a) /\ n >= 1 /\ n = EventWindow
    BY <1>1, <1>2, <1>4, <1>5 DEF NewestEvents
  <2>2. Tail(a) \in Seq(E) /\ Len(Tail(a)) = n /\ \A i \in 1..n : Tail(a)[i] = a[i + 1]
    BY <1>4
  <2>3. \A i \in 1..n : Tail(a)[i] = IF i = n THEN e ELSE w[i + 1]
    <3> SUFFICES ASSUME NEW i \in 1..n PROVE Tail(a)[i] = IF i = n THEN e ELSE w[i + 1]
      OBVIOUS
    <3>1. Tail(a)[i] = a[i + 1]
      BY <2>2
    <3>2. i # n => i + 1 \in 1..n
      OBVIOUS
    <3> QED BY <3>1, <3>2, <1>4
  <2>4. n = n + 1 - 1
    BY <1>1
  <2>5. Tail(a) # <<>>
    <3>1. Len(Tail(a)) >= 1
      BY <2>1, <2>2, SMT
    <3>2. \A s : s = <<>> => Len(s) = 0
      OBVIOUS
    <3>3. ~(0 >= 1)
      OBVIOUS
    <3> QED BY <3>1, <3>2, <3>3, Zenon
  <2>6. Shifted(w, e, v, 1)
    BY <1>1, <1>3, <2>1, <2>2, <2>3, <2>4 DEF Shifted
  <2> QED BY <1>3, <2>1, <2>2, <2>5, <2>6, <1>2
<1>6. CASE ~(n + 1 > EventWindow)
  <2>1. NewestEvents(a) = a
    BY <1>4, <1>6 DEF NewestEvents
  <2>2. \A i \in 1..n + 1 : a[i] = IF i = n + 1 THEN e ELSE w[i + 0]
    <3> SUFFICES ASSUME NEW i \in 1..n + 1 PROVE a[i] = IF i = n + 1 THEN e ELSE w[i + 0]
      OBVIOUS
    <3>1. i # n + 1 => i \in 1..n /\ i + 0 = i
      OBVIOUS
    <3> QED BY <3>1, <1>4
  <2>3. Len(a) <= EventWindow /\ Len(a) = n + 1 - 0 /\ 0 <= n /\ a # <<>>
    BY <1>2, <1>4, <1>6
  <2>4. Shifted(w, e, v, 0)
    BY <1>1, <1>3, <1>4, <2>1, <2>2, <2>3 DEF Shifted
  <2> QED BY <1>3, <1>4, <2>1, <2>3, <2>4
<1> QED BY <1>1, <1>2, <1>5, <1>6

LEMMA EventAdded ==
    ASSUME NEW t, ChannelTells(t), t.seq < MaxEvents, NEW q \in DataRoutes,
           NEW value \in GoalValues \cup {NoValue},
           q \in GoalRoutes => value \in GoalValues /\ Made(t, q, value)
    PROVE  LET u == WithEvent(t, q, value) IN
           /\ ChannelTells(u) /\ u.seq = t.seq + 1
           /\ u.account = t.account /\ u.changes = t.changes /\ u.live = t.live
           /\ \A b \in Boards : b.lastSeq <= t.seq =>
                /\ \A r, known : Known(t, b, r, known) => Known(u, b, r, known)
                /\ OfChannel(t, b) /\ (q \in GoalRoutes => value[1] = t.account) => OfChannel(u, b)
                /\ value = NewestOf(u, q) => Coming(u, b, q)
<1>1. PICK events : events = [seq : 1 .. MaxEvents, route : DataRoutes, value : GoalValues \cup {NoValue}]
  OBVIOUS
<1>2. PICK e : e = [seq |-> t.seq + 1, route |-> q, value |-> value]
  OBVIOUS
<1>3. PICK w : w = t.window
  OBVIOUS
<1>4. PICK m \in Nat : m = t.seq
  BY GoalsAssumption DEF ChannelTells, Channels
<1>5. w \in Seq(events) /\ Len(w) <= EventWindow
  BY <1>1, <1>3 DEF ChannelTells, Channels
<1>6. m + 1 \in 1..MaxEvents
  BY <1>4, GoalsAssumption
<1>7. e \in events /\ e.seq = m + 1 /\ e.route = q /\ e.value = value
  BY <1>1, <1>2, <1>4, <1>6
<1>26. PICK v : v = NewestEvents(Append(w, e))
  OBVIOUS
<1>8. /\ v \in Seq(events) /\ Len(v) <= EventWindow /\ v # <<>>
      /\ \E k \in {0, 1} : Shifted(w, e, v, k)
  <2>1. w \in Seq(events)
    BY <1>5
  <2>2. Len(w) <= EventWindow
    BY <1>5
  <2>3. e \in events
    BY <1>7
  <2> QED BY <2>1, <2>2, <2>3, <1>26, WindowShift
<1>9. v \in Seq(events) /\ Len(v) <= EventWindow /\ v # <<>>
  BY <1>8
<1>13. [t EXCEPT !.seq = m + 1, !.window = v] = WithEvent(t, q, value)
  BY <1>2, <1>3, <1>4, <1>26 DEF WithEvent, ChannelTells, Channels
<1>10. PICK k \in {0, 1} :
         /\ k <= Len(w) /\ Len(v) = Len(w) + 1 - k
         /\ \A i \in 1..Len(v) : v[i] = IF i = Len(v) THEN e ELSE w[i + k]
  BY <1>8 DEF Shifted
<1>11. PICK n \in Nat : n = Len(w)
  BY <1>5
<1>12. PICK u : u = [t EXCEPT !.seq = m + 1, !.window = v]
  OBVIOUS
<1>14. t \in Channels
  BY DEF ChannelTells
<1>15. /\ u \in Channels /\ u.seq = m + 1 /\ u.window = v
       /\ u.account = t.account /\ u.changes = t.changes /\ u.live = t.live
       /\ u.connected = t.connected /\ u.made = t.made
  <2>1. m + 1 \in 0..MaxEvents
    BY <1>4, <1>6
  <2>2. v \in Seq([seq : 1 .. MaxEvents, route : DataRoutes, value : GoalValues \cup {NoValue}])
    BY <1>1, <1>9
  <2>3. PICK windows : windows = Seq([seq : 1 .. MaxEvents, route : DataRoutes, value : GoalValues \cup {NoValue}])
    OBVIOUS
  <2>4. PICK C : C = [account : Accounts, connected : BOOLEAN, live : BOOLEAN,
                      changes : [Accounts -> [GoalRoutes -> 0 .. MaxChanges]], made : 0 .. MaxChanges,
                      seq : 0 .. MaxEvents, window : windows]
    OBVIOUS
  <2>5. C = Channels
    BY <2>3, <2>4 DEF Channels
  <2>6. t \in C /\ v \in windows
    BY <1>14, <2>2, <2>3, <2>5
  <2>7. /\ u \in C /\ u.seq = m + 1 /\ u.window = v
        /\ u.account = t.account /\ u.changes = t.changes /\ u.live = t.live
        /\ u.connected = t.connected /\ u.made = t.made
    BY <1>12, <2>1, <2>4, <2>6
  <2> QED BY <2>5, <2>7
<1>16. /\ DOMAIN w = 1..n /\ DOMAIN v = 1..Len(v) /\ Len(v) = n + 1 - k /\ k \in Nat /\ k <= n
  BY <1>5, <1>9, <1>10, <1>11
<1>17. \A j \in 1..n : w[j].seq = m - n + j
  BY <1>3, <1>4, <1>11, <1>16 DEF ChannelTells
<1>18. ASSUME NEW i \in 1..Len(v), i # Len(v)
       PROVE  v[i] = w[i + k] /\ i + k \in 1..n
  <2>1. i + k \in 1..n
    BY <1>16, <1>18
  <2> QED BY <2>1, <1>10, <1>18
<1>19. v[Len(v)] = e /\ Len(v) \in 1..Len(v)
  <2>1. Len(v) \in 1..Len(v)
    BY <1>16
  <2> QED BY <2>1, <1>10
<1>20. \A i \in 1..Len(v) : v[i].seq = (m + 1) - Len(v) + i
  <2> SUFFICES ASSUME NEW i \in 1..Len(v) PROVE v[i].seq = (m + 1) - Len(v) + i
    OBVIOUS
  <2>1. CASE i = Len(v)
    BY <2>1, <1>7, <1>16, <1>19
  <2>2. CASE i # Len(v)
    <3>1. v[i].seq = m - n + (i + k)
      BY <2>2, <1>17, <1>18
    <3> QED BY <3>1, <1>16
  <2> QED BY <2>1, <2>2
<1>21. \A r, x : Made(u, r, x) <=> Made(t, r, x)
  BY <1>15 DEF Made
<1>22. ChannelTells(u)
  <2>1. ASSUME NEW i \in 1..Len(v), v[i].route \in GoalRoutes
        PROVE  v[i].value \in GoalValues /\ Made(t, v[i].route, v[i].value)
    <3>1. CASE i = Len(v)
      BY <2>1, <3>1, <1>7, <1>19
    <3>2. CASE i # Len(v)
      BY <2>1, <3>2, <1>3, <1>16, <1>18 DEF ChannelTells
    <3> QED BY <3>1, <3>2
  <2>2. \A a \in Accounts, r \in GoalRoutes : u.changes[a][r] <= u.made
    BY <1>15 DEF ChannelTells
  <2>3. (u.live => u.connected) /\ Len(u.window) <= EventWindow /\ u.window # <<>>
    BY <1>9, <1>15 DEF ChannelTells
  <2>4. \A i \in DOMAIN u.window :
          /\ u.window[i].seq = u.seq - Len(u.window) + i
          /\ u.window[i].route \in GoalRoutes =>
               u.window[i].value \in GoalValues /\ Made(u, u.window[i].route, u.window[i].value)
    BY <2>1, <1>15, <1>16, <1>20, <1>21
  <2> QED BY <1>15, <2>2, <2>3, <2>4 DEF ChannelTells
<1>23. \A r : NewestOf(u, r) = NewestOf(t, r)
  BY <1>15 DEF NewestOf
<1>24. ASSUME NEW b \in Boards, b.lastSeq <= t.seq
       PROVE  /\ \A r, known : Known(t, b, r, known) => Known(u, b, r, known)
              /\ OfChannel(t, b) /\ (q \in GoalRoutes => value[1] = t.account) => OfChannel(u, b)
              /\ value = NewestOf(u, q) => Coming(u, b, q)
  <2>1. PICK s \in Nat : s = b.lastSeq
    BY GoalsAssumption DEF Boards
  <2>2. s <= m
    BY <1>4, <1>24, <2>1
  <2>3. ASSUME Gap(t, b) PROVE Gap(u, b)
    <3>1. s < m - n
      BY <2>1, <2>3, <1>3, <1>4, <1>11 DEF Gap
    <3>2. s < (m + 1) - Len(v)
      BY <3>1, <1>16
    <3> QED BY <3>2, <2>1, <1>15 DEF Gap
  <2>4. ASSUME NEW r, Coming(t, b, r) PROVE Gap(u, b) \/ Coming(u, b, r)
    <3>1. PICK j \in 1..n : w[j].seq > s /\ w[j].route = r /\ w[j].value = NewestOf(t, r)
      BY <2>1, <2>4, <1>3, <1>16 DEF Coming
    <3>2. CASE j <= k
      <4>1. s < (m + 1) - Len(v)
        <5>1. w[j].seq = m - n + j
          BY <1>17
        <5> QED BY <5>1, <3>1, <3>2, <1>16
      <4> QED BY <4>1, <2>1, <1>15 DEF Gap
    <3>3. CASE ~(j <= k)
      <4>1. j - k \in 1..Len(v) /\ j - k # Len(v) /\ (j - k) + k = j
        BY <3>3, <1>16
      <4>2. v[j - k] = w[j]
        BY <4>1, <1>18
      <4> QED BY <3>1, <4>1, <4>2, <2>1, <1>15, <1>16, <1>23 DEF Coming
    <3> QED BY <3>2, <3>3
  <2>5. \A r, known : Known(t, b, r, known) => Known(u, b, r, known)
    BY <2>3, <2>4, <1>23 DEF Known
  <2>6. ASSUME OfChannel(t, b), q \in GoalRoutes => value[1] = t.account PROVE OfChannel(u, b)
    <3>1. ASSUME NEW i \in 1..Len(v), v[i].seq > b.lastSeq, v[i].route \in GoalRoutes
          PROVE  v[i].value[1] = t.account
      <4>1. CASE i = Len(v)
        BY <3>1, <4>1, <2>6, <1>7, <1>19
      <4>2. CASE i # Len(v)
        BY <3>1, <4>2, <2>6, <1>3, <1>16, <1>18 DEF OfChannel
      <4> QED BY <4>1, <4>2
    <3> QED BY <3>1, <1>15, <1>16 DEF OfChannel
  <2>7. ASSUME value = NewestOf(u, q) PROVE Coming(u, b, q)
    <3>1. e.seq > b.lastSeq
      BY <1>7, <2>1, <2>2
    <3> QED BY <3>1, <2>7, <1>7, <1>15, <1>16, <1>19 DEF Coming
  <2> QED BY <2>5, <2>6, <2>7
<1>25. u = WithEvent(t, q, value)
  BY <1>12, <1>13
<1> QED BY <1>4, <1>15, <1>22, <1>24, <1>25

\* What a channel step may do to the board's side: nothing, for its changes
\* only grow and the account stays, or no answer of a read counts any more.
LEMMA BoardTellsOf ==
    ASSUME NEW t, NEW u, NEW b, t \in Channels, u \in Channels, BoardTells(t, b), t.seq <= u.seq,
           \A a \in Accounts, r \in GoalRoutes : t.changes[a][r] <= u.changes[a][r],
           u.account = t.account \/ \A r \in GoalRoutes : ~(b.read.answers[r] \in GoalValues /\ b.read.same)
    PROVE  BoardTells(u, b)
<1>1. b \in Boards /\ b.lastSeq <= u.seq
  BY GoalsAssumption DEF BoardTells, Boards, Channels
<1>2. ASSUME NEW r \in GoalRoutes, NEW x, Made(t, r, x) PROVE Made(u, r, x)
  <2> SUFFICES ASSUME x \in GoalValues PROVE x[2] <= u.changes[x[1]][r]
    BY DEF Made
  <2>1. x[1] \in Accounts /\ x[2] \in Nat /\ x[2] <= t.changes[x[1]][r]
    BY <1>2, GoalsAssumption DEF Made, GoalValues
  <2>2. t.changes[x[1]][r] \in Nat /\ u.changes[x[1]][r] \in Nat
    BY <2>1, GoalsAssumption DEF Channels
  <2> QED BY <2>1, <2>2
<1> QED BY <1>1, <1>2 DEF BoardTells

LEMMA GoalChangedStep ==
    ASSUME GoalsInv, NEW q \in GoalRoutes, GoalChanged(q)
    PROVE  GoalsInv'
<1>1. PICK t : t = twitch
  OBVIOUS
<1>2. PICK b : b = board
  OBVIOUS
<1>3. ChannelTells(t) /\ BoardTells(t, b) /\ t \in Channels
  BY <1>1, <1>2 DEF GoalsInv, ChannelTells
<1>4. t.made \in Nat /\ t.made < MaxChanges /\ t.account \in Accounts
  BY <1>1, <1>3, GoalsAssumption DEF GoalChanged, Channels
<1>5. PICK n \in Nat : n = t.changes[t.account][q]
  BY <1>3, <1>4, GoalsAssumption DEF Channels
<1>6. n <= t.made
  BY <1>3, <1>4, <1>5 DEF ChannelTells
<1>7. PICK f : f = [t.changes[t.account] EXCEPT ![q] = n + 1]
  OBVIOUS
<1>8. PICK changes : changes = [t.changes EXCEPT ![t.account] = f]
  OBVIOUS
<1>9. t.changes \in [Accounts -> [GoalRoutes -> 0 .. MaxChanges]]
  BY <1>3 DEF Channels
<1>10. /\ changes \in [Accounts -> [GoalRoutes -> 0 .. MaxChanges]]
       /\ changes[t.account][q] = n + 1
       /\ \A a \in Accounts, r \in GoalRoutes :
            changes[a][r] = IF a = t.account /\ r = q THEN n + 1 ELSE t.changes[a][r]
  <2>1. n + 1 \in 0 .. MaxChanges
    BY <1>4, <1>6, GoalsAssumption
  <2>2. f \in [GoalRoutes -> 0 .. MaxChanges] /\ f[q] = n + 1 /\ \A r \in GoalRoutes : r # q => f[r] = t.changes[t.account][r]
    BY <1>4, <1>7, <1>9, <2>1
  <2> QED BY <1>4, <1>8, <1>9, <2>2
<1>11. \A a \in Accounts, r \in GoalRoutes : t.changes[a][r] \in Nat /\ changes[a][r] \in Nat
  BY <1>9, <1>10, GoalsAssumption
<1>12. \A a \in Accounts, r \in GoalRoutes : t.changes[a][r] <= changes[a][r] /\ changes[a][r] <= t.made + 1
  <2> SUFFICES ASSUME NEW a \in Accounts, NEW r \in GoalRoutes
               PROVE  t.changes[a][r] <= changes[a][r] /\ changes[a][r] <= t.made + 1
    OBVIOUS
  <2>1. t.changes[a][r] <= t.made
    BY <1>3 DEF ChannelTells
  <2> QED BY <2>1, <1>4, <1>5, <1>6, <1>10, <1>11
<1>13. PICK next : next = [t EXCEPT !.changes = changes, !.made = t.made + 1]
  OBVIOUS
<1>14. /\ next \in Channels /\ next.changes = changes /\ next.made = t.made + 1
       /\ next.account = t.account /\ next.live = t.live /\ next.connected = t.connected
       /\ next.seq = t.seq /\ next.window = t.window
  <2>1. t.made + 1 \in 0 .. MaxChanges
    BY <1>4, GoalsAssumption
  <2> QED BY <2>1, <1>3, <1>10, <1>13 DEF Channels
<1>15. WithChange(t, q) = next
  BY <1>3, <1>4, <1>5, <1>7, <1>8, <1>13 DEF WithChange, Channels
<1>16. ASSUME NEW r \in GoalRoutes, NEW x, Made(t, r, x) PROVE Made(next, r, x)
  <2> SUFFICES ASSUME x \in GoalValues PROVE x[2] <= changes[x[1]][r]
    BY <1>14 DEF Made
  <2>1. x[1] \in Accounts /\ x[2] \in Nat /\ x[2] <= t.changes[x[1]][r]
    BY <1>16, GoalsAssumption DEF Made, GoalValues
  <2> QED BY <2>1, <1>11, <1>12
<1>17. ChannelTells(next)
  <2>1. \A a \in Accounts, r \in GoalRoutes : next.changes[a][r] <= next.made
    BY <1>12, <1>14
  <2>2. /\ next.live => next.connected
        /\ Len(next.window) <= EventWindow
        /\ next.window = <<>> => next.seq = 0
    BY <1>3, <1>14 DEF ChannelTells
  <2>3. \A i \in DOMAIN next.window :
          /\ next.window[i].seq = next.seq - Len(next.window) + i
          /\ next.window[i].route \in GoalRoutes =>
               next.window[i].value \in GoalValues /\ Made(next, next.window[i].route, next.window[i].value)
    BY <1>3, <1>14, <1>16 DEF ChannelTells
  <2> QED BY <2>1, <2>2, <2>3, <1>14 DEF ChannelTells
<1>18. BoardTells(next, b)
  <2>1. t.seq <= next.seq
    BY <1>3, <1>14, GoalsAssumption DEF Channels
  <2> QED BY <2>1, <1>3, <1>12, <1>14, BoardTellsOf
<1>19. board' = b /\ twitch' = IF t.live THEN WithEvent(next, q, NewestOf(next, q)) ELSE next
  BY <1>1, <1>2, <1>15 DEF GoalChanged, NewestOf
<1>20. CASE ~t.live
  <2>1. ChannelTells(twitch)' /\ BoardTells(twitch, board)' /\ ~twitch'.live
    BY <1>14, <1>17, <1>18, <1>19, <1>20
  <2>2. ~NothingAsked(board)'
    BY <1>2, <1>19 DEF GoalsInv, NothingAsked
  <2> QED BY <2>1, <2>2 DEF GoalsInv
<1>21. CASE t.live
  <2>1. PICK value : value = NewestOf(next, q)
    OBVIOUS
  <2>2. value \in GoalValues /\ Made(next, q, value) /\ value[1] = next.account
    BY <2>1, <1>4, <1>10, <1>14 DEF NewestOf, GoalValues, Made
  <2>3. next.seq < MaxEvents /\ q \in DataRoutes
    BY <1>1, <1>14, <1>21 DEF GoalChanged, DataRoutes
  <2>4. PICK u : u = WithEvent(next, q, value)
    OBVIOUS
  <2>5. /\ ChannelTells(u) /\ u.seq = next.seq + 1 /\ u.account = next.account /\ u.changes = next.changes
        /\ \A c \in Boards : c.lastSeq <= next.seq =>
             /\ \A r, known : Known(next, c, r, known) => Known(u, c, r, known)
             /\ OfChannel(next, c) => OfChannel(u, c)
             /\ value = NewestOf(u, q) => Coming(u, c, q)
    BY <1>17, <2>2, <2>3, <2>4, EventAdded
  <2>6. b \in Boards /\ b.lastSeq <= next.seq
    BY <1>18 DEF BoardTells
  <2>7. BoardTells(u, b)
    <3>1. u \in Channels /\ next.seq <= u.seq
      BY <2>5, <1>14, GoalsAssumption DEF ChannelTells, Channels
    <3>2. \A a \in Accounts, r \in GoalRoutes : next.changes[a][r] <= u.changes[a][r]
      BY <2>5, <1>11, <1>14
    <3> QED BY <3>1, <3>2, <2>5, <1>14, <1>18, BoardTellsOf
  <2>8. Coming(u, b, q)
    <3>1. value = NewestOf(u, q)
      BY <2>1, <2>5 DEF NewestOf
    <3> QED BY <3>1, <2>5, <2>6
  <2>9. ASSUME b.live PROVE OfChannel(u, b) /\ AllKnown(u, b)
    <3>1. OfChannel(t, b) /\ AllKnown(t, b)
      BY <1>1, <1>2, <1>21, <2>9 DEF GoalsInv
    <3>2. OfChannel(u, b)
      <4>1. OfChannel(next, b)
        BY <3>1, <1>14 DEF OfChannel
      <4> QED BY <4>1, <2>5, <2>6
    <3>3. ASSUME NEW r \in GoalRoutes, NEW x, Known(t, b, r, x) PROVE Known(u, b, r, x)
      <4>1. CASE r = q
        BY <4>1, <2>8 DEF Known
      <4>2. CASE r # q
        <5>1. NewestOf(next, r) = NewestOf(t, r)
          BY <4>2, <1>4, <1>10, <1>14 DEF NewestOf
        <5>2. Known(next, b, r, x)
          BY <5>1, <3>3, <1>14 DEF Known, Gap, Coming
        <5> QED BY <5>2, <2>5, <2>6
      <4> QED BY <4>1, <4>2
    <3> QED BY <3>1, <3>2, <3>3 DEF AllKnown
  <2>10. twitch' = u /\ board' = b
    BY <1>19, <1>21, <2>1, <2>4
  <2>11. ~NothingAsked(board)'
    BY <1>2, <1>19 DEF GoalsInv, NothingAsked
  <2> QED BY <2>5, <2>7, <2>9, <2>10, <2>11 DEF GoalsInv
<1> QED BY <1>20, <1>21

LEMMA FollowedStep == GoalsInv /\ Followed => GoalsInv'
<1> SUFFICES ASSUME GoalsInv, Followed PROVE GoalsInv'
  OBVIOUS
<1>1. PICK t : t = twitch
  OBVIOUS
<1>2. PICK b : b = board
  OBVIOUS
<1>3. ChannelTells(t) /\ BoardTells(t, b) /\ t \in Channels
  BY <1>1, <1>2 DEF GoalsInv, ChannelTells
<1>4. PICK u : u = WithEvent(t, Follows, NoValue)
  OBVIOUS
<1>5. t.seq < MaxEvents /\ Follows \in DataRoutes /\ Follows \notin GoalRoutes /\ t.live
  BY <1>1, GoalsAssumption DEF Followed, DataRoutes
<1>6. /\ ChannelTells(u) /\ u.seq = t.seq + 1 /\ u.account = t.account /\ u.changes = t.changes
      /\ \A c \in Boards : c.lastSeq <= t.seq =>
           /\ \A r, known : Known(t, c, r, known) => Known(u, c, r, known)
           /\ OfChannel(t, c) => OfChannel(u, c)
  BY <1>3, <1>4, <1>5, EventAdded
<1>7. BoardTells(u, b)
  <2>1. u \in Channels /\ t.seq <= u.seq
    BY <1>3, <1>6, GoalsAssumption DEF ChannelTells, Channels
  <2>2. \A a \in Accounts, r \in GoalRoutes : t.changes[a][r] <= u.changes[a][r]
    BY <1>3, <1>6, GoalsAssumption DEF Channels
  <2> QED BY <2>1, <2>2, <1>3, <1>6, BoardTellsOf
<1>8. ASSUME b.live PROVE OfChannel(u, b) /\ AllKnown(u, b)
  <2>1. OfChannel(t, b) /\ AllKnown(t, b)
    BY <1>1, <1>2, <1>5, <1>8 DEF GoalsInv
  <2>2. b \in Boards /\ b.lastSeq <= t.seq
    BY <1>3 DEF BoardTells
  <2> QED BY <2>1, <2>2, <1>6 DEF AllKnown
<1>9. twitch' = u /\ board' = b /\ ~NothingAsked(board)'
  BY <1>1, <1>2, <1>4 DEF Followed, GoalsInv, NothingAsked
<1> QED BY <1>6, <1>7, <1>8, <1>9 DEF GoalsInv

\* A step that leaves the window and the changes, and after which the events
\* are not live on both sides.
LEMMA ChannelQuiet ==
    ASSUME GoalsInv, NEW u \in Channels, twitch' = u, UNCHANGED board,
           u.changes = twitch.changes, u.made = twitch.made, u.seq = twitch.seq, u.window = twitch.window,
           u.live => u.connected, ~(u.live /\ board.live),
           u.account = twitch.account \/ ~board.connected
    PROVE  GoalsInv'
<1>1. PICK t : t = twitch
  OBVIOUS
<1>2. PICK b : b = board
  OBVIOUS
<1>3. ChannelTells(t) /\ BoardTells(t, b) /\ t \in Channels
  BY <1>1, <1>2 DEF GoalsInv, ChannelTells
<1>4. \A r, x : Made(t, r, x) => Made(u, r, x)
  BY <1>1 DEF Made
<1>5. ChannelTells(u)
  BY <1>1, <1>3, <1>4 DEF ChannelTells
<1>6. u.account = t.account \/ \A r \in GoalRoutes : ~(b.read.answers[r] \in GoalValues /\ b.read.same)
  <2> SUFFICES ASSUME ~b.connected, NEW r \in GoalRoutes, b.read.answers[r] \in GoalValues, b.read.same
               PROVE  FALSE
    BY <1>1, <1>2
  <2>1. b.read.answers[r] # Waits
    BY GoalsAssumption
  <2> QED BY <2>1, <1>3 DEF BoardTells
<1>7. BoardTells(u, b)
  <2>1. t.seq <= u.seq
    BY <1>1, <1>3, GoalsAssumption DEF Channels
  <2>2. \A a \in Accounts, r \in GoalRoutes : t.changes[a][r] <= u.changes[a][r]
    BY <1>1, <1>3, GoalsAssumption DEF Channels
  <2> QED BY <2>1, <2>2, <1>3, <1>6, BoardTellsOf
<1>8. board' = b /\ ~NothingAsked(board)'
  BY <1>2 DEF GoalsInv, NothingAsked
<1> QED BY <1>2, <1>5, <1>7, <1>8 DEF GoalsInv

LEMMA ChannelSteps ==
    ASSUME GoalsInv, EventsLive \/ EventsCut \/ LoseAccount \/ \E a \in Accounts : ConnectAs(a)
    PROVE  GoalsInv'
<1>1. twitch \in Channels /\ (twitch.live => twitch.connected)
  BY DEF GoalsInv, ChannelTells
<1>2. CASE EventsLive
  <2>1. PICK u : u = [twitch EXCEPT !.live = TRUE]
    OBVIOUS
  <2>2. u \in Channels /\ u.account = twitch.account /\ u.connected /\ ~(u.live /\ board.live)
    BY <1>1, <1>2, <2>1 DEF EventsLive, Channels
  <2>3. /\ u.changes = twitch.changes /\ u.made = twitch.made
        /\ u.seq = twitch.seq /\ u.window = twitch.window
    BY <1>1, <2>1 DEF Channels
  <2> QED BY <1>2, <2>1, <2>2, <2>3, ChannelQuiet DEF EventsLive
<1>3. CASE EventsCut
  <2>1. PICK u : u = [twitch EXCEPT !.live = FALSE]
    OBVIOUS
  <2>2. u \in Channels /\ u.account = twitch.account /\ ~u.live
    BY <1>1, <2>1 DEF Channels
  <2>3. /\ u.changes = twitch.changes /\ u.made = twitch.made
        /\ u.seq = twitch.seq /\ u.window = twitch.window
    BY <1>1, <2>1 DEF Channels
  <2> QED BY <1>3, <2>1, <2>2, <2>3, ChannelQuiet DEF EventsCut
<1>4. CASE LoseAccount
  <2>1. PICK u : u = [twitch EXCEPT !.connected = FALSE, !.live = FALSE]
    OBVIOUS
  <2>2. u \in Channels /\ u.account = twitch.account /\ ~u.live
    BY <1>1, <2>1 DEF Channels
  <2>3. /\ u.changes = twitch.changes /\ u.made = twitch.made
        /\ u.seq = twitch.seq /\ u.window = twitch.window
    BY <1>1, <2>1 DEF Channels
  <2> QED BY <1>4, <2>1, <2>2, <2>3, ChannelQuiet DEF LoseAccount
<1>5. ASSUME NEW a \in Accounts, ConnectAs(a) PROVE GoalsInv'
  <2>1. PICK u : u = [twitch EXCEPT !.connected = TRUE, !.account = a]
    OBVIOUS
  <2>2. u \in Channels /\ ~u.live /\ ~board.connected
    BY <1>1, <1>5, <2>1 DEF ConnectAs, Channels
  <2>3. /\ u.changes = twitch.changes /\ u.made = twitch.made
        /\ u.seq = twitch.seq /\ u.window = twitch.window
    BY <1>1, <2>1 DEF Channels
  <2> QED BY <1>5, <2>1, <2>2, <2>3, ChannelQuiet DEF ConnectAs
<1> QED BY <1>2, <1>3, <1>4, <1>5

LEMMA GoalsInitially == GoalsInit => GoalsInv
<1> SUFFICES ASSUME GoalsInit PROVE GoalsInv
  OBVIOUS
<1>1. PICK a \in Accounts : a = CHOOSE x \in Accounts : TRUE
  BY GoalsAssumption
<1>2. PICK changes : changes = [x \in Accounts |-> [r \in GoalRoutes |-> 0]]
  OBVIOUS
<1>3. /\ changes \in [Accounts -> [GoalRoutes -> 0 .. MaxChanges]]
      /\ \A x \in Accounts, r \in GoalRoutes : changes[x][r] = 0
  BY <1>2, GoalsAssumption
<1>4. /\ twitch.account = a /\ twitch.connected = FALSE /\ twitch.live = FALSE
      /\ twitch.changes = changes /\ twitch.made = 0 /\ twitch.seq = 0 /\ twitch.window = <<>>
  BY <1>1, <1>2 DEF GoalsInit
<1>5. twitch \in Channels
  <2>1. <<>> \in Seq([seq : 1 .. MaxEvents, route : DataRoutes, value : GoalValues \cup {NoValue}])
    OBVIOUS
  <2>2. 0 \in 0 .. MaxChanges /\ 0 \in 0 .. MaxEvents
    BY GoalsAssumption
  <2> QED BY <2>1, <2>2, <1>1, <1>2, <1>3 DEF GoalsInit, Channels
<1>6. ChannelTells(twitch)
  <2>1. Len(twitch.window) <= EventWindow /\ DOMAIN twitch.window = {}
    BY <1>4, GoalsAssumption
  <2>2. \A x \in Accounts, r \in GoalRoutes : twitch.changes[x][r] <= twitch.made
    BY <1>3, <1>4
  <2> QED BY <2>1, <2>2, <1>4, <1>5 DEF ChannelTells
<1>7. /\ board.lastSeq = 0 /\ board.current = {} /\ board.learnt = Blank /\ board.read = NoRequest
      /\ ~board.live
  BY DEF GoalsInit
<1>8. board \in Boards
  <2>1. Blank \in [GoalRoutes -> GoalValues \cup {NoValue}]
    BY DEF Blank
  <2>2. 0 \in 0 .. MaxEvents
    BY GoalsAssumption
  <2> QED BY <2>1, <2>2, NoRequestType DEF GoalsInit, Boards
<1>9. \A r \in GoalRoutes :
        /\ r \in AllRoutes /\ board.learnt[r] = NoValue /\ board.read.answers[r] = Waits
        /\ NoValue \notin GoalValues /\ Waits \notin GoalValues
  BY <1>7, NoRequestType, GoalsAssumption DEF Blank, AllRoutes, DataRoutes
<1>10. BoardTells(twitch, board)
  BY <1>4, <1>7, <1>8, <1>9, NoRequestType DEF BoardTells, Made
<1>11. ~NothingAsked(board)
  BY <1>7, NoRequestType DEF NothingAsked
<1> QED BY <1>4, <1>6, <1>10, <1>11 DEF GoalsInv

LEMMA GoalsInvHolds == GoalsSpec => []GoalsInv
<1>1. GoalsInv /\ [GoalsNext]_goalsVars => GoalsInv'
  <2> SUFFICES ASSUME GoalsInv, [GoalsNext]_goalsVars PROVE GoalsInv'
    OBVIOUS
  <2>1. ASSUME NEW r \in GoalRoutes, GoalChanged(r) PROVE GoalsInv'
    BY <2>1, GoalChangedStep
  <2>2. CASE Followed
    BY <2>2, FollowedStep
  <2>3. CASE EventsLive \/ EventsCut \/ LoseAccount \/ \E a \in Accounts : ConnectAs(a)
    BY <2>3, ChannelSteps
  <2>4. CASE EventsUpdate
    BY <2>4, EventsUpdateStep
  <2>5. CASE AccountUpdate
    BY <2>5, AccountUpdateStep
  <2>6. CASE ServeRead
    BY <2>6, ServeReadStep
  <2>7. CASE UserRead
    BY <2>7, UserReadStep
  <2>8. CASE DataRead
    BY <2>8, DataReadStep
  <2>9. CASE Beat
    BY <2>9, BeatStep
  <2>10. CASE UNCHANGED goalsVars
    <3>1. twitch' = twitch /\ board' = board
      BY <2>10 DEF goalsVars
    <3> QED BY <3>1 DEF GoalsInv, NothingAsked
  <2> QED BY <2>1, <2>2, <2>3, <2>4, <2>5, <2>6, <2>7, <2>8, <2>9, <2>10 DEF GoalsNext
<1> QED BY <1>1, GoalsInitially, PTL DEF GoalsSpec

(* Whatever the accounts, the goals and the window of the host, the state   *)
(* of the channel and of the widget (logic.ts: `model`) is of its type.     *)
THEOREM GoalsTypeCorrect == GoalsSpec => []GoalsTypeOK
<1>1. GoalsInv => GoalsTypeOK
  BY DEF GoalsInv, ChannelTells, BoardTells, GoalsTypeOK
<1> QED BY <1>1, GoalsInvHolds, PTL

(* A goal that logic.ts takes for current, and so does not read, is one     *)
(* whose last change it was given: no cut of the events, no event dropped   *)
(* from the window and no change of account leaves an older value there.    *)
THEOREM GoalsNothingMissed == GoalsSpec => []NothingMissed
<1>1. GoalsInv => NothingMissed
  <2> SUFFICES ASSUME GoalsInv, ~EventsUntold, board.connected = twitch.connected,
                      NEW r \in board.current \cap GoalRoutes
               PROVE  board.learnt[r] = ChannelValue(r)
    BY DEF NothingMissed
  <2>1. board.live = twitch.live /\ ~(board.lastSeq < twitch.seq)
    BY DEF EventsUntold
  <2>2. board.live
    BY DEF GoalsInv, BoardTells
  <2>3. Known(twitch, board, r, board.learnt[r])
    BY <2>1, <2>2 DEF GoalsInv, AllKnown
  <2>4. /\ twitch.seq \in Nat /\ board.lastSeq \in Nat
        /\ twitch.window \in Seq([seq : 1 .. MaxEvents, route : DataRoutes, value : GoalValues \cup {NoValue}])
    BY GoalsAssumption DEF GoalsInv, ChannelTells, BoardTells, Channels, Boards
  <2>5. PICK n \in Nat : n = Len(twitch.window) /\ DOMAIN twitch.window = 1..n
    BY <2>4
  <2>6. ~Gap(twitch, board)
    BY <2>1, <2>4, <2>5 DEF Gap
  <2>7. ASSUME NEW i \in 1..n, twitch.window[i].seq > board.lastSeq PROVE FALSE
    <3>1. twitch.window[i].seq = twitch.seq - n + i
      BY <2>5 DEF GoalsInv, ChannelTells
    <3> QED BY <3>1, <2>1, <2>4, <2>7
  <2>8. ~Coming(twitch, board, r)
    BY <2>5, <2>7 DEF Coming
  <2> QED BY <2>3, <2>6, <2>8 DEF Known, NewestOf, ChannelValue
<1> QED BY <1>1, GoalsInvHolds, PTL
=============================================================================
