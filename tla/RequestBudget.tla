---------------------------- MODULE RequestBudget ----------------------------
(***************************************************************************)
(* The request budget of one session of the development channel            *)
(* (crates/overcrow-widget-devchannel, `RequestBudget`): a token bucket    *)
(* refilled by the caller's clock, in saturating 64-bit arithmetic.  The   *)
(* clock the caller passes may stand still or go back.                     *)
(*                                                                         *)
(* An observer may start to count at any time: what it counts since then   *)
(* is what any interval of the session may hold.                           *)
(***************************************************************************)
EXTENDS Naturals

CONSTANTS
    Unit,       \* tokens of one request (thousandths: 1000)
    Rate,       \* REQUESTS_PER_SECOND: tokens refilled in a millisecond
    Burst,      \* REQUEST_BURST
    MaxU64,     \* the largest 64-bit number
    MaxNow      \* bound of the clock (model checking only)

ASSUME BudgetType ==
    /\ Unit \in Nat \ {0} /\ Rate \in Nat \ {0} /\ Burst \in Nat \ {0}
    /\ MaxU64 \in Nat /\ MaxNow \in Nat
    /\ Burst * Unit <= MaxU64 /\ MaxNow <= MaxU64

VARIABLES
    tokens,     \* in the bucket
    last_ms,    \* the latest time seen
    since,      \* history: when the observer started to count
    taken,      \* history: the requests taken since then
    spaced,     \* history: the length of the pause before each request so far
    refused     \* history: a request was refused

budgetVars == <<tokens, last_ms, since, taken, spaced, refused>>

Full == Burst * Unit
Saturate(x) == IF x > MaxU64 THEN MaxU64 ELSE x
Lesser(a, b) == IF a < b THEN a ELSE b
Elapsed(now) == IF now > last_ms THEN now - last_ms ELSE 0

(* Mutant of Latest: a clock that went back is followed.                   *)
LatestGiven(now) == now

Latest(now) == IF now > last_ms THEN now ELSE last_ms

(* Mutant of Refilled: the bucket may hold more than the burst.            *)
RefilledPastFull(now) == Saturate(tokens + Saturate(Elapsed(now) * Rate))

Refilled(now) == Lesser(Saturate(tokens + Saturate(Elapsed(now) * Rate)), Full)

BudgetInit ==
    /\ tokens = Full
    /\ last_ms \in 0 .. MaxNow
    /\ since = last_ms
    /\ taken = 0
    /\ spaced = TRUE
    /\ refused = FALSE

(* `take` at the time `now`.                                               *)
Take(now) ==
    /\ last_ms' = Latest(now)
    /\ spaced' = (spaced /\ Elapsed(now) * Rate >= Unit)
    /\ IF Refilled(now) < Unit
       THEN /\ tokens' = Refilled(now)
            /\ refused' = TRUE
            /\ UNCHANGED taken
       ELSE /\ tokens' = Refilled(now) - Unit
            /\ taken' = taken + 1
            /\ UNCHANGED refused
    /\ UNCHANGED since

Observe ==
    /\ since' = last_ms
    /\ taken' = 0
    /\ UNCHANGED <<tokens, last_ms, spaced, refused>>

BudgetNext ==
    \/ \E now \in 0 .. MaxNow : Take(now)
    \/ Observe

BudgetSpec == BudgetInit /\ [][BudgetNext]_budgetVars

-----------------------------------------------------------------------------
BudgetTypeOK ==
    /\ tokens \in 0 .. Full
    /\ last_ms \in Nat
    /\ since \in 0 .. last_ms
    /\ taken \in Nat
    /\ spaced \in BOOLEAN /\ refused \in BOOLEAN

(* What is in the bucket and what was taken from it were in the bucket at  *)
(* the start of the interval, or refilled in it.                           *)
Balance == tokens + taken * Unit <= Full + (last_ms - since) * Rate

(* In any interval, no more requests than the burst and the rate allow.    *)
WithinRate == taken * Unit <= Full + (last_ms - since) * Rate

(* A session whose requests are spaced as the rate asks is never refused.  *)
SpacedNeverRefused == spaced => ~refused

BudgetInv == BudgetTypeOK /\ Balance /\ SpacedNeverRefused
=============================================================================
