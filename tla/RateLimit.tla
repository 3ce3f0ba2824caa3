----------------------------- MODULE RateLimit -----------------------------
(***************************************************************************)
(* A Limiter (utils/ratelimit/ratelimit.go): several limits on one         *)
(* subject, an event let through only when every one has room for it.      *)
(* Each limit's room is kept as the time it would be full again.  Whoever  *)
(* asks gives the time, which may go backwards from one call to the next.  *)
(***************************************************************************)
EXTENDS Integers

CONSTANTS
  Limits,
  Per,          \* Limit -> the time it counts over
  Interval,     \* Limit -> Per / Count, the time one event takes to come back
  Amounts,      \* how many events one AllowN may ask for, such as bytes
  MaxClock      \* bound of the model on the times given

ASSUME RateAssumption ==
  /\ Per \in [Limits -> Nat] /\ Interval \in [Limits -> Nat]
  /\ \A l \in Limits : 0 < Interval[l] /\ Interval[l] <= Per[l]
  /\ Amounts \subseteq Nat \ {0}
  /\ MaxClock \in Nat

VARIABLES
  fullAt,       \* Limit -> when its bucket would be full again
  latest,       \* the latest time any bucket saw
  since,        \* some instant an observer began to count at
  taken         \* the events let through since then

rateVars == <<fullAt, latest, since, taken>>

RateTypeOK ==
  /\ fullAt \in [Limits -> Nat]
  /\ latest \in Nat /\ since \in Nat /\ taken \in Nat

\* bucket.at: never before a time the bucket already saw.
At(now) == IF now < latest THEN latest ELSE now

\* Mutant: bucket.after, counting from when the bucket was last full.
AfterSinceFull(room, l, at, n) == room[l] + n * Interval[l]

\* bucket.after: when the bucket would be full had it taken n events at `at'.
After(room, l, at, n) == (IF room[l] < at THEN at ELSE room[l]) + n * Interval[l]

\* bucket.wait, 0 or less when the events already fit.
Wait(room, l, at, n) == After(room, l, at, n) - at - Per[l]

Fits(room, at, n) == \A l \in Limits : Wait(room, l, at, n) <= 0

\* allow: all of the limits take the events, or none does.
TakenFrom(room, at, n) ==
  IF Fits(room, at, n) THEN [l \in Limits |-> After(room, l, at, n)] ELSE room

-----------------------------------------------------------------------------
\* AllowN, and Allow for one event.
Allow(now, n) ==
  /\ latest' = At(now)
  /\ fullAt' = TakenFrom(fullAt, At(now), n)
  /\ taken' = IF Fits(fullAt, At(now), n) THEN taken + n ELSE taken
  /\ UNCHANGED since

\* Record's bucket: an empty one stays empty, it never owes more than Per.
Recorded(l, at) ==
  IF After(fullAt, l, at, 1) > at + Per[l] THEN at + Per[l] ELSE After(fullAt, l, at, 1)

\* An event that cannot be refused, such as a tick's boundary.
Record(now) ==
  /\ latest' = At(now)
  /\ fullAt' = [l \in Limits |-> Recorded(l, At(now))]
  /\ UNCHANGED <<since, taken>>

\* An observer begins to count the events let through.
Observe ==
  /\ since' = latest
  /\ taken' = 0
  /\ UNCHANGED <<fullAt, latest>>

RateInit ==
  /\ fullAt = [l \in Limits |-> 0]
  /\ latest = 0 /\ since = 0 /\ taken = 0

RateNext ==
  \/ \E now \in 0..MaxClock :
       \/ Record(now)
       \/ \E n \in Amounts : Allow(now, n)
  \/ Observe

RateSpec == RateInit /\ [][RateNext]_rateVars

-----------------------------------------------------------------------------
\* Counted from any instant, the events let through never exceed what every
\* limit holds at once and what came back to it since; and however many
\* events were recorded beyond the limits, one fits again within Interval.
LimitsHold ==
  \A l \in Limits :
    /\ taken * Interval[l] <= (latest - since) + Per[l]
    /\ Wait(fullAt, l, latest, 1) <= Interval[l]
=============================================================================
