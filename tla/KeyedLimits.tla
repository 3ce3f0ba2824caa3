---------------------------- MODULE KeyedLimits ----------------------------
(***************************************************************************)
(* Keyed limits (utils/ratelimit/ratelimit.go) as the API throttles its    *)
(* requests with them (api/internal/throttle/throttle.go): by the User a   *)
(* route authorized, else by client address.  Keys whose room came back    *)
(* are forgotten.  `remembered' is what a Keyed that forgets no one would  *)
(* hold for each key.  The clock is the server's own, and monotonic.       *)
(***************************************************************************)
EXTENDS RateLimit

CONSTANTS
  UserKeys, ClientKeys,
  NoSubject,
  SweepEvery        \* the longest limit's Per

ASSUME KeyedAssumption == NoSubject \notin [Limits -> Nat]

VARIABLES
  subjects,         \* Key -> its buckets, NoSubject when forgotten
  remembered,       \* Key -> its buckets, had it never been forgotten
  lastSweep,        \* limiter kind -> when it last swept
  requestTime,
  throttled         \* the answer given to the last request

keyedVars == <<subjects, remembered, lastSweep, requestTime, throttled>>

SubjectKeys == UserKeys \cup ClientKeys

NewBuckets == [l \in Limits |-> 0]

\* The limiter that counts a key: perUser or perClient.
LimiterOf(k) == IF k \in UserKeys THEN UserKeys ELSE ClientKeys

KindOf(k) == IF k \in UserKeys THEN "user" ELSE "client"

\* Mutant: a key forgotten once any of its limits came back.
FullInAny(room, now) == \E l \in Limits : room[l] <= now

\* bucket.full, in every limit.
Full(room, now) == \A l \in Limits : room[l] <= now

\* sweep: at most once per SweepEvery, by any key's request.
Swept(kind, keys, now) ==
  IF now - lastSweep[kind] < SweepEvery THEN subjects
  ELSE [k \in SubjectKeys |->
    IF k \in keys /\ subjects[k] # NoSubject /\ Full(subjects[k], now)
    THEN NoSubject ELSE subjects[k]]

\* Keyed.Allow on a request's key; throttle.Requests refuses what it refuses.
ThrottleRequest(k) ==
  LET swept == Swept(KindOf(k), LimiterOf(k), requestTime)
      room == IF swept[k] = NoSubject THEN NewBuckets ELSE swept[k]
  IN /\ subjects' = [swept EXCEPT ![k] = TakenFrom(room, requestTime, 1)]
     /\ throttled' = [key |-> k, allowed |-> Fits(room, requestTime, 1),
                      expected |-> Fits(remembered[k], requestTime, 1)]
     /\ remembered' = [remembered EXCEPT ![k] = TakenFrom(@, requestTime, 1)]
     /\ lastSweep' =
          IF requestTime - lastSweep[KindOf(k)] < SweepEvery THEN lastSweep
          ELSE [lastSweep EXCEPT ![KindOf(k)] = requestTime]
     /\ UNCHANGED requestTime

RequestTimePasses ==
  /\ requestTime < MaxClock
  /\ requestTime' = requestTime + 1
  /\ UNCHANGED <<subjects, remembered, lastSweep, throttled>>

KeyedInit ==
  /\ subjects = [k \in SubjectKeys |-> NoSubject]
  /\ remembered = [k \in SubjectKeys |-> NewBuckets]
  /\ lastSweep = [kind \in {"user", "client"} |-> 0]
  /\ requestTime = 0
  /\ throttled = [key |-> NoSubject, allowed |-> TRUE, expected |-> TRUE]

KeyedNext == (\E k \in SubjectKeys : ThrottleRequest(k)) \/ RequestTimePasses

-----------------------------------------------------------------------------
\* A forgotten key behaves exactly as a key never seen: every request is
\* answered as if no key were ever forgotten, and what a key still
\* remembered holds is what it would hold then.
ForgettingIsFree ==
  /\ throttled.allowed = throttled.expected
  /\ \A k \in SubjectKeys :
       IF subjects[k] = NoSubject THEN Full(remembered[k], requestTime)
       ELSE subjects[k] = remembered[k]
=============================================================================
