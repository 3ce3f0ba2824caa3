----------------------- MODULE RuntimeServicesProofs -----------------------
(***************************************************************************)
(* RuntimeServices for any limits, keys, handshakes, owners and bounds.    *)
(***************************************************************************)
EXTENDS RuntimeServices, FiniteSetTheorems, TLAPS

-----------------------------------------------------------------------------
(* A limiter. *)

\* Inductive: a bucket never owes more than Per, and what an observer saw let
\* through since it began is still owed or was given back in time.
RateInv ==
  /\ RateTypeOK
  /\ since <= latest
  /\ \A l \in Limits : fullAt[l] <= latest + Per[l]
  /\ taken = 0 \/ \A l \in Limits : since + taken * Interval[l] <= fullAt[l]

\* Events taken from a bucket are owed on top of what it owed already.
LEMMA AfterIsOwed ==
  ASSUME NEW room \in [Limits -> Nat], NEW l \in Limits, NEW when \in Nat, NEW n \in Nat
  PROVE  /\ After(room, l, when, n) \in Nat
         /\ n * Interval[l] \in Nat
         /\ room[l] + n * Interval[l] <= After(room, l, when, n)
         /\ when + n * Interval[l] <= After(room, l, when, n)
<1>1. Interval[l] \in Nat /\ room[l] \in Nat
  BY RateAssumption
<1>2. PICK owed \in Nat : owed = n * Interval[l]
  <2>1. \A i \in Nat, j \in Nat : i * j \in Nat
    OBVIOUS
  <2>2. QED
    BY <1>1, <2>1
<1>3. QED
  BY <1>1, <1>2 DEF After

\* Allow keeps the invariant: what it lets through fits in every bucket.
LEMMA AllowStep ==
  ASSUME RateInv, NEW now \in Nat, NEW n \in Nat, Allow(now, n)
  PROVE  RateInv'
<1> DEFINE when == At(now)
<1>1. /\ when \in Nat /\ latest <= when /\ latest' = when /\ since' = since
      /\ latest \in Nat /\ since \in Nat /\ taken \in Nat /\ fullAt \in [Limits -> Nat]
  BY DEF RateInv, RateTypeOK, Allow, At
<1>2. /\ Per \in [Limits -> Nat] /\ Interval \in [Limits -> Nat]
  BY RateAssumption
<1>3. CASE Fits(fullAt, when, n)
  <2>1. fullAt' = [l \in Limits |-> After(fullAt, l, when, n)] /\ taken' = taken + n
    BY <1>3 DEF Allow, TakenFrom
  <2>2. RateTypeOK'
    BY <1>1, <2>1, AfterIsOwed DEF RateTypeOK
  <2>3. \A l \in Limits : fullAt'[l] <= latest' + Per[l]
    <3>1. TAKE l \in Limits
    <3>2. After(fullAt, l, when, n) - when - Per[l] <= 0 /\ After(fullAt, l, when, n) \in Nat
      BY <1>1, <1>3, AfterIsOwed DEF Fits, Wait
    <3>3. QED
      BY <1>1, <1>2, <2>1, <3>2
  <2>4. \A l \in Limits : since' + taken' * Interval[l] <= fullAt'[l]
    <3>1. TAKE l \in Limits
    <3>2. /\ n * Interval[l] \in Nat /\ fullAt[l] \in Nat /\ Interval[l] \in Nat
          /\ fullAt[l] + n * Interval[l] <= fullAt'[l]
          /\ when + n * Interval[l] <= fullAt'[l] /\ fullAt'[l] \in Nat
      BY <1>1, <1>2, <2>1, AfterIsOwed
    <3>3. (taken + n) * Interval[l] = taken * Interval[l] + n * Interval[l]
      BY <1>1, <3>2
    <3>4. CASE taken = 0
      BY <1>1, <2>1, <3>2, <3>4 DEF RateInv
    <3>5. CASE taken # 0
      <4>1. since + taken * Interval[l] <= fullAt[l] /\ taken * Interval[l] \in Int
        BY <1>1, <3>2, <3>5 DEF RateInv
      <4>2. QED
        BY <1>1, <2>1, <3>2, <3>3, <4>1
    <3>6. QED
      BY <3>4, <3>5
  <2>5. QED
    BY <1>1, <2>2, <2>3, <2>4 DEF RateInv
<1>4. CASE ~Fits(fullAt, when, n)
  <2>1. fullAt' = fullAt /\ taken' = taken
    BY <1>4 DEF Allow, TakenFrom
  <2>2. \A l \in Limits : fullAt[l] <= latest' + Per[l]
    BY <1>1, <1>2 DEF RateInv
  <2>3. QED
    BY <1>1, <2>1, <2>2 DEF RateInv, RateTypeOK
<1>5. QED
  BY <1>3, <1>4

\* Record keeps the invariant: a bucket owes more, but never more than Per.
LEMMA RecordStep ==
  ASSUME RateInv, NEW now \in Nat, Record(now)
  PROVE  RateInv'
<1> DEFINE when == At(now)
<1>1. /\ when \in Nat /\ latest <= when /\ latest' = when /\ since' = since /\ taken' = taken
      /\ latest \in Nat /\ since \in Nat /\ taken \in Nat /\ fullAt \in [Limits -> Nat]
      /\ fullAt' = [l \in Limits |-> Recorded(l, when)]
  BY DEF RateInv, RateTypeOK, Record, At
<1>2. ASSUME NEW l \in Limits
      PROVE  /\ fullAt'[l] \in Nat
             /\ fullAt[l] <= fullAt'[l]
             /\ fullAt'[l] <= latest' + Per[l]
  <2>1. Per[l] \in Nat /\ fullAt[l] \in Nat /\ fullAt[l] <= latest + Per[l]
        /\ 1 * Interval[l] \in Nat
    BY <1>1, RateAssumption DEF RateInv
  <2>2. /\ After(fullAt, l, when, 1) \in Nat
        /\ fullAt[l] + 1 * Interval[l] <= After(fullAt, l, when, 1)
    BY <1>1, AfterIsOwed
  <2>3. QED
    BY <1>1, <2>1, <2>2 DEF Recorded
<1>3. RateTypeOK'
  BY <1>1, <1>2 DEF RateTypeOK
<1>4. taken' = 0 \/ \A l \in Limits : since' + taken' * Interval[l] <= fullAt'[l]
  <2>1. ASSUME taken # 0, NEW l \in Limits
        PROVE  since + taken * Interval[l] <= fullAt'[l]
    <3>1. since + taken * Interval[l] <= fullAt[l]
      BY <2>1 DEF RateInv
    <3>2. taken * Interval[l] \in Int /\ fullAt[l] \in Nat
      BY <1>1, RateAssumption
    <3>3. QED
      BY <1>1, <1>2, <3>1, <3>2
  <2>2. QED
    BY <1>1, <2>1
<1>5. QED
  BY <1>1, <1>2, <1>3, <1>4 DEF RateInv

\* Every step keeps the invariant.
LEMMA RateStep ==
  ASSUME RateInv, [RateNext]_rateVars
  PROVE  RateInv'
<1>1. ASSUME NEW now \in 0..MaxClock, Record(now)
      PROVE  RateInv'
  BY <1>1, RecordStep, RateAssumption
<1>2. ASSUME NEW now \in 0..MaxClock, NEW n \in Amounts, Allow(now, n)
      PROVE  RateInv'
  BY <1>2, AllowStep, RateAssumption
<1>3. CASE Observe
  BY <1>3 DEF Observe, RateInv, RateTypeOK
<1>4. CASE UNCHANGED rateVars
  BY <1>4 DEF rateVars, RateInv, RateTypeOK
<1>5. QED
  BY <1>1, <1>2, <1>3, <1>4 DEF RateNext

\* What the invariant says of what was let through and of the next event.
LEMMA RateInvHolds ==
  ASSUME RateInv
  PROVE  LimitsHold
<1> SUFFICES ASSUME NEW l \in Limits
             PROVE  /\ taken * Interval[l] <= (latest - since) + Per[l]
                    /\ Wait(fullAt, l, latest, 1) <= Interval[l]
  BY DEF LimitsHold
<1>1. /\ latest \in Nat /\ since \in Nat /\ taken \in Nat /\ fullAt[l] \in Nat
      /\ Per[l] \in Nat /\ Interval[l] \in Nat /\ since <= latest
      /\ fullAt[l] <= latest + Per[l]
  BY RateAssumption DEF RateInv, RateTypeOK
<1>2. taken * Interval[l] <= (latest - since) + Per[l]
  <2>1. CASE taken = 0
    BY <1>1, <2>1
  <2>2. CASE taken # 0
    <3>1. since + taken * Interval[l] <= fullAt[l] /\ taken * Interval[l] \in Int
      BY <1>1, <2>2 DEF RateInv
    <3>2. QED
      BY <1>1, <3>1
  <2>3. QED
    BY <2>1, <2>2
<1>3. Wait(fullAt, l, latest, 1) <= Interval[l]
  BY <1>1 DEF Wait, After
<1>4. QED
  BY <1>2, <1>3

\* Whatever times callers give and whatever is recorded beyond the limits,
\* no limit lets through more than it holds and gave back, and one event fits
\* again within its Interval (Limiter.Allow, AllowN, Record).
THEOREM LimitsAlwaysHold == RateSpec => []LimitsHold
<1>1. RateInit => RateInv
  BY RateAssumption DEF RateInit, RateInv, RateTypeOK
<1>2. RateInv /\ [RateNext]_rateVars => RateInv'
  BY RateStep
<1>3. RateInv => LimitsHold
  BY RateInvHolds
<1>4. QED
  BY <1>1, <1>2, <1>3, PTL DEF RateSpec

-----------------------------------------------------------------------------
(* Keyed limits. *)

\* A key's buckets are those it would have had it never been forgotten, or
\* would be full by now.
KeptAsRemembered(kept, now) ==
  \A k \in SubjectKeys :
    IF kept[k] = NoSubject THEN Full(remembered[k], now) ELSE kept[k] = remembered[k]

\* Inductive.
KeyedInv ==
  /\ requestTime \in Nat
  /\ remembered \in [SubjectKeys -> [Limits -> Nat]]
  /\ subjects \in [SubjectKeys -> [Limits -> Nat] \cup {NoSubject}]
  /\ throttled.allowed = throttled.expected
  /\ KeptAsRemembered(subjects, requestTime)

\* Full buckets answer one request as new ones do, and are left alike.
LEMMA FullIsNew ==
  ASSUME NEW room \in [Limits -> Nat], NEW now \in Nat, Full(room, now)
  PROVE  /\ Fits(room, now, 1) <=> Fits(NewBuckets, now, 1)
         /\ TakenFrom(room, now, 1) = TakenFrom(NewBuckets, now, 1)
<1>1. ASSUME NEW l \in Limits
      PROVE  After(room, l, now, 1) = After(NewBuckets, l, now, 1)
  <2>1. room[l] \in Nat /\ room[l] <= now /\ NewBuckets[l] = 0
    BY DEF Full, NewBuckets
  <2>2. QED
    BY <2>1 DEF After
<1>2. Fits(room, now, 1) <=> Fits(NewBuckets, now, 1)
  BY <1>1 DEF Fits, Wait
<1>3. Fits(NewBuckets, now, 1)
  <2>1. ASSUME NEW l \in Limits
        PROVE  Wait(NewBuckets, l, now, 1) <= 0
    <3>1. NewBuckets[l] = 0 /\ Interval[l] \in Nat /\ Per[l] \in Nat /\ Interval[l] <= Per[l]
      BY RateAssumption DEF NewBuckets
    <3>2. QED
      BY <3>1 DEF Wait, After
  <2>2. QED
    BY <2>1 DEF Fits
<1>4. QED
  BY <1>1, <1>2, <1>3 DEF TakenFrom

\* What a limiter takes from buckets is buckets.
LEMMA TakenIsRoom ==
  ASSUME NEW room \in [Limits -> Nat], NEW now \in Nat
  PROVE  TakenFrom(room, now, 1) \in [Limits -> Nat]
<1>1. ASSUME NEW l \in Limits
      PROVE  After(room, l, now, 1) \in Nat
  <2>1. Interval[l] \in Nat /\ room[l] \in Nat
    BY RateAssumption
  <2>2. QED
    BY <2>1 DEF After
<1>2. QED
  BY <1>1 DEF TakenFrom

\* Keyed.sweep forgets only what came back.
LEMMA SweepForgetsTheFull ==
  ASSUME KeyedInv, NEW kind, NEW keys
  PROVE  /\ Swept(kind, keys, requestTime) \in [SubjectKeys -> [Limits -> Nat] \cup {NoSubject}]
         /\ KeptAsRemembered(Swept(kind, keys, requestTime), requestTime)
<1>1. CASE requestTime - lastSweep[kind] < SweepEvery
  BY <1>1 DEF KeyedInv, Swept
<1>2. CASE ~ (requestTime - lastSweep[kind] < SweepEvery)
  <2>1. Swept(kind, keys, requestTime) =
          [k \in SubjectKeys |->
             IF k \in keys /\ subjects[k] # NoSubject /\ Full(subjects[k], requestTime)
             THEN NoSubject ELSE subjects[k]]
    BY <1>2 DEF Swept
  <2>2. QED
    BY <2>1 DEF KeyedInv, KeptAsRemembered
<1>3. QED
  BY <1>1, <1>2

\* Keyed.Allow keeps every key's buckets as they would be.
LEMMA ThrottleStep ==
  ASSUME KeyedInv, NEW k \in SubjectKeys, ThrottleRequest(k)
  PROVE  KeyedInv'
<1>1. PICK swept : swept = Swept(KindOf(k), LimiterOf(k), requestTime)
  OBVIOUS
<1>2. /\ swept \in [SubjectKeys -> [Limits -> Nat] \cup {NoSubject}]
      /\ KeptAsRemembered(swept, requestTime)
  BY <1>1, SweepForgetsTheFull
<1>3. PICK room : room = IF swept[k] = NoSubject THEN NewBuckets ELSE swept[k]
  OBVIOUS
<1>4. /\ subjects' = [swept EXCEPT ![k] = TakenFrom(room, requestTime, 1)]
      /\ throttled' = [key |-> k, allowed |-> Fits(room, requestTime, 1),
                       expected |-> Fits(remembered[k], requestTime, 1)]
      /\ remembered' = [remembered EXCEPT ![k] = TakenFrom(@, requestTime, 1)]
      /\ requestTime' = requestTime
  BY <1>1, <1>3 DEF ThrottleRequest
<1>5. /\ requestTime \in Nat /\ remembered \in [SubjectKeys -> [Limits -> Nat]]
      /\ remembered[k] \in [Limits -> Nat]
  BY DEF KeyedInv
<1>6. room \in [Limits -> Nat]
  BY <1>2, <1>3 DEF NewBuckets
<1>7. /\ Fits(room, requestTime, 1) <=> Fits(remembered[k], requestTime, 1)
      /\ TakenFrom(room, requestTime, 1) = TakenFrom(remembered[k], requestTime, 1)
  <2>1. CASE swept[k] = NoSubject
    BY <1>2, <1>3, <1>5, <2>1, FullIsNew DEF KeptAsRemembered
  <2>2. CASE swept[k] # NoSubject
    BY <1>2, <1>3, <2>2 DEF KeptAsRemembered
  <2>3. QED
    BY <2>1, <2>2
<1>8. PICK left \in [Limits -> Nat] : left = TakenFrom(room, requestTime, 1)
  BY <1>5, <1>6, TakenIsRoom
<1>9. /\ remembered' \in [SubjectKeys -> [Limits -> Nat]]
      /\ subjects' \in [SubjectKeys -> [Limits -> Nat] \cup {NoSubject}]
  BY <1>2, <1>4, <1>5, <1>7, <1>8
<1>10. throttled'.allowed = throttled'.expected
  <2>1. throttled'.allowed = Fits(room, requestTime, 1)
    BY <1>4
  <2>2. throttled'.expected = Fits(remembered[k], requestTime, 1)
    BY <1>4
  <2>3. Fits(room, requestTime, 1) = Fits(remembered[k], requestTime, 1)
    BY <1>7 DEF Fits
  <2>4. QED
    BY <2>1, <2>2, <2>3
<1>11. \A j \in SubjectKeys :
         IF subjects'[j] = NoSubject THEN Full(remembered'[j], requestTime)
         ELSE subjects'[j] = remembered'[j]
  <2>1. subjects'[k] = remembered'[k] /\ subjects'[k] # NoSubject
    BY <1>2, <1>4, <1>5, <1>7, <1>8, KeyedAssumption
  <2>2. \A j \in SubjectKeys : j # k => subjects'[j] = swept[j] /\ remembered'[j] = remembered[j]
    BY <1>2, <1>4, <1>5
  <2>3. QED
    BY <1>2, <2>1, <2>2 DEF KeptAsRemembered
<1>12. QED
  BY <1>4, <1>5, <1>9, <1>10, <1>11 DEF KeyedInv, KeptAsRemembered

\* Every step of the keyed limits keeps the invariant.
LEMMA KeyedStep ==
  ASSUME KeyedInv, [KeyedNext]_keyedVars
  PROVE  KeyedInv'
<1>1. CASE RequestTimePasses
  <2>1. /\ requestTime' = requestTime + 1 /\ subjects' = subjects
        /\ remembered' = remembered /\ throttled' = throttled
    BY <1>1 DEF RequestTimePasses
  <2>2. requestTime \in Nat /\ requestTime' \in Nat /\ MaxClock \in Nat
    BY <2>1, RateAssumption DEF KeyedInv
  <2>3. \A k \in SubjectKeys : Full(remembered[k], requestTime) => Full(remembered[k], requestTime')
    BY <2>1, <2>2 DEF KeyedInv, Full
  <2>4. QED
    BY <2>1, <2>2, <2>3 DEF KeyedInv, KeptAsRemembered
<1>2. CASE UNCHANGED keyedVars
  BY <1>2 DEF keyedVars, KeyedInv, KeptAsRemembered
<1>3. QED
  BY <1>1, <1>2, ThrottleStep DEF KeyedNext

-----------------------------------------------------------------------------
(* The audit of the limits hit. *)

\* Inductive.
AuditInv ==
  /\ hits \in [HitKeys -> Nat] /\ pendingHits \in [HitKeys -> Nat]
  /\ flushing \in [HitKeys -> Nat]
  /\ auditedHits \in [HitKeys -> Nat] /\ lostHits \in [HitKeys -> Nat]
  /\ HitsAreCountedOnce

\* A new key is gathered only while there is room for it.
LEMMA GatheringFits ==
  ASSUME AuditInv, NEW k \in HitKeys,
         ~ (pendingHits[k] = 0 /\ Cardinality(Keyed(pendingHits)) >= MaxPendingKeys)
  PROVE  Cardinality(Keyed([pendingHits EXCEPT ![k] = @ + 1])) <= MaxPendingKeys
<1>1. /\ pendingHits \in [HitKeys -> Nat]
      /\ Cardinality(Keyed(pendingHits)) <= MaxPendingKeys /\ MaxPendingKeys \in Nat
  BY AuditAssumption DEF AuditInv, HitsAreCountedOnce
<1>2. IsFiniteSet(Keyed(pendingHits))
  BY AuditAssumption, FS_Subset DEF Keyed
<1>3. Cardinality(Keyed(pendingHits)) \in Nat
  BY <1>2, FS_CardinalityType
<1>4. Keyed([pendingHits EXCEPT ![k] = @ + 1]) = Keyed(pendingHits) \cup {k}
  BY <1>1 DEF Keyed
<1>5. CASE pendingHits[k] = 0
  <2>1. k \notin Keyed(pendingHits)
    BY <1>5 DEF Keyed
  <2>2. Cardinality(Keyed(pendingHits) \cup {k}) = Cardinality(Keyed(pendingHits)) + 1
    BY <1>2, <2>1, FS_AddElement
  <2>3. PICK n \in Nat : n = Cardinality(Keyed(pendingHits))
    BY <1>3
  <2>4. n < MaxPendingKeys
    BY <1>1, <1>5, <2>3
  <2>5. n + 1 <= MaxPendingKeys
    BY <1>1, <2>4
  <2>6. QED
    BY <1>4, <2>2, <2>3, <2>5
<1>6. CASE pendingHits[k] # 0
  <2>1. Keyed(pendingHits) \cup {k} = Keyed(pendingHits)
    BY <1>1, <1>6 DEF Keyed
  <2>2. QED
    BY <1>1, <1>4, <2>1
<1>7. QED
  BY <1>5, <1>6

\* Hit gathers a refusal or drops it.
LEMMA HitStep ==
  ASSUME AuditInv, NEW k \in HitKeys, Hit(k)
  PROVE  AuditInv'
<1>1. CASE pendingHits[k] = 0 /\ Cardinality(Keyed(pendingHits)) >= MaxPendingKeys
  <2>1. /\ hits' = [hits EXCEPT ![k] = @ + 1] /\ lostHits' = [lostHits EXCEPT ![k] = @ + 1]
        /\ UNCHANGED <<pendingHits, flushing, auditedHits>>
    BY <1>1 DEF Hit
  <2>2. HitsAreCountedOnce'
    BY <2>1 DEF AuditInv, HitsAreCountedOnce, Keyed
  <2>3. QED
    BY <2>1, <2>2 DEF AuditInv
<1>2. CASE ~ (pendingHits[k] = 0 /\ Cardinality(Keyed(pendingHits)) >= MaxPendingKeys)
  <2>1. /\ hits' = [hits EXCEPT ![k] = @ + 1]
        /\ pendingHits' = [pendingHits EXCEPT ![k] = @ + 1]
        /\ UNCHANGED <<flushing, auditedHits, lostHits>>
    BY <1>2 DEF Hit
  <2>2. Cardinality(Keyed(pendingHits')) <= MaxPendingKeys
    BY <1>2, <2>1, GatheringFits
  <2>3. \A j \in HitKeys :
          hits'[j] = pendingHits'[j] + flushing'[j] + auditedHits'[j] + lostHits'[j]
    BY <2>1 DEF AuditInv, HitsAreCountedOnce
  <2>4. hits' \in [HitKeys -> Nat] /\ pendingHits' \in [HitKeys -> Nat]
    BY <2>1 DEF AuditInv
  <2>5. HitsAreCountedOnce'
    BY <2>2, <2>3 DEF HitsAreCountedOnce, Keyed
  <2>6. QED
    BY <2>1, <2>4, <2>5 DEF AuditInv
<1>3. QED
  BY <1>1, <1>2

\* A flush takes what was gathered and starts over.
LEMMA TakeGatheredStep ==
  ASSUME AuditInv, TakeGathered
  PROVE  AuditInv'
<1>1. Keyed(NoHits) = {}
  BY DEF Keyed, NoHits
<1>2. Cardinality(Keyed(NoHits)) <= MaxPendingKeys
  BY <1>1, AuditAssumption, FS_EmptySet
<1>3. \A k \in HitKeys : NoHits[k] = 0
  BY DEF NoHits
<1>4. NoHits \in [HitKeys -> Nat]
  BY DEF NoHits
<1>5. QED
  BY <1>2, <1>3, <1>4 DEF AuditInv, HitsAreCountedOnce, TakeGathered, StartedGathering, Keyed

\* The batch is recorded, or fails as a whole.
LEMMA RecordHitsStep ==
  ASSUME AuditInv, RecordLimitHits \/ RecordingFails
  PROVE  AuditInv'
<1>1. \A k \in HitKeys : NoHits[k] = 0
  BY DEF NoHits
<1>2. NoHits \in [HitKeys -> Nat]
  BY DEF NoHits
<1>3. CASE RecordLimitHits
  BY <1>1, <1>2, <1>3 DEF AuditInv, HitsAreCountedOnce, RecordLimitHits, Plus, Keyed
<1>4. CASE RecordingFails
  BY <1>1, <1>2, <1>4 DEF AuditInv, HitsAreCountedOnce, RecordingFails, Plus, Keyed
<1>5. QED
  BY <1>3, <1>4

\* Every step of the audit keeps the invariant.
LEMMA AuditStep ==
  ASSUME AuditInv, [AuditNext]_auditVars
  PROVE  AuditInv'
<1>1. CASE UNCHANGED auditVars
  BY <1>1 DEF auditVars, AuditInv, HitsAreCountedOnce, Keyed
<1>2. QED
  BY <1>1, HitStep, TakeGatheredStep, RecordHitsStep DEF AuditNext

\* However keys come back, are forgotten and are asked about again, and
\* however batches of refusals are stored or fail, no request is answered
\* otherwise than if no key were ever forgotten, and every refusal is counted
\* once (Keyed.Allow, Keyed.sweep, Auditor.Hit, Auditor.Flush).
THEOREM LimitsForgetNothingEver == ServicesSpec => []LimitsForgetNothing
<1>1. ServicesInit => KeyedInv /\ AuditInv
  <2>1. SUFFICES ASSUME ServicesInit
                 PROVE  KeyedInv /\ AuditInv
    OBVIOUS
  <2>2. KeyedInv
    <3>1. \A k \in SubjectKeys : Full(remembered[k], requestTime)
      BY <2>1 DEF ServicesInit, KeyedInit, Full, NewBuckets
    <3>2. QED
      BY <2>1, <3>1 DEF ServicesInit, KeyedInit, KeyedInv, KeptAsRemembered, NewBuckets
  <2>3. AuditInv
    <3>1. hits = NoHits /\ pendingHits = NoHits /\ flushing = NoHits
          /\ auditedHits = NoHits /\ lostHits = NoHits
      BY <2>1 DEF ServicesInit, AuditInit
    <3>2. NoHits \in [HitKeys -> Nat] /\ \A k \in HitKeys : NoHits[k] = 0
      BY DEF NoHits
    <3>3. Keyed(NoHits) = {}
      BY DEF Keyed, NoHits
    <3>4. Cardinality(Keyed(NoHits)) <= MaxPendingKeys
      BY <3>3, AuditAssumption, FS_EmptySet
    <3>5. QED
      BY <3>1, <3>2, <3>4 DEF AuditInv, HitsAreCountedOnce
  <2>4. QED
    BY <2>2, <2>3
<1>2. KeyedInv /\ AuditInv /\ [ServicesNext]_serviceVars => KeyedInv' /\ AuditInv'
  BY KeyedStep, AuditStep DEF ServicesNext, serviceVars, keyedVars, auditVars
<1>3. KeyedInv /\ AuditInv => LimitsForgetNothing
  BY DEF KeyedInv, KeptAsRemembered, ForgettingIsFree, AuditInv, LimitsForgetNothing
<1>4. QED
  BY <1>1, <1>2, <1>3, PTL DEF ServicesSpec

-----------------------------------------------------------------------------
(* Room for connections. *)

Places ==
  {"none", "authorizing", "limiting", "limited", "resolving", "locating", "accepting",
   "refused", "upgraded", "rejecting", "refusing", "attached", "served", "draining"}

Running == {h \in Handshakes : at[h] \in {"served", "draining"}}

\* `counted' is how many hold room, and `byCaller' how many of each caller.
CountsOf(holders, counted, byCaller) ==
  /\ counted = Cardinality(holders)
  /\ byCaller \in [Callers -> Nat]
  /\ \A c \in Callers : byCaller[c] = Cardinality({h \in holders : CallerOf[h] = c})

\* Inductive: what is counted is what is held, while nothing runs once the
\* instance has stopped.
RoomInv ==
  /\ at \in [Handshakes -> Places]
  /\ CountsOf(Holding, reserved, reservedBy)
  /\ CountsOf(Refused, refusing, refusingBy)
  /\ attached = {h \in Handshakes : at[h] \in {"attached", "served"}}
  /\ running = Cardinality(Running)
  /\ server = "stopped" => running = 0

\* A handshake is its caller's.
LEMMA CallersCall == \A h \in Handshakes : CallerOf[h] \in Callers
  BY DEF Callers

\* Room taken is counted, in all and of the caller.
LEMMA TakingCounts ==
  ASSUME NEW holders \in SUBSET Handshakes, NEW counted, NEW byCaller,
         CountsOf(holders, counted, byCaller), NEW h \in Handshakes, h \notin holders
  PROVE  CountsOf(holders \cup {h}, counted + 1, [byCaller EXCEPT ![CallerOf[h]] = @ + 1])
<1>1. IsFiniteSet(holders) /\ \A c : IsFiniteSet({g \in holders : CallerOf[g] = c})
  BY RoomAssumption, FS_Subset
<1>2. counted + 1 = Cardinality(holders \cup {h})
  BY <1>1, FS_AddElement DEF CountsOf
<1>3. PICK by : by = [byCaller EXCEPT ![CallerOf[h]] = @ + 1]
  OBVIOUS
<1>4. CallerOf[h] \in Callers /\ byCaller \in [Callers -> Nat] /\ by \in [Callers -> Nat]
  BY <1>3, CallersCall DEF CountsOf
<1>5. ASSUME NEW c \in Callers
      PROVE  by[c] = Cardinality({g \in holders \cup {h} : CallerOf[g] = c})
  <2>1. byCaller[c] = Cardinality({g \in holders : CallerOf[g] = c})
    BY DEF CountsOf
  <2>2. CASE CallerOf[h] = c
    <3>1. PICK theirs : theirs = {g \in holders : CallerOf[g] = c}
      OBVIOUS
    <3>2. {g \in holders \cup {h} : CallerOf[g] = c} = theirs \cup {h}
      BY <2>2, <3>1
    <3>3. IsFiniteSet(theirs) /\ h \notin theirs
      BY <1>1, <3>1
    <3>4. Cardinality(theirs \cup {h}) = Cardinality(theirs) + 1
      BY <3>3, FS_AddElement
    <3>5. QED
      BY <1>3, <1>4, <2>1, <2>2, <3>1, <3>2, <3>4
  <2>3. CASE CallerOf[h] # c
    <3>1. {g \in holders \cup {h} : CallerOf[g] = c} = {g \in holders : CallerOf[g] = c}
      BY <2>3
    <3>2. QED
      BY <1>3, <1>4, <2>1, <2>3, <3>1
  <2>4. QED
    BY <2>2, <2>3
<1>6. QED
  BY <1>2, <1>3, <1>4, <1>5 DEF CountsOf

\* Room given back is no longer counted.
LEMMA GivingBackCounts ==
  ASSUME NEW holders \in SUBSET Handshakes, NEW counted, NEW byCaller,
         CountsOf(holders, counted, byCaller), NEW h \in holders
  PROVE  CountsOf(holders \ {h}, counted + (-1), [byCaller EXCEPT ![CallerOf[h]] = @ + (-1)])
<1>1. IsFiniteSet(holders) /\ \A c : IsFiniteSet({g \in holders : CallerOf[g] = c})
  BY RoomAssumption, FS_Subset
<1>2. counted + (-1) = Cardinality(holders \ {h})
  <2>1. Cardinality(holders) \in Nat /\ Cardinality(holders \ {h}) = Cardinality(holders) - 1
    BY <1>1, FS_RemoveElement, FS_CardinalityType
  <2>2. QED
    BY <2>1 DEF CountsOf
<1>3. PICK by : by = [byCaller EXCEPT ![CallerOf[h]] = @ + (-1)]
  OBVIOUS
<1>4. CallerOf[h] \in Callers /\ byCaller \in [Callers -> Nat]
  BY CallersCall DEF CountsOf
<1>5. ASSUME NEW c \in Callers
      PROVE  /\ by[c] = Cardinality({g \in holders \ {h} : CallerOf[g] = c})
             /\ by[c] \in Nat
  <2>1. byCaller[c] = Cardinality({g \in holders : CallerOf[g] = c})
    BY DEF CountsOf
  <2>2. CASE CallerOf[h] = c
    <3>1. PICK theirs : theirs = {g \in holders : CallerOf[g] = c}
      OBVIOUS
    <3>2. {g \in holders \ {h} : CallerOf[g] = c} = theirs \ {h}
      BY <2>2, <3>1
    <3>3. IsFiniteSet(theirs) /\ IsFiniteSet(theirs \ {h}) /\ h \in theirs
      BY <1>1, <2>2, <3>1, FS_Subset
    <3>4. /\ Cardinality(theirs \ {h}) = Cardinality(theirs) - 1
          /\ Cardinality(theirs \ {h}) \in Nat
      BY <3>3, FS_RemoveElement, FS_CardinalityType
    <3>5. by[c] = byCaller[c] + (-1) /\ byCaller[c] \in Nat
      BY <1>3, <1>4, <2>2
    <3>6. QED
      BY <2>1, <3>1, <3>2, <3>4, <3>5
  <2>3. CASE CallerOf[h] # c
    <3>1. {g \in holders \ {h} : CallerOf[g] = c} = {g \in holders : CallerOf[g] = c}
      BY <2>3
    <3>2. QED
      BY <1>3, <1>4, <2>1, <2>3, <3>1
  <2>4. QED
    BY <2>2, <2>3
<1>6. by \in [Callers -> Nat]
  BY <1>3, <1>4, <1>5
<1>7. QED
  BY <1>2, <1>3, <1>5, <1>6 DEF CountsOf

\* A move between places that hold no room, or none other than before.
Unmoved(h, where) ==
  /\ at[h] \in {"upgraded", "rejecting", "attached", "served"}
       <=> where \in {"upgraded", "rejecting", "attached", "served"}
  /\ at[h] = "refusing" <=> where = "refusing"
  /\ at[h] \in {"attached", "served"} <=> where \in {"attached", "served"}
  /\ at[h] \in {"served", "draining"} <=> where \in {"served", "draining"}

\* Rest moves a handshake on without taking or giving back room.
LEMMA RestStep ==
  ASSUME RoomInv, NEW h \in Handshakes, NEW where \in Places, Unmoved(h, where), Rest(h, where)
  PROVE  RoomInv'
<1>1. at' = [at EXCEPT ![h] = where] /\ at \in [Handshakes -> Places]
      /\ UNCHANGED <<countVars, attached, running, server>>
  BY DEF Rest, Moves, RoomInv
<1>2. /\ \A g \in Handshakes : at'[g] = IF g = h THEN where ELSE at[g]
      /\ at' \in [Handshakes -> Places]
  BY <1>1
<1>3. Holding' = Holding
  BY <1>2 DEF Holding, Unmoved
<1>4. Refused' = Refused
  BY <1>2 DEF Refused, Unmoved
<1>5. Running' = Running
  BY <1>2 DEF Running, Unmoved
<1>6. attached' = {g \in Handshakes : at'[g] \in {"attached", "served"}}
  BY <1>1, <1>2 DEF RoomInv, Unmoved
<1>7. CountsOf(Holding, reserved, reservedBy)' /\ CountsOf(Refused, refusing, refusingBy)'
  BY <1>1, <1>3, <1>4 DEF RoomInv, CountsOf, countVars
<1>8. QED
  BY <1>1, <1>2, <1>5, <1>6, <1>7 DEF RoomInv

\* The handshakes that hold no room yet, or none any more.
LEMMA RestingSteps ==
  ASSUME RoomInv, NEW h \in Handshakes,
         \/ Arrive(h) \/ Authorized(h) \/ Limited(h) \/ ResolveJoinCode(h)
         \/ RequireOwner(h) \/ AcceptFails(h)
  PROVE  RoomInv'
<1>1. ASSUME NEW where, Rest(h, where),
             at[h] \in {"none", "authorizing", "limiting", "limited", "resolving", "locating", "accepting", "refused"},
             where \in {"none", "authorizing", "limiting", "limited", "resolving", "locating", "accepting", "refused"}
      PROVE  RoomInv'
  <2>1. where \in Places /\ Unmoved(h, where)
    BY <1>1 DEF Places, Unmoved
  <2>2. QED
    BY <1>1, <2>1, RestStep
<1>2. CASE Arrive(h)
  <2>1. at' = [at EXCEPT ![h] = "authorizing"] /\ at[h] = "none"
        /\ UNCHANGED <<countVars, attached, running, server>>
    BY <1>2 DEF Arrive, Moves
  <2>2. /\ \A g \in Handshakes : at'[g] = IF g = h THEN "authorizing" ELSE at[g]
        /\ at' \in [Handshakes -> Places]
    BY <2>1 DEF RoomInv, Places
  <2>3. Holding' = Holding /\ Refused' = Refused /\ Running' = Running
    BY <2>1, <2>2 DEF Holding, Refused, Running
  <2>4. attached' = {g \in Handshakes : at'[g] \in {"attached", "served"}}
    BY <2>1, <2>2 DEF RoomInv
  <2>5. CountsOf(Holding, reserved, reservedBy)' /\ CountsOf(Refused, refusing, refusingBy)'
    BY <2>1, <2>3 DEF RoomInv, CountsOf, countVars
  <2>6. QED
    BY <2>1, <2>2, <2>3, <2>4, <2>5 DEF RoomInv
<1>3. CASE Authorized(h)
  BY <1>1, <1>3 DEF Authorized
<1>4. CASE Limited(h)
  BY <1>1, <1>4 DEF Limited
<1>5. CASE ResolveJoinCode(h)
  BY <1>1, <1>5 DEF ResolveJoinCode
<1>6. CASE RequireOwner(h)
  BY <1>1, <1>6 DEF RequireOwner
<1>7. CASE AcceptFails(h)
  BY <1>1, <1>7 DEF AcceptFails
<1>8. QED
  BY <1>2, <1>3, <1>4, <1>5, <1>6, <1>7

\* Where a handshake's move leaves everybody.
LEMMA MovedTo ==
  ASSUME RoomInv, NEW h \in Handshakes, NEW where \in Places, Moves(h, where)
  PROVE  /\ at' \in [Handshakes -> Places]
         /\ \A g \in Handshakes : at'[g] = IF g = h THEN where ELSE at[g]
  BY DEF RoomInv, Moves

\* Reserve for a connection that had no room.
LEMMA RoomTaken ==
  ASSUME RoomInv, NEW h \in Handshakes \ Holding, Reserve(h, 1), Holding' = Holding \cup {h}
  PROVE  /\ CountsOf(Holding, reserved, reservedBy)'
         /\ refusing' = refusing /\ refusingBy' = refusingBy
<1>1. CountsOf(Holding \cup {h}, reserved + 1, [reservedBy EXCEPT ![CallerOf[h]] = @ + 1])
  BY TakingCounts DEF RoomInv, Holding
<1>2. QED
  BY <1>1 DEF Reserve, CountsOf

\* The release of a connection's room.
LEMMA RoomReleased ==
  ASSUME RoomInv, NEW h \in Holding, Reserve(h, -1), Holding' = Holding \ {h}
  PROVE  /\ CountsOf(Holding, reserved, reservedBy)'
         /\ refusing' = refusing /\ refusingBy' = refusingBy
<1>1. CountsOf(Holding \ {h}, reserved + (-1), [reservedBy EXCEPT ![CallerOf[h]] = @ + (-1)])
  BY GivingBackCounts DEF RoomInv, Holding
<1>2. QED
  BY <1>1 DEF Reserve, CountsOf

\* Upgrade takes room for a connection or for its refusal's telling.
LEMMA UpgradeStep ==
  ASSUME RoomInv, NEW h \in Handshakes, Upgrade(h)
  PROVE  RoomInv'
<1>1. CASE ~ HasConnectionRoom(h)
  <2>1. Rest(h, "limited") /\ at[h] \in {"accepting", "refused"}
    BY <1>1 DEF Upgrade
  <2>2. "limited" \in Places /\ Unmoved(h, "limited")
    BY <2>1 DEF Places, Unmoved
  <2>3. QED
    BY <2>1, <2>2, RestStep
<1>2. CASE HasConnectionRoom(h)
  <2>1. PICK where \in {"upgraded", "rejecting"} :
          /\ Moves(h, where) /\ Reserve(h, 1) /\ at[h] \in {"accepting", "refused"}
          /\ UNCHANGED <<route, attached, running, server>>
    BY <1>2 DEF Upgrade
  <2>2. /\ at' \in [Handshakes -> Places]
        /\ \A g \in Handshakes : at'[g] = IF g = h THEN where ELSE at[g]
    BY <2>1, MovedTo DEF Places
  <2>3. h \notin Holding /\ Holding' = Holding \cup {h}
    BY <2>1, <2>2 DEF Holding
  <2>4. Refused' = Refused /\ Running' = Running
        /\ attached' = {g \in Handshakes : at'[g] \in {"attached", "served"}}
    BY <2>1, <2>2 DEF Refused, Running, RoomInv
  <2>5. CountsOf(Holding, reserved, reservedBy)' /\ CountsOf(Refused, refusing, refusingBy)'
    BY <2>1, <2>3, <2>4, RoomTaken DEF RoomInv, CountsOf
  <2>6. QED
    BY <2>1, <2>2, <2>4, <2>5 DEF RoomInv
<1>3. QED
  BY <1>1, <1>2

\* refuseLimit takes room of its own, and gives it back once told.
LEMMA RefusalSteps ==
  ASSUME RoomInv, NEW h \in Handshakes, RefuseLimit(h) \/ RefusalTold(h)
  PROVE  RoomInv'
<1>1. CASE RefuseLimit(h) /\ ~ HasRefusalRoom(h)
  <2>1. Rest(h, "none") /\ at[h] = "limited"
    BY <1>1 DEF RefuseLimit
  <2>2. "none" \in Places /\ Unmoved(h, "none")
    BY <2>1 DEF Places, Unmoved
  <2>3. QED
    BY <2>1, <2>2, RestStep
<1>2. CASE RefuseLimit(h) /\ HasRefusalRoom(h)
  <2>1. /\ Moves(h, "refusing") /\ ReserveRefusal(h, 1) /\ at[h] = "limited"
        /\ UNCHANGED <<route, attached, running, server>>
    BY <1>2 DEF RefuseLimit
  <2>2. /\ at' \in [Handshakes -> Places]
        /\ \A g \in Handshakes : at'[g] = IF g = h THEN "refusing" ELSE at[g]
    BY <2>1, MovedTo DEF Places
  <2>3. h \notin Refused /\ Refused' = Refused \cup {h} /\ Refused \in SUBSET Handshakes
    BY <2>1, <2>2 DEF Refused
  <2>4. Holding' = Holding /\ Running' = Running
        /\ attached' = {g \in Handshakes : at'[g] \in {"attached", "served"}}
    BY <2>1, <2>2 DEF Holding, Running, RoomInv
  <2>5. CountsOf(Refused \cup {h}, refusing + 1, [refusingBy EXCEPT ![CallerOf[h]] = @ + 1])
    BY <2>3, TakingCounts DEF RoomInv
  <2>6. CountsOf(Holding, reserved, reservedBy)' /\ CountsOf(Refused, refusing, refusingBy)'
    BY <2>1, <2>3, <2>4, <2>5 DEF RoomInv, CountsOf, ReserveRefusal
  <2>7. QED
    BY <2>1, <2>2, <2>4, <2>6 DEF RoomInv
<1>3. CASE RefusalTold(h)
  <2>1. /\ Moves(h, "none") /\ ReserveRefusal(h, -1) /\ at[h] = "refusing"
        /\ UNCHANGED <<route, attached, running, server>>
    BY <1>3 DEF RefusalTold
  <2>2. /\ at' \in [Handshakes -> Places]
        /\ \A g \in Handshakes : at'[g] = IF g = h THEN "none" ELSE at[g]
    BY <2>1, MovedTo DEF Places
  <2>3. h \in Refused /\ Refused' = Refused \ {h} /\ Refused \in SUBSET Handshakes
    BY <2>1, <2>2 DEF Refused
  <2>4. Holding' = Holding /\ Running' = Running
        /\ attached' = {g \in Handshakes : at'[g] \in {"attached", "served"}}
    BY <2>1, <2>2 DEF Holding, Running, RoomInv
  <2>5. CountsOf(Refused \ {h}, refusing + (-1), [refusingBy EXCEPT ![CallerOf[h]] = @ + (-1)])
    BY <2>3, GivingBackCounts DEF RoomInv
  <2>6. CountsOf(Holding, reserved, reservedBy)' /\ CountsOf(Refused, refusing, refusingBy)'
    BY <2>1, <2>3, <2>4, <2>5 DEF RoomInv, CountsOf, ReserveRefusal
  <2>7. QED
    BY <2>1, <2>2, <2>4, <2>6 DEF RoomInv
<1>4. QED
  BY <1>1, <1>2, <1>3

\* Rejected, the handlers' refusals and Serve's: a connection that is not
\* served gives its room back, and the Runtime keeps it no longer.
LEMMA NotServedStep ==
  ASSUME RoomInv, NEW h \in Handshakes, at[h] \in {"upgraded", "rejecting", "attached"},
         Moves(h, "none"), Reserve(h, -1),
         attached' = attached \ {h}, UNCHANGED <<running, server>>
  PROVE  RoomInv'
<1>1. /\ at' \in [Handshakes -> Places]
      /\ \A g \in Handshakes : at'[g] = IF g = h THEN "none" ELSE at[g]
  BY MovedTo DEF Places
<1>2. h \in Holding /\ Holding' = Holding \ {h}
  BY <1>1 DEF Holding
<1>3. Refused' = Refused /\ Running' = Running
      /\ attached' = {g \in Handshakes : at'[g] \in {"attached", "served"}}
  BY <1>1 DEF Refused, Running, RoomInv
<1>4. CountsOf(Holding, reserved, reservedBy)' /\ CountsOf(Refused, refusing, refusingBy)'
  BY <1>2, <1>3, RoomReleased DEF RoomInv, CountsOf
<1>5. QED
  BY <1>1, <1>3, <1>4 DEF RoomInv

\* A connection the Runtime admits keeps its room.
LEMMA AttachStep ==
  ASSUME RoomInv, NEW h \in Handshakes, Attach(h)
  PROVE  RoomInv'
<1>1. CASE Moves(h, "attached") /\ attached' = attached \cup {h} /\ UNCHANGED countVars
  <2>1. at[h] = "upgraded" /\ UNCHANGED <<running, server>>
    BY DEF Attach
  <2>2. /\ at' \in [Handshakes -> Places]
        /\ \A g \in Handshakes : at'[g] = IF g = h THEN "attached" ELSE at[g]
    BY <1>1, MovedTo DEF Places
  <2>3. Holding' = Holding /\ Refused' = Refused /\ Running' = Running
        /\ attached' = {g \in Handshakes : at'[g] \in {"attached", "served"}}
    BY <1>1, <2>1, <2>2 DEF Holding, Refused, Running, RoomInv
  <2>4. CountsOf(Holding, reserved, reservedBy)' /\ CountsOf(Refused, refusing, refusingBy)'
    BY <1>1, <2>3 DEF RoomInv, CountsOf, countVars
  <2>5. QED
    BY <2>1, <2>2, <2>3, <2>4 DEF RoomInv
<1>2. CASE Moves(h, "none") /\ NotServed(h) /\ UNCHANGED attached
  <2>1. at[h] = "upgraded" /\ UNCHANGED <<running, server>>
    BY DEF Attach
  <2>2. attached' = attached \ {h}
    BY <1>2, <2>1 DEF RoomInv
  <2>3. QED
    BY <1>2, <2>1, <2>2, NotServedStep DEF NotServed
<1>3. QED
  BY <1>1, <1>2 DEF Attach

\* Serve runs a connection the Runtime admitted, unless the instance stops.
LEMMA ServeStep ==
  ASSUME RoomInv, NEW h \in Handshakes, ServeConnection(h)
  PROVE  RoomInv'
<1>1. CASE ~ Starts
  BY <1>1, NotServedStep DEF ServeConnection
<1>2. CASE Starts
  <2>1. /\ at[h] = "attached" /\ Moves(h, "served") /\ running' = running + 1
        /\ UNCHANGED <<countVars, attached, server>> /\ server = "up"
    BY <1>2 DEF ServeConnection, Starts
  <2>2. /\ at' \in [Handshakes -> Places]
        /\ \A g \in Handshakes : at'[g] = IF g = h THEN "served" ELSE at[g]
    BY <2>1, MovedTo DEF Places
  <2>3. Holding' = Holding /\ Refused' = Refused
        /\ attached' = {g \in Handshakes : at'[g] \in {"attached", "served"}}
    BY <2>1, <2>2 DEF Holding, Refused, RoomInv
  <2>4. Running' = Running \cup {h} /\ h \notin Running /\ IsFiniteSet(Running)
    BY <2>1, <2>2, RoomAssumption, FS_Subset DEF Running
  <2>5. running' = Cardinality(Running')
    BY <2>1, <2>4, FS_AddElement DEF RoomInv
  <2>6. CountsOf(Holding, reserved, reservedBy)' /\ CountsOf(Refused, refusing, refusingBy)'
    BY <2>1, <2>3 DEF RoomInv, CountsOf, countVars
  <2>7. QED
    BY <2>1, <2>2, <2>3, <2>5, <2>6 DEF RoomInv
<1>3. QED
  BY <1>1, <1>2

\* serve: the connection's room is given back before its loops stop.
LEMMA DisconnectedStep ==
  ASSUME RoomInv, NEW h \in Handshakes, Disconnected(h)
  PROVE  RoomInv'
<1>1. /\ at[h] = "served" /\ Moves(h, "draining") /\ Reserve(h, -1)
      /\ attached' = attached \ {h} /\ UNCHANGED <<running, server>>
  BY DEF Disconnected
<1>2. /\ at' \in [Handshakes -> Places]
      /\ \A g \in Handshakes : at'[g] = IF g = h THEN "draining" ELSE at[g]
  BY <1>1, MovedTo DEF Places
<1>3. h \in Holding /\ Holding' = Holding \ {h}
  BY <1>1, <1>2 DEF Holding
<1>4. Refused' = Refused /\ Running' = Running
      /\ attached' = {g \in Handshakes : at'[g] \in {"attached", "served"}}
  BY <1>1, <1>2 DEF Refused, Running, RoomInv
<1>5. CountsOf(Holding, reserved, reservedBy)' /\ CountsOf(Refused, refusing, refusingBy)'
  BY <1>1, <1>3, <1>4, RoomReleased DEF RoomInv, CountsOf
<1>6. QED
  BY <1>1, <1>2, <1>4, <1>5 DEF RoomInv

\* A connection whose loops stopped runs no longer.
LEMMA LoopsStoppedStep ==
  ASSUME RoomInv, NEW h \in Handshakes, LoopsStopped(h)
  PROVE  RoomInv'
<1>1. /\ at[h] = "draining" /\ Moves(h, "none") /\ running' = running - 1
      /\ UNCHANGED <<countVars, attached, server>>
  BY DEF LoopsStopped
<1>2. /\ at' \in [Handshakes -> Places]
      /\ \A g \in Handshakes : at'[g] = IF g = h THEN "none" ELSE at[g]
  BY <1>1, MovedTo DEF Places
<1>3. Holding' = Holding /\ Refused' = Refused
      /\ attached' = {g \in Handshakes : at'[g] \in {"attached", "served"}}
  BY <1>1, <1>2 DEF Holding, Refused, RoomInv
<1>4. Running' = Running \ {h} /\ h \in Running /\ IsFiniteSet(Running) /\ IsFiniteSet(Running \ {h})
  BY <1>1, <1>2, RoomAssumption, FS_Subset DEF Running
<1>5. running' = Cardinality(Running') /\ running \in Nat /\ running' \in Nat
  BY <1>1, <1>4, FS_RemoveElement, FS_CardinalityType DEF RoomInv
<1>6. CountsOf(Holding, reserved, reservedBy)' /\ CountsOf(Refused, refusing, refusingBy)'
  BY <1>1, <1>3 DEF RoomInv, CountsOf, countVars
<1>7. server' = "stopped" => running' = 0
  BY <1>1, <1>5 DEF RoomInv
<1>8. QED
  BY <1>2, <1>3, <1>5, <1>6, <1>7 DEF RoomInv

\* Every step of a handshake, and Shutdown, keeps the invariant.
LEMMA RoomStep ==
  ASSUME RoomInv, [RoomNext]_roomVars
  PROVE  RoomInv'
<1>1. CASE Shutdown
  <2>1. /\ UNCHANGED <<at, countVars, attached, running>>
        /\ server' = "stopped" => running = 0
    BY <1>1 DEF Shutdown
  <2>2. Holding' = Holding /\ Refused' = Refused /\ Running' = Running
    BY <2>1 DEF Holding, Refused, Running
  <2>3. QED
    BY <2>1, <2>2 DEF RoomInv, CountsOf, countVars
<1>2. CASE UNCHANGED roomVars
  <2>1. Holding' = Holding /\ Refused' = Refused /\ Running' = Running
    BY <1>2 DEF Holding, Refused, Running, roomVars
  <2>2. QED
    BY <1>2, <2>1 DEF RoomInv, CountsOf, roomVars
<1>3. ASSUME NEW h \in Handshakes, Rejected(h) \/ StartNotTaken(h)
      PROVE  RoomInv'
  <2>1. CASE Rejected(h)
    <3>1. attached' = attached \ {h}
      BY <2>1 DEF Rejected, RoomInv
    <3>2. QED
      BY <2>1, <3>1, NotServedStep DEF Rejected
  <2>2. CASE StartNotTaken(h)
    BY <2>2, NotServedStep DEF StartNotTaken, NotServed
  <2>3. QED
    BY <1>3, <2>1, <2>2
<1>4. QED
  BY <1>1, <1>2, <1>3, RestingSteps, UpgradeStep, RefusalSteps, AttachStep, ServeStep,
     DisconnectedStep, LoopsStoppedStep DEF RoomNext

\* However handshakes, refusals, failed upgrades and a shutdown interleave,
\* the room counted is the room held, and nothing is served once Shutdown
\* returned (live.Controller: Reserve, ReserveRefusal, Serve, Shutdown).
THEOREM RoomIsAlwaysGivenBack == ServicesSpec => []RoomIsGivenBack
<1>1. ServicesInit => RoomInv
  <2>1. SUFFICES ASSUME ServicesInit
                 PROVE  RoomInv
    OBVIOUS
  <2>2. /\ at = [h \in Handshakes |-> "none"] /\ reserved = 0 /\ refusing = 0 /\ running = 0
        /\ reservedBy = [c \in Callers |-> 0] /\ refusingBy = [c \in Callers |-> 0]
        /\ attached = {} /\ server = "up"
    BY <2>1 DEF ServicesInit, RoomInit
  <2>3. Holding = {} /\ Refused = {} /\ Running = {}
    BY <2>2 DEF Holding, Refused, Running
  <2>4. \A c : {h \in {} : CallerOf[h] = c} = {}
    OBVIOUS
  <2>5. CountsOf({}, 0, [c \in Callers |-> 0])
    BY <2>4, FS_EmptySet DEF CountsOf
  <2>6. QED
    BY <2>2, <2>3, <2>5, FS_EmptySet DEF RoomInv, Places
<1>2. RoomInv /\ [ServicesNext]_serviceVars => RoomInv'
  BY RoomStep DEF ServicesNext, serviceVars, roomVars
<1>3. RoomInv => RoomIsGivenBack
  <2>1. SUFFICES ASSUME RoomInv
                 PROVE  RoomIsGivenBack
    OBVIOUS
  <2>2. server = "stopped" => \A h \in Handshakes : at[h] \notin {"served", "draining"}
    <3>1. IsFiniteSet(Running)
      BY RoomAssumption, FS_Subset DEF Running
    <3>2. server = "stopped" => Cardinality(Running) = 0
      BY <2>1 DEF RoomInv
    <3>3. server = "stopped" => Running = {}
      BY <3>1, <3>2, FS_EmptySet
    <3>4. QED
      BY <3>3 DEF Running
  <2>3. /\ reserved = Cardinality(Holding) /\ refusing = Cardinality(Refused)
        /\ attached = {h \in Handshakes : at[h] \in {"attached", "served"}}
    BY <2>1 DEF RoomInv, CountsOf
  <2>4. \A c \in Callers : reservedBy[c] = Cardinality({h \in Holding : CallerOf[h] = c})
    BY <2>1 DEF RoomInv, CountsOf
  <2>5. \A c \in Callers : refusingBy[c] = Cardinality({h \in Refused : CallerOf[h] = c})
    BY <2>1 DEF RoomInv, CountsOf
  <2>6. QED
    BY <2>2, <2>3, <2>4, <2>5 DEF RoomIsGivenBack
<1>4. QED
  BY <1>1, <1>2, <1>3, PTL DEF ServicesSpec

-----------------------------------------------------------------------------
(* The sandbox Host. *)

Requests ==
  [operation : {"load", "start", "project"}]
    \cup [operation : {"restore"}, snapshot : Snapshots]
    \cup [operation : {"execute"}, steps : Nat, fails : Nat]

Answers == [kind : {"fatal", "script_failed"}] \cup [kind : {"succeeded"}, at : Snapshots]

Calls ==
  [at : {"none"}]
    \cup [at : {"waiting", "running", "asked", "failed", "registered"}, request : Requests]
    \cup [at : {"answered"}, request : Requests, answer : Answers]
    \cup [at : {"discarding"}, request : [operation : {"discard"}]]

\* A worker that can still execute is at the state its owner confirmed.
Follows(worker, confirmed) ==
  worker.started /\ ~ worker.broken => confirmed # NoMirror /\ worker.at = confirmed

\* Confirming the answer brings the owner where the worker is.
IsConfirmed(request, answer) ==
  answer.kind = "succeeded" /\ request.operation \in {"start", "execute"}

\* What a worker comes to in a call of its owner's.
CallHolds(worker, call, confirmed) ==
  /\ call.at \in {"asked", "answered"} => worker # NoWorker
  /\ call.at \in {"waiting", "running", "asked"} /\ call.request.operation = "restore"
       => confirmed = call.request.snapshot
  /\ call.at # "answered" /\ worker # NoWorker => Follows(worker, confirmed)
  /\ call.at = "answered" =>
       IF IsConfirmed(call.request, call.answer) THEN worker.at = call.answer.at
       ELSE Follows(worker, confirmed)

\* A call that creates a context, and one that holds an execution slot.
Creates(call) == call.at # "none" /\ call.request.operation = "load"
Executes(call) == call.at \in {"running", "asked", "answered"}

HostTypes ==
  /\ process \in [ContextOwners -> Workers \cup {NoWorker}]
  /\ calls \in [ContextOwners -> Calls]
  /\ mirror \in [ContextOwners -> Snapshots \cup {NoMirror}]
  /\ contexts \subseteq ContextOwners /\ closing \subseteq ContextOwners

CallsFollow == \A o \in ContextOwners : CallHolds(process[o], calls[o], mirror[o])

\* Who a running worker is left to.
Belongs(o, call, held) ==
  o \in held \/ call.at = "discarding" \/ (Creates(call) /\ call.at # "registered")

WorkersBelong ==
  \A o \in ContextOwners : process[o] # NoWorker => Belongs(o, calls[o], contexts \cup closing)

CapacityHolds ==
  /\ spawning = Cardinality(Creating)
  /\ Cardinality(contexts \cup Creating) <= MaxContexts
  /\ Cardinality(InFlight) <= MaxExecutions

\* Inductive.
HostInv == HostTypes /\ CallsFollow /\ WorkersBelong /\ CapacityHolds

\* The runtime broken by a call stays a worker, and nothing continues from it.
LEMMA BrokenIsLost ==
  ASSUME NEW w \in Workers, NEW draws \in Nat, NEW m
  PROVE  /\ Broken(w, draws).worker \in Workers
         /\ Broken(w, draws).answer \in Answers
         /\ Broken(w, draws).answer.kind = "script_failed"
         /\ Follows(Broken(w, draws).worker, m)
<1>1. PICK broken : broken = [w EXCEPT !.broken = TRUE, !.at.draws = @ + draws]
  OBVIOUS
<1>2. broken \in Workers /\ broken.broken
  <2>1. PICK drawn : drawn = [w.at EXCEPT !.draws = @ + draws]
    OBVIOUS
  <2>2. drawn \in Snapshots
    BY <2>1 DEF Workers, Snapshots
  <2>3. broken = [w EXCEPT !.broken = TRUE, !.at = drawn]
    BY <1>1, <2>1 DEF Workers
  <2>4. QED
    BY <2>2, <2>3 DEF Workers
<1>3. /\ Broken(w, draws).worker = broken
      /\ Broken(w, draws).answer = [kind |-> "script_failed"]
  BY <1>1 DEF Broken, ScriptError
<1>4. [kind |-> "script_failed"] \in Answers
  BY DEF Answers
<1>5. QED
  BY <1>2, <1>3, <1>4 DEF Follows

\* Requests the worker turns down, or answers without running the script.
LEMMA UnchangedWorker ==
  ASSUME NEW w \in Workers
  PROVE  /\ Fatal(w).worker = w /\ Fatal(w).answer \in Answers /\ Fatal(w).answer.kind = "fatal"
         /\ ScriptError(w).worker = w /\ ScriptError(w).answer \in Answers
         /\ ScriptError(w).answer.kind = "script_failed"
         /\ Answer(w).worker = w /\ Answer(w).answer \in Answers
         /\ Answer(w).answer.kind = "succeeded" /\ Answer(w).answer.at = w.at
<1>1. w.at \in Snapshots
  BY DEF Workers
<1>2. /\ [kind |-> "fatal"] \in Answers /\ [kind |-> "script_failed"] \in Answers
      /\ [kind |-> "succeeded", at |-> w.at] \in Answers
  BY <1>1 DEF Answers
<1>3. QED
  BY <1>2 DEF Fatal, ScriptError, Answer

\* What a request may come to: nothing continues from what is not confirmed.
IsHandled(handled, request, m) ==
  /\ handled.worker \in Workers /\ handled.answer \in Answers
  /\ IF IsConfirmed(request, handled.answer) THEN handled.worker.at = handled.answer.at
     ELSE Follows(handled.worker, m)

\* load and start are answered on a worker that continues nothing.
LEMMA LoadAndStart ==
  ASSUME NEW w \in Workers, NEW m, Follows(w, m), NEW behaviour, NEW request
  PROVE  /\ request.operation = "load" => IsHandled(Load(w, behaviour), request, m)
         /\ request.operation = "start" => IsHandled(Start(w, behaviour), request, m)
<1>1. PICK loaded : loaded = [w EXCEPT !.loaded = TRUE]
  OBVIOUS
<1>2. loaded \in Workers /\ Follows(loaded, m)
  BY <1>1 DEF Workers, Follows
<1>3. PICK started : started = [w EXCEPT !.started = TRUE, !.at = Snapshot(1, 1, 1)]
  OBVIOUS
<1>4. started \in Workers
  BY <1>3 DEF Workers, Snapshots, Snapshot
<1>5. ASSUME request.operation = "load"
      PROVE  IsHandled(Load(w, behaviour), request, m)
  <2>1. CASE w.loaded
    BY <1>5, <2>1, UnchangedWorker DEF IsHandled, IsConfirmed, Load
  <2>2. CASE ~ w.loaded /\ behaviour # "returns"
    <3>1. Load(w, behaviour) = Broken(loaded, 0)
      BY <1>1, <2>2 DEF Load
    <3>2. QED
      BY <1>2, <1>5, <3>1, BrokenIsLost DEF IsHandled, IsConfirmed
  <2>3. CASE ~ w.loaded /\ behaviour = "returns"
    <3>1. Load(w, behaviour) = Answer(loaded)
      BY <1>1, <2>3 DEF Load
    <3>2. QED
      BY <1>2, <1>5, <3>1, UnchangedWorker DEF IsHandled, IsConfirmed
  <2>4. QED
    BY <2>1, <2>2, <2>3
<1>6. ASSUME request.operation = "start"
      PROVE  IsHandled(Start(w, behaviour), request, m)
  <2>1. CASE ~ w.loaded \/ w.started
    BY <1>6, <2>1, UnchangedWorker DEF IsHandled, IsConfirmed, Start
  <2>2. CASE ~ (~ w.loaded \/ w.started) /\ behaviour # "returns"
    BY <1>6, <2>2, BrokenIsLost DEF IsHandled, IsConfirmed, Start
  <2>3. CASE ~ (~ w.loaded \/ w.started) /\ behaviour = "returns"
    <3>1. Start(w, behaviour) = Answer(started)
      BY <1>3, <2>3 DEF Start
    <3>2. QED
      BY <1>4, <1>6, <3>1, UnchangedWorker DEF IsHandled, IsConfirmed
  <2>4. QED
    BY <2>1, <2>2, <2>3
<1>7. QED
  BY <1>5, <1>6

\* execute answers what it executed, or leaves nothing to continue.
LEMMA ExecuteIsHandled ==
  ASSUME NEW w \in Workers, NEW m, Follows(w, m), NEW behaviour,
         NEW request \in Requests, request.operation = "execute"
  PROVE  IsHandled(Execute(w, request.steps, request.fails, behaviour), request, m)
<1>1. PICK steps \in Nat, fails \in Nat : steps = request.steps /\ fails = request.fails
  BY DEF Requests
<1>2. PICK next : next = Snapshot(w.at.state + steps, w.at.draws + steps, w.at.revision + 1)
  OBVIOUS
<1>3. next \in Snapshots
  BY <1>2 DEF Workers, Snapshots, Snapshot
<1>4. PICK executed : executed = [w EXCEPT !.at = next]
  OBVIOUS
<1>5. executed \in Workers
  BY <1>3, <1>4 DEF Workers
<1>6. CASE ~ w.started
  BY <1>6, UnchangedWorker DEF IsHandled, IsConfirmed, Execute
<1>7. CASE w.started /\ behaviour # "returns"
  BY <1>1, <1>7, BrokenIsLost DEF IsHandled, IsConfirmed, Execute
<1>8. CASE w.started /\ behaviour = "returns"
  <2>1. Execute(w, steps, fails, behaviour) = Answer(executed)
    BY <1>2, <1>4, <1>8 DEF Execute
  <2>2. QED
    BY <1>1, <1>5, <2>1, UnchangedWorker DEF IsHandled, IsConfirmed
<1>9. QED
  BY <1>6, <1>7, <1>8

\* restore and project leave a worker where its owner confirmed it.
LEMMA RestoreAndProject ==
  ASSUME NEW w \in Workers, NEW m \in Snapshots \cup {NoMirror}, Follows(w, m), NEW behaviour,
         NEW request \in Requests, request.operation = "restore" => m = request.snapshot
  PROVE  /\ request.operation = "restore" => IsHandled(Restore(w, request.snapshot), request, m)
         /\ request.operation = "project" => IsHandled(Project(w, behaviour), request, m)
<1>1. ASSUME request.operation = "restore"
      PROVE  IsHandled(Restore(w, request.snapshot), request, m)
  <2>1. m \in Snapshots /\ m # NoMirror /\ m = request.snapshot
    BY <1>1, HostAssumption DEF Requests
  <2>2. PICK restored : restored = [w EXCEPT !.started = TRUE, !.at = m]
    OBVIOUS
  <2>3. restored \in Workers /\ Follows(restored, m)
    BY <2>1, <2>2 DEF Workers, Follows
  <2>4. CASE ~ w.loaded \/ w.started
    BY <1>1, <2>4, UnchangedWorker DEF IsHandled, IsConfirmed, Restore
  <2>5. CASE ~ (~ w.loaded \/ w.started)
    <3>1. Restore(w, m) = Answer(restored)
      BY <2>2, <2>5 DEF Restore
    <3>2. QED
      BY <1>1, <2>1, <2>3, <3>1, UnchangedWorker DEF IsHandled, IsConfirmed
  <2>6. QED
    BY <2>4, <2>5
<1>2. ASSUME request.operation = "project"
      PROVE  IsHandled(Project(w, behaviour), request, m)
  <2>1. CASE ~ w.started \/ behaviour = "throws"
    BY <1>2, <2>1, UnchangedWorker DEF IsHandled, IsConfirmed, Project
  <2>2. CASE w.started /\ behaviour = "traps"
    BY <1>2, <2>2, BrokenIsLost DEF IsHandled, IsConfirmed, Project
  <2>3. CASE w.started /\ behaviour # "traps" /\ behaviour # "throws"
    BY <1>2, <2>3, UnchangedWorker DEF IsHandled, IsConfirmed, Project
  <2>4. QED
    BY <2>1, <2>2, <2>3
<1>3. QED
  BY <1>1, <1>2

\* handle: whatever the request and the authored code, a worker that can
\* still execute is where its owner confirmed it, or is answered to be.
LEMMA HandleFollows ==
  ASSUME NEW w \in Workers, NEW m \in Snapshots \cup {NoMirror}, Follows(w, m),
         NEW behaviour \in Behaviours, NEW request \in Requests,
         request.operation = "restore" => m = request.snapshot
  PROVE  IsHandled(Handle(w, request, behaviour), request, m)
<1>1. request.operation \in {"load", "start", "execute", "restore", "project"}
  BY DEF Requests
<1>2. CASE w.broken
  <2>1. Handle(w, request, behaviour) = Fatal(w)
    BY <1>2 DEF Handle
  <2>2. QED
    BY <2>1, UnchangedWorker DEF IsHandled, IsConfirmed
<1>3. CASE ~ w.broken /\ request.operation = "load"
  <2>1. Handle(w, request, behaviour) = Load(w, behaviour)
    BY <1>3 DEF Handle
  <2>2. QED
    BY <1>3, <2>1, LoadAndStart
<1>4. CASE ~ w.broken /\ request.operation = "start"
  <2>1. Handle(w, request, behaviour) = Start(w, behaviour)
    BY <1>4 DEF Handle
  <2>2. QED
    BY <1>4, <2>1, LoadAndStart
<1>5. CASE ~ w.broken /\ request.operation = "execute"
  <2>1. Handle(w, request, behaviour) = Execute(w, request.steps, request.fails, behaviour)
    BY <1>5 DEF Handle
  <2>2. QED
    BY <1>5, <2>1, ExecuteIsHandled
<1>6. CASE ~ w.broken /\ request.operation = "restore"
  <2>1. Handle(w, request, behaviour) = Restore(w, request.snapshot)
    BY <1>6 DEF Handle
  <2>2. QED
    BY <1>6, <2>1, RestoreAndProject
<1>7. CASE ~ w.broken /\ request.operation = "project"
  <2>1. Handle(w, request, behaviour) = Project(w, behaviour)
    BY <1>7 DEF Handle
  <2>2. QED
    BY <1>7, <2>1, RestoreAndProject
<1>8. QED
  BY <1>1, <1>2, <1>3, <1>4, <1>5, <1>6, <1>7

\* One owner's call, worker and confirmed state change, nobody else's.
OwnerMoves(o, worker, call, confirmed) ==
  /\ worker \in Workers \cup {NoWorker} /\ call \in Calls
  /\ confirmed \in Snapshots \cup {NoMirror}
  /\ process' = [process EXCEPT ![o] = worker]
  /\ calls' = [calls EXCEPT ![o] = call]
  /\ mirror' = [mirror EXCEPT ![o] = confirmed]

\* What a move leaves each owner with.
LEMMA MovedOwners ==
  ASSUME HostInv, NEW o \in ContextOwners, NEW worker, NEW call, NEW confirmed,
         OwnerMoves(o, worker, call, confirmed)
  PROVE  /\ process' \in [ContextOwners -> Workers \cup {NoWorker}]
         /\ calls' \in [ContextOwners -> Calls]
         /\ mirror' \in [ContextOwners -> Snapshots \cup {NoMirror}]
         /\ process'[o] = worker /\ calls'[o] = call /\ mirror'[o] = confirmed
         /\ \A q \in ContextOwners : q # o =>
              process'[q] = process[q] /\ calls'[q] = calls[q] /\ mirror'[q] = mirror[q]
  BY DEF HostInv, HostTypes, OwnerMoves

\* Creating and InFlight are what their owners' calls make them.
LEMMA CreatingAndInFlight ==
  /\ Creating = {o \in ContextOwners : Creates(calls[o])}
  /\ InFlight = {o \in ContextOwners : Executes(calls[o])}
  BY DEF Creating, InFlight, Creates, Executes

\* A move keeps the workers within what their owners confirmed.
LEMMA MoveFollows ==
  ASSUME HostInv, NEW o \in ContextOwners, NEW worker, NEW call, NEW confirmed,
         OwnerMoves(o, worker, call, confirmed), CallHolds(worker, call, confirmed)
  PROVE  CallsFollow'
<1>1. ASSUME NEW q \in ContextOwners
      PROVE  CallHolds(process'[q], calls'[q], mirror'[q])
  <2>1. CASE q = o
    BY <2>1, MovedOwners
  <2>2. CASE q # o
    BY <2>2, MovedOwners DEF HostInv, CallsFollow
  <2>3. QED
    BY <2>1, <2>2
<1>2. QED
  BY <1>1 DEF CallsFollow

\* Those held are still held, the owner's own worker by whom it says.
StillHeld(o, worker, call) ==
  /\ contexts' \subseteq contexts \cup Creating /\ closing' \subseteq ContextOwners
  /\ \A q \in contexts \cup closing : q # o => q \in contexts' \cup closing'
  /\ worker # NoWorker => Belongs(o, call, contexts' \cup closing')

\* A move leaves no worker without an owner.
LEMMA MoveKeepsWorkers ==
  ASSUME HostInv, NEW o \in ContextOwners, NEW worker, NEW call, NEW confirmed,
         OwnerMoves(o, worker, call, confirmed), StillHeld(o, worker, call)
  PROVE  WorkersBelong'
<1>1. ASSUME NEW q \in ContextOwners, process'[q] # NoWorker
      PROVE  Belongs(q, calls'[q], contexts' \cup closing')
  <2>1. CASE q = o
    BY <1>1, <2>1, MovedOwners DEF StillHeld
  <2>2. CASE q # o
    <3>1. Belongs(q, calls[q], contexts \cup closing) /\ calls'[q] = calls[q]
      BY <1>1, <2>2, MovedOwners DEF HostInv, WorkersBelong
    <3>2. QED
      BY <2>2, <3>1 DEF Belongs, StillHeld
  <2>3. QED
    BY <2>1, <2>2
<1>2. QED
  BY <1>1 DEF WorkersBelong

\* Fewer of them are still within the limits.
LEMMA FewerFit ==
  ASSUME HostInv, NEW S \in SUBSET ContextOwners, NEW T \in SUBSET S
  PROVE  Cardinality(S) \in Nat /\ Cardinality(T) \in Nat /\ Cardinality(T) <= Cardinality(S)
<1>1. IsFiniteSet(S) /\ IsFiniteSet(T)
  BY HostAssumption, FS_Subset
<1>2. QED
  BY <1>1, FS_Subset, FS_CardinalityType

\* A call that begins no creation and takes no slot stays within the limits.
LEMMA CallMoves ==
  ASSUME HostInv, NEW o \in ContextOwners, NEW worker, NEW call, NEW confirmed,
         OwnerMoves(o, worker, call, confirmed), CallHolds(worker, call, confirmed),
         StillHeld(o, worker, call),
         Creates(call) <=> Creates(calls[o]), Executes(call) => Executes(calls[o]),
         spawning' = spawning
  PROVE  HostInv'
<1>1. Creating' = Creating
  <2>1. \A q \in ContextOwners : Creates(calls'[q]) <=> Creates(calls[q])
    BY MovedOwners
  <2>2. QED
    BY <2>1 DEF Creating, Creates
<1>2. InFlight' \subseteq InFlight
  <2>1. \A q \in ContextOwners : Executes(calls'[q]) => Executes(calls[q])
    BY MovedOwners
  <2>2. QED
    BY <2>1 DEF InFlight, Executes
<1>3. /\ contexts \cup Creating \in SUBSET ContextOwners
      /\ contexts' \cup Creating \in SUBSET (contexts \cup Creating)
      /\ InFlight \in SUBSET ContextOwners
  BY DEF HostInv, HostTypes, StillHeld, Creating, InFlight
<1>4. /\ Cardinality(contexts' \cup Creating) <= MaxContexts
      /\ Cardinality(InFlight') <= MaxExecutions
  <2>1. /\ Cardinality(contexts \cup Creating) <= MaxContexts
        /\ Cardinality(InFlight) <= MaxExecutions
        /\ MaxContexts \in Nat /\ MaxExecutions \in Nat
    BY HostAssumption DEF HostInv, CapacityHolds
  <2>2. /\ Cardinality(contexts' \cup Creating) <= Cardinality(contexts \cup Creating)
        /\ Cardinality(contexts' \cup Creating) \in Nat /\ Cardinality(contexts \cup Creating) \in Nat
    BY <1>3, FewerFit
  <2>3. /\ Cardinality(InFlight') <= Cardinality(InFlight)
        /\ Cardinality(InFlight') \in Nat /\ Cardinality(InFlight) \in Nat
    BY <1>2, <1>3, FewerFit
  <2>4. QED
    BY <2>1, <2>2, <2>3
<1>5. CapacityHolds'
  BY <1>1, <1>4 DEF HostInv, CapacityHolds
<1>6. HostTypes'
  BY <1>3, MovedOwners DEF HostTypes, StillHeld
<1>7. QED
  BY <1>5, <1>6, MoveFollows, MoveKeepsWorkers DEF HostInv

\* What the invariant says of one owner.
LEMMA OwnerFacts ==
  ASSUME HostInv, NEW o \in ContextOwners
  PROVE  /\ process[o] \in Workers \cup {NoWorker} /\ calls[o] \in Calls
         /\ mirror[o] \in Snapshots \cup {NoMirror}
         /\ CallHolds(process[o], calls[o], mirror[o])
         /\ process[o] # NoWorker => Belongs(o, calls[o], contexts \cup closing)
         /\ contexts \subseteq ContextOwners /\ closing \subseteq ContextOwners
  BY DEF HostInv, HostTypes, CallsFollow, WorkersBelong

\* The same where only the owner's call moves.
LEMMA CallOnlyMoves ==
  ASSUME HostInv, NEW o \in ContextOwners, NEW call \in Calls,
         calls' = [calls EXCEPT ![o] = call],
         UNCHANGED <<process, contexts, spawning, mirror, closing>>,
         CallHolds(process[o], call, mirror[o]),
         process[o] # NoWorker => Belongs(o, call, contexts \cup closing),
         Creates(call) <=> Creates(calls[o]), Executes(call) => Executes(calls[o])
  PROVE  HostInv'
<1>1. OwnerMoves(o, process[o], call, mirror[o])
  BY OwnerFacts DEF OwnerMoves, HostInv, HostTypes
<1>2. StillHeld(o, process[o], call)
  BY OwnerFacts DEF StillHeld
<1>3. QED
  BY <1>1, <1>2, CallMoves

\* The same where the owner's worker is stopped too.
LEMMA StoppedMoves ==
  ASSUME HostInv, NEW o \in ContextOwners, NEW call \in Calls, call.at \notin {"asked", "answered"},
         calls' = [calls EXCEPT ![o] = call], process' = Stopped(o),
         UNCHANGED <<spawning, mirror>>,
         call.at \in {"waiting", "running"} => call = calls[o],
         contexts' \subseteq contexts \cup Creating, closing' \subseteq ContextOwners,
         \A q \in contexts \cup closing : q # o => q \in contexts' \cup closing',
         Creates(call) <=> Creates(calls[o]), Executes(call) => Executes(calls[o])
  PROVE  HostInv'
<1>1. OwnerMoves(o, NoWorker, call, mirror[o])
  BY OwnerFacts DEF OwnerMoves, Stopped, HostInv, HostTypes
<1>2. StillHeld(o, NoWorker, call)
  BY DEF StillHeld
<1>3. CallHolds(NoWorker, call, mirror[o])
  BY OwnerFacts DEF CallHolds
<1>4. QED
  BY <1>1, <1>2, <1>3, CallMoves

\* What an owner asks of a context it has.
LEMMA AskStep ==
  ASSUME HostInv, NEW o \in ContextOwners, NEW request \in Requests, Ask(o, request),
         request.operation # "load", request.operation = "restore" => mirror[o] = request.snapshot
  PROVE  HostInv'
<1>1. PICK call : call = [at |-> "waiting", request |-> request]
  OBVIOUS
<1>2. call \in Calls /\ call.at = "waiting" /\ call.request = request
  BY <1>1 DEF Calls
<1>3. /\ calls' = [calls EXCEPT ![o] = call] /\ calls[o].at = "none" /\ o \in contexts
      /\ UNCHANGED <<process, contexts, spawning, mirror, closing>>
  BY <1>1 DEF Ask, NoCall
<1>4. CallHolds(process[o], call, mirror[o])
  BY <1>2, <1>3, OwnerFacts DEF CallHolds
<1>5. ~ Creates(call) /\ ~ Creates(calls[o]) /\ ~ Executes(call)
  BY <1>2, <1>3 DEF Creates, Executes
<1>6. Belongs(o, call, contexts \cup closing)
  BY <1>3 DEF Belongs
<1>7. QED
  BY <1>2, <1>3, <1>4, <1>5, <1>6, CallOnlyMoves

\* AskStart, AskRestore, AskExecute, AskProject.
LEMMA AskSteps ==
  ASSUME HostInv, NEW o \in ContextOwners,
         \/ AskStart(o) \/ AskRestore(o) \/ AskProject(o)
         \/ \E steps \in 1..2, fails \in 1..2 : AskExecute(o, steps, fails)
  PROVE  HostInv'
<1>1. CASE AskStart(o) \/ AskProject(o)
  <2>1. PICK request \in [operation : {"start", "project"}] : Ask(o, request)
    BY <1>1 DEF AskStart, AskProject, Request
  <2>2. request \in Requests /\ request.operation \notin {"load", "restore"}
    BY <2>1 DEF Requests
  <2>3. QED
    BY <2>1, <2>2, AskStep
<1>2. CASE AskRestore(o)
  <2>1. mirror[o] \in Snapshots
    BY <1>2, OwnerFacts DEF AskRestore
  <2>2. PICK request : request = [operation |-> "restore", snapshot |-> mirror[o]]
    OBVIOUS
  <2>3. request \in Requests /\ request.operation = "restore" /\ request.snapshot = mirror[o]
    BY <2>1, <2>2 DEF Requests
  <2>4. Ask(o, request)
    BY <1>2, <2>2 DEF AskRestore
  <2>5. QED
    BY <2>3, <2>4, AskStep
<1>3. ASSUME NEW steps \in 1..2, NEW fails \in 1..2, AskExecute(o, steps, fails)
      PROVE  HostInv'
  <2>1. PICK request : request = [operation |-> "execute", steps |-> steps, fails |-> fails]
    OBVIOUS
  <2>2. request \in Requests /\ request.operation = "execute"
    BY <2>1 DEF Requests
  <2>3. Ask(o, request)
    BY <1>3, <2>1 DEF AskExecute
  <2>4. QED
    BY <2>2, <2>3, AskStep
<1>4. QED
  BY <1>1, <1>2, <1>3

\* Waiting given up, and a failed call's return.
LEMMA CallEndSteps ==
  ASSUME HostInv, NEW o \in ContextOwners, GiveUpWaiting(o) \/ CallFails(o)
  PROVE  HostInv'
<1>1. NoCall \in Calls /\ NoCall.at = "none"
  BY DEF NoCall, Calls
<1>2. UNCHANGED <<process, contexts, spawning, mirror, closing>> /\ calls[o].at \in {"waiting", "failed"}
  BY DEF GiveUpWaiting, CallFails
<1>3. CASE o \notin Creating
  <2>1. calls' = [calls EXCEPT ![o] = NoCall]
    BY <1>3 DEF GiveUpWaiting, CallFails
  <2>2. ~ Creates(calls[o]) /\ ~ Creates(NoCall) /\ ~ Executes(NoCall)
    BY <1>1, <1>3 DEF Creates, Creating, Executes
  <2>3. CallHolds(process[o], NoCall, mirror[o])
    BY <1>1, <1>2, OwnerFacts DEF CallHolds
  <2>4. process[o] # NoWorker => Belongs(o, NoCall, contexts \cup closing)
    BY <1>2, <2>2, OwnerFacts DEF Belongs
  <2>5. QED
    BY <1>1, <1>2, <2>1, <2>2, <2>3, <2>4, CallOnlyMoves
<1>4. CASE o \in Creating
  <2>1. PICK call : call = [calls[o] EXCEPT !.at = "failed"]
    OBVIOUS
  <2>2. calls' = [calls EXCEPT ![o] = call] /\ calls[o].at = "waiting"
    BY <1>4, <2>1 DEF GiveUpWaiting, CallFails
  <2>3. call \in Calls /\ call.at = "failed" /\ call.request = calls[o].request
    BY <2>1, <2>2, OwnerFacts DEF Calls
  <2>4. Creates(calls[o]) /\ Creates(call) /\ ~ Executes(call)
    BY <1>4, <2>3 DEF Creates, Creating, Executes
  <2>5. CallHolds(process[o], call, mirror[o])
    BY <2>2, <2>3, OwnerFacts DEF CallHolds
  <2>6. Belongs(o, call, contexts \cup closing)
    BY <2>3, <2>4 DEF Belongs
  <2>7. QED
    BY <1>2, <2>2, <2>3, <2>4, <2>5, <2>6, CallOnlyMoves
<1>5. QED
  BY <1>3, <1>4

\* Host.call takes a slot only when one is free.
LEMMA TakeSlotStep ==
  ASSUME HostInv, NEW o \in ContextOwners, TakeSlot(o)
  PROVE  HostInv'
<1>1. PICK call : call = [calls[o] EXCEPT !.at = "running"]
  OBVIOUS
<1>2. /\ calls' = [calls EXCEPT ![o] = call] /\ calls[o].at = "waiting"
      /\ Cardinality(InFlight) < MaxExecutions
      /\ UNCHANGED <<process, contexts, spawning, mirror, closing>>
  BY <1>1 DEF TakeSlot
<1>3. call \in Calls /\ call.at = "running" /\ call.request = calls[o].request
  BY <1>1, <1>2, OwnerFacts DEF Calls
<1>4. OwnerMoves(o, process[o], call, mirror[o])
  BY <1>2, <1>3, OwnerFacts DEF OwnerMoves, HostInv, HostTypes
<1>5. CallHolds(process[o], call, mirror[o])
  BY <1>2, <1>3, OwnerFacts DEF CallHolds
<1>6. StillHeld(o, process[o], call)
  BY <1>2, <1>3, OwnerFacts DEF StillHeld, Belongs, Creates
<1>7. Creating' = Creating
  <2>1. \A q \in ContextOwners : Creates(calls'[q]) <=> Creates(calls[q])
    BY <1>2, <1>3, <1>4, MovedOwners DEF Creates
  <2>2. QED
    BY <2>1 DEF Creating, Creates
<1>8. InFlight' = InFlight \cup {o} /\ o \notin InFlight
  <2>1. \A q \in ContextOwners : Executes(calls'[q]) <=> (q = o \/ Executes(calls[q]))
    BY <1>3, <1>4, MovedOwners DEF Executes
  <2>2. QED
    BY <1>2, <2>1 DEF InFlight, Executes
<1>9. Cardinality(InFlight') <= MaxExecutions
  <2>1. IsFiniteSet(InFlight)
    BY HostAssumption, FS_Subset DEF InFlight
  <2>2. Cardinality(InFlight') = Cardinality(InFlight) + 1 /\ Cardinality(InFlight) \in Nat
    BY <1>8, <2>1, FS_AddElement, FS_CardinalityType
  <2>3. QED
    BY <1>2, <2>2, HostAssumption
<1>10. CapacityHolds'
  BY <1>2, <1>7, <1>9 DEF HostInv, CapacityHolds
<1>11. HostTypes'
  BY <1>2, <1>4, MovedOwners DEF HostInv, HostTypes
<1>12. QED
  BY <1>4, <1>5, <1>6, <1>10, <1>11, MoveFollows, MoveKeepsWorkers DEF HostInv

\* The request is written to a worker that runs, or fails.
LEMMA WriteStep ==
  ASSUME HostInv, NEW o \in ContextOwners, Write(o)
  PROVE  HostInv'
<1>1. PICK where \in {"failed", "asked"} :
        /\ process[o] = NoWorker => where = "failed"
        /\ process[o] # NoWorker => where = "asked"
  OBVIOUS
<1>2. PICK call : call = [calls[o] EXCEPT !.at = where]
  OBVIOUS
<1>3. /\ calls' = [calls EXCEPT ![o] = call] /\ calls[o].at = "running"
      /\ UNCHANGED <<process, contexts, spawning, mirror, closing>>
  BY <1>1, <1>2 DEF Write
<1>4. call \in Calls /\ call.at = where /\ call.request = calls[o].request
  BY <1>2, <1>3, OwnerFacts DEF Calls
<1>5. CallHolds(process[o], call, mirror[o])
  BY <1>1, <1>3, <1>4, OwnerFacts DEF CallHolds
<1>6. Creates(call) <=> Creates(calls[o])
  BY <1>3, <1>4 DEF Creates
<1>7. Executes(calls[o])
  BY <1>3 DEF Executes
<1>8. process[o] # NoWorker => Belongs(o, call, contexts \cup closing)
  BY <1>3, <1>4, <1>6, OwnerFacts DEF Belongs
<1>9. QED
  BY <1>3, <1>4, <1>5, <1>6, <1>7, <1>8, CallOnlyMoves

\* The worker handles what it was asked.
LEMMA WorkerAnswersStep ==
  ASSUME HostInv, NEW o \in ContextOwners, NEW behaviour \in Behaviours, WorkerAnswers(o, behaviour)
  PROVE  HostInv'
<1>1. /\ calls[o].at = "asked" /\ calls[o].request \in Requests
      /\ process[o] \in Workers /\ Follows(process[o], mirror[o])
      /\ mirror[o] \in Snapshots \cup {NoMirror}
      /\ calls[o].request.operation = "restore" => mirror[o] = calls[o].request.snapshot
  BY OwnerFacts DEF WorkerAnswers, Calls, CallHolds
<1>2. PICK handled : handled = Handle(process[o], calls[o].request, behaviour)
  OBVIOUS
<1>3. IsHandled(handled, calls[o].request, mirror[o])
  BY <1>1, <1>2, HandleFollows
<1>4. handled.worker \in Workers /\ handled.answer \in Answers /\ handled.worker # NoWorker
  BY <1>3, HostAssumption DEF IsHandled
<1>5. PICK call : call = [at |-> "answered", request |-> calls[o].request, answer |-> handled.answer]
  OBVIOUS
<1>6. call \in Calls /\ call.at = "answered" /\ call.request = calls[o].request /\ call.answer = handled.answer
  BY <1>1, <1>4, <1>5 DEF Calls
<1>7. /\ process' = [process EXCEPT ![o] = handled.worker] /\ calls' = [calls EXCEPT ![o] = call]
      /\ UNCHANGED <<contexts, spawning, mirror, closing>>
  BY <1>2, <1>5 DEF WorkerAnswers
<1>8. OwnerMoves(o, handled.worker, call, mirror[o])
  BY <1>1, <1>4, <1>6, <1>7 DEF OwnerMoves, HostInv, HostTypes
<1>9. CallHolds(handled.worker, call, mirror[o])
  BY <1>3, <1>4, <1>6 DEF CallHolds, IsHandled
<1>10. Creates(call) <=> Creates(calls[o])
  BY <1>1, <1>6 DEF Creates
<1>11. Executes(calls[o])
  BY <1>1 DEF Executes
<1>12. process[o] # NoWorker
  BY <1>1, HostAssumption
<1>13. StillHeld(o, handled.worker, call)
  BY <1>1, <1>6, <1>7, <1>10, <1>12, OwnerFacts DEF StillHeld, Belongs
<1>14. QED
  BY <1>7, <1>8, <1>9, <1>10, <1>11, <1>13, CallMoves

\* Calls that fail, whose worker is stopped: a fatal answer, an owner gone.
LEMMA FailedCallStep ==
  ASSUME HostInv, NEW o \in ContextOwners, calls[o].at \in {"asked", "answered"},
         process' = Stopped(o),
         calls' = [calls EXCEPT ![o] = [at |-> "failed", request |-> @.request]],
         UNCHANGED <<contexts, spawning, mirror, closing>>
  PROVE  HostInv'
<1>1. PICK call : call = [at |-> "failed", request |-> calls[o].request]
  OBVIOUS
<1>2. call \in Calls /\ call.at = "failed" /\ call.request = calls[o].request
  BY <1>1, OwnerFacts DEF Calls
<1>3. calls' = [calls EXCEPT ![o] = call]
  BY <1>1
<1>4. (Creates(call) <=> Creates(calls[o])) /\ ~ Executes(call)
  BY <1>2 DEF Creates, Executes
<1>5. QED
  BY <1>2, <1>3, <1>4, OwnerFacts, StoppedMoves

\* What Succeeds makes of the call: registered when it created the context.
LEMMA SucceededCall ==
  ASSUME HostInv, NEW o \in ContextOwners, NEW failedLoad, Succeeds(o, failedLoad),
         calls[o].at \in {"asked", "answered"}
  PROVE  \E call \in Calls :
           /\ calls' = [calls EXCEPT ![o] = call]
           /\ call.at \in {"none", "registered"}
           /\ Creates(call) <=> Creates(calls[o])
           /\ contexts' = IF Creates(calls[o]) THEN contexts \cup {o} ELSE contexts
           /\ call.at = "registered" <=> Creates(calls[o])
<1>1. o \in Creating <=> Creates(calls[o])
  BY DEF Creating, Creates
<1>2. CASE Creates(calls[o])
  <2>1. PICK call : call = [at |-> "registered", request |-> calls[o].request]
    OBVIOUS
  <2>2. call \in Calls /\ call.at = "registered" /\ call.request = calls[o].request
    BY <2>1, OwnerFacts DEF Calls
  <2>3. Creates(call)
    BY <1>2, <2>2 DEF Creates
  <2>4. calls' = [calls EXCEPT ![o] = call] /\ contexts' = contexts \cup {o}
    BY <1>1, <1>2, <2>1 DEF Succeeds
  <2>5. QED
    BY <1>2, <2>2, <2>3, <2>4
<1>3. CASE ~ Creates(calls[o])
  <2>1. NoCall \in Calls /\ NoCall.at = "none" /\ ~ Creates(NoCall)
    BY DEF NoCall, Calls, Creates
  <2>2. calls' = [calls EXCEPT ![o] = NoCall] /\ contexts' = contexts
    BY <1>1, <1>3 DEF Succeeds
  <2>3. QED
    BY <1>3, <2>1, <2>2
<1>4. QED
  BY <1>2, <1>3

\* The answer is read: only what was answered in time is confirmed.
LEMMA TakeAnswerStep ==
  ASSUME HostInv, NEW o \in ContextOwners, TakeAnswer(o)
  PROVE  HostInv'
<1>1. PICK answer : answer = calls[o].answer
  OBVIOUS
<1>2. /\ calls[o].at = "answered" /\ answer \in Answers /\ calls[o].request \in Requests
      /\ process[o] \in Workers /\ process[o] # NoWorker
      /\ UNCHANGED <<spawning, closing>>
  BY <1>1, OwnerFacts DEF TakeAnswer, Calls, CallHolds
<1>3. CASE answer.kind = "fatal"
  BY <1>1, <1>2, <1>3, FailedCallStep DEF TakeAnswer
<1>4. CASE answer.kind # "fatal"
  <2>1. Succeeds(o, o \in Creating /\ answer.kind = "script_failed") /\ Confirms(o, answer) /\ UNCHANGED process
    BY <1>1, <1>4 DEF TakeAnswer
  <2>2. PICK call \in Calls :
           /\ calls' = [calls EXCEPT ![o] = call]
           /\ call.at \in {"none", "registered"}
           /\ Creates(call) <=> Creates(calls[o])
           /\ contexts' = IF Creates(calls[o]) THEN contexts \cup {o} ELSE contexts
           /\ call.at = "registered" <=> Creates(calls[o])
    BY <1>2, <2>1, SucceededCall
  <2>3. PICK confirmed : confirmed = IF IsConfirmed(calls[o].request, answer) THEN answer.at ELSE mirror[o]
    OBVIOUS
  <2>4. confirmed \in Snapshots \cup {NoMirror} /\ mirror' = [mirror EXCEPT ![o] = confirmed]
    <3>1. CASE IsConfirmed(calls[o].request, answer)
      BY <1>2, <2>1, <2>3, <3>1 DEF IsConfirmed, Answers, Confirms
    <3>2. CASE ~ IsConfirmed(calls[o].request, answer)
      BY <2>1, <2>3, <3>2, OwnerFacts DEF IsConfirmed, Confirms, HostInv, HostTypes
    <3>3. QED
      BY <3>1, <3>2
  <2>5. OwnerMoves(o, process[o], call, confirmed)
    BY <2>1, <2>2, <2>4, OwnerFacts DEF OwnerMoves, HostInv, HostTypes
  <2>6. Follows(process[o], confirmed)
    <3>1. CASE IsConfirmed(calls[o].request, answer)
      <4>1. process[o].at = answer.at /\ answer.at \in Snapshots
        BY <1>1, <1>2, <3>1, OwnerFacts DEF CallHolds, IsConfirmed, Answers
      <4>2. QED
        BY <2>3, <3>1, <4>1, HostAssumption DEF Follows
    <3>2. CASE ~ IsConfirmed(calls[o].request, answer)
      BY <1>1, <1>2, <2>3, <3>2, OwnerFacts DEF CallHolds
    <3>3. QED
      BY <3>1, <3>2
  <2>7. CallHolds(process[o], call, confirmed)
    BY <2>2, <2>6 DEF CallHolds
  <2>8. ~ Executes(call)
    BY <2>2 DEF Executes
  <2>9. contexts \subseteq contexts' /\ contexts' \subseteq contexts \cup Creating /\ closing' \subseteq ContextOwners
    BY <1>2, <2>2, OwnerFacts DEF Creating, Creates
  <2>10. Belongs(o, call, contexts' \cup closing')
    BY <1>2, <2>2, <2>9, OwnerFacts DEF Belongs
  <2>11. StillHeld(o, process[o], call)
    BY <1>2, <2>9, <2>10 DEF StillHeld
  <2>12. QED
    BY <1>2, <2>2, <2>5, <2>7, <2>8, <2>11, CallMoves
<1>5. QED
  BY <1>3, <1>4

\* Calls whose worker is stopped, and what Close stops.
LEMMA StoppingSteps ==
  ASSUME HostInv, NEW o \in ContextOwners,
         Abandon(o) \/ ExceedBudget(o) \/ StopDiscarded(o) \/ StopClosed(o)
  PROVE  HostInv'
<1>1. CASE Abandon(o)
  BY <1>1, FailedCallStep DEF Abandon
<1>2. CASE ExceedBudget(o)
  <2>1. /\ calls[o].at \in {"asked", "answered"} /\ process' = Stopped(o)
        /\ Succeeds(o, o \in Creating) /\ UNCHANGED <<spawning, mirror, closing>>
    BY <1>2 DEF ExceedBudget
  <2>2. PICK call \in Calls :
           /\ calls' = [calls EXCEPT ![o] = call]
           /\ call.at \in {"none", "registered"}
           /\ Creates(call) <=> Creates(calls[o])
           /\ contexts' = IF Creates(calls[o]) THEN contexts \cup {o} ELSE contexts
    BY <2>1, SucceededCall
  <2>3. contexts \subseteq contexts' /\ contexts' \subseteq contexts \cup Creating
    BY <2>2 DEF Creating, Creates
  <2>4. ~ Executes(call)
    BY <2>2 DEF Executes
  <2>5. QED
    BY <2>1, <2>2, <2>3, <2>4, OwnerFacts, StoppedMoves
<1>3. CASE StopDiscarded(o)
  <2>1. NoCall \in Calls /\ NoCall.at = "none" /\ ~ Creates(NoCall) /\ ~ Executes(NoCall)
    BY DEF NoCall, Calls, Creates, Executes
  <2>2. ~ Creates(calls[o])
    BY <1>3, OwnerFacts DEF StopDiscarded, Calls, Creates
  <2>3. QED
    BY <1>3, <2>1, <2>2, OwnerFacts, StoppedMoves DEF StopDiscarded
<1>4. CASE StopClosed(o)
  <2>1. /\ process' = Stopped(o) /\ closing' = closing \ {o}
        /\ UNCHANGED <<contexts, spawning, calls, mirror>>
        /\ calls[o].at \notin {"asked", "answered"}
    BY <1>4 DEF StopClosed
  <2>2. calls' = [calls EXCEPT ![o] = calls[o]]
    BY <2>1 DEF HostInv, HostTypes
  <2>3. \A q \in contexts \cup closing : q # o => q \in contexts' \cup closing'
    BY <2>1
  <2>4. QED
    BY <2>1, <2>2, <2>3, OwnerFacts, StoppedMoves
<1>5. QED
  BY <1>1, <1>2, <1>3, <1>4

\* A context its owner discards is left to the call that stops it.
LEMMA DiscardStep ==
  ASSUME HostInv, NEW o \in ContextOwners, DiscardContext(o)
  PROVE  HostInv'
<1>1. PICK call : call = [at |-> "discarding", request |-> Request("discard")]
  OBVIOUS
<1>2. call \in Calls /\ call.at = "discarding" /\ ~ Creates(call) /\ ~ Executes(call)
  BY <1>1 DEF Calls, Creates, Executes, Request
<1>3. /\ calls[o].at = "none" /\ calls' = [calls EXCEPT ![o] = call] /\ contexts' = contexts \ {o}
      /\ UNCHANGED <<process, spawning, mirror, closing>>
  BY <1>1 DEF DiscardContext, NoCall
<1>4. OwnerMoves(o, process[o], call, mirror[o])
  BY <1>2, <1>3, OwnerFacts DEF OwnerMoves, HostInv, HostTypes
<1>5. CallHolds(process[o], call, mirror[o])
  BY <1>2, <1>3, OwnerFacts DEF CallHolds
<1>6. StillHeld(o, process[o], call)
  BY <1>2, <1>3, OwnerFacts DEF StillHeld, Belongs
<1>7. ~ Creates(calls[o])
  BY <1>3 DEF Creates
<1>8. QED
  BY <1>2, <1>3, <1>4, <1>5, <1>6, <1>7, CallMoves

\* CreateContext takes its capacity before it spawns.
LEMMA CreateContextStep ==
  ASSUME HostInv, NEW o \in ContextOwners, CreateContext(o)
  PROVE  HostInv'
<1>1. PICK call : call = [at |-> "waiting", request |-> Request("load")]
  OBVIOUS
<1>2. /\ call \in Calls /\ call.at = "waiting" /\ call.request.operation = "load"
      /\ Creates(call) /\ ~ Executes(call)
  BY <1>1 DEF Calls, Requests, Request, Creates, Executes
<1>3. /\ calls[o].at = "none" /\ calls' = [calls EXCEPT ![o] = call]
      /\ process' = [process EXCEPT ![o] = NewWorker] /\ spawning' = spawning + 1
      /\ Cardinality(contexts) + spawning < MaxContexts
      /\ UNCHANGED <<contexts, mirror, closing>>
  BY <1>1 DEF CreateContext, NoCall, HasRoom
<1>4. NewWorker \in Workers /\ ~ NewWorker.started
  BY DEF NewWorker, Workers, Snapshots, Snapshot
<1>5. OwnerMoves(o, NewWorker, call, mirror[o])
  BY <1>2, <1>3, <1>4, OwnerFacts DEF OwnerMoves, HostInv, HostTypes
<1>6. CallHolds(NewWorker, call, mirror[o])
  BY <1>2, <1>4 DEF CallHolds, Follows
<1>7. StillHeld(o, NewWorker, call)
  BY <1>2, <1>3, OwnerFacts DEF StillHeld, Belongs
<1>8. Creating' = Creating \cup {o} /\ o \notin Creating
  <2>1. \A q \in ContextOwners : Creates(calls'[q]) <=> (q = o \/ Creates(calls[q]))
    BY <1>2, <1>5, MovedOwners
  <2>2. QED
    BY <1>3, <2>1 DEF Creating, Creates
<1>9. InFlight' = InFlight
  <2>1. \A q \in ContextOwners : Executes(calls'[q]) <=> Executes(calls[q])
    BY <1>2, <1>3, <1>5, MovedOwners DEF Executes
  <2>2. QED
    BY <2>1 DEF InFlight, Executes
<1>10. IsFiniteSet(Creating) /\ IsFiniteSet(contexts) /\ contexts \subseteq ContextOwners
  BY HostAssumption, FS_Subset, OwnerFacts DEF Creating
<1>11. spawning' = Cardinality(Creating')
  BY <1>3, <1>8, <1>10, FS_AddElement DEF HostInv, CapacityHolds
<1>12. Cardinality(contexts' \cup Creating') <= MaxContexts
  <2>1. PICK c \in Nat, n \in Nat : c = Cardinality(contexts) /\ n = Cardinality(Creating')
    BY <1>8, <1>10, FS_CardinalityType, FS_AddElement
  <2>2. IsFiniteSet(Creating') /\ IsFiniteSet(contexts \cap Creating')
    BY <1>8, <1>10, FS_AddElement, FS_Subset
  <2>3. Cardinality(contexts \cap Creating') \in Nat
    BY <2>2, FS_CardinalityType
  <2>4. Cardinality(contexts \cup Creating') = c + n - Cardinality(contexts \cap Creating')
    BY <1>10, <2>1, <2>2, FS_Union
  <2>5. c + (n - 1) < MaxContexts /\ MaxContexts \in Nat
    <3>1. spawning = n - 1
      BY <1>3, <1>11, <2>1, <1>10, FS_CardinalityType DEF HostInv, CapacityHolds
    <3>2. QED
      BY <1>3, <2>1, <3>1, HostAssumption
  <2>6. QED
    BY <1>3, <2>1, <2>3, <2>4, <2>5
<1>13. CapacityHolds'
  BY <1>9, <1>11, <1>12 DEF HostInv, CapacityHolds
<1>14. HostTypes'
  BY <1>3, <1>5, MovedOwners DEF HostInv, HostTypes
<1>15. QED
  BY <1>5, <1>6, <1>7, <1>13, <1>14, MoveFollows, MoveKeepsWorkers DEF HostInv

\* A creation returns its capacity last, leaving a context or no worker.
LEMMA CreateReturnsStep ==
  ASSUME HostInv, NEW o \in ContextOwners, CreateReturns(o)
  PROVE  HostInv'
<1>1. NoCall \in Calls /\ NoCall.at = "none" /\ ~ Creates(NoCall) /\ ~ Executes(NoCall)
  BY DEF NoCall, Calls, Creates, Executes
<1>2. PICK worker : worker = IF calls[o].at = "failed" THEN NoWorker ELSE process[o]
  OBVIOUS
<1>3. /\ calls' = [calls EXCEPT ![o] = NoCall] /\ process' = [process EXCEPT ![o] = worker]
      /\ spawning' = spawning - 1 /\ calls[o].at \in {"registered", "failed"} /\ o \in Creating
      /\ UNCHANGED <<contexts, mirror, closing>>
  BY <1>2 DEF CreateReturns, Stopped, HostInv, HostTypes
<1>4. OwnerMoves(o, worker, NoCall, mirror[o])
  BY <1>1, <1>2, <1>3, OwnerFacts DEF OwnerMoves, HostInv, HostTypes
<1>5. CallHolds(worker, NoCall, mirror[o])
  BY <1>1, <1>2, <1>3, OwnerFacts DEF CallHolds
<1>6. StillHeld(o, worker, NoCall)
  BY <1>2, <1>3, OwnerFacts DEF StillHeld, Belongs
<1>7. Creating' = Creating \ {o}
  <2>1. \A q \in ContextOwners : Creates(calls'[q]) <=> (q # o /\ Creates(calls[q]))
    BY <1>1, <1>4, MovedOwners
  <2>2. QED
    BY <2>1 DEF Creating, Creates
<1>8. InFlight' = InFlight
  <2>1. \A q \in ContextOwners : Executes(calls'[q]) <=> Executes(calls[q])
    BY <1>1, <1>3, <1>4, MovedOwners DEF Executes
  <2>2. QED
    BY <2>1 DEF InFlight, Executes
<1>9. spawning' = Cardinality(Creating')
  <2>1. IsFiniteSet(Creating)
    BY HostAssumption, FS_Subset DEF Creating
  <2>2. QED
    BY <1>3, <1>7, <2>1, FS_RemoveElement, FS_CardinalityType DEF HostInv, CapacityHolds
<1>10. Cardinality(contexts' \cup Creating') <= MaxContexts
  <2>1. /\ contexts \cup Creating \in SUBSET ContextOwners
        /\ contexts' \cup Creating' \in SUBSET (contexts \cup Creating)
    BY <1>3, <1>7, OwnerFacts DEF Creating
  <2>2. /\ Cardinality(contexts' \cup Creating') <= Cardinality(contexts \cup Creating)
        /\ Cardinality(contexts' \cup Creating') \in Nat /\ Cardinality(contexts \cup Creating) \in Nat
    BY <2>1, FewerFit
  <2>3. QED
    BY <2>2, HostAssumption DEF HostInv, CapacityHolds
<1>11. CapacityHolds'
  BY <1>8, <1>9, <1>10 DEF HostInv, CapacityHolds
<1>12. HostTypes'
  BY <1>3, <1>4, MovedOwners DEF HostInv, HostTypes
<1>13. QED
  BY <1>4, <1>5, <1>6, <1>11, <1>12, MoveFollows, MoveKeepsWorkers DEF HostInv

\* Close takes the contexts it has still to stop.
LEMMA CloseHostStep ==
  ASSUME HostInv, CloseHost
  PROVE  HostInv'
<1>1. /\ closing = {} /\ closing' = contexts /\ contexts' = {}
      /\ UNCHANGED <<process, spawning, calls, mirror>>
  BY DEF CloseHost
<1>2. Creating' = Creating /\ InFlight' = InFlight
  BY <1>1 DEF Creating, InFlight
<1>3. Cardinality(contexts' \cup Creating) <= MaxContexts
  <2>1. /\ contexts \cup Creating \in SUBSET ContextOwners
        /\ contexts' \cup Creating \in SUBSET (contexts \cup Creating)
    BY <1>1 DEF Creating, HostInv, HostTypes
  <2>2. /\ Cardinality(contexts' \cup Creating) <= Cardinality(contexts \cup Creating)
        /\ Cardinality(contexts' \cup Creating) \in Nat /\ Cardinality(contexts \cup Creating) \in Nat
    BY <2>1, FewerFit
  <2>3. QED
    BY <2>2, HostAssumption DEF HostInv, CapacityHolds
<1>4. CapacityHolds'
  BY <1>1, <1>2, <1>3 DEF HostInv, CapacityHolds
<1>5. WorkersBelong'
  BY <1>1 DEF HostInv, WorkersBelong, Belongs
<1>6. HostTypes' /\ CallsFollow'
  BY <1>1 DEF HostInv, HostTypes, CallsFollow
<1>7. QED
  BY <1>4, <1>5, <1>6 DEF HostInv

\* Every step of the Host keeps the invariant.
LEMMA HostStep ==
  ASSUME HostInv, [HostNext]_hostVars
  PROVE  HostInv'
<1>1. CASE UNCHANGED hostVars
  BY <1>1 DEF hostVars, HostInv, HostTypes, CallsFollow, WorkersBelong, CapacityHolds, Creating, InFlight
<1>2. CASE CloseHost
  BY <1>2, CloseHostStep
<1>3. ASSUME NEW o \in ContextOwners,
             \/ AskStart(o) \/ AskRestore(o) \/ AskProject(o)
             \/ \E steps \in 1..2, fails \in 1..2 : fails <= steps /\ AskExecute(o, steps, fails)
             \/ GiveUpWaiting(o) \/ CallFails(o)
      PROVE  HostInv'
  BY <1>3, AskSteps, CallEndSteps
<1>4. ASSUME NEW o \in ContextOwners,
             \/ CreateContext(o) \/ TakeSlot(o) \/ Write(o)
             \/ \E behaviour \in Behaviours : WorkerAnswers(o, behaviour)
             \/ TakeAnswer(o) \/ CreateReturns(o) \/ DiscardContext(o)
      PROVE  HostInv'
  BY <1>4, CreateContextStep, TakeSlotStep, WriteStep, WorkerAnswersStep, TakeAnswerStep,
     CreateReturnsStep, DiscardStep
<1>5. ASSUME NEW o \in ContextOwners,
             Abandon(o) \/ ExceedBudget(o) \/ StopDiscarded(o) \/ StopClosed(o)
      PROVE  HostInv'
  BY <1>5, StoppingSteps
<1>6. QED
  BY <1>1, <1>2, <1>3, <1>4, <1>5 DEF HostNext

\* What the invariant says of the workers and of their owners.
LEMMA HostInvHolds ==
  ASSUME HostInv
  PROVE  ContextsHold
<1>1. PICK alive : alive = {o \in ContextOwners : process[o] # NoWorker}
  OBVIOUS
<1>2. PICK stopping : stopping = closing \cup {o \in ContextOwners : calls[o].at = "discarding"}
  OBVIOUS
<1>3. alive \subseteq contexts \cup Creating \cup stopping
  <2>1. ASSUME NEW o \in alive
        PROVE  o \in contexts \cup Creating \cup stopping
    <3>1. o \in ContextOwners /\ Belongs(o, calls[o], contexts \cup closing)
      BY <1>1, OwnerFacts
    <3>2. QED
      BY <1>2, <3>1 DEF Belongs, Creating, Creates
  <2>2. QED
    BY <2>1
<1>4. Cardinality(alive \ stopping) <= MaxContexts
  <2>1. /\ contexts \cup Creating \in SUBSET ContextOwners
        /\ alive \ stopping \in SUBSET (contexts \cup Creating)
    BY <1>3 DEF Creating, HostInv, HostTypes
  <2>2. /\ Cardinality(alive \ stopping) <= Cardinality(contexts \cup Creating)
        /\ Cardinality(alive \ stopping) \in Nat /\ Cardinality(contexts \cup Creating) \in Nat
    BY <2>1, FewerFit
  <2>3. QED
    BY <2>2, HostAssumption DEF HostInv, CapacityHolds
<1>5. WorkersWithinLimit
  BY <1>1, <1>2, <1>3, <1>4 DEF WorkersWithinLimit, HostInv, CapacityHolds
<1>6. ContextsContinueWhatWasConfirmed
  <2>1. ASSUME NEW o \in ContextOwners, calls[o] = NoCall, process[o] # NoWorker
        PROVE  Follows(process[o], mirror[o])
    BY <2>1, OwnerFacts DEF CallHolds, NoCall
  <2>2. QED
    BY <2>1 DEF ContextsContinueWhatWasConfirmed, Follows
<1>7. QED
  BY <1>5, <1>6 DEF ContextsHold

\* However calls, creations, discards, budgets and Close interleave, the Host
\* keeps within its limits, loses no worker, and no context continues from a
\* state its owner did not confirm (Host.CreateContext, call, DiscardContext,
\* Close; worker handle).
THEOREM ContextsAlwaysHold == ServicesSpec => []ContextsHold
<1>1. ServicesInit => HostInv
  <2>1. SUFFICES ASSUME ServicesInit
                 PROVE  HostInv
    OBVIOUS
  <2>2. /\ process = [o \in ContextOwners |-> NoWorker] /\ calls = [o \in ContextOwners |-> NoCall]
        /\ mirror = [o \in ContextOwners |-> NoMirror]
        /\ contexts = {} /\ closing = {} /\ spawning = 0
    BY <2>1 DEF ServicesInit, HostInit
  <2>3. NoCall \in Calls /\ NoCall.at = "none"
    BY DEF NoCall, Calls
  <2>4. HostTypes
    BY <2>2, <2>3 DEF HostTypes
  <2>5. CallsFollow /\ WorkersBelong
    BY <2>2, <2>3 DEF CallsFollow, CallHolds, WorkersBelong
  <2>6. Creating = {} /\ InFlight = {} /\ contexts \cup Creating = {}
    BY <2>2, <2>3 DEF Creating, InFlight
  <2>7. CapacityHolds
    BY <2>2, <2>6, HostAssumption, FS_EmptySet DEF CapacityHolds
  <2>8. QED
    BY <2>4, <2>5, <2>7 DEF HostInv
<1>2. HostInv /\ [ServicesNext]_serviceVars => HostInv'
  BY HostStep DEF ServicesNext, serviceVars, hostVars
<1>3. HostInv => ContextsHold
  BY HostInvHolds
<1>4. QED
  BY <1>1, <1>2, <1>3, PTL DEF ServicesSpec
===========================================================================
