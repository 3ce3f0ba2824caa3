----------------------------- MODULE LimitAudit -----------------------------
(***************************************************************************)
(* The audit of the limits a live Session's users hit                      *)
(* (play/runtime/usecases/limitaudit/auditor.go): refusals gathered per    *)
(* Session, user and limit, and recorded in one transaction every few      *)
(* seconds (play/session/usecases/recordlimithits).                        *)
(***************************************************************************)
EXTENDS Naturals, FiniteSets

CONSTANTS
  HitKeys,          \* Session, user and limit
  UnknownTargets,   \* those whose Session does not exist
  MaxPendingKeys,
  MaxHits           \* bound of the model on one key's hits

ASSUME AuditAssumption == IsFiniteSet(HitKeys) /\ MaxPendingKeys \in Nat

VARIABLES
  hits,             \* HitKey -> its refusals so far
  pendingHits,      \* HitKey -> gathered and not taken by a flush
  flushing,         \* HitKey -> taken by the flush being stored
  auditedHits,      \* HitKey -> recorded
  lostHits          \* HitKey -> dropped, or in a batch that failed

auditVars == <<hits, pendingHits, flushing, auditedHits, lostHits>>

NoHits == [k \in HitKeys |-> 0]

Keyed(counts) == {k \in HitKeys : counts[k] > 0}

Plus(counts, more) == [k \in HitKeys |-> counts[k] + more[k]]

\* Hit: a new key beyond the bound is dropped; it never waits for storage.
Hit(k) ==
  /\ hits[k] < MaxHits
  /\ hits' = [hits EXCEPT ![k] = @ + 1]
  /\ IF pendingHits[k] = 0 /\ Cardinality(Keyed(pendingHits)) >= MaxPendingKeys
     THEN /\ lostHits' = [lostHits EXCEPT ![k] = @ + 1]
          /\ UNCHANGED pendingHits
     ELSE /\ pendingHits' = [pendingHits EXCEPT ![k] = @ + 1]
          /\ UNCHANGED lostHits
  /\ UNCHANGED <<flushing, auditedHits>>

\* Mutant: Flush without replacing what it gathered.
KeptGathering == pendingHits

\* What is gathered from when a flush takes the rest.
StartedGathering == NoHits

\* Flush takes what was gathered, holding the lock.
TakeGathered ==
  /\ flushing = NoHits /\ pendingHits # NoHits
  /\ flushing' = pendingHits
  /\ pendingHits' = StartedGathering
  /\ UNCHANGED <<hits, auditedHits, lostHits>>

\* RecordLimitHits: one transaction, skipping what names no Session.
RecordLimitHits ==
  /\ flushing # NoHits
  /\ LET stored == [k \in HitKeys |-> IF k \in UnknownTargets THEN 0 ELSE flushing[k]]
         skipped == [k \in HitKeys |-> IF k \in UnknownTargets THEN flushing[k] ELSE 0]
     IN auditedHits' = Plus(auditedHits, stored) /\ lostHits' = Plus(lostHits, skipped)
  /\ flushing' = NoHits
  /\ UNCHANGED <<hits, pendingHits>>

\* The batch fails as a whole, and is dropped.
RecordingFails ==
  /\ flushing # NoHits
  /\ lostHits' = Plus(lostHits, flushing)
  /\ flushing' = NoHits
  /\ UNCHANGED <<hits, pendingHits, auditedHits>>

AuditInit ==
  /\ hits = NoHits /\ pendingHits = NoHits /\ flushing = NoHits
  /\ auditedHits = NoHits /\ lostHits = NoHits

AuditNext ==
  \/ \E k \in HitKeys : Hit(k)
  \/ TakeGathered \/ RecordLimitHits \/ RecordingFails

-----------------------------------------------------------------------------
\* Every refusal is recorded once, or is still to be, or was dropped with
\* the batch or for the bound it was dropped for; nothing gathered while a
\* batch is stored is lost with it, or told twice.
HitsAreCountedOnce ==
  /\ \A k \in HitKeys :
       hits[k] = pendingHits[k] + flushing[k] + auditedHits[k] + lostHits[k]
  /\ Cardinality(Keyed(pendingHits)) <= MaxPendingKeys
=============================================================================
