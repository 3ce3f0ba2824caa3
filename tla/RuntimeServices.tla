--------------------------- MODULE RuntimeServices ---------------------------
(***************************************************************************)
(* The services every game of an instance shares: the sandbox's workers,   *)
(* the rate limits on one connection, user and client, the audit of the    *)
(* limits hit, the replay recorder, and the room for live connections.     *)
(* They share no variable: a behaviour exercises one of them, its `part',  *)
(* and leaves the others as they start.                                    *)
(***************************************************************************)
EXTENDS SandboxHost, KeyedLimits, LimitAudit, ReplayRecording, ConnectionRoom

VARIABLE part

serviceVars == <<hostVars, rateVars, keyedVars, auditVars, replayVars, roomVars, part>>

ServicesInit ==
  /\ HostInit /\ RateInit /\ KeyedInit /\ AuditInit /\ ReplayInit /\ RoomInit
  /\ part \in {"sandbox", "rate", "keyed", "audit", "replay", "room"}

ServicesNext ==
  /\ \/ part = "sandbox" /\ HostNext /\ UNCHANGED <<rateVars, keyedVars, auditVars, replayVars, roomVars>>
     \/ part = "rate" /\ RateNext /\ UNCHANGED <<hostVars, keyedVars, auditVars, replayVars, roomVars>>
     \/ part = "keyed" /\ KeyedNext /\ UNCHANGED <<hostVars, rateVars, auditVars, replayVars, roomVars>>
     \/ part = "audit" /\ AuditNext /\ UNCHANGED <<hostVars, rateVars, keyedVars, replayVars, roomVars>>
     \/ part = "replay" /\ ReplayNext /\ UNCHANGED <<hostVars, rateVars, keyedVars, auditVars, roomVars>>
     \/ part = "room" /\ RoomNext /\ UNCHANGED <<hostVars, rateVars, keyedVars, auditVars, replayVars>>
  /\ UNCHANGED part

ServicesSpec == ServicesInit /\ [][ServicesNext]_serviceVars

\* Limiting keeps no more than it must and reports what it refused: a forgotten
\* key is a new one, and every hit is counted once (Keyed.sweep, Auditor).
LimitsForgetNothing == ForgettingIsFree /\ HitsAreCountedOnce
=============================================================================
