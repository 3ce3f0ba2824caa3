-------------------------- MODULE SessionLifecycle --------------------------
(***************************************************************************)
(* The durable Session: its row, roster, checkpoint, join code and owner   *)
(* lease, written by the transactions of play/session/workflows/           *)
(* sessionlifecycle on behalf of Runtime instances, and by the             *)
(* reconciliation passes (play/session/batches/reconcilesessions) every    *)
(* instance runs.                                                          *)
(*                                                                         *)
(* Every write goes through a transaction that locks the Session's row     *)
(* (LockSession), reads it and the clock, and then commits or rolls back.  *)
(* Locking and committing are two steps here, so the clock, another        *)
(* Session's transactions and the unlocked reads (FindDue, the replay      *)
(* manifest) interleave between them.                                      *)
(***************************************************************************)
EXTENDS Integers, FiniteSets, SessionStatus

CONSTANTS
  Sessions,      \* the Sessions that may be created
  Owners,        \* Runtime calls in progress at once (each holds one transaction)
  Reconcilers,   \* instances running reconciliation passes
  OwnerCauses,   \* the end causes Runtime instances ask for
  Revisions,     \* context revisions of the checkpoints they save
  LobbyTTL, MaxLifetime, OwnerLease,
  Batch,         \* how many due Sessions a pass reads at a time
  MaxTime,       \* bound of the clock
  MaxFaults      \* bound of the failures a pass meets

ASSUME SessionLifecycleAssumption ==
  /\ OwnerCauses \subseteq EndCause \ {"OWNER_LOST"}
  /\ Revisions \subseteq Nat
  /\ Owners \cap Reconcilers = {}
  /\ LobbyTTL \in Nat \ {0}
  /\ MaxLifetime \in Nat \ {0}
  /\ OwnerLease \in Nat \ {0}
  /\ Batch \in Nat \ {0}
  /\ MaxTime \in Nat
  /\ MaxFaults \in Nat

VARIABLES
  now,
  row,          \* play_sessions
  roster,       \* the Sessions with rows in play_session_participants
  checkpoint,   \* play_session_checkpoints: its context revision, -1 for none
  codeActive,   \* the Sessions holding a join code not released
  finalized,    \* the Sessions whose play_replays.finalized_at is set
  txn,          \* the transaction each call has open
  pass,         \* the reconciliation pass each instance runs
  faults        \* failures passes met so far

tables == <<row, roster, checkpoint, codeActive>>
vars   == <<now, row, roster, checkpoint, codeActive, finalized, txn, pass, faults>>

Callers == Owners \cup Reconcilers

NoLease == -1
NoCheckpoint == -1
NoRow == [status |-> Absent, cause |-> NoCause, lobbyExpires |-> 0,
          expires |-> 0, lease |-> NoLease]

Row == [status: Status \cup {Absent}, cause: EndCause \cup {NoCause},
        lobbyExpires: Nat, expires: Nat, lease: Nat \cup {NoLease}]

NoTxn == [op |-> "none"]
Txn == [op: {"start", "end", "heartbeat", "save", "judge"}, session: Sessions,
        seen: Row, at: Nat, cause: EndCause \cup {NoCause},
        revision: Revisions \cup {NoCheckpoint}, finalized: BOOLEAN]

NoPass == [state |-> "idle"]
\* asking: the Session whose row the pass's statement is waiting for, {} for
\* none; sawFinalized: what that statement's snapshot says of its replay.
Pass == [state: {"judging"}, asOf: Nat, page: SUBSET Sessions,
         failed: SUBSET Sessions, full: BOOLEAN, endedNow: BOOLEAN,
         asking: SUBSET Sessions, sawFinalized: BOOLEAN]

TypeOK ==
  /\ now \in Nat
  /\ row \in [Sessions -> Row]
  /\ roster \subseteq Sessions
  /\ checkpoint \in [Sessions -> Revisions \cup {NoCheckpoint}]
  /\ codeActive \subseteq Sessions
  /\ finalized \subseteq Sessions
  /\ txn \in [Callers -> Txn \cup {NoTxn}]
  /\ pass \in [Reconcilers -> Pass \cup {NoPass}]
  /\ faults \in Nat

Init ==
  /\ now = 0
  /\ row = [s \in Sessions |-> NoRow]
  /\ roster = {}
  /\ checkpoint = [s \in Sessions |-> NoCheckpoint]
  /\ codeActive = {}
  /\ finalized = {}
  /\ txn = [c \in Callers |-> NoTxn]
  /\ pass = [r \in Reconcilers |-> NoPass]
  /\ faults = 0

Tick ==
  /\ now < MaxTime
  /\ now' = now + 1
  /\ UNCHANGED <<tables, finalized, txn, pass, faults>>

(***************************************************************************)
(* CreateSession as the rest of the lifecycle sees it: a committed lobby   *)
(* with its deadlines and a join code. SessionCreation models the          *)
(* transaction itself.                                                     *)
(***************************************************************************)
CreateSession(s) ==
  /\ row[s].status = Absent
  /\ row' = [row EXCEPT ![s] = [status |-> Lobby, cause |-> NoCause,
                                lobbyExpires |-> now + LobbyTTL,
                                expires |-> now + MaxLifetime, lease |-> NoLease]]
  /\ codeActive' = codeActive \cup {s}
  /\ UNCHANGED <<now, roster, checkpoint, finalized, txn, pass, faults>>

\* Mutant: a creation takes any code it draws, its holder's lobby open or not.
ReuseAnyCode(s) ==
  /\ s \in codeActive
  /\ codeActive' = codeActive \ {s}
  /\ UNCHANGED <<now, row, roster, checkpoint, finalized, txn, pass, faults>>

\* Another creation that drew the code of a lobby past its expiry releases it
\* for itself. It locks no Session row.
ReuseCode(s) ==
  /\ s \in codeActive
  /\ row[s].lobbyExpires <= now
  /\ codeActive' = codeActive \ {s}
  /\ UNCHANGED <<now, row, roster, checkpoint, finalized, txn, pass, faults>>

-----------------------------------------------------------------------------
(* Transactions on one Session's row. *)

\* SELECT ... FOR UPDATE by another transaction waits until this one ends.
Locked(s) == \E c \in Callers : txn[c].op # "none" /\ txn[c].session = s

Open(c, op, s, cause, revision, sawFinalized) ==
  /\ txn[c] = NoTxn
  /\ row[s].status # Absent
  /\ ~Locked(s)
  /\ txn' = [txn EXCEPT ![c] = [op |-> op, session |-> s, seen |-> row[s], at |-> now,
                                cause |-> cause, revision |-> revision,
                                finalized |-> sawFinalized]]

\* An owner's call takes the row lock and reads the clock.
OpenOwnerCall(c) ==
  /\ \E s \in Sessions :
       \/ \E r \in Revisions : \/ Open(c, "start", s, NoCause, r, FALSE)
                               \/ Open(c, "save", s, NoCause, r, FALSE)
       \/ \E cause \in OwnerCauses : Open(c, "end", s, cause, NoCheckpoint, FALSE)
       \/ Open(c, "heartbeat", s, NoCause, NoCheckpoint, FALSE)
  /\ UNCHANGED <<now, tables, finalized, pass, faults>>

\* The transaction ends without writing: the locked row does not allow the
\* change (not_in_lobby, SessionNotEnded, session_not_running), or it failed
\* and everything rolled back.
CloseUnchanged(c) ==
  /\ txn[c].op # "none"
  /\ txn' = [txn EXCEPT ![c] = NoTxn]
  /\ UNCHANGED <<now, tables, finalized, pass, faults>>

\* Mutant: the upsert does not compare revisions.
SavedAlways(s, revision) == [checkpoint EXCEPT ![s] = revision]

\* Saving upserts only over an older revision.
SavedOver(s, revision) ==
  [checkpoint EXCEPT ![s] = IF @ < revision THEN revision ELSE @]

\* Mutant: the start does not grant its owner a lease.
CommitStartWithoutLease(c) ==
  LET t == txn[c] IN
  /\ t.op = "start"
  /\ t.seen.status = Lobby
  /\ t.at < t.seen.lobbyExpires
  /\ roster' = roster \cup {t.session}
  /\ checkpoint' = SavedOver(t.session, t.revision)
  /\ row' = [row EXCEPT ![t.session].status = Running, ![t.session].cause = NoCause]
  /\ codeActive' = codeActive \ {t.session}
  /\ txn' = [txn EXCEPT ![c] = NoTxn]
  /\ UNCHANGED <<now, finalized, pass, faults>>

CommitStart(c) ==
  LET t == txn[c] IN
  /\ t.op = "start"
  /\ t.seen.status = Lobby
  /\ t.at < t.seen.lobbyExpires
  /\ roster' = roster \cup {t.session}
  /\ checkpoint' = SavedOver(t.session, t.revision)
  /\ row' = [row EXCEPT ![t.session].status = Running,
                        ![t.session].cause = NoCause,
                        ![t.session].lease = t.at + OwnerLease]
  /\ codeActive' = codeActive \ {t.session}
  /\ txn' = [txn EXCEPT ![c] = NoTxn]
  /\ UNCHANGED <<now, finalized, pass, faults>>

\* Mutant: the end writes its status without its cause.
CommitEndWithoutCause(c) ==
  LET t == txn[c] IN
  /\ t.op = "end"
  /\ t.seen.status \in EndingFrom(t.cause)
  /\ row' = [row EXCEPT ![t.session].status = EndingStatus(t.cause),
                        ![t.session].cause = NoCause]
  /\ codeActive' = codeActive \ {t.session}
  /\ txn' = [txn EXCEPT ![c] = NoTxn]
  /\ UNCHANGED <<now, roster, checkpoint, finalized, pass, faults>>

CommitEnd(c) ==
  LET t == txn[c] IN
  /\ t.op = "end"
  /\ t.seen.status \in EndingFrom(t.cause)
  /\ row' = [row EXCEPT ![t.session].status = EndingStatus(t.cause),
                        ![t.session].cause = t.cause]
  /\ codeActive' = codeActive \ {t.session}
  /\ txn' = [txn EXCEPT ![c] = NoTxn]
  /\ UNCHANGED <<now, roster, checkpoint, finalized, pass, faults>>

CommitHeartbeat(c) ==
  LET t == txn[c] IN
  /\ t.op = "heartbeat"
  /\ t.seen.status = Running
  /\ row' = [row EXCEPT ![t.session].lease = t.at + OwnerLease]
  /\ txn' = [txn EXCEPT ![c] = NoTxn]
  /\ UNCHANGED <<now, roster, checkpoint, codeActive, finalized, pass, faults>>

CommitCheckpoint(c) ==
  LET t == txn[c] IN
  /\ t.op = "save"
  /\ t.seen.status = Running
  /\ checkpoint' = SavedOver(t.session, t.revision)
  /\ txn' = [txn EXCEPT ![c] = NoTxn]
  /\ UNCHANGED <<now, row, roster, codeActive, finalized, pass, faults>>

\* StoreReplayChunk of the final chunk: it locks no Session row. Only the
\* owner of a started game records one.
FinalizeReplay(s) ==
  /\ s \in roster
  /\ s \notin finalized
  /\ finalized' = finalized \cup {s}
  /\ UNCHANGED <<now, tables, txn, pass, faults>>

-----------------------------------------------------------------------------
(* Reconciliation. *)

PastLease(r, at) == r.lease # NoLease /\ r.lease <= at

\* Mutant: no branch finds Sessions whose owner lease ran out.
DueWithoutLease(at) ==
  {s \in Sessions : \/ row[s].status = Lobby /\ row[s].lobbyExpires <= at
                    \/ row[s].status = Running /\ row[s].expires <= at}

\* FindDue's three branches, as of the time the pass began.
Due(at) ==
  {s \in Sessions : \/ row[s].status = Lobby /\ row[s].lobbyExpires <= at
                    \/ row[s].status = Running /\ (row[s].expires <= at \/ PastLease(row[s], at))}

\* MIN(due_at) over the branches a Session appears in.
DueAt(s, at) ==
  IF row[s].status = Lobby THEN row[s].lobbyExpires
  ELSE IF row[s].expires <= at /\ ~ (PastLease(row[s], at) /\ row[s].lease < row[s].expires)
  THEN row[s].expires ELSE row[s].lease

\* A page FindDue may return: the longest overdue Sessions, up to Batch.
Pages(at) ==
  LET size == IF Cardinality(Due(at)) < Batch THEN Cardinality(Due(at)) ELSE Batch IN
  {p \in SUBSET Due(at) :
     /\ Cardinality(p) = size
     /\ \A s \in p, t \in Due(at) \ p : DueAt(s, at) <= DueAt(t, at)}

ReadPage(r, asOf, failed) ==
  \E p \in Pages(asOf) :
    pass' = [pass EXCEPT ![r] = [state |-> "judging", asOf |-> asOf, page |-> p \ failed,
                                 failed |-> failed, full |-> Cardinality(p) >= Batch,
                                 endedNow |-> FALSE, asking |-> {}, sawFinalized |-> FALSE]]

StartPass(r) ==
  /\ pass[r] = NoPass
  /\ ReadPage(r, now, {})
  /\ UNCHANGED <<now, tables, finalized, txn, faults>>

\* Mutant: any lease counts as over, renewed since FindDue or not.
CauseForAnyLease(seen, isFinalized, at) ==
  CASE seen.status = Lobby /\ seen.lobbyExpires <= at -> "LOBBY_EXPIRED"
    [] seen.status = Running /\ isFinalized -> "GAME_FINISHED"
    [] seen.status = Running /\ seen.expires <= at /\ ~isFinalized -> "MAX_LIFETIME"
    [] seen.status = Running /\ seen.expires > at /\ ~isFinalized -> "OWNER_LOST"
    [] OTHER -> NoCause

\* Mutant: the lifetime is judged before the finalized replay.
CauseForLifetimeFirst(seen, isFinalized, at) ==
  CASE seen.status = Lobby /\ seen.lobbyExpires <= at -> "LOBBY_EXPIRED"
    [] seen.status = Running /\ seen.expires <= at -> "MAX_LIFETIME"
    [] seen.status = Running /\ seen.expires > at /\ PastLease(seen, at) ->
         IF isFinalized THEN "GAME_FINISHED" ELSE "OWNER_LOST"
    [] OTHER -> NoCause

\* CauseFor, on the row as locked; NoCause leaves the Session alone.
CauseFor(seen, isFinalized, at) ==
  LET pastLifetime == seen.expires <= at
      leaseOver    == PastLease(seen, at)
  IN CASE seen.status = Lobby /\ seen.lobbyExpires <= at -> "LOBBY_EXPIRED"
       [] seen.status = Running /\ (pastLifetime \/ leaseOver) /\ isFinalized -> "GAME_FINISHED"
       [] seen.status = Running /\ pastLifetime /\ ~isFinalized -> "MAX_LIFETIME"
       [] seen.status = Running /\ ~pastLifetime /\ leaseOver /\ ~isFinalized -> "OWNER_LOST"
       [] OTHER -> NoCause

\* The pass's SELECT ... FOR UPDATE begins. Whether the replay is finalized
\* comes from the statement's snapshot, taken now: only the row itself is read
\* again once the lock is granted.
AskForRow(r) ==
  /\ pass[r] # NoPass
  /\ pass[r].asking = {}
  /\ \E s \in pass[r].page :
       pass' = [pass EXCEPT ![r].asking = {s}, ![r].sawFinalized = s \in finalized]
  /\ UNCHANGED <<now, tables, finalized, txn, faults>>

\* The row lock is granted.
OpenJudgement(r) ==
  /\ pass[r] # NoPass
  /\ \E s \in pass[r].asking :
       Open(r, "judge", s, NoCause, NoCheckpoint, pass[r].sawFinalized)
  /\ UNCHANGED <<now, tables, finalized, pass, faults>>

\* The pass has a Session's row locked and judged.
Judging(r) == pass[r] # NoPass /\ txn[r].op = "judge"

Verdict(r) == CauseFor(txn[r].seen, txn[r].finalized, txn[r].at)

\* The Session judged leaves the page, however the judgement ended.
Judged(r, ended, failed) ==
  pass' = [pass EXCEPT ![r].page = @ \ pass[r].asking,
                       ![r].endedNow = @ \/ ended,
                       ![r].failed = @ \cup failed,
                       ![r].asking = {},
                       ![r].sawFinalized = FALSE]

CommitJudgement(r) ==
  LET t == txn[r] IN
  /\ Judging(r)
  /\ Verdict(r) # NoCause
  /\ row' = [row EXCEPT ![t.session].status = EndingStatus(Verdict(r)),
                        ![t.session].cause = Verdict(r)]
  /\ codeActive' = codeActive \ {t.session}
  /\ Judged(r, TRUE, {})
  /\ txn' = [txn EXCEPT ![r] = NoTxn]
  /\ UNCHANGED <<now, roster, checkpoint, finalized, faults>>

LeaveAlone(r) ==
  /\ Judging(r)
  /\ Verdict(r) = NoCause
  /\ Judged(r, FALSE, {})
  /\ txn' = [txn EXCEPT ![r] = NoTxn]
  /\ UNCHANGED <<now, tables, finalized, faults>>

Fault ==
  /\ faults < MaxFaults
  /\ faults' = faults + 1

\* The judgement's transaction fails and rolls back; the Session is not tried
\* again in this pass.
JudgementFails(r) ==
  /\ Fault
  /\ Judging(r)
  /\ Judged(r, FALSE, pass[r].asking)
  /\ txn' = [txn EXCEPT ![r] = NoTxn]
  /\ UNCHANGED <<now, tables, finalized>>

\* lock_timeout: the row stayed locked by another transaction too long.
LockTimesOut(r) ==
  /\ Fault
  /\ pass[r] # NoPass
  /\ txn[r] = NoTxn
  /\ \E s \in pass[r].asking : Locked(s)
  /\ Judged(r, FALSE, pass[r].asking)
  /\ UNCHANGED <<now, tables, finalized, txn>>

\* A full page that ended something may have more behind it.
NextPage(r) ==
  /\ pass[r] # NoPass
  /\ pass[r].page = {}
  /\ pass[r].full /\ pass[r].endedNow
  /\ ReadPage(r, pass[r].asOf, pass[r].failed)
  /\ UNCHANGED <<now, tables, finalized, txn, faults>>

FinishPass(r) ==
  /\ pass[r] # NoPass
  /\ pass[r].page = {}
  /\ ~(pass[r].full /\ pass[r].endedNow)
  /\ pass' = [pass EXCEPT ![r] = NoPass]
  /\ UNCHANGED <<now, tables, finalized, txn, faults>>

\* FindDue fails or the instance dies: its transaction rolls back and the pass
\* is over.
PassDies(r) ==
  /\ Fault
  /\ pass[r] # NoPass
  /\ pass' = [pass EXCEPT ![r] = NoPass]
  /\ txn' = [txn EXCEPT ![r] = NoTxn]
  /\ UNCHANGED <<now, tables, finalized>>

-----------------------------------------------------------------------------

OwnerStep(c) ==
  \/ OpenOwnerCall(c)
  \/ CommitStart(c)
  \/ CommitEnd(c)
  \/ CommitHeartbeat(c)
  \/ CommitCheckpoint(c)
  \/ CloseUnchanged(c)

PassStep(r) ==
  \/ StartPass(r)
  \/ AskForRow(r)
  \/ OpenJudgement(r)
  \/ CommitJudgement(r)
  \/ LeaveAlone(r)
  \/ JudgementFails(r)
  \/ LockTimesOut(r)
  \/ NextPage(r)
  \/ FinishPass(r)
  \/ PassDies(r)

Next ==
  \/ Tick
  \/ \E s \in Sessions : CreateSession(s) \/ ReuseCode(s) \/ FinalizeReplay(s)
  \/ \E c \in Owners : OwnerStep(c)
  \/ \E r \in Reconcilers : PassStep(r)

Spec == Init /\ [][Next]_vars

\* Transactions end, passes run every interval and go on, and Postgres grants
\* a row lock to those waiting in order, so a judgement waiting for one
\* obtains it.
Fairness ==
  /\ \A c \in Owners : WF_vars(CloseUnchanged(c))
  /\ \A r \in Reconcilers :
       /\ WF_vars(StartPass(r))
       /\ WF_vars(AskForRow(r))
       /\ SF_vars(OpenJudgement(r))
       /\ WF_vars(CommitJudgement(r) \/ LeaveAlone(r))
       /\ WF_vars(NextPage(r) \/ FinishPass(r))

FairSpec == Spec /\ Fairness

-----------------------------------------------------------------------------
(* Properties. *)

\* What LoadRunningSession alerts on when it is missing: a running Session has
\* its roster and a checkpoint, so an owner that died can always be replaced,
\* and a lease, so reconciliation eventually notices when nobody does. A
\* Session that never started has none of them.
RunningIsRecoverable ==
  \A s \in Sessions :
    /\ row[s].status = Running =>
         s \in roster /\ checkpoint[s] # NoCheckpoint /\ row[s].lease # NoLease
    /\ row[s].status \in {Absent, Lobby} =>
         s \notin roster /\ checkpoint[s] = NoCheckpoint /\ row[s].lease = NoLease

\* Only a Session in its lobby holds a join code, and it holds one as long as
\* players may join: starting and ending release it, whoever does it and
\* whatever else failed, and only an expired lobby's code is given to another.
CodesFollowTheLobby ==
  \A s \in Sessions :
    /\ s \in codeActive => row[s].status = Lobby
    /\ row[s].status = Lobby /\ now < row[s].lobbyExpires => s \in codeActive

\* A Session that ended says why, and where its cause leads; a live one has no
\* cause. Readers alert on anything else and every client is told both.
EndedWithItsCause ==
  \A s \in Sessions :
    IF row[s].cause = NoCause
      THEN row[s].status \in LiveStatus \cup {Absent}
      ELSE row[s].status = EndingStatus(row[s].cause)

\* What a transaction read under the row lock is still true of the row when it
\* commits, and two transactions never hold the same row.
LocksHold ==
  \A c \in Callers :
    txn[c] # NoTxn =>
      /\ txn[c].seen = row[txn[c].session]
      /\ txn[c].seen.status # Absent
      /\ txn[c].op \in {"start", "save"} => txn[c].revision \in Revisions
      /\ txn[c].op = "end" => txn[c].cause \in OwnerCauses
      /\ \A d \in Callers : txn[d] # NoTxn /\ txn[d].session = txn[c].session => d = c

\* The platform never ends a Session whose deadline has not passed: one whose
\* owner renewed its lease after the pass read it as due survives the pass.
ReconcilesOnlyTheOverdue ==
  [][\A r \in Reconcilers : CommitJudgement(r) =>
       LET s == txn[r].session IN
       CASE row'[s].cause = "LOBBY_EXPIRED" -> row[s].status = Lobby /\ row[s].lobbyExpires <= now
         [] row'[s].cause = "MAX_LIFETIME"  -> row[s].status = Running /\ row[s].expires <= now
         [] OTHER -> row[s].status = Running
                       /\ (PastLease(row[s], now) \/ row[s].expires <= now)]_vars

\* A game whose final replay is stored is recorded as finished even when its
\* owner died before ending the Session: reconciliation takes it for lost or
\* expired only if its statement began before the replay was finalized.
FinishedGameIsNotLost ==
  [][\A s \in Sessions :
       s \in finalized /\ row[s].status = Running /\ row'[s].status # Running =>
         \/ row'[s].status = Finished
         \/ \E c \in Owners : CommitEnd(c) /\ txn[c].session = s
         \/ \E r \in Reconcilers : txn[r].op = "judge" /\ txn[r].session = s /\ ~txn[r].finalized]_vars

\* What DATA_MODEL.md says of the replay manifest: it is finalized only for a
\* Session that becomes FINISHED. The code does not keep it: recording the
\* final chunk neither locks nor reads the Session's status.
OnlyFinishedGamesAreFinalized ==
  \A s \in finalized : row[s].status \in {Running, Finished}

\* The lifecycle implements what the durable Session promises its readers.
Promise == INSTANCE SessionPromise
             WITH status <- [s \in Sessions |-> row[s].status],
                  cause  <- [s \in Sessions |-> row[s].cause],
                  saved  <- checkpoint

\* Every step of every owner and pass is a step the promise allows.
PromiseKept == Promise!Spec

\* Nothing overdue stays live: an expired lobby and a Session past its
\* lifetime end, and one whose lease ran out ends unless its owner comes back,
\* however passes fail, batches fill up and rows stay locked.
OverdueEventuallyEnds ==
  \A s \in Sessions :
    /\ (row[s].status = Lobby /\ row[s].lobbyExpires <= now) ~> (row[s].status # Lobby)
    /\ (row[s].status = Running /\ row[s].expires <= now) ~> (row[s].status # Running)
    /\ (row[s].status = Running /\ PastLease(row[s], now))
          ~> (row[s].status # Running \/ ~PastLease(row[s], now))

\* Whatever committed or failed last, the durable Session is one its readers,
\* its next owner and its players can act on: recoverable while it runs, held
\* by its code while joinable, and ended for a cause.
DurableStateIsSound == RunningIsRecoverable /\ CodesFollowTheLobby /\ EndedWithItsCause
=============================================================================
