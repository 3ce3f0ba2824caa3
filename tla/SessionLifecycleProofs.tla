----------------------- MODULE SessionLifecycleProofs -----------------------
(***************************************************************************)
(* SessionLifecycle for any number of Sessions, owners, reconciling        *)
(* instances and any bounds: type correctness, the safety invariants, and  *)
(* that it implements SessionPromise.                                      *)
(***************************************************************************)
EXTENDS SessionLifecycle, TLAPS

\* Locking a Session's row opens a well-formed transaction.
LEMMA OpenType ==
  ASSUME NEW c \in Callers, NEW s \in Sessions, TypeOK,
         NEW op \in {"start", "end", "heartbeat", "save", "judge"},
         NEW cause \in EndCause \cup {NoCause},
         NEW revision \in Revisions \cup {NoCheckpoint},
         NEW sawFinalized \in BOOLEAN,
         Open(c, op, s, cause, revision, sawFinalized)
  PROVE  txn' \in [Callers -> Txn \cup {NoTxn}]
<1>1. row[s] \in Row /\ now \in Nat
  BY DEF TypeOK
<1>2. [op |-> op, session |-> s, seen |-> row[s], at |-> now, cause |-> cause,
       revision |-> revision, finalized |-> sawFinalized] \in Txn
  BY <1>1 DEF Txn
<1>3. QED
  BY <1>2 DEF Open, TypeOK

\* An open transaction is a record of Txn, so its fields can be read.
LEMMA OpenIsTxn ==
  ASSUME TypeOK, NEW c \in Callers, txn[c].op # "none"
  PROVE  txn[c] \in Txn
  BY DEF TypeOK, NoTxn

\* Every end cause leads to a terminal status.
LEMMA EndingsAreTerminal ==
  ASSUME NEW cause \in EndCause
  PROVE  EndingStatus(cause) \in TerminalStatus
  BY DEF EndCause, EndingStatus, TerminalStatus, Finished, Cancelled, Expired, Aborted

\* A verdict of CauseFor applies to the status of the row it judged.
LEMMA VerdictApplies ==
  ASSUME NEW seen, NEW isFinalized \in BOOLEAN, NEW at,
         CauseFor(seen, isFinalized, at) # NoCause
  PROVE  /\ CauseFor(seen, isFinalized, at) \in EndCause
         /\ seen.status \in EndingFrom(CauseFor(seen, isFinalized, at))
  BY DEF CauseFor, EndCause, EndingFrom, NoCause, Lobby, Running

-----------------------------------------------------------------------------
(* Type correctness. *)

\* Every step of an owner, a pass or the clock keeps each variable's type.
LEMMA TypeStep ==
  ASSUME TypeOK, [Next]_vars
  PROVE  TypeOK'
<1> USE SessionLifecycleAssumption
<1>1. CASE Tick
  BY <1>1 DEF TypeOK, Tick, tables
<1>2. ASSUME NEW s \in Sessions, CreateSession(s)
      PROVE  TypeOK'
  <2>1. [status |-> Lobby, cause |-> NoCause, lobbyExpires |-> now + LobbyTTL,
         expires |-> now + MaxLifetime, lease |-> NoLease] \in Row
    BY DEF TypeOK, Row, Status, LiveStatus, NoLease
  <2>2. QED
    BY <1>2, <2>1 DEF TypeOK, CreateSession
<1>3. ASSUME NEW s \in Sessions, FinalizeReplay(s) \/ ReuseCode(s)
      PROVE  TypeOK'
  BY <1>3 DEF TypeOK, FinalizeReplay, ReuseCode, tables
<1>4. ASSUME NEW c \in Owners, OpenOwnerCall(c)
      PROVE  TypeOK'
  <2> c \in Callers
    BY DEF Callers
  <2>1. txn' \in [Callers -> Txn \cup {NoTxn}]
    <3>1. PICK s \in Sessions :
            \/ \E r \in Revisions : \/ Open(c, "start", s, NoCause, r, FALSE)
                                    \/ Open(c, "save", s, NoCause, r, FALSE)
            \/ \E cause \in OwnerCauses : Open(c, "end", s, cause, NoCheckpoint, FALSE)
            \/ Open(c, "heartbeat", s, NoCause, NoCheckpoint, FALSE)
      BY <1>4 DEF OpenOwnerCall
    <3>2. QED
      BY <3>1, OpenType
  <2>2. QED
    BY <1>4, <2>1 DEF TypeOK, OpenOwnerCall, tables
<1>5. ASSUME NEW c \in Owners, CommitStart(c) \/ CommitEnd(c) \/ CommitHeartbeat(c)
                                  \/ CommitCheckpoint(c) \/ CloseUnchanged(c)
      PROVE  TypeOK'
  <2> DEFINE t == txn[c]
  <2> c \in Callers
    BY DEF Callers
  <2>1. t \in Txn
    BY <1>5, OpenIsTxn DEF CommitStart, CommitEnd, CommitHeartbeat, CommitCheckpoint, CloseUnchanged
  <2>2. /\ t.session \in Sessions /\ t.at + OwnerLease \in Nat
        /\ t.cause \in EndCause \cup {NoCause} /\ t.revision \in Revisions \cup {NoCheckpoint}
    BY <2>1 DEF Txn
  <2>3. SavedOver(t.session, t.revision) \in [Sessions -> Revisions \cup {NoCheckpoint}]
    BY <2>2 DEF SavedOver, TypeOK
  <2>4. CASE CommitStart(c)
    BY <2>2, <2>3, <2>4 DEF CommitStart, TypeOK, Row, Status, LiveStatus
  <2>5. CASE CommitEnd(c)
    <3>1. t.cause = NoCause => EndingStatus(t.cause) = Aborted
      BY DEF EndingStatus, NoCause
    <3>2. EndingStatus(t.cause) \in Status
      BY <2>2, <3>1, EndingsAreTerminal DEF Status, TerminalStatus
    <3>3. QED
      BY <2>2, <2>5, <3>2 DEF CommitEnd, TypeOK, Row
  <2>6. CASE CommitHeartbeat(c)
    BY <2>2, <2>6 DEF CommitHeartbeat, TypeOK, Row
  <2>7. CASE CommitCheckpoint(c)
    BY <2>3, <2>7 DEF CommitCheckpoint, TypeOK
  <2>8. CASE CloseUnchanged(c)
    BY <2>8 DEF CloseUnchanged, TypeOK, tables
  <2>9. QED
    BY <1>5, <2>4, <2>5, <2>6, <2>7, <2>8
<1>6. ASSUME NEW r \in Reconcilers, PassStep(r)
      PROVE  TypeOK'
  <2> r \in Callers
    BY DEF Callers
  <2>1. ASSUME NEW asOf \in Nat, NEW failed \in SUBSET Sessions, ReadPage(r, asOf, failed)
        PROVE  pass' \in [Reconcilers -> Pass \cup {NoPass}]
    <3>1. PICK p \in Pages(asOf) :
            pass' = [pass EXCEPT ![r] = [state |-> "judging", asOf |-> asOf, page |-> p \ failed,
                                         failed |-> failed, full |-> Cardinality(p) >= Batch,
                                         endedNow |-> FALSE, asking |-> {},
                                         sawFinalized |-> FALSE]]
      BY <2>1 DEF ReadPage
    <3>2. p \subseteq Sessions /\ (Cardinality(p) >= Batch) \in BOOLEAN
      BY DEF Pages, Due
    <3>3. QED
      BY <3>1, <3>2 DEF TypeOK, Pass
  <2>2. pass[r] # NoPass => pass[r] \in Pass
    BY DEF TypeOK
  <2>3. CASE StartPass(r)
    BY <2>1, <2>3 DEF StartPass, TypeOK, tables
  <2>4. CASE NextPage(r)
    BY <2>1, <2>2, <2>4 DEF NextPage, TypeOK, tables, Pass
  <2>5. CASE OpenJudgement(r)
    <3>1. PICK s \in Sessions :
            Open(r, "judge", s, NoCause, NoCheckpoint, pass[r].sawFinalized)
      BY <2>2, <2>5 DEF OpenJudgement, Pass
    <3>2. txn' \in [Callers -> Txn \cup {NoTxn}]
      <4>1. pass[r].sawFinalized \in BOOLEAN
        BY <2>2, <2>5 DEF OpenJudgement, Pass
      <4>2. QED
        BY <3>1, <4>1, OpenType
    <3>3. QED
      BY <2>5, <3>2 DEF OpenJudgement, TypeOK, tables
  <2>6. ASSUME NEW ended \in BOOLEAN, NEW failed \in SUBSET Sessions,
               pass[r] # NoPass, Judged(r, ended, failed)
        PROVE  pass' \in [Reconcilers -> Pass \cup {NoPass}]
    <3>1. [pass[r] EXCEPT !.page = @ \ pass[r].asking, !.endedNow = @ \/ ended,
                          !.failed = @ \cup failed, !.asking = {},
                          !.sawFinalized = FALSE] \in Pass
      BY <2>2, <2>6 DEF Pass
    <3>2. QED
      BY <2>6, <3>1 DEF Judged, TypeOK
  <2>7. Judging(r) => txn[r] \in Txn /\ txn[r].session \in Sessions /\ txn[r].finalized \in BOOLEAN
    BY OpenIsTxn DEF Judging, Txn
  <2>8. CASE CommitJudgement(r)
    <3>1. Verdict(r) \in EndCause
      BY <2>7, <2>8, VerdictApplies DEF CommitJudgement, Verdict
    <3>2. EndingStatus(Verdict(r)) \in Status
      BY <3>1, EndingsAreTerminal DEF Status
    <3>3. row' \in [Sessions -> Row]
      BY <2>7, <2>8, <3>1, <3>2 DEF CommitJudgement, TypeOK, Row
    <3>4. pass' \in [Reconcilers -> Pass \cup {NoPass}]
      BY <2>6, <2>8 DEF CommitJudgement, Judging
    <3>5. QED
      BY <2>8, <3>3, <3>4 DEF CommitJudgement, TypeOK
  <2>9. CASE LeaveAlone(r)
    BY <2>6, <2>9 DEF LeaveAlone, Judging, TypeOK, tables
  <2>10. CASE JudgementFails(r)
    <3>1. pass[r].asking \in SUBSET Sessions
      BY <2>2, <2>10 DEF JudgementFails, Judging, Pass
    <3>2. pass' \in [Reconcilers -> Pass \cup {NoPass}]
      BY <2>6, <2>10, <3>1 DEF JudgementFails, Judging
    <3>3. QED
      BY <2>10, <3>2 DEF JudgementFails, Fault, TypeOK, tables
  <2>11. CASE LockTimesOut(r)
    <3>1. pass[r].asking \in SUBSET Sessions
      BY <2>2, <2>11 DEF LockTimesOut, Pass
    <3>2. pass' \in [Reconcilers -> Pass \cup {NoPass}]
      BY <2>6, <2>11, <3>1 DEF LockTimesOut
    <3>3. faults' = faults + 1 /\ UNCHANGED <<now, tables, finalized, txn>>
      BY <2>11 DEF LockTimesOut, Fault
    <3>4. QED
      BY <3>2, <3>3 DEF TypeOK, tables
  <2>12. CASE FinishPass(r)
    BY <2>12 DEF FinishPass, TypeOK, tables
  <2>13. CASE PassDies(r)
    BY <2>13 DEF PassDies, Fault, TypeOK, tables
  <2>14. CASE AskForRow(r)
    <3>1. PICK s \in pass[r].page :
            pass' = [pass EXCEPT ![r].asking = {s}, ![r].sawFinalized = s \in finalized]
      BY <2>14 DEF AskForRow
    <3>2. [pass[r] EXCEPT !.asking = {s}, !.sawFinalized = s \in finalized] \in Pass
      BY <2>2, <2>14, (s \in finalized) \in BOOLEAN DEF AskForRow, Pass
    <3>3. pass' \in [Reconcilers -> Pass \cup {NoPass}]
      BY <3>1, <3>2 DEF TypeOK
    <3>4. QED
      BY <2>14, <3>3 DEF AskForRow, TypeOK, tables
  <2>15. QED
    BY <1>6, <2>3, <2>4, <2>5, <2>8, <2>9, <2>10, <2>11, <2>12, <2>13, <2>14 DEF PassStep
<1>7. CASE UNCHANGED vars
  BY <1>7 DEF TypeOK, vars
<1>8. QED
  BY <1>1, <1>2, <1>3, <1>4, <1>5, <1>6, <1>7 DEF Next, OwnerStep

\* Each variable keeps its type, whatever transactions and passes do.
THEOREM TypeCorrect == Spec => []TypeOK
<1>1. Init => TypeOK
  BY SessionLifecycleAssumption
     DEF Init, TypeOK, Row, NoRow, NoLease, Callers
<1>2. TypeOK /\ [Next]_vars => TypeOK'
  BY TypeStep
<1>3. QED
  BY <1>1, <1>2, PTL DEF Spec

-----------------------------------------------------------------------------
(* The inductive invariant: the properties readers rely on, and the row      *)
(* locks they rest on.                                                       *)

IInv ==
  /\ TypeOK
  /\ LocksHold
  /\ RunningIsRecoverable
  /\ CodesFollowTheLobby
  /\ EndedWithItsCause

\* What an open transaction knows.
LEMMA OpenKnows ==
  ASSUME IInv, NEW c \in Callers, txn[c].op # "none"
  PROVE  /\ txn[c] \in Txn
         /\ txn[c].session \in Sessions
         /\ txn[c].seen = row[txn[c].session]
         /\ row[txn[c].session].status # Absent
         /\ txn[c].at \in Nat
         /\ txn[c].op \in {"start", "save"} => txn[c].revision \in Revisions
         /\ txn[c].op = "end" => txn[c].cause \in EndCause
BY OpenIsTxn, SessionLifecycleAssumption DEF IInv, LocksHold, Txn, NoTxn

\* No transaction other than the one that writes a row has seen it.
LEMMA OthersSawOtherRows ==
  ASSUME IInv, NEW c \in Callers, txn[c] # NoTxn,
         NEW d \in Callers, d # c, txn[d] # NoTxn
  PROVE  txn[d].session # txn[c].session
BY DEF IInv, LocksHold

\* Taking a row lock keeps every transaction's view current.
LEMMA OpenKeepsLocks ==
  ASSUME IInv, NEW c \in Callers, NEW s \in Sessions,
         NEW op \in {"start", "end", "heartbeat", "save", "judge"},
         NEW cause \in EndCause \cup {NoCause},
         NEW revision \in Revisions \cup {NoCheckpoint},
         op \in {"start", "save"} => revision \in Revisions,
         op = "end" => cause \in OwnerCauses,
         NEW sawFinalized \in BOOLEAN,
         Open(c, op, s, cause, revision, sawFinalized), UNCHANGED row
  PROVE  LocksHold'
<1> DEFINE rec == [op |-> op, session |-> s, seen |-> row[s], at |-> now, cause |-> cause,
                   revision |-> revision, finalized |-> sawFinalized]
<1>1. /\ txn' = [txn EXCEPT ![c] = rec] /\ txn \in [Callers -> Txn \cup {NoTxn}]
      /\ row[s].status # Absent
      /\ \A d \in Callers : txn[d].op # "none" => txn[d].session # s
  BY DEF Open, IInv, TypeOK, Locked
<1>2. \A d \in Callers : txn[d] # NoTxn => txn[d].op # "none"
  BY <1>1 DEF Txn, NoTxn
<1>3. /\ txn'[c] = rec
      /\ \A d \in Callers : d # c => txn'[d] = txn[d]
  BY <1>1
<1> HIDE DEF rec
<1>4. /\ rec.session = s /\ rec.seen = row[s] /\ rec.op = op
      /\ rec.revision = revision /\ rec.cause = cause
  BY DEF rec
<1> SUFFICES ASSUME NEW d \in Callers, txn'[d] # NoTxn
             PROVE  /\ txn'[d].seen = row'[txn'[d].session]
                    /\ txn'[d].seen.status # Absent
                    /\ txn'[d].op \in {"start", "save"} => txn'[d].revision \in Revisions
                    /\ txn'[d].op = "end" => txn'[d].cause \in OwnerCauses
                    /\ \A e \in Callers :
                         txn'[e] # NoTxn /\ txn'[e].session = txn'[d].session => e = d
  BY DEF LocksHold
<1>5. CASE d = c
  BY <1>1, <1>2, <1>3, <1>4, <1>5
<1>6. CASE d # c
  <2>1. txn'[d] = txn[d] /\ txn[d] # NoTxn /\ txn[d].session # s
    BY <1>1, <1>2, <1>3, <1>6
  <2>2. QED
    BY <1>3, <1>4, <2>1 DEF IInv, LocksHold
<1>7. QED
  BY <1>5, <1>6

\* Ending a transaction that wrote at most the row it had locked keeps the
\* others' views current.
LEMMA CloseKeepsLocks ==
  ASSUME IInv, NEW c \in Callers, txn[c].op # "none",
         txn' = [txn EXCEPT ![c] = NoTxn],
         \A s \in Sessions : s # txn[c].session => row'[s] = row[s]
  PROVE  LocksHold'
<1>1. txn \in [Callers -> Txn \cup {NoTxn}] /\ txn[c] # NoTxn
  BY DEF IInv, TypeOK, NoTxn
<1> SUFFICES ASSUME NEW d \in Callers, txn'[d] # NoTxn
             PROVE  /\ txn'[d].seen = row'[txn'[d].session]
                    /\ txn'[d].seen.status # Absent
                    /\ txn'[d].op \in {"start", "save"} => txn'[d].revision \in Revisions
                    /\ txn'[d].op = "end" => txn'[d].cause \in OwnerCauses
                    /\ \A e \in Callers :
                         txn'[e] # NoTxn /\ txn'[e].session = txn'[d].session => e = d
  BY DEF LocksHold
<1>2. d # c /\ txn'[d] = txn[d] /\ txn[d] # NoTxn
  BY <1>1
<1>3. txn[d].session \in Sessions /\ txn[d].session # txn[c].session
  BY <1>1, <1>2, OthersSawOtherRows DEF Txn
<1>4. \A e \in Callers : txn'[e] # NoTxn => txn'[e] = txn[e]
  BY <1>1
<1>5. QED
  BY <1>2, <1>3, <1>4 DEF IInv, LocksHold

\* Every step keeps the locked rows as their transactions saw them.
LEMMA LocksStep ==
  ASSUME IInv, [Next]_vars
  PROVE  LocksHold'
<1> USE SessionLifecycleAssumption
<1>0. TypeOK
  BY DEF IInv
<1>1. ASSUME UNCHANGED <<row, txn>>
      PROVE  LocksHold'
  BY <1>1 DEF IInv, LocksHold
<1>2. ASSUME NEW c \in Callers, txn' = [txn EXCEPT ![c] = NoTxn], UNCHANGED row
      PROVE  LocksHold'
  <2>1. CASE txn[c].op # "none"
    BY <1>2, <2>1, CloseKeepsLocks
  <2>2. CASE txn[c].op = "none"
    <3>1. txn[c] = NoTxn
      BY <1>0, <2>2 DEF TypeOK, Txn
    <3>2. txn' = txn
      BY <1>0, <1>2, <3>1 DEF TypeOK
    <3>3. QED
      BY <1>1, <1>2, <3>2
  <2>3. QED
    BY <2>1, <2>2
<1>3. ASSUME NEW s \in Sessions, CreateSession(s)
      PROVE  LocksHold'
  <2>1. \A c \in Callers : txn[c] # NoTxn => txn[c].session \in Sessions /\ txn[c].session # s
    BY <1>0, <1>3 DEF CreateSession, IInv, LocksHold, TypeOK, Txn
  <2>2. \A t \in Sessions : t # s => row'[t] = row[t]
    BY <1>0, <1>3 DEF CreateSession, TypeOK
  <2>3. txn' = txn
    BY <1>3 DEF CreateSession
  <2>4. QED
    BY <2>1, <2>2, <2>3 DEF IInv, LocksHold
<1>4. ASSUME NEW c \in Owners, OpenOwnerCall(c)
      PROVE  LocksHold'
  <2> c \in Callers
    BY DEF Callers
  <2>1. PICK s \in Sessions :
          \/ \E r \in Revisions : \/ Open(c, "start", s, NoCause, r, FALSE)
                                  \/ Open(c, "save", s, NoCause, r, FALSE)
          \/ \E cause \in OwnerCauses : Open(c, "end", s, cause, NoCheckpoint, FALSE)
          \/ Open(c, "heartbeat", s, NoCause, NoCheckpoint, FALSE)
    BY <1>4 DEF OpenOwnerCall
  <2>2. UNCHANGED row
    BY <1>4 DEF OpenOwnerCall, tables
  <2>3. QED
    BY <2>1, <2>2, OpenKeepsLocks
<1>5. ASSUME NEW c \in Owners, CommitStart(c) \/ CommitEnd(c) \/ CommitHeartbeat(c)
      PROVE  LocksHold'
  <2> c \in Callers
    BY DEF Callers
  <2>1. txn[c].op # "none" /\ txn' = [txn EXCEPT ![c] = NoTxn]
    BY <1>5 DEF CommitStart, CommitEnd, CommitHeartbeat
  <2>2. \A s \in Sessions : s # txn[c].session => row'[s] = row[s]
    BY <1>0, <1>5 DEF TypeOK, CommitStart, CommitEnd, CommitHeartbeat
  <2>3. QED
    BY <2>1, <2>2, CloseKeepsLocks
<1>6. ASSUME NEW c \in Owners, CommitCheckpoint(c) \/ CloseUnchanged(c)
      PROVE  LocksHold'
  <2>1. c \in Callers /\ txn' = [txn EXCEPT ![c] = NoTxn] /\ UNCHANGED row
    BY <1>6 DEF Callers, CommitCheckpoint, CloseUnchanged, tables
  <2>2. QED
    BY <1>2, <2>1
<1>7. ASSUME NEW r \in Reconcilers, PassStep(r)
      PROVE  LocksHold'
  <2> r \in Callers
    BY DEF Callers
  <2>1. CASE StartPass(r) \/ AskForRow(r) \/ LockTimesOut(r) \/ NextPage(r) \/ FinishPass(r)
    BY <1>1, <2>1 DEF StartPass, AskForRow, LockTimesOut, NextPage, FinishPass, tables
  <2>2. CASE OpenJudgement(r)
    <3>1. pass[r] \in Pass
      BY <1>0, <2>2 DEF OpenJudgement, TypeOK
    <3>2. PICK s \in Sessions :
            Open(r, "judge", s, NoCause, NoCheckpoint, pass[r].sawFinalized)
      BY <2>2, <3>1 DEF OpenJudgement, Pass
    <3>3. UNCHANGED row /\ pass[r].sawFinalized \in BOOLEAN
      BY <2>2, <3>1 DEF OpenJudgement, tables, Pass
    <3>4. QED
      BY <3>2, <3>3, OpenKeepsLocks
  <2>3. CASE CommitJudgement(r)
    <3>1. txn[r].op # "none" /\ txn' = [txn EXCEPT ![r] = NoTxn]
      BY <2>3 DEF CommitJudgement, Judging
    <3>2. \A s \in Sessions : s # txn[r].session => row'[s] = row[s]
      BY <1>0, <2>3 DEF TypeOK, CommitJudgement
    <3>3. QED
      BY <3>1, <3>2, CloseKeepsLocks
  <2>4. CASE LeaveAlone(r) \/ JudgementFails(r) \/ PassDies(r)
    <3>1. txn' = [txn EXCEPT ![r] = NoTxn] /\ UNCHANGED row
      BY <2>4 DEF LeaveAlone, JudgementFails, PassDies, tables
    <3>2. QED
      BY <1>2, <3>1
  <2>5. QED
    BY <1>7, <2>1, <2>2, <2>3, <2>4 DEF PassStep
<1>8. CASE Tick \/ UNCHANGED vars \/ \E s \in Sessions : FinalizeReplay(s) \/ ReuseCode(s)
  BY <1>1, <1>8 DEF Tick, vars, FinalizeReplay, ReuseCode, tables
<1>9. QED
  BY <1>3, <1>4, <1>5, <1>6, <1>7, <1>8 DEF Next, OwnerStep

\* Every step keeps the rows what readers take them for: recoverable while
\* running, joinable only in the lobby, ended for the cause recorded.
LEMMA RowsStep ==
  ASSUME IInv, [Next]_vars
  PROVE  RunningIsRecoverable' /\ CodesFollowTheLobby' /\ EndedWithItsCause'
<1> USE SessionLifecycleAssumption
<1> DEFINE RowsOK == RunningIsRecoverable /\ CodesFollowTheLobby /\ EndedWithItsCause
<1>0. TypeOK /\ RowsOK
  BY DEF IInv
<1>1. CASE UNCHANGED <<now, tables>>
  BY <1>0, <1>1 DEF tables, RunningIsRecoverable, CodesFollowTheLobby, EndedWithItsCause
<1>2. ASSUME NEW s \in Sessions, CreateSession(s)
      PROVE  RowsOK'
  <2>1. /\ row' = [row EXCEPT ![s] = [status |-> Lobby, cause |-> NoCause,
                                      lobbyExpires |-> now + LobbyTTL,
                                      expires |-> now + MaxLifetime, lease |-> NoLease]]
        /\ row[s].status = Absent /\ codeActive' = codeActive \cup {s}
        /\ UNCHANGED <<now, roster, checkpoint>>
    BY <1>2 DEF CreateSession
  <2>2. /\ row'[s].status = Lobby /\ row'[s].cause = NoCause /\ row'[s].lease = NoLease
        /\ \A t \in Sessions : t # s => row'[t] = row[t]
    BY <1>0, <2>1 DEF TypeOK
  <2>3. RunningIsRecoverable'
    BY <1>0, <2>1, <2>2 DEF RunningIsRecoverable, Lobby, Running, Absent
  <2>4. CodesFollowTheLobby'
    BY <1>0, <2>1, <2>2 DEF CodesFollowTheLobby
  <2>5. EndedWithItsCause'
    BY <1>0, <2>1, <2>2 DEF EndedWithItsCause, LiveStatus
  <2>6. QED
    BY <2>3, <2>4, <2>5
<1>3. ASSUME NEW c \in Owners, CommitStart(c)
      PROVE  RowsOK'
  <2> DEFINE s == txn[c].session
  <2>1. /\ s \in Sessions /\ row[s].status = Lobby
        /\ txn[c].revision \in Revisions /\ txn[c].at \in Nat
    BY <1>3, OpenKnows DEF Callers, CommitStart
  <2>2. /\ row'[s].status = Running /\ row'[s].cause = NoCause
        /\ row'[s].lease = txn[c].at + OwnerLease
        /\ \A t \in Sessions : t # s => row'[t] = row[t]
    BY <1>0, <1>3, <2>1 DEF TypeOK, CommitStart, Row
  <2>3. roster' = roster \cup {s} /\ codeActive' = codeActive \ {s} /\ UNCHANGED now
    BY <1>3 DEF CommitStart
  <2>4. /\ checkpoint'[s] = txn[c].revision
        /\ \A t \in Sessions : t # s => checkpoint'[t] = checkpoint[t]
    <3>1. checkpoint[s] = NoCheckpoint
      BY <1>0, <2>1 DEF RunningIsRecoverable
    <3>2. checkpoint' = SavedOver(s, txn[c].revision) /\ -1 < txn[c].revision
      BY <1>3, <2>1 DEF CommitStart
    <3>3. QED
      BY <1>0, <2>1, <3>1, <3>2 DEF SavedOver, TypeOK, NoCheckpoint
  <2>5. RunningIsRecoverable'
    <3>1. row'[s].lease # NoLease /\ checkpoint'[s] # NoCheckpoint
      BY <2>1, <2>2, <2>4 DEF NoLease, NoCheckpoint
    <3>2. QED
      BY <1>0, <2>2, <2>3, <2>4, <3>1 DEF RunningIsRecoverable, Lobby, Running, Absent
  <2>6. CodesFollowTheLobby'
    BY <1>0, <2>2, <2>3 DEF CodesFollowTheLobby, Lobby, Running
  <2>7. EndedWithItsCause'
    BY <1>0, <2>2 DEF EndedWithItsCause, LiveStatus
  <2>8. QED
    BY <2>5, <2>6, <2>7
<1>4. ASSUME NEW s \in Sessions, NEW cause \in EndCause,
             row[s].status \in EndingFrom(cause),
             row' = [row EXCEPT ![s].status = EndingStatus(cause), ![s].cause = cause],
             codeActive' = codeActive \ {s}, UNCHANGED <<now, roster, checkpoint>>
      PROVE  RowsOK'
  <2>1. EndingStatus(cause) \in TerminalStatus /\ cause # NoCause
    BY EndingsAreTerminal DEF EndCause, NoCause
  <2>2. /\ row'[s].status = EndingStatus(cause) /\ row'[s].cause = cause
        /\ \A t \in Sessions : t # s => row'[t] = row[t]
    BY <1>0, <1>4 DEF TypeOK, Row
  <2>3. RunningIsRecoverable'
    BY <1>0, <1>4, <2>1, <2>2 DEF RunningIsRecoverable, TerminalStatus,
       Lobby, Running, Absent, Finished, Cancelled, Expired, Aborted
  <2>4. CodesFollowTheLobby'
    BY <1>0, <1>4, <2>1, <2>2 DEF CodesFollowTheLobby, TerminalStatus,
       Lobby, Finished, Cancelled, Expired, Aborted
  <2>5. EndedWithItsCause'
    BY <1>0, <2>1, <2>2 DEF EndedWithItsCause
  <2>6. QED
    BY <2>3, <2>4, <2>5
<1>5. ASSUME NEW c \in Owners, CommitEnd(c)
      PROVE  RowsOK'
  <2>1. txn[c].session \in Sessions /\ txn[c].cause \in EndCause
        /\ row[txn[c].session].status \in EndingFrom(txn[c].cause)
    BY <1>5, OpenKnows DEF Callers, CommitEnd
  <2>2. QED
    BY <1>4, <1>5, <2>1 DEF CommitEnd
<1>6. ASSUME NEW c \in Owners, CommitHeartbeat(c)
      PROVE  RowsOK'
  <2> DEFINE s == txn[c].session
  <2>1. s \in Sessions /\ row[s].status = Running /\ txn[c].at \in Nat
    BY <1>6, OpenKnows DEF Callers, CommitHeartbeat
  <2>2. /\ row'[s].status = row[s].status /\ row'[s].cause = row[s].cause
        /\ row'[s].lease = txn[c].at + OwnerLease
        /\ \A t \in Sessions : t # s => row'[t] = row[t]
        /\ UNCHANGED <<now, roster, checkpoint, codeActive>>
    BY <1>0, <1>6, <2>1 DEF TypeOK, CommitHeartbeat, Row
  <2>3. row'[s].lease # NoLease
    BY <2>1, <2>2 DEF NoLease
  <2>4. RunningIsRecoverable'
    BY <1>0, <2>1, <2>2, <2>3 DEF RunningIsRecoverable, Lobby, Running, Absent
  <2>5. CodesFollowTheLobby' /\ EndedWithItsCause'
    BY <1>0, <2>1, <2>2 DEF CodesFollowTheLobby, EndedWithItsCause, Lobby, Running
  <2>6. QED
    BY <2>4, <2>5
<1>7. ASSUME NEW c \in Owners, CommitCheckpoint(c)
      PROVE  RowsOK'
  <2> DEFINE s == txn[c].session
  <2>1. s \in Sessions /\ row[s].status = Running /\ txn[c].revision \in Revisions
    BY <1>7, OpenKnows DEF Callers, CommitCheckpoint
  <2>2. checkpoint' = SavedOver(s, txn[c].revision) /\ UNCHANGED <<now, row, roster, codeActive>>
    BY <1>7 DEF CommitCheckpoint
  <2>3. checkpoint[s] # NoCheckpoint
    BY <1>0, <2>1 DEF RunningIsRecoverable
  <2>4. /\ checkpoint'[s] # NoCheckpoint
        /\ \A t \in Sessions : t # s => checkpoint'[t] = checkpoint[t]
    <3>1. txn[c].revision \in Nat
      BY <2>1
    <3>2. QED
      BY <1>0, <2>1, <2>2, <2>3, <3>1 DEF SavedOver, TypeOK, NoCheckpoint
  <2>5. RunningIsRecoverable'
    BY <1>0, <2>1, <2>2, <2>4 DEF RunningIsRecoverable, Lobby, Running, Absent
  <2>6. CodesFollowTheLobby' /\ EndedWithItsCause'
    BY <1>0, <2>2 DEF CodesFollowTheLobby, EndedWithItsCause
  <2>7. QED
    BY <2>5, <2>6
<1>8. ASSUME NEW r \in Reconcilers, CommitJudgement(r)
      PROVE  RowsOK'
  <2>1. /\ txn[r] \in Txn /\ txn[r].session \in Sessions
        /\ txn[r].seen = row[txn[r].session]
    BY <1>8, OpenKnows DEF Callers, CommitJudgement, Judging
  <2>2. Verdict(r) \in EndCause /\ row[txn[r].session].status \in EndingFrom(Verdict(r))
    <3>1. txn[r].finalized \in BOOLEAN
      BY <2>1 DEF Txn
    <3>2. QED
      BY <1>8, <2>1, <3>1, VerdictApplies DEF CommitJudgement, Verdict
  <2>3. QED
    BY <1>4, <1>8, <2>1, <2>2 DEF CommitJudgement
<1>9. ASSUME NEW c \in Owners, OwnerStep(c)
      PROVE  RowsOK'
  <2>1. CASE OpenOwnerCall(c) \/ CloseUnchanged(c)
    BY <1>1, <2>1 DEF OpenOwnerCall, CloseUnchanged
  <2>2. QED
    BY <1>3, <1>5, <1>6, <1>7, <1>9, <2>1 DEF OwnerStep
<1>10. ASSUME NEW r \in Reconcilers, PassStep(r)
       PROVE  RowsOK'
  <2>1. CASE ~CommitJudgement(r)
    BY <1>1, <1>10, <2>1 DEF PassStep, StartPass, AskForRow, OpenJudgement, LeaveAlone,
       JudgementFails, LockTimesOut, NextPage, FinishPass, PassDies
  <2>2. QED
    BY <1>8, <2>1
<1>11. CASE UNCHANGED vars \/ \E s \in Sessions : FinalizeReplay(s)
  BY <1>1, <1>11 DEF vars, FinalizeReplay, tables
<1>12. CASE Tick
  <2>1. now' = now + 1 /\ UNCHANGED tables
    BY <1>12 DEF Tick
  <2>2. \A s \in Sessions : row[s].lobbyExpires \in Nat /\ now \in Nat
    BY <1>0 DEF TypeOK, Row
  <2>3. CodesFollowTheLobby'
    BY <1>0, <2>1, <2>2 DEF CodesFollowTheLobby, tables
  <2>4. QED
    BY <1>0, <2>1, <2>3 DEF tables, RunningIsRecoverable, EndedWithItsCause
<1>13. ASSUME NEW s \in Sessions, ReuseCode(s)
       PROVE  RowsOK'
  <2>1. /\ row[s].lobbyExpires <= now /\ codeActive' = codeActive \ {s}
        /\ UNCHANGED <<now, row, roster, checkpoint>>
    BY <1>13 DEF ReuseCode
  <2>2. row[s].lobbyExpires \in Nat /\ now \in Nat
    BY <1>0 DEF TypeOK, Row
  <2>3. CodesFollowTheLobby'
    BY <1>0, <2>1, <2>2 DEF CodesFollowTheLobby
  <2>4. QED
    BY <1>0, <2>1, <2>3 DEF RunningIsRecoverable, EndedWithItsCause
<1>14. QED
  BY <1>2, <1>9, <1>10, <1>11, <1>12, <1>13 DEF Next

\* The inductive invariant holds of every reachable state.
THEOREM Invariant == Spec => []IInv
<1>1. Init => IInv
  <2> SUFFICES ASSUME Init
               PROVE  IInv
    OBVIOUS
  <2>1. TypeOK
    BY SessionLifecycleAssumption DEF Init, TypeOK, Row, NoRow, NoLease, Callers
  <2>2. LocksHold
    BY DEF Init, LocksHold
  <2>3. RunningIsRecoverable /\ CodesFollowTheLobby /\ EndedWithItsCause
    BY DEF Init, NoRow, RunningIsRecoverable, CodesFollowTheLobby, EndedWithItsCause,
       Absent, Lobby, Running
  <2>4. QED
    BY <2>1, <2>2, <2>3 DEF IInv
<1>2. IInv /\ [Next]_vars => IInv'
  BY TypeStep, LocksStep, RowsStep DEF IInv
<1>3. QED
  BY <1>1, <1>2, PTL DEF Spec

\* A running Session can always be taken over: its roster, checkpoint and
\* lease were committed with its start.
THEOREM AlwaysRecoverable == Spec => []RunningIsRecoverable
<1>1. IInv => RunningIsRecoverable
  BY DEF IInv
<1>2. QED
  BY <1>1, Invariant, PTL

\* Only a lobby holds a join code, and an open one always does, although any
\* creation may take over the code of an expired one.
THEOREM CodesAlwaysFollow == Spec => []CodesFollowTheLobby
<1>1. IInv => CodesFollowTheLobby
  BY DEF IInv
<1>2. QED
  BY <1>1, Invariant, PTL

\* A Session that ended has the cause, and the status, it ended for.
THEOREM AlwaysEndedWithItsCause == Spec => []EndedWithItsCause
<1>1. IInv => EndedWithItsCause
  BY DEF IInv
<1>2. QED
  BY <1>1, Invariant, PTL

\* Together, what the durable Session's readers, its next owner and its players
\* count on, wherever its owner or a pass stopped.
THEOREM DurableStateIsAlwaysSound == Spec => []DurableStateIsSound
<1>1. RunningIsRecoverable /\ CodesFollowTheLobby /\ EndedWithItsCause => DurableStateIsSound
  BY DEF DurableStateIsSound
<1>2. QED
  BY <1>1, AlwaysRecoverable, CodesAlwaysFollow, AlwaysEndedWithItsCause, PTL

\* Row locks keep every open transaction's view current.
THEOREM LocksAlwaysHold == Spec => []LocksHold
<1>1. IInv => LocksHold
  BY DEF IInv
<1>2. QED
  BY <1>1, Invariant, PTL

-----------------------------------------------------------------------------
(* SessionLifecycle implements SessionPromise.                               *)

\* The Sessions' statuses and causes as the promise sees them.
StatusOf == [s \in Sessions |-> row[s].status]
CauseOf  == [s \in Sessions |-> row[s].cause]

\* Ending a Session for a cause that applies is the promise's End.
LEMMA EndIsPromised ==
  ASSUME TypeOK, NEW s \in Sessions, NEW cause \in EndCause,
         row[s].status \in EndingFrom(cause),
         row' = [row EXCEPT ![s].status = EndingStatus(cause), ![s].cause = cause],
         UNCHANGED checkpoint
  PROVE  Promise!Next
<1>1. /\ StatusOf' = [StatusOf EXCEPT ![s] = EndingStatus(cause)]
      /\ CauseOf' = [CauseOf EXCEPT ![s] = cause]
  BY DEF TypeOK, Row, StatusOf, CauseOf
<1>2. Promise!EndingFrom(cause) = EndingFrom(cause) /\ Promise!EndingStatus(cause) = EndingStatus(cause)
  BY DEF Promise!EndingFrom, Promise!EndingStatus, EndingFrom, EndingStatus, Promise!Lobby, Lobby,
     Promise!Running, Running, Promise!Finished, Finished, Promise!Cancelled, Cancelled,
     Promise!Expired, Expired, Promise!Aborted, Aborted
<1>3. cause \in Promise!EndCause /\ StatusOf[s] \in EndingFrom(cause)
  BY DEF Promise!EndCause, EndCause, StatusOf
<1>4. Promise!End(s)
  BY <1>1, <1>2, <1>3 DEF Promise!End, StatusOf, CauseOf
<1>5. QED
  BY <1>4 DEF Promise!Next

\* Writing the checkpoint of a running Session is the promise's Advance, or
\* nothing when a newer one is already saved.
LEMMA SaveIsPromised ==
  ASSUME TypeOK, NEW s \in Sessions, NEW revision \in Revisions,
         row[s].status = Running, UNCHANGED row,
         checkpoint' = SavedOver(s, revision)
  PROVE  Promise!Next \/ UNCHANGED Promise!vars
<1>1. UNCHANGED <<StatusOf, CauseOf>>
  BY DEF StatusOf, CauseOf
<1>2. CASE checkpoint[s] < revision
  <2>1. checkpoint' = [checkpoint EXCEPT ![s] = revision]
    BY <1>2 DEF SavedOver
  <2>2. StatusOf[s] = Promise!Running
    BY DEF StatusOf, Running, Promise!Running
  <2>3. revision > checkpoint[s]
    BY <1>2, SessionLifecycleAssumption DEF TypeOK, NoCheckpoint
  <2>4. Promise!Advance(s)
    BY <1>1, <2>1, <2>2, <2>3 DEF Promise!Advance, StatusOf, CauseOf
  <2>5. QED
    BY <2>4 DEF Promise!Next
<1>3. CASE ~(checkpoint[s] < revision)
  <2>1. UNCHANGED checkpoint
    BY <1>3 DEF SavedOver, TypeOK
  <2>2. QED
    BY <1>1, <2>1 DEF Promise!vars, StatusOf, CauseOf
<1>4. QED
  BY <1>2, <1>3

\* Every step of every owner and pass is a step of the promise, or changes
\* nothing it speaks of.
LEMMA StepIsPromised ==
  ASSUME IInv, [Next]_vars
  PROVE  [Promise!Next]_(Promise!vars)
<1> USE SessionLifecycleAssumption
<1>0. TypeOK /\ RunningIsRecoverable /\ EndedWithItsCause
  BY DEF IInv
<1>1. CASE UNCHANGED <<row, checkpoint>>
  BY <1>1 DEF Promise!vars
<1>2. ASSUME NEW s \in Sessions, CreateSession(s)
      PROVE  Promise!Next
  <2>1. row[s].status = Absent /\ UNCHANGED checkpoint
    BY <1>2 DEF CreateSession
  <2>2. row[s].cause = NoCause
    <3>1. row[s].cause \in EndCause => row[s].status \in TerminalStatus
      BY <1>0, EndingsAreTerminal DEF EndedWithItsCause, EndCause, NoCause
    <3>2. QED
      BY <1>0, <2>1, <3>1 DEF TypeOK, Row, Absent, TerminalStatus, Finished, Cancelled,
         Expired, Aborted
  <2>3. StatusOf' = [StatusOf EXCEPT ![s] = Lobby] /\ UNCHANGED CauseOf
    BY <1>0, <1>2, <2>2 DEF CreateSession, TypeOK, StatusOf, CauseOf
  <2>4. Promise!Create(s)
    BY <2>1, <2>3 DEF Promise!Create, StatusOf, CauseOf, Absent, Promise!Absent,
       Lobby, Promise!Lobby
  <2>5. QED
    BY <2>4 DEF Promise!Next
<1>3. ASSUME NEW c \in Owners, CommitStart(c)
      PROVE  Promise!Next
  <2> DEFINE revision == txn[c].revision
  <2>0. PICK s \in Sessions : s = txn[c].session
    BY <1>3, OpenKnows DEF Callers, CommitStart
  <2>1. row[s].status = Lobby /\ revision \in Revisions
    BY <1>3, <2>0, OpenKnows DEF Callers, CommitStart
  <2>2. row[s].cause = NoCause
    <3>1. row[s].cause \in EndCause => row[s].status \in TerminalStatus
      BY <1>0, <2>1, EndingsAreTerminal DEF EndedWithItsCause, EndCause, NoCause
    <3>2. QED
      BY <1>0, <2>1, <3>1 DEF TypeOK, Row, Lobby, TerminalStatus, Finished, Cancelled,
         Expired, Aborted
  <2>3. checkpoint' = [checkpoint EXCEPT ![s] = revision]
    <3>1. checkpoint[s] = NoCheckpoint
      BY <1>0, <2>1 DEF RunningIsRecoverable
    <3>2. NoCheckpoint < revision
      <4>1. revision \in Nat
        BY <2>1
      <4>2. QED
        BY <4>1 DEF NoCheckpoint
    <3>3. QED
      BY <1>3, <2>0, <3>1, <3>2 DEF CommitStart, SavedOver
  <2>4. StatusOf' = [StatusOf EXCEPT ![s] = Running] /\ UNCHANGED CauseOf
    <3>1. row \in [Sessions -> Row]
      BY <1>0 DEF TypeOK
    <3>2. PICK lease : row' = [row EXCEPT ![s].status = Running, ![s].cause = NoCause,
                                          ![s].lease = lease]
      BY <1>3, <2>0 DEF CommitStart
    <3>3. row'[s].status = Running /\ row'[s].cause = NoCause
      BY <3>1, <3>2 DEF Row
    <3>4. \A u \in Sessions \ {s} : row'[u] = row[u]
      BY <3>1, <3>2
    <3>5. \A u \in Sessions : row'[u].cause = row[u].cause
      BY <2>2, <3>3, <3>4
    <3>6. QED
      BY <3>3, <3>4, <3>5 DEF StatusOf, CauseOf
  <2>5. Promise!Start(s)
    BY <2>1, <2>3, <2>4 DEF Promise!Start, StatusOf, CauseOf, Lobby, Promise!Lobby,
       Running, Promise!Running
  <2>6. QED
    BY <2>5 DEF Promise!Next
<1>4. ASSUME NEW c \in Owners, CommitEnd(c)
      PROVE  Promise!Next
  <2>1. txn[c].session \in Sessions /\ txn[c].cause \in EndCause
        /\ row[txn[c].session].status \in EndingFrom(txn[c].cause)
    BY <1>4, OpenKnows DEF Callers, CommitEnd
  <2>2. QED
    BY <1>0, <1>4, <2>1, EndIsPromised DEF CommitEnd
<1>5. ASSUME NEW c \in Owners, CommitHeartbeat(c)
      PROVE  UNCHANGED Promise!vars
  BY <1>0, <1>5 DEF CommitHeartbeat, TypeOK, Row, Promise!vars
<1>6. ASSUME NEW c \in Owners, CommitCheckpoint(c)
      PROVE  Promise!Next \/ UNCHANGED Promise!vars
  <2>1. txn[c].session \in Sessions /\ row[txn[c].session].status = Running
        /\ txn[c].revision \in Revisions
    BY <1>6, OpenKnows DEF Callers, CommitCheckpoint
  <2>2. QED
    BY <1>0, <1>6, <2>1, SaveIsPromised DEF CommitCheckpoint
<1>7. ASSUME NEW r \in Reconcilers, CommitJudgement(r)
      PROVE  Promise!Next
  <2>1. /\ txn[r] \in Txn /\ txn[r].session \in Sessions
        /\ txn[r].seen = row[txn[r].session]
    BY <1>7, OpenKnows DEF Callers, CommitJudgement, Judging
  <2>2. Verdict(r) \in EndCause /\ row[txn[r].session].status \in EndingFrom(Verdict(r))
    <3>1. txn[r].finalized \in BOOLEAN
      BY <2>1 DEF Txn
    <3>2. QED
      BY <1>7, <2>1, <3>1, VerdictApplies DEF CommitJudgement, Verdict
  <2>3. QED
    BY <1>0, <1>7, <2>1, <2>2, EndIsPromised DEF CommitJudgement
<1>8. ASSUME NEW c \in Owners, OwnerStep(c)
      PROVE  [Promise!Next]_(Promise!vars)
  <2>1. CASE OpenOwnerCall(c) \/ CloseUnchanged(c)
    BY <1>1, <2>1 DEF OpenOwnerCall, CloseUnchanged, tables
  <2>2. QED
    BY <1>3, <1>4, <1>5, <1>6, <1>8, <2>1 DEF OwnerStep
<1>9. ASSUME NEW r \in Reconcilers, PassStep(r)
      PROVE  [Promise!Next]_(Promise!vars)
  <2>1. CASE ~CommitJudgement(r)
    BY <1>1, <1>9, <2>1 DEF PassStep, StartPass, AskForRow, OpenJudgement, LeaveAlone,
       JudgementFails, LockTimesOut, NextPage, FinishPass, PassDies, tables
  <2>2. QED
    BY <1>7, <2>1
<1>10. CASE Tick \/ UNCHANGED vars \/ \E s \in Sessions : FinalizeReplay(s) \/ ReuseCode(s)
  BY <1>1, <1>10 DEF Tick, vars, FinalizeReplay, ReuseCode, tables
<1>11. QED
  BY <1>2, <1>8, <1>9, <1>10 DEF Next

\* What readers of a Session are promised is kept by every interleaving of
\* owners' transactions and reconciliation passes.
THEOREM Refinement == Spec => PromiseKept
<1>1. Init => Promise!Init
  BY DEF Init, Promise!Init, NoRow, NoCause, Promise!NoCause, Absent, Promise!Absent, NoCheckpoint
<1>2. IInv /\ [Next]_vars => [Promise!Next]_(Promise!vars)
  BY StepIsPromised
<1>3. QED
  BY <1>1, <1>2, Invariant, PTL DEF Spec, PromiseKept, Promise!Spec

-----------------------------------------------------------------------------
(* What reconciliation may end, as properties of its steps.                  *)

\* An open transaction read the clock before now.
ReadInThePast == \A c \in Callers : txn[c] # NoTxn => txn[c].at <= now

\* Time only advances, and a transaction that opens reads the clock as it is.
LEMMA ClockStep ==
  ASSUME TypeOK, ReadInThePast, [Next]_vars
  PROVE  ReadInThePast'
<1>1. CASE Tick
  <2>1. \A c \in Callers : txn[c] # NoTxn => txn[c].at \in Nat
    BY DEF TypeOK, Txn
  <2>2. QED
    BY <1>1, <2>1 DEF Tick, ReadInThePast, TypeOK
<1>2. ASSUME NEW c \in Callers, NEW s \in Sessions, NEW op, NEW cause, NEW revision,
             NEW saw, Open(c, op, s, cause, revision, saw), UNCHANGED now
      PROVE  ReadInThePast'
  <2>1. txn' = [txn EXCEPT ![c] = [op |-> op, session |-> s, seen |-> row[s], at |-> now,
                                   cause |-> cause, revision |-> revision, finalized |-> saw]]
    BY <1>2 DEF Open
  <2>2. now <= now
    BY DEF TypeOK
  <2>3. QED
    BY <1>2, <2>1, <2>2 DEF ReadInThePast, TypeOK
<1>3. ASSUME UNCHANGED now,
             UNCHANGED txn \/ \E c \in Callers : txn' = [txn EXCEPT ![c] = NoTxn]
      PROVE  ReadInThePast'
  BY <1>3 DEF ReadInThePast, TypeOK
<1>4. ASSUME NEW c \in Owners, OwnerStep(c)
      PROVE  ReadInThePast'
  <2>1. CASE OpenOwnerCall(c)
    BY <1>2, <2>1 DEF OpenOwnerCall, Callers
  <2>2. CASE ~OpenOwnerCall(c)
    BY <1>3, <1>4, <2>2 DEF OwnerStep, CommitStart, CommitEnd, CommitHeartbeat,
       CommitCheckpoint, CloseUnchanged, Callers
  <2>3. QED
    BY <2>1, <2>2
<1>5. ASSUME NEW r \in Reconcilers, PassStep(r)
      PROVE  ReadInThePast'
  <2>1. CASE OpenJudgement(r)
    <3>1. PICK s \in pass[r].asking : Open(r, "judge", s, NoCause, NoCheckpoint, pass[r].sawFinalized)
      BY <2>1 DEF OpenJudgement
    <3>2. s \in Sessions
      BY <2>1 DEF OpenJudgement, TypeOK, Pass
    <3>3. QED
      BY <1>2, <2>1, <3>1, <3>2 DEF OpenJudgement, Callers
  <2>2. CASE ~OpenJudgement(r)
    BY <1>3, <1>5, <2>2 DEF PassStep, StartPass, AskForRow, CommitJudgement, LeaveAlone,
       JudgementFails, LockTimesOut, NextPage, FinishPass, PassDies, Callers
  <2>3. QED
    BY <2>1, <2>2
<1>6. CASE UNCHANGED vars
          \/ \E s \in Sessions : CreateSession(s) \/ ReuseCode(s) \/ FinalizeReplay(s)
  BY <1>3, <1>6 DEF vars, CreateSession, ReuseCode, FinalizeReplay
<1>7. QED
  BY <1>1, <1>4, <1>5, <1>6 DEF Next

\* No transaction holds a reading of the clock from the future.
THEOREM ClockReadsArePast == Spec => []ReadInThePast
<1>1. Init => ReadInThePast
  BY DEF Init, ReadInThePast
<1>2. TypeOK /\ ReadInThePast /\ [Next]_vars => ReadInThePast'
  BY ClockStep
<1>3. QED
  BY <1>1, <1>2, TypeCorrect, PTL DEF Spec

\* A judgement that ends a Session finds it past the deadline its cause names.
LEMMA JudgesTheOverdue ==
  ASSUME IInv, ReadInThePast, NEW r \in Reconcilers, CommitJudgement(r),
         NEW s, s = txn[r].session
  PROVE  CASE row'[s].cause = "LOBBY_EXPIRED" -> row[s].status = Lobby /\ row[s].lobbyExpires <= now
           [] row'[s].cause = "MAX_LIFETIME"  -> row[s].status = Running /\ row[s].expires <= now
           [] OTHER -> row[s].status = Running
                         /\ (PastLease(row[s], now) \/ row[s].expires <= now)
<1> DEFINE t == txn[r]
<1>1. /\ t \in Txn /\ s \in Sessions /\ t.seen = row[s] /\ t.at \in Nat
      /\ t.at <= now /\ now \in Nat /\ row[s] \in Row
  <2>1. r \in Callers /\ t.op # "none" /\ t # NoTxn
    BY DEF CommitJudgement, Judging, Callers, NoTxn
  <2>2. QED
    BY <2>1, OpenKnows DEF ReadInThePast, IInv, TypeOK
<1>2. row'[s].cause = CauseFor(row[s], t.finalized, t.at)
      /\ CauseFor(row[s], t.finalized, t.at) # NoCause
  BY <1>1 DEF CommitJudgement, Verdict, IInv, TypeOK
<1>3. /\ row[s].lobbyExpires \in Nat /\ row[s].expires \in Nat
      /\ row[s].lease \in Nat \cup {NoLease} /\ t.finalized \in BOOLEAN
  BY <1>1 DEF Row, Txn
<1>4. /\ PastLease(row[s], t.at) => PastLease(row[s], now)
      /\ row[s].expires <= t.at => row[s].expires <= now
      /\ row[s].lobbyExpires <= t.at => row[s].lobbyExpires <= now
  BY <1>1, <1>3 DEF PastLease, NoLease
<1>5. QED
  BY <1>2, <1>3, <1>4 DEF CauseFor, NoCause, Lobby, Running

\* The platform ends only Sessions whose deadline has passed, whatever was
\* renewed between a pass reading them as due and judging them.
THEOREM OnlyTheOverdueAreReconciled == Spec => ReconcilesOnlyTheOverdue
<1>1. IInv /\ ReadInThePast /\ [Next]_vars =>
        [\A r \in Reconcilers : CommitJudgement(r) =>
           LET s == txn[r].session IN
           CASE row'[s].cause = "LOBBY_EXPIRED" -> row[s].status = Lobby /\ row[s].lobbyExpires <= now
             [] row'[s].cause = "MAX_LIFETIME"  -> row[s].status = Running /\ row[s].expires <= now
             [] OTHER -> row[s].status = Running
                           /\ (PastLease(row[s], now) \/ row[s].expires <= now)]_vars
  BY JudgesTheOverdue
<1>2. QED
  BY <1>1, Invariant, ClockReadsArePast, PTL DEF Spec, ReconcilesOnlyTheOverdue

\* A running Session leaves RUNNING only through an owner's end or a judgement,
\* and a judgement that saw the final replay finishes it.
LEMMA LeavesRunning ==
  ASSUME IInv, Next, NEW s \in Sessions, row[s].status = Running, row'[s].status # Running
  PROVE  \/ row'[s].status = Finished
         \/ \E c \in Owners : CommitEnd(c) /\ txn[c].session = s
         \/ \E r \in Reconcilers : txn[r].op = "judge" /\ txn[r].session = s /\ ~txn[r].finalized
<1>0. row \in [Sessions -> Row]
  BY DEF IInv, TypeOK
<1>1. CASE UNCHANGED row
  BY <1>1
<1>2. ASSUME NEW u \in Sessions, CreateSession(u)
      PROVE  FALSE
  <2>1. u # s
    BY <1>2 DEF CreateSession, Absent, Running
  <2>2. QED
    BY <1>0, <1>2, <2>1 DEF CreateSession
<1>3. ASSUME NEW c \in Owners, OwnerStep(c)
      PROVE  CommitEnd(c) /\ txn[c].session = s
  <2>1. CASE CommitStart(c)
    <3>1. row'[s].status \in {row[s].status, Running}
      BY <1>0, <2>1 DEF CommitStart
    <3>2. QED
      BY <3>1
  <2>2. CASE CommitHeartbeat(c)
    <3>1. row'[s].status = row[s].status
      BY <1>0, <2>2 DEF CommitHeartbeat
    <3>2. QED
      BY <3>1
  <2>3. CASE CommitEnd(c)
    BY <1>0, <2>3 DEF CommitEnd
  <2>4. QED
    BY <1>1, <1>3, <2>1, <2>2, <2>3 DEF OwnerStep, OpenOwnerCall, CommitCheckpoint,
       CloseUnchanged, tables
<1>4. ASSUME NEW r \in Reconcilers, CommitJudgement(r)
      PROVE  /\ txn[r].op = "judge" /\ txn[r].session = s
             /\ txn[r].finalized => row'[s].status = Finished
  <2>1. txn[r].op = "judge" /\ txn[r].session = s
    BY <1>0, <1>4 DEF CommitJudgement, Judging
  <2>2. txn[r] \in Txn /\ txn[r].seen = row[s]
    BY <2>1, OpenKnows DEF Callers
  <2>3. Verdict(r) # NoCause /\ row'[s].status = EndingStatus(Verdict(r))
    BY <1>0, <1>4, <2>1 DEF CommitJudgement
  <2>4. ASSUME txn[r].finalized
        PROVE  Verdict(r) = "GAME_FINISHED"
    BY <2>2, <2>3, <2>4 DEF Verdict, CauseFor, Lobby, Running
  <2>5. QED
    BY <2>1, <2>3, <2>4 DEF EndingStatus
<1>5. ASSUME NEW r \in Reconcilers, PassStep(r)
      PROVE  CommitJudgement(r)
  BY <1>5 DEF PassStep, StartPass, AskForRow, OpenJudgement, LeaveAlone, JudgementFails,
     LockTimesOut, NextPage, FinishPass, PassDies, tables
<1>6. CASE Tick \/ \E u \in Sessions : ReuseCode(u) \/ FinalizeReplay(u)
  BY <1>1, <1>6 DEF Tick, ReuseCode, FinalizeReplay, tables
<1>7. QED
  BY <1>2, <1>3, <1>4, <1>5, <1>6 DEF Next

\* A game whose final replay is stored is not taken for lost or expired by a
\* pass whose statement began after it was.
THEOREM FinishedGamesAreNotLost == Spec => FinishedGameIsNotLost
<1>1. IInv /\ [Next]_vars =>
        [\A s \in Sessions :
           s \in finalized /\ row[s].status = Running /\ row'[s].status # Running =>
             \/ row'[s].status = Finished
             \/ \E c \in Owners : CommitEnd(c) /\ txn[c].session = s
             \/ \E r \in Reconcilers : txn[r].op = "judge" /\ txn[r].session = s /\ ~txn[r].finalized]_vars
  BY LeavesRunning
<1>2. QED
  BY <1>1, Invariant, PTL DEF Spec, FinishedGameIsNotLost
=============================================================================
