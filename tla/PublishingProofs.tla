-------------------------- MODULE PublishingProofs --------------------------
(***************************************************************************)
(* Publishing for any versions, callers, keys, sources and bounds.  First, *)
(* that what Game Management and Play record of a game agree wherever an   *)
(* operation stopped, and that a version once executable never changes.    *)
(* Then, on top of that, that the changes of the drafts apply once, that   *)
(* the newest revision is built, and that the store keeps what is used.    *)
(***************************************************************************)
EXTENDS Publishing, SequenceTheorems, FiniteSetTheorems, NaturalsInduction,
        WellFoundedInduction, TLAPS

IsSequence(s) == Len(s) \in Nat /\ s = [i \in 1..Len(s) |-> s[i]]

IsVersion(row) ==
  /\ row = [status |-> row.status, revs |-> row.revs, script |-> row.script,
            delivered |-> row.delivered]
  /\ row.status \in VersionStatus

IsEdition(e) ==
  /\ e = [version |-> e.version, status |-> e.status]
  /\ e.version \in Versions /\ e.status \in EditionStatus

IsRelease(r) ==
  /\ r = [key |-> r.key, version |-> r.version, revision |-> r.revision, state |-> r.state]
  /\ r.version \in Versions /\ r.state \in ReleaseState

RowsFit ==
  /\ versions = [v \in Versions |-> versions[v]] /\ \A v \in Versions : IsVersion(versions[v])
  /\ IsSequence(editions) /\ \A e \in DOMAIN editions : IsEdition(editions[e])
  /\ IsSequence(releases) /\ \A r \in DOMAIN releases : IsRelease(releases[r])

Executable(v) == versions[v].status = "EXECUTABLE"

\* Only the last edition may be open; those before it run in Play, and Play
\* has versions of editions only.
EditionsHold ==
  /\ \A e, f \in DOMAIN editions : editions[e].version = editions[f].version => e = f
  /\ \A e \in DOMAIN editions : e < Len(editions) => editions[e].status = "PUBLISHED"
  /\ \A e \in DOMAIN editions : editions[e].status = "PUBLISHED" => Executable(editions[e].version)
  /\ \A v \in Versions : Exists(v) => \E e \in DOMAIN editions : editions[e].version = v

\* A release is of an edition, and completed with it.
ReleasesHold ==
  \A r \in DOMAIN releases :
    \E e \in DOMAIN editions :
      /\ editions[e].version = releases[r].version
      /\ releases[r].state = "completed" => editions[e].status = "PUBLISHED"

IsRequest(call) ==
  /\ call.op \in DraftOps /\ call.at \in {"register", "put", "attach", "deciding"}
  /\ call = [op |-> call.op, version |-> call.version, key |-> call.key, req |-> call.req,
             seen |-> call.seen, races |-> call.races, at |-> call.at]
  /\ call.version \in Versions

\* A publication completes a release only once Play runs its version.
IsPublication(call) ==
  /\ call.op = "publish" /\ call.at \in {"begin", "freeze", "freezing", "complete", "abandon"}
  /\ call.at # "begin" => call.release \in DOMAIN releases
  /\ call.at = "complete" => Executable(releases[call.release].version)

CallFits(call) == call = Idle \/ IsRequest(call) \/ IsPublication(call)

CallsFit ==
  /\ calls = [c \in Callers |-> calls[c]]
  /\ \A c \in Callers : CallFits(calls[c])

Frozen == {e \in DOMAIN editions : Executable(editions[e].version)}

CurrentHolds ==
  /\ Frozen = {} => currentVersion = Nothing
  /\ \A e \in Frozen : (\A f \in Frozen : f <= e) => currentVersion = editions[e].version

\* Inductive.
PublishingInv == RowsFit /\ EditionsHold /\ ReleasesHold /\ CallsFit /\ CurrentHolds

\* Table t is s with one row more.
OneMore(t, s, row) ==
  /\ IsSequence(t) /\ Len(t) = Len(s) + 1 /\ Len(s) \in Nat
  /\ DOMAIN s = 1..Len(s) /\ DOMAIN t = DOMAIN s \cup {Len(s) + 1}
  /\ t[Len(s) + 1] = row /\ \A i \in DOMAIN s : t[i] = s[i]

\* A row appended to a table, whatever its rows hold.
LEMMA Appended ==
  ASSUME NEW s, IsSequence(s), NEW row, NEW t, t = Append(s, row)
  PROVE  OneMore(t, s, row)
<1>1. PICK S : S = {s[i] : i \in 1..Len(s)} \cup {row}
  OBVIOUS
<1>2. Len(s) \in Nat /\ s \in [1..Len(s) -> S] /\ DOMAIN s = 1..Len(s)
  BY <1>1 DEF IsSequence
<1>3. s \in Seq(S) /\ row \in S
  BY <1>1, <1>2, SeqDef
<1>4. /\ t \in Seq(S) /\ Len(t) = Len(s) + 1
      /\ \A i \in 1..Len(s) : t[i] = s[i]
      /\ t[Len(s) + 1] = row
  BY <1>3, AppendProperties
<1>5. Len(t) \in Nat /\ t \in [1..Len(t) -> S] /\ DOMAIN t = 1..Len(t)
  BY <1>4, LenProperties
<1>6. IsSequence(t)
  BY <1>5 DEF IsSequence
<1>7. 1..Len(t) = 1..Len(s) \cup {Len(s) + 1}
  BY <1>2, <1>4
<1>8. QED
  BY <1>2, <1>4, <1>5, <1>6, <1>7 DEF OneMore

\* Table t is s with another row at i.
OneChanged(t, s, i, row) ==
  /\ IsSequence(t) /\ Len(t) = Len(s)
  /\ DOMAIN s = 1..Len(s) /\ DOMAIN t = DOMAIN s
  /\ t[i] = row /\ \A j \in DOMAIN s : j # i => t[j] = s[j]

\* A row of a table is replaced.
LEMMA Replaced ==
  ASSUME NEW s, IsSequence(s), NEW i \in DOMAIN s, NEW row, NEW t, t = [s EXCEPT ![i] = row]
  PROVE  OneChanged(t, s, i, row)
<1>1. PICK S : S = {s[j] : j \in 1..Len(s)} \cup {row}
  OBVIOUS
<1>2. Len(s) \in Nat /\ s \in [1..Len(s) -> S] /\ DOMAIN s = 1..Len(s)
  BY <1>1 DEF IsSequence
<1>3. s \in Seq(S) /\ row \in S /\ i \in 1..Len(s)
  BY <1>1, <1>2, SeqDef
<1>4. /\ t \in Seq(S) /\ Len(t) = Len(s)
      /\ \A j \in 1..Len(s) : t[j] = IF j = i THEN row ELSE s[j]
  BY <1>3, ExceptSeq
<1>5. t \in [1..Len(s) -> S]
  BY <1>4, LenProperties
<1>6. QED
  BY <1>2, <1>3, <1>4, <1>5 DEF IsSequence, OneChanged

\* What the game keeps of itself stays, and no version becomes executable or
\* is created.
Quiet ==
  /\ UNCHANGED <<editions, releases, currentVersion>>
  /\ versions' = [v \in Versions |-> versions'[v]]
  /\ \A v \in Versions : IsVersion(versions'[v]) /\ versions'[v].status = versions[v].status

\* Calls go on, each with what the game keeps now.
CallsGoOn ==
  /\ calls' = [c \in Callers |-> calls'[c]]
  /\ \A c \in Callers : CallFits(calls'[c])

\* Such a step keeps the invariant.
LEMMA QuietStep ==
  ASSUME PublishingInv, Quiet, CallsGoOn
  PROVE  PublishingInv'
<1>1. RowsFit /\ EditionsHold /\ ReleasesHold /\ CallsFit /\ CurrentHolds
  BY DEF PublishingInv
<1>2. editions' = editions /\ releases' = releases /\ currentVersion' = currentVersion
      /\ \A v \in Versions : /\ IsVersion(versions'[v]) /\ Executable(v)' = Executable(v)
                             /\ Exists(v)' = Exists(v)
  BY DEF Quiet, Executable, Exists
<1>3. /\ \A e \in DOMAIN editions : editions[e].version \in Versions
      /\ \A r \in DOMAIN releases : releases[r].version \in Versions
  BY <1>1 DEF RowsFit, IsEdition, IsRelease
<1>4. RowsFit'
  BY <1>1, <1>2 DEF RowsFit, Quiet
<1>5. EditionsHold'
  BY <1>1, <1>2, <1>3 DEF EditionsHold
<1>6. ReleasesHold'
  BY <1>1, <1>2 DEF ReleasesHold
<1>7. \A call : CallFits(call) => CallFits(call)'
  BY <1>2, <1>3 DEF CallFits, IsPublication, IsRequest
<1>8. CallsFit'
  BY <1>7 DEF CallsFit, CallsGoOn
<1>9. CurrentHolds'
  <2>1. Frozen' = Frozen
    BY <1>2, <1>3 DEF Frozen
  <2>2. QED
    BY <1>1, <1>2, <2>1 DEF CurrentHolds
<1>10. QED
  BY <1>4, <1>5, <1>6, <1>8, <1>9 DEF PublishingInv

\* One call goes on.
LEMMA OneGoesOn ==
  ASSUME CallsFit, NEW c \in Callers, NEW call, CallFits(call), calls' = [calls EXCEPT ![c] = call]
  PROVE  CallsGoOn /\ calls'[c] = call /\ \A d \in Callers : d # c => calls'[d] = calls[d]
  BY DEF CallsFit, CallsGoOn

\* What a step leaves alone is quiet.
LEMMA KeptIsQuiet ==
  ASSUME PublishingInv
  PROVE  /\ UNCHANGED <<versions, currentVersion, gameVars>> => Quiet
         /\ calls' = calls => CallsGoOn
  BY DEF PublishingInv, RowsFit, CallsFit, Quiet, CallsGoOn, gameVars

\* A caller that does nothing fits, whatever the game keeps.
LEMMA IdleFits == CallFits(Idle)
  BY DEF CallFits

\* What callers ask of a DRAFT is a request, or an end of one.
LEMMA RequestsStep ==
  ASSUME PublishingInv, up /\ DraftRequests /\ UNCHANGED <<buildVars, gameVars>>
  PROVE  PublishingInv' /\ versions' = versions
<1>1. CallsFit
  BY DEF PublishingInv
<1>2. ASSUME NEW c \in Callers, NEW op \in DraftOps, NEW v \in Versions, NEW i, NEW req,
             NEW at \in {"register", "attach", "deciding"},
             calls' = [calls EXCEPT ![c] = Request(op, v, i, req, at)]
      PROVE  CallsGoOn
  <2>1. PICK seen : seen = Row(v)
    OBVIOUS
  <2>2. PICK call : call = [op |-> op, version |-> v, key |-> i, req |-> req, seen |-> seen,
                            races |-> 0, at |-> at]
    OBVIOUS
  <2>3. calls' = [calls EXCEPT ![c] = call]
    BY <1>2, <2>1, <2>2 DEF Request
  <2>4. IsRequest(call)
    BY <2>2 DEF IsRequest
  <2>5. QED
    BY <1>1, <2>3, <2>4, OneGoesOn DEF CallFits
<1>3. "change" \in DraftOps /\ "restore" \in DraftOps /\ "remove" \in DraftOps /\ "upload" \in DraftOps
  BY DEF DraftOps
<1>4. ASSUME NEW c \in Callers, NEW v \in Versions, NEW i \in IdempotencyKeys,
             ApplyChanges(c, v, i) \/ RestoreRevision(c, v, i) \/ RemoveAsset(c, v, i)
      PROVE  CallsGoOn /\ UNCHANGED <<versions, currentVersion>>
  <2>1. ASSUME NEW op \in {"change", "restore", "remove"}, NEW req, BeginRequest(c, op, v, i, req)
        PROVE  CallsGoOn /\ UNCHANGED <<versions, currentVersion>>
    BY <1>2, <1>3, <2>1 DEF BeginRequest
  <2>2. QED
    BY <1>4, <2>1 DEF ApplyChanges, RestoreRevision, RemoveAsset
<1>5. ASSUME NEW c \in Callers, NEW v \in Versions, NEW i \in IdempotencyKeys, UploadAsset(c, v, i)
      PROVE  CallsGoOn /\ UNCHANGED <<versions, currentVersion>>
  <2>1. \E req : \E blob :
          calls' = [calls EXCEPT ![c] =
                      Request("upload", v, i, req, IF blob = Nothing THEN "attach" ELSE "register")]
    BY <1>5 DEF UploadAsset
  <2>2. \E req : \E at \in {"register", "attach"} :
          calls' = [calls EXCEPT ![c] = Request("upload", v, i, req, at)]
    BY <2>1
  <2>3. CallsGoOn
    BY <1>2, <1>3, <2>2
  <2>4. QED
    BY <1>5, <2>3 DEF UploadAsset
<1>6. ASSUME NEW c \in Callers, Abandon(c)
      PROVE  CallsGoOn /\ UNCHANGED <<versions, currentVersion>>
  BY <1>1, <1>6, IdleFits, OneGoesOn DEF Abandon
<1>7. CallsGoOn /\ UNCHANGED <<versions, currentVersion>>
  BY <1>4, <1>5, <1>6 DEF DraftRequests
<1>8. QED
  BY <1>7, KeptIsQuiet, QuietStep DEF gameVars

\* A request under way goes on to its decision, or ends.
LEMMA RequestGoesOn ==
  ASSUME PublishingInv, NEW c \in Callers, NEW call, call = calls[c], call.op \in DraftOps,
         NEW at \in {"register", "put", "attach", "deciding"}, NEW seen, NEW races
  PROVE  /\ IsRequest(call)
         /\ CallFits([call EXCEPT !.at = at])
         /\ CallFits([call EXCEPT !.at = at, !.seen = seen])
         /\ CallFits([call EXCEPT !.races = races, !.seen = seen])
<1>1. CallFits(call)
  BY DEF PublishingInv, CallsFit
<1>2. IsRequest(call)
  BY <1>1 DEF CallFits, Idle, DraftOps, IsPublication
<1>3. PICK R : R = [op : DraftOps, version : Versions, key : {call.key}, req : {call.req},
                    seen : {call.seen, seen}, races : {call.races, races},
                    at : {"register", "put", "attach", "deciding"}]
  OBVIOUS
<1>4. call \in R
  BY <1>2, <1>3 DEF IsRequest
<1>5. /\ [call EXCEPT !.at = at] \in R
      /\ [call EXCEPT !.at = at, !.seen = seen] \in R
      /\ [call EXCEPT !.races = races, !.seen = seen] \in R
  BY <1>3, <1>4
<1>6. \A next \in R : IsRequest(next)
  BY <1>3 DEF IsRequest
<1>7. QED
  BY <1>2, <1>5, <1>6 DEF CallFits

\* A request that ends without a revision of its own, or goes on.
LEMMA DecidingStep ==
  ASSUME PublishingInv, NEW c \in Callers, UNCHANGED <<buildVars, gameVars>>,
         CommitDecision(c) \/ LoseRace(c) \/ RegisterAsset(c) \/ StoreAsset(c) \/ AttachAsset(c)
  PROVE  PublishingInv'
<1>1. CallsFit /\ UNCHANGED <<versions, currentVersion, gameVars>>
  BY DEF PublishingInv, CommitDecision, LoseRace, RegisterAsset, StoreAsset, AttachAsset
<1>2. calls[c].op \in DraftOps
  BY DEF CommitDecision, LoseRace, RegisterAsset, StoreAsset, AttachAsset, Deciding, DraftOps
<1>3. PICK call : call = calls[c]
  OBVIOUS
<1>4. \E next : CallFits(next) /\ calls' = [calls EXCEPT ![c] = next]
  <2>1. CASE calls' = [calls EXCEPT ![c] = Idle]
    BY <2>1, IdleFits
  <2>2. CASE CommitDecision(c)
    BY <2>1, <2>2 DEF CommitDecision, CompleteAttempt
  <2>3. CASE LoseRace(c)
    <3>1. PICK seen : seen = Row(calls[c].version)
      OBVIOUS
    <3>2. PICK races : races = call.races + 1
      OBVIOUS
    <3>3. \/ calls' = [calls EXCEPT ![c] = Idle]
          \/ calls' = [calls EXCEPT ![c] = [call EXCEPT !.races = races, !.seen = seen]]
      <4>1. CASE call.op \in {"change", "restore"}
        BY <1>3, <2>3, <4>1 DEF LoseRace, CompleteAttempt
      <4>2. CASE call.op \in {"remove", "upload"}
        <5>1. calls' = [calls EXCEPT ![c] =
                 IF calls[c].races + 1 = MaxRevisionRaces THEN Idle
                 ELSE [calls[c] EXCEPT !.races = calls[c].races + 1, !.seen = Row(calls[c].version)]]
          BY <1>3, <2>3, <4>2 DEF LoseRace
        <5>2. QED
          BY <1>3, <3>1, <3>2, <5>1
      <4>3. QED
        BY <1>2, <1>3, <4>1, <4>2 DEF DraftOps
    <3>4. CallFits([call EXCEPT !.races = races, !.seen = seen])
      BY <1>2, <1>3, RequestGoesOn
    <3>5. QED
      BY <2>1, <3>3, <3>4
  <2>4. CASE RegisterAsset(c) \/ StoreAsset(c)
    <3>1. PICK at \in {"put", "attach"} : calls' = [calls EXCEPT ![c] = [call EXCEPT !.at = at]]
      BY <1>3, <2>4 DEF RegisterAsset, StoreAsset
    <3>2. QED
      BY <1>2, <1>3, <3>1, RequestGoesOn
  <2>5. CASE AttachAsset(c)
    <3>1. PICK seen : seen = Row(calls[c].version)
      OBVIOUS
    <3>2. \/ calls' = [calls EXCEPT ![c] = Idle]
          \/ calls' = [calls EXCEPT ![c] = [call EXCEPT !.at = "deciding", !.seen = seen]]
      BY <1>3, <2>5, <3>1 DEF AttachAsset
    <3>3. CallFits([call EXCEPT !.at = "deciding", !.seen = seen])
      BY <1>2, <1>3, RequestGoesOn
    <3>4. QED
      BY <2>1, <3>2, <3>3
  <2>6. QED
    BY <2>2, <2>3, <2>4, <2>5
<1>5. CallsGoOn
  BY <1>1, <1>4, OneGoesOn
<1>6. QED
  BY <1>1, <1>5, KeptIsQuiet, QuietStep

\* AdvanceRevision: a DRAFT has one revision more, and stays a DRAFT.
LEMMA CommitRevisionStep ==
  ASSUME PublishingInv, NEW c \in Callers, CommitRevision(c), UNCHANGED <<buildVars, gameVars>>
  PROVE  /\ PublishingInv'
         /\ \A v \in Versions : Executable(v) => versions'[v] = versions[v]
<1>1. PICK v : v = calls[c].version
  OBVIOUS
<1>2. IsRequest(calls[c]) /\ CallsFit /\ RowsFit
  BY RequestGoesOn DEF PublishingInv, CommitRevision, Deciding
<1>3. v \in Versions /\ versions[v].status = "DRAFT"
  BY <1>1, <1>2 DEF IsRequest, CommitRevision, CanAdvance
<1>4. PICK revs : versions' = [versions EXCEPT ![v].revs = revs]
  BY <1>1 DEF CommitRevision
<1>5. PICK row : row = [versions[v] EXCEPT !.revs = revs]
  OBVIOUS
<1>6. IsVersion(row) /\ row.status = "DRAFT"
  BY <1>2, <1>3, <1>5 DEF RowsFit, IsVersion
<1>7. versions' = [versions EXCEPT ![v] = row]
  BY <1>4, <1>5
<1>8. Quiet
  BY <1>2, <1>3, <1>6, <1>7 DEF Quiet, RowsFit, gameVars, CommitRevision
<1>9. calls' = [calls EXCEPT ![c] = Idle]
  BY DEF CommitRevision, CompleteAttempt
<1>10. CallsGoOn
  BY <1>2, <1>9, IdleFits, OneGoesOn
<1>11. \A w \in Versions : Executable(w) => versions'[w] = versions[w]
  BY <1>2, <1>3, <1>7 DEF RowsFit, Executable
<1>12. QED
  BY <1>8, <1>10, <1>11, QuietStep

\* Builds, their workers and the instance that runs them: a crash forgets
\* every call, and nothing that is recorded.
LEMMA BuildStep ==
  ASSUME PublishingInv, BuildNext, UNCHANGED gameVars
  PROVE  PublishingInv' /\ versions' = versions
<1>1. UNCHANGED <<versions, currentVersion>> /\ (calls' = calls \/ calls' = [c \in Callers |-> Idle])
  BY DEF BuildNext, WorkerSteps, Claims, ClaimOldest, ClaimIsLost, ReuseBuild, BuildFails,
         RegisterArtifacts, StoreArtifacts, FinishBuild, FinishIsLost, Crash, RequeueInterrupted,
         RequeueFails, Settle, draftVars
<1>2. CallsGoOn
  BY <1>1, IdleFits, KeptIsQuiet DEF CallsGoOn
<1>3. QED
  BY <1>1, <1>2, KeptIsQuiet, QuietStep

\* Steps of a publication that change no row of the game.
LEMMA PublicationGoesOn ==
  ASSUME PublishingInv, NEW c \in Callers,
         \/ \E k \in PublishKeys : CheckPublication(c, k)
         \/ ResumePublication(c) \/ FreezeReads(c)
  PROVE  PublishingInv' /\ versions' = versions
<1>1. CallsFit /\ RowsFit /\ UNCHANGED <<versions, currentVersion, gameVars>>
  BY DEF PublishingInv, CheckPublication, ResumePublication, FreezeReads
<1>2. \E next : CallFits(next) /\ calls' = [calls EXCEPT ![c] = next]
  <2>1. ASSUME NEW k \in PublishKeys, CheckPublication(c, k)
        PROVE  \E next : CallFits(next) /\ calls' = [calls EXCEPT ![c] = next]
    <3>1. PICK rev : rev = Current(OpenVersion)
      OBVIOUS
    <3>2. PICK next : next = [op |-> "publish", at |-> "begin", key |-> k, revision |-> rev]
      OBVIOUS
    <3>3. CallFits(next)
      BY <3>2 DEF CallFits, IsPublication
    <3>4. QED
      BY <2>1, <3>1, <3>2, <3>3 DEF CheckPublication, GoesOn
  <2>2. ASSUME ResumePublication(c)
        PROVE  \E next : CallFits(next) /\ calls' = [calls EXCEPT ![c] = next]
    <3>1. PICK r \in PendingReleases : calls' = [calls EXCEPT ![c] = PublishCall("freeze", r)]
      BY <2>2 DEF ResumePublication, GoesOn
    <3>2. CallFits(PublishCall("freeze", r))
      BY <3>1 DEF CallFits, IsPublication, PublishCall, PendingReleases
    <3>3. QED
      BY <3>1, <3>2
  <2>3. ASSUME FreezeReads(c)
        PROVE  \E next : CallFits(next) /\ calls' = [calls EXCEPT ![c] = next]
    <3>1. PICK r : r = calls[c].release
      OBVIOUS
    <3>2. r \in DOMAIN releases
      <4>1. calls[c].at = "freeze" /\ CallFits(calls[c])
        BY <1>1, <2>3 DEF FreezeReads, CallsFit
      <4>2. QED
        BY <3>1, <4>1 DEF CallFits, Idle, IsRequest, IsPublication
    <3>3. PICK v : v = releases[r].version
      OBVIOUS
    <3>4. PICK outcome : outcome = IF Exists(v) THEN FreezeOutcome(v, releases[r].revision) ELSE "missing"
      OBVIOUS
    <3>5. /\ outcome \in {"frozen", "already_frozen", "not_ready", "missing"}
          /\ outcome = "already_frozen" => Executable(v)
      BY <3>4 DEF FreezeOutcome, Executable
    <3>6. PICK script : script = BuildOf(v, releases[r].revision).script
      OBVIOUS
    <3>7. PICK next : next = CASE outcome = "frozen" ->
                                    [op |-> "publish", at |-> "freezing", release |-> r, script |-> script]
                               [] outcome = "already_frozen" -> PublishCall("complete", r)
                               [] outcome = "not_ready" -> PublishCall("abandon", r)
                               [] outcome = "missing" -> Idle
      OBVIOUS
    <3>8. calls' = [calls EXCEPT ![c] = next]
      BY <2>3, <3>1, <3>3, <3>4, <3>6, <3>7 DEF FreezeReads, GoesOn
    <3>9. CallFits(next)
      BY <3>2, <3>3, <3>5, <3>7 DEF CallFits, IsPublication, PublishCall
    <3>10. QED
      BY <3>8, <3>9
  <2>4. QED
    BY <2>1, <2>2, <2>3
<1>3. CallsGoOn
  BY <1>1, <1>2, OneGoesOn
<1>4. QED
  BY <1>1, <1>3, KeptIsQuiet, QuietStep

\* Releases keep their versions and executable versions stay so, whatever
\* else a step records: no call under way is misled.
CallsAreKept ==
  /\ DOMAIN releases \subseteq DOMAIN releases'
  /\ \A r \in DOMAIN releases : releases'[r].version = releases[r].version
  /\ \A v \in Versions : Executable(v) => Executable(v)'

\* The calls after such a step, one of which may go on.
LEMMA CallsFollow ==
  ASSUME PublishingInv, CallsAreKept,
         \/ calls' = calls
         \/ \E c \in Callers : \E next : calls' = [calls EXCEPT ![c] = next] /\ CallFits(next)'
  PROVE  CallsFit'
<1>1. CallsFit /\ \A r \in DOMAIN releases : releases[r].version \in Versions
  BY DEF PublishingInv, RowsFit, IsRelease
<1>2. ASSUME NEW call, CallFits(call)
      PROVE  CallFits(call)'
  <2>1. IsRequest(call) => IsRequest(call)'
    BY DEF IsRequest
  <2>2. IsPublication(call) => IsPublication(call)'
    BY <1>1 DEF IsPublication, CallsAreKept
  <2>3. QED
    BY <1>2, <2>1, <2>2 DEF CallFits
<1>3. CASE calls' = calls
  BY <1>1, <1>2, <1>3 DEF CallsFit
<1>4. ASSUME NEW c \in Callers, NEW next, calls' = [calls EXCEPT ![c] = next], CallFits(next)'
      PROVE  CallsFit'
  BY <1>1, <1>2, <1>4 DEF CallsFit
<1>5. QED
  BY <1>3, <1>4

\* An edition is opened with a version no edition has, so that Play has none.
LEMMA EditionOpens ==
  ASSUME PublishingInv, NEW v \in UnusedVersions, OpenEditions = {},
         editions' = Append(editions, [version |-> v, status |-> "EDITING"]),
         UNCHANGED <<versions, currentVersion, releases, calls>>
  PROVE  PublishingInv'
<1>1. RowsFit /\ EditionsHold /\ ReleasesHold /\ CurrentHolds
  BY DEF PublishingInv
<1>2. PICK edition : edition = [version |-> v, status |-> "EDITING"]
  OBVIOUS
<1>3. v \in Versions /\ \A e \in DOMAIN editions : editions[e].version # v
  BY DEF UnusedVersions
<1>4. PICK new : new = Len(editions) + 1
  OBVIOUS
<1>5. /\ IsSequence(editions') /\ Len(editions') = new /\ Len(editions) \in Nat
      /\ DOMAIN editions = 1..Len(editions) /\ DOMAIN editions' = DOMAIN editions \cup {new}
      /\ editions'[new] = edition /\ \A e \in DOMAIN editions : editions'[e] = editions[e]
  <2>1. PICK s : s = editions
    OBVIOUS
  <2>2. IsSequence(s)
    BY <1>1, <2>1 DEF RowsFit, IsSequence
  <2>3. PICK t : t = Append(s, edition)
    OBVIOUS
  <2>4. OneMore(t, s, edition)
    BY <2>2, <2>3, Appended, Zenon
  <2>5. editions' = t
    BY <1>2, <2>1, <2>3
  <2>6. IsSequence(editions')
    BY <2>4, <2>5 DEF IsSequence, OneMore
  <2>7. QED
    BY <1>4, <2>1, <2>4, <2>5, <2>6 DEF OneMore
<1>6. IsEdition(edition) /\ edition.version = v /\ edition.status = "EDITING"
  BY <1>2, <1>3 DEF IsEdition, EditionStatus
<1>7. \A e \in DOMAIN editions : editions[e].status = "PUBLISHED" /\ editions[e].version \in Versions
  BY <1>1 DEF OpenEditions, EditionsIn, RowsFit, IsEdition, EditionStatus
<1>8. RowsFit'
  BY <1>1, <1>5, <1>6 DEF RowsFit
<1>9. ~ Exists(v) /\ ~ Executable(v)
  BY <1>1, <1>3 DEF EditionsHold, Exists, Executable
<1>10. \A w : (Executable(w)' <=> Executable(w)) /\ (Exists(w)' <=> Exists(w))
  BY DEF Executable, Exists
<1>11. EditionsHold'
  <2>1. \A e, f \in DOMAIN editions' : editions'[e].version = editions'[f].version => e = f
    BY <1>1, <1>3, <1>5, <1>6 DEF EditionsHold
  <2>2. \A e \in DOMAIN editions' : e < Len(editions') => editions'[e].status = "PUBLISHED"
    BY <1>4, <1>5, <1>7
  <2>3. \A e \in DOMAIN editions' :
          editions'[e].status = "PUBLISHED" => Executable(editions'[e].version)
    BY <1>1, <1>5, <1>6 DEF EditionsHold
  <2>4. \A w \in Versions : Exists(w) => \E e \in DOMAIN editions' : editions'[e].version = w
    BY <1>1, <1>5 DEF EditionsHold
  <2>5. QED
    BY <1>10, <2>1, <2>2, <2>3, <2>4 DEF EditionsHold
<1>12. ReleasesHold'
  BY <1>1, <1>5 DEF ReleasesHold
<1>13. CallsFit'
  BY <1>10, CallsFollow DEF CallsAreKept
<1>14. CurrentHolds'
  <2>1. Frozen' = Frozen
    BY <1>5, <1>6, <1>9, <1>10 DEF Frozen
  <2>2. Frozen \subseteq DOMAIN editions
    BY DEF Frozen
  <2>3. QED
    BY <1>1, <1>5, <2>1, <2>2 DEF CurrentHolds
<1>15. QED
  BY <1>8, <1>11, <1>12, <1>13, <1>14 DEF PublishingInv

\* createGame and openEditionInTx open one.
LEMMA OpeningStep ==
  ASSUME PublishingInv, CreateGame \/ \E k \in EditionKeys : OpenEdition(k)
  PROVE  PublishingInv'
<1>1. CASE CreateGame
  <2>1. editions = <<>> /\ DOMAIN editions = {}
    BY <1>1 DEF CreateGame
  <2>2. OpenEditions = {} /\ UnusedVersions = Versions
    BY <2>1 DEF OpenEditions, EditionsIn, UnusedVersions
  <2>3. NewUUID \in UnusedVersions
    BY <2>2, VersionDraftingAssumption DEF NewUUID
  <2>4. PICK v \in UnusedVersions : v = NewUUID
    BY <2>3
  <2>5. PICK edition : edition = [version |-> v, status |-> "EDITING"]
    OBVIOUS
  <2>6. editions' = <<edition>>
    BY <1>1, <2>4, <2>5 DEF CreateGame
  <2>7. editions' = Append(editions, edition)
    BY <2>1, <2>6
  <2>8. UNCHANGED <<versions, currentVersion, releases, calls>>
    BY <1>1 DEF CreateGame, draftVars
  <2>9. QED
    BY <2>2, <2>5, <2>7, <2>8, EditionOpens
<1>2. ASSUME NEW k \in EditionKeys, OpenEdition(k)
      PROVE  PublishingInv'
  <2>1. NewUUID \in UnusedVersions
    BY <1>2 DEF OpenEdition, NewUUID
  <2>2. QED
    BY <1>2, <2>1, EditionOpens DEF OpenEdition, draftVars
<1>3. QED
  BY <1>1, <1>2

\* createDraft: the version of an edition, which Play did not have.
LEMMA EnsureDraftStep ==
  ASSUME PublishingInv, NEW e \in DOMAIN editions, EnsureDraft(e)
  PROVE  /\ PublishingInv'
         /\ \A v \in Versions : Executable(v) => versions'[v] = versions[v]
<1>1. RowsFit /\ EditionsHold /\ ReleasesHold /\ CurrentHolds
  BY DEF PublishingInv
<1>2. PICK v \in Versions : v = editions[e].version
  BY <1>1 DEF RowsFit, IsEdition
<1>3. /\ ~ Exists(v) /\ UNCHANGED <<editions, releases, currentVersion, calls>>
  BY <1>2 DEF EnsureDraft, CreateDraftVersion, gameVars
<1>4. PICK revs : versions' = [versions EXCEPT ![v] = [NoVersion EXCEPT !.status = "DRAFT", !.revs = revs]]
  BY <1>2 DEF EnsureDraft, CreateDraftVersion
<1>5. PICK row : row = [NoVersion EXCEPT !.status = "DRAFT", !.revs = revs]
  OBVIOUS
<1>6. IsVersion(row) /\ row.status = "DRAFT"
  BY <1>5 DEF NoVersion, IsVersion, VersionStatus
<1>7. versions' = [versions EXCEPT ![v] = row]
  BY <1>4, <1>5
<1>8. /\ versions'[v] = row /\ \A w \in Versions : w # v => versions'[w] = versions[w]
      /\ versions' = [w \in Versions |-> versions'[w]]
  BY <1>1, <1>7 DEF RowsFit
<1>9. \A w \in Versions : Executable(w)' <=> Executable(w)
  BY <1>3, <1>6, <1>8 DEF Executable, Exists
<1>10. RowsFit'
  BY <1>1, <1>3, <1>6, <1>8 DEF RowsFit
<1>11. /\ \A f \in DOMAIN editions : editions[f].version \in Versions
  BY <1>1 DEF RowsFit, IsEdition
<1>12. EditionsHold'
  <2>1. \A w \in Versions : Exists(w)' => Exists(w) \/ w = v
    BY <1>8 DEF Exists
  <2>2. QED
    BY <1>1, <1>2, <1>3, <1>9, <1>11, <2>1 DEF EditionsHold
<1>13. ReleasesHold'
  BY <1>1, <1>3 DEF ReleasesHold
<1>14. CallsFit'
  BY <1>3, <1>9, CallsFollow DEF CallsAreKept
<1>15. CurrentHolds'
  <2>1. Frozen' = Frozen
    BY <1>3, <1>9, <1>11 DEF Frozen
  <2>2. QED
    BY <1>1, <1>3, <2>1 DEF CurrentHolds
<1>16. \A w \in Versions : Executable(w) => versions'[w] = versions[w]
  BY <1>3, <1>8 DEF Executable, Exists
<1>17. QED
  BY <1>10, <1>12, <1>13, <1>14, <1>15, <1>16 DEF PublishingInv

\* A publication past its begin has its release.
LEMMA PublicationHasRelease ==
  ASSUME PublishingInv, NEW c \in Callers, calls[c].at \in {"freezing", "complete", "abandon"}
  PROVE  /\ calls[c].release \in DOMAIN releases
         /\ calls[c].at = "complete" => Executable(releases[calls[c].release].version)
<1>1. CallFits(calls[c])
  BY DEF PublishingInv, CallsFit
<1>2. QED
  BY <1>1 DEF CallFits, Idle, IsRequest, IsPublication

\* The version of the open edition is one.
LEMMA OpenVersionIsOne ==
  ASSUME PublishingInv, OpenEditions # {}
  PROVE  \E e \in DOMAIN editions : /\ editions[e].version = OpenVersion
                                    /\ OpenVersion \in Versions
                                    /\ editions[e].status = "EDITING"
<1>1. PICK e : e = CHOOSE o \in OpenEditions : TRUE
  OBVIOUS
<1>2. e \in DOMAIN editions /\ editions[e].status = "EDITING"
  BY <1>1 DEF OpenEditions, EditionsIn
<1>3. OpenVersion = editions[e].version /\ editions[e].version \in Versions
  BY <1>1, <1>2 DEF OpenVersion, PublishingInv, RowsFit, IsEdition
<1>4. QED
  BY <1>2, <1>3

\* BeginPublication: a release of the open edition, or one under way is
\* resumed.
LEMMA BeginPublicationStep ==
  ASSUME PublishingInv, NEW c \in Callers, BeginPublication(c)
  PROVE  PublishingInv' /\ versions' = versions
<1>1. /\ RowsFit /\ EditionsHold /\ ReleasesHold /\ CallsFit /\ CurrentHolds
      /\ UNCHANGED <<versions, currentVersion, editions>>
  BY DEF PublishingInv, BeginPublication
<1>2. PICK k : k = calls[c].key
  OBVIOUS
<1>3. PICK found : found = ReleasesWith(k) \cup PendingReleases
  OBVIOUS
<1>4. ASSUME UNCHANGED releases, NEW next, CallFits(next), calls' = [calls EXCEPT ![c] = next]
      PROVE  PublishingInv'
  <2>1. CallsGoOn
    BY <1>1, <1>4, OneGoesOn
  <2>2. Quiet
    BY <1>1, <1>4 DEF Quiet, RowsFit
  <2>3. QED
    BY <2>1, <2>2, QuietStep
<1>5. CASE found # {} /\ UNCHANGED releases
  <2>1. PICK r : r = CHOOSE q \in found : q \in ReleasesWith(k) \/ ReleasesWith(k) = {}
    OBVIOUS
  <2>2. r \in found
    <3>1. \E q \in found : q \in ReleasesWith(k) \/ ReleasesWith(k) = {}
      BY <1>3, <1>5
    <3>2. QED
      BY <2>1, <3>1
  <2>3. r \in DOMAIN releases
    BY <1>3, <2>2 DEF ReleasesWith, PendingReleases
  <2>4. calls' = [calls EXCEPT ![c] = IF releases[r].state = "pending" THEN PublishCall("freeze", r)
                                      ELSE Idle]
    BY <1>2, <1>3, <1>5, <2>1 DEF BeginPublication, GoesOn
  <2>5. CallFits(PublishCall("freeze", r)) /\ CallFits(Idle)
    BY <2>3, IdleFits DEF CallFits, IsPublication, PublishCall
  <2>6. QED
    BY <1>1, <1>4, <1>5, <2>4, <2>5
<1>6. CASE calls' = [calls EXCEPT ![c] = Idle] /\ UNCHANGED releases
  BY <1>1, <1>4, <1>6, IdleFits
<1>7. CASE found = {} /\ OpenEditions # {}
  <2>1. PICK e \in DOMAIN editions : editions[e].version = OpenVersion /\ OpenVersion \in Versions
    BY <1>7, OpenVersionIsOne
  <2>2. PICK v \in Versions : v = OpenVersion
    BY <2>1
  <2>3. PICK rev : rev = calls[c].revision
    OBVIOUS
  <2>4. PICK release : release = [key |-> k, version |-> v, revision |-> rev, state |-> "pending"]
    OBVIOUS
  <2>5. IsRelease(release) /\ release.version = v /\ release.state = "pending"
    BY <2>4 DEF IsRelease, ReleaseState
  <2>6. PICK new : new = Len(releases) + 1
    OBVIOUS
  <2>7. /\ releases' = Append(releases, release)
        /\ calls' = [calls EXCEPT ![c] = PublishCall("freeze", new)]
    BY <1>2, <1>3, <1>7, <2>2, <2>3, <2>4, <2>6 DEF BeginPublication, NewRelease, GoesOn
  <2>8. /\ IsSequence(releases') /\ DOMAIN releases' = DOMAIN releases \cup {new}
        /\ releases'[new] = release /\ \A r \in DOMAIN releases : releases'[r] = releases[r]
    <3>1. PICK s : s = releases
      OBVIOUS
    <3>2. PICK t : t = Append(s, release)
      OBVIOUS
    <3>3. IsSequence(s)
      BY <1>1, <3>1 DEF RowsFit, IsSequence
    <3>4. OneMore(t, s, release)
      BY <3>2, <3>3, Appended, Zenon
    <3>5. releases' = t
      BY <2>7, <3>1, <3>2
    <3>6. IsSequence(releases')
      BY <3>4, <3>5 DEF IsSequence, OneMore
    <3>7. QED
      BY <2>6, <3>1, <3>4, <3>5, <3>6 DEF OneMore
  <2>9. RowsFit'
    BY <1>1, <2>5, <2>8 DEF RowsFit
  <2>10. \A w : (Executable(w)' <=> Executable(w)) /\ (Exists(w)' <=> Exists(w))
    BY <1>1 DEF Executable, Exists
  <2>11. EditionsHold'
    BY <1>1, <2>10 DEF EditionsHold
  <2>12. ReleasesHold'
    BY <1>1, <2>1, <2>2, <2>5, <2>8 DEF ReleasesHold
  <2>13. CallFits(PublishCall("freeze", new))'
    BY <2>8 DEF CallFits, IsPublication, PublishCall
  <2>14. CallsFit'
    <3>1. CallsAreKept
      BY <2>8, <2>10 DEF CallsAreKept
    <3>2. PICK next : next = PublishCall("freeze", new)
      OBVIOUS
    <3>3. CallFits(next)' /\ calls' = [calls EXCEPT ![c] = next]
      BY <2>7, <2>8, <3>2 DEF CallFits, IsPublication, PublishCall
    <3>4. QED
      BY <3>1, <3>3, CallsFollow
  <2>15. CurrentHolds'
    <3>1. Frozen' = Frozen
      BY <1>1, <2>10 DEF Frozen
    <3>2. QED
      BY <1>1, <3>1 DEF CurrentHolds
  <2>16. QED
    BY <1>1, <2>9, <2>11, <2>12, <2>14, <2>15 DEF PublishingInv
<1>8. QED
  BY <1>1, <1>2, <1>3, <1>5, <1>6, <1>7 DEF BeginPublication, GoesOn

\* AbandonRelease: a pending release is refused for good.
LEMMA AbandonPublicationStep ==
  ASSUME PublishingInv, NEW c \in Callers, AbandonPublication(c)
  PROVE  PublishingInv' /\ versions' = versions
<1>1. /\ RowsFit /\ EditionsHold /\ ReleasesHold /\ CallsFit /\ CurrentHolds
      /\ UNCHANGED <<versions, currentVersion, editions>>
      /\ calls' = [calls EXCEPT ![c] = Idle]
  BY DEF PublishingInv, AbandonPublication, GoesOn
<1>2. PICK r \in DOMAIN releases : r = calls[c].release
  BY PublicationHasRelease DEF AbandonPublication
<1>3. CASE releases' = releases
  <2>1. CallsGoOn
    BY <1>1, IdleFits, OneGoesOn
  <2>2. Quiet
    BY <1>1, <1>3 DEF Quiet, RowsFit
  <2>3. QED
    BY <1>1, <2>1, <2>2, QuietStep
<1>4. CASE releases' = [releases EXCEPT ![r].state = "abandoned"]
  <2>1. PICK release : release = [releases[r] EXCEPT !.state = "abandoned"]
    OBVIOUS
  <2>2. IsRelease(release) /\ release.version = releases[r].version /\ release.state = "abandoned"
    BY <1>1, <2>1 DEF RowsFit, IsRelease, ReleaseState
  <2>3. /\ IsSequence(releases') /\ DOMAIN releases' = DOMAIN releases
        /\ releases'[r] = release /\ \A q \in DOMAIN releases : q # r => releases'[q] = releases[q]
    <3>1. PICK s : s = releases
      OBVIOUS
    <3>2. PICK t : t = [s EXCEPT ![r] = release]
      OBVIOUS
    <3>3. IsSequence(s) /\ r \in DOMAIN s
      BY <1>1, <3>1 DEF RowsFit, IsSequence
    <3>4. OneChanged(t, s, r, release)
      BY <3>2, <3>3, Replaced, Zenon
    <3>5. releases' = t
      BY <1>4, <2>1, <3>1, <3>2
    <3>6. IsSequence(releases')
      BY <3>4, <3>5 DEF IsSequence, OneChanged
    <3>7. QED
      BY <3>1, <3>4, <3>5, <3>6 DEF OneChanged
  <2>4. RowsFit'
    BY <1>1, <2>2, <2>3 DEF RowsFit
  <2>5. \A w : (Executable(w)' <=> Executable(w)) /\ (Exists(w)' <=> Exists(w))
    BY <1>1 DEF Executable, Exists
  <2>6. EditionsHold'
    BY <1>1, <2>5 DEF EditionsHold
  <2>7. ReleasesHold'
    BY <1>1, <2>2, <2>3 DEF ReleasesHold
  <2>8. CallsFit'
    <3>1. CallsAreKept
      BY <2>2, <2>3, <2>5 DEF CallsAreKept
    <3>2. CallFits(Idle)'
      BY DEF CallFits
    <3>3. QED
      BY <1>1, <3>1, <3>2, CallsFollow
  <2>9. CurrentHolds'
    <3>1. Frozen' = Frozen
      BY <1>1, <2>5 DEF Frozen
    <3>2. QED
      BY <1>1, <3>1 DEF CurrentHolds
  <2>10. QED
    BY <1>1, <2>4, <2>6, <2>7, <2>8, <2>9 DEF PublishingInv
<1>5. QED
  BY <1>2, <1>3, <1>4 DEF AbandonPublication, ReleaseEnds

\* FreezeVersion: the DRAFT of the open edition becomes executable, and what
\* new Sessions run.
LEMMA FreezeVersionStep ==
  ASSUME PublishingInv, NEW c \in Callers, FreezeVersion(c)
  PROVE  /\ PublishingInv'
         /\ \A v \in Versions : Executable(v) => versions'[v] = versions[v]
<1>1. /\ RowsFit /\ EditionsHold /\ ReleasesHold /\ CallsFit /\ CurrentHolds
      /\ UNCHANGED <<editions, releases>>
  BY DEF PublishingInv, FreezeVersion, gameVars
<1>2. PICK r \in DOMAIN releases : r = calls[c].release
  BY PublicationHasRelease DEF FreezeVersion
<1>3. PICK e \in DOMAIN editions : editions[e].version = releases[r].version
  BY <1>1 DEF ReleasesHold
<1>4. PICK v \in Versions : v = releases[r].version
  BY <1>1 DEF RowsFit, IsRelease
<1>5. FreezeCommits(v, releases[r].revision, calls[c].script)
  BY <1>2, <1>4 DEF FreezeVersion
<1>6. PICK script : script = calls[c].script
  OBVIOUS
<1>7. PICK delivered : delivered = DeliveredAssets(versions[v].revs[releases[r].revision])
  OBVIOUS
<1>8. /\ versions[v].status = "DRAFT" /\ currentVersion' = v
      /\ versions' = [versions EXCEPT ![v].status = "EXECUTABLE", ![v].script = script,
                                      ![v].delivered = delivered]
  BY <1>5, <1>6, <1>7 DEF FreezeCommits
<1>9. PICK row : row = [versions[v] EXCEPT !.status = "EXECUTABLE", !.script = script,
                                          !.delivered = delivered]
  OBVIOUS
<1>10. IsVersion(row) /\ row.status = "EXECUTABLE"
  <2>1. IsVersion(versions[v])
    BY <1>1 DEF RowsFit
  <2>2. row = [status |-> "EXECUTABLE", revs |-> versions[v].revs, script |-> script,
               delivered |-> delivered]
    BY <1>9, <2>1 DEF IsVersion
  <2>3. QED
    BY <2>2 DEF IsVersion, VersionStatus
<1>11. versions' = [versions EXCEPT ![v] = row]
  BY <1>1, <1>8, <1>9 DEF RowsFit
<1>12. /\ versions'[v] = row /\ \A w \in Versions : w # v => versions'[w] = versions[w]
       /\ versions' = [w \in Versions |-> versions'[w]]
  BY <1>1, <1>11 DEF RowsFit
<1>13. \A w \in Versions : (Executable(w)' <=> Executable(w) \/ w = v)
                          /\ (Exists(w)' <=> Exists(w))
  BY <1>8, <1>10, <1>12 DEF Executable, Exists
<1>14. \A f \in DOMAIN editions : editions[f].version \in Versions
  BY <1>1 DEF RowsFit, IsEdition
<1>15. /\ DOMAIN editions = 1..Len(editions) /\ Len(editions) \in Nat
  BY <1>1 DEF RowsFit, IsSequence
<1>16. e = Len(editions)
  <2>1. ~ Executable(editions[e].version)
    BY <1>3, <1>4, <1>8 DEF Executable
  <2>2. ~ (e < Len(editions))
    BY <1>1, <2>1 DEF EditionsHold
  <2>3. QED
    BY <1>15, <2>2
<1>17. RowsFit'
  BY <1>1, <1>10, <1>12 DEF RowsFit
<1>18. EditionsHold'
  BY <1>1, <1>13, <1>14 DEF EditionsHold
<1>19. ReleasesHold'
  BY <1>1 DEF ReleasesHold
<1>20. CallsFit'
  <2>1. CallsAreKept
    BY <1>1, <1>13 DEF CallsAreKept
  <2>2. PICK next : next = PublishCall("complete", r)
    OBVIOUS
  <2>3. calls' = [calls EXCEPT ![c] = next]
    BY <1>2, <2>2 DEF FreezeVersion, GoesOn
  <2>4. Executable(v)'
    BY <1>13
  <2>5. Executable(releases[r].version)'
    BY <1>1, <1>4, <2>4 DEF Executable
  <2>6. CallFits(next)'
    BY <1>1, <2>2, <2>5 DEF CallFits, IsPublication, PublishCall
  <2>7. QED
    BY <2>1, <2>3, <2>6, CallsFollow
<1>21. CurrentHolds'
  <2>1. e \in Frozen' /\ Frozen' \subseteq DOMAIN editions
    BY <1>1, <1>3, <1>4, <1>13 DEF Frozen
  <2>2. \A f \in Frozen' : f <= e
    BY <1>15, <1>16, <2>1
  <2>3. \A f \in Frozen' : e <= f => f = e
    BY <1>15, <1>16, <2>1
  <2>4. QED
    BY <1>1, <1>3, <1>4, <1>8, <2>1, <2>3 DEF CurrentHolds
<1>22. \A w \in Versions : Executable(w) => versions'[w] = versions[w]
  BY <1>8, <1>12 DEF Executable
<1>23. QED
  BY <1>17, <1>18, <1>19, <1>20, <1>21, <1>22 DEF PublishingInv

\* CompletePublication: the edition and its release end together, once Play
\* runs the version.
LEMMA CompletePublicationStep ==
  ASSUME PublishingInv, NEW c \in Callers, CompletePublication(c)
  PROVE  PublishingInv' /\ versions' = versions
<1>1. /\ RowsFit /\ EditionsHold /\ ReleasesHold /\ CallsFit /\ CurrentHolds
      /\ UNCHANGED <<versions, currentVersion>>
      /\ calls' = [calls EXCEPT ![c] = Idle]
  BY DEF PublishingInv, CompletePublication, GoesOn
<1>2. PICK r \in DOMAIN releases : r = calls[c].release /\ Executable(releases[r].version)
  BY PublicationHasRelease DEF CompletePublication
<1>3. CASE UNCHANGED <<releases, editions>>
  <2>1. CallsGoOn
    BY <1>1, IdleFits, OneGoesOn
  <2>2. Quiet
    BY <1>1, <1>3 DEF Quiet, RowsFit
  <2>3. QED
    BY <1>1, <2>1, <2>2, QuietStep
<1>4. CASE /\ releases' = [releases EXCEPT ![r].state = "completed"]
           /\ editions' = MarkPublished(EditionOf(r))
  <2>1. \E f \in DOMAIN editions : editions[f].version = releases[r].version
    BY <1>1 DEF ReleasesHold
  <2>2. PICK e \in DOMAIN editions : e = EditionOf(r) /\ editions[e].version = releases[r].version
    BY <2>1 DEF EditionOf
  <2>3. PICK release : release = [releases[r] EXCEPT !.state = "completed"]
    OBVIOUS
  <2>4. IsRelease(release) /\ release.version = releases[r].version
    BY <1>1, <2>3 DEF RowsFit, IsRelease, ReleaseState
  <2>5. PICK edition : edition = [editions[e] EXCEPT !.status = "PUBLISHED"]
    OBVIOUS
  <2>6. IsEdition(edition) /\ edition.version = editions[e].version /\ edition.status = "PUBLISHED"
    BY <1>1, <2>5 DEF RowsFit, IsEdition, EditionStatus
  <2>7. /\ IsSequence(releases') /\ DOMAIN releases' = DOMAIN releases
        /\ releases'[r] = release /\ \A q \in DOMAIN releases : q # r => releases'[q] = releases[q]
    <3>1. PICK s : s = releases
      OBVIOUS
    <3>2. PICK t : t = [s EXCEPT ![r] = release]
      OBVIOUS
    <3>3. IsSequence(s) /\ r \in DOMAIN s
      BY <1>1, <3>1 DEF RowsFit, IsSequence
    <3>4. OneChanged(t, s, r, release)
      BY <3>2, <3>3, Replaced, Zenon
    <3>5. releases' = t
      BY <1>4, <2>3, <3>1, <3>2
    <3>6. IsSequence(releases')
      BY <3>4, <3>5 DEF IsSequence, OneChanged
    <3>7. QED
      BY <3>1, <3>4, <3>5, <3>6 DEF OneChanged
  <2>8. /\ IsSequence(editions') /\ DOMAIN editions' = DOMAIN editions /\ Len(editions') = Len(editions)
        /\ editions'[e] = edition /\ \A f \in DOMAIN editions : f # e => editions'[f] = editions[f]
    <3>1. PICK s : s = editions
      OBVIOUS
    <3>2. PICK t : t = [s EXCEPT ![e] = edition]
      OBVIOUS
    <3>3. IsSequence(s) /\ e \in DOMAIN s
      BY <1>1, <3>1 DEF RowsFit, IsSequence
    <3>4. OneChanged(t, s, e, edition)
      BY <3>2, <3>3, Replaced, Zenon
    <3>5. editions' = t
      BY <1>4, <2>2, <2>5, <3>1, <3>2 DEF MarkPublished
    <3>6. IsSequence(editions')
      BY <3>4, <3>5 DEF IsSequence, OneChanged
    <3>7. QED
      BY <3>1, <3>4, <3>5, <3>6 DEF OneChanged
  <2>9. RowsFit'
    BY <1>1, <2>4, <2>6, <2>7, <2>8 DEF RowsFit
  <2>10. \A w : (Executable(w)' <=> Executable(w)) /\ (Exists(w)' <=> Exists(w))
    BY <1>1 DEF Executable, Exists
  <2>11. \A f \in DOMAIN editions : /\ editions'[f].version = editions[f].version
                                    /\ editions[f].status = "PUBLISHED" => editions'[f].status = "PUBLISHED"
                                    /\ f # e => editions'[f].status = editions[f].status
    BY <2>6, <2>8
  <2>12. EditionsHold'
    <3>1. \A f, g \in DOMAIN editions' : editions'[f].version = editions'[g].version => f = g
      BY <1>1, <2>8, <2>11 DEF EditionsHold
    <3>2. \A f \in DOMAIN editions' : f < Len(editions') => editions'[f].status = "PUBLISHED"
      BY <1>1, <2>8, <2>11 DEF EditionsHold
    <3>3. \A f \in DOMAIN editions' : editions'[f].status = "PUBLISHED" => Executable(editions'[f].version)
      <4>1. TAKE f \in DOMAIN editions'
      <4>2. PICK v : v = editions'[f].version
        OBVIOUS
      <4>3. Executable(editions[e].version)
        BY <1>2, <2>2
      <4>4. v = editions[f].version
        BY <2>8, <2>11, <4>2
      <4>5. editions'[f].status = "PUBLISHED" => Executable(v)
        BY <1>1, <2>8, <2>11, <4>3, <4>4 DEF EditionsHold
      <4>6. QED
        BY <2>10, <4>2, <4>5
    <3>4. \A v \in Versions : Exists(v)' => \E f \in DOMAIN editions' : editions'[f].version = v
      BY <1>1, <2>8, <2>10, <2>11 DEF EditionsHold
    <3>5. QED
      BY <2>10, <3>1, <3>2, <3>3, <3>4 DEF EditionsHold
  <2>13. ReleasesHold'
    <3>1. \A q \in DOMAIN releases' :
            \E f \in DOMAIN editions' :
              /\ editions'[f].version = releases'[q].version
              /\ releases'[q].state = "completed" => editions'[f].status = "PUBLISHED"
      <4>1. ASSUME NEW q \in DOMAIN releases, q # r
            PROVE  \E f \in DOMAIN editions' :
                     /\ editions'[f].version = releases'[q].version
                     /\ releases'[q].state = "completed" => editions'[f].status = "PUBLISHED"
        <5>1. PICK f \in DOMAIN editions : /\ editions[f].version = releases[q].version
                                           /\ releases[q].state = "completed" => editions[f].status = "PUBLISHED"
          BY <1>1, <4>1 DEF ReleasesHold
        <5>2. releases'[q] = releases[q]
          BY <2>7, <4>1
        <5>3. QED
          BY <2>8, <2>11, <5>1, <5>2
      <4>2. /\ editions'[e].version = releases'[r].version /\ editions'[e].status = "PUBLISHED"
        BY <2>2, <2>4, <2>6, <2>7, <2>8
      <4>3. QED
        BY <2>7, <2>8, <4>1, <4>2
    <3>2. QED
      BY <3>1 DEF ReleasesHold
  <2>14. CallsFit'
    <3>1. CallsAreKept
      BY <2>4, <2>7, <2>10 DEF CallsAreKept
    <3>2. CallFits(Idle)'
      BY DEF CallFits
    <3>3. QED
      BY <1>1, <3>1, <3>2, CallsFollow
  <2>15. CurrentHolds'
    <3>1. Frozen' = Frozen
      BY <2>8, <2>10, <2>11 DEF Frozen
    <3>2. Frozen \subseteq DOMAIN editions
      BY DEF Frozen
    <3>3. QED
      <4>1. \A f \in Frozen : editions'[f].version = editions[f].version
        BY <2>11, <3>2
      <4>2. QED
        BY <1>1, <3>1, <4>1 DEF CurrentHolds
  <2>16. QED
    BY <1>1, <2>9, <2>12, <2>13, <2>14, <2>15 DEF PublishingInv
<1>5. QED
  <2>1. PICK s : s = ReleaseEnds(r, "completed")
    OBVIOUS
  <2>2. PICK t : t = MarkPublished(EditionOf(r))
    OBVIOUS
  <2>3. \/ UNCHANGED <<releases, editions>>
        \/ releases[r].state = "pending" /\ releases' = s /\ editions' = t
    BY <1>2, <2>1, <2>2 DEF CompletePublication
  <2>4. releases[r].state = "pending" => s = [releases EXCEPT ![r].state = "completed"]
    BY <2>1 DEF ReleaseEnds
  <2>5. QED
    BY <1>3, <1>4, <2>2, <2>3, <2>4

\* Nothing is opened, released, asked or executable at first.
LEMMA NothingAtFirst ==
  ASSUME Init
  PROVE  PublishingInv
<1>1. /\ versions = [v \in Versions |-> NoVersion] /\ currentVersion = Nothing
      /\ editions = <<>> /\ releases = <<>> /\ calls = [c \in Callers |-> Idle]
  BY DEF Init, DraftInit
<1>2. IsVersion(NoVersion) /\ NoVersion.status = "NONE"
  BY DEF NoVersion, IsVersion, VersionStatus
<1>3. IsSequence(<<>>) /\ DOMAIN <<>> = {}
  BY DEF IsSequence
<1>4. \A v \in Versions : ~ Exists(v)
  BY <1>1, <1>2 DEF Exists
<1>5. DOMAIN editions = {} /\ DOMAIN releases = {}
  BY <1>1, <1>3
<1>6. RowsFit
  <2>1. IsSequence(editions) /\ IsSequence(releases)
    BY <1>1, <1>3 DEF IsSequence
  <2>2. QED
    BY <1>1, <1>2, <1>5, <2>1 DEF RowsFit
<1>7. EditionsHold /\ ReleasesHold
  BY <1>4, <1>5 DEF EditionsHold, ReleasesHold
<1>8. CallsFit
  BY <1>1, IdleFits DEF CallsFit
<1>9. CurrentHolds
  BY <1>1, <1>5 DEF CurrentHolds, Frozen
<1>10. QED
  BY <1>6, <1>7, <1>8, <1>9 DEF PublishingInv

\* Every step keeps the invariant, and every executable version.
LEMMA PublishingNext ==
  ASSUME PublishingInv, Next
  PROVE  /\ PublishingInv'
         /\ \A v \in Versions : Executable(v) => versions'[v] = versions[v]
<1>1. ASSUME CreateGame \/ \E k \in EditionKeys : OpenEdition(k)
      PROVE  PublishingInv' /\ versions' = versions
  <2>1. PublishingInv'
    BY <1>1, OpeningStep
  <2>2. QED
    BY <1>1, <2>1 DEF CreateGame, OpenEdition, draftVars
<1>2. ASSUME NEW e \in DOMAIN editions, EnsureDraft(e)
      PROVE  /\ PublishingInv'
             /\ \A v \in Versions : Executable(v) => versions'[v] = versions[v]
  BY <1>2, EnsureDraftStep
<1>3. ASSUME up /\ DraftRequests /\ UNCHANGED <<buildVars, gameVars>>
      PROVE  PublishingInv' /\ versions' = versions
  BY <1>3, RequestsStep
<1>4. ASSUME NEW c \in Callers, UNCHANGED <<buildVars, gameVars>>,
             CommitDecision(c) \/ LoseRace(c) \/ RegisterAsset(c) \/ StoreAsset(c) \/ AttachAsset(c)
      PROVE  PublishingInv' /\ versions' = versions
  <2>1. PublishingInv'
    BY <1>4, DecidingStep
  <2>2. QED
    BY <1>4, <2>1 DEF CommitDecision, LoseRace, RegisterAsset, StoreAsset, AttachAsset
<1>5. ASSUME NEW c \in Callers, CommitRevision(c), UNCHANGED <<buildVars, gameVars>>
      PROVE  /\ PublishingInv'
             /\ \A v \in Versions : Executable(v) => versions'[v] = versions[v]
  BY <1>5, CommitRevisionStep
<1>6. ASSUME NEW c \in Callers, (\E k \in PublishKeys : CheckPublication(c, k)) \/ ResumePublication(c)
                                \/ FreezeReads(c)
      PROVE  PublishingInv' /\ versions' = versions
  BY <1>6, PublicationGoesOn
<1>7. ASSUME NEW c \in Callers, BeginPublication(c) \/ CompletePublication(c) \/ AbandonPublication(c)
      PROVE  PublishingInv' /\ versions' = versions
  BY <1>7, BeginPublicationStep, CompletePublicationStep, AbandonPublicationStep
<1>8. ASSUME NEW c \in Callers, FreezeVersion(c)
      PROVE  /\ PublishingInv'
             /\ \A v \in Versions : Executable(v) => versions'[v] = versions[v]
  BY <1>8, FreezeVersionStep
<1>9. ASSUME CleanAfterPublication
               \/ \E o \in cleaning, marked \in BOOLEAN :
                    DeleteUnused(o, marked) /\ UNCHANGED <<buildVars, gameVars>>
      PROVE  PublishingInv' /\ versions' = versions
  <2>1. UNCHANGED <<versions, currentVersion, calls, gameVars>>
    BY <1>9 DEF CleanAfterPublication, CleanUnusedObjects, DeleteUnused
  <2>2. QED
    BY <2>1, KeptIsQuiet, QuietStep
<1>10. ASSUME BuildNext, UNCHANGED gameVars
       PROVE  PublishingInv' /\ versions' = versions
  BY <1>10, BuildStep
<1>11. ASSUME DraftSteps, UNCHANGED <<buildVars, gameVars>>
       PROVE  /\ PublishingInv'
              /\ \A v \in Versions : Executable(v) => versions'[v] = versions[v]
  BY <1>4, <1>5, <1>11 DEF DraftSteps
<1>12. ASSUME NEW c \in Callers, ResumePublication(c) \/ PublishSteps(c)
       PROVE  /\ PublishingInv'
              /\ \A v \in Versions : Executable(v) => versions'[v] = versions[v]
  BY <1>6, <1>7, <1>8, <1>12 DEF PublishSteps
<1>13. QED
  BY <1>1, <1>2, <1>3, <1>6, <1>9, <1>10, <1>11, <1>12 DEF Next

\* The invariant holds of every behaviour.
THEOREM PublishingInvariant == Spec => []PublishingInv
<1>1. Init => PublishingInv
  BY NothingAtFirst
<1>2. PublishingInv /\ [Next]_vars => PublishingInv'
  <2>1. SUFFICES ASSUME PublishingInv, [Next]_vars
                 PROVE  PublishingInv'
    OBVIOUS
  <2>2. CASE Next
    BY <2>1, <2>2, PublishingNext
  <2>3. CASE UNCHANGED vars
    <3>1. UNCHANGED <<versions, currentVersion, calls, gameVars>>
      BY <2>3 DEF vars, draftVars
    <3>2. QED
      BY <2>1, <3>1, KeptIsQuiet, QuietStep
  <2>4. QED
    BY <2>1, <2>2, <2>3
<1>3. QED
  BY <1>1, <1>2, PTL DEF Spec

\* What Game Management and Play keep agrees: completed releases run, and the
\* one DRAFT is that of the open edition.
LEMMA DomainsAgreeByInvariant ==
  ASSUME PublishingInv
  PROVE  DomainsAgree
<1>1. RowsFit /\ EditionsHold /\ ReleasesHold
  BY DEF PublishingInv
<1>2. ASSUME NEW r \in DOMAIN releases, releases[r].state = "completed"
      PROVE  /\ versions[releases[r].version].status = "EXECUTABLE"
             /\ editions[EditionOf(r)].status = "PUBLISHED"
  <2>1. PICK e \in DOMAIN editions : /\ editions[e].version = releases[r].version
                                     /\ editions[e].status = "PUBLISHED"
    BY <1>1, <1>2 DEF ReleasesHold
  <2>2. \A f \in DOMAIN editions : editions[f].version = releases[r].version => f = e
    BY <1>1, <2>1 DEF EditionsHold
  <2>3. EditionOf(r) = e
    BY <2>1, <2>2 DEF EditionOf
  <2>4. QED
    BY <1>1, <2>1, <2>3 DEF EditionsHold, Executable
<1>3. ASSUME NEW v \in Versions, versions[v].status = "DRAFT"
      PROVE  OpenEditions # {} /\ OpenVersion = v
  <2>1. PICK e \in DOMAIN editions : editions[e].version = v
    BY <1>1, <1>3 DEF EditionsHold, Exists
  <2>2. editions[e].status = "EDITING"
    BY <1>1, <1>3, <2>1 DEF EditionsHold, Executable, RowsFit, IsEdition, EditionStatus
  <2>3. e \in OpenEditions
    BY <2>2 DEF OpenEditions, EditionsIn
  <2>4. \A o \in OpenEditions : o = Len(editions)
    <3>1. TAKE o \in OpenEditions
    <3>2. o \in DOMAIN editions /\ editions[o].status # "PUBLISHED"
      BY DEF OpenEditions, EditionsIn
    <3>3. DOMAIN editions = 1..Len(editions) /\ Len(editions) \in Nat
      BY <1>1 DEF RowsFit, IsSequence
    <3>4. ~ (o < Len(editions))
      BY <1>1, <3>2 DEF EditionsHold
    <3>5. QED
      BY <3>2, <3>3, <3>4
  <2>5. (CHOOSE o \in OpenEditions : TRUE) = e
    BY <2>3, <2>4
  <2>6. QED
    BY <2>1, <2>3, <2>5 DEF OpenVersion
<1>4. QED
  BY <1>2, <1>3 DEF DomainsAgree

\* Play runs the newest version it froze, none older than a published one.
LEMMA NewestRunsByInvariant ==
  ASSUME PublishingInv
  PROVE  PlayersRunTheNewestRelease
<1>1. RowsFit /\ EditionsHold /\ CurrentHolds
  BY DEF PublishingInv
<1>2. PICK frozen : frozen = {e \in DOMAIN editions : versions[editions[e].version].status = "EXECUTABLE"}
  OBVIOUS
<1>3. frozen = Frozen
  BY <1>2 DEF Frozen, Executable
<1>4. EditionsIn("PUBLISHED") \subseteq frozen
  BY <1>1, <1>2 DEF EditionsIn, EditionsHold, Executable
<1>5. DOMAIN editions = 1..Len(editions) /\ Len(editions) \in Nat
  BY <1>1 DEF RowsFit, IsSequence
<1>6. ASSUME frozen # {}
      PROVE  currentVersion = editions[CHOOSE e \in frozen : \A f \in frozen : f <= e].version
  <2>1. \E m \in frozen : \A f \in frozen : f <= m
    <3>1. CASE Len(editions) \in frozen
      BY <1>2, <1>5, <3>1
    <3>2. CASE Len(editions) \notin frozen
      <4>1. \A f \in frozen : f \in 1..(Len(editions) - 1)
        BY <1>2, <1>5, <3>2
      <4>2. PICK last : last = Len(editions) - 1
        OBVIOUS
      <4>3. last \in DOMAIN editions /\ last < Len(editions)
        BY <1>5, <1>6, <4>1, <4>2
      <4>4. last \in frozen
        BY <1>1, <1>2, <4>3 DEF EditionsHold, Executable
      <4>5. QED
        BY <1>5, <4>1, <4>2, <4>4
    <3>3. QED
      BY <3>1, <3>2
  <2>2. PICK m \in frozen : m = CHOOSE e \in frozen : \A f \in frozen : f <= e
    BY <2>1
  <2>3. \A f \in frozen : f <= m
    BY <2>1, <2>2
  <2>4. currentVersion = editions[m].version
    BY <1>1, <1>3, <2>3 DEF CurrentHolds
  <2>5. QED
    BY <2>2, <2>4
<1>7. frozen = {} => currentVersion = Nothing
  BY <1>1, <1>3 DEF CurrentHolds
<1>8. QED
  BY <1>2, <1>4, <1>6, <1>7 DEF PlayersRunTheNewestRelease

\* PublishedOnce: wherever publishing stopped, the two domains agree and Play
\* runs the newest release (PublishVersion, finishRelease).
THEOREM DomainsStayAgreed == Spec => []PublishedOnce
<1>1. PublishingInv => PublishedOnce
  BY DomainsAgreeByInvariant, NewestRunsByInvariant DEF PublishedOnce
<1>2. QED
  BY <1>1, PublishingInvariant, PTL

\* FrozenForGood: a version never changes once executable (FreezeVersion).
THEOREM FrozenStaysFrozen == Spec => FrozenForGood
<1>1. PublishingInv /\ [Next]_vars =>
        [\A v \in Versions : versions[v].status = "EXECUTABLE" => versions'[v] = versions[v]]_vars
  BY PublishingNext DEF Executable
<1>2. QED
  BY <1>1, PublishingInvariant, PTL DEF Spec, FrozenForGood
-----------------------------------------------------------------------------
(***************************************************************************)
(* The drafts: a change is applied once, the newest revision is built, and *)
(* what is used is stored.                                                 *)
(***************************************************************************)
IsMap(f) == f = [x \in DOMAIN f |-> f[x]]

RevisionFits(rev) ==
  /\ rev = [files |-> rev.files, assets |-> rev.assets]
  /\ IsMap(rev.files) /\ IsMap(rev.assets)

RevisionsFit(v) ==
  /\ IsSequence(versions[v].revs)
  /\ Exists(v) <=> Current(v) > 0
  /\ \A rev \in 1..Current(v) : RevisionFits(versions[v].revs[rev])

VersionsFit == \A v \in Versions : RevisionsFit(v)

BuildFits(row) ==
  /\ row = [version |-> row.version, revision |-> row.revision, status |-> row.status,
            script |-> row.script]
  /\ row.version \in Versions /\ row.revision \in 1..Current(row.version)
  /\ row.status \in BuildStatus

BuildsFit == IsSequence(builds) /\ \A b \in DOMAIN builds : BuildFits(builds[b])

Attempt == [version : Versions, outcome : AttemptOutcome, revision : Nat]

AttemptsFit == attempts \in [IdempotencyKeys -> {Nothing} \cup Attempt]

ObjectFits(object) ==
  object \in [fresh : BOOLEAN, deleted : BOOLEAN, stored : BOOLEAN]

ObjectsFit == IsMap(objects) /\ \A o \in DOMAIN objects : ObjectFits(objects[o])

\* A request under way.
Asked(call) == call.op \in DraftOps

RequestFits(call) ==
  /\ call.key \in IdempotencyKeys
  /\ call.at # "deciding" => call.op = "upload"

RequestsFit == \A c \in Callers : Asked(calls[c]) => RequestFits(calls[c])

WorkerFits(worker) ==
  worker # Waiting =>
    /\ worker.at \in {"running", "storing", "ending"} /\ worker.build \in DOMAIN builds
    /\ worker.at = "ending" => worker.status \in {"SUCCEEDED", "FAILED"}

WorkersFit ==
  /\ workers = [w \in Workers |-> workers[w]]
  /\ \A w \in Workers : WorkerFits(workers[w])

DraftsFit ==
  VersionsFit /\ BuildsFit /\ AttemptsFit /\ ObjectsFit /\ RequestsFit /\ WorkersFit

\* A key is of one version's requests; one of them decides at a time, and only
\* while none of them was answered.
KeysHold ==
  \A c \in Callers : Asked(calls[c]) =>
    /\ attempts[calls[c].key] # Nothing => attempts[calls[c].key].version = calls[c].version
    /\ Deciding(c) => attempts[calls[c].key] = Nothing
    /\ \A d \in Callers : Asked(calls[d]) /\ calls[c].key = calls[d].key =>
         /\ calls[c].version = calls[d].version
         /\ Deciding(c) /\ Deciding(d) => c = d

\* The attempt that made revision rev of v.
Made(i, v, rev) ==
  HasAttempt(v, i) /\ attempts[i].outcome \in MadeRevision /\ attempts[i].revision = rev

\* Each revision but the first was made, by one attempt, and differs from the
\* one before it; an attempt that made a revision made one of those.
RevisionsAreMade ==
  /\ \A v \in Versions : \A rev \in 2..Current(v) :
       /\ \E i \in IdempotencyKeys : Made(i, v, rev)
       /\ ~SameRevision(versions[v].revs[rev], versions[v].revs[rev - 1])
  /\ \A i \in IdempotencyKeys : \A v \in Versions : \A rev \in Nat : Made(i, v, rev) =>
       /\ rev \in 2..Current(v)
       /\ \A j \in IdempotencyKeys : Made(j, v, rev) => i = j

\* Every revision has one build, and that of the newest is not superseded.
RevisionsAreBuilt ==
  /\ \A v \in Versions : \A rev \in 1..Current(v) : HasBuild(v, rev)
  /\ \A b, other \in DOMAIN builds :
       builds[b].version = builds[other].version /\ builds[b].revision = builds[other].revision
         => b = other
  /\ \A b \in DOMAIN builds :
       builds[b].revision = Current(builds[b].version) => builds[b].status # "SUPERSEDED"

\* No cleanup is about to delete o.
Spared(o) == o \notin cleaning

\* In the store, and staying there.
Kept(o) == Stored(o) /\ Spared(o)

\* Registered by an upload or a build that is not over: no cleanup takes it.
Claimed(o) ==
  o \in DOMAIN objects /\ objects[o].fresh /\ ~objects[o].deleted /\ Spared(o)

\* What a succeeded build of v stored.
Built(v, o) ==
  \E b \in DOMAIN builds : /\ builds[b].version = v /\ builds[b].status = "SUCCEEDED"
                           /\ builds[b].script = o

UploadsAreStored ==
  \A c \in Callers : calls[c].op = "upload" /\ calls[c].req.blob # Nothing =>
    /\ calls[c].at # "register" => Claimed(calls[c].req.blob)
    /\ calls[c].at \in {"attach", "deciding"} => Stored(calls[c].req.blob)

IsDraft(v) == versions[v].status = "DRAFT"

\* A build stores what it built before it ends, or takes what another stored.
EndIsStored(worker) ==
  worker.at = "ending" /\ worker.status = "SUCCEEDED" =>
    LET v == builds[worker.build].version IN
    IsDraft(v) => /\ Kept(worker.script)
                  /\ Claimed(worker.script) \/ Built(v, worker.script)

WorkersStore ==
  \A w \in Workers : /\ workers[w].at = "storing" => Claimed(workers[w].script)
                     /\ EndIsStored(workers[w])

BuildsAreStored ==
  \A v \in Versions : IsDraft(v) => \A o : Built(v, o) => Kept(o)

ScriptsAreStored == \A v \in Versions : Executable(v) => Kept(versions[v].script)

\* What a freeze checked still holds when it commits.
Checked(call) ==
  LET release == releases[call.release] IN
  /\ call.release \in DOMAIN releases
  /\ release.revision \in 1..Current(release.version)
  /\ Built(release.version, call.script)

FreezesHold == \A c \in Callers : calls[c].at = "freezing" => Checked(calls[c])

\* What revision rev of v binds without having copied it.
UploadedAt(v, rev) == Uploaded(v, versions[v].revs[rev].assets)

AssetsAreStored ==
  \A v \in Versions :
    /\ IsDraft(v) => \A rev \in 1..Current(v) : \A o \in UploadedAt(v, rev) : Kept(o)
    /\ Executable(v) => \A o \in Uploaded(v, versions[v].delivered) : Kept(o)

StoreHolds ==
  /\ UploadsAreStored /\ WorkersStore /\ BuildsAreStored /\ ScriptsAreStored
  /\ FreezesHold /\ AssetsAreStored

\* While the instance is down no worker runs, and what was left running runs
\* until it is requeued.
RunsHold ==
  /\ up \/ \A w \in Workers : workers[w] = Waiting
  /\ lost \subseteq RunningBuilds

\* Inductive.
DraftInv ==
  /\ PublishingInv /\ DraftsFit /\ KeysHold
  /\ RevisionsAreMade /\ RevisionsAreBuilt /\ RunningBuildsAreRun /\ RunsHold /\ StoreHolds

\* A table with the same rows renewed is as long.
LEMMA Renewed ==
  ASSUME NEW s, IsSequence(s), NEW t, t = [i \in DOMAIN s |-> t[i]]
  PROVE  /\ IsSequence(t) /\ Len(t) = Len(s)
         /\ DOMAIN s = 1..Len(s) /\ DOMAIN t = DOMAIN s
<1>1. PICK S : S = {t[i] : i \in DOMAIN s}
  OBVIOUS
<1>2. Len(s) \in Nat /\ DOMAIN s = 1..Len(s)
  BY DEF IsSequence
<1>3. t \in [1..Len(s) -> S]
  BY <1>1, <1>2
<1>4. t \in Seq(S)
  BY <1>2, <1>3, SeqDef
<1>5. Len(t) \in Nat /\ DOMAIN t = 1..Len(t) /\ t \in [1..Len(t) -> S]
  BY <1>4, LenProperties
<1>6. Len(t) = Len(s)
  BY <1>2, <1>3, <1>5
<1>7. QED
  BY <1>2, <1>3, <1>5, <1>6 DEF IsSequence

\* The builds of v that wait are superseded, and one of its revision rev waits.
Queues(v, rev) ==
  /\ IsSequence(builds') /\ Len(builds) \in Nat
  /\ DOMAIN builds = 1..Len(builds) /\ DOMAIN builds' = DOMAIN builds \cup {Len(builds) + 1}
  /\ builds'[Len(builds) + 1] =
       [version |-> v, revision |-> rev, status |-> "QUEUED", script |-> Nothing]
  /\ \A b \in DOMAIN builds :
       builds'[b] = IF builds[b].version = v /\ builds[b].status = "QUEUED"
                    THEN [builds[b] EXCEPT !.status = "SUPERSEDED"] ELSE builds[b]

\* QueueBuild appends a build and supersedes those that waited.
LEMMA QueueBuildQueues ==
  ASSUME BuildsFit, NEW v, NEW rev, builds' = QueueBuild(v, rev)
  PROVE  Queues(v, rev)
<1>1. PICK row : row = [version |-> v, revision |-> rev, status |-> "QUEUED", script |-> Nothing]
  OBVIOUS
<1>2. PICK s : s = [b \in DOMAIN builds |->
                      IF builds[b].version = v /\ builds[b].status = "QUEUED"
                      THEN [builds[b] EXCEPT !.status = "SUPERSEDED"] ELSE builds[b]]
  OBVIOUS
<1>3. s = [b \in DOMAIN builds |-> s[b]]
  BY <1>2
<1>4. PICK old : old = builds
  OBVIOUS
<1>5. IsSequence(old) /\ s = [b \in DOMAIN old |-> s[b]]
  BY <1>3, <1>4 DEF BuildsFit, IsSequence
<1>6. IsSequence(s) /\ Len(s) = Len(old) /\ DOMAIN old = 1..Len(old) /\ DOMAIN s = DOMAIN old
  BY <1>5, Renewed
<1>7. PICK t : t = Append(s, row)
  OBVIOUS
<1>8. OneMore(t, s, row)
  BY <1>6, <1>7, Appended, Zenon
<1>9. builds' = t
  BY <1>1, <1>2, <1>7 DEF QueueBuild
<1>10. IsSequence(builds')
  BY <1>8, <1>9 DEF IsSequence, OneMore
<1>11. \A b \in DOMAIN s : builds'[b] = s[b]
  BY <1>8, <1>9 DEF OneMore
<1>12. /\ Len(builds) \in Nat /\ DOMAIN builds = 1..Len(builds)
       /\ DOMAIN builds' = DOMAIN builds \cup {Len(builds) + 1}
       /\ builds'[Len(builds) + 1] = row
  BY <1>4, <1>6, <1>8, <1>9 DEF OneMore
<1>13. QED
  BY <1>1, <1>2, <1>4, <1>6, <1>10, <1>11, <1>12 DEF Queues

\* What an edition starts from is a version, if anything.
LEMMA BaseIsAVersion ==
  ASSUME PublishingInv, NEW e \in DOMAIN editions, BaseVersion(e) # Nothing
  PROVE  BaseVersion(e) \in Versions
<1>1. PICK published : published = {p \in EditionsIn("PUBLISHED") : p < e}
  OBVIOUS
<1>2. DOMAIN editions = 1..Len(editions) /\ Len(editions) \in Nat
  BY DEF PublishingInv, RowsFit, IsSequence
<1>3. published \subseteq DOMAIN editions /\ published # {}
  BY <1>1 DEF BaseVersion, EditionsIn
<1>4. PICK last : last = e - 1
  OBVIOUS
<1>5. last \in published /\ \A q \in published : q <= last
  <2>1. \A q \in published : q \in 1..last
    BY <1>1, <1>2, <1>3, <1>4
  <2>2. last \in DOMAIN editions /\ last < Len(editions) /\ last < e
    BY <1>2, <1>3, <1>4, <2>1
  <2>3. last \in published
    BY <1>1, <2>2 DEF EditionsIn, PublishingInv, EditionsHold
  <2>4. QED
    BY <1>2, <1>4, <2>1, <2>3
<1>6. PICK p : p = CHOOSE x \in published : \A q \in published : q <= x
  OBVIOUS
<1>7. p \in DOMAIN editions
  BY <1>3, <1>5, <1>6
<1>8. BaseVersion(e) = editions[p].version
  BY <1>1, <1>3, <1>6 DEF BaseVersion
<1>9. QED
  BY <1>7, <1>8 DEF PublishingInv, RowsFit, IsEdition

\* The first revision of a version fits.
LEMMA FirstFits ==
  ASSUME VersionsFit, NEW from, from # Nothing => from \in Versions /\ Executable(from)
  PROVE  RevisionFits(FirstRevision(from))
<1>1. CASE from = Nothing
  <2>1. IsMap(Template) /\ IsMap(NoFiles)
    BY DEF IsMap, Template, NoFiles
  <2>2. PICK template : template = Template
    OBVIOUS
  <2>3. PICK none : none = NoFiles
    OBVIOUS
  <2>4. FirstRevision(from) = [files |-> template, assets |-> none]
    BY <1>1, <2>2, <2>3 DEF FirstRevision
  <2>5. QED
    BY <2>1, <2>2, <2>3, <2>4 DEF RevisionFits
<1>2. CASE from # Nothing
  <2>1. RevisionsFit(from) /\ Exists(from)
    BY <1>2 DEF VersionsFit, Executable, Exists
  <2>2. Current(from) \in 1..Current(from)
    BY <2>1 DEF RevisionsFit, IsSequence, Current
  <2>3. QED
    BY <1>2, <2>1, <2>2 DEF FirstRevision, RevisionsFit
<1>3. QED
  BY <1>1, <1>2

\* What a change of the sources makes of files is files.
LEMMA AppliedIsMap ==
  ASSUME NEW current, NEW writes, NEW deletes, Apply(current, writes, deletes) # Refused
  PROVE  IsMap(Apply(current, writes, deletes))
<1>1. PICK written : written = [j \in DOMAIN writes |-> writes[j].path]
  OBVIOUS
<1>2. PICK next : next = [p \in (DOMAIN current \cup Range(written)) \ Range(deletes) |->
                            IF p \in Range(written)
                            THEN writes[CHOOSE j \in DOMAIN writes : writes[j].path = p].content
                            ELSE current[p]]
  OBVIOUS
<1>3. IsMap(next)
  BY <1>2 DEF IsMap
<1>4. Apply(current, writes, deletes) \in {next, Refused}
  BY <1>1, <1>2 DEF Apply
<1>5. QED
  BY <1>3, <1>4

\* A revision with other files, or other assets, fits.
LEMMA ChangedFits ==
  ASSUME NEW rev, RevisionFits(rev), NEW x, IsMap(x), NEW next,
         next = [rev EXCEPT !.files = x] \/ next = [rev EXCEPT !.assets = x]
  PROVE  /\ RevisionFits(next)
         /\ next = [rev EXCEPT !.files = x] => next.files = x /\ next.assets = rev.assets
         /\ next = [rev EXCEPT !.assets = x] => next.assets = x /\ next.files = rev.files
<1>1. PICK files : files = rev.files
  OBVIOUS
<1>2. PICK assets : assets = rev.assets
  OBVIOUS
<1>3. rev = [files |-> files, assets |-> assets]
  BY <1>1, <1>2 DEF RevisionFits
<1>4. /\ [rev EXCEPT !.files = x] = [files |-> x, assets |-> assets]
      /\ [rev EXCEPT !.assets = x] = [files |-> files, assets |-> x]
  BY <1>3
<1>5. IsMap(files) /\ IsMap(assets)
  BY <1>1, <1>2 DEF RevisionFits
<1>6. next = [files |-> x, assets |-> assets] \/ next = [files |-> files, assets |-> x]
  BY <1>4
<1>7. RevisionFits(next)
  BY <1>5, <1>6 DEF RevisionFits
<1>8. QED
  BY <1>1, <1>2, <1>4, <1>7

\* A change of the sources that makes a revision changes the files only.
LEMMA DecideChangeMakes ==
  ASSUME NEW v, NEW seen, NEW req, NEW decided, decided = DecideChange(v, seen, req),
         decided.outcome \in MadeRevision,
         NEW rev, rev = versions[v].revs[seen.current], RevisionFits(rev)
  PROVE  /\ RevisionFits(decided.next)
         /\ decided.next.assets = rev.assets /\ decided.next.files # rev.files
<1>1. PICK edited : edited = ResolveEdits(rev.files, req.change.edits)
  OBVIOUS
<1>2. PICK writes : writes = req.change.files \o edited
  OBVIOUS
<1>3. PICK applied : applied = IF edited = Refused THEN Refused
                               ELSE Apply(rev.files, writes, req.change.delete)
  OBVIOUS
<1>4. PICK next : next = [rev EXCEPT !.files = applied]
  OBVIOUS
<1>5. \/ decided \in {Decided("not_editable"), Decided("conflict"), Decided("invalid"),
                      Decided("unchanged")}
      \/ applied # Refused /\ rev.files # applied /\ decided = Makes("applied", next)
  BY <1>1, <1>2, <1>3, <1>4 DEF DecideChange, SameFiles
<1>6. applied # Refused /\ rev.files # applied /\ decided.next = next
  BY <1>5 DEF Decided, Makes, MadeRevision
<1>7. IsMap(applied)
  BY <1>3, <1>6, AppliedIsMap
<1>8. RevisionFits(next) /\ next.files = applied /\ next.assets = rev.assets
  BY <1>4, <1>7, ChangedFits
<1>9. QED
  BY <1>6, <1>8

\* Another revision is restored only over one it differs from.
LEMMA DecideRestoreMakes ==
  ASSUME NEW v, NEW seen, NEW req, NEW decided, decided = DecideRestore(v, seen, req),
         decided.outcome \in MadeRevision
  PROVE  /\ req.revision \in DOMAIN versions[v].revs
         /\ decided.next = versions[v].revs[req.revision]
         /\ ~SameRevision(decided.next, versions[v].revs[seen.current])
<1>1. PICK next : next = versions[v].revs[req.revision]
  OBVIOUS
<1>2. \/ decided \in {Decided("not_editable"), Decided("conflict"), Decided("invalid"),
                      Decided("unchanged")}
      \/ /\ req.revision \in DOMAIN versions[v].revs
         /\ ~SameRevision(versions[v].revs[seen.current], next)
         /\ decided = Makes("applied", next)
  BY <1>1 DEF DecideRestore
<1>3. decided \notin {Decided("not_editable"), Decided("conflict"), Decided("invalid"),
                      Decided("unchanged")}
  BY DEF Decided, MadeRevision
<1>4. decided.next = next
  BY <1>2, <1>3 DEF Makes
<1>5. QED
  BY <1>1, <1>2, <1>3, <1>4 DEF SameRevision, SameFiles

\* Removing an asset unbinds it, which was bound.
LEMMA DecideRemoveMakes ==
  ASSUME NEW v, NEW seen, NEW req, NEW decided, decided = DecideRemove(v, seen, req),
         decided.outcome \in MadeRevision,
         NEW rev, rev = versions[v].revs[seen.current], RevisionFits(rev)
  PROVE  /\ RevisionFits(decided.next)
         /\ decided.next.assets # rev.assets
         /\ Range(decided.next.assets) \subseteq Range(rev.assets)
<1>1. PICK left : left = [k \in DOMAIN rev.assets \ {req.asset} |-> rev.assets[k]]
  OBVIOUS
<1>2. PICK next : next = [rev EXCEPT !.assets = left]
  OBVIOUS
<1>3. \/ decided \in {Decided("not_editable"), Decided("unchanged")}
      \/ req.asset \in DOMAIN rev.assets /\ decided = Makes("removed", next)
  BY <1>1, <1>2 DEF DecideRemove
<1>4. req.asset \in DOMAIN rev.assets /\ decided.next = next
  BY <1>3 DEF Decided, Makes, MadeRevision
<1>5. IsMap(left) /\ left # rev.assets
  <2>1. DOMAIN left = DOMAIN rev.assets \ {req.asset}
    BY <1>1
  <2>2. IsMap(left)
    BY <1>1 DEF IsMap
  <2>3. QED
    BY <1>4, <2>1, <2>2
<1>6. Range(left) \subseteq Range(rev.assets)
  BY <1>1 DEF Range
<1>7. decided.next.assets = left /\ RevisionFits(decided.next)
  BY <1>2, <1>4, <1>5, ChangedFits
<1>8. QED
  BY <1>5, <1>6, <1>7

\* Attaching an asset binds its content, which was not bound to it.
LEMMA DecideAttachMakes ==
  ASSUME NEW v, NEW seen, NEW req, NEW decided, decided = DecideAttach(v, seen, req),
         decided.outcome \in MadeRevision,
         NEW rev, rev = versions[v].revs[seen.current], RevisionFits(rev)
  PROVE  /\ RevisionFits(decided.next)
         /\ decided.next.assets # rev.assets
         /\ Range(decided.next.assets) \subseteq Range(rev.assets) \cup {req.blob}
         /\ req.blob # Nothing
<1>1. PICK bound : bound = [k \in DOMAIN rev.assets \cup {req.asset} |->
                              IF k = req.asset THEN req.blob ELSE rev.assets[k]]
  OBVIOUS
<1>2. PICK next : next = [rev EXCEPT !.assets = bound]
  OBVIOUS
<1>3. \/ decided \in {Decided("not_editable"), Decided("not_declared"), Decided("unchanged"),
                       Decided("invalid")}
      \/ /\ req.blob # Nothing
         /\ ~(req.asset \in DOMAIN rev.assets /\ rev.assets[req.asset] = req.blob)
         /\ decided = Makes("attached", next)
  BY <1>1, <1>2 DEF DecideAttach
<1>4. /\ req.blob # Nothing
      /\ ~(req.asset \in DOMAIN rev.assets /\ rev.assets[req.asset] = req.blob)
      /\ decided.next = next
  BY <1>3 DEF Decided, Makes, MadeRevision
<1>5. IsMap(bound) /\ bound # rev.assets
  <2>1. req.asset \in DOMAIN bound /\ bound[req.asset] = req.blob
    BY <1>1
  <2>2. IsMap(bound)
    BY <1>1 DEF IsMap
  <2>3. QED
    BY <1>4, <2>1, <2>2
<1>6. Range(bound) \subseteq Range(rev.assets) \cup {req.blob}
  BY <1>1 DEF Range
<1>7. decided.next.assets = bound /\ RevisionFits(decided.next)
  BY <1>2, <1>4, <1>5, ChangedFits
<1>8. QED
  BY <1>4, <1>5, <1>6, <1>7

\* Bound by some revision of v.
Bound(v, o) == \E rev \in 1..Current(v) : o \in Range(versions[v].revs[rev].assets)

\* A request that may advance its version makes a revision that differs from
\* the current one, and binds only what v bound before or what it uploads.
LEMMA DecidedRevision ==
  ASSUME PublishingInv, VersionsFit, NEW c \in Callers, Deciding(c), CanAdvance(calls[c]),
         NEW v, v = calls[c].version,
         NEW decided, decided = Decide(calls[c]), decided.outcome \in MadeRevision
  PROVE  /\ v \in Versions /\ IsDraft(v) /\ Exists(v) /\ Current(v) \in Nat /\ Current(v) > 0
         /\ RevisionFits(decided.next)
         /\ ~SameRevision(decided.next, versions[v].revs[Current(v)])
         /\ \A o \in Range(decided.next.assets) :
              Bound(v, o) \/ (calls[c].op = "upload" /\ o = calls[c].req.blob /\ o # Nothing)
<1>1. PICK call : call = calls[c]
  OBVIOUS
<1>2. PICK seen : seen = call.seen
  OBVIOUS
<1>3. PICK current : current = Current(v)
  OBVIOUS
<1>4. IsRequest(call) /\ call.op \in DraftOps
  BY <1>1, RequestGoesOn DEF Deciding
<1>5. v \in Versions /\ IsDraft(v) /\ Exists(v) /\ call.version = v /\ seen.current = current
  BY <1>1, <1>2, <1>3, <1>4 DEF IsRequest, CanAdvance, IsDraft, Exists
<1>6. RevisionsFit(v) /\ current \in Nat /\ current > 0
  BY <1>3, <1>5 DEF VersionsFit, RevisionsFit, IsSequence, Current
<1>7. PICK rev : rev = versions[v].revs[current]
  OBVIOUS
<1>8. RevisionFits(rev) /\ \A o \in Range(rev.assets) : Bound(v, o)
  BY <1>3, <1>6, <1>7 DEF RevisionsFit, Bound
<1>9. rev = versions[v].revs[seen.current]
  BY <1>5, <1>7
<1>10. PICK req : req = call.req
  OBVIOUS
<1>11. /\ RevisionFits(decided.next)
       /\ ~SameRevision(decided.next, rev)
       /\ \A o \in Range(decided.next.assets) :
            Bound(v, o) \/ (call.op = "upload" /\ o = req.blob /\ o # Nothing)
  <2>1. CASE call.op = "change"
    <3>1. decided = DecideChange(v, seen, req)
      BY <1>1, <1>2, <1>5, <1>10, <2>1 DEF Decide
    <3>2. /\ RevisionFits(decided.next)
          /\ decided.next.assets = rev.assets /\ decided.next.files # rev.files
      BY <1>8, <1>9, <3>1, DecideChangeMakes
    <3>3. ~SameRevision(decided.next, rev)
      BY <3>2 DEF SameRevision, SameFiles
    <3>4. QED
      BY <1>8, <3>2, <3>3
  <2>2. CASE call.op = "restore"
    <3>1. decided = DecideRestore(v, seen, req)
      BY <1>1, <1>2, <1>5, <1>10, <2>2 DEF Decide
    <3>2. /\ req.revision \in DOMAIN versions[v].revs
          /\ decided.next = versions[v].revs[req.revision]
          /\ ~SameRevision(decided.next, rev)
      BY <1>9, <3>1, DecideRestoreMakes
    <3>3. req.revision \in 1..Current(v)
      BY <1>6, <3>2 DEF RevisionsFit, IsSequence, Current
    <3>4. RevisionFits(decided.next)
      BY <1>6, <3>2, <3>3 DEF RevisionsFit
    <3>5. \A o \in Range(decided.next.assets) : Bound(v, o)
      BY <3>2, <3>3 DEF Bound
    <3>6. QED
      BY <3>2, <3>4, <3>5
  <2>3. CASE call.op = "remove"
    <3>1. decided = DecideRemove(v, seen, req)
      BY <1>1, <1>2, <1>5, <1>10, <2>3 DEF Decide
    <3>2. /\ RevisionFits(decided.next) /\ decided.next.assets # rev.assets
          /\ Range(decided.next.assets) \subseteq Range(rev.assets)
      BY <1>8, <1>9, <3>1, DecideRemoveMakes
    <3>3. ~SameRevision(decided.next, rev)
      BY <3>2 DEF SameRevision
    <3>4. QED
      BY <1>8, <3>2, <3>3
  <2>4. CASE call.op = "upload"
    <3>1. decided = DecideAttach(v, seen, req)
      BY <1>1, <1>2, <1>5, <1>10, <2>4 DEF Decide
    <3>2. /\ RevisionFits(decided.next) /\ decided.next.assets # rev.assets
          /\ Range(decided.next.assets) \subseteq Range(rev.assets) \cup {req.blob}
          /\ req.blob # Nothing
      BY <1>8, <1>9, <3>1, DecideAttachMakes
    <3>3. ~SameRevision(decided.next, rev)
      BY <3>2 DEF SameRevision
    <3>4. QED
      BY <1>8, <2>4, <3>2, <3>3
  <2>5. QED
    BY <1>4, <2>1, <2>2, <2>3, <2>4 DEF DraftOps
<1>12. QED
  BY <1>1, <1>3, <1>5, <1>6, <1>7, <1>10, <1>11

(***************************************************************************)
(* The kinds of steps.                                                     *)
(***************************************************************************)
\* A release keeps its version and its revision.
ReleasesStay ==
  \A r \in DOMAIN releases :
    /\ r \in DOMAIN releases'
    /\ releases'[r].version = releases[r].version /\ releases'[r].revision = releases[r].revision

\* What becomes of a caller that publishes, or ends: a freeze is of what was
\* checked.
PlaysOn(call) == ~Asked(call) /\ (call.at = "freezing" => Checked(call))

\* The editions and releases go on, and nothing of the drafts changes but that
\* callers end or publish.
Plays ==
  /\ UNCHANGED <<versions, builds, attempts, objects, cleaning, buildVars>>
  /\ ReleasesStay
  /\ \A c \in Callers : calls'[c] = calls[c] \/ PlaysOn(calls'[c])

\* A request begins.
Begins(c, v, i, call) ==
  /\ calls[c] = Idle /\ calls' = [calls EXCEPT ![c] = call]
  /\ v \in Versions /\ i \in IdempotencyKeys /\ KeyIsFree(v, i) /\ ~HasAttempt(v, i)
  /\ call.op \in DraftOps /\ call.version = v /\ call.key = i
  /\ \/ call.op = "upload" /\ call.at = IF call.req.blob = Nothing THEN "attach" ELSE "register"
     \/ call.at = "deciding" /\ call.op # "upload" /\ ~KeyIsHeld(v, i)
  /\ UNCHANGED <<versions, builds, attempts, objects, cleaning, buildVars, gameVars>>

\* A request goes on.
Goes(c) ==
  /\ CommitDecision(c) \/ CommitRevision(c) \/ LoseRace(c)
       \/ RegisterAsset(c) \/ StoreAsset(c) \/ AttachAsset(c)
  /\ UNCHANGED <<buildVars, gameVars>>

Cleans ==
  /\ \/ \E o \in DOMAIN objects : CleanUnusedObjects(o)
     \/ \E o \in cleaning, marked \in BOOLEAN : DeleteUnused(o, marked)
  /\ UNCHANGED <<buildVars, gameVars>>

\* Releases stay, and one goes on, or a new one is the last.
LEMMA ReleasesDoStay ==
  ASSUME PublishingInv,
         \/ releases' = releases
         \/ \E k, v, rev : releases' = NewRelease(k, v, rev)
         \/ \E r \in DOMAIN releases, state \in ReleaseState : releases' = ReleaseEnds(r, state)
  PROVE  ReleasesStay
<1>1. IsSequence(releases) /\ \A r \in DOMAIN releases : IsRelease(releases[r])
  BY DEF PublishingInv, RowsFit, IsSequence
<1>2. CASE releases' = releases
  BY <1>2 DEF ReleasesStay
<1>3. ASSUME NEW k, NEW v, NEW rev, releases' = NewRelease(k, v, rev)
      PROVE  ReleasesStay
  <2>1. PICK row : row = [key |-> k, version |-> v, revision |-> rev, state |-> "pending"]
    OBVIOUS
  <2>2. PICK s : s = releases
    OBVIOUS
  <2>3. PICK t : t = Append(s, row)
    OBVIOUS
  <2>4. OneMore(t, s, row)
    BY <1>1, <2>2, <2>3, Appended, Zenon
  <2>5. releases' = t
    BY <1>3, <2>1, <2>2, <2>3 DEF NewRelease
  <2>6. \A r \in DOMAIN releases : r \in DOMAIN releases' /\ releases'[r] = releases[r]
    BY <2>2, <2>4, <2>5 DEF OneMore
  <2>7. QED
    BY <2>6 DEF ReleasesStay
<1>4. ASSUME NEW r \in DOMAIN releases, NEW state \in ReleaseState, releases' = ReleaseEnds(r, state)
      PROVE  ReleasesStay
  <2>1. PICK row : row = [releases[r] EXCEPT !.state = state]
    OBVIOUS
  <2>2. row.version = releases[r].version /\ row.revision = releases[r].revision
    BY <1>1, <2>1 DEF IsRelease
  <2>3. releases' = releases \/ releases' = [releases EXCEPT ![r] = row]
    BY <1>4, <2>1 DEF ReleaseEnds
  <2>4. releases = [q \in DOMAIN releases |-> releases[q]]
    BY <1>1 DEF IsSequence
  <2>5. \A q \in DOMAIN releases :
          q \in DOMAIN releases' /\ releases'[q] = IF q = r /\ releases' # releases THEN row ELSE releases[q]
    BY <2>3, <2>4
  <2>6. QED
    BY <2>2, <2>5 DEF ReleasesStay
<1>5. QED
  BY <1>2, <1>3, <1>4

\* What FreezeVersion finds ready to freeze is checked.
LEMMA FrozenIsChecked ==
  ASSUME VersionsFit, NEW v \in Versions, NEW rev, Exists(v), FreezeOutcome(v, rev) = "frozen"
  PROVE  rev \in 1..Current(v) /\ Built(v, BuildOf(v, rev).script)
<1>1. Current(v) = rev /\ ReadyToPublish(v, rev)
  BY DEF FreezeOutcome
<1>2. rev \in 1..Current(v)
  <2>1. RevisionsFit(v)
    BY DEF VersionsFit
  <2>2. Current(v) \in Nat
    BY <2>1 DEF RevisionsFit, IsSequence, Current
  <2>3. Current(v) > 0
    BY <2>1 DEF RevisionsFit
  <2>4. QED
    BY <1>1, <2>2, <2>3
<1>3. PICK b : b = CHOOSE x \in BuildsOf(v, rev) : TRUE
  OBVIOUS
<1>4. b \in BuildsOf(v, rev) /\ BuildOf(v, rev) = builds[b]
  BY <1>1, <1>3 DEF ReadyToPublish, HasBuild, BuildOf
<1>5. QED
  BY <1>1, <1>2, <1>4 DEF ReadyToPublish, BuildsOf, Built

\* A call goes on among those of the callers.
LEMMA OneCall ==
  ASSUME PublishingInv, NEW c \in Callers, NEW call, calls' = [calls EXCEPT ![c] = call]
  PROVE  calls'[c] = call /\ \A d \in Callers : d # c => calls'[d] = calls[d]
  BY DEF PublishingInv, CallsFit

\* A publication that reads what it would freeze.
LEMMA FreezeReadsPlays ==
  ASSUME PublishingInv, VersionsFit, NEW c \in Callers, FreezeReads(c)
  PROVE  Plays
<1>1. /\ UNCHANGED <<versions, builds, attempts, objects, cleaning, buildVars, releases>>
      /\ calls[c].at = "freeze"
  BY DEF FreezeReads, gameVars
<1>2. PICK r : r = calls[c].release
  OBVIOUS
<1>3. r \in DOMAIN releases
  <2>1. CallFits(calls[c])
    BY DEF PublishingInv, CallsFit
  <2>2. QED
    BY <1>1, <1>2, <2>1 DEF CallFits, Idle, IsRequest, IsPublication
<1>4. PICK v : v = releases[r].version
  OBVIOUS
<1>5. PICK rev : rev = releases[r].revision
  OBVIOUS
<1>6. v \in Versions
  BY <1>3, <1>4 DEF PublishingInv, RowsFit, IsRelease
<1>7. PICK outcome : outcome = IF Exists(v) THEN FreezeOutcome(v, rev) ELSE "missing"
  OBVIOUS
<1>8. PICK script : script = BuildOf(v, rev).script
  OBVIOUS
<1>9. PICK freezing : freezing = [op |-> "publish", at |-> "freezing", release |-> r, script |-> script]
  OBVIOUS
<1>10. PICK next : next = CASE outcome = "frozen" -> freezing
                            [] outcome = "already_frozen" -> PublishCall("complete", r)
                            [] outcome = "not_ready" -> PublishCall("abandon", r)
                            [] outcome = "missing" -> Idle
  OBVIOUS
<1>11. calls' = [calls EXCEPT ![c] = next]
  BY <1>2, <1>4, <1>5, <1>7, <1>8, <1>9, <1>10 DEF FreezeReads, GoesOn
<1>12. outcome \in {"frozen", "already_frozen", "not_ready", "missing"}
  BY <1>7 DEF FreezeOutcome
<1>13. outcome = "frozen" => Checked(freezing)
  <2>1. ASSUME outcome = "frozen"
        PROVE  rev \in 1..Current(v) /\ Built(v, script)
    BY <1>6, <1>7, <1>8, <2>1, FrozenIsChecked
  <2>2. freezing.release = r /\ freezing.script = script
    BY <1>9
  <2>3. QED
    BY <1>3, <1>4, <1>5, <2>1, <2>2 DEF Checked
<1>14. PlaysOn(next)
  BY <1>9, <1>10, <1>12, <1>13 DEF PlaysOn, Asked, DraftOps, PublishCall, Idle
<1>15. \A d \in Callers : calls'[d] = calls[d] \/ PlaysOn(calls'[d])
  <2>1. calls'[c] = next /\ \A d \in Callers : d # c => calls'[d] = calls[d]
    BY <1>11, OneCall
  <2>2. QED
    BY <1>14, <2>1
<1>16. ReleasesStay
  BY <1>1, ReleasesDoStay
<1>17. QED
  BY <1>1, <1>15, <1>16 DEF Plays

\* A step of Game Management, or of a caller that ends or goes on publishing.
LEMMA PublishingPlays ==
  ASSUME PublishingInv, NEW c \in Callers,
         \/ Abandon(c) /\ UNCHANGED <<buildVars, gameVars>>
         \/ \E k \in PublishKeys : CheckPublication(c, k)
         \/ ResumePublication(c) \/ BeginPublication(c)
         \/ CompletePublication(c) \/ AbandonPublication(c)
  PROVE  Plays
<1>1. UNCHANGED <<versions, builds, attempts, objects, cleaning, buildVars>>
  BY DEF Abandon, CheckPublication, ResumePublication, BeginPublication, CompletePublication,
         AbandonPublication
<1>2. PlaysOn(Idle) /\ \A r : PlaysOn(PublishCall("freeze", r))
  BY DEF PlaysOn, Asked, Idle, DraftOps, PublishCall
<1>3. \E next : PlaysOn(next) /\ calls' = [calls EXCEPT ![c] = next]
  <2>1. CASE Abandon(c) \/ CompletePublication(c) \/ AbandonPublication(c)
    BY <1>2, <2>1 DEF Abandon, CompletePublication, AbandonPublication, GoesOn
  <2>2. ASSUME NEW k \in PublishKeys, CheckPublication(c, k)
        PROVE  \E next : PlaysOn(next) /\ calls' = [calls EXCEPT ![c] = next]
    <3>1. PICK rev : rev = Current(OpenVersion)
      OBVIOUS
    <3>2. PICK next : next = [op |-> "publish", at |-> "begin", key |-> k, revision |-> rev]
      OBVIOUS
    <3>3. PlaysOn(next)
      BY <3>2 DEF PlaysOn, Asked, DraftOps
    <3>4. QED
      BY <2>2, <3>1, <3>2, <3>3 DEF CheckPublication, GoesOn
  <2>3. CASE ResumePublication(c)
    BY <1>2, <2>3 DEF ResumePublication, GoesOn
  <2>4. CASE BeginPublication(c)
    <3>1. \/ calls' = [calls EXCEPT ![c] = Idle]
          \/ \E r : calls' = [calls EXCEPT ![c] = PublishCall("freeze", r)]
      BY <2>4 DEF BeginPublication, GoesOn
    <3>2. QED
      BY <1>2, <3>1
  <2>5. QED
    BY <2>1, <2>2, <2>3, <2>4
<1>4. \A d \in Callers : calls'[d] = calls[d] \/ PlaysOn(calls'[d])
  <2>1. PICK next : PlaysOn(next) /\ calls' = [calls EXCEPT ![c] = next]
    BY <1>3
  <2>2. calls'[c] = next /\ \A d \in Callers : d # c => calls'[d] = calls[d]
    BY <2>1, OneCall
  <2>3. QED
    BY <2>1, <2>2
<1>5. ReleasesStay
  <2>1. CASE releases' = releases
    BY <2>1, ReleasesDoStay
  <2>2. CASE BeginPublication(c)
    <3>1. releases' = releases \/ \E k, v, rev : releases' = NewRelease(k, v, rev)
      BY <2>2 DEF BeginPublication
    <3>2. QED
      BY <3>1, ReleasesDoStay
  <2>3. CASE CompletePublication(c) \/ AbandonPublication(c)
    <3>1. calls[c].release \in DOMAIN releases
      BY <2>3, PublicationHasRelease DEF CompletePublication, AbandonPublication
    <3>2. \/ releases' = releases
          \/ \E state \in ReleaseState : releases' = ReleaseEnds(calls[c].release, state)
      BY <2>3 DEF CompletePublication, AbandonPublication, ReleaseState
    <3>3. QED
      BY <3>1, <3>2, ReleasesDoStay
  <2>4. QED
    BY <2>1, <2>2, <2>3 DEF Abandon, CheckPublication, ResumePublication, gameVars
<1>6. QED
  BY <1>1, <1>4, <1>5 DEF Plays

\* What callers ask begins a request, or ends one.
LEMMA RequestsBegin ==
  ASSUME PublishingInv, DraftRequests, UNCHANGED <<buildVars, gameVars>>
  PROVE  Plays \/ \E c \in Callers : \E v, i, call : Begins(c, v, i, call)
<1>1. ASSUME NEW op, NEW v, NEW i, NEW req, NEW at
      PROVE  LET call == Request(op, v, i, req, at) IN
             call.op = op /\ call.version = v /\ call.key = i /\ call.req = req /\ call.at = at
  <2>1. PICK seen : seen = Row(v)
    OBVIOUS
  <2>2. QED
    BY <2>1 DEF Request
<1>2. ASSUME NEW c \in Callers, NEW v \in Versions, NEW i \in IdempotencyKeys,
             ApplyChanges(c, v, i) \/ RestoreRevision(c, v, i) \/ RemoveAsset(c, v, i)
      PROVE  \E call : Begins(c, v, i, call)
  <2>1. ASSUME NEW op \in {"change", "restore", "remove"}, NEW req, BeginRequest(c, op, v, i, req)
        PROVE  \E call : Begins(c, v, i, call)
    <3>1. PICK call : call = Request(op, v, i, req, "deciding")
      OBVIOUS
    <3>2. call.op = op /\ call.version = v /\ call.key = i /\ call.at = "deciding"
      BY <1>1, <3>1
    <3>3. Begins(c, v, i, call)
      BY <2>1, <3>1, <3>2 DEF BeginRequest, Begins, DraftOps
    <3>4. QED
      BY <3>3
  <2>2. QED
    BY <1>2, <2>1 DEF ApplyChanges, RestoreRevision, RemoveAsset
<1>3. ASSUME NEW c \in Callers, NEW v \in Versions, NEW i \in IdempotencyKeys, UploadAsset(c, v, i)
      PROVE  \E call : Begins(c, v, i, call)
  <2>1. PICK req, at : /\ calls' = [calls EXCEPT ![c] = Request("upload", v, i, req, at)]
                       /\ at = IF req.blob = Nothing THEN "attach" ELSE "register"
    <3>1. PICK k, blob :
            calls' = [calls EXCEPT ![c] = Request("upload", v, i, [asset |-> k, blob |-> blob],
                                                  IF blob = Nothing THEN "attach" ELSE "register")]
      BY <1>3 DEF UploadAsset
    <3>2. PICK req : req = [asset |-> k, blob |-> blob]
      OBVIOUS
    <3>3. req.blob = blob
      BY <3>2
    <3>4. QED
      BY <3>1, <3>2, <3>3
  <2>2. PICK call : call = Request("upload", v, i, req, at)
    OBVIOUS
  <2>3. /\ call.op = "upload" /\ call.version = v /\ call.key = i
        /\ call.at = IF call.req.blob = Nothing THEN "attach" ELSE "register"
    BY <1>1, <2>1, <2>2
  <2>4. Begins(c, v, i, call)
    BY <1>3, <2>1, <2>2, <2>3 DEF UploadAsset, Begins, DraftOps
  <2>5. QED
    BY <2>4
<1>4. ASSUME NEW c \in Callers, Abandon(c)
      PROVE  Plays
  BY <1>4, PublishingPlays
<1>5. QED
  BY <1>2, <1>3, <1>4 DEF DraftRequests

\* Every step is of one of these kinds.
LEMMA StepKinds ==
  ASSUME PublishingInv, VersionsFit, Next
  PROVE  \/ \E e \in DOMAIN editions : EnsureDraft(e)
         \/ Plays
         \/ \E c \in Callers : \E v, i, call : Begins(c, v, i, call)
         \/ \E c \in Callers : Goes(c)
         \/ \E c \in Callers : FreezeVersion(c)
         \/ Cleans
         \/ BuildNext /\ UNCHANGED gameVars
<1>1. ASSUME CreateGame \/ \E k \in EditionKeys : OpenEdition(k)
      PROVE  Plays
  <2>1. UNCHANGED <<draftVars, buildVars, releases>>
    BY <1>1 DEF CreateGame, OpenEdition
  <2>2. ReleasesStay
    BY <2>1, ReleasesDoStay
  <2>3. QED
    BY <2>1, <2>2 DEF Plays, draftVars
<1>2. ASSUME DraftSteps, UNCHANGED <<buildVars, gameVars>>
      PROVE  \E c \in Callers : Goes(c)
  BY <1>2 DEF DraftSteps, Goes
<1>3. ASSUME NEW c \in Callers, ResumePublication(c) \/ PublishSteps(c)
      PROVE  Plays \/ FreezeVersion(c)
  BY <1>3, PublishingPlays, FreezeReadsPlays DEF PublishSteps
<1>4. ASSUME NEW c \in Callers, NEW k \in PublishKeys, CheckPublication(c, k)
      PROVE  Plays
  BY <1>4, PublishingPlays
<1>5. ASSUME CleanAfterPublication
               \/ \E o \in cleaning, marked \in BOOLEAN :
                    DeleteUnused(o, marked) /\ UNCHANGED <<buildVars, gameVars>>
      PROVE  Cleans
  BY <1>5 DEF CleanAfterPublication, Cleans
<1>6. QED
  BY <1>1, <1>2, <1>3, <1>4, <1>5, RequestsBegin DEF Next

\* A step that changes nothing is of the second kind.
LEMMA StutterPlays ==
  ASSUME PublishingInv, UNCHANGED vars
  PROVE  Plays
<1>1. UNCHANGED <<versions, builds, attempts, objects, cleaning, calls, buildVars, releases>>
  BY DEF vars, draftVars, gameVars
<1>2. ReleasesStay
  BY <1>1, ReleasesDoStay
<1>3. QED
  BY <1>1, <1>2 DEF Plays

(***************************************************************************)
(* The rows, and what becomes of them.                                     *)
(***************************************************************************)
\* Revisions are only added, and an executable version stays as it is.
VersionGrows(v) ==
  /\ Current(v) \in Nat /\ Current(v)' \in Nat /\ Current(v) <= Current(v)'
  /\ \A rev \in 1..Current(v) : versions'[v].revs[rev] = versions[v].revs[rev]
  /\ Exists(v) => Exists(v)' /\ (IsDraft(v)' => IsDraft(v))
  /\ Executable(v) => versions'[v] = versions[v]

VersionsGrow == \A v \in Versions : VersionGrows(v)

\* A version has revisions from when it exists.
LEMMA RevisionsCount ==
  ASSUME VersionsFit, NEW v \in Versions
  PROVE  /\ Current(v) \in Nat /\ DOMAIN versions[v].revs = 1..Current(v)
         /\ Exists(v) <=> Current(v) > 0
<1>1. RevisionsFit(v)
  BY DEF VersionsFit
<1>2. Current(v) \in Nat /\ DOMAIN versions[v].revs = 1..Current(v)
  BY <1>1 DEF RevisionsFit, IsSequence, Current
<1>3. QED
  BY <1>1, <1>2 DEF RevisionsFit

\* A revision stays one.
LEMMA StillARevision ==
  ASSUME VersionsGrow, NEW v \in Versions, NEW rev \in 1..Current(v)
  PROVE  rev \in 1..Current(v)'
<1>1. VersionGrows(v)
  BY DEF VersionsGrow
<1>2. Current(v) \in Nat /\ Current(v)' \in Nat /\ Current(v) <= Current(v)'
  BY <1>1 DEF VersionGrows
<1>3. QED
  BY <1>2

\* One version goes on.
LEMMA VersionChanges ==
  ASSUME PublishingInv, VersionsFit, NEW v \in Versions, ~Executable(v),
         NEW row, versions' = [versions EXCEPT ![v] = row],
         row.status # "NONE", Exists(v) /\ row.status = "DRAFT" => IsDraft(v),
         IsSequence(row.revs), Len(row.revs) > 0, Current(v) <= Len(row.revs),
         \A rev \in 1..Len(row.revs) : RevisionFits(row.revs[rev]),
         \A rev \in 1..Current(v) : row.revs[rev] = versions[v].revs[rev]
  PROVE  VersionsFit' /\ VersionsGrow
<1>1. versions'[v] = row /\ \A w \in Versions : w # v => versions'[w] = versions[w]
  BY DEF PublishingInv, RowsFit
<1>2. Current(v)' = Len(row.revs) /\ Exists(v)' /\ IsDraft(v)' = (row.status = "DRAFT")
  BY <1>1 DEF Current, Exists, IsDraft
<1>3. Len(row.revs) \in Nat
  BY DEF IsSequence
<1>4. RevisionsFit(v)'
  <2>1. IsSequence(versions[v].revs)'
    BY <1>1 DEF IsSequence
  <2>2. \A rev \in 1..Current(v)' : RevisionFits(versions'[v].revs[rev])
    BY <1>1, <1>2
  <2>3. QED
    BY <1>1, <1>2, <2>1, <2>2 DEF RevisionsFit
<1>5. VersionGrows(v)
  <2>1. Current(v) \in Nat
    BY DEF VersionsFit, RevisionsFit, IsSequence, Current
  <2>2. QED
    BY <1>1, <1>2, <1>3, <2>1 DEF VersionGrows
<1>6. ASSUME NEW w \in Versions, w # v
      PROVE  RevisionsFit(w)' /\ VersionGrows(w)
  <2>1. versions'[w] = versions[w]
    BY <1>1, <1>6
  <2>2. Current(w)' = Current(w) /\ Exists(w)' = Exists(w) /\ IsDraft(w)' = IsDraft(w)
    BY <2>1 DEF Current, Exists, IsDraft
  <2>3. RevisionsFit(w) /\ Current(w) \in Nat
    BY DEF VersionsFit, RevisionsFit, IsSequence, Current
  <2>4. RevisionsFit(w)'
    BY <2>1, <2>2, <2>3 DEF RevisionsFit, IsSequence
  <2>5. VersionGrows(w)
    BY <2>1, <2>2, <2>3 DEF VersionGrows
  <2>6. QED
    BY <2>4, <2>5
<1>7. QED
  BY <1>4, <1>5, <1>6 DEF VersionsFit, VersionsGrow

\* Nothing happens to them.
LEMMA VersionsStay ==
  ASSUME VersionsFit, versions' = versions
  PROVE  /\ VersionsFit' /\ VersionsGrow
         /\ \A v : Current(v)' = Current(v) /\ Exists(v)' = Exists(v) /\ IsDraft(v)' = IsDraft(v)
                   /\ Executable(v)' = Executable(v)
<1>1. \A v : Current(v)' = Current(v) /\ Exists(v)' = Exists(v) /\ IsDraft(v)' = IsDraft(v)
             /\ Executable(v)' = Executable(v)
  BY DEF Current, Exists, IsDraft, Executable
<1>2. \A v \in Versions : Current(v) \in Nat
  BY DEF VersionsFit, RevisionsFit, IsSequence, Current
<1>3. VersionsGrow
  BY <1>1, <1>2 DEF VersionsGrow, VersionGrows
<1>4. VersionsFit'
  BY <1>1 DEF VersionsFit, RevisionsFit, IsSequence
<1>5. QED
  BY <1>1, <1>3, <1>4

\* A version is created: what it was not, and what it is.
LEMMA DraftIsCreated ==
  ASSUME PublishingInv, VersionsFit, NEW e \in DOMAIN editions, EnsureDraft(e),
         NEW v, v = editions[e].version
  PROVE  /\ v \in Versions /\ Current(v) = 0 /\ Current(v)' = 1 /\ ~Exists(v) /\ IsDraft(v)'
         /\ \A w \in Versions : w # v => versions'[w] = versions[w]
         /\ VersionsFit' /\ VersionsGrow
<1>1. v \in Versions
  BY DEF PublishingInv, RowsFit, IsEdition
<1>2. PICK from : from = BaseVersion(e)
  OBVIOUS
<1>3. from # Nothing => from \in Versions /\ Executable(from)
  BY <1>2, BaseIsAVersion DEF EnsureDraft, CreateDraftVersion, Executable
<1>4. PICK first : first = FirstRevision(from)
  OBVIOUS
<1>5. RevisionFits(first)
  BY <1>3, <1>4, FirstFits
<1>6. PICK row : row = [NoVersion EXCEPT !.status = "DRAFT", !.revs = <<first>>]
  OBVIOUS
<1>7. row.status = "DRAFT" /\ row.revs = <<first>>
  BY <1>6 DEF NoVersion
<1>8. versions' = [versions EXCEPT ![v] = row] /\ ~Exists(v)
  BY <1>2, <1>4, <1>6 DEF EnsureDraft, CreateDraftVersion
<1>9. Current(v) = 0 /\ ~Executable(v)
  <2>1. Current(v) \in Nat /\ ~(Current(v) > 0)
    BY <1>1, <1>8, RevisionsCount
  <2>2. QED
    BY <1>8, <2>1 DEF Exists, Executable
<1>10. PICK revs : revs = <<first>>
  OBVIOUS
<1>11. IsSequence(revs) /\ Len(revs) = 1 /\ \A rev \in 1..Len(revs) : RevisionFits(revs[rev])
  BY <1>5, <1>10 DEF IsSequence
<1>12. /\ row.status = "DRAFT" /\ row.revs = revs
       /\ \A rev \in 1..Current(v) : row.revs[rev] = versions[v].revs[rev]
  BY <1>7, <1>9, <1>10
<1>13. /\ IsSequence(row.revs) /\ Len(row.revs) = 1
       /\ \A rev \in 1..Len(row.revs) : RevisionFits(row.revs[rev])
  BY <1>11, <1>12 DEF IsSequence
<1>14. VersionsFit' /\ VersionsGrow
  <2>1. row.status # "NONE" /\ Len(row.revs) > 0 /\ Current(v) <= Len(row.revs)
    BY <1>9, <1>12, <1>13
  <2>2. QED
    BY <1>1, <1>8, <1>9, <1>12, <1>13, <2>1, VersionChanges
<1>15. versions'[v] = row /\ \A w \in Versions : w # v => versions'[w] = versions[w]
  BY <1>1, <1>8 DEF PublishingInv, RowsFit
<1>16. Current(v)' = 1 /\ IsDraft(v)'
  BY <1>7, <1>13, <1>15 DEF Current, IsDraft
<1>17. QED
  BY <1>1, <1>8, <1>9, <1>14, <1>15, <1>16

\* A version is one revision longer.
LEMMA RevisionIsAdded ==
  ASSUME PublishingInv, VersionsFit, NEW c \in Callers, CommitRevision(c),
         NEW v, v = calls[c].version, NEW next, next = Decide(calls[c]).next
  PROVE  /\ v \in Versions /\ Current(v)' = Current(v) + 1 /\ versions'[v].revs[Current(v) + 1] = next
         /\ IsDraft(v)' /\ versions'[v].script = versions[v].script
         /\ \A w \in Versions : w # v => versions'[w] = versions[w]
         /\ VersionsFit' /\ VersionsGrow
<1>1. PICK decided : decided = Decide(calls[c])
  OBVIOUS
<1>2. Deciding(c) /\ CanAdvance(calls[c]) /\ decided.outcome \in MadeRevision /\ next = decided.next
  BY <1>1 DEF CommitRevision
<1>3. /\ v \in Versions /\ IsDraft(v) /\ Exists(v) /\ Current(v) \in Nat /\ Current(v) > 0
      /\ RevisionFits(next)
  BY <1>1, <1>2, DecidedRevision
<1>4. PICK revs : revs = versions[v].revs
  OBVIOUS
<1>5. PICK more : more = Append(revs, next)
  OBVIOUS
<1>6. IsSequence(revs)
  BY <1>3, <1>4 DEF VersionsFit, RevisionsFit, IsSequence
<1>7. OneMore(more, revs, next)
  BY <1>5, <1>6, Appended, Zenon
<1>8. PICK row : row = [versions[v] EXCEPT !.revs = more]
  OBVIOUS
<1>9. row.status = "DRAFT" /\ row.revs = more /\ row.script = versions[v].script
  BY <1>3, <1>8 DEF PublishingInv, RowsFit, IsVersion, IsDraft
<1>10. versions' = [versions EXCEPT ![v] = row]
  <2>1. versions' = [versions EXCEPT ![v].revs = Append(@, next)]
    BY <1>1, <1>2 DEF CommitRevision
  <2>2. QED
    BY <1>4, <1>5, <1>8, <2>1
<1>11. Len(revs) = Current(v)
  BY <1>4 DEF Current
<1>12. /\ IsSequence(more) /\ Len(more) = Current(v) + 1 /\ more[Current(v) + 1] = next
       /\ \A rev \in 1..Current(v) : more[rev] = versions[v].revs[rev]
  BY <1>4, <1>7, <1>11 DEF OneMore, IsSequence
<1>13. \A rev \in 1..Len(more) : RevisionFits(more[rev])
  <2>1. \A rev \in 1..Current(v) : RevisionFits(versions[v].revs[rev])
    BY <1>3 DEF VersionsFit, RevisionsFit
  <2>2. QED
    BY <1>3, <1>12, <2>1
<1>14. /\ row.status = "DRAFT" /\ ~Executable(v)
       /\ Len(row.revs) > 0 /\ Current(v) <= Len(row.revs)
       /\ \A rev \in 1..Len(row.revs) : RevisionFits(row.revs[rev])
       /\ \A rev \in 1..Current(v) : row.revs[rev] = versions[v].revs[rev]
  BY <1>3, <1>9, <1>12, <1>13 DEF IsDraft, Executable
<1>15. IsSequence(row.revs)
  BY <1>9, <1>12 DEF IsSequence
<1>16. VersionsFit' /\ VersionsGrow
  BY <1>3, <1>10, <1>14, <1>15, VersionChanges
<1>17. versions'[v] = row /\ \A w \in Versions : w # v => versions'[w] = versions[w]
  BY <1>3, <1>10 DEF PublishingInv, RowsFit
<1>18. QED
  BY <1>3, <1>9, <1>12, <1>16, <1>17 DEF Current, IsDraft

\* A version is frozen.
LEMMA VersionIsFrozen ==
  ASSUME PublishingInv, VersionsFit, NEW c \in Callers, FreezeVersion(c),
         NEW v, v = releases[calls[c].release].version,
         NEW rev, rev = releases[calls[c].release].revision
  PROVE  /\ v \in Versions /\ IsDraft(v) /\ Executable(v)'
         /\ versions'[v].revs = versions[v].revs /\ versions'[v].script = calls[c].script
         /\ versions'[v].delivered = DeliveredAssets(versions[v].revs[rev])
         /\ \A w \in Versions : w # v => versions'[w] = versions[w]
         /\ VersionsFit' /\ VersionsGrow
<1>1. v \in Versions
  BY PublicationHasRelease DEF FreezeVersion, PublishingInv, RowsFit, IsRelease
<1>2. PICK delivered : delivered = DeliveredAssets(versions[v].revs[rev])
  OBVIOUS
<1>3. PICK script : script = calls[c].script
  OBVIOUS
<1>4. IsDraft(v) /\ versions' = [versions EXCEPT ![v].status = "EXECUTABLE", ![v].script = script,
                                                 ![v].delivered = delivered]
  BY <1>2, <1>3 DEF FreezeVersion, FreezeCommits, IsDraft
<1>5. PICK row : row = [versions[v] EXCEPT !.status = "EXECUTABLE", !.script = script,
                                           !.delivered = delivered]
  OBVIOUS
<1>6. versions' = [versions EXCEPT ![v] = row]
  BY <1>1, <1>4, <1>5 DEF PublishingInv, RowsFit
<1>7. PICK revs : revs = versions[v].revs
  OBVIOUS
<1>8. row.status = "EXECUTABLE" /\ row.revs = revs /\ row.script = script /\ row.delivered = delivered
  BY <1>1, <1>5, <1>7 DEF PublishingInv, RowsFit, IsVersion
<1>9. /\ IsSequence(revs) /\ Len(revs) = Current(v) /\ Current(v) > 0 /\ Current(v) \in Nat
      /\ ~Executable(v) /\ \A r \in 1..Current(v) : RevisionFits(revs[r])
  <2>1. RevisionsFit(v) /\ Exists(v) /\ ~Executable(v)
    BY <1>1, <1>4 DEF VersionsFit, IsDraft, Exists, Executable
  <2>2. Current(v) \in Nat /\ Current(v) > 0
    BY <1>1, <2>1, RevisionsCount
  <2>3. QED
    BY <1>7, <2>1, <2>2 DEF RevisionsFit, IsSequence, Current
<1>10. IsSequence(row.revs)
  BY <1>8, <1>9 DEF IsSequence
<1>11. /\ row.status = "EXECUTABLE" /\ Len(row.revs) > 0 /\ Current(v) <= Len(row.revs)
       /\ \A r \in 1..Len(row.revs) : RevisionFits(row.revs[r])
       /\ \A r \in 1..Current(v) : row.revs[r] = versions[v].revs[r]
  <2>1. row.revs = revs /\ Len(row.revs) = Current(v)
    BY <1>8, <1>9
  <2>2. \A r \in 1..Len(row.revs) : RevisionFits(row.revs[r])
    BY <1>9, <2>1, Zenon
  <2>3. \A r \in 1..Current(v) : row.revs[r] = versions[v].revs[r]
    BY <1>7, <2>1, Zenon
  <2>4. Len(row.revs) > 0 /\ Current(v) <= Len(row.revs)
    BY <1>9, <2>1
  <2>5. QED
    BY <1>8, <2>2, <2>3, <2>4, Zenon
<1>12. VersionsFit' /\ VersionsGrow
  BY <1>1, <1>6, <1>9, <1>10, <1>11, VersionChanges
<1>13. versions'[v] = row /\ \A w \in Versions : w # v => versions'[w] = versions[w]
  BY <1>1, <1>6 DEF PublishingInv, RowsFit
<1>14. QED
  BY <1>1, <1>2, <1>3, <1>4, <1>7, <1>8, <1>12, <1>13 DEF Executable

\* Which steps change the versions.
LEMMA VersionsChange ==
  ASSUME PublishingInv, VersionsFit, Next
  PROVE  \/ versions' = versions
         \/ \E e \in DOMAIN editions : EnsureDraft(e)
         \/ \E c \in Callers : CommitRevision(c)
         \/ \E c \in Callers : FreezeVersion(c)
<1>1. ASSUME NEW c \in Callers, Goes(c)
      PROVE  versions' = versions \/ CommitRevision(c)
  BY <1>1 DEF Goes, CommitDecision, LoseRace, RegisterAsset, StoreAsset, AttachAsset
<1>2. BuildNext \/ Cleans => versions' = versions
  BY DEF BuildNext, WorkerSteps, Claims, ClaimOldest, ClaimIsLost, ReuseBuild, BuildFails,
         RegisterArtifacts, StoreArtifacts, FinishBuild, FinishIsLost, Crash, RequeueInterrupted,
         RequeueFails, Settle, draftVars, Cleans,
         CleanUnusedObjects, DeleteUnused
<1>3. QED
  BY <1>1, <1>2, StepKinds DEF Plays, Begins

\* What a step of any kind makes of the versions.
LEMMA VersionsStep ==
  ASSUME PublishingInv, VersionsFit, Next
  PROVE  VersionsFit' /\ VersionsGrow
  BY VersionsChange, VersionsStay, DraftIsCreated, RevisionIsAdded, VersionIsFrozen

\* A build keeps its version and its revision, and once it succeeded all of it.
BuildsGrow ==
  \A b \in DOMAIN builds :
    /\ b \in DOMAIN builds'
    /\ builds'[b].version = builds[b].version /\ builds'[b].revision = builds[b].revision
    /\ builds[b].status = "SUCCEEDED" => builds'[b] = builds[b]

\* No build succeeds in this step.
NoneSucceeds ==
  \A b \in DOMAIN builds' :
    builds'[b].status = "SUCCEEDED" => b \in DOMAIN builds /\ builds[b] = builds'[b]

\* A build is queued, of a revision there is.
LEMMA QueuingStep ==
  ASSUME BuildsFit, VersionsGrow, NEW v \in Versions, NEW rev, Queues(v, rev), rev \in 1..Current(v)'
  PROVE  BuildsFit' /\ BuildsGrow /\ NoneSucceeds
<1>1. PICK new : new = Len(builds) + 1
  OBVIOUS
<1>2. PICK row : row = [version |-> v, revision |-> rev, status |-> "QUEUED", script |-> Nothing]
  OBVIOUS
<1>3. /\ row.version = v /\ row.revision = rev /\ row.status = "QUEUED"
      /\ row = [version |-> row.version, revision |-> row.revision, status |-> row.status,
                script |-> row.script]
  BY <1>2
<1>4. BuildFits(row)'
  BY <1>3 DEF BuildFits, BuildStatus
<1>5. DOMAIN builds' = DOMAIN builds \cup {new} /\ builds'[new] = row /\ new \notin DOMAIN builds
  BY <1>1, <1>2 DEF Queues
<1>6. \A b \in DOMAIN builds : builds'[b] \in {builds[b], [builds[b] EXCEPT !.status = "SUPERSEDED"]}
  BY DEF Queues
<1>7. ASSUME NEW b \in DOMAIN builds
      PROVE  /\ BuildFits(builds[b]) => BuildFits(builds[b])'
             /\ builds'[b].version = builds[b].version /\ builds'[b].revision = builds[b].revision
             /\ builds[b].status = "SUCCEEDED" => builds'[b] = builds[b]
             /\ builds'[b].status = "SUCCEEDED" => builds[b] = builds'[b]
  <2>1. PICK old : old = builds[b]
    OBVIOUS
  <2>2. PICK other : other = [old EXCEPT !.status = "SUPERSEDED"]
    OBVIOUS
  <2>3. /\ old.version \in Versions /\ old.revision \in 1..Current(old.version)
        /\ old = [version |-> old.version, revision |-> old.revision, status |-> old.status,
                  script |-> old.script]
        /\ old.status \in BuildStatus
    BY <2>1 DEF BuildsFit, BuildFits
  <2>4. /\ other = [version |-> other.version, revision |-> other.revision, status |-> other.status,
                    script |-> other.script]
        /\ other.version = old.version /\ other.revision = old.revision /\ other.status = "SUPERSEDED"
    BY <2>2, <2>3
  <2>5. old.revision \in 1..Current(old.version)'
    BY <2>3, StillARevision
  <2>6. BuildFits(old)' /\ BuildFits(other)'
    BY <2>3, <2>4, <2>5 DEF BuildFits, BuildStatus
  <2>7. builds'[b] = old \/ builds'[b] = other
    BY <1>6, <2>1, <2>2
  <2>8. old.status = "SUCCEEDED" => builds'[b] = old
    BY <2>1 DEF Queues
  <2>9. BuildFits(builds[b])'
    BY <2>6, <2>7 DEF BuildFits
  <2>10. QED
    BY <2>1, <2>4, <2>7, <2>8, <2>9
<1>8. BuildsFit'
  <2>1. IsSequence(builds')
    BY DEF Queues, IsSequence
  <2>2. \A b \in DOMAIN builds' : BuildFits(builds[b])'
    BY <1>4, <1>5, <1>7 DEF BuildsFit
  <2>3. QED
    BY <2>1, <2>2 DEF BuildsFit, IsSequence
<1>9. BuildsGrow /\ NoneSucceeds
  BY <1>3, <1>5, <1>7 DEF BuildsGrow, NoneSucceeds
<1>10. QED
  BY <1>8, <1>9

\* A build that did not succeed goes on.
RowGoesOn(old, new) ==
  \/ new = old
  \/ /\ old.status # "SUCCEEDED" /\ new.status \in BuildStatus
     /\ new = [version |-> old.version, revision |-> old.revision, status |-> new.status,
               script |-> new.script]

\* A build that has not succeeded goes on in some status.
LEMMA RowChanges ==
  ASSUME NEW old, BuildFits(old), old.status # "SUCCEEDED", NEW status \in BuildStatus, NEW script,
         NEW new, new = [old EXCEPT !.status = status]
                    \/ new = [old EXCEPT !.status = status, !.script = script]
  PROVE  RowGoesOn(old, new) /\ new.status = status
<1>1. PICK v : v = old.version
  OBVIOUS
<1>2. PICK rev : rev = old.revision
  OBVIOUS
<1>3. PICK was : was = old.script
  OBVIOUS
<1>4. old = [version |-> v, revision |-> rev, status |-> old.status, script |-> was]
  BY <1>1, <1>2, <1>3 DEF BuildFits
<1>5. new = [version |-> v, revision |-> rev, status |-> status, script |-> new.script]
  <2>1. PICK before : before = old.status
    OBVIOUS
  <2>2. old = [version |-> v, revision |-> rev, status |-> before, script |-> was]
    BY <1>4, <2>1
  <2>3. \/ new = [version |-> v, revision |-> rev, status |-> status, script |-> was]
        \/ new = [version |-> v, revision |-> rev, status |-> status, script |-> script]
    BY <2>2
  <2>4. QED
    BY <2>3
<1>6. QED
  BY <1>1, <1>2, <1>5 DEF RowGoesOn

\* The rows of builds go on where they are.
LEMMA RowsGoOn ==
  ASSUME BuildsFit, VersionsGrow, builds' = [b \in DOMAIN builds |-> builds'[b]],
         \A b \in DOMAIN builds : RowGoesOn(builds[b], builds'[b])
  PROVE  BuildsFit' /\ BuildsGrow
<1>1. IsSequence(builds') /\ DOMAIN builds' = DOMAIN builds
  <2>1. PICK s : s = builds
    OBVIOUS
  <2>2. PICK t : t = builds'
    OBVIOUS
  <2>3. IsSequence(s) /\ t = [b \in DOMAIN s |-> t[b]]
    BY <2>1, <2>2 DEF BuildsFit, IsSequence
  <2>4. IsSequence(t) /\ DOMAIN t = DOMAIN s
    BY <2>3, Renewed
  <2>5. QED
    BY <2>1, <2>2, <2>4 DEF IsSequence
<1>2. ASSUME NEW b \in DOMAIN builds
      PROVE  /\ BuildFits(builds[b])'
             /\ builds'[b].version = builds[b].version /\ builds'[b].revision = builds[b].revision
             /\ builds[b].status = "SUCCEEDED" => builds'[b] = builds[b]
  <2>1. PICK old : old = builds[b]
    OBVIOUS
  <2>2. PICK new : new = builds'[b]
    OBVIOUS
  <2>3. RowGoesOn(old, new) /\ BuildFits(old)
    BY <2>1, <2>2 DEF BuildsFit
  <2>4. /\ new.version = old.version /\ new.revision = old.revision /\ new.status \in BuildStatus
        /\ new = [version |-> new.version, revision |-> new.revision, status |-> new.status,
                  script |-> new.script]
        /\ old.status = "SUCCEEDED" => new = old
    BY <2>3 DEF RowGoesOn, BuildFits
  <2>5. old.version \in Versions /\ old.revision \in 1..Current(old.version)
    BY <2>3 DEF BuildFits
  <2>6. old.revision \in 1..Current(old.version)'
    BY <2>5, StillARevision
  <2>7. new.version \in Versions /\ new.revision \in 1..Current(new.version)'
    BY <2>4, <2>5, <2>6
  <2>8. BuildFits(builds[b])'
    BY <2>2, <2>4, <2>7 DEF BuildFits
  <2>9. QED
    BY <2>1, <2>2, <2>4, <2>8
<1>3. BuildsFit'
  <2>1. \A b \in DOMAIN builds' : BuildFits(builds[b])'
    BY <1>1, <1>2
  <2>2. QED
    BY <1>1, <2>1 DEF BuildsFit, IsSequence
<1>4. BuildsGrow
  BY <1>1, <1>2 DEF BuildsGrow
<1>5. QED
  BY <1>3, <1>4

\* Of some numbers one is the least.
LEMMA LeastOfSome ==
  ASSUME NEW S, S \subseteq Nat, S # {}
  PROVE  LET least == CHOOSE m \in S : \A n \in S : m <= n IN
         least \in S /\ \A n \in S : least <= n
<1>1. IsWellFoundedOn(OpToRel(<, Nat), Nat)
  BY NatLessThanWellFounded
<1>2. PICK m \in S : \A n \in S : ~(<<n, m>> \in OpToRel(<, Nat))
  BY <1>1, WFMin
<1>3. \A n \in S : m <= n
  <2>1. \A n \in S : n \in Nat /\ m \in Nat /\ ~(n < m)
    BY <1>2, Zenon DEF OpToRel
  <2>2. QED
    BY <2>1
<1>4. QED
  BY <1>3

\* The build a worker reuses is of its version, and succeeded.
LEMMA OldestReusable ==
  ASSUME BuildsFit, NEW b, Reusable(b) # {},
         NEW r, r = CHOOSE x \in Reusable(b) : \A other \in Reusable(b) : x <= other
  PROVE  r \in DOMAIN builds /\ builds[r].status = "SUCCEEDED" /\ builds[r].version = builds[b].version
<1>1. PICK S : S = Reusable(b)
  OBVIOUS
<1>2. S \subseteq Nat /\ S # {}
  BY <1>1 DEF Reusable, BuildsFit, IsSequence
<1>3. r \in S
  BY <1>1, <1>2, LeastOfSome
<1>4. QED
  BY <1>1, <1>3 DEF Reusable

\* Which steps change the builds.
LEMMA BuildsChange ==
  ASSUME PublishingInv, VersionsFit, Next
  PROVE  \/ builds' = builds
         \/ \E e \in DOMAIN editions : EnsureDraft(e)
         \/ \E c \in Callers : CommitRevision(c)
         \/ \E w \in Workers : (\E b \in Queued : Claims(w, b)) \/ FinishBuild(w)
         \/ RequeueInterrupted
<1>1. ASSUME NEW c \in Callers, Goes(c)
      PROVE  builds' = builds \/ CommitRevision(c)
  BY <1>1 DEF Goes, CommitDecision, LoseRace, RegisterAsset, StoreAsset, AttachAsset
<1>2. ASSUME NEW c \in Callers, FreezeVersion(c)
      PROVE  builds' = builds
  BY <1>2 DEF FreezeVersion
<1>3. Cleans => builds' = builds
  BY DEF Cleans, CleanUnusedObjects, DeleteUnused
<1>4. BuildNext => \/ builds' = builds \/ RequeueInterrupted
                   \/ \E w \in Workers : (\E b \in Queued : Claims(w, b)) \/ FinishBuild(w)
  BY DEF BuildNext, WorkerSteps, ClaimOldest, ClaimIsLost, ReuseBuild, BuildFails, RegisterArtifacts,
         StoreArtifacts, FinishIsLost, Crash, RequeueFails, Settle, draftVars
<1>5. QED
  BY <1>1, <1>2, <1>3, <1>4, StepKinds DEF Plays, Begins

\* What a step of any kind makes of the builds.
LEMMA BuildsStep ==
  ASSUME PublishingInv, VersionsFit, BuildsFit, WorkersFit, Next
  PROVE  /\ BuildsFit' /\ BuildsGrow
         /\ NoneSucceeds \/ \E w \in Workers : FinishBuild(w)
<1>1. VersionsFit' /\ VersionsGrow
  BY VersionsStep
<1>2. builds = [b \in DOMAIN builds |-> builds[b]] /\ \A b \in DOMAIN builds : BuildFits(builds[b])
  BY DEF BuildsFit, IsSequence
<1>3. CASE builds' = builds
  <2>1. BuildsFit' /\ BuildsGrow
    BY <1>1, <1>2, <1>3, RowsGoOn DEF RowGoesOn
  <2>2. NoneSucceeds
    BY <1>3 DEF NoneSucceeds
  <2>3. QED
    BY <2>1, <2>2
<1>4. ASSUME NEW e \in DOMAIN editions, EnsureDraft(e)
      PROVE  BuildsFit' /\ BuildsGrow /\ NoneSucceeds
  <2>1. PICK v : v = editions[e].version
    OBVIOUS
  <2>2. v \in Versions /\ Current(v)' = 1
    BY <1>4, <2>1, DraftIsCreated
  <2>3. builds' = QueueBuild(v, 1)
    BY <1>4, <2>1 DEF EnsureDraft, CreateDraftVersion
  <2>4. Queues(v, 1)
    BY <2>3, QueueBuildQueues
  <2>5. QED
    BY <1>1, <2>2, <2>4, QueuingStep
<1>5. ASSUME NEW c \in Callers, CommitRevision(c)
      PROVE  BuildsFit' /\ BuildsGrow /\ NoneSucceeds
  <2>1. PICK v : v = calls[c].version
    OBVIOUS
  <2>2. v \in Versions /\ Current(v)' = Current(v) + 1 /\ Current(v) \in Nat
    BY <1>1, <1>5, <2>1, RevisionIsAdded DEF VersionsGrow, VersionGrows
  <2>3. builds' = QueueBuild(v, Current(v) + 1)
    BY <1>5, <2>1 DEF CommitRevision, CanAdvance
  <2>4. Queues(v, Current(v) + 1)
    BY <2>3, QueueBuildQueues
  <2>5. Current(v) + 1 \in 1..Current(v)'
    BY <2>2
  <2>6. QED
    BY <1>1, <2>2, <2>4, <2>5, QueuingStep
<1>6. ASSUME NEW w \in Workers, NEW b \in Queued, Claims(w, b)
      PROVE  BuildsFit' /\ BuildsGrow /\ NoneSucceeds
  <2>1. b \in DOMAIN builds /\ builds[b].status = "QUEUED"
    BY <1>6 DEF Queued
  <2>2. builds' = [builds EXCEPT ![b].status = "RUNNING"]
    BY <1>6 DEF Claims
  <2>3. PICK row : row = [builds[b] EXCEPT !.status = "RUNNING"]
    OBVIOUS
  <2>4. "RUNNING" \in BuildStatus
    BY DEF BuildStatus
  <2>5. RowGoesOn(builds[b], row) /\ row.status = "RUNNING"
    BY <1>2, <2>1, <2>3, <2>4, RowChanges
  <2>6. /\ builds' = [x \in DOMAIN builds |-> builds'[x]] /\ builds'[b] = row
        /\ \A x \in DOMAIN builds : x # b => builds'[x] = builds[x]
    BY <1>2, <2>1, <2>2, <2>3
  <2>7. BuildsFit' /\ BuildsGrow
    <3>1. \A x \in DOMAIN builds : RowGoesOn(builds[x], builds'[x])
      BY <2>5, <2>6 DEF RowGoesOn
    <3>2. QED
      BY <1>1, <2>6, <3>1, RowsGoOn
  <2>8. NoneSucceeds
    BY <2>5, <2>6 DEF NoneSucceeds
  <2>9. QED
    BY <2>7, <2>8
<1>7. ASSUME NEW w \in Workers, FinishBuild(w)
      PROVE  BuildsFit' /\ BuildsGrow
  <2>1. PICK b : b = workers[w].build
    OBVIOUS
  <2>2. PICK status : status = workers[w].status
    OBVIOUS
  <2>3. PICK script : script = workers[w].script
    OBVIOUS
  <2>4. b \in DOMAIN builds /\ status \in {"SUCCEEDED", "FAILED"}
    BY <1>7, <2>1, <2>2 DEF FinishBuild, WorkersFit, WorkerFits, Waiting
  <2>5. \/ builds' = builds
        \/ /\ builds[b].status = "RUNNING"
           /\ builds' = [builds EXCEPT ![b].status = status, ![b].script = script]
    BY <1>7, <2>1, <2>2, <2>3 DEF FinishBuild
  <2>6. CASE builds' = builds
    BY <1>1, <1>2, <2>6, RowsGoOn DEF RowGoesOn
  <2>7. CASE /\ builds[b].status = "RUNNING"
             /\ builds' = [builds EXCEPT ![b].status = status, ![b].script = script]
    <3>1. PICK row : row = [builds[b] EXCEPT !.status = status, !.script = script]
      OBVIOUS
    <3>2. /\ builds' = [x \in DOMAIN builds |-> builds'[x]] /\ builds'[b] = row
          /\ \A x \in DOMAIN builds : x # b => builds'[x] = builds[x]
      BY <1>2, <2>4, <2>7, <3>1
    <3>3. status \in BuildStatus
      BY <2>4 DEF BuildStatus
    <3>4. RowGoesOn(builds[b], row)
      <4>1. BuildFits(builds[b]) /\ builds[b].status # "SUCCEEDED"
        BY <1>2, <2>4, <2>7
      <4>2. QED
        BY <3>1, <3>3, <4>1, RowChanges, Zenon
    <3>5. \A x \in DOMAIN builds : RowGoesOn(builds[x], builds'[x])
      BY <3>2, <3>4 DEF RowGoesOn
    <3>6. QED
      BY <1>1, <3>2, <3>5, RowsGoOn
  <2>8. QED
    BY <2>5, <2>6, <2>7
<1>8. ASSUME RequeueInterrupted
      PROVE  BuildsFit' /\ BuildsGrow /\ NoneSucceeds
  <2>1. /\ builds' = [b \in DOMAIN builds |-> builds'[b]]
        /\ \A b \in DOMAIN builds :
             builds'[b] = IF builds[b].status = "RUNNING"
                          THEN [builds[b] EXCEPT !.status = "QUEUED"] ELSE builds[b]
    BY <1>8 DEF RequeueInterrupted, RequeueAll, RunningBuilds
  <2>2. ASSUME NEW b \in DOMAIN builds, builds[b].status = "RUNNING"
        PROVE  RowGoesOn(builds[b], builds'[b]) /\ builds'[b].status = "QUEUED"
    <3>1. "QUEUED" \in BuildStatus
      BY DEF BuildStatus
    <3>2. PICK row : row = [builds[b] EXCEPT !.status = "QUEUED"]
      OBVIOUS
    <3>3. builds'[b] = row
      BY <2>1, <2>2, <3>2
    <3>4. BuildFits(builds[b]) /\ builds[b].status # "SUCCEEDED"
      BY <1>2, <2>2
    <3>5. RowGoesOn(builds[b], row) /\ row.status = "QUEUED"
      <4>1. PICK old : old = builds[b]
        OBVIOUS
      <4>2. BuildFits(old) /\ old.status # "SUCCEEDED" /\ row = [old EXCEPT !.status = "QUEUED"]
        BY <3>2, <3>4, <4>1
      <4>3. RowGoesOn(old, row) /\ row.status = "QUEUED"
        BY <3>1, <4>2, RowChanges, Zenon
      <4>4. QED
        BY <4>1, <4>3
    <3>6. QED
      BY <3>3, <3>5
  <2>3. BuildsFit' /\ BuildsGrow
    <3>1. \A x \in DOMAIN builds : RowGoesOn(builds[x], builds'[x])
      BY <2>1, <2>2 DEF RowGoesOn
    <3>2. QED
      BY <1>1, <2>1, <3>1, RowsGoOn
  <2>4. NoneSucceeds
    BY <2>1, <2>2 DEF NoneSucceeds
  <2>5. QED
    BY <2>3, <2>4
<1>9. QED
  BY <1>3, <1>4, <1>5, <1>6, <1>7, <1>8, BuildsChange

\* What is decided is an outcome.
LEMMA DecisionIsOutcome ==
  ASSUME NEW call, call.op \in DraftOps
  PROVE  Decide(call).outcome \in AttemptOutcome
<1>1. /\ \A outcome : Decided(outcome).outcome = outcome
      /\ \A outcome, next : Makes(outcome, next).outcome = outcome
  BY DEF Decided, Makes
<1>2. \A v, seen, req : DecideChange(v, seen, req).outcome \in
        {"not_editable", "conflict", "invalid", "unchanged", "applied"}
  BY <1>1 DEF DecideChange
<1>3. \A v, seen, req : DecideRestore(v, seen, req).outcome \in
        {"not_editable", "conflict", "invalid", "unchanged", "applied"}
  BY <1>1 DEF DecideRestore
<1>4. \A v, seen, req : DecideRemove(v, seen, req).outcome \in {"not_editable", "unchanged", "removed"}
  BY <1>1 DEF DecideRemove
<1>5. \A v, seen, req : DecideAttach(v, seen, req).outcome \in
        {"not_editable", "invalid", "not_declared", "unchanged", "attached"}
  <2>1. \A v, seen, req : \E next :
          DecideAttach(v, seen, req) \in {Decided("not_editable"), Decided("invalid"),
                                         Decided("not_declared"), Decided("unchanged"),
                                         Makes("attached", next)}
    BY DEF DecideAttach
  <2>2. QED
    BY <1>1, <2>1
<1>6. CASE call.op = "change"
  BY <1>2, <1>6 DEF Decide, AttemptOutcome
<1>7. CASE call.op = "restore"
  BY <1>3, <1>7 DEF Decide, AttemptOutcome
<1>8. CASE call.op = "remove"
  BY <1>4, <1>8 DEF Decide, AttemptOutcome
<1>9. CASE call.op = "upload"
  BY <1>5, <1>9 DEF Decide, AttemptOutcome
<1>10. QED
  BY <1>6, <1>7, <1>8, <1>9 DEF DraftOps

\* A request keeps what it asks.
Follows(old, new) ==
  new.op = old.op /\ new.version = old.version /\ new.key = old.key /\ new.req = old.req

\* How a request goes on.
LEMMA RequestGoes ==
  ASSUME PublishingInv, NEW c \in Callers, Goes(c)
  PROVE  /\ IsRequest(calls[c]) /\ \A d \in Callers : d # c => calls'[d] = calls[d]
         /\ \/ calls'[c] = Idle
            \/ /\ Follows(calls[c], calls'[c])
               /\ \/ LoseRace(c) /\ calls'[c].at = "deciding" /\ Deciding(c)
                  \/ RegisterAsset(c) /\ calls'[c].at = "put" /\ calls[c].op = "upload"
                  \/ StoreAsset(c) /\ calls'[c].at = "attach" /\ calls[c].op = "upload"
                  \/ AttachAsset(c) /\ calls'[c].at = "deciding" /\ calls[c].op = "upload"
                       /\ ~HasAttempt(calls[c].version, calls[c].key)
<1>1. PICK call : call = calls[c]
  OBVIOUS
<1>2. call.op \in DraftOps
  BY <1>1 DEF Goes, CommitDecision, CommitRevision, LoseRace, RegisterAsset, StoreAsset, AttachAsset,
              Deciding, DraftOps
<1>3. IsRequest(call)
  BY <1>1, <1>2, RequestGoesOn
<1>4. PICK seen : seen = Row(call.version)
  OBVIOUS
<1>5. PICK races : races = call.races + 1
  OBVIOUS
<1>6. ASSUME NEW at
      PROVE  LET next == [call EXCEPT !.at = at] IN Follows(call, next) /\ next.at = at
  BY <1>3 DEF IsRequest, Follows
<1>7. LET next == [call EXCEPT !.at = "deciding", !.seen = seen] IN
      Follows(call, next) /\ next.at = "deciding"
  BY <1>3 DEF IsRequest, Follows
<1>8. LET next == [call EXCEPT !.races = races, !.seen = seen] IN
      Follows(call, next) /\ next.at = call.at
  BY <1>3 DEF IsRequest, Follows
<1>9. ASSUME NEW next, calls' = [calls EXCEPT ![c] = next]
      PROVE  calls'[c] = next /\ \A d \in Callers : d # c => calls'[d] = calls[d]
  BY <1>9, OneCall
<1>10. CASE calls' = [calls EXCEPT ![c] = Idle]
  BY <1>1, <1>3, <1>9, <1>10
<1>11. CASE CommitDecision(c) \/ CommitRevision(c)
  BY <1>10, <1>11 DEF CommitDecision, CommitRevision, CompleteAttempt
<1>12. CASE LoseRace(c)
  <2>1. \/ calls' = [calls EXCEPT ![c] = Idle]
        \/ calls' = [calls EXCEPT ![c] = [call EXCEPT !.races = races, !.seen = seen]]
    <3>1. CASE call.op \in {"change", "restore"}
      BY <1>1, <1>12, <3>1 DEF LoseRace, CompleteAttempt
    <3>2. CASE call.op \in {"remove", "upload"}
      <4>1. calls' = [calls EXCEPT ![c] =
               IF calls[c].races + 1 = MaxRevisionRaces THEN Idle
               ELSE [calls[c] EXCEPT !.races = calls[c].races + 1, !.seen = Row(calls[c].version)]]
        BY <1>1, <1>12, <3>2 DEF LoseRace
      <4>2. QED
        BY <1>1, <1>4, <1>5, <4>1
    <3>3. QED
      BY <1>2, <3>1, <3>2 DEF DraftOps
  <2>2. CASE calls' = [calls EXCEPT ![c] = [call EXCEPT !.races = races, !.seen = seen]]
    <3>1. Deciding(c) /\ call.at = "deciding"
      BY <1>1, <1>12 DEF LoseRace, Deciding
    <3>2. QED
      BY <1>1, <1>3, <1>8, <1>9, <1>12, <2>2, <3>1
  <2>3. QED
    BY <1>10, <2>1, <2>2
<1>13. CASE RegisterAsset(c)
  <2>1. calls' = [calls EXCEPT ![c] = [call EXCEPT !.at = "put"]] /\ call.op = "upload"
    BY <1>1, <1>13 DEF RegisterAsset
  <2>2. QED
    BY <1>1, <1>3, <1>6, <1>9, <1>13, <2>1
<1>14. CASE StoreAsset(c)
  <2>1. calls' = [calls EXCEPT ![c] = [call EXCEPT !.at = "attach"]] /\ call.op = "upload"
    BY <1>1, <1>14 DEF StoreAsset
  <2>2. QED
    BY <1>1, <1>3, <1>6, <1>9, <1>14, <2>1
<1>15. CASE AttachAsset(c)
  <2>1. /\ call.op = "upload"
        /\ \/ calls' = [calls EXCEPT ![c] = Idle]
           \/ /\ calls' = [calls EXCEPT ![c] = [call EXCEPT !.at = "deciding", !.seen = seen]]
              /\ ~HasAttempt(call.version, call.key)
    BY <1>1, <1>4, <1>15 DEF AttachAsset
  <2>2. QED
    BY <1>1, <1>3, <1>7, <1>9, <1>10, <1>15, <2>1
<1>16. QED
  BY <1>11, <1>12, <1>13, <1>14, <1>15 DEF Goes

\* Which calls are requests after a step, and of what.
LEMMA RequestsAfter ==
  ASSUME PublishingInv, VersionsFit, Next, NEW c \in Callers, Asked(calls'[c])
  PROVE  \/ calls'[c] = calls[c]
         \/ \E v, i, call : Begins(c, v, i, call) /\ calls'[c] = call
         \/ Goes(c) /\ Follows(calls[c], calls'[c])
<1>1. ~Asked(Idle)
  BY DEF Asked, Idle, DraftOps
<1>2. CASE \E e \in DOMAIN editions : EnsureDraft(e)
  BY <1>2 DEF EnsureDraft, CreateDraftVersion
<1>3. CASE Plays
  BY <1>3 DEF Plays, PlaysOn
<1>4. ASSUME NEW d \in Callers, NEW v, NEW i, NEW call, Begins(d, v, i, call)
      PROVE  calls'[c] = calls[c] \/ (c = d /\ calls'[c] = call)
  BY <1>4, OneCall DEF Begins
<1>5. ASSUME NEW d \in Callers, Goes(d)
      PROVE  calls'[c] = calls[c] \/ (c = d /\ Follows(calls[c], calls'[c]))
  BY <1>1, <1>5, RequestGoes
<1>6. ASSUME NEW d \in Callers, FreezeVersion(d)
      PROVE  calls'[c] = calls[c]
  <2>1. ~Asked(PublishCall("complete", calls[d].release))
    BY DEF Asked, PublishCall, DraftOps
  <2>2. calls' = [calls EXCEPT ![d] = PublishCall("complete", calls[d].release)]
    BY <1>6 DEF FreezeVersion, GoesOn
  <2>3. QED
    BY <2>1, <2>2, OneCall
<1>7. CASE Cleans
  BY <1>7 DEF Cleans, CleanUnusedObjects, DeleteUnused
<1>8. CASE BuildNext
  <2>1. calls' = calls \/ calls' = [d \in Callers |-> Idle]
    BY <1>8 DEF BuildNext, WorkerSteps, Claims, ClaimOldest, ClaimIsLost, ReuseBuild, BuildFails,
      RegisterArtifacts, StoreArtifacts, FinishBuild, FinishIsLost, Crash, RequeueInterrupted,
      RequeueFails, Settle, draftVars
  <2>2. QED
    BY <1>1, <2>1
<1>9. QED
  BY <1>2, <1>3, <1>4, <1>5, <1>6, <1>7, <1>8, StepKinds

\* A step of any kind keeps requests what they are.
LEMMA RequestsFitStep ==
  ASSUME PublishingInv, VersionsFit, RequestsFit, Next
  PROVE  RequestsFit'
<1>1. ASSUME NEW c \in Callers, Asked(calls'[c])
      PROVE  RequestFits(calls'[c])
  <2>1. CASE calls'[c] = calls[c]
    BY <1>1, <2>1 DEF RequestsFit
  <2>2. ASSUME NEW v, NEW i, NEW call, Begins(c, v, i, call), calls'[c] = call
        PROVE  RequestFits(calls'[c])
    BY <2>2 DEF Begins, RequestFits
  <2>3. CASE Goes(c) /\ Follows(calls[c], calls'[c])
    <3>1. Asked(calls[c])
      BY <1>1, <2>3 DEF Follows, Asked
    <3>2. calls'[c].at = "deciding" \/ calls[c].op = "upload"
      BY <1>1, <2>3, RequestGoes DEF Asked, Idle, DraftOps
    <3>3. QED
      BY <2>3, <3>1, <3>2 DEF RequestsFit, RequestFits, Follows
  <2>4. QED
    BY <1>1, <2>1, <2>2, <2>3, RequestsAfter
<1>2. QED
  BY <1>1 DEF RequestsFit, RequestFits, Asked

\* An attempt is recorded once, with its request.
Records(c, outcome, rev) ==
  /\ calls[c].key \in IdempotencyKeys /\ calls[c].version \in Versions
  /\ outcome \in AttemptOutcome /\ rev \in Nat
  /\ attempts' = [attempts EXCEPT ![calls[c].key] =
                    [version |-> calls[c].version, outcome |-> outcome, revision |-> rev]]
  /\ Deciding(c) /\ calls'[c] = Idle /\ \A d \in Callers : d # c => calls'[d] = calls[d]

\* Which steps record an attempt.
LEMMA AttemptsChange ==
  ASSUME PublishingInv, VersionsFit, RequestsFit, Next
  PROVE  \/ attempts' = attempts
         \/ \E c \in Callers :
              /\ Goes(c)
              /\ \/ \E outcome \in AttemptOutcome \ MadeRevision :
                      Records(c, outcome, 0) /\ versions' = versions
                 \/ /\ CommitRevision(c)
                    /\ Records(c, Decide(calls[c]).outcome, Current(calls[c].version) + 1)
<1>1. ASSUME NEW c \in Callers, Goes(c), attempts' # attempts
      PROVE  \/ \E outcome \in AttemptOutcome \ MadeRevision :
                  Records(c, outcome, 0) /\ versions' = versions
             \/ /\ CommitRevision(c)
                /\ Records(c, Decide(calls[c]).outcome, Current(calls[c].version) + 1)
  <2>1. IsRequest(calls[c])
    BY <1>1, RequestGoes
  <2>2. /\ calls[c].key \in IdempotencyKeys /\ calls[c].version \in Versions
        /\ Decide(calls[c]).outcome \in AttemptOutcome
    BY <2>1, DecisionIsOutcome DEF RequestsFit, RequestFits, Asked, IsRequest
  <2>3. Current(calls[c].version) + 1 \in Nat
    BY <2>2 DEF VersionsFit, RevisionsFit, IsSequence, Current
  <2>4. ASSUME NEW outcome \in AttemptOutcome, NEW rev \in Nat, CompleteAttempt(c, outcome, rev), Deciding(c)
        PROVE  Records(c, outcome, rev)
    <3>1. calls'[c] = Idle /\ \A d \in Callers : d # c => calls'[d] = calls[d]
      BY <2>4, OneCall DEF CompleteAttempt
    <3>2. QED
      BY <2>2, <2>4, <3>1 DEF CompleteAttempt, Records
  <2>5. CASE CommitDecision(c)
    <3>1. /\ Deciding(c) /\ Decide(calls[c]).outcome \notin MadeRevision
          /\ CompleteAttempt(c, Decide(calls[c]).outcome, 0) /\ versions' = versions
      BY <2>5 DEF CommitDecision
    <3>2. QED
      BY <2>2, <2>4, <3>1
  <2>6. CASE CommitRevision(c)
    <3>1. /\ Deciding(c)
          /\ CompleteAttempt(c, Decide(calls[c]).outcome, Current(calls[c].version) + 1)
      BY <2>6 DEF CommitRevision, CanAdvance
    <3>2. QED
      BY <2>2, <2>3, <2>4, <2>6, <3>1
  <2>7. CASE LoseRace(c)
    <3>1. Deciding(c) /\ CompleteAttempt(c, "conflict", 0) /\ versions' = versions
      BY <1>1, <2>7 DEF LoseRace
    <3>2. "conflict" \in AttemptOutcome \ MadeRevision
      BY DEF AttemptOutcome, MadeRevision
    <3>3. QED
      BY <2>4, <3>1, <3>2
  <2>8. QED
    BY <1>1, <2>5, <2>6, <2>7 DEF Goes, RegisterAsset, StoreAsset, AttachAsset
<1>2. (\E e \in DOMAIN editions : EnsureDraft(e)) => attempts' = attempts
  BY DEF EnsureDraft, CreateDraftVersion
<1>3. (\E c \in Callers : FreezeVersion(c)) => attempts' = attempts
  BY DEF FreezeVersion
<1>4. Cleans => attempts' = attempts
  BY DEF Cleans, CleanUnusedObjects, DeleteUnused
<1>5. BuildNext => attempts' = attempts
  BY DEF BuildNext, WorkerSteps, Claims, ClaimOldest, ClaimIsLost, ReuseBuild, BuildFails,
      RegisterArtifacts, StoreArtifacts, FinishBuild, FinishIsLost, Crash, RequeueInterrupted,
      RequeueFails, Settle, draftVars
<1>6. QED
  BY <1>1, <1>2, <1>3, <1>4, <1>5, StepKinds DEF Plays, Begins

\* Every step keeps the attempts well formed.
LEMMA AttemptsStep ==
  ASSUME PublishingInv, VersionsFit, RequestsFit, AttemptsFit, Next
  PROVE  AttemptsFit'
<1>1. ASSUME NEW c \in Callers, NEW outcome, NEW rev, Records(c, outcome, rev)
      PROVE  AttemptsFit'
  <2>1. PICK row : row = [version |-> calls[c].version, outcome |-> outcome, revision |-> rev]
    OBVIOUS
  <2>2. row \in Attempt /\ attempts' = [attempts EXCEPT ![calls[c].key] = row]
    BY <1>1, <2>1 DEF Records, Attempt
  <2>3. QED
    BY <2>2 DEF AttemptsFit
<1>2. CASE attempts' = attempts
  BY <1>2 DEF AttemptsFit
<1>3. QED
  BY <1>1, <1>2, AttemptsChange

\* What is kept stays kept, what is claimed stays claimed.
Keeps == \A o : (Kept(o) => Kept(o)') /\ (Claimed(o) => Claimed(o)')

\* An object that no cleanup holds is registered: a cleanup spares it, and
\* what the store holds stays.
LEMMA ObjectIsRegistered ==
  ASSUME ObjectsFit, NEW o, objects' = Register(o), cleaning' = cleaning, o \notin cleaning
  PROVE  ObjectsFit' /\ Keeps /\ Claimed(o)'
<1>1. PICK stored : stored = (o \in DOMAIN objects /\ objects[o].stored)
  OBVIOUS
<1>2. stored \in BOOLEAN
  BY <1>1 DEF ObjectsFit, ObjectFits
<1>3. PICK new : new = [fresh |-> TRUE, deleted |-> FALSE, stored |-> stored]
  OBVIOUS
<1>4. /\ DOMAIN objects' = DOMAIN objects \cup {o} /\ IsMap(objects')
      /\ objects'[o] = new /\ \A p \in DOMAIN objects : p # o => objects'[p] = objects[p]
  BY <1>1, <1>3 DEF Register, IsMap
<1>5. ObjectFits(new) /\ new.fresh /\ ~new.deleted /\ new.stored = stored
  BY <1>2, <1>3 DEF ObjectFits
<1>6. ObjectsFit'
  <2>1. \A p \in DOMAIN objects' : ObjectFits(objects'[p])
    BY <1>4, <1>5 DEF ObjectsFit
  <2>2. QED
    BY <1>4, <2>1 DEF ObjectsFit, IsMap
<1>7. \A p : Spared(p)' = Spared(p)
  BY DEF Spared
<1>8. \A p : Stored(p) => Stored(p)'
  BY <1>1, <1>4, <1>5 DEF Stored
<1>9. Claimed(o)' /\ \A p : Claimed(p) => Claimed(p)'
  <2>1. Spared(o)
    BY DEF Spared
  <2>2. QED
    BY <1>4, <1>5, <1>7, <2>1 DEF Claimed
<1>10. QED
  BY <1>6, <1>7, <1>8, <1>9 DEF Keeps, Kept

\* The content of an object is put in the store.
LEMMA ObjectIsPut ==
  ASSUME ObjectsFit, NEW o, objects' = PutObject(o), cleaning' = cleaning
  PROVE  ObjectsFit' /\ Keeps /\ (Claimed(o) => Stored(o)')
<1>1. CASE o \notin DOMAIN objects
  <2>1. objects' = objects
    BY <1>1 DEF PutObject, ObjectsFit, IsMap
  <2>2. QED
    BY <1>1, <2>1 DEF ObjectsFit, IsMap, Keeps, Kept, Claimed, Stored, Spared
<1>2. CASE o \in DOMAIN objects
  <2>1. PICK new : new = [objects[o] EXCEPT !.stored = TRUE]
    OBVIOUS
  <2>2. ObjectFits(objects[o])
    BY <1>2 DEF ObjectsFit
  <2>3. /\ ObjectFits(new) /\ new.fresh = objects[o].fresh /\ new.deleted = objects[o].deleted
        /\ new.stored
    BY <2>1, <2>2 DEF ObjectFits
  <2>4. /\ DOMAIN objects' = DOMAIN objects /\ IsMap(objects')
        /\ objects'[o] = new /\ \A p \in DOMAIN objects : p # o => objects'[p] = objects[p]
    BY <1>2, <2>1 DEF PutObject, ObjectsFit, IsMap
  <2>5. ObjectsFit'
    <3>1. \A p \in DOMAIN objects' : ObjectFits(objects'[p])
      BY <2>3, <2>4 DEF ObjectsFit
    <3>2. QED
      BY <2>4, <3>1 DEF ObjectsFit, IsMap
  <2>6. \A p : Spared(p)' = Spared(p)
    BY DEF Spared
  <2>7. (\A p : Stored(p) => Stored(p)') /\ (~objects[o].deleted => Stored(o)')
    BY <1>2, <2>3, <2>4 DEF Stored
  <2>8. \A p : Claimed(p) => Claimed(p)'
    BY <2>3, <2>4, <2>6 DEF Claimed
  <2>9. QED
    BY <2>5, <2>6, <2>7, <2>8 DEF Keeps, Kept, Claimed
<1>3. QED
  BY <1>1, <1>2

\* A cleanup deletes what it holds, and nothing that is kept.
LEMMA UnusedIsDeleted ==
  ASSUME ObjectsFit, NEW x, NEW marked \in BOOLEAN, DeleteUnused(x, marked)
  PROVE  ObjectsFit' /\ Keeps
<1>1. /\ x \in cleaning /\ cleaning' = cleaning \ {x}
      /\ objects' = [objects EXCEPT ![x].stored = FALSE, ![x].deleted = marked]
  BY DEF DeleteUnused
<1>2. /\ DOMAIN objects' = DOMAIN objects /\ IsMap(objects')
      /\ \A p \in DOMAIN objects : p # x => objects'[p] = objects[p]
      /\ x \in DOMAIN objects => objects'[x] = [objects[x] EXCEPT !.stored = FALSE, !.deleted = marked]
  BY <1>1 DEF ObjectsFit, IsMap
<1>3. ObjectsFit'
  <2>1. ASSUME NEW p \in DOMAIN objects'
        PROVE  ObjectFits(objects'[p])
    <3>1. ObjectFits(objects[p])
      BY <1>2 DEF ObjectsFit
    <3>2. CASE p = x
      BY <1>2, <3>1, <3>2 DEF ObjectFits
    <3>3. CASE p # x
      BY <1>2, <3>1, <3>3
    <3>4. QED
      BY <3>2, <3>3
  <2>2. QED
    BY <1>2, <2>1 DEF ObjectsFit, IsMap
<1>4. \A p : Spared(p) => p # x /\ Spared(p)'
  BY <1>1 DEF Spared
<1>5. QED
  BY <1>2, <1>3, <1>4 DEF Keeps, Kept, Claimed, Stored

\* Time passes: only what is being stored stays fresh.
LEMMA ObjectsSettle ==
  ASSUME ObjectsFit, Settle
  PROVE  /\ ObjectsFit'
         /\ \A o : /\ Kept(o) => Kept(o)'
                   /\ Claimed(o) /\ o \in BeingStored => Claimed(o)'
<1>1. PICK stays : stays = BeingStored
  OBVIOUS
<1>2. /\ cleaning' = cleaning
      /\ objects' = [o \in DOMAIN objects |->
                      [objects[o] EXCEPT !.fresh = objects[o].fresh /\ o \in stays]]
  BY <1>1 DEF Settle
<1>3. DOMAIN objects' = DOMAIN objects /\ IsMap(objects')
  BY <1>2 DEF IsMap
<1>4. ASSUME NEW o \in DOMAIN objects
      PROVE  /\ ObjectFits(objects'[o])
             /\ objects'[o].stored = objects[o].stored /\ objects'[o].deleted = objects[o].deleted
             /\ objects[o].fresh /\ o \in stays => objects'[o].fresh
  <2>1. PICK fresh : fresh = (objects[o].fresh /\ o \in stays)
    OBVIOUS
  <2>2. ObjectFits(objects[o]) /\ fresh \in BOOLEAN
    BY <2>1 DEF ObjectsFit
  <2>3. PICK new : new = [objects[o] EXCEPT !.fresh = fresh]
    OBVIOUS
  <2>4. /\ ObjectFits(new) /\ new.stored = objects[o].stored /\ new.deleted = objects[o].deleted
        /\ new.fresh = fresh
    BY <2>2, <2>3 DEF ObjectFits
  <2>5. objects'[o] = new
    BY <1>2, <2>1, <2>3
  <2>6. QED
    BY <2>1, <2>4, <2>5
<1>5. ObjectsFit'
  BY <1>3, <1>4 DEF ObjectsFit, IsMap
<1>6. \A o : Spared(o)' = Spared(o)
  BY <1>2 DEF Spared
<1>7. QED
  BY <1>1, <1>3, <1>4, <1>5, <1>6 DEF Kept, Claimed, Stored

\* What a step of any kind makes of the objects.
LEMMA ObjectsStep ==
  ASSUME PublishingInv, VersionsFit, ObjectsFit, Next
  PROVE  /\ ObjectsFit'
         /\ \/ Keeps
            \/ Settle /\ UNCHANGED gameVars
            \/ /\ \E o \in DOMAIN objects : CleanUnusedObjects(o)
               /\ UNCHANGED <<buildVars, gameVars>>
<1>1. ASSUME objects' = objects, cleaning' = cleaning \/ cleaning' = {}
      PROVE  ObjectsFit' /\ Keeps
  BY <1>1 DEF ObjectsFit, IsMap, Keeps, Kept, Claimed, Stored, Spared
<1>2. CASE \E e \in DOMAIN editions : EnsureDraft(e)
  BY <1>1, <1>2 DEF EnsureDraft, CreateDraftVersion
<1>3. ASSUME NEW c \in Callers, Goes(c)
      PROVE  ObjectsFit' /\ Keeps
  <2>1. CASE RegisterAsset(c)
    BY <2>1, ObjectIsRegistered DEF RegisterAsset
  <2>2. CASE StoreAsset(c)
    BY <2>2, ObjectIsPut DEF StoreAsset
  <2>3. CASE CommitDecision(c) \/ CommitRevision(c) \/ LoseRace(c) \/ AttachAsset(c)
    BY <1>1, <2>3 DEF CommitDecision, CommitRevision, LoseRace, AttachAsset
  <2>4. QED
    BY <1>3, <2>1, <2>2, <2>3 DEF Goes
<1>4. CASE \E c \in Callers : FreezeVersion(c)
  BY <1>1, <1>4 DEF FreezeVersion
<1>5. CASE Cleans
  <2>1. ASSUME NEW o \in DOMAIN objects, CleanUnusedObjects(o)
        PROVE  ObjectsFit'
    BY <2>1 DEF CleanUnusedObjects, ObjectsFit, IsMap
  <2>2. QED
    BY <1>5, <2>1, UnusedIsDeleted DEF Cleans
<1>6. CASE BuildNext /\ UNCHANGED gameVars
  <2>1. ASSUME NEW w \in Workers, RegisterArtifacts(w)
        PROVE  ObjectsFit' /\ Keeps
    BY <2>1, ObjectIsRegistered DEF RegisterArtifacts
  <2>2. ASSUME NEW w \in Workers, StoreArtifacts(w)
        PROVE  ObjectsFit' /\ Keeps
    BY <2>2, ObjectIsPut DEF StoreArtifacts
  <2>3. ASSUME NEW w \in Workers, ClaimOldest(w) \/ ClaimIsLost(w) \/ ReuseBuild(w) \/ BuildFails(w)
                                  \/ FinishBuild(w) \/ FinishIsLost(w)
        PROVE  ObjectsFit' /\ Keeps
    BY <1>1, <2>3 DEF Claims, ClaimOldest, ClaimIsLost, ReuseBuild, BuildFails, FinishBuild,
                      FinishIsLost, draftVars
  <2>4. CASE Crash \/ RequeueInterrupted \/ RequeueFails
    BY <1>1, <2>4 DEF Crash, RequeueInterrupted, RequeueFails, draftVars
  <2>5. CASE Settle
    BY <1>6, <2>5, ObjectsSettle
  <2>6. QED
    BY <1>6, <2>1, <2>2, <2>3, <2>4, <2>5 DEF BuildNext, WorkerSteps
<1>7. CASE Plays
  BY <1>1, <1>7 DEF Plays
<1>8. ASSUME NEW c, NEW v, NEW i, NEW call, Begins(c, v, i, call)
      PROVE  ObjectsFit' /\ Keeps
  BY <1>1, <1>8 DEF Begins
<1>9. QED
  BY <1>2, <1>3, <1>4, <1>5, <1>6, <1>7, <1>8, StepKinds

\* What becomes of a worker.
WorkerGoes(w) ==
  /\ workers' = [x \in Workers |-> workers'[x]] /\ \A x \in Workers : x # w => workers'[x] = workers[x]
  /\ \/ /\ workers'[w].at = "running" /\ workers'[w].build \in Queued
        /\ Claims(w, workers'[w].build) /\ UNCHANGED lost
     \/ FinishBuild(w) \/ FinishIsLost(w)
     \/ RegisterArtifacts(w) \/ ReuseBuild(w) \/ BuildFails(w) \/ StoreArtifacts(w)

\* Its steps, but for a claim and an end, are of the build it runs.
LEMMA WorkerRuns ==
  ASSUME WorkersFit, NEW w \in Workers
  PROVE  /\ RegisterArtifacts(w) =>
              /\ workers[w].at = "running"
              /\ workers'[w].at = "storing" /\ workers'[w].build = workers[w].build
              /\ workers'[w].script = Script(Inputs(workers[w].build).files)
         /\ ReuseBuild(w) =>
              /\ workers[w].at = "running" /\ Reusable(workers[w].build) # {}
              /\ workers'[w].at = "ending" /\ workers'[w].build = workers[w].build
              /\ workers'[w].status = "SUCCEEDED"
              /\ workers'[w].script =
                   builds[CHOOSE r \in Reusable(workers[w].build) :
                            \A other \in Reusable(workers[w].build) : r <= other].script
         /\ BuildFails(w) =>
              /\ workers[w].at \in {"running", "storing"}
              /\ workers'[w].at = "ending" /\ workers'[w].build = workers[w].build
              /\ workers'[w].status = "FAILED"
         /\ StoreArtifacts(w) =>
              /\ workers[w].at = "storing"
              /\ workers'[w].at = "ending" /\ workers'[w].build = workers[w].build
              /\ workers'[w].status = "SUCCEEDED" /\ workers'[w].script = workers[w].script
         /\ FinishBuild(w) \/ FinishIsLost(w) => workers[w].at = "ending" /\ workers'[w] = Waiting
<1>1. ASSUME NEW status, NEW script, Ends(w, status, script)
      PROVE  /\ workers'[w].at = "ending" /\ workers'[w].build = workers[w].build
             /\ workers'[w].status = status /\ workers'[w].script = script
  BY <1>1 DEF Ends, WorkersFit
<1>2. ASSUME RegisterArtifacts(w)
      PROVE  /\ workers[w].at = "running"
             /\ workers'[w].at = "storing" /\ workers'[w].build = workers[w].build
             /\ workers'[w].script = Script(Inputs(workers[w].build).files)
  <2>1. PICK script : script = Script(Inputs(workers[w].build).files)
    OBVIOUS
  <2>2. /\ workers[w].at = "running"
        /\ workers' = [workers EXCEPT ![w] = [at |-> "storing", build |-> workers[w].build,
                                              script |-> script]]
    BY <1>2, <2>1 DEF RegisterArtifacts
  <2>3. QED
    BY <2>1, <2>2 DEF WorkersFit
<1>3. ASSUME ReuseBuild(w)
      PROVE  /\ workers[w].at = "running" /\ Reusable(workers[w].build) # {}
             /\ workers'[w].at = "ending" /\ workers'[w].build = workers[w].build
             /\ workers'[w].status = "SUCCEEDED"
             /\ workers'[w].script =
                  builds[CHOOSE r \in Reusable(workers[w].build) :
                           \A other \in Reusable(workers[w].build) : r <= other].script
  <2>1. PICK r : r = CHOOSE x \in Reusable(workers[w].build) :
                       \A other \in Reusable(workers[w].build) : x <= other
    OBVIOUS
  <2>2. /\ workers[w].at = "running" /\ Reusable(workers[w].build) # {}
        /\ Ends(w, "SUCCEEDED", builds[r].script)
    BY <1>3, <2>1 DEF ReuseBuild
  <2>3. QED
    BY <1>1, <2>1, <2>2
<1>4. ASSUME BuildFails(w)
      PROVE  /\ workers[w].at \in {"running", "storing"}
             /\ workers'[w].at = "ending" /\ workers'[w].build = workers[w].build
             /\ workers'[w].status = "FAILED"
  BY <1>1, <1>4 DEF BuildFails
<1>5. ASSUME StoreArtifacts(w)
      PROVE  /\ workers[w].at = "storing"
             /\ workers'[w].at = "ending" /\ workers'[w].build = workers[w].build
             /\ workers'[w].status = "SUCCEEDED" /\ workers'[w].script = workers[w].script
  BY <1>1, <1>5 DEF StoreArtifacts
<1>6. FinishBuild(w) \/ FinishIsLost(w) => workers[w].at = "ending" /\ workers'[w] = Waiting
  BY DEF FinishBuild, FinishIsLost, WorkersFit
<1>7. QED
  BY <1>2, <1>3, <1>4, <1>5, <1>6

\* A step of a worker is of one of these kinds.
LEMMA WorkerStepGoes ==
  ASSUME BuildsFit, WorkersFit, NEW w \in Workers, WorkerSteps(w) \/ FinishIsLost(w)
  PROVE  WorkerGoes(w)
<1>1. \E new : workers' = [workers EXCEPT ![w] = new]
  BY DEF WorkerSteps, ClaimOldest, ReuseBuild, BuildFails, RegisterArtifacts, StoreArtifacts,
         FinishBuild, FinishIsLost, Ends
<1>2. /\ workers' = [x \in Workers |-> workers'[x]]
      /\ \A x \in Workers : x # w => workers'[x] = workers[x]
  BY <1>1 DEF WorkersFit
<1>3. CASE ClaimOldest(w)
  <2>1. PICK b \in Queued :
          /\ Claims(w, b) /\ UNCHANGED lost
          /\ workers' = [workers EXCEPT ![w] = [at |-> "running", build |-> b]]
    BY <1>3 DEF ClaimOldest
  <2>2. workers'[w] = [at |-> "running", build |-> b]
    BY <2>1 DEF WorkersFit
  <2>3. workers'[w].at = "running" /\ workers'[w].build = b
    BY <2>2
  <2>4. QED
    BY <1>2, <2>1, <2>3 DEF WorkerGoes
<1>4. QED
  BY <1>2, <1>3 DEF WorkerSteps, WorkerGoes

\* Which steps are a worker's.
LEMMA WorkersChange ==
  ASSUME PublishingInv, VersionsFit, BuildsFit, WorkersFit, Next
  PROVE  workers' = workers \/ Crash \/ \E w \in Workers : WorkerGoes(w)
<1>1. BuildNext => workers' = workers \/ Crash \/ \E w \in Workers : WorkerGoes(w)
  BY WorkerStepGoes DEF BuildNext, ClaimIsLost, RequeueInterrupted, RequeueFails, Settle
<1>2. (\E c \in Callers : Goes(c)) \/ Cleans => workers' = workers
  BY DEF Goes, Cleans, buildVars
<1>3. (\E e \in DOMAIN editions : EnsureDraft(e)) \/ (\E c \in Callers : FreezeVersion(c))
        => workers' = workers
  BY DEF EnsureDraft, FreezeVersion, buildVars
<1>4. QED
  BY <1>1, <1>2, <1>3, StepKinds DEF Plays, Begins, buildVars

\* Every step keeps the workers well formed.
LEMMA WorkersStep ==
  ASSUME PublishingInv, VersionsFit, BuildsFit, WorkersFit, Next
  PROVE  WorkersFit'
<1>1. \A b \in DOMAIN builds : b \in DOMAIN builds'
  BY BuildsStep DEF BuildsGrow
<1>2. \A worker : WorkerFits(worker) => WorkerFits(worker)'
  BY <1>1 DEF WorkerFits, Waiting
<1>3. WorkerFits(Waiting)'
  BY DEF WorkerFits, Waiting
<1>4. CASE workers' = workers
  BY <1>2, <1>4 DEF WorkersFit
<1>5. CASE Crash
  BY <1>3, <1>5 DEF WorkersFit, Crash
<1>6. ASSUME NEW w \in Workers, WorkerGoes(w)
      PROVE  WorkersFit'
  <2>1. PICK worker : worker = workers[w]
    OBVIOUS
  <2>2. PICK new : new = workers'[w]
    OBVIOUS
  <2>3. worker.at \in {"running", "storing"} => worker.build \in DOMAIN builds'
    BY <1>1, <2>1 DEF WorkersFit, WorkerFits, Waiting
  <2>4. WorkerFits(new)'
    <3>1. CASE new.at = "running" /\ new.build \in Queued
      BY <1>1, <3>1 DEF WorkerFits, Queued
    <3>2. CASE FinishBuild(w) \/ FinishIsLost(w)
      BY <1>3, <2>2, <3>2, WorkerRuns
    <3>3. CASE RegisterArtifacts(w)
      <4>1. worker.at = "running" /\ new.at = "storing" /\ new.build = worker.build
        BY <2>1, <2>2, <3>3, WorkerRuns
      <4>2. QED
        BY <2>3, <4>1 DEF WorkerFits
    <3>4. CASE ReuseBuild(w) \/ BuildFails(w) \/ StoreArtifacts(w)
      <4>1. /\ worker.at \in {"running", "storing"} /\ new.at = "ending" /\ new.build = worker.build
            /\ new.status \in {"SUCCEEDED", "FAILED"}
        BY <2>1, <2>2, <3>4, WorkerRuns
      <4>2. QED
        BY <2>3, <4>1 DEF WorkerFits
    <3>5. QED
      BY <1>6, <2>2, <3>1, <3>2, <3>3, <3>4 DEF WorkerGoes
  <2>5. \A x \in Workers : WorkerFits(workers[x])'
    <3>1. TAKE x \in Workers
    <3>2. CASE x = w
      BY <2>2, <2>4, <3>2
    <3>3. CASE x # w
      <4>1. PICK other : other = workers[x]
        OBVIOUS
      <4>2. WorkerFits(other)'
        BY <1>2, <4>1 DEF WorkersFit
      <4>3. QED
        BY <1>6, <3>3, <4>1, <4>2 DEF WorkerGoes
    <3>4. QED
      BY <3>2, <3>3
  <2>6. QED
    BY <1>6, <2>5 DEF WorkersFit, WorkerGoes
<1>7. QED
  BY <1>4, <1>5, <1>6, WorkersChange

\* A step of any kind leaves every row fit.
LEMMA DraftsFitNext ==
  ASSUME PublishingInv, DraftsFit, Next
  PROVE  DraftsFit'
<1>1. VersionsFit /\ BuildsFit /\ AttemptsFit /\ ObjectsFit /\ RequestsFit /\ WorkersFit
  BY DEF DraftsFit
<1>2. VersionsFit' /\ BuildsFit' /\ AttemptsFit' /\ ObjectsFit' /\ RequestsFit' /\ WorkersFit'
  BY <1>1, VersionsStep, BuildsStep, AttemptsStep, ObjectsStep, RequestsFitStep, WorkersStep
<1>3. QED
  BY <1>2 DEF DraftsFit

(***************************************************************************)
(* Keys.                                                                   *)
(***************************************************************************)
\* What KeysHold says of two requests, one of which may be the other.
KeyHolds(call) ==
  /\ attempts[call.key] # Nothing => attempts[call.key].version = call.version
  /\ call.at = "deciding" => attempts[call.key] = Nothing

Apart(call, other) ==
  call.key = other.key =>
    call.version = other.version /\ ~(call.at = "deciding" /\ other.at = "deciding")

KeysApart ==
  \A c \in Callers : Asked(calls[c]) =>
    /\ KeyHolds(calls[c])
    /\ \A d \in Callers : d # c /\ Asked(calls[d]) => Apart(calls[c], calls[d])

\* What KeysHold says, request by request.
LEMMA KeysHoldApart ==
  /\ KeysHold <=> KeysApart
  /\ KeysHold' <=> KeysApart'
  BY DEF KeysHold, KeysApart, KeyHolds, Apart, Asked, Deciding

\* Requests do not change, but that one may begin or go on.
LEMMA OneAsks ==
  ASSUME KeysHold, NEW c \in Callers, attempts' = attempts,
         \A d \in Callers : d # c /\ Asked(calls'[d]) => calls'[d] = calls[d],
         Asked(calls'[c]) =>
           /\ KeyHolds(calls'[c])
           /\ \A d \in Callers : d # c /\ Asked(calls[d]) => Apart(calls'[c], calls[d])
  PROVE  KeysHold'
<1>1. KeysApart
  BY KeysHoldApart
<1>2. \A call : KeyHolds(call)' = KeyHolds(call)
  BY DEF KeyHolds
<1>3. \A call, other : Apart(call, other) => Apart(other, call)
  BY DEF Apart
<1>4. ASSUME NEW x \in Callers, Asked(calls'[x])
      PROVE  /\ KeyHolds(calls'[x])
             /\ \A y \in Callers : y # x /\ Asked(calls'[y]) => Apart(calls'[x], calls'[y])
  <2>1. CASE x = c
    BY <1>4, <2>1
  <2>2. CASE x # c
    <3>1. calls'[x] = calls[x] /\ KeyHolds(calls'[x])
      BY <1>1, <1>4, <2>2 DEF KeysApart
    <3>2. ASSUME NEW y \in Callers, y # x, Asked(calls'[y])
          PROVE  Apart(calls'[x], calls'[y])
      <4>1. CASE y = c
        BY <1>3, <1>4, <2>2, <3>1, <3>2, <4>1
      <4>2. CASE y # c
        BY <1>1, <1>4, <2>2, <3>1, <3>2, <4>2 DEF KeysApart
      <4>3. QED
        BY <4>1, <4>2
    <3>3. QED
      BY <3>1, <3>2
  <2>3. QED
    BY <2>1, <2>2
<1>5. KeysApart'
  <2>1. ASSUME NEW x \in Callers, Asked(calls'[x])
        PROVE  /\ KeyHolds(calls[x])'
               /\ \A y \in Callers : y # x /\ Asked(calls'[y]) => Apart(calls'[x], calls'[y])
    BY <1>2, <1>4, <2>1 DEF KeyHolds
  <2>2. QED
    BY <2>1 DEF KeysApart, Asked, Apart
<1>6. QED
  BY <1>5, KeysHoldApart

\* A request begins with a key no other version's request has, and decides
\* alone.
LEMMA BeginningStep ==
  ASSUME PublishingInv, AttemptsFit, KeysHold,
         NEW c \in Callers, NEW v, NEW i, NEW call, Begins(c, v, i, call)
  PROVE  KeysHold'
<1>1. calls'[c] = call /\ \A d \in Callers : d # c => calls'[d] = calls[d]
  BY OneCall DEF Begins
<1>2. /\ attempts' = attempts /\ call.version = v /\ call.key = i
      /\ KeyIsFree(v, i) /\ ~HasAttempt(v, i) /\ (call.at = "deciding" => ~KeyIsHeld(v, i))
  BY DEF Begins
<1>3. KeyHolds(call)
  BY <1>2 DEF KeyHolds, KeyIsFree, HasAttempt
<1>4. ASSUME NEW d \in Callers, d # c, Asked(calls[d])
      PROVE  Apart(call, calls[d])
  BY <1>2, <1>4 DEF Apart, KeyIsFree, KeyIsHeld, Deciding, Asked
<1>5. QED
  BY <1>1, <1>2, <1>3, <1>4, OneAsks

\* A request goes on before its answer, and decides once it holds its key.
LEMMA GoingStep ==
  ASSUME PublishingInv, VersionsFit, KeysHold, NEW c \in Callers, Goes(c), attempts' = attempts
  PROVE  KeysHold'
<1>1. /\ IsRequest(calls[c]) /\ Asked(calls[c])
      /\ \A d \in Callers : d # c => calls'[d] = calls[d]
  BY RequestGoes DEF IsRequest, Asked
<1>2. KeysApart
  BY KeysHoldApart
<1>3. PICK old : old = calls[c]
  OBVIOUS
<1>4. PICK new : new = calls'[c]
  OBVIOUS
<1>5. KeyHolds(old) /\ \A d \in Callers : d # c /\ Asked(calls[d]) => Apart(old, calls[d])
  BY <1>1, <1>2, <1>3 DEF KeysApart
<1>6. ASSUME Follows(old, new), new.at = "deciding" => old.at = "deciding"
      PROVE  KeyHolds(new) /\ \A d \in Callers : d # c /\ Asked(calls[d]) => Apart(new, calls[d])
  BY <1>5, <1>6 DEF Follows, KeyHolds, Apart
<1>7. ASSUME Follows(old, new), AttachAsset(c), ~HasAttempt(old.version, old.key)
      PROVE  KeyHolds(new) /\ \A d \in Callers : d # c /\ Asked(calls[d]) => Apart(new, calls[d])
  <2>1. ~KeyIsHeld(old.version, old.key)
    BY <1>3, <1>7 DEF AttachAsset
  <2>2. KeyHolds(new)
    BY <1>5, <1>7 DEF Follows, KeyHolds, HasAttempt
  <2>3. ASSUME NEW d \in Callers, d # c, Asked(calls[d])
        PROVE  Apart(new, calls[d])
    <3>1. Apart(old, calls[d])
      BY <1>5, <2>3
    <3>2. ~(calls[d].key = old.key /\ calls[d].at = "deciding" /\ calls[d].version = old.version)
      BY <2>1, <2>3 DEF KeyIsHeld, Deciding, Asked
    <3>3. QED
      BY <1>7, <3>1, <3>2 DEF Apart, Follows
  <2>4. QED
    BY <2>2, <2>3
<1>8. Asked(new) => KeyHolds(new) /\ \A d \in Callers : d # c /\ Asked(calls[d]) => Apart(new, calls[d])
  <2>1. ~Asked(Idle)
    BY DEF Asked, Idle, DraftOps
  <2>2. \/ new = Idle
        \/ Follows(old, new) /\ (new.at = "deciding" => old.at = "deciding")
        \/ Follows(old, new) /\ AttachAsset(c) /\ ~HasAttempt(old.version, old.key)
    BY <1>3, <1>4, RequestGoes DEF Deciding
  <2>3. QED
    BY <1>6, <1>7, <2>1, <2>2
<1>9. QED
  BY <1>1, <1>4, <1>8, OneAsks

\* An attempt is recorded under the key its request held.
LEMMA RecordingStep ==
  ASSUME PublishingInv, AttemptsFit, KeysHold, NEW c \in Callers, NEW outcome, NEW rev,
         Records(c, outcome, rev)
  PROVE  KeysHold'
<1>1. KeysApart
  BY KeysHoldApart
<1>2. PICK old : old = calls[c]
  OBVIOUS
<1>3. PICK row : row = [version |-> old.version, outcome |-> outcome, revision |-> rev]
  OBVIOUS
<1>4. /\ old.key \in IdempotencyKeys /\ row.version = old.version
      /\ attempts' = [attempts EXCEPT ![old.key] = row]
      /\ Asked(old) /\ old.at = "deciding" /\ calls'[c] = Idle
      /\ \A d \in Callers : d # c => calls'[d] = calls[d]
  BY <1>2, <1>3 DEF Records, Deciding, Asked
<1>5. attempts'[old.key] = row /\ \A i : i # old.key => attempts'[i] = attempts[i]
  BY <1>4 DEF AttemptsFit
<1>6. ~Asked(calls'[c])
  BY <1>4 DEF Asked, Idle, DraftOps
<1>7. ASSUME NEW d \in Callers, Asked(calls'[d])
      PROVE  /\ KeyHolds(calls[d])'
             /\ \A x \in Callers : x # d /\ Asked(calls'[x]) => Apart(calls'[d], calls'[x])
  <2>1. d # c /\ calls'[d] = calls[d]
    BY <1>4, <1>6, <1>7
  <2>2. KeyHolds(calls[d]) /\ Apart(old, calls[d])
    BY <1>1, <1>2, <1>4, <1>7, <2>1 DEF KeysApart
  <2>3. KeyHolds(calls[d])'
    <3>1. CASE calls[d].key = old.key
      <4>1. calls[d].version = old.version /\ calls[d].at # "deciding"
        BY <1>4, <2>2, <3>1 DEF Apart
      <4>2. QED
        BY <1>4, <1>5, <2>1, <3>1, <4>1 DEF KeyHolds
    <3>2. CASE calls[d].key # old.key
      BY <1>5, <2>1, <2>2, <3>2 DEF KeyHolds
    <3>3. QED
      BY <3>1, <3>2
  <2>4. \A x \in Callers : x # d /\ Asked(calls'[x]) => Apart(calls'[d], calls'[x])
    BY <1>1, <1>4, <1>6, <1>7, <2>1 DEF KeysApart
  <2>5. QED
    BY <2>3, <2>4
<1>8. KeysApart'
  BY <1>7 DEF KeysApart, Asked, Apart
<1>9. QED
  BY <1>8, KeysHoldApart

\* Every step keeps a key to one version and to one decision at a time.
LEMMA KeysNext ==
  ASSUME PublishingInv, DraftsFit, KeysHold, Next
  PROVE  KeysHold'
<1>1. VersionsFit /\ AttemptsFit /\ RequestsFit
  BY DEF DraftsFit
<1>2. CASE attempts' = attempts
  <2>1. ASSUME NEW c \in Callers, Goes(c)
        PROVE  KeysHold'
    BY <1>1, <1>2, <2>1, GoingStep
  <2>2. ASSUME NEW c \in Callers, NEW v, NEW i, NEW call, Begins(c, v, i, call)
        PROVE  KeysHold'
    BY <1>1, <2>2, BeginningStep
  <2>3. CASE \A c \in Callers : Asked(calls'[c]) => calls'[c] = calls[c]
    BY <1>2, <2>3 DEF KeysHold, Asked, Deciding
  <2>4. QED
    BY <1>1, <2>1, <2>2, <2>3, RequestsAfter
<1>3. QED
  BY <1>1, <1>2, AttemptsChange, RecordingStep

(***************************************************************************)
(* A revision is made once.                                                *)
(***************************************************************************)
\* How many revisions the versions have changes only where one is created or
\* goes on.
LEMMA CurrentChanges ==
  ASSUME PublishingInv, VersionsFit, Next, ~(\E c \in Callers : CommitRevision(c))
  PROVE  \A v \in Versions : Current(v)' = Current(v) \/ (Current(v) = 0 /\ Current(v)' = 1)
<1>1. CASE versions' = versions
  BY <1>1 DEF Current
<1>2. ASSUME NEW e \in DOMAIN editions, EnsureDraft(e), NEW v \in Versions
      PROVE  Current(v)' = Current(v) \/ (Current(v) = 0 /\ Current(v)' = 1)
  <2>1. CASE v = editions[e].version
    BY <1>2, <2>1, DraftIsCreated
  <2>2. CASE v # editions[e].version
    <3>1. versions'[v] = versions[v]
      BY <1>2, <2>2, DraftIsCreated
    <3>2. QED
      BY <3>1 DEF Current
  <2>3. QED
    BY <2>1, <2>2
<1>3. ASSUME NEW c \in Callers, FreezeVersion(c), NEW v \in Versions
      PROVE  Current(v)' = Current(v)
  <2>1. versions'[v].revs = versions[v].revs
    BY <1>3, VersionIsFrozen
  <2>2. QED
    BY <2>1 DEF Current
<1>4. QED
  BY <1>1, <1>2, <1>3, VersionsChange

\* A recorded attempt is a new one.
LEMMA MadeAfter ==
  ASSUME AttemptsFit, KeysHold, NEW c \in Callers, NEW outcome, NEW rev, Records(c, outcome, rev)
  PROVE  \A i \in IdempotencyKeys : \A v, r :
           Made(i, v, r)' <=> \/ Made(i, v, r)
                              \/ /\ i = calls[c].key /\ v = calls[c].version /\ r = rev
                                 /\ outcome \in MadeRevision
<1>1. PICK k : k = calls[c].key
  OBVIOUS
<1>2. PICK row : row = [version |-> calls[c].version, outcome |-> outcome, revision |-> rev]
  OBVIOUS
<1>3. row \in Attempt /\ k \in IdempotencyKeys /\ attempts' = [attempts EXCEPT ![k] = row]
  BY <1>1, <1>2 DEF Records, Attempt
<1>4. row # Nothing
  BY <1>3, AttemptAssumption DEF Attempt
<1>5. attempts'[k] = row /\ \A i : i # k => attempts'[i] = attempts[i]
  BY <1>3 DEF AttemptsFit
<1>6. attempts[k] = Nothing
  BY <1>1 DEF Records, Deciding, Asked, KeysHold
<1>7. row.version = calls[c].version /\ row.outcome = outcome /\ row.revision = rev
  BY <1>2
<1>8. ASSUME NEW i \in IdempotencyKeys, NEW v, NEW r
      PROVE  Made(i, v, r)' <=> \/ Made(i, v, r)
                                \/ /\ i = k /\ v = calls[c].version /\ r = rev
                                   /\ outcome \in MadeRevision
  <2>1. CASE i = k
    BY <1>4, <1>5, <1>6, <1>7, <2>1 DEF Made, HasAttempt
  <2>2. CASE i # k
    BY <1>5, <2>2 DEF Made, HasAttempt
  <2>3. QED
    BY <2>1, <2>2
<1>9. QED
  BY <1>1, <1>8

\* No revision is made, nor said to be.
LEMMA MadeStays ==
  ASSUME VersionsFit, VersionsGrow, RevisionsAreMade,
         \A i \in IdempotencyKeys : \A v, r : Made(i, v, r)' <=> Made(i, v, r),
         \A v \in Versions : Current(v)' = Current(v) \/ (Current(v) = 0 /\ Current(v)' = 1)
  PROVE  RevisionsAreMade'
<1>1. ASSUME NEW v \in Versions, NEW rev \in 2..Current(v)'
      PROVE  /\ \E i \in IdempotencyKeys : Made(i, v, rev)'
             /\ ~SameRevision(versions'[v].revs[rev], versions'[v].revs[rev - 1])
  <2>1. Current(v) \in Nat
    BY RevisionsCount
  <2>2. rev \in 2..Current(v) /\ rev \in 1..Current(v) /\ rev - 1 \in 1..Current(v)
    BY <1>1, <2>1
  <2>3. /\ versions'[v].revs[rev] = versions[v].revs[rev]
        /\ versions'[v].revs[rev - 1] = versions[v].revs[rev - 1]
    BY <2>2 DEF VersionsGrow, VersionGrows
  <2>4. QED
    BY <2>2, <2>3 DEF RevisionsAreMade
<1>2. ASSUME NEW i \in IdempotencyKeys, NEW v \in Versions, NEW rev \in Nat, Made(i, v, rev)'
      PROVE  /\ rev \in 2..Current(v)'
             /\ \A j \in IdempotencyKeys : Made(j, v, rev)' => i = j
  <2>1. Made(i, v, rev)
    BY <1>2
  <2>2. rev \in 2..Current(v) /\ \A j \in IdempotencyKeys : Made(j, v, rev) => i = j
    BY <2>1 DEF RevisionsAreMade
  <2>3. Current(v) \in Nat /\ Current(v)' \in Nat
    BY DEF VersionsGrow, VersionGrows
  <2>4. QED
    BY <2>2, <2>3
<1>3. QED
  BY <1>1, <1>2 DEF RevisionsAreMade

\* A revision is made over the one its request read, by that request.
LEMMA MadeOnce ==
  ASSUME PublishingInv, VersionsFit, AttemptsFit, KeysHold, RevisionsAreMade,
         NEW c \in Callers, CommitRevision(c),
         Records(c, Decide(calls[c]).outcome, Current(calls[c].version) + 1)
  PROVE  RevisionsAreMade'
<1>1. PICK u : u = calls[c].version
  OBVIOUS
<1>2. PICK k : k = calls[c].key
  OBVIOUS
<1>3. PICK new : new = Current(u) + 1
  OBVIOUS
<1>4. PICK decided : decided = Decide(calls[c])
  OBVIOUS
<1>5. Deciding(c) /\ CanAdvance(calls[c]) /\ decided.outcome \in MadeRevision
  BY <1>4 DEF CommitRevision
<1>6. /\ u \in Versions /\ Current(u) \in Nat /\ Current(u) > 0
      /\ ~SameRevision(decided.next, versions[u].revs[Current(u)])
  BY <1>1, <1>4, <1>5, DecidedRevision
<1>7. PICK next : next = decided.next
  OBVIOUS
<1>8. /\ Current(u)' = new /\ versions'[u].revs[new] = next
      /\ \A w \in Versions : w # u => versions'[w] = versions[w]
      /\ VersionsGrow
  BY <1>1, <1>3, <1>4, <1>7, RevisionIsAdded
<1>9. k \in IdempotencyKeys
  BY <1>2 DEF Records
<1>10. \A i \in IdempotencyKeys : \A v, r :
         Made(i, v, r)' <=> Made(i, v, r) \/ (i = k /\ v = u /\ r = new)
  BY <1>1, <1>2, <1>3, <1>4, <1>5, MadeAfter
<1>11. \A w \in Versions : w # u => Current(w)' = Current(w)
  BY <1>8 DEF Current
<1>12. ASSUME NEW v \in Versions, NEW rev \in 2..Current(v), v # u \/ rev # new
       PROVE  /\ \E i \in IdempotencyKeys : Made(i, v, rev)'
              /\ ~SameRevision(versions'[v].revs[rev], versions'[v].revs[rev - 1])
  <2>1. Current(v) \in Nat
    BY RevisionsCount
  <2>2. rev \in 1..Current(v) /\ rev - 1 \in 1..Current(v)
    BY <1>12, <2>1
  <2>3. /\ versions'[v].revs[rev] = versions[v].revs[rev]
        /\ versions'[v].revs[rev - 1] = versions[v].revs[rev - 1]
    BY <1>8, <2>2 DEF VersionsGrow, VersionGrows
  <2>4. QED
    BY <1>10, <2>3 DEF RevisionsAreMade
<1>13. /\ \E i \in IdempotencyKeys : Made(i, u, new)'
       /\ ~SameRevision(versions'[u].revs[new], versions'[u].revs[new - 1])
  <2>1. new - 1 = Current(u) /\ new - 1 \in 1..Current(u)
    BY <1>3, <1>6
  <2>2. versions'[u].revs[new - 1] = versions[u].revs[Current(u)]
    BY <1>6, <1>8, <2>1 DEF VersionsGrow, VersionGrows
  <2>3. QED
    BY <1>6, <1>7, <1>8, <1>9, <1>10, <2>2
<1>14. ASSUME NEW v \in Versions, NEW rev \in 2..Current(v)'
       PROVE  /\ \E i \in IdempotencyKeys : Made(i, v, rev)'
              /\ ~SameRevision(versions'[v].revs[rev], versions'[v].revs[rev - 1])
  <2>1. CASE v = u /\ rev = new
    BY <1>13, <2>1
  <2>2. CASE v = u /\ rev # new
    <3>1. rev \in 2..Current(v)
      BY <1>3, <1>6, <1>8, <2>2
    <3>2. QED
      BY <1>12, <2>2, <3>1
  <2>3. CASE v # u
    BY <1>11, <1>12, <2>3
  <2>4. QED
    BY <2>1, <2>2, <2>3
<1>15. ASSUME NEW i \in IdempotencyKeys, NEW v \in Versions, NEW rev \in Nat, Made(i, v, rev)'
       PROVE  /\ rev \in 2..Current(v)'
              /\ \A j \in IdempotencyKeys : Made(j, v, rev)' => i = j
  <2>1. \A j \in IdempotencyKeys : ~Made(j, u, new)
    <3>1. new \in Nat /\ new \notin 2..Current(u)
      BY <1>3, <1>6
    <3>2. QED
      BY <1>6, <3>1 DEF RevisionsAreMade
  <2>2. CASE v = u /\ rev = new
    <3>1. rev \in 2..Current(v)'
      BY <1>3, <1>6, <1>8, <2>2
    <3>2. QED
      BY <1>10, <1>15, <2>1, <2>2, <3>1
  <2>3. CASE ~(v = u /\ rev = new)
    <3>1. Made(i, v, rev)
      BY <1>10, <1>15, <2>3
    <3>2. rev \in 2..Current(v) /\ \A j \in IdempotencyKeys : Made(j, v, rev) => i = j
      BY <3>1 DEF RevisionsAreMade
    <3>3. Current(v) \in Nat /\ Current(v)' \in Nat /\ Current(v) <= Current(v)'
      BY <1>8 DEF VersionsGrow, VersionGrows
    <3>4. QED
      BY <1>10, <2>3, <3>2, <3>3
  <2>4. QED
    BY <2>2, <2>3
<1>16. QED
  BY <1>14, <1>15 DEF RevisionsAreMade

\* Every step keeps each revision with the one attempt that made it.
LEMMA RevisionsAreMadeNext ==
  ASSUME PublishingInv, DraftsFit, KeysHold, RevisionsAreMade, Next
  PROVE  RevisionsAreMade'
<1>1. VersionsFit /\ AttemptsFit /\ RequestsFit /\ VersionsGrow
  BY VersionsStep DEF DraftsFit
<1>2. ASSUME NEW c \in Callers, CommitRevision(c)
      PROVE  Records(c, Decide(calls[c]).outcome, Current(calls[c].version) + 1)
  <2>1. IsRequest(calls[c]) /\ Deciding(c) /\ Asked(calls[c])
    BY <1>2, RequestGoesOn DEF CommitRevision, Deciding, Asked
  <2>2. /\ calls[c].key \in IdempotencyKeys /\ calls[c].version \in Versions
        /\ Decide(calls[c]).outcome \in AttemptOutcome
    BY <1>1, <2>1, DecisionIsOutcome DEF RequestsFit, RequestFits, Asked, IsRequest
  <2>3. Current(calls[c].version) + 1 \in Nat
    BY <1>1, <2>2, RevisionsCount
  <2>4. CompleteAttempt(c, Decide(calls[c]).outcome, Current(calls[c].version) + 1)
    BY <1>2 DEF CommitRevision, CanAdvance
  <2>5. calls'[c] = Idle /\ \A d \in Callers : d # c => calls'[d] = calls[d]
    BY <2>4, OneCall DEF CompleteAttempt
  <2>6. QED
    BY <2>1, <2>2, <2>3, <2>4, <2>5 DEF CompleteAttempt, Records
<1>3. ASSUME NEW c \in Callers, CommitRevision(c)
      PROVE  RevisionsAreMade'
  BY <1>1, <1>2, <1>3, MadeOnce
<1>4. ASSUME ~(\E c \in Callers : CommitRevision(c))
      PROVE  RevisionsAreMade'
  <2>1. \A i \in IdempotencyKeys : \A v, r : Made(i, v, r)' <=> Made(i, v, r)
    <3>1. CASE attempts' = attempts
      BY <3>1 DEF Made, HasAttempt
    <3>2. ASSUME NEW c \in Callers, NEW outcome \in AttemptOutcome \ MadeRevision,
                 Records(c, outcome, 0)
          PROVE  \A i \in IdempotencyKeys : \A v, r : Made(i, v, r)' <=> Made(i, v, r)
      BY <1>1, <3>2, MadeAfter
    <3>3. QED
      BY <1>1, <1>4, <3>1, <3>2, AttemptsChange
  <2>2. QED
    BY <1>1, <1>4, <2>1, CurrentChanges, MadeStays
<1>5. QED
  BY <1>3, <1>4

(***************************************************************************)
(* The newest revision is built.                                           *)
(***************************************************************************)
\* A revision is built where a build of it is.
LEMMA BuiltIsABuild ==
  /\ \A v, rev : HasBuild(v, rev) <=>
       \E b \in DOMAIN builds : builds[b].version = v /\ builds[b].revision = rev
  /\ \A v, rev : HasBuild(v, rev)' <=>
       \E b \in DOMAIN builds' : builds'[b].version = v /\ builds'[b].revision = rev
  BY DEF HasBuild, BuildsOf

\* The new revision of a version is queued for building.
LEMMA QueuedIsBuilt ==
  ASSUME VersionsFit, BuildsFit, RevisionsAreBuilt,
         NEW u \in Versions, NEW new, new = Current(u) + 1, Queues(u, new), Current(u)' = new,
         \A v \in Versions : v # u => Current(v)' = Current(v)
  PROVE  RevisionsAreBuilt'
<1>1. PICK last : last = Len(builds) + 1
  OBVIOUS
<1>2. Current(u) \in Nat
  BY RevisionsCount
<1>3. /\ DOMAIN builds' = DOMAIN builds \cup {last} /\ last \notin DOMAIN builds
      /\ builds'[last] = [version |-> u, revision |-> new, status |-> "QUEUED", script |-> Nothing]
  BY <1>1 DEF Queues
<1>4. builds'[last].version = u /\ builds'[last].revision = new /\ builds'[last].status = "QUEUED"
  BY <1>3
<1>5. ASSUME NEW b \in DOMAIN builds
      PROVE  /\ builds'[b].version = builds[b].version /\ builds'[b].revision = builds[b].revision
             /\ ~(builds[b].version = u /\ builds[b].status = "QUEUED") => builds'[b] = builds[b]
             /\ builds[b].version \in Versions
             /\ builds[b].version = u => builds[b].revision # new
  <2>1. PICK row : row = builds[b]
    OBVIOUS
  <2>2. BuildFits(row)
    BY <2>1 DEF BuildsFit
  <2>3. LET other == [row EXCEPT !.status = "SUPERSEDED"] IN
        other.version = row.version /\ other.revision = row.revision
    BY <2>2 DEF BuildFits
  <2>4. row.version = u => row.revision # new
    BY <1>2, <2>2 DEF BuildFits
  <2>5. QED
    BY <2>1, <2>2, <2>3, <2>4 DEF Queues, BuildFits
<1>6. ASSUME NEW v \in Versions, NEW rev \in 1..Current(v)'
      PROVE  HasBuild(v, rev)'
  <2>1. CASE v = u /\ rev = new
    BY <1>3, <1>4, <2>1, BuiltIsABuild
  <2>2. CASE ~(v = u /\ rev = new)
    <3>1. rev \in 1..Current(v)
      BY <1>2, <1>6, <2>2
    <3>2. PICK b \in DOMAIN builds : builds[b].version = v /\ builds[b].revision = rev
      BY <3>1, BuiltIsABuild DEF RevisionsAreBuilt
    <3>3. QED
      BY <1>3, <1>5, <3>2, BuiltIsABuild
  <2>3. QED
    BY <2>1, <2>2
<1>7. ASSUME NEW b \in DOMAIN builds', NEW other \in DOMAIN builds',
             builds'[b].version = builds'[other].version,
             builds'[b].revision = builds'[other].revision
      PROVE  b = other
  BY <1>3, <1>4, <1>5, <1>7 DEF RevisionsAreBuilt
<1>8. ASSUME NEW b \in DOMAIN builds', builds'[b].revision = Current(builds[b].version)'
      PROVE  builds'[b].status # "SUPERSEDED"
  <2>1. CASE b = last
    BY <1>4, <2>1
  <2>2. CASE b \in DOMAIN builds
    <3>1. builds[b].version # u
      BY <1>5, <1>8, <2>2
    <3>2. builds'[b] = builds[b] /\ Current(builds[b].version)' = Current(builds[b].version)
      BY <1>5, <2>2, <3>1
    <3>3. QED
      BY <1>8, <2>2, <3>2 DEF RevisionsAreBuilt
  <2>3. QED
    BY <1>3, <2>1, <2>2
<1>9. QED
  BY <1>6, <1>7, <1>8 DEF RevisionsAreBuilt

\* The rows are the same, and none is newly superseded.
RowsKeep ==
  /\ DOMAIN builds' = DOMAIN builds
  /\ \A b \in DOMAIN builds :
       builds'[b].status = "SUPERSEDED" => builds[b].status = "SUPERSEDED"

\* No revision is added, and no build superseded.
LEMMA BuiltStays ==
  ASSUME VersionsFit, BuildsFit, RevisionsAreBuilt, BuildsGrow, RowsKeep,
         \A v \in Versions : Current(v)' = Current(v)
  PROVE  RevisionsAreBuilt'
<1>1. \A b \in DOMAIN builds : /\ builds'[b].version = builds[b].version
                               /\ builds'[b].revision = builds[b].revision
                               /\ builds[b].version \in Versions
  BY DEF BuildsGrow, BuildsFit, BuildFits
<1>2. ASSUME NEW v \in Versions, NEW rev \in 1..Current(v)'
      PROVE  HasBuild(v, rev)'
  <2>1. HasBuild(v, rev)
    BY <1>2 DEF RevisionsAreBuilt
  <2>2. QED
    BY <1>1, <2>1, BuiltIsABuild DEF RowsKeep
<1>3. ASSUME NEW b \in DOMAIN builds', NEW other \in DOMAIN builds',
             builds'[b].version = builds'[other].version,
             builds'[b].revision = builds'[other].revision
      PROVE  b = other
  BY <1>1, <1>3 DEF RevisionsAreBuilt, RowsKeep
<1>4. ASSUME NEW b \in DOMAIN builds', builds'[b].revision = Current(builds[b].version)'
      PROVE  builds'[b].status # "SUPERSEDED"
  BY <1>1, <1>4 DEF RevisionsAreBuilt, RowsKeep
<1>5. QED
  BY <1>2, <1>3, <1>4 DEF RevisionsAreBuilt

\* How the steps of builds change their rows, and which builds run.
LEMMA RowsChange ==
  ASSUME BuildsFit, WorkersFit
  PROVE  /\ \A w \in Workers, b \in Queued : Claims(w, b) =>
              RowsKeep /\ b \notin RunningBuilds /\ RunningBuilds' = RunningBuilds \cup {b}
         /\ \A w \in Workers : FinishBuild(w) =>
              RowsKeep /\ RunningBuilds' = RunningBuilds \ {workers[w].build}
         /\ RequeueInterrupted => RowsKeep /\ RunningBuilds' = {}
<1>1. builds = [b \in DOMAIN builds |-> builds[b]] /\ \A b \in DOMAIN builds : BuildFits(builds[b])
  BY DEF BuildsFit, IsSequence
<1>2. ASSUME NEW w \in Workers, NEW b \in Queued, Claims(w, b)
      PROVE  RowsKeep /\ b \notin RunningBuilds /\ RunningBuilds' = RunningBuilds \cup {b}
  <2>1. /\ b \in DOMAIN builds /\ builds[b].status = "QUEUED"
        /\ builds' = [builds EXCEPT ![b].status = "RUNNING"]
    BY <1>2 DEF Claims, Queued
  <2>2. PICK row : row = builds[b]
    OBVIOUS
  <2>3. [row EXCEPT !.status = "RUNNING"].status = "RUNNING"
    BY <1>1, <2>1, <2>2 DEF BuildFits
  <2>4. /\ DOMAIN builds' = DOMAIN builds /\ builds'[b].status = "RUNNING"
        /\ \A x \in DOMAIN builds : x # b => builds'[x] = builds[x]
    BY <1>1, <2>1, <2>2, <2>3
  <2>5. RowsKeep
    BY <2>4 DEF RowsKeep
  <2>6. b \notin RunningBuilds /\ RunningBuilds' = RunningBuilds \cup {b}
    BY <2>1, <2>4 DEF RunningBuilds
  <2>7. QED
    BY <2>5, <2>6
<1>3. ASSUME NEW w \in Workers, FinishBuild(w)
      PROVE  RowsKeep /\ RunningBuilds' = RunningBuilds \ {workers[w].build}
  <2>1. PICK b : b = workers[w].build
    OBVIOUS
  <2>2. PICK status : status = workers[w].status
    OBVIOUS
  <2>3. PICK script : script = workers[w].script
    OBVIOUS
  <2>4. b \in DOMAIN builds /\ status \in {"SUCCEEDED", "FAILED"}
    BY <1>3, <2>1, <2>2 DEF FinishBuild, WorkersFit, WorkerFits, Waiting
  <2>5. \/ builds' = builds /\ builds[b].status # "RUNNING"
        \/ builds' = [builds EXCEPT ![b].status = status, ![b].script = script]
    BY <1>3, <2>1, <2>2, <2>3 DEF FinishBuild
  <2>6. PICK row : row = builds[b]
    OBVIOUS
  <2>7. [row EXCEPT !.status = status, !.script = script].status = status
    BY <1>1, <2>4, <2>6 DEF BuildFits
  <2>8. \/ builds' = builds /\ builds[b].status # "RUNNING"
        \/ /\ DOMAIN builds' = DOMAIN builds /\ builds'[b].status = status
           /\ \A x \in DOMAIN builds : x # b => builds'[x] = builds[x]
    <3>1. PICK new : new = [row EXCEPT !.status = status, !.script = script]
      OBVIOUS
    <3>2. ASSUME builds' = [builds EXCEPT ![b].status = status, ![b].script = script]
          PROVE  builds' = [builds EXCEPT ![b] = new]
      BY <1>1, <2>4, <2>6, <3>1, <3>2
    <3>3. QED
      BY <1>1, <2>4, <2>5, <2>7, <3>1, <3>2
  <2>9. RowsKeep
    BY <2>4, <2>8 DEF RowsKeep
  <2>10. RunningBuilds' = RunningBuilds \ {b}
    BY <2>4, <2>8 DEF RunningBuilds
  <2>11. QED
    BY <2>1, <2>9, <2>10
<1>4. ASSUME RequeueInterrupted
      PROVE  RowsKeep /\ RunningBuilds' = {}
  <2>1. PICK running : running = RunningBuilds
    OBVIOUS
  <2>2. builds' = [b \in DOMAIN builds |->
                     IF b \in running THEN [builds[b] EXCEPT !.status = "QUEUED"] ELSE builds[b]]
    BY <1>4, <2>1 DEF RequeueInterrupted, RequeueAll
  <2>3. ASSUME NEW b \in DOMAIN builds
        PROVE  /\ builds'[b].status = "SUPERSEDED" => builds[b].status = "SUPERSEDED"
               /\ builds'[b].status # "RUNNING"
    <3>1. PICK row : row = builds[b]
      OBVIOUS
    <3>2. [row EXCEPT !.status = "QUEUED"].status = "QUEUED"
      BY <1>1, <3>1 DEF BuildFits
    <3>3. b \in running <=> row.status = "RUNNING"
      BY <2>1, <3>1 DEF RunningBuilds
    <3>4. builds'[b] = IF b \in running THEN [row EXCEPT !.status = "QUEUED"] ELSE row
      BY <2>2, <3>1
    <3>5. QED
      BY <3>1, <3>2, <3>3, <3>4
  <2>4. DOMAIN builds' = DOMAIN builds
    BY <2>2
  <2>5. QED
    BY <2>3, <2>4 DEF RowsKeep, RunningBuilds
<1>5. QED
  BY <1>2, <1>3, <1>4

\* A version that gets a revision gets a build of it.
LEMMA QueuingSteps ==
  ASSUME PublishingInv, VersionsFit, BuildsFit,
         (\E e \in DOMAIN editions : EnsureDraft(e)) \/ (\E c \in Callers : CommitRevision(c))
  PROVE  \E u \in Versions : /\ Queues(u, Current(u) + 1) /\ Current(u)' = Current(u) + 1
                             /\ \A v \in Versions : v # u => Current(v)' = Current(v)
<1>1. ASSUME NEW e \in DOMAIN editions, EnsureDraft(e)
      PROVE  \E u \in Versions : /\ Queues(u, Current(u) + 1) /\ Current(u)' = Current(u) + 1
                                 /\ \A v \in Versions : v # u => Current(v)' = Current(v)
  <2>1. PICK u : u = editions[e].version
    OBVIOUS
  <2>2. /\ u \in Versions /\ Current(u) = 0 /\ Current(u)' = 1
        /\ \A w \in Versions : w # u => versions'[w] = versions[w]
    BY <1>1, <2>1, DraftIsCreated
  <2>3. builds' = QueueBuild(u, 1)
    BY <1>1, <2>1 DEF EnsureDraft, CreateDraftVersion
  <2>4. Queues(u, 1)
    BY <2>3, QueueBuildQueues
  <2>5. 1 = Current(u) + 1
    BY <2>2
  <2>6. Queues(u, Current(u) + 1)
    BY <2>4, <2>5
  <2>7. \A v \in Versions : v # u => Current(v)' = Current(v)
    BY <2>2 DEF Current
  <2>8. QED
    BY <2>2, <2>5, <2>6, <2>7
<1>2. ASSUME NEW c \in Callers, CommitRevision(c)
      PROVE  \E u \in Versions : /\ Queues(u, Current(u) + 1) /\ Current(u)' = Current(u) + 1
                                 /\ \A v \in Versions : v # u => Current(v)' = Current(v)
  <2>1. PICK u : u = calls[c].version
    OBVIOUS
  <2>2. /\ u \in Versions /\ Current(u)' = Current(u) + 1
        /\ \A w \in Versions : w # u => versions'[w] = versions[w]
    BY <1>2, <2>1, RevisionIsAdded
  <2>3. builds' = QueueBuild(u, Current(u) + 1)
    BY <1>2, <2>1 DEF CommitRevision, CanAdvance
  <2>4. Queues(u, Current(u) + 1)
    BY <2>3, QueueBuildQueues
  <2>5. \A v \in Versions : v # u => Current(v)' = Current(v)
    BY <2>2 DEF Current
  <2>6. QED
    BY <2>2, <2>4, <2>5
<1>3. QED
  BY <1>1, <1>2

\* Every step keeps each revision with its one build.
LEMMA RevisionsAreBuiltNext ==
  ASSUME PublishingInv, DraftsFit, RevisionsAreBuilt, Next
  PROVE  RevisionsAreBuilt'
<1>1. VersionsFit /\ BuildsFit /\ WorkersFit /\ BuildsGrow
  BY BuildsStep DEF DraftsFit
<1>2. CASE (\E e \in DOMAIN editions : EnsureDraft(e)) \/ (\E c \in Callers : CommitRevision(c))
  BY <1>1, <1>2, QueuingSteps, QueuedIsBuilt
<1>3. CASE ~((\E e \in DOMAIN editions : EnsureDraft(e)) \/ (\E c \in Callers : CommitRevision(c)))
  <2>1. \A v \in Versions : Current(v)' = Current(v)
    <3>1. CASE versions' = versions
      BY <3>1 DEF Current
    <3>2. ASSUME NEW c \in Callers, FreezeVersion(c), NEW v \in Versions
          PROVE  Current(v)' = Current(v)
      <4>1. versions'[v].revs = versions[v].revs
        BY <1>1, <3>2, VersionIsFrozen
      <4>2. QED
        BY <4>1 DEF Current
    <3>3. QED
      BY <1>1, <1>3, <3>1, <3>2, VersionsChange
  <2>2. CASE builds' = builds
    BY <1>1, <2>1, <2>2, BuiltStays DEF RowsKeep
  <2>3. ASSUME NEW w \in Workers, (\E b \in Queued : Claims(w, b)) \/ FinishBuild(w)
        PROVE  RevisionsAreBuilt'
    BY <1>1, <2>1, <2>3, RowsChange, BuiltStays
  <2>4. CASE RequeueInterrupted
    BY <1>1, <2>1, <2>4, RowsChange, BuiltStays
  <2>5. QED
    BY <1>1, <1>3, <2>2, <2>3, <2>4, BuildsChange
<1>4. QED
  BY <1>2, <1>3

\* Which steps change what builds run, and whether the instance is up.
LEMMA RunsChange ==
  ASSUME PublishingInv, VersionsFit, BuildsFit, WorkersFit, Next
  PROVE  \/ \E w \in Workers : WorkerGoes(w) \/ ClaimIsLost(w)
         \/ Crash \/ RequeueInterrupted \/ RequeueFails
         \/ UNCHANGED <<workers, up, lost>> /\ RunningBuilds' = RunningBuilds
<1>1. BuildNext => \/ \E w \in Workers : WorkerGoes(w) \/ ClaimIsLost(w)
                   \/ Crash \/ RequeueInterrupted \/ RequeueFails
                   \/ UNCHANGED <<builds, workers, up, lost>>
  BY WorkerStepGoes DEF BuildNext, Settle
<1>2. CASE UNCHANGED <<builds, workers, up, lost>>
  BY <1>2 DEF RunningBuilds
<1>3. ASSUME NEW v, NEW rev, Queues(v, rev)
      PROVE  RunningBuilds' = RunningBuilds
  <2>1. [version |-> v, revision |-> rev, status |-> "QUEUED", script |-> Nothing].status = "QUEUED"
    OBVIOUS
  <2>2. PICK added : added = Len(builds) + 1
    OBVIOUS
  <2>3. /\ DOMAIN builds' = DOMAIN builds \cup {added} /\ added \notin DOMAIN builds
        /\ builds'[added].status = "QUEUED"
    BY <1>3, <2>1, <2>2 DEF Queues
  <2>4. ASSUME NEW b \in DOMAIN builds
        PROVE  builds'[b].status = "RUNNING" <=> builds[b].status = "RUNNING"
    <3>1. PICK row : row = builds[b]
      OBVIOUS
    <3>2. [row EXCEPT !.status = "SUPERSEDED"].status = "SUPERSEDED"
      BY <2>4, <3>1 DEF BuildsFit, BuildFits
    <3>3. builds'[b] = IF row.version = v /\ row.status = "QUEUED"
                       THEN [row EXCEPT !.status = "SUPERSEDED"] ELSE row
      BY <1>3, <2>4, <3>1 DEF Queues
    <3>4. QED
      BY <3>1, <3>2, <3>3
  <2>5. QED
    BY <2>3, <2>4 DEF RunningBuilds
<1>4. CASE \/ \E e \in DOMAIN editions : EnsureDraft(e)
           \/ \E c \in Callers : Goes(c) /\ CommitRevision(c)
  <2>1. \E v, rev : Queues(v, rev)
    BY <1>4, QueuingSteps
  <2>2. UNCHANGED <<workers, up, lost>>
    BY <1>4 DEF EnsureDraft, Goes, buildVars
  <2>3. QED
    BY <1>3, <2>1, <2>2
<1>5. ASSUME NEW c \in Callers, Goes(c), ~CommitRevision(c)
      PROVE  UNCHANGED <<builds, workers, up, lost>>
  BY <1>5 DEF Goes, CommitDecision, LoseRace, RegisterAsset, StoreAsset, AttachAsset, buildVars
<1>6. Cleans \/ (\E c \in Callers : FreezeVersion(c)) => UNCHANGED <<builds, workers, up, lost>>
  BY DEF Cleans, CleanUnusedObjects, DeleteUnused, FreezeVersion, buildVars
<1>7. QED
  BY <1>1, <1>2, <1>4, <1>5, <1>6, StepKinds DEF Plays, Begins, buildVars

\* What a step makes of the worker w alone keeps workers and running builds in
\* agreement.
LEMMA WorkerAgrees ==
  ASSUME NEW w \in Workers, \A x \in Workers : x # w => workers'[x] = workers[x],
         RunningBuildsAreRun, RunsHold, up, up' = up,
         \/ /\ workers[w] = Waiting /\ workers'[w] # Waiting /\ lost' = lost
            /\ workers'[w].build \notin RunningBuilds
            /\ RunningBuilds' = RunningBuilds \cup {workers'[w].build}
         \/ /\ workers[w] # Waiting /\ workers'[w] # Waiting /\ lost' = lost
            /\ workers'[w].build = workers[w].build /\ RunningBuilds' = RunningBuilds
         \/ /\ workers[w] # Waiting /\ workers'[w] = Waiting /\ lost' = lost
            /\ RunningBuilds' = RunningBuilds \ {workers[w].build}
         \/ /\ workers[w] # Waiting /\ workers'[w] = Waiting /\ RunningBuilds' = RunningBuilds
            /\ lost' = lost \cup {workers[w].build}
  PROVE  RunningBuildsAreRun' /\ RunsHold'
<1>1. /\ \A b \in RunningBuilds :
           b \in lost \/ \E x \in Workers : workers[x] # Waiting /\ workers[x].build = b
      /\ \A x \in Workers : workers[x] # Waiting =>
           /\ workers[x].build \in RunningBuilds /\ workers[x].build \notin lost
           /\ \A other \in Workers \ {x} :
                workers[other] # Waiting => workers[other].build # workers[x].build
      /\ lost \subseteq RunningBuilds
  BY DEF RunningBuildsAreRun, RunsHold
<1>2. RunsHold'
  BY <1>1 DEF RunsHold, Waiting
<1>3. ASSUME NEW b \in RunningBuilds'
      PROVE  b \in lost' \/ \E x \in Workers : workers'[x] # Waiting /\ workers'[x].build = b
  BY <1>1, <1>3
<1>4. ASSUME NEW x \in Workers, workers'[x] # Waiting
      PROVE  /\ workers'[x].build \in RunningBuilds' \ lost'
             /\ \A other \in Workers \ {x} :
                  workers'[other] # Waiting => workers'[other].build # workers'[x].build
  <2>1. CASE x = w
    BY <1>1, <1>4, <2>1
  <2>2. CASE x # w
    BY <1>1, <1>4, <2>2
  <2>3. QED
    BY <2>1, <2>2
<1>5. QED
  BY <1>2, <1>3, <1>4 DEF RunningBuildsAreRun, Waiting

\* Every step keeps workers and running builds in agreement.
LEMMA RunningNext ==
  ASSUME PublishingInv, DraftsFit, RunningBuildsAreRun, RunsHold, Next
  PROVE  RunningBuildsAreRun' /\ RunsHold'
<1>1. VersionsFit /\ BuildsFit /\ WorkersFit
  BY DEF DraftsFit
<1>2. CASE UNCHANGED <<workers, up, lost>> /\ RunningBuilds' = RunningBuilds
  BY <1>2 DEF RunningBuildsAreRun, RunsHold
<1>3. CASE Crash
  <2>1. RunningBuilds' = RunningBuilds
    BY <1>3 DEF Crash, RunningBuilds
  <2>2. up' = FALSE /\ lost' = lost /\ \A w \in Workers : workers'[w] = Waiting
    BY <1>3 DEF Crash, Waiting
  <2>3. QED
    BY <2>1, <2>2 DEF RunningBuildsAreRun, RunsHold, Waiting
<1>4. CASE RequeueInterrupted \/ RequeueFails
  <2>1. RunningBuilds' = lost'
    <3>1. CASE RequeueInterrupted
      BY <1>1, <3>1, RowsChange DEF RequeueInterrupted
    <3>2. CASE RequeueFails
      BY <3>2 DEF RequeueFails, RunningBuilds, draftVars
    <3>3. QED
      BY <1>4, <3>1, <3>2
  <2>2. \A w \in Workers : workers'[w] = Waiting
    BY <1>4 DEF RequeueInterrupted, RequeueFails, RunsHold
  <2>3. QED
    BY <2>1, <2>2 DEF RunningBuildsAreRun, RunsHold, Waiting
<1>5. ASSUME NEW w \in Workers, ClaimIsLost(w)
      PROVE  RunningBuildsAreRun' /\ RunsHold'
  <2>1. PICK b \in Queued : Claims(w, b) /\ lost' = lost \cup {b} /\ workers' = workers
    BY <1>5 DEF ClaimIsLost
  <2>2. b \notin RunningBuilds /\ RunningBuilds' = RunningBuilds \cup {b} /\ up' = up
    BY <1>1, <2>1, RowsChange DEF Claims
  <2>3. QED
    BY <2>1, <2>2 DEF RunningBuildsAreRun, RunsHold
<1>6. ASSUME NEW w \in Workers, WorkerGoes(w)
      PROVE  RunningBuildsAreRun' /\ RunsHold'
  <2>1. \A x \in Workers : x # w => workers'[x] = workers[x]
    BY <1>6 DEF WorkerGoes
  <2>2. CASE /\ workers'[w].at = "running" /\ workers'[w].build \in Queued
             /\ Claims(w, workers'[w].build) /\ UNCHANGED lost
    <3>1. workers[w] = Waiting /\ workers'[w] # Waiting /\ up /\ up' = up
      BY <2>2 DEF Claims, Waiting
    <3>2. /\ workers'[w].build \notin RunningBuilds
          /\ RunningBuilds' = RunningBuilds \cup {workers'[w].build}
      BY <1>1, <2>2, RowsChange
    <3>3. QED
      BY <2>1, <2>2, <3>1, <3>2, WorkerAgrees
  <2>3. CASE RegisterArtifacts(w) \/ ReuseBuild(w) \/ BuildFails(w) \/ StoreArtifacts(w)
    <3>1. /\ workers[w].at \in {"running", "storing"} /\ workers'[w].at \in {"storing", "ending"}
          /\ workers'[w].build = workers[w].build
      BY <1>1, <2>3, WorkerRuns
    <3>2. workers[w] # Waiting /\ workers'[w] # Waiting
      BY <3>1 DEF Waiting
    <3>3. UNCHANGED <<builds, up, lost>>
      BY <2>3 DEF RegisterArtifacts, ReuseBuild, BuildFails, StoreArtifacts, draftVars
    <3>4. RunningBuilds' = RunningBuilds
      BY <3>3 DEF RunningBuilds
    <3>5. up
      BY <3>2 DEF RunsHold
    <3>6. QED
      BY <2>1, <3>1, <3>2, <3>3, <3>4, <3>5, WorkerAgrees
  <2>4. CASE FinishBuild(w) \/ FinishIsLost(w)
    <3>1. workers[w] # Waiting /\ workers'[w] = Waiting
      BY <1>1, <2>4, WorkerRuns DEF Waiting
    <3>2. up
      BY <3>1 DEF RunsHold
    <3>3. CASE FinishBuild(w)
      <4>1. RunningBuilds' = RunningBuilds \ {workers[w].build}
        BY <1>1, <3>3, RowsChange
      <4>2. up' = up /\ lost' = lost
        BY <3>3 DEF FinishBuild
      <4>3. QED
        BY <2>1, <3>1, <3>2, <4>1, <4>2, WorkerAgrees
    <3>4. CASE FinishIsLost(w)
      <4>1. /\ RunningBuilds' = RunningBuilds /\ up' = up
            /\ lost' = lost \cup {workers[w].build}
        BY <3>4 DEF FinishIsLost, RunningBuilds, draftVars
      <4>2. QED
        BY <2>1, <3>1, <3>2, <4>1, WorkerAgrees
    <3>5. QED
      BY <2>4, <3>3, <3>4
  <2>5. QED
    BY <1>6, <2>2, <2>3, <2>4 DEF WorkerGoes
<1>7. QED
  BY <1>1, <1>2, <1>3, <1>4, <1>5, <1>6, RunsChange

(***************************************************************************)
(* What is used is stored.                                                 *)
(***************************************************************************)
\* What an upload, or a worker building v, has of the content o it names.
UploadStores(call, o) ==
  o # Nothing => /\ call.at # "register" => Claimed(o)
                 /\ call.at \in {"attach", "deciding"} => Stored(o)

WorkerStores(worker, v, o) ==
  /\ worker.at = "storing" => Claimed(o)
  /\ worker.at = "ending" /\ worker.status = "SUCCEEDED" /\ IsDraft(v) =>
       Kept(o) /\ (Claimed(o) \/ Built(v, o))

\* What an upload has stored so far, of one upload.
LEMMA UploadsStore ==
  ASSUME UploadsAreStored, NEW c \in Callers, calls[c].op = "upload"
  PROVE  UploadStores(calls[c], calls[c].req.blob)
  BY DEF UploadsAreStored, UploadStores

\* If each upload has stored what it should after a step, all have.
LEMMA UploadsStoreAfter ==
  ASSUME \A c \in Callers : \A call, o :
           call = calls'[c] /\ call.op = "upload" /\ o = call.req.blob => UploadStores(call, o)'
  PROVE  UploadsAreStored'
  BY DEF UploadsAreStored, UploadStores, Claimed, Stored, Spared

\* If each worker has stored what it should after a step, all have.
LEMMA WorkersStoreAfter ==
  ASSUME \A w \in Workers : \A worker, v, o :
           worker = workers'[w] /\ v = builds'[worker.build].version /\ o = worker.script
             => WorkerStores(worker, v, o)'
  PROVE  WorkersStore'
  BY DEF WorkersStore, EndIsStored, WorkerStores, Kept, Claimed, Built, Stored, Spared, IsDraft

\* Uploads register, store and bind their content in this order.
LEMMA UploadsStep ==
  ASSUME PublishingInv, VersionsFit, ObjectsFit, UploadsAreStored, Next, Keeps
  PROVE  UploadsAreStored'
<1>1. ASSUME NEW call, NEW o, UploadStores(call, o)
      PROVE  UploadStores(call, o)'
  <2>1. Claimed(o) => Spared(o)
    BY DEF Claimed
  <2>2. Kept(o)' => Stored(o)'
    BY DEF Kept
  <2>3. QED
    BY <1>1, <2>1, <2>2 DEF UploadStores, Keeps, Kept
<1>2. ASSUME NEW c \in Callers, NEW call, NEW o, call = calls'[c], call.op = "upload", o = call.req.blob
      PROVE  UploadStores(call, o)'
  <2>1. Asked(calls'[c])
    BY <1>2 DEF Asked, DraftOps
  <2>2. CASE calls'[c] = calls[c]
    BY <1>1, <1>2, <2>2, UploadsStore
  <2>3. ASSUME NEW v, NEW i, Begins(c, v, i, call)
        PROVE  UploadStores(call, o)'
    BY <1>2, <2>3 DEF Begins, UploadStores
  <2>4. CASE Goes(c) /\ Follows(calls[c], calls'[c])
    <3>1. calls[c].op = "upload" /\ calls[c].req = call.req
      BY <1>2, <2>4 DEF Follows
    <3>2. UploadStores(calls[c], o)
      BY <1>2, <3>1, UploadsStore
    <3>3. calls'[c] # Idle
      BY <2>1 DEF Asked, Idle, DraftOps
    <3>4. CASE LoseRace(c) /\ call.at = "deciding" /\ Deciding(c)
      <4>1. UploadStores(call, o)
        BY <3>2, <3>4 DEF UploadStores, Deciding
      <4>2. QED
        BY <1>1, <4>1
    <3>5. CASE RegisterAsset(c) /\ call.at = "put"
      <4>1. objects' = Register(o) /\ cleaning' = cleaning /\ o \notin cleaning
        BY <1>2, <3>1, <3>5 DEF RegisterAsset
      <4>2. Claimed(o)'
        BY <4>1, ObjectIsRegistered
      <4>3. QED
        BY <3>5, <4>2 DEF UploadStores
    <3>6. CASE StoreAsset(c) /\ call.at = "attach"
      <4>1. objects' = PutObject(o) /\ cleaning' = cleaning /\ calls[c].at = "put"
        BY <1>2, <3>1, <3>6 DEF StoreAsset
      <4>2. o # Nothing => Claimed(o)
        BY <3>2, <4>1 DEF UploadStores
      <4>3. o # Nothing => Claimed(o)' /\ Stored(o)'
        BY <4>1, <4>2, ObjectIsPut DEF Keeps
      <4>4. QED
        BY <4>3 DEF UploadStores
    <3>7. CASE AttachAsset(c) /\ call.at = "deciding"
      <4>1. calls[c].at = "attach"
        BY <3>7 DEF AttachAsset
      <4>2. UploadStores(call, o)
        BY <3>2, <4>1 DEF UploadStores
      <4>3. QED
        BY <1>1, <4>2
    <3>8. QED
      BY <1>2, <2>4, <3>3, <3>4, <3>5, <3>6, <3>7, RequestGoes
  <2>5. QED
    BY <1>2, <2>1, <2>2, <2>3, <2>4, RequestsAfter
<1>3. QED
  BY <1>2, UploadsStoreAfter

\* Once built, always, but for a build that succeeds now.
LEMMA BuiltStaysBuilt ==
  /\ BuildsGrow => \A v, o : Built(v, o) => Built(v, o)'
  /\ NoneSucceeds => \A v, o : Built(v, o)' => Built(v, o)
  BY DEF BuildsGrow, NoneSucceeds, Built

\* A DRAFT something is built of was one.
LEMMA WasADraft ==
  ASSUME VersionsFit, BuildsFit, VersionsGrow, NEW b \in DOMAIN builds,
         NEW v, v = builds[b].version
  PROVE  v \in Versions /\ Exists(v) /\ (IsDraft(v)' => IsDraft(v))
<1>1. BuildFits(builds[b])
  BY DEF BuildsFit
<1>2. v \in Versions /\ builds[b].revision \in 1..Current(v)
  BY <1>1 DEF BuildFits
<1>3. Current(v) \in Nat /\ (Exists(v) <=> Current(v) > 0)
  BY <1>2, RevisionsCount
<1>4. Exists(v)
  BY <1>2, <1>3
<1>5. IsDraft(v)' => IsDraft(v)
  BY <1>2, <1>4 DEF VersionsGrow, VersionGrows
<1>6. QED
  BY <1>2, <1>4, <1>5

\* Workers register what they built, store it, and only then end the build; or
\* take what is stored.
LEMMA WorkersStoreStep ==
  ASSUME PublishingInv, DraftsFit, WorkersStore, BuildsAreStored, Next, Keeps
  PROVE  WorkersStore'
<1>1. /\ VersionsFit /\ BuildsFit /\ WorkersFit /\ ObjectsFit /\ VersionsGrow /\ BuildsGrow
      /\ \A v, o : Built(v, o) => Built(v, o)'
  BY VersionsStep, BuildsStep, BuiltStaysBuilt DEF DraftsFit
<1>2. ASSUME NEW w \in Workers, workers[w].at \in {"running", "storing", "ending"},
             NEW v, v = builds'[workers[w].build].version
      PROVE  /\ workers[w].build \in DOMAIN builds /\ v = builds[workers[w].build].version
             /\ v \in Versions /\ (IsDraft(v)' => IsDraft(v))
  <2>1. workers[w].build \in DOMAIN builds
    BY <1>1, <1>2 DEF WorkersFit, WorkerFits, Waiting
  <2>2. v = builds[workers[w].build].version
    BY <1>1, <1>2, <2>1 DEF BuildsGrow
  <2>3. QED
    BY <1>1, <2>1, <2>2, WasADraft
<1>3. ASSUME NEW worker, NEW v, NEW o, WorkerStores(worker, v, o), IsDraft(v)' => IsDraft(v)
      PROVE  WorkerStores(worker, v, o)'
  BY <1>1, <1>3 DEF WorkerStores, Keeps
<1>4. ASSUME NEW worker, NEW v, NEW o, worker.at \in {"waiting", "running"}
      PROVE  WorkerStores(worker, v, o)'
  BY <1>4 DEF WorkerStores
<1>5. ASSUME NEW w \in Workers, NEW v, NEW o, v = builds[workers[w].build].version, o = workers[w].script
      PROVE  WorkerStores(workers[w], v, o)
  BY <1>5 DEF WorkersStore, EndIsStored, WorkerStores
<1>6. ASSUME NEW w \in Workers, NEW worker, NEW v, NEW o,
             worker = workers'[w], v = builds'[worker.build].version, o = worker.script
      PROVE  WorkerStores(worker, v, o)'
  <2>1. CASE workers'[w] = workers[w]
    <3>1. CASE workers[w].at \in {"running", "storing", "ending"}
      <4>1. v = builds[workers[w].build].version /\ (IsDraft(v)' => IsDraft(v))
        BY <1>2, <1>6, <2>1, <3>1
      <4>2. WorkerStores(worker, v, o)
        BY <1>5, <1>6, <2>1, <4>1
      <4>3. QED
        BY <1>3, <4>1, <4>2
    <3>2. CASE workers[w].at \notin {"running", "storing", "ending"}
      BY <1>6, <2>1, <3>2 DEF WorkerStores
    <3>3. QED
      BY <3>1, <3>2
  <2>2. CASE Crash
    BY <1>4, <1>6, <2>2 DEF Crash, Waiting
  <2>3. CASE worker.at = "running"
    BY <1>4, <2>3
  <2>4. CASE FinishBuild(w) \/ FinishIsLost(w)
    <3>1. worker = Waiting
      BY <1>1, <1>6, <2>4, WorkerRuns
    <3>2. QED
      BY <1>4, <3>1 DEF Waiting
  <2>5. CASE RegisterArtifacts(w)
    <3>1. worker.at = "storing" /\ o = Script(Inputs(workers[w].build).files)
      BY <1>1, <1>6, <2>5, WorkerRuns
    <3>2. objects' = Register(o) /\ cleaning' = cleaning /\ o \notin cleaning
      BY <2>5, <3>1 DEF RegisterArtifacts
    <3>3. Claimed(o)'
      BY <1>1, <3>2, ObjectIsRegistered
    <3>4. QED
      BY <3>1, <3>3 DEF WorkerStores
  <2>6. CASE ReuseBuild(w)
    <3>1. PICK r : r = CHOOSE x \in Reusable(workers[w].build) :
                         \A other \in Reusable(workers[w].build) : x <= other
      OBVIOUS
    <3>2. /\ workers[w].at = "running" /\ Reusable(workers[w].build) # {}
          /\ worker.at = "ending" /\ worker.build = workers[w].build /\ o = builds[r].script
      BY <1>1, <1>6, <2>6, <3>1, WorkerRuns
    <3>3. r \in DOMAIN builds /\ builds[r].status = "SUCCEEDED"
          /\ builds[r].version = builds[workers[w].build].version
      BY <1>1, <3>1, <3>2, OldestReusable
    <3>4. v = builds[workers[w].build].version /\ v \in Versions /\ (IsDraft(v)' => IsDraft(v))
      BY <1>2, <1>6, <3>2
    <3>5. Built(v, o)
      BY <3>2, <3>3, <3>4 DEF Built
    <3>6. IsDraft(v) => Kept(o)
      BY <3>4, <3>5 DEF BuildsAreStored
    <3>7. QED
      BY <1>1, <3>2, <3>4, <3>5, <3>6 DEF WorkerStores, Keeps
  <2>7. CASE BuildFails(w)
    <3>1. worker.at = "ending" /\ worker.status = "FAILED"
      BY <1>1, <1>6, <2>7, WorkerRuns
    <3>2. QED
      BY <3>1 DEF WorkerStores
  <2>8. CASE StoreArtifacts(w)
    <3>1. /\ workers[w].at = "storing" /\ worker.at = "ending"
          /\ o = workers[w].script
      BY <1>1, <1>6, <2>8, WorkerRuns
    <3>2. Claimed(o)
      BY <3>1 DEF WorkersStore
    <3>3. objects' = PutObject(o) /\ cleaning' = cleaning
      BY <2>8, <3>1 DEF StoreArtifacts
    <3>4. Claimed(o)' /\ Stored(o)'
      BY <1>1, <3>2, <3>3, ObjectIsPut DEF Keeps
    <3>5. Kept(o)'
      BY <3>4 DEF Kept, Claimed
    <3>6. QED
      BY <3>1, <3>4, <3>5 DEF WorkerStores
  <2>9. QED
    <3>1. CASE WorkerGoes(w)
      BY <1>6, <2>3, <2>4, <2>5, <2>6, <2>7, <2>8, <3>1 DEF WorkerGoes
    <3>2. CASE ~WorkerGoes(w)
      <4>1. workers'[w] = workers[w] \/ Crash
        BY <1>1, <3>2, WorkersChange DEF WorkerGoes
      <4>2. QED
        BY <2>1, <2>2, <4>1
    <3>3. QED
      BY <3>1, <3>2
<1>7. QED
  BY <1>6, WorkersStoreAfter

\* What a worker stored before it ended a build is what the build has.
LEMMA BuildsStoreStep ==
  ASSUME PublishingInv, DraftsFit, WorkersStore, BuildsAreStored, Next, Keeps
  PROVE  BuildsAreStored'
<1>1. /\ VersionsFit /\ BuildsFit /\ WorkersFit /\ VersionsGrow /\ BuildsGrow
      /\ NoneSucceeds \/ \E w \in Workers : FinishBuild(w)
  BY VersionsStep, BuildsStep DEF DraftsFit
<1>2. ASSUME NEW v \in Versions, NEW o, IsDraft(v)', Built(v, o)
      PROVE  Kept(o)'
  <2>1. IsDraft(v)
    BY <1>1, <1>2, WasADraft DEF Built
  <2>2. QED
    BY <1>2, <2>1 DEF BuildsAreStored, Keeps
<1>3. ASSUME NEW v \in Versions, NEW o, IsDraft(v)', Built(v, o)', ~Built(v, o)
      PROVE  Kept(o)'
  <2>1. ~NoneSucceeds
    BY <1>3, BuiltStaysBuilt
  <2>2. PICK w \in Workers : FinishBuild(w)
    BY <1>1, <2>1
  <2>3. PICK b \in DOMAIN builds' : /\ builds'[b].version = v /\ builds'[b].status = "SUCCEEDED"
                                    /\ builds'[b].script = o
    BY <1>3 DEF Built
  <2>4. PICK x : x = workers[w].build
    OBVIOUS
  <2>5. PICK status : status = workers[w].status
    OBVIOUS
  <2>6. PICK script : script = workers[w].script
    OBVIOUS
  <2>7. workers[w].at = "ending" /\ x \in DOMAIN builds
    BY <1>1, <2>2, <2>4 DEF FinishBuild, WorkersFit, WorkerFits, Waiting
  <2>8. \/ builds' = builds
        \/ builds' = [builds EXCEPT ![x].status = status, ![x].script = script]
    BY <2>2, <2>4, <2>5, <2>6 DEF FinishBuild
  <2>9. builds' # builds
    BY <1>3, <2>3 DEF Built
  <2>10. b = x
    <3>1. ASSUME b # x
          PROVE  FALSE
      <4>1. b \in DOMAIN builds /\ builds'[b] = builds[b]
        BY <1>1, <2>3, <2>8, <2>9, <3>1 DEF BuildsFit, IsSequence
      <4>2. QED
        BY <1>3, <2>3, <4>1 DEF Built
    <3>2. QED
      BY <3>1
  <2>11. PICK row : row = builds[x]
    OBVIOUS
  <2>12. PICK new : new = [row EXCEPT !.status = status, !.script = script]
    OBVIOUS
  <2>13. new.status = status /\ new.script = script /\ new.version = row.version
    BY <1>1, <2>7, <2>11, <2>12 DEF BuildsFit, BuildFits
  <2>14. builds'[x] = new
    BY <1>1, <2>7, <2>8, <2>9, <2>11, <2>12 DEF BuildsFit, IsSequence
  <2>15. status = "SUCCEEDED" /\ script = o /\ row.version = v
    BY <2>3, <2>10, <2>13, <2>14
  <2>16. IsDraft(v)
    BY <1>1, <1>3, <2>7, <2>11, <2>15, WasADraft
  <2>17. EndIsStored(workers[w])
    BY DEF WorkersStore
  <2>18. Kept(o)
    BY <2>4, <2>5, <2>6, <2>7, <2>11, <2>15, <2>16, <2>17 DEF EndIsStored
  <2>19. QED
    BY <2>18 DEF Keeps
<1>4. ASSUME NEW v \in Versions, NEW o, IsDraft(v)', Built(v, o)'
      PROVE  Kept(o)'
  BY <1>2, <1>3, <1>4
<1>5. QED
  BY <1>4 DEF BuildsAreStored

\* A version becomes executable by being frozen.
LEMMA FrozenBefore ==
  ASSUME PublishingInv, VersionsFit, Next, NEW v \in Versions, Executable(v)', ~Executable(v)
  PROVE  \E c \in Callers : FreezeVersion(c) /\ v = releases[calls[c].release].version
<1>1. ASSUME NEW e \in DOMAIN editions, EnsureDraft(e)
      PROVE  FALSE
  <2>1. CASE v = editions[e].version
    BY <1>1, <2>1, DraftIsCreated DEF IsDraft, Executable
  <2>2. CASE v # editions[e].version
    BY <1>1, <2>2, DraftIsCreated DEF Executable
  <2>3. QED
    BY <2>1, <2>2
<1>2. ASSUME NEW c \in Callers, CommitRevision(c)
      PROVE  FALSE
  <2>1. CASE v = calls[c].version
    BY <1>2, <2>1, RevisionIsAdded DEF IsDraft, Executable
  <2>2. CASE v # calls[c].version
    BY <1>2, <2>2, RevisionIsAdded DEF Executable
  <2>3. QED
    BY <2>1, <2>2
<1>3. ASSUME NEW c \in Callers, FreezeVersion(c), v # releases[calls[c].release].version
      PROVE  FALSE
  BY <1>3, VersionIsFrozen DEF Executable
<1>4. versions' # versions
  BY DEF Executable
<1>5. QED
  BY <1>1, <1>2, <1>3, <1>4, VersionsChange

\* The script of an executable version is that of a build it had.
LEMMA ScriptsStep ==
  ASSUME PublishingInv, DraftsFit, BuildsAreStored, ScriptsAreStored, FreezesHold, Next, Keeps
  PROVE  ScriptsAreStored'
<1>1. VersionsFit /\ VersionsGrow
  BY VersionsStep DEF DraftsFit
<1>2. ASSUME NEW v \in Versions, Executable(v)', NEW o, o = versions'[v].script
      PROVE  Kept(o)'
  <2>1. CASE Executable(v)
    <3>1. versions'[v] = versions[v]
      BY <1>1, <2>1 DEF VersionsGrow, VersionGrows
    <3>2. Kept(o)
      BY <1>2, <2>1, <3>1 DEF ScriptsAreStored
    <3>3. QED
      BY <3>2 DEF Keeps
  <2>2. CASE ~Executable(v)
    <3>1. PICK c \in Callers : FreezeVersion(c) /\ v = releases[calls[c].release].version
      BY <1>1, <1>2, <2>2, FrozenBefore
    <3>2. IsDraft(v) /\ o = calls[c].script
      BY <1>1, <1>2, <3>1, VersionIsFrozen
    <3>3. Checked(calls[c])
      BY <3>1 DEF FreezesHold, FreezeVersion
    <3>4. Built(v, o)
      BY <3>1, <3>2, <3>3 DEF Checked
    <3>5. QED
      BY <3>2, <3>4 DEF BuildsAreStored, Keeps
  <2>3. QED
    BY <2>1, <2>2
<1>3. QED
  BY <1>2 DEF ScriptsAreStored, Kept, Stored, Spared

\* Which calls are freezing after a step.
LEMMA FreezingAfter ==
  ASSUME PublishingInv, VersionsFit, Next, NEW c \in Callers, calls'[c].at = "freezing"
  PROVE  calls'[c] = calls[c] \/ (Plays /\ PlaysOn(calls'[c]))
<1>1. Idle.at # "freezing"
  BY DEF Idle
<1>2. CASE \E e \in DOMAIN editions : EnsureDraft(e)
  BY <1>2 DEF EnsureDraft, CreateDraftVersion
<1>3. CASE Plays
  BY <1>3 DEF Plays
<1>4. ASSUME NEW d \in Callers, NEW v, NEW i, NEW call, Begins(d, v, i, call)
      PROVE  calls'[c] = calls[c]
  <2>1. calls'[d] = call /\ \A x \in Callers : x # d => calls'[x] = calls[x]
    BY <1>4, OneCall DEF Begins
  <2>2. call.at \in {"register", "attach", "deciding"}
    BY <1>4 DEF Begins
  <2>3. QED
    BY <2>1, <2>2
<1>5. ASSUME NEW d \in Callers, Goes(d)
      PROVE  calls'[c] = calls[c]
  <2>1. \A x \in Callers : x # d => calls'[x] = calls[x]
    BY <1>5, RequestGoes
  <2>2. calls'[d] = Idle \/ calls'[d].at \in {"deciding", "put", "attach"}
    BY <1>5, RequestGoes
  <2>3. QED
    BY <1>1, <2>1, <2>2
<1>6. ASSUME NEW d \in Callers, FreezeVersion(d)
      PROVE  calls'[c] = calls[c]
  <2>1. PublishCall("complete", calls[d].release).at = "complete"
    BY DEF PublishCall
  <2>2. calls' = [calls EXCEPT ![d] = PublishCall("complete", calls[d].release)]
    BY <1>6 DEF FreezeVersion, GoesOn
  <2>3. QED
    BY <2>1, <2>2, OneCall
<1>7. CASE Cleans
  BY <1>7 DEF Cleans, CleanUnusedObjects, DeleteUnused
<1>8. CASE BuildNext
  <2>1. calls' = calls \/ calls' = [d \in Callers |-> Idle]
    BY <1>8 DEF BuildNext, WorkerSteps, Claims, ClaimOldest, ClaimIsLost, ReuseBuild, BuildFails,
      RegisterArtifacts, StoreArtifacts, FinishBuild, FinishIsLost, Crash, RequeueInterrupted,
      RequeueFails, Settle, draftVars
  <2>2. QED
    BY <1>1, <2>1
<1>9. QED
  BY <1>2, <1>3, <1>4, <1>5, <1>6, <1>7, <1>8, StepKinds

\* Releases stay in every step.
LEMMA ReleasesStep ==
  ASSUME PublishingInv, VersionsFit, Next
  PROVE  ReleasesStay
<1>1. CASE releases' = releases
  BY <1>1, ReleasesDoStay
<1>2. ~Plays => releases' = releases
  BY StepKinds DEF EnsureDraft, Begins, Goes, FreezeVersion, Cleans, gameVars
<1>3. QED
  BY <1>1, <1>2 DEF Plays

\* What a freeze checked, it will find.
LEMMA FreezesStep ==
  ASSUME PublishingInv, DraftsFit, FreezesHold, Next
  PROVE  FreezesHold'
<1>1. /\ VersionsFit /\ VersionsGrow /\ BuildsGrow /\ ReleasesStay
      /\ \A v, o : Built(v, o) => Built(v, o)'
  BY VersionsStep, BuildsStep, ReleasesStep, BuiltStaysBuilt DEF DraftsFit
<1>2. ASSUME NEW c \in Callers, NEW call, call = calls'[c], call.at = "freezing"
      PROVE  Checked(call)'
  <2>1. Checked(call)
    BY <1>1, <1>2, FreezingAfter DEF FreezesHold, PlaysOn
  <2>2. PICK r : r = call.release
    OBVIOUS
  <2>3. PICK v : v = releases[r].version
    OBVIOUS
  <2>4. PICK rev : rev = releases[r].revision
    OBVIOUS
  <2>5. /\ r \in DOMAIN releases /\ v \in Versions /\ rev \in 1..Current(v) /\ Built(v, call.script)
    BY <2>1, <2>2, <2>3, <2>4 DEF Checked, PublishingInv, RowsFit, IsRelease
  <2>6. r \in DOMAIN releases' /\ releases'[r].version = v /\ releases'[r].revision = rev
    BY <1>1, <2>3, <2>4, <2>5 DEF ReleasesStay
  <2>7. rev \in 1..Current(v)' /\ Built(v, call.script)'
    BY <1>1, <2>5, StillARevision
  <2>8. QED
    BY <2>2, <2>6, <2>7 DEF Checked, Current, Built
<1>3. QED
  BY <1>2 DEF FreezesHold, Checked, Current, Built

\* What an upload bound is stored: a new revision binds what one before it
\* did, or what was just stored.
LEMMA AssetsStep ==
  ASSUME PublishingInv, DraftsFit, UploadsAreStored, FreezesHold, AssetsAreStored, Next, Keeps
  PROVE  AssetsAreStored'
<1>1. VersionsFit /\ VersionsGrow
  BY VersionsStep DEF DraftsFit
<1>2. ASSUME NEW v \in Versions, Exists(v), NEW rev \in 1..Current(v), NEW o
      PROVE  o \in UploadedAt(v, rev)' <=> o \in UploadedAt(v, rev)
  <2>1. Current(v) \in Nat /\ Current(v) > 0
    BY <1>1, <1>2, RevisionsCount
  <2>2. 1 \in 1..Current(v)
    BY <2>1
  <2>3. /\ versions'[v].revs[rev] = versions[v].revs[rev]
        /\ versions'[v].revs[1] = versions[v].revs[1]
    BY <1>1, <1>2, <2>2 DEF VersionsGrow, VersionGrows
  <2>4. QED
    BY <2>3 DEF UploadedAt, Uploaded
<1>3. ASSUME NEW v \in Versions, IsDraft(v)', NEW rev \in 1..Current(v)', NEW o \in UploadedAt(v, rev)'
      PROVE  Kept(o)'
  <2>1. Current(v) \in Nat /\ Current(v)' \in Nat /\ (Exists(v) <=> Current(v) > 0)
    BY <1>1, RevisionsCount DEF VersionsGrow, VersionGrows
  <2>2. CASE rev \in 1..Current(v)
    <3>1. Exists(v)
      BY <2>1, <2>2
    <3>2. IsDraft(v)
      BY <1>1, <1>3, <3>1 DEF VersionsGrow, VersionGrows
    <3>3. o \in UploadedAt(v, rev)
      BY <1>2, <1>3, <2>2, <3>1
    <3>4. QED
      BY <2>2, <3>2, <3>3 DEF AssetsAreStored, Keeps
  <2>3. CASE rev \notin 1..Current(v)
    <3>1. CASE \E c \in Callers : CommitRevision(c)
      <4>1. PICK c \in Callers : CommitRevision(c)
        BY <3>1
      <4>2. PICK decided : decided = Decide(calls[c])
        OBVIOUS
      <4>3. PICK next : next = decided.next
        OBVIOUS
      <4>4. PICK u : u = calls[c].version
        OBVIOUS
      <4>5. Deciding(c) /\ CanAdvance(calls[c]) /\ decided.outcome \in MadeRevision
        BY <4>1, <4>2 DEF CommitRevision
      <4>6. /\ Current(u)' = Current(u) + 1 /\ versions'[u].revs[Current(u) + 1] = next
            /\ \A w \in Versions : w # u => versions'[w] = versions[w]
        BY <1>1, <4>1, <4>2, <4>3, <4>4, RevisionIsAdded
      <4>7. v = u
        BY <1>3, <2>3, <4>6 DEF Current
      <4>8. rev = Current(v) + 1
        BY <1>3, <2>1, <2>3, <4>6, <4>7
      <4>9. /\ IsDraft(v) /\ Exists(v)
            /\ \A x \in Range(next.assets) :
                 Bound(v, x) \/ (calls[c].op = "upload" /\ x = calls[c].req.blob /\ x # Nothing)
        BY <1>1, <4>2, <4>3, <4>4, <4>5, <4>7, DecidedRevision
      <4>10. 1 \in 1..Current(v)
        BY <2>1, <4>9
      <4>11. versions'[v].revs[1] = versions[v].revs[1]
        BY <1>1, <4>10 DEF VersionsGrow, VersionGrows
      <4>12. o \in Range(next.assets) /\ o \notin Range(versions[v].revs[1].assets)
        BY <1>3, <4>6, <4>7, <4>8, <4>11 DEF UploadedAt, Uploaded
      <4>13. CASE Bound(v, o)
        <5>1. PICK r \in 1..Current(v) : o \in Range(versions[v].revs[r].assets)
          BY <4>13 DEF Bound
        <5>2. o \in UploadedAt(v, r)
          BY <4>12, <5>1 DEF UploadedAt, Uploaded
        <5>3. QED
          BY <4>9, <5>2 DEF AssetsAreStored, Keeps
      <4>14. CASE calls[c].op = "upload" /\ o = calls[c].req.blob /\ o # Nothing
        <5>1. UploadStores(calls[c], o)
          BY <4>14, UploadsStore
        <5>2. Claimed(o) /\ Stored(o)
          BY <4>5, <4>14, <5>1 DEF UploadStores, Deciding
        <5>3. Kept(o)
          BY <5>2 DEF Kept, Claimed
        <5>4. QED
          BY <5>3 DEF Keeps
      <4>15. QED
        BY <4>9, <4>12, <4>13, <4>14
    <3>2. CASE ~(\E c \in Callers : CommitRevision(c))
      <4>1. Current(v)' = 1 /\ rev = 1
        <5>1. Current(v)' = Current(v) \/ Current(v)' = 1
          BY <1>1, <3>2, CurrentChanges
        <5>2. QED
          BY <1>3, <2>3, <5>1
      <4>2. QED
        BY <1>3, <4>1 DEF UploadedAt, Uploaded
    <3>3. QED
      BY <3>1, <3>2
  <2>4. QED
    BY <2>2, <2>3
<1>4. ASSUME NEW v \in Versions, Executable(v)', NEW o \in Uploaded(v, versions[v].delivered)'
      PROVE  Kept(o)'
  <2>1. CASE Executable(v)
    <3>1. versions'[v] = versions[v]
      BY <1>1, <2>1 DEF VersionsGrow, VersionGrows
    <3>2. o \in Uploaded(v, versions[v].delivered)
      BY <1>4, <3>1 DEF Uploaded
    <3>3. QED
      BY <2>1, <3>2 DEF AssetsAreStored, Keeps
  <2>2. CASE ~Executable(v)
    <3>1. PICK c \in Callers : FreezeVersion(c) /\ v = releases[calls[c].release].version
      BY <1>1, <1>4, <2>2, FrozenBefore
    <3>2. PICK rev : rev = releases[calls[c].release].revision
      OBVIOUS
    <3>3. PICK row : row = versions[v].revs[rev]
      OBVIOUS
    <3>4. /\ IsDraft(v) /\ versions'[v].revs = versions[v].revs
          /\ versions'[v].delivered = DeliveredAssets(row)
      BY <1>1, <3>1, <3>2, <3>3, VersionIsFrozen
    <3>5. rev \in 1..Current(v)
      BY <3>1, <3>2 DEF FreezesHold, FreezeVersion, Checked
    <3>6. Range(DeliveredAssets(row)) \subseteq Range(row.assets)
      BY DEF DeliveredAssets, Range
    <3>7. o \in UploadedAt(v, rev)
      BY <1>4, <3>3, <3>4, <3>6 DEF UploadedAt, Uploaded
    <3>8. QED
      BY <3>4, <3>5, <3>7 DEF AssetsAreStored, Keeps
  <2>3. QED
    BY <2>1, <2>2
<1>5. QED
  BY <1>3, <1>4 DEF AssetsAreStored

\* A cleanup and the passing of time change the objects only.
StoreSettles ==
  /\ UNCHANGED <<versions, builds, calls, releases, workers>>
  /\ \A o : InUse(o) /\ Kept(o) => Kept(o)'
  /\ \A o \in BeingStored : Claimed(o) => Claimed(o)' /\ (Stored(o) => Stored(o)')

\* A cleanup picks only what nothing uses.
LEMMA CleaningSettles ==
  ASSUME NEW o, CleanUnusedObjects(o), UNCHANGED <<buildVars, gameVars>>
  PROVE  StoreSettles
<1>1. /\ ~objects[o].fresh /\ ~InUse(o) /\ cleaning' = cleaning \cup {o}
      /\ UNCHANGED <<versions, builds, calls, releases, workers, objects>>
  BY DEF CleanUnusedObjects, buildVars, gameVars
<1>2. \A p : p # o /\ Spared(p) => Spared(p)'
  BY <1>1 DEF Spared
<1>3. \A p : Stored(p)' = Stored(p)
  BY <1>1 DEF Stored
<1>4. \A p : InUse(p) /\ Kept(p) => Kept(p)'
  BY <1>1, <1>2, <1>3 DEF Kept
<1>5. \A p : Claimed(p) => p # o /\ Claimed(p)'
  BY <1>1, <1>2 DEF Claimed
<1>6. QED
  BY <1>1, <1>3, <1>4, <1>5 DEF StoreSettles

\* Objects age only when nobody is storing them.
LEMMA TimeSettles ==
  ASSUME ObjectsFit, Settle, UNCHANGED gameVars
  PROVE  StoreSettles
<1>1. UNCHANGED <<versions, builds, calls, releases, workers>>
  BY DEF Settle, gameVars
<1>2. \A o : /\ Kept(o) => Kept(o)'
             /\ Claimed(o) /\ o \in BeingStored => Claimed(o)'
  BY ObjectsSettle
<1>3. \A o : (Claimed(o) => Spared(o)) /\ (Kept(o)' => Stored(o)')
  BY DEF Claimed, Kept
<1>4. QED
  BY <1>1, <1>2, <1>3 DEF StoreSettles, Kept

\* What is used is in use, or being stored.
LEMMA SettlingStep ==
  ASSUME PublishingInv, DraftsFit, StoreHolds, StoreSettles
  PROVE  StoreHolds'
<1>1. /\ UploadsAreStored /\ WorkersStore /\ BuildsAreStored /\ ScriptsAreStored
      /\ FreezesHold /\ AssetsAreStored
  BY DEF StoreHolds
<1>2. UNCHANGED <<versions, builds, calls, releases, workers>>
  BY DEF StoreSettles
<1>3. \A v : /\ IsDraft(v)' = IsDraft(v) /\ Executable(v)' = Executable(v) /\ Current(v)' = Current(v)
             /\ \A o : Built(v, o)' = Built(v, o)
  BY <1>2 DEF IsDraft, Executable, Current, Built
<1>4. \A v \in Versions : IsDraft(v) => \A o : Built(v, o) => InUse(o)
  BY DEF IsDraft, Built, InUse
<1>5. ASSUME NEW v \in Versions, IsDraft(v), NEW rev \in 1..Current(v), NEW o \in UploadedAt(v, rev)
      PROVE  InUse(o)
  <2>1. rev \in DOMAIN versions[v].revs
    BY <1>5, RevisionsCount DEF DraftsFit
  <2>2. versions[v].revs[rev] \in Range(versions[v].revs)
    BY <2>1 DEF Range
  <2>3. o \in Range(versions[v].revs[rev].assets)
    BY <1>5 DEF UploadedAt, Uploaded
  <2>4. QED
    BY <1>5, <2>2, <2>3 DEF InUse, IsDraft
<1>6. UploadsAreStored'
  <2>1. ASSUME NEW c \in Callers, NEW call, NEW o, call = calls'[c], call.op = "upload", o = call.req.blob
        PROVE  UploadStores(call, o)'
    <3>1. call = calls[c]
      BY <1>2, <2>1
    <3>2. UploadStores(call, o)
      BY <1>1, <2>1, <3>1, UploadsStore
    <3>3. call.at # "register" => o \in BeingStored
      BY <2>1, <3>1 DEF BeingStored, Uploading
    <3>4. QED
      BY <3>2, <3>3 DEF UploadStores, StoreSettles
  <2>2. QED
    BY <2>1, UploadsStoreAfter
<1>7. WorkersStore'
  <2>1. ASSUME NEW w \in Workers, NEW worker, NEW v, NEW o,
               worker = workers'[w], v = builds'[worker.build].version, o = worker.script
        PROVE  WorkerStores(worker, v, o)'
    <3>1. worker = workers[w] /\ v = builds[worker.build].version
      BY <1>2, <2>1
    <3>2. WorkerStores(worker, v, o)
      BY <1>1, <2>1, <3>1 DEF WorkersStore, EndIsStored, WorkerStores
    <3>3. worker.at \in {"storing", "ending"} => o \in BeingStored
      BY <2>1, <3>1 DEF BeingStored
    <3>4. worker.at = "ending" /\ IsDraft(v) => v \in Versions
      <4>1. ASSUME worker.at = "ending"
            PROVE  v \in Versions
        BY <3>1, <4>1 DEF DraftsFit, WorkersFit, WorkerFits, Waiting, BuildsFit, BuildFits
      <4>2. QED
        BY <4>1
    <3>5. ASSUME Claimed(o), Kept(o), o \in BeingStored
          PROVE  Claimed(o)' /\ Kept(o)'
      <4>1. Claimed(o)' /\ Stored(o)'
        BY <3>5 DEF StoreSettles, Kept
      <4>2. QED
        BY <4>1 DEF Claimed, Kept
    <3>6. ASSUME Built(v, o), Kept(o), IsDraft(v), v \in Versions
          PROVE  Built(v, o)' /\ Kept(o)'
      BY <1>3, <1>4, <3>6 DEF StoreSettles
    <3>7. worker.at = "storing" => Claimed(o)'
      BY <3>2, <3>3 DEF WorkerStores, StoreSettles
    <3>8. QED
      BY <1>3, <3>2, <3>3, <3>4, <3>5, <3>6, <3>7 DEF WorkerStores
  <2>2. QED
    BY <2>1, WorkersStoreAfter
<1>8. BuildsAreStored'
  BY <1>1, <1>3, <1>4 DEF BuildsAreStored, StoreSettles
<1>9. ScriptsAreStored'
  <2>1. ASSUME NEW v \in Versions, Executable(v), NEW o, o = versions[v].script
        PROVE  Kept(o)'
    <3>1. InUse(o) /\ Kept(o)
      BY <1>1, <2>1 DEF ScriptsAreStored, InUse
    <3>2. QED
      BY <3>1 DEF StoreSettles
  <2>2. QED
    BY <1>2, <1>3, <2>1 DEF ScriptsAreStored, Kept, Stored, Spared
<1>10. FreezesHold'
  BY <1>1, <1>2 DEF FreezesHold, Checked, Current, Built
<1>11. AssetsAreStored'
  <2>1. ASSUME NEW v \in Versions, IsDraft(v), NEW rev \in 1..Current(v), NEW o \in UploadedAt(v, rev)
        PROVE  Kept(o)'
    BY <1>1, <1>5, <2>1 DEF AssetsAreStored, StoreSettles
  <2>2. ASSUME NEW v \in Versions, Executable(v), NEW o \in Uploaded(v, versions[v].delivered)
        PROVE  Kept(o)'
    <3>1. InUse(o)
      BY <2>2 DEF Uploaded, InUse
    <3>2. Kept(o)
      BY <1>1, <2>2 DEF AssetsAreStored
    <3>3. QED
      BY <3>1, <3>2 DEF StoreSettles
  <2>3. \A v, rev, o : /\ o \in UploadedAt(v, rev)' <=> o \in UploadedAt(v, rev)
                       /\ o \in Uploaded(v, versions[v].delivered)'
                            <=> o \in Uploaded(v, versions[v].delivered)
    BY <1>2 DEF UploadedAt, Uploaded
  <2>4. QED
    BY <1>3, <2>1, <2>2, <2>3 DEF AssetsAreStored
<1>12. QED
  BY <1>6, <1>7, <1>8, <1>9, <1>10, <1>11 DEF StoreHolds

\* Every step keeps what is used in the store.
LEMMA StoreHoldsNext ==
  ASSUME PublishingInv, DraftsFit, StoreHolds, Next
  PROVE  StoreHolds'
<1>1. /\ UploadsAreStored /\ WorkersStore /\ BuildsAreStored /\ ScriptsAreStored
      /\ FreezesHold /\ AssetsAreStored
  BY DEF StoreHolds
<1>2. VersionsFit /\ ObjectsFit
  BY DEF DraftsFit
<1>3. CASE Keeps
  BY <1>1, <1>2, <1>3, UploadsStep, WorkersStoreStep, BuildsStoreStep, ScriptsStep, FreezesStep,
     AssetsStep DEF StoreHolds
<1>4. CASE Settle /\ UNCHANGED gameVars
  BY <1>2, <1>4, TimeSettles, SettlingStep
<1>5. ASSUME NEW o \in DOMAIN objects, CleanUnusedObjects(o), UNCHANGED <<buildVars, gameVars>>
      PROVE  StoreHolds'
  BY <1>5, CleaningSettles, SettlingStep
<1>6. QED
  BY <1>2, <1>3, <1>4, <1>5, ObjectsStep

\* Nothing is made, built or stored at first.
LEMMA NoDraftsAtFirst == Init => DraftInv
<1>1. SUFFICES ASSUME Init
               PROVE  DraftInv
  OBVIOUS
<1>2. /\ versions = [v \in Versions |-> NoVersion] /\ builds = <<>>
      /\ attempts = [i \in IdempotencyKeys |-> Nothing] /\ objects = NoFiles
      /\ calls = [c \in Callers |-> Idle] /\ cleaning = {}
      /\ workers = [w \in Workers |-> Waiting] /\ lost = {}
  BY <1>1 DEF Init, DraftInit, BuildInit
<1>3. PICK row : row = NoVersion
  OBVIOUS
<1>4. row.status = "NONE" /\ row.revs = <<>>
  BY <1>3 DEF NoVersion
<1>5. ASSUME NEW v \in Versions
      PROVE  Current(v) = 0 /\ ~Exists(v) /\ ~IsDraft(v) /\ ~Executable(v) /\ RevisionsFit(v)
  <2>1. versions[v].status = "NONE" /\ versions[v].revs = <<>>
    BY <1>2, <1>3, <1>4
  <2>2. Current(v) = 0 /\ ~Exists(v) /\ ~IsDraft(v) /\ ~Executable(v)
    BY <2>1 DEF Current, Exists, IsDraft, Executable
  <2>3. IsSequence(versions[v].revs)
    BY <2>1 DEF IsSequence
  <2>4. QED
    BY <2>2, <2>3 DEF RevisionsFit
<1>6. DOMAIN builds = {} /\ IsSequence(builds)
  BY <1>2 DEF IsSequence
<1>7. \A c \in Callers : calls[c] = Idle /\ ~Asked(calls[c]) /\ calls[c].op # "upload"
                         /\ calls[c].at # "freezing"
  BY <1>2 DEF Asked, Idle, DraftOps
<1>8. DraftsFit
  <2>1. VersionsFit /\ BuildsFit
    BY <1>5, <1>6 DEF VersionsFit, BuildsFit
  <2>2. AttemptsFit /\ ObjectsFit /\ RequestsFit /\ WorkersFit
    BY <1>2, <1>7 DEF AttemptsFit, ObjectsFit, IsMap, NoFiles, RequestsFit, WorkersFit, WorkerFits
  <2>3. QED
    BY <2>1, <2>2 DEF DraftsFit
<1>9. KeysHold
  BY <1>7 DEF KeysHold
<1>10. RevisionsAreMade
  <2>1. \A i \in IdempotencyKeys : \A v, rev : ~Made(i, v, rev)
    BY <1>2 DEF Made, HasAttempt
  <2>2. QED
    BY <1>5, <2>1 DEF RevisionsAreMade
<1>11. RevisionsAreBuilt
  BY <1>5, <1>6 DEF RevisionsAreBuilt
<1>12. RunningBuildsAreRun /\ RunsHold
  BY <1>2, <1>6 DEF RunningBuildsAreRun, RunsHold, RunningBuilds
<1>13. StoreHolds
  <2>1. UploadsAreStored /\ FreezesHold
    BY <1>7 DEF UploadsAreStored, FreezesHold
  <2>2. WorkersStore
    BY <1>2 DEF WorkersStore, EndIsStored, Waiting
  <2>3. BuildsAreStored /\ ScriptsAreStored /\ AssetsAreStored
    BY <1>5 DEF BuildsAreStored, ScriptsAreStored, AssetsAreStored
  <2>4. QED
    BY <2>1, <2>2, <2>3 DEF StoreHolds
<1>14. QED
  BY <1>1, <1>8, <1>9, <1>10, <1>11, <1>12, <1>13, NothingAtFirst DEF DraftInv

\* A step that changes nothing keeps the invariant.
LEMMA DraftsStay ==
  ASSUME DraftInv, UNCHANGED vars
  PROVE  DraftInv'
<1>1. /\ UNCHANGED <<versions, currentVersion, builds, attempts, objects, calls, cleaning>>
      /\ UNCHANGED <<workers, up, faults, lost>> /\ UNCHANGED gameVars /\ UNCHANGED releases
  BY DEF vars, draftVars, buildVars, gameVars
<1>2. /\ PublishingInv /\ DraftsFit /\ KeysHold /\ RevisionsAreMade /\ RevisionsAreBuilt
      /\ RunningBuildsAreRun /\ RunsHold /\ StoreHolds
  BY DEF DraftInv
<1>3. PublishingInv'
  BY <1>1, <1>2, KeptIsQuiet, QuietStep
<1>4. DraftsFit'
  <2>1. VersionsFit'
    BY <1>1, <1>2, VersionsStay DEF DraftsFit
  <2>2. BuildsFit' /\ ObjectsFit' /\ AttemptsFit'
    BY <1>1, <1>2 DEF DraftsFit, BuildsFit, IsSequence, BuildFits, Current, ObjectsFit, IsMap,
                      AttemptsFit
  <2>3. RequestsFit' /\ WorkersFit'
    BY <1>1, <1>2 DEF DraftsFit, RequestsFit, Asked, WorkersFit, WorkerFits
  <2>4. QED
    BY <2>1, <2>2, <2>3 DEF DraftsFit
<1>5. KeysHold'
  BY <1>1, <1>2 DEF KeysHold, Asked, Deciding
<1>6. RevisionsAreMade'
  BY <1>1, <1>2 DEF RevisionsAreMade, Made, HasAttempt, Current
<1>7. RevisionsAreBuilt'
  BY <1>1, <1>2 DEF RevisionsAreBuilt, HasBuild, BuildsOf, Current
<1>8. RunningBuildsAreRun' /\ RunsHold'
  BY <1>1, <1>2 DEF RunningBuildsAreRun, RunsHold, RunningBuilds
<1>9. StoreHolds'
  <2>1. StoreSettles
    BY <1>1 DEF StoreSettles, Kept, Claimed, Stored, Spared
  <2>2. QED
    BY <1>2, <2>1, SettlingStep
<1>10. QED
  BY <1>3, <1>4, <1>5, <1>6, <1>7, <1>8, <1>9 DEF DraftInv

\* Every step keeps the invariant.
LEMMA DraftsNext ==
  ASSUME DraftInv, Next
  PROVE  DraftInv'
<1>1. /\ PublishingInv /\ DraftsFit /\ KeysHold /\ RevisionsAreMade /\ RevisionsAreBuilt
      /\ RunningBuildsAreRun /\ RunsHold /\ StoreHolds
  BY DEF DraftInv
<1>2. PublishingInv' /\ DraftsFit' /\ KeysHold'
  BY <1>1, PublishingNext, DraftsFitNext, KeysNext
<1>3. /\ RevisionsAreMade' /\ RevisionsAreBuilt'
      /\ RunningBuildsAreRun' /\ RunsHold' /\ StoreHolds'
  BY <1>1, RevisionsAreMadeNext, RevisionsAreBuiltNext, RunningNext, StoreHoldsNext
<1>4. QED
  BY <1>2, <1>3 DEF DraftInv

\* Every change is made once, over the revision it was decided over; every
\* revision has its build, and each running build its worker unless a claim, an
\* end or a requeue was lost; and what is used is kept where no cleanup, of
\* this game's publications or of another's, takes it.
THEOREM DraftInvariant == Spec => []DraftInv
<1>1. DraftInv /\ [Next]_vars => DraftInv'
  BY DraftsStay, DraftsNext
<1>2. QED
  BY <1>1, NoDraftsAtFirst, PTL DEF Spec

\* Of two sets of files, what changed is nothing exactly when no file differs,
\* and then they are the same.
LEMMA ChangesShow ==
  ASSUME NEW from, NEW to, IsMap(from), IsMap(to), NEW changes, changes = Changes(from, to),
         NEW diff,
         diff = [p \in changes.added \cup changes.modified \cup changes.deleted |-> diff[p]]
  PROVE  (changes = NoChanges <=> diff = NoFiles) /\ (diff = NoFiles => from = to)
<1>1. /\ changes.added = DOMAIN to \ DOMAIN from /\ changes.deleted = DOMAIN from \ DOMAIN to
      /\ changes.modified = {p \in DOMAIN to \cap DOMAIN from : to[p] # from[p]}
      /\ changes = [added |-> changes.added, modified |-> changes.modified,
                    deleted |-> changes.deleted]
  BY DEF Changes
<1>2. DOMAIN diff = changes.added \cup changes.modified \cup changes.deleted
  OBVIOUS
<1>3. diff = NoFiles <=> DOMAIN diff = {}
  <2>1. CASE DOMAIN diff = {}
    <3>1. diff = [p \in {} |-> diff[p]]
      BY <1>2, <2>1
    <3>2. QED
      BY <2>1, <3>1 DEF NoFiles
  <2>2. QED
    BY <2>1 DEF NoFiles
<1>4. changes = NoChanges
        <=> changes.added = {} /\ changes.modified = {} /\ changes.deleted = {}
  BY <1>1 DEF NoChanges
<1>5. changes = NoChanges <=> DOMAIN diff = {}
  BY <1>2, <1>4
<1>6. ASSUME DOMAIN diff = {} PROVE from = to
  <2>1. DOMAIN from = DOMAIN to
    BY <1>1, <1>2, <1>6
  <2>2. \A p \in DOMAIN from : from[p] = to[p]
    BY <1>1, <1>2, <1>6, <2>1
  <2>3. QED
    BY <2>1, <2>2 DEF IsMap
<1>7. QED
  BY <1>3, <1>5, <1>6

\* What is read between a revision and the one before it.
LEMMA ComparedRevisions ==
  ASSUME VersionsFit, NEW v \in Versions, NEW rev \in 2..Current(v),
         NEW changes, changes = RevisionChanges(v, rev - 1, rev),
         NEW diff, diff = DiffRevisions(v, rev - 1, rev)
  PROVE  /\ changes = NoChanges <=> diff = NoFiles
         /\ diff = NoFiles => versions[v].revs[rev].files = versions[v].revs[rev - 1].files
<1>1. /\ Current(v) \in Nat /\ Exists(v) /\ rev \in Nat /\ rev # 0 /\ rev <= Current(v)
      /\ rev - 1 # 0 /\ ~(rev - 1 > rev) /\ ~(rev - 1 > Current(v))
      /\ rev \in 1..Current(v) /\ rev - 1 \in 1..Current(v)
  BY RevisionsCount
<1>2. AtRevision(v, rev) = rev /\ HasRevision(v, rev)
  BY <1>1 DEF AtRevision, HasRevision
<1> DEFINE from == versions[v].revs[rev - 1].files
           to == versions[v].revs[rev].files
<1>3. FilesAt(v, rev - 1) = from /\ FilesAt(v, rev) = to
  BY <1>1 DEF FilesAt
<1>4. IsMap(from) /\ IsMap(to)
  BY <1>1 DEF VersionsFit, RevisionsFit, RevisionFits
<1>5. changes = Changes(from, to)
  BY <1>1, <1>2, <1>3 DEF RevisionChanges
<1>6. \E differing : /\ differing = Changes(FilesAt(v, rev - 1), FilesAt(v, AtRevision(v, rev)))
                     /\ diff = [p \in differing.added \cup differing.modified
                                         \cup differing.deleted |->
                                  CASE p \in differing.added -> "added"
                                    [] p \in differing.modified -> "modified"
                                    [] p \in differing.deleted -> "deleted"]
  BY <1>1, <1>2 DEF DiffRevisions
<1>7. diff = [p \in changes.added \cup changes.modified \cup changes.deleted |-> diff[p]]
  <2>1. changes = Changes(FilesAt(v, rev - 1), FilesAt(v, AtRevision(v, rev)))
    BY <1>2, <1>3, <1>5
  <2>2. QED
    BY <1>6, <2>1
<1> HIDE DEF from, to
<1>8. (changes = NoChanges <=> diff = NoFiles) /\ (diff = NoFiles => from = to)
  BY <1>4, <1>5, <1>7, ChangesShow
<1>9. QED
  BY <1>8 DEF from, to

\* The attempts that made revision rev of v.
Makers(v, rev) ==
  {i \in IdempotencyKeys : /\ HasAttempt(v, i)
                           /\ attempts[i].outcome \in MadeRevision
                           /\ attempts[i].revision = rev}

\* Every revision but the first has one attempt that made it.
LEMMA OneMaker ==
  ASSUME VersionsFit, RevisionsAreMade, NEW v \in Versions
  PROVE  /\ \A rev \in 2..Current(v) : Cardinality(Makers(v, rev)) = 1
         /\ \A rev \in Nat : rev \notin 2..Current(v) => Makers(v, rev) = {}
<1>1. \A rev : \A i \in IdempotencyKeys : i \in Makers(v, rev) <=> Made(i, v, rev)
  BY DEF Makers, Made
<1>2. ASSUME NEW rev \in 2..Current(v) PROVE Cardinality(Makers(v, rev)) = 1
  <2>1. PICK i \in IdempotencyKeys : Made(i, v, rev)
    BY DEF RevisionsAreMade
  <2>2. rev \in Nat
    BY RevisionsCount
  <2>3. \A j \in IdempotencyKeys : Made(j, v, rev) => i = j
    BY <2>1, <2>2 DEF RevisionsAreMade
  <2>4. Makers(v, rev) \subseteq IdempotencyKeys
    BY DEF Makers
  <2>5. Makers(v, rev) = {i}
    BY <1>1, <2>1, <2>3, <2>4
  <2>6. QED
    BY <2>5, FS_Singleton
<1>3. ASSUME NEW rev \in Nat, rev \notin 2..Current(v) PROVE Makers(v, rev) = {}
  <2>1. \A i \in IdempotencyKeys : ~Made(i, v, rev)
    BY <1>3 DEF RevisionsAreMade
  <2>2. Makers(v, rev) \subseteq IdempotencyKeys
    BY DEF Makers
  <2>3. QED
    BY <1>1, <2>1, <2>2
<1>4. QED
  BY <1>2, <1>3

\* Every change made a revision of its own, and every revision shows what its
\* change was.
LEMMA AppliedOnceByInvariant ==
  ASSUME DraftInv
  PROVE  AppliedOnce
<1>1. VersionsFit /\ RevisionsAreMade
  BY DEF DraftInv, DraftsFit
<1>2. ASSUME NEW v \in Versions, NEW rev \in 2..Current(v)
      PROVE  /\ Cardinality(Makers(v, rev)) = 1
             /\ ~SameRevision(versions[v].revs[rev], versions[v].revs[rev - 1])
             /\ RevisionChanges(v, rev - 1, rev) = NoChanges <=>
                  DiffRevisions(v, rev - 1, rev) = NoFiles
             /\ versions[v].revs[rev].assets = versions[v].revs[rev - 1].assets =>
                  DiffRevisions(v, rev - 1, rev) # NoFiles
  <2>1. Cardinality(Makers(v, rev)) = 1
    BY <1>1, OneMaker
  <2>2. ~SameRevision(versions[v].revs[rev], versions[v].revs[rev - 1])
    BY <1>1 DEF RevisionsAreMade
  <2>3. /\ RevisionChanges(v, rev - 1, rev) = NoChanges <=>
             DiffRevisions(v, rev - 1, rev) = NoFiles
        /\ DiffRevisions(v, rev - 1, rev) = NoFiles =>
             versions[v].revs[rev].files = versions[v].revs[rev - 1].files
    BY <1>1, ComparedRevisions
  <2>4. QED
    BY <2>1, <2>2, <2>3 DEF SameRevision, SameFiles
<1>3. ASSUME NEW v \in Versions,
             NEW rev \in 1..(Cardinality(IdempotencyKeys) + 1) \ (2..Current(v))
      PROVE  Makers(v, rev) = {}
  <2>1. rev \in Nat /\ rev \notin 2..Current(v)
    OBVIOUS
  <2>2. QED
    BY <1>1, <2>1, OneMaker
<1>4. QED
  BY <1>2, <1>3 DEF AppliedOnce, Makers

\* The build of a revision is its build.
LEMMA BuildIsFound ==
  ASSUME NEW v, NEW rev, HasBuild(v, rev)
  PROVE  \E b \in DOMAIN builds :
           builds[b].version = v /\ builds[b].revision = rev /\ BuildOf(v, rev) = builds[b]
<1>1. PICK b : b \in BuildsOf(v, rev) /\ b = CHOOSE x \in BuildsOf(v, rev) : TRUE
  BY DEF HasBuild
<1>2. QED
  BY <1>1 DEF BuildOf, BuildsOf

\* The last successful build is of a revision the version has.
LEMMA LastBuildFits ==
  ASSUME VersionsFit, BuildsFit, NEW v \in Versions, LastSuccessfulBuild(v) # Nothing
  PROVE  LastSuccessfulBuild(v).revision <= Current(v)
<1> DEFINE succeeded == {b \in DOMAIN builds :
                           builds[b].version = v /\ builds[b].status = "SUCCEEDED"}
           newest(b) == \A other \in succeeded : builds[other].revision <= builds[b].revision
<1>1. succeeded # {} /\ LastSuccessfulBuild(v) = builds[CHOOSE b \in succeeded : newest(b)]
  BY DEF LastSuccessfulBuild
<1>2. \A b \in succeeded : builds[b].revision \in 1..Current(v)
  BY DEF BuildsFit, BuildFits
<1>3. Current(v) \in Nat
  BY RevisionsCount
<1> DEFINE behind == {Current(v) - builds[b].revision : b \in succeeded}
<1>4. behind \subseteq Nat /\ behind # {}
  BY <1>1, <1>2, <1>3
<1>5. PICK least : least \in behind /\ \A n \in behind : least <= n
  <2> HIDE DEF behind
  <2>1. QED
    BY <1>4, LeastOfSome
<1>6. PICK b \in succeeded : least = Current(v) - builds[b].revision
  BY <1>5
<1>7. newest(b)
  BY <1>2, <1>3, <1>5, <1>6
<1>8. (CHOOSE x \in succeeded : newest(x)) \in succeeded
  <2> HIDE DEF succeeded, newest
  <2>1. QED
    BY <1>6, <1>7
<1>9. QED
  BY <1>1, <1>2, <1>3, <1>8

\* The newest revision of a version is being built, was, or will be.
LEMMA NewestIsBuiltByInvariant ==
  ASSUME DraftInv
  PROVE  NewestIsBuilt
<1>1. VersionsFit /\ BuildsFit /\ RevisionsAreBuilt /\ RunningBuildsAreRun
  BY DEF DraftInv, DraftsFit
<1>2. ASSUME NEW v \in Versions, Exists(v), NEW read, read = ReadDraft(v, 0)
      PROVE  /\ HasBuild(v, read.revision) /\ read.build.status # "SUPERSEDED"
             /\ read.last # Nothing => read.last.revision <= read.current
  <2>1. Current(v) \in Nat /\ Current(v) > 0 /\ Current(v) \in 1..Current(v)
    BY <1>1, <1>2, RevisionsCount
  <2>2. AtRevision(v, 0) = Current(v) /\ AtRevision(v, Current(v)) = Current(v)
    BY DEF AtRevision
  <2>3. HasRevision(v, Current(v)) /\ HasBuild(v, Current(v))
    BY <1>1, <1>2, <2>1 DEF HasRevision, RevisionsAreBuilt
  <2>4. /\ read.revision = Current(v) /\ read.current = Current(v)
        /\ read.build = ReadBuild(v, Current(v)) /\ read.last = LastSuccessfulBuild(v)
    BY <1>2, <2>2, <2>3 DEF ReadDraft
  <2>5. read.build = BuildOf(v, Current(v))
    BY <2>2, <2>3, <2>4 DEF ReadBuild
  <2>6. PICK b \in DOMAIN builds : /\ builds[b].version = v /\ builds[b].revision = Current(v)
                                   /\ read.build = builds[b]
    BY <2>3, <2>5, BuildIsFound
  <2>7. read.build.status # "SUPERSEDED"
    BY <1>1, <2>6 DEF RevisionsAreBuilt
  <2>8. QED
    BY <1>1, <2>3, <2>4, <2>7, LastBuildFits
<1>3. NewestIsNeverSuperseded
  BY <1>2 DEF NewestIsNeverSuperseded
<1>4. QED
  BY <1>1, <1>3 DEF NewestIsBuilt

\* What a revision that is ready to run loads is kept.
LEMMA LoadedIsBuilt ==
  ASSUME VersionsFit, BuildsFit, RevisionsAreBuilt, NEW v \in Versions, NEW rev \in 1..Current(v),
         LoadBuiltRevision(v, rev).ready
  PROVE  Built(v, LoadBuiltRevision(v, rev).script)
<1>1. rev # 0 /\ AtRevision(v, rev) = rev
  BY RevisionsCount DEF AtRevision
<1>2. HasBuild(v, rev)
  BY DEF RevisionsAreBuilt
<1>3. ReadBuild(v, rev) = BuildOf(v, rev)
  BY <1>1, <1>2 DEF ReadBuild
<1>4. BuildOf(v, rev).status = "SUCCEEDED"
      /\ LoadBuiltRevision(v, rev).script = BuildOf(v, rev).script
  BY <1>1, <1>2, <1>3 DEF LoadBuiltRevision
<1>5. QED
  BY <1>2, <1>4, BuildIsFound DEF Built

\* The revisions listed are the version's.
LEMMA ListedRevisions ==
  ASSUME VersionsFit, NEW v \in Versions, NEW rev \in Range(ListRevisions(v, 0, Current(v)))
  PROVE  rev \in 1..Current(v)
<1>1. Current(v) \in Nat
  BY RevisionsCount
<1>2. ListRevisions(v, 0, Current(v)) = [j \in 1..Current(v) |-> Current(v) + 1 - j]
  BY <1>1 DEF ListRevisions
<1>3. PICK j \in 1..Current(v) : rev = Current(v) + 1 - j
  BY <1>2 DEF Range
<1>4. QED
  BY <1>1, <1>3

\* What the frontend of a revision is shown with, it binds.
LEMMA ShownIsBound ==
  ASSUME NEW v, NEW rev, rev # 0, SignBuiltFrontend(v, rev) # Nothing,
         NEW o \in Uploaded(v, SignBuiltFrontend(v, rev).assets)
  PROVE  o \in UploadedAt(v, rev)
<1>1. SignBuiltFrontend(v, rev).assets = DeliveredAssets(versions[v].revs[rev])
  BY DEF SignBuiltFrontend
<1>2. Range(DeliveredAssets(versions[v].revs[rev])) \subseteq Range(versions[v].revs[rev].assets)
  BY DEF DeliveredAssets, Range
<1>3. QED
  BY <1>1, <1>2 DEF Uploaded, UploadedAt

\* Nothing that is run, shown or delivered was cleaned up.
LEMMA StoredByInvariant ==
  ASSUME DraftInv
  PROVE  WhatIsUsedIsStored
<1>1. /\ VersionsFit /\ BuildsFit /\ RevisionsAreBuilt
      /\ BuildsAreStored /\ ScriptsAreStored /\ AssetsAreStored
  BY DEF DraftInv, DraftsFit, StoreHolds
<1>2. ASSUME NEW v \in Versions, versions[v].status = "EXECUTABLE"
      PROVE  /\ Stored(versions[v].script)
             /\ \A o \in Uploaded(v, versions[v].delivered) : Stored(o)
  BY <1>1, <1>2 DEF ScriptsAreStored, AssetsAreStored, Executable, Kept
<1>3. ASSUME NEW v \in Versions, versions[v].status = "DRAFT",
             NEW rev \in Range(ListRevisions(v, 0, Current(v))),
             LoadBuiltRevision(v, rev).ready
      PROVE  Stored(LoadBuiltRevision(v, rev).script)
  <2>1. rev \in 1..Current(v)
    BY <1>1, ListedRevisions
  <2>2. Built(v, LoadBuiltRevision(v, rev).script)
    BY <1>1, <1>3, <2>1, LoadedIsBuilt
  <2>3. IsDraft(v)
    BY <1>3 DEF IsDraft
  <2>4. QED
    BY <1>1, <2>2, <2>3 DEF BuildsAreStored, Kept
<1>4. ASSUME NEW v \in Versions, versions[v].status = "DRAFT", NEW rev \in 1..Current(v)
      PROVE  /\ \A o \in Uploaded(v, versions[v].revs[rev].assets) : Stored(o)
             /\ SignBuiltFrontend(v, rev) # Nothing =>
                  \A o \in Uploaded(v, SignBuiltFrontend(v, rev).assets) : Stored(o)
  <2>1. \A o \in UploadedAt(v, rev) : Stored(o)
    BY <1>1, <1>4 DEF AssetsAreStored, IsDraft, Kept
  <2>2. rev # 0
    BY <1>1, RevisionsCount
  <2>3. QED
    BY <2>1, <2>2, ShownIsBound DEF UploadedAt
<1>5. RunnableBuildsAreStored
  BY <1>2, <1>3 DEF RunnableBuildsAreStored
<1>6. UploadedContentIsStored
  BY <1>2, <1>4 DEF UploadedContentIsStored
<1>7. QED
  BY <1>5, <1>6 DEF WhatIsUsedIsStored

\* Concurrent edits, lost races, retries and crashes neither lose nor repeat a
\* change: every revision after the first was made by one attempt and differs
\* from the one before it (AdvanceRevision, ClaimChangeAttempt).
THEOREM EveryChangeAppliesOnce == Spec => []AppliedOnce
  BY DraftInvariant, AppliedOnceByInvariant, PTL

\* The newest revision of every version has a build that is not superseded, and
\* each running build has one worker and each worker one running build, but for
\* the builds left running when the database failed to answer a claim, to record
\* an end or to requeue at a start (QueueBuild, RunNextBuild, Run).
THEOREM NewestAlwaysBuilt == Spec => []NewestIsBuilt
  BY DraftInvariant, NewestIsBuiltByInvariant, PTL

\* No cleanup deletes what is run, shown or delivered, or what a request or a
\* build under way is about to refer to, whenever cleanups run
\* (LoadBuiltRevision, SignBuiltFrontend, CleanUnusedObjects).
THEOREM UsedIsAlwaysStored == Spec => []WhatIsUsedIsStored
  BY DraftInvariant, StoredByInvariant, PTL
=============================================================================
