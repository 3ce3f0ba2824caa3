----------------------------- MODULE Publishing -----------------------------
(***************************************************************************)
(* A game's editions and releases (game/workflows/gamelifecycle) and the   *)
(* orchestration that publishes them (orchestrator/gameauthoring).  Game   *)
(* Management and Play keep their own tables and share no transaction: an  *)
(* operation is a sequence of calls to one or the other, may stop after    *)
(* any of them, and is resumed by the next operation on the game.          *)
(***************************************************************************)
EXTENDS DraftReading

CONSTANTS PublishKeys, EditionKeys

VARIABLES
  editions,        \* the rows of game_editions, oldest first
  releases,        \* the rows of game_releases, oldest first
  editionRequests  \* the edition each request opened

gameVars == <<editions, releases, editionRequests>>

vars == <<draftVars, buildVars, gameVars>>

EditionStatus == {"EDITING", "PUBLISHED"}
ReleaseState == {"pending", "completed", "abandoned"}

EditionsIn(status) == {e \in DOMAIN editions : editions[e].status = status}
PendingReleases == {r \in DOMAIN releases : releases[r].state = "pending"}
ReleasesWith(k) == {r \in DOMAIN releases : releases[r].key = k}
OpenEditions == EditionsIn("EDITING")
OpenVersion == editions[CHOOSE e \in OpenEditions : TRUE].version

(* FindLatestEditionInStatus, of those before edition e. *)
BaseVersion(e) ==
  LET published == {p \in EditionsIn("PUBLISHED") : p < e}
  IN IF published = {} THEN Nothing
     ELSE editions[CHOOSE p \in published : \A q \in published : q <= p].version

UnusedVersions == Versions \ {editions[e].version : e \in DOMAIN editions}
NewUUID == CHOOSE v \in UnusedVersions : TRUE

-----------------------------------------------------------------------------
(* Game Management's CreateGame, with the game's first edition open. *)
CreateGame ==
  /\ up
  /\ editions = <<>>
  /\ editions' = <<[version |-> NewUUID, status |-> "EDITING"]>>
  /\ UNCHANGED <<draftVars, buildVars, releases, editionRequests>>

(* createDraft, repairDraft and EnsureDraft: Play's version of an edition, if
   Play lacks it, whether the operation that opened the edition goes on or a
   later one finds the version missing. *)
EnsureDraft(e) ==
  /\ up
  /\ CreateDraftVersion(editions[e].version, BaseVersion(e))
  /\ UNCHANGED <<buildVars, gameVars>>

(* OpenEdition: a request already answered opens nothing. *)
OpenEdition(k) ==
  /\ up
  /\ PendingReleases = {}
  /\ editionRequests[k] = Nothing
  /\ EditionsIn("PUBLISHED") # {}
  /\ OpenEditions = {}
  /\ UnusedVersions # {}
  /\ editions' = Append(editions, [version |-> NewUUID, status |-> "EDITING"])
  /\ editionRequests' = [editionRequests EXCEPT ![k] = NewUUID]
  /\ UNCHANGED <<draftVars, buildVars, releases>>

-----------------------------------------------------------------------------
(* A publication under way, of a release it found or began. *)
PublishCall(at, r) == [op |-> "publish", at |-> at, release |-> r]

GoesOn(c, call) == calls' = [calls EXCEPT ![c] = call]

(* CreateRelease; CompleteRelease and AbandonRelease, which only end a pending
   one; MarkPublished. *)
NewRelease(k, v, rev) ==
  Append(releases, [key |-> k, version |-> v, revision |-> rev, state |-> "pending"])
ReleaseEnds(r, state) ==
  IF releases[r].state # "pending" THEN releases
  ELSE [releases EXCEPT ![r].state = state]
MarkPublished(e) == [editions EXCEPT ![e].status = "PUBLISHED"]

(* CheckPublication of the open edition's current revision, once no release
   is pending and the key has not ended one. *)
CheckPublication(c, k) ==
  /\ up /\ calls[c] = Idle
  /\ PendingReleases = {}
  /\ ReleasesWith(k) = {}
  /\ OpenEditions # {}
  /\ versions[OpenVersion].status = "DRAFT"
  /\ ReadyToPublish(OpenVersion, Current(OpenVersion))
  /\ GoesOn(c, [op |-> "publish", at |-> "begin",
                key |-> k, revision |-> Current(OpenVersion)])
  /\ UNCHANGED <<versions, currentVersion, builds, attempts, objects, cleaning, buildVars, gameVars>>

(* BeginPublication, in one transaction of Game Management: the edition open
   by now, with the revision that was checked. *)
BeginPublication(c) ==
  /\ calls[c].at = "begin"
  /\ LET k == calls[c].key
         found == ReleasesWith(k) \cup PendingReleases IN
     \/ /\ found # {}
        /\ UNCHANGED releases
        /\ LET r == CHOOSE r \in found : r \in ReleasesWith(k) \/ ReleasesWith(k) = {} IN
           GoesOn(c, IF releases[r].state = "pending"
                     THEN PublishCall("freeze", r) ELSE Idle)
     \/ /\ found = {} /\ OpenEditions = {}
        /\ UNCHANGED releases
        /\ GoesOn(c, Idle)
     \/ /\ found = {} /\ OpenEditions # {}
        /\ releases' = NewRelease(k, OpenVersion, calls[c].revision)
        /\ GoesOn(c, PublishCall("freeze", Len(releases) + 1))
  /\ UNCHANGED <<versions, currentVersion, builds, attempts, objects, cleaning, buildVars,
                 editions, editionRequests>>

(* resumePublication: any operation on the game first finishes the release
   it finds being published. *)
ResumePublication(c) ==
  /\ up /\ calls[c] = Idle
  /\ \E r \in PendingReleases : GoesOn(c, PublishCall("freeze", r))
  /\ UNCHANGED <<versions, currentVersion, builds, attempts, objects, cleaning, buildVars, gameVars>>

(* Mutant: the game is pointed at a version that was frozen already, again. *)
FreezeReadsPointsAgain(c) ==
  /\ calls[c].at = "freeze" /\ ~GameIsLocked
  /\ LET r == calls[c].release
         v == releases[r].version
         outcome == IF Exists(v) THEN FreezeOutcome(v, releases[r].revision) ELSE "missing" IN
     /\ GoesOn(c, CASE outcome = "frozen" ->
                         [op |-> "publish", at |-> "freezing", release |-> r,
                          script |-> BuildOf(v, releases[r].revision).script]
                    [] outcome = "already_frozen" -> PublishCall("complete", r)
                    [] outcome = "not_ready" -> PublishCall("abandon", r)
                    [] outcome = "missing" -> Idle)
     /\ currentVersion' = IF outcome = "already_frozen" THEN v ELSE currentVersion
  /\ UNCHANGED <<versions, builds, attempts, objects, cleaning, buildVars, gameVars>>

(* finishRelease asks Play to freeze the release's version at its revision. *)
FreezeReads(c) ==
  /\ calls[c].at = "freeze" /\ ~GameIsLocked
  /\ LET r == calls[c].release
         v == releases[r].version
         outcome == IF Exists(v) THEN FreezeOutcome(v, releases[r].revision) ELSE "missing" IN
     GoesOn(c, CASE outcome = "frozen" ->
                      [op |-> "publish", at |-> "freezing", release |-> r,
                       script |-> BuildOf(v, releases[r].revision).script]
                 [] outcome = "already_frozen" -> PublishCall("complete", r)
                 [] outcome = "not_ready" -> PublishCall("abandon", r)
                 [] outcome = "missing" -> Idle)
  /\ UNCHANGED <<versions, currentVersion, builds, attempts, objects, cleaning, buildVars, gameVars>>

FreezeVersion(c) ==
  /\ calls[c].at = "freezing"
  /\ FreezeCommits(releases[calls[c].release].version, releases[calls[c].release].revision,
                   calls[c].script)
  /\ GoesOn(c, PublishCall("complete", calls[c].release))
  /\ UNCHANGED <<builds, attempts, objects, cleaning, buildVars, gameVars>>

EditionOf(r) == CHOOSE e \in DOMAIN editions : editions[e].version = releases[r].version

(* CompletePublication: the edition and its release, in one transaction; one
   abandoned is an error, one completed is answered again. *)
CompletePublication(c) ==
  /\ calls[c].at = "complete"
  /\ LET r == calls[c].release IN
     \/ /\ releases[r].state = "pending"
        /\ releases' = ReleaseEnds(r, "completed")
        /\ editions' = MarkPublished(EditionOf(r))
     \/ /\ releases[r].state # "pending"
        /\ UNCHANGED <<releases, editions>>
  /\ GoesOn(c, Idle)
  /\ UNCHANGED <<versions, currentVersion, builds, attempts, objects, cleaning, buildVars,
                 editionRequests>>

AbandonPublication(c) ==
  /\ calls[c].at = "abandon"
  /\ releases' = ReleaseEnds(calls[c].release, "abandoned")
  /\ GoesOn(c, Idle)
  /\ UNCHANGED <<versions, currentVersion, builds, attempts, objects, cleaning, buildVars,
                 editions, editionRequests>>

(* The cleanup that follows a completed publication, of this game or of any
   other, object by object. *)
CleanAfterPublication ==
  /\ up
  /\ \E o \in DOMAIN objects : CleanUnusedObjects(o)
  /\ UNCHANGED <<buildVars, gameVars>>

PublishSteps(c) ==
  \/ BeginPublication(c) \/ FreezeReads(c) \/ FreezeVersion(c)
  \/ CompletePublication(c) \/ AbandonPublication(c)

-----------------------------------------------------------------------------
Init ==
  /\ DraftInit /\ BuildInit
  /\ editions = <<>>
  /\ releases = <<>>
  /\ editionRequests = [k \in EditionKeys |-> Nothing]

Next ==
  \/ CreateGame
  \/ \E e \in DOMAIN editions : EnsureDraft(e)
  \/ \E k \in EditionKeys : OpenEdition(k)
  \/ up /\ DraftRequests /\ UNCHANGED <<buildVars, gameVars>>
  \/ DraftSteps /\ UNCHANGED <<buildVars, gameVars>>
  \/ \E c \in Callers, k \in PublishKeys : CheckPublication(c, k)
  \/ \E c \in Callers : ResumePublication(c) \/ PublishSteps(c)
  \/ CleanAfterPublication
  \/ \E o \in cleaning, marked \in BOOLEAN : DeleteUnused(o, marked) /\ UNCHANGED <<buildVars, gameVars>>
  \/ BuildNext /\ UNCHANGED gameVars

Spec == Init /\ [][Next]_vars

-----------------------------------------------------------------------------
TypeOK ==
  /\ \A v \in Versions :
       /\ versions[v].status \in VersionStatus
       /\ \A rev \in Range(versions[v].revs) : IsRevision(rev)
  /\ attempts \in [IdempotencyKeys -> {Nothing} \cup [version : Versions, outcome : AttemptOutcome,
                       revision : 0..(1 + Cardinality(IdempotencyKeys))]]
  /\ currentVersion \in Versions \cup {Nothing}
  /\ \A b \in DOMAIN builds :
       builds[b].status \in BuildStatus /\ builds[b].revision \in DOMAIN versions[builds[b].version].revs
  /\ \A e \in DOMAIN editions : editions[e].status \in EditionStatus
  /\ \A r \in DOMAIN releases : releases[r].state \in ReleaseState
  /\ editionRequests \in [EditionKeys -> Versions \cup {Nothing}]
  /\ cleaning \subseteq DOMAIN objects
  /\ lost \subseteq DOMAIN builds

(* Every revision after the first was made by exactly one attempt, differs
   from the one before it, and an attempt that answers a revision made it:
   concurrent edits, lost races, retries and crashes neither lose nor repeat
   a change (AdvanceRevision, ClaimChangeAttempt). *)
AppliedOnce ==
  \A v \in Versions :
    LET made(rev) == {i \in IdempotencyKeys : /\ HasAttempt(v, i)
                                              /\ attempts[i].outcome \in MadeRevision
                                              /\ attempts[i].revision = rev} IN
    /\ \A rev \in 2..Current(v) :
         /\ Cardinality(made(rev)) = 1
         /\ ~SameRevision(versions[v].revs[rev], versions[v].revs[rev - 1])
         /\ RevisionChanges(v, rev - 1, rev) = NoChanges <=>
              DiffRevisions(v, rev - 1, rev) = NoFiles
         /\ versions[v].revs[rev].assets = versions[v].revs[rev - 1].assets =>
              DiffRevisions(v, rev - 1, rev) # NoFiles
    /\ \A rev \in 1..(Cardinality(IdempotencyKeys) + 1) \ (2..Current(v)) : made(rev) = {}

(* LoadBuiltRevision finds what it loads: the script of every executable
   version and of every succeeded build of a DRAFT is in the store, whatever
   a cleanup deleted meanwhile. *)
Stored(o) == o \in DOMAIN objects /\ objects[o].stored /\ ~objects[o].deleted
RunnableBuildsAreStored ==
  /\ \A v \in Versions : versions[v].status = "EXECUTABLE" => Stored(versions[v].script)
  /\ \A v \in Versions : versions[v].status = "DRAFT" =>
       \A rev \in Range(ListRevisions(v, 0, Current(v))) :
         LoadBuiltRevision(v, rev).ready => Stored(LoadBuiltRevision(v, rev).script)

(* What an upload attached to a DRAFT stays in the store as long as some
   revision of the DRAFT binds it, and for good once a published revision
   delivers it.  (A binding its first revision copied is another matter:
   NoBindingPointsToNothing.) *)
Uploaded(v, assets) == Range(assets) \ Range(versions[v].revs[1].assets)
UploadedContentIsStored ==
  \A v \in Versions :
    /\ versions[v].status = "DRAFT" =>
         \A rev \in 1..Current(v) :
           /\ \A o \in Uploaded(v, versions[v].revs[rev].assets) : Stored(o)
           /\ SignBuiltFrontend(v, rev) # Nothing =>
                \A o \in Uploaded(v, SignBuiltFrontend(v, rev).assets) : Stored(o)
    /\ versions[v].status = "EXECUTABLE" =>
         \A o \in Uploaded(v, versions[v].delivered) : Stored(o)

(* The newest revision of a version always has a build, which ReadDraft shows:
   only older ones are superseded, also after a restart puts interrupted
   builds back in the queue. *)
NewestIsNeverSuperseded ==
  \A v \in Versions : Exists(v) =>
    LET read == ReadDraft(v, 0) IN
    /\ HasBuild(v, read.revision) /\ read.build.status # "SUPERSEDED"
    /\ read.last # Nothing => read.last.revision <= read.current

(* Game Management and Play agree whatever step an operation stopped after:
   a completed release's version is executable and its edition published, and
   the one DRAFT is that of the open edition, so createDraft's alert "play has another version being
   built than game management's open edition" never fires. *)
DomainsAgree ==
  /\ \A r \in DOMAIN releases : releases[r].state = "completed" =>
       /\ versions[releases[r].version].status = "EXECUTABLE"
       /\ editions[EditionOf(r)].status = "PUBLISHED"
  /\ \A v \in Versions : versions[v].status = "DRAFT" => OpenEditions # {} /\ OpenVersion = v

(* Play runs new Sessions with the version of the newest edition it froze, at
   least as new as the latest published one: no slow publisher of an earlier
   release turns the game back. *)
PlayersRunTheNewestRelease ==
  LET frozen == {e \in DOMAIN editions : versions[editions[e].version].status = "EXECUTABLE"} IN
  /\ EditionsIn("PUBLISHED") \subseteq frozen
  /\ currentVersion = IF frozen = {} THEN Nothing
                      ELSE editions[CHOOSE e \in frozen : \A f \in frozen : f <= e].version

(* A version is immutable once executable (FreezeVersion). *)
FrozenForGood ==
  [][\A v \in Versions : versions[v].status = "EXECUTABLE" => versions'[v] = versions[v]]_vars

(* A build said to be running is run by one worker, and a worker runs only
   such a build. What an instance stopped in the middle of is queued again
   before its workers start; only the database failing to answer a claim, to
   record an end or to requeue at a start leaves a build running that nobody
   runs (RunNextBuild, Run). *)
RunningBuildsAreRun ==
  up =>
    /\ \A b \in RunningBuilds :
         b \in lost \/ \E w \in Workers : workers[w] # Waiting /\ workers[w].build = b
    /\ \A w \in Workers : workers[w] # Waiting =>
         /\ workers[w].build \in RunningBuilds \ lost
         /\ \A other \in Workers \ {w} :
              workers[other] # Waiting => workers[other].build # workers[w].build

(* What FreezeVersion's comment says: the version becomes executable "at
   revision", so what it runs is the build of the revision it stays at. *)
FrozenAtItsRevision ==
  \A v \in Versions : versions[v].status = "EXECUTABLE" =>
    versions[v].script = Script(versions[v].revs[Current(v)].files)

(* What finishRelease's comment says: the release is ended "completed when
   Play runs it, abandoned when Play refuses it". *)
EndedAsPlayDecided ==
  \A v \in Versions : versions[v].status = "EXECUTABLE" =>
    \E r \in DOMAIN releases : releases[r].version = v /\ releases[r].state # "abandoned"

(* What UploadAsset's comment says: content is stored before anything refers
   to it, "so no reference can point to nothing". *)
NoBindingPointsToNothing ==
  \A v \in Versions : versions[v].status = "DRAFT" =>
    \A rev \in Range(versions[v].revs) : \A o \in Range(rev.assets) : Stored(o)

(* What LoadBuiltRevision, SignBuiltFrontend and deliveries load is in the
   store, whatever a cleanup deleted meanwhile. *)
WhatIsUsedIsStored == RunnableBuildsAreStored /\ UploadedContentIsStored

(* The newest revision has its build, and workers and running builds agree
   (QueueBuild, RunNextBuild, RequeueInterrupted). *)
NewestIsBuilt == NewestIsNeverSuperseded /\ RunningBuildsAreRun

(* Wherever publishing stopped, the two domains agree and Play runs the newest
   release (PublishVersion, finishRelease). *)
PublishedOnce == DomainsAgree /\ PlayersRunTheNewestRelease
=============================================================================
