--------------------------- MODULE VersionDrafting ---------------------------
(***************************************************************************)
(* The versions of a game while they are DRAFTs                            *)
(* (play/session/workflows/versiondrafting): created, changed one revision *)
(* at a time over the revision their author last read, given assets,       *)
(* restored, frozen into executable versions; and the cleaning of the      *)
(* stored content nothing uses any more.                                   *)
(*                                                                         *)
(* A request runs in one transaction at READ COMMITTED: it reads the       *)
(* version's row and claims its idempotency key in one step, and commits   *)
(* in another; whatever other requests commit in between happens between   *)
(* these two steps.  An upload takes more steps, with the object store     *)
(* outside of any transaction.                                             *)
(***************************************************************************)
EXTENDS DraftSources

CONSTANTS
  Versions,         \* version UUIDs of one game
  Callers,          \* requests under way at once
  IdempotencyKeys,  \* the keys callers send with their requests
  DraftChanges,     \* the changes of the sources callers may send
  Nothing,          \* no value
  MaxRevisionRaces, \* rounds an asset edit decides again after losing a race
  UploadSlots,      \* uploads held in memory at once
  Weight,           \* what each content weighs
  MaxAssetsWeight   \* what the assets of a revision may weigh together

ASSUME VersionDraftingAssumption ==
  /\ MaxRevisionRaces \in Nat \ {0}
  /\ UploadSlots \in Nat \ {0}
  /\ Versions # {} /\ Nothing \notin Versions \cup Blobs

VARIABLES
  versions,       \* the rows of play_game_versions, with their revisions
  currentVersion, \* the version new Sessions of the game run
  builds,         \* the rows of play_game_version_builds, oldest first
  attempts,       \* the rows of play_game_version_change_attempts
  objects,        \* the registered objects and what the store holds of them
  calls,          \* the requests under way
  cleaning        \* the objects cleanups hold locked

draftVars == <<versions, currentVersion, builds, attempts, objects, calls, cleaning>>

VersionStatus == {"NONE", "DRAFT", "EXECUTABLE"}
BuildStatus == {"QUEUED", "RUNNING", "SUCCEEDED", "FAILED", "SUPERSEDED"}

AttemptOutcome == {"applied", "attached", "removed", "unchanged", "conflict", "invalid",
                   "not_editable", "not_declared"}

(* What stands for no attempt is none. *)
ASSUME AttemptAssumption ==
  Nothing \notin [version : Versions, outcome : AttemptOutcome, revision : Nat]

(* The outcomes of an attempt that made a revision. *)
MadeRevision == {"applied", "attached", "removed"}

Idle == [op |-> "idle", at |-> "idle"]
DraftOps == {"change", "restore", "remove", "upload"}
Deciding(c) == calls[c].op \in DraftOps /\ calls[c].at = "deciding"
NoVersion == [status |-> "NONE", revs |-> <<>>, script |-> Nothing, delivered |-> NoFiles]

(* What the build of a revision's files is stored as: content-addressed. *)
Script(files) == [built |-> files]

Current(v) == Len(versions[v].revs)
Row(v) == [status |-> versions[v].status, current |-> Current(v)]
Exists(v) == versions[v].status # "NONE"

(* FindBuild, FindBuiltArtifacts: a revision has at most one build. *)
BuildsOf(v, rev) == {b \in DOMAIN builds : builds[b].version = v /\ builds[b].revision = rev}
HasBuild(v, rev) == BuildsOf(v, rev) # {}
BuildOf(v, rev) == builds[CHOOSE b \in BuildsOf(v, rev) : TRUE]

(* Mutant: the new build is among those superseded. *)
QueueBuildThenSupersede(v, rev) ==
  LET all == Append(builds, [version |-> v, revision |-> rev, status |-> "QUEUED",
                             script |-> Nothing])
  IN [b \in DOMAIN all |-> IF all[b].version = v /\ all[b].status = "QUEUED"
                           THEN [all[b] EXCEPT !.status = "SUPERSEDED"] ELSE all[b]]

(* QueueBuild: the version's builds still waiting are superseded. *)
QueueBuild(v, rev) ==
  Append([b \in DOMAIN builds |->
            IF builds[b].version = v /\ builds[b].status = "QUEUED"
            THEN [builds[b] EXCEPT !.status = "SUPERSEDED"] ELSE builds[b]],
         [version |-> v, revision |-> rev, status |-> "QUEUED", script |-> Nothing])

(* LockGame is held by a freeze from its first read to its commit. *)
GameIsLocked == \E c \in Callers : calls[c].at = "freezing"

(* ClaimChangeAttempt: a concurrent claim of the same key waits. *)
KeyIsHeld(v, i) ==
  \E c \in Callers : Deciding(c) /\ calls[c].version = v /\ calls[c].key = i
HasAttempt(v, i) == attempts[i] # Nothing /\ attempts[i].version = v

(* A client makes a new key for every request it makes of a version. *)
KeyIsFree(v, i) ==
  /\ attempts[i] # Nothing => attempts[i].version = v
  /\ \A c \in Callers : calls[c].op \in DraftOps /\ calls[c].key = i => calls[c].version = v

Request(op, v, i, req, at) ==
  [op |-> op, version |-> v, key |-> i, req |-> req, seen |-> Row(v), races |-> 0, at |-> at]

-----------------------------------------------------------------------------
(* Creating a DRAFT.  Asking for an existing one again, or for another while
   one is open, changes nothing. *)
FirstRevision(from) ==
  IF from = Nothing THEN [files |-> Template, assets |-> NoFiles]
  ELSE versions[from].revs[Current(from)]

CreateDraftVersion(v, from) ==
  /\ ~GameIsLocked
  /\ ~Exists(v)
  /\ \A other \in Versions : versions[other].status # "DRAFT"
  /\ from # Nothing => versions[from].status = "EXECUTABLE"
  /\ versions' = [versions EXCEPT ![v] = [NoVersion EXCEPT !.status = "DRAFT",
                                                           !.revs = <<FirstRevision(from)>>]]
  /\ builds' = QueueBuild(v, 1)
  /\ UNCHANGED <<currentVersion, attempts, objects, calls, cleaning>>

-----------------------------------------------------------------------------
(* What a request decides over the version's row as it read it. *)
Decided(outcome) == [outcome |-> outcome, next |-> Nothing]
Makes(outcome, rev) == [outcome |-> outcome, next |-> rev]

DecideChange(v, seen, req) ==
  IF seen.status # "DRAFT" THEN Decided("not_editable")
  ELSE IF req.base # seen.current THEN Decided("conflict")
  ELSE LET rev     == versions[v].revs[seen.current]
           edited  == ResolveEdits(rev.files, req.change.edits)
           applied == IF edited = Refused THEN Refused
                      ELSE Apply(rev.files, req.change.files \o edited, req.change.delete)
       IN IF applied = Refused THEN Decided("invalid")
          ELSE IF SameFiles(rev.files, applied) THEN Decided("unchanged")
          ELSE Makes("applied", [rev EXCEPT !.files = applied])

DecideRestore(v, seen, req) ==
  IF seen.status # "DRAFT" THEN Decided("not_editable")
  ELSE IF req.base # seen.current THEN Decided("conflict")
  ELSE IF req.revision \notin DOMAIN versions[v].revs THEN Decided("invalid")
  ELSE IF SameRevision(versions[v].revs[seen.current], versions[v].revs[req.revision])
       THEN Decided("unchanged")
       ELSE Makes("applied", versions[v].revs[req.revision])

DecideRemove(v, seen, req) ==
  IF seen.status # "DRAFT" THEN Decided("not_editable")
  ELSE LET rev == versions[v].revs[seen.current] IN
       IF req.asset \notin DOMAIN rev.assets THEN Decided("unchanged")
       ELSE Makes("removed", [rev EXCEPT !.assets =
                                [k \in DOMAIN rev.assets \ {req.asset} |-> rev.assets[k]]])

AssetsWeigh(assets) ==
  FoldFunction(LAMBDA blob, sum : Weight[blob] + sum, 0, assets)

(* Content that is empty or not what its bytes should be was never stored. *)
DecideAttach(v, seen, req) ==
  IF seen.status # "DRAFT" THEN Decided("not_editable")
  ELSE IF req.blob = Nothing THEN Decided("invalid")
  ELSE LET rev == versions[v].revs[seen.current] IN
       IF req.asset \notin DeclarationsOf(rev) \/ req.blob \notin Accepts[req.asset]
       THEN Decided("not_declared")
       ELSE IF req.asset \in DOMAIN rev.assets /\ rev.assets[req.asset] = req.blob
       THEN Decided("unchanged")
       ELSE LET bound == [k \in DOMAIN rev.assets \cup {req.asset} |->
                            IF k = req.asset THEN req.blob ELSE rev.assets[k]]
            IN IF AssetsWeigh(bound) > MaxAssetsWeight THEN Decided("invalid")
               ELSE Makes("attached", [rev EXCEPT !.assets = bound])

Decide(call) ==
  CASE call.op = "change"  -> DecideChange(call.version, call.seen, call.req)
    [] call.op = "restore" -> DecideRestore(call.version, call.seen, call.req)
    [] call.op = "remove"  -> DecideRemove(call.version, call.seen, call.req)
    [] call.op = "upload"  -> DecideAttach(call.version, call.seen, call.req)

(* Mutants of CanAdvance: the update by status only, or by revision only. *)
CanAdvanceFromAnyRevision(call) == versions[call.version].status = "DRAFT"
CanAdvanceInAnyStatus(call) == Current(call.version) = call.seen.current

(* AdvanceRevision's guard: still a DRAFT at the revision the request read. *)
CanAdvance(call) ==
  /\ versions[call.version].status = "DRAFT"
  /\ Current(call.version) = call.seen.current

(* Reading the row and claiming the key; an attempt that already holds the
   key answers instead and nothing changes. *)
BeginRequest(c, op, v, i, req) ==
  /\ calls[c] = Idle
  /\ Exists(v)
  /\ KeyIsFree(v, i) /\ ~HasAttempt(v, i) /\ ~KeyIsHeld(v, i)
  /\ calls' = [calls EXCEPT ![c] = Request(op, v, i, req, "deciding")]
  /\ UNCHANGED <<versions, currentVersion, builds, attempts, objects, cleaning>>

(* The revision the author read last: the current one, or some other. *)
BaseRevisions(v) == {Current(v), Current(v) - 1} \ {0}

ApplyChanges(c, v, i) ==
  \E change \in DraftChanges, base \in BaseRevisions(v) :
    BeginRequest(c, "change", v, i, [base |-> base, change |-> change])

RestoreRevision(c, v, i) ==
  \E rev \in 1..(Current(v) + 1), base \in BaseRevisions(v) :
    BeginRequest(c, "restore", v, i, [base |-> base, revision |-> rev])

RemoveAsset(c, v, i) ==
  \E k \in AssetKeys : BeginRequest(c, "remove", v, i, [asset |-> k])

(* rev is the revision the attempt made, 0 if none. *)
CompleteAttempt(c, outcome, rev) ==
  /\ attempts' = [attempts EXCEPT ![calls[c].key] =
                    [version |-> calls[c].version, outcome |-> outcome, revision |-> rev]]
  /\ calls' = [calls EXCEPT ![c] = Idle]

(* The attempt decided without a new revision is recorded as it is. *)
CommitDecision(c) ==
  /\ Deciding(c)
  /\ Decide(calls[c]).outcome \notin MadeRevision
  /\ CompleteAttempt(c, Decide(calls[c]).outcome, 0)
  /\ UNCHANGED <<versions, currentVersion, builds, objects, cleaning>>

(* The new revision, its build and its attempt commit together. *)
CommitRevision(c) ==
  /\ Deciding(c)
  /\ CanAdvance(calls[c])
  /\ LET v == calls[c].version
         decided == Decide(calls[c])
         next == calls[c].seen.current + 1
     IN /\ decided.outcome \in MadeRevision
        /\ versions' = [versions EXCEPT ![v].revs = Append(@, decided.next)]
        /\ builds' = QueueBuild(v, next)
        /\ CompleteAttempt(c, decided.outcome, next)
  /\ UNCHANGED <<currentVersion, objects, cleaning>>

(* Another request committed over the same base: a change of the sources
   conflicts, an asset decides again on top of it and fails after too many
   rounds. *)
LoseRace(c) ==
  /\ Deciding(c)
  /\ Decide(calls[c]).outcome \in MadeRevision
  /\ ~CanAdvance(calls[c])
  /\ \/ /\ calls[c].op \in {"change", "restore"}
        /\ CompleteAttempt(c, "conflict", 0)
     \/ /\ calls[c].op \in {"remove", "upload"}
        /\ calls' = [calls EXCEPT ![c] =
             IF calls[c].races + 1 = MaxRevisionRaces THEN Idle
             ELSE [calls[c] EXCEPT !.races = @ + 1, !.seen = Row(calls[c].version)]]
        /\ UNCHANGED attempts
  /\ UNCHANGED <<versions, currentVersion, builds, objects, cleaning>>

-----------------------------------------------------------------------------
(* Uploading an asset: nothing is read before its key is looked up, then the
   content is received within a slot, registered, stored and attached; content
   refused once received is not stored, and its attempt is recorded. *)
Uploading == {c \in Callers : calls[c].op = "upload"}

(* Mutant: what is known already is left as it is, however old or deleted. *)
RegisterKeepsAge(o) ==
  [p \in DOMAIN objects \cup {o} |->
     IF p \in DOMAIN objects THEN objects[p] ELSE [fresh |-> TRUE, deleted |-> FALSE, stored |-> FALSE]]

(* Registering content starts its age again, before the store holds it. *)
Register(o) == [p \in DOMAIN objects \cup {o} |->
                  IF p # o THEN objects[p]
                  ELSE [fresh |-> TRUE, deleted |-> FALSE,
                        stored |-> o \in DOMAIN objects /\ objects[o].stored]]
PutObject(o) == [objects EXCEPT ![o].stored = TRUE]

UploadAsset(c, v, i) ==
  /\ calls[c] = Idle
  /\ versions[v].status = "DRAFT"
  /\ KeyIsFree(v, i) /\ ~HasAttempt(v, i)
  /\ Cardinality(Uploading) < UploadSlots
  /\ \E k \in DeclarationsOf(versions[v].revs[Current(v)]) : \E blob \in Accepts[k] \cup {Nothing} :
       calls' = [calls EXCEPT ![c] =
                   Request("upload", v, i, [asset |-> k, blob |-> blob],
                           IF blob = Nothing THEN "attach" ELSE "register")]
  /\ UNCHANGED <<versions, currentVersion, builds, attempts, objects, cleaning>>

(* storeAsset: a cleanup that holds the object makes the registration wait. *)
RegisterAsset(c) ==
  /\ calls[c].op = "upload" /\ calls[c].at = "register"
  /\ calls[c].req.blob \notin cleaning
  /\ objects' = Register(calls[c].req.blob)
  /\ calls' = [calls EXCEPT ![c].at = "put"]
  /\ UNCHANGED <<versions, currentVersion, builds, attempts, cleaning>>

StoreAsset(c) ==
  /\ calls[c].op = "upload" /\ calls[c].at = "put"
  /\ objects' = PutObject(calls[c].req.blob)
  /\ calls' = [calls EXCEPT ![c].at = "attach"]
  /\ UNCHANGED <<versions, currentVersion, builds, attempts, cleaning>>

(* attachInTx reads the version again; a retry that attached meanwhile
   answers this one too. *)
AttachAsset(c) ==
  /\ calls[c].op = "upload" /\ calls[c].at = "attach"
  /\ ~KeyIsHeld(calls[c].version, calls[c].key)
  /\ calls' = [calls EXCEPT ![c] =
       IF HasAttempt(@.version, @.key) THEN Idle
       ELSE [@ EXCEPT !.at = "deciding", !.seen = Row(calls[c].version)]]
  /\ UNCHANGED <<versions, currentVersion, builds, attempts, objects, cleaning>>

(* A request ends without a decision: its transaction rolls back, its client
   goes away or storing its content fails. *)
Abandon(c) ==
  /\ calls[c] # Idle
  /\ calls' = [calls EXCEPT ![c] = Idle]
  /\ UNCHANGED <<versions, currentVersion, builds, attempts, objects, cleaning>>

-----------------------------------------------------------------------------
(* checkRevision: a succeeded build of exactly this revision, and content for
   every asset it requires. *)
ReadyToPublish(v, rev) ==
  /\ HasBuild(v, rev) /\ BuildOf(v, rev).status = "SUCCEEDED"
  /\ DeclarationsOf(versions[v].revs[rev]) \ OptionalAssets
       \subseteq DOMAIN versions[v].revs[rev].assets

(* versionAssets: every declared key the revision binds content to. *)
DeliveredAssets(rev) ==
  [k \in DOMAIN rev.assets \cap DeclarationsOf(rev) |-> rev.assets[k]]

(* Mutant: a revision changed meanwhile is taken for a version frozen already. *)
FreezeOutcomeTakesChangedForFrozen(v, rev) ==
  IF versions[v].status = "EXECUTABLE" \/ Current(v) # rev THEN "already_frozen"
  ELSE IF ~ReadyToPublish(v, rev) THEN "not_ready"
  ELSE "frozen"

(* FreezeVersion locks the game, reads the version and checks the revision;
   its row is not locked, so requests commit revisions meanwhile. *)
FreezeOutcome(v, rev) ==
  IF versions[v].status = "EXECUTABLE" THEN "already_frozen"
  ELSE IF Current(v) # rev \/ ~ReadyToPublish(v, rev) THEN "not_ready"
  ELSE "frozen"

(* The update finds the version by its status only. *)
FreezeCommits(v, rev, script) ==
  /\ versions[v].status = "DRAFT"
  /\ versions' = [versions EXCEPT ![v].status = "EXECUTABLE",
                                  ![v].script = script,
                                  ![v].delivered = DeliveredAssets(versions[v].revs[rev])]
  /\ currentVersion' = v

-----------------------------------------------------------------------------
(* Mutants of InUse: without the builds of DRAFTs, without their bindings. *)
InUseButBuilds(o) ==
  \E v \in Versions :
    \/ versions[v].script = o
    \/ o \in Range(versions[v].delivered)
    \/ /\ versions[v].status = "DRAFT"
       /\ \E rev \in Range(versions[v].revs) : o \in Range(rev.assets)
InUseButDrafts(o) ==
  \/ \E v \in Versions : versions[v].script = o \/ o \in Range(versions[v].delivered)
  \/ \E b \in DOMAIN builds : builds[b].script = o /\ versions[builds[b].version].status = "DRAFT"

(* Cleaning: an object registered long ago that no executable version and no
   DRAFT uses is deleted under its lock. A cleanup follows the publication of
   any game and looks at the objects of all of them, so that this game's may be
   cleaned at any time, several by several cleanups at once. *)
InUse(o) ==
  \/ \E v \in Versions :
       \/ versions[v].script = o
       \/ o \in Range(versions[v].delivered)
       \/ /\ versions[v].status = "DRAFT"
          /\ \E rev \in Range(versions[v].revs) : o \in Range(rev.assets)
  \/ \E b \in DOMAIN builds : builds[b].script = o /\ versions[builds[b].version].status = "DRAFT"

CleanUnusedObjects(o) ==
  /\ o \notin cleaning
  /\ ~objects[o].fresh /\ ~objects[o].deleted
  /\ ~InUse(o)
  /\ cleaning' = cleaning \cup {o}
  /\ UNCHANGED <<versions, currentVersion, builds, attempts, objects, calls>>

(* The content goes first; its record says so only if the transaction then
   commits. *)
DeleteUnused(o, marked) ==
  /\ o \in cleaning
  /\ objects' = [objects EXCEPT ![o].stored = FALSE, ![o].deleted = marked]
  /\ cleaning' = cleaning \ {o}
  /\ UNCHANGED <<versions, currentVersion, builds, attempts, calls>>

-----------------------------------------------------------------------------
DraftInit ==
  /\ versions = [v \in Versions |-> NoVersion]
  /\ currentVersion = Nothing
  /\ builds = <<>>
  /\ attempts = [i \in IdempotencyKeys |-> Nothing]
  /\ objects = NoFiles
  /\ calls = [c \in Callers |-> Idle]
  /\ cleaning = {}

(* What callers ask for. *)
DraftRequests ==
  \/ \E c \in Callers, v \in Versions, i \in IdempotencyKeys :
       \/ ApplyChanges(c, v, i) \/ RestoreRevision(c, v, i)
       \/ RemoveAsset(c, v, i) \/ UploadAsset(c, v, i)
  \/ \E c \in Callers : Abandon(c)

(* How requests under way go on. *)
DraftSteps ==
  \E c \in Callers :
    \/ CommitDecision(c) \/ CommitRevision(c) \/ LoseRace(c)
    \/ RegisterAsset(c) \/ StoreAsset(c) \/ AttachAsset(c)
=============================================================================
