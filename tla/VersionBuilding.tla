--------------------------- MODULE VersionBuilding ---------------------------
(***************************************************************************)
(* The building of DRAFT revisions (play/session/workflows/versionbuilding *)
(* and play/session/internal/gamebuild) by the workers of one instance,    *)
(* composed with the drafting that queues the builds.  The instance may    *)
(* stop at any point; starting again, it first puts back in the queue what *)
(* was running, unless that fails: its workers start all the same.         *)
(***************************************************************************)
EXTENDS VersionDrafting

CONSTANTS
  Workers,
  MaxFaults \* how often the instance stops or fails to record what became of a build

ASSUME VersionBuildingAssumption == MaxFaults \in Nat

VARIABLES
  workers, \* the build each worker runs
  up,      \* whether the instance runs
  faults,  \* how many faults there were
  lost     \* builds left running by a failure to record or to requeue them

buildVars == <<workers, up, faults, lost>>

Waiting == [at |-> "waiting"]

Queued == {b \in DOMAIN builds : builds[b].status = "QUEUED"}
Inputs(b) == versions[builds[b].version].revs[builds[b].revision]

(* FindReusable: the oldest succeeded build of the version with the same
   inputs. *)
Reusable(b) ==
  {r \in DOMAIN builds : /\ builds[r].version = builds[b].version
                         /\ builds[r].status = "SUCCEEDED"
                         /\ Inputs(r) = Inputs(b)}

(* ClaimOldest. *)
Claims(w, b) ==
  /\ up /\ workers[w] = Waiting
  /\ b \in Queued /\ \A other \in Queued : b <= other
  /\ builds' = [builds EXCEPT ![b].status = "RUNNING"]
  /\ UNCHANGED <<versions, currentVersion, attempts, objects, calls, cleaning, up>>

ClaimOldest(w) ==
  \E b \in Queued :
    /\ Claims(w, b)
    /\ workers' = [workers EXCEPT ![w] = [at |-> "running", build |-> b]]
    /\ UNCHANGED <<faults, lost>>

(* The claim commits and its answer is lost: nobody runs the build. *)
ClaimIsLost(w) ==
  \E b \in Queued :
    /\ Claims(w, b)
    /\ faults < MaxFaults
    /\ faults' = faults + 1
    /\ lost' = lost \cup {b}
    /\ UNCHANGED workers

Ends(w, status, script) ==
  workers' = [workers EXCEPT ![w] = [at |-> "ending", build |-> @.build,
                                     status |-> status, script |-> script]]

(* runBuild takes the artifacts of an earlier build with the same inputs. *)
ReuseBuild(w) ==
  /\ workers[w].at = "running"
  /\ Reusable(workers[w].build) # {}
  /\ LET r == CHOOSE r \in Reusable(workers[w].build) :
                \A other \in Reusable(workers[w].build) : r <= other
     IN Ends(w, "SUCCEEDED", builds[r].script)
  /\ UNCHANGED <<draftVars, up, faults, lost>>

(* Mutant: the platform's failure is logged, and the worker goes on. *)
BuildFailsUnrecorded(w) ==
  /\ workers[w].at \in {"running", "storing"}
  /\ workers[w].at = "running" => Reusable(workers[w].build) = {}
  /\ workers' = [workers EXCEPT ![w] = Waiting]
  /\ UNCHANGED <<draftVars, up, faults, lost>>

(* The sources do not build, the built script breaks its profile, or the
   toolchain or the store fails: the platform's failure is recorded too. *)
BuildFails(w) ==
  /\ workers[w].at \in {"running", "storing"}
  /\ workers[w].at = "running" => Reusable(workers[w].build) = {}
  /\ Ends(w, "FAILED", Nothing)
  /\ UNCHANGED <<draftVars, up, faults, lost>>

(* storeArtifacts: registered first, in a transaction of its own. *)
RegisterArtifacts(w) ==
  /\ workers[w].at = "running"
  /\ Reusable(workers[w].build) = {}
  /\ LET script == Script(Inputs(workers[w].build).files) IN
     /\ script \notin cleaning
     /\ objects' = Register(script)
     /\ workers' = [workers EXCEPT ![w] = [at |-> "storing", build |-> @.build, script |-> script]]
  /\ UNCHANGED <<versions, currentVersion, builds, attempts, calls, cleaning, up, faults, lost>>

StoreArtifacts(w) ==
  /\ workers[w].at = "storing"
  /\ objects' = PutObject(workers[w].script)
  /\ Ends(w, "SUCCEEDED", workers[w].script)
  /\ UNCHANGED <<versions, currentVersion, builds, attempts, calls, cleaning, up, faults, lost>>

(* FinishBuild writes the end once, over a build still running. *)
FinishBuild(w) ==
  /\ workers[w].at = "ending"
  /\ LET b == workers[w].build IN
     builds' = IF builds[b].status # "RUNNING" THEN builds
               ELSE [builds EXCEPT ![b].status = workers[w].status,
                                   ![b].script = workers[w].script]
  /\ workers' = [workers EXCEPT ![w] = Waiting]
  /\ UNCHANGED <<versions, currentVersion, attempts, objects, calls, cleaning, up, faults, lost>>

(* The transaction that records the end fails: the worker goes on, and the
   build stays running until the instance starts again and requeues it. *)
FinishIsLost(w) ==
  /\ workers[w].at = "ending"
  /\ faults < MaxFaults
  /\ faults' = faults + 1
  /\ lost' = lost \cup {workers[w].build}
  /\ workers' = [workers EXCEPT ![w] = Waiting]
  /\ UNCHANGED <<draftVars, up>>

(* The instance stops with everything it was doing. *)
Crash ==
  /\ up /\ faults < MaxFaults
  /\ up' = FALSE
  /\ faults' = faults + 1
  /\ workers' = [w \in Workers |-> Waiting]
  /\ calls' = [c \in Callers |-> Idle]
  /\ cleaning' = {}
  /\ UNCHANGED <<versions, currentVersion, builds, attempts, objects, lost>>

RunningBuilds == {b \in DOMAIN builds : builds[b].status = "RUNNING"}
RequeueAll == [b \in DOMAIN builds |->
                 IF b \in RunningBuilds THEN [builds[b] EXCEPT !.status = "QUEUED"] ELSE builds[b]]

(* Mutant: beside the workers, which may have started. *)
RequeueBesideWorkers ==
  /\ RunningBuilds # {}
  /\ up' = TRUE
  /\ builds' = RequeueAll
  /\ lost' = {}
  /\ UNCHANGED <<versions, currentVersion, attempts, objects, calls, cleaning, workers, faults>>

(* Run: RequeueInterrupted, before any worker starts. *)
RequeueInterrupted ==
  /\ ~up
  /\ up' = TRUE
  /\ builds' = RequeueAll
  /\ lost' = {}
  /\ UNCHANGED <<versions, currentVersion, attempts, objects, calls, cleaning, workers, faults>>

(* Its failure is logged and the workers start: what was running stays so,
   with no worker, until a later start requeues it. *)
RequeueFails ==
  /\ ~up
  /\ up' = TRUE
  /\ lost' = RunningBuilds
  /\ UNCHANGED <<draftVars, workers, faults>>

(* What uploads and builds are storing right now. *)
BeingStored ==
  {calls[c].req.blob : c \in {c \in Uploading : calls[c].at # "register"}}
    \cup {workers[w].script : w \in {w \in Workers : workers[w].at \in {"storing", "ending"}}}

(* cleanupSettle passes, which outlasts every upload and build: only what is
   being stored right now is still too fresh to clean. *)
Settle ==
  /\ \E o \in DOMAIN objects \ BeingStored : objects[o].fresh
  /\ objects' = [o \in DOMAIN objects |->
                   [objects[o] EXCEPT !.fresh = @ /\ o \in BeingStored]]
  /\ UNCHANGED <<versions, currentVersion, builds, attempts, calls, cleaning, workers, up, faults, lost>>

-----------------------------------------------------------------------------
BuildInit ==
  /\ workers = [w \in Workers |-> Waiting]
  /\ up = TRUE
  /\ faults = 0
  /\ lost = {}

WorkerSteps(w) ==
  \/ ClaimOldest(w) \/ ReuseBuild(w) \/ BuildFails(w)
  \/ RegisterArtifacts(w) \/ StoreArtifacts(w) \/ FinishBuild(w)

BuildNext ==
  \/ \E w \in Workers : WorkerSteps(w) \/ ClaimIsLost(w) \/ FinishIsLost(w)
  \/ Crash \/ RequeueInterrupted \/ RequeueFails \/ Settle
=============================================================================
