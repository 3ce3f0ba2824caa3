---------------------------- MODULE SandboxHost ----------------------------
(***************************************************************************)
(* The sandbox Host (play/runtime/sandbox/host.go): the execution contexts *)
(* of one instance, a worker process each, and the calls made in them.     *)
(* Whoever runs a game owns its context and makes one call at a time: a    *)
(* Session's controller from its main goroutine, a simulation from its     *)
(* own.  `mirror' is the state its owner confirmed, the one it restores a  *)
(* new context at (liveconnection/execution.go).                           *)
(***************************************************************************)
EXTENDS SandboxWorker, FiniteSets

CONSTANTS
  ContextOwners,
  MaxContexts,      \* HostLimits.MaxContexts
  MaxExecutions,    \* HostLimits.MaxConcurrentExecutions
  NoWorker, NoMirror,
  MaxSteps,         \* bound of the model on a game's steps
  MaxSpawns         \* bound of the model on the workers ever started

ASSUME HostAssumption ==
  /\ IsFiniteSet(ContextOwners)
  /\ MaxContexts \in Nat /\ MaxExecutions \in Nat
  /\ NoWorker \notin Workers /\ NoMirror \notin Snapshots

VARIABLES
  process,       \* Owner -> their context's worker process, NoWorker once it exited
  contexts,      \* Owners whose context the Host holds
  spawning,      \* how many contexts are being created
  loadFailed,    \* Owners whose script failed to load
  calls,         \* Owner -> their call
  mirror,        \* Owner -> the state they confirmed
  closing,       \* Owners whose context Close took away and has still to stop
  spawns

hostVars == <<process, contexts, spawning, loadFailed, calls, mirror, closing, spawns>>

NoCall == [at |-> "none"]

\* The calls that hold an execution slot.
InFlight == {o \in ContextOwners : calls[o].at \in {"running", "asked", "answered"}}

Creating == {o \in ContextOwners : calls[o].at # "none" /\ calls[o].request.operation = "load"}

\* stopLocked: kills the worker and waits for it to exit, once.
Stopped(o) == [process EXCEPT ![o] = NoWorker]

Request(operation) == [operation |-> operation]

\* Mutant: the room for one more context, as though those being created took none.
HasRoomNow == Cardinality(contexts) < MaxContexts

\* Those being created already hold their capacity.
HasRoom == Cardinality(contexts) + spawning < MaxContexts

-----------------------------------------------------------------------------
\* CreateContext: the capacity is taken, a worker spawned and asked to load.
\* A worker that does not start gives the capacity back.
CreateContext(o) ==
  /\ calls[o] = NoCall /\ o \notin contexts /\ process[o] = NoWorker
  /\ HasRoom
  /\ spawns < MaxSpawns
  /\ spawns' = spawns + 1
  /\ spawning' = spawning + 1
  /\ loadFailed' = loadFailed \ {o}
  /\ process' = [process EXCEPT ![o] = NewWorker]
  /\ calls' = [calls EXCEPT ![o] = [at |-> "waiting", request |-> Request("load")]]
  /\ UNCHANGED <<contexts, mirror, closing>>

\* A request to a context the Host holds; a script that failed to load is
\* reported without asking the worker.
Ask(o, request) ==
  /\ calls[o] = NoCall /\ o \in contexts
  /\ request.operation \in {"start", "restore"} => o \notin loadFailed
  /\ calls' = [calls EXCEPT ![o] = [at |-> "waiting", request |-> request]]
  /\ UNCHANGED <<process, contexts, spawning, loadFailed, mirror, closing, spawns>>

\* What an owner asks: to start its game or to continue it where it left it,
\* then to execute batches and to project views.
IsNew(o) == process[o] # NoWorker => ~ process[o].started

AskStart(o) == mirror[o] = NoMirror /\ Ask(o, Request("start"))

AskRestore(o) ==
  /\ mirror[o] # NoMirror /\ IsNew(o)
  /\ Ask(o, [operation |-> "restore", snapshot |-> mirror[o]])

AskExecute(o, steps, fails) ==
  /\ mirror[o] # NoMirror /\ ~ IsNew(o)
  /\ mirror[o].state + steps <= MaxSteps
  /\ Ask(o, [operation |-> "execute", steps |-> steps, fails |-> fails])

AskProject(o) == mirror[o] # NoMirror /\ ~ IsNew(o) /\ Ask(o, Request("project"))

-----------------------------------------------------------------------------
\* Host.call: an execution slot is waited for; an owner that gives up leaves
\* the context as it was, unless it was being created.
TakeSlot(o) ==
  /\ calls[o].at = "waiting"
  /\ Cardinality(InFlight) < MaxExecutions
  /\ calls' = [calls EXCEPT ![o].at = "running"]
  /\ UNCHANGED <<process, contexts, spawning, loadFailed, mirror, closing, spawns>>

\* An owner gone while waiting; CreateContext stops what it spawned.
GiveUpWaiting(o) ==
  /\ calls[o].at = "waiting"
  /\ calls' = [calls EXCEPT ![o] =
       IF o \in Creating THEN [@ EXCEPT !.at = "failed"] ELSE NoCall]
  /\ UNCHANGED <<process, contexts, spawning, loadFailed, mirror, closing, spawns>>

\* The request is written; a stopped worker is an error instead.
Write(o) ==
  /\ calls[o].at = "running"
  /\ calls' = [calls EXCEPT ![o] =
       IF process[o] = NoWorker THEN [@ EXCEPT !.at = "failed"] ELSE [@ EXCEPT !.at = "asked"]]
  /\ UNCHANGED <<process, contexts, spawning, loadFailed, mirror, closing, spawns>>

WorkerAnswers(o, behaviour) ==
  /\ calls[o].at = "asked"
  /\ LET handled == Handle(process[o], calls[o].request, behaviour)
     IN /\ process' = [process EXCEPT ![o] = handled.worker]
        /\ calls' = [calls EXCEPT ![o] =
             [at |-> "answered", request |-> calls[o].request, answer |-> handled.answer]]
  /\ UNCHANGED <<contexts, spawning, loadFailed, mirror, closing, spawns>>

\* A creation that succeeded, script errors included, is registered; the
\* capacity it held while spawning is given back in a later step.
Succeeds(o, failedLoad) ==
  /\ calls' = [calls EXCEPT ![o] =
       IF o \in Creating THEN [at |-> "registered", request |-> @.request] ELSE NoCall]
  /\ contexts' = IF o \in Creating THEN contexts \cup {o} ELSE contexts
  /\ loadFailed' = IF failedLoad THEN loadFailed \cup {o} ELSE loadFailed

\* The owner confirms the state its game was started at or executed to.
Confirms(o, answer) ==
  mirror' = IF answer.kind = "succeeded" /\ calls[o].request.operation \in {"start", "execute"}
            THEN [mirror EXCEPT ![o] = answer.at] ELSE mirror

\* The answer is read in time.
TakeAnswer(o) ==
  /\ calls[o].at = "answered"
  /\ LET answer == calls[o].answer
     IN IF answer.kind = "fatal"
        THEN /\ process' = Stopped(o)
             /\ calls' = [calls EXCEPT ![o] = [at |-> "failed", request |-> @.request]]
             /\ UNCHANGED <<contexts, loadFailed, mirror>>
        ELSE /\ Succeeds(o, o \in Creating /\ answer.kind = "script_failed")
             /\ Confirms(o, answer)
             /\ UNCHANGED process
  /\ UNCHANGED <<spawning, closing, spawns>>

\* The owner gives up, or the worker exits: it is stopped, whatever it may
\* have done with the request.
Abandon(o) ==
  /\ calls[o].at \in {"asked", "answered"}
  /\ process' = Stopped(o)
  /\ calls' = [calls EXCEPT ![o] = [at |-> "failed", request |-> @.request]]
  /\ UNCHANGED <<contexts, spawning, loadFailed, mirror, closing, spawns>>

\* The budget runs out: the worker is stopped and the script is to blame; a
\* context whose script never finished loading exists, to report it.
ExceedBudget(o) ==
  /\ calls[o].at \in {"asked", "answered"}
  /\ process' = Stopped(o)
  /\ Succeeds(o, o \in Creating)
  /\ UNCHANGED <<spawning, mirror, closing, spawns>>

\* CreateContext returns, its capacity given back; a failed one stops the
\* worker first.
CreateReturns(o) ==
  /\ o \in Creating
  /\ calls[o].at \in {"registered", "failed"}
  /\ process' = IF calls[o].at = "failed" THEN Stopped(o) ELSE process
  /\ spawning' = spawning - 1
  /\ calls' = [calls EXCEPT ![o] = NoCall]
  /\ UNCHANGED <<contexts, loadFailed, mirror, closing, spawns>>

CallFails(o) ==
  /\ calls[o].at = "failed" /\ o \notin Creating
  /\ calls' = [calls EXCEPT ![o] = NoCall]
  /\ UNCHANGED <<process, contexts, spawning, loadFailed, mirror, closing, spawns>>

-----------------------------------------------------------------------------
\* DiscardContext: forgotten first, its worker stopped next.  An owner
\* discards on every failure, and when its game is idle or over.
DiscardContext(o) ==
  /\ calls[o] = NoCall /\ o \in contexts
  /\ contexts' = contexts \ {o}
  /\ calls' = [calls EXCEPT ![o] = [at |-> "discarding", request |-> Request("discard")]]
  /\ UNCHANGED <<process, spawning, loadFailed, mirror, closing, spawns>>

StopDiscarded(o) ==
  /\ calls[o].at = "discarding"
  /\ process' = Stopped(o)
  /\ calls' = [calls EXCEPT ![o] = NoCall]
  /\ UNCHANGED <<contexts, spawning, loadFailed, mirror, closing, spawns>>

\* Close takes every context away and stops each worker, waiting for the call
\* it runs.
CloseHost ==
  /\ closing = {} /\ contexts # {}
  /\ closing' = contexts
  /\ contexts' = {}
  /\ UNCHANGED <<process, spawning, loadFailed, calls, mirror, spawns>>

StopClosed(o) ==
  /\ o \in closing
  /\ calls[o].at \notin {"asked", "answered"}
  /\ process' = Stopped(o)
  /\ closing' = closing \ {o}
  /\ UNCHANGED <<contexts, spawning, loadFailed, calls, mirror, spawns>>

-----------------------------------------------------------------------------
HostInit ==
  /\ process = [o \in ContextOwners |-> NoWorker]
  /\ contexts = {} /\ closing = {} /\ loadFailed = {}
  /\ spawning = 0 /\ spawns = 0
  /\ calls = [o \in ContextOwners |-> NoCall]
  /\ mirror = [o \in ContextOwners |-> NoMirror]

HostNext ==
  \/ \E o \in ContextOwners :
       \/ CreateContext(o) \/ AskStart(o) \/ AskRestore(o) \/ AskProject(o)
       \/ \E steps \in 1..2, fails \in 1..2 : fails <= steps /\ AskExecute(o, steps, fails)
       \/ TakeSlot(o) \/ GiveUpWaiting(o) \/ Write(o)
       \/ \E behaviour \in Behaviours : WorkerAnswers(o, behaviour)
       \/ TakeAnswer(o) \/ Abandon(o) \/ ExceedBudget(o)
       \/ CreateReturns(o) \/ CallFails(o)
       \/ DiscardContext(o) \/ StopDiscarded(o) \/ StopClosed(o)
  \/ CloseHost

-----------------------------------------------------------------------------
\* The Host never runs more workers than it may, those being created
\* included, besides the ones it is stopping, nor more calls than it has
\* slots for; and it loses none: a worker that runs belongs to a context it
\* holds, to one being created or to one being stopped.
WorkersWithinLimit ==
  LET running == {o \in ContextOwners : process[o] # NoWorker}
      stopping == closing \cup {o \in ContextOwners : calls[o].at = "discarding"}
  IN /\ Cardinality(running \ stopping) <= MaxContexts
     /\ Cardinality(InFlight) <= MaxExecutions
     /\ running \subseteq contexts \cup Creating \cup stopping

\* A context that can still execute continues from the state its owner
\* confirmed, the state of its randomness included: whatever was abandoned,
\* failed or half executed in between.
ContextsContinueWhatWasConfirmed ==
  \A o \in ContextOwners :
    calls[o] = NoCall /\ process[o] # NoWorker =>
      LET w == process[o]
      IN w.started /\ ~ w.broken => mirror[o] # NoMirror /\ w.at = mirror[o]

\* The Host's promise to its owners: within its limits, losing no worker, and
\* never continuing from what was not confirmed.
ContextsHold == WorkersWithinLimit /\ ContextsContinueWhatWasConfirmed
=============================================================================
