---------------------------- MODULE GameTimeline ----------------------------
(***************************************************************************)
(* The timeline of one running game (play/runtime/workflows/liveconnection *)
(* and boundaryplan): what players send becomes operations in acceptance   *)
(* order, a boundary takes them and runs them in the sandbox without the   *)
(* controller's lock, and commits or puts them back.  Samples are numbered *)
(* by connection and acknowledged, commands run once per token, the game   *)
(* is checkpointed and recovered.  A preview is the same controller with   *)
(* one connection that plays each participant in turn, pauses and never    *)
(* recovers.  Who is present and who left is LiveSession's.                *)
(***************************************************************************)
EXTENDS Integers, Sequences, FiniteSets, SequencesExt

CONSTANTS
  Participants, Tokens,
  Snapshots, Default,    \* normalized input snapshots and the defaults
  Nil,
  Keep,                  \* processedTokens: executed tokens remembered
  PendingCommands,       \* a participant's commands waiting at once
  PendingPerParticipant, PendingPerSession,
  BoundaryOperations,    \* operations one boundary takes
  MaxInfraFailures,      \* failed boundaries in a row that abort
  MaxSequence, MaxConnections, MaxRevision, MaxTime \* bounds of the model

ASSUME TimelineAssumption ==
  /\ Default \in Snapshots
  /\ Keep \in Nat \ {0} /\ BoundaryOperations \in Nat \ {0} /\ MaxInfraFailures \in Nat \ {0}

VARIABLES
  phase,     \* "running", "finishing", "ended" or "down"
  preview,   \* whether this is a preview
  hasUpdate, \* whether the game declares update()
  paused,
  now,       \* the Session time
  game,      \* the mirror: the confirmed state
  ingress,   \* each participant's SAMPLE ingress
  commands,  \* each participant's tokens: pending, and executed, oldest first
  timeline,  \* operations accepted and not taken
  work,      \* the boundary being executed
  context,   \* the game as the sandbox context holds it, or Nil
  failures,  \* boundaries that failed in a row
  players,   \* the connection playing each participant, 0 if none
  connections, \* how many connections there were
  offered,   \* the checkpoint waiting to be written, or Nil
  saved,     \* the durable checkpoint
  resumed    \* participants recovered whose inputs did not change since

timelineVars == <<phase, preview, hasUpdate, paused, now, game, ingress, commands, timeline, work,
                  context, failures, players, connections, offered, saved, resumed>>

Larger(a, b) == IF a >= b THEN a ELSE b

SampleOf(p, inputs, connection, sequence) ==
  [participant |-> p, inputs |-> inputs, token |-> Nil, stream |-> connection,
   sequence |-> sequence, at |-> now, fromPlayer |-> TRUE]
CommandOf(p, token) ==
  [participant |-> p, inputs |-> Nil, token |-> token, stream |-> 0,
   sequence |-> 0, at |-> now, fromPlayer |-> TRUE]
ResetOf(p) == [SampleOf(p, Default, 0, 0) EXCEPT !.fromPlayer = FALSE]

RunsAlone(op) == op.token # Nil

(* What the script does with an operation: it runs commands and keeps inputs. *)
RunOperation(state, op) ==
  IF RunsAlone(op) THEN [state EXCEPT !.log[op.participant] = Append(@, op.token)]
  ELSE [state EXCEPT !.inputs[op.participant] = op.inputs]
Run(state, ops) == FoldLeft(RunOperation, state, ops)

Unfinished == work.ops \o timeline

-----------------------------------------------------------------------------
(* boundaryplan. *)
Plan(pending, at, through) ==
  LET split == Len(pending) > BoundaryOperations
      taken == IF split THEN BoundaryOperations ELSE Len(pending)
      update == hasUpdate /\ ~split
      last == pending[taken]
      time == IF taken = 0 THEN Larger(at, through)
              ELSE IF split \/ (RunsAlone(last) /\ ~update) THEN Larger(last.at, through)
              ELSE Larger(Larger(at, through), last.at)
  IN [taken |-> taken, time |-> time, update |-> update]

(* Batch: adjacent transitions share a call, which ends at the last of them. *)
CallEnds(ops) ==
  {i \in DOMAIN ops : i = Len(ops) \/ RunsAlone(ops[i]) \/ RunsAlone(ops[i + 1])}
CallTime(w, i) ==
  IF RunsAlone(w.ops[i]) \/ i < Len(w.ops) \/ w.update THEN w.ops[i].at ELSE w.time
(* Calls run in order, never before what is confirmed. *)
RunsAt(w, i) ==
  LET times == {CallTime(w, j) : j \in {j \in CallEnds(w.ops) : j <= i}} \cup {w.base.through}
  IN CHOOSE t \in times : \A u \in times : u <= t

(* FinishedAt, for every call of the batch: what ran and until when. *)
FinishPoints(w) ==
  {[operations |-> i, time |-> RunsAt(w, i)] : i \in CallEnds(w.ops)}
    \cup (IF w.update THEN {[operations |-> Len(w.ops), time |-> w.time]} ELSE {})

-----------------------------------------------------------------------------
Pressed(p) == ingress[p].current # Default

(* resetInputs: a transition only if something is pressed. *)
ResetInputs(p) ==
  /\ timeline' = IF Pressed(p) THEN Append(timeline, ResetOf(p)) ELSE timeline
  /\ resumed' = IF Pressed(p) THEN resumed \ {p} ELSE resumed
Released(p) == [ingress EXCEPT ![p].current = Default]

(* follow: the connection numbers its own samples. *)
Follow(in, p, connection) ==
  [in EXCEPT ![p].stream = connection, ![p].accepted = 0, ![p].consumed = 0]

Queued(p) == Cardinality({i \in DOMAIN timeline : timeline[i].fromPlayer /\ timeline[i].participant = p})
QueuedTotal == Cardinality({i \in DOMAIN timeline : timeline[i].fromPlayer})
TimelineRoom(p) == Queued(p) < PendingPerParticipant /\ QueuedTotal < PendingPerSession
CommandRoom(p) == Cardinality(commands[p].pending) < PendingCommands /\ TimelineRoom(p)

Plays(p) == phase = "running" /\ ~paused /\ players[p] # 0

(* takeSample.  A stale sequence, and a transition without room or beyond its
   rate, change nothing. *)
AcceptSample(p, inputs, sequence) ==
  /\ Plays(p)
  /\ sequence > ingress[p].accepted
  /\ \/ /\ inputs = ingress[p].current
        /\ ingress' = [ingress EXCEPT ![p].accepted = sequence]
        /\ UNCHANGED <<timeline, resumed>>
     \/ /\ inputs # ingress[p].current /\ TimelineRoom(p)
        /\ ingress' = [ingress EXCEPT ![p].accepted = sequence, ![p].current = inputs]
        /\ timeline' = Append(timeline, SampleOf(p, inputs, ingress[p].stream, sequence))
        /\ resumed' = resumed \ {p}
  /\ UNCHANGED <<phase, preview, hasUpdate, paused, now, game, commands, work, context, failures, players,
                 connections, offered, saved>>

(* Mutant: only a command still waiting is taken for a retry. *)
FreshUnlessPending(p, token) == token \notin commands[p].pending

(* A retry waits for the pending command or learns that it was executed. *)
Fresh(p, token) == token \notin Range(commands[p].order) /\ token \notin commands[p].pending

(* runCommand. *)
RunCommand(p, token) ==
  /\ Plays(p)
  /\ Fresh(p, token)
  /\ CommandRoom(p)
  /\ commands' = [commands EXCEPT ![p].pending = @ \cup {token}]
  /\ timeline' = Append(timeline, CommandOf(p, token))
  /\ UNCHANGED <<phase, preview, hasUpdate, paused, now, game, ingress, work, context, failures, players,
                 connections, offered, saved, resumed>>

(* A player's transport goes, or the owner of a preview disconnects. *)
Detach(p) ==
  /\ phase = "running" /\ players[p] # 0
  /\ ResetInputs(p)
  /\ ingress' = Released(p)
  /\ players' = [players EXCEPT ![p] = 0]
  /\ UNCHANGED <<phase, preview, hasUpdate, paused, now, game, commands, work, context, failures,
                 connections, offered, saved>>

NewConnection ==
  /\ phase = "running" /\ connections < MaxConnections
  /\ connections' = connections + 1
  /\ UNCHANGED <<phase, preview, hasUpdate, paused, now, game, commands, work, context, failures, offered, saved>>

(* reattachPlayer: an older connection is replaced and its inputs let go. *)
ReattachPlayer(p) ==
  /\ ~preview
  /\ NewConnection
  /\ ResetInputs(p)
  /\ ingress' = Follow(Released(p), p, connections + 1)
  /\ players' = [players EXCEPT ![p] = connections + 1]

(* attachPreview: as the participant last acted as, whose inputs stay. *)
ConnectPreview(p) ==
  /\ preview
  /\ \A q \in Participants \ {p} : players[q] = 0
  /\ NewConnection
  /\ ingress' = Follow(ingress, p, connections + 1)
  /\ players' = [players EXCEPT ![p] = connections + 1]
  /\ UNCHANGED <<timeline, resumed>>

(* actAs: the connection goes over to another participant, lets go of what it
   pressed for the one before, and numbers its samples from the start. *)
ActAs(p, q) ==
  /\ preview /\ phase = "running" /\ players[p] # 0
  /\ IF p = q
     THEN /\ ingress' = Follow(ingress, q, players[p])
          /\ UNCHANGED <<timeline, resumed>>
     ELSE /\ ResetInputs(p)
          /\ ingress' = Follow(Released(p), q, players[p])
  /\ players' = [players EXCEPT ![p] = 0, ![q] = players[p]]
  /\ UNCHANGED <<phase, preview, hasUpdate, paused, now, game, commands, work, context, failures,
                 connections, offered, saved>>

(* pausePreview: Session time stands still meanwhile. *)
PausePreview(p) ==
  /\ preview /\ phase = "running" /\ players[p] # 0
  /\ paused' = ~paused
  /\ UNCHANGED <<phase, preview, hasUpdate, now, game, ingress, commands, timeline, work, context, failures,
                 players, connections, offered, saved, resumed>>

Tick ==
  /\ phase = "running" /\ ~paused /\ now < MaxTime
  /\ now' = now + 1
  /\ UNCHANGED <<phase, preview, hasUpdate, paused, game, ingress, commands, timeline, work, context, failures,
                 players, connections, offered, saved, resumed>>

-----------------------------------------------------------------------------
NoWork == [at |-> "idle", ops |-> <<>>]

(* Mutant: everything accepted, whatever was left for the next boundary. *)
AckAllAccepted(p, taken, rest) == ingress[p].accepted

(* ackThrough: everything accepted, unless a sample of the same connection is
   left for the next boundary. *)
AckThrough(p, taken, rest) ==
  LET mine(ops) == {ops[i].sequence : i \in {i \in DOMAIN ops :
                      ops[i].participant = p /\ ops[i].stream = ingress[p].stream /\ ops[i].sequence > 0}}
      through == mine(taken) \cup {ingress[p].consumed}
  IN IF mine(rest) = {} THEN ingress[p].accepted
     ELSE CHOOSE n \in through : \A m \in through : m <= n

TakeBoundary ==
  /\ phase = "running" /\ ~paused /\ work = NoWork
  /\ LET plan == Plan(timeline, now, game.through)
         taken == SubSeq(timeline, 1, plan.taken)
         rest == SubSeq(timeline, plan.taken + 1, Len(timeline))
     IN /\ timeline' = rest
        /\ work' = [at |-> "executing", ops |-> taken, time |-> plan.time, update |-> plan.update,
                    base |-> game, run |-> 1,
                    acks |-> [p \in Participants |->
                       [stream |-> ingress[p].stream, through |-> AckThrough(p, taken, rest)]]]
  /\ UNCHANGED <<phase, preview, hasUpdate, paused, now, game, ingress, commands, context, failures, players,
                 connections, offered, saved, resumed>>

(* acknowledge: a connection that took over since numbers its samples anew. *)
Acknowledged(acks) ==
  [p \in Participants |->
     IF ingress[p].stream = acks[p].stream THEN [ingress[p] EXCEPT !.consumed = acks[p].through]
     ELSE ingress[p]]

(* Only refreshes arrived: nothing runs. *)
AcknowledgeOnly ==
  /\ phase = "running" /\ work.at = "executing" /\ work.ops = <<>> /\ ~work.update
  /\ ingress' = Acknowledged(work.acks)
  /\ work' = NoWork
  /\ UNCHANGED <<phase, preview, hasUpdate, paused, now, game, commands, timeline, context, failures, players,
                 connections, offered, saved, resumed>>

Executing == work.at = "executing" /\ (work.ops # <<>> \/ work.update)

(* restoreContext: a game without a context gets one at the boundary's base. *)
RestoreContext ==
  /\ Executing /\ context = Nil
  /\ context' = work.base
  /\ UNCHANGED <<phase, preview, hasUpdate, paused, now, game, ingress, commands, timeline, work, failures,
                 players, connections, offered, saved, resumed>>

(* remember: the latest tokens executed, each once. *)
Remember(order, token) ==
  IF token \in Range(order) THEN order
  ELSE LET longer == Append(order, token)
       IN SubSeq(longer, Len(longer) + 1 - (IF Len(longer) > Keep THEN Keep ELSE Len(longer)),
                 Len(longer))

(* executed: the command's token moves from pending to those executed. *)
Executed(tokens, ops) ==
  FoldLeft(LAMBDA all, op :
             IF ~RunsAlone(op) THEN all
             ELSE [all EXCEPT ![op.participant] =
                     [pending |-> @.pending \ {op.token}, order |-> Remember(@.order, op.token)]],
           tokens, ops)

Checkpoint(state, tokens) ==
  [game |-> state, order |-> [p \in Participants |-> tokens[p].order]]

(* The batch runs in the context and commits over the mirror; a batch that
   finished the game keeps only what it reached. *)
CommitBoundary ==
  /\ phase = "running" /\ Executing /\ context # Nil
  /\ context.revision = work.base.revision
  /\ game.revision = work.base.revision
  /\ game.revision < MaxRevision
  /\ failures' = 0
  /\ work' = NoWork
  /\ \E point \in FinishPoints(work) \cup
                  {[operations |-> Len(work.ops), time |-> work.time]}, finished \in BOOLEAN :
       /\ finished => point \in FinishPoints(work)
       /\ ~finished => point = [operations |-> Len(work.ops), time |-> work.time]
       /\ LET ops == SubSeq(work.ops, 1, point.operations)
              next == [Run(context, ops) EXCEPT !.revision = @ + 1, !.through = point.time]
              tokens == Executed(commands, ops)
          IN /\ game' = next
             /\ context' = next
             /\ commands' = tokens
             /\ phase' = IF finished THEN "finishing" ELSE "running"
             /\ ingress' = IF finished THEN ingress ELSE Acknowledged(work.acks)
             /\ \/ UNCHANGED offered
                \/ ~finished /\ ~preview /\ offered' = Checkpoint(next, tokens)
  /\ UNCHANGED <<preview, hasUpdate, paused, now, timeline, players, connections, saved, resumed>>

(* requeue: ahead of what was accepted since. *)
Requeued(ops) == ops \o timeline

(* end: commands still waiting are answered as not running, the context and
   the connections go. *)
Abandoned == [p \in Participants |-> [commands[p] EXCEPT !.pending = {}]]
Ends ==
  /\ phase' = "ended"
  /\ commands' = Abandoned
  /\ timeline' = <<>> /\ work' = NoWork /\ context' = Nil
  /\ players' = [p \in Participants |-> 0]
  /\ UNCHANGED <<preview, hasUpdate, paused, now, game, ingress, failures, connections, offered, saved, resumed>>

(* A failure of the sandbox or the script: the context goes, and the batch
   runs once more in a restored one. *)
AttemptFails ==
  /\ Executing /\ context # Nil /\ work.run = 1
  /\ context' = Nil
  /\ work' = [work EXCEPT !.run = 2]
  /\ UNCHANGED <<phase, preview, hasUpdate, paused, now, game, ingress, commands, timeline, failures, players,
                 connections, offered, saved, resumed>>

(* It fails again, or no context could be restored: the operations wait for
   the next boundary, until too many failed. *)
BoundaryFails ==
  /\ phase = "running" /\ Executing
  /\ context = Nil \/ work.run = 2
  /\ \/ /\ failures + 1 < MaxInfraFailures
        /\ context' = Nil
        /\ work' = NoWork
        /\ failures' = failures + 1
        /\ timeline' = Requeued(work.ops)
        /\ UNCHANGED <<phase, preview, hasUpdate, paused, now, game, ingress, commands, players, connections,
                       offered, saved, resumed>>
     \/ /\ failures + 1 >= MaxInfraFailures
        /\ Ends

(* evictIdleContext, of a game without update(). *)
EvictIdleContext ==
  /\ phase = "running" /\ work = NoWork /\ ~hasUpdate /\ context # Nil
  /\ context' = Nil
  /\ UNCHANGED <<phase, preview, hasUpdate, paused, now, game, ingress, commands, timeline, work, failures,
                 players, connections, offered, saved, resumed>>

(* Whatever ends the game here: its finish, a script that failed twice, a
   deadline, a cancellation, another owner. *)
EndGame == phase \in {"running", "finishing"} /\ Ends

WriteCheckpoint ==
  /\ phase # "down" /\ offered # Nil
  /\ saved' = offered
  /\ offered' = Nil
  /\ UNCHANGED <<phase, preview, hasUpdate, paused, now, game, ingress, commands, timeline, work, context,
                 failures, players, connections, resumed>>

(* The instance stops; nothing of a preview is kept. *)
Crash ==
  /\ phase = "running" /\ ~preview
  /\ phase' = "down"
  /\ work' = NoWork /\ timeline' = <<>> /\ context' = Nil /\ offered' = Nil
  /\ failures' = 0
  /\ players' = [p \in Participants |-> 0]
  /\ commands' = Abandoned
  /\ UNCHANGED <<preview, hasUpdate, paused, now, game, ingress, connections, saved, resumed>>

FreshIngress == [stream |-> 0, accepted |-> 0, consumed |-> 0, current |-> Default]

(* completeStart of a resumed game. *)
RecoverGame ==
  /\ phase = "down"
  /\ phase' = "running"
  /\ game' = saved.game
  /\ context' = saved.game
  /\ now' = saved.game.through
  /\ commands' = [p \in Participants |-> [pending |-> {}, order |-> saved.order[p]]]
  /\ ingress' = [p \in Participants |-> FreshIngress]
  /\ resumed' = Participants
  /\ UNCHANGED <<preview, hasUpdate, paused, timeline, work, failures, players, connections, offered, saved>>

-----------------------------------------------------------------------------
(* A game that just started: every participant plays, or in a preview the
   owner has not attached yet. *)
StartedGame ==
  [revision |-> 0, through |-> 0, log |-> [p \in Participants |-> <<>>],
   inputs |-> [p \in Participants |-> Default]]

TimelineInit ==
  /\ phase = "running"
  /\ preview \in BOOLEAN /\ hasUpdate \in BOOLEAN
  /\ paused = FALSE
  /\ now = 0
  /\ game = StartedGame
  /\ ingress = [p \in Participants |-> FreshIngress]
  /\ commands = [p \in Participants |-> [pending |-> {}, order |-> <<>>]]
  /\ timeline = <<>>
  /\ work = NoWork
  /\ context = StartedGame
  /\ failures = 0
  /\ players = [p \in Participants |-> 0]
  /\ connections = 0
  /\ offered = Nil
  /\ saved = [game |-> StartedGame, order |-> [p \in Participants |-> <<>>]]
  /\ resumed = {}

PlayerSteps(p) ==
  \/ \E inputs \in Snapshots, sequence \in 1..MaxSequence : AcceptSample(p, inputs, sequence)
  \/ \E token \in Tokens : RunCommand(p, token)
  \/ Detach(p) \/ ReattachPlayer(p) \/ ConnectPreview(p) \/ PausePreview(p)
  \/ \E q \in Participants : ActAs(p, q)

BoundarySteps ==
  \/ TakeBoundary \/ AcknowledgeOnly \/ RestoreContext \/ CommitBoundary
  \/ AttemptFails \/ BoundaryFails \/ EvictIdleContext \/ EndGame

TimelineNext ==
  \/ \E p \in Participants : PlayerSteps(p)
  \/ BoundarySteps
  \/ Tick \/ WriteCheckpoint \/ Crash \/ RecoverGame

TimelineSpec == TimelineInit /\ [][TimelineNext]_timelineVars

-----------------------------------------------------------------------------
Queues(p, token) ==
  {i \in DOMAIN Unfinished : Unfinished[i].participant = p /\ Unfinished[i].token = token}

(* A token runs again only once Keep others were executed since, over
   retries, failed boundaries and recoveries; what the controller and the
   checkpoint remember is exactly the end of what the game ran; and a command
   is answered or waits in the timeline, once (runCommand, executed,
   abandonPending, requeue). *)
LatestOf(log) == SubSeq(log, Larger(1, Len(log) + 1 - Keep), Len(log))
CommandsRunOnce ==
  \A p \in Participants :
    /\ \A i, j \in DOMAIN game.log[p] :
         i < j /\ game.log[p][i] = game.log[p][j] => j - i > Keep
    /\ commands[p].order = LatestOf(game.log[p])
    /\ saved.order[p] = LatestOf(saved.game.log[p])
    /\ \A token \in Tokens :
         phase = "running" =>
           Cardinality(Queues(p, token)) = IF token \in commands[p].pending THEN 1 ELSE 0
    /\ phase \in {"ended", "down"} => commands[p].pending = {}

(* Running what is accepted leads the game to the inputs its players sent
   last, in the order and at the times they were accepted; the context holds
   the mirror; and a sample is acknowledged only once it was confirmed
   (enqueue, Plan, requeue, ackThrough, acknowledge).  A preview's connection
   that plays another participant numbers its samples again under the same
   stream, so its acknowledgements are left out. *)
InputsAgree ==
  phase = "running" =>
    /\ \A p \in Participants \ resumed :
         Run(game, Unfinished).inputs[p] = ingress[p].current
    /\ \A i \in DOMAIN Unfinished :
         /\ game.through <= Unfinished[i].at /\ Unfinished[i].at <= now
         /\ i > 1 => Unfinished[i - 1].at <= Unfinished[i].at
         /\ LET op == Unfinished[i]
                in == ingress[op.participant]
            IN ~preview /\ op.stream = in.stream /\ op.sequence > 0 => op.sequence > in.consumed
    /\ context \in {Nil, game}
    /\ game.through <= now

(* "Nobody is pressing anything" for a participant without a connection: once
   the timeline ran, the game has the defaults for them (resetInputs). *)
NobodyPressesForTheAbsent ==
  \A p \in Participants :
    phase = "running" /\ players[p] = 0 /\ (\A i \in DOMAIN Unfinished : Unfinished[i].participant # p)
      => game.inputs[p] = Default
=============================================================================
