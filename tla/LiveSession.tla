---------------------------- MODULE LiveSession ----------------------------
(***************************************************************************)
(* One live Session on the instance that owns it: the sessionController of *)
(* play/runtime/workflows/liveconnection with its players' connections,    *)
(* its main goroutine, and the durable Session it starts, checkpoints,     *)
(* recovers and ends.                                                      *)
(*                                                                         *)
(* A player's calls run on their own goroutines and change the state under *)
(* the controller's lock; the main goroutine ("the lane") runs Start       *)
(* attempts, recoveries, boundaries and ends, releasing the lock around    *)
(* every call to the sandbox and the database. One action here is one      *)
(* critical section, or one call outside the lock.                         *)
(*                                                                         *)
(* Of the timeline only what concerns presence is kept: disconnections and *)
(* rejoins. The game is the set of participants it believes are gone.      *)
(***************************************************************************)
EXTENDS Integers, FiniteSets, Sequences, SequencesExt, SessionStatus

CONSTANTS
  Users,
  NoUser,              \* whose a connection not attempted yet is
  MaxConns,            \* how many connections may ever be attempted
  MaxPlayers,          \* of the game's manifest
  RejoinDeclared,      \* the manifest declares playerRejoined()
  BoundaryOperations,  \* most operations one boundary takes
  AskedCauses,         \* why the Session may be asked to end
  MaxStarts,           \* bound of the Start requests
  MaxFaults            \* bound of failed calls, crashes and outside ends

ASSUME LiveSessionAssumption ==
  /\ IsFiniteSet(Users)
  /\ NoUser \notin Users
  /\ MaxConns \in Nat
  /\ MaxPlayers \in Nat \ {0}
  /\ RejoinDeclared \in BOOLEAN
  /\ BoundaryOperations \in Nat \ {0}
  /\ AskedCauses \subseteq {"HOST_CANCELLED", "PLATFORM_TERMINATED",
                            "LOBBY_EXPIRED", "INACTIVITY_TIMEOUT", "MAX_LIFETIME"}
  /\ MaxStarts \in Nat
  /\ MaxFaults \in Nat

VARIABLES
  db,            \* the durable Session: status, cause, roster, checkpoint
  phase,
  lobby,         \* users in the lobby
  players,       \* each user's current connection, 0 for none
  participants,  \* who plays, or is frozen by the Start attempt
  presence,      \* whether each participant still plays
  timeline,      \* operations accepted and not yet taken by a boundary
  rejoins,       \* users whose request to come back waits for the game
  gone,          \* participants the game was told stopped playing
  lane,          \* what the main goroutine is doing
  offered,       \* the checkpoint waiting to be written
  conn,          \* each connection: whose it is and where its calls are
  starts, faults,
  slipped,       \* connections whose end came after the attempt that froze them
  stale          \* users the game was asked about while they were playing

durable == <<db, offered>>
live    == <<phase, lobby, players, participants, presence, timeline, rejoins, gone>>
bounds  == <<starts, faults>>
history == <<slipped, stale>>
vars    == <<durable, live, lane, conn, bounds, history>>

Conns  == 1..MaxConns
NoConn == 0
Phase  == {"lobby", "starting", "running", "finishing", "ended"}

\* A connection whose ended channel is not closed; "leaving" waits for a Start
\* attempt to settle, the last two are between their critical section and end().
OpenAt == {"open", "leaving", "closing", "closingFrozen"}
\* Where attaching a connection is, before it is admitted.
AttachAt == {"checking", "eligible", "recovering", "recovered", "reattaching",
             "asking", "rejoining", "accepted"}
\* "told" is one told the durable ending, "replaced" one whose Leave and
\* Disconnect may still arrive; why any other was refused or ended makes no
\* difference here.
ClosedAt == {"unused", "closed", "told", "replaced"}

Operation == [kind: {"disconnected", "rejoin"}, user: Users]
Timeline  == Seq(Operation)

Snapshot  == [gone: SUBSET Users, disconnected: SUBSET Users]
NoOffer   == [none |-> TRUE]

Lane == [at: {"idle", "checking", "scripting", "committing", "limits", "loading",
              "completing", "cancelling", "executing", "committed", "deciding",
              "ending", "telling", "endFailed"},
         for: Conns \cup {NoConn}, answer: {"recovered", "closed"},
         roster: SUBSET Users, resumed: SUBSET Users,
         work: Timeline, cause: EndCause \cup {NoCause}]
IdleLane == [at |-> "idle", for |-> NoConn, answer |-> "closed", roster |-> {},
             resumed |-> {}, work |-> <<>>, cause |-> NoCause]

TypeOK ==
  /\ db \in [status: Status, cause: EndCause \cup {NoCause}, roster: SUBSET Users,
             gone: SUBSET Users, disconnected: SUBSET Users]
  /\ offered \in Snapshot \cup {NoOffer}
  /\ phase \in Phase
  /\ lobby \subseteq Users
  /\ players \in [Users -> Conns \cup {NoConn}]
  /\ participants \subseteq Users
  /\ presence \in [Users -> {"none", "attached", "awaiting", "disconnected"}]
  /\ timeline \in Timeline
  /\ rejoins \subseteq Users
  /\ gone \subseteq Users
  /\ lane \in Lane
  /\ conn \in [Conns -> [user: Users \cup {NoUser}, at: OpenAt \cup AttachAt \cup ClosedAt]]
  /\ starts \in 0..MaxStarts
  /\ faults \in 0..MaxFaults
  /\ slipped \subseteq Conns
  /\ stale \subseteq Users

\* A controller as newSessionController makes it.
FreshController ==
  /\ phase' = "lobby"
  /\ lobby' = {}
  /\ players' = [u \in Users |-> NoConn]
  /\ participants' = {}
  /\ presence' = [u \in Users |-> "none"]
  /\ timeline' = <<>>
  /\ rejoins' = {}
  /\ gone' = {}
  /\ lane' = IdleLane
  /\ offered' = NoOffer

Init ==
  /\ db = [status |-> Lobby, cause |-> NoCause, roster |-> {}, gone |-> {},
           disconnected |-> {}]
  /\ offered = NoOffer
  /\ phase = "lobby"
  /\ lobby = {}
  /\ players = [u \in Users |-> NoConn]
  /\ participants = {}
  /\ presence = [u \in Users |-> "none"]
  /\ timeline = <<>>
  /\ rejoins = {}
  /\ gone = {}
  /\ lane = IdleLane
  /\ conn = [c \in Conns |-> [user |-> NoUser, at |-> "unused"]]
  /\ starts = 0
  /\ faults = 0
  /\ slipped = {}
  /\ stale = {}

(***************************************************************************)
(* What the actions below share.                                           *)
(***************************************************************************)
\* isEnded is false.
IsOpen(c)       == c # NoConn /\ conn[c].at \in OpenAt
PlaysHere(u)    == phase = "running" /\ u \in participants
IsCurrent(c)    == \E u \in Users : players[u] = c
Fault           == faults < MaxFaults /\ faults' = faults + 1

MoveTo(c, at) == conn' = [conn EXCEPT ![c].at = at]
\* The same, and older ends as replaced; only its first end counts.
MoveReplacing(c, at, older) ==
  conn' = [d \in Conns |->
    IF d = c THEN [conn[d] EXCEPT !.at = at]
    ELSE IF d = older /\ IsOpen(d)
    THEN [conn[d] EXCEPT !.at = IF @ \in {"open", "leaving"} THEN "replaced" ELSE "closed"]
    ELSE conn[d]]

DisconnectedOp(u) == [kind |-> "disconnected", user |-> u]
RejoinOp(u)       == [kind |-> "rejoin", user |-> u]
Waits(ops, op)    == \E i \in DOMAIN ops : ops[i] = op

\* Mutant: whatever connection of the user is the current one.
LeaveLobbyWhoever(c) ==
  /\ players' = [players EXCEPT ![conn[c].user] = NoConn]
  /\ lobby'   = lobby \ {conn[c].user}
  /\ UNCHANGED <<phase, participants, presence, timeline, rejoins, gone>>

\* leaveLobby: nothing if a newer connection of the same user replaced c.
LeaveLobby(c) ==
  /\ players' = IF IsCurrent(c) THEN [players EXCEPT ![conn[c].user] = NoConn] ELSE players
  /\ lobby'   = IF IsCurrent(c) THEN lobby \ {conn[c].user} ELSE lobby
  /\ UNCHANGED <<phase, participants, presence, timeline, rejoins, gone>>

\* Mutant: the pending rejoins are dropped unanswered.
RejoinsForgotten == {}
\* end answers every pending rejoin that the game does not run anymore.
RejoinsAbandoned == {c \in Conns : conn[c].at = "rejoining"}

\* end: the live Session is over, its open connections told at (the durable
\* ending, or nothing).
End(at, answered) ==
  /\ phase' = "ended"
  /\ lobby' = {}
  /\ players' = [u \in Users |-> NoConn]
  /\ timeline' = <<>>
  /\ rejoins' = {}
  /\ conn' = [c \in Conns |->
       IF IsCurrent(c) /\ IsOpen(c) THEN [conn[c] EXCEPT !.at = at]
       ELSE IF c \in RejoinsAbandoned \cup answered THEN [conn[c] EXCEPT !.at = "closed"]
       ELSE conn[c]]
  /\ UNCHANGED <<participants, presence, gone>>

(***************************************************************************)
(* Attaching a player's connection: attachPlayer.                          *)
(***************************************************************************)
\* A participant of the game running here skips the durable check.
Connect(c, u) ==
  /\ conn[c].at = "unused"
  /\ \A d \in Conns : d < c => conn[d].at # "unused"
  /\ conn' = [conn EXCEPT ![c] =
       [user |-> u, at |-> IF PlaysHere(u) THEN "reattaching" ELSE "checking"]]
  /\ UNCHANGED <<durable, live, lane, bounds, history>>

\* EligibleToJoinAsPlayer. A lobby that expired though nothing recorded it yet,
\* a device that cannot play the game and a failed call are refused too.
CheckEligibility(c) ==
  /\ conn[c].at = "checking"
  /\ \/ db.status = Lobby   /\ MoveTo(c, "eligible")
     \/ db.status = Running /\ MoveTo(c, "recovering")
     \/ MoveTo(c, "closed")
  /\ UNCHANGED <<durable, live, lane, bounds, history>>

\* joinLobby: a user's newer connection replaces their older one.
JoinLobby(c) ==
  LET u == conn[c].user
      replaces == players[u] # NoConn
      admitted == phase = "lobby" /\ (replaces \/ Cardinality(lobby) < MaxPlayers)
  IN
  /\ conn[c].at = "eligible"
  /\ IF admitted
     THEN /\ MoveReplacing(c, "open", players[u])
          /\ players' = [players EXCEPT ![u] = c]
          /\ lobby' = lobby \cup {u}
     ELSE /\ MoveTo(c, "closed")
          /\ UNCHANGED <<players, lobby>>
  /\ UNCHANGED <<phase, participants, presence, timeline, rejoins, gone,
                 durable, lane, bounds, history>>

\* The game already runs here, or the Session ended here: no need of the lane.
RecoveryNotNeeded(c) ==
  /\ conn[c].at = "recovering"
  /\ lane.for # c
  /\ \/ phase = "running" /\ MoveTo(c, "recovered")
     \/ phase = "ended"   /\ MoveTo(c, "closed")
  /\ UNCHANGED <<durable, live, lane, bounds, history>>

\* reattachPlayer, and what attachParticipant does with its answer.
Reattach(c) ==
  LET u == conn[c].user IN
  /\ conn[c].at \in {"reattaching", "recovered", "accepted"}
  /\ \/ /\ ~PlaysHere(u)
        /\ MoveTo(c, IF conn[c].at = "reattaching" THEN "checking" ELSE "closed")
        /\ UNCHANGED live
     \/ /\ PlaysHere(u)
        /\ presence[u] = "disconnected"
        /\ MoveTo(c, IF conn[c].at = "accepted" THEN "closed" ELSE "asking")
        /\ UNCHANGED live
     \/ /\ PlaysHere(u)
        /\ presence[u] # "disconnected"
        /\ MoveReplacing(c, "open", players[u])
        /\ players'  = [players EXCEPT ![u] = c]
        /\ presence' = [presence EXCEPT ![u] = "attached"]
        /\ UNCHANGED <<phase, lobby, participants, timeline, rejoins, gone>>
  /\ UNCHANGED <<durable, lane, bounds, history>>

\* rejoin: requests of the same participant while one waits share it.
AskRejoin(c) ==
  LET u == conn[c].user IN
  /\ conn[c].at = "asking"
  /\ IF PlaysHere(u) /\ RejoinDeclared
     THEN /\ MoveTo(c, "rejoining")
          /\ rejoins'  = rejoins \cup {u}
          /\ timeline' = IF u \in rejoins THEN timeline ELSE Append(timeline, RejoinOp(u))
          /\ stale'    = IF u \in rejoins \/ presence[u] = "disconnected" THEN stale
                         ELSE stale \cup {u}
     ELSE /\ MoveTo(c, "closed")
          /\ UNCHANGED <<rejoins, timeline, stale>>
  /\ UNCHANGED <<phase, lobby, players, participants, presence, gone,
                 durable, lane, bounds, slipped>>

\* The client goes away while its rejoin waits; the operation stays queued.
GiveUpRejoin(c) ==
  /\ conn[c].at = "rejoining"
  /\ MoveTo(c, "closed")
  /\ UNCHANGED <<durable, live, lane, bounds, history>>

(***************************************************************************)
(* Leaving, and losing the transport.                                      *)
(***************************************************************************)
Leave(c) ==
  /\ conn[c].at = "open"
  /\ MoveTo(c, "leaving")
  /\ UNCHANGED <<durable, live, lane, bounds, history>>

\* leave, once lockSettled returned: the phase is not "starting" anymore. In a
\* running game the participant is disconnected at once.
LeaveSettled(c) ==
  LET u == conn[c].user
      stops == PlaysHere(u) /\ IsCurrent(c) /\ presence[u] # "disconnected"
  IN
  /\ conn[c].at \in {"leaving", "replaced"}
  /\ phase # "starting"
  /\ MoveTo(c, IF IsOpen(c) THEN "closing" ELSE "replaced")
  /\ IF phase = "lobby" THEN LeaveLobby(c)
     ELSE /\ presence' = IF stops THEN [presence EXCEPT ![u] = "disconnected"] ELSE presence
          /\ timeline' = IF stops THEN Append(timeline, DisconnectedOp(u)) ELSE timeline
          /\ UNCHANGED <<phase, lobby, players, participants, rejoins, gone>>
  /\ UNCHANGED <<durable, lane, bounds, history>>

\* Mutant: the transport of a connection since replaced counts too.
DetachesWhoever(c) ==
  PlaysHere(conn[c].user) /\ presence[conn[c].user] = "attached"
\* detachPlayer: it is the transport that made its participant attached.
Detaches(c) ==
  PlaysHere(conn[c].user) /\ IsCurrent(c) /\ presence[conn[c].user] = "attached"

\* Disconnect's critical section: the frozen lobby keeps the player. The
\* Disconnect that follows a leave finds the user gone from the lobby, or
\* disconnected, and changes nothing; a replaced connection's is to find out.
Disconnect(c) ==
  LET u == conn[c].user IN
  /\ conn[c].at \in {"open", "leaving", "replaced"}
  /\ MoveTo(c, IF ~IsOpen(c) THEN "closed"
               ELSE IF phase = "starting" THEN "closingFrozen" ELSE "closing")
  /\ IF phase = "lobby" THEN LeaveLobby(c)
     ELSE /\ presence' = IF Detaches(c) THEN [presence EXCEPT ![u] = "awaiting"] ELSE presence
          /\ UNCHANGED <<phase, lobby, players, participants, timeline, rejoins, gone>>
  /\ UNCHANGED <<durable, lane, bounds, history>>

\* player.end, outside the lock.
EndConnection(c) ==
  /\ conn[c].at \in {"closing", "closingFrozen"}
  /\ MoveTo(c, "closed")
  /\ slipped' = IF conn[c].at = "closingFrozen" /\ phase # "starting"
                THEN slipped \cup {c} ELSE slipped
  /\ UNCHANGED <<durable, live, lane, bounds, stale>>

(***************************************************************************)
(* A Start attempt, and the recovery of a game the database runs: the lane *)
(* freezes the lobby, works without the lock, and then completes the start *)
(* or returns to the lobby.                                                *)
(***************************************************************************)
LaneAt(at) == lane.at = at
LaneTo(at) == lane' = [lane EXCEPT !.at = at]
LaneIdle   == lane' = IdleLane
LaneEnds(why) == lane' = [lane EXCEPT !.at = "ending", !.cause = why]

\* beginStart
Freeze ==
  /\ phase = "lobby"
  /\ phase' = "starting"
  /\ participants' = lobby
  /\ UNCHANGED <<lobby, players, presence, timeline, rejoins, gone>>

RequestStart ==
  /\ LaneAt("idle")
  /\ starts < MaxStarts
  /\ starts' = starts + 1
  /\ Freeze
  /\ lane' = [IdleLane EXCEPT !.at = "checking", !.roster = lobby]
  /\ UNCHANGED <<durable, conn, faults, history>>

\* recoverSession on the lane. A game finishing or ended here answers the
\* connection that the Session ended.
RequestRecovery(c) ==
  /\ conn[c].at = "recovering"
  /\ LaneAt("idle")
  /\ \/ /\ Freeze
        /\ lane' = [IdleLane EXCEPT !.at = "limits", !.for = c]
        /\ UNCHANGED conn
     \/ /\ phase = "finishing"
        /\ MoveTo(c, "closed")
        /\ UNCHANGED <<live, lane>>
  /\ UNCHANGED <<durable, bounds, history>>

\* CheckStartEligibility and FrontendAccess; refusing for the player count or
\* an unavailable game cancels the attempt as a failed call does. A game's
\* manifest needs at least one player.
CheckStart ==
  /\ LaneAt("checking")
  /\ \/ db.status = Lobby /\ lane.roster # {} /\ LaneTo("scripting") /\ UNCHANGED faults
     \/ db.status = Running /\ LaneTo("loading") /\ UNCHANGED faults
     \/ (db.status \in TerminalStatus \/ lane.roster = {}) /\ LaneTo("cancelling") /\ UNCHANGED faults
     \/ Fault /\ LaneTo("cancelling")
  /\ UNCHANGED <<durable, live, conn, starts, history>>

\* startGame: no capacity cancels, a script failing twice ends the Session.
RunScript ==
  /\ LaneAt("scripting")
  /\ \/ LaneTo("committing") /\ UNCHANGED faults
     \/ Fault /\ (LaneTo("cancelling") \/ LaneEnds("GAME_START_FAILURE"))
  /\ UNCHANGED <<durable, live, conn, starts, history>>

\* CommitStart: the row, its roster and first checkpoint together. Its answer
\* may be lost whether or not it committed.
CommitStart ==
  /\ LaneAt("committing")
  /\ \/ /\ db.status = Lobby
        /\ db' = [db EXCEPT !.status = Running, !.roster = lane.roster,
                            !.gone = {}, !.disconnected = {}]
        /\ \/ LaneTo("completing") /\ UNCHANGED faults
           \/ Fault /\ LaneTo("cancelling")
     \/ db.status # Lobby /\ LaneTo("cancelling") /\ UNCHANGED <<db, faults>>
     \/ Fault /\ LaneTo("cancelling") /\ UNCHANGED db
  /\ UNCHANGED <<offered, live, conn, starts, history>>

\* recoverFrozenLobby: a Session past its lifetime is ended instead.
CheckLifetime ==
  /\ LaneAt("limits")
  /\ \/ LaneTo("loading") /\ UNCHANGED faults
     \/ Fault /\ (LaneTo("cancelling") \/ LaneEnds("MAX_LIFETIME"))
  /\ UNCHANGED <<durable, live, conn, starts, history>>

\* Mutant: the lobby this attempt froze plays the committed game.
FrozenRoster == participants
\* Who plays a game the database already runs.
CommittedRoster == db.roster

\* adoptRunningSession: the committed roster and latest checkpoint, in a
\* restored context.
LoadRunning ==
  /\ LaneAt("loading")
  /\ \/ /\ db.status = Running
        /\ lane' = [lane EXCEPT !.at = "completing", !.roster = CommittedRoster,
                                !.resumed = db.disconnected]
        /\ gone' = db.gone
        /\ UNCHANGED faults
     \/ /\ db.status # Running
        /\ lane' = [lane EXCEPT !.at = "cancelling", !.answer = "recovered"]
        /\ UNCHANGED <<gone, faults>>
     \/ Fault /\ LaneTo("cancelling") /\ UNCHANGED gone
  /\ UNCHANGED <<durable, phase, lobby, players, participants, presence,
                 timeline, rejoins, conn, starts, history>>

\* completeStart: the committed roster plays; whoever has no open connection
\* has the grace to attach one; anyone else in the lobby is ended.
CompleteStart ==
  LET roster == lane.roster
      plays(u) == u \in roster \ lane.resumed
      dropped == {u \in Users : IsOpen(players[u]) /\ ~plays(u)}
  IN
  /\ LaneAt("completing")
  /\ LaneIdle
  /\ IF phase = "starting"
     THEN /\ phase' = "running"
          /\ participants' = roster
          /\ lobby' = {}
          /\ presence' = [u \in Users |->
               IF u \notin roster THEN "none"
               ELSE IF u \in lane.resumed THEN "disconnected"
               ELSE IF IsOpen(players[u]) THEN "attached" ELSE "awaiting"]
          /\ players' = [u \in Users |->
               IF u \in dropped \/ u \notin roster THEN NoConn ELSE players[u]]
          /\ conn' = [c \in Conns |->
               IF \E u \in dropped : players[u] = c THEN [conn[c] EXCEPT !.at = "closed"]
               ELSE IF c = lane.for THEN [conn[c] EXCEPT !.at = "recovered"] ELSE conn[c]]
          /\ UNCHANGED <<timeline, rejoins, gone>>
     ELSE /\ conn' = [c \in Conns |-> IF c = lane.for THEN [conn[c] EXCEPT !.at = "recovered"] ELSE conn[c]]
          /\ UNCHANGED live
  /\ UNCHANGED <<durable, bounds, history>>

\* Mutant: nobody leaves the lobby when the attempt is cancelled.
EveryoneStays == lobby
\* Whoever's connection did not end during the Start attempt.
StillConnected == {u \in lobby : IsOpen(players[u])}

\* cancelStart: the others leave the lobby now.
CancelStart ==
  /\ LaneAt("cancelling")
  /\ LaneIdle
  /\ conn' = [c \in Conns |-> IF c = lane.for THEN [conn[c] EXCEPT !.at = lane.answer] ELSE conn[c]]
  /\ IF phase = "starting"
     THEN /\ phase' = "lobby"
          /\ participants' = {}
          /\ lobby' = StillConnected
          /\ players' = [u \in Users |-> IF u \in lobby \ StillConnected THEN NoConn ELSE players[u]]
          /\ UNCHANGED <<presence, timeline, rejoins, gone>>
     ELSE UNCHANGED live
  /\ UNCHANGED <<durable, bounds, history>>

(***************************************************************************)
(* Boundaries: the lane takes what the timeline accepted, executes it      *)
(* without the lock, and commits what the game answered.                   *)
(***************************************************************************)
\* Mutants: what still waits for the game is not looked at; or every user known
\* here is, who plays or not.
AbandonedUntold ==
  phase = "running" /\ \A u \in participants : presence[u] = "disconnected"
AbandonedByAllUsers ==
  phase = "running" /\ timeline = <<>> /\ \A u \in Users : presence[u] = "disconnected"

\* isAbandoned
Abandoned ==
  /\ phase = "running"
  /\ \A u \in participants : presence[u] = "disconnected"
  /\ timeline = <<>>

\* takeBoundary: the participants in expired ran out of their grace, or of
\* their recovery window. What it takes may also hold commands, inputs and
\* update(), which say nothing about presence: the work may be empty here. With
\* nothing at all the boundary only looks whether anyone still plays.
TakeBoundary(expired) ==
  LET accepted == timeline \o [i \in 1..Cardinality(expired) |-> DisconnectedOp(SetToSeq(expired)[i])]
      taken == IF Len(accepted) < BoundaryOperations THEN Len(accepted) ELSE BoundaryOperations
  IN
  /\ LaneAt("idle")
  /\ phase = "running"
  /\ \A u \in expired : u \in participants /\ presence[u] = "awaiting"
  /\ presence' = [u \in Users |-> IF u \in expired THEN "disconnected" ELSE presence[u]]
  /\ timeline' = SubSeq(accepted, taken + 1, Len(accepted))
  /\ \/ lane' = [IdleLane EXCEPT !.at = "executing", !.work = SubSeq(accepted, 1, taken)]
     \/ accepted = <<>> /\ Abandoned /\ lane' = [IdleLane EXCEPT !.at = "deciding"]
  /\ UNCHANGED <<phase, lobby, players, participants, rejoins, gone,
                 durable, conn, bounds, history>>

\* What the game believes after running ops, taking back those in accepted.
GoneAfter(ops, accepted) ==
  {u \in Users :
     LET told == {i \in DOMAIN ops :
                    ops[i].user = u /\ (ops[i].kind = "disconnected" \/ u \in accepted)}
     IN IF told = {} THEN u \in gone
        ELSE \E i \in told : ops[i].kind = "disconnected" /\ \A j \in told : j <= i}

\* commitBoundary, decideRejoin. A boundary that finishes the game commits
\* only what it executed; one whose Session ended meanwhile commits nothing.
CommitBoundary(executed, accepted, finished) ==
  LET ops == SubSeq(lane.work, 1, executed)
      decided == {u \in Users : Waits(ops, RejoinOp(u))}
  IN
  /\ LaneAt("executing")
  /\ finished \/ executed = Len(lane.work)
  /\ accepted \subseteq decided
  /\ IF phase # "running"
     THEN LaneIdle /\ UNCHANGED <<live, conn>>
     ELSE /\ gone' = GoneAfter(ops, accepted)
          /\ rejoins' = rejoins \ decided
          /\ presence' = [u \in Users |-> IF u \in accepted THEN "awaiting" ELSE presence[u]]
          /\ conn' = [c \in Conns |->
               IF conn[c].at = "rejoining" /\ conn[c].user \in decided
               THEN [conn[c] EXCEPT !.at = IF conn[c].user \in accepted THEN "accepted" ELSE "closed"]
               ELSE conn[c]]
          /\ phase' = IF finished THEN "finishing" ELSE phase
          /\ lane' = IF finished
                     THEN [IdleLane EXCEPT !.at = "ending", !.cause = "GAME_FINISHED"]
                     ELSE [IdleLane EXCEPT !.at = "committed"]
          /\ UNCHANGED <<lobby, players, participants, timeline>>
  /\ UNCHANGED <<durable, bounds, history>>

\* Mutants: the work goes back behind what was accepted since, or is lost.
RequeuedBehind == timeline \o lane.work
RequeuedLost   == timeline
\* requeue: ahead of what was accepted since.
Requeued == lane.work \o timeline

\* An infrastructure failure puts the work back. Too many in a row end the Session, as a script failing
\* twice does, which loses the work.
FailBoundary ==
  /\ LaneAt("executing")
  /\ Fault
  /\ \/ /\ timeline' = IF phase = "running" THEN Requeued ELSE timeline
        /\ lane' \in {IdleLane, [IdleLane EXCEPT !.at = "ending", !.cause = "UNRECOVERABLE_INFRA_FAILURE"]}
     \/ LaneEnds("SCRIPT_FAILURE") /\ UNCHANGED timeline
  /\ UNCHANGED <<phase, lobby, players, participants, presence, rejoins, gone,
                 durable, conn, starts, history>>

\* Mutant: what the controller knows, told to the game or not.
CheckpointOfPresence ==
  [gone |-> gone,
   disconnected |-> {u \in participants : presence[u] = "disconnected"}]

\* checkpoint: one the game was not told about yet is still playing in its state.
Checkpoint ==
  [gone |-> gone,
   disconnected |-> {u \in participants :
     presence[u] = "disconnected" /\ ~Waits(timeline, DisconnectedOp(u))}]

\* offerCheckpoint, when the interval passed; a newer one replaces it.
OfferCheckpoint ==
  /\ LaneAt("committed")
  /\ LaneTo("deciding")
  /\ offered' \in {offered} \cup (IF phase = "running" THEN {Checkpoint} ELSE {})
  /\ UNCHANGED <<db, live, conn, bounds, history>>

EndIfAbandoned ==
  /\ LaneAt("deciding")
  /\ IF Abandoned THEN LaneEnds("ALL_PLAYERS_LEFT") ELSE LaneIdle
  /\ UNCHANGED <<durable, live, conn, bounds, history>>

\* The checkpoint writer's own goroutine; a failed write waits for the next.
WriteCheckpoint ==
  /\ offered # NoOffer
  /\ offered' = NoOffer
  /\ \/ /\ db' = IF db.status = Running
                 THEN [db EXCEPT !.gone = offered.gone, !.disconnected = offered.disconnected]
                 ELSE db
        /\ UNCHANGED faults
     \/ Fault /\ UNCHANGED db
  /\ UNCHANGED <<live, lane, conn, starts, history>>

(***************************************************************************)
(* Ending the Session: durably first, then live.                           *)
(***************************************************************************)
AbortCauses == {"SCRIPT_FAILURE", "UNRECOVERABLE_INFRA_FAILURE"}

\* isLive: what cancelSession and the lifetime limit look at first.
IsLive == phase \in {"lobby", "running"}

\* cancelSession, enforceLimits and TerminateSession, by what they check first.
AskEnd(cause) ==
  /\ LaneAt("idle")
  /\ phase # "ended"
  /\ cause \in {"HOST_CANCELLED", "MAX_LIFETIME"} => IsLive
  /\ cause = "LOBBY_EXPIRED" => phase = "lobby"
  /\ cause = "INACTIVITY_TIMEOUT" => phase = "running"
  /\ lane' = [IdleLane EXCEPT !.at = "ending", !.cause = cause]
  /\ UNCHANGED <<durable, live, conn, bounds, history>>

\* finishGame, retried at every tick until the ending is durable.
FinishGame ==
  /\ LaneAt("idle")
  /\ phase = "finishing"
  /\ lane' = [IdleLane EXCEPT !.at = "ending", !.cause = "GAME_FINISHED"]
  /\ UNCHANGED <<durable, live, conn, bounds, history>>

EndedFor(cause) == [db EXCEPT !.status = EndingStatus(cause), !.cause = cause]

\* Mutant: the outcome is not looked at.
AnswerUnread(status) == "telling"
\* endSession: a Session still live is told nothing.
Answer(status) == IF status \in TerminalStatus THEN "telling" ELSE "endFailed"

\* EndSession in the database. A cause that does not apply to a live Session
\* changes nothing and says so; an error leaves open whether it committed.
EndDurably ==
  LET applies == db.status \in EndingFrom(lane.cause)
      ended == IF applies THEN EndedFor(lane.cause) ELSE db
  IN
  /\ LaneAt("ending")
  /\ \/ /\ db' = ended
        /\ LaneTo(Answer(ended.status))
        /\ UNCHANGED faults
     \/ Fault /\ db' \in {db, ended} /\ LaneTo("endFailed")
  /\ UNCHANGED <<offered, live, conn, starts, history>>

TellEnd ==
  /\ LaneAt("telling")
  /\ LaneIdle
  /\ IF phase # "ended" THEN End("told", {lane.for})
     ELSE /\ conn' = [c \in Conns |-> IF c = lane.for THEN [conn[c] EXCEPT !.at = "closed"] ELSE conn[c]]
          /\ UNCHANGED live
  /\ UNCHANGED <<durable, bounds, history>>

\* A game that cannot go on ends here anyway, telling no durable ending; a
\* Start attempt is cancelled; anything else stays as it is, to be tried again.
EndFailed ==
  /\ LaneAt("endFailed")
  /\ \/ /\ lane.cause \in AbortCauses
        /\ LaneIdle
        /\ IF phase = "running" THEN End("closed", {}) ELSE UNCHANGED <<live, conn>>
     \/ /\ lane.cause = "GAME_START_FAILURE" \/ lane.for # NoConn
        /\ LaneTo("cancelling")
        /\ UNCHANGED <<live, conn>>
     \/ /\ lane.cause \notin AbortCauses \cup {"GAME_START_FAILURE"}
        /\ lane.for = NoConn
        /\ LaneIdle
        /\ UNCHANGED <<live, conn>>
  /\ UNCHANGED <<durable, bounds, history>>

\* The heartbeat's goroutine: the database says the game already ended.
EndElsewhere ==
  /\ phase \in {"running", "finishing"}
  /\ db.status \in TerminalStatus
  /\ End("told", {})
  /\ UNCHANGED <<durable, lane, bounds, history>>

(***************************************************************************)
(* What happens around the controller.                                     *)
(***************************************************************************)
\* Reconciliation ends an expired lobby or a game whose owner seems lost.
Reconcile ==
  /\ db.status \in LiveStatus
  /\ Fault
  /\ db' = EndedFor(IF db.status = Lobby THEN "LOBBY_EXPIRED" ELSE "OWNER_LOST")
  /\ UNCHANGED <<offered, live, lane, conn, starts, history>>

\* retire: a connection arrived under a newer owner epoch.
Retire ==
  /\ phase # "ended"
  /\ Fault
  /\ End("closed", {})
  /\ UNCHANGED <<durable, lane, starts, history>>

LoseConnections ==
  conn' = [c \in Conns |-> IF conn[c].at \in OpenAt \cup AttachAt \cup {"replaced"}
                           THEN [conn[c] EXCEPT !.at = "closed"] ELSE conn[c]]

\* The instance dies, or shuts down leaving the Session to its next owner. One
\* that ended durably has nothing left to lose.
Crash ==
  /\ db.status \in LiveStatus
  /\ Fault
  /\ FreshController
  /\ LoseConnections
  /\ UNCHANGED <<db, starts, history>>

\* The ended controller's goroutine returned; the next connection to a live
\* Session makes a new one.
Renew ==
  /\ phase = "ended"
  /\ LaneAt("idle")
  /\ db.status \in LiveStatus
  /\ FreshController
  /\ LoseConnections
  /\ UNCHANGED <<db, bounds, history>>

AttachStep(c) ==
  \/ CheckEligibility(c) \/ JoinLobby(c) \/ RecoveryNotNeeded(c)
  \/ RequestRecovery(c) \/ Reattach(c) \/ AskRejoin(c)

PlayerStep(c) ==
  \/ \E u \in Users : Connect(c, u)
  \/ AttachStep(c) \/ GiveUpRejoin(c)
  \/ Leave(c) \/ LeaveSettled(c) \/ Disconnect(c) \/ EndConnection(c)

LaneStep ==
  \/ CheckStart \/ RunScript \/ CommitStart \/ CheckLifetime \/ LoadRunning
  \/ CompleteStart \/ CancelStart
  \/ \E executed \in 0..Len(lane.work), accepted \in SUBSET Users, finished \in BOOLEAN :
       CommitBoundary(executed, accepted, finished)
  \/ FailBoundary \/ OfferCheckpoint \/ EndIfAbandoned
  \/ FinishGame \/ EndDurably \/ TellEnd \/ EndFailed

Next ==
  \/ \E c \in Conns : PlayerStep(c)
  \/ RequestStart
  \/ \E expired \in SUBSET Users : TakeBoundary(expired)
  \/ LaneStep
  \/ WriteCheckpoint
  \/ \E cause \in AskedCauses : AskEnd(cause)
  \/ EndElsewhere \/ Reconcile \/ Retire \/ Crash \/ Renew

Spec == Init /\ [][Next]_vars

\* The lane keeps working and ticking, a tick finds out the graces that ran
\* out, and a goroutine that can go on or take the lock does. Nobody has to
\* start, play, leave or end anything, and no call has to fail.
Fairness ==
  /\ WF_vars(LaneStep)
  /\ SF_vars(TakeBoundary({u \in Users : presence[u] = "awaiting"}))
  /\ \A c \in Conns : SF_vars(AttachStep(c) \/ LeaveSettled(c) \/ EndConnection(c))

FairSpec == Spec /\ Fairness

(***************************************************************************)
(* Safety.                                                                 *)
(***************************************************************************)
\* While the lobby is open or frozen, its members are exactly the users with a
\* connection, within the game's maximum, each through a connection of their
\* own that did not end (joinLobby, leaveLobby, cancelStart, completeStart) --
\* but for a connection whose end came too late for cancelStart.
LobbyIsWhoIsConnected ==
  phase \in {"lobby", "starting"} =>
    /\ lobby = {u \in Users : players[u] # NoConn}
    /\ Cardinality(lobby) <= MaxPlayers
    /\ \A u \in lobby :
         /\ conn[players[u]].user = u
         /\ phase = "lobby" => IsOpen(players[u]) \/ players[u] \in slipped

\* No connection stays open unknown to the controller, which would never tell
\* it anything again: an admitted connection is its user's current one.
NobodyIsForgotten ==
  \A c \in Conns : conn[c].at \in {"open", "leaving"} => players[conn[c].user] = c

\* In a running game a participant counts as attached only through an open
\* connection, and one with an open connection is never left waiting for a
\* grace to run out (detachPlayer, reattachPlayer, completeStart) -- but for
\* an end that came too late, and for a rejoin asked while they played.
PresenceFollowsTransport ==
  phase = "running" => \A u \in participants :
    /\ presence[u] = "attached" => IsOpen(players[u]) \/ players[u] \in slipped
    /\ u \notin stale /\ IsOpen(players[u]) /\ conn[players[u]].at # "closing"
         => presence[u] = "attached"

\* Once nothing about a participant waits in the timeline or in the boundary
\* being executed, the game and the controller agree on whether they play:
\* through failed boundaries put back, split boundaries, rejoins shared,
\* refused and accepted, crashes and recoveries from a checkpoint -- but for a
\* rejoin asked while they played.
GameAgrees ==
  phase = "running" => \A u \in participants \ stale :
    (\A op \in {DisconnectedOp(u), RejoinOp(u)} : ~Waits(timeline \o lane.work, op))
      => (u \in gone <=> presence[u] = "disconnected")

\* The checkpoint a crash falls back to is consistent: who it says were
\* disconnected is who its game state was told about (Checkpoint, CommitStart).
RecoveryAgrees ==
  db.gone \ stale = db.disconnected \ stale

\* The game that runs here is the one the database committed, with the roster
\* committed, whatever the lobby looked like when its answer was lost
\* (CommitStart, adoptRunningSession).
RunsTheCommittedGame ==
  phase \in {"running", "finishing"} =>
    /\ db.status \notin {Lobby} /\ db.cause # "LOBBY_EXPIRED"
    /\ participants = db.roster

\* What AttachPlayer, detachPlayer and end together promise of presence: who
\* the lobby and the game count on is who is connected, and nobody connected
\* is forgotten.
PresenceAgrees == LobbyIsWhoIsConnected /\ PresenceFollowsTransport /\ NobodyIsForgotten

\* The game, the controller and what a crash falls back to agree on the
\* Session being played and on who plays it.
GamesAgree == GameAgrees /\ RecoveryAgrees /\ RunsTheCommittedGame

\* A connection told the Session ended was told a durable ending, even when
\* the end could not be written (endSession, abort, endElsewhere).
ToldEndingsAreDurable ==
  (\E c \in Conns : conn[c].at = "told") => db.status \in TerminalStatus

\* A Session is cancelled as abandoned only once the game was told about each
\* participant (endIfAbandoned).
AbandonedOnlyOnceTold ==
  [][db'.cause = "ALL_PLAYERS_LEFT" /\ db.cause # "ALL_PLAYERS_LEFT"
       => db.roster \ stale \subseteq gone]_vars

\* "A cancelled Start attempt takes them out of the lobby then. In a running
\* game they keep playing for the transport grace" (step_attach_player.go): a
\* player whose connection ended neither stays in the lobby nor counts as
\* having a transport.
DisconnectsTakeEffect ==
  \A u \in Users :
    \/ phase = "lobby" /\ u \in lobby
    \/ phase = "running" /\ presence[u] = "attached"
    => IsOpen(players[u])

\* "A participant who left can come back only through rejoin, and only if the
\* game accepts it" (SESSION-ADR-0032): whoever plays, with nothing of theirs
\* waiting for the game, plays as far as the game knows.
OnlyTheGameLetsThemBack ==
  phase = "running" => \A u \in participants :
    presence[u] = "attached" /\ ~Waits(timeline \o lane.work, RejoinOp(u)) => u \notin gone

(***************************************************************************)
(* Liveness.                                                               *)
(***************************************************************************)
\* Every attempt to attach is admitted or refused, and every leave is applied,
\* whatever Start attempt, recovery, rejoin or end they wait for (lockSettled,
\* recoverIfNeeded, rejoin, end).
CallsAreAnswered ==
  \A c \in Conns : conn[c].at \in AttachAt \cup {"leaving"}
                     ~> conn[c].at \notin AttachAt \cup {"leaving"}

\* A participant without a transport comes back, or the game is told they
\* stopped playing, unless the game stops running (expireGraces, requeue).
TheGameIsTold ==
  \A u \in Users : phase = "running" /\ presence[u] = "awaiting"
                     ~> phase # "running" \/ presence[u] = "attached" \/ u \in gone

\* A game nobody plays does not run on: it ends, or someone comes back
\* (endIfAbandoned, tried again at the next boundary).
NobodyPlaysAnEmptyGame ==
  phase = "running" /\ (\A u \in participants : presence[u] = "disconnected")
    ~> phase # "running" \/ (\E u \in participants : presence[u] # "disconnected")
=============================================================================
